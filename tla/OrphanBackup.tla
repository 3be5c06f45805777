---------------------------- MODULE OrphanBackup ----------------------------
(***************************************************************************)
(* BACKUP_ORPHAN: maildirs without an account, backed up through a         *)
(* temporary mailbox row and, when their domain is unknown, a transient    *)
(* inactive domain row.  All users here are of one domain.                 *)
(*                                                                         *)
(* Runners drain as in TaskQueue and keep their lease until they end or    *)
(* die.  Raw SQL takes effect at once; what is persisted in the            *)
(* EntityManager waits for a flush.  The backup directory is left out:     *)
(* what counts here is that an archive row leads to it.                    *)
(***************************************************************************)
EXTENDS Integers, FiniteSets

CONSTANTS
    Users,      \* the names of maildirs
    Tasks,      \* ids of `mailbox_task`
    For,        \* the username of each task
    Runners,
    NoTask, NoRow, Real,    \* no task; no mailbox row, an account's row
    Mails,      \* messages in a maildir that has mail
    MaxDomains, \* bound: ids of the domain
    MaxFailures, MaxDeaths

ASSUME TasksOfUsers == For \in [Tasks -> Users] /\ Mails \in Nat
ASSUME NoneIsTask ==
    NoTask \notin Tasks /\ NoRow \notin Tasks /\ Real \notin Tasks /\ NoRow # Real
ASSUME OrphanBounds == MaxDomains \in Nat \ {0} /\ MaxFailures \in Nat /\ MaxDeaths \in Nat

VARIABLES
    store,      \* messages left in each maildir
    home,       \* the maildirs there are
    row,        \* the mailbox row: none, an account's, or the task a temporary one names
    dom, doms,  \* id of the domain row, 0 if none; the last id given
    domLog,     \* a `log` row refers to the domain
    arch,       \* users with an archive row
    st,         \* status of each task
    batch, task, pc,    \* each runner: tasks fetched, the one in hand, where it is
    own,        \* the runners that know the id of a temporary row ($tempId)
    ref,        \* the domain it put into the task ($task->setDomain), or 0
    made,       \* the domain it created ($tempDomainId), or 0
    staged,     \* the domain of the archive row it has to flush, or 0
    closed,     \* runners whose EntityManager refuses to flush
    bad,        \* runners whose task has failed
    failures, deaths,
    had, taken, lost    \* history: users with mail at first; users whose temporary row
                        \* became an account; users whose staged row was lost

disk == <<store, home>>
db   == <<row, dom, doms, domLog, arch, st>>
work == <<batch, task, pc, own, ref, made, staged, closed, bad>>
orphanVars == <<disk, db, work, failures, deaths, had, taken, lost>>

U(w) == For[task[w]]
OpenTasks == {t \in Tasks : st[t] \in {"PENDING", "RUNNING"}}
Held == {task[w] : w \in Runners}

Init ==
    /\ had \in SUBSET Users
    /\ store = [u \in Users |-> IF u \in had THEN Mails ELSE 0] /\ home = Users
    /\ row = [u \in Users |-> NoRow]
    /\ dom \in {0, 1} /\ doms = 1 /\ domLog = FALSE
    /\ arch = {} /\ st = [t \in Tasks |-> "none"]
    /\ batch = [w \in Runners |-> {}] /\ task = [w \in Runners |-> NoTask]
    /\ pc = [w \in Runners |-> "idle"]
    /\ own = {} /\ closed = {} /\ bad = {}
    /\ ref = [w \in Runners |-> 0] /\ made = ref /\ staged = ref
    /\ failures = 0 /\ deaths = 0 /\ taken = {} /\ lost = {}

TypeOK ==
    /\ store \in [Users -> 0..Mails] /\ home \subseteq Users /\ had \subseteq Users
    /\ row \in [Users -> Tasks \cup {NoRow, Real}]
    /\ dom \in 0..doms /\ doms \in 1..MaxDomains /\ domLog \in BOOLEAN
    /\ arch \subseteq Users /\ taken \subseteq Users /\ lost \subseteq Users
    /\ st \in [Tasks -> {"none", "PENDING", "RUNNING", "DONE", "FAILED", "ABANDONED"}]
    /\ batch \in [Runners -> SUBSET Tasks] /\ task \in [Runners -> Tasks \cup {NoTask}]
    /\ \A w \in Runners : task[w] = NoTask <=> pc[w] \in {"idle", "ready"}
    /\ own \cup closed \cup bad \subseteq {w \in Runners : task[w] # NoTask}
    /\ \A w \in Runners : {ref[w], made[w], staged[w]} \subseteq 0..doms
    /\ arch # {} => dom # 0
    /\ failures \in 0..MaxFailures /\ deaths \in 0..MaxDeaths

\* The users whose archive row these runners have staged.
Recorded(ws) == {U(w) : w \in {x \in ws : staged[x] # 0}}

Goto(w, l) == pc' = [pc EXCEPT ![w] = l]

\* The task fails: outside of the try block, or with its finally block to run.
Throw(w, l) == bad' = bad \cup {w} /\ Goto(w, l)
Fault == failures < MaxFailures /\ failures' = failures + 1
Sound == UNCHANGED failures
Keep  == UNCHANGED <<deaths, had, taken>>

-----------------------------------------------------------------------------
(* The queue.                                                              *)

\* From a scan that saw the maildir unmanaged; one open task per username.
Enqueue(t) ==
    /\ st[t] = "none"
    /\ \A x \in OpenTasks : For[x] # For[t]
    /\ st' = [st EXCEPT ![t] = "PENDING"]
    /\ UNCHANGED <<disk, row, dom, doms, domLog, arch, work, failures, deaths, had, taken, lost>>

Retry(t) ==
    /\ st[t] = "FAILED"
    /\ \A x \in OpenTasks : For[x] # For[t]
    /\ st' = [st EXCEPT ![t] = "PENDING"]
    /\ UNCHANGED <<disk, row, dom, doms, domLog, arch, work, failures, deaths, had, taken, lost>>

\* Part of every drain, once the lease of the dead runner is stale.
Reap(t) ==
    /\ st[t] = "RUNNING" /\ t \notin Held
    /\ st' = [st EXCEPT ![t] = "ABANDONED"]
    /\ UNCHANGED <<disk, row, dom, doms, domLog, arch, work, failures, deaths, had, taken, lost>>

\* Mutant: the sweep does not look at the task.
SweptAny == {u \in Users : row[u] \in Tasks}

\* Mutant: the sweep waits for the task to fail.
SweptFailed == {u \in Users : row[u] \in Tasks /\ st[row[u]] = "FAILED"}

\* Temporary rows that name no running task.
Swept == {u \in Users : row[u] \in Tasks /\ st[row[u]] # "RUNNING"}

\* A drain begins: the sweep, then the batch.
Start(w) ==
    /\ pc[w] = "idle"
    /\ row' = [u \in Users |-> IF u \in Swept THEN NoRow ELSE row[u]]
    /\ batch' = [batch EXCEPT ![w] = {t \in Tasks : st[t] = "PENDING"}]
    /\ Goto(w, "ready")
    /\ UNCHANGED <<disk, dom, doms, domLog, arch, st, task, own, ref, made, staged, closed, bad,
                   failures, deaths, had, taken, lost>>

Claim(w, t) ==
    /\ pc[w] = "ready" /\ t \in batch[w]
    /\ batch' = [batch EXCEPT ![w] = @ \ {t}]
    /\ IF st[t] = "PENDING"
       THEN /\ st' = [st EXCEPT ![t] = "RUNNING"]
            /\ task' = [task EXCEPT ![w] = t]
            /\ Goto(w, "check")
       ELSE UNCHANGED <<st, task, pc>>
    /\ UNCHANGED <<disk, row, dom, doms, domLog, arch, own, ref, made, staged, closed, bad,
                   failures, deaths, had, taken, lost>>

\* The runner's next task, or its end, starts from nothing.
Forget(w, l) ==
    /\ Goto(w, l)
    /\ task' = [task EXCEPT ![w] = NoTask]
    /\ own' = own \ {w} /\ bad' = bad \ {w} /\ closed' = closed \ {w}
    /\ ref' = [ref EXCEPT ![w] = 0] /\ made' = [made EXCEPT ![w] = 0]
    /\ staged' = [staged EXCEPT ![w] = 0]

Leave(w) ==
    /\ pc[w] = "ready" /\ batch[w] = {}
    /\ Forget(w, "idle")
    /\ UNCHANGED <<disk, db, batch, failures, deaths, had, taken, lost>>

\* What a runner has staged is lost with it; its lease becomes stale.
Die(w) ==
    /\ pc[w] # "idle" /\ deaths < MaxDeaths /\ deaths' = deaths + 1
    /\ Forget(w, "idle") /\ batch' = [batch EXCEPT ![w] = {}]
    /\ lost' = lost \cup Recorded({w})
    /\ UNCHANGED <<disk, db, failures, had, taken>>

-----------------------------------------------------------------------------
(* backupOrphan.                                                           *)

\* An account is left alone; a row of an earlier attempt is adopted.
Check(w) ==
    /\ pc[w] = "check"
    /\ IF row[U(w)] \in {NoRow, task[w]} THEN Goto(w, "find") ELSE Goto(w, "publish")
    /\ own' = IF row[U(w)] = task[w] THEN own \cup {w} ELSE own
    /\ Sound /\ Keep
    /\ UNCHANGED <<disk, db, batch, task, ref, made, staged, closed, bad, lost>>

FindDomain(w) ==
    /\ pc[w] = "find"
    /\ Goto(w, IF dom = 0 THEN "make" ELSE "insert")
    /\ ref' = [ref EXCEPT ![w] = dom]
    /\ Sound /\ Keep
    /\ UNCHANGED <<disk, db, batch, task, own, made, staged, closed, bad, lost>>

\* The domain's name is unique: a second insert fails, before the try block.
MakeDomain(w) ==
    /\ pc[w] = "make"
    /\ IF dom = 0
       THEN /\ doms < MaxDomains /\ dom' = doms + 1 /\ doms' = dom' /\ domLog' = FALSE
            /\ ref' = [ref EXCEPT ![w] = dom'] /\ made' = [made EXCEPT ![w] = dom']
            /\ Goto(w, "insert") /\ UNCHANGED bad
       ELSE Throw(w, "publish") /\ UNCHANGED <<dom, doms, domLog, ref, made>>
    /\ Sound /\ Keep
    /\ UNCHANGED <<disk, row, arch, st, batch, task, own, staged, closed, lost>>

\* The username is unique, and the domain a foreign key.
InsertRow(w) ==
    /\ pc[w] = "insert"
    /\ IF w \in own THEN Goto(w, "probe") /\ UNCHANGED <<row, own, ref, bad>>
       ELSE IF row[U(w)] = NoRow /\ ref[w] = dom
       THEN /\ row' = [row EXCEPT ![U(w)] = task[w]] /\ own' = own \cup {w}
            /\ Goto(w, "probe") /\ UNCHANGED <<ref, bad>>
       ELSE Throw(w, "tidy") /\ ref' = [ref EXCEPT ![w] = 0] /\ UNCHANGED <<row, own>>
    /\ Sound /\ Keep
    /\ UNCHANGED <<disk, dom, doms, domLog, arch, st, batch, task, made, staged, closed, lost>>

\* A maildir that is gone may be found empty or give an error.
Probe(w) ==
    /\ pc[w] = "probe"
    /\ \/ store[U(w)] > 0 /\ Goto(w, "copy") /\ UNCHANGED bad
       \/ store[U(w)] = 0 /\ Goto(w, "remove") /\ UNCHANGED bad
       \/ U(w) \notin home /\ Throw(w, "tidy")
    /\ Sound /\ Keep
    /\ UNCHANGED <<disk, db, batch, task, own, ref, made, staged, closed, lost>>

\* doveadm backup, then recordArchive, which does not flush.
Copy(w) ==
    /\ pc[w] = "copy"
    /\ staged' = [staged EXCEPT ![w] = ref[w]]
    /\ Goto(w, "empty")
    /\ Sound /\ Keep
    /\ UNCHANGED <<disk, db, batch, task, own, ref, made, closed, bad, lost>>

\* mailboxDelete removes folder after folder; an error of it is a warning.
Empty(w) ==
    /\ pc[w] = "empty"
    /\ \E n \in 0..store[U(w)] :
         /\ store' = [store EXCEPT ![U(w)] = n]
         /\ IF n = 0 THEN Sound ELSE Fault
    /\ Goto(w, "remove")
    /\ Keep
    /\ UNCHANGED <<home, db, batch, task, own, ref, made, staged, closed, bad, lost>>

RemoveHome(w) ==
    /\ pc[w] = "remove"
    /\ IF store[U(w)] = 0
       THEN home' = home \ {U(w)} /\ Goto(w, "audit") /\ UNCHANGED bad
       ELSE Throw(w, "tidy") /\ UNCHANGED home
    /\ Sound /\ Keep
    /\ UNCHANGED <<store, db, batch, task, own, ref, made, staged, closed, lost>>

\* A request or a query of the try block fails.
Fails(w) ==
    /\ pc[w] \in {"insert", "probe", "copy", "remove"}
    /\ Fault /\ Throw(w, "tidy")
    /\ ref' = [ref EXCEPT ![w] = IF pc[w] = "insert" THEN 0 ELSE @]
    /\ Keep
    /\ UNCHANGED <<disk, db, batch, task, own, made, staged, closed, lost>>

\* The domain is a foreign key of the task and of the archive row.
Commits(w) == w \notin closed /\ {ref[w], staged[w]} \subseteq {0, dom}

\* logAudit flushes everything staged, with a log row of the domain; a flush
\* that fails closes the EntityManager, and its exception is swallowed.
Audit(w) ==
    /\ pc[w] = "audit"
    /\ \/ /\ Commits(w)
          /\ arch' = arch \cup Recorded({w})
          /\ staged' = [staged EXCEPT ![w] = 0] /\ domLog' = TRUE
          /\ Sound /\ UNCHANGED <<closed, lost>>
       \/ /\ IF Commits(w) THEN Fault ELSE Sound
          /\ closed' = closed \cup {w}
          /\ lost' = IF Commits(w) THEN lost \cup Recorded({w}) ELSE lost
          /\ UNCHANGED <<arch, staged, domLog>>
    /\ Goto(w, "tidy")
    /\ Keep
    /\ UNCHANGED <<disk, row, dom, doms, st, batch, task, own, ref, made, bad>>

\* deleteOrphanBackupTemp: only while the row is the temporary one of this
\* task; its failure is logged.
Tidy(w) ==
    /\ pc[w] = "tidy"
    /\ \/ /\ row' = [row EXCEPT ![U(w)] = IF w \in own /\ @ = task[w] THEN NoRow ELSE @]
          /\ Sound
       \/ w \in own /\ Fault /\ UNCHANGED row
    /\ Goto(w, "undomain")
    /\ Keep
    /\ UNCHANGED <<disk, dom, doms, domLog, arch, st, batch, task, own, ref, made, staged, closed, bad, lost>>

\* Mutant: a transient domain is always dropped.
KeepsNothing(w) == FALSE

\* The archive of this task will refer to the domain ($keepDomain), or does.
KeepsDomain(w) == staged[w] # 0 \/ U(w) \in arch

\* No mailbox, archive or log row refers to the domain.
Unreferenced == (\A u \in Users : row[u] = NoRow) /\ arch = {} /\ ~domLog

\* The transient domain is deleted if it can be.  After the audit of a maildir
\* without mail the log entity still refers to the detached domain, and the
\* EntityManager may refuse to flush.
Undomain(w) ==
    /\ pc[w] = "undomain"
    /\ IF made[w] # 0 /\ ~KeepsDomain(w)
       THEN /\ ref' = [ref EXCEPT ![w] = 0]
            /\ dom' = IF dom = made[w] /\ Unreferenced THEN 0 ELSE dom
            /\ lost' = IF dom' = dom THEN lost ELSE lost \cup Recorded(Runners \ {w})
            /\ UNCHANGED closed \/ (w \notin bad /\ closed' = closed \cup {w})
       ELSE UNCHANGED <<ref, dom, closed, lost>>
    /\ Goto(w, "publish")
    /\ Sound /\ Keep
    /\ UNCHANGED <<disk, row, doms, domLog, arch, st, batch, task, own, made, staged, bad>>

\* publishIfOwned flushes the outcome and what is still staged.
Publish(w) ==
    /\ pc[w] = "publish" /\ Commits(w)
    /\ st' = [st EXCEPT ![task[w]] = IF w \in bad THEN "FAILED" ELSE "DONE"]
    /\ arch' = arch \cup Recorded({w})
    /\ Forget(w, "ready")
    /\ Sound /\ Keep
    /\ UNCHANGED <<disk, row, dom, doms, domLog, batch, lost>>

\* It cannot: the exception ends the drain, and the task waits to be reaped.
Unpublished(w) ==
    /\ pc[w] = "publish"
    /\ IF Commits(w) THEN Fault ELSE Sound
    /\ lost' = IF Commits(w) THEN lost \cup Recorded({w}) ELSE lost
    /\ Forget(w, "idle") /\ batch' = [batch EXCEPT ![w] = {}]
    /\ Keep
    /\ UNCHANGED <<disk, db>>

-----------------------------------------------------------------------------
(* The operator, whose every change of an account or domain is logged.     *)

Create(u) ==
    /\ row[u] = NoRow /\ dom # 0
    /\ row' = [row EXCEPT ![u] = Real] /\ domLog' = TRUE
    /\ UNCHANGED <<disk, dom, doms, arch, st, work, failures, deaths, had, taken, lost>>

\* The temporary row is activated or given a password.
Take(u) ==
    /\ row[u] \in Tasks
    /\ row' = [row EXCEPT ![u] = Real] /\ domLog' = TRUE
    /\ taken' = taken \cup {u}
    /\ UNCHANGED <<disk, dom, doms, arch, st, work, failures, deaths, had, lost>>

AddDomain ==
    /\ dom = 0 /\ doms < MaxDomains
    /\ dom' = doms + 1 /\ doms' = dom' /\ domLog' = TRUE
    /\ UNCHANGED <<disk, row, arch, st, work, failures, deaths, had, taken, lost>>

Step(w) ==
    \/ \E t \in Tasks : Claim(w, t)
    \/ Leave(w) \/ Check(w) \/ FindDomain(w) \/ MakeDomain(w) \/ InsertRow(w) \/ Probe(w)
    \/ Copy(w) \/ Empty(w) \/ RemoveHome(w) \/ Fails(w) \/ Audit(w) \/ Tidy(w)
    \/ Undomain(w) \/ Publish(w) \/ Unpublished(w)

Next ==
    \/ \E w \in Runners : Start(w) \/ Step(w) \/ Die(w)
    \/ \E t \in Tasks : Enqueue(t) \/ Retry(t) \/ Reap(t)
    \/ \E u \in Users : Create(u) \/ Take(u)
    \/ AddDomain

Spec == Init /\ [][Next]_orphanVars

\* Drains are started again and again, go on, and reap.
Fairness ==
    /\ \A w \in Runners : WF_orphanVars(Start(w)) /\ WF_orphanVars(Step(w))
    /\ \A t \in Tasks : WF_orphanVars(Reap(t))

-----------------------------------------------------------------------------
(* Properties.                                                             *)

\* An account an operator has made is left alone by every task and sweep: its
\* row, and, unless it was made out of a temporary row, its mail.
AccountStands ==
    [][\A u \in Users : row[u] = Real =>
         /\ row'[u] = Real
         /\ u \notin taken => store'[u] = store[u] /\ (u \in home <=> u \in home')]_orphanVars

\* Mail that has left its maildir is found through an archive row, or the
\* runner that took it out still holds the row, or a death, a failed flush or
\* the end of another task that made the domain has lost it.
Findable ==
    \A u \in had : store[u] < Mails =>
        u \in arch \cup lost \cup Recorded(Runners)

\* No temporary row stays: what its task does not remove the sweep does.
TempGoes == \A u \in Users : row[u] \in Tasks ~> row[u] \notin Tasks
=============================================================================
