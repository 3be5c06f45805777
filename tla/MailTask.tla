------------------------------ MODULE MailTask ------------------------------
(***************************************************************************)
(* What the queue's tasks and the archive pages do to one account: its mail *)
(* store and home directory, its backup directory, its mailbox and archive *)
(* rows, and the plan and checkpoints of its DELETE tasks.                  *)
(*                                                                         *)
(* A worker is one process of TaskQueue with its lease: here it keeps the  *)
(* lease until it ends or dies, claims are atomic, and a RUNNING task of a *)
(* dead worker is reaped.  A request is one web request of the archive     *)
(* pages.  A step is one doveadm request, one flush, or the reads before   *)
(* them.                                                                   *)
(*                                                                         *)
(* Abstractions.  Mail is a set of messages.  doveadm backup makes the     *)
(* destination equal to the store; sync merges.  Task ids are never reused, *)
(* as auto-increment ids are not: TaskIds bounds the tasks of a behaviour. *)
(* Whether an actor's Archive entity still names the row is kept in fresh. *)
(***************************************************************************)
EXTENDS Integers, Sequences

CONSTANTS
    Msgs,       \* messages
    Incoming,   \* those delivered during the behaviour
    Archived,   \* those in the backup of an archive at its beginning, if any
    Workers,    \* runner processes
    Requests,   \* concurrent requests of the archive pages
    TaskIds,    \* tasks ever enqueued for the account
    Type,       \* mailbox_task.type of each
    NoTask,
    MaxErrors,  \* bound: failed doveadm requests and database errors
    MaxKills    \* bound: processes and requests that die

Types == {"ARCHIVE", "DELETE", "PRUNE"}

ASSUME TypesOfTasks == Type \in [TaskIds -> Types] /\ NoTask \notin TaskIds
ASSUME MessageSets ==
    /\ Incoming \subseteq Msgs /\ Archived \subseteq Msgs
    /\ Incoming \cap Archived = {}
ASSUME ActorsDiffer == Workers \cap Requests = {}
ASSUME FaultBounds == MaxErrors \in Nat /\ MaxKills \in Nat

VARIABLES
    store,      \* mail in the live store
    home,       \* the maildir home exists
    dest,       \* mail in the backup directory
    mailbox,    \* the account's mailbox row exists
    arch,       \* its archive row
    fresh,      \* actors whose Archive entity is the row of arch
    status,     \* mailbox_task.status; "new" before the row, "gone" after it
                \* was deleted or cancelled
    abandoned,  \* mailbox_task.abandoned
    mode,       \* the pinned plan of a DELETE
    done,       \* how many of its steps are checkpointed
    job,        \* the task a worker executes
    pc, out,    \* where a worker is; how its task ended
    seen,       \* autoprune in a worker's Archive entity
    staged,     \* changes in a worker's EntityManager, not flushed yet
    boxes,      \* mail in the folders that mailboxDelete has still to delete
    rpc,        \* where a request is
    sent,       \* history: mail that was ever delivered
    discarded,  \* history: mail destroyed on request
    copied,     \* history: the mail that a task backed up
    dropped,    \* history: DELETE tasks whose backup or archive row was removed
                \* since they made it
    audits,     \* history: audit rows of a task
    wasOn,      \* history: autoprune was on at some time in a worker's drain
    errors, kills

disk  == <<store, home, dest>>
rows  == <<mailbox, arch, fresh>>
tasks == <<status, abandoned, mode, done>>
work  == <<job, pc, out, seen, staged, boxes>>
hist  == <<sent, discarded, copied, dropped, audits, wasOn>>
flt   == <<errors, kills>>
vars  == <<disk, rows, tasks, work, rpc, hist, flt>>

\* Service\QueueRunner::DELETE_STEPS; an instant delete leaves out the first two.
\* Mutant: the archive row is recorded when the account is gone.
BackupSteps  == <<"backup", "archive", "mailbox-delete", "maildir-home", "mailbox-row", "audit">>
ArchiveLast(m) ==
    IF m = "backup"
    THEN <<"backup", "mailbox-delete", "maildir-home", "mailbox-row", "archive", "audit">>
    ELSE SubSeq(BackupSteps, 3, 6)
Steps(m)     == IF m = "backup" THEN BackupSteps ELSE SubSeq(BackupSteps, 3, 6)

Changes  == {"archive", "insert", "snapshot", "prune", "row", "audit"}
TaskPCs  == {"exec", "copy", "record", "list", "expunge", "rmhome", "check", "rmdest", "audit"}
WorkPCs  == {"idle", "next", "publish"} \cup TaskPCs
WebPCs   == {"idle", "recreate", "sync", "clean", "discard", "drop"}
Archives == [there : BOOLEAN, auto : BOOLEAN, expired : BOOLEAN, snapshot : BOOLEAN]
NoArchive == [there |-> FALSE, auto |-> FALSE, expired |-> FALSE, snapshot |-> FALSE]

DiskOK ==
    /\ store \subseteq Msgs /\ dest \subseteq Msgs /\ home \in BOOLEAN
    /\ store # {} => home

RowsOK ==
    /\ mailbox \in BOOLEAN /\ arch \in Archives
    /\ fresh \subseteq Workers \cup Requests
    /\ ~arch.there => arch = NoArchive /\ fresh = {}

TasksOK ==
    /\ status \in [TaskIds -> {"new", "PENDING", "RUNNING", "DONE", "FAILED", "gone"}]
    /\ abandoned \in [TaskIds -> BOOLEAN]
    /\ mode \in [TaskIds -> {"none", "backup", "instant"}]
    /\ done \in [TaskIds -> 0..6]
    /\ \A t \in TaskIds : mode[t] # "none" => done[t] <= Len(Steps(mode[t]))

WorkOK ==
    /\ job \in [Workers -> TaskIds \cup {NoTask}]
    /\ pc \in [Workers -> WorkPCs]
    /\ out \in [Workers -> {"none", "DONE", "FAILED"}]
    /\ seen \in [Workers -> BOOLEAN]
    /\ staged \in [Workers -> SUBSET Changes]
    /\ boxes \in [Workers -> SUBSET Msgs]
    /\ rpc \in [Requests -> WebPCs]
    /\ \A w \in Workers : pc[w] \in TaskPCs \cup {"publish"} <=> job[w] # NoTask
    /\ \A w \in Workers : pc[w] = "publish" => out[w] # "none"

HistOK ==
    /\ sent \subseteq Msgs /\ discarded \subseteq Msgs
    /\ copied \in [TaskIds -> SUBSET Msgs]
    /\ dropped \subseteq TaskIds
    /\ audits \in [TaskIds -> Nat]
    /\ wasOn \in [Workers -> BOOLEAN]
    /\ errors \in 0..MaxErrors /\ kills \in 0..MaxKills

TypeOK == DiskOK /\ RowsOK /\ TasksOK /\ WorkOK /\ HistOK

\* An account in use, or one that was archived or deleted before.
Init ==
    /\ dest \in {{}, Archived}
    /\ store \in SUBSET (Msgs \ (Incoming \cup dest))
    /\ home = (store # {})
    /\ mailbox \in BOOLEAN
    /\ ~mailbox => store = {} /\ dest # {}
    /\ IF dest = {} THEN arch = NoArchive
       ELSE \E a \in BOOLEAN :
              arch = [there |-> TRUE, auto |-> a, expired |-> FALSE, snapshot |-> TRUE]
    /\ fresh = {}
    /\ status = [t \in TaskIds |-> "new"]
    /\ abandoned = [t \in TaskIds |-> FALSE]
    /\ mode = [t \in TaskIds |-> "none"]
    /\ done = [t \in TaskIds |-> 0]
    /\ job = [w \in Workers |-> NoTask]
    /\ pc = [w \in Workers |-> "idle"]
    /\ out = [w \in Workers |-> "none"]
    /\ seen = [w \in Workers |-> FALSE]
    /\ staged = [w \in Workers |-> {}]
    /\ boxes = [w \in Workers |-> {}]
    /\ rpc = [q \in Requests |-> "idle"]
    /\ sent = store \cup dest
    /\ discarded = {}
    /\ copied = [t \in TaskIds |-> {}]
    /\ dropped = {}
    /\ audits = [t \in TaskIds |-> 0]
    /\ wasOn = [w \in Workers |-> FALSE]
    /\ errors = 0 /\ kills = 0

-----------------------------------------------------------------------------
(* Shared steps.                                                           *)

Goto(w, l) == pc' = [pc EXCEPT ![w] = l]
Kind(w)    == Type[job[w]]
Deleting(w) == job[w] # NoTask /\ Kind(w) = "DELETE"

\* The next unfinished step of w's DELETE is s (deleteStep).
At(w, s) ==
    /\ pc[w] = "exec" /\ Deleting(w) /\ mode[job[w]] # "none"
    /\ done[job[w]] < Len(Steps(mode[job[w]]))
    /\ Steps(mode[job[w]])[done[job[w]] + 1] = s

\* The step ends the task with an error; what it staged stays staged.
Abort(w) == out' = [out EXCEPT ![w] = "FAILED"] /\ Goto(w, "publish")

\* A removal of the directory or of the row takes the backup from the DELETE
\* tasks that count on it.
Drop == dropped' = dropped \cup {t \in TaskIds : mode[t] = "backup"}

\* findOneBy: an entity that is already managed keeps the values it has.
Loaded(w) == IF w \in fresh THEN seen[w] ELSE arch.auto
Load(w) ==
    /\ seen' = [seen EXCEPT ![w] = Loaded(w)]
    /\ fresh' = IF arch.there THEN fresh \cup {w} ELSE fresh

\* A second archive row for the user would violate the unique index.
Conflict(w) == "insert" \in staged[w] /\ arch.there

\* autoprune is in the UPDATE only when it differs from the value loaded.
Written(w) ==
    LET auto == Deleting(w) IN
    [there |-> TRUE, expired |-> FALSE, snapshot |-> "snapshot" \in staged[w],
     auto |-> IF "insert" \in staged[w] \/ auto # seen[w] THEN auto ELSE arch.auto]

\* flush, with S staged: all of it, or none when it conflicts.  A statement for
\* an archive row that is gone by now changes nothing.
Flush(w, S) ==
    /\ ~Conflict(w)
    /\ staged' = [staged EXCEPT ![w] = {}]
    /\ mailbox' = (mailbox /\ "row" \notin S)
    /\ audits' = [t \in TaskIds |->
                     IF t = job[w] /\ "audit" \in S THEN audits[t] + 1 ELSE audits[t]]
    /\ \/ /\ "insert" \in S \/ ("archive" \in S /\ w \in fresh)
          /\ arch' = Written(w)
          /\ fresh' = fresh \cup {w}
          /\ seen' = [seen EXCEPT ![w] = Deleting(w)]
          /\ wasOn' = [x \in Workers |-> wasOn[x] \/ arch'.auto]
          /\ UNCHANGED dropped
       \/ /\ "prune" \in S /\ w \in fresh
          /\ arch' = NoArchive /\ fresh' = {}
          /\ Drop
          /\ UNCHANGED <<seen, wasOn>>
       \/ /\ S \cap {"insert", "archive", "prune"} = {} \/ ("insert" \notin S /\ w \notin fresh)
          /\ UNCHANGED <<arch, fresh, seen, wasOn, dropped>>

\* The process ends: nothing staged survives, the task row stays as it is.
End(w) ==
    /\ Goto(w, "idle")
    /\ job' = [job EXCEPT ![w] = NoTask]
    /\ out' = [out EXCEPT ![w] = "none"]
    /\ seen' = [seen EXCEPT ![w] = FALSE]
    /\ staged' = [staged EXCEPT ![w] = {}]
    /\ boxes' = [boxes EXCEPT ![w] = {}]
    /\ fresh' = fresh \ {w}
    /\ wasOn' = [wasOn EXCEPT ![w] = FALSE]

-----------------------------------------------------------------------------
(* A drain: the autoprune sweep, then tasks one after the other.           *)

Start(w) ==
    /\ pc[w] = "idle"
    /\ Goto(w, "next")
    /\ wasOn' = [wasOn EXCEPT ![w] = arch.auto]
    /\ UNCHANGED <<disk, rows, tasks, job, out, seen, staged, boxes, rpc,
                   sent, discarded, copied, dropped, audits, flt>>

OpenTask(k) == \E t \in TaskIds : Type[t] = k /\ (status[t] \in {"PENDING", "RUNNING"} \/ abandoned[t])

\* With a sweep: findAutoprune has loaded the expired archive.
StartSweep(w, t) ==
    /\ pc[w] = "idle"
    /\ arch.auto /\ arch.expired
    /\ Type[t] = "PRUNE" /\ status[t] = "new" /\ ~OpenTask("PRUNE")
    /\ status' = [status EXCEPT ![t] = "PENDING"]
    /\ Load(w)
    /\ Goto(w, "next")
    /\ wasOn' = [wasOn EXCEPT ![w] = TRUE]
    /\ UNCHANGED <<disk, mailbox, arch, abandoned, mode, done, job, out, staged, boxes, rpc,
                   sent, discarded, copied, dropped, audits, flt>>

Claim(w, t) ==
    /\ pc[w] = "next" /\ status[t] = "PENDING"
    /\ status' = [status EXCEPT ![t] = "RUNNING"]
    /\ job' = [job EXCEPT ![w] = t]
    /\ Goto(w, "exec")
    /\ UNCHANGED <<disk, rows, abandoned, mode, done, out, seen, staged, boxes, rpc, hist, flt>>

Leave(w) ==
    /\ pc[w] = "next"
    /\ End(w)
    /\ UNCHANGED <<disk, mailbox, arch, tasks, rpc, sent, discarded, copied, dropped, audits, flt>>

\* Mutant: a published task stays with its worker.
TaskHeld(w) ==
    /\ pc[w] = "publish"
    /\ Flush(w, staged[w])
    /\ status' = [status EXCEPT ![job[w]] = out[w]]
    /\ Goto(w, "next")
    /\ UNCHANGED <<disk, abandoned, mode, done, job, out, boxes, rpc, sent, discarded, copied, flt>>

\* publishIfOwned: the outcome and whatever is still staged, in one flush.
Publish(w) ==
    /\ pc[w] = "publish"
    /\ Flush(w, staged[w])
    /\ status' = [status EXCEPT ![job[w]] = out[w]]
    /\ job' = [job EXCEPT ![w] = NoTask]
    /\ out' = [out EXCEPT ![w] = "none"]
    /\ boxes' = [boxes EXCEPT ![w] = {}]
    /\ Goto(w, "next")
    /\ UNCHANGED <<disk, abandoned, mode, done, rpc, sent, discarded, copied, flt>>

-----------------------------------------------------------------------------
(* DELETE: plan, steps, checkpoints.                                       *)

\* The mode follows queue.autoprune.days at the first attempt.
Plan(w) ==
    /\ pc[w] = "exec" /\ Deleting(w) /\ mode[job[w]] = "none"
    /\ \E m \in {"backup", "instant"} : mode' = [mode EXCEPT ![job[w]] = m]
    /\ UNCHANGED <<disk, rows, status, abandoned, done, work, rpc, hist, flt>>

\* Mutant: the destination is not probed.
ProbeNothing(w) ==
    /\ At(w, "backup")
    /\ Goto(w, "copy") /\ UNCHANGED out
    /\ UNCHANGED <<disk, rows, tasks, job, seen, staged, boxes, rpc, hist, flt>>

\* backupDelete refuses to copy an empty store over mail.
Probe(w) ==
    /\ At(w, "backup")
    /\ IF dest # {} /\ store = {} THEN Abort(w) ELSE Goto(w, "copy") /\ UNCHANGED out
    /\ UNCHANGED <<disk, rows, tasks, job, seen, staged, boxes, rpc, hist, flt>>

\* Mutant: the step is not marked as completed.
CheckpointLost(w) ==
    /\ pc[w] = "check"
    /\ Flush(w, staged[w])
    /\ boxes' = [boxes EXCEPT ![w] = {}]
    /\ Goto(w, "exec")
    /\ UNCHANGED <<disk, tasks, job, out, rpc, sent, discarded, copied, flt>>

\* checkpoint and flush; a failure of ensureDatabaseConnection is in Fails.
Checkpoint(w) ==
    /\ pc[w] = "check"
    /\ Flush(w, staged[w])
    /\ done' = [done EXCEPT ![job[w]] = @ + 1]
    /\ boxes' = [boxes EXCEPT ![w] = {}]
    /\ Goto(w, "exec")
    /\ UNCHANGED <<disk, status, abandoned, mode, job, out, rpc, sent, discarded, copied, flt>>

DeleteDone(w) ==
    /\ pc[w] = "exec" /\ Deleting(w) /\ mode[job[w]] # "none"
    /\ done[job[w]] = Len(Steps(mode[job[w]]))
    /\ out' = [out EXCEPT ![w] = "DONE"]
    /\ Goto(w, "publish")
    /\ UNCHANGED <<disk, rows, tasks, job, seen, staged, boxes, rpc, hist, flt>>

-----------------------------------------------------------------------------
(* The steps of the tasks.  Every doveadm command for the user fails once   *)
(* the mailbox row is gone, because Dovecot looks the user up in it.        *)

\* backup: ARCHIVE begins with it, DELETE after the probe.
Copying(w) == pc[w] = "copy" \/ (pc[w] = "exec" /\ Kind(w) = "ARCHIVE")

Copy(w) ==
    /\ Copying(w) /\ mailbox
    /\ dest' = store
    /\ copied' = [copied EXCEPT ![job[w]] = store \cup (IF job[w] \in dropped THEN {} ELSE @)]
    /\ dropped' = dropped \ {job[w]}
    /\ Goto(w, IF Deleting(w) THEN "check" ELSE "record")
    /\ UNCHANGED <<store, home, rows, tasks, job, out, seen, staged, boxes, rpc,
                   sent, discarded, audits, wasOn, flt>>

\* recordArchive reads, and persists what a later flush writes.
Record(w) ==
    /\ At(w, "archive") \/ pc[w] = "record"
    /\ Load(w)
    /\ staged' = [staged EXCEPT ![w] = @ \cup {"archive"}
                    \cup (IF arch.there THEN {} ELSE {"insert"})
                    \cup (IF mailbox THEN {"snapshot"} ELSE {})]
    /\ Goto(w, IF Deleting(w) THEN "check" ELSE "list")
    /\ UNCHANGED <<disk, mailbox, arch, tasks, job, out, boxes, rpc, hist, flt>>

\* mailboxDelete lists the folders and deletes them one by one; mail that is
\* delivered meanwhile goes with its folder or stays.
List(w) ==
    /\ At(w, "mailbox-delete") \/ pc[w] = "list"
    /\ mailbox
    /\ boxes' = [boxes EXCEPT ![w] = store]
    /\ Goto(w, "expunge")
    /\ UNCHANGED <<disk, rows, tasks, job, out, seen, staged, rpc, hist, flt>>

Requested(w, X) == IF Deleting(w) /\ mode[job[w]] = "instant" THEN X ELSE {}

Expunge(w) ==
    /\ pc[w] = "expunge" /\ mailbox
    /\ \E X \in SUBSET store :
         /\ X # {}
         /\ store' = store \ X
         /\ boxes' = [boxes EXCEPT ![w] = @ \ X]
         /\ discarded' = discarded \cup Requested(w, X)
    /\ UNCHANGED <<home, dest, rows, tasks, job, pc, out, seen, staged, rpc,
                   sent, copied, dropped, audits, wasOn, flt>>

Expunged(w) ==
    /\ pc[w] = "expunge" /\ boxes[w] \cap store = {}
    /\ home' \in (IF store = {} THEN {home, FALSE} ELSE {TRUE})
    /\ Goto(w, IF Deleting(w) THEN "check" ELSE "audit")
    /\ UNCHANGED <<store, dest, rows, tasks, job, out, seen, staged, boxes, rpc, hist, flt>>

\* removeMaildirHome: look for the home, look for mail in it, delete it.
FindHome(w) ==
    /\ At(w, "maildir-home")
    /\ \/ ~home /\ Goto(w, "check") /\ UNCHANGED out
       \/ home /\ store # {} /\ Abort(w)
       \/ home /\ store = {} /\ Goto(w, "rmhome") /\ UNCHANGED out
    /\ UNCHANGED <<disk, rows, tasks, job, seen, staged, boxes, rpc, hist, flt>>

RemoveHome(w) ==
    /\ pc[w] = "rmhome"
    /\ store' = {} /\ home' = FALSE
    /\ discarded' = discarded \cup Requested(w, store)
    /\ Goto(w, "check")
    /\ UNCHANGED <<dest, rows, tasks, job, out, seen, staged, boxes, rpc,
                   sent, copied, dropped, audits, wasOn, flt>>

RemoveRow(w) ==
    /\ At(w, "mailbox-row")
    /\ staged' = [staged EXCEPT ![w] = @ \cup (IF mailbox THEN {"row"} ELSE {})]
    /\ Goto(w, "check")
    /\ UNCHANGED <<disk, rows, tasks, job, out, seen, boxes, rpc, hist, flt>>

StageAudit(w) ==
    /\ At(w, "audit")
    /\ staged' = [staged EXCEPT ![w] = @ \cup {"audit"}]
    /\ Goto(w, "check")
    /\ UNCHANGED <<disk, rows, tasks, job, out, seen, boxes, rpc, hist, flt>>

\* Mutant: a PRUNE does not look at the flag again.
InspectRowOnly(w) ==
    /\ pc[w] = "exec" /\ Kind(w) = "PRUNE"
    /\ Load(w)
    /\ IF arch.there THEN Goto(w, "rmdest") /\ UNCHANGED out
       ELSE out' = [out EXCEPT ![w] = "DONE"] /\ Goto(w, "publish")
    /\ UNCHANGED <<disk, mailbox, arch, tasks, job, staged, boxes, rpc, hist, flt>>

Inspect(w) ==
    /\ pc[w] = "exec" /\ Kind(w) = "PRUNE"
    /\ Load(w)
    /\ IF arch.there /\ Loaded(w) THEN Goto(w, "rmdest") /\ UNCHANGED out
       ELSE out' = [out EXCEPT ![w] = "DONE"] /\ Goto(w, "publish")
    /\ UNCHANGED <<disk, mailbox, arch, tasks, job, staged, boxes, rpc, hist, flt>>

RemoveDest(w) ==
    /\ pc[w] = "rmdest"
    /\ dest' = {}
    /\ discarded' = discarded \cup dest
    /\ Drop
    /\ staged' = [staged EXCEPT ![w] = @ \cup {"prune"}]
    /\ Goto(w, "audit")
    /\ UNCHANGED <<store, home, rows, tasks, job, out, seen, boxes, rpc,
                   sent, copied, audits, wasOn, flt>>

\* logAudit of ARCHIVE and PRUNE: stage the audit row and flush everything.
LogAudit(w) ==
    /\ pc[w] = "audit"
    /\ Flush(w, staged[w] \cup {"audit"})
    /\ out' = [out EXCEPT ![w] = "DONE"]
    /\ Goto(w, "publish")
    /\ UNCHANGED <<disk, tasks, job, boxes, rpc, sent, discarded, copied, flt>>

-----------------------------------------------------------------------------
(* What goes wrong in a worker.                                            *)

Error == errors < MaxErrors /\ errors' = errors + 1 /\ UNCHANGED kills
Death == kills < MaxKills /\ kills' = kills + 1 /\ UNCHANGED errors

UnknownUser(w) ==
    /\ Copying(w) \/ pc[w] \in {"list", "expunge"} \/ At(w, "mailbox-delete")
    /\ ~mailbox
    /\ Abort(w)
    /\ UNCHANGED <<disk, rows, tasks, job, seen, staged, boxes, rpc, hist, flt>>

\* Mutants: a failed backup is swallowed; the checkpoint commits before the
\* rows that its step staged.
BackupSwallowed(w) ==
    /\ pc[w] \in TaskPCs \ {"audit"}
    /\ Error
    /\ IF pc[w] = "copy" THEN Goto(w, "check") /\ UNCHANGED out ELSE Abort(w)
    /\ UNCHANGED <<disk, rows, tasks, job, seen, staged, boxes, rpc, hist>>

CheckpointFirst(w) ==
    /\ pc[w] \in TaskPCs \ {"audit"}
    /\ Error
    /\ Abort(w)
    /\ done' = [t \in TaskIds |-> IF pc[w] = "check" /\ t = job[w] THEN done[t] + 1 ELSE done[t]]
    /\ staged' = [staged EXCEPT ![w] = {}]
    /\ UNCHANGED <<disk, rows, status, abandoned, mode, job, seen, boxes, rpc, hist>>

\* A request or a statement fails; its effect may have happened or not.
Fails(w) ==
    /\ pc[w] \in TaskPCs \ {"audit"}
    /\ Error
    /\ Abort(w)
    /\ IF Copying(w) /\ mailbox
       THEN \E X \in SUBSET (dest \ store), Y \in SUBSET store : dest' = (dest \ X) \cup Y
       ELSE IF pc[w] = "rmdest" THEN dest' \in SUBSET dest ELSE UNCHANGED dest
    /\ discarded' = IF pc[w] = "rmdest" THEN discarded \cup (dest \ dest') ELSE discarded
    /\ IF pc[w] = "rmdest" THEN Drop ELSE UNCHANGED dropped
    /\ UNCHANGED <<store, home, rows, tasks, job, seen, staged, boxes, rpc,
                   sent, copied, audits, wasOn>>

\* A flush that fails closes the EntityManager: nothing more is published.
Conflicts(w) ==
    /\ pc[w] \in {"check", "audit", "publish"} /\ Conflict(w)
    /\ End(w)
    /\ UNCHANGED <<disk, mailbox, arch, tasks, rpc, sent, discarded, copied, dropped, audits, flt>>

Dies(w) ==
    /\ pc[w] # "idle"
    /\ Death
    /\ End(w)
    /\ UNCHANGED <<disk, mailbox, arch, tasks, rpc, sent, discarded, copied, dropped, audits>>

Reap(t) ==
    /\ status[t] = "RUNNING" /\ \A w \in Workers : job[w] # t
    /\ status' = [status EXCEPT ![t] = "FAILED"]
    /\ abandoned' = [abandoned EXCEPT ![t] = TRUE]
    /\ UNCHANGED <<disk, rows, mode, done, work, rpc, hist, flt>>

-----------------------------------------------------------------------------
(* The archive pages: restore; delete and prune; the autoprune toggle.     *)

WebGoto(q, l) == rpc' = [rpc EXCEPT ![q] = l]

Restore(q) ==
    /\ rpc[q] = "idle" /\ arch.there
    /\ mailbox \/ arch.snapshot
    /\ fresh' = fresh \cup {q}
    /\ WebGoto(q, IF mailbox THEN "sync" ELSE "recreate")
    /\ UNCHANGED <<disk, mailbox, arch, tasks, work, hist, flt>>

\* The flush fails when another request has made the row.
Recreate(q) ==
    /\ rpc[q] = "recreate"
    /\ mailbox' = TRUE
    /\ WebGoto(q, IF mailbox THEN "idle" ELSE "sync")
    /\ fresh' = IF mailbox THEN fresh \ {q} ELSE fresh
    /\ UNCHANGED <<disk, arch, tasks, work, hist, flt>>

\* Mutant: the files are removed before the sync.
SyncAfterClean(q) ==
    /\ rpc[q] = "sync" /\ mailbox
    /\ UNCHANGED <<mailbox, arch, tasks, work, hist, fresh>>
    /\ \/ /\ store' = store \cup dest /\ home' = TRUE /\ dest' = dest
          /\ WebGoto(q, "clean")
          /\ UNCHANGED flt
       \/ /\ Error
          /\ dest' = {} /\ UNCHANGED <<store, home>>
          /\ WebGoto(q, "idle")

\* sync; when it fails the archive is kept.
Sync(q) ==
    /\ rpc[q] = "sync"
    /\ UNCHANGED <<dest, mailbox, arch, tasks, work, hist>>
    /\ \/ /\ mailbox
          /\ store' = store \cup dest /\ home' = TRUE
          /\ WebGoto(q, "clean")
          /\ UNCHANGED <<fresh, flt>>
       \/ /\ mailbox /\ Error
          /\ \E X \in SUBSET dest : store' = store \cup X
          /\ home' = (home \/ store' # {})
          /\ WebGoto(q, "idle")
          /\ fresh' = fresh \ {q}
       \/ /\ ~mailbox
          /\ WebGoto(q, "idle")
          /\ fresh' = fresh \ {q}
          /\ UNCHANGED <<store, home, flt>>

\* fsDelete after the sync; a failure is swallowed.
Clean(q) ==
    /\ rpc[q] = "clean"
    /\ \/ dest' = {} /\ UNCHANGED flt
       \/ Error /\ dest' \in SUBSET dest
    /\ Drop
    /\ WebGoto(q, "drop")
    /\ UNCHANGED <<store, home, rows, tasks, work, sent, discarded, copied, audits, wasOn>>

\* deleteAction; the Maintenance page prunes each of its candidates like this.
Discard(q) ==
    /\ rpc[q] = "idle" /\ arch.there
    /\ fresh' = fresh \cup {q}
    /\ WebGoto(q, "discard")
    /\ UNCHANGED <<disk, mailbox, arch, tasks, work, hist, flt>>

DiscardFiles(q) ==
    /\ rpc[q] = "discard"
    /\ \/ /\ dest' = {}
          /\ WebGoto(q, "drop")
          /\ UNCHANGED <<fresh, flt>>
       \/ /\ Error /\ dest' \in SUBSET dest
          /\ WebGoto(q, "idle")
          /\ fresh' = fresh \ {q}
    /\ discarded' = discarded \cup (dest \ dest')
    /\ Drop
    /\ UNCHANGED <<store, home, mailbox, arch, tasks, work, sent, copied, audits, wasOn>>

DropArchive(q) ==
    /\ rpc[q] = "drop"
    /\ IF q \in fresh THEN arch' = NoArchive /\ fresh' = {} /\ Drop
       ELSE UNCHANGED <<arch, fresh, dropped>>
    /\ WebGoto(q, "idle")
    /\ UNCHANGED <<disk, mailbox, tasks, work, sent, discarded, copied, audits, wasOn, flt>>

RequestDies(q) ==
    /\ rpc[q] # "idle"
    /\ Death
    /\ WebGoto(q, "idle")
    /\ fresh' = fresh \ {q}
    /\ UNCHANGED <<disk, mailbox, arch, tasks, work, hist>>

Toggle ==
    /\ arch.there
    /\ arch' = [arch EXCEPT !.auto = ~@, !.expired = @ /\ arch.auto]
    /\ wasOn' = [w \in Workers |-> wasOn[w] \/ arch'.auto]
    /\ UNCHANGED <<disk, mailbox, fresh, tasks, work, rpc,
                   sent, discarded, copied, dropped, audits, flt>>

-----------------------------------------------------------------------------
(* The queue pages, Postfix and Dovecot, and time.                         *)

Enqueue(t) ==
    /\ status[t] = "new" /\ Type[t] # "PRUNE" /\ mailbox /\ ~OpenTask(Type[t])
    /\ status' = [status EXCEPT ![t] = "PENDING"]
    /\ UNCHANGED <<disk, rows, abandoned, mode, done, work, rpc, hist, flt>>

\* Mutant: a retry forgets the checkpoints.
RetryForgets(t) ==
    /\ status[t] = "FAILED" /\ ~abandoned[t] /\ ~OpenTask(Type[t])
    /\ status' = [status EXCEPT ![t] = "PENDING"]
    /\ done' = [done EXCEPT ![t] = 0]
    /\ UNCHANGED <<disk, rows, abandoned, mode, work, rpc, hist, flt>>

Retry(t) ==
    /\ status[t] = "FAILED" /\ ~abandoned[t] /\ ~OpenTask(Type[t])
    /\ status' = [status EXCEPT ![t] = "PENDING"]
    /\ UNCHANGED <<disk, rows, abandoned, mode, done, work, rpc, hist, flt>>

\* Cancel, delete and clear: an ownerless RUNNING row can go before it is reaped.
Remove(t) ==
    /\ status[t] \in {"PENDING", "RUNNING", "DONE", "FAILED"}
    /\ \A w \in Workers : job[w] # t
    /\ status' = [status EXCEPT ![t] = "gone"]
    /\ abandoned' = [abandoned EXCEPT ![t] = FALSE]
    /\ UNCHANGED <<disk, rows, mode, done, work, rpc, hist, flt>>

Deliver(m) ==
    /\ m \in Incoming \ sent /\ mailbox
    /\ store' = store \cup {m} /\ home' = TRUE
    /\ sent' = sent \cup {m}
    /\ UNCHANGED <<dest, rows, tasks, work, rpc, discarded, copied, dropped, audits, wasOn, flt>>

Expire ==
    /\ arch.there /\ ~arch.expired
    /\ arch' = [arch EXCEPT !.expired = TRUE]
    /\ UNCHANGED <<disk, mailbox, fresh, tasks, work, rpc, hist, flt>>

-----------------------------------------------------------------------------
DeleteSteps(w) ==
    \/ Plan(w) \/ Probe(w) \/ Checkpoint(w) \/ DeleteDone(w)
    \/ FindHome(w) \/ RemoveHome(w) \/ RemoveRow(w) \/ StageAudit(w)

StoreSteps(w) == Copy(w) \/ Record(w) \/ List(w) \/ Expunge(w) \/ Expunged(w)

PruneSteps(w) == Inspect(w) \/ RemoveDest(w)

\* What a worker does when nothing goes wrong.
Execute(w) ==
    \/ DeleteSteps(w) \/ StoreSteps(w) \/ PruneSteps(w)
    \/ LogAudit(w) \/ Publish(w) \/ Conflicts(w) \/ UnknownUser(w)

Drain(w) ==
    \/ Start(w) \/ \E t \in TaskIds : StartSweep(w, t) \/ Claim(w, t)

WorkerNext(w) ==
    Drain(w) \/ Leave(w) \/ Execute(w) \/ Fails(w) \/ Dies(w)

RequestNext(q) ==
    \/ Restore(q) \/ Recreate(q) \/ Sync(q) \/ Clean(q)
    \/ Discard(q) \/ DiscardFiles(q) \/ DropArchive(q) \/ RequestDies(q)

QueueNext(t) == Enqueue(t) \/ Retry(t) \/ Remove(t) \/ Reap(t)

Next ==
    \/ \E w \in Workers : WorkerNext(w)
    \/ \E q \in Requests : RequestNext(q)
    \/ \E t \in TaskIds : QueueNext(t)
    \/ \E m \in Incoming : Deliver(m)
    \/ Toggle \/ Expire

Spec == Init /\ [][Next]_vars

-----------------------------------------------------------------------------
(* Properties.                                                             *)

\* Every message that was ever delivered is in the store or in the backup, or
\* was destroyed on request: by an instant delete, or with its backup.
MailKept == sent \subseteq store \cup dest \cup discarded

\* An ARCHIVE, which makes the backup equal to the store whenever it runs, was
\* queued for the account.
ArchiveQueued == \E t \in TaskIds : Type[t] = "ARCHIVE" /\ status[t] # "new"

\* Mail that a DELETE backed up stays in the backup, whatever interrupts the
\* task and from whatever checkpoint it is retried, until someone restores or
\* deletes the backup, and if no ARCHIVE was queued beside it.
BackupStands ==
    ~ArchiveQueued =>
      \A t \in TaskIds : Type[t] = "DELETE" /\ t \notin dropped => copied[t] \subseteq dest

\* A backed-up DELETE destroys mail only after its archive row was committed,
\* however it was interrupted before, unless somebody dropped that row.
RecordedBeforeEmptied ==
    \A w \in Workers :
        /\ Deleting(w) /\ pc[w] \in {"expunge", "rmhome"}
        /\ mode[job[w]] = "backup" /\ job[w] \notin dropped
        => arch.there

\* An account removed by a backed-up DELETE can be restored: its archive row is
\* there with a snapshot, and the backup with the mail, unless they were dropped
\* or an ARCHIVE was queued beside it.
Restorable ==
    ~ArchiveQueued =>
      \A t \in TaskIds :
        /\ Type[t] = "DELETE" /\ mode[t] = "backup" /\ done[t] >= 5
        /\ ~mailbox /\ t \notin dropped
        => arch.there /\ arch.snapshot /\ copied[t] \subseteq dest

\* Whatever failed on the way, a task that is DONE left its audit row, a PRUNE
\* with nothing to prune excepted.
DoneIsAudited ==
    \A t \in TaskIds : status[t] = "DONE" /\ Type[t] # "PRUNE" => audits[t] > 0

\* A drain prunes only what was set to autoprune at some time since it began:
\* a task queued by an earlier one is looked at again.
PruneAfterToggle ==
    [][\A w \in Workers : pc[w] = "rmdest" /\ pc'[w] = "audit" => wasOn[w]]_vars

\* Workers, whose drains fetch what is pending, and an operator who retries
\* failed tasks.
Fairness ==
    /\ \A w \in Workers : WF_vars(Start(w)) /\ WF_vars(Execute(w))
    /\ \A w \in Workers, t \in TaskIds : SF_vars(Claim(w, t))
    /\ \A t \in TaskIds : WF_vars(Retry(t)) /\ WF_vars(Reap(t))

FairSpec == Spec /\ Fairness

\* A DELETE that fails and is retried gets to its end, or is set aside.
DeleteCompletes ==
    \A t \in TaskIds :
        Type[t] = "DELETE" /\ status[t] = "PENDING"
            ~> status[t] \in {"DONE", "gone"} \/ abandoned[t]

-----------------------------------------------------------------------------
(* What the repository says and the code does not keep.                    *)

\* Service/QueueRunner.php: "a retry must archive and protect the exact location
\* written by its first attempt": what it backed up is not lost.
DestinationProtected ==
    \A t \in TaskIds :
        Type[t] = "DELETE" => copied[t] \subseteq dest \cup store \cup discarded

\* Service/QueueRunner.php, of the probe before the backup of a DELETE: "never
\* let an empty live store replace it".
EmptyNeverCopied ==
    [][\A w \in Workers :
         Deleting(w) /\ pc[w] = "copy" /\ pc'[w] = "check" => store # {} \/ dest = {}]_vars
=============================================================================
