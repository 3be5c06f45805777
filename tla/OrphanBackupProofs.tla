------------------------- MODULE OrphanBackupProofs -------------------------
(***************************************************************************)
(* Theorems about OrphanBackup: the state is well typed, accounts are left *)
(* alone, and mail that was taken out of its maildir is found.  Of the     *)
(* prunes that MCMaintenance puts beside it: no mail is lost.              *)
(***************************************************************************)
EXTENDS MCMaintenance, TLAPS

Early  == {"check", "find", "make", "insert", "probe", "copy"}
Owning == {"probe", "copy", "empty", "remove", "audit"}
Labels == {"idle", "ready", "tidy", "undomain", "publish"} \cup Early \cup Owning

Typed ==
    /\ store \in [Users -> Nat] /\ home \subseteq Users /\ had \subseteq Users
    /\ row \in [Users -> Tasks \cup {NoRow, Real}] /\ dom \in Nat /\ doms \in Nat
    /\ arch \subseteq Users /\ taken \subseteq Users /\ lost \subseteq Users
    /\ st \in [Tasks -> {"none", "PENDING", "RUNNING", "DONE", "FAILED", "ABANDONED"}]
    /\ batch \in [Runners -> SUBSET Tasks] /\ task \in [Runners -> Tasks \cup {NoTask}]
    /\ pc \in [Runners -> Labels]
    /\ ref \in [Runners -> Nat] /\ made \in [Runners -> Nat] /\ staged \in [Runners -> Nat]
    /\ own \subseteq Runners /\ closed \subseteq Runners /\ bad \subseteq Runners

Busy(w) == pc[w] \notin {"idle", "ready"}

\* The temporary row of a runner is there until it is tidied away, or it is an
\* account by now.
RowStands(w) == row[U(w)] = task[w] \/ (row[U(w)] = Real /\ U(w) \in taken)

RunnerOK(w) ==
    /\ Busy(w) => task[w] \in Tasks /\ st[task[w]] = "RUNNING"
    /\ ~Busy(w) => w \notin own /\ w \notin closed /\ staged[w] = 0
    /\ pc[w] \in Early => w \notin closed /\ staged[w] = 0
    /\ w \in own /\ pc[w] \notin {"undomain", "publish"} => RowStands(w)
    /\ pc[w] \in {"probe", "copy", "empty", "remove"} => w \in own
    /\ pc[w] = "make" => w \notin own
    /\ pc[w] = "insert" => ref[w] # 0
    /\ w \in own /\ pc[w] \in {"insert", "probe", "copy"} => ref[w] = dom
    /\ pc[w] = "empty" => staged[w] # 0
    \* What is staged is for the domain of the task; it can be flushed, or is lost.
    /\ staged[w] # 0 =>
         staged[w] = ref[w] /\ (w \in closed \/ staged[w] # dom => U(w) \in lost)

\* A task is held by one runner.
Distinct ==
    \A v, w \in Runners : Busy(v) /\ Busy(w) /\ task[v] = task[w] => v = w

\* A mailbox row refers to its domain.
Referred == \A u \in Users : row[u] # NoRow => dom # 0

IInv ==
    /\ Typed /\ Distinct /\ Referred /\ Findable
    /\ \A w \in Runners : RunnerOK(w)

-----------------------------------------------------------------------------
LEMMA InitIsOK == ASSUME Init PROVE IInv
  <1>1. Typed
    BY TasksOfUsers, NoneIsTask DEF Init, Typed, Labels
  <1>2. Distinct /\ Referred /\ \A w \in Runners : RunnerOK(w)
    BY DEF Init, Distinct, Referred, RunnerOK, Busy, Early
  <1>3. Findable
    BY TasksOfUsers, NoneIsTask DEF Init, Findable
  <1>. QED
    BY <1>1, <1>2, <1>3 DEF IInv

\* The runners that a step is not of.
LEMMA OthersKeep ==
  ASSUME IInv, NEW W \in SUBSET Runners,
         \A v \in Runners \ W :
            /\ pc'[v] = pc[v] /\ task'[v] = task[v] /\ ref'[v] = ref[v] /\ staged'[v] = staged[v]
            /\ v \in own' <=> v \in own
            /\ v \in closed' <=> v \in closed
            /\ Busy(v) => st'[task[v]] = "RUNNING"
            /\ Busy(v) /\ v \in own /\ pc[v] \notin {"undomain", "publish"} =>
                  RowStands(v)' /\ dom' = dom
            /\ Busy(v) /\ staged[v] # 0 /\ dom' # dom => staged[v] # dom \/ U(v) \in lost',
         lost \subseteq lost'
  PROVE  \A v \in Runners \ W : RunnerOK(v)'
  <1>. SUFFICES ASSUME NEW v \in Runners \ W PROVE RunnerOK(v)'
    OBVIOUS
  <1>1. RunnerOK(v) /\ U(v)' = U(v)
    BY DEF IInv, U
  <1>2. CASE ~Busy(v)
    BY <1>1, <1>2 DEF RunnerOK, Busy, Early
  <1>3. CASE Busy(v)
    BY <1>1, <1>3 DEF RunnerOK, Busy, Early
  <1>. QED
    BY <1>2, <1>3

\* A step of runner w that changes neither the rows nor the domain.
LEMMA WorkKeeps ==
  ASSUME IInv, NEW w \in Runners, Typed', Findable', RunnerOK(w)',
         UNCHANGED <<row, dom>>, taken \subseteq taken', lost \subseteq lost',
         task' = task \/ ~Busy(w)', Busy(w)' => Busy(w),
         \A v \in Runners \ {w} :
            /\ pc'[v] = pc[v] /\ task'[v] = task[v] /\ ref'[v] = ref[v] /\ staged'[v] = staged[v]
            /\ v \in own' <=> v \in own
            /\ v \in closed' <=> v \in closed
            /\ Busy(v) => st'[task[v]] = "RUNNING"
  PROVE  IInv'
  <1>1. Distinct'
    BY DEF IInv, Distinct, Busy
  <1>2. Referred'
    BY DEF IInv, Referred
  <1>3. \A v \in Runners \ {w} : RunnerOK(v)'
    <2>1. ASSUME NEW v \in Runners \ {w}, v \in own, Busy(v), pc[v] \notin {"undomain", "publish"}
          PROVE  RowStands(v)'
      BY <2>1 DEF IInv, RunnerOK, RowStands, U
    <2>. QED
      BY <2>1, OthersKeep
  <1>. QED
    BY <1>1, <1>2, <1>3 DEF IInv

\* Mail is taken out by nobody, and what led to it leads to it still.
LEMMA FindableStays ==
  ASSUME IInv, UNCHANGED <<had, store>>, arch \cup lost \subseteq arch' \cup lost',
         Recorded(Runners) \subseteq Recorded(Runners)' \cup arch' \cup lost'
  PROVE  Findable'
  BY DEF IInv, Findable

\* The users of the runners other than w stay.
LEMMA RecordedStays ==
  ASSUME NEW w \in Runners,
         \A v \in Runners \ {w} : task'[v] = task[v] /\ staged'[v] = staged[v],
         staged[w] # 0 => U(w) \in arch' \cup lost' \/ (task'[w] = task[w] /\ staged'[w] # 0)
  PROVE  Recorded(Runners) \subseteq Recorded(Runners)' \cup arch' \cup lost'
  BY DEF Recorded, U

LEMMA QueueKeeps ==
  ASSUME IInv, NEW t \in Tasks, Enqueue(t) \/ Retry(t) \/ Reap(t)
  PROVE  IInv'
  <1>. USE DEF disk, db, work
  <1>1. UNCHANGED <<disk, row, dom, doms, domLog, arch, work, failures, deaths, had, taken, lost>>
    BY DEF Enqueue, Retry, Reap
  <1>2. st' \in [Tasks -> {"none", "PENDING", "RUNNING", "DONE", "FAILED", "ABANDONED"}]
    BY DEF Enqueue, Retry, Reap, IInv, Typed
  <1>3. Typed'
    BY <1>1, <1>2 DEF IInv, Typed
  <1>4. \A v \in Runners : Busy(v) => st'[task[v]] = "RUNNING"
    <2>. SUFFICES ASSUME NEW v \in Runners, Busy(v) PROVE st'[task[v]] = "RUNNING"
      OBVIOUS
    <2>1. task[v] \in Tasks /\ st[task[v]] = "RUNNING"
      BY DEF IInv, RunnerOK
    <2>2. task[v] # t
      BY <2>1 DEF Enqueue, Retry, Reap, Held
    <2>. QED
      BY <2>1, <2>2 DEF Enqueue, Retry, Reap, IInv, Typed
  <1>5. \A v \in Runners : RunnerOK(v)'
    <2>1. \A v \in Runners : RowStands(v) => RowStands(v)'
      BY <1>1 DEF RowStands, U
    <2>2. \A v \in Runners : RunnerOK(v)
      BY DEF IInv
    <2>. QED
      BY <1>1, <1>4, <2>1, <2>2 DEF RunnerOK, Busy, U
  <1>6. Distinct' /\ Referred'
    BY <1>1 DEF IInv, Distinct, Referred, Busy
  <1>7. Findable'
    BY <1>1 DEF IInv, Findable, Recorded, U
  <1>. QED
    BY <1>3, <1>5, <1>6, <1>7 DEF IInv

LEMMA StartKeeps == ASSUME IInv, NEW w \in Runners, Start(w) PROVE IInv'
  <1>. USE DEF disk
  <1>1. /\ pc[w] = "idle" /\ pc' = [pc EXCEPT ![w] = "ready"]
        /\ row' = [u \in Users |-> IF u \in Swept THEN NoRow ELSE row[u]]
        /\ UNCHANGED <<disk, dom, doms, domLog, arch, st, task, own, ref, made, staged, closed, bad,
                       had, taken, lost>>
    BY DEF Start, Goto
  <1>2. batch' \in [Runners -> SUBSET Tasks]
    BY DEF IInv, Typed, Start
  <1>3. row' \in [Users -> Tasks \cup {NoRow, Real}] /\ pc' \in [Runners -> Labels]
    BY <1>1 DEF IInv, Typed, Labels
  <1>4. Typed'
    BY <1>1, <1>2, <1>3 DEF IInv, Typed
  <1>5. \A v \in Runners : Busy(v)' <=> Busy(v)
    BY <1>1 DEF Busy, IInv, Typed
  <1>6. ASSUME NEW v \in Runners, Busy(v), RowStands(v) PROVE RowStands(v)'
    <2>1. task[v] \in Tasks /\ st[task[v]] = "RUNNING" /\ U(v) \in Users
      BY <1>6, TasksOfUsers, NoneIsTask DEF IInv, RunnerOK, U
    <2>2. U(v) \notin Swept
      BY <1>6, <2>1, TasksOfUsers, NoneIsTask DEF RowStands, Swept
    <2>. QED
      BY <1>1, <1>6, <2>1, <2>2 DEF RowStands, U
  <1>7. \A v \in Runners \ {w} : RunnerOK(v)'
    <2>1. \A v \in Runners \ {w} : pc'[v] = pc[v]
      BY <1>1 DEF IInv, Typed
    <2>2. \A v \in Runners : Busy(v) => st'[task[v]] = "RUNNING"
      BY <1>1 DEF IInv, RunnerOK
    <2>3. \A v \in Runners : Busy(v) /\ v \in own /\ pc[v] \notin {"undomain", "publish"} => RowStands(v)'
      BY <1>6 DEF IInv, RunnerOK
    <2>. QED
      BY <1>1, <2>1, <2>2, <2>3, OthersKeep
  <1>8. RunnerOK(w)'
    BY <1>1, <1>5 DEF RunnerOK, Busy, IInv, Typed, Early
  <1>9. Distinct'
    BY <1>1, <1>5 DEF IInv, Distinct
  <1>10. Referred'
    BY <1>1 DEF IInv, Referred
  <1>11. Findable'
    BY <1>1 DEF IInv, Findable, Recorded, U
  <1>. QED
    BY <1>4, <1>7, <1>8, <1>9, <1>10, <1>11 DEF IInv

LEMMA ClaimKeeps ==
  ASSUME IInv, NEW w \in Runners, NEW t \in Tasks, Claim(w, t)
  PROVE  IInv'
  <1>. USE DEF disk
  <1>1. /\ pc[w] = "ready" /\ ~Busy(w) /\ batch' = [batch EXCEPT ![w] = @ \ {t}]
        /\ UNCHANGED <<disk, row, dom, doms, domLog, arch, own, ref, made, staged, closed, bad,
                       had, taken, lost>>
    BY DEF Claim, Busy
  <1>2. CASE st[t] = "PENDING"
    <2>1. /\ st' = [st EXCEPT ![t] = "RUNNING"] /\ task' = [task EXCEPT ![w] = t]
          /\ pc' = [pc EXCEPT ![w] = "check"]
      BY <1>2 DEF Claim, Goto
    <2>2. Typed'
      BY <1>1, <2>1 DEF IInv, Typed, Labels, Early
    <2>3. /\ pc'[w] = "check" /\ task'[w] = t /\ st'[t] = "RUNNING"
          /\ \A v \in Runners \ {w} : pc'[v] = pc[v] /\ task'[v] = task[v]
      BY <2>1 DEF IInv, Typed
    <2>4. \A v \in Runners \ {w} : Busy(v) => task[v] # t /\ st'[task[v]] = "RUNNING"
      BY <1>2, <2>1 DEF IInv, RunnerOK, Typed
    <2>5. \A v \in Runners \ {w} : RunnerOK(v)'
      <3>1. \A v \in Runners \ {w} : Busy(v) /\ v \in own /\ pc[v] \notin {"undomain", "publish"} => RowStands(v)'
        BY <1>1, <2>3 DEF IInv, RunnerOK, RowStands, U
      <3>. QED
        BY <1>1, <2>3, <2>4, <3>1, OthersKeep
    <2>6. RunnerOK(w)'
      <3>1. w \notin own /\ w \notin closed /\ staged[w] = 0
        BY <1>1 DEF IInv, RunnerOK
      <3>. QED
        BY <1>1, <2>3, <3>1 DEF RunnerOK, Busy
    <2>7. Distinct'
      BY <2>3, <2>4 DEF IInv, Distinct, Busy
    <2>8. Findable'
      <3>1. staged[w] = 0
        BY <1>1 DEF IInv, RunnerOK
      <3>2. Recorded(Runners) \subseteq Recorded(Runners)' \cup arch' \cup lost'
        BY <1>1, <2>3, <3>1, RecordedStays
      <3>. QED
        BY <1>1, <3>2, FindableStays
    <2>. QED
      BY <1>1, <2>2, <2>5, <2>6, <2>7, <2>8 DEF IInv, Referred
  <1>3. CASE st[t] # "PENDING"
    <2>1. UNCHANGED <<st, task, pc>>
      BY <1>3 DEF Claim
    <2>2. Typed'
      BY <1>1, <2>1 DEF IInv, Typed
    <2>3. \A v \in Runners : RunnerOK(v)'
      BY <1>1, <2>1 DEF IInv, RunnerOK, Busy, RowStands, U
    <2>. QED
      BY <1>1, <2>1, <2>2, <2>3 DEF IInv, Distinct, Busy, Referred, Findable, Recorded, U
  <1>. QED
    BY <1>2, <1>3

-----------------------------------------------------------------------------
(* A runner comes to the end of a task, or to its own.                     *)

LEMMA ForgetKeeps ==
  ASSUME IInv, NEW w \in Runners, NEW l \in {"idle", "ready"}, Forget(w, l),
         UNCHANGED <<disk, row, dom, doms, had, taken>>, batch' \in [Runners -> SUBSET Tasks],
         arch \subseteq arch', arch' \subseteq Users, lost \subseteq lost', lost' \subseteq Users,
         st' \in [Tasks -> {"none", "PENDING", "RUNNING", "DONE", "FAILED", "ABANDONED"}],
         \A v \in Runners \ {w} : Busy(v) => st'[task[v]] = "RUNNING",
         staged[w] # 0 => U(w) \in arch' \cup lost'
  PROVE  IInv'
  <1>. USE DEF disk
  <1>1. /\ pc' = [pc EXCEPT ![w] = l] /\ task' = [task EXCEPT ![w] = NoTask]
        /\ own' = own \ {w} /\ bad' = bad \ {w} /\ closed' = closed \ {w}
        /\ ref' = [ref EXCEPT ![w] = 0] /\ made' = [made EXCEPT ![w] = 0]
        /\ staged' = [staged EXCEPT ![w] = 0]
    BY DEF Forget, Goto
  <1>2. Typed'
    BY <1>1 DEF IInv, Typed, Labels
  <1>3. /\ pc'[w] = l /\ staged'[w] = 0
        /\ \A v \in Runners \ {w} : /\ pc'[v] = pc[v] /\ task'[v] = task[v] /\ ref'[v] = ref[v]
                                    /\ staged'[v] = staged[v]
    BY <1>1 DEF IInv, Typed
  <1>4. ~Busy(w)' /\ RunnerOK(w)'
    BY <1>1, <1>3 DEF Busy, RunnerOK, Early
  <1>5. Findable'
    <2>1. Recorded(Runners) \subseteq Recorded(Runners)' \cup arch' \cup lost'
      BY <1>3, RecordedStays
    <2>. QED
      BY <2>1, FindableStays
  <1>. QED
    BY <1>1, <1>2, <1>3, <1>4, <1>5, WorkKeeps

\* A flush that cannot commit finds its archive row lost already.
LEMMA LostAlready ==
  ASSUME IInv, NEW w \in Runners, ~Commits(w), staged[w] # 0
  PROVE  U(w) \in lost
  BY DEF IInv, RunnerOK, Commits

LEMMA RecordedOne ==
  ASSUME NEW w \in Runners PROVE Recorded({w}) = IF staged[w] # 0 THEN {U(w)} ELSE {}
  BY DEF Recorded

LEMMA EndsKeep ==
  ASSUME IInv, NEW w \in Runners,
         Leave(w) \/ Die(w) \/ Publish(w) \/ Unpublished(w)
  PROVE  IInv'
  <1>. USE DEF disk, db
  <1>0. /\ Typed /\ (Busy(w) => U(w) \in Users)
        /\ \A v \in Runners : Busy(v) => st[task[v]] = "RUNNING"
    BY TasksOfUsers, NoneIsTask DEF IInv, RunnerOK, U
  <1>1. Recorded({w}) \subseteq Users
    BY <1>0, RecordedOne DEF IInv, RunnerOK
  <1>2. CASE Leave(w)
    <2>1. staged[w] = 0
      BY <1>2 DEF Leave, Busy, IInv, RunnerOK
    <2>. QED
      BY <1>0, <1>2, <2>1, ForgetKeeps DEF Leave, Typed
  <1>3. CASE Die(w)
    <2>1. batch' \in [Runners -> SUBSET Tasks]
      BY <1>0, <1>3 DEF Die, Typed
    <2>2. lost' = lost \cup Recorded({w}) /\ lost' \subseteq Users
      BY <1>0, <1>1, <1>3 DEF Die, Typed
    <2>3. staged[w] # 0 => U(w) \in lost'
      BY <2>2, RecordedOne
    <2>. QED
      BY <1>0, <1>3, <2>1, <2>2, <2>3, ForgetKeeps DEF Die, Typed
  <1>4. CASE Publish(w)
    <2>1. Busy(w) /\ task[w] \in Tasks
      BY <1>4 DEF Publish, Busy, IInv, RunnerOK
    <2>2. arch' = arch \cup Recorded({w}) /\ arch' \subseteq Users
      BY <1>0, <1>1, <1>4 DEF Publish, Typed
    <2>3. staged[w] # 0 => U(w) \in arch'
      BY <2>2, RecordedOne
    <2>4. \A v \in Runners \ {w} : Busy(v) => task[v] # task[w]
      BY <2>1 DEF IInv, Distinct
    <2>5. /\ st' = [st EXCEPT ![task[w]] = IF w \in bad THEN "FAILED" ELSE "DONE"]
          /\ st' \in [Tasks -> {"none", "PENDING", "RUNNING", "DONE", "FAILED", "ABANDONED"}]
      BY <1>0, <1>4, <2>1 DEF Publish, Typed
    <2>6. \A v \in Runners \ {w} : Busy(v) => st'[task[v]] = "RUNNING"
      BY <1>0, <2>1, <2>4, <2>5 DEF Typed, IInv, RunnerOK
    <2>. QED
      BY <1>0, <1>4, <2>2, <2>3, <2>5, <2>6, ForgetKeeps DEF Publish, Keep, Typed
  <1>5. CASE Unpublished(w)
    <2>1. batch' \in [Runners -> SUBSET Tasks]
      BY <1>0, <1>5 DEF Unpublished, Typed
    <2>2. lost \subseteq lost' /\ lost' \subseteq Users
      BY <1>0, <1>1, <1>5 DEF Unpublished, Typed
    <2>3. staged[w] # 0 => U(w) \in lost'
      BY <1>5, RecordedOne, LostAlready DEF Unpublished
    <2>. QED
      BY <1>0, <1>5, <2>1, <2>2, <2>3, ForgetKeeps DEF Unpublished, Keep, Typed
  <1>. QED
    BY <1>2, <1>3, <1>4, <1>5

-----------------------------------------------------------------------------
(* The backup.                                                             *)

\* Steps that write no mailbox and no domain row, and take no mail out.
LEMMA PlainKeep ==
  ASSUME IInv, NEW w \in Runners,
         Check(w) \/ FindDomain(w) \/ Probe(w) \/ Copy(w) \/ RemoveHome(w) \/ Fails(w)
  PROVE  IInv'
  <1>. USE DEF disk, db, Keep
  <1>0. Typed /\ RunnerOK(w)
    BY DEF IInv
  <1>1. /\ UNCHANGED <<store, row, dom, doms, domLog, arch, st, batch, task, closed, lost, had, taken, made>>
        /\ Busy(w) /\ home' \subseteq home
    BY DEF Check, FindDomain, Probe, Copy, RemoveHome, Fails, Busy
  <1>2. /\ \E l \in Labels : pc' = [pc EXCEPT ![w] = l]
        /\ own' \subseteq own \cup {w} /\ own \subseteq own' /\ bad' \subseteq bad \cup {w}
        /\ \E n \in Nat : ref' = [ref EXCEPT ![w] = n]
        /\ \E n \in Nat : staged' = [staged EXCEPT ![w] = n]
    <2>1. \E l \in Labels : pc' = [pc EXCEPT ![w] = l]
      BY DEF Check, FindDomain, Probe, Copy, RemoveHome, Fails, Goto, Throw, Labels, Early, Owning
    <2>2. own' \subseteq own \cup {w} /\ own \subseteq own' /\ bad' \subseteq bad \cup {w}
      BY DEF Check, FindDomain, Probe, Copy, RemoveHome, Fails, Throw
    <2>3. ref[w] \in Nat /\ staged[w] \in Nat /\ dom \in Nat
      BY <1>0 DEF Typed
    <2>4. \E n \in Nat : ref' = [ref EXCEPT ![w] = n]
      BY <1>0, <2>3 DEF Check, FindDomain, Probe, Copy, RemoveHome, Fails, Typed
    <2>5. \E n \in Nat : staged' = [staged EXCEPT ![w] = n]
      BY <1>0, <2>3 DEF Check, FindDomain, Probe, Copy, RemoveHome, Fails, Typed
    <2>. QED
      BY <2>1, <2>2, <2>4, <2>5
  <1>3. Typed'
    BY <1>0, <1>1, <1>2 DEF Typed
  <1>4. \A v \in Runners \ {w} : /\ pc'[v] = pc[v] /\ ref'[v] = ref[v] /\ staged'[v] = staged[v]
                                 /\ v \in own' <=> v \in own
    BY <1>0, <1>2 DEF Typed
  <1>5. staged[w] # 0 => staged'[w] # 0
    BY <1>0 DEF Check, FindDomain, Probe, Copy, RemoveHome, Fails, RunnerOK, Early
  <1>6. Findable'
    <2>1. Recorded(Runners) \subseteq Recorded(Runners)' \cup arch' \cup lost'
      BY <1>1, <1>4, <1>5, RecordedStays
    <2>. QED
      BY <1>1, <2>1, FindableStays
  <1>7. RunnerOK(w)'
    <2>1. UNCHANGED <<row, dom, st, closed, lost, taken, task>> /\ U(w)' = U(w) /\ Busy(w)
          /\ (RowStands(w) => RowStands(w)') /\ U(w) \in Users /\ task[w] \in Tasks
      BY <1>0, <1>1, TasksOfUsers, NoneIsTask DEF RowStands, U, RunnerOK
    <2>2. CASE Check(w)
      <3>1. /\ pc'[w] \in {"find", "publish"} /\ staged'[w] = staged[w] /\ pc[w] = "check"
            /\ own' = IF row[U(w)] = task[w] THEN own \cup {w} ELSE own
            /\ pc'[w] = "find" => row[U(w)] \in {NoRow, task[w]}
        BY <1>0, <2>2 DEF Check, Goto, Typed
      <3>2. w \in own => RowStands(w)
        BY <1>0, <3>1 DEF RunnerOK
      <3>3. w \in own' => RowStands(w)'
        BY <2>1, <3>1, <3>2 DEF RowStands
      <3>. QED
        BY <1>0, <2>1, <3>1, <3>3 DEF RunnerOK, Busy, Early
    <2>3. CASE FindDomain(w)
      <3>1. /\ pc[w] = "find" /\ pc'[w] = (IF dom = 0 THEN "make" ELSE "insert")
            /\ own' = own /\ staged'[w] = staged[w] /\ ref'[w] = dom
        BY <1>0, <2>3 DEF FindDomain, Goto, Typed
      <3>2. w \in own => dom # 0
        BY <1>0, <2>1, <3>1, TasksOfUsers, NoneIsTask DEF RunnerOK, RowStands, IInv, Referred
      <3>. QED
        BY <1>0, <2>1, <3>1, <3>2 DEF RunnerOK, Busy, Early
    <2>4. CASE Probe(w)
      <3>1. /\ pc[w] = "probe" /\ pc'[w] \in {"copy", "remove", "tidy"}
            /\ own' = own /\ staged'[w] = staged[w] /\ ref'[w] = ref[w]
        BY <1>0, <2>4 DEF Probe, Goto, Throw, Typed
      <3>. QED
        BY <1>0, <2>1, <3>1 DEF RunnerOK, Busy, Early
    <2>5. CASE Copy(w)
      <3>1. /\ pc[w] = "copy" /\ pc'[w] = "empty"
            /\ own' = own /\ staged'[w] = ref[w] /\ ref'[w] = ref[w]
        BY <1>0, <2>5 DEF Copy, Goto, Typed
      <3>2. ref[w] = dom /\ dom # 0
        BY <1>0, <2>1, <3>1, TasksOfUsers, NoneIsTask DEF RunnerOK, RowStands, IInv, Referred
      <3>. QED
        BY <1>0, <2>1, <3>1, <3>2 DEF RunnerOK, Busy, Early
    <2>6. CASE RemoveHome(w)
      <3>1. /\ pc[w] = "remove" /\ pc'[w] \in {"audit", "tidy"}
            /\ own' = own /\ staged'[w] = staged[w] /\ ref'[w] = ref[w]
        BY <1>0, <2>6 DEF RemoveHome, Goto, Throw, Typed
      <3>. QED
        BY <1>0, <2>1, <3>1 DEF RunnerOK, Busy, Early
    <2>7. CASE Fails(w)
      <3>1. /\ pc[w] \in {"insert", "probe", "copy", "remove"} /\ pc'[w] = "tidy"
            /\ own' = own /\ staged'[w] = staged[w] /\ (pc[w] # "insert" => ref'[w] = ref[w])
        BY <1>0, <2>7 DEF Fails, Goto, Throw, Typed
      <3>. QED
        BY <1>0, <2>1, <3>1 DEF RunnerOK, Busy, Early
    <2>. QED
      BY <2>2, <2>3, <2>4, <2>5, <2>6, <2>7
  <1>8. \A v \in Runners : Busy(v) => st'[task[v]] = "RUNNING"
    BY <1>1 DEF IInv, RunnerOK
  <1>. QED
    BY <1>1, <1>3, <1>4, <1>6, <1>7, <1>8, WorkKeeps

LEMMA EmptyKeeps == ASSUME IInv, NEW w \in Runners, Empty(w) PROVE IInv'
  <1>. USE DEF db, Keep
  <1>0. Typed /\ RunnerOK(w)
    BY DEF IInv
  <1>1. /\ pc[w] = "empty" /\ pc' = [pc EXCEPT ![w] = "remove"]
        /\ UNCHANGED <<home, db, batch, task, own, ref, made, staged, closed, bad, lost, had, taken>>
    BY DEF Empty, Goto
  <1>2. PICK n \in 0..store[U(w)] : store' = [store EXCEPT ![U(w)] = n]
    BY DEF Empty
  <1>3. U(w) \in Users /\ staged[w] # 0 /\ Busy(w)
    BY <1>0, <1>1, TasksOfUsers, NoneIsTask DEF RunnerOK, Busy, U
  <1>4. store' \in [Users -> Nat]
    BY <1>0, <1>2, <1>3 DEF Typed
  <1>5. Typed'
    BY <1>0, <1>1, <1>4 DEF Typed, Labels, Owning
  <1>6. Findable'
    <2>1. Recorded(Runners)' = Recorded(Runners) /\ U(w) \in Recorded(Runners)
      BY <1>1, <1>3 DEF Recorded, U
    <2>2. \A u \in Users : u # U(w) => store'[u] = store[u]
      BY <1>0, <1>2 DEF Typed
    <2>3. had \subseteq Users
      BY DEF IInv, Typed
    <2>. QED
      BY <1>1, <2>1, <2>2, <2>3 DEF IInv, Findable
  <1>7. RunnerOK(w)'
    <2>1. pc'[w] = "remove"
      BY <1>0, <1>1 DEF Typed
    <2>. QED
      BY <1>0, <1>1, <1>3, <2>1 DEF RunnerOK, Busy, Early, RowStands, U
  <1>8. \A v \in Runners \ {w} : pc'[v] = pc[v] /\ (Busy(v) => st'[task[v]] = "RUNNING")
    BY <1>0, <1>1 DEF Typed, IInv, RunnerOK
  <1>. QED
    BY <1>1, <1>3, <1>5, <1>6, <1>7, <1>8, WorkKeeps

LEMMA AuditKeeps == ASSUME IInv, NEW w \in Runners, Audit(w) PROVE IInv'
  <1>. USE DEF disk, Keep
  <1>0. Typed /\ RunnerOK(w)
    BY DEF IInv
  <1>1. /\ pc[w] = "audit" /\ pc' = [pc EXCEPT ![w] = "tidy"]
        /\ UNCHANGED <<disk, row, dom, doms, st, batch, task, own, ref, made, bad, had, taken>>
    BY DEF Audit, Goto
  <1>2. Busy(w) /\ U(w) \in Users /\ Recorded({w}) \subseteq Users
    <2>1. Busy(w) /\ task[w] \in Tasks
      BY <1>0, <1>1 DEF RunnerOK, Busy
    <2>2. U(w) \in Users
      BY <2>1, TasksOfUsers, NoneIsTask DEF U
    <2>. QED
      BY <2>1, <2>2, RecordedOne
  <1>3. /\ closed' \subseteq closed \cup {w} /\ closed \subseteq closed'
        /\ arch \subseteq arch' /\ arch' \subseteq arch \cup Recorded({w})
        /\ lost \subseteq lost' /\ lost' \subseteq lost \cup Recorded({w})
        /\ \/ staged' = [staged EXCEPT ![w] = 0] /\ arch' = arch \cup Recorded({w})
           \/ staged' = staged /\ (staged[w] # 0 => U(w) \in lost')
    BY RecordedOne, LostAlready DEF Audit
  <1>4. Typed'
    <2>1. staged' \in [Runners -> Nat]
      BY <1>0, <1>3 DEF Typed
    <2>2. pc' \in [Runners -> Labels]
      BY <1>0, <1>1 DEF Typed, Labels
    <2>3. closed' \subseteq Runners /\ arch' \subseteq Users /\ lost' \subseteq Users
      BY <1>0, <1>2, <1>3 DEF Typed
    <2>. QED
      BY <1>0, <1>1, <2>1, <2>2, <2>3 DEF Typed
  <1>5. /\ pc'[w] = "tidy" /\ (staged'[w] # 0 => staged'[w] = staged[w] /\ U(w) \in lost')
        /\ \A v \in Runners \ {w} : pc'[v] = pc[v] /\ staged'[v] = staged[v]
    BY <1>0, <1>1, <1>3 DEF Typed
  <1>6. Findable'
    <2>1. staged[w] # 0 => U(w) \in arch' \cup lost'
      BY <1>3, RecordedOne
    <2>2. Recorded(Runners) \subseteq Recorded(Runners)' \cup arch' \cup lost'
      BY <1>1, <1>5, <2>1, RecordedStays
    <2>. QED
      BY <1>1, <1>3, <2>2, FindableStays
  <1>7. RunnerOK(w)'
    BY <1>0, <1>1, <1>2, <1>5 DEF RunnerOK, Busy, Early, RowStands, U
  <1>8. \A v \in Runners : Busy(v) => st'[task[v]] = "RUNNING"
    BY <1>1 DEF IInv, RunnerOK
  <1>. QED
    BY <1>1, <1>2, <1>3, <1>4, <1>5, <1>6, <1>7, <1>8, WorkKeeps

LEMMA RowStep ==
  ASSUME IInv, NEW w \in Runners, InsertRow(w) \/ Tidy(w)
  PROVE  IInv'
  <1>. USE DEF disk, Keep
  <1>0. Typed /\ RunnerOK(w)
    BY DEF IInv
  <1>1. /\ pc[w] \in {"insert", "tidy"} /\ Busy(w) /\ task[w] \in Tasks /\ U(w) \in Users
        /\ UNCHANGED <<disk, dom, doms, domLog, arch, st, batch, task, made, staged, closed, lost, had, taken>>
    BY <1>0, TasksOfUsers, NoneIsTask DEF InsertRow, Tidy, Busy, RunnerOK, U
  <1>2. /\ \E l \in Labels : pc' = [pc EXCEPT ![w] = l]
        /\ own' \subseteq own \cup {w} /\ own \subseteq own' /\ bad' \subseteq bad \cup {w}
        /\ \E n \in Nat : ref' = [ref EXCEPT ![w] = n]
        /\ \E x \in {NoRow} \cup Tasks \cup {Real} : row' = [row EXCEPT ![U(w)] = x]
    <2>1. \E l \in Labels : pc' = [pc EXCEPT ![w] = l]
      BY DEF InsertRow, Tidy, Goto, Throw, Labels, Early, Owning
    <2>2. own' \subseteq own \cup {w} /\ own \subseteq own' /\ bad' \subseteq bad \cup {w}
      BY DEF InsertRow, Tidy, Throw
    <2>3. \E n \in Nat : ref' = [ref EXCEPT ![w] = n]
      BY <1>0 DEF InsertRow, Tidy, Typed
    <2>4. \E x \in {NoRow} \cup Tasks \cup {Real} : row' = [row EXCEPT ![U(w)] = x]
      BY <1>0, <1>1 DEF InsertRow, Tidy, Typed
    <2>. QED
      BY <2>1, <2>2, <2>3, <2>4
  <1>3. Typed'
    BY <1>0, <1>1, <1>2 DEF Typed
  <1>4. \A v \in Runners \ {w} : pc'[v] = pc[v] /\ ref'[v] = ref[v] /\ (v \in own' <=> v \in own)
    BY <1>0, <1>2 DEF Typed
  <1>5. \A u \in Users : \/ row'[u] = row[u]
                         \/ row[u] = task[w] /\ row'[u] = NoRow
                         \/ row[u] = NoRow /\ ref[w] = dom /\ pc[w] = "insert"
    BY <1>0, <1>1 DEF InsertRow, Tidy, Typed
  <1>6. Referred'
    BY <1>0, <1>1, <1>5 DEF IInv, Referred, RunnerOK
  <1>7. ASSUME NEW v \in Runners \ {w}, Busy(v), RowStands(v) PROVE RowStands(v)'
    <2>1. task[v] \in Tasks /\ task[v] # task[w] /\ U(v) \in Users
      BY <1>1, <1>7, TasksOfUsers, NoneIsTask DEF IInv, RunnerOK, Distinct, U
    <2>2. row'[U(v)] = row[U(v)]
      BY <1>1, <1>5, <1>7, <2>1, TasksOfUsers, NoneIsTask DEF RowStands
    <2>. QED
      BY <1>1, <1>7, <2>2 DEF RowStands, U
  <1>8. \A v \in Runners \ {w} : RunnerOK(v)'
    <2>1. \A v \in Runners : Busy(v) => st'[task[v]] = "RUNNING"
      BY <1>1 DEF IInv, RunnerOK
    <2>2. \A v \in Runners \ {w} : Busy(v) /\ v \in own /\ pc[v] \notin {"undomain", "publish"} => RowStands(v)'
      BY <1>7 DEF IInv, RunnerOK
    <2>. QED
      BY <1>1, <1>4, <2>1, <2>2, OthersKeep
  <1>9. RunnerOK(w)'
    <2>1. CASE InsertRow(w)
      <3>1. /\ pc[w] = "insert"
            /\ \/ pc'[w] = "probe" /\ w \in own /\ UNCHANGED <<row, own, ref>>
               \/ pc'[w] = "probe" /\ w \in own' /\ row'[U(w)] = task[w] /\ ref[w] = dom /\ ref' = ref
               \/ pc'[w] = "tidy" /\ w \notin own'
        BY <1>0, <1>1, <2>1 DEF InsertRow, Goto, Throw, Typed
      <3>2. w \in own' => RowStands(w)'
        BY <1>0, <1>1, <3>1 DEF RunnerOK, RowStands, U
      <3>. QED
        BY <1>0, <1>1, <3>1, <3>2 DEF RunnerOK, Busy, Early, U
    <2>2. CASE Tidy(w)
      <3>1. pc[w] = "tidy" /\ pc'[w] = "undomain" /\ ref' = ref
        BY <1>0, <2>2 DEF Tidy, Goto, Typed
      <3>. QED
        BY <1>0, <1>1, <3>1 DEF RunnerOK, Busy, Early, U
    <2>. QED
      BY <2>1, <2>2
  <1>10. Distinct' /\ Findable'
    <2>1. \A v \in Runners : Busy(v)' => Busy(v)
      BY <1>1, <1>4 DEF Busy
    <2>2. Distinct'
      BY <1>1, <2>1 DEF IInv, Distinct
    <2>3. Findable'
      BY <1>1 DEF IInv, Findable, Recorded, U
    <2>. QED
      BY <2>2, <2>3
  <1>. QED
    BY <1>3, <1>6, <1>8, <1>9, <1>10 DEF IInv

-----------------------------------------------------------------------------
(* The domain row comes and goes.                                          *)

\* A runner that has its row has the domain too.
LEMMA RowsNeedDomain ==
  ASSUME IInv, dom = 0 \/ Unreferenced, NEW v \in Runners, Busy(v), v \in own,
         pc[v] \notin {"undomain", "publish"}
  PROVE  FALSE
  <1>1. RowStands(v) /\ task[v] \in Tasks /\ U(v) \in Users
    BY TasksOfUsers, NoneIsTask DEF IInv, RunnerOK, U
  <1>2. row[U(v)] # NoRow
    BY <1>1, TasksOfUsers, NoneIsTask DEF RowStands
  <1>. QED
    BY <1>1, <1>2 DEF IInv, Referred, Unreferenced

LEMMA MakeKeeps == ASSUME IInv, NEW w \in Runners, MakeDomain(w) PROVE IInv'
  <1>. USE DEF disk, Keep
  <1>0. Typed /\ RunnerOK(w)
    BY DEF IInv
  <1>1. /\ pc[w] = "make" /\ Busy(w) /\ w \notin own /\ staged[w] = 0 /\ w \notin closed
        /\ UNCHANGED <<disk, row, arch, st, batch, task, own, staged, closed, lost, had, taken>>
    <2>1. /\ pc[w] = "make"
          /\ UNCHANGED <<disk, row, arch, st, batch, task, own, staged, closed, lost, had, taken>>
      BY DEF MakeDomain
    <2>2. Busy(w) /\ w \notin own /\ staged[w] = 0 /\ w \notin closed
      BY <1>0, <2>1 DEF Busy, RunnerOK, Early
    <2>. QED
      BY <2>1, <2>2
  <1>2. CASE dom # 0
    <2>1. pc' = [pc EXCEPT ![w] = "publish"] /\ bad' = bad \cup {w} /\ UNCHANGED <<dom, doms, ref, made>>
      BY <1>2 DEF MakeDomain, Throw, Goto
    <2>2. Typed' /\ pc'[w] = "publish" /\ \A v \in Runners \ {w} : pc'[v] = pc[v]
      BY <1>0, <1>1, <2>1 DEF Typed, Labels
    <2>3. RunnerOK(w)'
      BY <1>0, <1>1, <2>1, <2>2 DEF RunnerOK, Busy, Early
    <2>4. Findable'
      BY <1>1 DEF IInv, Findable, Recorded, U
    <2>5. \A v \in Runners : Busy(v) => st'[task[v]] = "RUNNING"
      BY <1>1 DEF IInv, RunnerOK
    <2>. QED
      BY <1>1, <2>1, <2>2, <2>3, <2>4, <2>5, WorkKeeps
  <1>3. CASE dom = 0
    <2>1. /\ pc' = [pc EXCEPT ![w] = "insert"] /\ bad' = bad /\ dom' = doms + 1 /\ doms' = dom'
          /\ ref' = [ref EXCEPT ![w] = dom'] /\ made' = [made EXCEPT ![w] = dom']
      BY <1>3 DEF MakeDomain, Goto
    <2>2. dom' \in Nat /\ dom' # 0
      BY <1>0, <2>1 DEF Typed
    <2>3. Typed'
      BY <1>0, <1>1, <2>1, <2>2 DEF Typed, Labels, Early
    <2>4. /\ pc'[w] = "insert" /\ ref'[w] = dom'
          /\ \A v \in Runners \ {w} : pc'[v] = pc[v] /\ ref'[v] = ref[v]
      BY <1>0, <2>1 DEF Typed
    <2>5. \A v \in Runners \ {w} : RunnerOK(v)'
      <3>1. \A v \in Runners : Busy(v) => st'[task[v]] = "RUNNING"
        BY <1>1 DEF IInv, RunnerOK
      <3>2. \A v \in Runners : ~(Busy(v) /\ v \in own /\ pc[v] \notin {"undomain", "publish"})
        BY <1>3, RowsNeedDomain
      <3>. QED
        BY <1>1, <1>3, <2>4, <3>1, <3>2, OthersKeep
    <2>6. RunnerOK(w)'
      BY <1>0, <1>1, <2>2, <2>4 DEF RunnerOK, Busy, Early, U
    <2>7. Distinct' /\ Referred' /\ Findable'
      <3>1. \A v \in Runners : Busy(v)' => Busy(v)
        BY <1>1, <2>4 DEF Busy
      <3>2. Distinct'
        BY <1>1, <3>1 DEF IInv, Distinct
      <3>3. Referred'
        BY <1>1, <2>2 DEF Referred
      <3>4. Findable'
        BY <1>1 DEF IInv, Findable, Recorded, U
      <3>. QED
        BY <3>2, <3>3, <3>4
    <2>. QED
      BY <2>3, <2>5, <2>6, <2>7 DEF IInv
  <1>. QED
    BY <1>2, <1>3

LEMMA UndomainKeeps == ASSUME IInv, NEW w \in Runners, Undomain(w) PROVE IInv'
  <1>. USE DEF disk, Keep
  <1>0. Typed /\ RunnerOK(w)
    BY DEF IInv
  <1>1. /\ pc[w] = "undomain" /\ Busy(w) /\ pc' = [pc EXCEPT ![w] = "publish"]
        /\ UNCHANGED <<disk, row, doms, arch, st, batch, task, own, made, staged, bad, had, taken>>
    BY DEF Undomain, Goto, Busy
  <1>2. /\ ref' \in {ref, [ref EXCEPT ![w] = 0]} /\ closed' \in {closed, closed \cup {w}}
        /\ lost \subseteq lost' /\ lost' \subseteq lost \cup Recorded(Runners \ {w})
        /\ staged[w] # 0 => ref' = ref /\ closed' = closed /\ dom' = dom
        /\ dom' # dom => dom' = 0 /\ Unreferenced /\ Recorded(Runners \ {w}) \subseteq lost'
    BY DEF Undomain, KeepsDomain
  <1>3. /\ pc'[w] = "publish"
        /\ \A v \in Runners \ {w} : /\ pc'[v] = pc[v] /\ ref'[v] = ref[v]
                                    /\ v \in closed' <=> v \in closed
    BY <1>0, <1>1, <1>2 DEF Typed
  <1>4. Recorded(Runners) \subseteq Users
    <2>1. \A v \in Runners : staged[v] # 0 => U(v) \in Users
      BY TasksOfUsers, NoneIsTask DEF IInv, RunnerOK, U
    <2>. QED
      BY <2>1 DEF Recorded
  <1>5. Typed'
    <2>1. Recorded(Runners \ {w}) \subseteq Recorded(Runners)
      BY DEF Recorded
    <2>2. ref' \in [Runners -> Nat] /\ pc' \in [Runners -> Labels]
      BY <1>0, <1>1, <1>2 DEF Typed, Labels
    <2>3. dom' \in Nat
      BY <1>0, <1>2 DEF Typed
    <2>. QED
      BY <1>0, <1>1, <1>2, <1>4, <2>1, <2>2, <2>3 DEF Typed
  <1>6. \A v \in Runners \ {w} : RunnerOK(v)'
    <2>1. \A v \in Runners : Busy(v) => st'[task[v]] = "RUNNING"
      BY <1>1 DEF IInv, RunnerOK
    <2>2. \A v \in Runners : Busy(v) /\ v \in own /\ pc[v] \notin {"undomain", "publish"} =>
             RowStands(v)' /\ dom' = dom
      <3>. SUFFICES ASSUME NEW v \in Runners, Busy(v), v \in own, pc[v] \notin {"undomain", "publish"}
                    PROVE  RowStands(v)' /\ dom' = dom
        OBVIOUS
      <3>1. RowStands(v)
        BY DEF IInv, RunnerOK
      <3>2. ~Unreferenced
        BY RowsNeedDomain
      <3>. QED
        BY <1>1, <1>2, <3>1, <3>2 DEF RowStands, U
    <2>3. \A v \in Runners \ {w} : staged[v] # 0 /\ dom' # dom => U(v) \in lost'
      BY <1>2 DEF Recorded
    <2>. QED
      BY <1>1, <1>2, <1>3, <2>1, <2>2, <2>3, OthersKeep
  <1>7. RunnerOK(w)'
    BY <1>0, <1>1, <1>2, <1>3 DEF RunnerOK, Busy, Early, U
  <1>8. Distinct' /\ Referred' /\ Findable'
    <2>1. \A v \in Runners : Busy(v)' => Busy(v)
      BY <1>1, <1>3 DEF Busy
    <2>2. Distinct'
      BY <1>1, <2>1 DEF IInv, Distinct
    <2>3. Referred'
      BY <1>1, <1>2 DEF IInv, Referred, Unreferenced
    <2>4. Findable'
      BY <1>1, <1>2 DEF IInv, Findable, Recorded, U
    <2>. QED
      BY <2>2, <2>3, <2>4
  <1>. QED
    BY <1>5, <1>6, <1>7, <1>8 DEF IInv

\* The operator's changes.
LEMMA OperatorKeeps ==
  ASSUME IInv, AddDomain \/ \E u \in Users : Create(u) \/ Take(u)
  PROVE  IInv'
  <1>. USE DEF disk, work
  <1>0. Typed
    BY DEF IInv
  <1>1. /\ UNCHANGED <<disk, arch, st, work, had, lost>> /\ taken \subseteq taken'
        /\ \/ dom = 0 /\ dom' = doms + 1 /\ doms' = dom' /\ UNCHANGED <<row, taken>>
           \/ UNCHANGED <<dom, doms>>
    BY DEF AddDomain, Create, Take
  <1>2. dom' \in Nat /\ doms' \in Nat /\ (dom' # dom => dom = 0 /\ dom' # 0)
    BY <1>0, <1>1 DEF Typed
  <1>3. \A u \in Users : \/ row'[u] = row[u]
                         \/ row[u] = NoRow /\ dom # 0 /\ dom' = dom
                         \/ row[u] \in Tasks /\ row'[u] = Real /\ u \in taken' /\ dom' = dom
    BY <1>0 DEF AddDomain, Create, Take, Typed
  <1>4. Typed'
    <2>1. row' \in [Users -> Tasks \cup {NoRow, Real}] /\ taken' \subseteq Users
      BY <1>0 DEF AddDomain, Create, Take, Typed
    <2>. QED
      BY <1>0, <1>1, <1>2, <2>1 DEF Typed
  <1>5. Referred'
    BY <1>2, <1>3, <1>0, TasksOfUsers, NoneIsTask DEF IInv, Referred, Typed
  <1>6. \A v \in Runners : Busy(v) /\ RowStands(v) => RowStands(v)'
    <2>. SUFFICES ASSUME NEW v \in Runners, Busy(v), RowStands(v) PROVE RowStands(v)'
      OBVIOUS
    <2>1. task[v] \in Tasks /\ U(v) \in Users
      BY TasksOfUsers, NoneIsTask DEF IInv, RunnerOK, U
    <2>. QED
      BY <1>1, <1>3, <2>1, TasksOfUsers, NoneIsTask DEF RowStands, U
  <1>7. \A v \in Runners : RunnerOK(v)'
    <2>1. \A v \in Runners : Busy(v) => st'[task[v]] = "RUNNING"
      BY <1>1 DEF IInv, RunnerOK
    <2>2. \A v \in Runners : Busy(v) /\ v \in own /\ pc[v] \notin {"undomain", "publish"} =>
             RowStands(v)' /\ dom' = dom
      BY <1>2, <1>6, RowsNeedDomain DEF IInv, RunnerOK
    <2>3. \A v \in Runners : staged[v] # 0 /\ dom' # dom => staged[v] # dom
      BY <1>2
    <2>. QED
      BY <1>1, <2>1, <2>2, <2>3, OthersKeep
  <1>8. Distinct' /\ Findable'
    BY <1>1 DEF IInv, Distinct, Findable, Busy, Recorded, U
  <1>. QED
    BY <1>4, <1>5, <1>7, <1>8 DEF IInv

-----------------------------------------------------------------------------
(* The invariant and the properties.                                       *)

LEMMA NextKeeps == ASSUME IInv, [Next]_orphanVars PROVE IInv'
  <1>1. CASE UNCHANGED orphanVars
    BY <1>1 DEF orphanVars, disk, db, work, IInv, Typed, Distinct, Referred, Findable, RunnerOK,
       RowStands, Busy, Recorded, U
  <1>2. CASE \E t \in Tasks : Enqueue(t) \/ Retry(t) \/ Reap(t)
    BY <1>2, QueueKeeps
  <1>3. CASE AddDomain \/ \E u \in Users : Create(u) \/ Take(u)
    BY <1>3, OperatorKeeps
  <1>4. ASSUME NEW w \in Runners, Start(w) \/ Step(w) \/ Die(w) PROVE IInv'
    <2>1. CASE Start(w) \/ (\E t \in Tasks : Claim(w, t))
      BY <2>1, StartKeeps, ClaimKeeps
    <2>2. CASE Leave(w) \/ Die(w) \/ Publish(w) \/ Unpublished(w)
      BY <2>2, EndsKeep
    <2>3. CASE Check(w) \/ FindDomain(w) \/ Probe(w) \/ Copy(w) \/ RemoveHome(w) \/ Fails(w)
      BY <2>3, PlainKeep
    <2>4. CASE MakeDomain(w) \/ InsertRow(w) \/ Empty(w) \/ Audit(w) \/ Tidy(w) \/ Undomain(w)
      BY <2>4, MakeKeeps, RowStep, EmptyKeeps, AuditKeeps, UndomainKeeps
    <2>. QED
      BY <1>4, <2>1, <2>2, <2>3, <2>4 DEF Step
  <1>. QED
    BY <1>1, <1>2, <1>3, <1>4 DEF Next

\* Of every runner in a task: the row it works through is its own until it is
\* tidied away, and its archive row can be flushed or is known to be lost.
THEOREM Inductive == Spec => []IInv
  <1>1. Init => IInv
    BY InitIsOK
  <1>2. IInv /\ [Next]_orphanVars => IInv'
    BY NextKeeps
  <1>. QED
    BY <1>1, <1>2, PTL DEF Spec

\* Mail that a backup took out of its maildir is found through an archive row,
\* or its runner has that row staged, or the row was lost with a death, a
\* failed flush or the domain.
THEOREM MailIsFound == Spec => []Findable
  <1>1. IInv => Findable
    BY DEF IInv
  <1>. QED
    BY <1>1, Inductive, PTL

\* No task and no sweep touches the row of an account, nor its mail unless the
\* account was made out of a temporary row.
THEOREM AccountsStand == Spec => AccountStands
  <1>. DEFINE Same == \A u \in Users : row[u] = Real =>
                /\ row'[u] = Real
                /\ u \notin taken => store'[u] = store[u] /\ (u \in home <=> u \in home')
  <1>1. IInv /\ [Next]_orphanVars => [Same]_orphanVars
    <2>. SUFFICES ASSUME IInv, Next, NEW u \in Users, row[u] = Real
                  PROVE  /\ row'[u] = Real
                         /\ u \notin taken => store'[u] = store[u] /\ (u \in home <=> u \in home')
      OBVIOUS
    <2>0. Typed
      BY DEF IInv
    <2>1. ASSUME row' = row \/ row'[u] = row[u], UNCHANGED disk
          PROVE  /\ row'[u] = Real
                 /\ u \notin taken => store'[u] = store[u] /\ (u \in home <=> u \in home')
      BY <2>1 DEF disk
    <2>2. CASE \E t \in Tasks : Enqueue(t) \/ Retry(t) \/ Reap(t)
      BY <2>1, <2>2 DEF Enqueue, Retry, Reap
    <2>3. CASE AddDomain
      BY <2>1, <2>3 DEF AddDomain
    <2>4. CASE \E x \in Users : Create(x) \/ Take(x)
      <3>1. UNCHANGED disk
        BY <2>4 DEF Create, Take
      <3>2. row'[u] = row[u]
        BY <2>0, <2>4, TasksOfUsers, NoneIsTask DEF Create, Take, Typed
      <3>. QED
        BY <2>1, <3>1, <3>2
    <2>5. ASSUME NEW w \in Runners, Start(w)
          PROVE  row'[u] = row[u] /\ UNCHANGED disk
      BY <2>5, TasksOfUsers, NoneIsTask DEF Start, Swept
    <2>6. ASSUME NEW w \in Runners,
                 \/ \E t \in Tasks : Claim(w, t)
                 \/ Leave(w) \/ Die(w) \/ Publish(w) \/ Unpublished(w) \/ Check(w) \/ FindDomain(w)
                 \/ MakeDomain(w) \/ Probe(w) \/ Copy(w) \/ Fails(w) \/ Audit(w) \/ Undomain(w)
          PROVE  UNCHANGED <<row, disk>>
      BY <2>6 DEF Claim, Leave, Die, Publish, Unpublished, Check, FindDomain, MakeDomain, Probe,
         Copy, Fails, Audit, Undomain, db
    <2>7. ASSUME NEW w \in Runners, InsertRow(w) \/ Tidy(w)
          PROVE  row'[u] = row[u] /\ UNCHANGED disk
      <3>1. task[w] \in Tasks
        BY <2>7 DEF InsertRow, Tidy, IInv, RunnerOK, Busy
      <3>. QED
        BY <2>0, <2>7, <3>1, TasksOfUsers, NoneIsTask DEF InsertRow, Tidy, Typed
    <2>8. ASSUME NEW w \in Runners, Empty(w) \/ RemoveHome(w)
          PROVE  /\ row' = row
                 /\ u \notin taken => store'[u] = store[u] /\ (u \in home <=> u \in home')
      <3>1. UNCHANGED row
        BY <2>8 DEF Empty, RemoveHome, db
      <3>2. w \in own /\ RowStands(w) /\ task[w] \in Tasks
        BY <2>8 DEF Empty, RemoveHome, IInv, RunnerOK, Busy
      <3>3. u \notin taken => u # U(w)
        BY <3>2, TasksOfUsers, NoneIsTask DEF RowStands
      <3>. QED
        BY <2>0, <2>8, <3>1, <3>3 DEF Empty, RemoveHome, Typed
    <2>9. ASSUME NEW w \in Runners, Start(w) \/ Step(w) \/ Die(w)
          PROVE  /\ row'[u] = Real
                 /\ u \notin taken => store'[u] = store[u] /\ (u \in home <=> u \in home')
      BY <2>1, <2>5, <2>6, <2>7, <2>8, <2>9 DEF Step
    <2>. QED
      BY <2>2, <2>3, <2>4, <2>1, <2>9 DEF Next
  <1>. QED
    BY <1>1, Inductive, PTL DEF Spec, AccountStands

-----------------------------------------------------------------------------
(* Type correctness.                                                       *)

\* What TypeOK says beyond Typed, of a runner and of the domain.
RunnerTyped(w) ==
    /\ ~Busy(w) => task[w] = NoTask /\ w \notin bad
    /\ ref[w] \in 0..doms /\ made[w] \in 0..doms /\ staged[w] \in 0..doms

Bounded ==
    /\ store \in [Users -> 0..Mails] /\ domLog \in BOOLEAN
    /\ dom \in 0..doms /\ doms \in 1..MaxDomains
    /\ \A w \in Runners : RunnerTyped(w)
    /\ arch # {} => dom # 0
    /\ failures \in 0..MaxFailures /\ deaths \in 0..MaxDeaths

LEMMA BoundedIsTyped == IInv /\ Bounded => TypeOK
  <1>. SUFFICES ASSUME IInv, Bounded PROVE TypeOK
    OBVIOUS
  <1>1. Typed
    BY DEF IInv
  <1>2. ASSUME NEW w \in Runners
        PROVE  /\ task[w] = NoTask <=> pc[w] \in {"idle", "ready"}
               /\ task[w] = NoTask => w \notin own /\ w \notin closed /\ w \notin bad
               /\ {ref[w], made[w], staged[w]} \subseteq 0..doms
    BY NoneIsTask DEF IInv, RunnerOK, Bounded, RunnerTyped, Busy
  <1>3. own \cup closed \cup bad \subseteq {w \in Runners : task[w] # NoTask}
    BY <1>1, <1>2 DEF Typed
  <1>. QED
    BY <1>1, <1>2, <1>3 DEF TypeOK, Typed, Bounded

LEMMA BoundedInit == Init => Bounded
  <1>. SUFFICES ASSUME Init PROVE Bounded
    OBVIOUS
  <1>1. store \in [Users -> 0..Mails] /\ domLog \in BOOLEAN
    <2>1. 0 \in 0..Mails /\ Mails \in 0..Mails
      BY TasksOfUsers
    <2>2. store = [u \in Users |-> IF u \in had THEN Mails ELSE 0] /\ domLog = FALSE
      BY DEF Init
    <2>. QED
      BY <2>1, <2>2
  <1>2. dom \in 0..doms /\ doms \in 1..MaxDomains /\ arch = {}
    BY OrphanBounds DEF Init
  <1>3. \A w \in Runners : RunnerTyped(w)
    BY DEF Init, RunnerTyped, Busy
  <1>4. failures \in 0..MaxFailures /\ deaths \in 0..MaxDeaths
    BY OrphanBounds DEF Init
  <1>. QED
    BY <1>1, <1>2, <1>3, <1>4 DEF Bounded

\* A step of runner w within its task: what it keeps of the others, and of the
\* domain, is bounded still.
LEMMA BoundedStep == ASSUME IInv, Bounded, [Next]_orphanVars PROVE Bounded'
  <1>. USE OrphanBounds DEF Bounded, RunnerTyped, Busy, Goto, Throw, Fault, Sound, Keep
  <1>0. Typed
    BY DEF IInv
  <1>1. CASE UNCHANGED orphanVars
    BY <1>1 DEF orphanVars, disk, db, work
  <1>2. ASSUME NEW t \in Tasks, Enqueue(t) \/ Retry(t) \/ Reap(t) PROVE Bounded'
    BY <1>2 DEF Enqueue, Retry, Reap, disk, work
  <1>3. ASSUME NEW u \in Users, Create(u) \/ Take(u) PROVE Bounded'
    BY <1>3 DEF Create, Take, disk, work
  <1>4. CASE AddDomain
    BY <1>4 DEF AddDomain, disk, work
  <1>5. ASSUME NEW w \in Runners, Start(w) PROVE Bounded'
    BY <1>0, <1>5 DEF Start, Typed, disk
  <1>6. ASSUME NEW w \in Runners, NEW t \in Tasks, Claim(w, t) PROVE Bounded'
    BY <1>0, <1>6 DEF Claim, Typed, disk
  <1>7. ASSUME NEW w \in Runners, Leave(w) \/ Die(w) \/ Unpublished(w) PROVE Bounded'
    BY <1>0, <1>7 DEF Leave, Die, Unpublished, Forget, Typed, disk, db
  <1>8. ASSUME NEW w \in Runners, Publish(w) PROVE Bounded'
    BY <1>0, <1>8 DEF Publish, Commits, Recorded, Forget, Typed, disk
  <1>9. ASSUME NEW w \in Runners, Check(w) \/ FindDomain(w) PROVE Bounded'
    BY <1>0, <1>9 DEF Check, FindDomain, Typed, disk, db
  <1>10. ASSUME NEW w \in Runners, MakeDomain(w) PROVE Bounded'
    <2>1. CASE dom = 0
      <3>1. /\ doms' = doms + 1 /\ doms < MaxDomains /\ dom' = doms + 1 /\ domLog' = FALSE
            /\ ref' = [ref EXCEPT ![w] = doms + 1] /\ made' = [made EXCEPT ![w] = doms + 1]
            /\ pc' = [pc EXCEPT ![w] = "insert"] /\ pc[w] = "make"
            /\ UNCHANGED <<store, arch, task, staged, bad, failures, deaths>>
        BY <1>10, <2>1 DEF MakeDomain, disk
      <3>2. doms' \in 1..MaxDomains /\ dom' \in 0..doms' /\ dom' # 0 /\ 0..doms \subseteq 0..doms'
        BY <3>1
      <3>3. \A v \in Runners : RunnerTyped(v)'
        BY <1>0, <3>1, <3>2 DEF Typed
      <3>. QED
        BY <3>1, <3>2, <3>3
    <2>2. CASE dom # 0
      BY <1>0, <1>10, <2>2 DEF MakeDomain, Typed, disk
    <2>. QED
      BY <2>1, <2>2
  <1>11. ASSUME NEW w \in Runners, InsertRow(w) PROVE Bounded'
    BY <1>0, <1>11 DEF InsertRow, Typed, disk
  <1>12. ASSUME NEW w \in Runners, Probe(w) \/ Copy(w) PROVE Bounded'
    BY <1>0, <1>12 DEF Probe, Copy, Typed, disk, db
  <1>13. ASSUME NEW w \in Runners, Empty(w) PROVE Bounded'
    <2>1. UNCHANGED <<domLog, dom, doms, arch, task, ref, made, staged, bad, deaths>>
      BY <1>13 DEF Empty, db
    <2>2. pc[w] = "empty" /\ pc' = [pc EXCEPT ![w] = "remove"]
      BY <1>13 DEF Empty
    <2>3. store' \in [Users -> 0..Mails]
      <3>1. PICK n \in 0..store[U(w)] : store' = [store EXCEPT ![U(w)] = n]
        BY <1>13 DEF Empty
      <3>2. U(w) \in Users
        BY <2>2, TasksOfUsers DEF IInv, RunnerOK, Busy, U
      <3>3. n \in 0..Mails
        BY <3>1, <3>2, TasksOfUsers
      <3>. QED
        BY <3>1, <3>3
    <2>4. failures' \in 0..MaxFailures
      BY <1>13 DEF Empty
    <2>. QED
      BY <1>0, <2>1, <2>2, <2>3, <2>4 DEF Typed
  <1>14. ASSUME NEW w \in Runners, RemoveHome(w) \/ Fails(w) PROVE Bounded'
    BY <1>0, <1>14 DEF RemoveHome, Fails, Typed, disk, db
  <1>15. ASSUME NEW w \in Runners, Audit(w) PROVE Bounded'
    <2>1. UNCHANGED <<store, dom, doms, task, ref, made, bad, deaths>>
      BY <1>15 DEF Audit, disk
    <2>2. pc[w] = "audit" /\ pc' = [pc EXCEPT ![w] = "tidy"]
      BY <1>15 DEF Audit
    <2>3. staged' = staged \/ staged' = [staged EXCEPT ![w] = 0]
      BY <1>15 DEF Audit
    <2>4. failures' \in 0..MaxFailures /\ domLog' \in BOOLEAN
      <3>1. failures' = failures \/ (failures < MaxFailures /\ failures' = failures + 1)
        BY <1>15, Zenon DEF Audit
      <3>2. domLog' = TRUE \/ domLog' = domLog
        BY <1>15 DEF Audit
      <3>3. failures' \in 0..MaxFailures
        BY <3>1
      <3>4. domLog' \in BOOLEAN
        BY <3>2, Zenon
      <3>. QED
        BY <3>3, <3>4
    <2>5. arch' # {} => dom' # 0
      <3>1. CASE UNCHANGED arch
        BY <2>1, <3>1
      <3>2. CASE Commits(w) /\ arch' = arch \cup Recorded({w})
        <4>1. staged[w] # 0 => dom # 0
          BY <3>2 DEF Commits
        <4>2. staged[w] = 0 => Recorded({w}) = {}
          BY DEF Recorded
        <4>. QED
          BY <2>1, <3>2, <4>1, <4>2
      <3>. QED
        BY <1>15, <3>1, <3>2 DEF Audit
    <2>6. \A v \in Runners : RunnerTyped(v)'
      BY <1>0, <2>1, <2>2, <2>3 DEF Typed
    <2>. QED
      BY <2>1, <2>4, <2>5, <2>6
  <1>16. ASSUME NEW w \in Runners, Tidy(w) PROVE Bounded'
    BY <1>0, <1>16 DEF Tidy, Typed, disk
  <1>17. ASSUME NEW w \in Runners, Undomain(w) PROVE Bounded'
    BY <1>0, <1>17 DEF Undomain, Unreferenced, Typed, disk
  <1>. QED
    BY <1>1, <1>2, <1>3, <1>4, <1>5, <1>6, <1>7, <1>8, <1>9, <1>10, <1>11, <1>12, <1>13, <1>14,
       <1>15, <1>16, <1>17 DEF Next, Step

\* Every drain, operator, failure and death keeps the rows, the maildirs and what
\* a runner knows in their sets; ids of domains are never of the future.
THEOREM OrphanTyped == Spec => []TypeOK
  <1>. QED
    BY BoundedInit, BoundedStep, BoundedIsTyped, Inductive, PTL DEF Spec

-----------------------------------------------------------------------------
(* The prunes beside it (MCMaintenance): what MailTaskProofs proves of      *)
(* MailTask holds of the instance.                                          *)

MailProofs == INSTANCE MailTaskProofs
    WITH store <- mStore, home <- mHome, arch <- mArch, pc <- mPc, staged <- mStaged

\* MailProofs has MailTask's definitions a second time.
LEMMA SameMail ==
  /\ Mail!Init <=> MailProofs!Init
  /\ Mail!Next <=> MailProofs!Next
  /\ Mail!vars = MailProofs!vars
  /\ Mail!MailKept <=> MailProofs!MailKept
  BY DEF Mail!disk, MailProofs!disk, Mail!rows, MailProofs!rows, Mail!tasks,
     MailProofs!tasks, Mail!work, MailProofs!work, Mail!hist, MailProofs!hist, Mail!flt,
     MailProofs!flt, Mail!vars, MailProofs!vars, Mail!BackupSteps, MailProofs!BackupSteps,
     Mail!Steps, MailProofs!Steps, Mail!TaskPCs, MailProofs!TaskPCs, Mail!NoArchive,
     MailProofs!NoArchive, Mail!Init, MailProofs!Init, Mail!Goto, MailProofs!Goto,
     Mail!Kind, MailProofs!Kind, Mail!Deleting, MailProofs!Deleting, Mail!At, MailProofs!At,
     Mail!Abort, MailProofs!Abort, Mail!Drop, MailProofs!Drop, Mail!Loaded,
     MailProofs!Loaded, Mail!Load, MailProofs!Load, Mail!Conflict, MailProofs!Conflict,
     Mail!Written, MailProofs!Written, Mail!Flush, MailProofs!Flush, Mail!End,
     MailProofs!End, Mail!Start, MailProofs!Start, Mail!OpenTask, MailProofs!OpenTask,
     Mail!StartSweep, MailProofs!StartSweep, Mail!Claim, MailProofs!Claim, Mail!Leave,
     MailProofs!Leave, Mail!Publish, MailProofs!Publish, Mail!Plan, MailProofs!Plan,
     Mail!Probe, MailProofs!Probe, Mail!Checkpoint, MailProofs!Checkpoint, Mail!DeleteDone,
     MailProofs!DeleteDone, Mail!Copying, MailProofs!Copying, Mail!Copy, MailProofs!Copy,
     Mail!Record, MailProofs!Record, Mail!List, MailProofs!List, Mail!Requested,
     MailProofs!Requested, Mail!Expunge, MailProofs!Expunge, Mail!Expunged,
     MailProofs!Expunged, Mail!FindHome, MailProofs!FindHome, Mail!RemoveHome,
     MailProofs!RemoveHome, Mail!RemoveRow, MailProofs!RemoveRow, Mail!StageAudit,
     MailProofs!StageAudit, Mail!Inspect, MailProofs!Inspect, Mail!RemoveDest,
     MailProofs!RemoveDest, Mail!LogAudit, MailProofs!LogAudit, Mail!Error,
     MailProofs!Error, Mail!Death, MailProofs!Death, Mail!UnknownUser,
     MailProofs!UnknownUser, Mail!Fails, MailProofs!Fails, Mail!Conflicts,
     MailProofs!Conflicts, Mail!Dies, MailProofs!Dies, Mail!Reap, MailProofs!Reap,
     Mail!WebGoto, MailProofs!WebGoto, Mail!Restore, MailProofs!Restore, Mail!Recreate,
     MailProofs!Recreate, Mail!Sync, MailProofs!Sync, Mail!Clean, MailProofs!Clean,
     Mail!Discard, MailProofs!Discard, Mail!DiscardFiles, MailProofs!DiscardFiles,
     Mail!DropArchive, MailProofs!DropArchive, Mail!RequestDies, MailProofs!RequestDies,
     Mail!Toggle, MailProofs!Toggle, Mail!Enqueue, MailProofs!Enqueue, Mail!Retry,
     MailProofs!Retry, Mail!Remove, MailProofs!Remove, Mail!Deliver, MailProofs!Deliver,
     Mail!Expire, MailProofs!Expire, Mail!DeleteSteps, MailProofs!DeleteSteps,
     Mail!StoreSteps, MailProofs!StoreSteps, Mail!PruneSteps, MailProofs!PruneSteps,
     Mail!Execute, MailProofs!Execute, Mail!Drain, MailProofs!Drain, Mail!WorkerNext,
     MailProofs!WorkerNext, Mail!RequestNext, MailProofs!RequestNext, Mail!QueueNext,
     MailProofs!QueueNext, Mail!Next, MailProofs!Next, Mail!MailKept, MailProofs!MailKept

\* Archives are restored, discarded, toggled and pruned at once, by any number of
\* requests and workers, while mail arrives: none is lost that nobody asked to
\* destroy.
THEOREM MailKeptBeside == BothSpec => []MailKept
  <1>1. MailProofs!LoneDelete /\ MailProofs!Undisturbed
    BY PrunesOnly DEF MailProofs!LoneDelete, MailProofs!Undisturbed
  <1>2. MailProofs!Spec => []MailProofs!MailKept
    BY <1>1, PrunesOnly, MailSets, MailProofs!NoMailLost DEF MailProofs!Types
  <1>3. BothInit => MailProofs!Init
    BY SameMail DEF BothInit
  <1>4. [BothNext]_both => [MailProofs!Next]_(MailProofs!vars)
    <2>1. CASE ArchiveMoves
      BY <2>1, SameMail DEF ArchiveMoves
    <2>2. CASE OrphanMoves
      BY <2>2 DEF OrphanMoves, mailVars, MailProofs!vars, MailProofs!disk, MailProofs!rows,
         MailProofs!tasks, MailProofs!work, MailProofs!hist, MailProofs!flt
    <2>3. CASE UNCHANGED both
      BY <2>3 DEF both, mailVars, MailProofs!vars, MailProofs!disk, MailProofs!rows,
         MailProofs!tasks, MailProofs!work, MailProofs!hist, MailProofs!flt
    <2>. QED
      BY <2>1, <2>2, <2>3 DEF BothNext
  <1>5. MailProofs!MailKept => MailKept
    BY SameMail DEF MailKept
  <1>. QED
    BY <1>2, <1>3, <1>4, <1>5, PTL DEF BothSpec, MailProofs!Spec
=============================================================================
