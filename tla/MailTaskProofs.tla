--------------------------- MODULE MailTaskProofs ---------------------------
(***************************************************************************)
(* Theorems about MailTask, for any messages, processes, requests, tasks,  *)
(* failures and deaths: the state is well typed, a DELETE with a backup    *)
(* destroys mail only when its archive row is committed, a task that is    *)
(* DONE has been audited, and a prune is of what was set to autoprune.     *)
(* Then, for accounts with one DELETE and no ARCHIVE: its backup stands,   *)
(* the account can be restored from it, and no mail is lost.               *)
(***************************************************************************)
EXTENDS MailTask, TLAPS, SequenceTheorems

-----------------------------------------------------------------------------
(* The inductive invariant.                                                *)

\* A worker executes a RUNNING task, and no two workers execute the same one.
JobInv ==
    /\ \A w \in Workers : job[w] # NoTask => status[job[w]] = "RUNNING"
    /\ \A w, x \in Workers : job[w] # NoTask /\ job[w] = job[x] => w = x

\* Places of ARCHIVE alone, of DELETE alone, and those within a step of a plan.
ArchiveOnly == {"record", "list"}
DeleteOnly  == {"copy", "rmhome", "check"}
InStep      == DeleteOnly \cup {"expunge"}

\* Where w is in the plan of its DELETE.
Placed(w) ==
    /\ pc[w] \in DeleteOnly => Deleting(w)
    /\ pc[w] \in ArchiveOnly => ~Deleting(w)
    /\ pc[w] \in InStep /\ Deleting(w) =>
         mode[job[w]] # "none" /\ done[job[w]] < Len(Steps(mode[job[w]]))
    /\ Deleting(w) /\ mode[job[w]] = "backup" =>
         /\ pc[w] = "copy" => done[job[w]] = 0
         /\ pc[w] \in {"expunge", "rmhome"} => done[job[w]] >= 2

PlanInv ==
    /\ \A t \in TaskIds : mode[t] = "none" => done[t] = 0
    /\ \A w \in Workers : Placed(w)

\* What w has staged makes the archive row: an insert, or an update of the row
\* that is there.
RowStaged(w) ==
    "archive" \in staged[w] /\ ("insert" \in staged[w] \/ w \in fresh)

\* The row is there once it is checkpointed, and staged when it is about to be.
RowInv ==
    /\ \A t \in TaskIds :
         Type[t] = "DELETE" /\ mode[t] = "backup" /\ t \notin dropped /\ done[t] >= 2
            => arch.there
    /\ \A w \in Workers :
         /\ Deleting(w) /\ pc[w] = "check"
         /\ mode[job[w]] = "backup" /\ done[job[w]] = 1 /\ job[w] \notin dropped
         => RowStaged(w)

\* The next step of w's DELETE is the last one, the audit.
Last(w) == done[job[w]] + 1 = Len(Steps(mode[job[w]]))

\* Who is about to checkpoint the last step has staged the audit row; it is
\* there once that step is checkpointed, and whenever DONE is published.
AuditInv ==
    /\ \A t \in TaskIds :
         Type[t] = "DELETE" /\ mode[t] # "none" /\ done[t] = Len(Steps(mode[t])) => audits[t] > 0
    /\ \A w \in Workers :
         /\ Deleting(w) /\ pc[w] \in InStep /\ Last(w) => pc[w] = "check" /\ "audit" \in staged[w]
         /\ pc[w] = "publish" /\ out[w] = "DONE" /\ Kind(w) # "PRUNE" => audits[job[w]] > 0
    /\ DoneIsAudited

IInv == TypeOK /\ JobInv /\ PlanInv /\ RowInv /\ AuditInv

-----------------------------------------------------------------------------
(* The plans.                                                              *)

LEMMA PlanLength ==
  /\ Steps("backup") = BackupSteps /\ Len(BackupSteps) = 6
  /\ \A m : m # "backup" => Len(Steps(m)) = 4
<1>1. \A i \in 3..6 : BackupSteps[i] \in {BackupSteps[j] : j \in 3..6}
  OBVIOUS
<1>2. Len(SubSeq(BackupSteps, 3, 6)) = 6 - 3 + 1
  BY <1>1, SubSeqProperties
<1> QED
  BY <1>2 DEF Steps, BackupSteps

LEMMA PlanBound ==
  ASSUME NEW m
  PROVE  Len(Steps(m)) \in 0..6
BY PlanLength

\* Where a step stands in a plan with a backup.
LEMMA BackupOrder ==
  ASSUME NEW w \in Workers, TypeOK, mode[job[w]] = "backup"
  PROVE  /\ At(w, "backup") => done[job[w]] = 0
         /\ At(w, "archive") => done[job[w]] = 1
         /\ At(w, "mailbox-delete") => done[job[w]] = 2
         /\ At(w, "maildir-home") => done[job[w]] = 3
         /\ At(w, "mailbox-row") => done[job[w]] = 4
         /\ At(w, "audit") => done[job[w]] = 5
<1> SUFFICES ASSUME job[w] \in TaskIds, done[job[w]] < 6
             PROVE  /\ BackupSteps[done[job[w]] + 1] = "backup" => done[job[w]] = 0
                    /\ BackupSteps[done[job[w]] + 1] = "archive" => done[job[w]] = 1
                    /\ BackupSteps[done[job[w]] + 1] = "mailbox-delete" => done[job[w]] = 2
                    /\ BackupSteps[done[job[w]] + 1] = "maildir-home" => done[job[w]] = 3
                    /\ BackupSteps[done[job[w]] + 1] = "mailbox-row" => done[job[w]] = 4
                    /\ BackupSteps[done[job[w]] + 1] = "audit" => done[job[w]] = 5
  BY PlanLength DEF At, Deleting, TypeOK, WorkOK
<1>1. done[job[w]] \in 0..5
  BY DEF TypeOK, TasksOK
<1> QED
  BY <1>1 DEF BackupSteps

-----------------------------------------------------------------------------
(* Which steps change what.                                                *)

LEMMA DiskFrame ==
  ASSUME [Next]_vars
  PROVE  \/ UNCHANGED disk
         \/ \E w \in Workers :
              Copy(w) \/ Expunge(w) \/ Expunged(w) \/ RemoveHome(w) \/ RemoveDest(w) \/ Fails(w)
         \/ \E q \in Requests : Sync(q) \/ Clean(q) \/ DiscardFiles(q)
         \/ \E m \in Incoming : Deliver(m)
<1>1. ASSUME NEW w \in Workers, Drain(w) \/ Leave(w) \/ Dies(w) PROVE UNCHANGED disk
  BY <1>1 DEF Drain, Start, StartSweep, Claim, Leave, Dies
<1>2. ASSUME NEW w \in Workers, DeleteSteps(w), ~RemoveHome(w) PROVE UNCHANGED disk
  BY <1>2 DEF DeleteSteps, Plan, Probe, Checkpoint, DeleteDone, FindHome, RemoveRow, StageAudit
<1>3. ASSUME NEW w \in Workers, Execute(w), ~DeleteSteps(w),
             ~Copy(w), ~Expunge(w), ~Expunged(w), ~RemoveDest(w)
      PROVE  UNCHANGED disk
  BY <1>3 DEF Execute, StoreSteps, PruneSteps, Record, List, Inspect, LogAudit, Publish,
              Conflicts, UnknownUser
<1>4. ASSUME NEW q \in Requests, RequestNext(q), ~Sync(q), ~Clean(q), ~DiscardFiles(q)
      PROVE  UNCHANGED disk
  BY <1>4 DEF RequestNext, Restore, Recreate, Discard, DropArchive, RequestDies
<1>5. ASSUME NEW t \in TaskIds, QueueNext(t) PROVE UNCHANGED disk
  BY <1>5 DEF QueueNext, Enqueue, Retry, Remove, Reap
<1>6. ASSUME Toggle \/ Expire \/ UNCHANGED vars PROVE UNCHANGED disk
  BY <1>6 DEF Toggle, Expire, vars
<1> QED
  BY <1>1, <1>2, <1>3, <1>4, <1>5, <1>6 DEF Next, WorkerNext

LEMMA RowsFrame ==
  ASSUME [Next]_vars
  PROVE  \/ UNCHANGED rows
         \/ \E w \in Workers :
              \/ \E t \in TaskIds : StartSweep(w, t)
              \/ Leave(w) \/ Dies(w) \/ Conflicts(w) \/ Publish(w) \/ Checkpoint(w)
              \/ Record(w) \/ Inspect(w) \/ LogAudit(w)
         \/ \E q \in Requests : RequestNext(q)
         \/ Toggle \/ Expire
<1>1. ASSUME NEW w \in Workers, Start(w) \/ (\E t \in TaskIds : Claim(w, t)) \/ Fails(w)
      PROVE  UNCHANGED rows
  BY <1>1 DEF Start, Claim, Fails
<1>2. ASSUME NEW w \in Workers, DeleteSteps(w), ~Checkpoint(w) PROVE UNCHANGED rows
  BY <1>2 DEF DeleteSteps, Plan, Probe, DeleteDone, FindHome, RemoveHome, RemoveRow, StageAudit
<1>3. ASSUME NEW w \in Workers, StoreSteps(w), ~Record(w) PROVE UNCHANGED rows
  BY <1>3 DEF StoreSteps, Copy, List, Expunge, Expunged
<1>4. ASSUME NEW w \in Workers, RemoveDest(w) \/ UnknownUser(w) PROVE UNCHANGED rows
  BY <1>4 DEF RemoveDest, UnknownUser
<1>5. ASSUME NEW t \in TaskIds, QueueNext(t) PROVE UNCHANGED rows
  BY <1>5 DEF QueueNext, Enqueue, Retry, Remove, Reap
<1>6. ASSUME NEW m \in Incoming, Deliver(m) PROVE UNCHANGED rows
  BY <1>6 DEF Deliver
<1>7. ASSUME UNCHANGED vars PROVE UNCHANGED rows
  BY <1>7 DEF vars
<1> QED
  BY <1>1, <1>2, <1>3, <1>4, <1>5, <1>6, <1>7
     DEF Next, WorkerNext, Drain, Execute, PruneSteps

LEMMA TasksFrame ==
  ASSUME [Next]_vars
  PROVE  \/ UNCHANGED tasks
         \/ \E w \in Workers :
              \/ \E t \in TaskIds : StartSweep(w, t) \/ Claim(w, t)
              \/ Publish(w) \/ Plan(w) \/ Checkpoint(w)
         \/ \E t \in TaskIds : QueueNext(t)
<1>1. ASSUME NEW w \in Workers, Start(w) \/ Leave(w) \/ Dies(w) \/ Fails(w) \/ Conflicts(w)
      PROVE  UNCHANGED tasks
  BY <1>1 DEF Start, Leave, Dies, Fails, Conflicts
<1>2. ASSUME NEW w \in Workers, DeleteSteps(w), ~Plan(w), ~Checkpoint(w) PROVE UNCHANGED tasks
  BY <1>2 DEF DeleteSteps, Probe, DeleteDone, FindHome, RemoveHome, RemoveRow, StageAudit
<1>3. ASSUME NEW w \in Workers, StoreSteps(w) \/ PruneSteps(w) \/ LogAudit(w) \/ UnknownUser(w)
      PROVE  UNCHANGED tasks
  BY <1>3 DEF StoreSteps, PruneSteps, Copy, Record, List, Expunge, Expunged, Inspect, RemoveDest,
              LogAudit, UnknownUser
<1>4. ASSUME NEW q \in Requests, RequestNext(q) PROVE UNCHANGED tasks
  BY <1>4 DEF RequestNext, Restore, Recreate, Sync, Clean, Discard, DiscardFiles, DropArchive,
              RequestDies
<1>5. ASSUME Toggle \/ Expire \/ (\E m \in Incoming : Deliver(m)) \/ UNCHANGED vars
      PROVE  UNCHANGED tasks
  BY <1>5 DEF Toggle, Expire, Deliver, vars
<1> QED
  BY <1>1, <1>2, <1>3, <1>4, <1>5 DEF Next, WorkerNext, Drain, Execute

LEMMA WorkFrame ==
  ASSUME [Next]_vars
  PROVE  \/ UNCHANGED <<work, rpc>>
         \/ \E w \in Workers : WorkerNext(w)
         \/ UNCHANGED work /\ \E q \in Requests : RequestNext(q)
<1>1. ASSUME NEW q \in Requests, RequestNext(q) PROVE UNCHANGED work
  BY <1>1 DEF RequestNext, Restore, Recreate, Sync, Clean, Discard, DiscardFiles, DropArchive,
              RequestDies
<1>2. ASSUME NEW t \in TaskIds, QueueNext(t) PROVE UNCHANGED <<work, rpc>>
  BY <1>2 DEF QueueNext, Enqueue, Retry, Remove, Reap
<1>3. ASSUME Toggle \/ Expire \/ (\E m \in Incoming : Deliver(m)) \/ UNCHANGED vars
      PROVE  UNCHANGED <<work, rpc>>
  BY <1>3 DEF Toggle, Expire, Deliver, vars
<1> QED
  BY <1>1, <1>2, <1>3 DEF Next

-----------------------------------------------------------------------------
(* Type correctness.                                                       *)

LEMMA DiskStep ==
  ASSUME TypeOK, [Next]_vars
  PROVE  DiskOK'
<1> USE MessageSets DEF TypeOK, DiskOK, disk
<1>1. CASE UNCHANGED disk
  BY <1>1
<1>2. ASSUME NEW w \in Workers, Copy(w) PROVE DiskOK'
  BY <1>2 DEF Copy
<1>3. ASSUME NEW w \in Workers, Expunge(w) PROVE DiskOK'
  BY <1>3 DEF Expunge
<1>4. ASSUME NEW w \in Workers, Expunged(w) PROVE DiskOK'
  BY <1>4 DEF Expunged
<1>5. ASSUME NEW w \in Workers, RemoveHome(w) PROVE DiskOK'
  BY <1>5 DEF RemoveHome
<1>6. ASSUME NEW w \in Workers, RemoveDest(w) PROVE DiskOK'
  BY <1>6 DEF RemoveDest
<1>7. ASSUME NEW w \in Workers, Fails(w) PROVE DiskOK'
  BY <1>7 DEF Fails
<1>8. ASSUME NEW q \in Requests, Sync(q) PROVE DiskOK'
  BY <1>8 DEF Sync
<1>9. ASSUME NEW q \in Requests, Clean(q) PROVE DiskOK'
  BY <1>9 DEF Clean
<1>10. ASSUME NEW q \in Requests, DiscardFiles(q) PROVE DiskOK'
  BY <1>10 DEF DiscardFiles
<1>11. ASSUME NEW m \in Incoming, Deliver(m) PROVE DiskOK'
  BY <1>11 DEF Deliver
<1> QED
  BY <1>1, <1>2, <1>3, <1>4, <1>5, <1>6, <1>7, <1>8, <1>9, <1>10, <1>11, DiskFrame

LEMMA LoadTyped ==
  ASSUME TypeOK, NEW w \in Workers, Load(w)
  PROVE  /\ seen' \in [Workers -> BOOLEAN]
         /\ fresh' \subseteq Workers \cup Requests
         /\ ~arch.there => fresh' = {}
<1>1. Loaded(w) \in BOOLEAN
  BY DEF Loaded, TypeOK, RowsOK, WorkOK, Archives
<1> QED
  BY <1>1 DEF Load, TypeOK, RowsOK, WorkOK

LEMMA WrittenTyped ==
  ASSUME TypeOK, NEW w \in Workers
  PROVE  Written(w) \in Archives /\ Written(w).there
<1> DEFINE auto == IF "insert" \in staged[w] \/ Deleting(w) # seen[w]
                   THEN Deleting(w) ELSE arch.auto
<1>1. auto \in BOOLEAN
  BY Zenon DEF Deleting, TypeOK, RowsOK, WorkOK, Archives
<1>2. Written(w) = [there |-> TRUE, expired |-> FALSE,
                    snapshot |-> "snapshot" \in staged[w], auto |-> auto]
  BY Zenon DEF Written
<1> HIDE DEF auto
<1> QED
  BY <1>1, <1>2 DEF Archives

\* What a flush does to the archive row: it writes it, removes it together
\* with the backups that count on it, or leaves it alone.
LEMMA FlushCases ==
  ASSUME NEW w, NEW S, Flush(w, S)
  PROVE  \/ /\ arch' = Written(w) /\ fresh' = fresh \cup {w} /\ dropped' = dropped
            /\ seen' = [seen EXCEPT ![w] = Deleting(w)]
            /\ wasOn' = [x \in Workers |-> wasOn[x] \/ arch'.auto]
         \/ arch' = NoArchive /\ fresh' = {} /\ Drop /\ seen' = seen /\ wasOn' = wasOn
         \/ /\ ~("archive" \in S /\ ("insert" \in S \/ w \in fresh))
            /\ UNCHANGED <<arch, fresh, seen, wasOn, dropped>>
BY DEF Flush

LEMMA FlushTyped ==
  ASSUME TypeOK, NEW w \in Workers, NEW S \in SUBSET Changes, Flush(w, S)
  PROVE  /\ RowsOK'
         /\ seen' \in [Workers -> BOOLEAN]
         /\ staged' \in [Workers -> SUBSET Changes]
         /\ dropped' \subseteq TaskIds
         /\ audits' \in [TaskIds -> Nat]
         /\ wasOn' \in [Workers -> BOOLEAN]
<1>1. /\ mailbox' \in BOOLEAN
      /\ staged' \in [Workers -> SUBSET Changes] /\ audits' \in [TaskIds -> Nat]
  BY DEF Flush, TypeOK, RowsOK, WorkOK, HistOK
<1>2. CASE /\ arch' = Written(w) /\ fresh' = fresh \cup {w} /\ dropped' = dropped
           /\ seen' = [seen EXCEPT ![w] = Deleting(w)]
           /\ wasOn' = [x \in Workers |-> wasOn[x] \/ arch'.auto]
  <2>1. Deleting(w) \in BOOLEAN
    BY DEF Deleting
  <2>2. seen' \in [Workers -> BOOLEAN] /\ wasOn' \in [Workers -> BOOLEAN]
    BY <1>2, <2>1 DEF TypeOK, WorkOK
  <2> QED
    BY <1>1, <1>2, <2>2, WrittenTyped DEF TypeOK, RowsOK, HistOK
<1>3. CASE arch' = NoArchive /\ fresh' = {} /\ Drop /\ seen' = seen /\ wasOn' = wasOn
  BY <1>1, <1>3 DEF TypeOK, RowsOK, WorkOK, HistOK, Drop, Archives, NoArchive
<1>4. CASE UNCHANGED <<arch, fresh, seen, wasOn, dropped>>
  BY <1>1, <1>4 DEF TypeOK, RowsOK, WorkOK, HistOK
<1> QED
  BY <1>2, <1>3, <1>4, FlushCases

LEMMA RowsStep ==
  ASSUME TypeOK, [Next]_vars
  PROVE  RowsOK'
<1> USE DEF TypeOK, RowsOK
<1>1. CASE UNCHANGED rows
  BY <1>1 DEF rows
<1>2. ASSUME NEW w \in Workers, NEW t \in TaskIds, StartSweep(w, t) PROVE RowsOK'
  BY <1>2, LoadTyped DEF StartSweep
<1>3. ASSUME NEW w \in Workers, Leave(w) \/ Dies(w) \/ Conflicts(w) PROVE RowsOK'
  BY <1>3 DEF Leave, Dies, Conflicts, End
<1>4. ASSUME NEW w \in Workers, Publish(w) \/ Checkpoint(w) PROVE RowsOK'
  <2>1. Flush(w, staged[w]) /\ staged[w] \in SUBSET Changes
    BY <1>4 DEF Publish, Checkpoint, WorkOK
  <2> QED
    BY <2>1, FlushTyped
<1>5. ASSUME NEW w \in Workers, Record(w) PROVE RowsOK'
  BY <1>5, LoadTyped DEF Record
<1>6. ASSUME NEW w \in Workers, Inspect(w) PROVE RowsOK'
  BY <1>6, LoadTyped DEF Inspect
<1>7. ASSUME NEW w \in Workers, LogAudit(w) PROVE RowsOK'
  <2>1. Flush(w, staged[w] \cup {"audit"}) /\ staged[w] \cup {"audit"} \in SUBSET Changes
    BY <1>7 DEF LogAudit, WorkOK, Changes
  <2> QED
    BY <2>1, FlushTyped
<1>8. ASSUME NEW q \in Requests, RequestNext(q) PROVE RowsOK'
  <2>1. CASE Restore(q) \/ Discard(q)
    BY <1>8, <2>1 DEF Restore, Discard
  <2>2. CASE Recreate(q)
    BY <1>8, <2>2 DEF Recreate
  <2>3. CASE Sync(q)
    BY <1>8, <2>3 DEF Sync
  <2>4. CASE Clean(q)
    BY <1>8, <2>4 DEF Clean, rows
  <2>5. CASE DiscardFiles(q)
    BY <1>8, <2>5 DEF DiscardFiles
  <2>6. CASE DropArchive(q)
    <3>1. CASE q \in fresh
      <4>1. arch' = NoArchive /\ fresh' = {} /\ mailbox' = mailbox
        BY <2>6, <3>1 DEF DropArchive
      <4> QED
        BY <4>1 DEF Archives, NoArchive
    <3>2. CASE q \notin fresh
      BY <2>6, <3>2 DEF DropArchive
    <3> QED
      BY <3>1, <3>2
  <2>7. CASE RequestDies(q)
    BY <1>8, <2>7 DEF RequestDies
  <2> QED
    BY <1>8, <2>1, <2>2, <2>3, <2>4, <2>5, <2>6, <2>7 DEF RequestNext
<1>9. ASSUME Toggle PROVE RowsOK'
  <2>1. arch' \in Archives /\ arch'.there
    BY <1>9 DEF Toggle, Archives
  <2> QED
    BY <1>9, <2>1 DEF Toggle
<1>10. ASSUME Expire PROVE RowsOK'
  <2>1. arch' \in Archives /\ arch'.there
    BY <1>10 DEF Expire, Archives
  <2> QED
    BY <1>10, <2>1 DEF Expire
<1> QED
  BY <1>1, <1>2, <1>3, <1>4, <1>5, <1>6, <1>7, <1>8, <1>9, <1>10, RowsFrame

LEMMA TasksStep ==
  ASSUME TypeOK, PlanInv, [Next]_vars
  PROVE  TasksOK'
<1> USE DEF TypeOK, TasksOK
<1>1. CASE UNCHANGED tasks
  BY <1>1 DEF tasks
<1>2. ASSUME NEW w \in Workers, NEW t \in TaskIds, StartSweep(w, t) \/ Claim(w, t) PROVE TasksOK'
  BY <1>2 DEF StartSweep, Claim
<1>3. ASSUME NEW w \in Workers, Publish(w) PROVE TasksOK'
  <2>1. out[w] \in {"DONE", "FAILED"}
    BY <1>3 DEF Publish, WorkOK
  <2> QED
    BY <1>3, <2>1 DEF Publish
<1>4. ASSUME NEW w \in Workers, Plan(w) PROVE TasksOK'
  <2>1. job[w] \in TaskIds /\ done[job[w]] = 0
    BY <1>4 DEF Plan, Deleting, PlanInv, WorkOK
  <2>2. PICK m \in {"backup", "instant"} : mode' = [mode EXCEPT ![job[w]] = m]
    BY <1>4 DEF Plan
  <2>3. Len(Steps(m)) \in 0..6
    BY PlanBound
  <2> QED
    BY <1>4, <2>1, <2>2, <2>3 DEF Plan
<1>5. ASSUME NEW w \in Workers, Checkpoint(w) PROVE TasksOK'
  <2>1. /\ job[w] \in TaskIds /\ mode[job[w]] # "none"
        /\ done[job[w]] < Len(Steps(mode[job[w]]))
    BY <1>5 DEF Checkpoint, PlanInv, Placed, Deleting, WorkOK, DeleteOnly, InStep
  <2>2. Len(Steps(mode[job[w]])) \in 0..6 /\ done[job[w]] \in 0..6
    BY <2>1, PlanBound, Zenon
  <2>3. done[job[w]] + 1 \in 0..6 /\ done[job[w]] + 1 <= Len(Steps(mode[job[w]]))
    <3>1. \A d, n \in 0..6 : d < n => d + 1 \in 0..6 /\ d + 1 <= n
      OBVIOUS
    <3> QED
      BY <2>1, <2>2, <3>1, Zenon
  <2>4. done' = [done EXCEPT ![job[w]] = @ + 1] /\ UNCHANGED <<status, abandoned, mode>>
    BY <1>5 DEF Checkpoint
  <2> QED
    BY <2>1, <2>3, <2>4
<1>6. ASSUME NEW t \in TaskIds, QueueNext(t) PROVE TasksOK'
  BY <1>6 DEF QueueNext, Enqueue, Retry, Remove, Reap
<1> QED
  BY <1>1, <1>2, <1>3, <1>4, <1>5, <1>6, TasksFrame

\* The steps of a task are places where its worker has it.
LEMMA AtExec ==
  ASSUME NEW w \in Workers, TypeOK
  PROVE  /\ \A s : At(w, s) => pc[w] = "exec" /\ Deleting(w)
         /\ Copying(w) => pc[w] \in {"copy", "exec"}
         /\ pc[w] \in TaskPCs \cup {"publish"} <=> job[w] # NoTask
BY DEF At, Copying, TypeOK, WorkOK

\* A worker's step within its task: it keeps the task and goes to another
\* place where it has one.
LEMMA TaskMove ==
  ASSUME TypeOK, NEW w \in Workers, NEW l \in TaskPCs \cup {"publish"},
         pc[w] \in TaskPCs, Goto(w, l), UNCHANGED <<job, rpc>>,
         IF l = "publish" THEN \E o \in {"DONE", "FAILED"} : out' = [out EXCEPT ![w] = o]
                          ELSE out' = out,
         seen' \in [Workers -> BOOLEAN],
         staged' \in [Workers -> SUBSET Changes],
         boxes' \in [Workers -> SUBSET Msgs]
  PROVE  WorkOK'
<1>1. pc' \in [Workers -> WorkPCs]
  BY DEF Goto, WorkPCs, TaskPCs, TypeOK, WorkOK
<1>2. \A x \in Workers : pc'[x] \in TaskPCs \cup {"publish"} <=> job[x] # NoTask
  BY DEF Goto, TypeOK, WorkOK
<1>3. /\ out' \in [Workers -> {"none", "DONE", "FAILED"}]
      /\ \A x \in Workers : pc'[x] = "publish" => out'[x] # "none"
  BY DEF Goto, TypeOK, WorkOK, TaskPCs
<1> QED
  BY <1>1, <1>2, <1>3 DEF TypeOK, WorkOK

LEMMA EndTyped ==
  ASSUME TypeOK, NEW w \in Workers, End(w), UNCHANGED rpc
  PROVE  WorkOK'
BY DEF End, Goto, TypeOK, WorkOK, WorkPCs, TaskPCs

LEMMA WorkStep ==
  ASSUME TypeOK, [Next]_vars
  PROVE  WorkOK'
<1> USE AtExec
<1>1. CASE UNCHANGED <<work, rpc>>
  BY <1>1 DEF work, TypeOK, WorkOK
<1>2. ASSUME UNCHANGED work, NEW q \in Requests, RequestNext(q) PROVE WorkOK'
  <2>1. \E l \in WebPCs : rpc' = [rpc EXCEPT ![q] = l]
    BY <1>2 DEF RequestNext, Restore, Recreate, Sync, Clean, Discard, DiscardFiles, DropArchive,
                RequestDies, WebGoto, WebPCs
  <2> QED
    BY <1>2, <2>1 DEF work, TypeOK, WorkOK
<1>3. ASSUME NEW w \in Workers, Start(w) PROVE WorkOK'
  BY <1>3 DEF Start, Goto, TypeOK, WorkOK, WorkPCs, TaskPCs
<1>4. ASSUME NEW w \in Workers, NEW t \in TaskIds, StartSweep(w, t) PROVE WorkOK'
  BY <1>4, LoadTyped DEF StartSweep, Goto, TypeOK, WorkOK, WorkPCs, TaskPCs
<1>5. ASSUME NEW w \in Workers, NEW t \in TaskIds, Claim(w, t) PROVE WorkOK'
  BY <1>5, TypesOfTasks DEF Claim, Goto, TypeOK, WorkOK, WorkPCs, TaskPCs
<1>6. ASSUME NEW w \in Workers, Leave(w) \/ Dies(w) \/ Conflicts(w) PROVE WorkOK'
  BY <1>6, EndTyped DEF Leave, Dies, Conflicts
<1>7. ASSUME NEW w \in Workers, Publish(w) PROVE WorkOK'
  <2>1. seen' \in [Workers -> BOOLEAN] /\ staged' \in [Workers -> SUBSET Changes]
    BY <1>7, FlushTyped DEF Publish, TypeOK, WorkOK
  <2> QED
    BY <1>7, <2>1 DEF Publish, Goto, TypeOK, WorkOK, WorkPCs, TaskPCs
<1>8. ASSUME NEW w \in Workers, Plan(w) PROVE WorkOK'
  BY <1>8 DEF Plan, work, TypeOK, WorkOK
<1>9. ASSUME NEW w \in Workers, Probe(w) PROVE WorkOK'
  BY <1>9, TaskMove DEF Probe, Abort, TypeOK, WorkOK, TaskPCs
<1>10. ASSUME NEW w \in Workers, Checkpoint(w) PROVE WorkOK'
  <2>1. seen' \in [Workers -> BOOLEAN] /\ staged' \in [Workers -> SUBSET Changes]
    BY <1>10, FlushTyped DEF Checkpoint, TypeOK, WorkOK
  <2> QED
    BY <1>10, <2>1, TaskMove DEF Checkpoint, TypeOK, WorkOK, TaskPCs
<1>11. ASSUME NEW w \in Workers, DeleteDone(w) PROVE WorkOK'
  BY <1>11, TaskMove DEF DeleteDone, Goto, TypeOK, WorkOK, TaskPCs
<1>12. ASSUME NEW w \in Workers, FindHome(w) PROVE WorkOK'
  BY <1>12, TaskMove DEF FindHome, Abort, TypeOK, WorkOK, TaskPCs
<1>13. ASSUME NEW w \in Workers, RemoveHome(w) PROVE WorkOK'
  BY <1>13, TaskMove DEF RemoveHome, TypeOK, WorkOK, TaskPCs
<1>14. ASSUME NEW w \in Workers, RemoveRow(w) PROVE WorkOK'
  BY <1>14, TaskMove DEF RemoveRow, TypeOK, WorkOK, TaskPCs, Changes
<1>15. ASSUME NEW w \in Workers, StageAudit(w) PROVE WorkOK'
  BY <1>15, TaskMove DEF StageAudit, TypeOK, WorkOK, TaskPCs, Changes
<1>16. ASSUME NEW w \in Workers, Copy(w) PROVE WorkOK'
  BY <1>16, TaskMove DEF Copy, TypeOK, WorkOK, TaskPCs
<1>17. ASSUME NEW w \in Workers, Record(w) PROVE WorkOK'
  BY <1>17, TaskMove, LoadTyped DEF Record, TypeOK, WorkOK, TaskPCs, Changes
<1>18. ASSUME NEW w \in Workers, List(w) PROVE WorkOK'
  BY <1>18, TaskMove DEF List, TypeOK, WorkOK, DiskOK, TaskPCs
<1>19. ASSUME NEW w \in Workers, Expunge(w) PROVE WorkOK'
  BY <1>19 DEF Expunge, TypeOK, WorkOK
<1>20. ASSUME NEW w \in Workers, Expunged(w) PROVE WorkOK'
  BY <1>20, TaskMove DEF Expunged, TypeOK, WorkOK, TaskPCs
<1>21. ASSUME NEW w \in Workers, Inspect(w) PROVE WorkOK'
  BY <1>21, TaskMove, LoadTyped DEF Inspect, Goto, TypeOK, WorkOK, TaskPCs
<1>22. ASSUME NEW w \in Workers, RemoveDest(w) PROVE WorkOK'
  BY <1>22, TaskMove DEF RemoveDest, TypeOK, WorkOK, TaskPCs, Changes
<1>23. ASSUME NEW w \in Workers, LogAudit(w) PROVE WorkOK'
  <2>1. Flush(w, staged[w] \cup {"audit"}) /\ staged[w] \cup {"audit"} \in SUBSET Changes
    BY <1>23 DEF LogAudit, TypeOK, WorkOK, Changes
  <2>2. seen' \in [Workers -> BOOLEAN] /\ staged' \in [Workers -> SUBSET Changes]
    BY <2>1, FlushTyped
  <2> QED
    BY <1>23, <2>2, TaskMove DEF LogAudit, Goto, TypeOK, WorkOK, TaskPCs
<1>24. ASSUME NEW w \in Workers, UnknownUser(w) PROVE WorkOK'
  BY <1>24, TaskMove DEF UnknownUser, Abort, TypeOK, WorkOK, TaskPCs
<1>25. ASSUME NEW w \in Workers, Fails(w) PROVE WorkOK'
  BY <1>25, TaskMove DEF Fails, Abort, TypeOK, WorkOK, TaskPCs
<1> QED
  BY <1>1, <1>2, <1>3, <1>4, <1>5, <1>6, <1>7, <1>8, <1>9, <1>10, <1>11, <1>12, <1>13, <1>14,
     <1>15, <1>16, <1>17, <1>18, <1>19, <1>20, <1>21, <1>22, <1>23, <1>24, <1>25, WorkFrame
     DEF WorkerNext, Drain, Execute, DeleteSteps, StoreSteps, PruneSteps

LEMMA HistFrame ==
  ASSUME [Next]_vars
  PROVE  \/ UNCHANGED <<hist, flt>>
         \/ \E w \in Workers :
              \/ Start(w) \/ Leave(w) \/ Dies(w) \/ Conflicts(w) \/ Fails(w)
              \/ \E t \in TaskIds : StartSweep(w, t)
              \/ Publish(w) \/ Checkpoint(w) \/ LogAudit(w)
              \/ Copy(w) \/ Expunge(w) \/ RemoveHome(w) \/ RemoveDest(w)
         \/ \E q \in Requests :
              Sync(q) \/ Clean(q) \/ DiscardFiles(q) \/ DropArchive(q) \/ RequestDies(q)
         \/ \E m \in Incoming : Deliver(m)
         \/ Toggle
<1>1. ASSUME NEW w \in Workers, DeleteSteps(w), ~Checkpoint(w), ~RemoveHome(w)
      PROVE  UNCHANGED <<hist, flt>>
  BY <1>1 DEF DeleteSteps, Plan, Probe, DeleteDone, FindHome, RemoveRow, StageAudit
<1>2. ASSUME NEW w \in Workers, StoreSteps(w), ~Copy(w), ~Expunge(w) PROVE UNCHANGED <<hist, flt>>
  BY <1>2 DEF StoreSteps, Record, List, Expunged
<1>3. ASSUME NEW w \in Workers, Inspect(w) \/ UnknownUser(w) \/ \E t \in TaskIds : Claim(w, t)
      PROVE  UNCHANGED <<hist, flt>>
  BY <1>3 DEF Inspect, UnknownUser, Claim
<1>4. ASSUME NEW q \in Requests, Restore(q) \/ Recreate(q) \/ Discard(q) PROVE UNCHANGED <<hist, flt>>
  BY <1>4 DEF Restore, Recreate, Discard
<1>5. ASSUME NEW t \in TaskIds, QueueNext(t) PROVE UNCHANGED <<hist, flt>>
  BY <1>5 DEF QueueNext, Enqueue, Retry, Remove, Reap
<1>6. ASSUME Expire \/ UNCHANGED vars PROVE UNCHANGED <<hist, flt>>
  BY <1>6 DEF Expire, vars
<1> QED
  BY <1>1, <1>2, <1>3, <1>4, <1>5, <1>6
     DEF Next, WorkerNext, Drain, Execute, PruneSteps, RequestNext

LEMMA HistStep ==
  ASSUME TypeOK, [Next]_vars
  PROVE  HistOK'
<1> USE FaultBounds, MessageSets DEF TypeOK, DiskOK, HistOK, flt
<1>1. CASE UNCHANGED <<hist, flt>>
  BY <1>1 DEF hist
<1>2. ASSUME NEW w \in Workers, Start(w) PROVE HistOK'
  BY <1>2 DEF Start, RowsOK, Archives
<1>3. ASSUME NEW w \in Workers, NEW t \in TaskIds, StartSweep(w, t) PROVE HistOK'
  BY <1>3 DEF StartSweep
<1>4. ASSUME NEW w \in Workers, Leave(w) \/ Conflicts(w) PROVE HistOK'
  BY <1>4 DEF Leave, Conflicts, End
<1>5. ASSUME NEW w \in Workers, Dies(w) PROVE HistOK'
  BY <1>5 DEF Dies, Death, End
<1>6. ASSUME NEW w \in Workers, Fails(w) PROVE HistOK'
  <2>1. discarded' \subseteq Msgs /\ dropped' \subseteq TaskIds
    BY <1>6 DEF Fails, Drop
  <2> QED
    BY <1>6, <2>1 DEF Fails, Error
<1>7. ASSUME NEW w \in Workers, Publish(w) \/ Checkpoint(w) PROVE HistOK'
  <2>1. Flush(w, staged[w]) /\ staged[w] \in SUBSET Changes
    BY <1>7 DEF Publish, Checkpoint, WorkOK
  <2> QED
    BY <1>7, <2>1, FlushTyped DEF Publish, Checkpoint
<1>8. ASSUME NEW w \in Workers, LogAudit(w) PROVE HistOK'
  <2>1. Flush(w, staged[w] \cup {"audit"}) /\ staged[w] \cup {"audit"} \in SUBSET Changes
    BY <1>8 DEF LogAudit, WorkOK, Changes
  <2> QED
    BY <1>8, <2>1, FlushTyped DEF LogAudit
<1>9. ASSUME NEW w \in Workers, Copy(w) PROVE HistOK'
  <2>1. copied' \in [TaskIds -> SUBSET Msgs]
    BY <1>9 DEF Copy
  <2> QED
    BY <1>9, <2>1 DEF Copy
<1>10. ASSUME NEW w \in Workers, Expunge(w) PROVE HistOK'
  BY <1>10 DEF Expunge, Requested
<1>11. ASSUME NEW w \in Workers, RemoveHome(w) PROVE HistOK'
  BY <1>11 DEF RemoveHome, Requested
<1>12. ASSUME NEW w \in Workers, RemoveDest(w) PROVE HistOK'
  BY <1>12 DEF RemoveDest, Drop
<1>13. ASSUME NEW q \in Requests, Sync(q) PROVE HistOK'
  BY <1>13 DEF Sync, Error, hist
<1>14. ASSUME NEW q \in Requests, Clean(q) PROVE HistOK'
  BY <1>14 DEF Clean, Error, Drop
<1>15. ASSUME NEW q \in Requests, DiscardFiles(q) PROVE HistOK'
  <2>1. discarded' \subseteq Msgs /\ dropped' \subseteq TaskIds
    BY <1>15 DEF DiscardFiles, Drop
  <2> QED
    BY <1>15, <2>1 DEF DiscardFiles, Error
<1>16. ASSUME NEW q \in Requests, DropArchive(q) PROVE HistOK'
  BY <1>16 DEF DropArchive, Drop
<1>17. ASSUME NEW q \in Requests, RequestDies(q) PROVE HistOK'
  BY <1>17 DEF RequestDies, Death, hist
<1>18. ASSUME NEW m \in Incoming, Deliver(m) PROVE HistOK'
  BY <1>18 DEF Deliver
<1>19. ASSUME Toggle PROVE HistOK'
  <2>1. arch'.auto \in BOOLEAN
    BY <1>19 DEF Toggle, RowsOK, Archives
  <2> QED
    BY <1>19, <2>1 DEF Toggle
<1> QED
  BY <1>1, <1>2, <1>3, <1>4, <1>5, <1>6, <1>7, <1>8, <1>9, <1>10, <1>11, <1>12, <1>13, <1>14,
     <1>15, <1>16, <1>17, <1>18, <1>19, HistFrame

-----------------------------------------------------------------------------
(* Who executes what.                                                      *)

LEMMA JobFrame ==
  ASSUME [Next]_vars
  PROVE  \/ UNCHANGED <<job, status>>
         \/ \E w \in Workers :
              \/ UNCHANGED status /\ End(w)
              \/ \E t \in TaskIds : StartSweep(w, t) \/ Claim(w, t)
              \/ Publish(w)
         \/ UNCHANGED job /\ \E t \in TaskIds : QueueNext(t)
<1>1. ASSUME NEW w \in Workers, Leave(w) \/ Dies(w) \/ Conflicts(w)
      PROVE  UNCHANGED status /\ End(w)
  BY <1>1 DEF Leave, Dies, Conflicts, tasks
<1>2. ASSUME NEW w \in Workers, Start(w) \/ Fails(w) \/ UnknownUser(w) \/ LogAudit(w)
      PROVE  UNCHANGED <<job, status>>
  BY <1>2 DEF Start, Fails, UnknownUser, LogAudit, tasks
<1>3. ASSUME NEW w \in Workers, DeleteSteps(w) PROVE UNCHANGED <<job, status>>
  BY <1>3 DEF DeleteSteps, Plan, Probe, Checkpoint, DeleteDone, FindHome, RemoveHome, RemoveRow,
              StageAudit, tasks, work
<1>4. ASSUME NEW w \in Workers, StoreSteps(w) \/ PruneSteps(w) PROVE UNCHANGED <<job, status>>
  BY <1>4 DEF StoreSteps, PruneSteps, Copy, Record, List, Expunge, Expunged, Inspect, RemoveDest, tasks
<1>5. ASSUME NEW q \in Requests, RequestNext(q) PROVE UNCHANGED <<job, status>>
  BY <1>5 DEF RequestNext, Restore, Recreate, Sync, Clean, Discard, DiscardFiles, DropArchive,
              RequestDies, tasks, work
<1>6. ASSUME NEW t \in TaskIds, QueueNext(t) PROVE UNCHANGED job
  BY <1>6 DEF QueueNext, Enqueue, Retry, Remove, Reap, work
<1>7. ASSUME Toggle \/ Expire \/ (\E m \in Incoming : Deliver(m)) \/ UNCHANGED vars
      PROVE  UNCHANGED <<job, status>>
  BY <1>7 DEF Toggle, Expire, Deliver, vars, tasks, work
<1> QED
  BY <1>1, <1>2, <1>3, <1>4, <1>5, <1>6, <1>7 DEF Next, WorkerNext, Drain, Execute

LEMMA JobStep ==
  ASSUME TypeOK, JobInv, [Next]_vars
  PROVE  JobInv'
<1> USE TypesOfTasks DEF TypeOK, WorkOK, TasksOK, JobInv
<1>1. CASE UNCHANGED <<job, status>>
  BY <1>1
<1>2. ASSUME NEW w \in Workers, UNCHANGED status, End(w) PROVE JobInv'
  BY <1>2 DEF End
<1>3. ASSUME NEW w \in Workers, NEW t \in TaskIds, StartSweep(w, t) PROVE JobInv'
  BY <1>3 DEF StartSweep
<1>4. ASSUME NEW w \in Workers, NEW t \in TaskIds, Claim(w, t) PROVE JobInv'
  BY <1>4 DEF Claim
<1>5. ASSUME NEW w \in Workers, Publish(w) PROVE JobInv'
  BY <1>5 DEF Publish
<1>6. ASSUME UNCHANGED job, NEW t \in TaskIds, QueueNext(t) PROVE JobInv'
  <2>1. CASE Enqueue(t) \/ Retry(t)
    BY <1>6, <2>1 DEF Enqueue, Retry
  <2>2. CASE Remove(t) \/ Reap(t)
    BY <1>6, <2>2 DEF Remove, Reap
  <2> QED
    BY <1>6, <2>1, <2>2 DEF QueueNext
<1> QED
  BY <1>1, <1>2, <1>3, <1>4, <1>5, <1>6, JobFrame

-----------------------------------------------------------------------------
(* Where workers are in their plans.                                       *)

\* No plan changes, and nobody goes to a place within a step.
Quiet ==
    /\ UNCHANGED <<mode, done>>
    /\ \A x \in Workers :
         (pc'[x] = pc[x] /\ job'[x] = job[x]) \/ pc'[x] \notin ArchiveOnly \cup InStep

LEMMA QuietSteps ==
  ASSUME TypeOK, [Next]_vars
  PROVE  \/ Quiet
         \/ \E w \in Workers :
              \/ Plan(w) \/ Probe(w) \/ Checkpoint(w) \/ FindHome(w) \/ RemoveHome(w)
              \/ RemoveRow(w) \/ StageAudit(w)
              \/ Copy(w) \/ Record(w) \/ List(w) \/ Expunged(w)
<1> USE DEF Quiet, TypeOK, WorkOK, Goto, tasks, work, ArchiveOnly, InStep, DeleteOnly
<1>1. ASSUME NEW w \in Workers, Drain(w) PROVE Quiet
  <2>1. CASE Start(w)
    BY <2>1 DEF Start
  <2>2. ASSUME NEW t \in TaskIds, StartSweep(w, t) PROVE Quiet
    BY <2>2 DEF StartSweep
  <2>3. ASSUME NEW t \in TaskIds, Claim(w, t) PROVE Quiet
    BY <2>3 DEF Claim
  <2> QED
    BY <1>1, <2>1, <2>2, <2>3 DEF Drain
<1>2. ASSUME NEW w \in Workers, Leave(w) \/ Dies(w) \/ Conflicts(w) PROVE Quiet
  BY <1>2 DEF Leave, Dies, Conflicts, End
<1>3. ASSUME NEW w \in Workers, Fails(w) \/ UnknownUser(w) PROVE Quiet
  BY <1>3 DEF Fails, UnknownUser, Abort
<1>4. ASSUME NEW w \in Workers, DeleteDone(w) \/ LogAudit(w) \/ Publish(w) PROVE Quiet
  BY <1>4 DEF DeleteDone, LogAudit, Publish
<1>5. ASSUME NEW w \in Workers, Expunge(w) PROVE Quiet
  BY <1>5 DEF Expunge
<1>6. ASSUME NEW w \in Workers, PruneSteps(w) PROVE Quiet
  BY <1>6 DEF PruneSteps, Inspect, RemoveDest
<1>7. ASSUME NEW q \in Requests, RequestNext(q) PROVE Quiet
  BY <1>7 DEF RequestNext, Restore, Recreate, Sync, Clean, Discard, DiscardFiles, DropArchive,
              RequestDies
<1>8. ASSUME NEW t \in TaskIds, QueueNext(t) PROVE Quiet
  BY <1>8 DEF QueueNext, Enqueue, Retry, Remove, Reap
<1>9. ASSUME Toggle \/ Expire \/ (\E m \in Incoming : Deliver(m)) \/ UNCHANGED vars PROVE Quiet
  BY <1>9 DEF Toggle, Expire, Deliver, vars
<1> QED
  BY <1>1, <1>2, <1>3, <1>4, <1>5, <1>6, <1>7, <1>8, <1>9
     DEF Next, WorkerNext, Execute, DeleteSteps, StoreSteps, PruneSteps

\* One worker moves.
LEMMA PlacedKept ==
  ASSUME PlanInv, NEW w \in Workers, UNCHANGED <<mode, done, job>>,
         \A x \in Workers \ {w} : pc'[x] = pc[x], Placed(w)'
  PROVE  PlanInv'
<1>1. ASSUME NEW x \in Workers, x # w PROVE Placed(x)'
  BY <1>1 DEF PlanInv, Placed, Deleting, Kind
<1> QED
  BY <1>1 DEF PlanInv

\* A step of a DELETE begins: it has a plan, and this step is the next one.
LEMMA AtPlan ==
  ASSUME NEW w \in Workers, NEW s, At(w, s)
  PROVE  /\ pc[w] = "exec" /\ Deleting(w)
         /\ mode[job[w]] # "none" /\ done[job[w]] < Len(Steps(mode[job[w]]))
BY DEF At

LEMMA PlanStep ==
  ASSUME TypeOK, JobInv, PlanInv, [Next]_vars
  PROVE  PlanInv'
<1> USE DEF ArchiveOnly, InStep, DeleteOnly
<1>1. CASE Quiet
  BY <1>1 DEF Quiet, PlanInv, Placed, Deleting, Kind
<1>2. ASSUME NEW w \in Workers, Plan(w) PROVE PlanInv'
  <2>1. job[w] \in TaskIds /\ pc[w] = "exec"
    BY <1>2 DEF Plan, Deleting, TypeOK, WorkOK
  <2>2. PICK m \in {"backup", "instant"} : mode' = [mode EXCEPT ![job[w]] = m]
    BY <1>2 DEF Plan
  <2>3. UNCHANGED <<done, job, pc>>
    BY <1>2 DEF Plan, work
  <2>4. \A x \in Workers : Deleting(x) /\ x # w => mode'[job[x]] = mode[job[x]]
    BY <2>1, <2>2 DEF Deleting, JobInv, TypeOK, TasksOK, WorkOK
  <2>5. ASSUME NEW x \in Workers PROVE Placed(x)'
    BY <2>1, <2>3, <2>4 DEF PlanInv, Placed, Deleting, Kind
  <2>6. \A t \in TaskIds : mode'[t] = "none" => done[t] = 0
    BY <2>1, <2>2 DEF PlanInv, TypeOK, TasksOK
  <2> QED
    BY <2>3, <2>5, <2>6 DEF PlanInv
<1>3. ASSUME NEW w \in Workers, Checkpoint(w) PROVE PlanInv'
  <2>1. job[w] \in TaskIds /\ mode[job[w]] # "none"
    BY <1>3 DEF Checkpoint, PlanInv, Placed, Deleting, TypeOK, WorkOK
  <2>2. /\ done' = [done EXCEPT ![job[w]] = @ + 1] /\ pc' = [pc EXCEPT ![w] = "exec"]
        /\ UNCHANGED <<mode, job>>
    BY <1>3 DEF Checkpoint, Goto
  <2>3. \A x \in Workers : Deleting(x) /\ x # w => done'[job[x]] = done[job[x]]
    BY <2>1, <2>2 DEF Deleting, JobInv, TypeOK, TasksOK, WorkOK
  <2>4. ASSUME NEW x \in Workers PROVE Placed(x)'
    <3>1. CASE x = w
      BY <2>2, <3>1 DEF Placed, TypeOK, WorkOK
    <3>2. CASE x # w
      BY <2>2, <2>3, <3>2 DEF PlanInv, Placed, Deleting, Kind, TypeOK, WorkOK
    <3> QED
      BY <3>1, <3>2
  <2>5. \A t \in TaskIds : mode[t] = "none" => done'[t] = 0
    BY <2>1, <2>2 DEF PlanInv, TypeOK, TasksOK
  <2> QED
    BY <2>2, <2>4, <2>5 DEF PlanInv
<1>4. ASSUME NEW w \in Workers, Probe(w) PROVE PlanInv'
  <2>1. UNCHANGED <<mode, done, job>> /\ \A x \in Workers \ {w} : pc'[x] = pc[x]
    BY <1>4 DEF Probe, Abort, Goto, TypeOK, WorkOK, tasks
  <2>2. pc'[w] \in {"copy", "publish"}
    BY <1>4 DEF Probe, Abort, Goto, TypeOK, WorkOK
  <2>3. mode[job[w]] = "backup" => done[job[w]] = 0
    BY <1>4, BackupOrder DEF Probe
  <2>4. Placed(w)'
    BY <1>4, <2>1, <2>2, <2>3, AtPlan DEF Probe, Placed, Deleting, Kind
  <2> QED
    BY <2>1, <2>4, PlacedKept
<1>5. ASSUME NEW w \in Workers, FindHome(w) \/ RemoveRow(w) \/ StageAudit(w) PROVE PlanInv'
  <2>1. UNCHANGED <<mode, done, job>> /\ \A x \in Workers \ {w} : pc'[x] = pc[x]
    BY <1>5 DEF FindHome, RemoveRow, StageAudit, Abort, Goto, TypeOK, WorkOK, tasks
  <2>2. \/ pc'[w] \in {"check", "publish"}
        \/ pc'[w] = "rmhome" /\ FindHome(w)
    <3>1. CASE FindHome(w)
      BY <3>1 DEF FindHome, Abort, Goto, TypeOK, WorkOK
    <3>2. ASSUME RemoveRow(w) \/ StageAudit(w) PROVE pc'[w] = "check"
      <4>1. pc' = [pc EXCEPT ![w] = "check"]
        BY <3>2 DEF RemoveRow, StageAudit, Goto
      <4> QED
        BY <4>1 DEF TypeOK, WorkOK
    <3> QED
      BY <1>5, <3>1, <3>2
  <2>3. mode[job[w]] = "backup" /\ FindHome(w) => done[job[w]] >= 2
    BY BackupOrder DEF FindHome
  <2>4. Deleting(w) /\ mode[job[w]] # "none" /\ done[job[w]] < Len(Steps(mode[job[w]]))
    BY <1>5, AtPlan DEF FindHome, RemoveRow, StageAudit
  <2>5. Placed(w)'
    BY <2>1, <2>2, <2>3, <2>4 DEF Placed, Deleting, Kind
  <2> QED
    BY <2>1, <2>5, PlacedKept
<1>6. ASSUME NEW w \in Workers, RemoveHome(w) PROVE PlanInv'
  <2>1. UNCHANGED <<mode, done, job>> /\ pc' = [pc EXCEPT ![w] = "check"] /\ pc[w] = "rmhome"
    BY <1>6 DEF RemoveHome, Goto, tasks
  <2>2. Placed(w)'
    BY <2>1 DEF PlanInv, Placed, Deleting, Kind, TypeOK, WorkOK
  <2> QED
    BY <2>1, <2>2, PlacedKept DEF TypeOK, WorkOK
<1>7. ASSUME NEW w \in Workers, Copy(w) PROVE PlanInv'
  <2>1. /\ UNCHANGED <<mode, done, job>>
        /\ pc' = [pc EXCEPT ![w] = IF Deleting(w) THEN "check" ELSE "record"]
        /\ Copying(w)
    BY <1>7 DEF Copy, Goto, tasks
  <2>2. Deleting(w) => pc[w] = "copy"
    BY <2>1 DEF Copying, Deleting
  <2>3. Placed(w)'
    BY <2>1, <2>2 DEF PlanInv, Placed, Deleting, Kind, TypeOK, WorkOK
  <2> QED
    BY <2>1, <2>3, PlacedKept DEF TypeOK, WorkOK
<1>8. ASSUME NEW w \in Workers, Record(w) PROVE PlanInv'
  <2>1. /\ UNCHANGED <<mode, done, job>>
        /\ pc' = [pc EXCEPT ![w] = IF Deleting(w) THEN "check" ELSE "list"]
        /\ At(w, "archive") \/ pc[w] = "record"
    BY <1>8 DEF Record, Goto, tasks
  <2>2. Deleting(w) => mode[job[w]] # "none" /\ done[job[w]] < Len(Steps(mode[job[w]]))
    BY <2>1, AtPlan DEF PlanInv, Placed
  <2>3. Placed(w)'
    BY <2>1, <2>2 DEF Placed, Deleting, Kind, TypeOK, WorkOK
  <2> QED
    BY <2>1, <2>3, PlacedKept DEF TypeOK, WorkOK
<1>9. ASSUME NEW w \in Workers, List(w) PROVE PlanInv'
  <2>1. /\ UNCHANGED <<mode, done, job>>
        /\ pc' = [pc EXCEPT ![w] = "expunge"]
        /\ At(w, "mailbox-delete") \/ pc[w] = "list"
    BY <1>9 DEF List, Goto, tasks
  <2>2. Deleting(w) =>
          /\ mode[job[w]] # "none" /\ done[job[w]] < Len(Steps(mode[job[w]]))
          /\ mode[job[w]] = "backup" => done[job[w]] >= 2
    BY <2>1, AtPlan, BackupOrder DEF PlanInv, Placed
  <2>3. Placed(w)'
    BY <2>1, <2>2 DEF Placed, Deleting, Kind, TypeOK, WorkOK
  <2> QED
    BY <2>1, <2>3, PlacedKept DEF TypeOK, WorkOK
<1>10. ASSUME NEW w \in Workers, Expunged(w) PROVE PlanInv'
  <2>1. /\ UNCHANGED <<mode, done, job>> /\ pc[w] = "expunge"
        /\ pc' = [pc EXCEPT ![w] = IF Deleting(w) THEN "check" ELSE "audit"]
    BY <1>10 DEF Expunged, Goto, tasks
  <2>2. Placed(w)'
    BY <2>1 DEF PlanInv, Placed, Deleting, Kind, TypeOK, WorkOK
  <2> QED
    BY <2>1, <2>2, PlacedKept DEF TypeOK, WorkOK
<1> QED
  BY <1>1, <1>2, <1>3, <1>4, <1>5, <1>6, <1>7, <1>8, <1>9, <1>10, QuietSteps

-----------------------------------------------------------------------------
(* The archive row.                                                        *)

\* No plan changes and the row stays; who is about to checkpoint was so
\* before, with what it has staged, or is not at the archive step.
Calm ==
    /\ UNCHANGED <<mode, done>>
    /\ dropped \subseteq dropped'
    /\ arch.there => arch'.there
    /\ \A x \in Workers : Deleting(x)' /\ pc'[x] = "check" =>
         /\ job'[x] = job[x]
         /\ \/ pc[x] = "check" /\ (RowStaged(x) => RowStaged(x)')
            \/ mode[job[x]] = "backup" => done[job[x]] # 1

LEMMA CalmKeeps ==
  ASSUME RowInv, Calm
  PROVE  RowInv'
<1>1. ASSUME NEW t \in TaskIds, Type[t] = "DELETE", mode'[t] = "backup", t \notin dropped', done'[t] >= 2
      PROVE  arch'.there
  BY <1>1 DEF RowInv, Calm
<1>2. ASSUME NEW x \in Workers, Deleting(x)', pc'[x] = "check",
             mode'[job'[x]] = "backup", done'[job'[x]] = 1, job'[x] \notin dropped'
      PROVE  RowStaged(x)'
  BY <1>2 DEF RowInv, Calm, Deleting, Kind
<1> QED
  BY <1>1, <1>2 DEF RowInv

\* The row goes, and with it what the DELETE tasks count on.
LEMMA DropKeeps ==
  ASSUME TypeOK', Drop, UNCHANGED mode
  PROVE  RowInv'
BY DEF Drop, RowInv, Deleting, TypeOK, WorkOK

LEMMA FlushKeeps ==
  ASSUME TypeOK, TypeOK', RowInv, NEW w \in Workers, NEW S, Flush(w, S),
         UNCHANGED <<mode, done>>, \A x \in Workers \ {w} : job'[x] = job[x],
         \A x \in Workers : pc'[x] = "check" => x # w /\ pc[x] = "check"
  PROVE  RowInv'
<1>1. \A x \in Workers \ {w} : staged'[x] = staged[x]
  BY DEF Flush, TypeOK, WorkOK
<1>2. CASE arch' = Written(w) /\ fresh' = fresh \cup {w} /\ dropped' = dropped
  <2>1. Calm
    BY <1>1, <1>2, WrittenTyped DEF Calm, RowStaged
  <2> QED
    BY <2>1, CalmKeeps
<1>3. CASE Drop
  BY <1>3, DropKeeps
<1>4. CASE UNCHANGED <<arch, fresh, dropped>>
  <2>1. Calm
    BY <1>1, <1>4 DEF Calm, RowStaged
  <2> QED
    BY <2>1, CalmKeeps
<1> QED
  BY <1>2, <1>3, <1>4, FlushCases

LEMMA CalmSteps ==
  ASSUME TypeOK, PlanInv, [Next]_vars
  PROVE  \/ Calm
         \/ \E w \in Workers :
              Plan(w) \/ Copy(w) \/ Record(w) \/ Checkpoint(w) \/ LogAudit(w) \/ Publish(w)
         \/ \E q \in Requests : DropArchive(q)
<1> USE ActorsDiffer DEF Calm, RowStaged, TypeOK, WorkOK, RowsOK, Goto, Drop, rows, tasks, work, hist
<1>1. ASSUME NEW w \in Workers, Drain(w) PROVE Calm
  <2>1. CASE Start(w)
    BY <2>1 DEF Start
  <2>2. ASSUME NEW t \in TaskIds, StartSweep(w, t) PROVE Calm
    BY <2>2 DEF StartSweep, Load
  <2>3. ASSUME NEW t \in TaskIds, Claim(w, t) PROVE Calm
    BY <2>3 DEF Claim
  <2> QED
    BY <1>1, <2>1, <2>2, <2>3 DEF Drain
<1>2. ASSUME NEW w \in Workers, Leave(w) \/ Dies(w) \/ Conflicts(w) PROVE Calm
  BY <1>2 DEF Leave, Dies, Conflicts, End
<1>3. ASSUME NEW w \in Workers, Fails(w) \/ UnknownUser(w) PROVE Calm
  BY <1>3 DEF Fails, UnknownUser, Abort
<1>4. ASSUME NEW w \in Workers, DeleteDone(w) \/ Probe(w) PROVE Calm
  BY <1>4 DEF DeleteDone, Probe, Abort
<1>5. ASSUME NEW w \in Workers, FindHome(w) \/ RemoveRow(w) \/ StageAudit(w) PROVE Calm
  <2>1. mode[job[w]] = "backup" => done[job[w]] # 1 \/ pc'[w] # "check"
    BY <1>5, BackupOrder DEF FindHome, RemoveRow, StageAudit
  <2> QED
    BY <1>5, <2>1 DEF FindHome, RemoveRow, StageAudit, Abort
<1>6. ASSUME NEW w \in Workers, RemoveHome(w) \/ Expunged(w) PROVE Calm
  <2>1. Deleting(w) /\ mode[job[w]] = "backup" => done[job[w]] >= 2
    BY <1>6 DEF RemoveHome, Expunged, PlanInv, Placed
  <2> QED
    <3>1. /\ UNCHANGED <<arch, fresh, dropped, mode, done, job, staged>>
          /\ \A x \in Workers \ {w} : pc'[x] = pc[x]
          /\ pc'[w] = "check" => Deleting(w)
      BY <1>6 DEF RemoveHome, Expunged, PlanInv, Placed, DeleteOnly
    <3> QED
      BY <2>1, <3>1
<1>7. ASSUME NEW w \in Workers, List(w) \/ Expunge(w) PROVE Calm
  BY <1>7 DEF List, Expunge
<1>8. ASSUME NEW w \in Workers, Inspect(w) PROVE Calm
  BY <1>8 DEF Inspect, Load
<1>9. ASSUME NEW w \in Workers, RemoveDest(w) PROVE Calm
  BY <1>9 DEF RemoveDest
<1>10. ASSUME NEW q \in Requests, RequestNext(q), ~DropArchive(q) PROVE Calm
  <2>1. UNCHANGED <<arch, tasks, work>> /\ dropped \subseteq dropped'
    BY <1>10 DEF RequestNext, Restore, Recreate, Sync, Clean, Discard, DiscardFiles, RequestDies
  <2>2. fresh \ {q} \subseteq fresh'
    BY <1>10 DEF RequestNext, Restore, Recreate, Sync, Clean, Discard, DiscardFiles, RequestDies
  <2> QED
    BY <2>1, <2>2
<1>11. ASSUME NEW t \in TaskIds, QueueNext(t) PROVE Calm
  BY <1>11 DEF QueueNext, Enqueue, Retry, Remove, Reap
<1>12. ASSUME Toggle \/ Expire PROVE Calm
  <2>1. arch'.there = arch.there
    BY <1>12 DEF Toggle, Expire, Archives
  <2> QED
    BY <1>12, <2>1 DEF Toggle, Expire
<1>13. ASSUME (\E m \in Incoming : Deliver(m)) \/ UNCHANGED vars PROVE Calm
  BY <1>13 DEF Deliver, vars
<1> QED
  BY <1>1, <1>2, <1>3, <1>4, <1>5, <1>6, <1>7, <1>8, <1>9, <1>10, <1>11, <1>12, <1>13
     DEF Next, WorkerNext, Execute, DeleteSteps, StoreSteps, PruneSteps

LEMMA RowStep ==
  ASSUME TypeOK, TypeOK', JobInv, PlanInv, RowInv, [Next]_vars
  PROVE  RowInv'
<1>1. CASE Calm
  BY <1>1, CalmKeeps
<1>2. ASSUME NEW w \in Workers, Plan(w) PROVE RowInv'
  <2>1. job[w] \in TaskIds /\ done[job[w]] = 0 /\ pc[w] = "exec"
    BY <1>2 DEF Plan, Deleting, PlanInv, TypeOK, WorkOK
  <2>2. \A t \in TaskIds \ {job[w]} : mode'[t] = mode[t]
    BY <1>2 DEF Plan, TypeOK, TasksOK
  <2>3. UNCHANGED <<arch, fresh, done, job, pc, staged, dropped>>
    BY <1>2 DEF Plan, rows, work, hist
  <2>4. \A x \in Workers : Deleting(x) /\ pc[x] = "check" => job[x] \in TaskIds \ {job[w]}
    BY <2>1 DEF Deleting, JobInv, TypeOK, WorkOK
  <2> QED
    BY <2>1, <2>2, <2>3, <2>4 DEF RowInv, RowStaged, Deleting, Kind
<1>3. ASSUME NEW w \in Workers, Copy(w) PROVE RowInv'
  <2>1. /\ UNCHANGED <<arch, fresh, mode, done, job, staged>>
        /\ dropped' = dropped \ {job[w]}
        /\ \A x \in Workers \ {w} : pc'[x] = pc[x]
        /\ Copying(w)
    BY <1>3 DEF Copy, Goto, rows, tasks, TypeOK, WorkOK
  <2>2. Deleting(w) /\ mode[job[w]] = "backup" => done[job[w]] = 0
    BY <2>1 DEF Copying, Deleting, PlanInv, Placed
  <2>3. job[w] # NoTask
    BY <2>1, AtExec DEF TaskPCs
  <2>4. pc'[w] = "check" => Deleting(w)
    BY <1>3 DEF Copy, Goto, TypeOK, WorkOK
  <2>5. \A x \in Workers : job[x] = job[w] => x = w
    BY <2>3 DEF JobInv
  <2>6. ASSUME NEW t \in TaskIds, Type[t] = "DELETE", mode[t] = "backup", t \notin dropped', done[t] >= 2
        PROVE  arch.there
    BY <2>1, <2>2, <2>3, <2>6 DEF RowInv, Deleting, Kind
  <2>7. ASSUME NEW x \in Workers, Deleting(x), pc'[x] = "check",
               mode[job[x]] = "backup", done[job[x]] = 1, job[x] \notin dropped'
        PROVE  RowStaged(x)
    BY <2>1, <2>2, <2>4, <2>5, <2>7 DEF RowInv
  <2> QED
    BY <2>1, <2>6, <2>7 DEF RowInv, RowStaged, Deleting, Kind
<1>4. ASSUME NEW w \in Workers, Record(w) PROVE RowInv'
  <2>1. /\ UNCHANGED <<arch, mode, done, job, dropped>>
        /\ \A x \in Workers \ {w} : pc'[x] = pc[x] /\ staged'[x] = staged[x]
        /\ fresh \subseteq fresh'
    BY <1>4 DEF Record, Load, Goto, tasks, hist, TypeOK, WorkOK
  <2>2. "archive" \in staged'[w] /\ (~arch.there => "insert" \in staged'[w])
    BY <1>4 DEF Record, TypeOK, WorkOK
  <2>3. arch.there => w \in fresh'
    BY <1>4 DEF Record, Load
  <2>4. RowStaged(w)'
    BY <2>2, <2>3 DEF RowStaged
  <2>5. \A x \in Workers \ {w} : RowStaged(x) => RowStaged(x)'
    BY <2>1 DEF RowStaged
  <2> QED
    BY <2>1, <2>4, <2>5 DEF RowInv, Deleting, Kind
<1>5. ASSUME NEW w \in Workers, Checkpoint(w) PROVE RowInv'
  <2>1. /\ Deleting(w) /\ job[w] \in TaskIds /\ pc[w] = "check"
        /\ Flush(w, staged[w])
    BY <1>5 DEF Checkpoint, PlanInv, Placed, Deleting, DeleteOnly, TypeOK, WorkOK
  <2>2. /\ UNCHANGED <<mode, job>> /\ pc'[w] = "exec"
        /\ \A x \in Workers \ {w} : pc'[x] = pc[x] /\ staged'[x] = staged[x]
    BY <1>5 DEF Checkpoint, Flush, Goto, TypeOK, WorkOK
  <2>3. /\ done'[job[w]] = done[job[w]] + 1
        /\ \A t \in TaskIds \ {job[w]} : done'[t] = done[t]
    BY <1>5, <2>1 DEF Checkpoint, TypeOK, TasksOK
  <2>4. \A x \in Workers \ {w} : Deleting(x) => job[x] \in TaskIds \ {job[w]}
    BY <2>1 DEF Deleting, JobInv, TypeOK, WorkOK
  <2>5. CASE arch' = Written(w) /\ fresh' = fresh \cup {w} /\ dropped' = dropped
    <3>1. arch'.there
      BY <2>5, WrittenTyped
    <3>2. \A x \in Workers \ {w} : RowStaged(x) => RowStaged(x)'
      BY <2>2, <2>5 DEF RowStaged
    <3> QED
      BY <2>2, <2>3, <2>4, <2>5, <3>1, <3>2 DEF RowInv, Deleting, Kind
  <2>6. CASE Drop
    BY <2>2, <2>6, DropKeeps
  <2>7. CASE /\ ~("archive" \in staged[w] /\ ("insert" \in staged[w] \/ w \in fresh))
             /\ UNCHANGED <<arch, fresh, dropped>>
    <3>1. ~RowStaged(w)
      BY <2>7 DEF RowStaged
    <3>2. mode[job[w]] = "backup" /\ job[w] \notin dropped => done[job[w]] # 1
      BY <2>1, <3>1 DEF RowInv
    <3>3. done[job[w]] \in 0..6
      BY <2>1 DEF TypeOK, TasksOK
    <3>4. mode[job[w]] = "backup" /\ job[w] \notin dropped /\ done'[job[w]] >= 2 => arch.there
      BY <2>1, <2>3, <3>2, <3>3 DEF RowInv, Deleting, Kind
    <3>5. \A x \in Workers \ {w} : RowStaged(x) => RowStaged(x)'
      BY <2>2, <2>7 DEF RowStaged
    <3>6. ASSUME NEW t \in TaskIds, Type[t] = "DELETE", mode[t] = "backup", t \notin dropped, done'[t] >= 2
          PROVE  arch.there
      BY <2>3, <3>4, <3>6 DEF RowInv
    <3>7. ASSUME NEW x \in Workers, Deleting(x), pc'[x] = "check",
                 mode[job[x]] = "backup", done'[job[x]] = 1, job[x] \notin dropped
          PROVE  RowStaged(x)'
      BY <2>2, <2>3, <2>4, <3>5, <3>7 DEF RowInv
    <3> QED
      BY <2>2, <2>7, <3>6, <3>7 DEF RowInv, Deleting, Kind
  <2> QED
    BY <2>1, <2>5, <2>6, <2>7, FlushCases
<1>6. ASSUME NEW w \in Workers, LogAudit(w) \/ Publish(w) PROVE RowInv'
  <2>1. PICK S : Flush(w, S)
    BY <1>6 DEF LogAudit, Publish
  <2>2. UNCHANGED <<mode, done>> /\ \A x \in Workers : pc'[x] = "check" => x # w /\ pc[x] = "check"
    BY <1>6 DEF LogAudit, Publish, Goto, tasks, TypeOK, WorkOK
  <2>3. \A x \in Workers \ {w} : job'[x] = job[x]
    BY <1>6 DEF LogAudit, Publish, TypeOK, WorkOK
  <2> QED
    BY <2>1, <2>2, <2>3, FlushKeeps
<1>7. ASSUME NEW q \in Requests, DropArchive(q) PROVE RowInv'
  <2>1. CASE q \in fresh
    <3>1. Drop /\ UNCHANGED mode
      BY <1>7, <2>1 DEF DropArchive, tasks
    <3> QED
      BY <3>1, DropKeeps
  <2>2. CASE q \notin fresh
    <3>1. Calm
      BY <1>7, <2>2 DEF DropArchive, Calm, RowStaged, tasks, work
    <3> QED
      BY <3>1, CalmKeeps
  <2> QED
    BY <2>1, <2>2
<1> QED
  BY <1>1, <1>2, <1>3, <1>4, <1>5, <1>6, <1>7, CalmSteps

-----------------------------------------------------------------------------
(* The audit row.                                                          *)

LEMMA PlanEnds ==
  ASSUME NEW m
  PROVE  Steps(m)[Len(Steps(m))] = "audit" /\ Len(Steps(m)) >= 4
<1>1. CASE m = "backup"
  BY <1>1, PlanLength DEF BackupSteps
<1>2. CASE m # "backup"
  <2>1. \A i \in 3..6 : BackupSteps[i] \in {BackupSteps[j] : j \in 3..6}
    OBVIOUS
  <2>2. \A i \in 1..(6 - 3 + 1) : SubSeq(BackupSteps, 3, 6)[i] = BackupSteps[3 + i - 1]
    BY <2>1, SubSeqProperties
  <2>3. SubSeq(BackupSteps, 3, 6)[4] = BackupSteps[6]
    BY <2>2
  <2>4. BackupSteps[6] = "audit"
    BY DEF BackupSteps
  <2>5. Steps(m) = SubSeq(BackupSteps, 3, 6) /\ Len(Steps(m)) = 4
    BY <1>2, PlanLength DEF Steps
  <2>6. Steps(m)[4] = "audit"
    BY <2>3, <2>4, <2>5, Zenon
  <2> QED
    BY <2>5, <2>6
<1> QED
  BY <1>1, <1>2

LEMMA NotLast ==
  ASSUME NEW w \in Workers, NEW s, At(w, s), s # "audit"
  PROVE  ~Last(w)
BY PlanEnds, Zenon DEF At, Last

\* No plan changes, no audit row goes, nobody publishes DONE that did not, and
\* nobody gets to a last step.
Plain ==
    /\ UNCHANGED <<mode, done>>
    /\ \A t \in TaskIds : audits'[t] >= audits[t]
    /\ \A t \in TaskIds : status'[t] = "DONE" => status[t] = "DONE"
    /\ \A x \in Workers :
         \/ pc'[x] = pc[x] /\ job'[x] = job[x] /\ out'[x] = out[x] /\ staged[x] \subseteq staged'[x]
         \/ pc'[x] \notin InStep \cup {"publish"}
         \/ pc'[x] = "publish" /\ out'[x] = "FAILED"
         \/ job'[x] = job[x] /\ (Deleting(x) => ~Last(x)) /\ pc'[x] # "publish"

LEMMA PlainKeeps ==
  ASSUME TypeOK, TypeOK', AuditInv, Plain
  PROVE  AuditInv'
<1>1. \A t \in TaskIds : audits[t] > 0 => audits'[t] > 0
  BY DEF Plain, TypeOK, HistOK
<1>2. ASSUME NEW t \in TaskIds, Type[t] = "DELETE", mode'[t] # "none", done'[t] = Len(Steps(mode'[t]))
      PROVE  audits'[t] > 0
  BY <1>1, <1>2 DEF AuditInv, Plain
<1>3. ASSUME NEW x \in Workers, Deleting(x)', pc'[x] \in InStep, Last(x)'
      PROVE  pc'[x] = "check" /\ "audit" \in staged'[x]
  <2>1. job'[x] = job[x] => Deleting(x) /\ Last(x)
    BY <1>3 DEF Deleting, Kind, Last, Plain
  <2>2. pc'[x] = pc[x] /\ job'[x] = job[x] /\ staged[x] \subseteq staged'[x]
    BY <1>3, <2>1 DEF Plain, InStep, DeleteOnly
  <2> QED
    BY <1>3, <2>1, <2>2 DEF AuditInv
<1>4. ASSUME NEW x \in Workers, pc'[x] = "publish", out'[x] = "DONE", Kind(x)' # "PRUNE"
      PROVE  audits'[job'[x]] > 0
  <2>1. pc'[x] = pc[x] /\ job'[x] = job[x] /\ out'[x] = out[x]
    BY <1>4 DEF Plain
  <2>2. job[x] \in TaskIds
    BY <1>4, <2>1 DEF TypeOK, WorkOK
  <2> QED
    BY <1>1, <1>4, <2>1, <2>2 DEF AuditInv, Kind
<1>5. DoneIsAudited'
  BY <1>1 DEF AuditInv, DoneIsAudited, Plain
<1> QED
  BY <1>2, <1>3, <1>4, <1>5 DEF AuditInv

LEMMA FlushAudits ==
  ASSUME TypeOK, NEW w \in Workers, NEW S, Flush(w, S), job[w] # NoTask
  PROVE  /\ \A t \in TaskIds : audits'[t] >= audits[t]
         /\ "audit" \in S => audits'[job[w]] > 0
         /\ \A x \in Workers \ {w} : staged'[x] = staged[x]
BY DEF Flush, TypeOK, WorkOK, HistOK

LEMMA PlainSteps ==
  ASSUME TypeOK, PlanInv, AuditInv, [Next]_vars
  PROVE  \/ Plain
         \/ \E w \in Workers :
              \/ Plan(w) \/ Checkpoint(w) \/ DeleteDone(w) \/ StageAudit(w)
              \/ Inspect(w) \/ LogAudit(w) \/ Publish(w)
<1> USE DEF Plain, TypeOK, WorkOK, TasksOK, HistOK, Goto, tasks, work, hist, InStep, DeleteOnly
<1>1. ASSUME NEW w \in Workers, Drain(w) PROVE Plain
  <2>1. CASE Start(w)
    BY <2>1 DEF Start
  <2>2. ASSUME NEW t \in TaskIds, StartSweep(w, t) PROVE Plain
    BY <2>2 DEF StartSweep
  <2>3. ASSUME NEW t \in TaskIds, Claim(w, t) PROVE Plain
    BY <2>3 DEF Claim
  <2> QED
    BY <1>1, <2>1, <2>2, <2>3 DEF Drain
<1>2. ASSUME NEW w \in Workers, Leave(w) \/ Dies(w) \/ Conflicts(w) PROVE Plain
  BY <1>2 DEF Leave, Dies, Conflicts, End
<1>3. ASSUME NEW w \in Workers, Fails(w) \/ UnknownUser(w) PROVE Plain
  BY <1>3 DEF Fails, UnknownUser, Abort
<1>4. ASSUME NEW w \in Workers, Probe(w) PROVE Plain
  BY <1>4, NotLast DEF Probe, Abort
<1>5. ASSUME NEW w \in Workers, FindHome(w) PROVE Plain
  BY <1>5, NotLast DEF FindHome, Abort
<1>6. ASSUME NEW w \in Workers, RemoveRow(w) PROVE Plain
  BY <1>6, NotLast DEF RemoveRow
<1>7. ASSUME NEW w \in Workers, RemoveHome(w) \/ Expunged(w) PROVE Plain
  <2>1. /\ UNCHANGED <<mode, done, status, audits, job, out, staged>>
        /\ \A x \in Workers \ {w} : pc'[x] = pc[x]
    BY <1>7 DEF RemoveHome, Expunged
  <2>2. pc'[w] = "audit" \/ (pc'[w] = "check" /\ Deleting(w) /\ pc[w] \in {"rmhome", "expunge"})
    BY <1>7 DEF RemoveHome, Expunged, PlanInv, Placed
  <2>3. pc'[w] = "audit" \/ (pc'[w] = "check" /\ ~Last(w))
    BY <2>2 DEF AuditInv
  <2> QED
    BY <2>1, <2>3
<1>8. ASSUME NEW w \in Workers, Copy(w) PROVE Plain
  <2>1. /\ UNCHANGED <<mode, done, status, audits, job, out, staged>>
        /\ \A x \in Workers \ {w} : pc'[x] = pc[x]
    BY <1>8 DEF Copy
  <2>2. pc'[w] = "record" \/ (pc'[w] = "check" /\ Deleting(w) /\ pc[w] = "copy")
    BY <1>8 DEF Copy, Copying, Deleting
  <2>3. pc'[w] = "record" \/ (pc'[w] = "check" /\ ~Last(w))
    BY <2>2 DEF AuditInv
  <2> QED
    BY <2>1, <2>3
<1>9. ASSUME NEW w \in Workers, Record(w) PROVE Plain
  <2>1. /\ UNCHANGED <<mode, done, status, audits, job, out>>
        /\ \A x \in Workers \ {w} : pc'[x] = pc[x] /\ staged'[x] = staged[x]
    BY <1>9 DEF Record
  <2>2. pc'[w] = "list" \/ (pc'[w] = "check" /\ Deleting(w))
    BY <1>9 DEF Record
  <2>3. pc'[w] = "list" \/ (pc'[w] = "check" /\ ~Last(w))
    BY <1>9, <2>2, NotLast DEF Record, PlanInv, Placed, ArchiveOnly
  <2> QED
    BY <2>1, <2>3
<1>10. ASSUME NEW w \in Workers, List(w) PROVE Plain
  <2>1. /\ UNCHANGED <<mode, done, status, audits, job, out, staged>>
        /\ \A x \in Workers \ {w} : pc'[x] = pc[x]
        /\ pc'[w] = "expunge"
    BY <1>10 DEF List
  <2>2. CASE At(w, "mailbox-delete")
    BY <2>1, <2>2, NotLast
  <2>3. CASE pc[w] = "list"
    BY <2>1, <2>3 DEF PlanInv, Placed, ArchiveOnly
  <2> QED
    BY <1>10, <2>2, <2>3 DEF List
<1>11. ASSUME NEW w \in Workers, Expunge(w) PROVE Plain
  BY <1>11 DEF Expunge
<1>12. ASSUME NEW w \in Workers, RemoveDest(w) PROVE Plain
  BY <1>12 DEF RemoveDest
<1>13. ASSUME NEW q \in Requests, RequestNext(q) PROVE Plain
  BY <1>13 DEF RequestNext, Restore, Recreate, Sync, Clean, Discard, DiscardFiles, DropArchive,
               RequestDies
<1>14. ASSUME NEW t \in TaskIds, QueueNext(t) PROVE Plain
  BY <1>14 DEF QueueNext, Enqueue, Retry, Remove, Reap
<1>15. ASSUME Toggle \/ Expire \/ (\E m \in Incoming : Deliver(m)) \/ UNCHANGED vars PROVE Plain
  BY <1>15 DEF Toggle, Expire, Deliver, vars
<1> QED
  BY <1>1, <1>2, <1>3, <1>4, <1>5, <1>6, <1>7, <1>8, <1>9, <1>10, <1>11, <1>12, <1>13, <1>14,
     <1>15 DEF Next, WorkerNext, Execute, DeleteSteps, StoreSteps, PruneSteps

LEMMA AuditStep ==
  ASSUME TypeOK, TypeOK', JobInv, PlanInv, AuditInv, [Next]_vars
  PROVE  AuditInv'
<1> USE DEF InStep, DeleteOnly
<1>1. CASE Plain
  BY <1>1, PlainKeeps
<1>2. ASSUME NEW w \in Workers, Plan(w) PROVE AuditInv'
  <2>1. job[w] \in TaskIds /\ done[job[w]] = 0 /\ pc[w] = "exec"
    BY <1>2 DEF Plan, Deleting, PlanInv, TypeOK, WorkOK
  <2>2. \A t \in TaskIds \ {job[w]} : mode'[t] = mode[t]
    BY <1>2 DEF Plan, TypeOK, TasksOK
  <2>3. UNCHANGED <<status, done, job, pc, out, staged, audits>>
    BY <1>2 DEF Plan, work, hist
  <2>4. \A x \in Workers : Deleting(x) /\ pc[x] \in InStep => job[x] \in TaskIds \ {job[w]}
    BY <2>1 DEF Deleting, JobInv, TypeOK, WorkOK
  <2>5. Len(Steps(mode'[job[w]])) # 0
    BY PlanEnds
  <2>6. ASSUME NEW t \in TaskIds, Type[t] = "DELETE", mode'[t] # "none", done[t] = Len(Steps(mode'[t]))
        PROVE  audits[t] > 0
    BY <2>1, <2>2, <2>5, <2>6 DEF AuditInv
  <2>7. ASSUME NEW x \in Workers, Deleting(x), pc[x] \in InStep, Last(x)'
        PROVE  pc[x] = "check" /\ "audit" \in staged[x]
    BY <2>2, <2>3, <2>4, <2>7 DEF AuditInv, Last
  <2> QED
    BY <2>3, <2>6, <2>7 DEF AuditInv, DoneIsAudited, Deleting, Kind
<1>3. ASSUME NEW w \in Workers, Checkpoint(w) PROVE AuditInv'
  <2>1. /\ Deleting(w) /\ job[w] \in TaskIds /\ pc[w] = "check"
        /\ Flush(w, staged[w])
    BY <1>3 DEF Checkpoint, PlanInv, Placed, Deleting, TypeOK, WorkOK
  <2>2. /\ UNCHANGED <<status, mode, job, out>> /\ pc'[w] = "exec"
        /\ \A x \in Workers \ {w} : pc'[x] = pc[x] /\ staged'[x] = staged[x]
    BY <1>3 DEF Checkpoint, Flush, Goto, TypeOK, WorkOK
  <2>3. /\ done'[job[w]] = done[job[w]] + 1
        /\ \A t \in TaskIds \ {job[w]} : done'[t] = done[t]
    BY <1>3, <2>1 DEF Checkpoint, TypeOK, TasksOK
  <2>4. \A x \in Workers \ {w} : Deleting(x) => job[x] \in TaskIds \ {job[w]}
    BY <2>1 DEF Deleting, JobInv, TypeOK, WorkOK
  <2>5. Last(w) => audits'[job[w]] > 0
    BY <2>1, FlushAudits DEF AuditInv, Deleting
  <2>6. \A t \in TaskIds : audits[t] > 0 => audits'[t] > 0
    BY <2>1, FlushAudits DEF Deleting, TypeOK, HistOK
  <2>7. ASSUME NEW t \in TaskIds, Type[t] = "DELETE", mode[t] # "none", done'[t] = Len(Steps(mode[t]))
        PROVE  audits'[t] > 0
    BY <2>3, <2>5, <2>6, <2>7 DEF AuditInv, Last
  <2>8. ASSUME NEW x \in Workers, Deleting(x), pc'[x] \in InStep, Last(x)'
        PROVE  pc'[x] = "check" /\ "audit" \in staged'[x]
    BY <2>2, <2>3, <2>4, <2>8 DEF AuditInv, Last
  <2>9. ASSUME NEW x \in Workers, pc'[x] = "publish", out[x] = "DONE", Kind(x) # "PRUNE"
        PROVE  audits'[job[x]] > 0
    BY <2>2, <2>6, <2>9 DEF AuditInv, TypeOK, WorkOK
  <2>10. DoneIsAudited'
    BY <2>2, <2>6 DEF AuditInv, DoneIsAudited
  <2> QED
    BY <2>2, <2>7, <2>8, <2>9, <2>10 DEF AuditInv, Deleting, Kind
<1>4. ASSUME NEW w \in Workers, DeleteDone(w) PROVE AuditInv'
  <2>1. /\ UNCHANGED <<status, mode, done, job, staged, audits>>
        /\ \A x \in Workers \ {w} : pc'[x] = pc[x] /\ out'[x] = out[x]
        /\ pc'[w] = "publish"
    BY <1>4 DEF DeleteDone, Goto, tasks, hist, TypeOK, WorkOK
  <2>2. audits[job[w]] > 0
    BY <1>4 DEF DeleteDone, Deleting, Kind, AuditInv, TypeOK, WorkOK
  <2> QED
    BY <2>1, <2>2 DEF AuditInv, DoneIsAudited, Deleting, Kind, Last
<1>5. ASSUME NEW w \in Workers, StageAudit(w) PROVE AuditInv'
  <2>1. /\ UNCHANGED <<status, mode, done, job, out, audits>>
        /\ \A x \in Workers \ {w} : pc'[x] = pc[x] /\ staged'[x] = staged[x]
        /\ pc'[w] = "check" /\ "audit" \in staged'[w]
    BY <1>5 DEF StageAudit, Goto, tasks, hist, TypeOK, WorkOK
  <2> QED
    BY <2>1 DEF AuditInv, DoneIsAudited, Deleting, Kind, Last
<1>6. ASSUME NEW w \in Workers, Inspect(w) PROVE AuditInv'
  <2>1. /\ UNCHANGED <<status, mode, done, job, staged, audits>>
        /\ \A x \in Workers \ {w} : pc'[x] = pc[x] /\ out'[x] = out[x]
        /\ pc'[w] \in {"rmdest", "publish"} /\ Kind(w) = "PRUNE"
    <3>1. UNCHANGED <<status, mode, done, job, staged, audits>> /\ Kind(w) = "PRUNE"
      BY <1>6 DEF Inspect, tasks, hist
    <3>2. \/ pc' = [pc EXCEPT ![w] = "rmdest"] /\ out' = out
          \/ pc' = [pc EXCEPT ![w] = "publish"] /\ out' = [out EXCEPT ![w] = "DONE"]
      BY <1>6, Zenon DEF Inspect, Goto
    <3> QED
      BY <3>1, <3>2 DEF TypeOK, WorkOK
  <2> QED
    BY <2>1 DEF AuditInv, DoneIsAudited, Deleting, Kind, Last
<1>7. ASSUME NEW w \in Workers, LogAudit(w) PROVE AuditInv'
  <2>1. /\ UNCHANGED <<status, mode, done, job>>
        /\ \A x \in Workers \ {w} : pc'[x] = pc[x] /\ out'[x] = out[x]
        /\ pc'[w] = "publish"
        /\ Flush(w, staged[w] \cup {"audit"}) /\ job[w] # NoTask
    BY <1>7, AtExec DEF LogAudit, Goto, tasks, TypeOK, WorkOK, TaskPCs
  <2>2. /\ audits'[job[w]] > 0
        /\ \A t \in TaskIds : audits[t] > 0 => audits'[t] > 0
        /\ \A x \in Workers \ {w} : staged'[x] = staged[x]
    BY <2>1, FlushAudits DEF TypeOK, HistOK
  <2>3. ASSUME NEW x \in Workers, pc'[x] = "publish", out'[x] = "DONE", Kind(x) # "PRUNE"
        PROVE  audits'[job[x]] > 0
    BY <2>1, <2>2, <2>3 DEF AuditInv, TypeOK, WorkOK
  <2>4. DoneIsAudited'
    BY <2>1, <2>2 DEF AuditInv, DoneIsAudited
  <2>5. ASSUME NEW x \in Workers, Deleting(x), pc'[x] \in InStep, Last(x)
        PROVE  pc'[x] = "check" /\ "audit" \in staged'[x]
    BY <2>1, <2>2, <2>5 DEF AuditInv
  <2>6. ASSUME NEW t \in TaskIds, Type[t] = "DELETE", mode[t] # "none", done[t] = Len(Steps(mode[t]))
        PROVE  audits'[t] > 0
    BY <2>2, <2>6 DEF AuditInv
  <2> QED
    BY <2>1, <2>3, <2>4, <2>5, <2>6 DEF AuditInv, Deleting, Kind, Last
<1>8. ASSUME NEW w \in Workers, Publish(w) PROVE AuditInv'
  <2>1. /\ UNCHANGED <<mode, done>>
        /\ \A x \in Workers \ {w} : pc'[x] = pc[x] /\ out'[x] = out[x] /\ job'[x] = job[x]
        /\ pc'[w] = "next" /\ pc[w] = "publish"
        /\ Flush(w, staged[w]) /\ job[w] # NoTask
    BY <1>8, AtExec DEF Publish, Goto, TypeOK, WorkOK
  <2>2. /\ \A t \in TaskIds : audits[t] > 0 => audits'[t] > 0
        /\ \A x \in Workers \ {w} : staged'[x] = staged[x]
    BY <2>1, FlushAudits DEF TypeOK, HistOK
  <2>3. DoneIsAudited'
    <3>1. job[w] \in TaskIds /\ status' = [status EXCEPT ![job[w]] = out[w]]
      BY <1>8, <2>1 DEF Publish, TypeOK, WorkOK
    <3>2. out[w] = "DONE" /\ Kind(w) # "PRUNE" => audits'[job[w]] > 0
      BY <2>1, <2>2, <3>1 DEF AuditInv
    <3> QED
      BY <2>2, <3>1, <3>2 DEF AuditInv, DoneIsAudited, Kind, TypeOK, TasksOK
  <2>4. ASSUME NEW x \in Workers, Deleting(x)', pc'[x] \in InStep, Last(x)'
        PROVE  pc'[x] = "check" /\ "audit" \in staged'[x]
    BY <2>1, <2>2, <2>4 DEF AuditInv, Deleting, Kind, Last
  <2>5. ASSUME NEW x \in Workers, pc'[x] = "publish", out'[x] = "DONE", Kind(x)' # "PRUNE"
        PROVE  audits'[job'[x]] > 0
    BY <2>1, <2>2, <2>5 DEF AuditInv, Kind, TypeOK, WorkOK
  <2>6. ASSUME NEW t \in TaskIds, Type[t] = "DELETE", mode'[t] # "none", done'[t] = Len(Steps(mode'[t]))
        PROVE  audits'[t] > 0
    BY <2>1, <2>2, <2>6 DEF AuditInv
  <2> QED
    BY <2>3, <2>4, <2>5, <2>6 DEF AuditInv
<1> QED
  BY <1>1, <1>2, <1>3, <1>4, <1>5, <1>6, <1>7, <1>8, PlainSteps

-----------------------------------------------------------------------------
(* Theorems.                                                               *)

LEMMA InitInv ==
  ASSUME Init
  PROVE  IInv
<1> USE DEF Init
<1>1. DiskOK
  BY MessageSets DEF DiskOK
<1>2. RowsOK
  <2>1. CASE dest = {}
    <3>1. arch = NoArchive /\ fresh = {} /\ mailbox \in BOOLEAN
      BY <2>1, Zenon
    <3> HIDE DEF Init
    <3> QED
      BY <3>1 DEF RowsOK, Archives, NoArchive
  <2>2. CASE dest # {}
    <3>1. PICK a \in BOOLEAN :
            arch = [there |-> TRUE, auto |-> a, expired |-> FALSE, snapshot |-> TRUE]
      BY <2>2
    <3>2. arch \in Archives /\ arch.there
      BY <3>1 DEF Archives
    <3> QED
      BY <3>2 DEF RowsOK
  <2> QED
    BY <2>1, <2>2
<1>3. TasksOK /\ WorkOK
  BY DEF TasksOK, WorkOK, WorkPCs, TaskPCs, WebPCs
<1>4. HistOK
  BY <1>1, FaultBounds DEF HistOK, DiskOK
<1>5. JobInv /\ PlanInv /\ RowInv /\ AuditInv
  BY DEF JobInv, PlanInv, Placed, RowInv, AuditInv, DoneIsAudited, Deleting,
         ArchiveOnly, DeleteOnly, InStep
<1> QED
  BY <1>1, <1>2, <1>3, <1>4, <1>5 DEF IInv, TypeOK

LEMMA StepInv ==
  ASSUME IInv, [Next]_vars
  PROVE  IInv'
<1>1. TypeOK'
  BY DiskStep, RowsStep, TasksStep, WorkStep, HistStep DEF IInv, TypeOK
<1> QED
  BY <1>1, JobStep, PlanStep, RowStep, AuditStep DEF IInv

\* The invariant is inductive: types, who executes what, where DELETEs are in
\* their plans, and what is staged for the archive row and the audit.
THEOREM Inductive == Spec => []IInv
BY InitInv, StepInv, PTL DEF Spec

\* Type correctness of an account's tasks: store, backup, rows and checkpoints
\* stay within their domains; a worker at a step of a task has one, and one
\* that publishes has an outcome.
THEOREM TypeCorrect == Spec => []TypeOK
<1>1. IInv => TypeOK
  BY DEF IInv
<1> QED
  BY <1>1, Inductive, PTL

\* However many workers, requests, failures and deaths there are, a DELETE with
\* a backup removes folders or the maildir only when the archive row, by which
\* its backup is found again, is committed, unless somebody dropped that row.
THEOREM RecordedFirst == Spec => []RecordedBeforeEmptied
<1>1. IInv => RecordedBeforeEmptied
  <2> SUFFICES ASSUME IInv, NEW w \in Workers, Deleting(w), pc[w] \in {"expunge", "rmhome"},
                      mode[job[w]] = "backup", job[w] \notin dropped
               PROVE  arch.there
    BY DEF RecordedBeforeEmptied
  <2>1. done[job[w]] >= 2 /\ job[w] \in TaskIds
    BY DEF IInv, PlanInv, Placed, Deleting, TypeOK, WorkOK
  <2> QED
    BY <2>1 DEF IInv, RowInv, Deleting, Kind
<1> QED
  BY <1>1, Inductive, PTL

\* Whatever fails or dies on the way, and however often a task is retried, an
\* ARCHIVE or DELETE that is DONE has its audit row.
THEOREM Audited == Spec => []DoneIsAudited
<1>1. IInv => DoneIsAudited
  BY DEF IInv, AuditInv
<1> QED
  BY <1>1, Inductive, PTL

-----------------------------------------------------------------------------
(* Mail.  What follows is about accounts with one DELETE task at most and  *)
(* no ARCHIVE: with more of them the second mirrors over the backup of the *)
(* first.                                                                  *)

LoneDelete ==
    /\ \A t \in TaskIds : Type[t] # "ARCHIVE"
    /\ \A t, u \in TaskIds : Type[t] = "DELETE" /\ Type[u] = "DELETE" => t = u

\* Only a DELETE copies, records and empties.
PlaceInv ==
    \A w \in Workers :
        /\ pc[w] \notin ArchiveOnly
        /\ pc[w] = "expunge" => Deleting(w)
        /\ pc[w] = "copy" => mode[job[w]] = "backup"

\* Until folders are deleted, what was backed up is in the store as well.
CopyInv ==
    \A t \in TaskIds : Type[t] = "DELETE" =>
        /\ copied[t] # {} => mode[t] = "backup"
        /\ t \notin dropped => copied[t] \subseteq dest
        /\ t \notin dropped /\ done[t] < 2 => copied[t] \subseteq store

\* The steps that make or record a backup are of a plan with a backup.
LEMMA BackupOnly ==
  ASSUME NEW w \in Workers, TypeOK, At(w, "backup") \/ At(w, "archive")
  PROVE  mode[job[w]] = "backup"
<1> SUFFICES ASSUME mode[job[w]] # "backup" PROVE FALSE
  OBVIOUS
<1>1. /\ Steps(mode[job[w]]) = SubSeq(BackupSteps, 3, 6) /\ Len(Steps(mode[job[w]])) = 4
      /\ job[w] \in TaskIds /\ done[job[w]] < 4
  BY PlanLength DEF At, Deleting, Steps, TypeOK, WorkOK
<1>2. done[job[w]] \in 0..3
  BY <1>1 DEF TypeOK, TasksOK
<1>3. \A i \in 3..6 : BackupSteps[i] \in {BackupSteps[j] : j \in 3..6}
  OBVIOUS
<1>4. SubSeq(BackupSteps, 3, 6)[done[job[w]] + 1] = BackupSteps[3 + (done[job[w]] + 1) - 1]
  BY <1>2, <1>3, SubSeqProperties
<1>5. BackupSteps[done[job[w]] + 3] \in {"backup", "archive"}
  BY <1>1, <1>2, <1>4 DEF At
<1> QED
  BY <1>2, <1>5 DEF BackupSteps

LEMMA PlaceStep ==
  ASSUME LoneDelete, TypeOK, JobInv, PlanInv, PlaceInv, [Next]_vars
  PROVE  PlaceInv'
<1> USE DEF ArchiveOnly, InStep, DeleteOnly
<1>1. CASE Quiet
  BY <1>1 DEF Quiet, PlaceInv, Deleting, Kind
<1>2. ASSUME NEW w \in Workers, Plan(w) PROVE PlaceInv'
  <2>1. /\ Deleting(w) /\ mode[job[w]] = "none" /\ UNCHANGED <<job, pc>>
        /\ \A t \in TaskIds \ {job[w]} : mode'[t] = mode[t]
    BY <1>2 DEF Plan, work, TypeOK, TasksOK
  <2>2. ASSUME NEW x \in Workers, pc[x] = "copy" PROVE mode'[job[x]] = mode[job[x]]
    BY <2>1, <2>2, AtExec DEF PlaceInv, TypeOK, WorkOK, TaskPCs
  <2> QED
    BY <2>1, <2>2 DEF PlaceInv, Deleting, Kind
<1>3. ASSUME NEW w \in Workers, Probe(w) PROVE PlaceInv'
  <2>1. mode[job[w]] = "backup"
    BY <1>3, BackupOnly DEF Probe
  <2> QED
    BY <1>3, <2>1 DEF Probe, Abort, Goto, tasks, PlaceInv, Deleting, Kind, TypeOK, WorkOK
<1>4. ASSUME NEW w \in Workers,
             Checkpoint(w) \/ FindHome(w) \/ RemoveHome(w) \/ RemoveRow(w) \/ StageAudit(w)
      PROVE  PlaceInv'
  BY <1>4 DEF Checkpoint, FindHome, RemoveHome, RemoveRow, StageAudit, Abort, Goto, tasks,
              PlaceInv, Deleting, Kind, TypeOK, WorkOK
<1>5. ASSUME NEW w \in Workers, Copy(w) PROVE PlaceInv'
  <2>1. Deleting(w)
    BY <1>5, AtExec DEF Copy, Copying, PlanInv, Placed, LoneDelete, Kind, TypeOK, WorkOK, TaskPCs
  <2> QED
    BY <1>5, <2>1 DEF Copy, Goto, tasks, PlaceInv, Deleting, Kind, TypeOK, WorkOK
<1>6. ASSUME NEW w \in Workers, Record(w) PROVE PlaceInv'
  <2>1. Deleting(w)
    BY <1>6, AtExec DEF Record, PlaceInv
  <2> QED
    BY <1>6, <2>1 DEF Record, Goto, tasks, PlaceInv, Deleting, Kind, TypeOK, WorkOK
<1>7. ASSUME NEW w \in Workers, List(w) PROVE PlaceInv'
  <2>1. Deleting(w)
    BY <1>7, AtExec DEF List, PlaceInv
  <2> QED
    BY <1>7, <2>1 DEF List, Goto, tasks, PlaceInv, Deleting, Kind, TypeOK, WorkOK
<1>8. ASSUME NEW w \in Workers, Expunged(w) PROVE PlaceInv'
  BY <1>8 DEF Expunged, Goto, tasks, PlaceInv, Deleting, Kind, TypeOK, WorkOK
<1> QED
  BY <1>1, <1>2, <1>3, <1>4, <1>5, <1>6, <1>7, <1>8, QuietSteps

\* Checkpoints are not taken back, and a plan that was made stays.
LEMMA Onward ==
  ASSUME TypeOK, [Next]_vars, NEW t \in TaskIds
  PROVE  done'[t] >= done[t] /\ (mode[t] # "none" => mode'[t] = mode[t])
<1>1. CASE UNCHANGED tasks
  BY <1>1 DEF tasks, TypeOK, TasksOK
<1>2. ASSUME NEW w \in Workers, NEW u \in TaskIds, StartSweep(w, u) \/ Claim(w, u)
      PROVE  UNCHANGED <<mode, done>>
  BY <1>2 DEF StartSweep, Claim
<1>3. ASSUME NEW w \in Workers, Publish(w) PROVE UNCHANGED <<mode, done>>
  BY <1>3 DEF Publish
<1>4. ASSUME NEW w \in Workers, Plan(w)
      PROVE  UNCHANGED done /\ (mode[t] # "none" => mode'[t] = mode[t])
  BY <1>4 DEF Plan, TypeOK, TasksOK
<1>5. ASSUME NEW w \in Workers, Checkpoint(w) PROVE UNCHANGED mode /\ done'[t] >= done[t]
  BY <1>5 DEF Checkpoint, TypeOK, TasksOK
<1>6. ASSUME NEW u \in TaskIds, QueueNext(u) PROVE UNCHANGED <<mode, done>>
  BY <1>6 DEF QueueNext, Enqueue, Retry, Remove, Reap
<1>7. UNCHANGED done => done'[t] >= done[t]
  BY DEF TypeOK, TasksOK
<1> QED
  BY <1>1, <1>2, <1>3, <1>4, <1>5, <1>6, <1>7, TasksFrame

\* What may take mail from the store or the backup, or note a copy.
LEMMA Mild ==
  ASSUME TypeOK, [Next]_vars
  PROVE  \/ /\ store \subseteq store' /\ dest \subseteq dest'
            /\ copied' = copied /\ dropped \subseteq dropped'
         \/ \E w \in Workers :
              Copy(w) \/ Expunge(w) \/ RemoveHome(w) \/ RemoveDest(w) \/ Fails(w)
         \/ \E q \in Requests : Clean(q) \/ DiscardFiles(q)
<1> DEFINE Rough ==
       \/ \E w \in Workers :
            Copy(w) \/ Expunge(w) \/ RemoveHome(w) \/ RemoveDest(w) \/ Fails(w)
       \/ \E q \in Requests : Clean(q) \/ DiscardFiles(q)
<1>1. Rough \/ (store \subseteq store' /\ dest \subseteq dest')
  <2>1. ASSUME NEW w \in Workers, Expunged(w) PROVE store' = store /\ dest' = dest
    BY <2>1 DEF Expunged
  <2>2. ASSUME NEW q \in Requests, Sync(q) PROVE store \subseteq store' /\ dest' = dest
    BY <2>2 DEF Sync
  <2>3. ASSUME NEW m \in Incoming, Deliver(m) PROVE store \subseteq store' /\ dest' = dest
    BY <2>3 DEF Deliver
  <2> QED
    BY <2>1, <2>2, <2>3, DiskFrame DEF disk
<1>2. Rough \/ (copied' = copied /\ dropped \subseteq dropped')
  <2> DEFINE Goal == copied' = copied /\ dropped \subseteq dropped'
  <2>1. CASE UNCHANGED <<hist, flt>>
    BY <2>1 DEF hist
  <2>2. ASSUME NEW w \in Workers, Start(w) \/ Leave(w) \/ Dies(w) \/ Conflicts(w) PROVE Goal
    BY <2>2 DEF Start, Leave, Dies, Conflicts
  <2>3. ASSUME NEW w \in Workers, NEW t \in TaskIds, StartSweep(w, t) PROVE Goal
    BY <2>3 DEF StartSweep
  <2>4. ASSUME NEW w \in Workers, Publish(w) \/ Checkpoint(w) \/ LogAudit(w) PROVE Goal
    <3>1. PICK S : Flush(w, S)
      BY <2>4 DEF Publish, Checkpoint, LogAudit
    <3>2. dropped \subseteq dropped'
      BY <3>1, FlushCases DEF Drop
    <3> QED
      BY <2>4, <3>2 DEF Publish, Checkpoint, LogAudit
  <2>5. ASSUME NEW q \in Requests, Sync(q) \/ DropArchive(q) \/ RequestDies(q) PROVE Goal
    BY <2>5 DEF Sync, DropArchive, RequestDies, Drop, hist
  <2>6. ASSUME (\E m \in Incoming : Deliver(m)) \/ Toggle PROVE Goal
    BY <2>6 DEF Deliver, Toggle
  <2> QED
    BY <2>1, <2>2, <2>3, <2>4, <2>5, <2>6, HistFrame
<1> QED
  BY <1>1, <1>2

\* Only a checkpoint counts a step.
LEMMA DoneFrame ==
  ASSUME [Next]_vars
  PROVE  UNCHANGED done \/ \E w \in Workers : Checkpoint(w)
<1>1. CASE UNCHANGED tasks
  BY <1>1 DEF tasks
<1>2. ASSUME NEW w \in Workers, NEW t \in TaskIds, StartSweep(w, t) \/ Claim(w, t) PROVE UNCHANGED done
  BY <1>2 DEF StartSweep, Claim
<1>3. ASSUME NEW w \in Workers, Publish(w) \/ Plan(w) PROVE UNCHANGED done
  BY <1>3 DEF Publish, Plan
<1>4. ASSUME NEW t \in TaskIds, QueueNext(t) PROVE UNCHANGED done
  BY <1>4 DEF QueueNext, Enqueue, Retry, Remove, Reap
<1> QED
  BY <1>1, <1>2, <1>3, <1>4, TasksFrame

\* Who empties the store is past the backup.
LEMMA EmptiesLate ==
  ASSUME TypeOK, PlanInv, PlaceInv, NEW w \in Workers, Expunge(w) \/ RemoveHome(w)
  PROVE  /\ Deleting(w) /\ job[w] \in TaskIds
         /\ mode[job[w]] = "backup" => done[job[w]] >= 2
         /\ UNCHANGED <<dest, mode, done, copied, dropped, job>>
<1>1. Deleting(w) /\ pc[w] \in {"expunge", "rmhome"}
  BY DEF Expunge, RemoveHome, PlaceInv, PlanInv, Placed, DeleteOnly
<1> QED
  BY <1>1 DEF Expunge, RemoveHome, PlanInv, Placed, Deleting, TypeOK, WorkOK, tasks

\* Who copies is a DELETE that has not checkpointed its backup.
LEMMA CopiesEarly ==
  ASSUME LoneDelete, TypeOK, PlanInv, PlaceInv, NEW w \in Workers, Copying(w), pc[w] \in TaskPCs
  PROVE  /\ Deleting(w) /\ job[w] \in TaskIds
         /\ mode[job[w]] = "backup" /\ done[job[w]] = 0 /\ pc[w] = "copy"
<1>1. job[w] \in TaskIds
  BY AtExec DEF TypeOK, WorkOK
<1>2. pc[w] = "copy"
  BY <1>1 DEF Copying, Kind, LoneDelete
<1> QED
  BY <1>1, <1>2 DEF PlanInv, Placed, DeleteOnly, PlaceInv

LEMMA CopyStep ==
  ASSUME LoneDelete, TypeOK, JobInv, PlanInv, PlaceInv, CopyInv, [Next]_vars
  PROVE  CopyInv'
<1> SUFFICES ASSUME NEW t \in TaskIds, Type[t] = "DELETE"
             PROVE  /\ copied'[t] # {} => mode'[t] = "backup"
                    /\ t \notin dropped' => copied'[t] \subseteq dest'
                    /\ t \notin dropped' /\ done'[t] < 2 => copied'[t] \subseteq store'
  BY DEF CopyInv
<1> DEFINE Goal == /\ copied'[t] # {} => mode'[t] = "backup"
                   /\ t \notin dropped' => copied'[t] \subseteq dest'
                   /\ t \notin dropped' /\ done'[t] < 2 => copied'[t] \subseteq store'
<1>1. /\ done'[t] >= done[t] /\ done[t] \in Nat
      /\ mode[t] # "none" => mode'[t] = mode[t]
      /\ copied[t] # {} => mode[t] = "backup"
      /\ t \notin dropped => copied[t] \subseteq dest
      /\ t \notin dropped /\ done[t] < 2 => copied[t] \subseteq store
  BY Onward DEF CopyInv, TypeOK, TasksOK
<1>2. TypeOK'
  BY DiskStep, RowsStep, TasksStep, WorkStep, HistStep DEF TypeOK
<1>3. done'[t] \in Nat
  BY <1>2 DEF TypeOK, TasksOK
<1>4. CASE /\ store \subseteq store' /\ dest \subseteq dest'
           /\ copied' = copied /\ dropped \subseteq dropped'
  BY <1>1, <1>3, <1>4
<1>5. ASSUME NEW w \in Workers, Copy(w) PROVE Goal
  <2>1. Deleting(w) /\ mode[job[w]] = "backup" /\ done[job[w]] = 0 /\ job[w] = t
    BY <1>5, CopiesEarly, AtExec DEF Copy, Copying, TaskPCs, LoneDelete, Deleting, Kind
  <2>2. copied'[t] = store \cup (IF t \in dropped THEN {} ELSE copied[t]) /\ dest' = store
    BY <1>5, <2>1 DEF Copy, TypeOK, HistOK
  <2> QED
    BY <1>1, <1>5, <2>1, <2>2 DEF Copy
<1>6. ASSUME NEW w \in Workers, Expunge(w) \/ RemoveHome(w) PROVE Goal
  <2>1. /\ job[w] = t
        /\ mode[t] = "backup" => done[t] >= 2
        /\ UNCHANGED <<dest, mode, done, copied, dropped>>
    BY <1>6, EmptiesLate DEF LoneDelete, Deleting, Kind
  <2> QED
    BY <1>1, <2>1
<1>7. ASSUME NEW w \in Workers, RemoveDest(w) PROVE Goal
  BY <1>1, <1>7 DEF RemoveDest, Drop, tasks
<1>8. ASSUME NEW w \in Workers, Fails(w) PROVE Goal
  <2>1. UNCHANGED <<store, mode, done, copied>>
    BY <1>8 DEF Fails, tasks
  <2>2. CASE Copying(w) /\ mailbox
    <3>1. job[w] = t /\ done[t] = 0
      BY <1>8, <2>2, CopiesEarly DEF Fails, LoneDelete, Deleting, Kind
    <3>2. PICK X \in SUBSET (dest \ store), Y \in SUBSET store : dest' = (dest \ X) \cup Y
      BY <1>8, <2>2 DEF Fails
    <3>3. dropped' = dropped
      BY <1>8, <2>2 DEF Fails, Copying
    <3> QED
      BY <1>1, <2>1, <3>1, <3>2, <3>3
  <2>3. CASE pc[w] = "rmdest"
    BY <1>1, <1>8, <2>1, <2>3 DEF Fails, Drop
  <2>4. CASE ~(Copying(w) /\ mailbox) /\ pc[w] # "rmdest"
    BY <1>1, <1>8, <2>1, <2>4 DEF Fails
  <2> QED
    BY <2>2, <2>3, <2>4
<1>9. ASSUME NEW q \in Requests, Clean(q) \/ DiscardFiles(q) PROVE Goal
  BY <1>1, <1>9 DEF Clean, DiscardFiles, Drop, tasks
<1> QED
  BY <1>4, <1>5, <1>6, <1>7, <1>8, <1>9, Mild

-----------------------------------------------------------------------------
(* The snapshot.                                                           *)

\* t may have removed the mailbox row, or is about to.
Begun(t) == mode[t] = "instant" \/ done[t] >= 4

\* Every archive row has a snapshot: it is recorded while the mailbox row is there.
SnapInv ==
    /\ arch.there => arch.snapshot
    /\ \A w \in Workers :
         /\ "archive" \in staged[w] => "snapshot" \in staged[w]
         /\ "insert" \in staged[w] => "archive" \in staged[w]
         /\ "row" \in staged[w] => \A t \in TaskIds : Type[t] = "DELETE" => Begun(t)
    /\ \A t \in TaskIds :
         Type[t] = "DELETE" /\ ~mailbox => status[t] = "new" \/ Begun(t)

LEMMA BegunStays ==
  ASSUME TypeOK, PlanInv, [Next]_vars, NEW t \in TaskIds, Begun(t)
  PROVE  Begun(t)'
<1>1. mode[t] # "none"
  BY DEF Begun, PlanInv, TypeOK, TasksOK
<1>2. TypeOK'
  BY DiskStep, RowsStep, TasksStep, WorkStep, HistStep DEF TypeOK
<1> QED
  BY <1>1, <1>2, Onward DEF Begun, TypeOK, TasksOK

LEMMA FlushSnaps ==
  ASSUME TypeOK, SnapInv, NEW w \in Workers, NEW S, Flush(w, S),
         S = staged[w] \/ S = staged[w] \cup {"audit"}
  PROVE  /\ arch'.there => arch'.snapshot
         /\ staged' = [staged EXCEPT ![w] = {}]
         /\ mailbox /\ ~mailbox' => "row" \in staged[w]
<1>1. staged' = [staged EXCEPT ![w] = {}] /\ (mailbox /\ ~mailbox' => "row" \in staged[w])
  BY DEF Flush
<1>2. \/ ("insert" \in staged[w] \/ "archive" \in staged[w]) /\ arch' = Written(w)
      \/ arch' = NoArchive \/ arch' = arch
  BY DEF Flush
<1>3. PICK auto : Written(w) = [there |-> TRUE, expired |-> FALSE,
                               snapshot |-> "snapshot" \in staged[w], auto |-> auto]
  BY Zenon DEF Written
<1>4. CASE arch' = Written(w) /\ ("insert" \in staged[w] \/ "archive" \in staged[w])
  <2>1. "snapshot" \in staged[w]
    BY <1>4 DEF SnapInv
  <2>2. arch'.snapshot = ("snapshot" \in staged[w])
    BY <1>3, <1>4
  <2>3. arch'.snapshot
    BY <2>1, <2>2, Zenon
  <2> QED
    BY <1>1, <2>3, Zenon
<1>5. CASE arch' = NoArchive \/ arch' = arch
  BY <1>1, <1>5 DEF SnapInv, NoArchive
<1> QED
  BY <1>2, <1>4, <1>5

\* What x has staged is kept, or dropped altogether.
StagedOn(x) ==
    \/ staged'[x] = {}
    \/ staged[x] \subseteq staged'[x] /\ staged'[x] \subseteq staged[x] \cup {"prune", "audit"}

\* The archive row gets no other snapshot.
SnapKept ==
    arch' = NoArchive \/ (arch'.snapshot = arch.snapshot /\ arch'.there = arch.there)

\* Steps that touch neither the archive row nor what is staged for it.
LEMMA SnapFrame ==
  ASSUME TypeOK, [Next]_vars
  PROVE  \/ /\ SnapKept
            /\ mailbox => mailbox'
            /\ \A x \in Workers : StagedOn(x)
         \/ \E w \in Workers : Publish(w) \/ Checkpoint(w) \/ LogAudit(w) \/ Record(w) \/ RemoveRow(w)
<1> DEFINE Goal ==
       /\ SnapKept
       /\ mailbox => mailbox'
       /\ \A x \in Workers : StagedOn(x)
<1> USE DEF TypeOK, WorkOK, rows, work, StagedOn, SnapKept
<1>1. ASSUME NEW w \in Workers, Start(w) \/ Fails(w) \/ UnknownUser(w) PROVE Goal
  BY <1>1 DEF Start, Fails, UnknownUser
<1>2. ASSUME NEW w \in Workers, NEW t \in TaskIds, StartSweep(w, t) \/ Claim(w, t) PROVE Goal
  BY <1>2 DEF StartSweep, Claim
<1>3. ASSUME NEW w \in Workers, Leave(w) \/ Dies(w) \/ Conflicts(w) PROVE Goal
  BY <1>3 DEF Leave, Dies, Conflicts, End
<1>4. ASSUME NEW w \in Workers, DeleteSteps(w), ~Checkpoint(w), ~RemoveRow(w) PROVE Goal
  BY <1>4 DEF DeleteSteps, Plan, Probe, DeleteDone, FindHome, RemoveHome, StageAudit
<1>5. ASSUME NEW w \in Workers, StoreSteps(w), ~Record(w) PROVE Goal
  <2>1. UNCHANGED <<arch, mailbox, staged>>
    BY <1>5 DEF StoreSteps, Copy, List, Expunge, Expunged
  <2> QED
    BY <2>1
<1>6. ASSUME NEW w \in Workers, PruneSteps(w) PROVE Goal
  BY <1>6 DEF PruneSteps, Inspect, RemoveDest
<1>7. ASSUME NEW q \in Requests, RequestNext(q) PROVE Goal
  BY <1>7 DEF RequestNext, Restore, Recreate, Sync, Clean, Discard, DiscardFiles, DropArchive, RequestDies
<1>8. ASSUME NEW t \in TaskIds, QueueNext(t) PROVE Goal
  BY <1>8 DEF QueueNext, Enqueue, Retry, Remove, Reap
<1>9. ASSUME Toggle \/ Expire PROVE Goal
  BY <1>9 DEF Toggle, Expire, RowsOK, Archives
<1>10. ASSUME (\E m \in Incoming : Deliver(m)) \/ UNCHANGED vars PROVE Goal
  BY <1>10 DEF Deliver, vars
<1> QED
  BY <1>1, <1>2, <1>3, <1>4, <1>5, <1>6, <1>7, <1>8, <1>9, <1>10
     DEF Next, WorkerNext, Drain, Execute

LEMMA SnapStep ==
  ASSUME LoneDelete, TypeOK, JobInv, PlanInv, PlaceInv, SnapInv, [Next]_vars
  PROVE  SnapInv'
<1>1. \A t \in TaskIds : Begun(t) => Begun(t)'
  BY BegunStays
<1>2. ASSUME NEW t \in TaskIds, Type[t] = "DELETE", ~mailbox, ~mailbox'
      PROVE  status'[t] = "new" \/ Begun(t)'
  <2>1. CASE Begun(t)
    BY <1>1, <2>1
  <2>2. CASE status[t] = "new" /\ status'[t] # "new"
    <3>1. CASE UNCHANGED <<job, status>>
      BY <2>2, <3>1
    <3>2. ASSUME NEW w \in Workers, NEW u \in TaskIds, StartSweep(w, u) \/ Claim(w, u) PROVE FALSE
      BY <1>2, <2>2, <3>2 DEF StartSweep, Claim, TypeOK, TasksOK
    <3>3. ASSUME NEW w \in Workers, Publish(w) PROVE FALSE
      <4>1. job[w] \in TaskIds /\ status[job[w]] = "RUNNING" /\ status' = [status EXCEPT ![job[w]] = out[w]]
        BY <3>3, AtExec DEF Publish, JobInv, TypeOK, WorkOK
      <4> QED
        BY <2>2, <4>1 DEF TypeOK, TasksOK
    <3>4. ASSUME NEW u \in TaskIds, QueueNext(u) PROVE FALSE
      BY <1>2, <2>2, <3>4 DEF QueueNext, Enqueue, Retry, Remove, Reap, TypeOK, TasksOK
    <3>5. CASE UNCHANGED status
      BY <2>2, <3>5
    <3> QED
      BY <3>1, <3>2, <3>3, <3>4, <3>5, JobFrame
  <2> QED
    BY <1>2, <2>1, <2>2 DEF SnapInv
<1>3. CASE /\ SnapKept
           /\ mailbox => mailbox'
           /\ \A x \in Workers : StagedOn(x)
  <2>1. arch'.there => arch'.snapshot
    <3>1. CASE arch' = NoArchive
      BY <3>1 DEF NoArchive
    <3>2. CASE arch'.snapshot = arch.snapshot /\ arch'.there = arch.there
      BY <3>2, Zenon DEF SnapInv
    <3> QED
      BY <1>3, <3>1, <3>2 DEF SnapKept
  <2>2. ASSUME NEW x \in Workers
        PROVE  /\ "archive" \in staged'[x] => "snapshot" \in staged'[x]
               /\ "insert" \in staged'[x] => "archive" \in staged'[x]
               /\ "row" \in staged'[x] => \A t \in TaskIds : Type[t] = "DELETE" => Begun(t)'
    BY <1>1, <1>3 DEF SnapInv, StagedOn
  <2> QED
    BY <1>2, <1>3, <2>1, <2>2 DEF SnapInv
<1>4. ASSUME NEW w \in Workers, Publish(w) \/ Checkpoint(w) \/ LogAudit(w) PROVE SnapInv'
  <2>1. PICK S : Flush(w, S) /\ (S = staged[w] \/ S = staged[w] \cup {"audit"})
    BY <1>4 DEF Publish, Checkpoint, LogAudit
  <2>2. /\ arch'.there => arch'.snapshot
        /\ staged' = [staged EXCEPT ![w] = {}]
        /\ mailbox /\ ~mailbox' => "row" \in staged[w]
    BY <2>1, FlushSnaps
  <2>3. ASSUME NEW x \in Workers
        PROVE  /\ "archive" \in staged'[x] => "snapshot" \in staged'[x]
               /\ "insert" \in staged'[x] => "archive" \in staged'[x]
               /\ "row" \in staged'[x] => \A t \in TaskIds : Type[t] = "DELETE" => Begun(t)'
    BY <1>1, <2>2 DEF SnapInv, TypeOK, WorkOK
  <2>4. ASSUME NEW t \in TaskIds, Type[t] = "DELETE", ~mailbox'
        PROVE  status'[t] = "new" \/ Begun(t)'
    BY <1>1, <1>2, <2>2, <2>4 DEF SnapInv
  <2> QED
    BY <2>2, <2>3, <2>4 DEF SnapInv
<1>5. ASSUME NEW w \in Workers, Record(w) PROVE SnapInv'
  <2>1. At(w, "archive") /\ mode[job[w]] = "backup"
    BY <1>5, BackupOnly DEF Record, PlaceInv, ArchiveOnly
  <2>2. job[w] \in TaskIds /\ Type[job[w]] = "DELETE" /\ done[job[w]] = 1 /\ status[job[w]] = "RUNNING"
    BY <2>1, BackupOrder, AtExec DEF JobInv, Deleting, Kind, TypeOK, WorkOK
  <2>3. mailbox
    BY <2>1, <2>2 DEF SnapInv, Begun
  <2>4. /\ UNCHANGED <<arch, mailbox, mode, done, status>>
        /\ staged' = [staged EXCEPT ![w] = @ \cup {"archive"}
                        \cup (IF arch.there THEN {} ELSE {"insert"}) \cup {"snapshot"}]
    BY <1>5, <2>3 DEF Record, tasks
  <2> QED
    BY <2>4 DEF SnapInv, Begun, TypeOK, WorkOK
<1>6. ASSUME NEW w \in Workers, RemoveRow(w) PROVE SnapInv'
  <2>1. Begun(job[w]) /\ job[w] \in TaskIds /\ Type[job[w]] = "DELETE"
    <3>1. mode[job[w]] \in {"backup", "instant"}
      BY <1>6 DEF RemoveRow, At, Deleting, TypeOK, WorkOK, TasksOK
    <3> QED
      BY <1>6, <3>1, BackupOrder, AtExec DEF RemoveRow, Begun, Deleting, Kind, TypeOK, WorkOK
  <2>2. /\ UNCHANGED <<arch, mailbox, mode, done, status>>
        /\ staged' = [staged EXCEPT ![w] = @ \cup (IF mailbox THEN {"row"} ELSE {})]
    BY <1>6 DEF RemoveRow, rows, tasks
  <2>3. \A t \in TaskIds : Type[t] = "DELETE" => Begun(t)'
    BY <2>1, <2>2 DEF LoneDelete, Begun
  <2> QED
    BY <2>2, <2>3 DEF SnapInv, Begun, TypeOK, WorkOK
<1> QED
  BY <1>3, <1>4, <1>5, <1>6, SnapFrame

-----------------------------------------------------------------------------
(* Every message.                                                          *)

\* Nobody restores, discards or delivers while an account is deleted.
Undisturbed ==
    \/ \A t \in TaskIds : Type[t] # "DELETE"
    \/ Incoming = {} /\ Archived = {} /\ Requests = {}

\* Who copies a restored backup away has its mail in the store.
CleanInv == \A q \in Requests : rpc[q] = "clean" => dest \subseteq store

InBackup == sent \subseteq dest \cup discarded

\* A DELETE finds all mail in the store until it has its backup; from then on
\* all of it is in the backup.
StageInv ==
    /\ \A t \in TaskIds : Type[t] = "DELETE" =>
         /\ mode[t] # "instant" /\ done[t] < 2 => sent \subseteq store
         /\ mode[t] = "backup" /\ done[t] >= 1 => InBackup
    /\ \A w \in Workers :
         pc[w] = "check" /\ mode[job[w]] = "backup" /\ done[job[w]] = 0 => InBackup

KeptInv ==
    /\ MailKept
    /\ (\A t \in TaskIds : Type[t] # "DELETE") => CleanInv
    /\ (\E t \in TaskIds : Type[t] = "DELETE") => StageInv

\* What may take mail away, or bring it.
LEMMA MailFrame ==
  ASSUME TypeOK, [Next]_vars
  PROVE  \/ /\ store \subseteq store' /\ dest \subseteq dest'
            /\ sent' = sent /\ discarded \subseteq discarded'
         \/ \E w \in Workers :
              Copy(w) \/ Expunge(w) \/ RemoveHome(w) \/ RemoveDest(w) \/ Fails(w)
         \/ \E q \in Requests : Clean(q) \/ DiscardFiles(q)
         \/ \E m \in Incoming : Deliver(m)
<1> DEFINE Goal == sent' = sent /\ discarded \subseteq discarded'
<1>1. ASSUME UNCHANGED <<hist, flt>> PROVE Goal
  BY <1>1 DEF hist
<1>2. ASSUME NEW w \in Workers, Start(w) \/ Leave(w) \/ Dies(w) \/ Conflicts(w) PROVE Goal
  BY <1>2 DEF Start, Leave, Dies, Conflicts
<1>3. ASSUME NEW w \in Workers, NEW t \in TaskIds, StartSweep(w, t) PROVE Goal
  BY <1>3 DEF StartSweep
<1>4. ASSUME NEW w \in Workers, Publish(w) \/ Checkpoint(w) \/ LogAudit(w) PROVE Goal
  BY <1>4 DEF Publish, Checkpoint, LogAudit
<1>5. ASSUME NEW q \in Requests, Sync(q) \/ DropArchive(q) \/ RequestDies(q) PROVE Goal
  BY <1>5 DEF Sync, DropArchive, RequestDies, hist
<1>6. ASSUME Toggle PROVE Goal
  BY <1>6 DEF Toggle
<1> QED
  BY <1>1, <1>2, <1>3, <1>4, <1>5, <1>6, HistFrame, Mild

\* A worker is not at the archive pages.
LEMMA RpcKept ==
  ASSUME NEW w \in Workers, WorkerNext(w)
  PROVE  UNCHANGED rpc
<1>1. CASE Drain(w) \/ Leave(w) \/ Fails(w) \/ Dies(w) \/ Conflicts(w) \/ UnknownUser(w)
  BY <1>1 DEF Drain, Start, StartSweep, Claim, Leave, Fails, Dies, Conflicts, UnknownUser
<1>2. CASE DeleteSteps(w)
  BY <1>2 DEF DeleteSteps, Plan, Probe, Checkpoint, DeleteDone, FindHome, RemoveHome, RemoveRow,
              StageAudit
<1>3. CASE StoreSteps(w) \/ PruneSteps(w) \/ LogAudit(w) \/ Publish(w)
  BY <1>3 DEF StoreSteps, PruneSteps, Copy, Record, List, Expunge, Expunged, Inspect, RemoveDest,
              LogAudit, Publish
<1> QED
  BY <1>1, <1>2, <1>3 DEF WorkerNext, Execute

\* An account that no task deletes.
LEMMA KeptOpen ==
  ASSUME LoneDelete, \A t \in TaskIds : Type[t] # "DELETE",
         TypeOK, PlanInv, PlaceInv, MailKept, CleanInv, [Next]_vars
  PROVE  MailKept' /\ CleanInv'
<1>1. ASSUME NEW w \in Workers, Copying(w), pc[w] \in TaskPCs PROVE FALSE
  BY <1>1, CopiesEarly DEF Deleting, Kind
<1>2. ASSUME NEW w \in Workers, Expunge(w) \/ RemoveHome(w) PROVE FALSE
  BY <1>2, EmptiesLate DEF Deleting, Kind
<1>3. ASSUME NEW w \in Workers, Copy(w) PROVE FALSE
  BY <1>1, <1>3, AtExec DEF Copy, TaskPCs
<1>4. ASSUME NEW w \in Workers, Fails(w)
      PROVE  /\ dest' \subseteq dest /\ UNCHANGED <<store, sent, rpc>>
             /\ discarded \subseteq discarded' /\ dest \ dest' \subseteq discarded'
  BY <1>1, <1>4 DEF Fails
<1>5. MailKept'
  <2>1. ASSUME NEW w \in Workers, RemoveDest(w) PROVE MailKept'
    BY <2>1 DEF RemoveDest, MailKept
  <2>2. ASSUME NEW w \in Workers, Fails(w) PROVE MailKept'
    BY <1>4, <2>2 DEF MailKept
  <2>3. ASSUME NEW q \in Requests, Clean(q) PROVE MailKept'
    BY <2>3 DEF Clean, MailKept, CleanInv
  <2>4. ASSUME NEW q \in Requests, DiscardFiles(q) PROVE MailKept'
    BY <2>4 DEF DiscardFiles, MailKept
  <2>5. ASSUME NEW m \in Incoming, Deliver(m) PROVE MailKept'
    BY <2>5 DEF Deliver, MailKept
  <2>6. CASE /\ store \subseteq store' /\ dest \subseteq dest'
             /\ sent' = sent /\ discarded \subseteq discarded'
    BY <2>6 DEF MailKept
  <2> QED
    BY <1>2, <1>3, <2>1, <2>2, <2>3, <2>4, <2>5, <2>6, MailFrame
<1>6. dest' \subseteq dest /\ store \subseteq store'
  <2>1. ASSUME NEW w \in Workers, RemoveDest(w) \/ Expunged(w) PROVE dest' \subseteq dest /\ store' = store
    BY <2>1 DEF RemoveDest, Expunged
  <2>2. ASSUME NEW q \in Requests, Sync(q) \/ Clean(q) \/ DiscardFiles(q)
        PROVE  dest' \subseteq dest /\ store \subseteq store'
    BY <2>2 DEF Sync, Clean, DiscardFiles
  <2>3. ASSUME NEW m \in Incoming, Deliver(m) PROVE dest' \subseteq dest /\ store \subseteq store'
    BY <2>3 DEF Deliver
  <2> QED
    BY <1>2, <1>3, <1>4, <2>1, <2>2, <2>3, DiskFrame DEF disk
<1>7. ASSUME NEW q \in Requests, rpc'[q] = "clean" PROVE rpc[q] = "clean" \/ dest' \subseteq store'
  <2>1. CASE UNCHANGED rpc
    BY <1>7, <2>1
  <2>2. ASSUME NEW p \in Requests, RequestNext(p) PROVE rpc[q] = "clean" \/ dest' \subseteq store'
    <3>1. CASE Sync(p)
      BY <1>7, <3>1 DEF Sync, WebGoto, TypeOK, WorkOK
    <3>2. CASE ~Sync(p)
      BY <1>7, <2>2, <3>2
         DEF RequestNext, Restore, Recreate, Clean, Discard, DiscardFiles, DropArchive, RequestDies,
             WebGoto, TypeOK, WorkOK
    <3> QED
      BY <3>1, <3>2
  <2>3. ASSUME NEW w \in Workers, WorkerNext(w) PROVE UNCHANGED rpc
    BY <2>3, RpcKept
  <2> QED
    BY <2>1, <2>2, <2>3, WorkFrame
<1> QED
  BY <1>5, <1>6, <1>7 DEF CleanInv

\* Once all mail is in the backup it stays there.
LEMMA InBackupStays ==
  ASSUME LoneDelete, Requests = {}, Incoming = {},
         TypeOK, PlanInv, PlaceInv, StageInv, \E t \in TaskIds : Type[t] = "DELETE", [Next]_vars
  PROVE  InBackup => InBackup'
<1> SUFFICES ASSUME InBackup PROVE InBackup'
  OBVIOUS
<1>1. ASSUME NEW w \in Workers, Copying(w), pc[w] \in TaskPCs PROVE sent \subseteq store
  BY <1>1, CopiesEarly DEF StageInv, Deleting, Kind
<1>2. ASSUME NEW w \in Workers, Copy(w) PROVE InBackup'
  BY <1>1, <1>2, AtExec DEF Copy, InBackup, TaskPCs
<1>3. ASSUME NEW w \in Workers, Expunge(w) \/ RemoveHome(w) \/ RemoveDest(w) PROVE InBackup'
  BY <1>3 DEF Expunge, RemoveHome, RemoveDest, InBackup
<1>4. ASSUME NEW w \in Workers, Fails(w) PROVE InBackup'
  <2>1. UNCHANGED <<store, sent>>
    BY <1>4 DEF Fails
  <2>2. CASE Copying(w) /\ mailbox
    <3>1. sent \subseteq store
      BY <1>1, <1>4, <2>2 DEF Fails
    <3>2. PICK X \in SUBSET (dest \ store), Y \in SUBSET store : dest' = (dest \ X) \cup Y
      BY <1>4, <2>2 DEF Fails
    <3>3. discarded' = discarded
      BY <1>4, <2>2 DEF Fails, Copying
    <3> QED
      BY <2>1, <3>1, <3>2, <3>3 DEF InBackup
  <2>3. CASE ~(Copying(w) /\ mailbox)
    BY <1>4, <2>1, <2>3 DEF Fails, InBackup
  <2> QED
    BY <2>2, <2>3
<1>5. CASE /\ store \subseteq store' /\ dest \subseteq dest'
           /\ sent' = sent /\ discarded \subseteq discarded'
  BY <1>5 DEF InBackup
<1> QED
  BY <1>2, <1>3, <1>4, <1>5, MailFrame

\* The account of a DELETE, while nobody restores, discards or delivers.
LEMMA KeptAlone ==
  ASSUME LoneDelete, Requests = {}, Incoming = {}, \E t \in TaskIds : Type[t] = "DELETE",
         TypeOK, JobInv, PlanInv, PlaceInv, MailKept, StageInv, [Next]_vars
  PROVE  MailKept' /\ StageInv'
<1>1. InBackup => InBackup'
  BY InBackupStays
<1>2. TypeOK'
  BY DiskStep, RowsStep, TasksStep, WorkStep, HistStep DEF TypeOK
<1>3. ASSUME NEW w \in Workers, Copying(w), pc[w] \in TaskPCs
      PROVE  Deleting(w) /\ mode[job[w]] = "backup" /\ done[job[w]] = 0 /\ sent \subseteq store
  BY <1>3, CopiesEarly DEF StageInv, Deleting, Kind
<1>4. ASSUME NEW w \in Workers, Copy(w)
      PROVE  /\ UNCHANGED <<store, sent, discarded, mode, done, job>>
             /\ sent \subseteq store /\ InBackup'
  <2>1. sent \subseteq store
    BY <1>3, <1>4, AtExec DEF Copy, TaskPCs
  <2> QED
    BY <1>4, <2>1 DEF Copy, InBackup, tasks
<1>5. ASSUME NEW w \in Workers, Expunge(w) \/ RemoveHome(w)
      PROVE  /\ Deleting(w) /\ job[w] \in TaskIds
             /\ UNCHANGED <<mode, done, job, dest, sent>>
             /\ mode[job[w]] = "instant" \/ (mode[job[w]] = "backup" /\ done[job[w]] >= 2)
             /\ discarded \subseteq discarded'
  <2>1. Deleting(w) /\ job[w] \in TaskIds /\ (mode[job[w]] = "backup" => done[job[w]] >= 2)
    BY <1>5, EmptiesLate
  <2>2. mode[job[w]] \in {"backup", "instant"}
    BY <1>5, <2>1 DEF Expunge, RemoveHome, PlanInv, Placed, InStep, DeleteOnly, TypeOK, TasksOK
  <2> QED
    BY <1>5, <2>1, <2>2 DEF Expunge, RemoveHome, tasks
<1>6. MailKept'
  <2>1. ASSUME NEW w \in Workers, Copy(w) PROVE MailKept'
    BY <1>4, <2>1 DEF MailKept
  <2>2. ASSUME NEW w \in Workers, Expunge(w) \/ RemoveHome(w) PROVE MailKept'
    <3>1. CASE mode[job[w]] = "instant"
      BY <1>5, <2>2, <3>1 DEF Expunge, RemoveHome, Requested, MailKept
    <3>2. CASE mode[job[w]] = "backup" /\ done[job[w]] >= 2
      <4>1. InBackup'
        BY <1>1, <1>5, <2>2, <3>2 DEF StageInv, Deleting, Kind, TypeOK, TasksOK
      <4> QED
        BY <4>1 DEF InBackup, MailKept
    <3> QED
      BY <1>5, <2>2, <3>1, <3>2
  <2>3. ASSUME NEW w \in Workers, RemoveDest(w) PROVE MailKept'
    BY <2>3 DEF RemoveDest, MailKept
  <2>4. ASSUME NEW w \in Workers, Fails(w) PROVE MailKept'
    <3>1. CASE Copying(w) /\ mailbox
      <4>1. sent \subseteq store /\ UNCHANGED <<store, sent>>
        BY <1>3, <2>4, <3>1 DEF Fails
      <4> QED
        BY <4>1 DEF MailKept
    <3>2. CASE ~(Copying(w) /\ mailbox)
      BY <2>4, <3>2 DEF Fails, MailKept
    <3> QED
      BY <3>1, <3>2
  <2>5. CASE /\ store \subseteq store' /\ dest \subseteq dest'
             /\ sent' = sent /\ discarded \subseteq discarded'
    BY <2>5 DEF MailKept
  <2> QED
    BY <2>1, <2>2, <2>3, <2>4, <2>5, MailFrame
<1>7. ASSUME NEW t \in TaskIds, Type[t] = "DELETE", mode'[t] # "instant", done'[t] < 2
      PROVE  sent' \subseteq store'
  <2>1. mode[t] # "instant" /\ done[t] < 2
    BY <1>2, <1>7, Onward DEF TypeOK, TasksOK
  <2>2. sent \subseteq store
    BY <1>7, <2>1 DEF StageInv
  <2>3. ASSUME NEW w \in Workers, Expunge(w) \/ RemoveHome(w) PROVE FALSE
    <3>1. job[w] = t
      BY <1>5, <1>7, <2>3 DEF LoneDelete, Deleting, Kind
    <3> QED
      BY <1>5, <2>1, <2>3, <3>1 DEF TypeOK, TasksOK
  <2>4. ASSUME NEW w \in Workers, Copy(w) \/ RemoveDest(w) \/ Fails(w) PROVE UNCHANGED <<store, sent>>
    BY <2>4 DEF Copy, RemoveDest, Fails
  <2> QED
    BY <2>2, <2>3, <2>4, MailFrame
<1>8. ASSUME NEW t \in TaskIds, Type[t] = "DELETE", mode'[t] = "backup", done'[t] >= 1
      PROVE  InBackup'
  <2>1. CASE mode[t] = "backup" /\ done[t] >= 1
    BY <1>1, <1>8, <2>1 DEF StageInv
  <2>2. CASE done[t] = 0
    <3>1. PICK w \in Workers : Checkpoint(w) /\ job[w] = t /\ mode[t] = "backup"
      <4>1. ASSUME NEW w \in Workers, Checkpoint(w), done'[t] # 0 PROVE job[w] = t /\ mode[t] = "backup"
        BY <1>8, <2>2, <4>1 DEF Checkpoint, TypeOK, TasksOK
      <4> QED
        BY <1>8, <2>2, <4>1, DoneFrame
    <3> QED
      BY <1>1, <2>2, <3>1 DEF Checkpoint, StageInv
  <2>3. CASE mode[t] # "backup" /\ done[t] # 0
    <3>1. mode[t] = "instant"
      BY <2>3 DEF PlanInv, TypeOK, TasksOK
    <3> QED
      BY <1>8, <3>1, Onward
  <2> QED
    BY <2>1, <2>2, <2>3 DEF TypeOK, TasksOK
<1>9. ASSUME NEW w \in Workers, pc'[w] = "check", mode'[job'[w]] = "backup", done'[job'[w]] = 0
      PROVE  InBackup'
  <2>1. CASE Quiet
    BY <1>1, <1>9, <2>1 DEF Quiet, StageInv, InStep, DeleteOnly
  <2>2. ASSUME NEW x \in Workers, x # w,
               \/ Plan(x) \/ Probe(x) \/ Checkpoint(x) \/ FindHome(x) \/ RemoveHome(x)
               \/ RemoveRow(x) \/ StageAudit(x) \/ Record(x) \/ List(x) \/ Expunged(x)
        PROVE  InBackup'
    <3>1. pc[w] = "check" /\ job[x] # NoTask /\ job' = job
      BY <1>9, <2>2, AtExec
         DEF Plan, Probe, Checkpoint, FindHome, RemoveHome, RemoveRow, StageAudit, Record, List, Expunged,
             Abort, Goto, work, TypeOK, WorkOK, TaskPCs
    <3>2. job[w] # job[x] /\ job[w] \in TaskIds /\ job[x] \in TaskIds
      BY <2>2, <3>1, AtExec DEF JobInv, TypeOK, WorkOK, TaskPCs
    <3>3. mode'[job[w]] = mode[job[w]] /\ done'[job[w]] = done[job[w]]
      BY <2>2, <3>2
         DEF Plan, Probe, Checkpoint, FindHome, RemoveHome, RemoveRow, StageAudit, Record, List, Expunged,
             tasks, TypeOK, TasksOK
    <3> QED
      BY <1>1, <1>9, <3>1, <3>3 DEF StageInv
  <2>3. ~(Plan(w) \/ Probe(w) \/ Checkpoint(w) \/ List(w))
    BY <1>9, AtExec
       DEF Plan, Probe, Checkpoint, List, Abort, Goto, work, TypeOK, WorkOK
  <2>4. CASE FindHome(w) \/ RemoveHome(w) \/ RemoveRow(w) \/ StageAudit(w) \/ Record(w) \/ Expunged(w)
    <3>1. UNCHANGED <<mode, done, job>>
      BY <2>4 DEF FindHome, RemoveHome, RemoveRow, StageAudit, Record, Expunged, tasks
    <3>2. done[job[w]] >= 1
      <4>1. Deleting(w)
        BY <2>4, AtExec DEF FindHome, RemoveHome, RemoveRow, StageAudit, Record, Expunged, PlaceInv,
                            ArchiveOnly, PlanInv, Placed, DeleteOnly
      <4>2. CASE pc[w] \in {"expunge", "rmhome"}
        BY <1>9, <3>1, <4>1, <4>2 DEF PlanInv, Placed, TypeOK, TasksOK
      <4>3. CASE pc[w] \notin {"expunge", "rmhome"}
        <5>1. At(w, "maildir-home") \/ At(w, "mailbox-row") \/ At(w, "audit") \/ At(w, "archive")
          BY <2>4, <4>3 DEF FindHome, RemoveHome, RemoveRow, StageAudit, Record, Expunged,
                            PlaceInv, ArchiveOnly
        <5>2. mode[job[w]] = "backup"
          BY <1>9, <3>1
        <5> QED
          BY <5>1, <5>2, BackupOrder
      <4> QED
        BY <4>2, <4>3
    <3> QED
      BY <1>9, <3>1, <3>2
  <2> QED
    BY <1>4, <2>1, <2>2, <2>3, <2>4, QuietSteps
<1> QED
  BY <1>6, <1>7, <1>8, <1>9 DEF StageInv

-----------------------------------------------------------------------------
(* What a drain knows of the flag.                                         *)

\* An entity is loaded during a drain, and the flag is noted as it is on.
FlagInv ==
    \A w \in Workers :
        /\ pc[w] = "idle" => w \notin fresh
        /\ pc[w] # "idle" /\ arch.auto => wasOn[w]
        /\ w \in fresh /\ seen[w] => wasOn[w]
        /\ pc[w] = "rmdest" => wasOn[w]

\* No worker starts or ends, loads or writes the archive row.
Unaware ==
    /\ UNCHANGED <<seen, wasOn>>
    /\ arch'.auto => arch.auto
    /\ fresh' \cap Workers \subseteq fresh
    /\ \A x \in Workers :
         /\ pc'[x] = "idle" <=> pc[x] = "idle"
         /\ pc'[x] = "rmdest" => pc[x] = "rmdest"

LEMMA UnawareKeeps ==
  ASSUME FlagInv, Unaware
  PROVE  FlagInv'
BY DEF FlagInv, Unaware

LEMMA UnawareSteps ==
  ASSUME TypeOK, [Next]_vars
  PROVE  \/ Unaware
         \/ \E w \in Workers :
              \/ Start(w) \/ \E t \in TaskIds : StartSweep(w, t)
              \/ End(w) /\ UNCHANGED arch
              \/ Record(w) \/ Inspect(w) \/ Publish(w) \/ Checkpoint(w) \/ LogAudit(w)
         \/ Toggle
<1> USE ActorsDiffer DEF Unaware, TypeOK, WorkOK, RowsOK, Archives, NoArchive, Goto, Abort, rows, work, hist
<1>1. ASSUME NEW w \in Workers, NEW t \in TaskIds, Claim(w, t) PROVE Unaware
  BY <1>1 DEF Claim
<1>2. ASSUME NEW w \in Workers, Leave(w) \/ Dies(w) \/ Conflicts(w) PROVE End(w) /\ UNCHANGED arch
  BY <1>2 DEF Leave, Dies, Conflicts
<1>3. ASSUME NEW w \in Workers, Fails(w) PROVE Unaware
  BY <1>3 DEF Fails, TaskPCs
<1>4. ASSUME NEW w \in Workers, UnknownUser(w) PROVE Unaware
  BY <1>4, AtExec DEF UnknownUser
<1>5. ASSUME NEW w \in Workers, DeleteSteps(w), ~Checkpoint(w) PROVE Unaware
  <2>1. CASE Plan(w)
    BY <2>1 DEF Plan
  <2>2. CASE Probe(w) \/ DeleteDone(w) \/ FindHome(w)
    BY <2>2, AtExec DEF Probe, DeleteDone, FindHome
  <2>3. CASE RemoveHome(w) \/ RemoveRow(w) \/ StageAudit(w)
    BY <2>3, AtExec DEF RemoveHome, RemoveRow, StageAudit
  <2> QED
    BY <1>5, <2>1, <2>2, <2>3 DEF DeleteSteps
<1>6. ASSUME NEW w \in Workers, StoreSteps(w), ~Record(w) PROVE Unaware
  BY <1>6, AtExec DEF StoreSteps, Copy, List, Expunge, Expunged
<1>7. ASSUME NEW w \in Workers, RemoveDest(w) PROVE Unaware
  BY <1>7 DEF RemoveDest
<1>8. ASSUME NEW q \in Requests, RequestNext(q) PROVE Unaware
  <2>1. CASE Restore(q) \/ Recreate(q) \/ Discard(q)
    BY <2>1 DEF Restore, Recreate, Discard
  <2>2. CASE Sync(q) \/ Clean(q) \/ DiscardFiles(q)
    BY <2>2 DEF Sync, Clean, DiscardFiles
  <2>3. CASE DropArchive(q) \/ RequestDies(q)
    BY <2>3 DEF DropArchive, RequestDies
  <2> QED
    BY <1>8, <2>1, <2>2, <2>3 DEF RequestNext
<1>9. ASSUME NEW t \in TaskIds, QueueNext(t) PROVE Unaware
  BY <1>9 DEF QueueNext, Enqueue, Retry, Remove, Reap
<1>10. ASSUME Expire \/ (\E m \in Incoming : Deliver(m)) \/ UNCHANGED vars PROVE Unaware
  BY <1>10 DEF Expire, Deliver, vars
<1> QED
  BY <1>1, <1>2, <1>3, <1>4, <1>5, <1>6, <1>7, <1>8, <1>9, <1>10
     DEF Next, WorkerNext, Drain, Execute, PruneSteps

\* A flush that writes the flag notes it for every drain.
LEMMA FlushNotes ==
  ASSUME TypeOK, FlagInv, NEW w \in Workers, NEW S, Flush(w, S), pc[w] # "idle",
         S = staged[w] \/ S = staged[w] \cup {"audit"},
         NEW l \in {"next", "exec", "publish"}, Goto(w, l)
  PROVE  FlagInv'
<1>1. \A x \in Workers : (pc'[x] = "idle" <=> pc[x] = "idle") /\ (pc'[x] = "rmdest" => pc[x] = "rmdest")
  BY DEF Goto, TypeOK, WorkOK
<1>2. CASE UNCHANGED <<arch, fresh, seen, wasOn>>
  BY <1>1, <1>2 DEF FlagInv
<1>3. CASE arch' = NoArchive /\ fresh' = {} /\ UNCHANGED <<seen, wasOn>>
  BY <1>1, <1>3 DEF FlagInv, NoArchive
<1>4. CASE /\ "insert" \in S \/ ("archive" \in S /\ w \in fresh)
           /\ arch' = Written(w)
           /\ fresh' = fresh \cup {w}
           /\ seen' = [seen EXCEPT ![w] = Deleting(w)]
           /\ wasOn' = [x \in Workers |-> wasOn[x] \/ arch'.auto]
  <2>1. \A x \in Workers : (arch'.auto => wasOn'[x]) /\ (wasOn[x] => wasOn'[x])
    BY <1>4, Zenon
  <2>2. ASSUME Deleting(w) PROVE wasOn'[w]
    <3>1. CASE w \in fresh /\ seen[w]
      BY <2>1, <3>1 DEF FlagInv
    <3>2. CASE ~(w \in fresh /\ seen[w])
      <4>1. "insert" \in staged[w] \/ seen[w] # Deleting(w)
        BY <1>4, <2>2, <3>2 DEF TypeOK, WorkOK
      <4>2. arch'.auto = Deleting(w)
        BY <1>4, <4>1 DEF Written
      <4> QED
        BY <2>1, <2>2, <4>2
    <3> QED
      BY <3>1, <3>2
  <2>3. seen'[w] = Deleting(w) /\ \A x \in Workers \ {w} : seen'[x] = seen[x]
    BY <1>4 DEF TypeOK, WorkOK
  <2>4. \A x \in Workers : x \in fresh' => x \in fresh \/ x = w
    BY <1>4
  <2>5. ASSUME NEW x \in Workers
        PROVE  /\ pc'[x] = "idle" => x \notin fresh'
               /\ pc'[x] # "idle" /\ arch'.auto => wasOn'[x]
               /\ pc'[x] = "rmdest" => wasOn'[x]
    BY <1>1, <2>1, <2>4 DEF FlagInv
  <2>6. ASSUME NEW x \in Workers, x \in fresh', seen'[x] PROVE wasOn'[x]
    <3>1. CASE x = w
      BY <2>2, <2>3, <2>6, <3>1
    <3>2. CASE x # w
      BY <2>1, <2>3, <2>4, <2>6, <3>2 DEF FlagInv
    <3> QED
      BY <3>1, <3>2
  <2> QED
    BY <2>5, <2>6 DEF FlagInv
<1> QED
  BY <1>2, <1>3, <1>4 DEF Flush

LEMMA FlagStep ==
  ASSUME TypeOK, FlagInv, [Next]_vars
  PROVE  FlagInv'
<1> USE DEF FlagInv, TypeOK, WorkOK, HistOK, RowsOK, Goto
<1>1. ASSUME NEW w \in Workers, Start(w) PROVE FlagInv'
  <2>1. UNCHANGED <<arch, fresh, seen>> /\ pc'[w] = "next" /\ w \notin fresh /\ wasOn'[w] = arch.auto
    BY <1>1 DEF Start, rows
  <2>2. \A x \in Workers \ {w} : pc'[x] = pc[x] /\ wasOn'[x] = wasOn[x]
    BY <1>1 DEF Start
  <2>3. ASSUME NEW x \in Workers, x # w
        PROVE  /\ pc'[x] = "idle" => x \notin fresh'
               /\ pc'[x] # "idle" /\ arch'.auto => wasOn'[x]
               /\ x \in fresh' /\ seen'[x] => wasOn'[x]
               /\ pc'[x] = "rmdest" => wasOn'[x]
    BY <2>1, <2>2, <2>3
  <2>4. /\ pc'[w] = "idle" => w \notin fresh'
        /\ pc'[w] # "idle" /\ arch'.auto => wasOn'[w]
        /\ w \in fresh' /\ seen'[w] => wasOn'[w]
        /\ pc'[w] = "rmdest" => wasOn'[w]
    BY <2>1
  <2> QED
    BY <2>3, <2>4
<1>2. ASSUME NEW w \in Workers, NEW t \in TaskIds, StartSweep(w, t) PROVE FlagInv'
  <2>1. UNCHANGED arch /\ fresh' \subseteq fresh \cup {w} /\ pc'[w] = "next" /\ wasOn'[w]
    BY <1>2 DEF StartSweep, Load
  <2>2. \A x \in Workers \ {w} : pc'[x] = pc[x] /\ wasOn'[x] = wasOn[x] /\ seen'[x] = seen[x]
    BY <1>2 DEF StartSweep, Load
  <2>3. ASSUME NEW x \in Workers, x # w
        PROVE  /\ pc'[x] = "idle" => x \notin fresh'
               /\ pc'[x] # "idle" /\ arch'.auto => wasOn'[x]
               /\ x \in fresh' /\ seen'[x] => wasOn'[x]
               /\ pc'[x] = "rmdest" => wasOn'[x]
    BY <2>1, <2>2, <2>3
  <2> QED
    BY <2>1, <2>3
<1>3. ASSUME NEW w \in Workers, End(w), UNCHANGED arch PROVE FlagInv'
  BY <1>3 DEF End
<1>4. ASSUME NEW w \in Workers, Record(w) PROVE FlagInv'
  <2>1. pc[w] # "idle"
    BY <1>4, AtExec DEF Record
  <2> QED
    BY <1>4, <2>1 DEF Record, Load, Loaded, hist
<1>5. ASSUME NEW w \in Workers, Inspect(w) PROVE FlagInv'
  BY <1>5 DEF Inspect, Load, Loaded, hist
<1>6. ASSUME NEW w \in Workers, Publish(w) \/ Checkpoint(w) \/ LogAudit(w) PROVE FlagInv'
  BY <1>6, FlushNotes DEF Publish, Checkpoint, LogAudit
<1>7. CASE Toggle
  <2>1. UNCHANGED <<pc, seen, fresh>> /\ \A x \in Workers : wasOn'[x] <=> (wasOn[x] \/ arch'.auto)
    BY <1>7 DEF Toggle, work
  <2> QED
    BY <2>1
<1> QED
  BY <1>1, <1>2, <1>3, <1>4, <1>5, <1>6, <1>7, UnawareSteps, UnawareKeeps

-----------------------------------------------------------------------------
(* Theorems about the mail.                                                *)

\* Where copies, snapshots and mail are, when one DELETE is all that copies.
MailInv == IInv /\ PlaceInv /\ CopyInv /\ SnapInv

\* The invariant is inductive: which steps copy and empty, what a DELETE backed
\* up, when it copies, and when its snapshot is recorded.
THEOREM MailInductive == ASSUME LoneDelete PROVE Spec => []MailInv
<1>1. Init => IInv /\ PlaceInv /\ CopyInv /\ SnapInv
  <2> SUFFICES ASSUME Init PROVE PlaceInv /\ CopyInv /\ SnapInv
    BY InitInv
  <2>1. PlaceInv /\ CopyInv
    BY DEF Init, PlaceInv, CopyInv, ArchiveOnly
  <2>2. arch.there => arch.snapshot
    BY DEF Init, NoArchive
  <2>3. /\ \A w \in Workers : staged[w] = {}
        /\ \A t \in TaskIds : status[t] = "new"
    BY DEF Init
  <2> QED
    BY <2>1, <2>2, <2>3 DEF SnapInv
<1>2. MailInv /\ [Next]_vars => MailInv'
  BY StepInv, PlaceStep, CopyStep, SnapStep DEF MailInv, IInv
<1> QED
  BY <1>1, <1>2, PTL DEF Spec, MailInv

\* Mail that a DELETE backed up stays in the backup, however many workers,
\* requests, failures and deaths there are, from whatever checkpoint the task is
\* retried, until someone restores or deletes the backup.
THEOREM BackupKept == ASSUME LoneDelete PROVE Spec => []BackupStands
<1>1. MailInv => BackupStands
  BY DEF MailInv, CopyInv, BackupStands
<1> QED
  BY <1>1, MailInductive, PTL

\* An account that a backed-up DELETE removed can be restored from its archive
\* row, its snapshot and its backup, unless they were dropped: the snapshot is
\* recorded while the mailbox row is there, and committed before it goes.
THEOREM CanRestore == ASSUME LoneDelete PROVE Spec => []Restorable
<1>1. MailInv => Restorable
  <2> SUFFICES ASSUME MailInv, NEW t \in TaskIds, Type[t] = "DELETE", mode[t] = "backup",
                      done[t] >= 5, t \notin dropped
               PROVE  arch.there /\ arch.snapshot /\ copied[t] \subseteq dest
    BY DEF Restorable
  <2>1. done[t] >= 2
    BY DEF MailInv, IInv, TypeOK, TasksOK
  <2> QED
    BY <2>1 DEF MailInv, IInv, RowInv, SnapInv, CopyInv
<1> QED
  BY <1>1, MailInductive, PTL

\* No message is lost, whatever fails or dies at any step of a DELETE and of the
\* prunes of its backup; nor when mail arrives while archives are restored,
\* discarded and pruned by any number of requests and workers.
THEOREM NoMailLost == ASSUME LoneDelete, Undisturbed PROVE Spec => []MailKept
<1>1. Init => KeptInv
  <2> SUFFICES ASSUME Init PROVE KeptInv
    OBVIOUS
  <2>1. /\ sent = store \cup dest /\ dest \in {{}, Archived}
        /\ \A q \in Requests : rpc[q] = "idle"
        /\ \A w \in Workers : pc[w] = "idle"
        /\ \A t \in TaskIds : mode[t] = "none" /\ done[t] = 0
    BY DEF Init
  <2> QED
    BY <2>1 DEF KeptInv, MailKept, CleanInv, StageInv, Undisturbed
<1>2. MailInv /\ KeptInv /\ [Next]_vars => KeptInv'
  <2> SUFFICES ASSUME MailInv, KeptInv, [Next]_vars PROVE KeptInv'
    OBVIOUS
  <2>1. CASE \A t \in TaskIds : Type[t] # "DELETE"
    BY <2>1, KeptOpen DEF MailInv, IInv, KeptInv
  <2>2. CASE \E t \in TaskIds : Type[t] = "DELETE"
    BY <2>2, KeptAlone DEF MailInv, IInv, KeptInv, Undisturbed
  <2> QED
    BY <2>1, <2>2
<1>3. KeptInv => MailKept
  BY DEF KeptInv
<1> QED
  BY <1>1, <1>2, <1>3, MailInductive, PTL DEF Spec

\* For any tasks and requests: who removes a backup directory for a PRUNE is in a
\* drain during which the archive was set to autoprune at some time.
THEOREM PrunesToggled == Spec => PruneAfterToggle
<1>1. Init => FlagInv
  BY DEF Init, FlagInv
<1>2. TypeOK /\ FlagInv /\ [Next]_vars => FlagInv'
  BY FlagStep
<1>3. FlagInv /\ [Next]_vars =>
        [\A w \in Workers : pc[w] = "rmdest" /\ pc'[w] = "audit" => wasOn[w]]_vars
  BY DEF FlagInv
<1> QED
  BY <1>1, <1>2, <1>3, TypeCorrect, PTL DEF Spec, PruneAfterToggle
=============================================================================
