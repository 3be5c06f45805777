----------------------------- MODULE TaskQueue -----------------------------
(***************************************************************************)
(* The mailbox-task queue: the rows of mailbox_task, the runner leases of  *)
(* queue_runner, the processes that drain the queue or run one task, and   *)
(* the web requests that enqueue, retry, cancel, delete and clear tasks.   *)
(*                                                                         *)
(* A runner process is one call of ViMbAdmin_Service_QueueRunner::drain or *)
(* ::runOne; every action of it is one SQL statement or transaction, one   *)
(* doveadm request, or one stretch of code between two of them.            *)
(*                                                                         *)
(* Abstractions.  A lease row is named by the process that inserted it: a  *)
(* process whose row is still in the table cannot start again under its    *)
(* name, so the name is as good as the auto-increment id.  heartbeat_at is *)
(* kept as its age, which saturates at MaxAge; the row and the entity in   *)
(* memory always hold the same instant, so one age serves both.  Task ids  *)
(* are taken from a pool and reused only when nothing refers to them.      *)
(***************************************************************************)
EXTENDS Integers, FiniteSets, Functions

CONSTANTS
    Runners,            \* runner processes
    ManualRunners,      \* those that serve /queue/run-task (runOne)
    Requests,           \* concurrent /queue/retry requests
    TaskIds,            \* ids of mailbox_task rows
    Keys,               \* <<username, type>> pairs
    PruneKeys,          \* the keys the autoprune sweep enqueues
    Priority,           \* mailbox_task.priority of each key
    NoRunner, NoTask,   \* SQL NULL / "no entity"
    MaxSlots,           \* largest queue.runner.max_concurrent configured
    MaxPerRun,          \* queue.runner.max_per_run
    TTL,                \* LEASE_TTL, in ticks
    HeartbeatInterval,  \* LEASE_HEARTBEAT_INTERVAL, in ticks
    MaxWait,            \* bound: ticks from taking $now to the lease's insert
    MaxAge,             \* bound: ages saturate here
    MaxFaults           \* bound: kills and database errors in a behaviour

ASSUME FiniteRunners  == IsFiniteSet(Runners)
ASSUME ManualAreRunners == ManualRunners \subseteq Runners
ASSUME PruneAreKeys   == PruneKeys \subseteq Keys
ASSUME NullsAreFresh  == NoRunner \notin Runners /\ NoTask \notin TaskIds
ASSUME PrioritiesAreInts == Priority \in [Keys -> Int]
ASSUME Limits ==
    /\ MaxSlots \in Nat \ {0}
    /\ MaxPerRun \in Nat \ {0}
    /\ HeartbeatInterval \in Nat \ {0}
    /\ TTL \in Nat /\ HeartbeatInterval < TTL
    /\ MaxWait \in Nat
    /\ MaxAge \in Nat /\ TTL + MaxWait < MaxAge
    /\ MaxFaults \in Nat

VARIABLES
    status,     \* mailbox_task.status, "none" when there is no such row
    keyOf,      \* mailbox_task.username and .type
    abandoned,  \* mailbox_task.abandoned
    owner,      \* mailbox_task.QueueRunner_id
    lease,      \* queue_runner: the slot of the process's row, 0 when absent
    mutex,      \* holder of GET_LOCK('vimbadmin.queue_runner.acquire')
    pc,         \* where each process is
    cap,        \* max_concurrent as the process read it
    slot,       \* loop variable of acquireLease
    age,        \* ticks since the lease's heartbeat (or the captured $now)
    batch,      \* entities returned by pending() and not yet visited
    cur,        \* the entity being worked on
    out,        \* how its execution ended
    em,         \* the process's EntityManager
    late,       \* history: doveadm requests sent after the lease was lost
    req,        \* the FAILED entity a retry request has read
    forced,     \* history: rows a retry overwrote when no longer retryable
    faults

rows  == <<status, keyOf, abandoned, owner>>
local == <<cap, slot, age, batch, cur, out, em, late>>
procs == <<pc, local>>
vars  == <<rows, lease, mutex, procs, req, forced, faults>>

Statuses == {"none", "PENDING", "RUNNING", "DONE", "FAILED", "CANCELLED"}
Outcomes == {"none", "DONE", "FAILED"}

\* exec: between two doveadm requests; send: progress reported, request not
\* yet on the wire; wait: driveTransfer.
ExecPCs  == {"exec", "send", "wait"}
BusyPCs  == ExecPCs \cup {"finish", "publish"}
LockPCs  == {"reapLeases", "count", "insert"}
LeasePCs == {"reapTasks", "sweep", "fetch", "next", "claim", "release"} \cup BusyPCs
PCs      == {"idle", "lock"} \cup LockPCs \cup LeasePCs

TypeOK ==
    /\ status \in [TaskIds -> Statuses]
    /\ keyOf \in [TaskIds -> Keys]
    /\ abandoned \in [TaskIds -> BOOLEAN]
    /\ owner \in [TaskIds -> Runners \cup {NoRunner}]
    /\ lease \in [Runners -> 0..MaxSlots]
    /\ mutex \in Runners \cup {NoRunner}
    /\ pc \in [Runners -> PCs]
    /\ cap \in [Runners -> 1..MaxSlots]
    /\ slot \in [Runners -> 1..MaxSlots]
    /\ age \in [Runners -> 0..MaxAge]
    /\ batch \in [Runners -> SUBSET TaskIds]
    /\ cur \in [Runners -> TaskIds \cup {NoTask}]
    /\ out \in [Runners -> Outcomes]
    /\ em \in [Runners -> {"open", "cleared", "closed"}]
    /\ late \in [Runners -> Nat]
    /\ req \in [Requests -> TaskIds \cup {NoTask}]
    /\ forced \in SUBSET TaskIds
    /\ faults \in 0..MaxFaults
    /\ \A r \in Runners :
         /\ pc[r] \in {"claim"} \cup BusyPCs => cur[r] # NoTask
         /\ r \in ManualRunners /\ pc[r] \in {"lock"} \cup LockPCs => cur[r] # NoTask
         /\ pc[r] \in {"finish", "publish"} => out[r] # "none"

Init ==
    /\ status = [t \in TaskIds |-> "none"]
    /\ \E k \in Keys : keyOf = [t \in TaskIds |-> k]
    /\ abandoned = [t \in TaskIds |-> FALSE]
    /\ owner = [t \in TaskIds |-> NoRunner]
    /\ lease = [r \in Runners |-> 0]
    /\ mutex = NoRunner
    /\ pc = [r \in Runners |-> "idle"]
    /\ cap = [r \in Runners |-> 1]
    /\ slot = [r \in Runners |-> 1]
    /\ age = [r \in Runners |-> 0]
    /\ batch = [r \in Runners |-> {}]
    /\ cur = [r \in Runners |-> NoTask]
    /\ out = [r \in Runners |-> "none"]
    /\ em = [r \in Runners |-> "open"]
    /\ late = [r \in Runners |-> 0]
    /\ req = [q \in Requests |-> NoTask]
    /\ forced = {}
    /\ faults = 0

-----------------------------------------------------------------------------
(* The tables.                                                             *)

Goto(r, l) == pc' = [pc EXCEPT ![r] = l]

Live(r)    == lease[r] > 0
Leased     == {r \in Runners : Live(r)}

\* Mutant: open_task is generated from the status alone.
OpenByStatus(t) == status[t] \in {"PENDING", "RUNNING"}

\* The generated column mailbox_task.open_task, unique with username and type.
Open(t) == status[t] \in {"PENDING", "RUNNING"} \/ abandoned[t]
OpenKey(k) == \E t \in TaskIds : keyOf[t] = k /\ Open(t)

Fresh(t) ==
    /\ status[t] = "none"
    /\ \A r \in Runners : t \notin batch[r] /\ cur[r] # t
    /\ \A q \in Requests : req[q] # t

\* A new row for each of the keys of K, whichever ids are free.
NewRows(K) == UNION {Bijection(T, K) : T \in SUBSET {t \in TaskIds : Fresh(t)}}

InsertRows(new) ==
    /\ status' = [t \in TaskIds |-> IF t \in DOMAIN new THEN "PENDING" ELSE status[t]]
    /\ keyOf' = [t \in TaskIds |-> IF t \in DOMAIN new THEN new[t] ELSE keyOf[t]]
    /\ abandoned' = [t \in TaskIds |-> t \notin DOMAIN new /\ abandoned[t]]
    /\ owner' = [t \in TaskIds |-> IF t \in DOMAIN new THEN NoRunner ELSE owner[t]]
    /\ forced' = forced \ DOMAIN new

\* A process that leaves keeps only its row in queue_runner, if it is there.
Leave(r) ==
    /\ Goto(r, "idle")
    /\ cap' = [cap EXCEPT ![r] = 1]
    /\ slot' = [slot EXCEPT ![r] = 1]
    /\ age' = [age EXCEPT ![r] = IF lease'[r] = 0 THEN 0 ELSE @]
    /\ batch' = [batch EXCEPT ![r] = {}]
    /\ cur' = [cur EXCEPT ![r] = NoTask]
    /\ out' = [out EXCEPT ![r] = "none"]
    /\ em' = [em EXCEPT ![r] = "open"]
    /\ late' = [late EXCEPT ![r] = 0]

-----------------------------------------------------------------------------
(* acquireLease.  $now is taken before GET_LOCK is called, so a lease is as *)
(* old as the call when it is inserted, and the cutoff is as old as it too. *)

StartDrain(r) ==
    /\ r \notin ManualRunners
    /\ pc[r] = "idle" /\ ~Live(r)
    /\ \E c \in 1..MaxSlots : cap' = [cap EXCEPT ![r] = c]
    /\ Goto(r, "lock")
    /\ UNCHANGED <<rows, lease, mutex, slot, age, batch, cur, out, em, late,
                   req, forced, faults>>

StartOne(r, t) ==
    /\ r \in ManualRunners
    /\ pc[r] = "idle" /\ ~Live(r)
    /\ status[t] = "PENDING"
    /\ cur' = [cur EXCEPT ![r] = t]
    /\ \E c \in 1..MaxSlots : cap' = [cap EXCEPT ![r] = c]
    /\ Goto(r, "lock")
    /\ UNCHANGED <<rows, lease, mutex, slot, age, batch, out, em, late,
                   req, forced, faults>>

\* Mutant: the result of GET_LOCK is not looked at.
GetLockIgnored(r) ==
    /\ pc[r] = "lock"
    /\ mutex' = r
    /\ Goto(r, "reapLeases")
    /\ UNCHANGED <<rows, lease, local, req, forced, faults>>

GetLock(r) ==
    /\ pc[r] = "lock" /\ mutex = NoRunner
    /\ mutex' = r
    /\ Goto(r, "reapLeases")
    /\ UNCHANGED <<rows, lease, local, req, forced, faults>>

LockTimeout(r) ==
    /\ pc[r] = "lock" /\ mutex # NoRunner
    /\ UNCHANGED <<rows, lease, mutex, req, forced, faults>>
    /\ Leave(r)

\* Mutant: acquireLease does not reap.
ReapNoLeases(r) ==
    /\ pc[r] = "reapLeases"
    /\ Goto(r, "count")
    /\ UNCHANGED <<rows, lease, mutex, local, req, forced, faults>>

ReapLeases(r) ==
    LET stale == {x \in Leased : age[x] - age[r] > TTL} IN
    /\ pc[r] = "reapLeases"
    /\ lease' = [x \in Runners |-> IF x \in stale THEN 0 ELSE lease[x]]
    /\ owner' = [t \in TaskIds |-> IF owner[t] \in stale THEN NoRunner ELSE owner[t]]
    /\ age' = [x \in Runners |-> IF x \in stale /\ pc[x] = "idle" THEN 0 ELSE age[x]]
    /\ Goto(r, "count")
    /\ UNCHANGED <<status, keyOf, abandoned, mutex, cap, slot, batch, cur, out,
                   em, late, req, forced, faults>>

Count(r) ==
    /\ pc[r] = "count"
    /\ UNCHANGED <<rows, lease, req, forced, faults>>
    /\ \/ /\ Cardinality(Leased) >= cap[r]
          /\ mutex' = NoRunner
          /\ Leave(r)
       \/ /\ Cardinality(Leased) < cap[r]
          /\ Goto(r, "insert")
          /\ UNCHANGED <<mutex, local>>

SlotTaken(r) == \E x \in Runners : lease[x] = slot[r]

Insert(r) ==
    /\ pc[r] = "insert" /\ ~SlotTaken(r)
    /\ lease' = [lease EXCEPT ![r] = slot[r]]
    /\ mutex' = NoRunner
    /\ Goto(r, IF r \in ManualRunners THEN "claim" ELSE "reapTasks")
    /\ UNCHANGED <<rows, local, req, forced, faults>>

NextSlot(r) ==
    /\ pc[r] = "insert" /\ SlotTaken(r)
    /\ UNCHANGED <<rows, lease, req, forced, faults>>
    /\ IF slot[r] < cap[r]
       THEN /\ slot' = [slot EXCEPT ![r] = @ + 1]
            /\ Goto(r, "count")
            /\ UNCHANGED <<mutex, cap, age, batch, cur, out, em, late>>
       ELSE mutex' = NoRunner /\ Leave(r)

-----------------------------------------------------------------------------
(* drain, up to the batch.                                                 *)

\* Mutant: the reaper does not run.
ReapNoTasks(r) ==
    /\ pc[r] = "reapTasks"
    /\ Goto(r, "sweep")
    /\ UNCHANGED <<rows, lease, mutex, local, req, forced, faults>>

ReapTasks(r) ==
    LET orphaned == {t \in TaskIds : status[t] = "RUNNING" /\ owner[t] = NoRunner} IN
    /\ pc[r] = "reapTasks"
    /\ status' = [t \in TaskIds |-> IF t \in orphaned THEN "FAILED" ELSE status[t]]
    /\ abandoned' = [t \in TaskIds |-> t \in orphaned \/ abandoned[t]]
    /\ Goto(r, "sweep")
    /\ UNCHANGED <<keyOf, owner, lease, mutex, local, req, forced, faults>>

\* The 8 h gate, and which archives have expired, are left open.  A row kept
\* open by abandoned is not seen by openPruneUsernames, so flush meets the
\* unique index; the sweep swallows the exception and the EntityManager stays
\* closed.
Sweep(r) ==
    /\ pc[r] = "sweep"
    /\ Goto(r, "fetch")
    /\ UNCHANGED <<lease, mutex, cap, slot, age, batch, cur, out, late, req, faults>>
    /\ \E K \in SUBSET PruneKeys :
         /\ \A t \in TaskIds : keyOf[t] \in K => status[t] \notin {"PENDING", "RUNNING"}
         /\ \/ /\ \E k \in K : OpenKey(k)
               /\ em' = [em EXCEPT ![r] = "closed"]
               /\ UNCHANGED <<rows, forced>>
            \/ /\ \A k \in K : ~OpenKey(k)
               /\ \E new \in NewRows(K) : InsertRows(new)
               /\ UNCHANGED em

Pending == {t \in TaskIds : status[t] = "PENDING"}

\* Ids ascending decide between equal priorities; here any order may.
Before(t, u) == Priority[keyOf[t]] >= Priority[keyOf[u]]

Fetch(r) ==
    /\ pc[r] = "fetch"
    /\ \E B \in SUBSET Pending :
         /\ Cardinality(B) <= MaxPerRun
         /\ Cardinality(B) < MaxPerRun => B = Pending
         /\ \A t \in B, u \in Pending \ B : Before(t, u)
         /\ batch' = [batch EXCEPT ![r] = B]
    /\ Goto(r, "next")
    /\ UNCHANGED <<rows, lease, mutex, cap, slot, age, cur, out, em, late,
                   req, forced, faults>>

-----------------------------------------------------------------------------
(* claim.  The UPDATE commits before the entity is refreshed; QueueRunner_id *)
(* is a foreign key, so it fails once the lease row is gone.                *)

ClaimRow(r, t) ==
    /\ status' = [status EXCEPT ![t] = "RUNNING"]
    /\ abandoned' = [abandoned EXCEPT ![t] = FALSE]
    /\ owner' = [owner EXCEPT ![t] = r]
    /\ UNCHANGED keyOf

\* Mutant: the affected-row count of the claim is not looked at.
ClaimedAnyway(r, t) ==
    /\ Live(r)
    /\ ClaimRow(r, t)
    /\ cur' = [cur EXCEPT ![r] = t]
    /\ Goto(r, IF em[r] = "open" THEN "exec" ELSE "release")

\* refresh of an entity that is no longer managed throws.
Claimed(r, t) ==
    /\ status[t] = "PENDING" /\ Live(r)
    /\ ClaimRow(r, t)
    /\ cur' = [cur EXCEPT ![r] = t]
    /\ Goto(r, IF em[r] = "open" THEN "exec" ELSE "release")

NotClaimed(r, t, skip) ==
    /\ status[t] # "PENDING" \/ ~Live(r)
    /\ Goto(r, IF status[t] = "PENDING" THEN "release" ELSE skip)
    /\ UNCHANGED <<rows, cur>>

ClaimNext(r) ==
    /\ pc[r] = "next"
    /\ \E t \in batch[r] :
         /\ \A u \in batch[r] : Before(t, u)
         /\ batch' = [batch EXCEPT ![r] = @ \ {t}]
         /\ Claimed(r, t) \/ NotClaimed(r, t, "next")
    /\ UNCHANGED <<lease, mutex, cap, slot, age, out, em, late, req, forced, faults>>

BatchDone(r) ==
    /\ pc[r] = "next" /\ batch[r] = {}
    /\ Goto(r, "release")
    /\ UNCHANGED <<rows, lease, mutex, local, req, forced, faults>>

ClaimOne(r) ==
    /\ pc[r] = "claim"
    /\ Claimed(r, cur[r]) \/ NotClaimed(r, cur[r], "release")
    /\ UNCHANGED <<lease, mutex, cap, slot, age, batch, out, em, late, req, forced, faults>>

-----------------------------------------------------------------------------
(* execute.  Every doveadm request reports progress first, and the transfer *)
(* reports it while it waits; a report renews the lease once it is          *)
(* HeartbeatInterval old, and throws when the row is gone.                  *)

Due(r) == age[r] >= HeartbeatInterval

\* leaseProgress, when the lease is still there or not due.
Renew(r) == age' = [age EXCEPT ![r] = IF Due(r) THEN 0 ELSE @]

\* Mutant: a heartbeat that updates no row is not an error.
ProgressUnchecked(r) ==
    /\ pc[r] = "exec"
    /\ Renew(r)
    /\ Goto(r, "send")
    /\ UNCHANGED <<rows, lease, mutex, cap, slot, batch, cur, out, em, late,
                   req, forced, faults>>

Progress(r) ==
    /\ pc[r] = "exec"
    /\ UNCHANGED <<rows, lease, mutex, cap, slot, batch, cur, em, late, req, forced, faults>>
    /\ \/ /\ Due(r) => Live(r)
          /\ Renew(r)
          /\ Goto(r, "send")
          /\ UNCHANGED out
       \/ /\ Due(r) /\ ~Live(r)
          /\ out' = [out EXCEPT ![r] = "FAILED"]
          /\ Goto(r, "finish")
          /\ UNCHANGED age

Send(r) ==
    /\ pc[r] = "send"
    /\ late' = [late EXCEPT ![r] = IF Live(r) THEN @ ELSE @ + 1]
    /\ Goto(r, "wait")
    /\ UNCHANGED <<rows, lease, mutex, cap, slot, age, batch, cur, out, em,
                   req, forced, faults>>

\* Most callers let the exception end the task; fsDirSize and the optional
\* steps of recordArchive and backupOrphan swallow it.
Poll(r) ==
    /\ pc[r] = "wait" /\ Due(r)
    /\ UNCHANGED <<rows, lease, mutex, cap, slot, batch, cur, em, late, req, forced, faults>>
    /\ \/ /\ Live(r)
          /\ Renew(r)
          /\ UNCHANGED <<pc, out>>
       \/ /\ ~Live(r)
          /\ out' = [out EXCEPT ![r] = "FAILED"]
          /\ Goto(r, "finish")
          /\ UNCHANGED age
       \/ /\ ~Live(r)
          /\ Goto(r, "exec")
          /\ UNCHANGED <<age, out>>

\* Mutant: the error of a request ends the task but is lost.
ReplyErrorLost(r) ==
    /\ pc[r] = "wait"
    /\ Goto(r, "exec") \/ Goto(r, "finish")
    /\ UNCHANGED <<rows, lease, mutex, local, req, forced, faults>>

Reply(r) ==
    /\ pc[r] = "wait"
    /\ UNCHANGED <<rows, lease, mutex, cap, slot, age, batch, cur, em, late,
                   req, forced, faults>>
    /\ \/ Goto(r, "exec") /\ UNCHANGED out
       \/ Goto(r, "finish") /\ out' = [out EXCEPT ![r] = "FAILED"]

ExecDone(r) ==
    /\ pc[r] = "exec"
    /\ out' = [out EXCEPT ![r] = "DONE"]
    /\ Goto(r, "finish")
    /\ UNCHANGED <<rows, lease, mutex, cap, slot, age, batch, cur, em, late,
                   req, forced, faults>>

-----------------------------------------------------------------------------
(* Publication.  drain has already put the outcome into the managed entity  *)
(* when it renews the lease; runOne does so inside publishIfOwned.          *)

Finish(r) ==
    /\ pc[r] = "finish"
    /\ UNCHANGED <<rows, lease, mutex, cap, slot, batch, cur, em, late, req, forced, faults>>
    /\ \/ /\ Due(r) => Live(r)
          /\ Renew(r)
          /\ Goto(r, "publish")
          /\ UNCHANGED out
       \/ /\ Due(r) /\ ~Live(r)
          /\ out' = [out EXCEPT ![r] = IF r \in ManualRunners THEN "none" ELSE @]
          /\ Goto(r, "release")
          /\ UNCHANGED age

Owned(r) == Live(r) /\ status[cur[r]] = "RUNNING" /\ owner[cur[r]] = r

AfterPublish(r) == Goto(r, IF r \in ManualRunners THEN "release" ELSE "next")

Publish(r) ==
    /\ pc[r] = "publish" /\ Owned(r) /\ em[r] = "open"
    /\ status' = [status EXCEPT ![cur[r]] = out[r]]
    /\ owner' = [owner EXCEPT ![cur[r]] = NoRunner]
    /\ cur' = [cur EXCEPT ![r] = NoTask]
    /\ out' = [out EXCEPT ![r] = "none"]
    /\ AfterPublish(r)
    /\ UNCHANGED <<keyOf, abandoned, lease, mutex, cap, slot, age, batch, em, late,
                   req, forced, faults>>

\* em->clear() detaches the lease and the rest of the batch with the task.
NotPublished(r) ==
    /\ pc[r] = "publish" /\ ~Owned(r)
    /\ em' = [em EXCEPT ![r] = IF @ = "open" THEN "cleared" ELSE @]
    /\ cur' = [cur EXCEPT ![r] = NoTask]
    /\ out' = [out EXCEPT ![r] = "none"]
    /\ AfterPublish(r)
    /\ UNCHANGED <<rows, lease, mutex, cap, slot, age, batch, late, req, forced, faults>>

\* flush on a closed EntityManager: the exception leaves withLease.
PublishClosed(r) ==
    /\ pc[r] = "publish" /\ Owned(r) /\ em[r] = "closed"
    /\ Goto(r, "release")
    /\ UNCHANGED <<rows, lease, mutex, local, req, forced, faults>>

Dirty(r) == out[r] # "none" /\ status[cur[r]] # "none"

\* remove($lease) and flush in one transaction: the flush also writes what is
\* dirty in the task entity, whoever owns the row by now.
Release(r) ==
    /\ pc[r] = "release" /\ em[r] = "open"
    /\ status' = [t \in TaskIds |-> IF t = cur[r] /\ Dirty(r) THEN out[r] ELSE status[t]]
    /\ owner' = [t \in TaskIds |->
                    IF owner[t] = r \/ (t = cur[r] /\ Dirty(r)) THEN NoRunner ELSE owner[t]]
    /\ lease' = [lease EXCEPT ![r] = 0]
    /\ UNCHANGED <<keyOf, abandoned, mutex, req, forced, faults>>
    /\ Leave(r)

\* Otherwise remove throws, release swallows it and the row stays.
ReleaseSwallowed(r) ==
    /\ pc[r] = "release" /\ em[r] # "open"
    /\ UNCHANGED <<rows, lease, mutex, req, forced, faults>>
    /\ Leave(r)

-----------------------------------------------------------------------------
(* Faults: a process is killed, or a statement fails.                      *)

Fault == faults < MaxFaults /\ faults' = faults + 1

\* The connection of a killed process closes, and its mutex with it.
FreeMutex(r) == mutex' = IF mutex = r THEN NoRunner ELSE mutex

Kill(r) ==
    /\ pc[r] # "idle"
    /\ Fault
    /\ FreeMutex(r)
    /\ UNCHANGED <<rows, lease, req, forced>>
    /\ Leave(r)

\* An error in acquireLease before the row is inserted, or between the insert
\* and the return of withAcquireLock, where nothing deletes the row again.
AcquireFails(r) ==
    /\ pc[r] \in LockPCs
    /\ Fault
    /\ FreeMutex(r)
    /\ \/ UNCHANGED lease
       \/ /\ pc[r] = "insert" /\ ~SlotTaken(r)
          /\ lease' = [lease EXCEPT ![r] = slot[r]]
    /\ UNCHANGED <<rows, req, forced>>
    /\ Leave(r)

\* An exception that leaves the closure of withLease.  At finish it comes from
\* ensureDatabaseConnection, before the outcome is in the entity, or from the
\* heartbeat, after it.
StatementFails(r) ==
    /\ pc[r] \in {"reapTasks", "sweep", "fetch", "next", "claim", "finish", "publish"}
    /\ Fault
    /\ \/ /\ r \in ManualRunners \/ pc[r] = "finish"
          /\ out' = [out EXCEPT ![r] = "none"]
       \/ /\ r \notin ManualRunners
          /\ UNCHANGED out
    /\ Goto(r, "release")
    /\ UNCHANGED <<rows, lease, mutex, cap, slot, age, batch, cur, em, late, req, forced>>

\* A failed flush rolls back and closes the EntityManager.
FlushFails(r) ==
    /\ Fault
    /\ em' = [em EXCEPT ![r] = "closed"]
    /\ \/ /\ pc[r] = "exec"
          /\ out' = [out EXCEPT ![r] = "FAILED"]
          /\ Goto(r, "finish")
       \/ /\ pc[r] \in {"publish", "release"} /\ em[r] = "open"
          /\ Goto(r, "release")
          /\ UNCHANGED out
    /\ UNCHANGED <<rows, lease, mutex, cap, slot, age, batch, cur, late, req, forced>>

-----------------------------------------------------------------------------
(* The web interface and the clock.                                        *)

\* K is one key, or those of every active mailbox (enqueueAllActive): the open
\* ones are passed over.
Enqueue(K) ==
    /\ \E new \in NewRows({k \in K : ~OpenKey(k)}) : InsertRows(new)
    /\ UNCHANGED <<lease, mutex, procs, req, faults>>

Retryable(t) == status[t] = "FAILED" /\ ~abandoned[t]

RetryRead(q, t) ==
    /\ req[q] = NoTask /\ Retryable(t)
    /\ req' = [req EXCEPT ![q] = t]
    /\ UNCHANGED <<rows, lease, mutex, procs, forced, faults>>

\* UPDATE ... SET status = 'PENDING' WHERE id = ?: no row, a unique violation,
\* or the row whatever has become of it.
RetryFlush(q) ==
    LET t == req[q] IN
    /\ t # NoTask
    /\ req' = [req EXCEPT ![q] = NoTask]
    /\ IF status[t] = "none" \/ \E u \in TaskIds \ {t} : keyOf[u] = keyOf[t] /\ Open(u)
       THEN UNCHANGED <<status, forced>>
       ELSE /\ status' = [status EXCEPT ![t] = "PENDING"]
            /\ forced' = IF Retryable(t) THEN forced ELSE forced \cup {t}
    /\ UNCHANGED <<keyOf, abandoned, owner, lease, mutex, procs, faults>>

Cancel(t) ==
    /\ status[t] = "PENDING"
    /\ status' = [status EXCEPT ![t] = "CANCELLED"]
    /\ UNCHANGED <<keyOf, abandoned, owner, lease, mutex, procs, req, forced, faults>>

DeleteRows(T) ==
    /\ status' = [t \in TaskIds |-> IF t \in T THEN "none" ELSE status[t]]
    /\ abandoned' = [t \in TaskIds |-> t \notin T /\ abandoned[t]]
    /\ owner' = [t \in TaskIds |-> IF t \in T THEN NoRunner ELSE owner[t]]
    /\ UNCHANGED <<keyOf, lease, mutex, procs, req, forced, faults>>

\* Mutant: delete does not join the lease table.
DeleteAny(t) == status[t] # "none" /\ DeleteRows({t})

Delete(t) ==
    /\ status[t] # "none"
    /\ status[t] # "RUNNING" \/ owner[t] = NoRunner
    /\ DeleteRows({t})

Finished == {t \in TaskIds : status[t] \in {"DONE", "FAILED", "CANCELLED"} /\ ~abandoned[t]}

Clear == Finished # {} /\ DeleteRows(Finished)

Aging(r)  == pc[r] # "idle" \/ Live(r)

\* A process may be stopped, or a request may hang, for any number of ticks,
\* but for MaxWait of them while it acquires its lease: GET_LOCK times out.
Tick ==
    /\ \A r \in Runners : pc[r] \in {"lock"} \cup LockPCs => age[r] < MaxWait
    /\ age' = [r \in Runners |-> IF Aging(r) /\ age[r] < MaxAge THEN age[r] + 1 ELSE age[r]]
    /\ UNCHANGED <<rows, lease, mutex, pc, cap, slot, batch, cur, out, em, late,
                   req, forced, faults>>

-----------------------------------------------------------------------------
Acquire(r) ==
    \/ GetLock(r) \/ LockTimeout(r) \/ ReapLeases(r) \/ Count(r)
    \/ Insert(r) \/ NextSlot(r)

DrainStep(r) ==
    \/ ReapTasks(r) \/ Sweep(r) \/ Fetch(r) \/ ClaimNext(r) \/ BatchDone(r)

Work(r) ==
    \/ Progress(r) \/ Send(r) \/ Poll(r) \/ Reply(r) \/ ExecDone(r)

Settle(r) ==
    \/ Finish(r) \/ Publish(r) \/ NotPublished(r) \/ PublishClosed(r)
    \/ Release(r) \/ ReleaseSwallowed(r)

Fails(r) ==
    \/ Kill(r) \/ AcquireFails(r) \/ StatementFails(r) \/ FlushFails(r)

RunnerNext(r) ==
    \/ StartDrain(r) \/ \E t \in TaskIds : StartOne(r, t)
    \/ Acquire(r) \/ DrainStep(r) \/ ClaimOne(r) \/ Work(r) \/ Settle(r) \/ Fails(r)

WebNext ==
    \/ \E K \in SUBSET Keys : Enqueue(K)
    \/ \E q \in Requests, t \in TaskIds : RetryRead(q, t)
    \/ \E q \in Requests : RetryFlush(q)
    \/ \E t \in TaskIds : Cancel(t) \/ Delete(t)
    \/ Clear

Next == (\E r \in Runners : RunnerNext(r)) \/ WebNext \/ Tick

Spec == Init /\ [][Next]_vars

-----------------------------------------------------------------------------
(* Properties.                                                             *)

\* max_concurrent (QueueRunner::acquireLease): whatever mixture of caps the
\* processes were started with, and however leases are reaped or leaked while
\* one of them is between its count and its insert, no process joins unless
\* the leases then number at most the cap it was configured with.
CapRespected ==
    [][\A r \in Runners :
         ~Live(r) /\ lease'[r] > 0 =>
             Cardinality({x \in Runners : lease'[x] > 0}) <= cap[r]]_vars

\* Heartbeats (LEASE_HEARTBEAT_INTERVAL, leaseProgress): a runner that wakes up
\* after its lease was reaped sends doveadm at most the one request it had
\* reported just before, whichever exceptions its callers swallow.
LateCommands == \A r \in Runners : late[r] <= 1

\* Ownership (claim, publishIfOwned, deleteUnlessActive): while a runner with a
\* live lease executes a task, the row is there, RUNNING and names that lease:
\* it is not deleted, cancelled, cleared, reaped or claimed under the runner.
OwnedWhileExecuting ==
    \A r \in Runners :
        pc[r] \in BusyPCs /\ Live(r) /\ cur[r] \notin forced => Owned(r)

\* The fence of abandoned (reapStaleRunning, the open_task index, clearAction):
\* two processes execute tasks of one username and type at once only if an
\* operator deleted the row of the first, or retried a row that was stale.
KeyExclusion ==
    \A r, s \in Runners :
        /\ r # s
        /\ pc[r] \in ExecPCs /\ pc[s] \in ExecPCs
        /\ keyOf[cur[r]] = keyOf[cur[s]]
        => \/ status[cur[r]] = "none" \/ status[cur[s]] = "none"
           \/ cur[r] \in forced \/ cur[s] \in forced

\* A task's place in its life, as the row tells it.
Stage(t) ==
    CASE status[t] = "none"    -> "none"
      [] status[t] = "PENDING" -> "waiting"
      [] status[t] = "RUNNING" -> "taken"
      [] status[t] \in {"DONE", "FAILED", "CANCELLED"} ->
            IF abandoned[t] THEN "fenced" ELSE "settled"

Holder(t) == IF status[t] = "RUNNING" THEN owner[t] ELSE NoRunner

Life == INSTANCE TaskLife
            WITH Tasks <- TaskIds, Holders <- Runners, Nobody <- NoRunner,
                 stage <- [t \in TaskIds |-> Stage(t)],
                 holder <- [t \in TaskIds |-> Holder(t)],
                 void <- forced

\* The queue as a whole (claim, publishIfOwned, the reapers, deleteUnlessActive,
\* clear, release's late flush): whatever the processes and requests do at once,
\* every row lives as TaskLife says: it is taken once per time it waited, what
\* its holder lost is not handed to another, what is held is not removed.
LivesAsPromised == Life!Spec

\* A drain is started again and again, a process that is not killed goes on,
\* the clock runs, a request is answered or fails, and a task makes finitely
\* many of them.
Fairness ==
    /\ WF_vars(Tick)
    /\ \A r \in Runners :
         /\ WF_vars(StartDrain(r))
         /\ WF_vars(Acquire(r)) /\ WF_vars(DrainStep(r)) /\ WF_vars(ClaimOne(r))
         /\ WF_vars(Work(r)) /\ WF_vars(Settle(r))
         /\ WF_vars(Reply(r)) /\ SF_vars(ExecDone(r))

FairSpec == Spec /\ Fairness

\* A lease that its process left behind is given back (reapStale).
LeaseRecovered ==
    \A r \in Runners : pc[r] = "idle" /\ Live(r) ~> ~Live(r)

\* No task stays RUNNING forever (reapStaleRunning).
RunningSettles ==
    \A t \in TaskIds : status[t] = "RUNNING" ~> status[t] # "RUNNING"

=============================================================================
