-------------------------- MODULE TaskQueueProofs --------------------------
(***************************************************************************)
(* Theorems about TaskQueue, for any runners, requests, keys and rows: what *)
(* the queue admits, who owns what, and that it implements TaskLife.       *)
(***************************************************************************)
EXTENDS TaskQueue, TLAPS, FiniteSetTheorems

USE DEF rows, local, procs, vars

\* What a set of new rows is: fresh ids, and a key of its own for each.
LEMMA NewRowsTyped ==
  ASSUME NEW K, NEW new \in NewRows(K)
  PROVE  /\ DOMAIN new \subseteq {t \in TaskIds : Fresh(t)}
         /\ \A t \in DOMAIN new : new[t] \in K
         /\ \A t, u \in DOMAIN new : new[t] = new[u] => t = u
<1>1. PICK T \in SUBSET {t \in TaskIds : Fresh(t)} : new \in Bijection(T, K)
  BY DEF NewRows
<1>2. new \in [T -> K] /\ IsInjective(new)
  BY <1>1 DEF Bijection, Injection
<1> QED
  BY <1>2 DEF IsInjective

\* Type correctness of the queue: every row, lease and process stays within
\* the domains the code reads and writes, a process that executes a task has
\* one, and one that publishes has an outcome to publish.
THEOREM TypeCorrect == Spec => []TypeOK
<1>1. Init => TypeOK
  BY NullsAreFresh, Limits DEF Init, TypeOK, Statuses, Outcomes, PCs, LeasePCs, LockPCs, BusyPCs, ExecPCs
<1>2. TypeOK /\ [Next]_vars => TypeOK'
  <2> SUFFICES ASSUME TypeOK, [Next]_vars PROVE TypeOK'
    OBVIOUS
  <2> USE NullsAreFresh, Limits, PruneAreKeys
  <2> USE DEF TypeOK, Statuses, Outcomes, PCs, LeasePCs, LockPCs, BusyPCs, ExecPCs, Goto
  <2>1. ASSUME NEW r \in Runners, StartDrain(r) PROVE TypeOK'
    BY <2>1 DEF StartDrain
  <2>2. ASSUME NEW r \in Runners, NEW t \in TaskIds, StartOne(r, t) PROVE TypeOK'
    BY <2>2 DEF StartOne
  <2>3. ASSUME NEW r \in Runners, GetLock(r) PROVE TypeOK'
    BY <2>3 DEF GetLock
  <2>4. ASSUME NEW r \in Runners, LockTimeout(r) PROVE TypeOK'
    BY <2>4 DEF LockTimeout, Leave
  <2>5. ASSUME NEW r \in Runners, ReapLeases(r) PROVE TypeOK'
    BY <2>5 DEF ReapLeases
  <2>6. ASSUME NEW r \in Runners, Count(r) PROVE TypeOK'
    <3>1. CASE Leave(r) /\ mutex' = NoRunner
      BY <2>6, <3>1 DEF Count, Leave
    <3>2. CASE pc' = [pc EXCEPT ![r] = "insert"] /\ UNCHANGED <<mutex, local>>
      BY <2>6, <3>2 DEF Count
    <3> QED
      BY <2>6, <3>1, <3>2 DEF Count
  <2>7. ASSUME NEW r \in Runners, Insert(r) PROVE TypeOK'
    BY <2>7 DEF Insert
  <2>8. ASSUME NEW r \in Runners, NextSlot(r) PROVE TypeOK'
    <3>1. CASE slot[r] < cap[r]
      BY <2>8, <3>1 DEF NextSlot
    <3>2. CASE ~(slot[r] < cap[r])
      BY <2>8, <3>2 DEF NextSlot, Leave
    <3> QED
      BY <3>1, <3>2
  <2>9. ASSUME NEW r \in Runners, ReapTasks(r) PROVE TypeOK'
    BY <2>9 DEF ReapTasks
  <2>10. ASSUME NEW r \in Runners, Sweep(r) PROVE TypeOK'
    <3>1. CASE UNCHANGED <<rows, forced>>
      BY <2>10, <3>1 DEF Sweep
    <3>2. ASSUME NEW K \in SUBSET PruneKeys, NEW new \in NewRows(K), InsertRows(new), UNCHANGED em
          PROVE  TypeOK'
      BY <2>10, <3>2, NewRowsTyped, PruneAreKeys DEF Sweep, InsertRows
    <3> QED
      BY <2>10, <3>1, <3>2 DEF Sweep
  <2>11. ASSUME NEW r \in Runners, Fetch(r) PROVE TypeOK'
    BY <2>11 DEF Fetch, Pending
  <2>12. ASSUME NEW r \in Runners, ClaimNext(r) PROVE TypeOK'
    <3>1. ASSUME NEW t \in TaskIds, Claimed(r, t) PROVE TypeOK'
      BY <2>12, <3>1 DEF ClaimNext, Claimed, ClaimRow
    <3>2. ASSUME NEW t \in TaskIds, NotClaimed(r, t, "next") PROVE TypeOK'
      BY <2>12, <3>2 DEF ClaimNext, NotClaimed
    <3> QED
      BY <2>12, <3>1, <3>2 DEF ClaimNext
  <2>13. ASSUME NEW r \in Runners, BatchDone(r) PROVE TypeOK'
    BY <2>13 DEF BatchDone
  <2>14. ASSUME NEW r \in Runners, ClaimOne(r) PROVE TypeOK'
    <3>1. ASSUME NEW t \in TaskIds, Claimed(r, t) PROVE TypeOK'
      BY <2>14, <3>1 DEF ClaimOne, Claimed, ClaimRow
    <3>2. ASSUME NEW t \in TaskIds, NotClaimed(r, t, "release") PROVE TypeOK'
      BY <2>14, <3>2 DEF ClaimOne, NotClaimed
    <3> QED
      BY <2>14, <3>1, <3>2 DEF ClaimOne
  <2>15. ASSUME NEW r \in Runners, Progress(r) PROVE TypeOK'
    BY <2>15 DEF Progress, Renew
  <2>16. ASSUME NEW r \in Runners, Send(r) PROVE TypeOK'
    BY <2>16 DEF Send
  <2>17. ASSUME NEW r \in Runners, Poll(r) PROVE TypeOK'
    BY <2>17 DEF Poll, Renew
  <2>18. ASSUME NEW r \in Runners, Reply(r) PROVE TypeOK'
    BY <2>18 DEF Reply
  <2>19. ASSUME NEW r \in Runners, ExecDone(r) PROVE TypeOK'
    BY <2>19 DEF ExecDone
  <2>20. ASSUME NEW r \in Runners, Finish(r) PROVE TypeOK'
    BY <2>20 DEF Finish, Renew
  <2>21. ASSUME NEW r \in Runners, Publish(r) PROVE TypeOK'
    BY <2>21 DEF Publish, AfterPublish, Owned
  <2>22. ASSUME NEW r \in Runners, NotPublished(r) PROVE TypeOK'
    BY <2>22 DEF NotPublished, AfterPublish
  <2>23. ASSUME NEW r \in Runners, PublishClosed(r) PROVE TypeOK'
    BY <2>23 DEF PublishClosed
  <2>24. ASSUME NEW r \in Runners, Release(r) PROVE TypeOK'
    BY <2>24 DEF Release, Dirty, Leave
  <2>25. ASSUME NEW r \in Runners, ReleaseSwallowed(r) PROVE TypeOK'
    BY <2>25 DEF ReleaseSwallowed, Leave
  <2>26. ASSUME NEW r \in Runners, Kill(r) PROVE TypeOK'
    BY <2>26 DEF Kill, Fault, FreeMutex, Leave
  <2>27. ASSUME NEW r \in Runners, AcquireFails(r) PROVE TypeOK'
    BY <2>27 DEF AcquireFails, Fault, FreeMutex, Leave
  <2>28. ASSUME NEW r \in Runners, StatementFails(r) PROVE TypeOK'
    BY <2>28 DEF StatementFails, Fault
  <2>29. ASSUME NEW r \in Runners, FlushFails(r) PROVE TypeOK'
    BY <2>29 DEF FlushFails, Fault
  <2>30. ASSUME NEW K \in SUBSET Keys, Enqueue(K) PROVE TypeOK'
    BY <2>30, NewRowsTyped DEF Enqueue, InsertRows
  <2>31. ASSUME NEW q \in Requests, NEW t \in TaskIds, RetryRead(q, t) PROVE TypeOK'
    BY <2>31 DEF RetryRead
  <2>32. ASSUME NEW q \in Requests, RetryFlush(q) PROVE TypeOK'
    BY <2>32 DEF RetryFlush
  <2>33. ASSUME NEW t \in TaskIds, Cancel(t) PROVE TypeOK'
    BY <2>33 DEF Cancel
  <2>34. ASSUME NEW T \in SUBSET TaskIds, DeleteRows(T) PROVE TypeOK'
    BY <2>34 DEF DeleteRows
  <2>35. CASE Tick
    BY <2>35 DEF Tick
  <2>36. CASE UNCHANGED vars
    BY <2>36
  <2> QED
    BY <2>1, <2>2, <2>3, <2>4, <2>5, <2>6, <2>7, <2>8, <2>9, <2>10, <2>11, <2>12, <2>13,
       <2>14, <2>15, <2>16, <2>17, <2>18, <2>19, <2>20, <2>21, <2>22, <2>23, <2>24, <2>25,
       <2>26, <2>27, <2>28, <2>29, <2>30, <2>31, <2>32, <2>33, <2>34, <2>35, <2>36
       DEF Next, RunnerNext, WebNext, Acquire, DrainStep, Work, Settle, Fails, Delete, Clear, Finished
<1> QED
  BY <1>1, <1>2, PTL DEF Spec

-----------------------------------------------------------------------------
(* max_concurrent.  The count made under the mutex stays an upper bound    *)
(* until the insert: whoever is between the two holds the mutex, nobody    *)
(* else inserts, and everything else only removes leases.                  *)

Acquiring(r) == pc[r] \in {"lock"} \cup LockPCs

CapInv ==
    /\ \A r \in Runners : pc[r] \in LockPCs => mutex = r
    /\ \A r \in Runners : Acquiring(r) => ~Live(r)
    /\ \A r \in Runners : pc[r] = "insert" => Cardinality(Leased) < cap[r]

LEMMA LeasedFinite ==
    /\ IsFiniteSet(Leased) /\ Cardinality(Leased) \in Nat
    /\ IsFiniteSet(Leased') /\ Cardinality(Leased') \in Nat
BY FiniteRunners, FS_Subset, FS_CardinalityType DEF Leased

\* Every step but the insert of a lease leaves the leases or removes some.
Joins(r) ==
    /\ pc[r] = "insert"
    /\ lease' = [lease EXCEPT ![r] = slot[r]]
    /\ mutex' = IF mutex = r THEN NoRunner ELSE mutex
    /\ \E l \in {"claim", "reapTasks", "idle"} : pc' = [pc EXCEPT ![r] = l]
    /\ \A x \in Runners \ {r} : cap'[x] = cap[x]

NoneJoins == \A x \in Runners : lease'[x] > 0 => lease[x] > 0

\* How the variables of the acquisition change when nobody joins.
Keeps(r) ==
    /\ NoneJoins
    /\ \A x \in Runners \ {r} : pc'[x] = pc[x] /\ cap'[x] = cap[x]
    /\ pc'[r] \in LockPCs => mutex' = r
    /\ Acquiring(r)' => lease'[r] = 0
    /\ pc'[r] = "insert" => Cardinality(Leased) < cap'[r] /\ lease' = lease
    /\ mutex # NoRunner /\ mutex # r => mutex' = mutex

LEMMA AcquisitionStep ==
  ASSUME TypeOK, CapInv, NEW r \in Runners, RunnerNext(r)
  PROVE  Joins(r) \/ Keeps(r)
<1> USE NullsAreFresh, Limits
<1> USE DEF TypeOK, CapInv, Keeps, NoneJoins, Acquiring, LockPCs, LeasePCs, BusyPCs, ExecPCs, Live, Goto
<1>1. CASE StartDrain(r) \/ \E t \in TaskIds : StartOne(r, t)
  BY <1>1 DEF StartDrain, StartOne
<1>2. CASE GetLock(r) \/ LockTimeout(r)
  BY <1>2 DEF GetLock, LockTimeout, Leave
<1>3. CASE ReapLeases(r)
  BY <1>3 DEF ReapLeases
<1>4. CASE Count(r)
  BY <1>4 DEF Count, Leave
<1>5. CASE Insert(r)
  BY <1>5 DEF Insert, Joins
<1>6. CASE NextSlot(r)
  BY <1>6 DEF NextSlot, Leave
<1>7. CASE DrainStep(r)
  BY <1>7 DEF DrainStep, ReapTasks, Sweep, Fetch, ClaimNext, Claimed, NotClaimed, BatchDone
<1>8. CASE ClaimOne(r)
  BY <1>8 DEF ClaimOne, Claimed, NotClaimed
<1>9. CASE Work(r)
  BY <1>9 DEF Work, Progress, Send, Poll, Reply, ExecDone
<1>10. CASE Settle(r)
  BY <1>10 DEF Settle, Finish, Publish, AfterPublish, NotPublished, PublishClosed, Release, ReleaseSwallowed, Leave
<1>11. CASE Kill(r)
  BY <1>11 DEF Kill, FreeMutex, Leave
<1>12. CASE AcquireFails(r)
  BY <1>12 DEF AcquireFails, FreeMutex, Leave, Joins
<1>13. CASE StatementFails(r) \/ FlushFails(r)
  BY <1>13 DEF StatementFails, FlushFails
<1> QED
  BY <1>1, <1>2, <1>3, <1>4, <1>5, <1>6, <1>7, <1>8, <1>9, <1>10, <1>11, <1>12, <1>13
     DEF RunnerNext, Acquire, Fails

\* The requests and the clock leave the acquisition alone.
LEMMA OtherStep ==
  ASSUME TypeOK, WebNext \/ Tick \/ UNCHANGED vars
  PROVE  UNCHANGED <<lease, mutex, pc, cap>>
BY DEF WebNext, Enqueue, RetryRead, RetryFlush, Cancel, Delete, Clear, DeleteRows, Tick

LEMMA CapStep ==
  ASSUME TypeOK, TypeOK', CapInv, [Next]_vars
  PROVE  CapInv'
<1> USE NullsAreFresh, Limits
<1>1. ASSUME NEW r \in Runners, Joins(r) PROVE CapInv'
  <2>1. mutex = r /\ \A x \in Runners : x # r => pc[x] \notin LockPCs
    BY <1>1, NullsAreFresh DEF CapInv, Joins, LockPCs, TypeOK
  <2>2. \A x \in Runners : pc'[x] \notin LockPCs
    BY <1>1, <2>1 DEF Joins, LockPCs, TypeOK
  <2>3. \A x \in Runners : Acquiring(x)' => ~Live(x)'
    BY <1>1 DEF CapInv, Joins, Acquiring, LockPCs, TypeOK, Live
  <2> QED
    BY <2>2, <2>3 DEF CapInv, LockPCs
<1>2. ASSUME NEW r \in Runners, Keeps(r) PROVE CapInv'
  <2>1. \A x \in Runners : pc'[x] \in LockPCs => mutex' = x
    BY <1>2 DEF CapInv, Keeps, LockPCs
  <2>2. \A x \in Runners : Acquiring(x)' => ~Live(x)'
    BY <1>2 DEF CapInv, Keeps, NoneJoins, Acquiring, LockPCs, TypeOK, Live
  <2>3. Cardinality(Leased') <= Cardinality(Leased)
    <3>1. Leased' \subseteq Leased
      BY <1>2 DEF Keeps, NoneJoins, Leased, Live, TypeOK
    <3> QED
      BY <3>1, LeasedFinite, FS_Subset
  <2>4. \A x \in Runners : pc'[x] = "insert" => Cardinality(Leased') < cap'[x]
    BY <1>2, <2>3, LeasedFinite DEF CapInv, Keeps, TypeOK
  <2> QED
    BY <2>1, <2>2, <2>4 DEF CapInv
<1>3. CASE WebNext \/ Tick \/ UNCHANGED vars
  BY <1>3, OtherStep DEF CapInv, Acquiring, Live, Leased
<1> QED
  BY <1>1, <1>2, <1>3, AcquisitionStep DEF Next

CapAction ==
    \A r \in Runners :
        ~Live(r) /\ lease'[r] > 0 =>
            Cardinality({x \in Runners : lease'[x] > 0}) <= cap[r]

LEMMA CapHolds ==
  ASSUME TypeOK, TypeOK', CapInv, [Next]_vars
  PROVE  CapAction
<1> SUFFICES ASSUME NEW r \in Runners, ~Live(r), lease'[r] > 0
             PROVE  Cardinality(Leased') <= cap[r]
  BY DEF CapAction, Leased, Live
<1>1. Joins(r)
  <2>1. ASSUME NEW x \in Runners, RunnerNext(x) PROVE Joins(r)
    BY <2>1, AcquisitionStep DEF Joins, Keeps, NoneJoins, TypeOK, Live
  <2>2. ~(WebNext \/ Tick \/ UNCHANGED vars)
    BY OtherStep DEF Live
  <2> QED
    BY <2>1, <2>2 DEF Next
<1>2. Leased' = Leased \cup {r}
  BY <1>1 DEF Joins, Leased, Live, TypeOK
<1>3. Cardinality(Leased') <= Cardinality(Leased) + 1
  BY <1>2, LeasedFinite, FS_AddElement
<1>4. Cardinality(Leased) < cap[r]
  BY <1>1 DEF CapInv, Joins
<1> QED
  BY <1>3, <1>4, LeasedFinite DEF TypeOK

\* max_concurrent: for every number of runners, every mixture of caps and any
\* interleaving of acquisitions, reaps, kills and leaks, a runner that joins
\* finds at most its own cap of leases, itself included.
THEOREM CapIsRespected == Spec => CapRespected
<1>1. Init => CapInv
  BY NullsAreFresh DEF Init, CapInv, Acquiring, LockPCs, Live
<1>2. TypeOK /\ TypeOK' /\ CapInv /\ [Next]_vars => CapInv' /\ CapAction
  BY CapStep, CapHolds
<1>3. TypeOK /\ TypeOK' /\ CapInv /\ [Next]_vars => [CapAction]_vars
  BY <1>2
<1> QED
  BY <1>1, <1>2, <1>3, TypeCorrect, PTL DEF Spec, CapRespected, CapAction

-----------------------------------------------------------------------------
(* Ownership.  A process holds the row it works on, up to the flush of its *)
(* release, until its lease is reaped; from then on the row is failed and  *)
(* fenced, or deleted, but never another process's.                        *)

Holding(r) == pc[r] \in BusyPCs \/ (pc[r] = "release" /\ out[r] # "none")

HasOut == \A r \in Runners :
    out[r] # "none" => pc[r] \in {"finish", "publish", "release"} /\ cur[r] # NoTask

OwnersLive == \A t \in TaskIds : owner[t] # NoRunner => Live(owner[t])

Mine(r, t) == status[t] = "RUNNING" /\ owner[t] = r

Lost(r, t) ==
    /\ ~Live(r)
    /\ \/ status[t] = "RUNNING" /\ owner[t] = NoRunner
       \/ status[t] = "FAILED" /\ abandoned[t]
       \/ status[t] = "none"

HoldInv == \A r \in Runners :
    Holding(r) /\ cur[r] \notin forced => Mine(r, cur[r]) \/ Lost(r, cur[r])

HoldersDiffer == \A r, s \in Runners :
    r # s /\ Holding(r) /\ Holding(s) /\ cur[r] = cur[s] => cur[r] \in forced

OwnInv == HasOut /\ OwnersLive /\ HoldInv /\ HoldersDiffer

\* A step that leaves the rows and the leases alone, and after which nobody
\* holds what it did not hold before.
LEMMA OwnFrame ==
  ASSUME OwnInv, HasOut', UNCHANGED <<rows, lease, forced>>,
         \A x \in Runners : Holding(x)' => Holding(x) /\ cur'[x] = cur[x]
  PROVE  OwnInv'
BY DEF OwnInv, OwnersLive, HoldInv, HoldersDiffer, Mine, Lost, Live

LEMMA OwnStep ==
  ASSUME TypeOK, TypeOK', CapInv, OwnInv, [Next]_vars
  PROVE  OwnInv'
<1> USE NullsAreFresh, Limits
<1> USE DEF TypeOK, OwnInv, HasOut, OwnersLive, HoldInv, HoldersDiffer, Holding, Mine, Lost,
            LockPCs, LeasePCs, BusyPCs, ExecPCs, Live, Goto
<1>1. ASSUME NEW r \in Runners, StartDrain(r) PROVE OwnInv'
  BY <1>1 DEF StartDrain
<1>2. ASSUME NEW r \in Runners, NEW t \in TaskIds, StartOne(r, t) PROVE OwnInv'
  BY <1>2 DEF StartOne
<1>3. ASSUME NEW r \in Runners, GetLock(r) PROVE OwnInv'
  BY <1>3 DEF GetLock
<1>4. ASSUME NEW r \in Runners, LockTimeout(r) PROVE OwnInv'
  BY <1>4 DEF LockTimeout, Leave
<1>5. ASSUME NEW r \in Runners, ReapLeases(r) PROVE OwnInv'
  BY <1>5 DEF ReapLeases
<1>6. ASSUME NEW r \in Runners, Count(r) PROVE OwnInv'
  <2>1. ~Holding(r)' /\ out[r] = "none"
    BY <1>6 DEF Count, Leave
  <2>2. \A x \in Runners \ {r} : pc'[x] = pc[x] /\ out'[x] = out[x] /\ cur'[x] = cur[x]
    BY <1>6 DEF Count, Leave
  <2>3. out'[r] = "none"
    BY <1>6, <2>1 DEF Count, Leave
  <2> QED
    <3>1. HasOut'
      BY <2>2, <2>3
    <3>2. \A x \in Runners : Holding(x)' => Holding(x) /\ cur'[x] = cur[x]
      BY <2>1, <2>2
    <3>3. UNCHANGED <<rows, lease, forced>>
      BY <1>6 DEF Count
    <3> QED
      BY <3>1, <3>2, <3>3, OwnFrame
<1>7. ASSUME NEW r \in Runners, Insert(r) PROVE OwnInv'
  BY <1>7 DEF Insert
<1>8. ASSUME NEW r \in Runners, NextSlot(r) PROVE OwnInv'
  <2>1. ~Holding(r)' /\ out[r] = "none"
    BY <1>8 DEF NextSlot, Leave
  <2>2. \A x \in Runners \ {r} : pc'[x] = pc[x] /\ out'[x] = out[x] /\ cur'[x] = cur[x]
    BY <1>8 DEF NextSlot, Leave
  <2>3. out'[r] = "none"
    BY <1>8, <2>1 DEF NextSlot, Leave
  <2> QED
    <3>1. HasOut'
      BY <2>2, <2>3
    <3>2. \A x \in Runners : Holding(x)' => Holding(x) /\ cur'[x] = cur[x]
      BY <2>1, <2>2
    <3>3. UNCHANGED <<rows, lease, forced>>
      BY <1>8 DEF NextSlot
    <3> QED
      BY <3>1, <3>2, <3>3, OwnFrame
<1>9. ASSUME NEW r \in Runners, ReapTasks(r) PROVE OwnInv'
  <2>1. UNCHANGED <<owner, lease, cur, out, forced>> /\ pc' = [pc EXCEPT ![r] = "sweep"]
    BY <1>9 DEF ReapTasks
  <2>2. ASSUME NEW x \in Runners, NEW t \in TaskIds, Mine(x, t) PROVE Mine(x, t)'
    BY <1>9, <2>2 DEF ReapTasks
  <2>3. ASSUME NEW x \in Runners, NEW t \in TaskIds, Lost(x, t) PROVE Lost(x, t)'
    BY <1>9, <2>3 DEF ReapTasks
  <2>4. HoldInv'
    BY <1>9, <2>1, <2>2, <2>3 DEF ReapTasks
  <2> QED
    <3>1. \A x \in Runners : Holding(x)' <=> Holding(x)
      BY <1>9, <2>1 DEF ReapTasks
    <3>2. HasOut' /\ OwnersLive' /\ HoldersDiffer'
      BY <1>9, <2>1, <3>1 DEF ReapTasks
    <3> QED
      BY <2>4, <3>2
<1>10. ASSUME NEW r \in Runners, Sweep(r) PROVE OwnInv'
  BY <1>10, NewRowsTyped DEF Sweep, InsertRows, Fresh
<1>11. ASSUME NEW r \in Runners, Fetch(r) PROVE OwnInv'
  BY <1>11 DEF Fetch
<1>12. ASSUME NEW r \in Runners, NEW t \in TaskIds, Claimed(r, t), pc[r] \in {"next", "claim"},
              UNCHANGED <<lease, out, forced>>
       PROVE  OwnInv'
  <2>1. \A x \in Runners : Holding(x) /\ cur[x] = t => t \in forced
    <3> SUFFICES ASSUME NEW x \in Runners, Holding(x), cur[x] = t, t \notin forced PROVE FALSE
      OBVIOUS
    <3>1. Mine(x, t) \/ Lost(x, t)
      OBVIOUS
    <3> QED
      BY <1>12, <3>1 DEF Claimed
  <2>2. out[r] = "none" /\ ~Holding(r)
    BY <1>12
  <2>3. \A x \in Runners \ {r} : (Holding(x)' <=> Holding(x)) /\ cur'[x] = cur[x]
    BY <1>12 DEF Claimed
  <2>4. OwnersLive' /\ HasOut'
    BY <1>12, <2>2 DEF Claimed, ClaimRow
  <2>5. cur'[r] = t /\ Mine(r, t)'
    BY <1>12 DEF Claimed, ClaimRow
  <2>6. HoldersDiffer'
    <3> SUFFICES ASSUME NEW x \in Runners, NEW y \in Runners, x # y,
                        Holding(x)', Holding(y)', cur'[x] = cur'[y]
                 PROVE  cur'[x] \in forced
      BY <1>12
    <3>1. CASE x = r
      <4>1. Holding(y) /\ cur[y] = t
        BY <2>3, <2>5, <3>1
      <4> QED
        BY <1>12, <2>1, <2>5, <3>1, <4>1
    <3>2. CASE y = r
      <4>1. Holding(x) /\ cur[x] = t
        BY <2>3, <2>5, <3>2
      <4> QED
        BY <1>12, <2>1, <2>5, <3>2, <4>1
    <3>3. CASE x # r /\ y # r
      BY <2>3, <3>3
    <3> QED
      BY <3>1, <3>2, <3>3
  <2>7. ASSUME NEW x \in Runners, x # r, Holding(x)', cur'[x] \notin forced'
        PROVE  Mine(x, cur[x])' \/ Lost(x, cur[x])'
    BY <1>12, <2>1, <2>3, <2>7 DEF Claimed, ClaimRow
  <2>8. HoldInv'
    BY <2>5, <2>7
  <2> QED
    BY <2>4, <2>6, <2>8
<1>13. ASSUME NEW r \in Runners, NEW t \in TaskIds, pc[r] \in {"next", "claim"},
              NotClaimed(r, t, "next") \/ NotClaimed(r, t, "release"),
              UNCHANGED <<lease, out, forced>>
       PROVE  OwnInv'
  <2>1. out[r] = "none" /\ ~Holding(r) /\ ~Holding(r)'
    BY <1>13 DEF NotClaimed
  <2>2. \A x \in Runners \ {r} : Holding(x)' <=> Holding(x)
    BY <1>13 DEF NotClaimed
  <2>3. HasOut'
    BY <1>13, <2>1 DEF NotClaimed
  <2> QED
    BY <1>13, <2>1, <2>2, <2>3, OwnFrame DEF NotClaimed
<1>14. ASSUME NEW r \in Runners, BatchDone(r) PROVE OwnInv'
  BY <1>14 DEF BatchDone
<1>15. ASSUME NEW r \in Runners, Work(r) PROVE OwnInv'
  BY <1>15 DEF Work, Progress, Send, Poll, Reply, ExecDone, Renew
<1>16. ASSUME NEW r \in Runners, Finish(r) PROVE OwnInv'
  <2>1. CASE pc' = [pc EXCEPT ![r] = "publish"] /\ UNCHANGED out
    BY <1>16, <2>1 DEF Finish
  <2>2. CASE /\ pc' = [pc EXCEPT ![r] = "release"]
             /\ \E o \in {"none", out[r]} : out' = [out EXCEPT ![r] = o]
    BY <1>16, <2>2 DEF Finish
  <2> QED
    BY <1>16, <2>1, <2>2 DEF Finish
<1>17. ASSUME NEW r \in Runners, Publish(r) PROVE OwnInv'
  BY <1>17 DEF Publish, AfterPublish, Owned
<1>18. ASSUME NEW r \in Runners, NotPublished(r) PROVE OwnInv'
  BY <1>18 DEF NotPublished, AfterPublish
<1>19. ASSUME NEW r \in Runners, PublishClosed(r) PROVE OwnInv'
  BY <1>19 DEF PublishClosed
<1>20. ASSUME NEW r \in Runners, Release(r) PROVE OwnInv'
  BY <1>20 DEF Release, Dirty, Leave
<1>21. ASSUME NEW r \in Runners, ReleaseSwallowed(r) PROVE OwnInv'
  BY <1>21 DEF ReleaseSwallowed, Leave
<1>22. ASSUME NEW r \in Runners, Kill(r) PROVE OwnInv'
  BY <1>22 DEF Kill, Leave
<1>23. ASSUME NEW r \in Runners, AcquireFails(r) PROVE OwnInv'
  BY <1>23 DEF AcquireFails, Leave
<1>24. ASSUME NEW r \in Runners, StatementFails(r) PROVE OwnInv'
  BY <1>24 DEF StatementFails
<1>25. ASSUME NEW r \in Runners, FlushFails(r) PROVE OwnInv'
  <2>1. CASE pc[r] = "exec"
    <3>1. HasOut'
      BY <1>25, <2>1 DEF FlushFails
    <3>2. \A x \in Runners : Holding(x)' => Holding(x) /\ cur'[x] = cur[x]
      BY <1>25, <2>1 DEF FlushFails
    <3> QED
      BY <1>25, <3>1, <3>2, OwnFrame DEF FlushFails
  <2>2. CASE pc[r] \in {"publish", "release"}
    BY <1>25, <2>2 DEF FlushFails
  <2> QED
    BY <1>25, <2>1, <2>2 DEF FlushFails
<1>26. ASSUME NEW K \in SUBSET Keys, Enqueue(K) PROVE OwnInv'
  BY <1>26, NewRowsTyped DEF Enqueue, InsertRows, Fresh
<1>27. ASSUME NEW q \in Requests, NEW t \in TaskIds, RetryRead(q, t) PROVE OwnInv'
  BY <1>27 DEF RetryRead
<1>28. ASSUME NEW q \in Requests, RetryFlush(q) PROVE OwnInv'
  BY <1>28 DEF RetryFlush, Retryable
<1>29. ASSUME NEW t \in TaskIds, Cancel(t) PROVE OwnInv'
  BY <1>29 DEF Cancel
<1>30. ASSUME NEW T \in SUBSET TaskIds, DeleteRows(T),
              \A t \in T : status[t] = "RUNNING" => owner[t] = NoRunner
       PROVE  OwnInv'
  BY <1>30 DEF DeleteRows
<1>31. CASE Tick
  BY <1>31 DEF Tick
<1>32. CASE UNCHANGED vars
  BY <1>32
<1>33. ASSUME NEW r \in Runners, ClaimNext(r) \/ ClaimOne(r) PROVE OwnInv'
  BY <1>12, <1>13, <1>33 DEF ClaimNext, ClaimOne
<1>34. ASSUME NEW t \in TaskIds, Delete(t) PROVE OwnInv'
  <2>1. {t} \in SUBSET TaskIds /\ DeleteRows({t})
    BY <1>34 DEF Delete
  <2>2. \A u \in {t} : status[u] = "RUNNING" => owner[u] = NoRunner
    BY <1>34 DEF Delete
  <2> QED
    BY ONLY <1>30, <2>1, <2>2
<1>35. CASE Clear
  BY <1>30, <1>35 DEF Clear, Finished
<1> QED
  BY <1>1, <1>2, <1>3, <1>4, <1>5, <1>6, <1>7, <1>8, <1>9, <1>10, <1>11, <1>14, <1>15, <1>16,
     <1>17, <1>18, <1>19, <1>20, <1>21, <1>22, <1>23, <1>24, <1>25, <1>26, <1>27, <1>28, <1>29,
     <1>31, <1>32, <1>33, <1>34, <1>35
     DEF Next, RunnerNext, WebNext, Acquire, DrainStep, Settle, Fails

-----------------------------------------------------------------------------
(* The unique index on username, type and open_task.                       *)

UniqueOpen == \A t, u \in TaskIds :
    t # u /\ keyOf[t] = keyOf[u] /\ Open(t) => ~Open(u)

OpensNone == keyOf' = keyOf /\ \A t \in TaskIds : Open(t)' => Open(t)

LEMMA UniqueInsert ==
  ASSUME TypeOK, UniqueOpen, NEW K \in SUBSET Keys, \A k \in K : ~OpenKey(k),
         NEW new \in NewRows(K), InsertRows(new)
  PROVE  UniqueOpen'
BY NewRowsTyped DEF TypeOK, UniqueOpen, OpenKey, Open, InsertRows

LEMMA UniqueStep ==
  ASSUME TypeOK, UniqueOpen, [Next]_vars
  PROVE  UniqueOpen'
<1>1. CASE OpensNone
  BY <1>1 DEF UniqueOpen, OpensNone
<1>2. ASSUME NEW r \in Runners, RunnerNext(r) PROVE UniqueOpen'
  <2> USE DEF TypeOK, Open
  <2>1. CASE ReapTasks(r)
    <3>1. OpensNone
      BY <2>1 DEF ReapTasks, OpensNone
    <3> QED
      BY <1>1, <3>1
  <2>2. CASE Sweep(r)
    <3>1. CASE UNCHANGED rows
      BY <1>1, <3>1 DEF OpensNone
    <3>2. ASSUME NEW K \in SUBSET PruneKeys, \A k \in K : ~OpenKey(k),
                 NEW new \in NewRows(K), InsertRows(new)
          PROVE  UniqueOpen'
      BY <3>2, UniqueInsert, PruneAreKeys
    <3> QED
      BY <2>2, <3>1, <3>2 DEF Sweep
  <2>3. ASSUME NEW t \in TaskIds, Claimed(r, t) PROVE UniqueOpen'
    <3>1. OpensNone
      BY <2>3 DEF Claimed, ClaimRow, OpensNone
    <3> QED
      BY <1>1, <3>1
  <2>4. CASE Publish(r)
    <3>1. OpensNone
      BY <2>4 DEF Publish, OpensNone, Outcomes
    <3> QED
      BY <1>1, <3>1
  <2>5. CASE Release(r)
    <3>1. OpensNone
      BY <2>5 DEF Release, OpensNone, Outcomes
    <3> QED
      BY <1>1, <3>1
  <2>6. CASE ReapLeases(r)
    BY <1>1, <2>6 DEF ReapLeases, OpensNone
  <2>7. CASE UNCHANGED rows
    BY <1>1, <2>7 DEF OpensNone
  <2>8. ASSUME NEW t \in TaskIds,
               NotClaimed(r, t, "next") \/ NotClaimed(r, t, "release")
        PROVE  UniqueOpen'
    BY <2>7, <2>8 DEF NotClaimed
  <2>9. CASE StartDrain(r) \/ \E t \in TaskIds : StartOne(r, t)
    BY <2>7, <2>9 DEF StartDrain, StartOne
  <2>10. CASE GetLock(r) \/ LockTimeout(r) \/ Count(r) \/ Insert(r) \/ NextSlot(r)
    BY <2>7, <2>10 DEF GetLock, LockTimeout, Count, Insert, NextSlot
  <2>11. CASE Fetch(r) \/ BatchDone(r)
    BY <2>7, <2>11 DEF Fetch, BatchDone
  <2>12. CASE Work(r)
    BY <2>7, <2>12 DEF Work, Progress, Send, Poll, Reply, ExecDone
  <2>13. CASE Finish(r) \/ NotPublished(r) \/ PublishClosed(r) \/ ReleaseSwallowed(r)
    BY <2>7, <2>13 DEF Finish, NotPublished, PublishClosed, ReleaseSwallowed
  <2>14. CASE Fails(r)
    BY <2>7, <2>14 DEF Fails, Kill, AcquireFails, StatementFails, FlushFails
  <2>15. CASE ClaimNext(r)
    BY <2>3, <2>8, <2>15 DEF ClaimNext
  <2>16. CASE ClaimOne(r)
    BY <2>3, <2>8, <2>16 DEF ClaimOne
  <2> QED
    BY <1>2, <2>1, <2>2, <2>4, <2>5, <2>6, <2>9, <2>10, <2>11, <2>12, <2>13, <2>14, <2>15, <2>16
       DEF RunnerNext, Acquire, DrainStep, Settle
<1>3. CASE WebNext
  <2> USE DEF TypeOK, Open
  <2>1. ASSUME NEW K \in SUBSET Keys, Enqueue(K) PROVE UniqueOpen'
    BY <2>1, UniqueInsert DEF Enqueue
  <2>2. ASSUME NEW q \in Requests, RetryFlush(q) PROVE UniqueOpen'
    BY <2>2 DEF RetryFlush, UniqueOpen
  <2>3. ASSUME NEW t \in TaskIds, Cancel(t) PROVE UniqueOpen'
    <3>1. OpensNone
      BY <2>3 DEF Cancel, OpensNone
    <3> QED
      BY <1>1, <3>1
  <2>4. ASSUME NEW T \in SUBSET TaskIds, DeleteRows(T) PROVE UniqueOpen'
    <3>1. OpensNone
      BY <2>4 DEF DeleteRows, OpensNone
    <3> QED
      BY <1>1, <3>1
  <2>5. ASSUME NEW q \in Requests, NEW t \in TaskIds, RetryRead(q, t) PROVE UniqueOpen'
    BY <1>1, <2>5 DEF RetryRead, OpensNone
  <2> QED
    BY <1>3, <2>1, <2>2, <2>3, <2>4, <2>5 DEF WebNext, Delete, Clear, Finished
<1>4. CASE Tick \/ UNCHANGED vars
  BY <1>1, <1>4 DEF Tick, OpensNone, Open
<1> QED
  BY <1>2, <1>3, <1>4 DEF Next

-----------------------------------------------------------------------------
(* Heartbeats.  A lease is reaped only when it is older than TTL, so it is *)
(* due by then, and stays due: the next report of its process throws.      *)

LateInv == \A r \in Runners :
    /\ pc[r] \in LeasePCs /\ ~Live(r) => Due(r)
    /\ late[r] <= 1
    /\ late[r] > 0 => pc[r] \in LeasePCs \ {"send"} /\ ~Live(r)

LEMMA LateStep ==
  ASSUME TypeOK, TypeOK', LateInv, [Next]_vars
  PROVE  LateInv'
<1> USE NullsAreFresh, Limits
<1> USE DEF TypeOK, LateInv, LockPCs, LeasePCs, BusyPCs, ExecPCs, Live, Due, Goto
<1>1. ASSUME NEW r \in Runners, StartDrain(r) \/ \E t \in TaskIds : StartOne(r, t)
      PROVE  LateInv'
  BY <1>1 DEF StartDrain, StartOne
<1>2. ASSUME NEW r \in Runners, GetLock(r) PROVE LateInv'
  BY <1>2 DEF GetLock
<1>3. ASSUME NEW r \in Runners, LockTimeout(r) PROVE LateInv'
  BY <1>3 DEF LockTimeout, Leave
<1>4. ASSUME NEW r \in Runners, ReapLeases(r) PROVE LateInv'
  BY <1>4 DEF ReapLeases, Leased
<1>5. ASSUME NEW r \in Runners, Count(r) PROVE LateInv'
  BY <1>5 DEF Count, Leave
<1>6. ASSUME NEW r \in Runners, Insert(r) PROVE LateInv'
  BY <1>6 DEF Insert
<1>7. ASSUME NEW r \in Runners, NextSlot(r) PROVE LateInv'
  BY <1>7 DEF NextSlot, Leave
<1>8. ASSUME NEW r \in Runners, ReapTasks(r) \/ Sweep(r) \/ Fetch(r) \/ BatchDone(r)
      PROVE  LateInv'
  BY <1>8 DEF ReapTasks, Sweep, Fetch, BatchDone
<1>9. ASSUME NEW r \in Runners, ClaimNext(r) \/ ClaimOne(r) PROVE LateInv'
  BY <1>9 DEF ClaimNext, ClaimOne, Claimed, NotClaimed
<1>10. ASSUME NEW r \in Runners, Progress(r) PROVE LateInv'
  BY <1>10 DEF Progress, Renew
<1>11. ASSUME NEW r \in Runners, Send(r) PROVE LateInv'
  BY <1>11 DEF Send
<1>12. ASSUME NEW r \in Runners, Poll(r) PROVE LateInv'
  BY <1>12 DEF Poll, Renew
<1>13. ASSUME NEW r \in Runners, Reply(r) \/ ExecDone(r) PROVE LateInv'
  BY <1>13 DEF Reply, ExecDone
<1>14. ASSUME NEW r \in Runners, Finish(r) PROVE LateInv'
  BY <1>14 DEF Finish, Renew
<1>15. ASSUME NEW r \in Runners, Publish(r) \/ NotPublished(r) \/ PublishClosed(r)
       PROVE  LateInv'
  BY <1>15 DEF Publish, NotPublished, PublishClosed, AfterPublish
<1>16. ASSUME NEW r \in Runners, Release(r) \/ ReleaseSwallowed(r) PROVE LateInv'
  BY <1>16 DEF Release, ReleaseSwallowed, Leave
<1>17. ASSUME NEW r \in Runners, Kill(r) PROVE LateInv'
  BY <1>17 DEF Kill, Leave
<1>18. ASSUME NEW r \in Runners, AcquireFails(r) PROVE LateInv'
  BY <1>18 DEF AcquireFails, Leave
<1>19. ASSUME NEW r \in Runners, StatementFails(r) \/ FlushFails(r) PROVE LateInv'
  BY <1>19 DEF StatementFails, FlushFails
<1>20. CASE WebNext
  BY <1>20 DEF WebNext, Enqueue, RetryRead, RetryFlush, Cancel, Delete, Clear, DeleteRows
<1>21. CASE Tick
  BY <1>21 DEF Tick, Aging
<1>22. CASE UNCHANGED vars
  BY <1>22
<1> QED
  BY <1>1, <1>2, <1>3, <1>4, <1>5, <1>6, <1>7, <1>8, <1>9, <1>10, <1>11, <1>12, <1>13,
     <1>14, <1>15, <1>16, <1>17, <1>18, <1>19, <1>20, <1>21, <1>22
     DEF Next, RunnerNext, Acquire, DrainStep, Work, Settle, Fails

-----------------------------------------------------------------------------
IInv == TypeOK /\ CapInv /\ OwnInv /\ UniqueOpen /\ LateInv

\* The inductive invariant, for every number of runners, tasks, requests,
\* faults and ticks.
THEOREM Inductive == Spec => []IInv
<1>1. TypeOK /\ Init => IInv
  BY NullsAreFresh DEF Init, IInv, CapInv, Acquiring, OwnInv, HasOut, OwnersLive, HoldInv, Holding,
     HoldersDiffer, UniqueOpen, Open, LateInv, LockPCs, LeasePCs, BusyPCs, ExecPCs, Live, TypeOK
<1>2. TypeOK' /\ IInv /\ [Next]_vars => IInv'
  BY CapStep, OwnStep, UniqueStep, LateStep DEF IInv
<1> QED
  BY <1>1, <1>2, TypeCorrect, PTL DEF Spec

\* Ownership: while a runner with a live lease executes a task no retry has
\* overwritten, its row is RUNNING and names that lease.
THEOREM Ownership == Spec => []OwnedWhileExecuting
<1>1. IInv => OwnedWhileExecuting
  BY DEF IInv, OwnInv, HoldInv, Holding, Mine, Lost, OwnedWhileExecuting, Owned
<1> QED
  BY <1>1, Inductive, PTL

\* The fence: two runners execute tasks of one username and type only if the
\* row of one was deleted by hand or overwritten by a stale retry.
THEOREM Fence == Spec => []KeyExclusion
<1>1. IInv => KeyExclusion
  <2> SUFFICES ASSUME IInv, NEW r \in Runners, NEW s \in Runners, r # s,
                      pc[r] \in ExecPCs, pc[s] \in ExecPCs, keyOf[cur[r]] = keyOf[cur[s]],
                      status[cur[r]] # "none", status[cur[s]] # "none",
                      cur[r] \notin forced, cur[s] \notin forced
               PROVE  FALSE
    BY DEF KeyExclusion
  <2>1. /\ cur[r] \in TaskIds /\ Holding(r)
        /\ cur[s] \in TaskIds /\ Holding(s)
    BY DEF IInv, TypeOK, Holding, BusyPCs
  <2>2. Open(cur[r]) /\ Open(cur[s])
    BY <2>1 DEF IInv, OwnInv, HoldInv, Mine, Lost, Open
  <2>3. cur[r] # cur[s]
    BY <2>1 DEF IInv, OwnInv, HoldersDiffer
  <2> QED
    BY <2>1, <2>2, <2>3 DEF IInv, UniqueOpen
<1> QED
  BY <1>1, Inductive, PTL

\* Heartbeats: a runner sends at most one request after its lease is reaped.
THEOREM AtMostOneLateCommand == Spec => []LateCommands
<1>1. IInv => LateCommands
  BY DEF IInv, LateInv, LateCommands
<1> QED
  BY <1>1, Inductive, PTL

-----------------------------------------------------------------------------
(* The queue implements TaskLife: every step moves every row as promised.  *)

Ended == {"DONE", "FAILED", "CANCELLED"}

\* What one step may do to one row, told by its columns.
RowSame(t)    == /\ status'[t] = status[t] /\ abandoned'[t] = abandoned[t]
                 /\ status[t] = "RUNNING" => owner'[t] = owner[t]
RowAdded(t)   == status[t] = "none" /\ status'[t] = "PENDING" /\ ~abandoned'[t]
RowTaken(t)   == /\ status[t] = "PENDING" /\ status'[t] = "RUNNING"
                 /\ owner'[t] \in Runners /\ ~abandoned'[t]
RowSettled(t) == /\ status[t] = "RUNNING" /\ status'[t] \in {"DONE", "FAILED"}
                 /\ abandoned'[t] = abandoned[t]
RowLost(t)    == /\ status[t] = "RUNNING" /\ status'[t] = "RUNNING"
                 /\ abandoned'[t] = abandoned[t] /\ owner'[t] = NoRunner
RowFenced(t)  == /\ status[t] = "RUNNING" /\ owner[t] = NoRunner
                 /\ status'[t] = "FAILED" /\ abandoned'[t]
RowDropped(t) == /\ status[t] = "PENDING" /\ status'[t] = "CANCELLED"
                 /\ abandoned'[t] = abandoned[t]
RowAgain(t)   == /\ status[t] = "FAILED" /\ ~abandoned[t] /\ status'[t] = "PENDING"
                 /\ abandoned'[t] = abandoned[t]
RowRemoved(t) == /\ status'[t] = "none" /\ ~abandoned'[t]
                 /\ status[t] = "RUNNING" => owner[t] = NoRunner
RowLate(t)    == /\ status[t] = "FAILED" /\ status'[t] \in {"DONE", "FAILED"}
                 /\ abandoned'[t] = abandoned[t]

RowStep(t) ==
    \/ RowSame(t) \/ RowAdded(t) \/ RowTaken(t) \/ RowSettled(t) \/ RowLost(t)
    \/ RowFenced(t) \/ RowDropped(t) \/ RowAgain(t) \/ RowRemoved(t) \/ RowLate(t)

RowsStep ==
    \A t \in TaskIds :
        /\ t \in forced \/ t \in forced' \/ RowStep(t)
        /\ t \in forced \ forced' => RowAdded(t)

\* Only a settled row is fenced, unless a stale retry overwrote it.
FencedInv ==
    \A t \in TaskIds \ forced : status[t] \in {"none", "PENDING", "RUNNING"} => ~abandoned[t]

LEMMA SameRows == ASSUME UNCHANGED <<rows, forced>> PROVE RowsStep
  BY DEF RowsStep, RowStep, RowSame

LEMMA InsertStep ==
  ASSUME TypeOK, NEW K, NEW new \in NewRows(K), InsertRows(new)
  PROVE  RowsStep
  <1>1. ASSUME NEW t \in TaskIds, t \in DOMAIN new PROVE RowAdded(t)
    BY <1>1, NewRowsTyped DEF TypeOK, InsertRows, Fresh, RowAdded
  <1>2. ASSUME NEW t \in TaskIds, t \notin DOMAIN new PROVE RowSame(t)
    BY <1>2 DEF TypeOK, InsertRows, RowSame
  <1>3. forced' = forced \ DOMAIN new
    BY DEF InsertRows
  <1>. QED
    BY <1>1, <1>2, <1>3 DEF RowsStep, RowStep

LEMMA RunnerRows ==
  ASSUME TypeOK, OwnInv, NEW r \in Runners, RunnerNext(r)
  PROVE  RowsStep
  <1>. USE DEF TypeOK
  <1>1. CASE ReapTasks(r)
    BY <1>1 DEF ReapTasks, RowsStep, RowStep, RowSame, RowFenced
  <1>2. CASE Sweep(r)
    BY <1>2, InsertStep, SameRows DEF Sweep
  <1>3. ASSUME NEW t \in TaskIds, Claimed(r, t), UNCHANGED forced PROVE RowsStep
    BY <1>3 DEF Claimed, ClaimRow, RowsStep, RowStep, RowSame, RowTaken
  <1>4. CASE Publish(r)
    <2>1. cur[r] \in TaskIds /\ out[r] \in {"DONE", "FAILED"} /\ status[cur[r]] = "RUNNING"
      BY <1>4 DEF Publish, Owned, BusyPCs, Outcomes
    <2>. QED
      BY <1>4, <2>1 DEF Publish, RowsStep, RowStep, RowSame, RowSettled
  <1>5. CASE Release(r)
    <2>1. ASSUME NEW t \in TaskIds, t # cur[r] \/ ~Dirty(r) PROVE RowStep(t)
      BY <1>5, <2>1 DEF Release, RowStep, RowSame, RowLost
    <2>2. ASSUME cur[r] \in TaskIds, Dirty(r), cur[r] \notin forced PROVE RowStep(cur[r])
      <3>1. Mine(r, cur[r]) \/ Lost(r, cur[r])
        BY <1>5, <2>2 DEF Release, Dirty, OwnInv, HoldInv, Holding
      <3>2. out[r] \in {"DONE", "FAILED"}
        BY <2>2 DEF Dirty, Outcomes
      <3>. QED
        BY <1>5, <2>2, <3>1, <3>2
           DEF Release, Dirty, Mine, Lost, RowStep, RowSettled, RowLate
    <2>3. forced' = forced
      BY <1>5 DEF Release
    <2>. QED
      BY <2>1, <2>2, <2>3 DEF RowsStep
  <1>6. CASE ReapLeases(r)
    BY <1>6 DEF ReapLeases, RowsStep, RowStep, RowSame, RowLost
  <1>7. CASE StartDrain(r) \/ \E t \in TaskIds : StartOne(r, t)
    BY <1>7, SameRows DEF StartDrain, StartOne
  <1>8. CASE GetLock(r) \/ LockTimeout(r) \/ Count(r) \/ Insert(r) \/ NextSlot(r)
    BY <1>8, SameRows DEF GetLock, LockTimeout, Count, Insert, NextSlot
  <1>9. CASE Fetch(r) \/ BatchDone(r)
    BY <1>9, SameRows DEF Fetch, BatchDone
  <1>10. CASE Work(r)
    BY <1>10, SameRows DEF Work, Progress, Send, Poll, Reply, ExecDone
  <1>11. CASE Finish(r) \/ NotPublished(r) \/ PublishClosed(r) \/ ReleaseSwallowed(r)
    BY <1>11, SameRows DEF Finish, NotPublished, PublishClosed, ReleaseSwallowed
  <1>12. CASE Fails(r)
    BY <1>12, SameRows DEF Fails, Kill, AcquireFails, StatementFails, FlushFails
  <1>13. ASSUME NEW t \in TaskIds, UNCHANGED forced,
                NotClaimed(r, t, "next") \/ NotClaimed(r, t, "release")
         PROVE  RowsStep
    BY <1>13, SameRows DEF NotClaimed
  <1>14. CASE ClaimNext(r)
    BY <1>3, <1>13, <1>14 DEF ClaimNext
  <1>15. CASE ClaimOne(r)
    BY <1>3, <1>13, <1>15 DEF ClaimOne
  <1>. QED
    BY <1>1, <1>2, <1>4, <1>5, <1>6, <1>7, <1>8, <1>9, <1>10, <1>11, <1>12, <1>14, <1>15
       DEF RunnerNext, Acquire, DrainStep, Settle

LEMMA WebRows == ASSUME TypeOK, WebNext PROVE RowsStep
  <1>. USE DEF TypeOK
  <1>1. ASSUME NEW K \in SUBSET Keys, Enqueue(K) PROVE RowsStep
    BY <1>1, InsertStep DEF Enqueue
  <1>2. ASSUME NEW q \in Requests, NEW t \in TaskIds, RetryRead(q, t) PROVE RowsStep
    BY <1>2, SameRows DEF RetryRead
  <1>3. ASSUME NEW q \in Requests, RetryFlush(q) PROVE RowsStep
    BY <1>3, SameRows DEF RetryFlush, Retryable, RowsStep, RowStep, RowSame, RowAgain
  <1>4. ASSUME NEW t \in TaskIds, Cancel(t) PROVE RowsStep
    BY <1>4 DEF Cancel, RowsStep, RowStep, RowSame, RowDropped
  <1>5. ASSUME NEW T \in SUBSET TaskIds, DeleteRows(T),
               \A t \in T : status[t] = "RUNNING" => owner[t] = NoRunner
        PROVE  RowsStep
    BY <1>5 DEF DeleteRows, RowsStep, RowStep, RowSame, RowRemoved
  <1>6. ASSUME NEW t \in TaskIds, Delete(t) PROVE RowsStep
    BY <1>5, <1>6 DEF Delete
  <1>7. CASE Clear
    BY <1>5, <1>7 DEF Clear, Finished
  <1>. QED
    BY <1>1, <1>2, <1>3, <1>4, <1>6, <1>7 DEF WebNext

LEMMA AllRows == ASSUME TypeOK, OwnInv, [Next]_vars PROVE RowsStep
  BY RunnerRows, WebRows, SameRows DEF Next, Tick

LEMMA FencedStep == ASSUME TypeOK, FencedInv, RowsStep PROVE FencedInv'
  <1>. SUFFICES ASSUME NEW t \in TaskIds, t \notin forced',
                       status'[t] \in {"none", "PENDING", "RUNNING"}
                PROVE  ~abandoned'[t]
    BY DEF FencedInv
  <1>1. CASE t \in forced
    BY <1>1 DEF RowsStep, RowAdded
  <1>2. CASE t \notin forced
    <2>1. RowStep(t)
      BY <1>2 DEF RowsStep
    <2>2. status[t] \in {"none", "PENDING", "RUNNING"} => ~abandoned[t]
      BY <1>2 DEF FencedInv
    <2>. QED
      BY <2>1, <2>2 DEF RowStep, RowSame, RowAdded, RowTaken, RowSettled, RowLost, RowFenced,
           RowDropped, RowAgain, RowRemoved, RowLate
  <1>. QED
    BY <1>1, <1>2

-----------------------------------------------------------------------------
LEMMA StageOf ==
  ASSUME TypeOK, NEW t \in TaskIds
  PROVE  /\ status[t] = "none" => Stage(t) = "none"
         /\ status[t] = "PENDING" => Stage(t) = "waiting"
         /\ status[t] = "RUNNING" => Stage(t) = "taken"
         /\ status[t] \in Ended /\ abandoned[t] => Stage(t) = "fenced"
         /\ status[t] \in Ended /\ ~abandoned[t] => Stage(t) = "settled"
         /\ status[t] = "RUNNING" => Holder(t) = owner[t]
         /\ status[t] # "RUNNING" => Holder(t) = NoRunner
  BY DEF TypeOK, Stage, Holder, Ended

LEMMA StagePrimed ==
  ASSUME TypeOK', NEW t \in TaskIds
  PROVE  /\ status'[t] = "none" => Stage(t)' = "none"
         /\ status'[t] = "PENDING" => Stage(t)' = "waiting"
         /\ status'[t] = "RUNNING" => Stage(t)' = "taken"
         /\ status'[t] \in Ended /\ abandoned'[t] => Stage(t)' = "fenced"
         /\ status'[t] \in Ended /\ ~abandoned'[t] => Stage(t)' = "settled"
         /\ status'[t] = "RUNNING" => Holder(t)' = owner'[t]
         /\ status'[t] # "RUNNING" => Holder(t)' = NoRunner
  BY DEF TypeOK, Stage, Holder, Ended

\* A step of the columns is a move of the abstract task.
LEMMA RowMoves ==
  ASSUME TypeOK, TypeOK', FencedInv, NEW t \in TaskIds, t \notin forced, RowStep(t)
  PROVE  Life!Move(t)
  <1>. DEFINE S  == Stage(t)
              Sn == Stage(t)'
              H  == Holder(t)
              Hn == Holder(t)'
  <1>1. /\ [u \in TaskIds |-> Stage(u)][t] = S
        /\ [u \in TaskIds |-> Stage(u)]'[t] = Sn
        /\ [u \in TaskIds |-> Holder(u)][t] = H
        /\ [u \in TaskIds |-> Holder(u)]'[t] = Hn
    OBVIOUS
  <1>2. /\ status[t] = "none" => S = "none"
        /\ status[t] = "PENDING" => S = "waiting"
        /\ status[t] = "RUNNING" => S = "taken" /\ H = owner[t]
        /\ status[t] \in Ended => S = IF abandoned[t] THEN "fenced" ELSE "settled"
        /\ status[t] # "RUNNING" => H = NoRunner
    BY StageOf
  <1>3. /\ status'[t] = "none" => Sn = "none"
        /\ status'[t] = "PENDING" => Sn = "waiting"
        /\ status'[t] = "RUNNING" => Sn = "taken" /\ Hn = owner'[t]
        /\ status'[t] \in Ended => Sn = IF abandoned'[t] THEN "fenced" ELSE "settled"
        /\ status'[t] # "RUNNING" => Hn = NoRunner
    BY StagePrimed
  <1>. HIDE DEF S, Sn, H, Hn
  <1>. USE <1>1, <1>2, <1>3 DEF Ended, Life!Turns, Life!Free
  <1>4. status[t] \in {"none", "PENDING", "RUNNING"} => ~abandoned[t]
    BY DEF FencedInv
  <1>5. /\ status[t] \in {"none", "PENDING", "RUNNING"} \cup Ended
        /\ owner[t] \in Runners \cup {NoRunner}
    BY DEF TypeOK, Statuses
  <1>6. CASE RowSame(t)
    <2>1. Life!Stay(t)
      BY <1>5, <1>6 DEF RowSame, Life!Stay
    <2>. QED
      BY <2>1 DEF Life!Move
  <1>7. CASE RowAdded(t)
    <2>1. Life!Add(t)
      BY <1>7 DEF RowAdded, Life!Add
    <2>. QED
      BY <2>1 DEF Life!Move
  <1>8. CASE RowTaken(t)
    <2>1. Life!Take(t)
      BY <1>8 DEF RowTaken, Life!Take
    <2>. QED
      BY <2>1 DEF Life!Move
  <1>9. CASE RowSettled(t)
    <2>1. Life!Settle(t)
      BY <1>4, <1>9 DEF RowSettled, Life!Settle
    <2>. QED
      BY <2>1 DEF Life!Move
  <1>10. CASE RowLost(t)
    <2>1. Life!Lose(t)
      BY <1>10 DEF RowLost, Life!Lose
    <2>. QED
      BY <2>1 DEF Life!Move
  <1>11. CASE RowFenced(t)
    <2>1. Life!Fence(t)
      BY <1>11 DEF RowFenced, Life!Fence
    <2>. QED
      BY <2>1 DEF Life!Move
  <1>12. CASE RowDropped(t)
    <2>1. Life!Drop(t)
      BY <1>4, <1>12 DEF RowDropped, Life!Drop
    <2>. QED
      BY <2>1 DEF Life!Move
  <1>13. CASE RowAgain(t)
    <2>1. Life!Again(t)
      BY <1>13 DEF RowAgain, Life!Again
    <2>. QED
      BY <2>1 DEF Life!Move
  <1>14. CASE RowRemoved(t)
    <2>1. Life!Remove(t)
      BY <1>5, <1>14 DEF RowRemoved, Life!Remove
    <2>. QED
      BY <2>1 DEF Life!Move
  <1>15. CASE RowLate(t)
    <2>1. Life!Stay(t)
      BY <1>15 DEF RowLate, Life!Stay
    <2>. QED
      BY <2>1 DEF Life!Move
  <1>. QED
    BY <1>6, <1>7, <1>8, <1>9, <1>10, <1>11, <1>12, <1>13, <1>14, <1>15 DEF RowStep

LEMMA StepIsLife ==
  ASSUME TypeOK, TypeOK', OwnInv, FencedInv, [Next]_vars
  PROVE  [Life!Next]_(Life!vars)
  <1>1. RowsStep
    BY AllRows
  <1>2. ASSUME NEW t \in TaskIds, t \in forced \ forced' PROVE Life!Add(t)
    <2>1. RowAdded(t)
      BY <1>1, <1>2 DEF RowsStep
    <2>. QED
      BY <2>1, StageOf, StagePrimed DEF RowAdded, Life!Add, Life!Turns, Life!Free
  <1>3. ASSUME NEW t \in TaskIds, t \notin forced, t \notin forced' PROVE Life!Move(t)
    BY <1>1, <1>3, RowMoves DEF RowsStep
  <1>. QED
    BY <1>2, <1>3 DEF Life!Next

\* The queue implements TaskLife, for every number of runners, tasks, requests,
\* faults and ticks: whatever the processes and requests do at once, a row no
\* stale retry has overwritten is taken once per time it waited, and what its
\* holder lost is not handed to another.
THEOREM QueueImplementsLife == Spec => LivesAsPromised
  <1>1. TypeOK /\ Init => Life!Init /\ FencedInv
    <2>. SUFFICES ASSUME TypeOK, Init PROVE Life!Init /\ FencedInv
      OBVIOUS
    <2>1. \A t \in TaskIds : Stage(t) = "none" /\ Holder(t) = NoRunner
      BY StageOf DEF Init
    <2>. QED
      BY <2>1 DEF Init, Life!Init, FencedInv
  <1>2. TypeOK /\ OwnInv /\ FencedInv /\ [Next]_vars => FencedInv'
    BY AllRows, FencedStep
  <1>3. TypeOK /\ TypeOK' /\ OwnInv /\ FencedInv /\ [Next]_vars => [Life!Next]_(Life!vars)
    BY StepIsLife
  <1>4. IInv => OwnInv
    BY DEF IInv
  <1>. QED
    BY <1>1, <1>2, <1>3, <1>4, Inductive, TypeCorrect, PTL DEF Spec, LivesAsPromised, Life!Spec
=============================================================================
