--------------------------- MODULE ThrottleProofs ---------------------------
(***************************************************************************)
(* Theorems about Throttle, for any sources, workers and settings: the     *)
(* state is well typed, no more passwords are verified under a lock than   *)
(* there are workers, and a lock lasts until its time.                     *)
(***************************************************************************)
EXTENDS Throttle, FiniteSetTheorems, TLAPS

-----------------------------------------------------------------------------
(* Type correctness.                                                       *)

LEMMA Horizon == Cutoff \in Nat /\ Old \in Nat \ {0} /\ FailWindow <= Cutoff /\ Lockout <= Cutoff
BY Settings DEF Cutoff, Old

LEMMA AgedTyped ==
  ASSUME NEW rec \in Entry
  PROVE  /\ Aged(rec) \in Entry
         /\ Aged(rec).left > 0 => rec.left > 0
         /\ rec.left > 1 => Aged(rec).left > 0
         /\ rec.left <= 1 => Aged(rec).left <= 0
<1>1. /\ rec.first \in 0..Old /\ rec.last \in 0..Old /\ rec.left \in (-Old)..Lockout
      /\ rec.attempts \in 1..MaxAttempts
      /\ rec = [attempts |-> rec.attempts, first |-> rec.first, last |-> rec.last, left |-> rec.left]
  BY DEF Entry
<1>2. Aged(rec).left = Shorter(rec.left)
  BY DEF Aged, Entry
<1>3. Older(rec.first) \in 0..Old /\ Older(rec.last) \in 0..Old
  BY <1>1, Horizon DEF Older
<1>4. Shorter(rec.left) \in (-Old)..Lockout
  BY <1>1, Horizon, Settings DEF Shorter
<1>5. /\ Shorter(rec.left) > 0 => rec.left > 0
      /\ rec.left > 1 => Shorter(rec.left) > 0
      /\ rec.left <= 1 => Shorter(rec.left) <= 0
  BY <1>1, Horizon DEF Shorter
<1>6. Aged(rec) \in Entry
  BY <1>1, <1>3, <1>4 DEF Aged, Entry
<1> QED
  BY <1>2, <1>5, <1>6

\* One more failure leaves a lock that is on as it is, or renews it.
LEMMA CountedTyped ==
  ASSUME NEW p \in Prefixes, file \in [Prefixes -> Entry \cup {NoFile}]
  PROVE  /\ Counted(p) \in Entry
         /\ Locked(p) => Counted(p).left > 0
<1> DEFINE old   == file[p]
           again == old = NoFile \/ old.first > FailWindow
           n     == CASE again -> 1
                      [] ~again /\ old.attempts < MaxAttempts -> old.attempts + 1
                      [] OTHER -> MaxAttempts
           left  == CASE n = MaxAttempts -> Lockout
                      [] n < MaxAttempts /\ old # NoFile -> old.left
                      [] OTHER -> 0 - Old
           first == IF again THEN 0 ELSE old.first
<1>1. old # NoFile => /\ old.attempts \in 1..MaxAttempts /\ old.first \in 0..Old
                      /\ old.left \in (-Old)..Lockout
  BY DEF Entry
<1>2. n \in 1..MaxAttempts
  <2>1. CASE again
    BY <2>1, Settings
  <2>2. CASE ~again /\ old.attempts < MaxAttempts
    BY <1>1, <2>2, Settings
  <2>3. CASE ~again /\ ~(old.attempts < MaxAttempts)
    BY <2>3, Settings
  <2> QED
    BY <2>1, <2>2, <2>3
<1>3. first \in 0..Old
  BY <1>1, Horizon
<1> HIDE DEF n, first
<1>4. left \in (-Old)..Lockout /\ (Locked(p) => left > 0)
  <2>1. Lockout \in (-Old)..Lockout /\ 0 - Old \in (-Old)..Lockout
    BY Horizon, Settings
  <2>2. Locked(p) => old # NoFile /\ old.left > 0 /\ Lockout > 0
    BY <1>1, Settings, Horizon DEF Locked
  <2>3. CASE n = MaxAttempts
    BY <2>1, <2>2, <2>3, Settings
  <2>4. CASE n < MaxAttempts /\ old # NoFile
    BY <1>1, <1>2, <2>2, <2>4, Settings
  <2>5. CASE n # MaxAttempts /\ ~(n < MaxAttempts /\ old # NoFile)
    BY <1>2, <2>1, <2>2, <2>5, Settings
  <2> QED
    BY <2>3, <2>4, <2>5
<1> HIDE DEF left
<1>5. Counted(p) = [attempts |-> n, first |-> first, last |-> 0, left |-> left]
  BY DEF Counted, n, first, left
<1> QED
  BY <1>2, <1>3, <1>4, <1>5, Horizon DEF Entry

LEMMA PagesPosted == "login" \in Pages
BY DEF Pages

LEMMA WorkersCounted == Cardinality(Workers) \in Nat
BY PlacesAreFinite, FS_CardinalityType

LEMMA TypeInit == ThrottleInit => ThrottleTypeOK
<1> SUFFICES ASSUME ThrottleInit PROVE ThrottleTypeOK
  OBVIOUS
<1>1. 0 \in 0..Cardinality(Workers) + 1
  BY WorkersCounted
<1>2. /\ file \in [Prefixes -> Entry \cup {NoFile}] /\ step \in [Workers -> Steps]
      /\ src \in [Workers -> Prefixes \cup {NoPrefix}] /\ page \in [Workers -> Pages]
      /\ under \in [Prefixes -> 0..Cardinality(Workers) + 1]
  BY <1>1 DEF ThrottleInit, Steps, Pages
<1> QED
  BY <1>2, NothingIsFresh DEF ThrottleInit, ThrottleTypeOK

LEMMA TypeStep ==
  ASSUME ThrottleTypeOK, [ThrottleNext]_throttle
  PROVE  ThrottleTypeOK'
<1> USE WorkersCounted, NothingIsFresh
    DEF ThrottleTypeOK, Steps, Pages, StepTo, Leave, sweep, Remove
<1>1. CASE TimePasses
  <2>1. \A p \in Prefixes : file[p] # NoFile => Aged(file[p]) \in Entry
    BY AgedTyped
  <2>2. file' \in [Prefixes -> Entry \cup {NoFile}]
    BY <1>1, <2>1 DEF TimePasses
  <2> QED
    BY <1>1, <2>2 DEF TimePasses
<1>2. ASSUME NEW w \in Workers, NEW p \in Prefixes, NEW form \in Pages, Post(w, p, form)
      PROVE  ThrottleTypeOK'
  BY <1>2 DEF Post
<1>3. ASSUME NEW w \in Workers, AssertNotLocked(w) PROVE ThrottleTypeOK'
  BY <1>3 DEF AssertNotLocked, Passed
<1>4. ASSUME NEW w \in Workers, Verify(w) PROVE ThrottleTypeOK'
  BY <1>4 DEF Verify
<1>5. ASSUME NEW w \in Workers, Clear(w) PROVE ThrottleTypeOK'
  BY <1>5 DEF Clear
<1>6. ASSUME NEW w \in Workers, Save(w) PROVE ThrottleTypeOK'
  <2>1. src[w] \in Prefixes
    BY <1>6 DEF Save
  <2>2. Counted(src[w]) \in Entry
    BY <2>1, CountedTyped
  <2> QED
    BY <1>6, <2>1, <2>2 DEF Save
<1>7. ASSUME NEW w \in Workers, StartSweep(w) PROVE ThrottleTypeOK'
  <2>1. Cardinality(Files) \in Nat
    BY PlacesAreFinite, FS_Subset, FS_CardinalityType DEF Files
  <2>2. over' \in Nat
    BY <1>7, <2>1, Settings DEF StartSweep
  <2> QED
    BY <1>7, <2>2 DEF StartSweep
<1>8. ASSUME NEW w \in Workers, SkipSweep(w) \/ EndStale(w) \/ EndSweep(w) PROVE ThrottleTypeOK'
  BY <1>8 DEF SkipSweep, EndStale, EndSweep
<1>9. ASSUME NEW w \in Workers, NEW p \in Prefixes, JudgeStale(w, p) \/ JudgeExcess(w, p)
      PROVE  ThrottleTypeOK'
  BY <1>9 DEF JudgeStale, JudgeExcess, Judge
<1>10. ASSUME NEW w \in Workers, Unlink(w) PROVE ThrottleTypeOK'
  <2>1. over' \in Nat /\ sweeper' = sweeper /\ target' = NoPrefix
    BY <1>10 DEF Unlink
  <2>2. /\ file' = [file EXCEPT ![target] = NoFile] /\ under' = [under EXCEPT ![target] = 0]
        /\ 0 \in 0..Cardinality(Workers) + 1
    BY <1>10 DEF Unlink
  <2>3. \E l \in {"sweep", "evict"} : step' = [step EXCEPT ![w] = l]
    BY <1>10 DEF Unlink
  <2>4. \A x \in Workers :
          step'[x] \in {"sweep", "unlinkStale", "evict", "unlinkExcess"} <=> sweeper' = x
    BY <1>10, <2>1, <2>3 DEF Unlink
  <2>5. step' \in [Workers -> Steps] /\ UNCHANGED <<src, page>> /\ rewritten' = FALSE
    BY <1>10, <2>3 DEF Unlink
  <2>6. \A x \in Workers : step'[x] # "idle" => step[x] # "idle"
    BY <1>10, <2>3 DEF Unlink
  <2>7. file' \in [Prefixes -> Entry \cup {NoFile}] /\ under' \in [Prefixes -> 0..Cardinality(Workers) + 1]
    BY <2>2
  <2> QED
    BY <2>1, <2>4, <2>5, <2>6, <2>7
<1>11. ASSUME NEW w \in Workers, Kill(w) PROVE ThrottleTypeOK'
  <2>1. /\ over' \in Nat /\ target' \in Prefixes \cup {NoPrefix} /\ rewritten' \in BOOLEAN
        /\ sweeper' = IF sweeper = w THEN NoWorker ELSE sweeper
    <3>1. CASE sweeper = w
      <4>1. sweeper' = NoWorker /\ over' = 0 /\ target' = NoPrefix /\ rewritten' = FALSE
        BY <1>11, <3>1, Zenon DEF Kill
      <4> QED
        BY <3>1, <4>1
    <3>2. CASE sweeper # w
      BY <1>11, <3>2 DEF Kill
    <3> QED
      BY <3>1, <3>2
  <2>2. ASSUME NEW x \in Workers
        PROVE  step'[x] \in {"sweep", "unlinkStale", "evict", "unlinkExcess"} <=> sweeper' = x
    <3>1. x # w => step'[x] = step[x]
      BY <1>11 DEF Kill
    <3>2. step'[w] = "idle" /\ sweeper' # w
      BY <1>11, <2>1 DEF Kill
    <3>3. x # w => (sweeper' = x <=> sweeper = x)
      BY <2>1
    <3> QED
      BY <3>1, <3>2, <3>3
  <2>3. /\ step' = [step EXCEPT ![w] = "idle"] /\ src' = [src EXCEPT ![w] = NoPrefix]
        /\ page' = [page EXCEPT ![w] = "login"] /\ UNCHANGED <<file, under>>
    BY <1>11 DEF Kill
  <2>4. \A x \in Workers : step'[x] # "idle" => src'[x] # NoPrefix
    BY <2>3
  <2> QED
    BY <2>1, <2>2, <2>3, <2>4
<1>12. CASE UNCHANGED throttle
  BY <1>12 DEF throttle
<1> QED
  BY <1>1, <1>2, <1>3, <1>4, <1>5, <1>6, <1>7, <1>8, <1>9, <1>10, <1>11, <1>12
     DEF ThrottleNext, Request, Sweeps

\* Every request, sweep, death of a worker and tick of the clock keeps the files,
\* the workers and the sweep's own variables in their sets.
THEOREM ThrottleTyped == ThrottleSpec => []ThrottleTypeOK
BY TypeInit, TypeStep, PTL DEF ThrottleSpec

-----------------------------------------------------------------------------
(* The passwords verified under a lock.                                    *)

\* A request that passed the check and has not looked at the password.
Waits(w, p) ==
    /\ src[w] = p
    /\ \/ page[w] = "login" /\ step[w] \notin {"idle", "check", "clear"}
       \/ page[w] = "password" /\ step[w] = "verify"

Waiting(p) == {w \in Workers : Waits(w, p)}

\* A worker stands in for at most one verification of a lock that is on.
LockCount ==
    \A p \in Prefixes :
        IF Locked(p) THEN under[p] + Cardinality(Waiting(p)) <= Cardinality(Workers)
                     ELSE under[p] = 0

LEMMA WaitingCounted ==
  ASSUME NEW p \in Prefixes
  PROVE  /\ IsFiniteSet(Waiting(p))
         /\ Cardinality(Waiting(p)) \in Nat
         /\ Cardinality(Waiting(p)) <= Cardinality(Workers)
<1>1. Waiting(p) \subseteq Workers
  BY DEF Waiting
<1> QED
  BY <1>1, PlacesAreFinite, FS_Subset, FS_CardinalityType

\* A step that lets nobody else past the check of a lock, and verifies nothing
\* under it.
LEMMA CountKept ==
  ASSUME ThrottleTypeOK, ThrottleTypeOK', LockCount, NEW p \in Prefixes,
         Locked(p)' /\ Locked(p) => under'[p] = under[p] /\ Waiting(p)' \subseteq Waiting(p),
         Locked(p)' /\ ~Locked(p) => under'[p] = under[p],
         ~Locked(p)' => under'[p] = 0
  PROVE  IF Locked(p)' THEN under'[p] + Cardinality(Waiting(p)') <= Cardinality(Workers)
                       ELSE under'[p] = 0
<1>1. under[p] \in Nat /\ Cardinality(Workers) \in Nat
  BY WorkersCounted DEF ThrottleTypeOK
<1>2. CASE Locked(p)' /\ Locked(p)
  <2>1. Cardinality(Waiting(p)') <= Cardinality(Waiting(p)) /\ Cardinality(Waiting(p)') \in Nat
    BY <1>2, WaitingCounted, FS_Subset, FS_CardinalityType
  <2> QED
    BY <1>1, <1>2, <2>1, WaitingCounted DEF LockCount
<1>3. CASE Locked(p)' /\ ~Locked(p)
  <2>1. Waiting(p)' \subseteq Workers
    BY DEF Waiting
  <2>2. Cardinality(Waiting(p)') <= Cardinality(Workers) /\ Cardinality(Waiting(p)') \in Nat
    BY <2>1, PlacesAreFinite, FS_Subset, FS_CardinalityType
  <2> QED
    BY <1>1, <1>3, <2>2 DEF LockCount
<1> QED
  BY <1>2, <1>3

\* Nothing but a worker's request moves, and the worker w passes no check.
LEMMA NobodyPasses ==
  ASSUME ThrottleTypeOK, NEW w \in Workers, NEW p \in Prefixes,
         \A x \in Workers : x # w => step'[x] = step[x] /\ src'[x] = src[x] /\ page'[x] = page[x],
         Waits(w, p)' => Waits(w, p)
  PROVE  Waiting(p)' \subseteq Waiting(p)
BY DEF Waiting, Waits

LEMMA CountStep ==
  ASSUME ThrottleTypeOK, ThrottleTypeOK', LockCount, [ThrottleNext]_throttle
  PROVE  LockCount'
<1> SUFFICES ASSUME NEW p \in Prefixes
             PROVE  IF Locked(p)' THEN under'[p] + Cardinality(Waiting(p)') <= Cardinality(Workers)
                                  ELSE under'[p] = 0
  BY DEF LockCount
<1>u. under \in [Prefixes -> Nat]
  BY WorkersCounted DEF ThrottleTypeOK
<1>0. ~Locked(p) => under[p] = 0
  BY DEF LockCount
<1>1. CASE TimePasses
  <2>1. file[p] # NoFile => /\ Aged(file[p]).left > 0 => file[p].left > 0
                            /\ file[p].left > 1 => Aged(file[p]).left > 0
                            /\ file[p].left <= 1 => ~(Aged(file[p]).left > 0)
                            /\ Aged(file[p]) # NoFile /\ file[p].left \in Int
    <3>1. file[p] # NoFile => file[p] \in Entry
      BY DEF ThrottleTypeOK
    <3>2. ASSUME file[p] # NoFile PROVE Aged(file[p]).left \in Int /\ file[p].left \in Int
      BY <3>1, <3>2, AgedTyped, Horizon, Settings DEF Entry
    <3> QED
      BY <3>1, <3>2, AgedTyped, NothingIsFresh
  <2>2. file'[p] = IF file[p] = NoFile THEN NoFile ELSE Aged(file[p])
    BY <1>1 DEF TimePasses
  <2>3. under'[p] = IF Locked(p) /\ file[p].left > 1 THEN under[p] ELSE 0
    BY <1>1 DEF TimePasses
  <2>4. Locked(p)' <=> Locked(p) /\ file[p].left > 1
    BY <2>1, <2>2 DEF Locked
  <2>5. Waiting(p)' = Waiting(p)
    BY <1>1 DEF TimePasses, Waiting, Waits
  <2> QED
    BY <2>3, <2>4, <2>5, CountKept
<1>2. ASSUME NEW w \in Workers, NEW q \in Prefixes, NEW form \in Pages, Post(w, q, form)
      PROVE  IF Locked(p)' THEN under'[p] + Cardinality(Waiting(p)') <= Cardinality(Workers)
                           ELSE under'[p] = 0
  <2>1. UNCHANGED <<file, under>>
    BY <1>2 DEF Post
  <2>2. ~Waits(w, p)'
    BY <1>2 DEF Post, StepTo, Waits, ThrottleTypeOK
  <2>3. Waiting(p)' \subseteq Waiting(p)
    BY <1>2, <2>2, NobodyPasses DEF Post, StepTo, ThrottleTypeOK
  <2> QED
    BY <1>0, <2>1, <2>3, CountKept DEF Locked
<1>3. ASSUME NEW w \in Workers, AssertNotLocked(w)
      PROVE  IF Locked(p)' THEN under'[p] + Cardinality(Waiting(p)') <= Cardinality(Workers)
                           ELSE under'[p] = 0
  <2>1. UNCHANGED <<file, under>>
    BY <1>3 DEF AssertNotLocked
  <2>2. Locked(p) => ~Waits(w, p)'
    <3>1. CASE Locked(src[w])
      BY <1>3, <3>1 DEF AssertNotLocked, Leave, StepTo, Waits, ThrottleTypeOK
    <3>2. CASE ~Locked(src[w])
      BY <1>3, <3>2 DEF AssertNotLocked, Passed, StepTo, Waits
    <3> QED
      BY <3>1, <3>2
  <2>3. Locked(p) => Waiting(p)' \subseteq Waiting(p)
    <3>1. \A x \in Workers : x # w => step'[x] = step[x] /\ src'[x] = src[x] /\ page'[x] = page[x]
      BY <1>3 DEF AssertNotLocked, Passed, Leave, StepTo, ThrottleTypeOK
    <3> QED
      BY <2>2, <3>1, NobodyPasses
  <2> QED
    BY <1>0, <2>1, <2>3, CountKept DEF Locked
<1>4. ASSUME NEW w \in Workers, Verify(w)
      PROVE  IF Locked(p)' THEN under'[p] + Cardinality(Waiting(p)') <= Cardinality(Workers)
                           ELSE under'[p] = 0
  <2>1. Locked(p)' = Locked(p)
    BY <1>4 DEF Verify, Locked
  <2>2. \A x \in Workers : x # w => step'[x] = step[x] /\ src'[x] = src[x] /\ page'[x] = page[x]
    BY <1>4 DEF Verify, Leave, StepTo, ThrottleTypeOK
  <2>3. ~Waits(w, p)'
    BY <1>4 DEF Verify, Leave, StepTo, Waits, ThrottleTypeOK
  <2>4. Waiting(p)' \subseteq Waiting(p)
    BY <2>2, <2>3, NobodyPasses
  <2>5. CASE src[w] = p /\ page[w] # "totp" /\ Locked(p)
    <3>1. Waits(w, p)
      BY <1>4, <2>5 DEF Verify, Waits, ThrottleTypeOK, Pages
    <3>2. Waiting(p)' \subseteq Waiting(p) \ {w} /\ w \in Waiting(p)
      BY <2>3, <2>4, <3>1 DEF Waiting
    <3>3. /\ Cardinality(Waiting(p) \ {w}) = Cardinality(Waiting(p)) - 1
          /\ IsFiniteSet(Waiting(p) \ {w})
      BY <3>2, WaitingCounted, FS_RemoveElement
    <3>4. Cardinality(Waiting(p)') <= Cardinality(Waiting(p)) - 1 /\ Cardinality(Waiting(p)') \in Nat
      BY <3>2, <3>3, FS_Subset, FS_CardinalityType
    <3>5. under'[p] \in Nat /\ under'[p] <= under[p] + 1
      BY <1>4, <1>u DEF Verify
    <3>6. under[p] + Cardinality(Waiting(p)) <= Cardinality(Workers)
      BY <2>5 DEF LockCount
    <3> QED
      BY <1>u, <2>1, <2>5, <3>4, <3>5, <3>6, WaitingCounted, WorkersCounted
  <2>6. CASE ~(src[w] = p /\ page[w] # "totp" /\ Locked(p))
    <3>1. under'[p] = under[p]
      BY <1>4, <1>u, <2>6 DEF Verify
    <3> QED
      BY <1>0, <2>1, <2>4, <3>1, CountKept
  <2> QED
    BY <2>5, <2>6
<1>5. ASSUME NEW w \in Workers, Clear(w)
      PROVE  IF Locked(p)' THEN under'[p] + Cardinality(Waiting(p)') <= Cardinality(Workers)
                           ELSE under'[p] = 0
  <2>1. \A x \in Workers : x # w => step'[x] = step[x] /\ src'[x] = src[x] /\ page'[x] = page[x]
    BY <1>5 DEF Clear, Leave, StepTo, ThrottleTypeOK
  <2>2. Waiting(p)' \subseteq Waiting(p)
    BY <1>5, <2>1, NobodyPasses DEF Clear, Leave, StepTo, Waits, ThrottleTypeOK
  <2>3. CASE src[w] = p
    BY <1>5, <2>3 DEF Clear, Remove, Locked, ThrottleTypeOK
  <2>4. CASE src[w] # p
    <3>1. file'[p] = file[p] /\ under'[p] = under[p]
      BY <1>5, <2>4 DEF Clear, Remove, ThrottleTypeOK
    <3> QED
      BY <1>0, <2>2, <3>1, CountKept DEF Locked
  <2> QED
    BY <2>3, <2>4
<1>6. ASSUME NEW w \in Workers, Save(w)
      PROVE  IF Locked(p)' THEN under'[p] + Cardinality(Waiting(p)') <= Cardinality(Workers)
                           ELSE under'[p] = 0
  <2>1. \A x \in Workers : x # w => step'[x] = step[x] /\ src'[x] = src[x] /\ page'[x] = page[x]
    BY <1>6 DEF Save, Leave, StepTo, ThrottleTypeOK
  <2>2. Waits(w, p)' => Waits(w, p)
    <3>1. CASE page[w] = "login"
      BY <1>6, <3>1 DEF Save, StepTo, Waits
    <3>2. CASE page[w] # "login"
      BY <1>6, <3>2 DEF Save, Leave, StepTo, Waits, ThrottleTypeOK
    <3> QED
      BY <3>1, <3>2
  <2>3. Waiting(p)' \subseteq Waiting(p)
    BY <2>1, <2>2, NobodyPasses
  <2>4. Locked(p) => Locked(p)'
    <3>1. CASE src[w] = p
      <4>1. file'[p] = Counted(p) /\ file'[p] # NoFile
        BY <1>6, <3>1, CountedTyped, NothingIsFresh DEF Save, ThrottleTypeOK
      <4>2. Locked(p) => Counted(p).left > 0
        BY CountedTyped DEF ThrottleTypeOK
      <4> QED
        BY <4>1, <4>2 DEF Locked
    <3>2. CASE src[w] # p
      BY <1>6, <3>2 DEF Save, Locked, ThrottleTypeOK
    <3> QED
      BY <3>1, <3>2
  <2>5. under'[p] = under[p]
    BY <1>6 DEF Save
  <2> QED
    BY <1>0, <2>3, <2>4, <2>5, CountKept
<1>7. ASSUME NEW w \in Workers, NEW q \in Prefixes,
             StartSweep(w) \/ SkipSweep(w) \/ EndStale(w) \/ EndSweep(w)
               \/ JudgeStale(w, q) \/ JudgeExcess(w, q)
      PROVE  IF Locked(p)' THEN under'[p] + Cardinality(Waiting(p)') <= Cardinality(Workers)
                           ELSE under'[p] = 0
  <2>1. UNCHANGED <<file, under, src, page>>
    BY <1>7 DEF StartSweep, SkipSweep, EndStale, EndSweep, JudgeStale, JudgeExcess, Judge
  <2>2. /\ step[w] \in {"record", "sweep", "evict"}
        /\ \E l \in {"sweep", "save", "evict", "unlinkStale", "unlinkExcess"} : StepTo(w, l)
    BY <1>7 DEF StartSweep, SkipSweep, EndStale, EndSweep, JudgeStale, JudgeExcess, Judge
  <2>3. \A x \in Workers : x # w => step'[x] = step[x] /\ src'[x] = src[x] /\ page'[x] = page[x]
    BY <2>1, <2>2 DEF StepTo, ThrottleTypeOK
  <2>4. Waits(w, p)' => Waits(w, p)
    BY <2>1, <2>2 DEF StepTo, Waits, ThrottleTypeOK
  <2>5. Waiting(p)' \subseteq Waiting(p)
    BY <2>3, <2>4, NobodyPasses
  <2> QED
    BY <1>0, <2>1, <2>5, CountKept DEF Locked
<1>8. ASSUME NEW w \in Workers, Unlink(w)
      PROVE  IF Locked(p)' THEN under'[p] + Cardinality(Waiting(p)') <= Cardinality(Workers)
                           ELSE under'[p] = 0
  <2>1. \A x \in Workers : x # w => step'[x] = step[x] /\ src'[x] = src[x] /\ page'[x] = page[x]
    BY <1>8 DEF Unlink, StepTo, ThrottleTypeOK
  <2>2. Waits(w, p)' => Waits(w, p)
    BY <1>8 DEF Unlink, StepTo, Waits, ThrottleTypeOK
  <2>3. Waiting(p)' \subseteq Waiting(p)
    BY <2>1, <2>2, NobodyPasses
  <2>4. CASE target = p
    BY <1>8, <2>4 DEF Unlink, Remove, Locked, ThrottleTypeOK
  <2>5. CASE target # p
    <3>1. file'[p] = file[p] /\ under'[p] = under[p]
      BY <1>8, <2>5 DEF Unlink, Remove, ThrottleTypeOK
    <3> QED
      BY <1>0, <2>3, <3>1, CountKept DEF Locked
  <2> QED
    BY <2>4, <2>5
<1>9. ASSUME NEW w \in Workers, Kill(w)
      PROVE  IF Locked(p)' THEN under'[p] + Cardinality(Waiting(p)') <= Cardinality(Workers)
                           ELSE under'[p] = 0
  <2>1. UNCHANGED <<file, under>>
    BY <1>9 DEF Kill
  <2>2. \A x \in Workers : x # w => step'[x] = step[x] /\ src'[x] = src[x] /\ page'[x] = page[x]
    BY <1>9 DEF Kill, Leave, StepTo, ThrottleTypeOK
  <2>3. ~Waits(w, p)'
    BY <1>9 DEF Kill, Leave, StepTo, Waits, ThrottleTypeOK
  <2>4. Waiting(p)' \subseteq Waiting(p)
    BY <2>2, <2>3, NobodyPasses
  <2> QED
    BY <1>0, <2>1, <2>4, CountKept DEF Locked
<1>10. CASE UNCHANGED throttle
  BY <1>10, WaitingCounted DEF throttle, Locked, Waiting, Waits, LockCount
<1> QED
  BY <1>1, <1>2, <1>3, <1>4, <1>5, <1>6, <1>7, <1>8, <1>9, <1>10
     DEF ThrottleNext, Request, Sweeps

\* Every verification that a lock meets was let past the check by another worker
\* before that lock was set.
THEOREM LockCounted == ThrottleSpec => []LockCount
<1>1. ThrottleInit => LockCount
  BY DEF ThrottleInit, LockCount, Locked
<1>2. ThrottleTypeOK /\ ThrottleTypeOK' /\ LockCount /\ [ThrottleNext]_throttle => LockCount'
  BY CountStep
<1> QED
  BY <1>1, <1>2, ThrottleTyped, PTL DEF ThrottleSpec

\* assertNotLocked, record: under one lock, however long it is prolonged, no more
\* passwords are verified for a prefix than there are workers.
THEOREM FewVerified == ThrottleSpec => []FewVerifiedUnderLock
<1>1. ThrottleTypeOK /\ LockCount => FewVerifiedUnderLock
  <2> SUFFICES ASSUME ThrottleTypeOK, LockCount, NEW p \in Prefixes
               PROVE  under[p] <= Cardinality(Workers)
    BY DEF FewVerifiedUnderLock
  <2>1. under[p] \in Nat
    BY WorkersCounted DEF ThrottleTypeOK
  <2> QED
    BY <2>1, WaitingCounted, WorkersCounted DEF LockCount
<1> QED
  BY <1>1, ThrottleTyped, LockCounted, PTL

-----------------------------------------------------------------------------
(* The end of a lock.                                                      *)

\* The entry a sweep has judged, and that no failure was counted in since, is
\* not locked: nobody else writes the file of a prefix.
JudgedUnlocked == target \in Prefixes /\ ~rewritten => ~Locked(target)

LEMMA JudgedStep ==
  ASSUME ThrottleTypeOK, ThrottleTypeOK', JudgedUnlocked, [ThrottleNext]_throttle
  PROVE  JudgedUnlocked'
<1> USE DEF JudgedUnlocked
<1>1. CASE TimePasses
  <2>1. UNCHANGED <<target, rewritten>>
    BY <1>1 DEF TimePasses, sweep
  <2> SUFFICES ASSUME target \in Prefixes, ~Locked(target) PROVE ~Locked(target)'
    BY <2>1
  <2>2. file'[target] = IF file[target] = NoFile THEN NoFile ELSE Aged(file[target])
    BY <1>1 DEF TimePasses
  <2>3. file[target] # NoFile => (Aged(file[target]).left > 0 => file[target].left > 0)
    BY AgedTyped DEF ThrottleTypeOK
  <2> QED
    BY <2>1, <2>2, <2>3 DEF Locked
<1>2. ASSUME NEW w \in Workers, NEW p \in Prefixes, NEW form \in Pages,
             Post(w, p, form) \/ AssertNotLocked(w) \/ Verify(w) \/ SkipSweep(w)
               \/ StartSweep(w) \/ EndStale(w) \/ EndSweep(w)
      PROVE  JudgedUnlocked'
  <2>1. UNCHANGED <<file, target, rewritten>>
    BY <1>2 DEF Post, AssertNotLocked, Verify, SkipSweep, StartSweep, EndStale, EndSweep, sweep
  <2> QED
    BY <2>1 DEF Locked
<1>3. ASSUME NEW w \in Workers, Clear(w) PROVE JudgedUnlocked'
  <2>1. UNCHANGED <<target, rewritten>> /\ file' = [file EXCEPT ![src[w]] = NoFile]
    BY <1>3 DEF Clear, Remove, sweep
  <2> QED
    BY <2>1 DEF Locked, ThrottleTypeOK
<1>4. ASSUME NEW w \in Workers, Save(w) PROVE JudgedUnlocked'
  BY <1>4 DEF Save, Locked, ThrottleTypeOK
<1>5. ASSUME NEW w \in Workers, NEW p \in Prefixes, JudgeStale(w, p) PROVE JudgedUnlocked'
  <2>1. UNCHANGED file /\ target' = p /\ Stale(p)
    BY <1>5 DEF JudgeStale, Judge
  <2>2. file[p].left < 0 - Cutoff /\ file[p].left \in Int
    BY <2>1, Horizon, Settings DEF Stale, ThrottleTypeOK, Entry
  <2>3. ~Locked(p)
    BY <2>2, Horizon DEF Locked
  <2> QED
    BY <2>1, <2>3 DEF Locked
<1>6. ASSUME NEW w \in Workers, NEW p \in Prefixes, JudgeExcess(w, p) PROVE JudgedUnlocked'
  <2>1. UNCHANGED file /\ target' = p /\ Evictable(p)
    BY <1>6 DEF JudgeExcess, Judge
  <2>2. ~Locked(p)
    BY <2>1, Horizon, Settings DEF Evictable, Locked, ThrottleTypeOK, Entry
  <2> QED
    BY <2>1, <2>2 DEF Locked
<1>7. ASSUME NEW w \in Workers, Unlink(w) PROVE JudgedUnlocked'
  BY <1>7, NothingIsFresh DEF Unlink
<1>8. ASSUME NEW w \in Workers, Kill(w) PROVE JudgedUnlocked'
  <2>1. UNCHANGED file
    BY <1>8 DEF Kill
  <2>2. target' = NoPrefix \/ UNCHANGED <<target, rewritten>>
    BY <1>8, Zenon DEF Kill, sweep
  <2> QED
    BY <2>1, <2>2, NothingIsFresh DEF Locked
<1>9. CASE UNCHANGED throttle
  BY <1>9 DEF throttle, Locked
<1> QED
  BY <1>1, <1>2, <1>3, <1>4, <1>5, <1>6, <1>7, <1>8, <1>9, PagesPosted
     DEF ThrottleNext, Request, Sweeps

\* What LockStands says of a step and a prefix.
LockEndsWell(p) ==
    Locked(p) /\ ~Locked(p)' =>
      \/ file[p].left = 1 /\ file'[p] = Aged(file[p])
      \/ \E w \in Workers : step[w] = "clear" /\ src[w] = p /\ step'[w] = "idle"
      \/ \E w \in Workers :
           /\ step[w] \in {"unlinkStale", "unlinkExcess"} /\ step'[w] # step[w]
           /\ target = p /\ rewritten

LEMMA LockStep ==
  ASSUME ThrottleTypeOK, JudgedUnlocked, ThrottleNext, NEW p \in Prefixes
  PROVE  LockEndsWell(p)
<1> SUFFICES ASSUME Locked(p), ~Locked(p)' PROVE LockEndsWell(p)
  BY DEF LockEndsWell
<1>1. CASE TimePasses
  <2>1. file[p] \in Entry /\ file'[p] = Aged(file[p])
    BY <1>1 DEF TimePasses, Locked, ThrottleTypeOK
  <2>2. Aged(file[p]) # NoFile /\ (file[p].left > 1 => Aged(file[p]).left > 0)
    BY <2>1, AgedTyped, NothingIsFresh
  <2>3. file[p].left = 1
    BY <2>1, <2>2, Horizon, Settings DEF Locked, Entry
  <2> QED
    BY <2>1, <2>3 DEF LockEndsWell
<1>2. ASSUME NEW w \in Workers, NEW q \in Prefixes, NEW form \in Pages,
             \/ Post(w, q, form) \/ AssertNotLocked(w) \/ Verify(w) \/ SkipSweep(w)
             \/ StartSweep(w) \/ EndStale(w) \/ EndSweep(w) \/ JudgeStale(w, q)
             \/ JudgeExcess(w, q) \/ Kill(w)
      PROVE  FALSE
  <2>1. UNCHANGED file
    BY <1>2 DEF Post, AssertNotLocked, Verify, SkipSweep, StartSweep, EndStale, EndSweep,
                JudgeStale, JudgeExcess, Judge, Kill
  <2> QED
    BY <2>1 DEF Locked
<1>3. ASSUME NEW w \in Workers, Clear(w) PROVE LockEndsWell(p)
  <2>1. src[w] = p
    BY <1>3 DEF Clear, Remove, Locked, ThrottleTypeOK
  <2>2. step[w] = "clear" /\ step'[w] = "idle"
    BY <1>3 DEF Clear, Leave, StepTo, ThrottleTypeOK
  <2> QED
    BY <2>1, <2>2 DEF LockEndsWell
<1>4. ASSUME NEW w \in Workers, Save(w) PROVE FALSE
  <2>1. CASE src[w] = p
    <3>1. file'[p] = Counted(p) /\ Counted(p) # NoFile
      BY <1>4, <2>1, CountedTyped, NothingIsFresh DEF Save, ThrottleTypeOK
    <3>2. Counted(p).left > 0
      BY CountedTyped DEF ThrottleTypeOK
    <3> QED
      BY <3>1, <3>2 DEF Locked
  <2>2. CASE src[w] # p
    BY <1>4, <2>2 DEF Save, Locked, ThrottleTypeOK
  <2> QED
    BY <2>1, <2>2
<1>5. ASSUME NEW w \in Workers, Unlink(w) PROVE LockEndsWell(p)
  <2>1. target = p
    BY <1>5 DEF Unlink, Remove, Locked, ThrottleTypeOK
  <2>2. rewritten
    BY <2>1 DEF JudgedUnlocked
  <2>3. step[w] \in {"unlinkStale", "unlinkExcess"} /\ step'[w] # step[w]
    BY <1>5 DEF Unlink, StepTo, ThrottleTypeOK
  <2> QED
    BY <2>1, <2>2, <2>3 DEF LockEndsWell
<1> QED
  BY <1>1, <1>2, <1>3, <1>4, <1>5, PagesPosted DEF ThrottleNext, Request, Sweeps

\* _reapFile, _evictOverflow: a lock lasts until its time unless a login or a code
\* succeeds, or a sweep unlinks by name what it judged before the last failure.
THEOREM LockLasts == ThrottleSpec => LockStands
<1>1. ThrottleInit => JudgedUnlocked
  BY NothingIsFresh DEF ThrottleInit, JudgedUnlocked
<1>2. ThrottleTypeOK /\ ThrottleTypeOK' /\ JudgedUnlocked /\ [ThrottleNext]_throttle => JudgedUnlocked'
  BY JudgedStep
<1>3. ThrottleTypeOK /\ JudgedUnlocked /\ [ThrottleNext]_throttle =>
        [\A p \in Prefixes : LockEndsWell(p)]_throttle
  BY LockStep
<1>4. ThrottleSpec => [][\A p \in Prefixes : LockEndsWell(p)]_throttle
  BY <1>1, <1>2, <1>3, ThrottleTyped, PTL DEF ThrottleSpec
<1> QED
  BY <1>4 DEF LockStands, LockEndsWell
=============================================================================
