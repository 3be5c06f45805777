------------------------------ MODULE Throttle ------------------------------
(***************************************************************************)
(* ViMbAdmin_BruteForce: failed logins are counted per source prefix in    *)
(* one file each; a prefix with MaxAttempts of them is refused for Lockout *)
(* ticks.  The check (assertNotLocked), the count (record) and the removal *)
(* (clear) are critical sections of their own, and the sweep that removes  *)
(* old files takes no lock that they take.                                 *)
(*                                                                         *)
(* Abstractions.  Instants are kept relative to the clock, so that it has  *)
(* no bound: the age of first and last, the ticks left of locked_until;    *)
(* each saturates where the code no longer tells it apart.  When a sweep   *)
(* is due, how far it gets and in which order it evicts are left open.  A  *)
(* failure of the file system is a request that ends, as Kill ends it.  A  *)
(* password that a second factor must follow is one that is not cleared.   *)
(***************************************************************************)
EXTENDS Integers, FiniteSets

CONSTANTS
    Prefixes,       \* source networks
    Workers,        \* PHP workers, each serving one request at a time
    MaxAttempts,    \* bruteforce.max_attempts
    FailWindow,     \* bruteforce.window, in ticks
    Lockout,        \* bruteforce.lockout, in ticks
    MaxEntries,     \* bruteforce.max_entries
    MaxOthers,      \* bound: files of prefixes that are not in Prefixes
    NoFile, NoWorker, NoPrefix

ASSUME PlacesAreFinite == IsFiniteSet(Prefixes) /\ IsFiniteSet(Workers)
ASSUME Settings ==
    /\ MaxAttempts \in Nat \ {0} /\ FailWindow \in Nat /\ Lockout \in Nat
    /\ MaxEntries \in Nat /\ MaxOthers \in Nat

\* Ages and expired locks saturate one tick past the reaper's cutoff.
Cutoff == IF FailWindow > Lockout THEN FailWindow ELSE Lockout
Old    == Cutoff + 1

VARIABLES
    file,       \* the record of each prefix, or NoFile
    step,       \* where each worker is
    src,        \* the prefix of its request
    page,       \* the form that was posted
    sweeper,    \* holder of .reap-lock
    over,       \* entries the sweep still has above MaxEntries
    target,     \* the entry the sweep is about to unlink
    rewritten,  \* history: it was saved since it was judged
    under       \* history: logins verified under the present lock of a prefix

throttle == <<file, step, src, page, sweeper, over, target, rewritten, under>>

Entry == [attempts : 1..MaxAttempts, first : 0..Old, last : 0..Old, left : (-Old)..Lockout]

ASSUME NothingIsFresh ==
    NoFile \notin Entry /\ NoWorker \notin Workers /\ NoPrefix \notin Prefixes

Steps == {"idle", "check", "verify", "clear", "record", "sweep", "unlinkStale",
        "evict", "unlinkExcess", "save"}

Pages == {"login", "totp", "password"}

ThrottleTypeOK ==
    /\ file \in [Prefixes -> Entry \cup {NoFile}]
    /\ step \in [Workers -> Steps]
    /\ src \in [Workers -> Prefixes \cup {NoPrefix}]
    /\ page \in [Workers -> Pages]
    /\ sweeper \in Workers \cup {NoWorker}
    /\ over \in Nat
    /\ target \in Prefixes \cup {NoPrefix}
    /\ rewritten \in BOOLEAN
    /\ under \in [Prefixes -> 0..Cardinality(Workers) + 1]
    /\ \A w \in Workers : step[w] # "idle" => src[w] # NoPrefix
    /\ \A w \in Workers :
         step[w] \in {"sweep", "unlinkStale", "evict", "unlinkExcess"} <=> sweeper = w

ThrottleInit ==
    /\ file = [p \in Prefixes |-> NoFile]
    /\ step = [w \in Workers |-> "idle"]
    /\ src = [w \in Workers |-> NoPrefix]
    /\ target = NoPrefix
    /\ page = [w \in Workers |-> "login"]
    /\ sweeper = NoWorker
    /\ over = 0
    /\ rewritten = FALSE
    /\ under = [p \in Prefixes |-> 0]

-----------------------------------------------------------------------------
StepTo(w, l) == step' = [step EXCEPT ![w] = l]

Locked(p) == file[p] # NoFile /\ file[p].left > 0

\* A request that ends forgets what it was.
Leave(w) ==
    /\ StepTo(w, "idle")
    /\ src' = [src EXCEPT ![w] = NoPrefix]
    /\ page' = [page EXCEPT ![w] = "login"]

sweep == <<sweeper, over, target, rewritten>>

\* The TOTP page looks at the code whatever the lock.
Post(w, p, form) ==
    /\ step[w] = "idle"
    /\ src' = [src EXCEPT ![w] = p]
    /\ page' = [page EXCEPT ![w] = form]
    /\ StepTo(w, IF form = "totp" THEN "verify" ELSE "check")
    /\ UNCHANGED <<file, sweep, under>>

\* A login is counted before the password is looked at.
Passed(w) == StepTo(w, IF page[w] = "login" THEN "record" ELSE "verify")

\* Mutants: the record is not looked at; a refused request is counted.
AssertPasses(w) ==
    /\ step[w] = "check"
    /\ Passed(w)
    /\ UNCHANGED <<src, page, file, sweep, under>>

AssertCounts(w) ==
    /\ step[w] = "check"
    /\ IF Locked(src[w]) THEN StepTo(w, "record") ELSE Passed(w)
    /\ UNCHANGED <<src, page, file, sweep, under>>

AssertNotLocked(w) ==
    /\ step[w] = "check"
    /\ IF Locked(src[w]) THEN Leave(w) ELSE Passed(w) /\ UNCHANGED <<src, page>>
    /\ UNCHANGED <<file, sweep, under>>

\* A password changed or a login still to be confirmed clears nothing; a wrong
\* password on the login page was counted already.
Verify(w) ==
    /\ step[w] = "verify"
    /\ \/ page[w] # "password" /\ StepTo(w, "clear") /\ UNCHANGED <<src, page>>
       \/ page[w] # "login" /\ StepTo(w, "record") /\ UNCHANGED <<src, page>>
       \/ page[w] # "totp" /\ Leave(w)
    /\ under' = [under EXCEPT ![src[w]] =
                   IF page[w] # "totp" /\ Locked(src[w]) /\ @ <= Cardinality(Workers)
                   THEN @ + 1 ELSE @]
    /\ UNCHANGED <<file, sweep>>

Remove(p) ==
    /\ file' = [file EXCEPT ![p] = NoFile]
    /\ under' = [under EXCEPT ![p] = 0]

Clear(w) ==
    /\ step[w] = "clear"
    /\ Remove(src[w])
    /\ Leave(w)
    /\ UNCHANGED sweep

\* The record after one more failure.
Counted(p) ==
    LET old   == file[p]
        again == old = NoFile \/ old.first > FailWindow
        n     == CASE again -> 1
                   [] ~again /\ old.attempts < MaxAttempts -> old.attempts + 1
                   [] OTHER -> MaxAttempts
    IN  [attempts |-> n,
         first    |-> IF again THEN 0 ELSE old.first,
         last     |-> 0,
         left     |-> CASE n = MaxAttempts -> Lockout
                        [] n < MaxAttempts /\ old # NoFile -> old.left
                        [] OTHER -> 0 - Old]

Save(w) ==
    /\ step[w] = "save"
    /\ file' = [file EXCEPT ![src[w]] = Counted(src[w])]
    /\ rewritten' = (rewritten \/ src[w] = target)
    /\ IF page[w] = "login" THEN StepTo(w, "verify") /\ UNCHANGED <<src, page>> ELSE Leave(w)
    /\ UNCHANGED <<sweeper, over, target, under>>

-----------------------------------------------------------------------------
(* _maybeReapStale, before a failure is counted.                           *)

Files == {p \in Prefixes : file[p] # NoFile}

StartSweep(w) ==
    /\ step[w] = "record" /\ sweeper = NoWorker
    /\ sweeper' = w
    /\ \E others \in 0..MaxOthers :
         LET n == Cardinality(Files) + others
         IN  over' = IF n > MaxEntries THEN n - MaxEntries ELSE 0
    /\ StepTo(w, "sweep")
    /\ UNCHANGED <<file, src, page, target, rewritten, under>>

\* Not due, or another worker sweeps.
SkipSweep(w) ==
    /\ step[w] = "record"
    /\ StepTo(w, "save")
    /\ UNCHANGED <<file, src, page, sweep, under>>

Stale(p) ==
    /\ file[p] # NoFile
    /\ file[p].first > Cutoff /\ file[p].last > Cutoff /\ file[p].left < 0 - Cutoff

\* Mutant: a lock does not protect a record from eviction.
EvictableAny(p) == file[p] # NoFile

Evictable(p) == file[p] # NoFile /\ file[p].left <= 0

\* The record is read and found removable; the inode is the same before and after.
Judge(w, p, l) ==
    /\ target' = p
    /\ rewritten' = FALSE
    /\ StepTo(w, l)
    /\ UNCHANGED <<file, src, page, sweeper, over, under>>

JudgeStale(w, p)  == step[w] = "sweep" /\ Stale(p) /\ Judge(w, p, "unlinkStale")
JudgeExcess(w, p) == step[w] = "evict" /\ over > 0 /\ Evictable(p) /\ Judge(w, p, "unlinkExcess")

\* By name: whatever file has the name by now.
Unlink(w) ==
    /\ step[w] \in {"unlinkStale", "unlinkExcess"}
    /\ Remove(target)
    /\ over' = IF file[target] # NoFile /\ over > 0 THEN over - 1 ELSE over
    /\ target' = NoPrefix
    /\ rewritten' = FALSE
    /\ StepTo(w, IF step[w] = "unlinkStale" THEN "sweep" ELSE "evict")
    /\ UNCHANGED <<src, page, sweeper>>

EndStale(w) ==
    /\ step[w] = "sweep"
    /\ StepTo(w, "evict")
    /\ UNCHANGED <<file, src, page, sweep, under>>

EndSweep(w) ==
    /\ step[w] = "evict"
    /\ sweeper' = NoWorker
    /\ over' = 0
    /\ StepTo(w, "save")
    /\ UNCHANGED <<file, src, page, target, rewritten, under>>

-----------------------------------------------------------------------------
Kill(w) ==
    /\ step[w] # "idle"
    /\ Leave(w)
    /\ IF sweeper = w
       THEN sweeper' = NoWorker /\ over' = 0 /\ target' = NoPrefix /\ rewritten' = FALSE
       ELSE UNCHANGED sweep
    /\ UNCHANGED <<file, under>>

Older(n)   == IF n < Old THEN n + 1 ELSE n
Shorter(n) == IF n > 0 - Old THEN n - 1 ELSE n

Aged(rec) == [rec EXCEPT !.first = Older(@), !.last = Older(@), !.left = Shorter(@)]

TimePasses ==
    /\ file' = [p \in Prefixes |-> IF file[p] = NoFile THEN NoFile ELSE Aged(file[p])]
    /\ under' = [p \in Prefixes |-> IF Locked(p) /\ file[p].left > 1 THEN under[p] ELSE 0]
    /\ UNCHANGED <<step, src, page, sweep>>

Request(w) ==
    \/ \E p \in Prefixes, form \in Pages : Post(w, p, form)
    \/ AssertNotLocked(w) \/ Verify(w) \/ Clear(w) \/ Save(w)

Sweeps(w) ==
    \/ StartSweep(w) \/ SkipSweep(w) \/ Unlink(w) \/ EndStale(w) \/ EndSweep(w)
    \/ \E p \in Prefixes : JudgeStale(w, p) \/ JudgeExcess(w, p)

ThrottleNext == TimePasses \/ \E w \in Workers : Request(w) \/ Sweeps(w) \/ Kill(w)

ThrottleSpec == ThrottleInit /\ [][ThrottleNext]_throttle

\* Time passes; no request needs to be answered.
FairSpec == ThrottleSpec /\ WF_throttle(TimePasses)

-----------------------------------------------------------------------------
(* Properties.                                                             *)

\* assertNotLocked and record are separate critical sections: requests that
\* passed the check before a lock was set still verify a password under it, but
\* no more of them than workers, however the lock is prolonged while it lasts.
FewVerifiedUnderLock == \A p \in Prefixes : under[p] <= Cardinality(Workers)

\* A lock lasts until its time: besides a login or code that succeeds, only a
\* sweep that judged the file before its last failure was counted ends it early
\* (_reapFile and _evictOverflow unlink by name, without the record's lock).
LockStands ==
    [][\A p \in Prefixes :
         Locked(p) /\ ~Locked(p)' =>
           \/ file[p].left = 1 /\ file'[p] = Aged(file[p])
           \/ \E w \in Workers : step[w] = "clear" /\ src[w] = p /\ step'[w] = "idle"
           \/ \E w \in Workers :
                /\ step[w] \in {"unlinkStale", "unlinkExcess"} /\ step'[w] # step[w]
                /\ target = p /\ rewritten]_throttle

\* A source is not kept out for ever by coming back: a refused login does not
\* prolong the lock, so it ends, unless codes keep failing on the TOTP page.
LockEnds ==
    \A p \in Prefixes :
        \/ []<>(~Locked(p))
        \/ []<>(\E w \in Workers : page[w] = "totp" /\ src[w] = p /\ step[w] = "save")
=============================================================================
