---------------------------- MODULE McpRateLimit ----------------------------
(***************************************************************************)
(* ViMbAdmin_Mcp_RateLimit::hit for one token: the destructive calls of an *)
(* MCP client are counted in a file of timestamps, read and replaced under *)
(* an flock on a sidecar.  The call takes its time() before it waits for   *)
(* the lock.                                                               *)
(*                                                                         *)
(* Abstractions.  A timestamp in the file is named by the call that put it *)
(* there.  Max = 0, which disables the limiter, is left out; so is the     *)
(* safety check of the directory, one of the failures of Fails.            *)
(***************************************************************************)
EXTENDS GateBounds

CONSTANTS
    Max,        \* destructive.max
    NoCall

ASSUME MaxIsPositive == Max \in Nat \ {0}
ASSUME NoCallIsFresh == NoCall \notin Calls

VARIABLES
    clock,
    pc,         \* where each call is
    stamp,      \* its $now
    hits,       \* the calls whose timestamps are in the file
    lock,       \* holder of the sidecar's flock
    kept,       \* what its holder read of the file
    at          \* history: when the call was let through

vars == <<clock, pc, stamp, hits, lock, kept, at>>

PCs == {"new", "stamped", "locked", "written", "granted", "refused", "failed", "lost"}

TypeOK ==
    /\ clock \in 0..MaxClock
    /\ pc \in [Calls -> PCs]
    /\ stamp \in [Calls -> 0..MaxClock]
    /\ hits \in SUBSET Calls
    /\ lock \in Calls \cup {NoCall}
    /\ kept \in SUBSET Calls
    /\ at \in [Calls -> 0..MaxClock]
    /\ \A c \in Calls : pc[c] \in {"locked", "written"} <=> lock = c

Init ==
    /\ clock = 0
    /\ pc = [c \in Calls |-> "new"]
    /\ stamp = [c \in Calls |-> 0]
    /\ hits = {}
    /\ lock = NoCall
    /\ kept = {}
    /\ at = [c \in Calls |-> 0]

Goto(c, l) == pc' = [pc EXCEPT ![c] = l]

Tick ==
    /\ clock < MaxClock
    /\ clock' = clock + 1
    /\ UNCHANGED <<pc, stamp, hits, lock, kept, at>>

Call(c) ==
    /\ pc[c] = "new"
    /\ stamp' = [stamp EXCEPT ![c] = clock]
    /\ Goto(c, "stamped")
    /\ UNCHANGED <<clock, hits, lock, kept, at>>

\* Mutant: no entry is ever dropped.
ActiveAll(c) == {g \in hits : stamp[g] >= 0}

\* The entries still inside the window that ends at this call's $now.
Active(c) == {g \in hits : stamp[c] - stamp[g] < Window}

\* Mutant: the file itself, or nothing, is locked.
LockNothing(c) ==
    /\ pc[c] = "stamped"
    /\ lock' = c
    /\ kept' = Active(c)
    /\ Goto(c, "locked")
    /\ UNCHANGED <<clock, stamp, hits, at>>

\* The lock is taken and the file read.
Lock(c) ==
    /\ pc[c] = "stamped" /\ lock = NoCall
    /\ lock' = c
    /\ kept' = Active(c)
    /\ Goto(c, "locked")
    /\ UNCHANGED <<clock, stamp, hits, at>>

Unlock == lock' = NoCall /\ kept' = {}

Refuse(c) ==
    /\ pc[c] = "locked"
    /\ Cardinality(kept) >= Max
    /\ Unlock
    /\ Goto(c, "refused")
    /\ UNCHANGED <<clock, stamp, hits, at>>

\* The temporary file is renamed over the state file.
Record(c) ==
    /\ pc[c] = "locked"
    /\ Cardinality(kept) < Max
    /\ hits' = kept \cup {c}
    /\ Goto(c, "written")
    /\ UNCHANGED <<clock, stamp, lock, kept, at>>

\* The lock is dropped and the handler begins.
Return(c) ==
    /\ pc[c] = "written"
    /\ Unlock
    /\ at' = [at EXCEPT ![c] = clock]
    /\ Goto(c, "granted")
    /\ UNCHANGED <<clock, stamp, hits>>

\* The lock, the file or its directory fails and the call is denied (503), or
\* the process dies: the kernel drops the flock, the file is as it was left.
Fails(c) ==
    /\ pc[c] \in {"stamped", "locked", "written"}
    /\ IF lock = c THEN Unlock ELSE UNCHANGED <<lock, kept>>
    /\ Goto(c, IF pc[c] = "written" THEN "lost" ELSE "failed")
    /\ UNCHANGED <<clock, stamp, hits, at>>

Next ==
    \/ Tick
    \/ \E c \in Calls :
         Call(c) \/ Lock(c) \/ Refuse(c) \/ Record(c) \/ Return(c) \/ Fails(c)

Spec == Init /\ [][Next]_vars

-----------------------------------------------------------------------------
(* Properties.                                                             *)

\* The calls let through within Delay of reading the time.
Prompt == {c \in Calls : pc[c] = "granted" /\ at[c] - stamp[c] <= Delay}

\* hit(): "the whole read-modify-write must be atomic".  Of the calls that do
\* not wait longer than Delay for the lock, at most Max begin in any
\* Window - Delay ticks of real time, although each judges by a $now older
\* than the moment it is let through, and calls pass in another order than
\* they took their time.
Gate == INSTANCE WindowGate
            WITH Limit <- Max, Span <- Window - Delay,
                 granted <- {<<c, at[c]>> : c \in Prompt}

ImplementsGate == Gate!Spec

\* A slot comes back: no call is refused unless Max calls wrote a timestamp
\* inside its window, or after it, whatever failed or was killed since.
OnlyRefusedWhenFull ==
    [][\A c \in Calls :
         pc[c] = "locked" /\ pc'[c] = "refused" =>
           Cardinality({g \in Calls : /\ pc[g] \in {"granted", "lost"}
                                      /\ stamp[c] - stamp[g] < Window}) >= Max]_vars
=============================================================================
