----------------------------- MODULE GateBounds -----------------------------
(* The constants the two gates over time share.                            *)
EXTENDS Integers, FiniteSets

CONSTANTS
    Calls,      \* calls of the gate, each made once
    Window,     \* the interval the gate guards, in ticks
    Delay,      \* a call is prompt if it passes this soon after reading time()
    MaxClock    \* bound: the clock stops here

ASSUME FiniteCalls == IsFiniteSet(Calls)
ASSUME Times == Window \in Nat \ {0} /\ Delay \in Nat /\ MaxClock \in Nat
=============================================================================
