----------------------------- MODULE WindowGate -----------------------------
(***************************************************************************)
(* What a gate over time promises: in any Span ticks at most Limit calls   *)
(* are let through.  McpRateLimit and SettingGate implement it.            *)
(***************************************************************************)
EXTENDS Integers, FiniteSets

CONSTANTS Calls, Limit, Span

VARIABLES
    clock,
    granted     \* the calls let through, each with its instant

vars == <<clock, granted>>

Init == clock = 0 /\ granted = {}

Tick == clock' = clock + 1 /\ UNCHANGED granted

Recent == {g \in granted : clock - g[2] < Span}

Grant(c) ==
    /\ \A g \in granted : g[1] # c
    /\ Cardinality(Recent) < Limit
    /\ granted' = granted \cup {<<c, clock>>}
    /\ UNCHANGED clock

Next == Tick \/ \E c \in Calls : Grant(c)

Spec == Init /\ [][Next]_vars
=============================================================================
