------------------------------ MODULE TaskLife ------------------------------
(***************************************************************************)
(* What the queue promises for each task: it waits, one holder takes it,   *)
(* it settles.  A task whose holder is lost is taken by nobody else: it is *)
(* fenced until it is removed, or settles late.  A settled task may wait   *)
(* again; a held one is not removed.  Of the void ones nothing is said.    *)
(***************************************************************************)
CONSTANTS Tasks, Holders, Nobody

VARIABLES stage, holder, void

vars == <<stage, holder, void>>

Init ==
    /\ stage = [t \in Tasks |-> "none"]
    /\ holder = [t \in Tasks |-> Nobody]
    /\ void = {}

Turns(t, from, to) == stage[t] = from /\ stage'[t] = to
Free(t)            == holder'[t] = Nobody

Add(t)    == Turns(t, "none", "waiting") /\ Free(t)
Take(t)   == Turns(t, "waiting", "taken") /\ holder'[t] \in Holders
Settle(t) == Turns(t, "taken", "settled") /\ Free(t)
Lose(t)   == Turns(t, "taken", "taken") /\ Free(t)
Fence(t)  == Turns(t, "taken", "fenced") /\ holder[t] = Nobody /\ Free(t)
Drop(t)   == Turns(t, "waiting", "settled") /\ Free(t)
Again(t)  == Turns(t, "settled", "waiting") /\ Free(t)
Remove(t) == stage'[t] = "none" /\ holder[t] = Nobody /\ Free(t)
Stay(t)   == stage'[t] = stage[t] /\ holder'[t] = holder[t]

Move(t) ==
    \/ Stay(t) \/ Add(t) \/ Take(t) \/ Settle(t) \/ Lose(t) \/ Fence(t)
    \/ Drop(t) \/ Again(t) \/ Remove(t)

Next ==
    \A t \in Tasks :
        /\ t \in void \/ t \in void' \/ Move(t)
        /\ t \in void \ void' => Add(t)

Spec == Init /\ [][Next]_vars
=============================================================================
