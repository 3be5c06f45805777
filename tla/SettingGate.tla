---------------------------- MODULE SettingGate ----------------------------
(***************************************************************************)
(* ViMbAdmin_Setting::claimTimestamp: of the processes that come to one    *)
(* named setting, one is let through per interval (claimAutopruneSweep, 8  *)
(* hours).  $now and the cutoff are taken first, then an UPDATE of a row   *)
(* older than the cutoff, then, if that changed nothing, an INSERT IGNORE. *)
(***************************************************************************)
EXTENDS GateBounds

VARIABLES
    clock,
    pc,         \* where each call is
    stamp,      \* its $now
    value,      \* setting.value, Absent when there is no row
    at          \* history: when the call was let through

vars == <<clock, pc, stamp, value, at>>

Absent == 0 - 1

PCs == {"new", "update", "insert", "claimed", "refused", "failed"}

TypeOK ==
    /\ clock \in 0..MaxClock
    /\ pc \in [Calls -> PCs]
    /\ stamp \in [Calls -> 0..MaxClock]
    /\ value \in 0..MaxClock \cup {Absent}
    /\ at \in [Calls -> 0..MaxClock]

Init ==
    /\ clock = 0
    /\ pc = [c \in Calls |-> "new"]
    /\ stamp = [c \in Calls |-> 0]
    /\ value = Absent
    /\ at = [c \in Calls |-> 0]

Goto(c, l) == pc' = [pc EXCEPT ![c] = l]

Tick ==
    /\ clock < MaxClock
    /\ clock' = clock + 1
    /\ UNCHANGED <<pc, stamp, value, at>>

Call(c) ==
    /\ pc[c] = "new"
    /\ stamp' = [stamp EXCEPT ![c] = clock]
    /\ Goto(c, "update")
    /\ UNCHANGED <<clock, value, at>>

Expired(c) == value # Absent /\ value < stamp[c] - Window

Claim(c) ==
    /\ value' = stamp[c]
    /\ at' = [at EXCEPT ![c] = clock]
    /\ Goto(c, "claimed")
    /\ UNCHANGED <<clock, stamp>>

Update(c) ==
    /\ pc[c] = "update" /\ Expired(c)
    /\ Claim(c)

UpdateMisses(c) ==
    /\ pc[c] = "update" /\ ~Expired(c)
    /\ Goto(c, "insert")
    /\ UNCHANGED <<clock, stamp, value, at>>

\* Mutant: the insert overwrites (ON DUPLICATE KEY UPDATE) as set() does.
InsertOverwrites(c) ==
    /\ pc[c] = "insert"
    /\ Claim(c)

\* INSERT IGNORE: name is the primary key.
Insert(c) ==
    /\ pc[c] = "insert" /\ value = Absent
    /\ Claim(c)

InsertIgnored(c) ==
    /\ pc[c] = "insert" /\ value # Absent
    /\ Goto(c, "refused")
    /\ UNCHANGED <<clock, stamp, value, at>>

\* A statement fails and the exception leaves claimTimestamp, or the process
\* dies; before the statement, or after it took effect.
Fails(c) ==
    /\ pc[c] \in {"update", "insert"}
    /\ Goto(c, "failed")
    /\ UNCHANGED <<clock, stamp, at>>
    /\ \/ UNCHANGED value
       \/ /\ IF pc[c] = "update" THEN Expired(c) ELSE value = Absent
          /\ value' = stamp[c]

Next ==
    \/ Tick
    \/ \E c \in Calls :
         Call(c) \/ Update(c) \/ UpdateMisses(c) \/ Insert(c) \/ InsertIgnored(c)
         \/ Fails(c)

Spec == Init /\ [][Next]_vars

-----------------------------------------------------------------------------
(* Properties.                                                             *)

\* The calls let through within Delay of reading the time.
Prompt == {c \in Calls : pc[c] = "claimed" /\ at[c] - stamp[c] <= Delay}

\* claimTimestamp: "Atomically acquire a timestamp gate".  Whatever number of
\* processes find the row missing or expired at once, one passes; and the next
\* that is prompt passes more than Window - Delay ticks of real time later.
Gate == INSTANCE WindowGate
            WITH Limit <- 1, Span <- Window - Delay + 1,
                 granted <- {<<c, at[c]>> : c \in Prompt}

OnePerInterval == Gate!Spec
=============================================================================
