----------------------------- MODULE GateProofs -----------------------------
(***************************************************************************)
(* Theorems about the three components that let calls through by the       *)
(* clock: McpRateLimit and SettingGate implement WindowGate; with Throttle *)
(* beside them, each keeps what it promises alone.                         *)
(***************************************************************************)
EXTENDS MCGates, ThrottleProofs

-----------------------------------------------------------------------------
(* McpRateLimit.                                                           *)

\* $now is never ahead of the clock.
Stamped == \A c \in Calls : stamp[c] <= clock

\* The file names only calls that wrote it.
HitsWrote == \A c \in hits : pc[c] \in {"written", "granted", "lost"}

\* Nobody changes the file between the holder's read and its rename, and the
\* holder found room before it renamed.
Holder ==
    \A c \in Calls :
        /\ pc[c] = "locked" => kept = Active(c)
        /\ pc[c] = "written" => hits = kept \cup {c} /\ Cardinality(kept) < Max

\* A call whose timestamp was dropped from the file is older than the window.
Dropped == \A c \in Calls \ hits : pc[c] = "granted" => clock - stamp[c] >= Window

McpInv == TypeOK /\ Stamped /\ HitsWrote /\ Holder /\ Dropped

LEMMA McpInit == Init => McpInv
  BY Times, NoCallIsFresh, MaxIsPositive
     DEF Init, McpInv, TypeOK, Stamped, HitsWrote, Holder, Dropped, PCs

LEMMA KeptIsFinite == ASSUME TypeOK PROVE IsFiniteSet(kept)
  BY FiniteCalls, FS_Subset DEF TypeOK

LEMMA McpStep == McpInv /\ [Next]_vars => McpInv'
  <1>. SUFFICES ASSUME McpInv, [Next]_vars PROVE McpInv'
    OBVIOUS
  <1>. USE Times, NoCallIsFresh, MaxIsPositive DEF McpInv, TypeOK, PCs
  <1>1. CASE Tick
    BY <1>1 DEF Tick, Stamped, HitsWrote, Holder, Dropped, Active
  <1>2. ASSUME NEW c \in Calls, Call(c) PROVE McpInv'
    <2>1. TypeOK' /\ Stamped' /\ HitsWrote' /\ Dropped'
      BY <1>2 DEF Call, Goto, Stamped, HitsWrote, Dropped
    <2>2. c \notin hits
      BY <1>2 DEF Call, HitsWrote
    <2>3. Holder'
      BY <1>2, <2>2 DEF Call, Goto, Holder, Active
    <2>. QED
      BY <2>1, <2>3
  <1>3. ASSUME NEW c \in Calls, Lock(c) PROVE McpInv'
    BY <1>3 DEF Lock, Goto, Stamped, HitsWrote, Holder, Dropped, Active
  <1>4. ASSUME NEW c \in Calls, Refuse(c) PROVE McpInv'
    BY <1>4 DEF Refuse, Unlock, Goto, Stamped, HitsWrote, Holder, Dropped, Active
  <1>5. ASSUME NEW c \in Calls, Record(c) PROVE McpInv'
    <2>1. kept = Active(c) /\ kept \subseteq hits
      BY <1>5 DEF Record, Holder, Active
    <2>2. TypeOK' /\ Stamped' /\ HitsWrote'
      BY <1>5, <2>1 DEF Record, Goto, Stamped, HitsWrote
    <2>3. Holder'
      BY <1>5 DEF Record, Goto, Holder
    <2>4. Dropped'
      BY <1>5, <2>1 DEF Record, Goto, Stamped, Dropped, Active
    <2>. QED
      BY <2>2, <2>3, <2>4
  <1>6. ASSUME NEW c \in Calls, Return(c) PROVE McpInv'
    BY <1>6 DEF Return, Unlock, Goto, Stamped, HitsWrote, Holder, Dropped, Active
  <1>7. ASSUME NEW c \in Calls, Fails(c) PROVE McpInv'
    BY <1>7 DEF Fails, Unlock, Goto, Stamped, HitsWrote, Holder, Dropped, Active
  <1>8. CASE UNCHANGED vars
    BY <1>8 DEF vars, Stamped, HitsWrote, Holder, Dropped, Active
  <1>. QED
    BY <1>1, <1>2, <1>3, <1>4, <1>5, <1>6, <1>7, <1>8 DEF Next

\* hit(): the file is what its holder read until the holder replaces it, it
\* names only calls that wrote it, and what was dropped from it is too old.
THEOREM McpInductive == Spec => []McpInv
  BY McpInit, McpStep, PTL DEF Spec

-----------------------------------------------------------------------------
\* The abstract module counts as this one does.
LEMMA McpGateCardinality == \A S : Gate!Cardinality(S) = Cardinality(S)
  BY DEF Gate!Cardinality, Cardinality

GrantedOf(S) == {<<d, at[d]>> : d \in S}

LEMMA GrantedCounted ==
  ASSUME NEW S, IsFiniteSet(S)
  PROVE  IsFiniteSet(GrantedOf(S)) /\ Cardinality(GrantedOf(S)) <= Cardinality(S)
  <1>. DEFINE f == [d \in S |-> <<d, at[d]>>]
  <1>1. f \in Surjection(S, GrantedOf(S))
    BY DEF Surjection, GrantedOf
  <1>. QED
    BY <1>1, FS_Surjection

\* At the moment a prompt call is let through, the prompt calls it must be
\* counted with are all in the file it read.
LEMMA RoomAtReturn ==
  ASSUME McpInv, NEW c \in Calls, pc[c] = "written", clock - stamp[c] <= Delay
  PROVE  Gate!Cardinality(Gate!Recent) < Max
  <1>. USE Times DEF McpInv, TypeOK
  <1>1. ASSUME NEW d \in Prompt, clock - at[d] < Window - Delay
        PROVE  d \in kept
    <2>1. d \in Calls /\ pc[d] = "granted" /\ at[d] - stamp[d] <= Delay
      BY DEF Prompt
    <2>2. clock - stamp[d] < Window
      BY <1>1, <2>1
    <2>3. d \in hits
      BY <2>1, <2>2 DEF Dropped
    <2>. QED
      BY <2>1, <2>3 DEF Holder
  <1>2. Gate!Recent \subseteq GrantedOf(kept)
    BY <1>1 DEF Gate!Recent, GrantedOf
  <1>3. IsFiniteSet(kept) /\ Cardinality(kept) < Max
    BY KeptIsFinite DEF Holder
  <1>4. /\ IsFiniteSet(Gate!Recent)
        /\ Cardinality(Gate!Recent) <= Cardinality(GrantedOf(kept))
        /\ Cardinality(GrantedOf(kept)) <= Cardinality(kept)
    BY <1>2, <1>3, GrantedCounted, FS_Subset
  <1>5. /\ Cardinality(Gate!Recent) \in Int
        /\ Cardinality(GrantedOf(kept)) \in Int
        /\ Cardinality(kept) \in Int
    BY <1>3, <1>4, GrantedCounted, FS_CardinalityType
  <1>. QED
    BY <1>3, <1>4, <1>5, McpGateCardinality, MaxIsPositive

LEMMA McpStepIsGate == McpInv /\ [Next]_vars => [Gate!Next]_(Gate!vars)
  <1>. SUFFICES ASSUME McpInv, [Next]_vars PROVE [Gate!Next]_(Gate!vars)
    OBVIOUS
  <1>1. CASE Tick
    BY <1>1 DEF Tick, Gate!Next, Gate!Tick, Gate!vars, Prompt
  <1>2. ASSUME NEW c \in Calls,
               Call(c) \/ Lock(c) \/ Refuse(c) \/ Record(c) \/ Fails(c)
        PROVE  UNCHANGED Gate!vars
    <2>1. Prompt' = Prompt
      BY <1>2 DEF Call, Lock, Refuse, Record, Fails, Goto, Prompt, McpInv, TypeOK
    <2>2. clock' = clock /\ at' = at
      BY <1>2 DEF Call, Lock, Refuse, Record, Fails
    <2>. QED
      BY <2>1, <2>2 DEF Gate!vars
  <1>3. ASSUME NEW c \in Calls, Return(c) PROVE [Gate!Next]_(Gate!vars)
    <2>1. \A d \in Prompt : d # c /\ at'[d] = at[d]
      BY <1>3 DEF Prompt, Return, McpInv, TypeOK
    <2>2. CASE clock - stamp[c] <= Delay
      <3>1. Prompt' = Prompt \cup {c} /\ at'[c] = clock
        BY <1>3, <2>2 DEF Prompt, Return, Goto, McpInv, TypeOK
      <3>2. GrantedOf(Prompt)' = GrantedOf(Prompt) \cup {<<c, clock>>}
        BY <2>1, <3>1 DEF GrantedOf
      <3>3. \A g \in GrantedOf(Prompt) : g[1] # c
        BY <2>1 DEF GrantedOf
      <3>4. Gate!Cardinality(Gate!Recent) < Max
        BY <1>3, <2>2, RoomAtReturn DEF Return
      <3>5. Gate!Grant(c)
        BY <1>3, <3>2, <3>3, <3>4 DEF Gate!Grant, GrantedOf, Return
      <3>. QED
        BY <3>5 DEF Gate!Next
    <2>3. CASE ~(clock - stamp[c] <= Delay)
      <3>1. Prompt' = Prompt
        BY <1>3, <2>3 DEF Prompt, Return, Goto, McpInv, TypeOK
      <3>. QED
        BY <1>3, <2>1, <3>1 DEF Gate!vars, Return
    <2>. QED
      BY <2>2, <2>3
  <1>4. CASE UNCHANGED vars
    BY <1>4 DEF vars, Gate!vars, Prompt
  <1>. QED
    BY <1>1, <1>2, <1>3, <1>4 DEF Next

\* hit(): of the calls that do not wait longer than Delay, at most Max begin
\* in any Window - Delay ticks, for any number of calls, clients and failures.
THEOREM McpGateHolds == Spec => ImplementsGate
  <1>1. Init => Gate!Init
    BY DEF Init, Gate!Init, Prompt
  <1>2. McpInv /\ [Next]_vars => [Gate!Next]_(Gate!vars)
    BY McpStepIsGate
  <1>. QED
    BY <1>1, <1>2, McpInductive, PTL DEF Spec, ImplementsGate, Gate!Spec

-----------------------------------------------------------------------------
\* hit(): a refused call met Max timestamps inside its window, each of a call
\* that ran its handler or died after it was counted.
THEOREM RefusedWhenFull == Spec => OnlyRefusedWhenFull
  <1>1. McpInv /\ [Next]_vars =>
          [\A c \in Calls : pc[c] = "locked" /\ pc'[c] = "refused" =>
             Cardinality({g \in Calls : /\ pc[g] \in {"granted", "lost"}
                                        /\ stamp[c] - stamp[g] < Window}) >= Max]_vars
    <2>. DEFINE Inside(c) == {g \in Calls : /\ pc[g] \in {"granted", "lost"}
                                            /\ stamp[c] - stamp[g] < Window}
    <2>. SUFFICES ASSUME McpInv, Next, NEW c \in Calls,
                         pc[c] = "locked", pc'[c] = "refused"
                  PROVE  Cardinality(Inside(c)) >= Max
      OBVIOUS
    <2>1. Refuse(c)
      BY DEF Next, Tick, Call, Lock, Record, Return, Fails, Refuse, Goto, McpInv, TypeOK
    <2>2. kept \subseteq Inside(c)
      <3>1. lock = c /\ \A g \in Calls : pc[g] # "written"
        BY NoCallIsFresh DEF McpInv, TypeOK
      <3>. QED
        BY <3>1 DEF McpInv, TypeOK, HitsWrote, Holder, Active
    <2>3. IsFiniteSet(Inside(c))
      BY FiniteCalls, FS_Subset
    <2>4. Cardinality(kept) <= Cardinality(Inside(c))
      BY <2>2, <2>3, FS_Subset
    <2>5. Cardinality(kept) \in Nat /\ Cardinality(Inside(c)) \in Nat
      BY <2>3, KeptIsFinite, FS_CardinalityType DEF McpInv
    <2>. QED
      BY <2>1, <2>4, <2>5, MaxIsPositive DEF Refuse
  <1>. QED
    BY <1>1, McpInductive, PTL DEF Spec, OnlyRefusedWhenFull

-----------------------------------------------------------------------------
(* SettingGate, of the setting's own clock and calls.                      *)

\* A call that passed left its $now, or a later one's, in the row.
Claimed ==
    \A c \in Calls :
        /\ sStamp[c] <= sClock
        /\ sPc[c] = "claimed" => sStamp[c] <= sValue

SettingInv == Setting!TypeOK /\ Claimed

LEMMA SettingInit == Setting!Init => SettingInv
  BY Times DEF Setting!Init, SettingInv, Setting!TypeOK, Claimed, Setting!PCs, Setting!Absent

LEMMA SettingStep == SettingInv /\ [Setting!Next]_(Setting!vars) => SettingInv'
  <1>. SUFFICES ASSUME SettingInv, [Setting!Next]_(Setting!vars) PROVE SettingInv'
    OBVIOUS
  <1>. USE Times DEF SettingInv, Setting!TypeOK, Claimed, Setting!PCs, Setting!Absent
  <1>1. CASE Setting!Tick
    BY <1>1 DEF Setting!Tick
  <1>2. ASSUME NEW c \in Calls, Setting!Call(c) PROVE SettingInv'
    BY <1>2 DEF Setting!Call, Setting!Goto
  <1>3. ASSUME NEW c \in Calls, Setting!Update(c) PROVE SettingInv'
    BY <1>3 DEF Setting!Update, Setting!Expired, Setting!Claim, Setting!Goto
  <1>4. ASSUME NEW c \in Calls, Setting!UpdateMisses(c) PROVE SettingInv'
    BY <1>4 DEF Setting!UpdateMisses, Setting!Goto
  <1>5. ASSUME NEW c \in Calls, Setting!Insert(c) PROVE SettingInv'
    BY <1>5 DEF Setting!Insert, Setting!Claim, Setting!Goto
  <1>6. ASSUME NEW c \in Calls, Setting!InsertIgnored(c) PROVE SettingInv'
    BY <1>6 DEF Setting!InsertIgnored, Setting!Goto
  <1>7. ASSUME NEW c \in Calls, Setting!Fails(c) PROVE SettingInv'
    BY <1>7 DEF Setting!Fails, Setting!Expired, Setting!Goto
  <1>8. CASE UNCHANGED Setting!vars
    BY <1>8 DEF Setting!vars
  <1>. QED
    BY <1>1, <1>2, <1>3, <1>4, <1>5, <1>6, <1>7, <1>8 DEF Setting!Next

\* The state of the gate is well typed, and a claim is never ahead of the row:
\* whoever passed, the row holds its timestamp or a later one.
THEOREM SettingInductive == Setting!Spec => []SettingInv
  <1>. QED
    BY SettingInit, SettingStep, PTL DEF Setting!Spec

\* What WindowGate calls granted.
GrantedHere == {<<d, sAt[d]>> : d \in Setting!Prompt}

\* The abstract module counts as this one does.
LEMMA SettingGateCardinality == \A S : Setting!Gate!Cardinality(S) = Cardinality(S)
  BY DEF Setting!Gate!Cardinality, Cardinality

LEMMA ClaimIsGrant ==
  ASSUME SettingInv, NEW c \in Calls, sPc[c] # "claimed", Setting!Claim(c),
         \A d \in Setting!Prompt : sValue < sStamp[c] - Window
  PROVE  [Setting!Gate!Next]_(Setting!Gate!vars)
  <1>1. CASE sClock - sStamp[c] <= Delay
    <2>1. Setting!Prompt' = Setting!Prompt \cup {c}
      BY <1>1, Times DEF Setting!Prompt, Setting!Claim, Setting!Goto, SettingInv, Setting!TypeOK
    <2>2. \A d \in Setting!Prompt : d # c /\ sAt'[d] = sAt[d]
      BY DEF Setting!Prompt, Setting!Claim, SettingInv, Setting!TypeOK
    <2>3. sAt'[c] = sClock
      BY DEF Setting!Claim, SettingInv, Setting!TypeOK
    <2>4. GrantedHere' = GrantedHere \cup {<<c, sClock>>}
      BY <2>1, <2>2, <2>3 DEF GrantedHere
    <2>5. \A g \in GrantedHere : g[1] # c
      BY <2>2 DEF GrantedHere
    <2>6. \A d \in Setting!Prompt : sClock - sAt[d] >= Window - Delay + 1
      BY <1>1, Times DEF Setting!Prompt, SettingInv, Setting!TypeOK, Claimed
    <2>7. {g \in GrantedHere : sClock - g[2] < Window - Delay + 1} = {}
      <3>1. \A d \in Setting!Prompt : ~(sClock - <<d, sAt[d]>>[2] < Window - Delay + 1)
        BY <2>6, Times DEF Setting!Prompt, SettingInv, Setting!TypeOK
      <3>. QED
        BY <3>1 DEF GrantedHere
    <2>8. Setting!Gate!Cardinality(Setting!Gate!Recent) < 1
      BY <2>7, FS_EmptySet, SettingGateCardinality DEF Setting!Gate!Recent, GrantedHere
    <2>9. Setting!Gate!Grant(c)
      BY <2>4, <2>5, <2>8 DEF Setting!Gate!Grant, Setting!Gate!Recent, GrantedHere, Setting!Claim
    <2>. QED
      BY <2>9 DEF Setting!Gate!Next
  <1>2. CASE ~(sClock - sStamp[c] <= Delay)
    <2>1. Setting!Prompt' = Setting!Prompt
      BY <1>2, Times DEF Setting!Prompt, Setting!Claim, Setting!Goto, SettingInv, Setting!TypeOK
    <2>2. \A d \in Setting!Prompt : sAt'[d] = sAt[d]
      BY DEF Setting!Prompt, Setting!Claim, SettingInv, Setting!TypeOK
    <2>. QED
      BY <2>1, <2>2 DEF Setting!Gate!vars, GrantedHere, Setting!Claim
  <1>. QED
    BY <1>1, <1>2

LEMMA SettingStepIsGate == SettingInv /\ [Setting!Next]_(Setting!vars) => [Setting!Gate!Next]_(Setting!Gate!vars)
  <1>. SUFFICES ASSUME SettingInv, [Setting!Next]_(Setting!vars) PROVE [Setting!Gate!Next]_(Setting!Gate!vars)
    OBVIOUS
  <1>1. CASE Setting!Tick
    BY <1>1 DEF Setting!Tick, Setting!Gate!Next, Setting!Gate!Tick, Setting!Gate!vars, Setting!Prompt
  <1>2. ASSUME NEW c \in Calls,
               Setting!Call(c) \/ Setting!UpdateMisses(c) \/ Setting!InsertIgnored(c) \/ Setting!Fails(c)
        PROVE  UNCHANGED Setting!Gate!vars
    <2>1. Setting!Prompt' = Setting!Prompt
      BY <1>2 DEF Setting!Call, Setting!UpdateMisses, Setting!InsertIgnored, Setting!Fails, Setting!Goto, Setting!Prompt, SettingInv, Setting!TypeOK
    <2>2. sClock' = sClock /\ sAt' = sAt
      BY <1>2 DEF Setting!Call, Setting!UpdateMisses, Setting!InsertIgnored, Setting!Fails
    <2>. QED
      BY <2>1, <2>2 DEF Setting!Gate!vars
  <1>3. ASSUME NEW c \in Calls, Setting!Update(c) PROVE [Setting!Gate!Next]_(Setting!Gate!vars)
    BY <1>3, ClaimIsGrant DEF Setting!Update, Setting!Expired
  <1>4. ASSUME NEW c \in Calls, Setting!Insert(c) PROVE [Setting!Gate!Next]_(Setting!Gate!vars)
    <2>1. Setting!Prompt = {}
      BY <1>4, Times DEF Setting!Insert, Setting!Prompt, SettingInv, Setting!TypeOK, Claimed, Setting!Absent
    <2>. QED
      BY <1>4, <2>1, ClaimIsGrant DEF Setting!Insert
  <1>5. CASE UNCHANGED Setting!vars
    BY <1>5 DEF Setting!vars, Setting!Gate!vars, Setting!Prompt
  <1>. QED
    BY <1>1, <1>2, <1>3, <1>4, <1>5 DEF Setting!Next

\* Of the processes that come to the gate, prompt ones pass one per interval:
\* every behaviour of claimTimestamp is one of WindowGate with Limit 1.
THEOREM SettingGateHolds == Setting!Spec => Setting!OnePerInterval
  <1>1. Setting!Init => Setting!Gate!Init
    BY DEF Setting!Init, Setting!Gate!Init, Setting!Prompt
  <1>2. SettingInv /\ [Setting!Next]_(Setting!vars) => [Setting!Gate!Next]_(Setting!Gate!vars)
    BY SettingStepIsGate
  <1>. QED
    BY <1>1, <1>2, SettingInductive, PTL DEF Setting!Spec, Setting!OnePerInterval, Setting!Gate!Spec

-----------------------------------------------------------------------------
(* The three beside each other.                                            *)

LEMMA EachAlone == GatesSpec => Spec /\ Setting!Spec /\ ThrottleSpec
<1>1. GatesInit => Init /\ Setting!Init /\ ThrottleInit
  BY DEF GatesInit
<1>2. [GatesNext]_gates => [Next]_vars /\ [Setting!Next]_(Setting!vars) /\ [ThrottleNext]_throttle
  <2>1. CASE McpMoves
    BY <2>1 DEF McpMoves, sVars, Setting!vars
  <2>2. CASE SettingMoves
    BY <2>2 DEF SettingMoves
  <2>3. CASE ThrottleMoves
    BY <2>3 DEF ThrottleMoves, sVars, Setting!vars
  <2>4. CASE UNCHANGED gates
    BY <2>4 DEF gates, sVars, Setting!vars
  <2> QED
    BY <2>1, <2>2, <2>3, <2>4 DEF GatesNext
<1> QED
  BY <1>1, <1>2, PTL DEF GatesSpec, Spec, Setting!Spec, ThrottleSpec

\* The limiter, the setting and the throttle keep their state in their sets,
\* whichever of them moves.
THEOREM GatesTyped == GatesSpec => []GatesTypeOK
<1>1. McpInv /\ SettingInv /\ ThrottleTypeOK => GatesTypeOK
  BY DEF McpInv, SettingInv, GatesTypeOK
<1> QED
  BY <1>1, EachAlone, McpInductive, SettingInductive, ThrottleTyped, PTL

\* claimTimestamp: of the processes that come to the setting, prompt ones pass
\* one per interval.
THEOREM OncePerInterval == GatesSpec => OnePerInterval
BY EachAlone, SettingGateHolds, PTL DEF OnePerInterval
=============================================================================
