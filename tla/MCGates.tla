------------------------------ MODULE MCGates ------------------------------
(***************************************************************************)
(* Small instances for TLC of the three components that let calls through  *)
(* by the clock.  They share nothing, so a behaviour moves one of them.    *)
(***************************************************************************)
EXTENDS McpRateLimit, Throttle

VARIABLES moving, sClock, sPc, sStamp, sValue, sAt

Setting == INSTANCE SettingGate
    WITH clock <- sClock, pc <- sPc, stamp <- sStamp, value <- sValue, at <- sAt

sVars == <<sClock, sPc, sStamp, sValue, sAt>>
gates == <<moving, vars, sVars, throttle>>

GatesTypeOK == TypeOK /\ Setting!TypeOK /\ ThrottleTypeOK

GatesInit ==
    /\ moving \in {"mcp", "setting", "throttle"}
    /\ Init /\ Setting!Init /\ ThrottleInit

McpMoves      == moving = "mcp" /\ Next /\ UNCHANGED <<moving, sVars, throttle>>
SettingMoves  == moving = "setting" /\ Setting!Next /\ UNCHANGED <<moving, vars, throttle>>
ThrottleMoves == moving = "throttle" /\ ThrottleNext /\ UNCHANGED <<moving, vars, sVars>>
ThrottleTicks == moving = "throttle" /\ TimePasses /\ UNCHANGED <<moving, vars, sVars>>

GatesNext == McpMoves \/ SettingMoves \/ ThrottleMoves

GatesSpec == GatesInit /\ [][GatesNext]_gates /\ WF_gates(ThrottleTicks)

\* SettingGate: one call passes per interval.
OnePerInterval == Setting!OnePerInterval
=============================================================================
