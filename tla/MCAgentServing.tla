--------------------------- MODULE MCAgentServing ---------------------------
(***************************************************************************)
(* The agent process for TLC: one turn and its bookkeeping, the memory     *)
(* that turns share, and the host around them.  The parts share no state a *)
(* property relates, so a run explores one part after another.             *)
(***************************************************************************)
EXTENDS AgentTurn, Conversations, HostServer

CONSTANT Part      \* the parts to explore: "turn", "memory", "host"

VARIABLE part

allVars == <<part, vars, convVars, hostVars>>

AllInit ==
  /\ part \in Part
  /\ Init /\ ConvInit /\ HostInit
  /\ part # "turn" => kind = "teams" /\ identity /\ available = Specialist
  /\ part # "host" => monitoring

Only(name, others) == part = name /\ UNCHANGED <<part, others>>

AllNext ==
  \/ Only("turn", <<convVars, hostVars>>) /\ Next
  \/ Only("memory", <<vars, hostVars>>) /\ ConvNext
  \/ Only("host", <<vars, convVars>>) /\ HostNext

AllSpec == AllInit /\ [][AllNext]_allVars /\ (part = "turn" => Fairness)

(* AgentTurn!TurnsEnd, where turns are explored.                           *)
TurnsAlwaysEnd == part = "turn" => TurnsEnd
=============================================================================
