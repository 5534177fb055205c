--------------------------- MODULE MCProvisioning ---------------------------
(***************************************************************************)
(* The provisioning scripts for TLC.  Each part has resources of its own,  *)
(* so a run explores one part after another.                               *)
(***************************************************************************)
EXTENDS EventhouseSeed, WorkIqCredential, EntraAccess, FabricChain

CONSTANT Part      \* the parts to explore: "eventhouse", "workiq", "entra", "chain"

VARIABLE part

allVars == <<part, seedVars, workIqVars, entraVars, chainVars>>

AllInit ==
  /\ part \in Part
  /\ SeedInit /\ WorkIqInit /\ EntraInit /\ ChainInit

Only(name, others) == part = name /\ UNCHANGED <<part, others>>

AllNext ==
  \/ Only("eventhouse", <<workIqVars, entraVars, chainVars>>) /\ SeedNext
  \/ Only("workiq", <<seedVars, entraVars, chainVars>>) /\ WorkIqNext
  \/ Only("entra", <<seedVars, workIqVars, chainVars>>) /\ EntraNext
  \/ Only("chain", <<seedVars, workIqVars, entraVars>>) /\ ChainNext

AllSpec == AllInit /\ [][AllNext]_allVars
=============================================================================
