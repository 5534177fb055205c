--------------------------- MODULE MCGatewayConfig ---------------------------
(***************************************************************************)
(* The three parts of the gateway's control plane side by side for TLC.    *)
(* They write documents of different types and no property relates two of  *)
(* them, so a run explores one part after another, each from all its       *)
(* initial states, instead of their product.                               *)
(***************************************************************************)
EXTENDS MCConsumerConfig, KeyRegistry, Pricing

CONSTANT Part      \* the parts to explore: "config", "keys", "prices"

VARIABLE part

allVars == <<part, vars, keyVars, priceVars>>

\* A part that is not explored stays in one of its initial states.
AllInit ==
  /\ part \in Part
  /\ Init /\ KeyInit /\ PriceInit
  /\ part # "config" => docs = [c \in Consumer |-> NoDoc] /\ left = CHOOSE l \in Scenario : TRUE
  /\ part # "keys" => configured = {}
  /\ part # "prices" => pricing = NoPricing

Only(name, others) == part = name /\ UNCHANGED <<part, others>>

AllNext ==
  \/ Only("config", <<keyVars, priceVars>>) /\ Next
  \/ Only("keys", <<vars, priceVars>>) /\ KeyNext
  \/ Only("prices", <<vars, keyVars>>) /\ PriceNext

AllFairness ==
  /\ \A x \in Execution :
       WF_allVars(Only("config", <<keyVars, priceVars>>) /\ ExecutionStep(x))
  /\ \A r \in Request :
       WF_allVars(Only("config", <<keyVars, priceVars>>) /\ PutWrites(r))

AllSpec == AllInit /\ [][AllNext]_allVars /\ AllFairness

(* ConsumerConfig!Converges, where the configuration is explored.          *)
ConfigConverges == part = "config" => Converges

MCModel == {"m1", "m2"}
MCRetail == {"m1" :> 1 @@ "m2" :> 2, "m1" :> 3 @@ "m2" :> 4}
MCOverride == {<<>>, "m1" :> 9}
=============================================================================
