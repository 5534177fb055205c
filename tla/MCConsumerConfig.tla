-------------------------- MODULE MCConsumerConfig --------------------------
(* Instances of ConsumerConfig for TLC.                                     *)
EXTENDS ConsumerConfig, TLC

\* A smaller budget, another tier, an empty ladder.
MCEdit == {"budget" :> 4, "tier" :> 2, "ladder" :> 0}
MCFirstDoc == {NoDoc, "budget" :> 5 @@ "ladder" :> 1 @@ "tier" :> 1}
\* One execution with edits, a fault and a midnight; with edits and a fallen
\* price; two that overlap.
MCScenario ==
  {[edits |-> 2, days |-> 1, reprices |-> 0, faults |-> 1, overlap |-> 1],
   [edits |-> 1, days |-> 0, reprices |-> 1, faults |-> 0, overlap |-> 1],
   [edits |-> 1, days |-> 0, reprices |-> 0, faults |-> 0, overlap |-> 2]}
MCCost == {0, 4}

MCFieldOrder == <<"models", "quota">>
MCDefaultGlobal == [f \in {"models", "quota"} |-> 0]
\* An operator's document that leaves a field out.
MCGlobalEdit == {"models" :> 1}
=============================================================================
