------------------------- MODULE MCKnowledgeTransfer -------------------------
EXTENDS KnowledgeTransfer

MCBundles == {{}, {"DOCUMENTATION"}, {"SOURCE", "TEST"}}

Offer(target, action, risk, kinds) ==
    [target |-> target, action |-> action, risk |-> risk, confidence |-> "HIGH", kinds |-> kinds]

(* Each of the ways an offer may fail, a repeated identity with another risk, *)
(* and shares of one and two opportunities.                                   *)
Proven   == Offer(1, "APPLY", "LOW", {"SOURCE", "TEST"})
Untested == Offer(1, "APPLY", "LOW", {"SOURCE"})
Watch    == Offer(1, "WATCH", "LOW", {"SOURCE"})
Try      == Offer(1, "EXPERIMENT", "HIGH", {"SOURCE"})
TryLow   == Offer(1, "EXPERIMENT", "LOW", {"SOURCE"})
Abstract == Offer(2, "APPLY", "LOW", {"SOURCE", "TEST"})
MCPackets == {<<>>, <<Untested>>, <<Try, TryLow>>, <<Watch>>, <<Proven, Abstract>>}
==============================================================================
