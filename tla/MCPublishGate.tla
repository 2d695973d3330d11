--------------------------- MODULE MCPublishGate ---------------------------
(***************************************************************************)
(* Model checking of PublishGate: payloads that share half of their words, *)
(* the threshold, or none, and signatures of two holders.                  *)
(***************************************************************************)
EXTENDS PublishGate, TLC

Words == [p \in Payloads |->
  CASE p = "market"   -> {"fair", "price"}
    [] p = "longer"   -> {"fair", "price", "today", "here"}
    [] p = "weather"  -> {"rain"}]

Digest == [p \in Payloads |-> p]

Sign(did, payload, name) == [did |-> did, hash |-> Digest[payload], name |-> name]

\* One holder signs for two names, and another for one of them.
TwoHolders == {Sign("did1", "market", "ann"), Sign("did1", "weather", "bob"),
               Sign("did2", "weather", "ann")}
=============================================================================
