------------------------------- MODULE MCAgent -------------------------------
(***************************************************************************)
(* Two providers, one of them with a check, and a history of two states.  A *)
(* state in which the check and the other provider fail is too large to be *)
(* read again.                                                             *)
(***************************************************************************)
EXTENDS Agent
CONSTANTS aws, gcp, bucket

MCProviders == {aws, gcp}
MCKeys == {bucket}
MCProviderOf == [k \in MCKeys |-> aws]
MCTooLarge == {{[key |-> bucket, status |-> "fail"], [key |-> gcp, status |-> "error"]}}
MCFaults == FaultKinds
=============================================================================
