------------------------------ MODULE MCRelay ------------------------------
(* Instances of OutboxRelay for TLC.                                       *)
EXTENDS RelayProperties, TLC

CONSTANTS s1, s2, w1

\* A team is admitted by a track that confirms by itself, and becomes invalid.
AdmissionRecorded == s1 :> {"validated", "confirmed"} @@ s2 :> {"became_invalid"}
============================================================================
