----------------------------- MODULE MCConsumer -----------------------------
(* Instances of KafkaConsumer for TLC.                                     *)
EXTENDS ConsumerProperties, TLC

CONSTANTS p1, p2

\* The second message of a partition does not parse and the third is not even text; the
\* second of the other always fails.
SecondMalformed == p1 :> {1} @@ p2 :> {}
ThirdUndecodable == p1 :> {2} @@ p2 :> {}
SecondPoison == p1 :> {} @@ p2 :> {1}

\* Only the second message of a partition is not text.
NoOffsets == p1 :> {} @@ p2 :> {}
SecondUndecodable == p1 :> {1} @@ p2 :> {}
=============================================================================
