--------------------------- MODULE MCKafkaLagBack ---------------------------
(***************************************************************************)
(* A topic of one partition, and a wall clock that is set back while the   *)
(* worker runs.                                                            *)
(***************************************************************************)
EXTENDS KafkaLag
=============================================================================
