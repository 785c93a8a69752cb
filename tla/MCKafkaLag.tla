----------------------------- MODULE MCKafkaLag -----------------------------
(***************************************************************************)
(* A topic of one partition that gets a second one while the worker runs,  *)
(* which that worker does not read.                                        *)
(***************************************************************************)
EXTENDS KafkaLag
=============================================================================
