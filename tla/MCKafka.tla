------------------------------ MODULE MCKafka ------------------------------
(***************************************************************************)
(* Two partitions of two records, so that one may fail or lag while the    *)
(* other goes on, a batch can hold one record, both or none, and a second  *)
(* batch can commit past what a first one left.  The run in which handlers *)
(* fail and that checks liveness takes one partition of three records.     *)
(***************************************************************************)
EXTENDS Kafka, TLC
Symmetry == Permutations(Partition)
=============================================================================
