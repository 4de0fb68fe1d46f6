------------------------------ MODULE MCKeySet ------------------------------
(***************************************************************************)
(* Two keys, so that one can replace the other, and two requests, so that  *)
(* one can wait for the other's read.                                      *)
(***************************************************************************)
EXTENDS KeySet, TLC

CONSTANTS oldKey, newKey, kid1, kid2

MCKey == {oldKey, newKey}
MCKid == {kid1, kid2}

\* Every key has a kid, or none has one.
OneKidEach == oldKey :> kid1 @@ newKey :> kid2
NoKids == [k \in MCKey |-> NoKid]
=============================================================================
