------------------------------ MODULE MCRabbit ------------------------------
(***************************************************************************)
(* Two messages, so that one may be in a handler while another waits in    *)
(* the client's buffer, and so that settling one could touch the other.    *)
(***************************************************************************)
EXTENDS Rabbit, TLC
Symmetry == Permutations(Msg)
=============================================================================
