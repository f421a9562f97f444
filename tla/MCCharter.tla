----------------------------- MODULE MCCharter -----------------------------
(***************************************************************************)
(* Charter with two boots of the node, two seconds, and two messages under *)
(* way in each direction.                                                  *)
(***************************************************************************)
EXTENDS Charter

=============================================================================
