---------------------------- MODULE MCHttpIngest ----------------------------
(***************************************************************************)
(* HttpIngest on small instances.  Sessions are interchangeable.           *)
(***************************************************************************)
EXTENDS HttpIngest, TLC

SessionSymmetry == Permutations(Session)
=============================================================================
