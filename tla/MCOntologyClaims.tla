-------------------------- MODULE MCOntologyClaims --------------------------
(***************************************************************************)
(* OntologyClaims on a small instance: two things a claim can say, one     *)
(* material, and both kinds of run of the consolidator.                    *)
(***************************************************************************)
EXTENDS OntologyClaims, TLC

CONSTANTS c1, c2

Contentwise == Permutations({c1, c2})
=============================================================================
