------------------------------ MODULE MCRagReview ------------------------------
(***************************************************************************)
(* One interaction, two queries of which one is reviewed, a turn and two   *)
(* windows of the user at the same time.  Names of entries and windows are *)
(* interchangeable.                                                        *)
(***************************************************************************)
EXTENDS RagReview, TLC

CONSTANTS t1, u1, u2, q1, q2, e1, e2, e3

Symmetry == Permutations(Entries) \union Permutations(Users)

=============================================================================
