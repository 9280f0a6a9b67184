---------------------------- MODULE MCModelJobs ----------------------------
(***************************************************************************)
(* ModelJobs on a small instance: one model to pull and one to load.       *)
(***************************************************************************)
EXTENDS ModelJobs

CONSTANTS pull, load

MCMaxAttempts == [t \in {pull, load} |-> 2]
============================================================================
