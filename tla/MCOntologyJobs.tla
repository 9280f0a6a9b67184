-------------------------- MODULE MCOntologyJobs --------------------------
(***************************************************************************)
(* OntologyJobs on a small instance: two owners, one of which outranks the *)
(* other, and two request threads.                                         *)
(***************************************************************************)
EXTENDS OntologyJobs

CONSTANTS extract, project

MCPriority == [o \in {extract, project} |-> IF o = extract THEN 1 ELSE 0]
============================================================================
