---------------------------- MODULE MCChatImport ----------------------------
(***************************************************************************)
(* One conversation with two request threads and the import worker, all on *)
(* the local channel with its single slot, beside a background job and an  *)
(* interactive call from elsewhere.                                        *)
(***************************************************************************)
EXTENDS ChatImport

CONSTANTS t1, t2, imp, job, home, q, b, p1, local

MCChannelOf == [c \in Callers |-> local]
MCLimit == [ch \in Channels |-> 1]

=============================================================================
