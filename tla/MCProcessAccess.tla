--------------------------- MODULE MCProcessAccess ---------------------------
(***************************************************************************)
(* The system process and three more, whose memory and pids are used       *)
(* again; the pid asked for may belong to any of them, or to none.         *)
(***************************************************************************)
EXTENDS ProcessAccess

CONSTANTS sys, p1, p2, p3

\* "Ok(Some(process)) if a matching EPROCESS is found" (process/mod.rs:89), taken at its
\* word: what is answered is an EPROCESS, never the list head.
AnswersAreProcesses == \A w \in Walker : pc[w] = "returned" => answer[w] # Head
=============================================================================
