----------------------------- MODULE MCRetryLoop -----------------------------
(***************************************************************************)
(* Two tasks on one counter of four bits.                                   *)
(***************************************************************************)
EXTENDS RetryLoop

CONSTANTS t1, t2

MCTask == {t1, t2}

=============================================================================
