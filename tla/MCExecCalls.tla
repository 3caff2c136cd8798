---------------------------- MODULE MCExecCalls -----------------------------
(* Small instances of ExecCalls for TLC. *)
EXTENDS ExecCalls

MCWritten == [s \in Stream |-> IF s = "stdout" THEN 2 ELSE 1]
=============================================================================
