---------------------------- MODULE MCPortWaits -----------------------------
(* Small instances of PortWaits for TLC.  A unit is a second for the client's  *)
(* slack and a probe's limit; the pause, a twentieth of one, is rounded up.    *)
EXTENDS PortWaits

(* A look, and waits shorter and longer than a probe may take. *)
MCCalls ==
  [watch: {FALSE}, timeout: {0}, limit: {2}] \cup
  [watch: {TRUE}, timeout: {0, 1, 4}, limit: {1, 2}]
=============================================================================
