-------------------------- MODULE MCAgentProcesses --------------------------
(* Small instances of AgentProcesses for TLC. *)
EXTENDS AgentProcesses

(* A command forks a child that stays in its group with the command's output,  *)
(* or leaves it with or without; a launched process does not fork.             *)
MCForks ==
  [r \in Exec \cup Launch |->
     {fork \in [escaped: BOOLEAN, piped: BOOLEAN] :
        r \in Exec /\ (fork.escaped \/ fork.piped)}]
=============================================================================
