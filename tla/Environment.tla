---------------------------- MODULE Environment -----------------------------
(***************************************************************************)
(* The environment a command of a sandbox runs in (src/src/shell.ts          *)
(* withEnvPrefix; src/src/sandbox.ts setEnvVars, exec, execStream and        *)
(* startProcess).  The pod's own is fixed when it starts, so the variables   *)
(* marimohub sets are kept by the instance and written before each command   *)
(* as exports.  An environment is a function of the names it defines; the    *)
(* quoting of values, which sh undoes, is left out.                          *)
(***************************************************************************)
CONSTANTS
  EnvName  \* what sh takes for a variable's name

NoVars == << >>

(* The variables of over, on top of those of under. *)
Onto(over, under) ==
  [name \in DOMAIN over \cup DOMAIN under |->
     IF name \in DOMAIN over THEN over[name] ELSE under[name]]

Set(vars, name) == name \in DOMAIN vars /\ vars[name] # ""

(* assertEnvName of every name, before anything is done. *)
NamesValid(vars) == DOMAIN vars \subseteq EnvName

(* Mutant: a default is written like any other variable. *)
withEnvPrefix_Unguarded(own, env, defaults) == Onto(defaults, Onto(env, own))

(* What a command sees behind the prefix, in a shell that starts out with own:  *)
(* the exports of env, then each default whose name is not set, or set to       *)
(* nothing, at that point.                                                      *)
withEnvPrefix(own, env, defaults) ==
  LET forced == Onto(env, own)
  IN  Onto([name \in {n \in DOMAIN defaults : ~Set(forced, n)} |-> defaults[name]], forced)

(* exec and execStream. *)
CommandEnv(own, env, defaults) == withEnvPrefix(own, env, defaults)

(* startProcess: the process's variables are exported behind the sandbox's. *)
ProcessEnv(own, env, defaults, processEnv) ==
  withEnvPrefix(withEnvPrefix(own, env, defaults), processEnv, NoVars)
=============================================================================
