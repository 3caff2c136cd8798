--------------------------- MODULE AgentProcesses ---------------------------
(***************************************************************************)
(* The kernel agent as PID 1 of its pod (src/agent/server.go, process.go,    *)
(* reaper_linux.go, main.go): the requests that run a command (POST /exec)   *)
(* or launch a detached process (POST /process/start), the goroutine that    *)
(* kills an abandoned command, the reaper of orphans, and shutdown, against  *)
(* the kernel's process table.                                               *)
(*                                                                           *)
(* A request starts one process, its leader, which may fork one child: into  *)
(* the leader's group or, by setsid, out of it, with the leader's output     *)
(* pipes open or redirected.  Pids are not reused.  A request that is        *)
(* refused, or whose command cannot be started, changes nothing.             *)
(***************************************************************************)
EXTENDS Naturals

CONSTANTS
  Exec,    \* requests to /exec
  Launch,  \* requests to /process/start
  Forks    \* request -> the children its command may fork: [escaped: ..., piped: ...]

Request == Exec \cup Launch

ASSUME AgentAssumption ==
  /\ Exec \cap Launch = {}
  /\ Forks \in [Exec \cup Launch -> SUBSET [escaped: BOOLEAN, piped: BOOLEAN]]

VARIABLES
  table,     \* process -> its entry in the kernel's process table
  reqs,      \* request -> where its handler is and the exit status it collected
  ctx,       \* exec -> its request's context
  watcher,   \* exec -> the goroutine that kills its group
  children,  \* agent.children: pids of requests still to be collected
  reaper,    \* the zombies reapOrphans has listed, and the one it is to wait for
  stop,      \* the agent's own state
  sight,     \* shutdown's look at `children': which were there, and who had been told
  survived   \* history: requests whose leader was still running when recorded

vars == <<table, reqs, ctx, watcher, children, reaper, stop, sight, survived>>

Leader(r) == <<r, "leader">>
Child(r) == <<r, "child">>
Process == Request \X {"leader", "child"}
Nobody == <<"none", "none">>

Unborn == [state |-> "unborn", escaped |-> FALSE, piped |-> FALSE, killed |-> FALSE]

Entry == [state: {"unborn", "running", "zombie", "gone"}, escaped: BOOLEAN,
          piped: BOOLEAN, killed: BOOLEAN]

TypeOK ==
  /\ table \in [Process -> Entry]
  /\ reqs \in [Request -> [pc: {"idle", "started", "stored", "serving", "drained",
                                "waited", "answered", "deleted", "done"},
                           status: {"none", "own", "lost"}]]
  /\ ctx \in [Exec -> {"open", "ended"}]
  /\ watcher \in [Exec -> {"off", "select", "grace", "end"}]
  /\ children \in SUBSET Request
  /\ reaper.listed \in SUBSET Process /\ reaper.next \in Process \cup {Nobody}
  /\ stop \in {"up", "waiting", "looking", "leaving", "clean", "forced"}
  /\ sight \in [present: SUBSET Request, told: SUBSET Request]
  /\ survived \in SUBSET Request

Init ==
  /\ table = [p \in Process |-> Unborn]
  /\ reqs = [r \in Request |-> [pc |-> "idle", status |-> "none"]]
  /\ ctx = [r \in Exec |-> "open"]
  /\ watcher = [r \in Exec |-> "off"]
  /\ children = {}
  /\ reaper = [listed |-> {}, next |-> Nobody]
  /\ stop = "up"
  /\ sight = [present |-> {}, told |-> {}]
  /\ survived = {}

-----------------------------------------------------------------------------
(* The kernel. *)

Running(p) == table[p].state = "running"

(* The agent is the parent of what it started and, as PID 1, of every orphan. *)
Zombies ==
  {p \in Process : /\ table[p].state = "zombie"
                   /\ p[2] = "child" => ~Running(Leader(p[1]))}

Group(r) == {Leader(r)} \cup (IF table[Child(r)].escaped THEN {} ELSE {Child(r)})

(* kill(2): what has ended hears nothing.  A process may end at any time, so a *)
(* signal it can catch or ignore leaves no trace; after a KILL it will.        *)
Kill(S, sig) ==
  table' = [p \in Process |->
              IF p \in S /\ Running(p) /\ sig = "kill"
              THEN [table[p] EXCEPT !.killed = TRUE] ELSE table[p]]

(* A command forks a child, unless a KILL is pending for it; only an exec's    *)
(* leader has pipes to pass on.                                                *)
Fork(r, fork) ==
  /\ Running(Leader(r)) /\ ~table[Leader(r)].killed /\ table[Child(r)] = Unborn
  /\ fork.piped => r \in Exec
  /\ table' = [table EXCEPT ![Child(r)] = [@ EXCEPT !.state = "running",
                                !.escaped = fork.escaped, !.piped = fork.piped]]
  /\ UNCHANGED <<reqs, ctx, watcher, children, reaper, stop, sight, survived>>

(* A process ends, of itself or by a signal; a parent other than the agent may *)
(* collect it at once.                                                         *)
Exit(p) ==
  /\ Running(p)
  /\ \E state \in IF p[2] = "child" /\ Running(Leader(p[1])) THEN {"zombie", "gone"}
                  ELSE {"zombie"} :
       table' = [table EXCEPT ![p] = [Unborn EXCEPT !.state = state]]
  /\ UNCHANGED <<reqs, ctx, watcher, children, reaper, stop, sight, survived>>

-----------------------------------------------------------------------------
(* exec and startProcess. *)

Goto(r, pc) == reqs' = [reqs EXCEPT ![r].pc = pc]

(* cmd.Start. *)
Start(r) ==
  /\ reqs[r].pc = "idle"
  /\ table' = [table EXCEPT ![Leader(r)].state = "running"]
  /\ Goto(r, "started")
  /\ UNCHANGED <<ctx, watcher, children, reaper, stop, sight, survived>>

(* children.Store; an exec then tells its caller the pid and starts the        *)
(* goroutines that kill, and that read the pipes.                              *)
Store(r) ==
  /\ reqs[r].pc = "started"
  /\ children' = children \cup {r}
  /\ survived' = IF Running(Leader(r)) THEN survived \cup {r} ELSE survived
  /\ Goto(r, IF r \in Exec THEN "serving" ELSE "stored")
  /\ watcher' = IF r \in Exec THEN [watcher EXCEPT ![r] = "select"] ELSE watcher
  /\ UNCHANGED <<table, ctx, reaper, stop, sight>>

(* A launched process is entered in `started' and its caller told the pid. *)
Register(r) ==
  /\ reqs[r].pc = "stored"
  /\ Goto(r, "serving")
  /\ UNCHANGED <<table, ctx, watcher, children, reaper, stop, sight, survived>>

(* Both pipes are at their end: nothing that holds them runs any more. *)
Holds(r) == {p \in {Leader(r), Child(r)} : Running(p) /\ (p = Leader(r) \/ table[p].piped)}

Drain(r) ==
  /\ r \in Exec /\ reqs[r].pc = "serving"
  /\ Holds(r) = {}
  /\ Goto(r, "drained")
  /\ UNCHANGED <<table, ctx, watcher, children, reaper, stop, sight, survived>>

(* cmd.Wait: the leader's exit status, or -1 when somebody else collected it.  *)
(* An exec's waits for its pipes first; a launched process writes to a file.   *)
Wait(r) ==
  /\ reqs[r].pc = IF r \in Exec THEN "drained" ELSE "serving"
  /\ table[Leader(r)].state \in {"zombie", "gone"}
  /\ reqs' = [reqs EXCEPT ![r] =
                [@ EXCEPT !.pc = "waited",
                          !.status = IF table[Leader(r)].state = "zombie" THEN "own"
                                     ELSE "lost"]]
  /\ table' = [table EXCEPT ![Leader(r)].state = "gone"]
  /\ UNCHANGED <<ctx, watcher, children, reaper, stop, sight, survived>>

(* close(exited) and the last line of the response; ExecCalls has what it says. *)
Answer(r) ==
  /\ r \in Exec /\ reqs[r].pc = "waited"
  /\ Goto(r, "answered")
  /\ UNCHANGED <<table, ctx, watcher, children, reaper, stop, sight, survived>>

(* Mutant of Delete: the pid is released before its Wait. *)
Delete_BeforeWait(r) ==
  /\ reqs[r].pc \in {"serving", "drained", IF r \in Exec THEN "answered" ELSE "waited"}
  /\ children' = children \ {r}
  /\ IF reqs[r].pc \in {"serving", "drained"} THEN UNCHANGED reqs
     ELSE Goto(r, IF r \in Exec THEN "done" ELSE "deleted")
  /\ UNCHANGED <<table, ctx, watcher, reaper, stop, sight, survived>>

(* children.Delete: an exec's handler returns with it. *)
Delete(r) ==
  /\ reqs[r].pc = IF r \in Exec THEN "answered" ELSE "waited"
  /\ children' = children \ {r}
  /\ Goto(r, IF r \in Exec THEN "done" ELSE "deleted")
  /\ UNCHANGED <<table, ctx, watcher, reaper, stop, sight, survived>>

(* close(proc.done): from here /process/status says exited. *)
CloseDone(r) ==
  /\ r \in Launch /\ reqs[r].pc = "deleted"
  /\ Goto(r, "done")
  /\ UNCHANGED <<table, ctx, watcher, children, reaper, stop, sight, survived>>

-----------------------------------------------------------------------------
(* The context of an exec ends with its deadline, its caller or its handler. *)
ContextEnds(r) ==
  /\ reqs[r].pc \notin {"idle", "done"} /\ ctx[r] = "open"
  /\ ctx' = [ctx EXCEPT ![r] = "ended"]
  /\ UNCHANGED <<table, reqs, watcher, children, reaper, stop, sight, survived>>

CtxDone(r) == ctx[r] # "open" \/ reqs[r].pc = "done"

Exited(r) == reqs[r].pc \in {"answered", "done"}

(* The watching goroutine: TERM to the group when the context ends, ... *)
WatchTerm(r) ==
  /\ watcher[r] = "select" /\ CtxDone(r)
  /\ Kill(Group(r), "term")
  /\ watcher' = [watcher EXCEPT ![r] = "grace"]
  /\ UNCHANGED <<reqs, ctx, children, reaper, stop, sight, survived>>

(* Mutant: it asks the group to stop and never insists. *)
WatchKill_TermOnly(r) ==
  /\ watcher[r] = "grace"
  /\ Kill(Group(r), "term")
  /\ watcher' = [watcher EXCEPT ![r] = "end"]
  /\ UNCHANGED <<reqs, ctx, children, reaper, stop, sight, survived>>

(* ... KILL when killGrace passes first, ... *)
WatchKill(r) ==
  /\ watcher[r] = "grace"
  /\ Kill(Group(r), "kill")
  /\ watcher' = [watcher EXCEPT ![r] = "end"]
  /\ UNCHANGED <<reqs, ctx, children, reaper, stop, sight, survived>>

(* ... and nothing once the command has been collected. *)
WatchEnd(r) ==
  /\ watcher[r] \in {"select", "grace"} /\ Exited(r)
  /\ watcher' = [watcher EXCEPT ![r] = "end"]
  /\ UNCHANGED <<table, reqs, ctx, children, reaper, stop, sight, survived>>

(* POST /process/signal: to the group of a process in `started', ended or not. *)
SignalProcess(r, sig) ==
  /\ r \in Launch /\ reqs[r].pc \notin {"idle", "started", "stored"}
  /\ Kill(Group(r), sig)
  /\ UNCHANGED <<reqs, ctx, watcher, children, reaper, stop, sight, survived>>

-----------------------------------------------------------------------------
(* Mutant: only processes the agent started are listed, not what it inherited. *)
Scan_StartedOnly ==
  /\ reaper = [listed |-> {}, next |-> Nobody]
  /\ Zombies # {}
  /\ reaper' = [reaper EXCEPT !.listed = {p \in Zombies : p[2] = "leader"}]
  /\ UNCHANGED <<table, reqs, ctx, watcher, children, stop, sight, survived>>

(* reapOrphans, woken by SIGCHLD or its ticker: the agent's zombies are listed, *)
Scan ==
  /\ reaper = [listed |-> {}, next |-> Nobody]
  /\ Zombies # {}
  /\ reaper' = [reaper EXCEPT !.listed = Zombies]
  /\ UNCHANGED <<table, reqs, ctx, watcher, children, stop, sight, survived>>

Owned(p) == p[2] = "leader" /\ p[1] \in children

(* passed over when a request owns them, *)
Look(p) ==
  /\ p \in reaper.listed /\ reaper.next = Nobody
  /\ reaper' = [listed |-> reaper.listed \ {p}, next |-> IF Owned(p) THEN Nobody ELSE p]
  /\ UNCHANGED <<table, reqs, ctx, watcher, children, stop, sight, survived>>

(* and waited for otherwise, which is nothing when the zombie has gone. *)
Reap ==
  /\ reaper.next # Nobody
  /\ table' = IF reaper.next \in Zombies THEN [table EXCEPT ![reaper.next].state = "gone"]
              ELSE table
  /\ reaper' = [reaper EXCEPT !.next = Nobody]
  /\ UNCHANGED <<reqs, ctx, watcher, children, stop, sight, survived>>

-----------------------------------------------------------------------------
(* shutdown, as PID 1: TERM to everything, then wait for `children' to empty. *)
(* Requests are served throughout, until os.Exit ends it all.                 *)
Shutdown ==
  /\ stop = "up"
  /\ Kill(Process, "term")
  /\ stop' = "waiting"
  /\ UNCHANGED <<reqs, ctx, watcher, children, reaper, sight, survived>>

(* The caller of a request has been told its pid. *)
Told(r) == reqs[r].pc \notin {"idle", "started", "stored"}

(* hasChildren begins to range over `children', which takes no snapshot. *)
LookBegins ==
  /\ stop = "waiting"
  /\ stop' = "looking"
  /\ sight' = [present |-> children, told |-> {r \in Request : Told(r)}]
  /\ UNCHANGED <<table, reqs, ctx, watcher, children, reaper, survived>>

(* Mutant: only execs are looked for. *)
LookFindsNone_ExecsOnly ==
  /\ stop = "looking"
  /\ sight.present \cap children \cap Exec = {}
  /\ stop' = "leaving"
  /\ sight' = [sight EXCEPT !.present = {}]
  /\ UNCHANGED <<table, reqs, ctx, watcher, children, reaper, survived>>

(* It ends without finding one: what was stored or deleted since it began may  *)
(* go unseen, what was there all along may not.                                *)
LookFindsNone ==
  /\ stop = "looking"
  /\ sight.present \cap children = {}
  /\ stop' = "leaving"
  /\ sight' = [sight EXCEPT !.present = {}]
  /\ UNCHANGED <<table, reqs, ctx, watcher, children, reaper, survived>>

(* It finds one, and shutdown sleeps and looks again. *)
LookFindsOne ==
  /\ stop = "looking"
  /\ sight.present \cup children # {}
  /\ stop' = "waiting"
  /\ sight' = [present |-> {}, told |-> {}]
  /\ UNCHANGED <<table, reqs, ctx, watcher, children, reaper, survived>>

(* os.Exit: the agent's goroutines end with it. *)
Leave(how) ==
  /\ stop' = how
  /\ ctx' = [r \in Exec |-> "ended"]
  /\ watcher' = [r \in Exec |-> "off"]
  /\ reaper' = [listed |-> {}, next |-> Nobody]
  /\ UNCHANGED <<table, reqs, children, sight, survived>>

(* shutdown returns because nothing was found, or because its grace is over. *)
ExitClean == stop = "leaving" /\ Leave("clean")

GraceSpent == stop = "waiting" /\ Leave("forced")

Stopping == LookBegins \/ LookFindsNone \/ LookFindsOne \/ ExitClean \/ GraceSpent

-----------------------------------------------------------------------------
Serve(r) ==
  Store(r) \/ Register(r) \/ Drain(r) \/ Wait(r) \/ Answer(r) \/ Delete(r) \/ CloseDone(r)

Watch(r) == WatchTerm(r) \/ WatchKill(r) \/ WatchEnd(r)

Reaping == Scan \/ (\E p \in Process : Look(p)) \/ Reap

Alive == stop \notin {"clean", "forced"}

Next ==
  /\ Alive
  /\ \/ \E r \in Request : Start(r) \/ Serve(r) \/ \E fork \in Forks[r] : Fork(r, fork)
     \/ \E p \in Process : Exit(p)
     \/ \E r \in Exec : ContextEnds(r) \/ Watch(r)
     \/ \E r \in Launch : SignalProcess(r, "term") \/ SignalProcess(r, "kill")
     \/ Reaping
     \/ Shutdown \/ Stopping

Spec == Init /\ [][Next]_vars

(* Goroutines run, the ticker ticks, and a process that was sent KILL ends.    *)
(* Nothing else ends of itself, and nobody has to stop the agent.              *)
Fairness ==
  /\ \A r \in Request : WF_vars(Alive /\ Serve(r))
  /\ \A r \in Exec : WF_vars(Alive /\ Watch(r))
  /\ WF_vars(Alive /\ Reaping)
  /\ \A p \in Process : WF_vars(Alive /\ table[p].killed /\ Exit(p))

FairSpec == Spec /\ Fairness

-----------------------------------------------------------------------------
(* The exit status of a process that was still running when it was recorded in *)
(* `children' is never collected by the reaper, at whatever point between its   *)
(* scan, its look at `children' and its wait the process ends (reaper_linux.go  *)
(* reapOrphans, server.go exec, process.go startProcess).                       *)
SurvivorKeepsStatus == \A r \in survived : reqs[r].status # "lost"

(* When the agent leaves before its grace period, every process whose pid a     *)
(* caller had been told when its last look at `children' began has ended: the   *)
(* kernel has flushed (server.go shutdown, hasChildren).  One that is stored    *)
(* while the look goes on, or after it, is not waited for.                      *)
ShutdownWaitsForTold == stop = "clean" => \A r \in sight.told : ~Running(Leader(r))

(* Every orphan's zombie is collected in the end, while a zombie of a request   *)
(* still open, which it may be listed with, is passed over (reaper_linux.go).   *)
OrphansReaped ==
  \A r \in Request : (Child(r) \in Zombies) ~> (table[Child(r)].state = "gone" \/ ~Alive)

(* A command whose deadline passes or whose caller leaves is answered and its   *)
(* request ends, unless a child that left its group holds the output open       *)
(* (server.go exec, killGroup).                                                 *)
HeldOpen(r) ==
  Running(Child(r)) /\ table[Child(r)].escaped /\ table[Child(r)].piped

AbandonedEnds ==
  \A r \in Exec : (ctx[r] # "open") ~> (reqs[r].pc = "done" \/ HeldOpen(r) \/ ~Alive)

=============================================================================
