----------------------------- MODULE PortWaits ------------------------------
(***************************************************************************)
(* Waiting for a port: ArmadaProcess.waitForPort and isPortReady             *)
(* (src/src/sandbox.ts, channel.ts waitForPort) against the agent's          *)
(* /process/waitport (src/agent/process.go), which probes the port in the    *)
(* pod until it answers, the process it watches has exited or the deadline   *)
(* has passed.                                                               *)
(*                                                                           *)
(* Whether the port answers is the pod's affair and not tied to the watched  *)
(* process, whose children may hold the port.  Time is counted down in       *)
(* timers; a step of either program takes no time, a request and an answer   *)
(* take Latency at most unless the network fails.                            *)
(***************************************************************************)
EXTENDS Integers

CONSTANTS
  Calls,    \* [watch: the process is watched, timeout: options.timeout, limit: one probe's]
  Pause,    \* dialPause
  Latency,
  Slack,    \* TIMEOUT_SLACK_MS
  NetworkFails

Longest(c) == c.timeout + Pause + c.limit

ASSUME WaitAssumption ==
  /\ Calls \subseteq [watch: BOOLEAN, timeout: Nat, limit: Nat \ {0}]
  /\ Pause \in Nat /\ Latency \in Nat /\ Slack \in Nat /\ NetworkFails \in BOOLEAN
  \* The agent's last word is on its way back before the client gives up.
  /\ \A c \in Calls : Latency + Longest(c) + Latency < c.timeout + Slack

VARIABLES
  call,     \* what was asked
  timers,   \* the timers that run: name -> what is left
  network,  \* whether it still carries anything
  port,     \* what a probe of the port meets
  process,  \* the watched process, as its startedProcess says
  waiter,   \* the agent's loop
  client,   \* the call, and how it ended
  spent,    \* history: time since the request arrived
  steady,   \* history: the port has answered ever since the request arrived
  deadSeen  \* history: the process had exited when the last probe failed

vars == <<call, timers, network, port, process, waiter, client, spent, steady, deadSeen>>

TypeOK ==
  /\ call \in Calls
  /\ DOMAIN timers \subseteq {"request", "guard", "deadline", "probe", "pause", "answer"}
  /\ \A t \in DOMAIN timers : timers[t] \in Nat
  /\ network \in {"up", "down"}
  /\ port \in {"closed", "open", "hangs"}
  /\ process \in {"running", "exited"}
  /\ waiter \in {"idle", "probing", "failed", "alive", "pausing", "open", "exited",
                 "closed", "refused", "gone"}
  /\ client \in {"idle", "sent", "ready", "crashed", "timedOut", "failed"}
  /\ spent \in Nat
  /\ steady \in BOOLEAN /\ deadSeen \in BOOLEAN

Init ==
  /\ call \in Calls
  /\ timers = << >>
  /\ network = "up"
  /\ port \in {"closed", "open", "hangs"}
  /\ process = "running"
  /\ waiter = "idle"
  /\ client = "idle"
  /\ spent = 0
  /\ steady = FALSE /\ deadSeen = FALSE

-----------------------------------------------------------------------------
With(ts, name, left) ==
  [t \in DOMAIN ts \cup {name} |-> IF t = name THEN left ELSE ts[t]]
Without(ts, names) == [t \in DOMAIN ts \ names |-> ts[t]]
Due(t) == t \in DOMAIN timers /\ timers[t] = 0

(* Mutant: the request has no signal. *)
Request_NoGuard ==
  /\ client = "idle"
  /\ client' = "sent"
  /\ timers' = With(timers, "request", Latency)
  /\ UNCHANGED <<call, network, port, process, waiter, spent, steady, deadSeen>>

Request ==
  /\ client = "idle"
  /\ client' = "sent"
  /\ timers' = With(With(timers, "request", Latency), "guard", call.timeout + Slack)
  /\ UNCHANGED <<call, network, port, process, waiter, spent, steady, deadSeen>>

(* Mutants: what remains is the bound, and a deadline that has passed leaves    *)
(* none: no time at all, or, as a zero in net.Dialer, all the time there is.    *)
ProbeBound_Remaining(remaining, limit) == remaining

ProbeBound_ZeroIsNone(remaining, limit) ==
  IF remaining > 0 /\ remaining < limit THEN remaining
  ELSE IF remaining = 0 THEN 2 * limit + Pause
  ELSE limit

(* What remains of the deadline when that is less than the limit, the limit     *)
(* also when nothing remains.                                                   *)
probeBound(remaining, limit) ==
  IF remaining > 0 /\ remaining < limit THEN remaining ELSE limit

Probing(ts) == With(ts, "probe", probeBound(ts["deadline"], call.limit))

(* The request arrives: a first probe whatever the timeout; or it is refused,   *)
(* for a pid the agent did not start or a parameter it cannot use.              *)
Arrive ==
  /\ waiter = "idle" /\ network = "up" /\ "request" \in DOMAIN timers
  /\ waiter' = "probing"
  /\ timers' = Probing(With(Without(timers, {"request"}), "deadline", call.timeout))
  /\ steady' = (port = "open")
  /\ UNCHANGED <<call, network, port, process, client, spent, deadSeen>>

(* The agent's answer, if there is anybody to take it. *)
Answer(answer) ==
  /\ waiter' = answer
  /\ timers' = LET ts == Without(timers, {"request", "deadline", "probe", "pause"})
               IN  IF network = "up" THEN With(ts, "answer", Latency) ELSE ts

Refuse ==
  /\ waiter = "idle" /\ network = "up" /\ "request" \in DOMAIN timers
  /\ Answer("refused")
  /\ UNCHANGED <<call, network, port, process, client, spent, steady, deadSeen>>

(* The request's context has ended, or will when the agent hears of it. *)
CallerLeft == network = "down" \/ client = "failed"

(* open: the probe is answered, refused, or ended by its bound or with the      *)
(* context of a caller who left.                                                *)
ProbeAnswers ==
  /\ waiter = "probing" /\ port = "open"
  /\ Answer("open")
  /\ UNCHANGED <<call, network, port, process, client, spent, steady, deadSeen>>

ProbeFails ==
  /\ waiter = "probing" /\ (port = "closed" \/ Due("probe") \/ CallerLeft)
  /\ waiter' = "failed"
  /\ timers' = Without(timers, {"probe"})
  /\ deadSeen' = (process = "exited")
  /\ UNCHANGED <<call, network, port, process, client, spent, steady>>

(* Mutant: the deadline is looked at before the process. *)
CheckProcess_DeadlineFirst ==
  /\ waiter = "failed"
  /\ IF Due("deadline") THEN Answer("closed")
     ELSE IF call.watch /\ process = "exited" THEN Answer("exited")
     ELSE waiter' = "alive" /\ UNCHANGED timers
  /\ UNCHANGED <<call, network, port, process, client, spent, steady, deadSeen>>

(* After a failed probe: has the process exited, has the deadline passed?  If   *)
(* neither, a pause.                                                            *)
CheckProcess ==
  /\ waiter = "failed"
  /\ IF call.watch /\ process = "exited" THEN Answer("exited")
     ELSE waiter' = "alive" /\ UNCHANGED timers
  /\ UNCHANGED <<call, network, port, process, client, spent, steady, deadSeen>>

CheckDeadline ==
  /\ waiter = "alive"
  /\ IF Due("deadline") THEN Answer("closed")
     ELSE waiter' = "pausing" /\ timers' = With(timers, "pause", Pause)
  /\ UNCHANGED <<call, network, port, process, client, spent, steady, deadSeen>>

PauseEnds ==
  /\ waiter = "pausing" /\ Due("pause")
  /\ waiter' = "probing"
  /\ timers' = Probing(Without(timers, {"pause"}))
  /\ UNCHANGED <<call, network, port, process, client, spent, steady, deadSeen>>

(* The caller is gone: the loop notices in its pause. *)
CallerGone ==
  /\ waiter = "pausing" /\ CallerLeft
  /\ waiter' = "gone"
  /\ timers' = Without(timers, {"pause", "deadline"})
  /\ UNCHANGED <<call, network, port, process, client, spent, steady, deadSeen>>

-----------------------------------------------------------------------------
(* The client: what the answer means to marimohub's provisioner. *)
Outcome ==
  CASE waiter = "open" -> "ready" [] waiter = "exited" -> "crashed"
    [] waiter = "closed" -> "timedOut" [] waiter = "refused" -> "failed"

Receive ==
  /\ client = "sent" /\ "answer" \in DOMAIN timers
  /\ client' = Outcome
  /\ timers' = Without(timers, {"answer", "guard"})
  /\ UNCHANGED <<call, network, port, process, waiter, spent, steady, deadSeen>>

(* Mutant: the wait is given up at the deadline the agent was given. *)
GuardFires_AtDeadline ==
  /\ client = "sent" /\ timers["guard"] <= Slack
  /\ client' = "failed"
  /\ timers' = Without(timers, {"answer", "guard", "request"})
  /\ UNCHANGED <<call, network, port, process, waiter, spent, steady, deadSeen>>

GuardFires ==
  /\ client = "sent" /\ Due("guard")
  /\ client' = "failed"
  /\ timers' = Without(timers, {"answer", "guard", "request"})
  /\ UNCHANGED <<call, network, port, process, waiter, spent, steady, deadSeen>>

-----------------------------------------------------------------------------
(* The pod and the network. *)
PortChanges ==
  /\ port' \in {"closed", "open", "hangs"}
  /\ steady' = (steady /\ port' = "open")
  /\ UNCHANGED <<call, timers, network, process, waiter, client, spent, deadSeen>>

ProcessExits ==
  /\ process = "running" /\ process' = "exited"
  /\ UNCHANGED <<call, timers, network, port, waiter, client, spent, steady, deadSeen>>

(* The connection breaks, which the client is told of or not. *)
NetworkDown ==
  /\ NetworkFails /\ network = "up" /\ client = "sent"
  /\ network' = "down"
  /\ client' \in {"sent", "failed"}
  /\ timers' = Without(timers, {"request", "answer"} \cup
                               (IF client' = "failed" THEN {"guard"} ELSE {}))
  /\ UNCHANGED <<call, port, process, waiter, spent, steady, deadSeen>>

InLoop == waiter \in {"probing", "failed", "alive", "pausing"}

Overdue ==
  \/ Due("request") \/ Due("answer") \/ Due("probe") \/ Due("pause")
  \/ waiter = "probing" /\ port # "hangs"
  \/ waiter \in {"failed", "alive"}

Tick ==
  /\ ~Overdue
  /\ \E t \in DOMAIN timers : timers[t] > 0
  /\ timers' = [t \in DOMAIN timers |-> IF timers[t] = 0 THEN 0 ELSE timers[t] - 1]
  /\ spent' = IF InLoop THEN spent + 1 ELSE spent
  /\ UNCHANGED <<call, network, port, process, waiter, client, steady, deadSeen>>

Agent ==
  \/ Arrive \/ Refuse \/ ProbeAnswers \/ ProbeFails \/ CheckProcess \/ CheckDeadline
  \/ PauseEnds \/ CallerGone

Client == Receive \/ GuardFires

Next == Request \/ Agent \/ Client \/ PortChanges \/ ProcessExits \/ NetworkDown \/ Tick

Spec == Init /\ [][Next]_vars

(* Both programs run, and time passes, however often the port changes.  Nothing *)
(* is assumed of the pod.                                                       *)
Fairness == SF_vars(Agent) /\ WF_vars(Client) /\ SF_vars(Tick)

FairSpec == Spec /\ Fairness

-----------------------------------------------------------------------------
(* A port that answers from the request's arrival on is found, with a timeout   *)
(* of zero as well, and whether or not the watched process, which may have left *)
(* the port to a child, has exited; only a caller who left, whose context takes *)
(* the probe with it, may leave another answer behind (process.go waitPort,     *)
(* open, probeBound).                                                           *)
OpenPortFound == steady /\ ~CallerLeft => waiter \notin {"exited", "closed"}

(* A wait is never reported as timed out when the watched process was seen dead *)
(* after the last probe: the provisioner hears crash, not timeout (process.go   *)
(* waitPort).                                                                   *)
CrashIsNoTimeout == ~(call.watch /\ deadSeen /\ client = "timedOut")

(* The agent's loop is over one pause and one probe after its deadline at the   *)
(* latest, although the port accepts and hangs (process.go probeBound).         *)
BoundedWait == InLoop => spent <= Longest(call)

(* While the network works the client reports what the agent found: its own     *)
(* timer never comes first (channel.ts waitForPort, TIMEOUT_SLACK_MS).          *)
AgentDecides == (client = "failed" /\ network = "up") => waiter = "refused"

(* A wait ends, although the network carries nothing any more and the client    *)
(* was not told (channel.ts waitForPort).                                       *)
WaitEnds == (client = "sent") ~> (client # "sent")
=============================================================================
