----------------------------- MODULE ExecCalls ------------------------------
(***************************************************************************)
(* One command over the wire: AgentChannel.run and AgentChannel.stream       *)
(* (src/src/channel.ts, ndjson.ts; sandbox.ts exec and execStream above      *)
(* them) against the agent's /exec handler (src/agent/server.go): two        *)
(* readers that turn the command's pipes into NDJSON lines, a network that   *)
(* delays, breaks or falls silent and cuts lines anywhere, and the timers on *)
(* both sides.                                                               *)
(*                                                                           *)
(* What a command writes is a chunk, numbered per stream.  A line crosses as *)
(* two pieces, the second with its newline.  Time is counted down in timers; *)
(* a request and the last line of a response take Latency at most, a step of *)
(* either program takes no time.                                             *)
(* A child that leaves the command's group with its pipes open is not here:  *)
(* see AgentProcesses.                                                       *)
(***************************************************************************)
EXTENDS Integers, Sequences

CONSTANTS
  Modes,      \* "run", "stream": what the sandbox calls
  Timeouts,   \* options.timeoutMs, Never when it is not given
  Never,
  Faults,     \* "lost": the connection breaks; "silent": nothing comes any more
  Latency,    \* the longest a request or an answer is under way when nothing is wrong
  Grace,      \* killGrace
  Slack,      \* TIMEOUT_SLACK_MS
  MaxWritten  \* bound: stream -> how many chunks the command writes

Stream == {"stdout", "stderr"}

ASSUME ExecAssumption ==
  /\ Modes \subseteq {"run", "stream"} /\ Faults \subseteq {"lost", "silent"}
  /\ Timeouts \ {Never} \subseteq Nat \ {0}
  /\ Latency \in Nat /\ Grace \in Nat /\ Slack \in Nat
  /\ MaxWritten \in [Stream -> Nat]
  \* The agent's last word is on its way back before the client gives up.
  /\ Latency + Grace + Latency < Slack

VARIABLES
  call,     \* mode and timeout of this call
  timers,   \* the timers that run: name -> what is left
  conn,     \* the connection
  faulty,   \* history: the network failed this call
  wire,     \* pieces under way to the client
  client,   \* where the call is, and what it has collected
  handler,  \* the agent's handler and its context
  command,  \* the command, and how much it wrote on each stream
  pipes     \* stream -> chunks written and not yet read

vars == <<call, timers, conn, faulty, wire, client, handler, command, pipes>>

Kind == Stream \cup {"pid", "refusal", "exit", "error"}
Piece == [kind: Kind, n: Nat, part: 1..2]

TypeOK ==
  /\ call \in [mode: Modes, timeout: Timeouts]
  /\ DOMAIN timers \subseteq {"request", "guard", "deadline", "grace", "answer"}
  /\ \A t \in DOMAIN timers : timers[t] \in Nat
  /\ conn \in {"idle", "open", "lost", "silent", "aborted"} /\ faulty \in BOOLEAN
  /\ wire \in Seq(Piece)
  /\ client \in [pc: {"idle", "sent", "reading", "over"},
                 outcome: {"none", "result", "timedOut", "failed", "aborted", "closed",
                           "cancelled"},
                 stdout: Seq(Nat), stderr: Seq(Nat), exit: {"none", "own", "late"},
                 buffered: Seq(Piece)]
  /\ handler \in [pc: {"idle", "serving", "answered", "erred", "refused"},
                  ctx: {"open", "expired", "cancelled"}]
  /\ command \in [state: {"unborn", "running", "ended"}, killed: BOOLEAN,
                  written: [Stream -> Nat]]
  /\ pipes \in [Stream -> Seq(Nat)]

Init ==
  /\ call \in [mode: Modes, timeout: Timeouts]
  /\ timers = << >>
  /\ conn = "idle" /\ faulty = FALSE
  /\ wire = << >>
  /\ client = [pc |-> "idle", outcome |-> "none", stdout |-> << >>, stderr |-> << >>,
               exit |-> "none", buffered |-> << >>]
  /\ handler = [pc |-> "idle", ctx |-> "open"]
  /\ command = [state |-> "unborn", killed |-> FALSE, written |-> [s \in Stream |-> 0]]
  /\ pipes = [s \in Stream |-> << >>]

-----------------------------------------------------------------------------
(* Timers. *)

Without(ts, names) == [t \in DOMAIN ts \ names |-> ts[t]]
With(ts, name, left) ==
  [t \in DOMAIN ts \cup {name} |-> IF t = name THEN left ELSE ts[t]]
Due(t) == t \in DOMAIN timers /\ timers[t] = 0

(* A line of the response, and its sending: to nobody once the caller is gone. *)
Line(kind, n) ==
  <<[kind |-> kind, n |-> n, part |-> 1], [kind |-> kind, n |-> n, part |-> 2]>>

Send(line) == wire' = IF conn = "open" THEN wire \o line ELSE wire

-----------------------------------------------------------------------------
(* The agent: exec, killGroup, forward. *)

(* The request arrives and the command is started, with the deadline that run  *)
(* passes on and stream does not; or it is refused.                            *)
Arrive ==
  /\ handler.pc = "idle" /\ conn = "open" /\ "request" \in DOMAIN timers
  /\ handler' = [handler EXCEPT !.pc = "serving"]
  /\ command' = [command EXCEPT !.state = "running"]
  /\ timers' = LET ts == Without(timers, {"request"})
               IN  IF call.mode = "run" /\ call.timeout # Never
                   THEN With(ts, "deadline", call.timeout) ELSE ts
  /\ Send(Line("pid", 0))
  /\ UNCHANGED <<call, conn, faulty, client, pipes>>

Refuse ==
  /\ handler.pc = "idle" /\ conn = "open" /\ "request" \in DOMAIN timers
  /\ handler' = [handler EXCEPT !.pc = "refused"]
  /\ timers' = With(Without(timers, {"request"}), "answer", Latency)
  /\ Send(Line("refusal", 0))
  /\ UNCHANGED <<call, conn, faulty, client, command, pipes>>

Write(s) ==
  /\ command.state = "running" /\ command.written[s] < MaxWritten[s]
  /\ command' = [command EXCEPT !.written[s] = @ + 1]
  /\ pipes' = [pipes EXCEPT ![s] = Append(@, command.written[s] + 1)]
  /\ UNCHANGED <<call, timers, conn, faulty, wire, client, handler>>

CommandEnds ==
  /\ command.state = "running"
  /\ command' = [command EXCEPT !.state = "ended"]
  /\ UNCHANGED <<call, timers, conn, faulty, wire, client, handler, pipes>>

(* The two readers: each hands on what its pipe holds, line by line. *)
Forward(s) ==
  /\ pipes[s] # << >>
  /\ Send(Line(s, Head(pipes[s])))
  /\ pipes' = [pipes EXCEPT ![s] = Tail(@)]
  /\ UNCHANGED <<call, timers, conn, faulty, client, handler, command>>

(* The context ends: TERM to the group, which a command may ignore, and KILL   *)
(* when the grace is over.                                                     *)
ContextEnds(cause) ==
  /\ handler.pc = "serving" /\ handler.ctx = "open"
  /\ CASE cause = "expired" -> Due("deadline")
       [] cause = "cancelled" -> conn \in {"lost", "silent", "aborted"}
  /\ handler' = [handler EXCEPT !.ctx = cause]
  /\ timers' = With(Without(timers, {"deadline"}), "grace", Grace)
  /\ UNCHANGED <<call, conn, faulty, wire, client, command, pipes>>

KillGroup ==
  /\ handler.pc = "serving" /\ Due("grace")
  /\ command' = [command EXCEPT !.killed = TRUE]
  /\ timers' = Without(timers, {"grace"})
  /\ UNCHANGED <<call, conn, faulty, wire, client, handler, pipes>>

(* Mutant: the command is waited for, and its pipes are not. *)
Answer_BeforeDrain ==
  /\ handler.pc = "serving" /\ command.state = "ended"
  /\ handler' = [handler EXCEPT !.pc = "answered"]
  /\ timers' = With(Without(timers, {"deadline", "grace"}), "answer", Latency)
  /\ Send(Line("exit", IF handler.ctx = "expired" THEN 1 ELSE 0))
  /\ UNCHANGED <<call, conn, faulty, client, command, pipes>>

(* Both pipes drained and the command collected: the last line, with timedOut  *)
(* as 1, or the error of a Wait that is not an exit status; then the body ends. *)
Answer ==
  /\ handler.pc = "serving" /\ command.state = "ended"
  /\ \A s \in Stream : pipes[s] = << >>
  /\ timers' = With(Without(timers, {"deadline", "grace"}), "answer", Latency)
  /\ \/ /\ handler' = [handler EXCEPT !.pc = "answered"]
        /\ Send(Line("exit", IF handler.ctx = "expired" THEN 1 ELSE 0))
     \/ /\ handler' = [handler EXCEPT !.pc = "erred"]
        /\ Send(Line("error", 0))
  /\ UNCHANGED <<call, conn, faulty, client, command, pipes>>

-----------------------------------------------------------------------------
(* The client. *)

(* Mutant: run gives up at the very deadline it gave the agent. *)
GiveUp_AtDeadline(timeout) == timeout

(* When run gives up by itself. *)
GiveUp(timeout) == timeout + Slack

(* exec: the request is sent; run's guard runs from here. *)
Request ==
  /\ client.pc = "idle"
  /\ client' = [client EXCEPT !.pc = "sent"]
  /\ conn' = "open"
  /\ timers' = LET ts == With(timers, "request", Latency)
               IN  IF call.mode = "run" /\ call.timeout # Never
                   THEN With(ts, "guard", GiveUp(call.timeout)) ELSE ts
  /\ UNCHANGED <<call, faulty, wire, handler, command, pipes>>

(* The call is over, and its timer with it. *)
Over(outcome) ==
  /\ client' = [client EXCEPT !.pc = "over", !.outcome = outcome, !.buffered = << >>]
  /\ timers' = Without(timers, {"guard", "answer"})

(* Mutant: the guard is cleared as soon as there is a response. *)
Headers_ClearsGuard ==
  /\ client.pc = "sent" /\ wire # << >>
  /\ IF wire[1].kind = "refusal" THEN Over("failed")
     ELSE /\ client' = [client EXCEPT !.pc = "reading"]
          /\ timers' = IF call.mode = "stream" /\ call.timeout # Never
                       THEN With(timers, "guard", call.timeout) ELSE Without(timers, {"guard"})
  /\ UNCHANGED <<call, conn, faulty, wire, handler, command, pipes>>

(* The response begins.  A refusal is read and thrown; stream's timer runs     *)
(* from here.                                                                  *)
Headers ==
  /\ client.pc = "sent" /\ wire # << >>
  /\ IF wire[1].kind = "refusal" THEN Over("failed")
     ELSE /\ client' = [client EXCEPT !.pc = "reading"]
          /\ timers' = IF call.mode = "stream" /\ call.timeout # Never
                       THEN With(timers, "guard", call.timeout) ELSE timers
  /\ UNCHANGED <<call, conn, faulty, wire, handler, command, pipes>>

HasLine(pieces) == \E i \in DOMAIN pieces : pieces[i].part = 2

Reads == client.pc = "reading" /\ ~HasLine(client.buffered)

(* readNdjson: a chunk, cut anywhere, is added to what is buffered ... *)
Chunk(n) ==
  /\ Reads /\ n <= Len(wire)
  /\ client' = [client EXCEPT !.buffered = @ \o SubSeq(wire, 1, n)]
  /\ wire' = SubSeq(wire, n + 1, Len(wire))
  /\ UNCHANGED <<call, timers, conn, faulty, handler, command, pipes>>

(* ... and every line that is now complete is taken off it: run collects both   *)
(* streams and the exit, stream hands on stdout alone.  Half a line is no JSON. *)
NextLine ==
  /\ client.pc = "reading" /\ HasLine(client.buffered)
  /\ LET piece == client.buffered[1]
         rest == SubSeq(client.buffered, 3, Len(client.buffered))
     IN  IF piece.part = 2 \/ piece.kind = "error" THEN Over("failed")
         ELSE /\ client' = [client EXCEPT
                    !.buffered = rest,
                    !.stdout = IF piece.kind = "stdout" THEN Append(@, piece.n) ELSE @,
                    !.stderr = IF piece.kind = "stderr" /\ call.mode = "run"
                               THEN Append(@, piece.n) ELSE @,
                    !.exit = IF piece.kind # "exit" THEN @
                             ELSE IF piece.n = 1 THEN "late" ELSE "own"]
              /\ UNCHANGED timers
  /\ UNCHANGED <<call, conn, faulty, wire, handler, command, pipes>>

(* The end of the body: run judges by the exit it saw, stream closes. *)
Judged ==
  IF client.exit = "none" THEN "failed"
  ELSE IF client.exit = "late" THEN "timedOut"
  ELSE "result"

EndOfBody ==
  /\ Reads /\ wire = << >> /\ handler.pc \in {"answered", "erred"} /\ conn = "open"
  /\ Over(IF call.mode = "run" THEN Judged ELSE "closed")
  /\ UNCHANGED <<call, conn, faulty, wire, handler, command, pipes>>

(* Mutant: whatever ends the reading ends the stream. *)
ReadFails_Closes ==
  /\ client.pc = "sent" \/ Reads
  /\ wire = << >> /\ conn \in {"lost", "aborted"}
  /\ Over(IF call.mode = "run" THEN "failed" ELSE "closed")
  /\ UNCHANGED <<call, conn, faulty, wire, handler, command, pipes>>

(* A read that fails because the connection broke is a failure; one the call   *)
(* itself aborted ends run with the abort, and a stream as if it were done.    *)
ReadFails ==
  /\ client.pc = "sent" \/ Reads
  /\ wire = << >>
  /\ \/ conn = "lost" /\ Over("failed")
     \/ /\ conn = "aborted"
        /\ Over(IF call.mode = "run" THEN "aborted" ELSE "closed")
  /\ UNCHANGED <<call, conn, faulty, wire, handler, command, pipes>>

Abort == conn' = "aborted" /\ wire' = << >>

(* run's guard, or stream's timer. *)
GuardFires ==
  /\ Due("guard")
  /\ Abort
  /\ timers' = Without(timers, {"guard", "request", "answer"})
  /\ UNCHANGED <<call, client, faulty, handler, command, pipes>>

(* The reader of a stream cancels it. *)
Cancel ==
  /\ call.mode = "stream" /\ client.pc = "reading"
  /\ Over("cancelled")
  /\ Abort
  /\ UNCHANGED <<call, faulty, handler, command, pipes>>

-----------------------------------------------------------------------------
(* The network, at any time: what is under way arrives up to some point. *)
Fail(fault) ==
  /\ conn = "open" /\ client.pc # "over"
  /\ conn' = fault /\ faulty' = TRUE
  /\ \E n \in 0..Len(wire) : wire' = SubSeq(wire, 1, n)
  /\ timers' = Without(timers, {"request", "answer"})
  /\ UNCHANGED <<call, client, handler, command, pipes>>

(* Nothing that must have happened by now is still to happen. *)
Overdue ==
  \/ Due("request") \/ Due("deadline") \/ Due("grace")
  \/ Due("answer") /\ conn = "open" /\ call.mode = "run"
  \/ command.killed /\ command.state = "running"
  \/ handler.pc = "serving" /\ command.state = "ended"

Tick ==
  /\ ~Overdue
  /\ \E t \in DOMAIN timers : timers[t] > 0
  /\ timers' = [t \in DOMAIN timers |-> IF timers[t] = 0 THEN 0 ELSE timers[t] - 1]
  /\ UNCHANGED <<call, conn, faulty, wire, client, handler, command, pipes>>

-----------------------------------------------------------------------------
Agent ==
  \/ Arrive \/ Refuse \/ KillGroup \/ Answer
  \/ ContextEnds("expired") \/ ContextEnds("cancelled")
  \/ \E s \in Stream : Forward(s)

Client ==
  \/ Headers \/ NextLine \/ EndOfBody \/ ReadFails \/ GuardFires
  \/ \E n \in 1..Len(wire) : Chunk(n)

Next ==
  \/ Request \/ Agent \/ Client \/ Cancel \/ Tick
  \/ CommandEnds \/ \E s \in Stream : Write(s)
  \/ \E fault \in Faults : Fail(fault)

Spec == Init /\ [][Next]_vars

(* Both programs run, time passes, and a command that was sent KILL ends.      *)
Fairness ==
  /\ WF_vars(Agent) /\ WF_vars(Client) /\ WF_vars(Tick)
  /\ WF_vars(command.killed /\ CommandEnds)

FairSpec == Spec /\ Fairness

-----------------------------------------------------------------------------
Written(s) == [i \in 1..command.written[s] |-> i]

(* A result run returns holds all the command wrote, on each stream in order,   *)
(* however its lines were interleaved and cut (channel.ts run, ndjson.ts,       *)
(* server.go exec).                                                             *)
ResultWhole ==
  client.outcome \in {"result", "timedOut"} =>
    /\ call.mode = "run" /\ command.state = "ended"
    /\ client.stdout = Written("stdout") /\ client.stderr = Written("stderr")

(* What a stream's reader gets is at every moment a beginning of what the       *)
(* command wrote to stdout, and when the stream closes and neither its timer    *)
(* nor its reader ended it, all of it (channel.ts stream).                      *)
StreamHonest ==
  call.mode = "stream" =>
    /\ client.stdout = SubSeq(Written("stdout"), 1, Len(client.stdout))
    /\ (client.outcome = "closed" /\ conn # "aborted") =>
         command.state = "ended" /\ client.stdout = Written("stdout")

(* While the network works a command past its deadline is reported as timed     *)
(* out, or as ended, by the agent: the client's own guard never comes first,    *)
(* and no line is lost to where a chunk was cut (channel.ts run, TIMEOUT_SLACK_ *)
(* MS against server.go killGrace).                                             *)
FailsOnlyForCause ==
  client.outcome \in {"failed", "aborted"} =>
    faulty \/ handler.pc \in {"refused", "erred"}

(* A run with a timeout ends, and so does a stream that has begun, although the *)
(* network falls silent half way (channel.ts run and stream).                   *)
CallEnds ==
  (call.timeout # Never /\ client.pc = (IF call.mode = "run" THEN "sent" ELSE "reading"))
    ~> (client.pc = "over")
=============================================================================
