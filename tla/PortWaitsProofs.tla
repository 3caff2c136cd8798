-------------------------- MODULE PortWaitsProofs ---------------------------
(***************************************************************************)
(* Theorems about PortWaits, for all timeouts, probe limits, pauses and      *)
(* latencies that leave the client's slack its room: an open port is found,  *)
(* a crash is no timeout, the agent's loop is bounded and the agent decides. *)
(***************************************************************************)
EXTENDS PortWaits, TLAPS

Answers == {"open", "exited", "closed", "refused"}

(* Which timers run where, and what an outcome says of the agent. *)
PlaceInv ==
  /\ "request" \in DOMAIN timers => client = "sent" /\ waiter = "idle"
  /\ "answer" \in DOMAIN timers => waiter \in Answers
  /\ client = "idle" => waiter = "idle"
  /\ waiter = "idle" => spent = 0 /\ steady = FALSE /\ deadSeen = FALSE
  /\ client = "ready" => waiter = "open"
  /\ client = "crashed" => waiter = "exited"
  /\ client = "timedOut" => waiter = "closed"

(* The loop's clock: what is left of the deadline is what has not been spent,  *)
(* and a probe or a pause that runs ends within its share.                     *)
LoopInv ==
  InLoop =>
    /\ "deadline" \in DOMAIN timers
    /\ timers["deadline"] > 0 => spent + timers["deadline"] = call.timeout
    /\ spent <= Longest(call)
    /\ waiter = "probing" =>
         "probe" \in DOMAIN timers /\ spent + timers["probe"] <= Longest(call)
    /\ waiter = "pausing" =>
         "pause" \in DOMAIN timers /\ spent + timers["pause"] <= call.timeout + Pause

(* The client's timer outlasts whatever still has to happen. *)
GuardInv ==
  client = "sent" /\ network = "up" =>
    /\ "guard" \in DOMAIN timers
    /\ waiter # "gone"
    /\ waiter = "idle" =>
         /\ "request" \in DOMAIN timers
         /\ timers["guard"] + Latency = timers["request"] + call.timeout + Slack
    /\ InLoop => timers["guard"] + spent + Latency >= call.timeout + Slack
    /\ waiter \in Answers =>
         "answer" \in DOMAIN timers /\ timers["answer"] < timers["guard"]

(* A port open since the request arrived is being probed, with time to answer. *)
SteadyInv ==
  steady /\ ~CallerLeft =>
    /\ port = "open"
    /\ \/ waiter = "open"
       \/ waiter = "probing" /\ "probe" \in DOMAIN timers /\ timers["probe"] > 0

DeadInv == call.watch /\ deadSeen => process = "exited" /\ waiter \in {"failed", "exited"}

Inv == TypeOK /\ PlaceInv /\ LoopInv /\ GuardInv /\ SteadyInv /\ DeadInv /\ AgentDecides

-----------------------------------------------------------------------------
(* The numbers of a call. *)
LEMMA CallFacts ==
  ASSUME Inv
  PROVE  /\ call.timeout \in Nat /\ call.limit \in Nat /\ call.limit > 0
         /\ Pause \in Nat /\ Latency \in Nat /\ Slack \in Nat
         /\ Longest(call) = call.timeout + Pause + call.limit
         /\ Latency + Longest(call) + Latency < call.timeout + Slack
         /\ spent \in Nat
         /\ \A t \in DOMAIN timers : timers[t] \in Nat
  BY WaitAssumption DEF Inv, TypeOK, Longest

LEMMA ProbeBounds ==
  ASSUME NEW remaining \in Nat, NEW limit \in Nat, limit > 0
  PROVE  /\ probeBound(remaining, limit) \in Nat
         /\ probeBound(remaining, limit) > 0
         /\ probeBound(remaining, limit) <= limit
  BY DEF probeBound

LEMMA InitInv == Init => Inv
<1> SUFFICES ASSUME Init PROVE Inv
  OBVIOUS
<1>1. DOMAIN timers = {}
  BY DEF Init
<1>2. TypeOK
  BY <1>1 DEF Init, TypeOK
<1> QED
  BY <1>1, <1>2 DEF Init, Inv, PlaceInv, LoopInv, GuardInv, SteadyInv, CallerLeft, DeadInv,
                    AgentDecides,
                    InLoop

-----------------------------------------------------------------------------
(* While the network works and the client waits, its timer is not due. *)
LEMMA GuardRuns ==
  ASSUME Inv, client = "sent", network = "up"
  PROVE  "guard" \in DOMAIN timers /\ timers["guard"] > 0
<1>1. /\ "guard" \in DOMAIN timers
      /\ timers["guard"] \in Nat
  BY CallFacts DEF Inv, GuardInv
<1>2. CASE waiter = "idle"
  BY <1>1, <1>2, CallFacts DEF Inv, GuardInv
<1>3. CASE InLoop
  BY <1>1, <1>3, CallFacts DEF Inv, GuardInv, LoopInv
<1>4. CASE waiter \in Answers
  BY <1>1, <1>4, CallFacts DEF Inv, GuardInv
<1> QED
  BY <1>1, <1>2, <1>3, <1>4 DEF Inv, GuardInv, TypeOK, InLoop, Answers

LEMMA RequestInv == ASSUME Inv, Request PROVE Inv'
<1>1. /\ DOMAIN timers' = DOMAIN timers \cup {"request", "guard"}
      /\ timers'["request"] = Latency /\ timers'["guard"] = call.timeout + Slack
      /\ \A t \in DOMAIN timers : t \notin {"request", "guard"} => timers'[t] = timers[t]
  BY DEF Request, With
<1>2. waiter = "idle" /\ steady = FALSE
  BY DEF Inv, PlaceInv, Request
<1>3. TypeOK'
  BY <1>1, CallFacts DEF Inv, TypeOK, Request
<1>4. PlaceInv' /\ LoopInv' /\ SteadyInv' /\ DeadInv' /\ AgentDecides'
  BY <1>1, <1>2 DEF Inv, PlaceInv, LoopInv, SteadyInv, CallerLeft, DeadInv, AgentDecides,
                    InLoop, Request,
                    Answers
<1>5. GuardInv'
  BY <1>1, <1>2, CallFacts DEF GuardInv, InLoop, Answers, Request
<1> QED
  BY <1>3, <1>4, <1>5 DEF Inv

LEMMA ArriveInv == ASSUME Inv, Arrive PROVE Inv'
<1> DEFINE ts == With(Without(timers, {"request"}), "deadline", call.timeout)
<1> DEFINE b == probeBound(call.timeout, call.limit)
<1>1. DOMAIN ts = (DOMAIN timers \ {"request"}) \cup {"deadline"} /\ ts["deadline"] = call.timeout
  BY DEF With, Without
<1>2. \A t \in DOMAIN timers : t \notin {"request", "deadline"} => ts[t] = timers[t]
  BY DEF With, Without
<1> HIDE DEF ts
<1>3. timers' = With(ts, "probe", b)
  BY <1>1 DEF Arrive, Probing, ts
<1>4. b \in Nat /\ b > 0 /\ b <= call.limit
  BY CallFacts, ProbeBounds
<1> HIDE DEF b
<1>5. /\ DOMAIN timers' = (DOMAIN timers \ {"request"}) \cup {"deadline", "probe"}
      /\ timers'["deadline"] = call.timeout /\ timers'["probe"] = b
      /\ \A t \in DOMAIN timers : t \notin {"request", "deadline", "probe"} => timers'[t] = timers[t]
  BY <1>1, <1>2, <1>3 DEF With
<1>6. spent = 0 /\ client = "sent" /\ waiter = "idle" /\ network = "up" /\ deadSeen = FALSE
  BY DEF Inv, PlaceInv, Arrive
<1>7. TypeOK'
  BY <1>4, <1>5, CallFacts DEF Inv, TypeOK, Arrive
<1>8. PlaceInv'
  BY <1>5, <1>6 DEF Inv, PlaceInv, Arrive, Answers
<1>9. LoopInv'
  BY <1>4, <1>5, <1>6, CallFacts DEF LoopInv, Arrive, Longest
<1>10. GuardInv'
  BY <1>5, <1>6, CallFacts DEF Inv, GuardInv, Arrive, Answers
<1>11. SteadyInv' /\ DeadInv' /\ AgentDecides'
  BY <1>4, <1>5, <1>6 DEF Inv, SteadyInv, CallerLeft, DeadInv, AgentDecides, Arrive
<1> QED
  BY <1>7, <1>8, <1>9, <1>10, <1>11 DEF Inv

(* An answer sets out with more than Latency left on the client's timer. *)
LEMMA AnswerInv ==
  ASSUME Inv, NEW a \in Answers, Answer(a),
         UNCHANGED <<call, network, port, process, client, spent, steady, deadSeen>>,
         InLoop \/ (waiter = "idle" /\ network = "up" /\ "request" \in DOMAIN timers),
         steady => a = "open" \/ CallerLeft,
         call.watch /\ deadSeen => a = "exited"
  PROVE  Inv'
<1>1. waiter \notin Answers /\ waiter # "gone"
  BY DEF InLoop, Answers
<1> DEFINE ts == Without(timers, {"request", "deadline", "probe", "pause"})
<1>2. /\ DOMAIN ts = DOMAIN timers \ {"request", "deadline", "probe", "pause"}
      /\ \A t \in DOMAIN ts : ts[t] = timers[t]
  BY DEF Without
<1>3. /\ network = "up" => timers' = With(ts, "answer", Latency)
      /\ network # "up" => timers' = ts
      /\ waiter' = a
  BY DEF Answer
<1> HIDE DEF ts
<1>4. /\ network = "up" => "answer" \in DOMAIN timers' /\ timers'["answer"] = Latency
      /\ DOMAIN timers' \subseteq (DOMAIN timers \ {"request", "deadline", "probe", "pause"})
                                    \cup {"answer"}
      /\ "guard" \in DOMAIN timers => "guard" \in DOMAIN timers' /\ timers'["guard"] = timers["guard"]
      /\ \A t \in DOMAIN timers' : t # "answer" => timers'[t] = timers[t]
  BY <1>2, <1>3 DEF With
<1>5. "answer" \notin DOMAIN timers
  BY <1>1 DEF Inv, PlaceInv
<1>6. \A t \in DOMAIN timers' : timers'[t] \in Nat
  BY <1>2, <1>3, <1>5, CallFacts DEF With
<1>7. TypeOK'
  BY <1>3, <1>4, <1>6 DEF Inv, TypeOK, Answers
<1>8. client = "sent" \/ client = "failed"
  BY <1>1 DEF Inv, PlaceInv, TypeOK, Answers, InLoop
<1>9. PlaceInv'
  BY <1>3, <1>4, <1>8 DEF Inv, PlaceInv, Answers
<1>10. LoopInv'
  BY <1>3 DEF LoopInv, InLoop, Answers
<1>11. GuardInv'
  <2>1. SUFFICES ASSUME client = "sent", network = "up"
                 PROVE  "guard" \in DOMAIN timers' /\ timers'["answer"] < timers'["guard"]
    BY <1>3, <1>4 DEF GuardInv, Answers, InLoop
  <2>2. "guard" \in DOMAIN timers /\ timers["guard"] > Latency
    <3>1. "guard" \in DOMAIN timers /\ timers["guard"] \in Nat
      BY <2>1, CallFacts DEF Inv, GuardInv
    <3>2. CASE InLoop
      BY <2>1, <3>1, <3>2, CallFacts DEF Inv, GuardInv, LoopInv
    <3>3. CASE waiter = "idle"
      <4>1. /\ timers["request"] \in Nat
            /\ timers["guard"] + Latency = timers["request"] + call.timeout + Slack
        BY <2>1, <3>3, CallFacts DEF Inv, GuardInv
      <4> QED
        BY <3>1, <4>1, CallFacts
    <3> QED
      BY <3>1, <3>2, <3>3
  <2> QED
    BY <2>1, <2>2, <1>4
<1>12. SteadyInv' /\ DeadInv'
  BY <1>3 DEF Inv, SteadyInv, CallerLeft, DeadInv
<1>13. AgentDecides'
  BY <1>1, <1>3 DEF Inv, AgentDecides, Answers
<1> QED
  BY <1>7, <1>9, <1>10, <1>11, <1>12, <1>13 DEF Inv

LEMMA RefuseInv == ASSUME Inv, Refuse PROVE Inv'
<1>1. steady = FALSE /\ deadSeen = FALSE
  BY DEF Inv, PlaceInv, Refuse
<1> QED
  BY <1>1, AnswerInv DEF Refuse, Answers

LEMMA ProbeAnswersInv == ASSUME Inv, ProbeAnswers PROVE Inv'
<1>1. ~(call.watch /\ deadSeen)
  BY DEF Inv, DeadInv, ProbeAnswers
<1> QED
  BY <1>1, AnswerInv DEF ProbeAnswers, Answers, InLoop

(* A step inside the loop that leaves the client and the deadline alone. *)
LEMMA ProbeFailsInv == ASSUME Inv, ProbeFails PROVE Inv'
<1>1. /\ DOMAIN timers' = DOMAIN timers \ {"probe"}
      /\ \A t \in DOMAIN timers' : timers'[t] = timers[t]
  BY DEF ProbeFails, Without
<1>2. (steady => CallerLeft)
  BY DEF Inv, SteadyInv, CallerLeft, ProbeFails, Due
<1>3. TypeOK'
  <2>1. deadSeen' \in BOOLEAN
    BY DEF ProbeFails
  <2> QED
    BY <1>1, <2>1, CallFacts DEF Inv, TypeOK, ProbeFails
<1>4. PlaceInv'
  BY <1>1 DEF Inv, PlaceInv, ProbeFails, Answers
<1>5. LoopInv'
  BY <1>1 DEF Inv, LoopInv, InLoop, ProbeFails
<1>6. GuardInv'
  BY <1>1 DEF Inv, GuardInv, InLoop, ProbeFails, Answers
<1>7. SteadyInv' /\ DeadInv' /\ AgentDecides'
  BY <1>2 DEF Inv, SteadyInv, CallerLeft, DeadInv, AgentDecides, ProbeFails
<1> QED
  BY <1>3, <1>4, <1>5, <1>6, <1>7 DEF Inv

LEMMA CheckProcessInv == ASSUME Inv, CheckProcess PROVE Inv'
<1>1. (steady => CallerLeft) /\ waiter = "failed"
  BY DEF Inv, SteadyInv, CheckProcess
<1>2. CASE call.watch /\ process = "exited"
  BY <1>1, <1>2, AnswerInv DEF CheckProcess, Answers, InLoop
<1>3. CASE ~(call.watch /\ process = "exited")
  <2>1. waiter' = "alive" /\ UNCHANGED timers
        /\ UNCHANGED <<call, network, port, process, client, spent, steady, deadSeen>>
    BY <1>3 DEF CheckProcess
  <2>2. TypeOK'
    BY <2>1 DEF Inv, TypeOK
  <2>3. PlaceInv' /\ LoopInv' /\ GuardInv'
    BY <1>1, <2>1 DEF Inv, PlaceInv, LoopInv, GuardInv, InLoop, Answers, Longest
  <2>4. SteadyInv' /\ DeadInv' /\ AgentDecides'
    BY <1>1, <1>3, <2>1 DEF Inv, SteadyInv, CallerLeft, DeadInv, AgentDecides
  <2> QED
    BY <2>2, <2>3, <2>4 DEF Inv
<1> QED
  BY <1>2, <1>3

(* A pause starts only while something of the deadline is left. *)
LEMMA CheckDeadlineInv == ASSUME Inv, CheckDeadline PROVE Inv'
<1>1. (steady => CallerLeft) /\ waiter = "alive" /\ ~(call.watch /\ deadSeen)
  BY DEF Inv, SteadyInv, CallerLeft, DeadInv, CheckDeadline, TypeOK
<1>2. CASE Due("deadline")
  BY <1>1, <1>2, AnswerInv DEF CheckDeadline, Answers, InLoop
<1>3. CASE ~Due("deadline")
  <2>1. waiter' = "pausing" /\ timers' = With(timers, "pause", Pause)
        /\ UNCHANGED <<call, network, port, process, client, spent, steady, deadSeen>>
    BY <1>3 DEF CheckDeadline
  <2>2. /\ DOMAIN timers' = DOMAIN timers \cup {"pause"}
        /\ timers'["pause"] = Pause
        /\ \A t \in DOMAIN timers : t # "pause" => timers'[t] = timers[t]
    BY <2>1 DEF With
  <2>3. TypeOK'
    BY <2>1, <2>2, CallFacts DEF Inv, TypeOK
  <2>4. PlaceInv' /\ SteadyInv' /\ DeadInv' /\ AgentDecides'
    BY <1>1, <2>1, <2>2 DEF Inv, PlaceInv, SteadyInv, CallerLeft, DeadInv, AgentDecides, Answers
  <2>5. LoopInv'
    <3>1. /\ "deadline" \in DOMAIN timers /\ timers["deadline"] \in Nat /\ timers["deadline"] > 0
          /\ spent + timers["deadline"] = call.timeout /\ spent <= Longest(call)
      BY <1>1, <1>3, CallFacts DEF Inv, LoopInv, InLoop, Due
    <3>2. spent + Pause <= call.timeout + Pause
      BY <3>1, CallFacts
    <3> QED
      BY <2>1, <2>2, <3>1, <3>2 DEF LoopInv, InLoop, Longest
  <2>6. GuardInv'
    BY <1>1, <2>1, <2>2 DEF Inv, GuardInv, InLoop, Answers
  <2> QED
    BY <2>3, <2>4, <2>5, <2>6 DEF Inv
<1> QED
  BY <1>2, <1>3

LEMMA PauseEndsInv == ASSUME Inv, PauseEnds PROVE Inv'
<1> DEFINE ts == Without(timers, {"pause"})
<1> DEFINE b == probeBound(ts["deadline"], call.limit)
<1>1. /\ DOMAIN ts = DOMAIN timers \ {"pause"}
      /\ \A t \in DOMAIN ts : ts[t] = timers[t]
  BY DEF Without
<1>2. /\ waiter = "pausing" /\ "deadline" \in DOMAIN timers /\ timers["deadline"] \in Nat
      /\ spent <= call.timeout + Pause
  BY CallFacts DEF Inv, LoopInv, InLoop, PauseEnds, Due
<1>3. b \in Nat /\ b > 0 /\ b <= call.limit
  <2>1. ts["deadline"] \in Nat
    BY <1>1, <1>2
  <2> QED
    BY <2>1, CallFacts, ProbeBounds
<1> HIDE DEF ts
<1>4. timers' = With(ts, "probe", b)
  BY DEF PauseEnds, Probing, ts
<1> HIDE DEF b
<1>5. /\ DOMAIN timers' = (DOMAIN timers \ {"pause"}) \cup {"probe"}
      /\ timers'["probe"] = b
      /\ \A t \in DOMAIN timers \ {"pause"} : t # "probe" => timers'[t] = timers[t]
  BY <1>1, <1>4 DEF With
<1>6. (steady => CallerLeft) /\ ~(call.watch /\ deadSeen)
  BY <1>2 DEF Inv, SteadyInv, CallerLeft, DeadInv, TypeOK
<1>7. TypeOK'
  BY <1>3, <1>5, CallFacts DEF Inv, TypeOK, PauseEnds
<1>8. PlaceInv' /\ SteadyInv' /\ DeadInv' /\ AgentDecides'
  BY <1>2, <1>5, <1>6 DEF Inv, PlaceInv, SteadyInv, CallerLeft, DeadInv, AgentDecides, Answers,
                          PauseEnds
<1>9. LoopInv'
  <2>1. spent + b <= Longest(call)
    BY <1>2, <1>3, CallFacts
  <2> QED
    BY <1>2, <1>5, <2>1 DEF Inv, LoopInv, InLoop, Longest, PauseEnds
<1>10. GuardInv'
  BY <1>2, <1>5 DEF Inv, GuardInv, InLoop, Answers, PauseEnds
<1> QED
  BY <1>7, <1>8, <1>9, <1>10 DEF Inv

LEMMA CallerGoneInv == ASSUME Inv, CallerGone PROVE Inv'
<1>1. /\ DOMAIN timers' = DOMAIN timers \ {"pause", "deadline"}
      /\ \A t \in DOMAIN timers' : timers'[t] = timers[t]
  BY DEF CallerGone, Without
<1>2. waiter = "pausing" /\ waiter' = "gone" /\ (network = "down" \/ client = "failed")
  BY DEF CallerGone, CallerLeft
<1>3. (steady => CallerLeft) /\ ~(call.watch /\ deadSeen)
  BY <1>2 DEF Inv, SteadyInv, CallerLeft, DeadInv, TypeOK
<1>4. TypeOK'
  BY <1>1, CallFacts DEF Inv, TypeOK, CallerGone
<1>5. PlaceInv' /\ SteadyInv' /\ DeadInv' /\ AgentDecides'
  BY <1>1, <1>2, <1>3
     DEF Inv, PlaceInv, SteadyInv, CallerLeft, DeadInv, AgentDecides, Answers, CallerGone
<1>6. LoopInv' /\ GuardInv'
  BY <1>2 DEF LoopInv, GuardInv, InLoop, CallerGone
<1> QED
  BY <1>4, <1>5, <1>6 DEF Inv

-----------------------------------------------------------------------------
(* The client, the pod, the network and time. *)

LEMMA ReceiveInv == ASSUME Inv, Receive PROVE Inv'
<1>1. /\ DOMAIN timers' = DOMAIN timers \ {"answer", "guard"}
      /\ \A t \in DOMAIN timers' : timers'[t] = timers[t]
  BY DEF Receive, Without
<1>2. waiter \in Answers /\ client = "sent"
  BY DEF Inv, PlaceInv, Receive
<1>3. \/ waiter = "open" /\ client' = "ready"
      \/ waiter = "exited" /\ client' = "crashed"
      \/ waiter = "closed" /\ client' = "timedOut"
      \/ waiter = "refused" /\ client' = "failed"
  BY <1>2 DEF Receive, Outcome, Answers
<1>4. TypeOK'
  BY <1>1, <1>3, CallFacts DEF Inv, TypeOK, Receive
<1>5. PlaceInv'
  BY <1>1, <1>2, <1>3 DEF Inv, PlaceInv, Answers, Receive
<1>6. LoopInv' /\ GuardInv' /\ AgentDecides'
  BY <1>3 DEF LoopInv, GuardInv, AgentDecides, InLoop, Receive
<1>7. SteadyInv' /\ DeadInv'
  BY <1>3 DEF Inv, SteadyInv, CallerLeft, DeadInv, Receive
<1> QED
  BY <1>4, <1>5, <1>6, <1>7 DEF Inv

(* The client's own timer fires only after the network has failed. *)
LEMMA GuardFiresInv == ASSUME Inv, GuardFires PROVE Inv'
<1>1. /\ DOMAIN timers' = DOMAIN timers \ {"answer", "guard", "request"}
      /\ \A t \in DOMAIN timers' : timers'[t] = timers[t]
  BY DEF GuardFires, Without
<1>2. network = "down"
  BY GuardRuns DEF GuardFires, Due, Inv, TypeOK
<1>3. TypeOK'
  BY <1>1, CallFacts DEF Inv, TypeOK, GuardFires
<1>4. PlaceInv'
  BY <1>1 DEF Inv, PlaceInv, Answers, GuardFires
<1>5. LoopInv'
  BY <1>1 DEF Inv, LoopInv, InLoop, GuardFires
<1>6. GuardInv' /\ AgentDecides'
  BY <1>2 DEF GuardInv, AgentDecides, GuardFires
<1>7. SteadyInv' /\ DeadInv'
  BY <1>1 DEF Inv, SteadyInv, CallerLeft, DeadInv, GuardFires
<1> QED
  BY <1>3, <1>4, <1>5, <1>6, <1>7 DEF Inv

LEMMA PortChangesInv == ASSUME Inv, PortChanges PROVE Inv'
<1>1. steady' \in BOOLEAN /\ (steady' => steady /\ port' = "open")
  BY DEF Inv, TypeOK, PortChanges
<1>2. TypeOK'
  BY <1>1 DEF Inv, TypeOK, PortChanges
<1>3. PlaceInv'
  <2>1. waiter = "idle" => steady' = FALSE
    BY <1>1 DEF Inv, PlaceInv
  <2> QED
    BY <2>1 DEF Inv, PlaceInv, PortChanges
<1>4. LoopInv' /\ GuardInv' /\ DeadInv' /\ AgentDecides'
  BY DEF Inv, LoopInv, GuardInv, DeadInv, AgentDecides, InLoop, PortChanges, Longest
<1>5. SteadyInv'
  BY <1>1 DEF Inv, SteadyInv, CallerLeft, PortChanges
<1> QED
  BY <1>2, <1>3, <1>4, <1>5 DEF Inv

LEMMA ProcessExitsInv == ASSUME Inv, ProcessExits PROVE Inv'
<1>1. TypeOK'
  BY DEF Inv, TypeOK, ProcessExits
<1> QED
  BY <1>1 DEF Inv, PlaceInv, LoopInv, GuardInv, SteadyInv, CallerLeft, DeadInv, AgentDecides,
              InLoop,
              ProcessExits, Longest

LEMMA NetworkDownInv == ASSUME Inv, NetworkDown PROVE Inv'
<1>1. PICK S \in SUBSET {"request", "answer", "guard"} :
        timers' = Without(timers, S) /\ {"request", "answer"} \subseteq S
  <2>1. ({"request", "answer"} \cup (IF client' = "failed" THEN {"guard"} ELSE {}))
          \in SUBSET {"request", "answer", "guard"}
    OBVIOUS
  <2> QED
    BY <2>1 DEF NetworkDown
<1>2. /\ DOMAIN timers' = DOMAIN timers \ S
      /\ \A t \in DOMAIN timers' : timers'[t] = timers[t]
  BY <1>1 DEF Without
<1>3. network' = "down" /\ client' \in {"sent", "failed"} /\ client = "sent"
  BY DEF NetworkDown
<1>4. TypeOK'
  BY <1>2, <1>3, CallFacts DEF Inv, TypeOK, NetworkDown
<1>5. PlaceInv'
  BY <1>1, <1>2, <1>3 DEF Inv, PlaceInv, Answers, NetworkDown
<1>6. LoopInv'
  BY <1>1, <1>2 DEF Inv, LoopInv, InLoop, NetworkDown
<1>7. GuardInv' /\ AgentDecides'
  BY <1>3 DEF GuardInv, AgentDecides
<1>8. SteadyInv' /\ DeadInv'
  BY <1>1, <1>2 DEF Inv, SteadyInv, CallerLeft, DeadInv, NetworkDown
<1> QED
  BY <1>4, <1>5, <1>6, <1>7, <1>8 DEF Inv

(* Time passes in a probe that hangs, in a pause and on the network only. *)
LEMMA TickInv == ASSUME Inv, Tick PROVE Inv'
<1>1. /\ DOMAIN timers' = DOMAIN timers
      /\ \A t \in DOMAIN timers :
           /\ timers[t] \in Nat /\ timers'[t] \in Nat
           /\ timers[t] = 0 => timers'[t] = 0
           /\ timers[t] > 0 => timers'[t] = timers[t] - 1
  BY CallFacts DEF Tick
<1>2. UNCHANGED <<call, network, port, process, waiter, client, steady, deadSeen>>
  BY DEF Tick
<1>3. /\ InLoop => spent' = spent + 1
      /\ ~InLoop => spent' = spent
  BY DEF Tick
<1>4. InLoop => waiter \in {"probing", "pausing"}
  BY DEF Tick, Overdue, InLoop
<1>5. \A t \in DOMAIN timers \cap {"request", "answer", "probe", "pause"} : timers[t] > 0
  BY <1>1 DEF Tick, Overdue, Due
<1>6. TypeOK'
  BY <1>1, <1>2, <1>3, CallFacts DEF Inv, TypeOK
<1>7. PlaceInv'
  BY <1>1, <1>2, <1>3 DEF Inv, PlaceInv, InLoop
<1>8. LoopInv'
  <2>1. SUFFICES ASSUME InLoop PROVE LoopInv'
    BY <1>2 DEF LoopInv, InLoop
  <2>2. /\ "deadline" \in DOMAIN timers
        /\ timers["deadline"] > 0 => spent + timers["deadline"] = call.timeout
        /\ waiter = "probing" =>
             "probe" \in DOMAIN timers /\ spent + timers["probe"] <= Longest(call)
        /\ waiter = "pausing" =>
             "pause" \in DOMAIN timers /\ spent + timers["pause"] <= call.timeout + Pause
    BY <2>1 DEF Inv, LoopInv
  <2>3. timers'["deadline"] > 0 => spent' + timers'["deadline"] = call.timeout
    BY <1>1, <1>3, <2>1, <2>2, CallFacts
  <2>4. waiter = "probing" => spent' + timers'["probe"] <= Longest(call) /\ spent' <= Longest(call)
    BY <1>1, <1>3, <1>5, <2>1, <2>2, CallFacts
  <2>5. waiter = "pausing" =>
          spent' + timers'["pause"] <= call.timeout + Pause /\ spent' <= Longest(call)
    BY <1>1, <1>3, <1>5, <2>1, <2>2, CallFacts
  <2> QED
    BY <1>1, <1>2, <1>4, <2>1, <2>2, <2>3, <2>4, <2>5 DEF LoopInv, Longest
<1>9. GuardInv'
  <2>1. SUFFICES ASSUME client = "sent", network = "up" PROVE GuardInv'
    BY <1>2 DEF GuardInv
  <2>2. "guard" \in DOMAIN timers /\ timers'["guard"] = timers["guard"] - 1
        /\ timers["guard"] \in Nat /\ waiter # "gone"
    BY <1>1, <2>1, GuardRuns DEF Inv, GuardInv
  <2>3. waiter = "idle" =>
          /\ "request" \in DOMAIN timers
          /\ timers'["guard"] + Latency = timers'["request"] + call.timeout + Slack
    BY <1>1, <1>5, <2>1, <2>2, CallFacts DEF Inv, GuardInv
  <2>4. InLoop => timers'["guard"] + spent' + Latency >= call.timeout + Slack
    BY <1>3, <2>1, <2>2, CallFacts DEF Inv, GuardInv
  <2>5. waiter \in Answers =>
          "answer" \in DOMAIN timers /\ timers'["answer"] < timers'["guard"]
    BY <1>1, <1>5, <2>1, <2>2 DEF Inv, GuardInv
  <2> QED
    BY <1>1, <1>2, <2>2, <2>3, <2>4, <2>5 DEF GuardInv, InLoop
<1>10. SteadyInv'
  <2>1. ~(waiter = "probing" /\ port = "open")
    BY DEF Tick, Overdue
  <2> QED
    BY <1>2, <2>1 DEF Inv, SteadyInv, CallerLeft
<1>11. DeadInv' /\ AgentDecides'
  BY <1>2 DEF Inv, DeadInv, AgentDecides
<1> QED
  BY <1>6, <1>7, <1>8, <1>9, <1>10, <1>11 DEF Inv

LEMMA StutterInv == ASSUME Inv, UNCHANGED vars PROVE Inv'
<1> USE DEF vars
<1>1. TypeOK'
  BY DEF Inv, TypeOK
<1> QED
  BY <1>1 DEF Inv, PlaceInv, LoopInv, GuardInv, SteadyInv, CallerLeft, DeadInv, AgentDecides,
              InLoop, Longest

LEMMA NextInv == Inv /\ [Next]_vars => Inv'
<1> SUFFICES ASSUME Inv, [Next]_vars PROVE Inv'
  OBVIOUS
<1>1. CASE Request \/ PortChanges \/ ProcessExits \/ NetworkDown \/ Tick \/ UNCHANGED vars
  BY <1>1, RequestInv, PortChangesInv, ProcessExitsInv, NetworkDownInv, TickInv, StutterInv
<1>2. CASE Agent
  BY <1>2, ArriveInv, RefuseInv, ProbeAnswersInv, ProbeFailsInv, CheckProcessInv,
     CheckDeadlineInv, PauseEndsInv, CallerGoneInv DEF Agent
<1>3. CASE Client
  BY <1>3, ReceiveInv, GuardFiresInv DEF Client
<1> QED
  BY <1>1, <1>2, <1>3 DEF Next

(* The invariant holds for every timeout, zero included, every limit of a probe *)
(* and every latency that fits the slack.                                      *)
THEOREM PortWaitsInvariant == Spec => []Inv
  BY InitInv, NextInv, PTL DEF Spec

(* A port that is open from the request's arrival on is reported open           *)
(* (process.go waitPort).                                                      *)
THEOREM OpenPortIsFound == Spec => []OpenPortFound
<1>1. Inv => OpenPortFound
  BY DEF Inv, SteadyInv, OpenPortFound
<1> QED
  BY <1>1, PortWaitsInvariant, PTL

(* A process the loop saw dead is reported as a crash, never as a timeout       *)
(* (process.go waitPort, channel.ts waitForPort).                              *)
THEOREM CrashIsReported == Spec => []CrashIsNoTimeout
<1>1. Inv => CrashIsNoTimeout
  BY DEF Inv, DeadInv, PlaceInv, CrashIsNoTimeout
<1> QED
  BY <1>1, PortWaitsInvariant, PTL

(* The agent's loop ends one pause and one probe after its deadline at the      *)
(* latest (process.go waitPort and probeBound).                                *)
THEOREM WaitIsBounded == Spec => []BoundedWait
<1>1. Inv => BoundedWait
  BY DEF Inv, LoopInv, BoundedWait
<1> QED
  BY <1>1, PortWaitsInvariant, PTL

(* While the network works the agent's answer is the one the client reports:    *)
(* the client's own timer never comes first (channel.ts waitForPort).          *)
THEOREM AgentIsHeard == Spec => []AgentDecides
<1>1. Inv => AgentDecides
  BY DEF Inv
<1> QED
  BY <1>1, PortWaitsInvariant, PTL

=============================================================================
