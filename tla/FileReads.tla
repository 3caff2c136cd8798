----------------------------- MODULE FileReads ------------------------------
(***************************************************************************)
(* Reading files back out of the pod while others are written: readFile,     *)
(* readFileBounded and listFiles of ArmadaSandbox and AgentChannel           *)
(* (src/src/sandbox.ts, channel.ts) against the agent's handlers             *)
(* (src/agent/files.go).  One call, over the writes of FileWrites.  What     *)
(* happens inside the agent's bounded read is BoundedReads' subject: here it *)
(* answers by its deadline, and not always within the budget, since the      *)
(* client is to hold it to that.                                             *)
(*                                                                           *)
(* Contents are what FileWrites tells apart; how they are encoded for        *)
(* marimohub is left out.  The numbers of a caller's budget are counted in   *)
(* halves, of a byte and of a millisecond.                                   *)
(***************************************************************************)
EXTENDS FileWrites

CONSTANTS
  Hidden,       \* paths whose name begins with a dot
  Budgets,      \* what callers pass
  MaxSafe,      \* the largest safe integer
  MAX_TIMER_MS,
  BOUNDED_READ_SLACK_MS,
  Trip,         \* milliseconds an answer is on its way, on a network that works
  MaxBody,      \* bound: bytes an agent sends
  CallsBeside   \* bound: kind of read -> calls of writeFiles up to its end

ASSUME ReadAssumption ==
  /\ Hidden \subseteq Path /\ MaxSafe \in Nat /\ MaxBody \in Nat
  /\ MAX_TIMER_MS \in Nat \ {0} /\ BOUNDED_READ_SLACK_MS \in Nat
  /\ Trip \in 0..(BOUNDED_READ_SLACK_MS - 1)
  /\ \A options \in Budgets : options.maxBytes \in Int /\ options.timeoutMs \in Int

VARIABLES
  read  \* the call, with the agent's and the client's end of its request

allVars == <<call, requests, files, unsettled, read>>

NoBudget == [maxBytes |-> 0, timeoutMs |-> 0]

(* `paths' is what the call is about, `seen' what the agent found there, `same' *)
(* history: nothing was written there since the call began.  `why' says where   *)
(* an error came from.                                                          *)
NoRead ==
  [kind |-> "none", paths |-> {}, budget |-> NoBudget, includeHidden |-> FALSE, pc |-> "idle",
   seen |-> << >>, code |-> "none", length |-> 0, answeredAt |-> 0, total |-> 0, elapsed |-> 0,
   silent |-> FALSE, same |-> TRUE, result |-> "none", why |-> "none", found |-> {}]

ReadsInit == Init /\ read = NoRead

Pending == read.pc \in {"asked", "looked", "answered"}

-----------------------------------------------------------------------------
(* The caller's budget. *)

Ceil(n, d) == (n + d - 1) \div d

isValidBudget(options) ==
  LET bytes == options.maxBytes \div 2
  IN  /\ options.maxBytes % 2 = 0 /\ bytes \in 0..MaxSafe
      /\ 4 * Ceil(bytes, 3) <= MaxSafe
      /\ options.timeoutMs \in 1..(2 * MAX_TIMER_MS)

(* Mutant: the milliseconds are rounded down. *)
budgetOf_RoundsDown(options) ==
  [maxBytes |-> options.maxBytes \div 2, timeoutMs |-> options.timeoutMs \div 2]

budgetOf(options) ==
  [maxBytes |-> options.maxBytes \div 2, timeoutMs |-> Ceil(options.timeoutMs, 2)]

(* What the agent takes for a budget. *)
BudgetServed(budget) ==
  budget.maxBytes \in 0..MaxSafe /\ budget.timeoutMs \in 1..MAX_TIMER_MS

(* Mutant: the slack is added without a look at what a timer holds. *)
boundedReadGiveUpMs_NoCap(timeoutMs) == timeoutMs + BOUNDED_READ_SLACK_MS

boundedReadGiveUpMs(timeoutMs) ==
  LET late == timeoutMs + BOUNDED_READ_SLACK_MS
  IN  IF late < MAX_TIMER_MS THEN late ELSE MAX_TIMER_MS

(* Node's timers: one that is too long fires after a millisecond. *)
Timer(ms) == IF ms > MAX_TIMER_MS THEN 1 ELSE ms

-----------------------------------------------------------------------------
(* The calls. *)

Settled(r, result, why) == [r EXCEPT !.pc = "settled", !.result = result, !.why = why]

(* One read in a behaviour, and not too many writes before it. *)
MayBegin(kind) == read = NoRead /\ call.n <= CallsBeside[kind]

(* Sent to the agent, if there is one to be reached (see Sandboxes). *)
Asks(new) ==
  /\ \/ read' = [new EXCEPT !.pc = "asked"]
     \/ read' = Settled(new, "BACKEND_ERROR", "no agent")
  /\ UNCHANGED vars

ReadFile(p) ==
  /\ MayBegin("whole")
  /\ Asks([NoRead EXCEPT !.kind = "whole", !.paths = {p}])

(* A budget that marimohub's port does not allow goes no further. *)
ReadFileBounded(p, options) ==
  /\ MayBegin("bounded")
  /\ LET new == [NoRead EXCEPT !.kind = "bounded", !.paths = {p}]
     IN  IF isValidBudget(options) THEN Asks([new EXCEPT !.budget = budgetOf(options)])
         ELSE read' = Settled(new, "READ_FAILED", "invalid") /\ UNCHANGED vars

ListFiles(includeHidden) ==
  /\ MayBegin("list")
  /\ Asks([NoRead EXCEPT !.kind = "list", !.paths = Path, !.includeHidden = includeHidden])

-----------------------------------------------------------------------------
(* The agent. *)

Answers(code) == [read EXCEPT !.pc = "answered", !.code = code, !.answeredAt = read.elapsed]

(* Not by a handler: a token that is not the pod's, or an agent that predates   *)
(* the route, whose 404 carries no code.                                        *)
Unserved ==
  /\ read.pc = "asked"
  /\ read' = Answers("none")
  /\ UNCHANGED vars

(* The path is there, or not; and what is read first. *)
Look ==
  /\ read.pc = "asked" /\ read.kind \in {"whole", "bounded"}
  /\ read' = IF read.kind = "bounded" /\ ~BudgetServed(read.budget)
             THEN [Answers("read_failed") EXCEPT !.why = "budget"]
             ELSE IF \E p \in read.paths : files[p].left = "absent" THEN Answers("not_found")
             ELSE [read EXCEPT !.pc = "looked", !.seen = [p \in read.paths |-> files[p]]]
  /\ UNCHANGED vars

Torn == [by |-> Nobody, left |-> "torn"]

(* The rest, from a file that may have been written to meanwhile. *)
Finish ==
  /\ read.pc = "looked"
  /\ \E length \in (IF read.kind = "bounded" THEN 0..MaxBody ELSE {0}) :
       read' = [Answers("ok") EXCEPT
                  !.length = length,
                  !.seen = [p \in read.paths |->
                              IF read.seen[p] = files[p] THEN files[p] ELSE Torn]]
  /\ UNCHANGED vars

(* A directory, a permission, a disk; for a bounded read also a file over the   *)
(* budget, every slot taken, or the deadline.                                   *)
Unreadable ==
  /\ read.pc \in {"asked", "looked"} /\ read.kind \in {"whole", "bounded"}
  /\ read' = Answers("read_failed")
  /\ UNCHANGED vars

(* A listing, as it is at one time; or why there is none. *)
List ==
  /\ read.pc = "asked" /\ read.kind = "list"
  /\ \/ read' = [Answers("ok") EXCEPT !.seen = files]
     \/ \E code \in {"not_a_directory", "not_found", "list_failed"} : read' = Answers(code)
  /\ UNCHANGED vars

-----------------------------------------------------------------------------
(* The client hears of it. *)

(* Mutant: a refusal is told by its status, which is 404 for both. *)
readRefused_ByStatus(code) ==
  CASE code \in {"not_found", "none"} -> "NOT_FOUND" [] OTHER -> "READ_FAILED"

readRefused(code) ==
  CASE code = "not_found" -> "NOT_FOUND"
    [] code = "read_failed" -> "READ_FAILED"
    [] OTHER -> "BACKEND_ERROR"

listRefused(code) ==
  CASE code = "not_a_directory" -> "NOT_A_DIRECTORY"
    [] code \in {"not_found", "list_failed"} -> "LIST_FAILED"
    [] OTHER -> "BACKEND_ERROR"

Arrives == read.pc = "answered" /\ ~read.silent

Refused ==
  /\ Arrives /\ read.code # "ok"
  /\ read' = Settled(read,
                     IF read.kind = "list" THEN listRefused(read.code) ELSE readRefused(read.code),
                     IF read.code = "none" THEN "unserved" ELSE read.why)
  /\ UNCHANGED vars

(* The whole body at once. *)
Body ==
  /\ Arrives /\ read.code = "ok" /\ read.kind = "whole"
  /\ read' = Settled(read, "ok", "none")
  /\ UNCHANGED vars

(* What is there, less the names that begin with a dot unless they are wanted. *)
toFileInfos(seen, includeHidden) ==
  {p \in DOMAIN seen : seen[p].left # "absent" /\ (includeHidden \/ p \notin Hidden)}

(* A listing, or something that is none: BACKEND_ERROR. *)
Listing ==
  /\ Arrives /\ read.code = "ok" /\ read.kind = "list"
  /\ \/ read' = [Settled(read, "ok", "none") EXCEPT
                   !.found = toFileInfos(read.seen, read.includeHidden)]
     \/ read' = Settled(read, "BACKEND_ERROR", "malformed")
  /\ UNCHANGED vars

(* readAtMost: some bytes of a bounded read's body, and an end to it at the     *)
(* first byte over the budget.                                                  *)
BodyChunk(n) ==
  /\ Arrives /\ read.code = "ok" /\ read.kind = "bounded"
  /\ read.total + n <= read.length
  /\ read' = IF read.total + n > read.budget.maxBytes
             THEN Settled([read EXCEPT !.total = @ + n], "READ_FAILED", "over")
             ELSE [read EXCEPT !.total = @ + n]
  /\ UNCHANGED vars

BodyEnd ==
  /\ Arrives /\ read.code = "ok" /\ read.kind = "bounded" /\ read.total = read.length
  /\ read' = Settled(read, "ok", "none")
  /\ UNCHANGED vars

(* The connection breaks, at whatever point. *)
Breaks ==
  /\ Pending
  /\ read' = Settled(read, "BACKEND_ERROR", "network")
  /\ UNCHANGED vars

(* Or it falls silent, which only a bounded read has a timer of its own for. *)
FallsSilent ==
  /\ Pending /\ read.kind = "bounded" /\ ~read.silent
  /\ read' = [read EXCEPT !.silent = TRUE]
  /\ UNCHANGED vars

GivesUpAt == Timer(boundedReadGiveUpMs(read.budget.timeoutMs))

(* A millisecond passes.  On a network that works the agent's answer is there   *)
(* by its deadline, and heard not long after.                                   *)
Tick ==
  /\ Pending /\ read.kind = "bounded" /\ read.elapsed < GivesUpAt
  /\ read.silent \/ read.elapsed < IF read.pc = "answered" THEN read.answeredAt + Trip
                                   ELSE read.budget.timeoutMs
  /\ read' = [read EXCEPT !.elapsed = @ + 1]
  /\ UNCHANGED vars

(* Mutant: the timer is for the headers only. *)
GiveUp_HeadersOnly ==
  /\ read.pc \in {"asked", "looked"} /\ read.kind = "bounded" /\ read.elapsed >= GivesUpAt
  /\ read' = Settled(read, "BACKEND_ERROR", "gave up")
  /\ UNCHANGED vars

GiveUp ==
  /\ Pending /\ read.kind = "bounded" /\ read.elapsed >= GivesUpAt
  /\ read' = Settled(read, "BACKEND_ERROR", "gave up")
  /\ UNCHANGED vars

-----------------------------------------------------------------------------
(* The writes go on meanwhile. *)
Writes ==
  /\ Next
  /\ call'.n <= IF read = NoRead THEN MaxCalls ELSE CallsBeside[read.kind]
  /\ read' = [read EXCEPT !.same = @ /\ \A p \in read.paths : files'[p] = files[p]]

Agent == Look \/ Finish \/ List
Client == Refused \/ Body \/ Listing \/ (\E n \in 1..MaxBody : BodyChunk(n)) \/ BodyEnd

ReadsNext ==
  \/ \E p \in Path : ReadFile(p) \/ \E options \in Budgets : ReadFileBounded(p, options)
  \/ \E includeHidden \in BOOLEAN : ListFiles(includeHidden)
  \/ Agent \/ Unserved \/ Unreadable
  \/ Client \/ Breaks \/ FallsSilent \/ Tick \/ GiveUp
  \/ Writes

ReadsSpec == ReadsInit /\ [][ReadsNext]_allVars

(* Timers fire; a bounded read is answered by the agent, which BoundedReads     *)
(* shows, and heard unless the network has failed.                              *)
ReadsFairSpec ==
  /\ ReadsSpec
  /\ WF_allVars(Tick) /\ WF_allVars(GiveUp) /\ WF_allVars(Agent) /\ WF_allVars(Client)

-----------------------------------------------------------------------------
(* Properties. *)

(* With no write to the path since the call began, what marimohub is told is so *)
(* (sandbox.ts:414-531, channel.ts:447-515): a read that succeeds has exactly   *)
(* what the file holds, NOT_FOUND is said only of a path that is not there,     *)
(* which session capture takes for "never written", a listing names what is     *)
(* there, and BACKEND_ERROR is never said of an answer the pod's agent gave.    *)
AnswerIsTrue ==
  (read.pc = "settled" /\ read.same) =>
    /\ (read.result = "ok" /\ read.kind # "list") =>
         \A p \in read.paths : files[p].left # "absent" /\ read.seen[p] = files[p]
    /\ (read.result = "ok" /\ read.kind = "list") =>
         read.found = {p \in Path : files[p].left # "absent"}
                        \ (IF read.includeHidden THEN {} ELSE Hidden)
    /\ read.result = "NOT_FOUND" => \A p \in read.paths : files[p].left = "absent"
    /\ read.result = "BACKEND_ERROR" => read.why # "none"

(* A budget the port allows is one the agent serves, at the least fraction of a *)
(* millisecond and at the most a timer holds (sandbox.ts:75-84, 451-454;        *)
(* files.go:113-122), and bytes are returned only if they are all of the body   *)
(* and within the budget, whatever the agent sends (channel.ts:677-697).        *)
BudgetKept ==
  read.kind = "bounded" =>
    /\ read.why # "budget"
    /\ read.result = "ok" => read.total <= read.budget.maxBytes /\ read.total = read.length

(* The client abandons a bounded read only past the agent's deadline, and on a  *)
(* network that works not at all, so that the agent's answer is what is         *)
(* reported, unless the deadline is about the longest a timer holds             *)
(* (channel.ts:154-161, 666-674).                                               *)
GivesUpLate ==
  read.why = "gave up" =>
    /\ read.elapsed >= read.budget.timeoutMs
    /\ read.silent \/ read.budget.timeoutMs + Trip >= MAX_TIMER_MS

(* A bounded read settles, also when the network falls silent in the middle of  *)
(* it (channel.ts:477).                                                         *)
BoundedSettles == (Pending /\ read.kind = "bounded") ~> (read.pc = "settled")
=============================================================================
