---------------------------- MODULE BoundedReads ----------------------------
(***************************************************************************)
(* The agent's bounded read, which session capture depends on                *)
(* (src/agent/files.go readFileBounded and readBounded, files_linux.go       *)
(* openNoFollow): the handler that answers by the deadline, the goroutine    *)
(* that reads aside and keeps its slot until the read itself ends, and the   *)
(* workspace that changes under both.                                        *)
(*                                                                           *)
(* One path /parent/name is read.  The parent is a directory, absent or      *)
(* swapped for a symlink, the name may at any time be absent, a symlink, a   *)
(* regular file or something else (a FIFO, a directory), and the regular     *)
(* file is written to.  A request refused for its parameters changes nothing *)
(* and is left out.                                                          *)
(***************************************************************************)
EXTENDS Naturals, FiniteSets

CONSTANTS
  Read,      \* requests
  MaxReads,  \* slots (maxBoundedReads)
  MaxBytes,  \* the caller's budget
  MaxSize    \* bound: how large the file becomes

ASSUME ReadsAssumption ==
  /\ MaxReads \in Nat \ {0}
  /\ MaxBytes \in Nat /\ MaxSize \in Nat

VARIABLES
  parent,   \* what the path's parent component is now
  name,     \* what its last component is now
  size,     \* of the regular file
  stalled,  \* the filesystem does not answer any more
  slots,    \* agent.boundedReads: slots taken
  reads     \* request -> handler, context and goroutine

vars == <<parent, name, size, stalled, slots, reads>>

(* What a name can be; `outside' is what a symlinked parent leads to. *)
Inside == {"regular", "other"}
Node == Inside \cup {"outside"}

None == [outcome |-> "none", node |-> "none", length |-> 0]

(* pc is the handler's, task the goroutine's.  `result' is what the goroutine  *)
(* sends, `answer' what the caller gets; `whole' is history: the last read met *)
(* the end of the file.                                                        *)
ReadRecord ==
  [pc: {"idle", "waiting", "answered", "refused"},
   ctx: {"open", "over"},
   task: {"off", "walk", "open", "stat", "read", "sent", "ended"},
   node: Node \cup {"none"}, length: Nat, whole: BOOLEAN,
   result: [outcome: {"none", "ok", "not_found", "failed"}, node: Node \cup {"none"},
            length: Nat],
   answer: [outcome: {"none", "ok", "not_found", "failed"}, node: Node \cup {"none"},
            length: Nat]]

TypeOK ==
  /\ parent \in {"dir", "absent", "link"}
  /\ name \in Inside \cup {"absent", "link"}
  /\ size \in 0..MaxSize
  /\ stalled \in BOOLEAN
  /\ slots \in 0..MaxReads
  /\ reads \in [Read -> ReadRecord]

Init ==
  /\ parent = "dir"
  /\ name \in Inside \cup {"absent", "link"}
  /\ size \in 0..MaxSize
  /\ stalled = FALSE
  /\ slots = 0
  /\ reads = [r \in Read |-> [pc |-> "idle", ctx |-> "open", task |-> "off", node |-> "none",
                              length |-> 0, whole |-> FALSE, result |-> None,
                              answer |-> None]]

-----------------------------------------------------------------------------
(* The handler. *)

(* A slot and a goroutine, or a refusal when every slot is taken. *)
Request(r) ==
  /\ reads[r].pc = "idle"
  /\ IF slots < MaxReads
     THEN /\ slots' = slots + 1
          /\ reads' = [reads EXCEPT ![r] = [@ EXCEPT !.pc = "waiting", !.task = "walk"]]
     ELSE /\ reads' = [reads EXCEPT ![r].pc = "refused"]
          /\ UNCHANGED slots
  /\ UNCHANGED <<parent, name, size, stalled>>

(* The deadline passes, or the caller goes away: read_failed in either case. *)
ContextEnds(r) ==
  /\ reads[r].pc = "waiting" /\ reads[r].ctx = "open"
  /\ reads' = [reads EXCEPT ![r].ctx = "over"]
  /\ UNCHANGED <<parent, name, size, stalled, slots>>

Late == [None EXCEPT !.outcome = "failed"]

(* Mutants: the slot goes with the answer; the deadline is only looked at      *)
(* between two reads.                                                          *)
Answer_FreesSlot(r) ==
  /\ reads[r].pc = "waiting"
  /\ \E answer \in (IF reads[r].result # None THEN {reads[r].result} ELSE {})
                   \cup (IF reads[r].ctx # "open" THEN {Late} ELSE {}) :
       reads' = [reads EXCEPT ![r] = [@ EXCEPT !.pc = "answered", !.answer = answer,
                                               !.result = None]]
  /\ slots' = slots - 1
  /\ UNCHANGED <<parent, name, size, stalled>>

Answer_WaitsForRead(r) ==
  /\ reads[r].pc = "waiting" /\ reads[r].result # None
  /\ reads' = [reads EXCEPT ![r] = [@ EXCEPT !.pc = "answered", !.answer = reads[r].result]]
  /\ UNCHANGED <<parent, name, size, stalled, slots>>

(* Whichever of the two is ready; either one when both are.  The handler's     *)
(* return cancels the context, which the read may still be using.              *)
Answer(r) ==
  /\ reads[r].pc = "waiting"
  /\ \E answer \in (IF reads[r].result # None THEN {reads[r].result} ELSE {})
                   \cup (IF reads[r].ctx # "open" THEN {Late} ELSE {}) :
       reads' = [reads EXCEPT ![r] = [@ EXCEPT !.pc = "answered", !.answer = answer,
                                               !.result = None, !.ctx = "over",
                                               !.whole = reads[r].whole /\ answer # Late]]
  /\ UNCHANGED <<parent, name, size, stalled, slots>>

-----------------------------------------------------------------------------
(* The goroutine: openNoFollow, fstat, read. *)

(* It sends its result, which nobody may be waiting for any more. *)
Sends(r, outcome) ==
  reads' = [reads EXCEPT ![r] =
              [@ EXCEPT !.task = "sent", !.length = 0, !.node = "none",
                        !.whole = (outcome = "ok" /\ reads[r].length >= size),
                        !.result = IF reads[r].pc = "answered" THEN None
                                   ELSE [outcome |-> outcome, node |-> reads[r].node,
                                         length |-> reads[r].length]]]

Continues(r, task, node) ==
  reads' = [reads EXCEPT ![r] = [@ EXCEPT !.task = task, !.node = node]]

Syscall(r, task) == reads[r].task = task /\ ~stalled

OpenParent(r) ==
  /\ Syscall(r, "walk")
  /\ IF parent = "dir" THEN Continues(r, "open", "none")
     ELSE Sends(r, IF parent = "absent" THEN "not_found" ELSE "failed")
  /\ UNCHANGED <<parent, name, size, stalled, slots>>

(* Mutant: the last component is opened by the whole path. *)
OpenName_ByPath(r) ==
  /\ Syscall(r, "open")
  /\ IF parent = "link" THEN Continues(r, "stat", "outside")
     ELSE IF name \in Inside THEN Continues(r, "stat", name)
     ELSE Sends(r, IF name = "absent" THEN "not_found" ELSE "failed")
  /\ UNCHANGED <<parent, name, size, stalled, slots>>

(* Relative to the directory that was opened, and never through a symlink. *)
OpenName(r) ==
  /\ Syscall(r, "open")
  /\ IF name \in Inside THEN Continues(r, "stat", name)
     ELSE Sends(r, IF name = "absent" THEN "not_found" ELSE "failed")
  /\ UNCHANGED <<parent, name, size, stalled, slots>>

(* fstat, of the file that was opened. *)
Stat(r) ==
  /\ Syscall(r, "stat")
  /\ IF reads[r].node = "other" \/ size > MaxBytes THEN Sends(r, "failed")
     ELSE Continues(r, "read", reads[r].node)
  /\ UNCHANGED <<parent, name, size, stalled, slots>>

(* One read of the file, of some of what is there, up to one byte past the     *)
(* budget.                                                                     *)
ReadChunk(r) ==
  /\ Syscall(r, "read") /\ reads[r].ctx = "open"
  /\ \E n \in 1..MaxSize :
       /\ reads[r].length + n <= size /\ reads[r].length + n <= MaxBytes + 1
       /\ reads' = [reads EXCEPT ![r].length = @ + n]
  /\ UNCHANGED <<parent, name, size, stalled, slots>>

(* Mutant: the reader stops at the budget. *)
ReadEnds_AtBudget(r) ==
  /\ Syscall(r, "read")
  /\ reads[r].ctx # "open" \/ reads[r].length >= size \/ reads[r].length >= MaxBytes
  /\ Sends(r, IF reads[r].ctx = "open" THEN "ok" ELSE "failed")
  /\ UNCHANGED <<parent, name, size, stalled, slots>>

(* The end of the file, one byte too many, or a context that has ended. *)
ReadEnds(r) ==
  /\ Syscall(r, "read")
  /\ reads[r].ctx # "open" \/ reads[r].length >= size \/ reads[r].length = MaxBytes + 1
  /\ Sends(r, IF reads[r].ctx = "open" /\ reads[r].length <= MaxBytes THEN "ok" ELSE "failed")
  /\ UNCHANGED <<parent, name, size, stalled, slots>>

(* Mutant: the channel has no buffer, so a result nobody takes is never sent. *)
Release_Unbuffered(r) ==
  /\ reads[r].task = "sent" /\ reads[r].pc = "answered" /\ reads[r].answer # Late
  /\ slots' = slots - 1
  /\ reads' = [reads EXCEPT ![r].task = "ended"]
  /\ UNCHANGED <<parent, name, size, stalled>>

(* Only now is the slot given back. *)
Release(r) ==
  /\ reads[r].task = "sent"
  /\ slots' = slots - 1
  /\ reads' = [reads EXCEPT ![r].task = "ended"]
  /\ UNCHANGED <<parent, name, size, stalled>>

Goroutine(r) ==
  OpenParent(r) \/ OpenName(r) \/ Stat(r) \/ ReadChunk(r) \/ ReadEnds(r) \/ Release(r)

-----------------------------------------------------------------------------
(* The workspace: a notebook writes to the file, names are replaced, and a     *)
(* network filesystem stops answering.                                         *)
Write ==
  /\ size' \in 0..MaxSize
  /\ UNCHANGED <<parent, name, stalled, slots, reads>>

Replace ==
  /\ \/ parent' \in {"dir", "absent", "link"} /\ UNCHANGED name
     \/ name' \in Inside \cup {"absent", "link"} /\ UNCHANGED parent
  /\ UNCHANGED <<size, stalled, slots, reads>>

Stall ==
  /\ stalled' = TRUE
  /\ UNCHANGED <<parent, name, size, slots, reads>>

Next ==
  \/ \E r \in Read : Request(r) \/ ContextEnds(r) \/ Answer(r) \/ Goroutine(r)
  \/ Write \/ Replace \/ Stall

Spec == Init /\ [][Next]_vars

(* The deadline's timer fires, goroutines run, and a system call returns unless *)
(* the filesystem has stalled.                                                  *)
Fairness ==
  \A r \in Read : WF_vars(ContextEnds(r)) /\ WF_vars(Answer(r)) /\ WF_vars(Goroutine(r))

FairSpec == Spec /\ Fairness

-----------------------------------------------------------------------------
(* However many requests are answered late, no more reads run than there are    *)
(* slots: a stalled filesystem cannot pile up goroutines (files.go              *)
(* readFileBounded).                                                            *)
RunningBounded ==
  Cardinality({r \in Read : reads[r].task \notin {"off", "ended"}}) <= MaxReads

(* Bytes are answered only from a regular file inside the tree, whatever is     *)
(* swapped in between the open, the fstat and the read (files_linux.go).        *)
OnlyInside ==
  \A r \in Read : reads[r].answer.outcome = "ok" => reads[r].answer.node = "regular"

(* An answer is within the budget and never a truncated file, although the file *)
(* grows between fstat and the last read (files.go readBounded).                *)
WholeWithinBudget ==
  \A r \in Read : reads[r].answer.outcome = "ok" =>
    reads[r].answer.length <= MaxBytes /\ reads[r].whole

(* A request that got a slot is answered, with the filesystem stalled as well.  *)
AnsweredInTime == \A r \in Read : (reads[r].pc = "waiting") ~> (reads[r].pc = "answered")

(* Unless the filesystem has stalled a read ends and gives its slot back, also  *)
(* when its caller has long been answered.                                      *)
SlotReturned ==
  \A r \in Read : (reads[r].task = "walk") ~> (reads[r].task = "ended" \/ stalled)
=============================================================================
