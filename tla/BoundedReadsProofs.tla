------------------------- MODULE BoundedReadsProofs -------------------------
(***************************************************************************)
(* Proofs about BoundedReads, for any requests, slots, budget and file size. *)
(***************************************************************************)
EXTENDS BoundedReads, FiniteSetTheorems, TLAPS

(* The requests whose goroutine has not ended. *)
Active == {r \in Read : reads[r].task \notin {"off", "ended"}}

(* A slot is taken for each of them, and no other. *)
SlotsInv == IsFiniteSet(Active) /\ Cardinality(Active) = slots

(* What holds of one request.  The goroutine is past fstat only with a regular  *)
(* file, a result of bytes is whole and within the budget, and once bytes are   *)
(* answered the goroutine does not touch `whole' any more.                      *)
Good(x) ==
  /\ x.pc \in {"idle", "refused"} <=> x.task = "off"
  /\ x.task = "off" => x.answer.outcome = "none" /\ x.result.outcome = "none"
  /\ x.task = "stat" => x.node \in Inside
  /\ x.task = "read" => x.node = "regular"
  /\ x.result.outcome # "none" => x.task \in {"sent", "ended"}
  /\ x.result.outcome = "ok" =>
       x.result.node = "regular" /\ x.result.length <= MaxBytes /\ x.whole
  /\ x.answer.outcome # "none" => x.pc = "answered"
  /\ x.answer.outcome = "ok" =>
       /\ x.task \in {"sent", "ended"}
       /\ x.answer.node = "regular" /\ x.answer.length <= MaxBytes /\ x.whole

Inv == TypeOK /\ SlotsInv /\ \A r \in Read : Good(reads[r])

-----------------------------------------------------------------------------
LEMMA InitInv == Init => Inv
  <1> SUFFICES ASSUME Init PROVE Inv
    OBVIOUS
  <1>1. TypeOK
    <2>1. None \in [outcome : {"none", "ok", "not_found", "failed"}, node : Node \cup {"none"},
                     length : Nat]
      BY DEF None
    <2>2. reads \in [Read -> ReadRecord]
      BY <2>1 DEF Init, ReadRecord
    <2>3. slots \in 0..MaxReads
      BY ReadsAssumption DEF Init
    <2>4. parent \in {"dir", "absent", "link"} /\ stalled \in BOOLEAN
      BY Zenon DEF Init
    <2> QED
      BY <2>2, <2>3, <2>4, Zenon DEF Init, TypeOK
  <1>2. Active = {}
    BY DEF Init, Active
  <1>3. SlotsInv
    BY <1>2, FS_EmptySet DEF Init, SlotsInv
  <1>4. \A r \in Read : Good(reads[r])
    BY DEF Init, Good, None
  <1> QED
    BY <1>1, <1>3, <1>4 DEF Inv

(* A step of one request: all the others are as before. *)
LEMMA OneRead ==
  ASSUME Inv, NEW r \in Read, NEW new \in ReadRecord, Good(new),
         reads' = [reads EXCEPT ![r] = new]
  PROVE  /\ reads' \in [Read -> ReadRecord]
         /\ \A q \in Read : Good(reads'[q])
         /\ reads'[r] = new /\ \A q \in Read \ {r} : reads'[q] = reads[q]
  BY DEF Inv, TypeOK

(* Such a step with the goroutine at work before and after, or neither. *)
LEMMA SameSlots ==
  ASSUME Inv, NEW r \in Read, NEW new \in ReadRecord, Good(new),
         reads' = [reads EXCEPT ![r] = new],
         reads[r].task \in {"off", "ended"} <=> new.task \in {"off", "ended"},
         UNCHANGED <<parent, name, size, stalled, slots>>
  PROVE  Inv'
  <1>1. /\ reads' \in [Read -> ReadRecord]
        /\ \A q \in Read : Good(reads'[q])
        /\ reads'[r] = new /\ \A q \in Read \ {r} : reads'[q] = reads[q]
    BY OneRead
  <1>2. Active' = Active
    BY <1>1 DEF Active
  <1>3. SlotsInv'
    BY <1>2 DEF Inv, SlotsInv
  <1>4. TypeOK'
    BY <1>1 DEF Inv, TypeOK
  <1> QED
    BY <1>1, <1>3, <1>4 DEF Inv

LEMMA RequestStep == ASSUME Inv, NEW r \in Read, Request(r) PROVE Inv'
  <1>0. reads[r] \in ReadRecord /\ Good(reads[r]) /\ reads[r].pc = "idle"
    BY DEF Inv, TypeOK, Request
  <1>1. CASE slots < MaxReads
    <2> DEFINE new == [reads[r] EXCEPT !.pc = "waiting", !.task = "walk"]
    <2>1. reads' = [reads EXCEPT ![r] = new] /\ slots' = slots + 1
          /\ UNCHANGED <<parent, name, size, stalled>>
      BY <1>1 DEF Request
    <2>2. new \in ReadRecord /\ Good(new) /\ new.task = "walk"
      BY <1>0 DEF ReadRecord, Good
    <2> HIDE DEF new
    <2>3. /\ reads' \in [Read -> ReadRecord]
          /\ \A q \in Read : Good(reads'[q])
          /\ reads'[r] = new /\ \A q \in Read \ {r} : reads'[q] = reads[q]
      BY <2>1, <2>2, OneRead
    <2>4. r \notin Active /\ Active' = Active \cup {r}
      BY <1>0, <2>2, <2>3 DEF Active, Good
    <2>5. SlotsInv'
      <3>1. IsFiniteSet(Active') /\ Cardinality(Active') = Cardinality(Active) + 1
        BY <2>4, FS_AddElement DEF Inv, SlotsInv
      <3> QED
        BY <2>1, <3>1 DEF Inv, SlotsInv
    <2>6. TypeOK'
      BY <1>1, <2>1, <2>3, ReadsAssumption DEF Inv, TypeOK
    <2> QED
      BY <2>3, <2>5, <2>6 DEF Inv
  <1>2. CASE ~(slots < MaxReads)
    <2> DEFINE new == [reads[r] EXCEPT !.pc = "refused"]
    <2>1. reads' = [reads EXCEPT ![r] = new] /\ UNCHANGED <<parent, name, size, stalled, slots>>
      BY <1>2 DEF Request
    <2>2. new \in ReadRecord /\ Good(new) /\ new.task = reads[r].task
      BY <1>0 DEF ReadRecord, Good
    <2> HIDE DEF new
    <2> QED
      BY <2>1, <2>2, SameSlots
  <1> QED
    BY <1>1, <1>2

LEMMA ReleaseStep == ASSUME Inv, NEW r \in Read, Release(r) PROVE Inv'
  <1> DEFINE new == [reads[r] EXCEPT !.task = "ended"]
  <1>0. reads[r] \in ReadRecord /\ Good(reads[r]) /\ reads[r].task = "sent"
    BY DEF Inv, TypeOK, Release
  <1>1. reads' = [reads EXCEPT ![r] = new] /\ slots' = slots - 1
        /\ UNCHANGED <<parent, name, size, stalled>>
    BY DEF Release
  <1>2. new \in ReadRecord /\ Good(new) /\ new.task = "ended"
    BY <1>0 DEF ReadRecord, Good
  <1> HIDE DEF new
  <1>3. /\ reads' \in [Read -> ReadRecord]
        /\ \A q \in Read : Good(reads'[q])
        /\ reads'[r] = new /\ \A q \in Read \ {r} : reads'[q] = reads[q]
    BY <1>1, <1>2, OneRead
  <1>4. r \in Active /\ Active' = Active \ {r}
    BY <1>0, <1>2, <1>3 DEF Active
  <1>5. IsFiniteSet(Active') /\ Cardinality(Active') = Cardinality(Active) - 1
    BY <1>4, FS_RemoveElement DEF Inv, SlotsInv
  <1>6. Cardinality(Active') \in Nat
    BY <1>5, FS_CardinalityType
  <1>7. SlotsInv'
    BY <1>1, <1>5 DEF Inv, SlotsInv
  <1>8. TypeOK'
    BY <1>1, <1>3, <1>6, <1>7, ReadsAssumption DEF Inv, TypeOK, SlotsInv
  <1> QED
    BY <1>3, <1>7, <1>8 DEF Inv

LEMMA ContextEndsStep == ASSUME Inv, NEW r \in Read, ContextEnds(r) PROVE Inv'
  <1> DEFINE new == [reads[r] EXCEPT !.ctx = "over"]
  <1>0. reads[r] \in ReadRecord /\ Good(reads[r])
    BY DEF Inv, TypeOK
  <1>1. reads' = [reads EXCEPT ![r] = new] /\ UNCHANGED <<parent, name, size, stalled, slots>>
    BY DEF ContextEnds
  <1>2. new \in ReadRecord /\ Good(new) /\ new.task = reads[r].task
    BY <1>0 DEF ReadRecord, Good
  <1> HIDE DEF new
  <1> QED
    BY <1>1, <1>2, SameSlots

(* The answer is the result, or that it is late: bytes only in the first case. *)
LEMMA AnswerStep == ASSUME Inv, NEW r \in Read, Answer(r) PROVE Inv'
  <1>0. reads[r] \in ReadRecord /\ Good(reads[r]) /\ reads[r].pc = "waiting"
    BY DEF Inv, TypeOK, Answer
  <1>1. PICK answer \in {reads[r].result, Late} :
          /\ reads' = [reads EXCEPT ![r] =
                         [@ EXCEPT !.pc = "answered", !.answer = answer, !.result = None,
                                   !.ctx = "over", !.whole = reads[r].whole /\ answer # Late]]
          /\ UNCHANGED <<parent, name, size, stalled, slots>>
    <2>1. PICK answer \in (IF reads[r].result # None THEN {reads[r].result} ELSE {})
                           \cup (IF reads[r].ctx # "open" THEN {Late} ELSE {}) :
            reads' = [reads EXCEPT ![r] =
                        [@ EXCEPT !.pc = "answered", !.answer = answer, !.result = None,
                                  !.ctx = "over", !.whole = reads[r].whole /\ answer # Late]]
      BY Zenon DEF Answer
    <2>2. answer \in {reads[r].result, Late}
      OBVIOUS
    <2>3. UNCHANGED <<parent, name, size, stalled, slots>>
      BY DEF Answer
    <2> QED
      BY <2>1, <2>2, <2>3, Zenon
  <1> DEFINE whole == reads[r].whole /\ answer # Late
             new == [reads[r] EXCEPT !.pc = "answered", !.answer = answer, !.result = None,
                                     !.ctx = "over", !.whole = whole]
  <1>2. reads' = [reads EXCEPT ![r] = new]
    BY <1>1
  <1>3. whole \in BOOLEAN /\ (whole <=> reads[r].whole /\ answer # Late)
    BY Zenon
  <1>4. /\ Late.outcome = "failed" /\ None.outcome = "none"
        /\ Late \in [outcome : {"none", "ok", "not_found", "failed"}, node : Node \cup {"none"},
                     length : Nat]
        /\ None \in [outcome : {"none", "ok", "not_found", "failed"}, node : Node \cup {"none"},
                     length : Nat]
    BY DEF Late, None
  <1>5. answer \in [outcome : {"none", "ok", "not_found", "failed"}, node : Node \cup {"none"},
                    length : Nat]
    BY <1>0, <1>4 DEF ReadRecord
  <1>6. answer.outcome = "ok" => answer = reads[r].result /\ (whole <=> reads[r].whole)
    BY <1>3, <1>4
  <1> HIDE DEF whole
  <1>7. new \in ReadRecord
    BY <1>0, <1>3, <1>4, <1>5 DEF ReadRecord
  <1>8. /\ new.pc = "answered" /\ new.task = reads[r].task /\ new.node = reads[r].node
        /\ new.result = None /\ new.answer = answer /\ new.whole = whole
    BY <1>0 DEF ReadRecord
  <1> HIDE DEF new
  <1>9. Good(new)
    BY <1>0, <1>4, <1>6, <1>8 DEF Good
  <1> QED
    BY <1>1, <1>2, <1>7, <1>8, <1>9, SameSlots

-----------------------------------------------------------------------------
(* The goroutine. *)

(* A result is bytes only when the file was read to its end, within the budget, *)
(* with the context open, so before any answer.                                 *)
LEMMA SendsStep ==
  ASSUME Inv, NEW r \in Read, NEW outcome \in {"ok", "not_found", "failed"}, Sends(r, outcome),
         reads[r].task \in {"walk", "open", "stat", "read"},
         outcome = "ok" => /\ reads[r].task = "read" /\ reads[r].length <= MaxBytes
                           /\ reads[r].length >= size,
         UNCHANGED <<parent, name, size, stalled, slots>>
  PROVE  Inv'
  <1> DEFINE whole == (outcome = "ok" /\ reads[r].length >= size)
             result == IF reads[r].pc = "answered" THEN None
                       ELSE [outcome |-> outcome, node |-> reads[r].node, length |-> reads[r].length]
             new == [reads[r] EXCEPT !.task = "sent", !.length = 0, !.node = "none",
                                     !.whole = whole, !.result = result]
  <1>0. reads[r] \in ReadRecord /\ Good(reads[r])
    BY DEF Inv, TypeOK
  <1>1. reads' = [reads EXCEPT ![r] = new]
    BY DEF Sends
  <1>2. whole \in BOOLEAN /\ (outcome = "ok" => whole)
    OBVIOUS
  <1>3. result \in [outcome : {"none", "ok", "not_found", "failed"}, node : Node \cup {"none"},
                    length : Nat]
    BY <1>0 DEF ReadRecord, None
  <1>4. result.outcome = "ok" =>
          outcome = "ok" /\ result.node = reads[r].node /\ result.length = reads[r].length
    BY DEF None
  <1> HIDE DEF whole, result
  <1>5. new \in ReadRecord
    BY <1>0, <1>2, <1>3 DEF ReadRecord
  <1>6. /\ new.pc = reads[r].pc /\ new.task = "sent" /\ new.node = "none"
        /\ new.result = result /\ new.answer = reads[r].answer /\ new.whole = whole
    BY <1>0 DEF ReadRecord
  <1> HIDE DEF new
  <1>7. reads[r].answer.outcome # "ok"
    BY <1>0 DEF Good
  <1>8. Good(new)
    BY <1>0, <1>2, <1>4, <1>6, <1>7 DEF Good
  <1> QED
    BY <1>1, <1>5, <1>6, <1>8, SameSlots

LEMMA ContinuesStep ==
  ASSUME Inv, NEW r \in Read, NEW task \in {"open", "stat", "read"}, NEW node \in Node \cup {"none"},
         Continues(r, task, node), reads[r].task \in {"walk", "open", "stat"},
         task = "stat" => node \in Inside, task = "read" => node = "regular",
         UNCHANGED <<parent, name, size, stalled, slots>>
  PROVE  Inv'
  <1> DEFINE new == [reads[r] EXCEPT !.task = task, !.node = node]
  <1>0. reads[r] \in ReadRecord /\ Good(reads[r])
    BY DEF Inv, TypeOK
  <1>1. reads' = [reads EXCEPT ![r] = new]
    BY DEF Continues
  <1>2. new \in ReadRecord
    BY <1>0 DEF ReadRecord
  <1>3. /\ new.pc = reads[r].pc /\ new.task = task /\ new.node = node
        /\ new.result = reads[r].result /\ new.answer = reads[r].answer /\ new.whole = reads[r].whole
    BY <1>0 DEF ReadRecord
  <1> HIDE DEF new
  <1>4. Good(new)
    BY <1>0, <1>3 DEF Good
  <1> QED
    BY <1>1, <1>2, <1>3, <1>4, SameSlots

LEMMA OpenStep == ASSUME Inv, NEW r \in Read, OpenParent(r) \/ OpenName(r) PROVE Inv'
  <1>1. CASE OpenParent(r) /\ parent = "dir"
    <2>1. Continues(r, "open", "none") /\ reads[r].task = "walk"
          /\ UNCHANGED <<parent, name, size, stalled, slots>>
      BY <1>1 DEF OpenParent, Syscall
    <2> QED
      BY <2>1, ContinuesStep
  <1>2. CASE OpenParent(r) /\ parent # "dir"
    <2>1. PICK outcome \in {"not_found", "failed"} : Sends(r, outcome)
      BY <1>2 DEF OpenParent
    <2>2. reads[r].task = "walk" /\ UNCHANGED <<parent, name, size, stalled, slots>>
      BY <1>2 DEF OpenParent, Syscall
    <2> QED
      BY <2>1, <2>2, SendsStep
  <1>3. CASE OpenName(r) /\ name \in Inside
    <2>1. Continues(r, "stat", name) /\ reads[r].task = "open" /\ name \in Node
          /\ UNCHANGED <<parent, name, size, stalled, slots>>
      BY <1>3 DEF OpenName, Syscall, Node
    <2> QED
      BY <1>3, <2>1, ContinuesStep
  <1>4. CASE OpenName(r) /\ name \notin Inside
    <2>1. PICK outcome \in {"not_found", "failed"} : Sends(r, outcome)
      BY <1>4 DEF OpenName
    <2>2. reads[r].task = "open" /\ UNCHANGED <<parent, name, size, stalled, slots>>
      BY <1>4 DEF OpenName, Syscall
    <2> QED
      BY <2>1, <2>2, SendsStep
  <1> QED
    BY <1>1, <1>2, <1>3, <1>4

LEMMA StatStep == ASSUME Inv, NEW r \in Read, Stat(r) PROVE Inv'
  <1>0. reads[r].task = "stat" /\ UNCHANGED <<parent, name, size, stalled, slots>>
    BY DEF Stat, Syscall
  <1>1. CASE reads[r].node = "other" \/ size > MaxBytes
    <2>1. Sends(r, "failed")
      BY <1>1 DEF Stat
    <2> QED
      BY <1>0, <2>1, SendsStep
  <1>2. CASE ~(reads[r].node = "other" \/ size > MaxBytes)
    <2>1. reads[r].node = "regular" /\ Continues(r, "read", reads[r].node)
      BY <1>0, <1>2 DEF Stat, Inv, Good, Inside
    <2> QED
      BY <1>0, <2>1, ContinuesStep DEF Node, Inside
  <1> QED
    BY <1>1, <1>2

LEMMA ReadChunkStep == ASSUME Inv, NEW r \in Read, ReadChunk(r) PROVE Inv'
  <1>0. reads[r] \in ReadRecord /\ Good(reads[r])
    BY DEF Inv, TypeOK
  <1>1. PICK n \in 1..MaxSize : reads' = [reads EXCEPT ![r].length = @ + n]
    BY DEF ReadChunk
  <1>2. reads[r].length \in Nat /\ n \in Nat
    BY <1>0, ReadsAssumption DEF ReadRecord
  <1> DEFINE length == reads[r].length + n
             new == [reads[r] EXCEPT !.length = length]
  <1>3. length \in Nat /\ reads' = [reads EXCEPT ![r] = new]
    BY <1>1, <1>2
  <1> HIDE DEF length
  <1>4. new \in ReadRecord
    BY <1>0, <1>3 DEF ReadRecord
  <1>5. /\ new.pc = reads[r].pc /\ new.task = reads[r].task /\ new.node = reads[r].node
        /\ new.result = reads[r].result /\ new.answer = reads[r].answer /\ new.whole = reads[r].whole
    BY <1>0 DEF ReadRecord
  <1> HIDE DEF new
  <1>6. Good(new)
    BY <1>0, <1>5 DEF Good
  <1>7. UNCHANGED <<parent, name, size, stalled, slots>>
    BY DEF ReadChunk
  <1> QED
    BY <1>3, <1>4, <1>5, <1>6, <1>7, SameSlots

LEMMA ReadEndsStep == ASSUME Inv, NEW r \in Read, ReadEnds(r) PROVE Inv'
  <1>0. /\ reads[r].task = "read" /\ UNCHANGED <<parent, name, size, stalled, slots>>
        /\ reads[r].length \in Nat
    BY DEF ReadEnds, Syscall, Inv, TypeOK, ReadRecord
  <1>1. CASE reads[r].ctx = "open" /\ reads[r].length <= MaxBytes
    <2>1. Sends(r, "ok")
      BY <1>1 DEF ReadEnds
    <2>2. reads[r].length >= size
      BY <1>0, <1>1, ReadsAssumption DEF ReadEnds
    <2> QED
      BY <1>0, <1>1, <2>1, <2>2, SendsStep
  <1>2. CASE ~(reads[r].ctx = "open" /\ reads[r].length <= MaxBytes)
    <2>1. Sends(r, "failed")
      BY <1>2 DEF ReadEnds
    <2> QED
      BY <1>0, <2>1, SendsStep
  <1> QED
    BY <1>1, <1>2

-----------------------------------------------------------------------------
(* The workspace changes, or nothing does. *)
LEMMA WorkspaceStep ==
  ASSUME Inv, Write \/ Replace \/ Stall \/ UNCHANGED vars
  PROVE  Inv'
  <1>1. UNCHANGED <<slots, reads>>
    BY DEF Write, Replace, Stall, vars
  <1>2. TypeOK'
    BY <1>1 DEF Inv, TypeOK, Write, Replace, Stall, vars
  <1>3. SlotsInv' /\ \A r \in Read : Good(reads'[r])
    BY <1>1 DEF Inv, SlotsInv, Active
  <1> QED
    BY <1>2, <1>3 DEF Inv

LEMMA NextStep == Inv /\ [Next]_vars => Inv'
  BY RequestStep, ContextEndsStep, AnswerStep, OpenStep, StatStep, ReadChunkStep, ReadEndsStep,
     ReleaseStep, WorkspaceStep DEF Next, Goroutine

(* The invariant holds however many requests come and are answered late,         *)
(* whatever is swapped in and however a file grows.                              *)
THEOREM BoundedReadsInvariant == Spec => []Inv
  BY InitInv, NextStep, PTL DEF Spec

(* The goroutines still at work are no more than the slots, although a request   *)
(* can be answered long before its goroutine ends (files.go readFileBounded).    *)
THEOREM RunningIsBounded == Spec => []RunningBounded
  <1>1. Inv => RunningBounded
    <2> SUFFICES ASSUME Inv PROVE RunningBounded
      OBVIOUS
    <2>1. Cardinality(Active) <= MaxReads
      BY ReadsAssumption DEF Inv, TypeOK, SlotsInv
    <2> QED
      BY <2>1 DEF RunningBounded, Active
  <1> QED
    BY <1>1, BoundedReadsInvariant, PTL

(* Bytes are answered only from a regular file inside the tree, whatever is      *)
(* swapped in while it is opened (files_linux.go).                               *)
THEOREM ReadsStayInside == Spec => []OnlyInside
  <1>1. Inv => OnlyInside
    BY DEF Inv, Good, OnlyInside
  <1> QED
    BY <1>1, BoundedReadsInvariant, PTL

(* What is answered is whole and within the budget, however the file grows while *)
(* it is read (files.go readBounded).                                            *)
THEOREM ReadsAreWhole == Spec => []WholeWithinBudget
  <1>1. Inv => WholeWithinBudget
    BY DEF Inv, Good, WholeWithinBudget
  <1> QED
    BY <1>1, BoundedReadsInvariant, PTL

=============================================================================
