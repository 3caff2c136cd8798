----------------------------- MODULE FileWrites -----------------------------
(***************************************************************************)
(* Writing files into the pod: ArmadaSandbox.writeFiles and                  *)
(* AgentChannel.writeFile (src/src/sandbox.ts, channel.ts) against the       *)
(* agent's PUT /files (src/agent/files.go).  A call sends its files in       *)
(* chunks, the requests of a chunk at once, and the first failure ends it;   *)
(* nothing stops the requests of that chunk which are still under way, and   *)
(* the caller may have called again before they are served.                  *)
(*                                                                           *)
(* A file of a call is a path, its content told apart by the request that    *)
(* brings it.  A file in the pod holds what one request left there, which    *)
(* between os.WriteFile's open and its write is nothing.                     *)
(***************************************************************************)
EXTENDS Integers, Sequences, FiniteSets

CONSTANTS
  Path,
  Present,           \* paths that are there to begin with
  Batches,           \* what a caller passes: sequences of paths
  WriteConcurrency,  \* WRITE_CONCURRENCY
  MaxCalls           \* bound: calls made, one after the other

ASSUME WriteAssumption ==
  /\ Present \subseteq Path
  /\ \A batch \in Batches : batch \in Seq(Path)
  /\ WriteConcurrency \in Nat \ {0} /\ MaxCalls \in Nat

VARIABLES
  call,      \* the current call, its files, the chunk it is at and how it ended
  requests,  \* [call, file] -> the client's end and the agent's end of a request
  files,     \* path -> who wrote last, and what that left there
  unsettled  \* history: paths with requests of earlier calls under way when this one began

vars == <<call, requests, files, unsettled>>

Nobody == [call |-> 0, file |-> 0]

Request ==
  [path : Path, client : {"waiting", "ok", "failed"},
   agent : {"coming", "cut", "received", "opened", "stored", "refused"}]
Contents == {"absent", "whole", "nothing", "part", "mixed"}

TypeOK ==
  /\ call \in [n : 0..MaxCalls, batch : Seq(Path), start : Nat \ {0},
              outcome : {"idle", "running", "resolved", "rejected"}]
  /\ DOMAIN requests \subseteq [call : 1..call.n, file : Nat \ {0}]
  /\ requests \in [DOMAIN requests -> Request]
  /\ files \in [Path -> [by : DOMAIN requests \cup {Nobody}, left : Contents]]
  /\ unsettled \subseteq Path

Init ==
  /\ call = [n |-> 0, batch |-> << >>, start |-> 1, outcome |-> "idle"]
  /\ requests = << >>
  /\ files = [p \in Path |-> [by |-> Nobody, left |-> IF p \in Present THEN "whole" ELSE "absent"]]
  /\ unsettled = {}

-----------------------------------------------------------------------------
(* The client. *)

(* The files of the chunk at start. *)
Chunk(batch, start) == {i \in DOMAIN batch : start <= i /\ i < start + WriteConcurrency}

(* What sending a chunk adds: one request for each of its files. *)
Sent(n, batch, start) ==
  LET new == {[call |-> n, file |-> i] : i \in Chunk(batch, start)}
  IN  [r \in DOMAIN requests \cup new |->
         IF r \in new THEN [path |-> batch[r.file], client |-> "waiting", agent |-> "coming"]
         ELSE requests[r]]

AtWork(r) == requests[r].agent \in {"coming", "received", "opened"}

(* writeFiles: nothing for no files, an error if no agent can be reached (see   *)
(* Sandboxes), else the first chunk.                                            *)
WriteFiles(batch) ==
  /\ call.outcome # "running" /\ call.n < MaxCalls
  /\ unsettled' = {requests[r].path : r \in {q \in DOMAIN requests : AtWork(q)}}
  /\ \/ /\ call' = [n |-> call.n + 1, batch |-> batch, start |-> 1,
                    outcome |-> IF batch = << >> THEN "resolved" ELSE "running"]
        /\ requests' = Sent(call.n + 1, batch, 1)
     \/ /\ batch # << >>
        /\ call' = [n |-> call.n + 1, batch |-> batch, start |-> 1, outcome |-> "rejected"]
        /\ UNCHANGED requests
  /\ UNCHANGED files

Current == {r \in DOMAIN requests : r.call = call.n /\ r.file \in Chunk(call.batch, call.start)}

(* Mutant: one answer is enough to go on, as with Promise.any. *)
NextChunk_Any ==
  /\ call.outcome = "running"
  /\ \E r \in Current : requests[r].client = "ok"
  /\ LET next == call.start + WriteConcurrency
     IN  IF next > Len(call.batch)
         THEN call' = [call EXCEPT !.outcome = "resolved"] /\ UNCHANGED requests
         ELSE call' = [call EXCEPT !.start = next] /\ requests' = Sent(call.n, call.batch, next)
  /\ UNCHANGED <<files, unsettled>>

(* Every request of the chunk was answered: the next chunk, or the end. *)
NextChunk ==
  /\ call.outcome = "running"
  /\ \A r \in Current : requests[r].client = "ok"
  /\ LET next == call.start + WriteConcurrency
     IN  IF next > Len(call.batch)
         THEN call' = [call EXCEPT !.outcome = "resolved"] /\ UNCHANGED requests
         ELSE call' = [call EXCEPT !.start = next] /\ requests' = Sent(call.n, call.batch, next)
  /\ UNCHANGED <<files, unsettled>>

Ok(r) ==
  /\ requests[r].client = "waiting" /\ requests[r].agent = "stored"
  /\ requests' = [requests EXCEPT ![r].client = "ok"]
  /\ UNCHANGED <<call, files, unsettled>>

(* The first failure rejects the call; a later one, or one of a call that is    *)
(* over, is nobody's.                                                           *)
Rejected(r) ==
  IF r.call = call.n /\ call.outcome = "running"
  THEN [call EXCEPT !.outcome = "rejected"] ELSE call

(* A refusal, or the connection lost at whatever point: before all of the body  *)
(* was there, or with the agent already at work.                                *)
Fails(r) ==
  /\ requests[r].client = "waiting"
  /\ call' = Rejected(r)
  /\ \/ requests' = [requests EXCEPT ![r].client = "failed"]
     \/ /\ requests[r].agent = "coming"
        /\ requests' = [requests EXCEPT ![r].client = "failed", ![r].agent = "cut"]
  /\ UNCHANGED <<files, unsettled>>

-----------------------------------------------------------------------------
(* The agent: writeFile. *)

Left(r, what) == files' = [files EXCEPT ![requests[r].path] = [by |-> r, left |-> what]]
Goes(r, phase) == requests' = [requests EXCEPT ![r].agent = phase]

(* Mutant: the body goes to the file as it comes in. *)
Receive_IntoFile(r) ==
  /\ requests[r].agent \in {"coming", "cut"}
  /\ Left(r, "nothing")
  /\ IF requests[r].agent = "cut" THEN UNCHANGED requests ELSE Goes(r, "received")
  /\ UNCHANGED <<call, unsettled>>

(* All of the body is read, or refused for its size. *)
Receive(r) ==
  /\ requests[r].agent = "coming"
  /\ Goes(r, "received") \/ Goes(r, "refused")
  /\ UNCHANGED <<call, files, unsettled>>

(* os.WriteFile opens and truncates, after the directories were made; either    *)
(* may fail.                                                                    *)
Open(r) ==
  /\ requests[r].agent = "received"
  /\ \/ Goes(r, "opened") /\ Left(r, "nothing")
     \/ Goes(r, "refused") /\ UNCHANGED files
  /\ UNCHANGED <<call, unsettled>>

(* Mutant: a short write is taken for a whole one. *)
Store_IgnoresError(r) ==
  /\ requests[r].agent = "opened"
  /\ Goes(r, "stored")
  /\ \/ Left(r, "whole")
     \/ Left(r, "part")
  /\ UNCHANGED <<call, unsettled>>

(* It writes: all of it, over nothing or over what another request has written  *)
(* to the same file since (the longer of the two then shows at the end), or,    *)
(* with no space left, a part.                                                  *)
Store(r) ==
  /\ requests[r].agent = "opened"
  /\ \/ /\ Goes(r, "stored")
        /\ \/ Left(r, "whole")
           \/ files[requests[r].path].left # "nothing" /\ Left(r, "mixed")
     \/ Goes(r, "refused") /\ Left(r, "part")
  /\ UNCHANGED <<call, unsettled>>

-----------------------------------------------------------------------------
Next ==
  \/ \E batch \in Batches : WriteFiles(batch)
  \/ NextChunk
  \/ \E r \in DOMAIN requests :
       Ok(r) \/ Fails(r) \/ Receive(r) \/ Open(r) \/ Store(r)

Spec == Init /\ [][Next]_vars

-----------------------------------------------------------------------------
(* Properties. *)

(* When writeFiles resolves (sandbox.ts:552-555), every path holds, whole, the   *)
(* content its last entry in the list brought: also a path listed twice, as long *)
(* as one Promise.all did not send both, and a path for which no request of an   *)
(* earlier, failed call was still under way.                                     *)
WrittenWhenResolved ==
  call.outcome = "resolved" =>
    \A i \in DOMAIN call.batch :
      LET p == call.batch[i]
          sameChunk(j) == (i - 1) \div WriteConcurrency = (j - 1) \div WriteConcurrency
          others == {j \in DOMAIN call.batch \ {i} : call.batch[j] = p}
      IN  (p \notin unsettled /\ \A j \in others : j < i /\ ~sameChunk(j))
            => files[p] = [by |-> [call |-> call.n, file |-> i], left |-> "whole"]

(* A chunk is sent only when all of the one before it is in the pod              *)
(* (sandbox.ts:554): after a failure, in this call or later, no file of a later  *)
(* chunk is written.                                                             *)
EarlierStoredFirst ==
  \A r, q \in DOMAIN requests :
    /\ r.call = q.call
    /\ (r.file - 1) \div WriteConcurrency < (q.file - 1) \div WriteConcurrency
    => requests[r].agent = "stored"

(* A request whose body never came in whole leaves the file alone: the agent     *)
(* reads all of it before it opens the file (files.go:41-53), however the        *)
(* client's connection ended.                                                    *)
CutTouchesNothing ==
  \A p \in Path : files[p].by # Nobody => requests[files[p].by].agent # "cut"

=============================================================================
