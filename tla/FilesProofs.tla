---------------------------- MODULE FilesProofs -----------------------------
(***************************************************************************)
(* Proofs about FileWrites and FileReads, for any paths, lists of files,     *)
(* number of calls and size of a chunk, and any budgets, bounds and timers.  *)
(* First the writes alone; then reads beside them, which leave the writes as *)
(* they are, so what holds of a write holds with reads beside it; last, what *)
(* a read says is so.                                                        *)
(***************************************************************************)
EXTENDS FileReads, TLAPS

W == WriteConcurrency
ChunkNo(i) == (i - 1) \div W

(* The request for a file of the current call. *)
Mine(i) == [call |-> call.n, file |-> i]

(* The chunks sent so far: those before call.start are in the pod, the one at   *)
(* call.start is under way, and a call that resolved has sent the last.         *)
ChunksInv ==
  /\ \E k \in Nat : call.start = k * W + 1
  /\ \A r \in DOMAIN requests : r.call = call.n =>
       /\ r.file \in DOMAIN call.batch
       /\ requests[r].path = call.batch[r.file]
       /\ r.file < call.start + W
       /\ r.file < call.start => requests[r].agent = "stored"
  /\ call.outcome \in {"running", "resolved"} =>
       \A i \in DOMAIN call.batch : i < call.start + W => Mine(i) \in DOMAIN requests
  /\ call.outcome = "resolved" =>
       \A i \in DOMAIN call.batch : i < call.start + W /\ requests[Mine(i)].agent = "stored"

(* The client hears of a success only when there was one. *)
OkInv == \A r \in DOMAIN requests : requests[r].client = "ok" => requests[r].agent = "stored"

(* Whoever left something in a file had all of its body. *)
CutInv ==
  \A p \in Path : files[p].by # Nobody =>
    requests[files[p].by].agent \in {"opened", "stored", "refused"}

(* What earlier calls left behind is what unsettled says. *)
LeftInv ==
  \A r \in DOMAIN requests : (r.call # call.n /\ AtWork(r)) => requests[r].path \in unsettled

(* No other request of this call, and none of an earlier one, writes its path   *)
(* after it.                                                                    *)
Solo(i) ==
  /\ call.batch[i] \notin unsettled
  /\ \A j \in DOMAIN call.batch \ {i} :
       call.batch[j] = call.batch[i] => j < i /\ ChunkNo(i) # ChunkNo(j)

SoloInv ==
  \A r \in DOMAIN requests : (r.call = call.n /\ Solo(r.file)) =>
    /\ requests[r].agent = "opened" =>
         files[requests[r].path] = [by |-> r, left |-> "nothing"]
    /\ requests[r].agent = "stored" =>
         files[requests[r].path] = [by |-> r, left |-> "whole"]

Inv ==
  TypeOK /\ ChunksInv /\ OkInv /\ CutInv /\ LeftInv /\ EarlierStoredFirst /\ SoloInv

-----------------------------------------------------------------------------
(* Files of one chunk have its number, and later files no smaller one. *)
LEMMA ChunkNumbers ==
  ASSUME NEW k \in Nat, NEW i \in Nat \ {0}
  PROVE  /\ i < k * W + 1 + W => ChunkNo(i) <= k
         /\ (k * W + 1 <= i /\ i < k * W + 1 + W) => ChunkNo(i) = k
  BY WriteAssumption DEF ChunkNo, W

LEMMA ChunkOrder ==
  ASSUME NEW i \in Nat \ {0}, NEW j \in Nat \ {0}, i < j
  PROVE  ChunkNo(i) \in Nat /\ ChunkNo(j) \in Nat /\ ChunkNo(i) <= ChunkNo(j)
  <1> DEFINE m == ChunkNo(i)
             n == ChunkNo(j)
  <1>1. m \in Nat /\ m * W <= i - 1 /\ i - 1 < m * W + W
    BY WriteAssumption DEF ChunkNo, W
  <1>2. n \in Nat /\ n * W <= j - 1 /\ j - 1 < n * W + W
    BY WriteAssumption DEF ChunkNo, W
  <1>3. W \in Nat
    BY WriteAssumption DEF W
  <1> HIDE DEF m, n
  <1>4. n < m => n * W + W <= m * W
    BY <1>1, <1>2, <1>3
  <1>5. m * W \in Nat /\ n * W \in Nat
    BY <1>1, <1>2, <1>3
  <1> QED
    BY <1>1, <1>2, <1>3, <1>4, <1>5 DEF m, n

(* Initially there is no request. *)
LEMMA InitInv == Init => Inv
  <1> SUFFICES ASSUME Init PROVE Inv
    OBVIOUS
  <1>0. DOMAIN requests = {}
    BY DEF Init
  <1>1. TypeOK
    BY <1>0, WriteAssumption DEF Init, TypeOK, Contents
  <1>2. call.start = 0 * W + 1
    BY WriteAssumption DEF Init, W
  <1>3. ChunksInv
    BY <1>0, <1>2 DEF Init, ChunksInv
  <1> QED
    BY <1>0, <1>1, <1>3 DEF Init, Inv, OkInv, CutInv, LeftInv, EarlierStoredFirst, SoloInv

-----------------------------------------------------------------------------
(* A step of one request at the client or the agent: the call's chunks, and all  *)
(* other requests, are as before.                                               *)
OneRequest(r) ==
  /\ r \in DOMAIN requests
  /\ DOMAIN requests' = DOMAIN requests
  /\ \A q \in DOMAIN requests \ {r} : requests'[q] = requests[q]
  /\ requests'[r].path = requests[r].path
  /\ requests[r].agent = "stored" => requests'[r].agent = "stored"
  /\ AtWork(r)' => AtWork(r)
  /\ call'.n = call.n /\ call'.batch = call.batch /\ call'.start = call.start
  /\ call'.outcome = call.outcome \/ call'.outcome = "rejected"
  /\ UNCHANGED unsettled

(* What such a step keeps whatever it does to the request. *)
LEMMA OneRequestKeeps ==
  ASSUME Inv, NEW r, OneRequest(r)
  PROVE  ChunksInv' /\ LeftInv' /\ EarlierStoredFirst' /\ (\A i : Solo(i)' = Solo(i))
  <1>1. ChunksInv'
    BY DEF Inv, ChunksInv, OneRequest, Mine
  <1>2. LeftInv'
    BY DEF Inv, LeftInv, OneRequest, AtWork
  <1>3. EarlierStoredFirst'
    BY DEF Inv, EarlierStoredFirst, OneRequest
  <1>4. ASSUME NEW i PROVE Solo(i)' = Solo(i)
    BY DEF Solo, OneRequest
  <1> QED
    BY <1>1, <1>2, <1>3, <1>4

(* A request stays one when its phase changes. *)
LEMMA RequestTyped ==
  ASSUME NEW D, NEW f \in [D -> Request], NEW r \in D, NEW g,
         NEW c \in {"waiting", "ok", "failed"},
         NEW a \in {"coming", "cut", "received", "opened", "stored", "refused"},
         \/ g = [f EXCEPT ![r].client = c] \/ g = [f EXCEPT ![r].agent = a]
         \/ g = [f EXCEPT ![r].client = c, ![r].agent = a]
  PROVE  g \in [D -> Request] /\ DOMAIN g = D
  <1>1. f[r] \in Request
    OBVIOUS
  <1>2. [f[r] EXCEPT !.client = c] \in Request /\ [f[r] EXCEPT !.agent = a] \in Request
        /\ [f[r] EXCEPT !.client = c, !.agent = a] \in Request
    BY <1>1 DEF Request
  <1>3. \E v \in Request : g = [f EXCEPT ![r] = v]
    BY <1>2
  <1> QED
    BY <1>3

(* What a request that changes its phase does to the types. *)
LEMMA PhaseTyped ==
  ASSUME TypeOK, NEW r \in DOMAIN requests,
         NEW c \in {"waiting", "ok", "failed"},
         NEW a \in {"coming", "cut", "received", "opened", "stored", "refused"},
         \/ requests' = [requests EXCEPT ![r].client = c]
         \/ requests' = [requests EXCEPT ![r].agent = a]
         \/ requests' = [requests EXCEPT ![r].client = c, ![r].agent = a],
         call' = call \/ call' = [call EXCEPT !.outcome = "rejected"],
         \/ files' = files
         \/ \E what \in Contents : Left(r, what),
         unsettled' = unsettled
  PROVE  TypeOK'
  <1>1. requests' \in [DOMAIN requests -> Request] /\ DOMAIN requests' = DOMAIN requests
    <2>1. requests \in [DOMAIN requests -> Request]
      BY DEF TypeOK
    <2>2. CASE requests' = [requests EXCEPT ![r].client = c]
      BY <2>1, <2>2, RequestTyped
    <2>3. CASE requests' = [requests EXCEPT ![r].agent = a]
      BY <2>1, <2>3, RequestTyped
    <2>4. CASE requests' = [requests EXCEPT ![r].client = c, ![r].agent = a]
      <3>1. [requests[r] EXCEPT !.client = c, !.agent = a] \in Request
        <4>1. requests[r] \in Request
          BY <2>1
        <4> QED
          BY <4>1 DEF Request
      <3>2. requests' = [requests EXCEPT ![r] = [requests[r] EXCEPT !.client = c, !.agent = a]]
        BY <2>1, <2>4
      <3> QED
        BY <2>1, <3>1, <3>2
    <2> QED
      BY <2>2, <2>3, <2>4
  <1>2. /\ call' \in [n : 0..MaxCalls, batch : Seq(Path), start : Nat \ {0},
                      outcome : {"idle", "running", "resolved", "rejected"}]
        /\ call'.n = call.n
    BY DEF TypeOK
  <1>3. requests[r].path \in Path
    BY DEF TypeOK, Request
  <1>4. files' \in [Path -> [by : DOMAIN requests \cup {Nobody}, left : Contents]]
    <2>1. CASE files' = files
      BY <2>1 DEF TypeOK
    <2>2. CASE \E what \in Contents : Left(r, what)
      <3>1. PICK what \in Contents : Left(r, what)
        BY <2>2
      <3>2. [by |-> r, left |-> what] \in [by : DOMAIN requests \cup {Nobody}, left : Contents]
        OBVIOUS
      <3>3. files \in [Path -> [by : DOMAIN requests \cup {Nobody}, left : Contents]]
        BY DEF TypeOK
      <3>4. files' = [files EXCEPT ![requests[r].path] = [by |-> r, left |-> what]]
        BY <3>1 DEF Left
      <3> QED
        BY <1>3, <3>2, <3>3, <3>4
    <2> QED
      BY <2>1, <2>2
  <1> QED
    BY <1>1, <1>2, <1>4 DEF TypeOK

(* A step that leaves the files, and what the agent is at, alone. *)
LEMMA OkStep ==
  ASSUME Inv, NEW r \in DOMAIN requests, Ok(r)
  PROVE  Inv'
  <1>1. TypeOK'
    BY PhaseTyped DEF Inv, Ok
  <1>2. OneRequest(r)
    BY DEF Inv, TypeOK, Request, Ok, OneRequest, AtWork
  <1>3. OkInv' /\ CutInv'
    BY DEF Inv, TypeOK, Request, OkInv, CutInv, Ok
  <1>4. SoloInv'
    BY <1>2, OneRequestKeeps DEF Inv, TypeOK, Request, SoloInv, Ok
  <1> QED
    BY <1>1, <1>2, <1>3, <1>4, OneRequestKeeps DEF Inv

(* A step after which the request is at an earlier end than before. *)
LEMMA PhaseStep ==
  ASSUME Inv, NEW r \in DOMAIN requests, OneRequest(r), UNCHANGED files,
         requests[r].agent \in {"coming", "received"} \/ requests'[r].agent = requests[r].agent,
         requests'[r].agent \in {"cut", "received", "refused", requests[r].agent},
         requests'[r].client \in {"failed", requests[r].client},
         requests[r].client # "ok"
  PROVE  OkInv' /\ CutInv' /\ SoloInv'
  <1>1. OkInv'
    BY DEF Inv, OkInv, OneRequest
  <1>2. CutInv'
    BY DEF Inv, TypeOK, CutInv, OneRequest
  <1>3. SoloInv'
    BY OneRequestKeeps DEF Inv, SoloInv, OneRequest
  <1> QED
    BY <1>1, <1>2, <1>3

LEMMA FailsStep ==
  ASSUME Inv, NEW r \in DOMAIN requests, Fails(r)
  PROVE  Inv'
  <1>1. TypeOK'
    BY PhaseTyped DEF Inv, Fails, Rejected
  <1>2. OneRequest(r)
    BY DEF Inv, TypeOK, Request, Fails, Rejected, OneRequest, AtWork
  <1>3. OkInv' /\ CutInv' /\ SoloInv'
    <2>1. requests[r] \in Request
      BY DEF Inv, TypeOK
    <2>2. /\ \/ requests'[r].agent = requests[r].agent
             \/ requests[r].agent = "coming" /\ requests'[r].agent = "cut"
          /\ requests'[r].client = "failed"
          /\ requests[r].client # "ok" /\ UNCHANGED files
      <3>1. CASE requests' = [requests EXCEPT ![r].client = "failed"]
        <4>1. requests'[r] = [requests[r] EXCEPT !.client = "failed"]
          BY <3>1
        <4>2. requests[r].client = "waiting" /\ UNCHANGED files
          BY DEF Fails
        <4>3. requests'[r].agent = requests[r].agent /\ requests'[r].client = "failed"
          BY <2>1, <4>1 DEF Request
        <4>4. requests[r].client # "ok"
          BY <4>2
        <4> QED
          BY <4>2, <4>3, <4>4, Zenon
      <3>2. CASE /\ requests[r].agent = "coming"
                 /\ requests' = [requests EXCEPT ![r].client = "failed", ![r].agent = "cut"]
        <4>1. requests'[r] = [requests[r] EXCEPT !.client = "failed", !.agent = "cut"]
          BY <3>2
        <4> QED
          BY <2>1, <3>2, <4>1 DEF Fails, Request
      <3> QED
        BY <3>1, <3>2 DEF Fails
    <2> QED
      BY <1>2, <2>2, PhaseStep
  <1> QED
    BY <1>1, <1>2, <1>3, OneRequestKeeps DEF Inv

LEMMA ReceiveStep ==
  ASSUME Inv, NEW r \in DOMAIN requests, Receive(r)
  PROVE  Inv'
  <1>1. TypeOK'
    BY PhaseTyped DEF Inv, Receive, Goes
  <1>2. OneRequest(r)
    BY DEF Inv, TypeOK, Request, Receive, Goes, OneRequest, AtWork
  <1>3. OkInv' /\ CutInv' /\ SoloInv'
    <2>1. requests[r] \in Request
      BY DEF Inv, TypeOK
    <2>2. /\ requests[r].agent = "coming" /\ requests'[r].agent \in {"received", "refused"}
          /\ requests'[r].client = requests[r].client /\ UNCHANGED files
      BY <2>1 DEF Receive, Goes, Request
    <2>3. requests[r].client # "ok"
      BY <2>2 DEF Inv, OkInv
    <2> QED
      BY <1>2, <2>2, <2>3, PhaseStep
  <1> QED
    BY <1>1, <1>2, <1>3, OneRequestKeeps DEF Inv

(* Nobody else is at work on the path of a request that is alone there. *)
LEMMA AloneThere ==
  ASSUME Inv, NEW r \in DOMAIN requests, NEW q \in DOMAIN requests,
         r.call = call.n, Solo(r.file), q # r, requests[q].path = requests[r].path
  PROVE  ~AtWork(q)
  <1>1. CASE q.call # call.n
    BY <1>1 DEF Inv, LeftInv, Solo, ChunksInv
  <1>2. CASE q.call = call.n
    <2>1. q.file # r.file
      BY <1>2 DEF Inv, TypeOK
    <2>2. q.file \in DOMAIN call.batch \ {r.file} /\ call.batch[q.file] = call.batch[r.file]
      BY <1>2, <2>1 DEF Inv, ChunksInv
    <2>3. q.file < r.file /\ ChunkNo(r.file) # ChunkNo(q.file)
      BY <2>2 DEF Solo
    <2>4. q.file \in Nat \ {0} /\ r.file \in Nat \ {0}
      BY DEF Inv, TypeOK
    <2>5. ChunkNo(q.file) < ChunkNo(r.file)
      BY <2>3, <2>4, ChunkOrder
    <2>6. requests[q].agent = "stored"
      BY <1>2, <2>5 DEF Inv, EarlierStoredFirst, ChunkNo, W
    <2> QED
      BY <2>6 DEF AtWork
  <1> QED
    BY <1>1, <1>2

LEMMA OpenStep ==
  ASSUME Inv, NEW r \in DOMAIN requests, Open(r)
  PROVE  Inv'
  <1>0. /\ requests[r].agent = "received" /\ requests'[r].client = requests[r].client
        /\ \/ /\ requests'[r].agent = "opened"
              /\ files' = [files EXCEPT ![requests[r].path] = [by |-> r, left |-> "nothing"]]
           \/ requests'[r].agent = "refused" /\ files' = files
    BY DEF Inv, TypeOK, Request, Open, Goes, Left
  <1>1. TypeOK'
    BY PhaseTyped DEF Inv, Open, Goes, Contents
  <1>2. OneRequest(r)
    BY DEF Inv, TypeOK, Request, Open, Goes, OneRequest, AtWork
  <1>3. OkInv' /\ CutInv'
    <2>1. OkInv'
      BY <1>0, <1>2 DEF Inv, OkInv, OneRequest
    <2>2. CutInv'
      <3> SUFFICES ASSUME NEW p \in Path, files'[p].by # Nobody
                   PROVE  requests'[files'[p].by].agent \in {"opened", "stored", "refused"}
        BY DEF CutInv
      <3>1. CASE files'[p] = files[p]
        <4>1. requests[files[p].by].agent \in {"opened", "stored", "refused"}
          BY <3>1 DEF Inv, CutInv
        <4>2. files[p].by # r /\ files[p].by \in DOMAIN requests
          BY <1>0, <3>1, <4>1 DEF Inv, TypeOK
        <4> QED
          BY <1>2, <3>1, <4>1, <4>2 DEF OneRequest
      <3>2. CASE files'[p] # files[p]
        <4>1. files'[p].by = r /\ requests'[r].agent = "opened"
          BY <1>0, <3>2 DEF Inv, TypeOK
        <4> QED
          BY <4>1
      <3> QED
        BY <3>1, <3>2
    <2> QED
      BY <2>1, <2>2
  <1>4. SoloInv'
    <2> SUFFICES ASSUME NEW q \in DOMAIN requests, q.call = call.n, Solo(q.file)
                 PROVE  /\ requests'[q].agent = "opened" =>
                             files'[requests'[q].path] = [by |-> q, left |-> "nothing"]
                        /\ requests'[q].agent = "stored" =>
                             files'[requests'[q].path] = [by |-> q, left |-> "whole"]
      BY <1>2, OneRequestKeeps DEF SoloInv, OneRequest
    <2>1. CASE q = r
      BY <1>0, <1>2, <2>1 DEF Inv, TypeOK, Request, OneRequest
    <2>2. CASE q # r /\ requests[q].path # requests[r].path
      BY <2>2 DEF Inv, TypeOK, Request, SoloInv, Open, Goes, Left
    <2>3. CASE q # r /\ requests[q].path = requests[r].path
      BY <2>3, AloneThere DEF AtWork, Open
    <2> QED
      BY <2>1, <2>2, <2>3
  <1> QED
    BY <1>1, <1>2, <1>3, <1>4, OneRequestKeeps DEF Inv

LEMMA StoreStep ==
  ASSUME Inv, NEW r \in DOMAIN requests, Store(r)
  PROVE  Inv'
  <1>0. /\ requests[r].agent = "opened" /\ requests'[r].client = requests[r].client
        /\ requests'[r].agent \in {"stored", "refused"}
        /\ \E what \in Contents :
             /\ files' = [files EXCEPT ![requests[r].path] = [by |-> r, left |-> what]]
             /\ requests'[r].agent = "stored" =>
                  what = "whole" \/ files[requests[r].path].left # "nothing"
    BY DEF Inv, TypeOK, Request, Store, Goes, Left, Contents
  <1>1. TypeOK'
    BY PhaseTyped DEF Inv, Store, Goes, Contents
  <1>2. OneRequest(r)
    BY DEF Inv, TypeOK, Request, Store, Goes, OneRequest, AtWork
  <1>3. OkInv' /\ CutInv'
    <2>1. OkInv'
      BY <1>0, <1>2 DEF Inv, OkInv, OneRequest
    <2>2. CutInv'
      BY <1>0, <1>2 DEF Inv, TypeOK, CutInv, OneRequest
    <2> QED
      BY <2>1, <2>2
  <1>4. SoloInv'
    <2> SUFFICES ASSUME NEW q \in DOMAIN requests, q.call = call.n, Solo(q.file)
                 PROVE  /\ requests'[q].agent = "opened" =>
                             files'[requests'[q].path] = [by |-> q, left |-> "nothing"]
                        /\ requests'[q].agent = "stored" =>
                             files'[requests'[q].path] = [by |-> q, left |-> "whole"]
      BY <1>2, OneRequestKeeps DEF SoloInv, OneRequest
    <2>1. CASE q = r
      <3>1. files[requests[r].path].left = "nothing"
        <4>1. files[requests[r].path] = [by |-> r, left |-> "nothing"]
          BY <1>0, <2>1 DEF Inv, SoloInv
        <4> QED
          BY <4>1
      <3> QED
        BY <1>0, <1>2, <2>1, <3>1 DEF Inv, TypeOK, Request, OneRequest
    <2>2. CASE q # r /\ requests[q].path # requests[r].path
      BY <2>2 DEF Inv, TypeOK, Request, SoloInv, Store, Goes, Left
    <2>3. CASE q # r /\ requests[q].path = requests[r].path
      BY <2>3, AloneThere DEF AtWork, Store
    <2> QED
      BY <2>1, <2>2, <2>3
  <1> QED
    BY <1>1, <1>2, <1>3, <1>4, OneRequestKeeps DEF Inv

-----------------------------------------------------------------------------
(* A chunk is sent: its requests are new, everything else is as before. *)
LEMMA NextChunkStep ==
  ASSUME Inv, NextChunk
  PROVE  Inv'
  <1> DEFINE next == call.start + W
             new == {[call |-> call.n, file |-> i] : i \in Chunk(call.batch, next)}
  <1>0. /\ call \in [n : 0..MaxCalls, batch : Seq(Path), start : Nat \ {0},
                     outcome : {"idle", "running", "resolved", "rejected"}]
        /\ W \in Nat \ {0} /\ next \in Nat \ {0}
    BY WriteAssumption DEF Inv, TypeOK, W
  <1>1. \A r \in DOMAIN requests : r.call = call.n => requests[r].agent = "stored"
    <2> SUFFICES ASSUME NEW r \in DOMAIN requests, r.call = call.n
                 PROVE  requests[r].agent = "stored"
      OBVIOUS
    <2>1. r.file \in DOMAIN call.batch /\ r.file < call.start + W
      BY DEF Inv, ChunksInv
    <2>2. CASE r.file < call.start
      BY <2>2 DEF Inv, ChunksInv
    <2>3. CASE ~(r.file < call.start)
      <3>1. r \in Current
        BY <1>0, <2>1, <2>3 DEF Current, Chunk, W
      <3> QED
        BY <3>1 DEF NextChunk, Inv, OkInv
    <2> QED
      BY <2>2, <2>3
  <1>2. CASE next > Len(call.batch)
    <2>1. /\ call' = [call EXCEPT !.outcome = "resolved"]
          /\ UNCHANGED <<requests, files, unsettled>>
      BY <1>2 DEF NextChunk, W
    <2>2. TypeOK'
      BY <2>1 DEF Inv, TypeOK
    <2>3. /\ call'.n = call.n /\ call'.batch = call.batch /\ call'.start = call.start
          /\ call.outcome = "running"
      BY <1>0, <2>1 DEF NextChunk
    <2>4. ChunksInv'
      <3>1. \A i \in DOMAIN call.batch : i < call.start + W
        BY <1>0, <1>2
      <3>2. \A i \in DOMAIN call.batch : Mine(i) \in DOMAIN requests
        BY <2>3, <3>1 DEF Inv, ChunksInv
      <3>3. \A i \in DOMAIN call.batch : requests[Mine(i)].agent = "stored"
        BY <1>1, <3>2 DEF Mine
      <3> QED
        BY <2>1, <2>3, <3>1, <3>2, <3>3 DEF Inv, ChunksInv, Mine
    <2>5. OkInv' /\ CutInv' /\ LeftInv' /\ EarlierStoredFirst' /\ SoloInv'
      BY <2>1, <2>3 DEF Inv, OkInv, CutInv, LeftInv, AtWork, EarlierStoredFirst, SoloInv, Solo
    <2> QED
      BY <2>2, <2>4, <2>5 DEF Inv
  <1>3. CASE ~(next > Len(call.batch))
    <2>1. /\ call' = [call EXCEPT !.start = next]
          /\ requests' = Sent(call.n, call.batch, next)
          /\ UNCHANGED <<files, unsettled>>
      BY <1>3 DEF NextChunk, W
    <2>2. /\ call'.n = call.n /\ call'.batch = call.batch /\ call'.start = next
          /\ call'.outcome = "running" /\ call.outcome = "running"
      BY <1>0, <2>1 DEF NextChunk
    <2>3. \A r \in DOMAIN requests : ~(r.call = call.n /\ r.file \in Chunk(call.batch, next))
      BY <1>0 DEF Inv, ChunksInv, Chunk, W
    <2>4. call.n \in Nat \ {0}
      <3>1. 1 \in DOMAIN call.batch
        BY <1>0, <1>3
      <3>2. PICK i \in DOMAIN call.batch : i < call.start + W
        BY <1>0, <3>1
      <3>3. Mine(i) \in DOMAIN requests
        BY <2>2, <3>2 DEF Inv, ChunksInv
      <3> QED
        BY <1>0, <3>3 DEF Inv, TypeOK, Mine
    <2>5. /\ DOMAIN requests' = DOMAIN requests \cup new
          /\ \A r \in DOMAIN requests : requests'[r] = requests[r]
          /\ \A r \in new : requests'[r] = [path |-> call.batch[r.file], client |-> "waiting",
                                            agent |-> "coming"]
      <3>1. \A r \in new : r.call = call.n /\ r.file \in Chunk(call.batch, next)
        OBVIOUS
      <3>2. \A r \in DOMAIN requests : r \notin new
        BY <2>3, <3>1
      <3> QED
        BY <2>1, <3>2 DEF Sent
    <2>6. \A r \in new : /\ r.call = call.n /\ r.file \in DOMAIN call.batch /\ r \notin DOMAIN requests
                         /\ next <= r.file /\ r.file < next + W
      BY <1>0, <2>3 DEF Chunk, W
    <2> HIDE DEF new
    <2>7. TypeOK'
      <3>1. call' \in [n : 0..MaxCalls, batch : Seq(Path), start : Nat \ {0},
                       outcome : {"idle", "running", "resolved", "rejected"}]
        BY <1>0, <2>1
      <3>2. DOMAIN requests' \subseteq [call : 1..call'.n, file : Nat \ {0}]
        BY <1>0, <2>2, <2>4, <2>5, <2>6 DEF Inv, TypeOK, new
      <3>3. \A r \in new : requests'[r] \in Request
        BY <1>0, <2>5, <2>6 DEF Request
      <3>4. requests' \in [DOMAIN requests' -> Request]
        BY <2>1, <2>5, <3>3 DEF Inv, TypeOK, Sent
      <3>5. files' \in [Path -> [by : DOMAIN requests' \cup {Nobody}, left : Contents]]
        BY <2>1, <2>5 DEF Inv, TypeOK
      <3> QED
        BY <2>1, <3>1, <3>2, <3>4, <3>5 DEF Inv, TypeOK
    <2>8. ChunksInv'
      <3>1. \E k \in Nat : next = k * W + 1
        <4>1. PICK k \in Nat : call.start = k * W + 1
          BY DEF Inv, ChunksInv
        <4>2. next = (k + 1) * W + 1
          BY <1>0, <4>1
        <4> QED
          BY <4>2
      <3>2. ASSUME NEW r \in DOMAIN requests', r.call = call.n
            PROVE  /\ r.file \in DOMAIN call.batch
                   /\ requests'[r].path = call.batch[r.file]
                   /\ r.file < next + W
                   /\ r.file < next => requests'[r].agent = "stored"
        <4>1. CASE r \in new
          BY <1>0, <2>5, <2>6, <4>1
        <4>2. CASE r \in DOMAIN requests
          BY <1>0, <1>1, <2>5, <3>2, <4>2 DEF Inv, ChunksInv
        <4> QED
          BY <2>5, <4>1, <4>2
      <3>3. ASSUME NEW i \in DOMAIN call.batch, i < next + W
            PROVE  Mine(i)' \in DOMAIN requests'
        <4>1. CASE i < next
          BY <2>2, <2>5, <3>3, <4>1 DEF Inv, ChunksInv, Mine
        <4>2. CASE ~(i < next)
          BY <1>0, <2>2, <2>5, <3>3, <4>2 DEF Mine, Chunk, W, new
        <4> QED
          BY <4>1, <4>2
      <3> QED
        BY <2>2, <3>1, <3>2, <3>3 DEF ChunksInv
    <2>9. OkInv' /\ CutInv' /\ LeftInv'
      <3>1. OkInv'
        BY <2>5 DEF Inv, OkInv
      <3>2. CutInv'
        BY <2>1, <2>5 DEF Inv, TypeOK, CutInv
      <3>3. LeftInv'
        BY <2>1, <2>2, <2>5, <2>6 DEF Inv, LeftInv, AtWork
      <3> QED
        BY <3>1, <3>2, <3>3
    <2>10. EarlierStoredFirst'
      <3> SUFFICES ASSUME NEW r \in DOMAIN requests', NEW q \in DOMAIN requests',
                          r.call = q.call, ChunkNo(r.file) < ChunkNo(q.file)
                   PROVE  requests'[r].agent = "stored"
        BY DEF EarlierStoredFirst, ChunkNo, W
      <3>1. CASE r \in DOMAIN requests /\ r.call = call.n
        BY <1>1, <2>5, <3>1
      <3>2. CASE r \in DOMAIN requests /\ r.call # call.n
        <4>1. q \in DOMAIN requests
          BY <2>5, <2>6, <3>2
        <4> QED
          BY <2>5, <3>2, <4>1 DEF Inv, EarlierStoredFirst, ChunkNo, W
      <3>3. CASE r \in new
        <4>1. PICK k \in Nat : call.start = k * W + 1
          BY DEF Inv, ChunksInv
        <4>2. k + 1 \in Nat /\ next = (k + 1) * W + 1
          BY <1>0, <4>1
        <4>3. r.file \in Nat \ {0} /\ q.file \in Nat \ {0}
          BY <2>7 DEF TypeOK
        <4>4. ChunkNo(r.file) = k + 1
          BY <2>6, <3>3, <4>2, <4>3, ChunkNumbers
        <4>5. q.file < next + W
          <5>1. CASE q \in new
            BY <2>6, <5>1
          <5>2. CASE q \in DOMAIN requests
            BY <1>0, <2>6, <3>3, <4>3, <5>2 DEF Inv, ChunksInv
          <5> QED
            BY <2>5, <5>1, <5>2
        <4>6. ChunkNo(q.file) <= k + 1
          BY <4>2, <4>3, <4>5, ChunkNumbers
        <4>7. ChunkNo(q.file) \in Int
          BY <4>3, WriteAssumption DEF ChunkNo, W
        <4> QED
          BY <4>4, <4>6, <4>7
      <3> QED
        BY <2>5, <3>1, <3>2, <3>3
    <2>11. SoloInv'
      <3>1. \A i : Solo(i)' = Solo(i)
        BY <2>1, <2>2 DEF Solo
      <3> SUFFICES ASSUME NEW r \in DOMAIN requests', r.call = call.n, Solo(r.file)
                   PROVE  /\ requests'[r].agent = "opened" =>
                               files[requests'[r].path] = [by |-> r, left |-> "nothing"]
                          /\ requests'[r].agent = "stored" =>
                               files[requests'[r].path] = [by |-> r, left |-> "whole"]
        BY <2>1, <2>2, <3>1 DEF SoloInv
      <3>2. CASE r \in new
        BY <2>5, <3>2
      <3>3. CASE r \in DOMAIN requests
        BY <2>5, <3>3 DEF Inv, SoloInv
      <3> QED
        BY <2>5, <3>2, <3>3
    <2> QED
      BY <2>7, <2>8, <2>9, <2>10, <2>11 DEF Inv
  <1> QED
    BY <1>2, <1>3

(* A call begins: no request carries its number, and what is still at work for   *)
(* earlier calls is unsettled.                                                  *)
LEMMA WriteFilesStep ==
  ASSUME Inv, NEW batch \in Batches, WriteFiles(batch)
  PROVE  Inv'
  <1> DEFINE n == call.n + 1
             new == {[call |-> n, file |-> i] : i \in Chunk(batch, 1)}
  <1>0. /\ call \in [n : 0..MaxCalls, batch : Seq(Path), start : Nat \ {0},
                     outcome : {"idle", "running", "resolved", "rejected"}]
        /\ W \in Nat \ {0} /\ n \in Nat \ {0} /\ n \in 0..MaxCalls /\ batch \in Seq(Path)
    BY WriteAssumption DEF Inv, TypeOK, W, WriteFiles
  <1>1. /\ UNCHANGED files
        /\ unsettled' = {requests[r].path : r \in {q \in DOMAIN requests : AtWork(q)}}
    BY DEF WriteFiles
  <1>2. \A r \in DOMAIN requests : r.call \in Nat /\ r.call < n
    BY <1>0 DEF Inv, TypeOK
  <1>3. /\ call'.n = n /\ call'.batch = batch /\ call'.start = 1
        /\ call' \in [n : 0..MaxCalls, batch : Seq(Path), start : Nat \ {0},
                      outcome : {"idle", "running", "resolved", "rejected"}]
    BY <1>0 DEF WriteFiles
  <1>4. \/ /\ requests' = Sent(n, batch, 1)
           /\ call'.outcome = IF batch = << >> THEN "resolved" ELSE "running"
        \/ requests' = requests /\ call'.outcome = "rejected"
    BY DEF WriteFiles
  <1>5. /\ DOMAIN Sent(n, batch, 1) = DOMAIN requests \cup new
        /\ \A r \in DOMAIN requests : Sent(n, batch, 1)[r] = requests[r]
        /\ \A r \in new : Sent(n, batch, 1)[r] =
             [path |-> batch[r.file], client |-> "waiting", agent |-> "coming"]
    <2>1. \A r \in new : r.call = n
      OBVIOUS
    <2>2. \A r \in DOMAIN requests : r \notin new
      BY <1>0, <1>2, <2>1
    <2> QED
      BY <2>2 DEF Sent
  <1>6. \A r \in new : /\ r.call = n /\ r.file \in DOMAIN batch /\ r.file < 1 + W
                       /\ r.file \in Nat \ {0} /\ ~(r.file < 1)
                       /\ r \in [call : 1..n, file : Nat \ {0}]
    BY <1>0 DEF Chunk, W
  <1>7. \A i \in DOMAIN batch : i < 1 + W => [call |-> n, file |-> i] \in new
    BY <1>0 DEF Chunk, W
  <1> HIDE DEF new, n
  <1>8. /\ DOMAIN requests \subseteq DOMAIN requests'
        /\ DOMAIN requests' \subseteq DOMAIN requests \cup new
        /\ \A r \in DOMAIN requests : requests'[r] = requests[r]
        /\ \A r \in DOMAIN requests' \ DOMAIN requests :
             /\ r \in new
             /\ requests'[r] = [path |-> batch[r.file], client |-> "waiting", agent |-> "coming"]
    BY <1>4, <1>5
  <1>9. \A r \in DOMAIN requests' : r.call = n => r \in new /\ r \notin DOMAIN requests
    BY <1>2, <1>8
  <1>10. TypeOK'
    <2>1. DOMAIN requests' \subseteq [call : 1..n, file : Nat \ {0}]
      BY <1>0, <1>6, <1>8 DEF Inv, TypeOK, n
    <2>2. \A r \in DOMAIN requests' : requests'[r] \in Request
      BY <1>0, <1>6, <1>8 DEF Inv, TypeOK, Request
    <2>3. requests' \in [DOMAIN requests' -> Request]
      BY <1>4, <2>2 DEF Inv, TypeOK, Sent
    <2>4. files' \in [Path -> [by : DOMAIN requests' \cup {Nobody}, left : Contents]]
      BY <1>1, <1>8 DEF Inv, TypeOK
    <2>5. unsettled' \subseteq Path
      BY <1>1 DEF Inv, TypeOK, Request
    <2> QED
      BY <1>3, <2>1, <2>3, <2>4, <2>5 DEF TypeOK
  <1>11. ChunksInv'
    <2>1. 1 = 0 * W + 1
      BY <1>0
    <2>2. ASSUME NEW r \in DOMAIN requests', r.call = n
          PROVE  /\ r.file \in DOMAIN batch
                 /\ requests'[r].path = batch[r.file]
                 /\ r.file < 1 + W
                 /\ r.file < 1 => requests'[r].agent = "stored"
      BY <1>6, <1>8, <1>9, <2>2
    <2>3. ASSUME call'.outcome \in {"running", "resolved"},
                 NEW i \in DOMAIN batch, i < 1 + W
          PROVE  [call |-> n, file |-> i] \in DOMAIN requests'
      BY <1>4, <1>5, <1>7, <2>3
    <2>4. ASSUME call'.outcome = "resolved", NEW i \in DOMAIN batch
          PROVE  FALSE
      BY <1>0, <1>4, <2>4
    <2> QED
      BY <1>3, <2>1, <2>2, <2>3, <2>4 DEF ChunksInv, Mine
  <1>12. OkInv'
    BY <1>8 DEF Inv, OkInv
  <1>13. CutInv'
    BY <1>1, <1>8 DEF Inv, TypeOK, CutInv
  <1>14. LeftInv'
    BY <1>1, <1>3, <1>6, <1>8 DEF LeftInv, AtWork
  <1>15. EarlierStoredFirst'
    <2> SUFFICES ASSUME NEW r \in DOMAIN requests', NEW q \in DOMAIN requests',
                        r.call = q.call, ChunkNo(r.file) < ChunkNo(q.file)
                 PROVE  requests'[r].agent = "stored"
      BY DEF EarlierStoredFirst, ChunkNo, W
    <2>1. CASE r \in DOMAIN requests /\ q \in DOMAIN requests
      BY <1>8, <2>1 DEF Inv, EarlierStoredFirst, ChunkNo, W
    <2>2. CASE r.call = n
      <3>1. r \in new /\ q \in new
        BY <1>9, <2>2
      <3>2. 0 \in Nat /\ 0 * W + 1 = 1
        BY <1>0
      <3>3. ChunkNo(r.file) = 0 /\ ChunkNo(q.file) = 0
        BY <1>0, <1>6, <3>1, <3>2, ChunkNumbers
      <3> QED
        BY <3>3
    <2> QED
      BY <1>6, <1>8, <2>1, <2>2
  <1>16. SoloInv'
    BY <1>3, <1>8, <1>9 DEF SoloInv
  <1> QED
    BY <1>10, <1>11, <1>12, <1>13, <1>14, <1>15, <1>16 DEF Inv

(* Every step keeps the invariant. *)
LEMMA StepInv ==
  ASSUME Inv, [Next]_vars
  PROVE  Inv'
  <1>1. CASE UNCHANGED vars
    BY <1>1 DEF vars, Inv, TypeOK, ChunksInv, Mine, OkInv, CutInv, LeftInv, AtWork,
       EarlierStoredFirst, SoloInv, Solo
  <1>2. CASE Next
    BY <1>2, WriteFilesStep, NextChunkStep, OkStep, FailsStep, ReceiveStep, OpenStep, StoreStep
       DEF Next
  <1> QED
    BY <1>1, <1>2

(* The invariant gives what writeFiles promises. *)
LEMMA InvImplies == Inv => WrittenWhenResolved /\ CutTouchesNothing
  <1> SUFFICES ASSUME Inv PROVE WrittenWhenResolved /\ CutTouchesNothing
    OBVIOUS
  <1>1. CutTouchesNothing
    BY DEF Inv, CutInv, CutTouchesNothing
  <1>2. ASSUME call.outcome = "resolved", NEW i \in DOMAIN call.batch,
               call.batch[i] \notin unsettled,
               \A j \in {k \in DOMAIN call.batch \ {i} : call.batch[k] = call.batch[i]} :
                 j < i /\ ~(ChunkNo(i) = ChunkNo(j))
        PROVE  files[call.batch[i]] = [by |-> [call |-> call.n, file |-> i], left |-> "whole"]
    <2>1. Solo(i)
      BY <1>2 DEF Solo
    <2>2. Mine(i) \in DOMAIN requests /\ requests[Mine(i)].agent = "stored"
      BY <1>2 DEF Inv, ChunksInv
    <2>3. requests[Mine(i)].path = call.batch[i]
      BY <2>2 DEF Inv, ChunksInv, Mine
    <2> QED
      BY <2>1, <2>2, <2>3 DEF Inv, SoloInv, Mine
  <1>3. WrittenWhenResolved
    BY <1>2 DEF WrittenWhenResolved, ChunkNo, W
  <1> QED
    BY <1>1, <1>3

(* The invariant of the writes, however many calls are made and however large a  *)
(* chunk is.                                                                      *)
THEOREM FileWritesInvariant == Spec => []Inv
  BY InitInv, StepInv, PTL DEF Spec

-----------------------------------------------------------------------------
(* Reads beside the writes. *)

(* A read's own steps change nothing of the writes. *)
LEMMA ReadsLeaveWrites == ASSUME [ReadsNext]_allVars PROVE [Next]_vars
  BY DEF ReadsNext, allVars, vars, ReadFile, ReadFileBounded, ListFiles, Asks, Agent, Look,
         Finish, List, Unserved, Unreadable, Client, Refused, Body, Listing, BodyChunk, BodyEnd,
         Breaks, FallsSilent, Tick, GiveUp, Writes

(* With reads beside it, a write is still a write (sandbox.ts:533-556): the      *)
(* specification of both implements that of writes alone.                       *)
LEMMA ReadsImplementWrites == ReadsSpec => Spec
  <1>1. ReadsInit => Init
    BY DEF ReadsInit
  <1>2. [ReadsNext]_allVars => [Next]_vars
    BY ReadsLeaveWrites
  <1> QED
    BY <1>1, <1>2, PTL DEF ReadsSpec, Spec

(* So the invariant of the writes holds with reads beside them.                 *)
LEMMA WritesInvariantHere == ReadsSpec => []Inv
  BY ReadsImplementWrites, FileWritesInvariant, PTL

(* A path that is not written twice at once holds, when writeFiles resolves,     *)
(* what its last entry brought, whatever is read meanwhile                       *)
(* (sandbox.ts:552-555).                                                         *)
THEOREM ResolvedIsWritten == ReadsSpec => []WrittenWhenResolved
  BY WritesInvariantHere, InvImplies, PTL

(* No file of a chunk is sent before all of the one before it is stored          *)
(* (sandbox.ts:552-555).                                                         *)
THEOREM ChunksInOrder == ReadsSpec => []EarlierStoredFirst
  <1>1. Inv => EarlierStoredFirst
    BY DEF Inv
  <1> QED
    BY <1>1, WritesInvariantHere, PTL

(* A body that never came in whole touches no file (files.go:41-57).             *)
THEOREM CutIsHarmless == ReadsSpec => []CutTouchesNothing
  BY WritesInvariantHere, InvImplies, PTL

-----------------------------------------------------------------------------
(* The invariant of a read. *)

SeenFile == [by : [call : Nat, file : Nat], left : Contents \cup {"torn"}]
Seen == UNION {[S -> SeenFile] : S \in SUBSET Path}

ReadCall ==
  [kind : {"none", "whole", "bounded", "list"}, paths : SUBSET Path,
   budget : [maxBytes : Int, timeoutMs : Int], includeHidden : BOOLEAN,
   pc : {"idle", "asked", "looked", "answered", "settled"}, seen : Seen,
   code : {"none", "ok", "not_found", "read_failed", "not_a_directory", "list_failed"},
   length : Nat, answeredAt : Nat, total : Nat, elapsed : Nat, silent : BOOLEAN, same : BOOLEAN,
   result : {"none", "ok", "NOT_FOUND", "READ_FAILED", "BACKEND_ERROR", "NOT_A_DIRECTORY",
             "LIST_FAILED"},
   why : {"none", "invalid", "no agent", "budget", "unserved", "malformed", "over", "network",
          "gave up"},
   found : SUBSET Path]

ReadTypeOK == read \in ReadCall

(* What the agent can answer to which call, and when there is a result. *)
ShapeInv ==
  /\ read.kind = "none" <=> read.pc = "idle"
  /\ Pending => read.result = "none" /\ read.why = "none"
  /\ read.kind \in {"whole", "bounded"} =>
       /\ \A p, q \in read.paths : p = q
       /\ read.code \in {"none", "ok", "not_found", "read_failed"}
  /\ read.kind = "list" =>
       /\ read.paths = Path
       /\ read.code \in {"none", "ok", "not_found", "not_a_directory", "list_failed"}
       /\ read.pc # "looked"

(* A budget is served, and kept to while the body comes in. *)
BudgetInv ==
  read.kind = "bounded" =>
    /\ read.why # "invalid" => BudgetServed(read.budget)
    /\ Pending => read.total <= read.budget.maxBytes
    /\ BudgetKept

(* How far time can get on a network that works. *)
TimeInv ==
  (Pending /\ read.kind = "bounded" /\ ~read.silent) =>
    IF read.pc = "answered"
    THEN read.answeredAt <= read.budget.timeoutMs /\ read.elapsed <= read.answeredAt + Trip
    ELSE read.elapsed <= read.budget.timeoutMs

(* What the agent has seen is there as long as nothing is written. *)
SeenInv ==
  read.same =>
    /\ (read.pc = "looked" \/ (read.pc = "answered" /\ read.code = "ok" /\ read.kind # "list")) =>
         \A p \in read.paths : files[p].left # "absent" /\ read.seen[p] = files[p]
    /\ (read.pc = "answered" /\ read.code = "ok" /\ read.kind = "list") => read.seen = files
    /\ (read.pc = "answered" /\ read.code = "not_found" /\ read.kind # "list") =>
         \A p \in read.paths : files[p].left = "absent"

ReadInv ==
  ReadTypeOK /\ ShapeInv /\ BudgetInv /\ TimeInv /\ GivesUpLate /\ SeenInv /\ AnswerIsTrue
-----------------------------------------------------------------------------
LEMMA FilesSeen == TypeOK => files \in [Path -> SeenFile]
  BY DEF TypeOK, SeenFile, Nobody

LEMMA NothingSeen == << >> \in Seen
  <1>1. << >> \in [{} -> SeenFile]
    OBVIOUS
  <1>2. {} \in SUBSET Path
    OBVIOUS
  <1> QED
    BY <1>1, <1>2 DEF Seen

LEMMA SeenOf == ASSUME NEW S \in SUBSET Path, NEW f \in [S -> SeenFile] PROVE f \in Seen
  BY DEF Seen

LEMMA ReadInit == ReadsInit => ReadInv
  <1> SUFFICES ASSUME ReadsInit PROVE ReadInv
    OBVIOUS
  <1>1. ReadTypeOK
    BY NothingSeen DEF ReadsInit, NoRead, NoBudget, ReadTypeOK, ReadCall
  <1> QED
    BY <1>1 DEF ReadsInit, NoRead, ReadInv, ShapeInv, Pending, BudgetInv, TimeInv, GivesUpLate, SeenInv,
       AnswerIsTrue

(* Time limits. *)
LEMMA TimerFits ==
  ASSUME NEW ms \in Nat, ms <= MAX_TIMER_MS
  PROVE  /\ boundedReadGiveUpMs(ms) \in Nat
         /\ Timer(boundedReadGiveUpMs(ms)) = boundedReadGiveUpMs(ms)
         /\ ms <= boundedReadGiveUpMs(ms)
         /\ ms + Trip < MAX_TIMER_MS => ms + Trip < boundedReadGiveUpMs(ms)
  BY ReadAssumption DEF boundedReadGiveUpMs, Timer

(* A budget the port allows is one the agent serves. *)
LEMMA ValidServed ==
  ASSUME NEW options \in Budgets, isValidBudget(options)
  PROVE  /\ BudgetServed(budgetOf(options))
         /\ budgetOf(options) \in [maxBytes : Int, timeoutMs : Int]
  BY ReadAssumption DEF isValidBudget, budgetOf, BudgetServed, Ceil

LEMMA ServedNatural ==
  ASSUME NEW budget, BudgetServed(budget)
  PROVE  budget.maxBytes \in Nat /\ budget.timeoutMs \in Nat /\ budget.timeoutMs <= MAX_TIMER_MS
  BY ReadAssumption DEF BudgetServed

LEMMA NaturalNotNegative == \A n \in Nat : 0 <= n
  OBVIOUS

(* A call begins. *)
Begun(kind, paths, budget, hidden, pc, result, why) ==
  [kind |-> kind, paths |-> paths, budget |-> budget, includeHidden |-> hidden, pc |-> pc,
   seen |-> << >>, code |-> "none", length |-> 0, answeredAt |-> 0, total |-> 0, elapsed |-> 0,
   silent |-> FALSE, same |-> TRUE, result |-> result, why |-> why, found |-> {}]

LEMMA BeginStep ==
  ASSUME NEW kind \in {"whole", "bounded", "list"}, NEW paths \in SUBSET Path,
         NEW budget, budget \in [maxBytes : Int, timeoutMs : Int], NEW hidden \in BOOLEAN,
         NEW pc \in {"asked", "settled"}, NEW result \in {"none", "READ_FAILED", "BACKEND_ERROR"},
         NEW why \in {"none", "no agent", "invalid"},
         read' = Begun(kind, paths, budget, hidden, pc, result, why),
         pc = "asked" => result = "none" /\ why = "none",
         pc = "settled" => why # "none",
         kind = "bounded" /\ why # "invalid" => BudgetServed(budget),
         kind = "list" => paths = Path,
         kind # "list" => \A p, q \in paths : p = q
  PROVE  ReadInv'
  <1>1. ReadTypeOK'
    BY NothingSeen DEF Begun, ReadTypeOK, ReadCall
  <1>0. /\ read'.kind = kind /\ read'.paths = paths /\ read'.budget = budget
        /\ read'.pc = pc /\ read'.code = "none" /\ read'.result = result /\ read'.why = why
        /\ read'.total = 0 /\ read'.elapsed = 0
    BY DEF Begun
  <1>2. ShapeInv'
    BY <1>0 DEF ShapeInv, Pending
  <1>6. (kind = "bounded" /\ why # "invalid") => budget.maxBytes \in Nat /\ budget.timeoutMs \in Nat
    BY ServedNatural
  <1>3. BudgetInv'
    <2>1. BudgetKept'
      BY <1>0 DEF BudgetKept
    <2>2. (kind = "bounded" /\ why # "invalid") => BudgetServed(read.budget)'
      BY <1>0 DEF BudgetServed
    <2>3. ASSUME kind = "bounded", Pending' PROVE (read.total <= read.budget.maxBytes)'
      <3>1. pc # "settled"
        BY <1>0, <2>3 DEF Pending
      <3>2. why # "invalid"
        BY <3>1
      <3>3. budget.maxBytes \in Nat
        BY <1>6, <2>3, <3>2, Zenon
      <3>4. 0 <= budget.maxBytes
        BY <3>3, NaturalNotNegative, Zenon
      <3> QED
        BY <1>0, <3>4, Zenon
    <2> QED
      BY <1>0, <2>1, <2>2, <2>3 DEF BudgetInv
  <1>4. TimeInv' /\ GivesUpLate'
    <2>1. GivesUpLate'
      BY <1>0 DEF GivesUpLate
    <2>2. TimeInv'
      <3> SUFFICES ASSUME Pending', kind = "bounded" PROVE 0 <= budget.timeoutMs
        BY <1>0 DEF TimeInv, Pending
      <3>1. why # "invalid"
        BY <1>0 DEF Pending
      <3>2. budget.timeoutMs \in Nat
        BY <1>6, <3>1, Zenon
      <3> QED
        BY <3>2, NaturalNotNegative, Zenon
    <2> QED
      BY <2>1, <2>2
  <1>5. SeenInv' /\ AnswerIsTrue'
    BY <1>0 DEF SeenInv, AnswerIsTrue
  <1> QED
    BY <1>1, <1>2, <1>3, <1>4, <1>5 DEF ReadInv

LEMMA AsksBegin ==
  ASSUME NEW kind, NEW paths, NEW budget, NEW hidden,
         Asks(Begun(kind, paths, budget, hidden, "idle", "none", "none"))
  PROVE  \/ read' = Begun(kind, paths, budget, hidden, "asked", "none", "none")
         \/ read' = Begun(kind, paths, budget, hidden, "settled", "BACKEND_ERROR", "no agent")
  <1> DEFINE new == Begun(kind, paths, budget, hidden, "idle", "none", "none")
  <1>1. CASE read' = [new EXCEPT !.pc = "asked"]
    BY <1>1 DEF Begun
  <1>2. CASE read' = [new EXCEPT !.pc = "settled", !.result = "BACKEND_ERROR", !.why = "no agent"]
    BY <1>2 DEF Begun
  <1> QED
    BY <1>1, <1>2 DEF Asks, Settled

(* What no step of a call under way changes. *)
Kept ==
  /\ read'.kind = read.kind /\ read'.paths = read.paths /\ read'.budget = read.budget
  /\ read'.includeHidden = read.includeHidden /\ read'.same = read.same
  /\ UNCHANGED files

(* The agent answers. *)
LEMMA AnswerStep ==
  ASSUME ReadInv, ReadTypeOK', Kept,
         read.pc \in {"asked", "looked"}, read'.pc = "answered",
         read'.answeredAt = read.elapsed, read'.elapsed = read.elapsed,
         read'.silent = read.silent, read'.total = read.total,
         read'.result = read.result, read'.why = read.why,
         read'.kind \in {"whole", "bounded"} =>
           read'.code \in {"none", "ok", "not_found", "read_failed"},
         read'.kind = "list" =>
           read'.code \in {"none", "ok", "not_found", "not_a_directory", "list_failed"},
         SeenInv'
  PROVE  ReadInv'
  <1>1. ShapeInv'
    BY DEF ReadInv, ShapeInv, Pending, Kept
  <1>2. BudgetInv'
    <2>1. BudgetKept'
      BY DEF ReadInv, ShapeInv, Pending, Kept, BudgetKept
    <2> QED
      BY <2>1 DEF ReadInv, ShapeInv, BudgetInv, Pending, Kept
  <1>3. TimeInv'
    <2>1. read.elapsed \in Nat
      BY DEF ReadInv, ReadTypeOK, ReadCall
    <2>2. Trip \in Nat
      BY ReadAssumption
    <2> QED
      BY <2>1, <2>2 DEF ReadInv, TimeInv, Pending, Kept
  <1>4. GivesUpLate' /\ AnswerIsTrue'
    BY DEF ReadInv, ShapeInv, Pending, GivesUpLate, AnswerIsTrue
  <1> QED
    BY <1>1, <1>2, <1>3, <1>4 DEF ReadInv

(* The call ends. *)
LEMMA SettleStep ==
  ASSUME ReadInv, ReadTypeOK', Kept, Pending, read'.pc = "settled", read'.code = read.code,
         read'.why # "invalid", BudgetKept', GivesUpLate', AnswerIsTrue'
  PROVE  ReadInv'
  <1>1. ShapeInv'
    BY DEF ReadInv, ShapeInv, Pending, Kept
  <1>2. BudgetInv'
    BY DEF ReadInv, ShapeInv, BudgetInv, Pending, Kept
  <1>3. TimeInv' /\ SeenInv'
    BY DEF TimeInv, SeenInv, Pending
  <1> QED
    BY <1>1, <1>2, <1>3 DEF ReadInv

LEMMA UnservedStep == ASSUME ReadInv, Unserved PROVE ReadInv'
  <1>1. ReadTypeOK'
    BY DEF Unserved, Answers, ReadInv, ReadTypeOK, ReadCall
  <1>2. /\ Kept /\ read.pc = "asked" /\ read'.pc = "answered" /\ read'.code = "none"
        /\ read'.answeredAt = read.elapsed /\ read'.elapsed = read.elapsed
        /\ read'.silent = read.silent /\ read'.total = read.total
        /\ read'.result = read.result /\ read'.why = read.why
    BY DEF Unserved, Answers, ReadInv, ReadTypeOK, ReadCall, Kept, vars
  <1>3. SeenInv'
    BY <1>2 DEF SeenInv
  <1> QED
    BY <1>1, <1>2, <1>3, AnswerStep

LEMMA UnreadableStep == ASSUME ReadInv, Unreadable PROVE ReadInv'
  <1>1. ReadTypeOK'
    BY DEF Unreadable, Answers, ReadInv, ReadTypeOK, ReadCall
  <1>2. /\ Kept /\ read.pc \in {"asked", "looked"} /\ read'.pc = "answered"
        /\ read'.code = "read_failed" /\ read.kind # "list"
        /\ read'.answeredAt = read.elapsed /\ read'.elapsed = read.elapsed
        /\ read'.silent = read.silent /\ read'.total = read.total
        /\ read'.result = read.result /\ read'.why = read.why
    BY DEF Unreadable, Answers, ReadInv, ReadTypeOK, ReadCall, Kept, vars
  <1>3. SeenInv'
    BY <1>2 DEF SeenInv
  <1> QED
    BY <1>1, <1>2, <1>3, AnswerStep DEF Kept

LEMMA LookStep == ASSUME TypeOK, ReadInv, Look PROVE ReadInv'
  <1>0. ~(read.kind = "bounded" /\ ~BudgetServed(read.budget))
    BY DEF Look, ReadInv, ShapeInv, Pending, BudgetInv
  <1>1. CASE read' = Answers("not_found") /\ \E p \in read.paths : files[p].left = "absent"
    <2>1. ReadTypeOK'
      BY <1>1 DEF Answers, ReadInv, ReadTypeOK, ReadCall
    <2>2. /\ Kept /\ read.pc = "asked" /\ read'.pc = "answered"
          /\ read'.code = "not_found" /\ read.kind \in {"whole", "bounded"}
          /\ read'.answeredAt = read.elapsed /\ read'.elapsed = read.elapsed
          /\ read'.silent = read.silent /\ read'.total = read.total
          /\ read'.result = read.result /\ read'.why = read.why
      BY <1>1 DEF Look, Answers, ReadInv, ReadTypeOK, ReadCall, Kept, vars
    <2>3. SeenInv'
      BY <1>1, <2>2 DEF ReadInv, ShapeInv, SeenInv, Kept
    <2> QED
      BY <2>1, <2>2, <2>3, AnswerStep DEF Kept
  <1>2. CASE /\ read' = [read EXCEPT !.pc = "looked", !.seen = [p \in read.paths |-> files[p]]]
             /\ \A p \in read.paths : files[p].left # "absent"
    <2>1. [p \in read.paths |-> files[p]] \in Seen /\ read.paths \in SUBSET Path
      <3>1. read.paths \in SUBSET Path
        BY DEF ReadInv, ReadTypeOK, ReadCall
      <3>2. [p \in read.paths |-> files[p]] \in [read.paths -> SeenFile]
        BY <3>1, FilesSeen
      <3> QED
        BY <3>1, <3>2, SeenOf
    <2>2. ReadTypeOK'
      BY <1>2, <2>1 DEF ReadInv, ReadTypeOK, ReadCall
    <2>3. /\ Kept /\ read.pc = "asked" /\ read'.pc = "looked" /\ read'.code = read.code
          /\ read.kind \in {"whole", "bounded"} /\ read'.elapsed = read.elapsed
          /\ read'.silent = read.silent /\ read'.total = read.total
          /\ read'.result = read.result /\ read'.why = read.why
          /\ read'.seen = [p \in read.paths |-> files[p]]
      BY <1>2 DEF Look, ReadInv, ReadTypeOK, ReadCall, Kept, vars
    <2>4. ShapeInv'
      BY <2>3 DEF ReadInv, ShapeInv, Pending, Kept
    <2>5. BudgetInv' /\ TimeInv' /\ GivesUpLate' /\ AnswerIsTrue'
      <3>1. BudgetInv'
        <4>1. BudgetKept'
          BY <2>3 DEF ReadInv, ShapeInv, Pending, BudgetKept
        <4> QED
          BY <2>3, <4>1 DEF ReadInv, BudgetInv, Pending, Kept
      <3>2. TimeInv'
        BY <2>3 DEF ReadInv, TimeInv, Pending, Kept
      <3>3. GivesUpLate' /\ AnswerIsTrue'
        BY <2>3 DEF ReadInv, ShapeInv, Pending, GivesUpLate, AnswerIsTrue
      <3> QED
        BY <3>1, <3>2, <3>3
    <2>6. SeenInv'
      BY <1>2, <2>3 DEF SeenInv, Kept
    <2> QED
      BY <2>2, <2>4, <2>5, <2>6 DEF ReadInv
  <1> QED
    BY <1>0, <1>1, <1>2 DEF Look

LEMMA FinishStep == ASSUME TypeOK, ReadInv, Finish PROVE ReadInv'
  <1> DEFINE seen == [p \in read.paths |-> IF read.seen[p] = files[p] THEN files[p] ELSE Torn]
  <1>1. read.paths \in SUBSET Path /\ seen \in Seen
    <2>1. read.paths \in SUBSET Path
      BY DEF ReadInv, ReadTypeOK, ReadCall
    <2>2. Torn \in SeenFile
      BY DEF Torn, Nobody, SeenFile
    <2>3. seen \in [read.paths -> SeenFile]
      BY <2>1, <2>2, FilesSeen
    <2> QED
      BY <2>1, <2>3, SeenOf
  <1>2. PICK length \in Nat : read' = [Answers("ok") EXCEPT !.length = length, !.seen = seen]
    <2>1. PICK length \in (IF read.kind = "bounded" THEN 0..MaxBody ELSE {0}) :
                 read' = [Answers("ok") EXCEPT !.length = length, !.seen = seen]
      BY Zenon DEF Finish
    <2>2. length \in Nat
      BY ReadAssumption
    <2> QED
      BY <2>1, <2>2, Zenon
  <1> HIDE DEF seen
  <1>3. ReadTypeOK'
    BY <1>1, <1>2 DEF Answers, ReadInv, ReadTypeOK, ReadCall
  <1>4. /\ Kept /\ read.pc = "looked" /\ read'.pc = "answered" /\ read'.code = "ok"
        /\ read'.answeredAt = read.elapsed /\ read'.elapsed = read.elapsed
        /\ read'.silent = read.silent /\ read'.total = read.total
        /\ read'.result = read.result /\ read'.why = read.why /\ read'.seen = seen
    BY <1>2 DEF Finish, Answers, ReadInv, ReadTypeOK, ReadCall, Kept, vars
  <1>5. read.kind # "list"
    BY <1>4 DEF ReadInv, ShapeInv
  <1>6. SeenInv'
    BY <1>4, <1>5 DEF ReadInv, SeenInv, Kept, seen
  <1> QED
    BY <1>3, <1>4, <1>5, <1>6, AnswerStep DEF Kept

LEMMA ListStep == ASSUME TypeOK, ReadInv, List PROVE ReadInv'
  <1>1. CASE read' = [Answers("ok") EXCEPT !.seen = files]
    <2>1. files \in Seen
      BY FilesSeen, SeenOf
    <2>2. ReadTypeOK'
      BY <1>1, <2>1 DEF Answers, ReadInv, ReadTypeOK, ReadCall
    <2>3. /\ Kept /\ read.pc = "asked" /\ read'.pc = "answered" /\ read'.code = "ok"
          /\ read'.answeredAt = read.elapsed /\ read'.elapsed = read.elapsed
          /\ read'.silent = read.silent /\ read'.total = read.total /\ read.kind = "list"
          /\ read'.result = read.result /\ read'.why = read.why /\ read'.seen = files
      BY <1>1 DEF List, Answers, ReadInv, ReadTypeOK, ReadCall, Kept, vars
    <2>4. SeenInv'
      BY <2>3 DEF SeenInv, Kept
    <2> QED
      BY <2>2, <2>3, <2>4, AnswerStep DEF Kept
  <1>2. ASSUME NEW code \in {"not_a_directory", "not_found", "list_failed"}, read' = Answers(code)
        PROVE  ReadInv'
    <2>1. ReadTypeOK'
      BY <1>2 DEF Answers, ReadInv, ReadTypeOK, ReadCall
    <2>2. /\ Kept /\ read.pc = "asked" /\ read'.pc = "answered" /\ read'.code = code
          /\ read'.answeredAt = read.elapsed /\ read'.elapsed = read.elapsed
          /\ read'.silent = read.silent /\ read'.total = read.total /\ read.kind = "list"
          /\ read'.result = read.result /\ read'.why = read.why
      BY <1>2 DEF List, Answers, ReadInv, ReadTypeOK, ReadCall, Kept, vars
    <2>3. SeenInv'
      BY <2>2 DEF SeenInv, Kept
    <2> QED
      BY <2>1, <2>2, <2>3, AnswerStep DEF Kept
  <1> QED
    BY <1>1, <1>2 DEF List

-----------------------------------------------------------------------------
(* What settles a call. *)

LEMMA SettledTyped ==
  ASSUME NEW r \in ReadCall,
         NEW result \in {"NOT_FOUND", "READ_FAILED", "BACKEND_ERROR", "NOT_A_DIRECTORY",
                         "LIST_FAILED"},
         NEW why \in {"none", "unserved"}
  PROVE  Settled(r, result, why) \in ReadCall
  BY DEF ReadCall, Settled

LEMMA RefusedStep == ASSUME ReadInv, Refused PROVE ReadInv'
  <1> DEFINE result == IF read.kind = "list" THEN listRefused(read.code) ELSE readRefused(read.code)
             why == IF read.code = "none" THEN "unserved" ELSE read.why
  <1>1. read' = [read EXCEPT !.pc = "settled", !.result = result, !.why = why]
    BY DEF Refused, Settled
  <1>2. /\ read.pc = "answered" /\ read.code # "ok" /\ read.why = "none"
        /\ read.kind \in {"whole", "bounded", "list"}
    BY DEF Refused, Arrives, ReadInv, ReadTypeOK, ReadCall, ShapeInv, Pending
  <1>3. /\ result \in {"NOT_FOUND", "READ_FAILED", "BACKEND_ERROR", "NOT_A_DIRECTORY", "LIST_FAILED"}
        /\ why \in {"none", "unserved"}
    BY <1>2 DEF listRefused, readRefused
  <1>4. /\ result = "NOT_FOUND" => read.code = "not_found" /\ read.kind # "list"
        /\ result = "BACKEND_ERROR" => why # "none"
    BY <1>2 DEF listRefused, readRefused, ReadInv, ShapeInv
  <1> HIDE DEF result, why
  <1>5. ReadTypeOK'
    BY <1>1, <1>3, SettledTyped DEF Settled, ReadInv, ReadTypeOK
  <1>6. /\ Kept /\ Pending /\ read'.pc = "settled" /\ read'.code = read.code
        /\ read'.result = result /\ read'.why = why
    BY <1>1, <1>2 DEF Refused, ReadInv, ReadTypeOK, ReadCall, Kept, Pending, vars
  <1>7. BudgetKept' /\ GivesUpLate'
    BY <1>3, <1>6 DEF BudgetKept, GivesUpLate
  <1>8. AnswerIsTrue'
    BY <1>2, <1>3, <1>4, <1>6 DEF ReadInv, SeenInv, AnswerIsTrue, Kept
  <1>9. read'.why # "invalid"
    BY <1>3, <1>6
  <1> QED
    BY <1>5, <1>6, <1>7, <1>8, <1>9, SettleStep

LEMMA BodyStep == ASSUME ReadInv, Body PROVE ReadInv'
  <1>1. ReadTypeOK'
    BY DEF Body, Settled, ReadInv, ReadTypeOK, ReadCall
  <1>2. /\ Kept /\ Pending /\ read.pc = "answered" /\ read'.pc = "settled" /\ read.code = "ok"
        /\ read'.code = read.code /\ read.kind = "whole" /\ read'.result = "ok"
        /\ read'.why = "none" /\ read'.seen = read.seen
    BY DEF Body, Arrives, Settled, ReadInv, ReadTypeOK, ReadCall, Kept, Pending, vars
  <1>3. BudgetKept' /\ GivesUpLate'
    BY <1>2 DEF BudgetKept, GivesUpLate, Kept
  <1>4. AnswerIsTrue'
    BY <1>2 DEF ReadInv, SeenInv, AnswerIsTrue, Kept
  <1> QED
    BY <1>1, <1>2, <1>3, <1>4, SettleStep

LEMMA BodyEndStep == ASSUME ReadInv, BodyEnd PROVE ReadInv'
  <1>1. ReadTypeOK'
    BY DEF BodyEnd, Settled, ReadInv, ReadTypeOK, ReadCall
  <1>2. /\ Kept /\ Pending /\ read.pc = "answered" /\ read'.pc = "settled" /\ read.code = "ok"
        /\ read'.code = read.code /\ read.kind = "bounded" /\ read'.result = "ok"
        /\ read'.why = "none" /\ read'.seen = read.seen
        /\ read'.total = read.total /\ read'.length = read.length /\ read.total = read.length
    BY DEF BodyEnd, Arrives, Settled, ReadInv, ReadTypeOK, ReadCall, Kept, Pending, vars
  <1>3. BudgetKept' /\ GivesUpLate'
    BY <1>2 DEF ReadInv, BudgetInv, BudgetKept, GivesUpLate, Kept
  <1>4. AnswerIsTrue'
    BY <1>2 DEF ReadInv, SeenInv, AnswerIsTrue, Kept
  <1> QED
    BY <1>1, <1>2, <1>3, <1>4, SettleStep

LEMMA BreaksStep == ASSUME ReadInv, Breaks PROVE ReadInv'
  <1>1. ReadTypeOK'
    BY DEF Breaks, Settled, ReadInv, ReadTypeOK, ReadCall
  <1>2. /\ Kept /\ Pending /\ read'.pc = "settled" /\ read'.code = read.code
        /\ read'.result = "BACKEND_ERROR" /\ read'.why = "network"
    BY DEF Breaks, Settled, ReadInv, ReadTypeOK, ReadCall, Kept, Pending, vars
  <1>3. BudgetKept' /\ GivesUpLate' /\ AnswerIsTrue'
    BY <1>2 DEF BudgetKept, GivesUpLate, AnswerIsTrue
  <1> QED
    BY <1>1, <1>2, <1>3, SettleStep

(* The client's timer: it runs for longer than a working network needs. *)
LEMMA GiveUpStep == ASSUME ReadInv, GiveUp PROVE ReadInv'
  <1>1. ReadTypeOK'
    BY DEF GiveUp, Settled, ReadInv, ReadTypeOK, ReadCall
  <1>2. /\ Kept /\ Pending /\ read'.pc = "settled" /\ read'.code = read.code
        /\ read.kind = "bounded" /\ read'.result = "BACKEND_ERROR" /\ read'.why = "gave up"
        /\ read'.elapsed = read.elapsed /\ read'.silent = read.silent
        /\ read'.budget = read.budget /\ read.elapsed >= GivesUpAt
    BY DEF GiveUp, Settled, ReadInv, ReadTypeOK, ReadCall, Kept, Pending, vars
  <1>3. BudgetKept' /\ AnswerIsTrue'
    BY <1>2 DEF BudgetKept, AnswerIsTrue
  <1>4. GivesUpLate'
    <2> DEFINE ms == read.budget.timeoutMs
               g == boundedReadGiveUpMs(ms)
    <2>1. ms \in Nat /\ ms <= MAX_TIMER_MS
      <3>1. BudgetServed(read.budget)
        BY <1>2 DEF ReadInv, ShapeInv, BudgetInv
      <3> QED
        BY <3>1, ServedNatural
    <2>2. read.elapsed \in Nat /\ read.answeredAt \in Nat /\ Trip \in Nat /\ MAX_TIMER_MS \in Nat
      <3>1. read.elapsed \in Nat /\ read.answeredAt \in Nat
        BY DEF ReadInv, ReadTypeOK, ReadCall
      <3>2. Trip \in Nat /\ MAX_TIMER_MS \in Nat
        BY ReadAssumption
      <3> QED
        BY <3>1, <3>2
    <2>3. g \in Nat /\ Timer(g) = g /\ ms <= g /\ (ms + Trip < MAX_TIMER_MS => ms + Trip < g)
      BY <2>1, TimerFits
    <2>4. read.elapsed >= g
      BY <1>2, <2>3 DEF GivesUpAt
    <2> HIDE DEF g, ms
    <2>5. read.elapsed >= ms
      BY <2>1, <2>2, <2>3, <2>4
    <2>6. ~read.silent => read.elapsed <= ms + Trip
      <3> SUFFICES ASSUME ~read.silent PROVE read.elapsed <= ms + Trip
        OBVIOUS
      <3>1. CASE read.pc = "answered"
        <4>1. read.answeredAt <= ms /\ read.elapsed <= read.answeredAt + Trip
          BY <1>2, <3>1 DEF ReadInv, TimeInv, ms
        <4> QED
          BY <2>1, <2>2, <4>1
      <3>2. CASE read.pc # "answered"
        <4>1. read.elapsed <= ms
          BY <1>2, <3>2 DEF ReadInv, TimeInv, ms
        <4> QED
          BY <2>1, <2>2, <4>1
      <3> QED
        BY <3>1, <3>2
    <2>7. ~read.silent => ms + Trip >= MAX_TIMER_MS
      BY <2>1, <2>2, <2>3, <2>4, <2>6
    <2> QED
      BY <1>2, <2>5, <2>7 DEF GivesUpLate, ms
  <1> QED
    BY <1>1, <1>2, <1>3, <1>4, SettleStep

LEMMA ListingStep == ASSUME TypeOK, ReadInv, Listing PROVE ReadInv'
  <1>0. files \in [Path -> SeenFile]
    BY FilesSeen
  <1>1. CASE read' = Settled(read, "BACKEND_ERROR", "malformed")
    <2>1. ReadTypeOK'
      BY <1>1 DEF Settled, ReadInv, ReadTypeOK, ReadCall
    <2>2. /\ Kept /\ Pending /\ read'.pc = "settled" /\ read'.code = read.code
          /\ read'.result = "BACKEND_ERROR" /\ read'.why = "malformed"
      BY <1>1 DEF Listing, Arrives, Settled, ReadInv, ReadTypeOK, ReadCall, Kept, Pending, vars
    <2>3. BudgetKept' /\ GivesUpLate' /\ AnswerIsTrue'
      BY <2>2 DEF BudgetKept, GivesUpLate, AnswerIsTrue
    <2> QED
      BY <2>1, <2>2, <2>3, SettleStep
  <1>2. CASE read' = [Settled(read, "ok", "none") EXCEPT
                        !.found = toFileInfos(read.seen, read.includeHidden)]
    <2>1. toFileInfos(read.seen, read.includeHidden) \in SUBSET Path
      <3>1. read.seen \in Seen
        BY DEF ReadInv, ReadTypeOK, ReadCall
      <3>2. DOMAIN read.seen \subseteq Path
        BY <3>1 DEF Seen
      <3> QED
        BY <3>2 DEF toFileInfos
    <2>2. ReadTypeOK'
      BY <1>2, <2>1 DEF Settled, ReadInv, ReadTypeOK, ReadCall
    <2>3. /\ Kept /\ Pending /\ read'.pc = "settled" /\ read'.code = read.code /\ read.code = "ok"
          /\ read.pc = "answered" /\ read.kind = "list"
          /\ read'.result = "ok" /\ read'.why = "none"
          /\ read'.found = toFileInfos(read.seen, read.includeHidden)
      BY <1>2 DEF Listing, Arrives, Settled, ReadInv, ReadTypeOK, ReadCall, Kept, Pending, vars
    <2>4. BudgetKept' /\ GivesUpLate'
      BY <2>3 DEF BudgetKept, GivesUpLate, Kept
    <2>5. read.same => read.seen = files
      BY <2>3 DEF ReadInv, SeenInv
    <2>6. toFileInfos(files, read.includeHidden) =
            {p \in Path : files[p].left # "absent"} \ (IF read.includeHidden THEN {} ELSE Hidden)
      BY <1>0 DEF toFileInfos
    <2>7. AnswerIsTrue'
      BY <2>3, <2>5, <2>6 DEF AnswerIsTrue, Kept
    <2> QED
      BY <2>2, <2>3, <2>4, <2>7, SettleStep
  <1> QED
    BY <1>1, <1>2 DEF Listing

-----------------------------------------------------------------------------
(* What goes on while the call is under way. *)

LEMMA BodyChunkStep == ASSUME ReadInv, NEW n \in 1..MaxBody, BodyChunk(n) PROVE ReadInv'
  <1>0. /\ read.total \in Nat /\ n \in Nat /\ read.total + n \in Nat
        /\ read.budget \in [maxBytes : Int, timeoutMs : Int]
    <2>1. /\ read.total \in Nat /\ read.budget \in [maxBytes : Int, timeoutMs : Int]
      BY DEF ReadInv, ReadTypeOK, ReadCall
    <2>2. n \in Nat
      BY ReadAssumption
    <2> QED
      BY <2>1, <2>2
  <1>1. CASE /\ read.total + n > read.budget.maxBytes
             /\ read' = Settled([read EXCEPT !.total = @ + n], "READ_FAILED", "over")
    <2>1. ReadTypeOK'
      BY <1>0, <1>1 DEF Settled, ReadInv, ReadTypeOK, ReadCall
    <2>2. /\ Kept /\ Pending /\ read'.pc = "settled" /\ read'.code = read.code
          /\ read'.result = "READ_FAILED" /\ read'.why = "over"
      BY <1>1 DEF BodyChunk, Arrives, Settled, ReadInv, ReadTypeOK, ReadCall, Kept, Pending, vars
    <2>3. BudgetKept' /\ GivesUpLate' /\ AnswerIsTrue'
      BY <2>2 DEF BudgetKept, GivesUpLate, AnswerIsTrue
    <2> QED
      BY <2>1, <2>2, <2>3, SettleStep
  <1>2. CASE /\ ~(read.total + n > read.budget.maxBytes)
             /\ read' = [read EXCEPT !.total = @ + n]
    <2>1. ReadTypeOK'
      BY <1>0, <1>2 DEF ReadInv, ReadTypeOK, ReadCall
    <2>2. /\ Kept /\ read'.pc = read.pc /\ read.pc = "answered" /\ read'.code = read.code
          /\ read'.result = read.result /\ read'.why = read.why
          /\ read'.total = read.total + n /\ read'.elapsed = read.elapsed
          /\ read'.answeredAt = read.answeredAt /\ read'.silent = read.silent
          /\ read'.seen = read.seen
      BY <1>2 DEF BodyChunk, Arrives, ReadInv, ReadTypeOK, ReadCall, Kept, vars
    <2>3. ShapeInv' /\ SeenInv'
      BY <2>2 DEF ReadInv, ShapeInv, SeenInv, Pending, Kept
    <2>4. BudgetInv'
      <3>1. BudgetKept'
        BY <2>2 DEF ReadInv, ShapeInv, Pending, BudgetKept
      <3>2. read'.total <= read'.budget.maxBytes
        BY <1>0, <1>2, <2>2 DEF Kept
      <3> QED
        BY <2>2, <3>1, <3>2 DEF ReadInv, BudgetInv, Pending, Kept
    <2>5. TimeInv' /\ GivesUpLate' /\ AnswerIsTrue'
      BY <2>2 DEF ReadInv, ShapeInv, TimeInv, GivesUpLate, AnswerIsTrue, Pending, Kept
    <2> QED
      BY <2>1, <2>3, <2>4, <2>5 DEF ReadInv
  <1> QED
    BY <1>1, <1>2 DEF BodyChunk

LEMMA FallsSilentStep == ASSUME ReadInv, FallsSilent PROVE ReadInv'
  <1>1. ReadTypeOK'
    BY DEF FallsSilent, ReadInv, ReadTypeOK, ReadCall
  <1>2. /\ Kept /\ Pending /\ read'.pc = read.pc /\ read'.code = read.code
        /\ read'.result = read.result /\ read'.why = read.why /\ read'.total = read.total
        /\ read'.seen = read.seen /\ read'.silent = TRUE
    BY DEF FallsSilent, ReadInv, ReadTypeOK, ReadCall, Kept, vars
  <1>3. ShapeInv' /\ SeenInv'
    BY <1>2 DEF ReadInv, ShapeInv, SeenInv, Pending, Kept
  <1>4. BudgetInv'
    <2>1. BudgetKept'
      BY <1>2 DEF ReadInv, ShapeInv, Pending, BudgetKept
    <2> QED
      BY <1>2, <2>1 DEF ReadInv, BudgetInv, Pending, Kept
  <1>5. TimeInv' /\ GivesUpLate' /\ AnswerIsTrue'
    BY <1>2 DEF ReadInv, ShapeInv, TimeInv, GivesUpLate, AnswerIsTrue, Pending, Kept
  <1> QED
    BY <1>1, <1>3, <1>4, <1>5 DEF ReadInv

LEMMA TickStep == ASSUME ReadInv, Tick PROVE ReadInv'
  <1>0. /\ read.elapsed \in Nat /\ read.elapsed + 1 \in Nat /\ read.answeredAt \in Nat
        /\ read.budget \in [maxBytes : Int, timeoutMs : Int]
    <2>1. /\ read.elapsed \in Nat /\ read.answeredAt \in Nat
          /\ read.budget \in [maxBytes : Int, timeoutMs : Int]
      BY DEF ReadInv, ReadTypeOK, ReadCall
    <2> QED
      BY <2>1
  <1>1. ReadTypeOK'
    BY <1>0 DEF Tick, ReadInv, ReadTypeOK, ReadCall
  <1>2. /\ Kept /\ Pending /\ read'.pc = read.pc /\ read'.code = read.code
        /\ read'.result = read.result /\ read'.why = read.why /\ read'.total = read.total
        /\ read'.seen = read.seen /\ read'.silent = read.silent
        /\ read'.answeredAt = read.answeredAt /\ read'.elapsed = read.elapsed + 1
    BY DEF Tick, ReadInv, ReadTypeOK, ReadCall, Kept, vars
  <1>3. ShapeInv' /\ SeenInv'
    BY <1>2 DEF ReadInv, ShapeInv, SeenInv, Pending, Kept
  <1>4. BudgetInv'
    <2>1. BudgetKept'
      BY <1>2 DEF ReadInv, ShapeInv, Pending, BudgetKept
    <2> QED
      BY <1>2, <2>1 DEF ReadInv, BudgetInv, Pending, Kept
  <1>5. TimeInv'
    <2> SUFFICES ASSUME ~read.silent, Pending, read.kind = "bounded"
                 PROVE  IF read.pc = "answered"
                        THEN /\ read.answeredAt <= read.budget.timeoutMs
                             /\ read.elapsed + 1 <= read.answeredAt + Trip
                        ELSE read.elapsed + 1 <= read.budget.timeoutMs
      BY <1>2 DEF TimeInv, Pending, Kept
    <2>1. Trip \in Nat
      BY ReadAssumption
    <2>2. CASE read.pc = "answered"
      <3>1. read.elapsed < read.answeredAt + Trip
        BY <2>2 DEF Tick
      <3>2. read.answeredAt <= read.budget.timeoutMs
        BY <2>2 DEF ReadInv, TimeInv
      <3> QED
        BY <1>0, <2>1, <2>2, <3>1, <3>2
    <2>3. CASE read.pc # "answered"
      <3>1. read.elapsed < read.budget.timeoutMs
        BY <2>3 DEF Tick
      <3> QED
        BY <1>0, <2>3, <3>1
    <2> QED
      BY <2>2, <2>3
  <1>6. GivesUpLate' /\ AnswerIsTrue'
    BY <1>2 DEF ReadInv, ShapeInv, GivesUpLate, AnswerIsTrue, Pending
  <1> QED
    BY <1>1, <1>3, <1>4, <1>5, <1>6 DEF ReadInv

(* A write beside the call: if it touched what the call is about, `same' says so. *)
LEMMA WritesStep == ASSUME TypeOK, TypeOK', ReadInv, Writes PROVE ReadInv'
  <1> DEFINE same == read.same /\ \A p \in read.paths : files'[p] = files[p]
  <1>1. read' = [read EXCEPT !.same = same]
    BY DEF Writes
  <1>2. same \in BOOLEAN /\ (same => read.same) /\ (same => \A p \in read.paths : files'[p] = files[p])
    BY Zenon DEF ReadInv, ReadTypeOK, ReadCall
  <1> HIDE DEF same
  <1>3. ReadTypeOK'
    BY <1>1, <1>2 DEF ReadInv, ReadTypeOK, ReadCall
  <1>4. /\ read'.kind = read.kind /\ read'.paths = read.paths /\ read'.budget = read.budget
        /\ read'.includeHidden = read.includeHidden /\ read'.pc = read.pc /\ read'.seen = read.seen
        /\ read'.code = read.code /\ read'.length = read.length
        /\ read'.answeredAt = read.answeredAt /\ read'.total = read.total
        /\ read'.elapsed = read.elapsed /\ read'.silent = read.silent /\ read'.result = read.result
        /\ read'.why = read.why /\ read'.found = read.found /\ read'.same = same
    BY <1>1 DEF ReadInv, ReadTypeOK, ReadCall
  <1>5. ShapeInv'
    BY <1>4 DEF ReadInv, ShapeInv, Pending
  <1>6. BudgetInv' /\ TimeInv' /\ GivesUpLate'
    BY <1>4 DEF ReadInv, BudgetInv, BudgetKept, BudgetServed, TimeInv, GivesUpLate, Pending
  <1>7. SeenInv'
    <2> SUFFICES ASSUME same PROVE SeenInv'
      BY <1>4 DEF SeenInv
    <2>1. \A p \in read.paths : files'[p] = files[p]
      BY <1>2
    <2>2. read.kind = "list" => files' = files
      <3>1. files \in [Path -> SeenFile] /\ files' \in [Path -> SeenFile]
        BY FilesSeen DEF TypeOK, SeenFile, Nobody
      <3> QED
        BY <2>1, <3>1 DEF ReadInv, ShapeInv
    <2> QED
      BY <1>2, <1>4, <2>1, <2>2 DEF ReadInv, SeenInv
  <1>8. AnswerIsTrue'
    BY <1>2, <1>4 DEF ReadInv, ShapeInv, AnswerIsTrue
  <1> QED
    BY <1>3, <1>5, <1>6, <1>7, <1>8 DEF ReadInv

-----------------------------------------------------------------------------
(* The calls. *)

LEMMA ReadFileStep == ASSUME NEW p \in Path, ReadFile(p) PROVE ReadInv'
  <1>1. Asks(Begun("whole", {p}, NoBudget, FALSE, "idle", "none", "none"))
    <2>1. ASSUME NEW new, new = [NoRead EXCEPT !.kind = "whole", !.paths = {p}]
          PROVE  new = Begun("whole", {p}, NoBudget, FALSE, "idle", "none", "none")
      BY <2>1 DEF NoRead, Begun
    <2> QED
      BY <2>1, Zenon DEF ReadFile
  <1>2. /\ {p} \in SUBSET Path /\ NoBudget \in [maxBytes : Int, timeoutMs : Int]
        /\ \A q, r \in {p} : q = r
    BY DEF NoBudget
  <1>3. CASE read' = Begun("whole", {p}, NoBudget, FALSE, "asked", "none", "none")
    BY <1>2, <1>3, BeginStep
  <1>4. CASE read' = Begun("whole", {p}, NoBudget, FALSE, "settled", "BACKEND_ERROR", "no agent")
    BY <1>2, <1>4, BeginStep
  <1> QED
    BY <1>1, <1>3, <1>4, AsksBegin

LEMMA ListFilesStep == ASSUME NEW hidden \in BOOLEAN, ListFiles(hidden) PROVE ReadInv'
  <1>1. Asks(Begun("list", Path, NoBudget, hidden, "idle", "none", "none"))
    <2>1. ASSUME NEW new,
                 new = [NoRead EXCEPT !.kind = "list", !.paths = Path, !.includeHidden = hidden]
          PROVE  new = Begun("list", Path, NoBudget, hidden, "idle", "none", "none")
      BY <2>1 DEF NoRead, Begun
    <2> QED
      BY <2>1, Zenon DEF ListFiles
  <1>2. Path \in SUBSET Path /\ NoBudget \in [maxBytes : Int, timeoutMs : Int]
    BY DEF NoBudget
  <1>3. CASE read' = Begun("list", Path, NoBudget, hidden, "asked", "none", "none")
    BY <1>2, <1>3, BeginStep
  <1>4. CASE read' = Begun("list", Path, NoBudget, hidden, "settled", "BACKEND_ERROR", "no agent")
    BY <1>2, <1>4, BeginStep
  <1> QED
    BY <1>1, <1>3, <1>4, AsksBegin

LEMMA ReadFileBoundedStep ==
  ASSUME NEW p \in Path, NEW options \in Budgets, ReadFileBounded(p, options)
  PROVE  ReadInv'
  <1>1. {p} \in SUBSET Path /\ \A q, r \in {p} : q = r
    OBVIOUS
  <1>2. CASE isValidBudget(options)
    <2> DEFINE budget == budgetOf(options)
    <2>1. BudgetServed(budget) /\ budget \in [maxBytes : Int, timeoutMs : Int]
      BY <1>2, ValidServed
    <2>2. Asks(Begun("bounded", {p}, budget, FALSE, "idle", "none", "none"))
      <3>1. ASSUME NEW new,
                   new = [[NoRead EXCEPT !.kind = "bounded", !.paths = {p}] EXCEPT !.budget = budget]
            PROVE  new = Begun("bounded", {p}, budget, FALSE, "idle", "none", "none")
        BY <3>1 DEF NoRead, Begun
      <3>2. Asks([[NoRead EXCEPT !.kind = "bounded", !.paths = {p}] EXCEPT !.budget = budget])
        BY <1>2, Zenon DEF ReadFileBounded
      <3> QED
        BY <3>1, <3>2, Zenon
    <2> HIDE DEF budget
    <2>3. CASE read' = Begun("bounded", {p}, budget, FALSE, "asked", "none", "none")
      BY <1>1, <2>1, <2>3, BeginStep
    <2>4. CASE read' = Begun("bounded", {p}, budget, FALSE, "settled", "BACKEND_ERROR", "no agent")
      BY <1>1, <2>1, <2>4, BeginStep
    <2> QED
      BY <2>2, <2>3, <2>4, AsksBegin
  <1>3. CASE ~isValidBudget(options)
    <2>1. read' = Begun("bounded", {p}, NoBudget, FALSE, "settled", "READ_FAILED", "invalid")
      <3>1. read' = [[NoRead EXCEPT !.kind = "bounded", !.paths = {p}] EXCEPT
                       !.pc = "settled", !.result = "READ_FAILED", !.why = "invalid"]
        BY <1>3, Zenon DEF ReadFileBounded, Settled
      <3> QED
        BY <3>1 DEF NoRead, Begun
    <2>2. NoBudget \in [maxBytes : Int, timeoutMs : Int]
      BY DEF NoBudget
    <2> QED
      BY <1>1, <2>1, <2>2, BeginStep
  <1> QED
    BY <1>2, <1>3

LEMMA ReadUnchanged == ASSUME ReadInv, UNCHANGED allVars PROVE ReadInv'
  <1>1. read' = read /\ files' = files
    BY DEF allVars
  <1>2. ReadTypeOK' /\ ShapeInv' /\ BudgetInv'
    <2>1. ReadTypeOK' /\ ShapeInv'
      <3>1. ReadTypeOK'
        BY <1>1, Zenon DEF ReadInv, ReadTypeOK
      <3>2. ShapeInv'
        BY <1>1 DEF ReadInv, ShapeInv, Pending
      <3> QED
        BY <3>1, <3>2
    <2>2. BudgetKept' = BudgetKept /\ Pending' = Pending
      BY <1>1 DEF BudgetKept, Pending
    <2> QED
      BY <1>1, <2>1, <2>2 DEF ReadInv, BudgetInv
  <1>3. TimeInv' /\ GivesUpLate' /\ SeenInv' /\ AnswerIsTrue'
    BY <1>1 DEF ReadInv, TimeInv, GivesUpLate, SeenInv, AnswerIsTrue, Pending
  <1> QED
    BY <1>2, <1>3 DEF ReadInv

LEMMA ReadStep == ASSUME TypeOK, TypeOK', ReadInv, [ReadsNext]_allVars PROVE ReadInv'
  <1>1. CASE \E p \in Path : ReadFile(p) \/ \E options \in Budgets : ReadFileBounded(p, options)
    BY <1>1, ReadFileStep, ReadFileBoundedStep
  <1>2. CASE \E hidden \in BOOLEAN : ListFiles(hidden)
    BY <1>2, ListFilesStep
  <1>3. CASE Agent \/ Unserved \/ Unreadable
    BY <1>3, LookStep, FinishStep, ListStep, UnservedStep, UnreadableStep DEF Agent
  <1>4. CASE Client
    BY <1>4, RefusedStep, BodyStep, ListingStep, BodyChunkStep, BodyEndStep DEF Client
  <1>5. CASE Breaks \/ FallsSilent \/ Tick \/ GiveUp
    BY <1>5, BreaksStep, FallsSilentStep, TickStep, GiveUpStep
  <1>6. CASE Writes
    BY <1>6, WritesStep
  <1> QED
    BY <1>1, <1>2, <1>3, <1>4, <1>5, <1>6, ReadUnchanged DEF ReadsNext

(* The invariant of a read holds whatever is written beside it, for every        *)
(* budget, timer and limit.                                                       *)
THEOREM ReadsInvariant == ReadsSpec => []ReadInv
  <1>1. ReadsSpec => []TypeOK
    <2>1. Inv => TypeOK
      BY DEF Inv
    <2> QED
      BY <2>1, WritesInvariantHere, PTL
  <1>2. ReadsInit => ReadInv
    BY ReadInit
  <1>3. TypeOK /\ TypeOK' /\ ReadInv /\ [ReadsNext]_allVars => ReadInv'
    BY ReadStep
  <1> QED
    BY <1>1, <1>2, <1>3, PTL DEF ReadsSpec

(* What a read or a listing says is so when nothing was written to its paths      *)
(* meanwhile (sandbox.ts:414-531).                                                *)
THEOREM AnswersAreTrue == ReadsSpec => []AnswerIsTrue
  <1>1. ReadInv => AnswerIsTrue
    BY DEF ReadInv
  <1> QED
    BY <1>1, ReadsInvariant, PTL

(* A bounded read takes no more bytes and no more time than its caller allowed    *)
(* (channel.ts:447-515).                                                          *)
THEOREM BudgetIsKept == ReadsSpec => []BudgetKept
  <1>1. ReadInv => BudgetKept
    BY DEF ReadInv, BudgetInv, BudgetKept
  <1> QED
    BY <1>1, ReadsInvariant, PTL

(* The client gives a read up no sooner than it has to: past the agent's own      *)
(* deadline (channel.ts:666-697).                                                 *)
THEOREM GivingUpIsLate == ReadsSpec => []GivesUpLate
  <1>1. ReadInv => GivesUpLate
    BY DEF ReadInv
  <1> QED
    BY <1>1, ReadsInvariant, PTL

=============================================================================
