------------------------------- MODULE Armada -------------------------------
(***************************************************************************)
(* The outside world of the adapter, as src/src/armada.ts uses it: the      *)
(* Armada server that accepts, deduplicates and cancels jobs, the executor  *)
(* that runs a job's pod and reports its events, and Lookout, whose         *)
(* database an ingester fills behind the server's back.  None of this is    *)
(* code of the repository: what is modelled is what the requests of         *)
(* ArmadaClient rely on.                                                    *)
(*                                                                          *)
(* A job is an index into `jobs'.  Armada's job ids are ULIDs, so the       *)
(* greater index is the newer job.  Its record holds                        *)
(*   sandbox  the jobSetId, clientId and externalJobUri, all one id         *)
(*   queue    the queue it was submitted to                                 *)
(*   live     not yet succeeded, failed, preempted, cancelled or rejected   *)
(*   events   the furthest event the job set's stream holds for the job     *)
(*   addr     the address its agent is reached at, 0 until it is reported   *)
(*   index    what Lookout's database says of the job                       *)
(***************************************************************************)
EXTENDS Naturals, Sequences

CONSTANTS
  Sandbox,       \* sandbox ids
  Queue,         \* Armada queues
  AddressReused, \* NodePort: the address of a pod that is gone may be given out again
  LookoutLags    \* whether Lookout's database can be behind the server

ASSUME ArmadaAssumption ==
  /\ AddressReused \in BOOLEAN
  /\ LookoutLags \in BOOLEAN

VARIABLE jobs

Events == {"submitted", "running", "addressed"}

JobRecord == [sandbox: Sandbox, queue: Queue, live: BOOLEAN, events: Events,
              addr: Nat, index: {"absent", "live", "done"}]

ArmadaTypeOK == jobs \in Seq(JobRecord)

ArmadaInit == jobs = << >>

Job == DOMAIN jobs

(* The jobs of a sandbox that still hold, or are about to hold, a kernel. *)
LiveJobs(s) == {j \in Job : jobs[j].sandbox = s /\ jobs[j].live}

(* The job of a client id: Armada keys it by queue.  At most one by SubmitJob. *)
InSet(s, q) == {j \in Job : jobs[j].sandbox = s /\ jobs[j].queue = q}

(* A Lookout that does not lag says of every job what the server does. *)
Settled(job) ==
  IF LookoutLags THEN job
  ELSE [job EXCEPT !.index = IF job.live THEN "live" ELSE "done"]

Newest(S) == CHOOSE j \in S : \A k \in S : k <= j

-----------------------------------------------------------------------------
(* Requests.  `SubmitJob' returns the original job when the client id is     *)
(* already known in the queue, finished or not; the caller reads the job id  *)
(* off jobs'.                                                                *)

SubmitJob(s, q) ==
  jobs' = IF InSet(s, q) = {}
          THEN Append(jobs, Settled([sandbox |-> s, queue |-> q, live |-> TRUE,
                                     events |-> "submitted", addr |-> 0,
                                     index |-> "absent"]))
          ELSE jobs

(* A cancel, of one job or of a whole job set; of none it is a no-op. *)
CancelJobs(S) ==
  jobs' = [j \in Job |-> IF j \in S
                         THEN Settled([jobs[j] EXCEPT !.live = FALSE])
                         ELSE jobs[j]]

(* Lookout by job set, newest first, whatever its state; {} when unknown. *)
LookoutSet(s) == {j \in Job : jobs[j].sandbox = s /\ jobs[j].index # "absent"}

(* Lookout's active jobs of one sandbox. *)
LookoutActive(s) == {j \in Job : jobs[j].sandbox = s /\ jobs[j].index = "live"}

(* Does an agent answer at this address?  /healthz asks for no token, so any *)
(* pod that holds the address answers.                                       *)
Answers(a) ==
  \E j \in Job : jobs[j].live /\ jobs[j].events = "addressed" /\ jobs[j].addr = a

-----------------------------------------------------------------------------
(* The executor and the ingester, on their own. *)

PodStarts(j) ==
  /\ jobs[j].live /\ jobs[j].events = "submitted"
  /\ jobs' = [jobs EXCEPT ![j].events = "running"]

(* An Ingress gives every job a host of its own; a NodePort comes from a pool. *)
FreeAddress(j) ==
  IF AddressReused THEN {a \in Job : ~Answers(a)} ELSE {j}

PodAddressed(j) ==
  /\ jobs[j].live /\ jobs[j].events = "running"
  /\ \E a \in FreeAddress(j) :
       jobs' = [jobs EXCEPT ![j] = [@ EXCEPT !.events = "addressed", !.addr = a]]

(* The pod failed, was preempted or reached its deadline. *)
JobEnds(j) ==
  /\ jobs[j].live
  /\ CancelJobs({j})

Ingest(j) ==
  /\ jobs[j].index # (IF jobs[j].live THEN "live" ELSE "done")
  /\ jobs' = [jobs EXCEPT ![j].index = IF jobs[j].live THEN "live" ELSE "done"]

ArmadaNext ==
  \E j \in Job : PodStarts(j) \/ PodAddressed(j) \/ JobEnds(j) \/ Ingest(j)
=============================================================================
