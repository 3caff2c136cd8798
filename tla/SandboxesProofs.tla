-------------------------- MODULE SandboxesProofs ---------------------------
(* Proofs about Sandboxes, for every value of its constants. *)
EXTENDS Sandboxes, WellFoundedInduction, TLAPS

(* A non-empty set of jobs has a newest one: what FindQueue, findJob and       *)
(* listActive choose exists.                                                   *)
LEMMA NewestInSet ==
  ASSUME NEW n \in Nat, NEW S \in SUBSET (1..n), S # {}
  PROVE  Newest(S) \in S /\ \A k \in S : k <= Newest(S)
<1> DEFINE T == {n - j : j \in S}
<1>1. T \subseteq Nat /\ T # {}
  <2>1. \A j \in S : n - j \in Nat
    OBVIOUS
  <2>2. T \subseteq Nat
    BY <2>1
  <2>3. PICK j \in S : TRUE
    OBVIOUS
  <2>4. n - j \in T
    OBVIOUS
  <2> QED BY <2>2, <2>4
<1>2. PICK x \in T : \A y \in T : ~(<<y, x>> \in OpToRel(<, Nat))
  <2> HIDE DEF T
  <2> QED BY <1>1, NatLessThanWellFounded, WFMin
<1>3. \A y \in T : ~(y < x)
  BY <1>1, <1>2 DEF OpToRel
<1>4. PICK j \in S : x = n - j
  OBVIOUS
<1>5. ASSUME NEW k \in S PROVE k <= j
  <2>1. n - k \in T
    OBVIOUS
  <2>2. ~(n - k < n - j)
    BY <1>3, <1>4, <2>1
  <2> QED BY <2>2
<1>6. \E m \in S : \A k \in S : k <= m
  BY <1>5
<1> QED
  BY <1>6, Zenon DEF Newest

-----------------------------------------------------------------------------
(* Types of the operators the actions are built from. *)

USE ArmadaAssumption, DirectoryAssumption, SandboxesAssumption

LEMMA SettledType ==
  ASSUME NEW job \in JobRecord
  PROVE  /\ Settled(job) \in JobRecord
         /\ Settled(job).sandbox = job.sandbox
         /\ Settled(job).queue = job.queue
         /\ Settled(job).live = job.live
         /\ Settled(job).events = job.events
         /\ Settled(job).addr = job.addr
  BY DEF Settled, JobRecord

LEMMA QueueTypes ==
  ASSUME TypeOK, NEW s \in Sandbox
  PROVE  /\ KnownQueue(s) \in Queue \cup {NoQueue}
         /\ \A owned \in BOOLEAN, found \in Queue \cup {NoQueue} :
              PlacedQueue(s, owned, found) \in Queue
  BY DEF TypeOK, DirectoryTypeOK, KnownQueue, PlacedQueue, ForOwner, QueueMap

LEMMA NewestType ==
  ASSUME TypeOK, NEW S \in SUBSET Job, S # {}
  PROVE  Newest(S) \in S /\ jobs[Newest(S)] \in JobRecord
<1>1. Len(jobs) \in Nat /\ Job = 1..Len(jobs)
  BY DEF TypeOK, ArmadaTypeOK, Job
<1>2. Newest(S) \in S
  BY <1>1, NewestInSet
<1> QED
  BY <1>1, <1>2 DEF TypeOK, ArmadaTypeOK, Job

LEMMA FindQueueType ==
  ASSUME TypeOK, NEW s \in Sandbox
  PROVE  /\ FindQueue(s) \in Queue \cup {NoQueue}
         /\ LookoutActive(s) # {} => jobs[Newest(LookoutActive(s))].queue \in Queue
<1>1. LookoutSet(s) \in SUBSET Job /\ LookoutActive(s) \in SUBSET Job
  BY DEF LookoutSet, LookoutActive
<1>2. LookoutSet(s) # {} => jobs[Newest(LookoutSet(s))] \in JobRecord
  BY <1>1, NewestType
<1>3. LookoutActive(s) # {} => jobs[Newest(LookoutActive(s))] \in JobRecord
  BY <1>1, NewestType
<1> QED
  BY <1>2, <1>3 DEF FindQueue, JobRecord

(* A request that names a queue names a real one: the part that makes TypeOK   *)
(* inductive, since a submit stores its queue in the job.                      *)
HasQueue(call) == call.pc \in {"submit", "find", "cancelSet"} => call.queue \in Queue

TypeInv == TypeOK /\ \A c \in Calls : HasQueue(calls[c])

(* Every job id the process holds, in an instance, a placement or a call, is   *)
(* a job of that sandbox; a call waiting on its pod has a job to ask about;    *)
(* and a destroy owes only jobs of its sandbox.                                *)
JobOf(js, j, s) == j \in DOMAIN js /\ js[j].sandbox = s

InstKnown(js, inst) == inst.job # 0 => JobOf(js, inst.job, inst.sandbox)

PlaceKnown(js, place, s) == place # NoPlacement => JobOf(js, place.job, s)

CallKnown(js, call, inst) ==
  /\ call.pc \in {"health", "returned", "watch", "address", "agent", "cancel"} =>
       JobOf(js, call.job, inst.sandbox)
  /\ call.pc \in {"watch", "address", "agent"} => inst.job # 0
  /\ call.pc # "idle" => \A j \in call.owed : JobOf(js, j, inst.sandbox)

JobsKnown ==
  /\ \A i \in Instances : InstKnown(jobs, instances[i])
  /\ \A s \in Sandbox : PlaceKnown(jobs, placements[s], s)
  /\ \A c \in Calls : CallKnown(jobs, calls[c], instances[calls[c].inst])
  /\ \A c \in Caller : calls[c].pc # "idle" => calls[c].inst \in Instance

LEMMA CallTypes ==
  ASSUME TypeOK, NEW call \in CallRecord, NEW inst \in InstanceRecord
  PROVE  /\ QueueUser(call.op, inst) \in {"cancelSet", "find", "submit"}
         /\ Resolving(call, inst) \in CallRecord
         /\ HasQueue(Resolving(call, inst))
         /\ Obtaining(call, inst) \in CallRecord
         /\ HasQueue(Obtaining(call, inst))
<1>1. QueueUser(call.op, inst) \in {"cancelSet", "find", "submit"}
  BY DEF QueueUser
<1>2. KnownQueue(inst.sandbox) \in Queue \cup {NoQueue}
  BY QueueTypes DEF InstanceRecord
<1>3. Resolving(call, inst) \in CallRecord /\ HasQueue(Resolving(call, inst))
  BY <1>1, <1>2 DEF Resolving, CallRecord, PC, HasQueue
<1>4. Obtaining(call, inst) \in CallRecord /\ HasQueue(Obtaining(call, inst))
  BY <1>3 DEF Obtaining, CallRecord, PC, InstanceRecord, HasQueue
<1> QED
  BY <1>1, <1>3, <1>4

LEMMA IdleType == Idle \in CallRecord /\ HasQueue(Idle)
  BY DEF Idle, CallRecord, PC, Instances, HasQueue

LEMMA FreshType ==
  /\ \A s \in Sandbox, kind \in [attachOnly: BOOLEAN, owned: BOOLEAN] :
       Fresh(s, kind) \in InstanceRecord
  /\ Unused \in InstanceRecord
  /\ \A s \in Sandbox : Fresh(s, ById) \in InstanceRecord
<1>1. \A s \in Sandbox, kind \in [attachOnly: BOOLEAN, owned: BOOLEAN] :
        Fresh(s, kind) \in InstanceRecord
  BY DEF Fresh, InstanceRecord
<1>2. ById \in [attachOnly: BOOLEAN, owned: BOOLEAN]
  BY DEF ById
<1>3. (CHOOSE s \in Sandbox : TRUE) \in Sandbox
  OBVIOUS
<1> QED
  BY <1>1, <1>2, <1>3 DEF Unused

-----------------------------------------------------------------------------
(* What any step may do to the jobs there are: a job keeps its sandbox and     *)
(* queue, never comes back to life, and keeps the address it has reported.     *)
Evolves ==
  /\ jobs' \in Seq(JobRecord)
  /\ Len(jobs) <= Len(jobs')
  /\ \A j \in Job :
       /\ jobs'[j].sandbox = jobs[j].sandbox
       /\ jobs'[j].queue = jobs[j].queue
       /\ jobs'[j].live => jobs[j].live
       /\ jobs[j].events = "addressed" =>
            jobs'[j].events = "addressed" /\ jobs'[j].addr = jobs[j].addr

LEMMA JobDomain ==
  ASSUME TypeOK
  PROVE  /\ jobs \in Seq(JobRecord)
         /\ Len(jobs) \in Nat
         /\ Job = 1..Len(jobs)
         /\ \A j \in Job : jobs[j] \in JobRecord
  BY DEF TypeOK, ArmadaTypeOK, Job

LEMMA SameEvolves ==
  ASSUME TypeOK, UNCHANGED jobs
  PROVE  Evolves
  BY JobDomain DEF Evolves

LEMMA CancelEvolves ==
  ASSUME TypeOK, NEW S, CancelJobs(S)
  PROVE  /\ Evolves
         /\ Len(jobs') = Len(jobs)
         /\ \A j \in Job \cap S : ~jobs'[j].live
         /\ \A j \in Job \ S : jobs'[j] = jobs[j]
<1> DEFINE f(j) == IF j \in S THEN Settled([jobs[j] EXCEPT !.live = FALSE]) ELSE jobs[j]
<1>1. jobs' = [j \in 1..Len(jobs) |-> f(j)]
  BY JobDomain DEF CancelJobs
<1>2. ASSUME NEW j \in Job
      PROVE  /\ f(j) \in JobRecord
             /\ f(j).sandbox = jobs[j].sandbox /\ f(j).queue = jobs[j].queue
             /\ f(j).events = jobs[j].events /\ f(j).addr = jobs[j].addr
             /\ f(j).live => jobs[j].live
             /\ j \in S => ~f(j).live
             /\ j \notin S => f(j) = jobs[j]
  <2>1. jobs[j] \in JobRecord
    BY JobDomain
  <2> DEFINE over == [jobs[j] EXCEPT !.live = FALSE]
  <2>2. /\ over \in JobRecord
        /\ over.sandbox = jobs[j].sandbox /\ over.queue = jobs[j].queue
        /\ over.events = jobs[j].events /\ over.addr = jobs[j].addr
        /\ over.live = FALSE
    BY <2>1 DEF JobRecord
  <2> HIDE DEF over
  <2>3. /\ Settled(over) \in JobRecord
        /\ Settled(over).sandbox = jobs[j].sandbox /\ Settled(over).queue = jobs[j].queue
        /\ Settled(over).events = jobs[j].events /\ Settled(over).addr = jobs[j].addr
        /\ ~Settled(over).live
    BY <2>2, SettledType
  <2>4. CASE j \in S
    BY <2>3, <2>4 DEF over
  <2>5. CASE j \notin S
    BY <2>1, <2>5
  <2> QED BY <2>4, <2>5
<1> HIDE DEF f
<1>3. jobs' \in Seq(JobRecord) /\ Len(jobs') = Len(jobs)
  BY <1>1, <1>2, JobDomain
<1>4. \A j \in Job : jobs'[j] = f(j)
  BY <1>1, JobDomain
<1>5. Evolves
  BY <1>2, <1>3, <1>4, JobDomain DEF Evolves
<1> QED
  BY <1>2, <1>3, <1>4, <1>5

(* A submit adds one live job, and only to a job set that is empty. *)
LEMMA SubmitEvolves ==
  ASSUME TypeOK, NEW s \in Sandbox, NEW q \in Queue, SubmitJob(s, q)
  PROVE  /\ Evolves
         /\ \/ /\ InSet(s, q) = {}
               /\ Len(jobs') = Len(jobs) + 1
               /\ \A j \in Job : jobs'[j] = jobs[j]
               /\ jobs'[Len(jobs) + 1].sandbox = s
               /\ jobs'[Len(jobs) + 1].queue = q
               /\ jobs'[Len(jobs) + 1].live
            \/ jobs' = jobs
<1> DEFINE plain == [sandbox |-> s, queue |-> q, live |-> TRUE, events |-> "submitted",
                     addr |-> 0, index |-> "absent"]
           new == Settled(plain)
<1>1. plain \in JobRecord /\ plain.sandbox = s /\ plain.queue = q /\ plain.live = TRUE
  BY DEF JobRecord, Events
<1> HIDE DEF plain
<1>2. new \in JobRecord /\ new.sandbox = s /\ new.queue = q /\ new.live
  BY <1>1, SettledType
<1>3. CASE InSet(s, q) = {}
  <2>1. jobs' = Append(jobs, new)
    BY <1>3 DEF SubmitJob, plain
  <2> HIDE DEF new
  <2>2. /\ jobs' \in Seq(JobRecord) /\ Len(jobs') = Len(jobs) + 1
        /\ \A j \in Job : jobs'[j] = jobs[j]
        /\ jobs'[Len(jobs) + 1] = new
    BY <1>2, <2>1, JobDomain
  <2> QED
    BY <1>2, <1>3, <2>2, JobDomain DEF Evolves
<1>4. CASE InSet(s, q) # {}
  BY <1>4, SameEvolves DEF SubmitJob
<1> QED
  BY <1>3, <1>4

LEMMA ChangeEvolves ==
  ASSUME TypeOK, NEW j \in Job, NEW job \in JobRecord,
         jobs' = [jobs EXCEPT ![j] = job],
         job.sandbox = jobs[j].sandbox, job.queue = jobs[j].queue,
         job.live => jobs[j].live,
         jobs[j].events = "addressed" => job.events = "addressed" /\ job.addr = jobs[j].addr
  PROVE  Evolves /\ Len(jobs') = Len(jobs)
<1>1. jobs' \in Seq(JobRecord) /\ Len(jobs') = Len(jobs)
  BY JobDomain
<1>2. \A k \in Job : jobs'[k] = IF k = j THEN job ELSE jobs[k]
  BY JobDomain
<1> QED
  BY <1>1, <1>2, JobDomain DEF Evolves

LEMMA WorldEvolves ==
  ASSUME TypeOK, ArmadaNext
  PROVE  Evolves /\ Len(jobs') = Len(jobs)
<1>1. PICK j \in Job : PodStarts(j) \/ PodAddressed(j) \/ JobEnds(j) \/ Ingest(j)
  BY DEF ArmadaNext
<1>2. jobs[j] \in JobRecord /\ j \in Nat
  BY JobDomain
<1>3. CASE PodStarts(j)
  <2> DEFINE job == [jobs[j] EXCEPT !.events = "running"]
  <2>1. jobs' = [jobs EXCEPT ![j] = job] /\ jobs[j].events = "submitted"
    BY <1>3 DEF PodStarts
  <2>2. job \in JobRecord /\ job.sandbox = jobs[j].sandbox /\ job.queue = jobs[j].queue
          /\ job.live = jobs[j].live
    BY <1>2 DEF JobRecord, Events
  <2> HIDE DEF job
  <2> QED BY <2>1, <2>2, ChangeEvolves
<1>4. CASE PodAddressed(j)
  <2>1. PICK a \in FreeAddress(j) :
          jobs' = [jobs EXCEPT ![j] = [@ EXCEPT !.events = "addressed", !.addr = a]]
    BY <1>4 DEF PodAddressed
  <2>2. a \in Nat
    BY <1>2, JobDomain DEF FreeAddress
  <2> DEFINE job == [jobs[j] EXCEPT !.events = "addressed", !.addr = a]
  <2>3. jobs' = [jobs EXCEPT ![j] = job] /\ jobs[j].events = "running"
    BY <1>4, <2>1 DEF PodAddressed
  <2>4. job \in JobRecord /\ job.sandbox = jobs[j].sandbox /\ job.queue = jobs[j].queue
          /\ job.live = jobs[j].live
    BY <1>2, <2>2 DEF JobRecord, Events
  <2> HIDE DEF job
  <2> QED BY <2>3, <2>4, ChangeEvolves
<1>5. CASE JobEnds(j)
  BY <1>5, CancelEvolves DEF JobEnds
<1>6. CASE Ingest(j)
  <2> DEFINE job == [jobs[j] EXCEPT !.index = IF jobs[j].live THEN "live" ELSE "done"]
  <2>1. jobs' = [jobs EXCEPT ![j] = job]
    BY <1>6 DEF Ingest
  <2>2. job \in JobRecord /\ job.sandbox = jobs[j].sandbox /\ job.queue = jobs[j].queue
          /\ job.live = jobs[j].live /\ job.events = jobs[j].events /\ job.addr = jobs[j].addr
    BY <1>2 DEF JobRecord
  <2> HIDE DEF job
  <2> QED BY <2>1, <2>2, ChangeEvolves
<1> QED
  BY <1>1, <1>3, <1>4, <1>5, <1>6

-----------------------------------------------------------------------------
(* Type correctness. *)

LEMMA SetType ==
  ASSUME TypeInv, NEW c \in Calls, NEW call \in CallRecord, HasQueue(call), Set(c, call)
  PROVE  calls' \in [Calls -> CallRecord] /\ \A d \in Calls : HasQueue(calls'[d])
<1>1. calls \in [Calls -> CallRecord]
  BY DEF TypeInv, TypeOK
<1>2. calls' = [calls EXCEPT ![c] = call]
  BY DEF Set
<1>3. \A d \in Calls : calls'[d] = IF d = c THEN call ELSE calls[d]
  BY <1>1, <1>2
<1> QED
  BY <1>1, <1>2, <1>3 DEF TypeInv

LEMMA CallInProgress ==
  ASSUME TypeInv, NEW c \in Calls
  PROVE  /\ calls[c] \in CallRecord /\ HasQueue(calls[c])
         /\ calls[c].inst \in Instances
         /\ InstOf(c) \in InstanceRecord
         /\ SandboxOf(c) \in Sandbox
<1>1. calls[c] \in CallRecord /\ HasQueue(calls[c])
  BY DEF TypeInv, TypeOK
<1>2. calls[c].inst \in Instances
  BY <1>1 DEF CallRecord
<1>3. InstOf(c) \in InstanceRecord
  BY <1>2 DEF TypeInv, TypeOK, InstOf
<1> QED
  BY <1>1, <1>2, <1>3 DEF SandboxOf, InstanceRecord

(* What a call given up leaves on its way is a submit to a real queue. *)
LEMMA GiveUpType ==
  ASSUME TypeInv, NEW C \in SUBSET Calls, GiveUp(C)
  PROVE  /\ late' \in SUBSET (Sandbox \X Queue)
         /\ \A r \in late' : r \in late \/
              \E c \in C : calls[c].pc = "submit" /\ r = <<SandboxOf(c), calls[c].queue>>
<1>1. \A r \in Awaited(C) :
        \E c \in C : calls[c].pc = "submit" /\ r = <<SandboxOf(c), calls[c].queue>>
  BY DEF Awaited
<1>2. Awaited(C) \subseteq Sandbox \X Queue
  BY <1>1, CallInProgress DEF HasQueue
<1>3. late \in SUBSET (Sandbox \X Queue)
  BY DEF TypeInv, TypeOK
<1> QED
  BY <1>1, <1>2, <1>3 DEF GiveUp

LEMMA TypeInit == Init => TypeInv
<1> SUFFICES ASSUME Init PROVE TypeInv
  OBVIOUS
<1>1. ArmadaTypeOK
  BY DEF Init, ArmadaInit, ArmadaTypeOK
<1>2. DirectoryTypeOK
  BY DEF Init, DirectoryInit, DirectoryTypeOK
<1>3. instances \in [Instances -> InstanceRecord]
  BY FreshType DEF Init
<1>4. calls \in [Calls -> CallRecord] /\ \A c \in Calls : HasQueue(calls[c])
  BY IdleType DEF Init
<1>5. placements \in [Sandbox -> [job: Nat, channel: Nat]]
  BY DEF Init, NoPlacement
<1>6. sweep \in SweepRecord
  BY DEF Init, Resting, SweepRecord
<1>7. late \in SUBSET (Sandbox \X Queue) /\ released \in SUBSET Sandbox
        /\ restarts \in 0..MaxRestarts
  BY DEF Init
<1> QED
  BY <1>1, <1>2, <1>3, <1>4, <1>5, <1>6, <1>7 DEF TypeInv, TypeOK

(* The steps of a call in progress. *)
LEMMA TypeStep ==
  ASSUME TypeInv, JobsKnown, NEW c \in Calls, Step(c)
  PROVE  TypeInv'
<1> USE CallInProgress
<1> DEFINE call == calls[c]
           CallsOK == calls' \in [Calls -> CallRecord] /\ \A d \in Calls : HasQueue(calls'[d])
           InstancesOK == instances' \in [Instances -> InstanceRecord]
<1>t. /\ TypeOK /\ DirectoryTypeOK /\ ArmadaTypeOK
      /\ call \in CallRecord /\ call.job \in Nat /\ call.channel \in Nat
      /\ placements \in [Sandbox -> [job: Nat, channel: Nat]]
      /\ instances \in [Instances -> InstanceRecord]
      /\ remembered \in [Sandbox -> Queue \cup {NoQueue}]
      /\ calls \in [Calls -> CallRecord]
  BY DEF TypeInv, TypeOK, DirectoryTypeOK, CallRecord
<1>r. Return(c) => CallsOK
  BY IdleType, SetType DEF Return
<1> HIDE DEF CallsOK
<1>1. CASE HealthOk(c)
  <2>1. CallsOK
    BY <1>1, <1>r DEF HealthOk
  <2>2. InstancesOK
    <3> DEFINE inst == [InstOf(c) EXCEPT !.job = call.job, !.channel = call.channel]
    <3>1. inst \in InstanceRecord
      BY <1>t DEF InstanceRecord
    <3>2. instances' = [instances EXCEPT ![call.inst] = inst]
      BY <1>1 DEF HealthOk, InstOf
    <3> HIDE DEF inst
    <3> QED BY <1>t, <3>1, <3>2
  <2> QED
    BY <1>1, <2>1, <2>2 DEF HealthOk, TypeInv, TypeOK, ArmadaTypeOK, DirectoryTypeOK, CallsOK
<1>2. CASE HealthGone(c)
  <2>1. CallsOK
    BY <1>2, <1>t, CallTypes, SetType DEF HealthGone, CallsOK
  <2>2. placements' \in [Sandbox -> [job: Nat, channel: Nat]]
    BY <1>2, <1>t DEF HealthGone, NoPlacement
  <2> QED
    BY <1>2, <2>1, <2>2 DEF HealthGone, TypeInv, TypeOK, ArmadaTypeOK, DirectoryTypeOK, CallsOK
<1>3. CASE LookupAnswer(c)
  <2> DEFINE next == [call EXCEPT !.pc = "located", !.queue = FindQueue(SandboxOf(c))]
  <2>1. next \in CallRecord /\ HasQueue(next)
    BY <1>t, FindQueueType DEF CallRecord, PC, HasQueue
  <2>2. Set(c, next)
    BY <1>3 DEF LookupAnswer
  <2> HIDE DEF next
  <2>3. CallsOK
    BY <2>1, <2>2, SetType DEF CallsOK
  <2> QED
    BY <1>3, <2>3 DEF LookupAnswer, TypeInv, TypeOK, ArmadaTypeOK, DirectoryTypeOK, CallsOK
<1>4. CASE Locate(c)
  <2> DEFINE queue == PlacedQueue(SandboxOf(c), InstOf(c).owned, call.queue)
             next == [call EXCEPT !.pc = QueueUser(call.op, InstOf(c)), !.queue = queue]
  <2>1. queue \in Queue
    BY <1>t, QueueTypes DEF InstanceRecord, CallRecord
  <2>2. QueueUser(call.op, InstOf(c)) \in {"cancelSet", "find", "submit"}
    BY <1>t, CallTypes
  <2>3. Set(c, next) /\ Remember(SandboxOf(c), queue)
    BY <1>4 DEF Locate
  <2> HIDE DEF queue
  <2>4. next \in CallRecord /\ HasQueue(next)
    BY <1>t, <2>1, <2>2 DEF CallRecord, PC, HasQueue
  <2> HIDE DEF next
  <2>5. CallsOK
    BY <2>3, <2>4, SetType DEF CallsOK
  <2>6. remembered' \in [Sandbox -> Queue \cup {NoQueue}]
    BY <1>t, <2>1, <2>3 DEF Remember
  <2> QED
    BY <1>4, <2>5, <2>6 DEF Locate, TypeInv, TypeOK, ArmadaTypeOK, DirectoryTypeOK, CallsOK
<1>5. CASE SubmitAccept(c)
  <2>1. call.queue \in Queue
    BY <1>5 DEF SubmitAccept, HasQueue
  <2>2. Evolves
    BY <1>5, <1>t, <2>1, SubmitEvolves DEF SubmitAccept
  <2>3. PICK j \in DOMAIN jobs' : Set(c, [call EXCEPT !.pc = "returned", !.job = j])
    BY <1>5 DEF SubmitAccept
  <2>4. j \in Nat
    BY <2>2 DEF Evolves
  <2> DEFINE next == [call EXCEPT !.pc = "returned", !.job = j]
  <2>5. next \in CallRecord /\ HasQueue(next)
    BY <1>t, <2>4 DEF CallRecord, PC, HasQueue
  <2> HIDE DEF next
  <2>6. CallsOK
    BY <2>3, <2>5, SetType DEF CallsOK, next
  <2> QED
    BY <1>5, <2>2, <2>6 DEF SubmitAccept, TypeInv, TypeOK, ArmadaTypeOK, DirectoryTypeOK, CallsOK, Evolves
<1>6. CASE FindAnswer(c)
  <2> DEFINE found == FindJob(SandboxOf(c), call.queue)
             next == [call EXCEPT !.pc = "returned", !.job = Newest(found)]
  <2>1. CASE found = {}
    BY <1>6, <2>1, <1>r DEF FindAnswer, TypeInv, TypeOK, ArmadaTypeOK, DirectoryTypeOK, CallsOK
  <2>2. CASE found # {}
    <3>1. found \in SUBSET Job
      BY DEF FindJob, InSet
    <3>3. Set(c, next)
      BY <1>6, <2>2 DEF FindAnswer
    <3> HIDE DEF found
    <3>2. Newest(found) \in Nat
      <4>1. Newest(found) \in Job
        BY <1>t, <2>2, <3>1, NewestType
      <4> QED BY <4>1, <1>t, JobDomain
    <3>4. next \in CallRecord /\ HasQueue(next)
      BY <1>t, <3>2 DEF CallRecord, PC, HasQueue
    <3> HIDE DEF next
    <3>5. CallsOK
      BY <3>3, <3>4, SetType DEF CallsOK
    <3> QED
      BY <1>6, <3>5 DEF FindAnswer, TypeInv, TypeOK, ArmadaTypeOK, DirectoryTypeOK, CallsOK
  <2> QED BY <2>1, <2>2
<1>7. CASE JobReturn(c)
  <2> DEFINE inst == [InstOf(c) EXCEPT !.job = call.job]
             next == [call EXCEPT !.pc = "watch"]
  <2>1. inst \in InstanceRecord
    BY <1>t DEF InstanceRecord
  <2>2. next \in CallRecord /\ HasQueue(next)
    BY <1>t DEF CallRecord, PC, HasQueue
  <2>3. Set(c, next) /\ instances' = [instances EXCEPT ![call.inst] = inst]
    BY <1>7 DEF JobReturn, InstOf
  <2> HIDE DEF inst, next
  <2>4. CallsOK /\ InstancesOK
    BY <1>t, <2>1, <2>2, <2>3, SetType DEF CallsOK
  <2> QED
    BY <1>7, <2>4 DEF JobReturn, TypeInv, TypeOK, ArmadaTypeOK, DirectoryTypeOK, CallsOK
<1>8. CASE WatchRunning(c)
  <2> DEFINE next == [call EXCEPT !.pc = "address", !.job = InstOf(c).job]
  <2>1. next \in CallRecord /\ HasQueue(next)
    BY <1>t DEF CallRecord, PC, HasQueue, InstanceRecord
  <2>2. Set(c, next)
    BY <1>8 DEF WatchRunning
  <2> HIDE DEF next
  <2>3. CallsOK
    BY <2>1, <2>2, SetType DEF CallsOK
  <2> QED
    BY <1>8, <2>3 DEF WatchRunning, TypeInv, TypeOK, ArmadaTypeOK, DirectoryTypeOK, CallsOK
<1>9. CASE AddressKnown(c)
  <2>1. call.job \in Job
    BY <1>9 DEF AddressKnown, JobsKnown, CallKnown, JobOf, Job
  <2>2. jobs[call.job].addr \in Nat
    BY <1>t, <2>1, JobDomain DEF JobRecord
  <2> DEFINE next == [call EXCEPT !.pc = "agent", !.channel = jobs[call.job].addr]
  <2>3. Set(c, next)
    BY <1>9 DEF AddressKnown
  <2>4. next \in CallRecord /\ HasQueue(next)
    BY <1>t, <2>2 DEF CallRecord, PC, HasQueue
  <2> HIDE DEF next
  <2>5. CallsOK
    BY <2>3, <2>4, SetType DEF CallsOK
  <2> QED
    BY <1>9, <2>5 DEF AddressKnown, TypeInv, TypeOK, ArmadaTypeOK, DirectoryTypeOK, CallsOK
<1>10. CASE AgentAnswers(c)
  <2> DEFINE inst == [InstOf(c) EXCEPT !.channel = call.channel]
             place == [job |-> InstOf(c).job, channel |-> call.channel]
  <2>1. inst \in InstanceRecord /\ place \in [job: Nat, channel: Nat]
    BY <1>t DEF InstanceRecord
  <2>2. /\ instances' = [instances EXCEPT ![call.inst] = inst]
        /\ placements' = [placements EXCEPT ![SandboxOf(c)] = place]
    BY <1>10 DEF AgentAnswers, InstOf
  <2> HIDE DEF inst, place
  <2>3. InstancesOK /\ placements' \in [Sandbox -> [job: Nat, channel: Nat]]
    BY <1>t, <2>1, <2>2
  <2>4. CallsOK
    BY <1>10, <1>r DEF AgentAnswers
  <2> QED
    BY <1>10, <2>3, <2>4 DEF AgentAnswers, TypeInv, TypeOK, ArmadaTypeOK, DirectoryTypeOK, CallsOK
<1>11. CASE CancelAccept(c)
  <2> DEFINE next == [call EXCEPT !.pc = "cancelled"]
  <2>1. Evolves
    BY <1>11, <1>t, CancelEvolves DEF CancelAccept
  <2>2. Set(c, next)
    BY <1>11 DEF CancelAccept
  <2>3. next \in CallRecord /\ HasQueue(next)
    BY <1>t DEF CallRecord, PC, HasQueue
  <2> HIDE DEF next
  <2>4. CallsOK
    BY <2>2, <2>3, SetType DEF CallsOK
  <2> QED
    BY <1>11, <2>1, <2>4 DEF CancelAccept, TypeInv, TypeOK, ArmadaTypeOK, DirectoryTypeOK, CallsOK, Evolves
<1>12. CASE DestroyReturn(c)
  <2> DEFINE inst == [InstOf(c) EXCEPT !.channel = 0]
  <2>1. inst \in InstanceRecord
    BY <1>t DEF InstanceRecord
  <2>2. instances' = [instances EXCEPT ![call.inst] = inst]
    BY <1>12 DEF DestroyReturn, InstOf
  <2> HIDE DEF inst
  <2>3. InstancesOK
    BY <1>t, <2>1, <2>2
  <2>4. CallsOK
    BY <1>12, <1>r DEF DestroyReturn
  <2>5. /\ remembered' \in [Sandbox -> Queue \cup {NoQueue}]
        /\ placements' \in [Sandbox -> [job: Nat, channel: Nat]]
        /\ released' \in SUBSET Sandbox
    BY <1>t, <1>12 DEF DestroyReturn, Forget, NoPlacement, TypeOK
  <2> QED
    BY <1>12, <2>3, <2>4, <2>5 DEF DestroyReturn, TypeInv, TypeOK, ArmadaTypeOK, DirectoryTypeOK, CallsOK
<1>13. CASE Throw(c)
  <2>1. late' \in SUBSET (Sandbox \X Queue)
    BY <1>13, GiveUpType DEF Throw
  <2> QED
    BY <1>13, <1>r, <2>1 DEF Throw, TypeInv, TypeOK, ArmadaTypeOK, DirectoryTypeOK, CallsOK
<1> QED
  BY <1>1, <1>2, <1>3, <1>4, <1>5, <1>6, <1>7, <1>8, <1>9, <1>10, <1>11, <1>12, <1>13 DEF Step

(* A destroy as it begins, from an instance. *)
LEMMA DestroyingType ==
  ASSUME TypeInv, NEW i \in Instances
  PROVE  Destroying(i) \in CallRecord /\ HasQueue(Destroying(i))
<1> DEFINE inst == instances[i]
           call == [Idle EXCEPT !.op = "destroy", !.inst = i, !.owed = LiveJobs(inst.sandbox)]
<1>1. inst \in InstanceRecord /\ inst.job \in Nat
  BY DEF TypeInv, TypeOK, InstanceRecord
<1>2. LiveJobs(inst.sandbox) \in SUBSET Nat
  BY JobDomain DEF TypeInv, LiveJobs
<1>3. call \in CallRecord
  BY <1>2, IdleType DEF CallRecord
<1>4. CASE inst.job = 0
  <2>1. Destroying(i) = Resolving(call, inst)
    BY <1>4 DEF Destroying
  <2> HIDE DEF call
  <2> QED BY <1>1, <1>3, <2>1, CallTypes DEF TypeInv
<1>5. CASE inst.job # 0
  <2>1. Destroying(i) = [call EXCEPT !.pc = "cancel", !.job = inst.job]
    BY <1>5 DEF Destroying
  <2> HIDE DEF call
  <2> QED BY <1>1, <1>3, <2>1 DEF CallRecord, PC, HasQueue
<1> QED
  BY <1>4, <1>5

LEMMA TypeNext ==
  ASSUME TypeInv, JobsKnown, [Next]_vars
  PROVE  TypeInv'
<1> DEFINE CallsOK == calls' \in [Calls -> CallRecord] /\ \A d \in Calls : HasQueue(calls'[d])
<1>t. /\ TypeOK /\ DirectoryTypeOK /\ ArmadaTypeOK
      /\ placements \in [Sandbox -> [job: Nat, channel: Nat]]
      /\ instances \in [Instances -> InstanceRecord]
      /\ remembered \in [Sandbox -> Queue \cup {NoQueue}]
      /\ calls \in [Calls -> CallRecord]
      /\ sweep \in SweepRecord /\ released \in SUBSET Sandbox
  BY DEF TypeInv, TypeOK, DirectoryTypeOK
<1>s. Caller \subseteq Calls /\ Instance \subseteq Instances
        /\ Reconciler \in Calls /\ Reconciler \in Instances
  BY DEF Calls, Instances
<1>1. ASSUME NEW i \in Instance, NEW s \in Sandbox, NEW kind \in Kinds, Create(i, s, kind)
      PROVE  TypeInv'
  <2>1. Fresh(s, kind) \in InstanceRecord
    BY FreshType
  <2>2. instances' \in [Instances -> InstanceRecord]
    BY <1>1, <1>t, <1>s, <2>1 DEF Create
  <2> QED
    BY <1>1, <2>2 DEF Create, TypeInv, TypeOK, ArmadaTypeOK, DirectoryTypeOK
<1>2. ASSUME NEW c \in Caller, NEW i \in Instance, Ready(c, i)
      PROVE  TypeInv'
  <2> DEFINE inst == instances[i]
             known == placements[inst.sandbox]
             call == [Idle EXCEPT !.inst = i]
             health == [call EXCEPT !.pc = "health", !.job = known.job, !.channel = known.channel]
             next == IF known # NoPlacement THEN health ELSE Obtaining(call, inst)
  <2>1. inst \in InstanceRecord /\ inst.sandbox \in Sandbox
    BY <1>t, <1>s DEF InstanceRecord
  <2>2. call \in CallRecord
    BY <1>s, IdleType DEF CallRecord
  <2>3. known.job \in Nat /\ known.channel \in Nat
    BY <1>t, <2>1
  <2>4. Set(c, next)
    BY <1>2 DEF Ready
  <2> HIDE DEF inst, known, call
  <2>5. health \in CallRecord /\ HasQueue(health)
    BY <2>2, <2>3 DEF CallRecord, PC, HasQueue
  <2>6. next \in CallRecord /\ HasQueue(next)
    BY <1>t, <2>1, <2>2, <2>5, CallTypes
  <2> HIDE DEF next
  <2>7. CallsOK
    BY <1>s, <2>4, <2>6, SetType
  <2> QED
    BY <1>2, <2>7 DEF Ready, TypeInv, TypeOK, ArmadaTypeOK, DirectoryTypeOK
<1>3. ASSUME NEW c \in Caller, NEW i \in Instance, Destroy(c, i)
      PROVE  TypeInv'
  <2>1. CallsOK
    BY <1>3, <1>s, DestroyingType, SetType DEF Destroy
  <2> QED
    BY <1>3, <2>1 DEF Destroy, TypeInv, TypeOK, ArmadaTypeOK, DirectoryTypeOK
<1>4. ASSUME NEW c \in Calls, Step(c)
      PROVE  TypeInv'
  BY <1>4, TypeStep
<1>5. CASE List
  <2> DEFINE found == [s \in Sandbox |-> IF LookoutActive(s) = {} THEN NoQueue
                                         ELSE jobs[Newest(LookoutActive(s))].queue]
  <2>1. found \in [Sandbox -> Queue \cup {NoQueue}]
    BY <1>t, FindQueueType
  <2>2. sweep' = [Resting EXCEPT !.pc = "listed", !.found = found]
    BY <1>5 DEF List
  <2> HIDE DEF found
  <2>3. sweep' \in SweepRecord
    BY <2>1, <2>2 DEF Resting, SweepRecord
  <2> QED
    BY <1>5, <2>3 DEF List, TypeInv, TypeOK, ArmadaTypeOK, DirectoryTypeOK
<1>6. CASE ListReturn
  <2>1. sweep' \in SweepRecord
    BY <1>6, <1>t DEF ListReturn, Resting, SweepRecord
  <2>2. remembered' \in [Sandbox -> Queue \cup {NoQueue}]
    BY <1>6, <1>t DEF ListReturn, SweepRecord
  <2> QED
    BY <1>6, <2>1, <2>2 DEF ListReturn, TypeInv, TypeOK, ArmadaTypeOK, DirectoryTypeOK
<1>7. ASSUME NEW s \in Sandbox, Reclaim(s)
      PROVE  TypeInv'
  <2> DEFINE call == [Idle EXCEPT !.op = "destroy", !.owed = LiveJobs(s)]
  <2>0. LiveJobs(s) \in SUBSET Nat
    BY <1>t, JobDomain DEF LiveJobs
  <2>1. call \in CallRecord
    BY <2>0, IdleType DEF CallRecord
  <2>2. Fresh(s, ById) \in InstanceRecord
    BY FreshType
  <2>3. Set(Reconciler, Resolving(call, Fresh(s, ById)))
    BY <1>7 DEF Reclaim
  <2> HIDE DEF call
  <2>4. CallsOK
    BY <1>s, <1>t, <2>1, <2>2, <2>3, CallTypes, SetType
  <2>5. instances' \in [Instances -> InstanceRecord]
    BY <1>7, <1>s, <1>t, <2>2 DEF Reclaim
  <2>6. sweep' \in SweepRecord
    BY <1>7, <1>t DEF Reclaim, SweepRecord
  <2> QED
    BY <1>7, <2>4, <2>5, <2>6 DEF Reclaim, TypeInv, TypeOK, ArmadaTypeOK, DirectoryTypeOK
<1>8. ASSUME NEW cfg \in Configs, Restart(cfg)
      PROVE  TypeInv'
  <2>1. CallsOK /\ instances' \in [Instances -> InstanceRecord]
    BY <1>8, IdleType, FreshType DEF Restart
  <2>2. sweep' \in SweepRecord /\ placements' \in [Sandbox -> [job: Nat, channel: Nat]]
          /\ restarts' \in 0..MaxRestarts
    BY <1>8, <1>t DEF Restart, Resting, SweepRecord, NoPlacement, TypeOK
  <2>3. late' \in SUBSET (Sandbox \X Queue)
    BY <1>8, GiveUpType DEF Restart
  <2> QED
    BY <1>8, <2>1, <2>2, <2>3 DEF Restart, TypeInv, TypeOK, ArmadaTypeOK, DirectoryTypeOK
<1>9. CASE World
  <2>1. Evolves
    BY <1>9, <1>t, WorldEvolves DEF World
  <2> QED
    BY <1>9, <2>1 DEF World, process, Evolves, TypeInv, TypeOK, ArmadaTypeOK, DirectoryTypeOK
<1>10. CASE UNCHANGED vars
  BY <1>10 DEF vars, TypeInv, TypeOK, ArmadaTypeOK, DirectoryTypeOK
<1>11. ASSUME NEW s \in Sandbox, NEW q \in Queue, Land(s, q) \/ Lose(s, q)
       PROVE  TypeInv'
  <2>1. Evolves
    BY <1>11, <1>t, SubmitEvolves, SameEvolves DEF Land, Lose
  <2>2. late' \in SUBSET (Sandbox \X Queue)
    BY <1>11, <1>t DEF Land, Lose, TypeOK
  <2> QED
    BY <1>11, <2>1, <2>2
       DEF Land, Lose, Evolves, TypeInv, TypeOK, ArmadaTypeOK, DirectoryTypeOK
<1> QED
  BY <1>1, <1>2, <1>3, <1>4, <1>5, <1>6, <1>7, <1>8, <1>9, <1>10, <1>11 DEF Next

-----------------------------------------------------------------------------
(* Job ids stay known. *)

LEMMA KnownKept ==
  ASSUME TypeInv, Evolves
  PROVE  \A j, s : JobOf(jobs, j, s) => JobOf(jobs', j, s)
<1>1. Job = 1..Len(jobs) /\ Len(jobs) \in Nat
  BY JobDomain DEF TypeInv
<1>2. DOMAIN jobs' = 1..Len(jobs') /\ Len(jobs') \in Nat /\ Len(jobs) <= Len(jobs')
  BY DEF Evolves
<1>3. Job \subseteq DOMAIN jobs'
  BY <1>1, <1>2
<1> QED
  BY <1>3 DEF JobOf, Evolves, Job

(* What is left to show of a step that changes one call: the sandbox of an     *)
(* instance is fixed and its job never dropped, and all that is new is known.  *)
LEMMA KnownFrame ==
  ASSUME TypeInv, JobsKnown, Evolves, NEW c \in Calls, NEW call, Set(c, call),
         \A i \in Instances : /\ instances'[i].sandbox = instances[i].sandbox
                              /\ instances[i].job # 0 => instances'[i].job # 0
                              /\ InstKnown(jobs', instances'[i]),
         \A s \in Sandbox : PlaceKnown(jobs', placements'[s], s),
         CallKnown(jobs', call, instances'[call.inst]),
         c \in Caller /\ call.pc # "idle" => call.inst \in Instance
  PROVE  JobsKnown'
<1>1. \A d \in Calls : calls'[d] = IF d = c THEN call ELSE calls[d]
  BY DEF Set, TypeInv, TypeOK
<1>2. ASSUME NEW d \in Calls, d # c
      PROVE  CallKnown(jobs', calls'[d], instances'[calls'[d].inst])
  <2>1. calls'[d] = calls[d] /\ calls[d].inst \in Instances
    BY <1>1, <1>2, CallInProgress
  <2>2. CallKnown(jobs, calls[d], instances[calls[d].inst])
    BY DEF JobsKnown
  <2> QED
    BY <2>1, <2>2, KnownKept DEF CallKnown
<1>3. \A d \in Calls : CallKnown(jobs', calls'[d], instances'[calls'[d].inst])
  BY <1>1, <1>2
<1>4. \A d \in Caller : calls'[d].pc # "idle" => calls'[d].inst \in Instance
  BY <1>1 DEF JobsKnown, Calls
<1> QED
  BY <1>3, <1>4 DEF JobsKnown

LEMMA KnownSame ==
  ASSUME TypeInv, JobsKnown, Evolves
  PROVE  /\ UNCHANGED instances =>
             \A i \in Instances : /\ instances'[i].sandbox = instances[i].sandbox
                                  /\ instances[i].job # 0 => instances'[i].job # 0
                                  /\ InstKnown(jobs', instances'[i])
         /\ UNCHANGED placements => \A s \in Sandbox : PlaceKnown(jobs', placements'[s], s)
  BY KnownKept DEF JobsKnown, InstKnown, PlaceKnown

LEMMA KnownInst ==
  ASSUME TypeInv, JobsKnown, Evolves, NEW x \in Instances, NEW inst,
         instances' = [instances EXCEPT ![x] = inst],
         inst.sandbox = instances[x].sandbox,
         instances[x].job # 0 => inst.job # 0,
         InstKnown(jobs', inst)
  PROVE  \A i \in Instances : /\ instances'[i].sandbox = instances[i].sandbox
                              /\ instances[i].job # 0 => instances'[i].job # 0
                              /\ InstKnown(jobs', instances'[i])
<1>1. \A i \in Instances : instances'[i] = IF i = x THEN inst ELSE instances[i]
  BY DEF TypeInv, TypeOK
<1> QED
  BY <1>1, KnownKept DEF JobsKnown, InstKnown

LEMMA IdleKnown ==
  \A js, inst : CallKnown(js, Idle, inst) /\ Idle.pc = "idle"
  BY DEF CallKnown, Idle

LEMMA ObtainingKnown ==
  ASSUME NEW js, NEW call \in CallRecord, NEW inst, InstKnown(js, inst),
         \A j \in call.owed : JobOf(js, j, inst.sandbox)
  PROVE  /\ CallKnown(js, Obtaining(call, inst), inst)
         /\ CallKnown(js, Resolving(call, inst), inst)
         /\ Obtaining(call, inst).inst = call.inst
         /\ Resolving(call, inst).inst = call.inst
<1>1. Resolving(call, inst).pc \in {"lookup", "cancelSet", "find", "submit"}
        /\ Resolving(call, inst).owed = call.owed /\ Resolving(call, inst).inst = call.inst
  BY DEF Resolving, QueueUser, CallRecord
<1>2. CASE inst.job = 0
  BY <1>1, <1>2 DEF Obtaining, CallKnown
<1>3. CASE inst.job # 0
  BY <1>1, <1>3 DEF Obtaining, CallKnown, InstKnown, CallRecord
<1> QED
  BY <1>2, <1>3

LEMMA KnownStep ==
  ASSUME TypeInv, JobsKnown, NEW c \in Calls, Step(c)
  PROVE  JobsKnown'
<1> DEFINE call == calls[c]
           x == call.inst
           s == SandboxOf(c)
<1>t. /\ TypeOK /\ call \in CallRecord /\ x \in Instances /\ s \in Sandbox
      /\ InstOf(c) = instances[x] /\ instances[x].sandbox = s
      /\ InstOf(c) \in InstanceRecord
      /\ placements \in [Sandbox -> [job: Nat, channel: Nat]]
  BY CallInProgress DEF TypeInv, TypeOK, InstOf, SandboxOf
<1>k. /\ CallKnown(jobs, call, instances[x])
      /\ InstKnown(jobs, instances[x])
      /\ \A z \in Sandbox : PlaceKnown(jobs, placements[z], z)
  BY <1>t DEF JobsKnown
<1>w. c \in Caller /\ call.pc # "idle" => x \in Instance
  BY DEF JobsKnown
<1>1. CASE HealthOk(c)
  <2> DEFINE inst == [InstOf(c) EXCEPT !.job = call.job, !.channel = call.channel]
  <2>1. Evolves /\ Set(c, Idle) /\ UNCHANGED <<jobs, placements>>
    BY <1>1, <1>t, SameEvolves DEF HealthOk, Return
  <2>2. instances' = [instances EXCEPT ![x] = inst]
    BY <1>1 DEF HealthOk, InstOf
  <2>3. JobOf(jobs, call.job, s) /\ call.job # 0
    BY <1>1, <1>t, <1>k, JobDomain DEF HealthOk, CallKnown, JobOf, Job
  <2>4. inst.sandbox = s /\ inst.job = call.job
    BY <1>t DEF InstanceRecord
  <2> HIDE DEF inst
  <2>5. InstKnown(jobs', inst)
    BY <2>1, <2>3, <2>4 DEF InstKnown
  <2> QED
    BY <1>t, <2>1, <2>2, <2>3, <2>4, <2>5, KnownInst, KnownSame, KnownFrame, IdleKnown
<1>2. CASE HealthGone(c)
  <2>1. Evolves /\ Set(c, Obtaining(call, InstOf(c))) /\ UNCHANGED <<jobs, instances>>
    BY <1>2, <1>t, SameEvolves DEF HealthGone
  <2>2. \A z \in Sandbox : PlaceKnown(jobs', placements'[z], z)
    BY <1>2, <1>t, <1>k, <2>1 DEF HealthGone, PlaceKnown
  <2>4. call.pc # "idle"
    BY <1>2 DEF HealthGone
  <2>5. InstKnown(jobs, InstOf(c)) /\ \A j \in call.owed : JobOf(jobs, j, InstOf(c).sandbox)
    BY <1>k, <1>t, <2>4 DEF CallKnown
  <2>3. CallKnown(jobs, Obtaining(call, InstOf(c)), InstOf(c))
          /\ Obtaining(call, InstOf(c)).inst = x
    <3>1. call \in CallRecord
      BY <1>t
    <3> HIDE DEF call
    <3> QED BY <2>5, <3>1, ObtainingKnown DEF x
  <2> QED
    BY <1>t, <1>w, <2>1, <2>2, <2>3, <2>4, KnownSame, KnownFrame
<1>3. CASE LookupAnswer(c)
  <2> DEFINE next == [call EXCEPT !.pc = "located", !.queue = FindQueue(s)]
  <2>1. Evolves /\ Set(c, next) /\ UNCHANGED <<jobs, instances, placements>>
    BY <1>3, <1>t, SameEvolves DEF LookupAnswer
  <2>2. next.pc = "located" /\ next.inst = x /\ next.owed = call.owed /\ call.pc = "lookup"
    BY <1>3, <1>t DEF CallRecord, LookupAnswer
  <2> HIDE DEF next
  <2>3. CallKnown(jobs, next, instances[x])
    BY <1>k, <2>2 DEF CallKnown
  <2> QED
    BY <1>w, <2>1, <2>2, <2>3, KnownSame, KnownFrame
<1>4. CASE Locate(c)
  <2> DEFINE queue == PlacedQueue(s, InstOf(c).owned, call.queue)
             next == [call EXCEPT !.pc = QueueUser(call.op, InstOf(c)), !.queue = queue]
  <2>1. Evolves /\ Set(c, next) /\ UNCHANGED <<jobs, instances, placements>>
    BY <1>4, <1>t, SameEvolves DEF Locate
  <2>2. next.pc \in {"cancelSet", "find", "submit"} /\ next.inst = x
          /\ next.owed = call.owed /\ call.pc = "located"
    BY <1>4, <1>t DEF CallRecord, Locate, QueueUser
  <2> HIDE DEF next
  <2>3. CallKnown(jobs, next, instances[x])
    BY <1>k, <2>2 DEF CallKnown
  <2> QED
    BY <1>w, <2>1, <2>2, <2>3, KnownSame, KnownFrame
<1>5. CASE SubmitAccept(c)
  <2>1. call.queue \in Queue /\ call.pc = "submit"
    BY <1>5, CallInProgress DEF SubmitAccept, HasQueue
  <2>2. Evolves /\ UNCHANGED <<instances, placements>>
    BY <1>5, <1>t, <2>1, SubmitEvolves DEF SubmitAccept
  <2>3. PICK j \in DOMAIN jobs' : /\ jobs'[j].sandbox = s
                                  /\ Set(c, [call EXCEPT !.pc = "returned", !.job = j])
    BY <1>5 DEF SubmitAccept
  <2> DEFINE next == [call EXCEPT !.pc = "returned", !.job = j]
  <2>4. next.pc = "returned" /\ next.inst = x /\ next.owed = call.owed /\ next.job = j
    BY <1>t DEF CallRecord
  <2> HIDE DEF next
  <2>5. CallKnown(jobs', next, instances'[x])
    BY <1>k, <1>t, <2>1, <2>2, <2>3, <2>4, KnownKept DEF CallKnown, JobOf
  <2>6. Set(c, next)
    BY <2>3 DEF next
  <2> QED
    BY <1>w, <2>1, <2>2, <2>4, <2>5, <2>6, KnownSame, KnownFrame
<1>6. CASE FindAnswer(c)
  <2> DEFINE found == FindJob(s, call.queue)
             next == [call EXCEPT !.pc = "returned", !.job = Newest(found)]
  <2>1. Evolves /\ UNCHANGED <<jobs, instances, placements>> /\ call.pc = "find"
    BY <1>6, <1>t, SameEvolves DEF FindAnswer
  <2>2. CASE found = {}
    <3>1. Set(c, Idle)
      BY <1>6, <2>2 DEF FindAnswer, Return
    <3> QED
      BY <2>1, <3>1, KnownSame, KnownFrame, IdleKnown
  <2>3. CASE found # {}
    <3>1. Set(c, next)
      BY <1>6, <2>3 DEF FindAnswer
    <3>2. \A j \in found : JobOf(jobs, j, s)
      BY DEF FindJob, InSet, JobOf, Job
    <3>3. found \in SUBSET Job
      BY DEF FindJob, InSet
    <3> HIDE DEF found
    <3>4. Newest(found) \in found
      BY <1>t, <2>3, <3>3, NewestType
    <3>5. next.pc = "returned" /\ next.inst = x /\ next.owed = call.owed
            /\ JobOf(jobs, next.job, s)
      BY <1>t, <3>2, <3>4 DEF CallRecord
    <3> HIDE DEF next
    <3>6. CallKnown(jobs, next, instances[x])
      BY <1>k, <1>t, <2>1, <3>5 DEF CallKnown
    <3> QED
      BY <1>w, <2>1, <3>1, <3>5, <3>6, KnownSame, KnownFrame
  <2> QED BY <2>2, <2>3
<1>7. CASE JobReturn(c)
  <2> DEFINE inst == [InstOf(c) EXCEPT !.job = call.job]
             next == [call EXCEPT !.pc = "watch"]
  <2>1. Evolves /\ Set(c, next) /\ UNCHANGED <<jobs, placements>> /\ call.pc = "returned"
          /\ instances' = [instances EXCEPT ![x] = inst]
    BY <1>7, <1>t, SameEvolves DEF JobReturn, InstOf
  <2>2. JobOf(jobs, call.job, s) /\ call.job # 0
    BY <1>t, <1>k, <2>1, JobDomain DEF CallKnown, JobOf, Job
  <2>3. inst.sandbox = s /\ inst.job = call.job
    BY <1>t DEF InstanceRecord
  <2>4. next.pc = "watch" /\ next.inst = x /\ next.owed = call.owed /\ next.job = call.job
    BY <1>t DEF CallRecord
  <2> HIDE DEF inst, next
  <2>5. InstKnown(jobs', inst) /\ instances'[x] = inst
    BY <1>t, <2>1, <2>2, <2>3 DEF InstKnown, TypeOK
  <2>6. CallKnown(jobs', next, instances'[x])
    BY <1>k, <1>t, <2>1, <2>2, <2>3, <2>4, <2>5 DEF CallKnown
  <2> QED
    BY <1>t, <1>w, <2>1, <2>2, <2>3, <2>4, <2>5, <2>6, KnownInst, KnownSame, KnownFrame
<1>8. CASE WatchRunning(c)
  <2> DEFINE next == [call EXCEPT !.pc = "address", !.job = InstOf(c).job]
  <2>1. Evolves /\ Set(c, next) /\ UNCHANGED <<jobs, instances, placements>> /\ call.pc = "watch"
    BY <1>8, <1>t, SameEvolves DEF WatchRunning
  <2>2. next.pc = "address" /\ next.inst = x /\ next.owed = call.owed
          /\ next.job = instances[x].job
    BY <1>t DEF CallRecord
  <2> HIDE DEF next
  <2>3. CallKnown(jobs, next, instances[x])
    BY <1>k, <1>t, <2>1, <2>2 DEF CallKnown, InstKnown
  <2> QED
    BY <1>w, <2>1, <2>2, <2>3, KnownSame, KnownFrame
<1>9. CASE AddressKnown(c)
  <2> DEFINE next == [call EXCEPT !.pc = "agent", !.channel = jobs[call.job].addr]
  <2>1. Evolves /\ Set(c, next) /\ UNCHANGED <<jobs, instances, placements>> /\ call.pc = "address"
    BY <1>9, <1>t, SameEvolves DEF AddressKnown
  <2>2. next.pc = "agent" /\ next.inst = x /\ next.owed = call.owed /\ next.job = call.job
    BY <1>t DEF CallRecord
  <2> HIDE DEF next
  <2>3. CallKnown(jobs, next, instances[x])
    BY <1>k, <2>1, <2>2 DEF CallKnown
  <2> QED
    BY <1>w, <2>1, <2>2, <2>3, KnownSame, KnownFrame
<1>10. CASE AgentAnswers(c)
  <2> DEFINE inst == [InstOf(c) EXCEPT !.channel = call.channel]
             place == [job |-> InstOf(c).job, channel |-> call.channel]
  <2>1. Evolves /\ Set(c, Idle) /\ UNCHANGED jobs /\ call.pc = "agent"
          /\ instances' = [instances EXCEPT ![x] = inst]
          /\ placements' = [placements EXCEPT ![s] = place]
    BY <1>10, <1>t, SameEvolves DEF AgentAnswers, InstOf, Return
  <2>2. inst.sandbox = s /\ inst.job = instances[x].job
    BY <1>t DEF InstanceRecord
  <2>3. JobOf(jobs, place.job, s)
    BY <1>t, <1>k, <2>1 DEF CallKnown, InstKnown
  <2> HIDE DEF inst, place
  <2>4. InstKnown(jobs', inst)
    BY <1>k, <1>t, <2>1, <2>2 DEF InstKnown
  <2>5. \A z \in Sandbox : PlaceKnown(jobs', placements'[z], z)
    BY <1>t, <1>k, <2>1, <2>3 DEF PlaceKnown
  <2> QED
    BY <1>t, <2>1, <2>2, <2>4, <2>5, KnownInst, KnownFrame, IdleKnown
<1>11. CASE CancelAccept(c)
  <2> DEFINE next == [call EXCEPT !.pc = "cancelled"]
  <2>1. Evolves /\ Set(c, next) /\ UNCHANGED <<instances, placements>>
          /\ call.pc \in {"cancel", "cancelSet"}
    BY <1>11, <1>t, CancelEvolves DEF CancelAccept
  <2>2. next.pc = "cancelled" /\ next.inst = x /\ next.owed = call.owed
    BY <1>t DEF CallRecord
  <2> HIDE DEF next
  <2>3. CallKnown(jobs', next, instances'[x])
    BY <1>k, <2>1, <2>2, KnownKept DEF CallKnown
  <2> QED
    BY <1>w, <2>1, <2>2, <2>3, KnownSame, KnownFrame
<1>12. CASE DestroyReturn(c)
  <2> DEFINE inst == [InstOf(c) EXCEPT !.channel = 0]
  <2>1. Evolves /\ Set(c, Idle) /\ UNCHANGED jobs
          /\ instances' = [instances EXCEPT ![x] = inst]
          /\ placements' = [placements EXCEPT ![s] = NoPlacement]
    BY <1>12, <1>t, SameEvolves DEF DestroyReturn, InstOf, Return
  <2>2. inst.sandbox = s /\ inst.job = instances[x].job
    BY <1>t DEF InstanceRecord
  <2> HIDE DEF inst
  <2>3. InstKnown(jobs', inst)
    BY <1>k, <1>t, <2>1, <2>2 DEF InstKnown
  <2>4. \A z \in Sandbox : PlaceKnown(jobs', placements'[z], z)
    BY <1>t, <1>k, <2>1 DEF PlaceKnown
  <2> QED
    BY <1>t, <2>1, <2>2, <2>3, <2>4, KnownInst, KnownFrame, IdleKnown
<1>13. CASE Throw(c)
  <2>1. Evolves /\ Set(c, Idle) /\ UNCHANGED <<jobs, instances, placements>>
    BY <1>13, <1>t, SameEvolves DEF Throw, Return
  <2> QED
    BY <2>1, KnownSame, KnownFrame, IdleKnown
<1> QED
  BY <1>1, <1>2, <1>3, <1>4, <1>5, <1>6, <1>7, <1>8, <1>9, <1>10, <1>11, <1>12, <1>13 DEF Step

LEMMA UnusedKnown == \A js : InstKnown(js, Unused)
  BY DEF InstKnown, Unused, Fresh

(* A process that has just started holds nothing. *)
LEMMA KnownInit == Init => JobsKnown
<1> SUFFICES ASSUME Init PROVE JobsKnown
  OBVIOUS
<1>1. /\ \A i \in Instances : instances[i] = Unused
      /\ \A c \in Calls : calls[c] = Idle
      /\ \A s \in Sandbox : placements[s] = NoPlacement
  BY DEF Init
<1> QED
  BY <1>1, UnusedKnown, IdleKnown DEF JobsKnown, PlaceKnown, Calls

LEMMA KnownNext ==
  ASSUME TypeInv, JobsKnown, [Next]_vars
  PROVE  JobsKnown'
<1>t. /\ TypeOK
      /\ placements \in [Sandbox -> [job: Nat, channel: Nat]]
      /\ instances \in [Instances -> InstanceRecord]
      /\ calls \in [Calls -> CallRecord]
      /\ Caller \subseteq Calls /\ Instance \subseteq Instances
      /\ Reconciler \in Calls /\ Reconciler \in Instances
  BY DEF TypeInv, TypeOK, Calls, Instances
<1>e. UNCHANGED jobs => Evolves
  BY <1>t, SameEvolves
<1>l. \A s : \A j \in LiveJobs(s) : JobOf(jobs, j, s)
  BY DEF LiveJobs, JobOf, Job
<1>1. ASSUME NEW i \in Instance, NEW s \in Sandbox, NEW kind \in Kinds, Create(i, s, kind)
      PROVE  JobsKnown'
  <2>1. \A d \in Calls : calls[d].pc # "idle" => calls[d].inst # i
    BY <1>1 DEF Create, Busy
  <2>2. \A z \in Instances : instances'[z] = IF z = i THEN Fresh(s, kind) ELSE instances[z]
    BY <1>1, <1>t DEF Create
  <2>3. \A z \in Instances : InstKnown(jobs, instances'[z])
    BY <2>2 DEF JobsKnown, InstKnown, Fresh
  <2>4. ASSUME NEW d \in Calls
        PROVE  CallKnown(jobs, calls[d], instances'[calls[d].inst])
    <3>1. calls[d].inst \in Instances /\ CallKnown(jobs, calls[d], instances[calls[d].inst])
      BY CallInProgress DEF JobsKnown
    <3>2. CASE calls[d].pc = "idle"
      BY <3>2 DEF CallKnown
    <3>3. CASE calls[d].pc # "idle"
      BY <2>1, <2>2, <3>1, <3>3
    <3> QED BY <3>2, <3>3
  <2> QED
    BY <1>1, <2>3, <2>4 DEF Create, JobsKnown
<1>2. ASSUME NEW c \in Caller, NEW i \in Instance, Ready(c, i)
      PROVE  JobsKnown'
  <2> DEFINE inst == instances[i]
             known == placements[inst.sandbox]
             call == [Idle EXCEPT !.inst = i]
             health == [call EXCEPT !.pc = "health", !.job = known.job, !.channel = known.channel]
             next == IF known # NoPlacement THEN health ELSE Obtaining(call, inst)
  <2>1. inst.sandbox \in Sandbox /\ InstKnown(jobs, inst) /\ i \in Instances
    BY <1>t DEF InstanceRecord, JobsKnown
  <2>2. call \in CallRecord /\ call.inst = i /\ call.owed = {}
    BY <1>t, IdleType DEF CallRecord, Idle
  <2>3. Set(c, next) /\ UNCHANGED <<jobs, instances, placements>>
    BY <1>2 DEF Ready
  <2>4. PlaceKnown(jobs, known, inst.sandbox)
    BY <2>1 DEF JobsKnown
  <2> HIDE DEF inst, known, call
  <2>5. known # NoPlacement => CallKnown(jobs, health, inst) /\ health.inst = i
    BY <2>2, <2>4 DEF PlaceKnown, CallKnown, CallRecord
  <2>6. CallKnown(jobs, next, inst) /\ next.inst = i
    BY <2>1, <2>2, <2>5, ObtainingKnown
  <2> HIDE DEF next
  <2> QED
    BY <1>t, <1>e, <2>3, <2>6, KnownSame, KnownFrame DEF inst
<1>3. ASSUME NEW c \in Caller, NEW i \in Instance, Destroy(c, i)
      PROVE  JobsKnown'
  <2> DEFINE inst == instances[i]
             call == [Idle EXCEPT !.op = "destroy", !.inst = i, !.owed = LiveJobs(inst.sandbox)]
  <2>1. Set(c, Destroying(i)) /\ UNCHANGED <<jobs, instances, placements>>
    BY <1>3 DEF Destroy
  <2>2. InstKnown(jobs, inst) /\ i \in Instances
    BY <1>t DEF JobsKnown
  <2>3. LiveJobs(inst.sandbox) \in SUBSET Nat
    BY <1>t, JobDomain DEF LiveJobs
  <2>4. call \in CallRecord /\ call.inst = i /\ call.owed = LiveJobs(inst.sandbox)
    BY <1>t, <2>3, IdleType DEF CallRecord
  <2>5. Destroying(i) = IF inst.job = 0 THEN Resolving(call, inst)
                        ELSE [call EXCEPT !.pc = "cancel", !.job = inst.job]
    BY DEF Destroying
  <2> HIDE DEF call
  <2>6. CASE inst.job = 0
    <3>0. \A j \in call.owed : JobOf(jobs, j, inst.sandbox)
      BY <1>l, <2>4
    <3>1. CallKnown(jobs, Destroying(i), inst) /\ Destroying(i).inst = i
      BY <2>2, <2>4, <2>5, <2>6, <3>0, ObtainingKnown
    <3> QED
      BY <1>t, <1>e, <2>1, <3>1, KnownSame, KnownFrame
  <2>7. CASE inst.job # 0
    <3>1. CallKnown(jobs, Destroying(i), inst) /\ Destroying(i).inst = i
      BY <1>l, <2>2, <2>4, <2>5, <2>7 DEF CallKnown, InstKnown, CallRecord
    <3> QED
      BY <1>t, <1>e, <2>1, <3>1, KnownSame, KnownFrame
  <2> QED BY <2>6, <2>7
<1>4. ASSUME NEW c \in Calls, Step(c)
      PROVE  JobsKnown'
  BY <1>4, KnownStep
<1>5. CASE List \/ ListReturn \/ UNCHANGED vars
  BY <1>5 DEF List, ListReturn, vars, JobsKnown
<1>6. ASSUME NEW s \in Sandbox, Reclaim(s)
      PROVE  JobsKnown'
  <2> DEFINE inst == Fresh(s, ById)
             call == [Idle EXCEPT !.op = "destroy", !.owed = LiveJobs(s)]
  <2>1. LiveJobs(s) \in SUBSET Nat
    BY <1>t, JobDomain DEF LiveJobs
  <2>2. call \in CallRecord /\ call.inst = Reconciler /\ call.owed = LiveJobs(s)
    BY <2>1, IdleType DEF CallRecord, Idle
  <2>3. inst.job = 0 /\ inst.sandbox = s /\ InstKnown(jobs, inst)
    BY DEF Fresh, InstKnown
  <2>4. /\ calls' = [calls EXCEPT ![Reconciler] = Resolving(call, inst)]
        /\ instances' = [instances EXCEPT ![Reconciler] = inst]
        /\ UNCHANGED <<jobs, placements>>
    BY <1>6 DEF Reclaim, Set
  <2> HIDE DEF call, inst
  <2>0. \A j \in call.owed : JobOf(jobs, j, inst.sandbox)
    BY <1>l, <2>2, <2>3
  <2>5. CallKnown(jobs, Resolving(call, inst), inst) /\ Resolving(call, inst).inst = Reconciler
    BY <2>0, <2>2, <2>3, ObtainingKnown
  <2>6. \A z \in Instances : instances'[z] = IF z = Reconciler THEN inst ELSE instances[z]
    BY <1>t, <2>4
  <2>7. \A d \in Calls : calls'[d] = IF d = Reconciler THEN Resolving(call, inst) ELSE calls[d]
    BY <1>t, <2>4
  <2>8. \A z \in Instances : InstKnown(jobs, instances'[z])
    BY <2>3, <2>6 DEF JobsKnown
  <2>9. ASSUME NEW d \in Calls
        PROVE  CallKnown(jobs, calls'[d], instances'[calls'[d].inst])
    <3>1. CASE d = Reconciler
      BY <1>t, <2>5, <2>6, <2>7, <3>1
    <3>2. CASE d # Reconciler /\ calls[d].pc = "idle"
      BY <2>7, <3>2 DEF CallKnown
    <3>3. CASE d # Reconciler /\ calls[d].pc # "idle"
      <4>1. d \in Caller /\ calls[d].inst \in Instance /\ calls[d].inst # Reconciler
        BY <3>3 DEF JobsKnown, Calls
      <4> QED BY <1>t, <2>6, <2>7, <3>3, <4>1 DEF JobsKnown
    <3> QED BY <3>1, <3>2, <3>3
  <2>10. \A d \in Caller : calls'[d].pc # "idle" => calls'[d].inst \in Instance
    BY <2>7 DEF JobsKnown, Calls
  <2> QED
    BY <2>4, <2>8, <2>9, <2>10 DEF JobsKnown
<1>7. ASSUME NEW cfg \in Configs, Restart(cfg)
      PROVE  JobsKnown'
  <2>1. /\ \A i \in Instances : instances'[i] = Unused
        /\ \A c \in Calls : calls'[c] = Idle
        /\ \A s \in Sandbox : placements'[s] = NoPlacement
    BY <1>7 DEF Restart
  <2> QED
    BY <2>1, UnusedKnown, IdleKnown DEF JobsKnown, PlaceKnown, Calls
<1>8. CASE World
  <2>1. Evolves /\ UNCHANGED <<instances, calls, placements>>
    BY <1>8, <1>t, WorldEvolves DEF World, process
  <2> QED
    BY <2>1, KnownKept DEF JobsKnown, InstKnown, PlaceKnown, CallKnown
<1>9. ASSUME NEW s \in Sandbox, NEW q \in Queue, Land(s, q) \/ Lose(s, q)
      PROVE  JobsKnown'
  <2>1. Evolves /\ UNCHANGED <<instances, calls, placements>>
    BY <1>9, <1>t, SubmitEvolves, SameEvolves DEF Land, Lose
  <2> QED
    BY <2>1, KnownKept DEF JobsKnown, InstKnown, PlaceKnown, CallKnown
<1> QED
  BY <1>1, <1>2, <1>3, <1>4, <1>5, <1>6, <1>7, <1>8, <1>9 DEF Next

(* The process never holds a job, address or queue outside its type, whatever  *)
(* its calls, restarts and the cluster do.                                     *)
THEOREM TypeCorrect == Spec => []TypeOK
<1>1. Init => TypeInv /\ JobsKnown
  BY TypeInit, KnownInit
<1>2. TypeInv /\ JobsKnown /\ [Next]_vars => (TypeInv /\ JobsKnown)'
  BY TypeNext, KnownNext
<1>3. TypeInv /\ JobsKnown => TypeOK
  BY DEF TypeInv
<1> QED
  BY <1>1, <1>2, <1>3, PTL DEF Spec

=============================================================================
