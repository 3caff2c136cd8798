------------------------- MODULE QueueProofs --------------------------------
(***************************************************************************)
(* What the adapter guarantees about sandboxes, jobs and queues, for every   *)
(* number of sandboxes, calls, instances, owner maps and restarts:           *)
(*   in every deployment, that only ready() submits, that a sandbox's kernel *)
(*   in one queue starts once and, with an Ingress, that a health check is   *)
(*   answered by the sandbox's own pod;                                      *)
(*   where a sandbox's queue is never in doubt (QueueCertain), one kernel    *)
(*   per sandbox, started once, a destroy that reaches it, a directory that  *)
(*   remembers right;                                                        *)
(*   where the owner maps agree besides, jobs in the queues of their owners. *)
(* The runs second_kernel, retired_map and reused_address show what happens  *)
(* without those conditions.                                                 *)
(***************************************************************************)
EXTENDS SandboxesProofs

USE ArmadaAssumption, DirectoryAssumption, SandboxesAssumption

-----------------------------------------------------------------------------
(* One step's effect on the jobs. *)

(* A submit of a sandbox whose set in that queue is empty. *)
Submits(s, q) ==
  /\ InSet(s, q) = {}
  /\ Len(jobs') = Len(jobs) + 1
  /\ \A j \in Job : jobs'[j] = jobs[j]
  /\ jobs'[Len(jobs) + 1].sandbox = s
  /\ jobs'[Len(jobs) + 1].queue = q
  /\ jobs'[Len(jobs) + 1].live

(* No new job, and none ends but of sandbox s in queue q. *)
Keeps(s, q) ==
  /\ Len(jobs') = Len(jobs)
  /\ \A j \in Job \ InSet(s, q) : jobs'[j].live = jobs[j].live

(* A step of a call adds a job only when it accepts a submit, and ends jobs of *)
(* its own sandbox only, in one queue.                                         *)
LEMMA StepJobs ==
  ASSUME TypeInv, JobsKnown, NEW c \in Calls, Step(c)
  PROVE  /\ Evolves
         /\ \/ /\ calls[c].pc = "submit" /\ calls'[c].pc = "returned"
               /\ Submits(SandboxOf(c), calls[c].queue)
            \/ \E q \in Queue : Keeps(SandboxOf(c), q)
<1> USE CallInProgress
<1>t. TypeOK
  BY DEF TypeInv
<1>1. CASE SubmitAccept(c)
  <2>1. calls[c].pc = "submit" /\ calls[c].queue \in Queue
          /\ SubmitJob(SandboxOf(c), calls[c].queue)
    BY <1>1 DEF SubmitAccept, HasQueue
  <2>2. Evolves /\ (Submits(SandboxOf(c), calls[c].queue) \/ jobs' = jobs)
    BY <1>t, <2>1, SubmitEvolves DEF Submits
  <2>3. calls'[c].pc = "returned"
    BY <1>1, <1>t DEF SubmitAccept, Set, TypeOK, CallRecord
  <2> QED BY <2>1, <2>2, <2>3 DEF Keeps
<1>2. CASE CancelAccept(c)
  <2> DEFINE S == IF calls[c].pc = "cancel" THEN {calls[c].job}
                  ELSE InSet(SandboxOf(c), calls[c].queue)
  <2>1. CancelJobs(S)
    BY <1>2 DEF CancelAccept
  <2>2. PICK q \in Queue : S \subseteq InSet(SandboxOf(c), q)
    <3>1. CASE calls[c].pc = "cancel"
      <4>1. calls[c].job \in Job /\ jobs[calls[c].job].sandbox = SandboxOf(c)
        BY <3>1 DEF JobsKnown, CallKnown, JobOf, SandboxOf, InstOf, Job
      <4>2. jobs[calls[c].job].queue \in Queue
        BY <1>t, <4>1, JobDomain DEF JobRecord
      <4> QED BY <3>1, <4>1, <4>2 DEF InSet
    <3>2. CASE calls[c].pc = "cancelSet"
      BY <3>2 DEF HasQueue
    <3> QED BY <1>2, <3>1, <3>2 DEF CancelAccept
  <2> HIDE DEF S
  <2>3. Evolves /\ Len(jobs') = Len(jobs) /\ \A j \in Job \ S : jobs'[j] = jobs[j]
    BY <1>t, <2>1, CancelEvolves
  <2> QED BY <2>2, <2>3 DEF Keeps
<1>3. CASE ~SubmitAccept(c) /\ ~CancelAccept(c)
  <2>1. UNCHANGED jobs
    BY <1>3 DEF Step, HealthOk, HealthGone, LookupAnswer, Locate, FindAnswer, JobReturn,
                WatchRunning, AddressKnown, AgentAnswers, DestroyReturn, Throw
  <2> QED BY <1>t, <2>1, SameEvolves DEF Keeps
<1> QED BY <1>1, <1>2, <1>3

(* The cluster ends one job at a time. *)
LEMMA WorldJobs ==
  ASSUME TypeOK, ArmadaNext
  PROVE  Evolves /\ \E s \in Sandbox, q \in Queue : Keeps(s, q)
<1>1. PICK j \in Job : PodStarts(j) \/ PodAddressed(j) \/ JobEnds(j) \/ Ingest(j)
  BY DEF ArmadaNext
<1>2. jobs[j] \in JobRecord /\ jobs[j].sandbox \in Sandbox /\ jobs[j].queue \in Queue
  BY JobDomain DEF JobRecord
<1>3. Evolves /\ Len(jobs') = Len(jobs)
  BY WorldEvolves
<1>4. \A k \in Job : k # j => jobs'[k] = jobs[k]
  <2>1. CASE JobEnds(j)
    BY <2>1, CancelEvolves DEF JobEnds
  <2>2. CASE PodStarts(j) \/ Ingest(j)
    BY <2>2, JobDomain DEF PodStarts, Ingest
  <2>3. CASE PodAddressed(j)
    <3>1. PICK a : jobs' = [jobs EXCEPT ![j] = [@ EXCEPT !.events = "addressed", !.addr = a]]
      BY <2>3 DEF PodAddressed
    <3> QED BY <3>1, JobDomain
  <2> QED BY <1>1, <2>1, <2>2, <2>3
<1>5. Keeps(jobs[j].sandbox, jobs[j].queue)
  BY <1>3, <1>4 DEF Keeps, InSet
<1> QED BY <1>2, <1>3, <1>5

(* A submit nobody waits for any more adds a job, or changes nothing. *)
LandsLate(s, q) == <<s, q>> \in late /\ Submits(s, q) /\ UNCHANGED <<calls, remembered>>

LEMMA LateJobs ==
  ASSUME TypeOK, NEW s \in Sandbox, NEW q \in Queue, Land(s, q) \/ Lose(s, q)
  PROVE  Evolves /\ (LandsLate(s, q) \/ Keeps(s, q))
<1>1. CASE Land(s, q)
  <2>1. SubmitJob(s, q) /\ <<s, q>> \in late /\ UNCHANGED <<calls, remembered>>
    BY <1>1 DEF Land
  <2>2. Evolves /\ (Submits(s, q) \/ jobs' = jobs)
    BY <2>1, SubmitEvolves DEF Submits
  <2> QED BY <2>1, <2>2 DEF LandsLate, Keeps
<1>2. CASE Lose(s, q)
  BY <1>2, SameEvolves DEF Lose, Keeps
<1> QED BY <1>1, <1>2

LEMMA NextJobs ==
  ASSUME TypeInv, JobsKnown, [Next]_vars
  PROVE  /\ Evolves
         /\ \/ \E c \in Calls : /\ calls[c].pc = "submit" /\ calls'[c].pc = "returned"
                                /\ Submits(SandboxOf(c), calls[c].queue)
            \/ \E s \in Sandbox, q \in Queue : LandsLate(s, q) \/ Keeps(s, q)
<1>t. TypeOK
  BY DEF TypeInv
<1>1. CASE \E c \in Calls : Step(c)
  BY <1>1, StepJobs, CallInProgress
<1>2. CASE World
  BY <1>2, <1>t, WorldJobs DEF World
<1>3. CASE \E s \in Sandbox, q \in Queue : Land(s, q) \/ Lose(s, q)
  BY <1>3, <1>t, LateJobs
<1>4. CASE ~World /\ (~\E c \in Calls : Step(c))
           /\ ~\E s \in Sandbox, q \in Queue : Land(s, q) \/ Lose(s, q)
  <2>1. UNCHANGED jobs
    BY <1>4 DEF Next, Create, Ready, Destroy, List, ListReturn, Reclaim, Restart, vars
  <2> QED BY <1>t, <2>1, SameEvolves DEF Keeps
<1> QED BY <1>1, <1>2, <1>3, <1>4

(* What becomes of one job: what it was, submitted, ended, or one of the       *)
(* reports of the executor and the ingester.                                   *)
JustSubmitted(job) ==
  \E s \in Sandbox, q \in Queue :
    job = Settled([sandbox |-> s, queue |-> q, live |-> TRUE, events |-> "submitted",
                   addr |-> 0, index |-> "absent"])

Ended(job) == Settled([job EXCEPT !.live = FALSE])

Becomes(j) ==
  \/ j \notin Job /\ JustSubmitted(jobs'[j])
  \/ /\ j \in Job
     /\ \/ jobs'[j] \in {jobs[j], Ended(jobs[j])}
        \/ jobs'[j] = [jobs[j] EXCEPT !.events = "running"]
        \/ \E a \in FreeAddress(j) :
             jobs'[j] = [jobs[j] EXCEPT !.events = "addressed", !.addr = a]
        \/ \E i \in {"live", "done"} : jobs'[j] = [jobs[j] EXCEPT !.index = i]

LEMMA JobBecomes ==
  ASSUME TypeInv, JobsKnown, [Next]_vars
  PROVE  \A j \in Job' : Becomes(j)
<1>t. TypeOK /\ jobs \in Seq(JobRecord) /\ Len(jobs) \in Nat /\ Job = 1..Len(jobs)
  BY JobDomain DEF TypeInv
<1>1. ASSUME NEW S, CancelJobs(S) PROVE \A j \in Job' : Becomes(j)
  <2>1. jobs' = [j \in Job |-> IF j \in S THEN Ended(jobs[j]) ELSE jobs[j]]
    BY <1>1 DEF CancelJobs, Ended
  <2> QED BY <2>1 DEF Becomes, Job
<1>2. ASSUME NEW s \in Sandbox, NEW q \in Queue, SubmitJob(s, q)
      PROVE  \A j \in Job' : Becomes(j)
  <2> DEFINE job == [sandbox |-> s, queue |-> q, live |-> TRUE, events |-> "submitted",
                     addr |-> 0, index |-> "absent"]
             new == Settled(job)
  <2>1. job \in JobRecord
    BY DEF JobRecord, Events
  <2>2. new \in JobRecord /\ JustSubmitted(new)
    BY <2>1, SettledType DEF JustSubmitted
  <2>3. jobs' = Append(jobs, new) \/ jobs' = jobs
    BY <1>2 DEF SubmitJob
  <2> HIDE DEF new
  <2>4. \A j \in Job' : (j \notin Job /\ jobs'[j] = new) \/ (j \in Job /\ jobs'[j] = jobs[j])
    BY <1>t, <2>2, <2>3 DEF Job
  <2> QED BY <2>2, <2>4 DEF Becomes
<1>3. CASE ArmadaNext
  <2>1. PICK j \in Job : PodStarts(j) \/ PodAddressed(j) \/ JobEnds(j) \/ Ingest(j)
    BY <1>3 DEF ArmadaNext
  <2>2. ASSUME NEW job, jobs' = [jobs EXCEPT ![j] = job], jobs'[j] = job => Becomes(j)
        PROVE  \A k \in Job' : Becomes(k)
    <3>1. Job' = Job /\ \A k \in Job : jobs'[k] = IF k = j THEN job ELSE jobs[k]
      BY <1>t, <2>2 DEF Job
    <3>2. \A k \in Job : k # j => Becomes(k)
      BY <3>1 DEF Becomes
    <3> QED BY <2>2, <3>1, <3>2
  <2>3. CASE PodStarts(j)
    <3>1. jobs' = [jobs EXCEPT ![j] = [jobs[j] EXCEPT !.events = "running"]]
      BY <2>3 DEF PodStarts
    <3> QED BY <2>2, <3>1 DEF Becomes
  <2>4. CASE PodAddressed(j)
    <3>1. PICK a \in FreeAddress(j) :
            jobs' = [jobs EXCEPT ![j] = [jobs[j] EXCEPT !.events = "addressed", !.addr = a]]
      BY <2>4 DEF PodAddressed
    <3> QED BY <2>2, <3>1 DEF Becomes
  <2>5. CASE JobEnds(j)
    BY <2>5, <1>1 DEF JobEnds
  <2>6. CASE Ingest(j)
    <3>1. PICK i \in {"live", "done"} :
            jobs' = [jobs EXCEPT ![j] = [jobs[j] EXCEPT !.index = i]]
      BY <2>6 DEF Ingest
    <3> QED BY <2>2, <3>1 DEF Becomes
  <2> QED BY <2>1, <2>3, <2>4, <2>5, <2>6
<1>4. ASSUME UNCHANGED jobs PROVE \A j \in Job' : Becomes(j)
  BY <1>4 DEF Becomes, Job
<1>5. ASSUME NEW c \in Calls, Step(c) PROVE \A j \in Job' : Becomes(j)
  <2>1. CASE SubmitAccept(c)
    <3>1. SubmitJob(SandboxOf(c), calls[c].queue) /\ calls[c].queue \in Queue
      BY <2>1, CallInProgress DEF SubmitAccept, HasQueue
    <3> QED BY <1>2, <3>1, CallInProgress
  <2>2. CASE CancelAccept(c)
    <3>1. \E S : CancelJobs(S)
      BY <2>2 DEF CancelAccept
    <3> QED BY <1>1, <3>1
  <2>3. CASE ~SubmitAccept(c) /\ ~CancelAccept(c)
    <3>1. UNCHANGED jobs
      BY <1>5, <2>3 DEF Step, HealthOk, HealthGone, LookupAnswer, Locate, FindAnswer, JobReturn,
                        WatchRunning, AddressKnown, AgentAnswers, DestroyReturn, Throw
    <3> QED BY <1>4, <3>1
  <2> QED BY <2>1, <2>2, <2>3
<1>6. ASSUME NEW s \in Sandbox, NEW q \in Queue, Land(s, q) \/ Lose(s, q)
      PROVE  \A j \in Job' : Becomes(j)
  BY <1>2, <1>4, <1>6 DEF Land, Lose
<1>7. CASE ~World /\ (~\E c \in Calls : Step(c))
           /\ ~\E s \in Sandbox, q \in Queue : Land(s, q) \/ Lose(s, q)
  <2>1. UNCHANGED jobs
    BY <1>7 DEF Next, Create, Ready, Destroy, List, ListReturn, Reclaim, Restart, vars
  <2> QED BY <1>4, <2>1
<1> QED BY <1>3, <1>5, <1>6, <1>7 DEF World

(* A submit is left on its way only by the call that waited for it. *)
LEMMA LateChanges ==
  ASSUME TypeInv, [Next]_vars
  PROVE  /\ \A r \in late' : r \in late \/
              \E c \in Calls : /\ calls[c].pc = "submit" /\ calls'[c] # calls[c]
                               /\ r = <<SandboxOf(c), calls[c].queue>>
         /\ ~SubmitsLinger /\ late = {} => late' = {}
<1>t. calls \in [Calls -> CallRecord]
  BY DEF TypeInv, TypeOK
<1>i. Idle.pc = "idle"
  BY DEF Idle
<1>1. ASSUME NEW c \in Calls, Throw(c)
      PROVE  /\ \A r \in late' : r \in late \/
                  \E d \in Calls : /\ calls[d].pc = "submit" /\ calls'[d] # calls[d]
                                   /\ r = <<SandboxOf(d), calls[d].queue>>
             /\ ~SubmitsLinger => late' = late
  <2>1. GiveUp({c}) /\ calls'[c] = Idle
    BY <1>1, <1>t DEF Throw, Return, Set
  <2>2. \A r \in late' : r \in late \/
          \E d \in {c} : calls[d].pc = "submit" /\ r = <<SandboxOf(d), calls[d].queue>>
    BY <2>1, GiveUpType
  <2>3. ~SubmitsLinger => late' = late
    BY <2>1 DEF GiveUp
  <2> QED BY <1>i, <2>1, <2>2, <2>3
<1>2. ASSUME NEW cfg \in Configs, Restart(cfg)
      PROVE  /\ \A r \in late' : r \in late \/
                  \E d \in Calls : /\ calls[d].pc = "submit" /\ calls'[d] # calls[d]
                                   /\ r = <<SandboxOf(d), calls[d].queue>>
             /\ ~SubmitsLinger => late' = late
  <2>1. GiveUp(Calls) /\ \A d \in Calls : calls'[d] = Idle
    BY <1>2 DEF Restart
  <2>2. \A r \in late' : r \in late \/
          \E d \in Calls : calls[d].pc = "submit" /\ r = <<SandboxOf(d), calls[d].queue>>
    BY <2>1, GiveUpType
  <2>3. ~SubmitsLinger => late' = late
    BY <2>1 DEF GiveUp
  <2> QED BY <1>i, <2>1, <2>2, <2>3
<1>3. ASSUME NEW s \in Sandbox, NEW q \in Queue, Land(s, q) \/ Lose(s, q)
      PROVE  late' \subseteq late
  BY <1>3 DEF Land, Lose
<1>4. CASE UNCHANGED late
  BY <1>4
<1> QED
  BY <1>1, <1>2, <1>3, <1>4
     DEF Next, Step, Create, Ready, Destroy, HealthOk, HealthGone, LookupAnswer, Locate,
         SubmitAccept, FindAnswer, JobReturn, WatchRunning, AddressKnown, AgentAnswers,
         CancelAccept, DestroyReturn, List, ListReturn, Reclaim, World, process, vars

-----------------------------------------------------------------------------
(* One step's effect on a call, as far as the queue it has in hand goes. *)

(* Its instance is the one it was. *)
InstKept(d) ==
  /\ calls'[d].inst = calls[d].inst
  /\ InstOf(d)'.sandbox = InstOf(d).sandbox
  /\ InstOf(d)'.attachOnly = InstOf(d).attachOnly

Stays(d) == calls'[d] = calls[d] /\ (calls[d].pc # "idle" => InstKept(d))

(* It looks at the health of the placement it found, or opens the channel its  *)
(* job has reported.                                                           *)
Probes(d) ==
  LET known == placements[SandboxOf(d)']
  IN  known # NoPlacement /\ calls'[d].channel = known.channel

Dials(d) ==
  /\ calls[d].pc = "address" /\ InstKept(d)
  /\ jobs[calls[d].job].events = "addressed"
  /\ calls'[d].channel = jobs[calls[d].job].addr

(* It has no queue in hand, or none any more. *)
HoldsNone(d) ==
  /\ calls'[d].pc \in {"idle", "health", "returned", "watch", "address", "agent", "cancel",
                       "cancelled"}
  /\ calls'[d].pc # "idle" /\ d = Reconciler => calls[d].pc # "idle" /\ InstKept(d)
  /\ calls'[d].pc = "health" => Probes(d)
  /\ calls'[d].pc = "agent" => Dials(d)

(* It resolves its queue, at its start or when a placement is gone. *)
Resolves(d) ==
  LET q == KnownQueue(InstOf(d)'.sandbox)
  IN  /\ calls'[d].queue = q
      /\ calls'[d].pc = IF q = NoQueue THEN "lookup" ELSE QueueUser(calls'[d].op, InstOf(d)')
      /\ d = Reconciler => \/ InstOf(d)'.sandbox \in sweep.orphans
                           \/ calls[d].pc # "idle" /\ InstKept(d)
      /\ UNCHANGED <<jobs, config, remembered>>

Looks(d) ==
  /\ calls[d].pc = "lookup" /\ calls'[d].pc = "located" /\ InstKept(d)
  /\ calls'[d].queue = FindQueue(SandboxOf(d))
  /\ UNCHANGED <<jobs, remembered>>

Locates(d) ==
  /\ calls[d].pc = "located" /\ InstKept(d)
  /\ calls'[d].pc = QueueUser(calls'[d].op, InstOf(d)')
  /\ calls'[d].queue = PlacedQueue(SandboxOf(d), InstOf(d).owned, calls[d].queue)
  /\ UNCHANGED jobs /\ Remember(SandboxOf(d), calls'[d].queue)

Changes(d) == Stays(d) \/ HoldsNone(d) \/ Resolves(d) \/ Looks(d) \/ Locates(d)

LEMMA ResolvingIs ==
  ASSUME NEW call \in CallRecord, NEW inst
  PROVE  LET q == KnownQueue(inst.sandbox)
             next == Resolving(call, inst)
         IN  /\ next.queue = q /\ next.op = call.op /\ next.inst = call.inst
             /\ next.pc = IF q = NoQueue THEN "lookup" ELSE QueueUser(next.op, inst)
  BY DEF Resolving, CallRecord

LEMMA ObtainingIs ==
  ASSUME NEW call \in CallRecord, NEW inst
  PROVE  \/ inst.job = 0 /\ Obtaining(call, inst) = Resolving(call, inst)
         \/ Obtaining(call, inst).pc = "watch" /\ Obtaining(call, inst).inst = call.inst
  BY DEF Obtaining, CallRecord

(* No step but create and reclaim, of an instance no call uses, and a restart  *)
(* touches what an instance was made as.                                       *)
LEMMA SetKeepsInst ==
  ASSUME TypeInv, NEW c \in Calls, NEW call, Set(c, call),
         \/ UNCHANGED instances
         \/ \E inst : /\ instances' = [instances EXCEPT ![calls[c].inst] = inst]
                      /\ inst.sandbox = InstOf(c).sandbox
                      /\ inst.attachOnly = InstOf(c).attachOnly
  PROVE  /\ calls'[c] = call
         /\ call.inst = calls[c].inst => InstKept(c)
         /\ \A d \in Calls : d # c => Stays(d)
<1>1. calls' = [calls EXCEPT ![c] = call] /\ calls \in [Calls -> CallRecord]
        /\ instances \in [Instances -> InstanceRecord]
        /\ \A d \in Calls : calls[d].inst \in Instances
  BY CallInProgress DEF Set, TypeInv, TypeOK
<1>2. calls'[c] = call /\ \A d \in Calls : d # c => calls'[d] = calls[d]
  BY <1>1
<1>3. \A i \in Instances : /\ instances'[i].sandbox = instances[i].sandbox
                           /\ instances'[i].attachOnly = instances[i].attachOnly
  <2>1. CASE UNCHANGED instances
    BY <2>1
  <2>2. ASSUME NEW inst, instances' = [instances EXCEPT ![calls[c].inst] = inst],
               inst.sandbox = InstOf(c).sandbox, inst.attachOnly = InstOf(c).attachOnly
        PROVE  \A i \in Instances : /\ instances'[i].sandbox = instances[i].sandbox
                                    /\ instances'[i].attachOnly = instances[i].attachOnly
    BY <1>1, <2>2 DEF InstOf
  <2> QED BY <2>1, <2>2
<1> QED
  BY <1>1, <1>2, <1>3 DEF Stays, InstKept, InstOf

LEMMA StepChanges ==
  ASSUME TypeInv, NEW c \in Calls, Step(c)
  PROVE  \A d \in Calls : Changes(d)
<1> DEFINE call == calls[c]
           x == call.inst
<1>t. /\ TypeOK /\ call \in CallRecord /\ x \in Instances
      /\ InstOf(c) = instances[x] /\ InstOf(c) \in InstanceRecord
  BY CallInProgress DEF TypeInv, InstOf
<1>i. Idle.pc = "idle"
  BY DEF Idle
<1>1. ASSUME Set(c, Idle),
             \/ UNCHANGED instances
             \/ \E inst : /\ instances' = [instances EXCEPT ![x] = inst]
                          /\ inst.sandbox = InstOf(c).sandbox
                          /\ inst.attachOnly = InstOf(c).attachOnly
      PROVE  \A d \in Calls : Changes(d)
  BY <1>1, <1>i, SetKeepsInst DEF Changes, HoldsNone
<1>2. ASSUME NEW next, Set(c, next), next.inst = x, call.pc # "idle",
             next.pc \in {"returned", "watch", "address", "cancelled"},
             \/ UNCHANGED instances
             \/ \E inst : /\ instances' = [instances EXCEPT ![x] = inst]
                          /\ inst.sandbox = InstOf(c).sandbox
                          /\ inst.attachOnly = InstOf(c).attachOnly
      PROVE  \A d \in Calls : Changes(d)
  <2>1. calls'[c] = next /\ InstKept(c) /\ \A d \in Calls : d # c => Stays(d)
    BY <1>2, SetKeepsInst
  <2>2. HoldsNone(c)
    BY <1>2, <2>1 DEF HoldsNone
  <2> QED BY <2>1, <2>2 DEF Changes
<1>3. CASE HealthOk(c)
  <2> DEFINE inst == [InstOf(c) EXCEPT !.job = call.job, !.channel = call.channel]
  <2>1. Set(c, Idle) /\ instances' = [instances EXCEPT ![x] = inst]
    BY <1>3 DEF HealthOk, Return, InstOf
  <2>2. inst.sandbox = InstOf(c).sandbox /\ inst.attachOnly = InstOf(c).attachOnly
    BY <1>t DEF InstanceRecord
  <2> QED BY <1>1, <2>1, <2>2
<1>4. CASE HealthGone(c)
  <2> DEFINE next == Obtaining(call, InstOf(c))
  <2>1. Set(c, next) /\ UNCHANGED <<instances, jobs, config, remembered>> /\ call.pc = "health"
    BY <1>4 DEF HealthGone
  <2>2. \/ next = Resolving(call, InstOf(c))
        \/ next.pc = "watch" /\ next.inst = x
    BY <1>t, ObtainingIs
  <2>3. CASE next = Resolving(call, InstOf(c))
    <3>1. /\ next.queue = KnownQueue(InstOf(c).sandbox) /\ next.inst = x
          /\ next.pc = IF next.queue = NoQueue THEN "lookup" ELSE QueueUser(next.op, InstOf(c))
      BY <1>t, <2>3, ResolvingIs
    <3> HIDE DEF next
    <3>2. calls'[c] = next /\ InstKept(c) /\ \A d \in Calls : d # c => Stays(d)
      BY <2>1, <3>1, SetKeepsInst
    <3>3. InstOf(c)' = InstOf(c)
      BY <2>1, <3>1, <3>2 DEF InstOf
    <3>4. Resolves(c)
      BY <2>1, <3>1, <3>2, <3>3 DEF Resolves
    <3> QED BY <3>2, <3>4 DEF Changes
  <2>4. CASE next.pc = "watch" /\ next.inst = x
    <3> HIDE DEF next
    <3> QED BY <1>2, <2>1, <2>4
  <2> QED BY <2>2, <2>3, <2>4
<1>5. CASE LookupAnswer(c)
  <2> DEFINE next == [call EXCEPT !.pc = "located", !.queue = FindQueue(SandboxOf(c))]
  <2>1. Set(c, next) /\ UNCHANGED <<instances, jobs, remembered>> /\ call.pc = "lookup"
    BY <1>5 DEF LookupAnswer
  <2>2. next.pc = "located" /\ next.queue = FindQueue(SandboxOf(c)) /\ next.inst = x
    BY <1>t DEF CallRecord
  <2> HIDE DEF next
  <2>3. calls'[c] = next /\ InstKept(c) /\ \A d \in Calls : d # c => Stays(d)
    BY <2>1, <2>2, SetKeepsInst
  <2>4. Looks(c)
    BY <2>1, <2>2, <2>3 DEF Looks
  <2> QED BY <2>3, <2>4 DEF Changes
<1>6. CASE Locate(c)
  <2> DEFINE queue == PlacedQueue(SandboxOf(c), InstOf(c).owned, call.queue)
             next == [call EXCEPT !.pc = QueueUser(call.op, InstOf(c)), !.queue = queue]
  <2>1. /\ Set(c, next) /\ UNCHANGED <<instances, jobs>> /\ call.pc = "located"
        /\ Remember(SandboxOf(c), queue)
    BY <1>6 DEF Locate
  <2>2. /\ next.pc = QueueUser(call.op, InstOf(c)) /\ next.queue = queue /\ next.inst = x
        /\ next.op = call.op
    BY <1>t DEF CallRecord
  <2> HIDE DEF next, queue
  <2>3. calls'[c] = next /\ InstKept(c) /\ \A d \in Calls : d # c => Stays(d)
    BY <2>1, <2>2, SetKeepsInst
  <2>4. InstOf(c)' = InstOf(c)
    BY <2>1, <2>2, <2>3 DEF InstOf
  <2>5. Locates(c)
    BY <2>1, <2>2, <2>3, <2>4 DEF Locates, queue
  <2> QED BY <2>3, <2>5 DEF Changes
<1>7. CASE SubmitAccept(c)
  <2>1. PICK j : Set(c, [call EXCEPT !.pc = "returned", !.job = j])
    BY <1>7 DEF SubmitAccept
  <2> DEFINE next == [call EXCEPT !.pc = "returned", !.job = j]
  <2>2. next.pc = "returned" /\ next.inst = x
    BY <1>t DEF CallRecord
  <2>3. Set(c, next) /\ UNCHANGED instances /\ call.pc # "idle"
    BY <1>7, <2>1 DEF SubmitAccept
  <2> HIDE DEF next
  <2> QED BY <1>2, <2>2, <2>3
<1>8. CASE FindAnswer(c)
  <2> DEFINE found == FindJob(SandboxOf(c), call.queue)
             next == [call EXCEPT !.pc = "returned", !.job = Newest(found)]
  <2>1. (Set(c, Idle) \/ Set(c, next)) /\ UNCHANGED instances /\ call.pc # "idle"
    BY <1>8 DEF FindAnswer, Return
  <2>2. next.pc = "returned" /\ next.inst = x
    BY <1>t DEF CallRecord
  <2> HIDE DEF next
  <2> QED BY <1>1, <1>2, <2>1, <2>2
<1>9. CASE JobReturn(c)
  <2> DEFINE inst == [InstOf(c) EXCEPT !.job = call.job]
             next == [call EXCEPT !.pc = "watch"]
  <2>1. Set(c, next) /\ instances' = [instances EXCEPT ![x] = inst] /\ call.pc # "idle"
    BY <1>9 DEF JobReturn, InstOf
  <2>2. inst.sandbox = InstOf(c).sandbox /\ inst.attachOnly = InstOf(c).attachOnly
    BY <1>t DEF InstanceRecord
  <2>3. next.pc = "watch" /\ next.inst = x
    BY <1>t DEF CallRecord
  <2> HIDE DEF next, inst
  <2> QED BY <1>2, <2>1, <2>2, <2>3
<1>10. CASE WatchRunning(c)
  <2> DEFINE next == [call EXCEPT !.pc = "address", !.job = InstOf(c).job]
  <2>1. Set(c, next) /\ UNCHANGED instances /\ call.pc # "idle"
    BY <1>10 DEF WatchRunning
  <2>2. next.pc = "address" /\ next.inst = x
    BY <1>t DEF CallRecord
  <2> HIDE DEF next
  <2> QED BY <1>2, <2>1, <2>2
<1>11. CASE AddressKnown(c)
  <2> DEFINE next == [call EXCEPT !.pc = "agent", !.channel = jobs[call.job].addr]
  <2>1. /\ Set(c, next) /\ UNCHANGED instances /\ call.pc = "address"
        /\ jobs[call.job].events = "addressed"
    BY <1>11 DEF AddressKnown
  <2>2. next.pc = "agent" /\ next.inst = x /\ next.channel = jobs[call.job].addr
    BY <1>t DEF CallRecord
  <2> HIDE DEF next
  <2>3. calls'[c] = next /\ InstKept(c) /\ \A d \in Calls : d # c => Stays(d)
    BY <2>1, <2>2, SetKeepsInst
  <2>4. HoldsNone(c)
    BY <2>1, <2>2, <2>3 DEF HoldsNone, Dials
  <2> QED BY <2>3, <2>4 DEF Changes
<1>12. CASE AgentAnswers(c)
  <2> DEFINE inst == [InstOf(c) EXCEPT !.channel = call.channel]
  <2>1. Set(c, Idle) /\ instances' = [instances EXCEPT ![x] = inst]
    BY <1>12 DEF AgentAnswers, Return, InstOf
  <2>2. inst.sandbox = InstOf(c).sandbox /\ inst.attachOnly = InstOf(c).attachOnly
    BY <1>t DEF InstanceRecord
  <2> QED BY <1>1, <2>1, <2>2
<1>13. CASE CancelAccept(c)
  <2> DEFINE next == [call EXCEPT !.pc = "cancelled"]
  <2>1. Set(c, next) /\ UNCHANGED instances /\ call.pc # "idle"
    BY <1>13 DEF CancelAccept
  <2>2. next.pc = "cancelled" /\ next.inst = x
    BY <1>t DEF CallRecord
  <2> HIDE DEF next
  <2> QED BY <1>2, <2>1, <2>2
<1>14. CASE DestroyReturn(c)
  <2> DEFINE inst == [InstOf(c) EXCEPT !.channel = 0]
  <2>1. Set(c, Idle) /\ instances' = [instances EXCEPT ![x] = inst]
    BY <1>14 DEF DestroyReturn, Return, InstOf
  <2>2. inst.sandbox = InstOf(c).sandbox /\ inst.attachOnly = InstOf(c).attachOnly
    BY <1>t DEF InstanceRecord
  <2> QED BY <1>1, <2>1, <2>2
<1>15. CASE Throw(c)
  BY <1>15, <1>1 DEF Throw, Return
<1> QED
  BY <1>3, <1>4, <1>5, <1>6, <1>7, <1>8, <1>9, <1>10, <1>11, <1>12, <1>13, <1>14, <1>15 DEF Step

LEMMA NextChanges ==
  ASSUME TypeInv, JobsKnown, [Next]_vars
  PROVE  \A d \in Calls : Changes(d)
<1>t. /\ TypeOK
      /\ instances \in [Instances -> InstanceRecord]
      /\ calls \in [Calls -> CallRecord]
      /\ \A d \in Calls : calls[d].inst \in Instances
      /\ Caller \subseteq Calls /\ Instance \subseteq Instances /\ Reconciler \notin Caller
      /\ Reconciler \in Calls /\ Reconciler \in Instances /\ Reconciler \notin Instance
  BY CallInProgress DEF TypeInv, TypeOK, Calls, Instances
<1>c. ASSUME NEW c \in Caller, NEW next, Set(c, next), UNCHANGED instances
      PROVE  /\ calls'[c] = next
             /\ \A d \in Calls : d # c => Stays(d)
  BY <1>c, <1>t DEF Set, Stays, InstKept, InstOf
<1>1. ASSUME NEW i \in Instance, NEW s \in Sandbox, NEW kind \in Kinds, Create(i, s, kind)
      PROVE  \A d \in Calls : Stays(d)
  <2>1. \A d \in Calls : calls[d].pc # "idle" => calls[d].inst # i
    BY <1>1 DEF Create, Busy
  <2>2. UNCHANGED calls /\ \A z \in Instances : z # i => instances'[z] = instances[z]
    BY <1>1, <1>t DEF Create
  <2> QED BY <1>t, <2>1, <2>2 DEF Stays, InstKept, InstOf
<1>r. ASSUME NEW c \in Caller, NEW i \in Instance, NEW call \in CallRecord, call.inst = i,
             Set(c, Resolving(call, instances[i])),
             UNCHANGED <<jobs, config, remembered, instances>>
      PROVE  \A d \in Calls : Changes(d)
  <2> DEFINE next == Resolving(call, instances[i])
  <2>1. /\ next.queue = KnownQueue(instances[i].sandbox) /\ next.inst = i
        /\ next.pc = IF next.queue = NoQueue THEN "lookup" ELSE QueueUser(next.op, instances[i])
    BY <1>r, ResolvingIs
  <2>2. Set(c, next)
    BY <1>r
  <2> HIDE DEF next
  <2>3. calls'[c] = next /\ \A d \in Calls : d # c => Stays(d)
    BY <1>c, <1>r, <2>2
  <2>4. InstOf(c)' = instances[i]
    BY <1>r, <2>1, <2>3 DEF InstOf
  <2>5. Resolves(c)
    BY <1>r, <1>t, <2>1, <2>3, <2>4 DEF Resolves
  <2> QED BY <2>3, <2>5 DEF Changes
<1>h. ASSUME NEW c \in Caller, NEW next, Set(c, next), UNCHANGED instances,
             next.pc \in {"watch", "cancel"}
      PROVE  \A d \in Calls : Changes(d)
  <2>1. calls'[c] = next /\ \A d \in Calls : d # c => Stays(d)
    BY <1>c, <1>h
  <2>2. HoldsNone(c)
    BY <1>h, <1>t, <2>1 DEF HoldsNone
  <2> QED BY <2>1, <2>2 DEF Changes
<1>2. ASSUME NEW c \in Caller, NEW i \in Instance, Ready(c, i)
      PROVE  \A d \in Calls : Changes(d)
  <2> DEFINE call == [Idle EXCEPT !.inst = i]
             known == placements[instances[i].sandbox]
             health == [call EXCEPT !.pc = "health", !.job = known.job,
                                    !.channel = known.channel]
             next == Obtaining(call, instances[i])
  <2>1. call \in CallRecord /\ call.inst = i
    BY <1>t, IdleType DEF CallRecord, Idle
  <2>2. UNCHANGED <<jobs, config, remembered, instances>>
    BY <1>2 DEF Ready
  <2>3. health.pc = "health" /\ health.channel = known.channel /\ health.inst = i
    BY <2>1 DEF CallRecord
  <2>p. (Set(c, health) /\ known # NoPlacement) \/ Set(c, next)
    BY <1>2 DEF Ready
  <2> HIDE DEF call, health
  <2>4. next = Resolving(call, instances[i]) \/ next.pc = "watch"
    BY <2>1, ObtainingIs
  <2> HIDE DEF next
  <2>5. CASE Set(c, health) /\ known # NoPlacement
    <3>1. calls'[c] = health /\ \A d \in Calls : d # c => Stays(d)
      BY <1>c, <2>2, <2>5
    <3>2. SandboxOf(c)' = instances[i].sandbox
      BY <2>2, <2>3, <3>1 DEF SandboxOf, InstOf
    <3>3. HoldsNone(c)
      BY <1>t, <2>3, <2>5, <3>1, <3>2 DEF HoldsNone, Probes
    <3> QED BY <3>1, <3>3 DEF Changes
  <2>6. CASE Set(c, next) /\ next.pc = "watch"
    BY <1>h, <2>2, <2>6
  <2>7. CASE Set(c, next) /\ next = Resolving(call, instances[i])
    BY <1>r, <2>1, <2>2, <2>7
  <2> QED BY <2>p, <2>4, <2>5, <2>6, <2>7
<1>3. ASSUME NEW c \in Caller, NEW i \in Instance, Destroy(c, i)
      PROVE  \A d \in Calls : Changes(d)
  <2> DEFINE call == [Idle EXCEPT !.op = "destroy", !.inst = i,
                                  !.owed = LiveJobs(instances[i].sandbox)]
             next == [call EXCEPT !.pc = "cancel", !.job = instances[i].job]
  <2>1. LiveJobs(instances[i].sandbox) \in SUBSET Nat
    BY <1>t, JobDomain DEF LiveJobs
  <2>2. call \in CallRecord /\ call.inst = i
    BY <1>t, <2>1, IdleType DEF CallRecord
  <2>3. /\ Set(c, Resolving(call, instances[i])) \/ Set(c, next)
        /\ UNCHANGED <<jobs, config, remembered, instances>>
    BY <1>3 DEF Destroy, Destroying
  <2>4. next.pc = "cancel"
    BY <2>2 DEF CallRecord
  <2> HIDE DEF call, next
  <2> QED BY <1>h, <1>r, <2>2, <2>3, <2>4
<1>4. ASSUME NEW s \in Sandbox, Reclaim(s)
      PROVE  \A d \in Calls : Changes(d)
  <2> DEFINE inst == Fresh(s, ById)
             call == [Idle EXCEPT !.op = "destroy", !.owed = LiveJobs(s)]
             next == Resolving(call, inst)
  <2>1. LiveJobs(s) \in SUBSET Nat
    BY <1>t, JobDomain DEF LiveJobs
  <2>2. call \in CallRecord /\ call.inst = Reconciler
    BY <2>1, IdleType DEF CallRecord, Idle
  <2>3. /\ calls' = [calls EXCEPT ![Reconciler] = next]
        /\ instances' = [instances EXCEPT ![Reconciler] = inst]
        /\ UNCHANGED <<jobs, config, remembered>> /\ s \in sweep.orphans
    BY <1>4 DEF Reclaim, Set
  <2>4. inst.sandbox = s
    BY DEF Fresh
  <2> HIDE DEF call, inst
  <2>5. /\ next.queue = KnownQueue(inst.sandbox) /\ next.inst = Reconciler
        /\ next.pc = IF next.queue = NoQueue THEN "lookup" ELSE QueueUser(next.op, inst)
    BY <2>2, ResolvingIs
  <2> HIDE DEF next
  <2>6. calls'[Reconciler] = next /\ InstOf(Reconciler)' = inst
    BY <1>t, <2>3, <2>5 DEF InstOf
  <2>7. Resolves(Reconciler)
    BY <2>3, <2>4, <2>5, <2>6 DEF Resolves
  <2>8. ASSUME NEW d \in Calls, d # Reconciler
        PROVE  Stays(d)
    <3>1. calls[d].pc # "idle" => calls[d].inst # Reconciler
      BY <1>t, <2>8 DEF JobsKnown, Calls
    <3> QED BY <1>t, <2>3, <2>8, <3>1 DEF Stays, InstKept, InstOf
  <2> QED BY <2>7, <2>8 DEF Changes
<1>5. ASSUME NEW cfg \in Configs, Restart(cfg)
      PROVE  \A d \in Calls : Changes(d)
  BY <1>5 DEF Restart, Changes, HoldsNone, Idle
<1>6. ASSUME UNCHANGED <<instances, calls>>
      PROVE  \A d \in Calls : Stays(d)
  BY <1>6 DEF Stays, InstKept, InstOf
<1>7. List \/ ListReturn \/ World \/ UNCHANGED vars
        \/ (\E s \in Sandbox, q \in Queue : Land(s, q) \/ Lose(s, q)) =>
          UNCHANGED <<instances, calls>>
  BY DEF List, ListReturn, World, Land, Lose, process, vars
<1> QED
  BY <1>1, <1>2, <1>3, <1>4, <1>5, <1>6, <1>7, StepChanges DEF Next, Changes

-----------------------------------------------------------------------------
(* Only ready() on an instance that may submit awaits a submit. *)
SubmitsByReady ==
  \A c \in Calls : calls[c].pc = "submit" => calls[c].op = "ready" /\ ~InstOf(c).attachOnly

LEMMA SubmitsNext ==
  ASSUME TypeInv, JobsKnown, SubmitsByReady, [Next]_vars
  PROVE  SubmitsByReady'
<1> SUFFICES ASSUME NEW c \in Calls, calls'[c].pc = "submit"
             PROVE  calls'[c].op = "ready" /\ ~InstOf(c)'.attachOnly
  BY DEF SubmitsByReady
<1>1. calls'[c].op \in {"ready", "destroy"}
  BY TypeNext DEF TypeInv, TypeOK, CallRecord
<1>2. CASE Stays(c)
  BY <1>2 DEF Stays, InstKept, SubmitsByReady
<1>3. CASE Resolves(c) \/ Locates(c)
  BY <1>1, <1>3 DEF Resolves, Locates, QueueUser
<1>4. CASE HoldsNone(c) \/ Looks(c)
  BY <1>4 DEF HoldsNone, Looks
<1> QED BY <1>2, <1>3, <1>4, NextChanges DEF Changes

(* Whatever owner maps the process is started with, a job comes into being     *)
(* only through a ready() on an instance that may submit, and so does a submit *)
(* that outlives its call or its process: attaching and destroying never start *)
(* a kernel, not even late.                                                    *)
THEOREM OnlyReadyStarts == Spec => OnlyReadySubmits
<1> DEFINE I == TypeInv /\ JobsKnown /\ SubmitsByReady
           A == /\ \A j \in DOMAIN jobs' : j \notin Job =>
                     LET r == <<jobs'[j].sandbox, jobs'[j].queue>>
                     IN  r \in late \/ SubmitOfReady(r)
                /\ \A r \in late' \ late : SubmitOfReady(r)
<1>1. Init => I
  BY TypeInit, KnownInit DEF SubmitsByReady, Init, Idle
<1>2. I /\ [Next]_vars => I'
  BY TypeNext, KnownNext, SubmitsNext
<1>3. I /\ [Next]_vars => A
  <2> SUFFICES ASSUME I, [Next]_vars PROVE A
    OBVIOUS
  <2>1. /\ Job = 1..Len(jobs) /\ Len(jobs) \in Nat /\ Evolves
        /\ DOMAIN jobs' = 1..Len(jobs') /\ Len(jobs') \in Nat
    BY NextJobs, JobDomain DEF TypeInv, Evolves, Job
  <2>2. ASSUME NEW j \in DOMAIN jobs', j \notin Job
        PROVE  LET r == <<jobs'[j].sandbox, jobs'[j].queue>>
               IN  r \in late \/ SubmitOfReady(r)
    <3>1. ASSUME NEW s, NEW q, Submits(s, q)
          PROVE  <<jobs'[j].sandbox, jobs'[j].queue>> = <<s, q>>
      <4>1. j = Len(jobs) + 1
        BY <2>1, <2>2, <3>1 DEF Submits
      <4> QED BY <3>1, <4>1 DEF Submits
    <3>2. ASSUME NEW s, NEW q, Keeps(s, q) PROVE FALSE
      BY <2>1, <2>2, <3>2 DEF Keeps
    <3>3. ASSUME NEW c \in Calls, calls[c].pc = "submit", calls'[c].pc = "returned",
                 Submits(SandboxOf(c), calls[c].queue)
          PROVE  SubmitOfReady(<<jobs'[j].sandbox, jobs'[j].queue>>)
      BY <3>1, <3>3 DEF SubmitOfReady, SubmitsByReady
    <3>4. ASSUME NEW s \in Sandbox, NEW q \in Queue, LandsLate(s, q)
          PROVE  <<jobs'[j].sandbox, jobs'[j].queue>> \in late
      BY <3>1, <3>4 DEF LandsLate
    <3> QED BY <3>2, <3>3, <3>4, NextJobs
  <2>3. ASSUME NEW r \in late' \ late PROVE SubmitOfReady(r)
    BY <2>3, LateChanges DEF SubmitOfReady, SubmitsByReady
  <2> QED BY <2>2, <2>3
<1> QED
  BY <1>1, <1>2, <1>3, PTL DEF Spec, OnlyReadySubmits

-----------------------------------------------------------------------------
(* The channel of a placement, and the one a call probes, is of a pod of the   *)
(* sandbox, dead or alive.                                                     *)
Reaches(js, s, channel) ==
  \E j \in DOMAIN js : js[j].sandbox = s /\ js[j].events = "addressed" /\ js[j].addr = channel

OwnChannels ==
  /\ \A s \in Sandbox : placements[s] # NoPlacement => Reaches(jobs, s, placements[s].channel)
  /\ \A c \in Calls : calls[c].pc \in {"health", "agent"} =>
       Reaches(jobs, SandboxOf(c), calls[c].channel)

LEMMA OwnChannelsNext ==
  ASSUME TypeInv, JobsKnown, OwnChannels, [Next]_vars
  PROVE  OwnChannels'
<1>1. \A s, channel : Reaches(jobs, s, channel) => Reaches(jobs', s, channel)
  <2>1. /\ Evolves /\ Job = 1..Len(jobs) /\ Len(jobs) \in Nat /\ Job = DOMAIN jobs
        /\ DOMAIN jobs' = 1..Len(jobs') /\ Len(jobs') \in Nat
    BY NextJobs, JobDomain DEF TypeInv, Evolves, Job
  <2>2. Job \subseteq DOMAIN jobs'
    BY <2>1 DEF Evolves
  <2> QED BY <2>1, <2>2 DEF Reaches, Evolves
<1>2. ASSUME NEW s \in Sandbox, placements'[s] # NoPlacement
      PROVE  Reaches(jobs, s, placements'[s].channel)
  <2>t. placements \in [Sandbox -> [job: Nat, channel: Nat]]
    BY DEF TypeInv, TypeOK
  <2>1. CASE UNCHANGED placements
    BY <1>2, <2>1 DEF OwnChannels
  <2>2. ASSUME NEW c \in Calls, HealthGone(c) \/ DestroyReturn(c)
        PROVE  Reaches(jobs, s, placements'[s].channel)
    BY <1>2, <2>2, <2>t DEF HealthGone, DestroyReturn, OwnChannels
  <2>3. ASSUME NEW c \in Calls, AgentAnswers(c)
        PROVE  Reaches(jobs, s, placements'[s].channel)
    <3>1. /\ calls[c].pc = "agent"
          /\ placements' = [placements EXCEPT ![SandboxOf(c)] =
                               [job |-> InstOf(c).job, channel |-> calls[c].channel]]
      BY <2>3 DEF AgentAnswers
    <3>2. CASE s = SandboxOf(c)
      BY <2>t, <3>1, <3>2 DEF OwnChannels
    <3>3. CASE s # SandboxOf(c)
      BY <1>2, <2>t, <3>1, <3>3 DEF OwnChannels
    <3> QED BY <3>2, <3>3
  <2>4. ASSUME NEW cfg \in Configs, Restart(cfg) PROVE FALSE
    BY <1>2, <2>4 DEF Restart
  <2> QED
    BY <2>1, <2>2, <2>3, <2>4
       DEF Next, Step, Create, Ready, Destroy, HealthOk, LookupAnswer, Locate, SubmitAccept,
           FindAnswer, JobReturn, WatchRunning, AddressKnown, CancelAccept, Throw, List,
           ListReturn, Reclaim, Land, Lose, World, process, vars
<1>3. ASSUME NEW c \in Calls, calls'[c].pc \in {"health", "agent"}
      PROVE  Reaches(jobs, SandboxOf(c)', calls'[c].channel)
  <2>1. CASE Stays(c)
    BY <1>3, <2>1 DEF Stays, InstKept, SandboxOf, OwnChannels
  <2>2. CASE Probes(c)
    <3>1. SandboxOf(c)' \in Sandbox
      BY TypeNext, CallInProgress DEF TypeInv, TypeOK, CallRecord, SandboxOf, InstOf,
                                      InstanceRecord
    <3> QED BY <2>2, <3>1 DEF Probes, OwnChannels
  <2>3. CASE Dials(c)
    <3>1. JobOf(jobs, calls[c].job, SandboxOf(c))
      BY <2>3 DEF Dials, JobsKnown, CallKnown, SandboxOf, InstOf
    <3>2. SandboxOf(c)' = SandboxOf(c)
      BY <2>3 DEF Dials, InstKept, SandboxOf
    <3> QED BY <2>3, <3>1, <3>2 DEF Dials, JobOf, Reaches
  <2>4. Stays(c) \/ Probes(c) \/ Dials(c)
    BY <1>3, NextChanges DEF Changes, HoldsNone, Resolves, Looks, Locates, QueueUser
  <2> QED BY <2>1, <2>2, <2>3, <2>4
<1> QED BY <1>1, <1>2, <1>3 DEF OwnChannels

(* With an Ingress, no two jobs ever have one address. *)
OwnAddress == \A j \in Job : jobs[j].events = "addressed" => jobs[j].addr = j

LEMMA OwnAddressNext ==
  ASSUME TypeInv, JobsKnown, ~AddressReused, OwnAddress, [Next]_vars
  PROVE  OwnAddress'
<1> SUFFICES ASSUME NEW j \in Job', jobs'[j].events = "addressed" PROVE jobs'[j].addr = j
  BY DEF OwnAddress
<1>1. ASSUME JustSubmitted(jobs'[j]) PROVE FALSE
  <2>1. PICK s \in Sandbox, q \in Queue :
          jobs'[j] = Settled([sandbox |-> s, queue |-> q, live |-> TRUE, events |-> "submitted",
                              addr |-> 0, index |-> "absent"])
    BY <1>1 DEF JustSubmitted
  <2> DEFINE job == [sandbox |-> s, queue |-> q, live |-> TRUE, events |-> "submitted",
                     addr |-> 0, index |-> "absent"]
  <2>2. job \in JobRecord /\ job.events = "submitted"
    BY DEF JobRecord, Events
  <2> HIDE DEF job
  <2> QED BY <2>1, <2>2, SettledType DEF job
<1>2. ASSUME j \in Job PROVE jobs[j] \in JobRecord
  BY <1>2, JobDomain DEF TypeInv
<1>3. ASSUME j \in Job, jobs'[j] = Ended(jobs[j])
      PROVE  jobs'[j].events = jobs[j].events /\ jobs'[j].addr = jobs[j].addr
  <2> DEFINE job == [jobs[j] EXCEPT !.live = FALSE]
  <2>1. job \in JobRecord /\ job.events = jobs[j].events /\ job.addr = jobs[j].addr
    BY <1>2, <1>3 DEF JobRecord
  <2>2. jobs'[j] = Settled(job)
    BY <1>3 DEF Ended
  <2> HIDE DEF job
  <2> QED BY <2>1, <2>2, SettledType
<1>4. ASSUME j \in Job, NEW i, jobs'[j] = [jobs[j] EXCEPT !.index = i]
      PROVE  jobs'[j].events = jobs[j].events /\ jobs'[j].addr = jobs[j].addr
  BY <1>2, <1>4 DEF JobRecord
<1>5. ASSUME j \in Job, jobs'[j] = [jobs[j] EXCEPT !.events = "running"] PROVE FALSE
  BY <1>2, <1>5 DEF JobRecord
<1>6. ASSUME j \in Job, NEW a \in FreeAddress(j),
             jobs'[j] = [jobs[j] EXCEPT !.events = "addressed", !.addr = a]
      PROVE  jobs'[j].addr = j
  BY <1>2, <1>6 DEF JobRecord, FreeAddress
<1> QED BY <1>1, <1>3, <1>4, <1>5, <1>6, JobBecomes DEF Becomes, OwnAddress

(* Where addresses are not given out again, the look at /healthz through which *)
(* ready() adopts a placement is never answered by another sandbox's pod,      *)
(* whatever the owner maps: that run reused_address finds one is down to the   *)
(* NodePort alone.                                                             *)
THEOREM HealthIsOwnOnIngress == ~AddressReused => (Spec => []HealthIsOwn)
<1> DEFINE I == TypeInv /\ JobsKnown /\ OwnChannels /\ OwnAddress
<1>1. Init => I
  BY TypeInit, KnownInit DEF OwnChannels, OwnAddress, Init, ArmadaInit, Idle, Job
<1>2. ~AddressReused /\ I /\ [Next]_vars => I'
  BY TypeNext, KnownNext, OwnChannelsNext, OwnAddressNext
<1>3. I => HealthIsOwn
  <2> SUFFICES ASSUME I, NEW c \in Calls, calls[c].pc = "health", Answers(calls[c].channel)
               PROVE  \E j \in LiveJobs(SandboxOf(c)) : jobs[j].addr = calls[c].channel
    BY DEF HealthIsOwn
  <2>1. PICK k \in Job : jobs[k].live /\ jobs[k].events = "addressed"
                         /\ jobs[k].addr = calls[c].channel
    BY DEF Answers
  <2>2. PICK j \in Job : jobs[j].sandbox = SandboxOf(c) /\ jobs[j].events = "addressed"
                         /\ jobs[j].addr = calls[c].channel
    BY DEF OwnChannels, Reaches, Job
  <2>3. j = k
    BY <2>1, <2>2 DEF OwnAddress
  <2> QED BY <2>1, <2>2, <2>3 DEF LiveJobs
<1>4. ~AddressReused => (~AddressReused)'
  OBVIOUS
<1> QED
  BY <1>1, <1>2, <1>3, <1>4, PTL DEF Spec

-----------------------------------------------------------------------------
(* Armada has one job per sandbox and queue, ever: with clientId the sandbox   *)
(* id, a submit that is repeated reaches the job of the first (armada.ts).     *)
UniqueJob ==
  \A j, k \in Job : jobs[j].sandbox = jobs[k].sandbox /\ jobs[j].queue = jobs[k].queue => j = k

LEMMA UniqueNext ==
  ASSUME TypeInv, JobsKnown, UniqueJob, [Next]_vars
  PROVE  UniqueJob'
<1>1. Evolves /\ Job = 1..Len(jobs) /\ Job' = 1..Len(jobs') /\ Len(jobs) \in Nat
  BY NextJobs, JobDomain DEF TypeInv, Evolves, Job
<1>2. ASSUME NEW s \in Sandbox, NEW q \in Queue, Keeps(s, q)
      PROVE  UniqueJob'
  BY <1>1, <1>2 DEF Keeps, UniqueJob, Evolves
<1>3. ASSUME NEW s, NEW q, Submits(s, q)
      PROVE  UniqueJob'
  <2>1. \A j \in Job' : j \in Job \/ j = Len(jobs) + 1
    BY <1>1, <1>3 DEF Submits
  <2>2. \A j \in Job : ~(jobs[j].sandbox = s /\ jobs[j].queue = q)
    BY <1>3 DEF Submits, InSet
  <2>3. /\ jobs'[Len(jobs) + 1].sandbox = s /\ jobs'[Len(jobs) + 1].queue = q
        /\ \A j \in Job : jobs'[j] = jobs[j]
    BY <1>3 DEF Submits
  <2>4. ASSUME NEW j \in Job', NEW k \in Job',
               jobs'[j].sandbox = jobs'[k].sandbox, jobs'[j].queue = jobs'[k].queue
        PROVE  j = k
    BY <2>1, <2>2, <2>3, <2>4 DEF UniqueJob
  <2> QED BY <2>4 DEF UniqueJob
<1> QED BY <1>2, <1>3, NextJobs DEF LandsLate

-----------------------------------------------------------------------------
(* What Lookout has seen of a sandbox it never loses. *)
Listed(s) == LookoutSet(s) # {}

LEMMA IndexKept ==
  ASSUME TypeInv, JobsKnown, [Next]_vars, NEW j \in Job, jobs[j].index # "absent"
  PROVE  j \in Job' /\ jobs'[j].index # "absent"
<1>1. j \in Job' /\ jobs[j] \in JobRecord
  BY NextJobs, JobDomain DEF TypeInv, Evolves, Job
<1>2. Ended(jobs[j]).index # "absent"
  BY <1>1 DEF Ended, Settled, JobRecord
<1>3. /\ [jobs[j] EXCEPT !.events = "running"].index # "absent"
      /\ \A a : [jobs[j] EXCEPT !.events = "addressed", !.addr = a].index # "absent"
      /\ \A i \in {"live", "done"} : [jobs[j] EXCEPT !.index = i].index # "absent"
  BY <1>1 DEF JobRecord
<1> QED BY <1>1, <1>2, <1>3, JobBecomes DEF Becomes

LEMMA ListedKept ==
  ASSUME TypeInv, JobsKnown, [Next]_vars, NEW s, Listed(s)
  PROVE  Listed(s)'
<1>1. PICK j \in Job : jobs[j].sandbox = s /\ jobs[j].index # "absent"
  BY DEF Listed, LookoutSet
<1>2. jobs'[j].sandbox = s
  BY <1>1, NextJobs DEF Evolves
<1> QED BY <1>1, <1>2, IndexKept DEF Listed, LookoutSet

(* What the directory may come to remember of a sandbox: nothing new, what a   *)
(* call has located, or what an enumeration found.                             *)
LEMMA RememberedChanges ==
  ASSUME TypeInv, JobsKnown, [Next]_vars, NEW s \in Sandbox
  PROVE  \/ remembered'[s] \in {NoQueue, remembered[s]}
         \/ \E c \in Calls : /\ Locates(c) /\ SandboxOf(c) = s
                             /\ remembered'[s] = calls'[c].queue
         \/ remembered'[s] = sweep.found[s] /\ sweep.found[s] # NoQueue
<1>t. remembered \in [Sandbox -> Queue \cup {NoQueue}]
  BY DEF TypeInv, TypeOK, DirectoryTypeOK
<1>1. CASE UNCHANGED remembered
  BY <1>1
<1>2. ASSUME NEW c \in Calls, Locate(c)
      PROVE  remembered'[s] = remembered[s]
             \/ (Locates(c) /\ SandboxOf(c) = s /\ remembered'[s] = calls'[c].queue)
  <2> DEFINE queue == PlacedQueue(SandboxOf(c), InstOf(c).owned, calls[c].queue)
  <2>1. /\ calls[c].pc = "located" /\ calls'[c].queue = queue
        /\ calls' = [calls EXCEPT ![c] = [calls[c] EXCEPT !.pc = QueueUser(calls[c].op, InstOf(c)),
                                                          !.queue = queue]]
        /\ Remember(SandboxOf(c), queue) /\ UNCHANGED <<jobs, instances>>
    BY <1>2, CallInProgress DEF Locate, Set, TypeInv, TypeOK, CallRecord
  <2>2. Locates(c)
    <3>1. calls \in [Calls -> CallRecord] /\ calls[c] \in CallRecord
      BY DEF TypeInv, TypeOK
    <3>2. /\ calls'[c].pc = QueueUser(calls[c].op, InstOf(c)) /\ calls'[c].op = calls[c].op
          /\ calls'[c].inst = calls[c].inst
      BY <2>1, <3>1 DEF CallRecord
    <3>3. InstOf(c)' = InstOf(c)
      BY <2>1, <3>2 DEF InstOf
    <3> QED BY <2>1, <3>2, <3>3 DEF Locates, InstKept
  <2> HIDE DEF queue
  <2>3. remembered'[s] = IF s = SandboxOf(c) THEN queue ELSE remembered[s]
    BY <1>t, <2>1 DEF Remember
  <2> QED BY <2>1, <2>2, <2>3
<1>3. ASSUME NEW c \in Calls, DestroyReturn(c)
      PROVE  remembered'[s] \in {NoQueue, remembered[s]}
  BY <1>3, <1>t DEF DestroyReturn, Forget
<1>4. CASE ListReturn
  BY <1>4 DEF ListReturn
<1>5. ASSUME NEW cfg \in Configs, Restart(cfg)
      PROVE  remembered'[s] = NoQueue
  BY <1>5 DEF Restart
<1> QED
  BY <1>1, <1>2, <1>3, <1>4, <1>5
     DEF Next, Step, Create, Ready, Destroy, HealthOk, HealthGone, LookupAnswer, SubmitAccept,
         FindAnswer, JobReturn, WatchRunning, AddressKnown, AgentAnswers, CancelAccept, Throw,
         List, Reclaim, Land, Lose, World, vars

-----------------------------------------------------------------------------
(* When the owner map is left alone: every sandbox has a home, the queue of its *)
(* owner, under every map the process is started with.  With no map at all that *)
(* is the default queue.                                                        *)
Home(s) == ForOwner(CHOOSE cfg \in Configs : TRUE, Owner[s])

SettledOwners == \A cfg \in Configs, s \in Sandbox : ForOwner(cfg, Owner[s]) = Home(s)

(* The one way to miss it: a call on an instance that was made by id, without   *)
(* the owner, is told that Lookout holds nothing of the sandbox, and takes the  *)
(* default queue for it.                                                        *)
Misled(c) ==
  /\ calls[c].pc = "located" /\ calls[c].queue = NoQueue
  /\ ~InstOf(c).owned /\ Home(SandboxOf(c)) # DefaultQueue

NobodyMisled == \A c \in Caller : ~Misled(c)

(* The reconciler is never misled, although it knows ids only: what it destroys *)
(* it has from Lookout.                                                         *)
HomeCall(d) ==
  LET s == SandboxOf(d)
      call == calls[d]
  IN  /\ call.pc \in {"submit", "find", "cancelSet"} => call.queue = Home(s)
      /\ call.pc = "located" => call.queue \in {NoQueue, Home(s)}
      /\ d = Reconciler /\ call.pc # "idle" => Listed(s)
      /\ d = Reconciler /\ call.pc = "located" => call.queue # NoQueue

HomeSweep ==
  /\ \A s \in Sandbox : sweep.found[s] # NoQueue => Listed(s) /\ sweep.found[s] = Home(s)
  /\ \A s \in sweep.orphans : Listed(s)

HomeQueue ==
  /\ \A j \in Job : jobs[j].queue = Home(jobs[j].sandbox)
  /\ \A s \in Sandbox : remembered[s] \in {NoQueue, Home(s)}
  /\ \A d \in Calls : HomeCall(d)
  /\ \A s \in Sandbox, q \in Queue : <<s, q>> \in late => q = Home(s)
  /\ HomeSweep

LEMMA HomeIs ==
  ASSUME SettledOwners, TypeOK, NEW s \in Sandbox
  PROVE  /\ Home(s) \in Queue /\ ForOwner(config, Owner[s]) = Home(s)
         /\ HomeQueue => KnownQueue(s) \in {NoQueue, Home(s)}
<1>1. config \in Configs /\ config \in [byUser: QueueMap(User), byProject: QueueMap(Project)]
  BY DEF TypeOK, DirectoryTypeOK
<1>2. ForOwner(config, Owner[s]) = Home(s)
  BY <1>1 DEF SettledOwners
<1>3. PlacedQueue(s, TRUE, NoQueue) \in Queue
  BY QueueTypes
<1>4. Home(s) \in Queue
  BY <1>2, <1>3 DEF PlacedQueue
<1>5. ~Mapped(config) => ForOwner(config, Owner[s]) = DefaultQueue
  <2>1. Owner[s].user \in User \cup {NoUser} /\ Owner[s].project \in Project
    OBVIOUS
  <2> QED BY <1>1, <2>1 DEF Mapped, All, ForOwner
<1>6. HomeQueue => KnownQueue(s) \in {NoQueue, Home(s)}
  BY <1>2, <1>5 DEF KnownQueue, HomeQueue
<1> QED BY <1>2, <1>4, <1>6

(* With no map nobody can be misled. *)
LEMMA SingleIsSettled ==
  ASSUME SingleQueue
  PROVE  SettledOwners /\ \A s \in Sandbox : Home(s) = DefaultQueue
<1>1. ASSUME NEW cfg \in Configs, NEW s \in Sandbox PROVE ForOwner(cfg, Owner[s]) = DefaultQueue
  <2>1. /\ ~Mapped(cfg) /\ cfg \in [byUser: QueueMap(User), byProject: QueueMap(Project)]
        /\ Owner[s].user \in User \cup {NoUser} /\ Owner[s].project \in Project
    BY DEF SingleQueue
  <2> QED BY <2>1 DEF Mapped, All, ForOwner
<1>2. (CHOOSE cfg \in Configs : TRUE) \in Configs
  OBVIOUS
<1> QED BY <1>1, <1>2 DEF SettledOwners, Home

LEMMA FoundIsHome ==
  ASSUME TypeOK, HomeQueue, NEW s \in Sandbox
  PROVE  /\ FindQueue(s) \in {NoQueue, Home(s)} /\ (Listed(s) => FindQueue(s) # NoQueue)
         /\ LookoutActive(s) # {} =>
              Listed(s) /\ jobs[Newest(LookoutActive(s))].queue = Home(s)
<1>1. LookoutSet(s) \in SUBSET Job /\ LookoutActive(s) \in SUBSET Job
  BY DEF LookoutSet, LookoutActive
<1>2. ASSUME LookoutSet(s) # {}
      PROVE  jobs[Newest(LookoutSet(s))].queue = Home(s) /\ Home(s) # NoQueue
  <2>1. Newest(LookoutSet(s)) \in LookoutSet(s) /\ jobs[Newest(LookoutSet(s))] \in JobRecord
    BY <1>1, <1>2, NewestType
  <2>2. jobs[Newest(LookoutSet(s))].queue = Home(s)
    BY <2>1 DEF HomeQueue, LookoutSet
  <2> QED BY <2>1, <2>2 DEF JobRecord
<1>3. ASSUME LookoutActive(s) # {}
      PROVE  Listed(s) /\ jobs[Newest(LookoutActive(s))].queue = Home(s)
  <2>1. Newest(LookoutActive(s)) \in LookoutActive(s)
    BY <1>1, <1>3, NewestType
  <2> QED BY <2>1 DEF HomeQueue, LookoutActive, LookoutSet, Listed
<1> QED BY <1>2, <1>3 DEF FindQueue, Listed

LEMMA HomeCallNext ==
  ASSUME SettledOwners, NobodyMisled, TypeInv, JobsKnown, HomeQueue, [Next]_vars,
         NEW d \in Calls
  PROVE  HomeCall(d)'
<1> DEFINE s == SandboxOf(d)'
<1>t. s \in Sandbox /\ TypeInv' /\ TypeOK /\ HomeCall(d)
  BY TypeNext, CallInProgress DEF TypeInv, TypeOK, CallRecord, SandboxOf, InstOf,
                                  InstanceRecord, HomeQueue
<1>r. d = Reconciler /\ calls'[d].pc # "idle" => Listed(SandboxOf(d))'
  <2> SUFFICES ASSUME d = Reconciler, calls'[d].pc # "idle" PROVE Listed(s)
    BY ListedKept DEF Listed
  <2>1. ASSUME calls[d].pc # "idle", InstKept(d) PROVE Listed(s)
    BY <1>t, <2>1 DEF HomeCall, InstKept, SandboxOf
  <2>2. s \in sweep.orphans => Listed(s)
    BY DEF HomeQueue, HomeSweep
  <2> QED
    BY <2>1, <2>2, NextChanges DEF Changes, Stays, HoldsNone, Resolves, Looks, Locates, SandboxOf
<1>1. CASE Stays(d)
  BY <1>1, <1>t, <1>r DEF Stays, InstKept, HomeCall, SandboxOf
<1>2. CASE HoldsNone(d)
  BY <1>2, <1>r DEF HoldsNone, HomeCall
<1>3. CASE Resolves(d)
  <2>1. /\ calls'[d].queue = KnownQueue(s)
        /\ calls'[d].pc = IF KnownQueue(s) = NoQueue THEN "lookup"
                          ELSE QueueUser(calls'[d].op, InstOf(d)')
    BY <1>3 DEF Resolves, SandboxOf
  <2>2. calls'[d].pc # "located" /\ KnownQueue(s) \in {NoQueue, Home(s)}
    BY <1>t, <2>1, HomeIs DEF QueueUser
  <2> QED BY <1>r, <2>1, <2>2 DEF HomeCall
<1>4. CASE Looks(d)
  <2>1. calls'[d].pc = "located" /\ calls'[d].queue = FindQueue(s) /\ SandboxOf(d) = s
    BY <1>4 DEF Looks, InstKept, SandboxOf
  <2>2. d = Reconciler => Listed(s)
    BY <1>4, <1>t, <2>1 DEF HomeCall, Looks
  <2> QED BY <1>r, <1>t, <2>1, <2>2, FoundIsHome DEF HomeCall
<1>5. CASE Locates(d)
  <2>1. /\ SandboxOf(d) = s /\ calls[d].pc = "located"
        /\ calls'[d].pc = QueueUser(calls'[d].op, InstOf(d)')
        /\ calls'[d].queue = PlacedQueue(s, InstOf(d).owned, calls[d].queue)
    BY <1>5 DEF Locates, InstKept, SandboxOf
  <2>2. calls'[d].queue = Home(s)
    BY <1>t, <2>1, HomeIs DEF HomeCall, PlacedQueue, NobodyMisled, Misled, Calls
  <2>3. calls'[d].pc # "located"
    BY <2>1 DEF QueueUser
  <2> QED BY <1>r, <2>2, <2>3 DEF HomeCall
<1> QED BY <1>1, <1>2, <1>3, <1>4, <1>5, NextChanges DEF Changes

LEMMA HomeSweepNext ==
  ASSUME TypeInv, JobsKnown, HomeQueue, [Next]_vars
  PROVE  HomeSweep'
<1>t. TypeOK /\ sweep \in SweepRecord /\ HomeSweep
  BY DEF TypeInv, TypeOK, HomeQueue
<1>k. \A s : Listed(s) => Listed(s)'
  BY ListedKept
<1>1. CASE UNCHANGED sweep
  BY <1>1, <1>k, <1>t DEF HomeSweep
<1>2. CASE List
  <2>1. /\ \A s \in Sandbox : sweep'.found[s] =
             IF LookoutActive(s) = {} THEN NoQueue ELSE jobs[Newest(LookoutActive(s))].queue
        /\ sweep'.orphans = {}
    BY <1>2 DEF List, Resting
  <2> QED BY <1>k, <1>t, <2>1, FoundIsHome DEF HomeSweep
<1>3. CASE ListReturn
  <2>1. /\ \A s \in Sandbox : sweep'.found[s] = NoQueue
        /\ sweep'.orphans = {s \in released : sweep.found[s] # NoQueue}
        /\ released \subseteq Sandbox
    BY <1>3, <1>t DEF ListReturn, Resting, TypeOK
  <2> QED BY <1>k, <1>t, <2>1 DEF HomeSweep
<1>4. ASSUME NEW s \in Sandbox, Reclaim(s) PROVE HomeSweep'
  <2>1. sweep'.found = sweep.found /\ sweep'.orphans = sweep.orphans \ {s}
    BY <1>4, <1>t DEF Reclaim, SweepRecord
  <2> QED BY <1>k, <1>t, <2>1 DEF HomeSweep
<1>5. ASSUME NEW cfg \in Configs, Restart(cfg) PROVE HomeSweep'
  <2>1. (\A s \in Sandbox : sweep'.found[s] = NoQueue) /\ sweep'.orphans = {}
    BY <1>5 DEF Restart, Resting
  <2> QED BY <2>1 DEF HomeSweep
<1> QED
  BY <1>1, <1>2, <1>3, <1>4, <1>5
     DEF Next, Step, Create, Ready, Destroy, HealthOk, HealthGone, LookupAnswer, Locate,
         SubmitAccept, FindAnswer, JobReturn, WatchRunning, AddressKnown, AgentAnswers,
         CancelAccept, DestroyReturn, Throw, Land, Lose, World, process, vars

LEMMA HomeNext ==
  ASSUME SettledOwners, NobodyMisled, TypeInv, JobsKnown, HomeQueue, [Next]_vars
  PROVE  HomeQueue'
<1>1. \A j \in Job' : jobs'[j].queue = Home(jobs'[j].sandbox)
  <2>1. Evolves /\ Job = 1..Len(jobs) /\ Job' = 1..Len(jobs') /\ Len(jobs) \in Nat
    BY NextJobs, JobDomain DEF TypeInv, Evolves, Job
  <2>2. ASSUME NEW j \in Job, j \in Job' PROVE jobs'[j].queue = Home(jobs'[j].sandbox)
    BY <2>1 DEF Evolves, HomeQueue
  <2>3. ASSUME NEW z, NEW q, Keeps(z, q) PROVE Job' = Job
    BY <2>1, <2>3 DEF Keeps
  <2>4. ASSUME NEW c \in Calls, calls[c].pc = "submit", Submits(SandboxOf(c), calls[c].queue)
        PROVE  \A j \in Job' : jobs'[j].queue = Home(jobs'[j].sandbox)
    <3>1. \A j \in Job' : j \in Job \/ j = Len(jobs) + 1
      BY <2>1, <2>4 DEF Submits
    <3>2. calls[c].queue = Home(SandboxOf(c))
      BY <2>4 DEF HomeQueue, HomeCall
    <3> QED BY <2>2, <2>4, <3>1, <3>2 DEF Submits
  <2>5. ASSUME NEW z \in Sandbox, NEW q \in Queue, LandsLate(z, q)
        PROVE  \A j \in Job' : jobs'[j].queue = Home(jobs'[j].sandbox)
    <3>1. \A j \in Job' : j \in Job \/ j = Len(jobs) + 1
      BY <2>1, <2>5 DEF LandsLate, Submits
    <3>2. q = Home(z)
      BY <2>5 DEF HomeQueue, LandsLate
    <3> QED BY <2>2, <2>5, <3>1, <3>2 DEF LandsLate, Submits
  <2> QED BY <2>2, <2>3, <2>4, <2>5, NextJobs
<1>2. ASSUME NEW s \in Sandbox PROVE remembered'[s] \in {NoQueue, Home(s)}
  <2>1. ASSUME NEW c \in Calls, Locates(c), SandboxOf(c) = s
        PROVE  calls'[c].queue = Home(s)
    <3>1. /\ calls'[c].pc \in {"submit", "find", "cancelSet"} /\ SandboxOf(c)' = s
      BY <2>1 DEF Locates, InstKept, SandboxOf, QueueUser
    <3> QED BY <3>1, HomeCallNext DEF HomeCall
  <2> QED BY <2>1, RememberedChanges DEF HomeQueue, HomeSweep
<1>3. (\A d \in Calls : HomeCall(d))'
  BY HomeCallNext
<1>4. ASSUME NEW s \in Sandbox, NEW q \in Queue, <<s, q>> \in late' PROVE q = Home(s)
  <2>1. CASE <<s, q>> \in late
    BY <2>1 DEF HomeQueue
  <2>2. ASSUME NEW c \in Calls, calls[c].pc = "submit", <<s, q>> = <<SandboxOf(c), calls[c].queue>>
        PROVE  q = Home(s)
    BY <2>2 DEF HomeQueue, HomeCall
  <2> QED BY <1>4, <2>1, <2>2, LateChanges
<1> QED
  BY <1>1, <1>2, <1>3, <1>4, HomeSweepNext DEF HomeQueue

LEMMA HomeInit == Init => HomeQueue
<1> SUFFICES ASSUME Init PROVE HomeQueue
  OBVIOUS
<1>1. Job = {}
  BY DEF Init, ArmadaInit, Job
<1>2. \A d \in Calls : HomeCall(d)
  BY DEF Init, HomeCall, Idle
<1>3. HomeSweep
  BY DEF Init, HomeSweep, Resting
<1> QED BY <1>1, <1>2, <1>3 DEF HomeQueue, Init, DirectoryInit

-----------------------------------------------------------------------------
(* With owner maps, when marimohub makes one call at a time, Lookout does not  *)
(* lag and a submit ends with the call that made it: one that lands late may   *)
(* do so after the owner's map has moved.  Every map in use must differ from   *)
(* the default: a map that is retired makes `resolve' answer without asking    *)
(* (run retired_map).                                                          *)
OneAtATime ==
  /\ ~LookoutLags
  /\ ~SubmitsLinger
  /\ \A cfg \in Configs : Mapped(cfg)
  /\ \A c, d \in Caller : c = d

InQueue(s, q) == \A j \in Job : jobs[j].sandbox = s => jobs[j].queue = q

HasJob(s) == \E j \in Job : jobs[j].sandbox = s

(* A sandbox's jobs are in one queue and Lookout knows them all. *)
OneQueue == \A s \in Sandbox : \E q \in Queue : InQueue(s, q)

Indexed == \A j \in Job : jobs[j].index # "absent"

(* A call that uses its queue has the right one, and so does the directory; a  *)
(* call Lookout has answered got the truth, and it still is; the reconciler    *)
(* works on sandboxes that have a job.                                         *)
PlacedCall(d) ==
  LET s == SandboxOf(d)
      call == calls[d]
  IN  /\ call.pc \in {"submit", "find", "cancelSet"} =>
           InQueue(s, call.queue) /\ remembered[s] \in {NoQueue, call.queue}
      /\ call.pc = "located" /\ call.queue = NoQueue => ~HasJob(s)
      /\ call.pc = "located" /\ call.queue # NoQueue => HasJob(s) /\ InQueue(s, call.queue)
      /\ d = Reconciler /\ call.pc # "idle" => HasJob(s)

PlacedSweep ==
  /\ \A s \in Sandbox : sweep.found[s] # NoQueue => HasJob(s) /\ InQueue(s, sweep.found[s])
  /\ \A s \in sweep.orphans : HasJob(s)

Placed ==
  /\ OneQueue
  /\ Indexed
  /\ \A s \in Sandbox : remembered[s] # NoQueue => InQueue(s, remembered[s])
  /\ \A d \in Calls : PlacedCall(d)
  /\ PlacedSweep
  /\ late = {}

LEMMA QueueIsOne ==
  ASSUME NEW s, NEW p, NEW q, HasJob(s), InQueue(s, p), InQueue(s, q)
  PROVE  p = q
  BY DEF HasJob, InQueue

LEMMA NoJobAnyQueue ==
  ASSUME NEW s, ~HasJob(s), NEW q
  PROVE  InQueue(s, q)
  BY DEF HasJob, InQueue

(* What happens to jobs: they stay where they are, and a new one is submitted  *)
(* by marimohub, for a sandbox that had none, where its call says.             *)
SubmitsFor(c) ==
  /\ c \in Caller /\ calls[c].pc = "submit" /\ calls'[c].pc = "returned"
  /\ ~HasJob(SandboxOf(c))
  /\ remembered[SandboxOf(c)] \in {NoQueue, calls[c].queue}
  /\ \A z : HasJob(z)' => HasJob(z) \/ z = SandboxOf(c)
  /\ \A z, q : InQueue(z, q) /\ (z = SandboxOf(c) => q = calls[c].queue) => InQueue(z, q)'

SubmitsNothing ==
  \A z : /\ HasJob(z)' => HasJob(z)
         /\ \A q : InQueue(z, q) => InQueue(z, q)'

LEMMA PlacedJobs ==
  ASSUME TypeInv, JobsKnown, Placed, [Next]_vars
  PROVE  /\ \A z : HasJob(z) => HasJob(z)'
         /\ SubmitsNothing \/ \E c \in Calls : SubmitsFor(c)
<1>1. /\ Evolves /\ Job = 1..Len(jobs) /\ Len(jobs) \in Nat
      /\ Job' = 1..Len(jobs') /\ Len(jobs') \in Nat
      /\ Job \subseteq Job'
  BY NextJobs, JobDomain DEF TypeInv, Evolves, Job
<1>2. \A z : HasJob(z) => HasJob(z)'
  BY <1>1 DEF HasJob, Evolves
<1>3. ASSUME NEW s, NEW q, Keeps(s, q) PROVE SubmitsNothing
  BY <1>1, <1>3 DEF SubmitsNothing, Keeps, Evolves, HasJob, InQueue
<1>4. ASSUME NEW c \in Calls, calls[c].pc = "submit", calls'[c].pc = "returned",
             Submits(SandboxOf(c), calls[c].queue)
      PROVE  SubmitsFor(c)
  <2> DEFINE s == SandboxOf(c)
             q == calls[c].queue
  <2>1. InQueue(s, q) /\ remembered[s] \in {NoQueue, q} /\ (c = Reconciler => HasJob(s))
    BY <1>4 DEF Placed, PlacedCall
  <2>2. /\ InSet(s, q) = {} /\ Len(jobs') = Len(jobs) + 1
        /\ \A j \in Job : jobs'[j] = jobs[j]
        /\ jobs'[Len(jobs) + 1].sandbox = s /\ jobs'[Len(jobs) + 1].queue = q
    BY <1>4 DEF Submits
  <2> HIDE DEF s, q
  <2>3. ~HasJob(s)
    BY <2>1, <2>2 DEF HasJob, InQueue, InSet
  <2>4. \A j \in Job' : j \in Job \/ j = Len(jobs) + 1
    BY <1>1, <2>2
  <2>5. \A z : HasJob(z)' => HasJob(z) \/ z = s
    BY <2>2, <2>4 DEF HasJob
  <2>6. \A z, p : InQueue(z, p) /\ (z = s => p = q) => InQueue(z, p)'
    BY <2>2, <2>4 DEF InQueue
  <2>7. c \in Caller
    BY <2>1, <2>3 DEF Calls
  <2> QED BY <1>4, <2>1, <2>3, <2>5, <2>6, <2>7 DEF SubmitsFor, s, q
<1>5. \A s, q : ~LandsLate(s, q)
  BY DEF LandsLate, Placed
<1> QED BY <1>2, <1>3, <1>4, <1>5, NextJobs

(* A Lookout that does not lag knows every job. *)
LEMMA IndexedNext ==
  ASSUME TypeInv, JobsKnown, ~LookoutLags, Indexed, [Next]_vars
  PROVE  Indexed'
<1> SUFFICES ASSUME NEW j \in Job' PROVE jobs'[j].index # "absent"
  BY DEF Indexed
<1>1. CASE j \in Job
  BY <1>1, IndexKept DEF Indexed
<1>2. ASSUME JustSubmitted(jobs'[j]) PROVE jobs'[j].index # "absent"
  <2>1. PICK s \in Sandbox, q \in Queue :
          jobs'[j] = Settled([sandbox |-> s, queue |-> q, live |-> TRUE, events |-> "submitted",
                              addr |-> 0, index |-> "absent"])
    BY <1>2 DEF JustSubmitted
  <2> QED BY <2>1 DEF Settled
<1> QED BY <1>1, <1>2, JobBecomes DEF Becomes

(* What a call located is right, and nobody else has the sandbox in hand when  *)
(* Lookout has no job of it.                                                   *)
LEMMA LocatedIsRight ==
  ASSUME OneAtATime, TypeInv, JobsKnown, Placed, [Next]_vars, NEW c \in Calls, Locates(c)
  PROVE  LET s == SandboxOf(c)
             q == calls'[c].queue
         IN  /\ s \in Sandbox /\ q \in Queue /\ InQueue(s, q)
             /\ remembered' = [remembered EXCEPT ![s] = q]
             /\ \/ HasJob(s)
                \/ \A d \in Calls : d # c /\ calls[d].pc # "idle" => SandboxOf(d) # s
<1> DEFINE s == SandboxOf(c)
           q == calls'[c].queue
<1>1. /\ calls[c].pc = "located"
      /\ q = PlacedQueue(s, InstOf(c).owned, calls[c].queue)
      /\ remembered' = [remembered EXCEPT ![s] = q]
  BY DEF Locates, Remember
<1>2. /\ s \in Sandbox /\ InstOf(c).owned \in BOOLEAN /\ calls[c].queue \in Queue \cup {NoQueue}
      /\ TypeOK
  BY CallInProgress DEF InstanceRecord, CallRecord, TypeInv
<1>3. q \in Queue
  BY <1>1, <1>2, QueueTypes
<1>4. CASE calls[c].queue # NoQueue
  <2>1. q = calls[c].queue
    BY <1>1, <1>4 DEF PlacedQueue
  <2> QED BY <1>1, <1>2, <1>3, <1>4, <2>1 DEF Placed, PlacedCall
<1>5. CASE calls[c].queue = NoQueue
  <2>1. ~HasJob(s)
    BY <1>1, <1>5 DEF Placed, PlacedCall
  <2>2. c # Reconciler
    BY <1>1, <2>1 DEF Placed, PlacedCall
  <2>3. ASSUME NEW d \in Calls, d # c, calls[d].pc # "idle", SandboxOf(d) = s PROVE FALSE
    <3>1. d = Reconciler
      BY <2>2, <2>3 DEF OneAtATime, Calls
    <3>2. HasJob(SandboxOf(d))
      BY <2>3, <3>1 DEF Placed, PlacedCall
    <3> QED BY <2>1, <2>3, <3>2
  <2> QED BY <1>1, <1>2, <1>3, <2>1, <2>3, NoJobAnyQueue
<1> QED BY <1>4, <1>5

(* What happens to a call that has a queue in hand and is not served now. *)
LEMMA PlacedStays ==
  ASSUME OneAtATime, TypeInv, JobsKnown, Placed, [Next]_vars,
         NEW d \in Calls, Stays(d), calls[d].pc # "idle"
  PROVE  PlacedCall(d)'
<1> DEFINE s == SandboxOf(d)
           q == calls[d].queue
<1>1. /\ calls'[d] = calls[d] /\ SandboxOf(d)' = s /\ s \in Sandbox
      /\ PlacedCall(d)
  BY CallInProgress DEF Stays, InstKept, SandboxOf, Placed
<1>2. \A z : HasJob(z) => HasJob(z)'
  BY PlacedJobs
<1>3. ASSUME NEW c \in Calls, SubmitsFor(c)
      PROVE  SandboxOf(c) # s
  <2>1. c # d /\ c \in Caller /\ ~HasJob(SandboxOf(c))
    BY <1>1, <1>3 DEF SubmitsFor
  <2>2. d = Reconciler
    BY <2>1 DEF OneAtATime, Calls
  <2> QED BY <1>1, <2>1, <2>2 DEF PlacedCall
<1>4. (HasJob(s) <=> \A z : z = s => HasJob(z)') /\ \A p : InQueue(s, p) => \A z : z = s => InQueue(z, p)'
  BY <1>2, <1>3, PlacedJobs DEF SubmitsNothing, SubmitsFor
<1>5. ASSUME calls[d].pc \in {"submit", "find", "cancelSet"}
      PROVE  remembered'[s] \in {NoQueue, q}
  <2>1. InQueue(s, q) /\ remembered[s] \in {NoQueue, q}
    BY <1>1, <1>5 DEF PlacedCall
  <2>2. CASE remembered'[s] = sweep.found[s] /\ sweep.found[s] # NoQueue
    <3>1. HasJob(s) /\ InQueue(s, sweep.found[s])
      BY <1>1, <2>2 DEF Placed, PlacedSweep
    <3> QED BY <2>1, <2>2, <3>1, QueueIsOne
  <2>3. ASSUME NEW c \in Calls, Locates(c), SandboxOf(c) = s, remembered'[s] = calls'[c].queue
        PROVE  remembered'[s] = q
    <3>1. c # d
      BY <1>5, <2>3 DEF Locates
    <3>2. HasJob(s) /\ InQueue(s, calls'[c].queue)
      BY <2>3, <3>1, LocatedIsRight
    <3> QED BY <2>1, <2>3, <3>2, QueueIsOne
  <2> QED BY <1>1, <2>1, <2>2, <2>3, RememberedChanges
<1> QED
  BY <1>1, <1>4, <1>5 DEF PlacedCall

LEMMA PlacedCallNext ==
  ASSUME OneAtATime, TypeInv, JobsKnown, Placed, [Next]_vars, NEW d \in Calls
  PROVE  PlacedCall(d)'
<1> DEFINE s == SandboxOf(d)'
<1>t. /\ s \in Sandbox /\ TypeInv' /\ TypeOK /\ Mapped(config)
      /\ calls'[d].op \in {"ready", "destroy"}
  BY TypeNext, CallInProgress DEF OneAtATime, TypeInv, TypeOK, DirectoryTypeOK, CallRecord,
                                  SandboxOf, InstOf, InstanceRecord
<1>r. d = Reconciler /\ calls'[d].pc # "idle" => HasJob(s)
  <2> SUFFICES ASSUME d = Reconciler, calls'[d].pc # "idle" PROVE HasJob(s)
    OBVIOUS
  <2>1. ASSUME calls[d].pc # "idle", InstKept(d) PROVE HasJob(s)
    BY <2>1 DEF Placed, PlacedCall, InstKept, SandboxOf
  <2>2. s \in sweep.orphans => HasJob(s)
    BY DEF Placed, PlacedSweep
  <2> QED
    BY <2>1, <2>2, NextChanges DEF Changes, Stays, HoldsNone, Resolves, Looks, Locates, SandboxOf
<1>k. d = Reconciler /\ calls'[d].pc # "idle" => HasJob(SandboxOf(d))'
  BY <1>r, PlacedJobs
<1>1. CASE Stays(d) /\ calls[d].pc # "idle"
  BY <1>1, PlacedStays
<1>2. CASE Stays(d) /\ calls[d].pc = "idle"
  BY <1>2, <1>k DEF Stays, PlacedCall
<1>3. CASE HoldsNone(d)
  BY <1>3, <1>k DEF HoldsNone, PlacedCall
<1>4. CASE Resolves(d)
  <2>1. /\ calls'[d].queue = KnownQueue(s) /\ UNCHANGED <<jobs, remembered>>
        /\ calls'[d].pc = IF KnownQueue(s) = NoQueue THEN "lookup"
                          ELSE QueueUser(calls'[d].op, InstOf(d)')
    BY <1>4 DEF Resolves, SandboxOf
  <2>2. KnownQueue(s) = remembered[s]
    BY <1>t DEF KnownQueue
  <2>3. calls'[d].pc # "located"
    BY <2>1 DEF QueueUser
  <2>4. ASSUME calls'[d].pc \in {"submit", "find", "cancelSet"}
        PROVE  InQueue(s, calls'[d].queue) /\ remembered[s] = calls'[d].queue
    BY <1>t, <2>1, <2>2, <2>4 DEF Placed
  <2>5. \A z, p : InQueue(z, p) => InQueue(z, p)'
    BY <2>1 DEF InQueue, Job
  <2> QED BY <1>k, <2>1, <2>3, <2>4, <2>5 DEF PlacedCall
<1>5. CASE Looks(d)
  <2>1. /\ calls'[d].pc = "located" /\ calls'[d].queue = FindQueue(s) /\ UNCHANGED jobs
    BY <1>5 DEF Looks, InstKept, SandboxOf
  <2>2. FindQueue(s) = NoQueue => ~HasJob(s)
    <3>1. LookoutSet(s) = {} => ~HasJob(s)
      BY DEF LookoutSet, HasJob, Placed, Indexed
    <3>2. LookoutSet(s) # {} => FindQueue(s) \in Queue
      <4>1. LookoutSet(s) \in SUBSET Job
        BY DEF LookoutSet
      <4> QED BY <1>t, <4>1, NewestType DEF FindQueue, JobRecord
    <3> QED BY <3>1, <3>2
  <2>3. FindQueue(s) # NoQueue => HasJob(s) /\ InQueue(s, FindQueue(s))
    <3> SUFFICES ASSUME FindQueue(s) # NoQueue PROVE HasJob(s) /\ InQueue(s, FindQueue(s))
      OBVIOUS
    <3>1. LookoutSet(s) # {} /\ LookoutSet(s) \in SUBSET Job
      BY DEF FindQueue, LookoutSet
    <3>2. Newest(LookoutSet(s)) \in LookoutSet(s)
      BY <1>t, <3>1, NewestType
    <3>3. PICK j \in Job : jobs[j].sandbox = s /\ FindQueue(s) = jobs[j].queue
      BY <3>1, <3>2 DEF FindQueue, LookoutSet
    <3>4. \A k \in Job : jobs[k].sandbox = s => jobs[k].queue = jobs[j].queue
      BY <1>t, <3>3 DEF Placed, OneQueue, InQueue
    <3> QED BY <3>3, <3>4 DEF HasJob, InQueue
  <2>4. /\ \A z, p : InQueue(z, p) => InQueue(z, p)'
        /\ \A z : HasJob(z)' <=> HasJob(z)
    BY <2>1 DEF InQueue, HasJob, Job
  <2> QED BY <1>k, <2>1, <2>2, <2>3, <2>4 DEF PlacedCall
<1>6. CASE Locates(d)
  <2>1. /\ SandboxOf(d) = s /\ UNCHANGED jobs
        /\ calls'[d].pc = QueueUser(calls'[d].op, InstOf(d)')
    BY <1>6 DEF Locates, InstKept, SandboxOf
  <2>2. InQueue(s, calls'[d].queue) /\ remembered' = [remembered EXCEPT ![s] = calls'[d].queue]
    BY <1>6, <2>1, LocatedIsRight
  <2>3. remembered'[s] = calls'[d].queue
    BY <1>t, <2>2 DEF TypeOK, DirectoryTypeOK
  <2>4. calls'[d].pc # "located"
    BY <2>1 DEF QueueUser
  <2>5. \A z, p : InQueue(z, p) => InQueue(z, p)'
    BY <2>1 DEF InQueue, Job
  <2> QED BY <1>k, <2>2, <2>3, <2>4, <2>5 DEF PlacedCall
<1> QED
  BY <1>1, <1>2, <1>3, <1>4, <1>5, <1>6, NextChanges DEF Changes

LEMMA PlacedSweepNext ==
  ASSUME TypeInv, JobsKnown, Placed, [Next]_vars
  PROVE  PlacedSweep'
<1>t. TypeOK /\ sweep \in SweepRecord
  BY DEF TypeInv, TypeOK
<1>u. ASSUME UNCHANGED jobs
      PROVE  /\ \A z, p : InQueue(z, p) => InQueue(z, p)'
             /\ \A z : HasJob(z) => HasJob(z)'
  BY <1>u DEF InQueue, HasJob, Job
<1>1. CASE UNCHANGED sweep
  <2>1. ASSUME NEW s, HasJob(s)
        PROVE  HasJob(s)' /\ \A p : InQueue(s, p) => InQueue(s, p)'
    BY <2>1, PlacedJobs DEF SubmitsNothing, SubmitsFor
  <2>2. \A s \in sweep.orphans : HasJob(s)'
    BY <2>1 DEF Placed, PlacedSweep
  <2>3. \A s \in Sandbox : sweep.found[s] # NoQueue =>
          HasJob(s)' /\ \A p : p = sweep.found[s] => InQueue(s, p)'
    BY <2>1 DEF Placed, PlacedSweep
  <2> QED BY <1>1, <2>2, <2>3 DEF PlacedSweep
<1>2. CASE List
  <2>1. ASSUME NEW s \in Sandbox, LookoutActive(s) # {}
        PROVE  HasJob(s) /\ InQueue(s, jobs[Newest(LookoutActive(s))].queue)
    <3>1. LookoutActive(s) \in SUBSET Job
      BY DEF LookoutActive
    <3>2. Newest(LookoutActive(s)) \in LookoutActive(s)
      BY <1>t, <2>1, <3>1, NewestType
    <3>3. PICK j \in Job : j = Newest(LookoutActive(s)) /\ jobs[j].sandbox = s
      BY <3>2 DEF LookoutActive
    <3> QED BY <3>3 DEF HasJob, InQueue, Placed, OneQueue
  <2>2. /\ \A s \in Sandbox : sweep'.found[s] =
             IF LookoutActive(s) = {} THEN NoQueue ELSE jobs[Newest(LookoutActive(s))].queue
        /\ sweep'.orphans = {} /\ UNCHANGED jobs
    BY <1>2 DEF List, Resting
  <2> QED BY <1>u, <2>1, <2>2 DEF PlacedSweep
<1>3. CASE ListReturn
  <2>1. /\ \A s \in Sandbox : sweep'.found[s] = NoQueue
        /\ sweep'.orphans = {s \in released : sweep.found[s] # NoQueue}
        /\ released \subseteq Sandbox /\ UNCHANGED jobs
    BY <1>3, <1>t DEF ListReturn, Resting, TypeOK
  <2> QED BY <1>u, <2>1 DEF PlacedSweep, Placed
<1>4. ASSUME NEW s \in Sandbox, Reclaim(s) PROVE PlacedSweep'
  <2>1. sweep'.found = sweep.found /\ sweep'.orphans = sweep.orphans \ {s} /\ UNCHANGED jobs
    BY <1>4, <1>t DEF Reclaim, SweepRecord
  <2> QED BY <1>u, <2>1 DEF PlacedSweep, Placed
<1>5. ASSUME NEW cfg \in Configs, Restart(cfg) PROVE PlacedSweep'
  <2>1. (\A s \in Sandbox : sweep'.found[s] = NoQueue) /\ sweep'.orphans = {}
    BY <1>5 DEF Restart, Resting
  <2> QED BY <2>1 DEF PlacedSweep
<1> QED
  BY <1>1, <1>2, <1>3, <1>4, <1>5
     DEF Next, Step, Create, Ready, Destroy, HealthOk, HealthGone, LookupAnswer, Locate,
         SubmitAccept, FindAnswer, JobReturn, WatchRunning, AddressKnown, AgentAnswers,
         CancelAccept, DestroyReturn, Throw, Land, Lose, World, process, vars

LEMMA PlacedNext ==
  ASSUME OneAtATime, TypeInv, JobsKnown, Placed, [Next]_vars
  PROVE  Placed'
<1>1. OneQueue'
  <2> SUFFICES ASSUME NEW s \in Sandbox PROVE \E q \in Queue : InQueue(s, q)'
    BY DEF OneQueue
  <2>1. PICK q \in Queue : InQueue(s, q)
    BY DEF Placed, OneQueue
  <2>2. ASSUME NEW c \in Calls, SubmitsFor(c) PROVE \E p \in Queue : InQueue(s, p)'
    <3>1. calls[c].queue \in Queue
      BY <2>2, CallInProgress DEF SubmitsFor, HasQueue
    <3>2. CASE s = SandboxOf(c)
      BY <2>2, <3>1, <3>2, NoJobAnyQueue DEF SubmitsFor
    <3>3. CASE s # SandboxOf(c)
      BY <2>1, <2>2, <3>3 DEF SubmitsFor
    <3> QED BY <3>2, <3>3
  <2> QED BY <2>1, <2>2, PlacedJobs DEF SubmitsNothing
<1>2. Indexed'
  BY IndexedNext DEF Placed, OneAtATime
<1>3. ASSUME NEW s \in Sandbox, remembered'[s] # NoQueue
      PROVE  \A q : q = remembered'[s] => InQueue(s, q)'
  <2>1. InQueue(s, remembered'[s])
    <3>1. ASSUME NEW c \in Calls, Locates(c), SandboxOf(c) = s, remembered'[s] = calls'[c].queue
          PROVE  InQueue(s, remembered'[s])
      BY <3>1, LocatedIsRight
    <3> QED BY <1>3, <3>1, RememberedChanges DEF Placed, PlacedSweep
  <2>2. ASSUME NEW c \in Calls, SubmitsFor(c), SandboxOf(c) = s
        PROVE  remembered'[s] = calls[c].queue
    <3>1. /\ remembered[s] \in {NoQueue, calls[c].queue} /\ ~HasJob(s)
          /\ calls[c].pc = "submit" /\ c \in Caller
      BY <2>2 DEF SubmitsFor
    <3>2. sweep.found[s] = NoQueue
      BY <3>1 DEF Placed, PlacedSweep
    <3>3. ASSUME NEW d \in Calls, Locates(d), SandboxOf(d) = s PROVE FALSE
      BY <2>2, <3>1, <3>3, LocatedIsRight DEF Locates
    <3> QED BY <1>3, <3>1, <3>2, <3>3, RememberedChanges
  <2> QED BY <2>1, <2>2, PlacedJobs DEF SubmitsNothing, SubmitsFor
<1>4. (\A d \in Calls : PlacedCall(d))' /\ PlacedSweep'
  BY PlacedCallNext, PlacedSweepNext
<1>5. late' = {}
  BY LateChanges DEF Placed, OneAtATime
<1> QED BY <1>1, <1>2, <1>3, <1>4, <1>5 DEF Placed

LEMMA PlacedInit == Init => Placed
<1> SUFFICES ASSUME Init PROVE Placed
  OBVIOUS
<1>1. Job = {}
  BY DEF Init, ArmadaInit, Job
<1>2. OneQueue /\ Indexed
  BY <1>1 DEF OneQueue, Indexed, InQueue
<1>3. \A d \in Calls : PlacedCall(d)
  BY DEF Init, PlacedCall, Idle
<1>4. PlacedSweep
  BY DEF Init, PlacedSweep, Resting
<1> QED BY <1>2, <1>3, <1>4 DEF Placed, Init, DirectoryInit

-----------------------------------------------------------------------------
(* What holds in every deployment, and what holds where a sandbox's queue is    *)
(* never in doubt.                                                              *)
QueueInv == TypeInv /\ JobsKnown /\ UniqueJob

Sure == QueueInv /\ (HomeQueue \/ Placed)

(* The cases in which it is not: no owner map leaves the default queue; the     *)
(* maps agree on every owner and nobody is misled, with Lookout and submits as  *)
(* late and calls as many as they like in both; or maps that move owners at a   *)
(* restart, with one call at a time and no submit that outlives it.             *)
QueueCertain == SingleQueue \/ (SettledOwners /\ []NobodyMisled) \/ OneAtATime

LEMMA QueueInit == Init => QueueInv
<1> SUFFICES ASSUME Init PROVE QueueInv
  OBVIOUS
<1>1. Job = {}
  BY DEF Init, ArmadaInit, Job
<1>2. UniqueJob
  BY <1>1 DEF UniqueJob
<1> QED
  BY <1>2, TypeInit, KnownInit DEF QueueInv

LEMMA QueueNext == QueueInv /\ [Next]_vars => QueueInv'
<1> SUFFICES ASSUME QueueInv, [Next]_vars PROVE QueueInv'
  OBVIOUS
<1> QED
  BY TypeNext, KnownNext, UniqueNext DEF QueueInv

LEMMA QueueAlways == Spec => []QueueInv
  BY QueueInit, QueueNext, PTL DEF Spec

LEMMA HomeAlways == Spec /\ SettledOwners /\ []NobodyMisled => []HomeQueue
<1>1. SettledOwners /\ NobodyMisled /\ QueueInv /\ HomeQueue /\ [Next]_vars => HomeQueue'
  BY HomeNext DEF QueueInv
<1>2. SettledOwners => SettledOwners'
  BY DEF SettledOwners, Home
<1> QED
  BY <1>1, <1>2, HomeInit, QueueAlways, PTL DEF Spec

LEMMA SureAlways == Spec /\ QueueCertain => []Sure
<1>1. OneAtATime /\ QueueInv /\ Placed /\ [Next]_vars => Placed'
  BY PlacedNext DEF QueueInv
<1>2. OneAtATime => OneAtATime'
  BY DEF OneAtATime
<1>3. SingleQueue => SettledOwners
  BY SingleIsSettled
<1>4. SingleQueue /\ QueueInv => NobodyMisled
  <2> SUFFICES ASSUME SingleQueue, QueueInv, NEW c \in Caller, Misled(c) PROVE FALSE
    BY DEF NobodyMisled
  <2>1. SandboxOf(c) \in Sandbox
    BY CallInProgress DEF QueueInv, Calls
  <2> QED BY <2>1, SingleIsSettled DEF Misled
<1>5. SingleQueue => SingleQueue'
  BY DEF SingleQueue
<1>6. QueueInv /\ (HomeQueue \/ Placed) => Sure
  BY DEF Sure
<1> QED
  BY <1>1, <1>2, <1>3, <1>4, <1>5, <1>6, PlacedInit, QueueAlways, HomeAlways, PTL
     DEF Spec, QueueCertain

(* A sandbox has then one job in all, and a call that submits or cancels by set *)
(* does so where that job is.                                                   *)
LEMMA OneJob ==
  ASSUME Sure, NEW j \in Job, NEW k \in Job, jobs[j].sandbox = jobs[k].sandbox
  PROVE  j = k
<1>1. CASE HomeQueue
  BY <1>1 DEF Sure, QueueInv, UniqueJob, HomeQueue
<1>2. CASE Placed
  <2>1. jobs[j].sandbox \in Sandbox
    BY JobDomain DEF Sure, QueueInv, TypeInv, JobRecord
  <2>2. jobs[j].queue = jobs[k].queue
    BY <1>2, <2>1 DEF Placed, OneQueue, InQueue
  <2> QED BY <2>2 DEF Sure, QueueInv, UniqueJob
<1> QED BY <1>1, <1>2 DEF Sure

LEMMA Aimed ==
  ASSUME Sure, NEW c \in Calls, calls[c].pc \in {"submit", "cancelSet"}
  PROVE  InQueue(SandboxOf(c), calls[c].queue)
<1>1. CASE HomeQueue
  BY <1>1 DEF HomeQueue, HomeCall, InQueue
<1>2. CASE Placed
  BY <1>2 DEF Placed, PlacedCall
<1> QED BY <1>1, <1>2 DEF Sure

LEMMA AimedLate ==
  ASSUME Sure, NEW s \in Sandbox, NEW q \in Queue, <<s, q>> \in late
  PROVE  InQueue(s, q)
  BY DEF Sure, HomeQueue, Placed, InQueue

(* A sandbox never has two live kernels, although submits are repeated by lost  *)
(* answers, by other instances and after restarts: also when calls overlap and  *)
(* Lookout lags, unless a call by id alone was told that Lookout holds nothing  *)
(* of a sandbox whose owner has a queue of his own; and also when owners move,  *)
(* one call at a time.                                                          *)
THEOREM KernelsAreSingle == Spec /\ QueueCertain => []OneKernel
<1>1. Sure => OneKernel
  <2>1. \A s : LiveJobs(s) \subseteq Job /\ \A j \in LiveJobs(s) : jobs[j].sandbox = s
    BY DEF LiveJobs
  <2> QED BY <2>1, OneJob DEF OneKernel
<1> QED
  BY <1>1, SureAlways, PTL

(* The queue the directory remembers of a sandbox is the one its live jobs are  *)
(* in, through lookups, enumerations, destroys and restarts with another map.   *)
THEOREM MemoryIsRight == Spec /\ QueueCertain => []RememberedIsRight
<1>1. Sure => RememberedIsRight
  <2>1. \A s : LiveJobs(s) \subseteq Job /\ \A j \in LiveJobs(s) : jobs[j].sandbox = s
    BY DEF LiveJobs
  <2>2. HomeQueue => RememberedIsRight
    BY <2>1 DEF HomeQueue, RememberedIsRight
  <2>3. Placed => RememberedIsRight
    BY <2>1 DEF Placed, InQueue, RememberedIsRight
  <2> QED BY <2>2, <2>3 DEF Sure
<1> QED
  BY <1>1, SureAlways, PTL

(* The job of every sandbox is in the queue its owner has under the map of now. *)
AtHome == \A j \in Job : jobs[j].queue = ForOwner(config, Owner[jobs[j].sandbox])

(* Where the owner map is left alone and nobody is misled, what a user or a     *)
(* project runs is charged to its own queue: also the job of a call that looked *)
(* the sandbox up by id, and of one that overlapped its owner's (queues.ts      *)
(* resolve and forOwner).                                                       *)
THEOREM KernelsAreAtHome == Spec /\ SettledOwners /\ []NobodyMisled => []AtHome
<1>1. SettledOwners /\ QueueInv /\ HomeQueue => AtHome
  <2> SUFFICES ASSUME SettledOwners, QueueInv, HomeQueue, NEW j \in Job
               PROVE  jobs[j].queue = ForOwner(config, Owner[jobs[j].sandbox])
    BY DEF AtHome
  <2>1. jobs[j].sandbox \in Sandbox /\ TypeOK
    BY JobDomain DEF QueueInv, TypeInv, JobRecord
  <2> QED BY <2>1, HomeIs DEF HomeQueue
<1>2. SettledOwners => SettledOwners'
  BY DEF SettledOwners, Home
<1> QED
  BY <1>1, <1>2, QueueAlways, HomeAlways, PTL

-----------------------------------------------------------------------------
(* A destroy reaches what it owes. *)

LEMMA DestroyInit == Init => DestroyEffective
  BY DEF Init, Idle, DestroyEffective

(* Of all steps only an accepted cancel makes a destroy ready to report. *)
LEMMA CancelledOnlyByCancel ==
  ASSUME TypeInv, [Next]_vars, NEW c \in Calls, calls'[c].pc = "cancelled"
  PROVE  calls'[c] = calls[c] \/ CancelAccept(c)
<1> USE CallInProgress
<1>t. /\ TypeOK
      /\ calls \in [Calls -> CallRecord]
      /\ instances \in [Instances -> InstanceRecord]
      /\ Caller \subseteq Calls /\ Instance \subseteq Instances /\ Reconciler \in Calls
  BY DEF TypeInv, TypeOK, Calls, Instances
<1>s. ASSUME NEW d \in Calls, NEW call, Set(d, call), call.pc # "cancelled"
      PROVE  calls'[c] = calls[c]
  BY <1>s, <1>t DEF Set
<1>r. ASSUME NEW d \in Calls, Return(d)
      PROVE  calls'[c] = calls[c]
  BY <1>r, <1>s DEF Return, Idle
<1>o. \A call \in CallRecord, inst \in InstanceRecord :
        Resolving(call, inst).pc # "cancelled" /\ Obtaining(call, inst).pc # "cancelled"
  BY DEF Resolving, Obtaining, QueueUser, CallRecord
<1>1. ASSUME NEW d \in Caller, NEW i \in Instance, Ready(d, i)
      PROVE  calls'[c] = calls[c]
  <2> DEFINE call == [Idle EXCEPT !.inst = i]
             known == placements[instances[i].sandbox]
             health == [call EXCEPT !.pc = "health", !.job = known.job,
                                    !.channel = known.channel]
  <2>1. call \in CallRecord /\ instances[i] \in InstanceRecord
    BY <1>t, IdleType DEF CallRecord
  <2>2. health.pc # "cancelled" /\ Obtaining(call, instances[i]).pc # "cancelled"
    BY <1>o, <2>1 DEF CallRecord
  <2>3. Set(d, health) \/ Set(d, Obtaining(call, instances[i]))
    BY <1>1 DEF Ready
  <2> HIDE DEF call, health
  <2> QED BY <1>t, <1>s, <2>2, <2>3
<1>2. ASSUME NEW d \in Caller, NEW i \in Instance, Destroy(d, i)
      PROVE  calls'[c] = calls[c]
  <2> DEFINE call == [Idle EXCEPT !.op = "destroy", !.inst = i,
                                  !.owed = LiveJobs(instances[i].sandbox)]
  <2>1. LiveJobs(instances[i].sandbox) \in SUBSET Nat
    BY <1>t, JobDomain DEF LiveJobs
  <2>2. call \in CallRecord /\ instances[i] \in InstanceRecord
    BY <1>t, <2>1, IdleType DEF CallRecord
  <2>3. [call EXCEPT !.pc = "cancel", !.job = instances[i].job].pc # "cancelled"
    BY <2>2 DEF CallRecord
  <2>4. Destroying(i).pc # "cancelled" /\ Set(d, Destroying(i))
    BY <1>2, <1>o, <2>2, <2>3 DEF Destroy, Destroying
  <2> QED BY <1>t, <1>s, <2>4
<1>3. ASSUME NEW s \in Sandbox, Reclaim(s)
      PROVE  calls'[c] = calls[c]
  <2> DEFINE call == [Idle EXCEPT !.op = "destroy", !.owed = LiveJobs(s)]
  <2>1. LiveJobs(s) \in SUBSET Nat
    BY <1>t, JobDomain DEF LiveJobs
  <2>2. call \in CallRecord /\ Fresh(s, ById) \in InstanceRecord
    BY <2>1, IdleType, FreshType DEF CallRecord
  <2>3. Set(Reconciler, Resolving(call, Fresh(s, ById)))
    BY <1>3 DEF Reclaim
  <2> QED BY <1>t, <1>o, <1>s, <2>2, <2>3
<1>4. ASSUME NEW cfg \in Configs, Restart(cfg)
      PROVE  FALSE
  BY <1>4 DEF Restart, Idle
<1>5. ASSUME NEW d \in Calls, Step(d), ~CancelAccept(d)
      PROVE  calls'[c] = calls[c]
  <2> DEFINE call == calls[d]
  <2>t. call \in CallRecord
    BY <1>t
  <2>1. CASE HealthOk(d) \/ AgentAnswers(d) \/ DestroyReturn(d) \/ Throw(d)
    BY <2>1, <1>r DEF HealthOk, AgentAnswers, DestroyReturn, Throw
  <2>2. CASE HealthGone(d)
    BY <2>2, <2>t, <1>o, <1>s DEF HealthGone
  <2>3. CASE LookupAnswer(d)
    <3>1. [call EXCEPT !.pc = "located", !.queue = FindQueue(SandboxOf(d))].pc # "cancelled"
      BY <2>t DEF CallRecord
    <3> QED BY <2>3, <3>1, <1>s DEF LookupAnswer
  <2>4. CASE Locate(d)
    <3> DEFINE queue == PlacedQueue(SandboxOf(d), InstOf(d).owned, call.queue)
               next == [call EXCEPT !.pc = QueueUser(call.op, InstOf(d)), !.queue = queue]
    <3>1. next.pc # "cancelled"
      BY <2>t DEF CallRecord, QueueUser
    <3>2. Set(d, next)
      BY <2>4 DEF Locate
    <3> QED BY <3>1, <3>2, <1>s
  <2>5. CASE SubmitAccept(d)
    <3>1. PICK j : Set(d, [call EXCEPT !.pc = "returned", !.job = j])
      BY <2>5 DEF SubmitAccept
    <3>2. [call EXCEPT !.pc = "returned", !.job = j].pc # "cancelled"
      BY <2>t DEF CallRecord
    <3> QED BY <3>1, <3>2, <1>s
  <2>6. CASE FindAnswer(d)
    <3> DEFINE found == FindJob(SandboxOf(d), call.queue)
               next == [call EXCEPT !.pc = "returned", !.job = Newest(found)]
    <3>1. Return(d) \/ Set(d, next)
      BY <2>6 DEF FindAnswer
    <3>2. next.pc # "cancelled"
      BY <2>t DEF CallRecord
    <3> QED BY <3>1, <3>2, <1>r, <1>s
  <2>7. CASE JobReturn(d)
    <3>1. [call EXCEPT !.pc = "watch"].pc # "cancelled"
      BY <2>t DEF CallRecord
    <3> QED BY <2>7, <3>1, <1>s DEF JobReturn
  <2>8. CASE WatchRunning(d)
    <3>1. [call EXCEPT !.pc = "address", !.job = InstOf(d).job].pc # "cancelled"
      BY <2>t DEF CallRecord
    <3> QED BY <2>8, <3>1, <1>s DEF WatchRunning
  <2>9. CASE AddressKnown(d)
    <3>1. [call EXCEPT !.pc = "agent", !.channel = jobs[call.job].addr].pc # "cancelled"
      BY <2>t DEF CallRecord
    <3> QED BY <2>9, <3>1, <1>s DEF AddressKnown
  <2> QED
    BY <1>5, <2>1, <2>2, <2>3, <2>4, <2>5, <2>6, <2>7, <2>8, <2>9 DEF Step
<1>6. ASSUME NEW d \in Calls, CancelAccept(d)
      PROVE  calls'[c] = calls[c] \/ CancelAccept(c)
  BY <1>6, <1>t DEF CancelAccept, Set
<1> QED
  BY <1>1, <1>2, <1>3, <1>4, <1>5, <1>6
     DEF Next, Create, List, ListReturn, Land, Lose, World, process, vars

LEMMA DestroyNext ==
  ASSUME Sure, DestroyEffective, [Next]_vars
  PROVE  DestroyEffective'
<1>t. TypeInv /\ TypeOK /\ JobsKnown /\ Evolves
  BY NextJobs DEF Sure, QueueInv, TypeInv
<1> SUFFICES ASSUME NEW c \in Calls, calls'[c].pc = "cancelled", NEW j \in calls'[c].owed
             PROVE  ~jobs'[j].live
  BY DEF DestroyEffective
<1>1. CASE calls'[c] = calls[c]
  <2>1. j \in Job /\ ~jobs[j].live
    BY <1>1, <1>t DEF DestroyEffective, JobsKnown, CallKnown, JobOf, Job
  <2> QED BY <1>t, <2>1 DEF Evolves
<1>2. CASE CancelAccept(c)
  <2> DEFINE s == SandboxOf(c)
             S == IF calls[c].pc = "cancel" THEN {calls[c].job} ELSE InSet(s, calls[c].queue)
  <2>1. CancelJobs(S) /\ calls[c].pc \in {"cancel", "cancelSet"}
    BY <1>2 DEF CancelAccept
  <2>2. calls'[c].owed = calls[c].owed
    BY <1>2, <1>t, CallInProgress DEF CancelAccept, Set, TypeOK, CallRecord
  <2>3. JobOf(jobs, j, s)
    BY <1>t, <2>1, <2>2 DEF JobsKnown, CallKnown, SandboxOf, InstOf
  <2>4. j \in Job /\ jobs[j].sandbox = s
    BY <2>3 DEF JobOf, Job
  <2>5. j \in S
    <3>1. CASE calls[c].pc = "cancel"
      <4>1. JobOf(jobs, calls[c].job, s)
        BY <1>t, <3>1 DEF JobsKnown, CallKnown, SandboxOf, InstOf
      <4>2. j = calls[c].job
        BY <2>4, <4>1, OneJob DEF JobOf, Job
      <4> QED BY <3>1, <4>2
    <3>2. CASE calls[c].pc = "cancelSet"
      <4>1. jobs[j].queue = calls[c].queue
        BY <2>4, <3>2, Aimed DEF InQueue
      <4> QED BY <2>4, <3>2, <4>1 DEF InSet
    <3> QED BY <2>1, <3>1, <3>2
  <2> HIDE DEF S
  <2> QED BY <1>t, <2>1, <2>4, <2>5, CancelEvolves
<1> QED BY <1>t, <1>1, <1>2, CancelledOnlyByCancel

(* A destroy that is about to report success has ended every job the sandbox   *)
(* had when it was called, whichever instance it was called on and whatever    *)
(* map the process was started with since the job was submitted.               *)
THEOREM DestroysReach == Spec /\ QueueCertain => []DestroyEffective
<1>1. Sure /\ DestroyEffective /\ [Next]_vars => DestroyEffective'
  BY DestroyNext
<1> QED
  BY <1>1, DestroyInit, SureAlways, PTL DEF Spec

-----------------------------------------------------------------------------
(* The adapter implements the abstract lifecycle of a kernel. *)

NoJobs(s) == \A j \in Job : jobs[j].sandbox # s

LEMMA KernelOfValue ==
  ASSUME NEW s \in Sandbox
  PROVE  /\ NoJobs(s) => kernelOf[s] = "none" /\ LiveJobs(s) = {}
         /\ ~NoJobs(s) /\ LiveJobs(s) # {} => kernelOf[s] = "live"
         /\ ~NoJobs(s) /\ LiveJobs(s) = {} => kernelOf[s] = "gone"
  BY DEF kernelOf, NoJobs, LiveJobs

LEMMA KernelOfValueNext ==
  ASSUME NEW s \in Sandbox
  PROVE  /\ NoJobs(s)' => kernelOf'[s] = "none" /\ LiveJobs(s)' = {}
         /\ ~NoJobs(s)' /\ LiveJobs(s)' # {} => kernelOf'[s] = "live"
         /\ ~NoJobs(s)' /\ LiveJobs(s)' = {} => kernelOf'[s] = "gone"
  BY DEF kernelOf, NoJobs, LiveJobs

LEMMA LifecycleInit == Init => Lifecycle!KernelInit
  BY DEF Init, ArmadaInit, kernelOf, Job, Lifecycle!KernelInit

(* A step that adds no job ends at most the kernel of one sandbox. *)
LEMMA KeepsRefines ==
  ASSUME TypeOK, Evolves, NEW s \in Sandbox, NEW q \in Queue, Keeps(s, q)
  PROVE  Lifecycle!EndKernel(s) \/ kernelOf' = kernelOf
<1>1. Job' = Job
  BY JobDomain DEF Evolves, Keeps, Job
<1>2. \A z \in Sandbox : NoJobs(z)' <=> NoJobs(z)
  BY <1>1 DEF NoJobs, Evolves
<1>3. LiveJobs(s)' \subseteq LiveJobs(s)
  BY <1>1 DEF LiveJobs, Evolves
<1>4. ASSUME NEW z \in Sandbox, z # s
      PROVE  LiveJobs(z)' = LiveJobs(z)
  BY <1>1, <1>4 DEF LiveJobs, Evolves, Keeps, InSet
<1>5. \A z \in Sandbox : z # s => kernelOf'[z] = kernelOf[z]
  BY <1>2, <1>4, KernelOfValue, KernelOfValueNext
<1>6. kernelOf'[s] = kernelOf[s] \/ (kernelOf[s] = "live" /\ kernelOf'[s] = "gone")
  BY <1>2, <1>3, KernelOfValue, KernelOfValueNext
<1>7. kernelOf = [z \in Sandbox |-> kernelOf[z]] /\ kernelOf' = [z \in Sandbox |-> kernelOf'[z]]
  BY DEF kernelOf
<1> HIDE DEF kernelOf
<1> QED
  BY <1>5, <1>6, <1>7 DEF Lifecycle!EndKernel

(* A submit that is accepted starts the kernel of a sandbox that never had one. *)
LEMMA SubmitsRefines ==
  ASSUME TypeOK, Evolves, NEW s \in Sandbox, NEW q, Submits(s, q), NoJobs(s)
  PROVE  Lifecycle!StartKernel(s)
<1>1. Job = 1..Len(jobs) /\ Len(jobs) \in Nat /\ Job' = Job \cup {Len(jobs) + 1}
  BY JobDomain DEF Evolves, Submits, Job
<1>2. \A j \in Job : jobs'[j] = jobs[j]
  BY DEF Submits
<1>3. jobs'[Len(jobs) + 1].sandbox = s /\ jobs'[Len(jobs) + 1].live
  BY DEF Submits
<1>4. ~NoJobs(s)' /\ LiveJobs(s)' # {}
  BY <1>1, <1>3 DEF NoJobs, LiveJobs
<1>5. ASSUME NEW z \in Sandbox, z # s
      PROVE  (NoJobs(z)' <=> NoJobs(z)) /\ LiveJobs(z)' = LiveJobs(z)
  BY <1>1, <1>2, <1>3, <1>5 DEF NoJobs, LiveJobs
<1>6. \A z \in Sandbox : z # s => kernelOf'[z] = kernelOf[z]
  BY <1>5, KernelOfValue, KernelOfValueNext
<1>7. kernelOf[s] = "none" /\ kernelOf'[s] = "live"
  BY <1>4, KernelOfValue, KernelOfValueNext
<1>8. kernelOf = [z \in Sandbox |-> kernelOf[z]] /\ kernelOf' = [z \in Sandbox |-> kernelOf'[z]]
  BY DEF kernelOf
<1> HIDE DEF kernelOf
<1> QED
  BY <1>6, <1>7, <1>8 DEF Lifecycle!StartKernel

LEMMA LifecycleNext ==
  ASSUME Sure, [Next]_vars
  PROVE  [Lifecycle!KernelNext]_kernelOf
<1>t. TypeInv /\ TypeOK /\ JobsKnown /\ Evolves
  BY NextJobs DEF Sure, QueueInv, TypeInv
<1>1. ASSUME NEW s \in Sandbox, NEW q \in Queue, Keeps(s, q)
      PROVE  Lifecycle!KernelNext \/ UNCHANGED kernelOf
  BY <1>1, <1>t, KeepsRefines DEF Lifecycle!KernelNext
<1>2. ASSUME NEW c \in Calls, calls[c].pc = "submit", Submits(SandboxOf(c), calls[c].queue)
      PROVE  Lifecycle!KernelNext
  <2>1. SandboxOf(c) \in Sandbox
    BY <1>t, CallInProgress
  <2>2. InQueue(SandboxOf(c), calls[c].queue) /\ InSet(SandboxOf(c), calls[c].queue) = {}
    BY <1>2, Aimed DEF Submits
  <2>3. NoJobs(SandboxOf(c))
    BY <2>2 DEF NoJobs, InSet, InQueue
  <2> QED BY <1>2, <1>t, <2>1, <2>3, SubmitsRefines DEF Lifecycle!KernelNext
<1>3. ASSUME NEW s \in Sandbox, NEW q \in Queue, LandsLate(s, q)
      PROVE  Lifecycle!KernelNext
  <2>1. InQueue(s, q) /\ InSet(s, q) = {}
    BY <1>3, AimedLate DEF LandsLate, Submits
  <2>2. NoJobs(s)
    BY <2>1 DEF NoJobs, InSet, InQueue
  <2> QED BY <1>3, <1>t, <2>2, SubmitsRefines DEF LandsLate, Lifecycle!KernelNext
<1> QED BY <1>t, <1>1, <1>2, <1>3, NextJobs

(* The adapter implements KernelLifecycle: each sandbox gets a kernel at most  *)
(* once and, once that is gone, never an empty one under the same id.          *)
THEOREM KernelsStartOnce == Spec /\ QueueCertain => KernelOnce
<1>1. Sure /\ [Next]_vars => [Lifecycle!KernelNext]_kernelOf
  BY LifecycleNext
<1> QED
  BY <1>1, LifecycleInit, SureAlways, PTL DEF Spec, KernelOnce, Lifecycle!KernelSpec

-----------------------------------------------------------------------------
(* In any deployment, the lifecycle of the kernels of one sandbox in one queue. *)

kernelIn == [p \in Sandbox \X Queue |->
               IF InSet(p[1], p[2]) = {} THEN "none"
               ELSE IF \E j \in InSet(p[1], p[2]) : jobs[j].live THEN "live"
               ELSE "gone"]

PerQueue == INSTANCE KernelLifecycle WITH Sandbox <- Sandbox \X Queue, kernel <- kernelIn

InLive(s, q) == \E j \in InSet(s, q) : jobs[j].live

LEMMA KernelInValue ==
  ASSUME NEW s \in Sandbox, NEW q \in Queue
  PROVE  kernelIn[<<s, q>>] = IF InSet(s, q) = {} THEN "none"
                              ELSE IF InLive(s, q) THEN "live" ELSE "gone"
  BY DEF kernelIn, InLive

LEMMA KernelInValueNext ==
  ASSUME NEW s \in Sandbox, NEW q \in Queue
  PROVE  kernelIn'[<<s, q>>] = IF InSet(s, q)' = {} THEN "none"
                               ELSE IF InLive(s, q)' THEN "live" ELSE "gone"
  BY DEF kernelIn, InLive

(* A kernel of one sandbox in one queue, and no other, changes. *)
LEMMA KernelInOther ==
  ASSUME NEW s \in Sandbox, NEW q \in Queue,
         \A z \in Sandbox, p \in Queue :
           <<z, p>> # <<s, q>> => kernelIn'[<<z, p>>] = kernelIn[<<z, p>>]
  PROVE  kernelIn' = [kernelIn EXCEPT ![<<s, q>>] = kernelIn'[<<s, q>>]]
<1>1. /\ kernelIn = [p \in Sandbox \X Queue |-> kernelIn[p]]
      /\ kernelIn' = [p \in Sandbox \X Queue |-> kernelIn'[p]]
  BY DEF kernelIn
<1>2. ASSUME NEW p \in Sandbox \X Queue, p # <<s, q>>
      PROVE  kernelIn'[p] = kernelIn[p]
  <2>1. PICK z \in Sandbox, w \in Queue : p = <<z, w>>
    OBVIOUS
  <2> QED BY <1>2, <2>1
<1> QED BY <1>1, <1>2

LEMMA KeepsPerQueue ==
  ASSUME TypeOK, Evolves, NEW s \in Sandbox, NEW q \in Queue, Keeps(s, q)
  PROVE  PerQueue!EndKernel(<<s, q>>) \/ kernelIn' = kernelIn
<1>1. Job' = Job
  BY JobDomain DEF Evolves, Keeps, Job
<1>2. \A z, p : InSet(z, p)' = InSet(z, p)
  BY <1>1 DEF InSet, Evolves
<1>3. ASSUME NEW z \in Sandbox, NEW p \in Queue, <<z, p>> # <<s, q>>
      PROVE  kernelIn'[<<z, p>>] = kernelIn[<<z, p>>]
  <2>1. InSet(z, p) \subseteq Job \ InSet(s, q)
    BY <1>3 DEF InSet
  <2>2. InLive(z, p)' <=> InLive(z, p)
    BY <1>2, <2>1 DEF InLive, Keeps
  <2> QED BY <1>2, <2>2, KernelInValue, KernelInValueNext
<1>4. InLive(s, q)' => InLive(s, q)
  <2> SUFFICES ASSUME InLive(s, q)' PROVE InLive(s, q)
    OBVIOUS
  <2>1. PICK j \in InSet(s, q)' : jobs'[j].live
    BY DEF InLive
  <2>2. j \in InSet(s, q) /\ j \in Job
    BY <1>2 DEF InSet
  <2>3. jobs[j].live
    BY <2>1, <2>2 DEF Evolves
  <2> QED BY <2>2, <2>3 DEF InLive
<1>5. \/ kernelIn'[<<s, q>>] = kernelIn[<<s, q>>]
      \/ kernelIn[<<s, q>>] = "live" /\ kernelIn'[<<s, q>>] = "gone"
  BY <1>2, <1>4, KernelInValue, KernelInValueNext
<1>6. kernelIn' = [kernelIn EXCEPT ![<<s, q>>] = kernelIn'[<<s, q>>]]
  BY <1>3, KernelInOther
<1>7. kernelIn = [kernelIn EXCEPT ![<<s, q>>] = kernelIn[<<s, q>>]]
  BY DEF kernelIn
<1> HIDE DEF kernelIn
<1> QED BY <1>5, <1>6, <1>7 DEF PerQueue!EndKernel

LEMMA SubmitsPerQueue ==
  ASSUME TypeOK, Evolves, NEW s \in Sandbox, NEW q \in Queue, Submits(s, q)
  PROVE  PerQueue!StartKernel(<<s, q>>)
<1>1. Job = 1..Len(jobs) /\ Len(jobs) \in Nat /\ Job' = Job \cup {Len(jobs) + 1}
  BY JobDomain DEF Evolves, Submits, Job
<1>2. /\ \A j \in Job : jobs'[j] = jobs[j]
      /\ jobs'[Len(jobs) + 1].sandbox = s /\ jobs'[Len(jobs) + 1].queue = q
      /\ jobs'[Len(jobs) + 1].live /\ InSet(s, q) = {}
  BY DEF Submits
<1>3. ASSUME NEW z \in Sandbox, NEW p \in Queue, <<z, p>> # <<s, q>>
      PROVE  kernelIn'[<<z, p>>] = kernelIn[<<z, p>>]
  <2>1. InSet(z, p)' = InSet(z, p)
    BY <1>1, <1>2, <1>3 DEF InSet
  <2>2. InLive(z, p)' <=> InLive(z, p)
    BY <1>2, <2>1 DEF InLive, InSet
  <2> QED BY <2>1, <2>2, KernelInValue, KernelInValueNext
<1>4. Len(jobs) + 1 \in InSet(s, q)' /\ InLive(s, q)'
  BY <1>1, <1>2 DEF InSet, InLive
<1>5. kernelIn[<<s, q>>] = "none" /\ kernelIn'[<<s, q>>] = "live"
  BY <1>2, <1>4, KernelInValue, KernelInValueNext
<1>6. kernelIn' = [kernelIn EXCEPT ![<<s, q>>] = kernelIn'[<<s, q>>]]
  BY <1>3, KernelInOther
<1> HIDE DEF kernelIn
<1> QED BY <1>5, <1>6 DEF PerQueue!StartKernel

(* Whatever is in doubt, owners that move, a Lookout that lags, calls that      *)
(* overlap: in each queue a sandbox's kernel starts at most once, and once gone *)
(* never comes back there.  A second kernel can only be in another queue        *)
(* (armada.ts submit: clientId, jobSetId and failFast).                         *)
THEOREM KernelsStartOncePerQueue == Spec => PerQueue!KernelSpec
<1>1. Init => PerQueue!KernelInit
  BY DEF Init, ArmadaInit, kernelIn, InSet, Job, PerQueue!KernelInit
<1>2. QueueInv /\ [Next]_vars => [PerQueue!KernelNext]_kernelIn
  <2> SUFFICES ASSUME QueueInv, [Next]_vars PROVE PerQueue!KernelNext \/ kernelIn' = kernelIn
    OBVIOUS
  <2>t. TypeInv /\ TypeOK /\ JobsKnown /\ Evolves
    BY NextJobs DEF QueueInv, TypeInv
  <2>1. ASSUME NEW s \in Sandbox, NEW q \in Queue,
               PerQueue!EndKernel(<<s, q>>) \/ PerQueue!StartKernel(<<s, q>>)
        PROVE  PerQueue!KernelNext
    BY <2>1 DEF PerQueue!KernelNext
  <2>2. ASSUME NEW c \in Calls, calls[c].pc = "submit", Submits(SandboxOf(c), calls[c].queue)
        PROVE  PerQueue!KernelNext
    <3>1. SandboxOf(c) \in Sandbox /\ calls[c].queue \in Queue
      BY <2>2, <2>t, CallInProgress DEF HasQueue
    <3> QED BY <2>1, <2>2, <2>t, <3>1, SubmitsPerQueue
  <2>3. ASSUME NEW s \in Sandbox, NEW q \in Queue, LandsLate(s, q)
        PROVE  PerQueue!KernelNext
    BY <2>1, <2>3, <2>t, SubmitsPerQueue DEF LandsLate
  <2> QED BY <2>1, <2>2, <2>3, <2>t, KeepsPerQueue, NextJobs
<1> QED
  BY <1>1, <1>2, QueueAlways, PTL DEF Spec, PerQueue!KernelSpec

=============================================================================
