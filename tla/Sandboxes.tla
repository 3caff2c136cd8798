----------------------------- MODULE Sandboxes ------------------------------
(***************************************************************************)
(* The adapter inside one marimohub process: the ArmadaSandbox instances    *)
(* (src/src/sandbox.ts), the provider that makes and enumerates them        *)
(* (src/src/provider.ts), the queue directory and the placements they       *)
(* share, against Armada and Lookout.                                       *)
(*                                                                          *)
(* marimohub keeps no instance, so a sandbox is used through several, and   *)
(* calls on one instance overlap.  A call is a record whose `pc' is the     *)
(* request it awaits; everything between two awaited requests is one step.  *)
(* A request is answered in two steps, its effect at the server and the     *)
(* return to the caller, wherever another call can come between them.       *)
(***************************************************************************)
EXTENDS QueueDirectory

CONSTANTS
  Caller,      \* slots for marimohub's concurrent calls
  Instance,    \* slots for the ArmadaSandbox objects they are made on
  Reconciler,  \* the call and the instance marimohub's reconciler uses
  Kinds,       \* how marimohub makes instances: attachOnly or not, owner named or not
  SubmitsLinger, \* whether a submit its caller gave up may still reach Armada later
  MaxRestarts  \* bound: how often the process is started again

ASSUME SandboxesAssumption ==
  /\ Reconciler \notin Caller \cup Instance
  /\ Kinds \subseteq [attachOnly: BOOLEAN, owned: BOOLEAN]
  /\ Sandbox # {}
  /\ SubmitsLinger \in BOOLEAN
  /\ MaxRestarts \in Nat

VARIABLES
  instances,   \* instance -> its fields
  calls,       \* call -> the operation in progress
  placements,  \* sandbox -> the job and channel a ready() of this process reached
  sweep,       \* the reconciler's enumeration in progress
  late,        \* submits on their way whose caller threw or died
  released,    \* sandboxes whose destroy was reported done to marimohub
  restarts

vars == <<jobs, config, remembered, instances, calls, placements, sweep,
          late, released, restarts>>

process == <<instances, calls, placements, sweep, late, released, restarts>>

Calls == Caller \cup {Reconciler}
Instances == Instance \cup {Reconciler}

(* Job 0 and address 0 are `undefined'. *)
NoPlacement == [job |-> 0, channel |-> 0]

(* The fields of an ArmadaSandbox: sandbox, attachOnly and owned are given at  *)
(* creation.  One nobody has called yet holds nothing, so a slot starts as one *)
(* that was made by id alone.                                                  *)
Fresh(s, kind) ==
  [sandbox |-> s, attachOnly |-> kind.attachOnly, owned |-> kind.owned,
   job |-> 0, channel |-> 0]

ById == [attachOnly |-> FALSE, owned |-> FALSE]

Unused == Fresh(CHOOSE s \in Sandbox : TRUE, ById)

InstanceRecord ==
  [sandbox: Sandbox, attachOnly: BOOLEAN, owned: BOOLEAN, job: Nat, channel: Nat]

(* A call's awaited request, and what it has in hand: `queue' as resolved or  *)
(* as Lookout answered, the `job' asked about or returned, the `channel' it   *)
(* probes.  `owed' is history: the sandbox's live jobs when a destroy began.  *)
Idle == [pc |-> "idle", op |-> "ready", inst |-> Reconciler, queue |-> NoQueue,
         job |-> 0, channel |-> 0, owed |-> {}]

PC == {"idle", "health", "lookup", "located", "submit", "find", "returned",
       "watch", "address", "agent", "cancel", "cancelSet", "cancelled"}

CallRecord ==
  [pc: PC, op: {"ready", "destroy"}, inst: Instances, queue: Queue \cup {NoQueue},
   job: Nat, channel: Nat, owed: SUBSET Nat]

(* The reconciler: the queues an enumeration found, and what it will destroy. *)
Resting == [pc |-> "rest", found |-> [s \in Sandbox |-> NoQueue], orphans |-> {}]

SweepRecord ==
  [pc: {"rest", "listed"}, found: [Sandbox -> Queue \cup {NoQueue}],
   orphans: SUBSET Sandbox]

TypeOK ==
  /\ ArmadaTypeOK
  /\ DirectoryTypeOK
  /\ instances \in [Instances -> InstanceRecord]
  /\ calls \in [Calls -> CallRecord]
  /\ placements \in [Sandbox -> [job: Nat, channel: Nat]]
  /\ sweep \in SweepRecord
  /\ late \in SUBSET (Sandbox \X Queue)
  /\ released \in SUBSET Sandbox
  /\ restarts \in 0..MaxRestarts

Init ==
  /\ ArmadaInit
  /\ DirectoryInit
  /\ instances = [i \in Instances |-> Unused]
  /\ calls = [c \in Calls |-> Idle]
  /\ placements = [s \in Sandbox |-> NoPlacement]
  /\ sweep = Resting
  /\ late = {}
  /\ released = {}
  /\ restarts = 0

-----------------------------------------------------------------------------
(* The instance and the sandbox of a call in progress. *)
InstOf(c) == instances[calls[c].inst]
SandboxOf(c) == InstOf(c).sandbox

Busy(i) == \E c \in Calls : calls[c].pc # "idle" /\ calls[c].inst = i

Set(c, call) == calls' = [calls EXCEPT ![c] = call]
Return(c) == Set(c, Idle)

(* Mutant: an attachOnly instance submits like any other. *)
QueueUser_AttachSubmits(op, inst) == IF op = "destroy" THEN "cancelSet" ELSE "submit"

(* What awaits the queue once it is known: destroy cancels the set, an        *)
(* attachOnly instance looks its job up, any other submits.                   *)
QueueUser(op, inst) ==
  IF op = "destroy" THEN "cancelSet"
  ELSE IF inst.attachOnly THEN "find"
  ELSE "submit"

(* Mutant: with nothing remembered and no map, the queue stays undefined. *)
Resolving_NoDefault(call, inst) ==
  [call EXCEPT !.pc = QueueUser(call.op, inst), !.queue = remembered[inst.sandbox],
               !.job = 0, !.channel = 0]

(* Resolving the queue for a call on an instance without a job. *)
Resolving(call, inst) ==
  LET known == KnownQueue(inst.sandbox)
  IN  [call EXCEPT !.pc = IF known = NoQueue THEN "lookup"
                          ELSE QueueUser(call.op, inst),
                   !.queue = known, !.job = 0, !.channel = 0]

(* `this.job ??= ...' of ready, up to its first request. *)
Obtaining(call, inst) ==
  IF inst.job = 0 THEN Resolving(call, inst)
  ELSE [call EXCEPT !.pc = "watch", !.job = inst.job, !.channel = 0]

-----------------------------------------------------------------------------
(* create and connectExisting: a new object in a slot no call is using. *)
Create(i, s, kind) ==
  /\ ~Busy(i)
  /\ s \notin released
  /\ instances' = [instances EXCEPT ![i] = Fresh(s, kind)]
  /\ UNCHANGED <<jobs, config, remembered, calls, placements, sweep, late, released, restarts>>

(* ready(): take the placement another instance left, after a look at its     *)
(* health, or obtain the job.  With a channel already there it does nothing.  *)
Ready(c, i) ==
  /\ calls[c].pc = "idle"
  /\ instances[i].channel = 0
  /\ instances[i].sandbox \notin released
  /\ LET known == placements[instances[i].sandbox]
         call == [Idle EXCEPT !.inst = i]
     IN  Set(c, IF known # NoPlacement
                THEN [call EXCEPT !.pc = "health", !.job = known.job,
                                  !.channel = known.channel]
                ELSE Obtaining(call, instances[i]))
  /\ UNCHANGED <<jobs, config, remembered, instances, placements, sweep, late, released, restarts>>

HealthOk(c) ==
  /\ calls[c].pc = "health"
  /\ Answers(calls[c].channel)
  /\ instances' = [instances EXCEPT ![calls[c].inst] =
                      [@ EXCEPT !.job = calls[c].job, !.channel = calls[c].channel]]
  /\ Return(c)
  /\ UNCHANGED <<jobs, config, remembered, placements, sweep, late, released, restarts>>

(* No answer, for whatever reason: the placement of the id is dropped, also   *)
(* one another call has set since.                                            *)
HealthGone(c) ==
  /\ calls[c].pc = "health"
  /\ placements' = [placements EXCEPT ![SandboxOf(c)] = NoPlacement]
  /\ Set(c, Obtaining(calls[c], InstOf(c)))
  /\ UNCHANGED <<jobs, config, remembered, instances, sweep, late, released, restarts>>

(* resolve(), past what the process knows: Lookout answers, then the return   *)
(* remembers the queue found or, for a set it holds nothing for, the owner's. *)
LookupAnswer(c) ==
  /\ calls[c].pc = "lookup"
  /\ Set(c, [calls[c] EXCEPT !.pc = "located", !.queue = FindQueue(SandboxOf(c))])
  /\ UNCHANGED <<jobs, config, remembered, instances, placements, sweep, late, released, restarts>>

Locate(c) ==
  /\ calls[c].pc = "located"
  /\ LET queue == PlacedQueue(SandboxOf(c), InstOf(c).owned, calls[c].queue)
     IN  /\ Remember(SandboxOf(c), queue)
         /\ Set(c, [calls[c] EXCEPT !.pc = QueueUser(calls[c].op, InstOf(c)),
                                    !.queue = queue])
  /\ UNCHANGED <<jobs, config, instances, placements, sweep, late, released, restarts>>

(* Mutants: a submit without a clientId is never deduped; one whose clientId is *)
(* made afresh once the old job is over starts a second, empty kernel.         *)
SubmitAs(c, job) ==
  /\ calls[c].pc = "submit"
  /\ jobs' = Append(jobs, job)
  /\ Set(c, [calls[c] EXCEPT !.pc = "returned", !.job = Len(jobs) + 1])
  /\ UNCHANGED <<config, remembered, instances, placements, sweep, late, released, restarts>>

SubmitAccept_NoClientId(c) ==
  /\ Len(jobs) < 2
  /\ SubmitAs(c, Settled([sandbox |-> SandboxOf(c), queue |-> calls[c].queue,
                          live |-> TRUE, events |-> "submitted", addr |-> 0,
                          index |-> "absent"]))

SubmitAccept_NewIdWhenOver(c) ==
  /\ LiveJobs(SandboxOf(c)) = {}
  /\ SubmitAccept_NoClientId(c)

(* submit(): the server accepts, or answers with the job the id already has. *)
SubmitAccept(c) ==
  /\ calls[c].pc = "submit"
  /\ SubmitJob(SandboxOf(c), calls[c].queue)
  /\ \E j \in DOMAIN jobs' :
       /\ jobs'[j].sandbox = SandboxOf(c)
       /\ jobs'[j].queue = calls[c].queue
       /\ Set(c, [calls[c] EXCEPT !.pc = "returned", !.job = j])
  /\ UNCHANGED <<config, remembered, instances, placements, sweep, late, released, restarts>>

(* findJob, for an attachOnly instance: the newest unfinished job of the set   *)
(* in the queue, as the lagging database has it; none is an error.             *)
FindJob(s, q) == {j \in InSet(s, q) : jobs[j].index = "live"}

FindAnswer(c) ==
  /\ calls[c].pc = "find"
  /\ LET found == FindJob(SandboxOf(c), calls[c].queue)
     IN  IF found = {} THEN Return(c)
         ELSE Set(c, [calls[c] EXCEPT !.pc = "returned", !.job = Newest(found)])
  /\ UNCHANGED <<jobs, config, remembered, instances, placements, sweep, late, released, restarts>>

(* The job is the instance's, over whatever another call stored meanwhile, and *)
(* its event stream is opened.                                                 *)
JobReturn(c) ==
  /\ calls[c].pc = "returned"
  /\ instances' = [instances EXCEPT ![calls[c].inst].job = calls[c].job]
  /\ Set(c, [calls[c] EXCEPT !.pc = "watch"])
  /\ UNCHANGED <<jobs, config, remembered, placements, sweep, late, released, restarts>>

(* waitForRunning: the stream replays from the start, so a job that once ran   *)
(* counts as running.  portUrl is then asked about `this.job' as it is now.    *)
WatchRunning(c) ==
  /\ calls[c].pc = "watch"
  /\ jobs[calls[c].job].events # "submitted"
  /\ Set(c, [calls[c] EXCEPT !.pc = "address", !.job = InstOf(c).job])
  /\ UNCHANGED <<jobs, config, remembered, instances, placements, sweep, late, released, restarts>>

(* portUrl, and the channel opened at the address it reports. *)
AddressKnown(c) ==
  /\ calls[c].pc = "address"
  /\ jobs[calls[c].job].events = "addressed"
  /\ Set(c, [calls[c] EXCEPT !.pc = "agent", !.channel = jobs[calls[c].job].addr])
  /\ UNCHANGED <<jobs, config, remembered, instances, placements, sweep, late, released, restarts>>

AgentAnswers(c) ==
  /\ calls[c].pc = "agent"
  /\ Answers(calls[c].channel)
  /\ instances' = [instances EXCEPT ![calls[c].inst].channel = calls[c].channel]
  /\ placements' = [placements EXCEPT ![SandboxOf(c)] =
                       [job |-> InstOf(c).job, channel |-> calls[c].channel]]
  /\ Return(c)
  /\ UNCHANGED <<jobs, config, remembered, sweep, late, released, restarts>>

(* The submits these calls wait for, and what is left of them when the calls   *)
(* end without an answer: Armada may take each of them yet.  A set is enough,  *)
(* for Armada knows a client id for ever and a second landing changes nothing. *)
(* A cancel given up may land as well; what it does then JobEnds does.         *)
Awaited(C) ==
  {<<SandboxOf(c), calls[c].queue>> : c \in {d \in C : calls[d].pc = "submit"}}

GiveUp(C) == late' = IF SubmitsLinger THEN late \cup Awaited(C) ELSE late

(* A request fails, times out, is refused, or its answer is lost on the way    *)
(* back; the stream reports the job failed or cancelled.  The call throws and  *)
(* leaves everything as it is, but for a submit that is still on its way.      *)
Throw(c) ==
  /\ calls[c].pc \in PC \ {"idle", "health", "located"}
  /\ Return(c)
  /\ GiveUp({c})
  /\ UNCHANGED <<jobs, config, remembered, instances, placements, sweep, released, restarts>>

-----------------------------------------------------------------------------
(* Mutant: an instance that submitted nothing has nothing to cancel. *)
Destroying_OwnJobOnly(i) ==
  LET inst == instances[i]
      call == [Idle EXCEPT !.op = "destroy", !.inst = i,
                           !.owed = LiveJobs(inst.sandbox)]
  IN  IF inst.job = 0 THEN [call EXCEPT !.pc = "cancelled"]
      ELSE [call EXCEPT !.pc = "cancel", !.job = inst.job]

(* destroy(): by the job if the instance has it, else by the whole set. *)
Destroying(i) ==
  LET inst == instances[i]
      call == [Idle EXCEPT !.op = "destroy", !.inst = i,
                           !.owed = LiveJobs(inst.sandbox)]
  IN  IF inst.job = 0 THEN Resolving(call, inst)
      ELSE [call EXCEPT !.pc = "cancel", !.job = inst.job]

Destroy(c, i) ==
  /\ calls[c].pc = "idle"
  /\ instances[i].sandbox \notin released
  /\ Set(c, Destroying(i))
  /\ UNCHANGED <<jobs, config, remembered, instances, placements, sweep, late, released, restarts>>

CancelAccept(c) ==
  /\ calls[c].pc \in {"cancel", "cancelSet"}
  /\ CancelJobs(IF calls[c].pc = "cancel" THEN {calls[c].job}
                ELSE InSet(SandboxOf(c), calls[c].queue))
  /\ Set(c, [calls[c] EXCEPT !.pc = "cancelled"])
  /\ UNCHANGED <<config, remembered, instances, placements, sweep, late, released, restarts>>

(* Only an accepted cancel forgets the sandbox.  The instance keeps its job. *)
DestroyReturn(c) ==
  /\ calls[c].pc = "cancelled"
  /\ Forget(SandboxOf(c))
  /\ placements' = [placements EXCEPT ![SandboxOf(c)] = NoPlacement]
  /\ instances' = [instances EXCEPT ![calls[c].inst].channel = 0]
  /\ released' = released \cup {SandboxOf(c)}
  /\ Return(c)
  /\ UNCHANGED <<jobs, config, sweep, late, restarts>>

-----------------------------------------------------------------------------
(* Mutant: the sandboxes an enumeration found are all remembered in the         *)
(* default queue.                                                              *)
ListReturn_RemembersDefault ==
  /\ sweep.pc = "listed"
  /\ remembered' = [s \in Sandbox |-> IF sweep.found[s] = NoQueue THEN remembered[s]
                                      ELSE DefaultQueue]
  /\ sweep' = [Resting EXCEPT !.orphans = {s \in released : sweep.found[s] # NoQueue}]
  /\ UNCHANGED <<jobs, config, instances, calls, placements, late, released, restarts>>

(* listActive and the reconciler that calls it: every sandbox Lookout has a    *)
(* live job for, in the queue of the newest; each queue is remembered, and     *)
(* what marimohub has no session for is destroyed by id alone.                 *)
List ==
  /\ sweep = Resting
  /\ calls[Reconciler].pc = "idle"
  /\ sweep' = [Resting EXCEPT !.pc = "listed",
                 !.found = [s \in Sandbox |->
                              IF LookoutActive(s) = {} THEN NoQueue
                              ELSE jobs[Newest(LookoutActive(s))].queue]]
  /\ UNCHANGED <<jobs, config, remembered, instances, calls, placements, late, released, restarts>>

ListReturn ==
  /\ sweep.pc = "listed"
  /\ remembered' = [s \in Sandbox |-> IF sweep.found[s] = NoQueue THEN remembered[s]
                                      ELSE sweep.found[s]]
  /\ sweep' = [Resting EXCEPT !.orphans = {s \in released : sweep.found[s] # NoQueue}]
  /\ UNCHANGED <<jobs, config, instances, calls, placements, late, released, restarts>>

Reclaim(s) ==
  /\ s \in sweep.orphans
  /\ calls[Reconciler].pc = "idle"
  /\ sweep' = [sweep EXCEPT !.orphans = @ \ {s}]
  /\ instances' = [instances EXCEPT ![Reconciler] = Fresh(s, ById)]
  /\ Set(Reconciler,
         Resolving([Idle EXCEPT !.op = "destroy", !.owed = LiveJobs(s)], Fresh(s, ById)))
  /\ UNCHANGED <<jobs, config, remembered, placements, late, released, restarts>>

(* The process dies at any point and is started again, with the owner map of   *)
(* the day.                                                                    *)
Restart(cfg) ==
  /\ restarts < MaxRestarts
  /\ restarts' = restarts + 1
  /\ config' = cfg
  /\ remembered' = [s \in Sandbox |-> NoQueue]
  /\ instances' = [i \in Instances |-> Unused]
  /\ calls' = [c \in Calls |-> Idle]
  /\ placements' = [s \in Sandbox |-> NoPlacement]
  /\ sweep' = Resting
  /\ GiveUp(Calls)
  /\ UNCHANGED <<jobs, released>>

(* A submit nobody waits for is taken by Armada, or is lost or refused. *)
Land(s, q) ==
  /\ <<s, q>> \in late
  /\ SubmitJob(s, q)
  /\ late' = late \ {<<s, q>>}
  /\ UNCHANGED <<config, remembered, instances, calls, placements, sweep, released, restarts>>

Lose(s, q) ==
  /\ <<s, q>> \in late
  /\ late' = late \ {<<s, q>>}
  /\ UNCHANGED <<jobs, config, remembered, instances, calls, placements, sweep, released, restarts>>

-----------------------------------------------------------------------------
Step(c) ==
  \/ HealthOk(c) \/ HealthGone(c) \/ LookupAnswer(c) \/ Locate(c)
  \/ SubmitAccept(c) \/ FindAnswer(c) \/ JobReturn(c)
  \/ WatchRunning(c) \/ AddressKnown(c) \/ AgentAnswers(c)
  \/ CancelAccept(c) \/ DestroyReturn(c) \/ Throw(c)

World == ArmadaNext /\ UNCHANGED <<config, remembered, process>>

Next ==
  \/ \E i \in Instance, s \in Sandbox, kind \in Kinds : Create(i, s, kind)
  \/ \E c \in Caller, i \in Instance : Ready(c, i) \/ Destroy(c, i)
  \/ \E c \in Calls : Step(c)
  \/ List \/ ListReturn \/ \E s \in Sandbox : Reclaim(s)
  \/ \E cfg \in Configs : Restart(cfg)
  \/ \E s \in Sandbox, q \in Queue : Land(s, q) \/ Lose(s, q)
  \/ World

Spec == Init /\ [][Next]_vars

-----------------------------------------------------------------------------
(* Fairness.  Every request ends, if only by its timeout; the ingester catches *)
(* up; the reconciler keeps sweeping; and what it retries for ever does not    *)
(* fail for ever.  Nothing is assumed of pods or of marimohub's other calls.   *)
Fairness ==
  /\ \A c \in Calls : WF_vars(Step(c))
  /\ \A s \in Sandbox, q \in Queue : WF_vars(Land(s, q) \/ Lose(s, q))
  /\ WF_vars(\E j \in Job : Ingest(j) /\ UNCHANGED <<config, remembered, process>>)
  /\ WF_vars(List) /\ WF_vars(ListReturn) /\ WF_vars(\E s \in Sandbox : Reclaim(s))
  /\ SF_vars(LookupAnswer(Reconciler))
  /\ SF_vars(CancelAccept(Reconciler))
  /\ SF_vars(DestroyReturn(Reconciler))

FairSpec == Spec /\ Fairness

-----------------------------------------------------------------------------
(* A sandbox never has two live kernels: a submit that is repeated, by a call  *)
(* that lost its answer, by another instance or after a restart, reaches the   *)
(* job the first one started (armada.ts submit, sandbox.ts ready).             *)
OneKernel == \A s \in Sandbox : \A j, k \in LiveJobs(s) : j = k

(* A destroy about to report success has ended every job the sandbox had when  *)
(* it was called (sandbox.ts destroy, queues.ts resolve): it never cancels in  *)
(* a queue the job is not in and calls that done.                              *)
DestroyEffective ==
  \A c \in Calls : calls[c].pc = "cancelled" =>
    \A j \in calls[c].owed : ~jobs[j].live

(* What the directory remembers of a sandbox is where its live jobs are, so    *)
(* the next submit dedupes and the next destroy reaches them (queues.ts).      *)
RememberedIsRight ==
  \A s \in Sandbox : remembered[s] # NoQueue =>
    \A j \in LiveJobs(s) : jobs[j].queue = remembered[s]

(* The look at /healthz through which ready() adopts a placement tells a live  *)
(* pod of this sandbox from one that has since gone: when something answers,   *)
(* it is a pod of this sandbox (sandbox.ts ready, channel.ts ready).           *)
HealthIsOwn ==
  \A c \in Calls : (calls[c].pc = "health" /\ Answers(calls[c].channel)) =>
    \E j \in LiveJobs(SandboxOf(c)) : jobs[j].addr = calls[c].channel

(* A job comes into being only through a ready() on an instance that may       *)
(* submit, at once or through a request that outlived it: attaching to save an *)
(* expired session's edits, and destroying, never start a kernel (sandbox.ts   *)
(* existingJob, provider.ts connectExisting).                                  *)
SubmitOfReady(r) ==
  \E c \in Calls : /\ calls[c].op = "ready" /\ calls'[c] # calls[c]
                   /\ ~InstOf(c).attachOnly
                   /\ r = <<SandboxOf(c), calls[c].queue>>

OnlyReadySubmits ==
  [][/\ \A j \in DOMAIN jobs' : j \notin Job =>
          LET r == <<jobs'[j].sandbox, jobs'[j].queue>>
          IN  r \in late \/ SubmitOfReady(r)
     /\ \A r \in late' \ late : SubmitOfReady(r)]_vars

(* A sandbox whose destroy was reported done is in the end without a live job  *)
(* for good, although a submit in flight at the time, of a call under way, of  *)
(* one that threw or of a process that died, may land after it: the reconciler *)
(* finds the job through listActive and destroys it by id (provider.ts).       *)
Reclaimed ==
  \A s \in Sandbox : s \in released ~> [](LiveJobs(s) = {})

(* The adapter as the abstract lifecycle sees it: no job, a live one, or only  *)
(* ended ones.                                                                 *)
kernelOf == [s \in Sandbox |->
               IF \A j \in Job : jobs[j].sandbox # s THEN "none"
               ELSE IF LiveJobs(s) # {} THEN "live"
               ELSE "gone"]

Lifecycle == INSTANCE KernelLifecycle WITH kernel <- kernelOf

(* Every sandbox has one kernel at most once: the adapter, restarts, retries   *)
(* and overlapping calls included, implements the abstract lifecycle.          *)
KernelOnce == Lifecycle!KernelSpec
=============================================================================
