--------------------------- MODULE QueueDirectory ---------------------------
(***************************************************************************)
(* src/src/queues.ts: which queue a sandbox belongs to.  The owner map is   *)
(* configuration and changes only when the process is started again; what   *)
(* the process has seen is kept in `remembered' and lost with it.           *)
(***************************************************************************)
EXTENDS Armada

CONSTANTS
  User, Project,
  NoUser,        \* an owner without a user id
  NoQueue,       \* undefined
  DefaultQueue,  \* config.queue, which also names the installation
  Configs,       \* the owner maps the operator may start the process with
  Owner          \* the owner marimohub names for a sandbox when it names one

QueueMap(S) == [S -> Queue \cup {NoQueue}]

ASSUME DirectoryAssumption ==
  /\ NoQueue \notin Queue /\ NoUser \notin User
  /\ DefaultQueue \in Queue
  /\ Configs \subseteq [byUser: QueueMap(User), byProject: QueueMap(Project)]
  /\ Configs # {}
  /\ Owner \in [Sandbox -> [user: User \cup {NoUser}, project: Project]]

VARIABLES
  config,     \* the owner map of this process
  remembered  \* Sandbox -> the queue this process has seen, or NoQueue

DirectoryTypeOK ==
  /\ config \in Configs
  /\ remembered \in [Sandbox -> Queue \cup {NoQueue}]

DirectoryInit ==
  /\ config \in Configs
  /\ remembered = [s \in Sandbox |-> NoQueue]

(* Every queue a sandbox of this deployment can be in. *)
All(cfg) ==
  {DefaultQueue} \cup
    (({cfg.byUser[u] : u \in User} \cup {cfg.byProject[p] : p \in Project}) \ {NoQueue})

Mapped(cfg) == \E q \in All(cfg) : q # DefaultQueue

(* No map this deployment is ever started with leaves the default queue. *)
SingleQueue == \A cfg \in Configs : ~Mapped(cfg)

(* The user's queue, else the project's, else the default. *)
ForOwner(cfg, owner) ==
  LET byUser == IF owner.user = NoUser THEN NoQueue ELSE cfg.byUser[owner.user]
      byProject == cfg.byProject[owner.project]
  IN  IF byUser # NoQueue THEN byUser
      ELSE IF byProject # NoQueue THEN byProject
      ELSE DefaultQueue

(* Mutant of PlacedQueue: today's map outranks the queue the job is in. *)
PlacedQueue_MapFirst(s, owned, found) ==
  IF owned THEN ForOwner(config, Owner[s])
  ELSE IF found # NoQueue THEN found
  ELSE DefaultQueue

(* What `resolve' answers without a request, NoQueue when it must ask Lookout. *)
KnownQueue(s) ==
  IF remembered[s] # NoQueue THEN remembered[s]
  ELSE IF ~Mapped(config) THEN DefaultQueue
  ELSE NoQueue

(* ... and once Lookout has answered `found', NoQueue if it holds nothing. *)
PlacedQueue(s, owned, found) ==
  IF found # NoQueue THEN found
  ELSE IF owned THEN ForOwner(config, Owner[s])
  ELSE DefaultQueue

Remember(s, q) == remembered' = [remembered EXCEPT ![s] = q]

Forget(s) == remembered' = [remembered EXCEPT ![s] = NoQueue]

(* findQueue: the queue of the newest job Lookout holds for the job set. *)
FindQueue(s) ==
  IF LookoutSet(s) = {} THEN NoQueue ELSE jobs[Newest(LookoutSet(s))].queue
=============================================================================
