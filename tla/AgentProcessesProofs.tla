------------------------ MODULE AgentProcessesProofs ------------------------
(***************************************************************************)
(* Theorems about AgentProcesses, for any number of commands and launched    *)
(* processes and whatever they fork: a survivor's exit status is its         *)
(* request's, and a clean shutdown leaves no process running whose pid had   *)
(* been told by its last look.                                               *)
(***************************************************************************)
EXTENDS AgentProcesses, TLAPS

(* The part of a request in which its pid is in `children' and not collected. *)
Window == {"stored", "serving", "drained"}

Collected == {"waited", "answered", "deleted", "done"}

(* The reaper holds only processes that have ended, and an ended process does  *)
(* not run again.                                                              *)
ReaperInv ==
  /\ reaper \in [listed: SUBSET Process, next: Process \cup {Nobody}]
  /\ \A p \in reaper.listed : table[p].state \in {"zombie", "gone"}
  /\ reaper.next # Nobody => table[reaper.next].state \in {"zombie", "gone"}

BeforeInv(r) ==
  reqs[r].pc \in {"idle", "started"} => r \notin survived /\ reqs[r].status = "none"

BornInv(r) == reqs[r].pc = "idle" => table[Leader(r)].state = "unborn"

ChildInv(r) == reqs[r].pc \in Window => r \in children

GoneInv(r) == reqs[r].pc \in Collected => table[Leader(r)].state = "gone"

(* Between its record and its Wait a survivor is there for the Wait, and the   *)
(* reaper has not chosen it.                                                   *)
SurvivorInv(r) ==
  r \in survived /\ reqs[r].pc \in Window =>
    table[Leader(r)].state \in {"running", "zombie"} /\ reaper.next # Leader(r)

KeptInv(r) == r \in survived => reqs[r].status # "lost"

ReqInv(r) ==
  BeforeInv(r) /\ BornInv(r) /\ ChildInv(r) /\ GoneInv(r) /\ SurvivorInv(r) /\ KeptInv(r)

(* What had been told when a look began was there for it to find or had been   *)
(* collected, and when it found nothing had been collected.                    *)
SightInv ==
  /\ \A r \in sight.told : reqs[r].pc \in Window \cup Collected
  /\ stop = "looking" =>
       \A r \in sight.told : r \in sight.present \/ reqs[r].pc \in Collected
  /\ stop \in {"leaving", "clean"} => \A r \in sight.told : reqs[r].pc \in Collected

Inv ==
  /\ TypeOK
  /\ ReaperInv
  /\ \A r \in Request : ReqInv(r)
  /\ SightInv

-----------------------------------------------------------------------------
(* Names of processes: distinct requests have distinct leaders, a leader is no *)
(* child, and nobody is a process.                                             *)
LEMMA Names ==
  /\ \A r \in Request : Leader(r) \in Process /\ Child(r) \in Process
  /\ \A r \in Request : Leader(r)[1] = r /\ Leader(r)[2] = "leader"
  /\ \A r \in Request : Child(r)[1] = r /\ Child(r)[2] = "child"
  /\ \A r, s \in Request : Leader(r) # Child(s)
  /\ \A r, s \in Request : Leader(r) = Leader(s) => r = s
  /\ Nobody \notin Process
  BY DEF Leader, Child, Process, Nobody

LEMMA InitInv == Init => Inv
<1> SUFFICES ASSUME Init PROVE Inv
  OBVIOUS
<1>1. TypeOK
  BY DEF Init, TypeOK, Unborn, Entry
<1>2. ReaperInv
  BY DEF Init, ReaperInv
<1>3. \A r \in Request : ReqInv(r)
  BY Names DEF Init, ReqInv, BeforeInv, BornInv, ChildInv, GoneInv, SurvivorInv, KeptInv,
               Window, Collected, Unborn
<1>4. SightInv
  BY DEF Init, SightInv
<1> QED
  BY <1>1, <1>2, <1>3, <1>4 DEF Inv

-----------------------------------------------------------------------------
(* Steps of the kernel and of the agent that change the process table and      *)
(* nothing else a request relies on.                                           *)

(* What such a step may do to the table: an ended process stays ended, an      *)
(* unborn leader unborn, and no process that has not ended is collected.       *)
TableStep ==
  /\ table' \in [Process -> Entry]
  /\ \A p \in Process : table[p].state \in {"zombie", "gone"} => table'[p].state = table[p].state
  /\ \A r \in Request :
       /\ table[Leader(r)].state = "unborn" => table'[Leader(r)].state = "unborn"
       /\ table[Leader(r)].state = "running" => table'[Leader(r)].state \in {"running", "zombie"}

LEMMA ByTableStep ==
  ASSUME Inv, TableStep, stop' = stop \/ stop' = "waiting",
         UNCHANGED <<reqs, children, reaper, sight, survived>>,
         ctx' \in [Exec -> {"open", "ended"}],
         watcher' \in [Exec -> {"off", "select", "grace", "end"}]
  PROVE  Inv'
<1>1. TypeOK'
  BY DEF Inv, TypeOK, TableStep
<1>2. ReaperInv'
  BY DEF Inv, ReaperInv, TableStep
<1>3. ASSUME NEW r \in Request PROVE ReqInv(r)'
  <2>1. ReqInv(r) /\ Leader(r) \in Process
    BY Names DEF Inv
  <2>2. table[Leader(r)].state \in {"unborn", "running", "zombie", "gone"}
    BY <2>1 DEF Inv, TypeOK, Entry
  <2>3. BeforeInv(r)' /\ ChildInv(r)' /\ KeptInv(r)'
    BY <2>1 DEF ReqInv, BeforeInv, ChildInv, KeptInv
  <2>4. BornInv(r)'
    BY <2>1 DEF ReqInv, BornInv, TableStep
  <2>5. GoneInv(r)'
    BY <2>1 DEF ReqInv, GoneInv, TableStep
  <2>6. SurvivorInv(r)'
    BY <2>1, <2>2 DEF ReqInv, SurvivorInv, TableStep
  <2> QED
    BY <2>3, <2>4, <2>5, <2>6 DEF ReqInv
<1>4. SightInv'
  BY DEF Inv, SightInv
<1> QED
  BY <1>1, <1>2, <1>3, <1>4 DEF Inv

LEMMA KillStep ==
  ASSUME Inv, NEW S, NEW sig, Kill(S, sig)
  PROVE  TableStep
<1>1. \A p \in Process : table[p] \in Entry
  BY DEF Inv, TypeOK
<1>2. \A p \in Process : table'[p] \in Entry /\ table'[p].state = table[p].state
  BY <1>1 DEF Kill, Entry
<1>3. table' \in [Process -> Entry]
  BY <1>2 DEF Kill
<1> QED
  BY <1>2, <1>3, Names DEF TableStep

LEMMA ForkInv ==
  ASSUME Inv, Alive, NEW r \in Request, NEW fork \in Forks[r], Fork(r, fork)
  PROVE  Inv'
<1>1. fork \in [escaped: BOOLEAN, piped: BOOLEAN]
  BY AgentAssumption DEF Request
<1>2. Child(r) \in Process /\ table \in [Process -> Entry] /\ table[Child(r)] = Unborn
  BY Names DEF Inv, TypeOK, Fork
<1>3. table' = [table EXCEPT ![Child(r)] =
        [Unborn EXCEPT !.state = "running", !.escaped = fork.escaped, !.piped = fork.piped]]
  BY <1>2 DEF Fork
<1>4. [Unborn EXCEPT !.state = "running", !.escaped = fork.escaped, !.piped = fork.piped] \in Entry
  BY <1>1 DEF Unborn, Entry
<1>5. table' \in [Process -> Entry]
  BY <1>2, <1>3, <1>4
<1>6. \A p \in Process : p # Child(r) => table'[p] = table[p]
  BY <1>2, <1>3
<1>7. table[Child(r)].state = "unborn"
  BY <1>2 DEF Unborn
<1>8. TableStep
  BY <1>5, <1>6, <1>7, Names DEF TableStep
<1> QED
  BY <1>8, ByTableStep DEF Fork, Alive, Inv, TypeOK

LEMMA ExitInv ==
  ASSUME Inv, Alive, NEW p \in Process, Exit(p)
  PROVE  Inv'
<1>1. PICK state \in {"zombie", "gone"} :
        /\ p[2] # "child" => state = "zombie"
        /\ table' = [table EXCEPT ![p] = [Unborn EXCEPT !.state = state]]
  BY DEF Exit
<1>2. [Unborn EXCEPT !.state = state] \in Entry /\ [Unborn EXCEPT !.state = state].state = state
  BY DEF Unborn, Entry
<1>3. table \in [Process -> Entry] /\ table[p].state = "running"
  BY DEF Inv, TypeOK, Exit, Running
<1>4. table' \in [Process -> Entry] /\ table'[p].state = state
  BY <1>1, <1>2, <1>3
<1>5. \A q \in Process : q # p => table'[q] = table[q]
  BY <1>1, <1>3
<1>6. \A r \in Request : Leader(r) = p => table'[p].state = "zombie"
  BY <1>1, <1>4, Names
<1>7. TableStep
  BY <1>3, <1>4, <1>5, <1>6, Names DEF TableStep
<1> QED
  BY <1>7, ByTableStep DEF Exit, Alive, Inv, TypeOK

LEMMA ShutdownInv ==
  ASSUME Inv, Alive, Shutdown
  PROVE  Inv'
<1>1. TableStep
  BY KillStep DEF Shutdown
<1> QED
  BY <1>1, ByTableStep DEF Shutdown, Inv, TypeOK

(* A step that leaves the table as it is. *)
LEMMA SameTable ==
  ASSUME Inv, UNCHANGED table
  PROVE  TableStep
<1>1. table \in [Process -> Entry]
  BY DEF Inv, TypeOK
<1> QED
  BY <1>1 DEF TableStep

LEMMA WatchInv ==
  ASSUME Inv, Alive, NEW r \in Exec,
         ContextEnds(r) \/ Watch(r)
  PROVE  Inv'
<1>1. ctx \in [Exec -> {"open", "ended"}]
      /\ watcher \in [Exec -> {"off", "select", "grace", "end"}]
  BY DEF Inv, TypeOK
<1>2. CASE ContextEnds(r)
  <2>1. ctx' \in [Exec -> {"open", "ended"}]
    BY <1>1, <1>2 DEF ContextEnds
  <2> QED
    BY <1>1, <1>2, <2>1, SameTable, ByTableStep DEF ContextEnds
<1>3. CASE Watch(r)
  <2>1. watcher' \in [Exec -> {"off", "select", "grace", "end"}]
    BY <1>1, <1>3 DEF Watch, WatchTerm, WatchKill, WatchEnd
  <2>2. TableStep
    BY <1>3, SameTable, KillStep DEF Watch, WatchTerm, WatchKill, WatchEnd
  <2> QED
    BY <1>1, <1>3, <2>1, <2>2, ByTableStep DEF Watch, WatchTerm, WatchKill, WatchEnd
<1> QED
  BY <1>2, <1>3

LEMMA SignalInv ==
  ASSUME Inv, Alive, NEW r \in Launch, NEW sig, SignalProcess(r, sig)
  PROVE  Inv'
<1>1. TableStep
  BY KillStep DEF SignalProcess
<1> QED
  BY <1>1, ByTableStep DEF SignalProcess, Alive, Inv, TypeOK

(* A look begins with `children' as it is: whoever was told its pid is there,  *)
(* or has been collected.                                                      *)
LEMMA LookBeginsInv ==
  ASSUME Inv, LookBegins
  PROVE  Inv'
<1>1. sight' = [present |-> children, told |-> {r \in Request : Told(r)}]
  BY DEF LookBegins
<1>2. TypeOK' /\ ReaperInv'
  BY <1>1 DEF Inv, TypeOK, ReaperInv, LookBegins
<1>3. ASSUME NEW r \in Request PROVE ReqInv(r)'
  BY DEF Inv, ReqInv, BeforeInv, BornInv, ChildInv, GoneInv, SurvivorInv, KeptInv, LookBegins
<1>4. ASSUME NEW r \in Request, Told(r)
      PROVE  reqs[r].pc \in Window \cup Collected /\ (r \in children \/ reqs[r].pc \in Collected)
  <2>1. ReqInv(r)
    BY DEF Inv
  <2>2. reqs[r].pc \in Window \cup Collected
    BY <1>4 DEF Inv, TypeOK, Told, Window, Collected
  <2> QED
    BY <2>1, <2>2 DEF ReqInv, ChildInv
<1>5. SightInv'
  BY <1>1, <1>4 DEF SightInv, LookBegins
<1> QED
  BY <1>2, <1>3, <1>5 DEF Inv

(* One that ends without finding any: what was there and no longer is has been *)
(* collected, for a pid leaves `children' only then.                           *)
LEMMA LookFindsNoneInv ==
  ASSUME Inv, LookFindsNone
  PROVE  Inv'
<1>1. sight' = [present |-> {}, told |-> sight.told] /\ sight.told \in SUBSET Request
  BY DEF LookFindsNone, Inv, TypeOK
<1>2. TypeOK' /\ ReaperInv'
  BY <1>1 DEF Inv, TypeOK, ReaperInv, LookFindsNone
<1>3. ASSUME NEW r \in Request PROVE ReqInv(r)'
  BY DEF Inv, ReqInv, BeforeInv, BornInv, ChildInv, GoneInv, SurvivorInv, KeptInv, LookFindsNone
<1>4. ASSUME NEW r \in sight.told PROVE reqs[r].pc \in Collected
  <2>1. /\ r \in Request /\ ReqInv(r)
        /\ reqs[r].pc \in Window \cup Collected
        /\ r \in sight.present \/ reqs[r].pc \in Collected
    BY <1>1 DEF Inv, SightInv, LookFindsNone
  <2>2. r \in sight.present => r \notin children
    BY DEF LookFindsNone
  <2> QED
    BY <2>1, <2>2 DEF ReqInv, ChildInv
<1>5. SightInv'
  BY <1>1, <1>4 DEF SightInv, LookFindsNone
<1> QED
  BY <1>2, <1>3, <1>5 DEF Inv

LEMMA LookFindsOneInv ==
  ASSUME Inv, LookFindsOne
  PROVE  Inv'
<1>1. sight' = [present |-> {}, told |-> {}]
  BY DEF LookFindsOne
<1>2. TypeOK' /\ ReaperInv'
  BY <1>1 DEF Inv, TypeOK, ReaperInv, LookFindsOne
<1>3. ASSUME NEW r \in Request PROVE ReqInv(r)'
  BY DEF Inv, ReqInv, BeforeInv, BornInv, ChildInv, GoneInv, SurvivorInv, KeptInv, LookFindsOne
<1>4. SightInv'
  BY <1>1 DEF SightInv
<1> QED
  BY <1>2, <1>3, <1>4 DEF Inv

LEMMA LeaveInv ==
  ASSUME Inv, ExitClean \/ GraceSpent
  PROVE  Inv'
<1>1. /\ reaper' = [listed |-> {}, next |-> Nobody]
      /\ ctx' = [r \in Exec |-> "ended"] /\ watcher' = [r \in Exec |-> "off"]
      /\ UNCHANGED <<table, reqs, children, sight, survived>>
      /\ stop' \in {"clean", "forced"}
      /\ stop' = "clean" => stop = "leaving"
  BY DEF ExitClean, GraceSpent, Leave
<1>2. TypeOK' /\ ReaperInv'
  BY <1>1 DEF Inv, TypeOK, ReaperInv
<1>3. ASSUME NEW r \in Request PROVE ReqInv(r)'
  BY <1>1, Names DEF Inv, ReqInv, BeforeInv, BornInv, ChildInv, GoneInv, SurvivorInv, KeptInv
<1>4. SightInv'
  BY <1>1 DEF Inv, SightInv
<1> QED
  BY <1>2, <1>3, <1>4 DEF Inv

-----------------------------------------------------------------------------
(* The reaper. *)

LEMMA ScanInv ==
  ASSUME Inv, Alive, Scan
  PROVE  Inv'
<1>1. reaper' = [listed |-> Zombies, next |-> Nobody]
  BY DEF Scan
<1>2. TypeOK'
  BY <1>1 DEF Inv, TypeOK, Scan, Zombies
<1>3. ReaperInv'
  BY <1>1 DEF Inv, ReaperInv, Scan, Zombies
<1>4. ASSUME NEW r \in Request PROVE ReqInv(r)'
  BY <1>1, Names
     DEF Inv, ReqInv, BeforeInv, BornInv, ChildInv, GoneInv, SurvivorInv, KeptInv, Scan
<1>5. SightInv'
  BY DEF Inv, SightInv, Scan
<1> QED
  BY <1>2, <1>3, <1>4, <1>5 DEF Inv

(* A survivor between its record and its Wait is owned, and so passed over. *)
LEMMA LookInv ==
  ASSUME Inv, Alive, NEW p \in Process, Look(p)
  PROVE  Inv'
<1>1. PICK n \in {p, Nobody} : /\ reaper' = [listed |-> reaper.listed \ {p}, next |-> n]
                               /\ Owned(p) => n = Nobody
  BY DEF Look
<1>2. p \in reaper.listed /\ reaper.listed \in SUBSET Process
  BY DEF Look, Inv, TypeOK
<1>3. TypeOK'
  BY <1>1, <1>2 DEF Inv, TypeOK, Look
<1>4. ReaperInv'
  BY <1>1, <1>2 DEF Inv, ReaperInv, Look
<1>5. ASSUME NEW r \in Request PROVE ReqInv(r)'
  <2>1. ReqInv(r)
    BY DEF Inv
  <2>2. BeforeInv(r)' /\ BornInv(r)' /\ ChildInv(r)' /\ GoneInv(r)' /\ KeptInv(r)'
    BY <2>1 DEF ReqInv, BeforeInv, BornInv, ChildInv, GoneInv, KeptInv, Look
  <2>3. SurvivorInv(r)'
    <3>1. SUFFICES ASSUME r \in survived, reqs[r].pc \in Window
                   PROVE  table[Leader(r)].state \in {"running", "zombie"} /\ n # Leader(r)
      BY <1>1 DEF SurvivorInv, Look
    <3>2. Leader(r) = p => Owned(p)
      BY <3>1, <2>1, Names DEF ReqInv, ChildInv, Owned
    <3> QED
      BY <3>1, <3>2, <2>1, <1>1, Names DEF ReqInv, SurvivorInv
  <2> QED
    BY <2>2, <2>3 DEF ReqInv
<1>6. SightInv'
  BY DEF Inv, SightInv, Look
<1> QED
  BY <1>3, <1>4, <1>5, <1>6 DEF Inv

LEMMA ReapInv ==
  ASSUME Inv, Alive, Reap
  PROVE  Inv'
<1> DEFINE p == reaper.next
<1>1. p \in Process /\ reaper' = [listed |-> reaper.listed, next |-> Nobody]
  BY DEF Inv, ReaperInv, Reap
<1>2. table \in [Process -> Entry]
  BY DEF Inv, TypeOK
<1>3. /\ table' \in [Process -> Entry]
      /\ \A q \in Process : q # p => table'[q] = table[q]
      /\ table[p].state \in {"zombie", "gone"} /\ table'[p].state \in {"zombie", "gone"}
      /\ table[p].state = "gone" => table'[p].state = "gone"
  <2>1. table[p].state \in {"zombie", "gone"}
    BY DEF Inv, ReaperInv, Reap
  <2>2. CASE p \in Zombies
    BY <1>1, <1>2, <2>1, <2>2 DEF Reap, Entry
  <2>3. CASE p \notin Zombies
    BY <1>1, <1>2, <2>1, <2>3 DEF Reap
  <2> QED
    BY <2>2, <2>3
<1>4. TypeOK'
  BY <1>1, <1>3 DEF Inv, TypeOK, Reap
<1>5. ReaperInv'
  <2>1. \A q \in reaper.listed : q \in Process /\ table[q].state \in {"zombie", "gone"}
    BY DEF Inv, ReaperInv
  <2>2. \A q \in reaper.listed : table'[q].state \in {"zombie", "gone"}
    BY <2>1, <1>3
  <2>3. reaper.listed \in SUBSET Process
    BY <2>1
  <2> QED
    BY <2>2, <2>3, <1>1 DEF ReaperInv
<1>6. ASSUME NEW r \in Request PROVE ReqInv(r)'
  <2>1. ReqInv(r) /\ Leader(r) \in Process
    BY Names DEF Inv
  <2>2. BeforeInv(r)' /\ ChildInv(r)' /\ KeptInv(r)'
    BY <2>1 DEF ReqInv, BeforeInv, ChildInv, KeptInv, Reap
  <2>3. BornInv(r)' /\ GoneInv(r)'
    BY <2>1, <1>3 DEF ReqInv, BornInv, GoneInv, Reap
  <2>4. SurvivorInv(r)'
    BY <2>1, <1>1, <1>3, Names DEF ReqInv, SurvivorInv, Reap
  <2> QED
    BY <2>2, <2>3, <2>4 DEF ReqInv
<1>7. SightInv'
  BY DEF Inv, SightInv, Reap
<1> QED
  BY <1>4, <1>5, <1>6, <1>7 DEF Inv

-----------------------------------------------------------------------------
(* The handlers.  A step of one request leaves the others alone. *)

Only(r) ==
  /\ reqs' \in [Request -> [pc: {"idle", "started", "stored", "serving", "drained",
                                 "waited", "answered", "deleted", "done"},
                            status: {"none", "own", "lost"}]]
  /\ \A s \in Request : s # r =>
       /\ reqs'[s] = reqs[s] /\ table'[Leader(s)] = table[Leader(s)]
       /\ s \in children' <=> s \in children
       /\ s \in survived' <=> s \in survived

(* A request never goes back behind its record, or its Wait. *)
Onward(r) ==
  /\ reqs[r].pc \in Window => reqs'[r].pc \in Window \cup Collected
  /\ reqs[r].pc \in Collected => reqs'[r].pc \in Collected

LEMMA ByOnly ==
  ASSUME Inv, Alive, NEW r \in Request, Only(r), Onward(r), ReqInv(r)', ReaperInv',
         table' \in [Process -> Entry], children' \in SUBSET Request,
         survived' \in SUBSET Request, UNCHANGED <<ctx, reaper, stop, sight>>,
         watcher' \in [Exec -> {"off", "select", "grace", "end"}]
  PROVE  Inv'
<1>1. TypeOK'
  BY DEF Inv, TypeOK, Only
<1>2. ASSUME NEW s \in Request, s # r PROVE ReqInv(s)'
  <2>1. ReqInv(s)
    BY DEF Inv
  <2>2. /\ reqs'[s] = reqs[s] /\ table'[Leader(s)] = table[Leader(s)]
        /\ s \in children' <=> s \in children
        /\ s \in survived' <=> s \in survived
    BY <1>2 DEF Only
  <2> QED
    BY <2>1, <2>2 DEF ReqInv, BeforeInv, BornInv, ChildInv, GoneInv, SurvivorInv, KeptInv
<1>3. SightInv'
  <2>1. \A s \in Request : /\ reqs[s].pc \in Window => reqs'[s].pc \in Window \cup Collected
                           /\ reqs[s].pc \in Collected => reqs'[s].pc \in Collected
    BY DEF Only, Onward
  <2>2. sight.told \in SUBSET Request
    BY DEF Inv, TypeOK
  <2> QED
    BY <2>1, <2>2 DEF Inv, SightInv
<1> QED
  BY <1>1, <1>2, <1>3 DEF Inv

(* A step to another pc that changes no status. *)
LEMMA GotoStep ==
  ASSUME Inv, NEW r \in Request,
         NEW pc \in {"idle", "started", "stored", "serving", "drained",
                     "waited", "answered", "deleted", "done"}, Goto(r, pc)
  PROVE  /\ reqs' \in [Request -> [pc: {"idle", "started", "stored", "serving", "drained",
                                        "waited", "answered", "deleted", "done"},
                                   status: {"none", "own", "lost"}]]
         /\ \A s \in Request : s # r => reqs'[s] = reqs[s]
         /\ reqs'[r].pc = pc /\ reqs'[r].status = reqs[r].status
  BY DEF Inv, TypeOK, Goto

LEMMA StartInv ==
  ASSUME Inv, Alive, NEW r \in Request, Start(r)
  PROVE  Inv'
<1>1. /\ reqs[r].pc = "idle" /\ ReqInv(r) /\ Leader(r) \in Process
      /\ table \in [Process -> Entry]
  BY Names DEF Inv, Start, TypeOK
<1>2. /\ table' \in [Process -> Entry] /\ table'[Leader(r)].state = "running"
      /\ \A p \in Process : p # Leader(r) => table'[p] = table[p]
  BY <1>1 DEF Start, Entry
<1>3. table[Leader(r)].state = "unborn"
  BY <1>1 DEF ReqInv, BornInv
<1>4. ReaperInv'
  BY <1>2, <1>3 DEF Inv, ReaperInv, Start
<1>5. reqs'[r].pc = "started" /\ reqs'[r].status = reqs[r].status
  BY GotoStep DEF Start
<1>6. ReqInv(r)'
  BY <1>1, <1>5 DEF ReqInv, BeforeInv, BornInv, ChildInv, GoneInv, SurvivorInv, KeptInv,
                    Window, Collected, Start
<1>7. Only(r) /\ Onward(r)
  BY <1>1, <1>2, GotoStep, Names DEF Start, Only, Onward, Window, Collected
<1> QED
  BY <1>2, <1>4, <1>6, <1>7, ByOnly DEF Start, Inv, TypeOK

(* A process that still runs when it is recorded is not the reaper's choice.   *)
LEMMA StoreInv ==
  ASSUME Inv, Alive, NEW r \in Request, Store(r)
  PROVE  Inv'
<1>1. /\ reqs[r].pc = "started" /\ ReqInv(r) /\ Leader(r) \in Process
      /\ table \in [Process -> Entry]
      /\ watcher \in [Exec -> {"off", "select", "grace", "end"}]
  BY Names DEF Inv, Store, TypeOK
<1>2. PICK pc \in {"serving", "stored"} : Goto(r, pc)
  BY DEF Store
<1>3. reqs'[r].pc = pc /\ reqs'[r].status = reqs[r].status
  BY <1>2, GotoStep
<1>4. watcher' \in [Exec -> {"off", "select", "grace", "end"}]
  BY <1>1 DEF Store
<1>5. /\ survived' \in SUBSET Request
      /\ r \in survived' => Running(Leader(r))
      /\ \A s \in Request : s # r => (s \in survived' <=> s \in survived)
  BY <1>1 DEF Store, Inv, TypeOK, ReqInv, BeforeInv
<1>6. Running(Leader(r)) => reaper.next # Leader(r)
  BY <1>1, Names DEF Inv, ReaperInv, Running
<1>7. ReaperInv'
  BY DEF Inv, ReaperInv, Store
<1>8. BeforeInv(r)' /\ BornInv(r)' /\ ChildInv(r)' /\ GoneInv(r)'
  BY <1>3 DEF BeforeInv, BornInv, ChildInv, GoneInv, Window, Collected, Store
<1>9. SurvivorInv(r)' /\ KeptInv(r)'
  BY <1>1, <1>3, <1>5, <1>6 DEF ReqInv, BeforeInv, SurvivorInv, KeptInv, Running, Store
<1>10. Only(r) /\ Onward(r)
  BY <1>1, <1>2, <1>5, GotoStep DEF Store, Only, Onward, Window, Collected
<1> QED
  BY <1>1, <1>4, <1>5, <1>7, <1>8, <1>9, <1>10, ByOnly DEF Store, Inv, TypeOK, ReqInv

LEMMA WaitInv ==
  ASSUME Inv, Alive, NEW r \in Request, Wait(r)
  PROVE  Inv'
<1> DEFINE st == IF table[Leader(r)].state = "zombie" THEN "own" ELSE "lost"
<1>1. /\ reqs[r].pc \in Window /\ ReqInv(r) /\ Leader(r) \in Process
      /\ table \in [Process -> Entry]
      /\ reqs[r] \in [pc: {"idle", "started", "stored", "serving", "drained",
                           "waited", "answered", "deleted", "done"},
                      status: {"none", "own", "lost"}]
  BY Names DEF Inv, Wait, TypeOK, Window
<1>2. table[Leader(r)].state \in {"zombie", "gone"}
  BY DEF Wait
<1>3. /\ table' \in [Process -> Entry] /\ table'[Leader(r)].state = "gone"
      /\ \A p \in Process : p # Leader(r) => table'[p] = table[p]
  BY <1>1 DEF Wait, Entry
<1>4. reqs' = [reqs EXCEPT ![r] = [reqs[r] EXCEPT !.pc = "waited", !.status = st]]
  BY <1>1 DEF Wait, Inv, TypeOK
<1>5. /\ [reqs[r] EXCEPT !.pc = "waited", !.status = st].pc = "waited"
      /\ [reqs[r] EXCEPT !.pc = "waited", !.status = st].status = st
      /\ [reqs[r] EXCEPT !.pc = "waited", !.status = st] \in
           [pc: {"idle", "started", "stored", "serving", "drained",
                 "waited", "answered", "deleted", "done"},
            status: {"none", "own", "lost"}]
  BY <1>1
<1>6. /\ reqs'[r].pc = "waited" /\ reqs'[r].status = st
      /\ \A s \in Request : s # r => reqs'[s] = reqs[s]
      /\ reqs' \in [Request -> [pc: {"idle", "started", "stored", "serving", "drained",
                                     "waited", "answered", "deleted", "done"},
                                status: {"none", "own", "lost"}]]
  BY <1>4, <1>5 DEF Inv, TypeOK
<1>7. ReaperInv'
  BY <1>3 DEF Inv, ReaperInv, Wait
<1>8. r \in survived => st = "own"
  BY <1>1, <1>2 DEF ReqInv, SurvivorInv
<1>9. ReqInv(r)'
  BY <1>3, <1>6, <1>8 DEF ReqInv, BeforeInv, BornInv, ChildInv, GoneInv, SurvivorInv, KeptInv,
                          Window, Collected, Wait
<1>10. Only(r) /\ Onward(r)
  BY <1>3, <1>6, Names DEF Wait, Only, Onward, Collected
<1> QED
  BY <1>3, <1>7, <1>9, <1>10, ByOnly DEF Wait, Inv, TypeOK

(* Steps to another pc on the same side of the Wait. *)
LEMMA MoveInv ==
  ASSUME Inv, Alive, NEW r \in Request, Register(r) \/ Drain(r) \/ Answer(r) \/ Delete(r) \/ CloseDone(r)
  PROVE  Inv'
<1>1. PICK pc \in {"serving", "drained", "answered", "deleted", "done"} :
        /\ Goto(r, pc)
        /\ \/ reqs[r].pc \in Window /\ pc \in Window /\ children' = children
           \/ /\ reqs[r].pc \in Collected /\ pc \in Collected
              /\ children' = children \/ children' = children \ {r}
  BY DEF Register, Drain, Answer, Delete, CloseDone, Window, Collected
<1>2. UNCHANGED <<table, ctx, watcher, reaper, stop, sight, survived>>
  BY DEF Register, Drain, Answer, Delete, CloseDone
<1>3. reqs'[r].pc = pc /\ reqs'[r].status = reqs[r].status
  BY <1>1, GotoStep
<1>4. ReqInv(r)
  BY DEF Inv
<1>5. ReqInv(r)'
  BY <1>1, <1>2, <1>3, <1>4
     DEF ReqInv, BeforeInv, BornInv, ChildInv, GoneInv, SurvivorInv, KeptInv, Window, Collected
<1>6. Only(r) /\ Onward(r)
  BY <1>1, <1>2, <1>3, GotoStep DEF Only, Onward, Window, Collected
<1>7. ReaperInv'
  BY <1>2 DEF Inv, ReaperInv
<1>8. children' \in SUBSET Request
  BY <1>1 DEF Inv, TypeOK
<1> QED
  BY <1>2, <1>5, <1>6, <1>7, <1>8, ByOnly DEF Inv, TypeOK

LEMMA StutterInv ==
  ASSUME Inv, UNCHANGED vars
  PROVE  Inv'
<1> USE DEF vars
<1>1. TypeOK' /\ ReaperInv'
  BY DEF Inv, TypeOK, ReaperInv
<1>2. ASSUME NEW r \in Request PROVE ReqInv(r)'
  BY DEF Inv, ReqInv, BeforeInv, BornInv, ChildInv, GoneInv, SurvivorInv, KeptInv
<1>3. SightInv'
  BY DEF Inv, SightInv
<1> QED
  BY <1>1, <1>2, <1>3 DEF Inv

LEMMA NextInv == Inv /\ [Next]_vars => Inv'
<1> SUFFICES ASSUME Inv, [Next]_vars PROVE Inv'
  OBVIOUS
<1>1. CASE UNCHANGED vars
  BY <1>1, StutterInv
<1>2. CASE Next
  <2>1. Alive
    BY <1>2 DEF Next
  <2>2. CASE \E r \in Request : Start(r) \/ Serve(r) \/ \E fork \in Forks[r] : Fork(r, fork)
    BY <2>1, <2>2, StartInv, StoreInv, WaitInv, MoveInv, ForkInv DEF Serve
  <2>3. CASE \E p \in Process : Exit(p)
    BY <2>1, <2>3, ExitInv
  <2>4. CASE \E r \in Exec : ContextEnds(r) \/ Watch(r)
    BY <2>1, <2>4, WatchInv
  <2>5. CASE \E r \in Launch : SignalProcess(r, "term") \/ SignalProcess(r, "kill")
    BY <2>1, <2>5, SignalInv
  <2>6. CASE Reaping
    BY <2>1, <2>6, ScanInv, LookInv, ReapInv DEF Reaping
  <2>7. CASE Shutdown \/ Stopping
    BY <2>1, <2>7, ShutdownInv, LookBeginsInv, LookFindsNoneInv, LookFindsOneInv, LeaveInv
       DEF Stopping
  <2> QED
    BY <1>2, <2>2, <2>3, <2>4, <2>5, <2>6, <2>7 DEF Next
<1> QED
  BY <1>1, <1>2

(* The invariant holds whatever commands run, fork and leave, and at whatever   *)
(* point the reaper is between its scan and its wait.                          *)
THEOREM AgentInvariant == Spec => []Inv
  BY InitInv, NextInv, PTL DEF Spec

(* The status of a process that was alive when it was recorded is its           *)
(* request's, never the reaper's (reaper_linux.go reapOrphans, server.go exec). *)
THEOREM StatusIsKept == Spec => []SurvivorKeepsStatus
<1>1. Inv => SurvivorKeepsStatus
  BY DEF Inv, TypeOK, ReqInv, KeptInv, SurvivorKeepsStatus
<1> QED
  BY <1>1, AgentInvariant, PTL

(* A shutdown that ends before its grace has outlasted every process a caller   *)
(* had been told of when its last look at `children' began, although requests   *)
(* are served while it looks and until the agent is gone (server.go shutdown,   *)
(* hasChildren, process.go startProcess).                                      *)
THEOREM ShutdownIsComplete == Spec => []ShutdownWaitsForTold
<1>1. Inv => ShutdownWaitsForTold
  BY DEF Inv, TypeOK, SightInv, ReqInv, GoneInv, ShutdownWaitsForTold, Running
<1> QED
  BY <1>1, AgentInvariant, PTL

=============================================================================
