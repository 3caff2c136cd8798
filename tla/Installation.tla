---------------------------- MODULE Installation ----------------------------
(***************************************************************************)
(* One marimohub installation over its restarts: the operator changes the    *)
(* environment while marimohub is down, each process reads it at its start   *)
(* (Settings), what it submits is built from what it read (PodSpec), and the *)
(* jobs of earlier processes run on (src/src/config.ts, podspec.ts, auth.ts, *)
(* provider.ts, queues.ts; armada.ts submit, portUrl and lookoutJobs;        *)
(* sandbox.ts ready, exposePort, setEnvVars and the commands).  Another      *)
(* installation has a job on the same Armada.                                *)
(*                                                                           *)
(* Interleavings, a Lookout that lags, destroy and an end of jobs are        *)
(* Sandboxes' subject: a call here is one step, and a job once submitted     *)
(* runs.                                                                     *)
(***************************************************************************)
EXTENDS PodSpec, Environment

CONSTANTS
  Sandbox,
  Stranger,    \* the other installation's sandbox
  StrangerQueue,
  StrangerServer,
  Shows,       \* the URL of a Lookout -> the URL of the Armada it shows
  Owners,      \* the owners marimohub names for a sandbox, or Unset
  Bases,       \* environments an installation begins with
  Choices,     \* variable -> what an operator writes there
  TokenFiles,  \* what the token file holds; Unset when it cannot be read
  Lifetimes,   \* marimohub's own cap on a session, or Unset
  Images,      \* the image marimohub names, or Unset
  Memory,      \* bytes of memory in marimohub's compute profiles, or Unset
  OwnEnvs,     \* what an image defines
  VarSets,     \* what marimohub sets: functions of names
  MaxEdits,    \* bound: changes to the environment in one behaviour
  MaxSaid      \* bound: calls of setEnvVars on one instance

ASSUME InstallationAssumption ==
  /\ Bases \subseteq [EnvVar -> Text \cup {Unset}]
  /\ Choices \in [EnvVar -> SUBSET (Text \cup {Unset})]
  /\ TokenFiles \subseteq Text \cup {Unset}
  /\ Shows \in [Urls -> Urls]
  /\ Stranger \notin Sandbox /\ MaxEdits \in Nat /\ MaxSaid \in Nat
  /\ \A bytes \in Memory : bytes = Unset \/ bytes \in Nat
  /\ \A given \in OwnEnvs \cup VarSets : \A name \in DOMAIN given : given[name] # Unset

(* The variables that are read, by what is read in them. *)
UrlVariables == {"ARMADA_URL", "ARMADA_LOOKOUT_URL"}
PositiveVariables ==
  {"ARMADA_KERNEL_PORT", "ARMADA_AGENT_PORT", "ARMADA_KERNEL_MAX_LIFETIME_SECONDS"}
    \cup {s.variable : s \in SURFACES}
NaturalVariables ==
  {"ARMADA_RUN_AS_USER", "ARMADA_RUN_AS_GROUP", "ARMADA_FS_GROUP", "ARMADA_COMMAND_MAX_SECONDS"}
MapVariables ==
  {"ARMADA_QUEUE_BY_USER", "ARMADA_QUEUE_BY_PROJECT", "ARMADA_INGRESS_ANNOTATIONS"}
MetadataVariables == {"ARMADA_POD_LABELS", "ARMADA_POD_ANNOTATIONS"}
NonEmptyVariables ==
  {"ARMADA_QUEUE", "ARMADA_AGENT_IMAGE", "ARMADA_AUTH_USERNAME", "ARMADA_AUTH_PASSWORD"}
NonBlankVariables == {"ARMADA_INGRESS_CERT_NAME", "ARMADA_AUTH_TOKEN"}
FreeVariables ==
  {"ARMADA_NAMESPACE", "ARMADA_PRIORITY_CLASS", "MARIMOHUB_COMPUTE_SANDBOX_HOSTNAME"}
OtherVariables ==
  {"ARMADA_AGENT_TOKEN_SECRET", "ARMADA_AUTH_TOKEN_FILE", "ARMADA_EXPOSE", "ARMADA_INGRESS_TLS",
   "ARMADA_IMAGE_PULL_SECRETS", "MARIMOHUB_COMPUTE_IMAGE", "MARIMOHUB_SURFACES", GPU_SELECTORS}

(* An operator may also write what a variable is not for; where any text is one *)
(* there is a second, and the path of a token file may be taken away.           *)
Writes(name) == Choices[name] \ {Unset}
ASSUME ChoicesAssumption ==
  /\ EnvVar = UrlVariables \cup PositiveVariables \cup NaturalVariables \cup MapVariables
                \cup MetadataVariables \cup NonEmptyVariables \cup NonBlankVariables
                \cup FreeVariables \cup OtherVariables \cup PROFILE_VARIABLES
  /\ \A name \in UrlVariables : \E t \in Writes(name) : t \notin Urls
  /\ \A name \in PositiveVariables : \E t \in Writes(name) : \A n \in Number[t] : n < 1
  /\ \A name \in NaturalVariables : \E t \in Writes(name) : \A n \in Number[t] : n < 0
  /\ \A name \in MapVariables : \E t \in Writes(name) : Json[t] = {}
  /\ \A name \in MetadataVariables :
       \E t \in Writes(name) : \A m \in Json[t] : \E key \in DOMAIN m : isReservedKey(key)
  /\ \A name \in NonEmptyVariables : "" \in Writes(name)
  /\ \A name \in NonBlankVariables : \E t \in Writes(name) : Blank(t)
  /\ \A name \in FreeVariables : \E t, u \in Writes(name) : t # u
  /\ \E t \in Writes("ARMADA_AGENT_TOKEN_SECRET") : Length[t] < MIN_TOKEN_SECRET_LENGTH
  /\ Unset \in Choices["ARMADA_AUTH_TOKEN_FILE"]
  /\ \E t \in Writes("ARMADA_EXPOSE") : t \notin {"nodeport", "ingress"}
  /\ \E t \in Writes("ARMADA_INGRESS_TLS") : t \notin {"true", "false"}
  /\ \E t \in Writes("ARMADA_IMAGE_PULL_SECRETS") : Named(t) = {}
  /\ \E t \in Writes("MARIMOHUB_COMPUTE_IMAGE") : Items[t][1] = ""
  /\ \E t \in Writes("MARIMOHUB_SURFACES") : \E item \in Named(t) :
       item \notin {PRIMARY_SURFACE} \cup {s.id : s \in SURFACES}
  /\ \E t \in Writes(GPU_SELECTORS) : JsonEntries[t] = {}

VARIABLES
  env,       \* the environment marimohub is started with
  file,      \* what the token file holds
  hub,       \* the process: what it was started with, and the configuration it read
  jobs,      \* Armada's jobs, in the order of their ids: whose, where, what was submitted,
             \* the image's own environment, and the settings then in force (history)
  remembered, \* QueueDirectory.remembered: sandbox -> the queue this process knows it to be in
  instance,  \* the sandbox instance in use: env, envDefaults; and all it was told (history)
  answer,    \* the last call and what came of it
  edits      \* changes so far (history)

vars == <<env, file, hub, jobs, remembered, instance, answer, edits>>

Down == [env |-> Unset, file |-> Unset, lifetime |-> Unset, config |-> Unset]
Running == hub # Down

Fresh == [env |-> NoVars, envDefaults |-> NoVars, said |-> << >>]
NoAnswer == [call |-> "none"]

StrangersJob ==
  [sandbox |-> Stranger, server |-> StrangerServer, queue |-> StrangerQueue,
   request |-> [annotations |-> [key \in {SANDBOX_MARK} |-> StrangerQueue]]]

NothingRemembered == [s \in Sandbox |-> Unset]

TypeOK ==
  /\ env \in [EnvVar -> Text \cup {Unset}]
  /\ file \in Text \cup {Unset}
  /\ edits \in 0..MaxEdits
  /\ \A j \in DOMAIN jobs : jobs[j].sandbox \in Sandbox \cup {Stranger}
  /\ DOMAIN remembered = Sandbox
  /\ DOMAIN instance.env \cup DOMAIN instance.envDefaults \subseteq EnvName
  /\ Len(instance.said) <= MaxSaid

Init ==
  /\ env \in Bases
  /\ file \in TokenFiles
  /\ hub = Down
  /\ jobs = <<StrangersJob>>
  /\ remembered = NothingRemembered
  /\ instance = Fresh
  /\ answer = NoAnswer
  /\ edits = 0

-----------------------------------------------------------------------------
(* The operator, and whoever keeps the token file fresh. *)

Edit(name, text) ==
  /\ ~Running /\ text # env[name] /\ edits < MaxEdits
  /\ env' = [env EXCEPT ![name] = text]
  /\ edits' = edits + 1
  /\ answer' = NoAnswer
  /\ UNCHANGED <<file, hub, jobs, remembered, instance>>

(* The file of an installation that has one, at any time. *)
Rotate(text) ==
  /\ env["ARMADA_AUTH_TOKEN_FILE"] # Unset /\ text # file
  /\ file' = text
  /\ answer' = NoAnswer
  /\ UNCHANGED <<env, hub, jobs, remembered, instance, edits>>

-----------------------------------------------------------------------------
(* marimohub's process. *)

(* What marimohub checks itself before it makes an adapter: its surfaces have   *)
(* ports of their own.                                                          *)
SurfacesApart(config) ==
  \A s, t \in DOMAIN config.surfacePorts :
    config.surfacePorts[s] = config.surfacePorts[t] => s = t

(* A start that readConfig refuses is no start. *)
Start(lifetime) ==
  /\ ~Running
  /\ \E config \in readConfig(env, file, lifetime) :
       /\ SurfacesApart(config)
       /\ hub' = [env |-> env, file |-> file, lifetime |-> lifetime, config |-> config]
  /\ answer' = [call |-> "start"]
  /\ UNCHANGED <<env, file, jobs, remembered, instance, edits>>

Stop ==
  /\ Running
  /\ hub' = Down /\ instance' = Fresh /\ answer' = NoAnswer
  /\ remembered' = NothingRemembered
  /\ UNCHANGED <<env, file, jobs, edits>>

(* The gpu values marimohub may pass on: those of its profiles if the adapter   *)
(* offers GPUs, upper-cased or as they were written; else it strips them.       *)
Offered ==
  {Unset} \cup
  IF capabilities(hub.config).gpuProfiles
  THEN UNION {ProfileGpus[hub.env[name]] :
                name \in {n \in PROFILE_VARIABLES : hub.env[n] # Unset}}
  ELSE {}

Options ==
  [image: Images, resources: [cpu: {Unset}, memoryBytes: Memory, gpu: Offered]]

Header == authorizationHeader(hub.config.auth, file)

Settles(call, s, outcome) ==
  answer' = [call |-> call, of |-> s, outcome |-> outcome, header |-> Header]

-----------------------------------------------------------------------------
(* Where a sandbox is. *)

(* Mutant: Lookout's list is not scoped. *)
Marked_Any(config) == {j \in DOMAIN jobs : jobs[j].server = Shows[config.lookoutUrl]}

(* Lookout's jobs of this installation, scoped by the mark. *)
Marked(config) ==
  {j \in DOMAIN jobs :
     /\ jobs[j].server = Shows[config.lookoutUrl]
     /\ jobs[j].request.annotations[SANDBOX_MARK] = config.queue}

Shown(s) == {j \in Marked(hub.config) : jobs[j].sandbox = s}

Newest(S) == CHOOSE j \in S : \A i \in S : i <= j

(* Some owner maps to a queue other than the default. *)
mapped(config) ==
  \E queue \in Values(config.queueByUser) \cup Values(config.queueByProject) :
    queue # config.queue

forOwner(config, owner) ==
  IF owner.user \in DOMAIN config.queueByUser THEN config.queueByUser[owner.user]
  ELSE IF owner.project \in DOMAIN config.queueByProject
  THEN config.queueByProject[owner.project] ELSE config.queue

(* Mutant: the map of the day is asked before Lookout. *)
resolve_MapFirst(s, owner) ==
  IF remembered[s] # Unset THEN remembered[s]
  ELSE IF ~mapped(hub.config) THEN hub.config.queue
  ELSE IF owner # Unset THEN forOwner(hub.config, owner)
  ELSE IF Shown(s) # {} THEN jobs[Newest(Shown(s))].queue
  ELSE hub.config.queue

resolve(s, owner) ==
  IF remembered[s] # Unset THEN remembered[s]
  ELSE IF ~mapped(hub.config) THEN hub.config.queue
  ELSE IF Shown(s) # {} THEN jobs[Newest(Shown(s))].queue
  ELSE IF owner = Unset THEN hub.config.queue ELSE forOwner(hub.config, owner)

(* A queue that took a look, or the map, is kept; the default of an             *)
(* installation without a map is not.                                           *)
Remembers(s, queue) ==
  remembered' = IF mapped(hub.config) THEN [remembered EXCEPT ![s] = queue] ELSE remembered

(* The job Armada answers a submit with: it knows a client id by server and     *)
(* queue.                                                                       *)
InSet(s, queue) ==
  {j \in DOMAIN jobs :
     jobs[j].sandbox = s /\ jobs[j].server = hub.config.url /\ jobs[j].queue = queue}

-----------------------------------------------------------------------------
(* Calls on a sandbox.  Each begins with ready, whose submit is answered with a *)
(* new job or with the one that is there.                                       *)

(* ready where no job is: a pod is built, a job sent. *)
Submit(s, owner, options, own) ==
  /\ Running /\ InSet(s, resolve(s, owner)) = {}
  /\ LET token == agentToken(hub.config.agentTokenSecret, s)
         pods == buildPodSpec(hub.config, sha256(token), options)
         outcome == IF pods = {} THEN "unbuildable"
                    ELSE IF Header = {} THEN "no credentials" ELSE "submitted"
     IN  /\ Settles("submit", s, outcome)
         /\ IF outcome # "submitted" THEN UNCHANGED <<jobs, remembered>>
            ELSE /\ Remembers(s, resolve(s, owner))
                 /\ \E pod \in pods :
                      jobs' = Append(jobs,
                                [sandbox |-> s, server |-> hub.config.url,
                                 queue |-> resolve(s, owner), own |-> own, env |-> hub.env,
                                 request |-> jobRequest(hub.config, pod)])
  /\ UNCHANGED <<env, file, hub, instance, edits>>

(* The pod at an address answers the scheme it was exposed with; the agent, on  *)
(* its own port, answers a health check of anybody and a request with its token. *)
Reached(j, url) ==
  IF url.scheme # Scheme(jobs[j].request.expose) \/ url.address # jobs[j].request.pod.agentPort
  THEN "unreachable"
  ELSE IF sha256(agentToken(hub.config.agentTokenSecret, jobs[j].sandbox))
            # jobs[j].request.pod.tokenSha256
  THEN "refused" ELSE "reached"

(* What comes of looking for the agent of a job. *)
Reaching(j) ==
  LET urls == portUrl(hub.config, jobs[j].request, hub.config.agentPort)
  IN  IF urls = {} THEN {"no address"} ELSE {Reached(j, url) : url \in urls}

(* ready where a job is, then a request to the agent.  A pod was built for the  *)
(* submit as well, which OfferedWorks says it can be.                           *)
Reach(s, owner) ==
  /\ Running
  /\ \E j \in InSet(s, resolve(s, owner)) :
       IF Header = {} THEN Settles("reach", s, "no credentials") /\ UNCHANGED remembered
       ELSE /\ \E outcome \in Reaching(j) : Settles("reach", s, outcome)
            /\ Remembers(s, resolve(s, owner))
  /\ UNCHANGED <<env, file, hub, jobs, instance, edits>>

(* What marimohub asks exposePort for: the kernel's port, and each surface's if *)
(* the adapter says it serves several.                                          *)
AskedPorts ==
  {hub.config.port} \cup
  (IF capabilities(hub.config).multiPort THEN Values(hub.config.surfacePorts) ELSE {})

(* ready, which is content with an agent in good health, then the address. *)
Exposing(j, port) ==
  LET urls == portUrl(hub.config, jobs[j].request, port)
  IN  IF Reaching(j) \cap {"refused", "reached"} = {} THEN {"not ready"}
      ELSE IF urls = {} THEN {"no address"}
      ELSE {IF url.scheme = Scheme(jobs[j].request.expose) THEN "served" ELSE "unreachable" :
              url \in urls}

ExposePort(s, owner, port) ==
  /\ Running
  /\ \E j \in InSet(s, resolve(s, owner)) :
       IF Header = {} THEN Settles("expose", s, "no credentials") /\ UNCHANGED remembered
       ELSE /\ \E outcome \in Exposing(j, port) : Settles("expose", s, outcome)
            /\ Remembers(s, resolve(s, owner))
  /\ UNCHANGED <<env, file, hub, jobs, instance, edits>>

(* The queue a job is listed in is remembered, the newest job's of a sandbox    *)
(* that has several.                                                            *)
ListActive ==
  /\ Running /\ capabilities(hub.config).listActive
  /\ IF Header = {}
     THEN /\ answer' = [call |-> "list", outcome |-> "no credentials", header |-> Header]
          /\ UNCHANGED remembered
     ELSE /\ answer' = [call |-> "list", outcome |-> "listed", header |-> Header,
                        found |-> {jobs[j].sandbox : j \in Marked(hub.config)}]
          /\ remembered' = [s \in Sandbox |-> IF Shown(s) = {} THEN remembered[s]
                                              ELSE jobs[Newest(Shown(s))].queue]
  /\ UNCHANGED <<env, file, hub, jobs, instance, edits>>

-----------------------------------------------------------------------------
(* The instance marimohub uses. *)

(* create: another instance of the sandbox, which was told nothing yet. *)
Create ==
  /\ Running /\ instance # Fresh
  /\ instance' = Fresh /\ answer' = NoAnswer
  /\ UNCHANGED <<env, file, hub, jobs, remembered, edits>>

(* Mutant: a name is not looked at before the next command. *)
setEnvVars_Unchecked(variables, onlyIfUnset) ==
  [instance EXCEPT !.env = IF onlyIfUnset THEN @ ELSE Onto(variables, @),
                   !.envDefaults = IF onlyIfUnset THEN Onto(variables, @) ELSE @]

(* All of them, or none when one has a name sh does not take. *)
setEnvVars(variables, onlyIfUnset) ==
  IF ~NamesValid(variables) THEN instance
  ELSE [instance EXCEPT !.env = IF onlyIfUnset THEN @ ELSE Onto(variables, @),
                        !.envDefaults = IF onlyIfUnset THEN Onto(variables, @) ELSE @]

SetEnvVars(variables, onlyIfUnset) ==
  /\ Running /\ Len(instance.said) < MaxSaid
  /\ answer' = NoAnswer
  /\ instance' = [setEnvVars(variables, onlyIfUnset) EXCEPT
                    !.said = IF NamesValid(variables)
                             THEN Append(@, [variables |-> variables, onlyIfUnset |-> onlyIfUnset])
                             ELSE @]
  /\ UNCHANGED <<env, file, hub, jobs, remembered, edits>>

(* A command in the pod that ready found, with the environment it sees. *)
RunCommand(s, owner, processEnv) ==
  /\ Running /\ Header # {}
  /\ NamesValid(processEnv)
  /\ \E j \in InSet(s, resolve(s, owner)) :
       /\ "reached" \in Reaching(j)
       /\ answer' = [call |-> "run", own |-> jobs[j].own, processEnv |-> processEnv,
                     sees |-> IF processEnv = NoVars
                              THEN CommandEnv(jobs[j].own, instance.env, instance.envDefaults)
                              ELSE ProcessEnv(jobs[j].own, instance.env, instance.envDefaults,
                                              processEnv)]
  /\ Remembers(s, resolve(s, owner))
  /\ UNCHANGED <<env, file, hub, jobs, instance, edits>>

-----------------------------------------------------------------------------
Next ==
  \/ \E name \in EnvVar : \E text \in Choices[name] : Edit(name, text)
  \/ \E text \in TokenFiles : Rotate(text)
  \/ \E lifetime \in Lifetimes : Start(lifetime)
  \/ Stop \/ ListActive \/ Create
  \/ \E s \in Sandbox, owner \in Owners :
       \/ Running /\ \E options \in Options, own \in OwnEnvs : Submit(s, owner, options, own)
       \/ Reach(s, owner)
       \/ Running /\ \E port \in AskedPorts : ExposePort(s, owner, port)
       \/ \E processEnv \in VarSets \cup {NoVars} : RunCommand(s, owner, processEnv)
  \/ \E variables \in VarSets, onlyIfUnset \in BOOLEAN : SetEnvVars(variables, onlyIfUnset)

Spec == Init /\ [][Next]_vars

-----------------------------------------------------------------------------
(* Properties. *)

Size(quantity) ==
  quantity.n * (CASE quantity.unit = "Gi" -> Gi [] quantity.unit = "Mi" -> Mi
                  [] OTHER -> 1)

(* What the adapter offers at its start it can do at every session             *)
(* (config.ts:607-622, provider.ts:41-48, podspec.ts:97-110): a pod can be     *)
(* built for every gpu value of either profile list, it is placed where the    *)
(* operator said GPUs of that type are, it has all the memory asked for, and   *)
(* every port marimohub will ask for is declared, beside the agent's own.      *)
OfferedWorks ==
  answer.call = "start" =>
    \A options \in Options : \E pod \in buildPodSpec(hub.config, "hash", options) :
      /\ Asks(options.resources.gpu) => pod.nodeSelector \in Selector
      /\ options.resources.memoryBytes # Unset =>
           Size(pod.resources.memory) >= options.resources.memoryBytes
      /\ AskedPorts \subseteq exposedPorts(pod) \ {pod.agentPort}
      /\ pod.agentPort \in exposedPorts(pod)

(* A variable of the adapter's that is set, and accepted, has a say: another    *)
(* value there would have been another configuration, or none (config.ts:       *)
(* 305-326, 243-267).  The one exception is the cap on a session's lifetime     *)
(* when marimohub gives its own.                                                *)
EverySettingCounts ==
  answer.call = "start" =>
    \A name \in EnvVar \ PROFILE_VARIABLES :
      \/ hub.env[name] = Unset
      \/ name = "ARMADA_KERNEL_MAX_LIFETIME_SECONDS" /\ hub.lifetime # Unset
      \/ \E s \in SURFACES : s.variable = name /\ s \notin DOMAIN hub.config.surfacePorts
      \/ \E text \in Choices[name] :
           readConfig([hub.env EXCEPT ![name] = text], hub.file, hub.lifetime) # {hub.config}

ReachVariables ==
  {"ARMADA_AGENT_TOKEN_SECRET", "ARMADA_AGENT_PORT", "ARMADA_EXPOSE", "ARMADA_INGRESS_TLS"}
PortVariables ==
  {"ARMADA_KERNEL_PORT", "MARIMOHUB_SURFACES"} \cup {s.variable : s \in SURFACES}

MapsOfQueues == {"ARMADA_QUEUE_BY_USER", "ARMADA_QUEUE_BY_PROJECT"}

Kept(j, names) == \A name \in names : jobs[j].env[name] = hub.env[name]

(* The one job the sandbox of the last call had when the call was made. *)
Session(j) ==
  /\ answer.call \in {"submit", "reach", "expose"}
  /\ {i \in DOMAIN jobs : /\ jobs[i].sandbox = answer.of
                          /\ answer.outcome = "submitted" => i # Len(jobs)} = {j}

(* It is looked for where it is: on the same Armada and under the same mark,    *)
(* and with a Lookout of that Armada to ask for the queue or, where no map      *)
(* makes the adapter ask, with the maps it was placed by.                       *)
Findable(j) ==
  /\ Kept(j, {"ARMADA_URL", "ARMADA_QUEUE"})
  /\ IF mapped(hub.config) THEN Shows[hub.config.lookoutUrl] = hub.config.url
     ELSE Kept(j, MapsOfQueues)

(* A session outlives a restart with other settings.  A process with the server *)
(* and the default queue the job was submitted with does not start a second     *)
(* kernel, also when it has other owner maps, as long as it has one and so asks *)
(* Lookout, or has the same (queues.ts:94-112).  With the secret, the agent's   *)
(* port and the exposure of then it reaches the agent, and with the ports of    *)
(* then it gives marimohub addresses that answer (sandbox.ts:233-261, 639-643;  *)
(* armada.ts:317-323).                                                          *)
SessionSurvives ==
  \A j \in DOMAIN jobs : Session(j) /\ Findable(j) =>
    /\ answer.call # "submit"
    /\ answer.call = "reach" /\ Kept(j, ReachVariables) =>
         answer.outcome \in {"reached", "no credentials"}
    /\ answer.call = "expose" /\ Kept(j, ReachVariables \cup PortVariables) =>
         answer.outcome \in {"served", "no credentials"}

(* The reconciler destroys what it is given (armada.ts:404-424): the list has   *)
(* no job of another installation, and each of its own on the Armada this       *)
(* Lookout shows, also one an earlier process submitted with other settings, as *)
(* long as ARMADA_QUEUE is the same.                                            *)
ListedIsOurs ==
  (answer.call = "list" /\ answer.outcome = "listed" /\ hub.config.queue # StrangerQueue) =>
    answer.found =
      {s \in Sandbox : \E j \in DOMAIN jobs :
         /\ jobs[j].sandbox = s /\ jobs[j].server = Shows[hub.config.lookoutUrl]
         /\ jobs[j].env["ARMADA_QUEUE"] = hub.env["ARMADA_QUEUE"]}

(* With a token file, a request goes out with the token the file holds then,    *)
(* which may have been rotated since the start, and with none it does not go    *)
(* out (auth.ts:39-43, armada.ts:115-121).                                      *)
CredentialIsCurrent ==
  (answer.call \in {"submit", "reach", "expose", "list"} /\ hub.config.auth.kind = "bearerFile") =>
    IF file = Unset \/ Blank(file)
    THEN answer.outcome \in {"no credentials", "unbuildable"}
    ELSE answer.header = {[scheme |-> "Bearer", token |-> Trim[file]]}

(* The last value marimohub gave a name, as a default or not. *)
Latest(name, onlyIfUnset) ==
  LET said == instance.said
      at == {i \in DOMAIN said : said[i].onlyIfUnset = onlyIfUnset
                                 /\ name \in DOMAIN said[i].variables}
  IN  IF at = {} THEN Unset
      ELSE said[CHOOSE i \in at : \A j \in at : j <= i].variables[name]

(* What marimohub set a name to, else what the image has there. *)
Given(name) ==
  IF Latest(name, FALSE) # Unset THEN Latest(name, FALSE)
  ELSE IF name \in DOMAIN answer.own THEN answer.own[name] ELSE Unset

Seen(name) == IF name \in DOMAIN answer.sees THEN answer.sees[name] ELSE Unset

(* A command sees, of each name, the process's own value, else the last one     *)
(* marimohub set, else the image's, and a default only where none of these is   *)
(* there (shell.ts:24-49, sandbox.ts:571-626).  Nothing is said here of a name  *)
(* that has a default beside a value that is the empty text: see ForcedWins.    *)
SeenInOrder ==
  answer.call = "run" =>
    \A name \in EnvName :
      \/ name \in DOMAIN answer.processEnv /\ Seen(name) = answer.processEnv[name]
      \/ name \notin DOMAIN answer.processEnv
         /\ IF Latest(name, TRUE) = Unset THEN Seen(name) = Given(name)
            ELSE Given(name) = "" \/ Seen(name) = IF Given(name) = Unset THEN Latest(name, TRUE)
                                                 ELSE Given(name)

(* What the documentation says of a name that was set and also given a default: *)
(* the command sees the value that was set (shell.ts:27-31).                    *)
ForcedWins ==
  answer.call = "run" =>
    \A name \in EnvName \ DOMAIN answer.processEnv :
      Latest(name, FALSE) # Unset => Seen(name) = Latest(name, FALSE)
=============================================================================
