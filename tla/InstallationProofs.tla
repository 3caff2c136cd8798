------------------------- MODULE InstallationProofs -------------------------
(***************************************************************************)
(* Proofs about Installation, for any number of sandboxes, environments,     *)
(* changes to them and restarts.  What a process reads is a function of the  *)
(* variables it reads it from, so what two processes have in common is what  *)
(* their environments have in common.                                        *)
(***************************************************************************)
EXTENDS Installation, WellFoundedInduction, TLAPS

Env == [EnvVar -> Text \cup {Unset}]

-----------------------------------------------------------------------------
(* What one configuration says, of the environment it was read from. *)

LEMMA MarkIsQueue ==
  ASSUME NEW config PROVE Annotations(config)[SANDBOX_MARK] = config.queue
  BY DEF Annotations, SANDBOX_MARK, FAIL_FAST

LEMMA ConfigFields ==
  ASSUME NEW e, NEW f, NEW lifetime, NEW config \in readConfig(e, f, lifetime)
  PROVE  /\ config.queue = e["ARMADA_QUEUE"] /\ config.queue # Unset
         /\ config.agentTokenSecret = e["ARMADA_AGENT_TOKEN_SECRET"]
         /\ config.agentPort \in optionalPort(e, "ARMADA_AGENT_PORT", 8718)
         /\ config.port \in optionalPort(e, "ARMADA_KERNEL_PORT", 2718)
         /\ config.surfacePorts \in readSurfacePorts(e)
         /\ config.expose \in readExposure(e)
         /\ config.auth \in readAuth(e, f)
  <1>1. config \in Fields(e, f, lifetime)
    BY DEF readConfig
  <1>2. config.queue \in required(e, "ARMADA_QUEUE")
    BY <1>1 DEF Fields
  <1>3. config.agentTokenSecret \in readTokenSecret(e)
    BY <1>1 DEF Fields
  <1>4. /\ config.agentPort \in optionalPort(e, "ARMADA_AGENT_PORT", 8718)
        /\ config.port \in optionalPort(e, "ARMADA_KERNEL_PORT", 2718)
    BY <1>1 DEF Fields
  <1>5. config.surfacePorts \in readSurfacePorts(e) /\ config.expose \in readExposure(e)
    BY <1>1 DEF Fields
  <1>6. config.auth \in readAuth(e, f)
    BY <1>1 DEF Fields
  <1>7. config.queue = e["ARMADA_QUEUE"] /\ config.queue # Unset
    BY <1>2 DEF required
  <1>8. config.agentTokenSecret = e["ARMADA_AGENT_TOKEN_SECRET"]
    BY <1>3 DEF readTokenSecret, required
  <1> QED
    BY <1>4, <1>5, <1>6, <1>7, <1>8

(* What a variable with a map may hold. *)
Held(e, name) == IF e[name] = Unset THEN {NoMap} ELSE Json[e[name]]

LEMMA QueueFields ==
  ASSUME NEW e, NEW f, NEW lifetime, NEW config \in readConfig(e, f, lifetime)
  PROVE  /\ config.url = e["ARMADA_URL"]
         /\ config.queueByUser \in Held(e, "ARMADA_QUEUE_BY_USER")
         /\ config.queueByProject \in Held(e, "ARMADA_QUEUE_BY_PROJECT")
  <1>1. config \in Fields(e, f, lifetime)
    BY DEF readConfig
  <1>2. config.url \in requiredUrl(e, "ARMADA_URL")
    BY <1>1 DEF Fields
  <1>3. config.queueByUser \in Held(e, "ARMADA_QUEUE_BY_USER")
    BY <1>1 DEF Fields, readStringMap, Held
  <1>4. config.queueByProject \in Held(e, "ARMADA_QUEUE_BY_PROJECT")
    BY <1>1 DEF Fields, readStringMap, Held
  <1>5. config.url = e["ARMADA_URL"]
    BY <1>2 DEF requiredUrl, required
  <1> QED
    BY <1>3, <1>4, <1>5

LEMMA SelectorsField ==
  ASSUME NEW e, NEW f, NEW lifetime, NEW config \in Fields(e, f, lifetime)
  PROVE  config.gpuNodeSelectors \in readGpuNodeSelectors(e)
  BY DEF Fields

LEMMA PortIsNumber ==
  ASSUME NEW e, NEW name, NEW fallback, e[name] # Unset, NEW k \in optionalPort(e, name, fallback)
  PROVE  k \in Number[e[name]]
  BY DEF optionalPort

LEMMA PortIsPositive ==
  ASSUME NEW e, NEW name, NEW fallback, e[name] # Unset, NEW k \in Int,
         k \in optionalPort(e, name, fallback)
  PROVE  k >= 1
  BY DEF optionalPort

LEMMA SamePort ==
  ASSUME NEW e \in Env, NEW g \in Env, NEW name \in EnvVar, e[name] = g[name], NEW fallback,
         NEW m \in optionalPort(e, name, fallback), NEW n \in optionalPort(g, name, fallback)
  PROVE  m = n
  <1>1. CASE e[name] = Unset
    BY <1>1 DEF optionalPort
  <1>2. CASE e[name] # Unset
    <2>1. e[name] \in Text
      BY <1>2 DEF Env
    <2>2. m \in Number[e[name]]
      BY <1>2, PortIsNumber
    <2>3. n \in Number[g[name]]
      BY <1>2, PortIsNumber
    <2>4. n \in Number[e[name]]
      BY <2>3
    <2>5. \A t \in Text : \A i, j \in Number[t] : i = j
      BY TextAssumption, Zenon
    <2> QED
      BY <2>1, <2>2, <2>4, <2>5, Zenon
  <1> QED
    BY <1>1, <1>2

LEMMA SameSurfacePorts ==
  ASSUME NEW e \in Env, NEW g \in Env, e["MARIMOHUB_SURFACES"] = g["MARIMOHUB_SURFACES"],
         \A s \in SURFACES : e[s.variable] = g[s.variable],
         NEW a \in readSurfacePorts(e), NEW b \in readSurfacePorts(g)
  PROVE  a = b
  <1> DEFINE enabled == IF e["MARIMOHUB_SURFACES"] = Unset THEN {PRIMARY_SURFACE}
                        ELSE Named(e["MARIMOHUB_SURFACES"])
             on == {s \in SURFACES : s.id \in enabled}
             A == UNION {optionalPort(e, s.variable, s.defaultPort) : s \in on}
             B == UNION {optionalPort(g, s.variable, s.defaultPort) : s \in on}
  <1>1. a \in [on -> A] /\ \A s \in on : a[s] \in optionalPort(e, s.variable, s.defaultPort)
    BY Zenon DEF readSurfacePorts
  <1>2. b \in [on -> B] /\ \A s \in on : b[s] \in optionalPort(g, s.variable, s.defaultPort)
    BY Zenon DEF readSurfacePorts
  <1>3. \A s \in on : s \in SURFACES
    OBVIOUS
  <1> HIDE DEF enabled, on, A, B
  <1>4. \A s \in on : a[s] = b[s]
    <2> SUFFICES ASSUME NEW s \in on PROVE a[s] = b[s]
      OBVIOUS
    <2>1. s.variable \in EnvVar /\ e[s.variable] = g[s.variable]
      BY <1>3, PortVariablesRead
    <2> QED
      BY <1>1, <1>2, <2>1, SamePort
  <1> QED
    BY <1>1, <1>2, <1>4

LEMMA SameScheme ==
  ASSUME NEW e, NEW g, e["ARMADA_EXPOSE"] = g["ARMADA_EXPOSE"],
         e["ARMADA_INGRESS_TLS"] = g["ARMADA_INGRESS_TLS"],
         NEW a \in readExposure(e), NEW b \in readExposure(g)
  PROVE  Scheme(a) = Scheme(b)
  <1>1. CASE e["ARMADA_EXPOSE"] = Unset \/ e["ARMADA_EXPOSE"] = "nodeport"
    <2>1. a.kind = "nodeport" /\ b.kind = "nodeport"
      BY <1>1 DEF readExposure
    <2> QED
      BY <2>1 DEF Scheme
  <1>2. CASE ~(e["ARMADA_EXPOSE"] = Unset \/ e["ARMADA_EXPOSE"] = "nodeport")
    <2>1. a \in Ingress(e) /\ b \in Ingress(g)
      BY <1>2 DEF readExposure
    <2> DEFINE tls == IF e["ARMADA_INGRESS_TLS"] = Unset THEN "true" ELSE e["ARMADA_INGRESS_TLS"]
    <2>2. /\ a.kind = "ingress" /\ a.tls \in {flag \in BOOLEAN : tls = IF flag THEN "true" ELSE "false"}
          /\ b.kind = "ingress" /\ b.tls \in {flag \in BOOLEAN : tls = IF flag THEN "true" ELSE "false"}
      BY <2>1 DEF Ingress
    <2>3. a.tls = b.tls
      BY <2>2
    <2> QED
      BY <2>2, <2>3 DEF Scheme
  <1> QED
    BY <1>1, <1>2

-----------------------------------------------------------------------------
(* Positions in a list. *)

Below == {p \in Nat \X Nat : p[1] < p[2]}

LEMMA BelowIsWellFounded == IsWellFoundedOn(Below, Nat)
  <1>1. Below = OpToRel(<, Nat)
    BY DEF Below, OpToRel
  <1> QED
    BY <1>1, NatLessThanWellFounded

(* Of some positions in a list, one is the last: the least distance to the end. *)
LEMMA HasLast ==
  ASSUME NEW n \in Nat, NEW T, T \subseteq 1..n, T # {}
  PROVE  \E i \in T : \A j \in T : j <= i
  <1> DEFINE D == {n - i : i \in T}
  <1>1. D \subseteq Nat
    OBVIOUS
  <1>2. D # {}
    <2>1. PICK i : i \in T
      OBVIOUS
    <2>2. n - i \in D
      BY <2>1
    <2> QED
      BY <2>2
  <1>3. PICK x \in D : \A y \in D : ~(<<y, x>> \in Below)
    <2> HIDE DEF D
    <2> QED
      BY <1>1, <1>2, BelowIsWellFounded, WFMin
  <1>4. PICK i \in T : x = n - i
    OBVIOUS
  <1>5. ASSUME NEW j \in T PROVE j <= i
    <2>1. n - j \in D /\ n - j \in Nat /\ x \in Nat
      OBVIOUS
    <2>2. ~(n - j < x)
      <3> HIDE DEF D
      <3> QED
        BY <1>3, <2>1 DEF Below
    <2> QED
      BY <1>4, <2>2
  <1> QED
    BY <1>5

LEMMA NewestIsOne ==
  ASSUME NEW n \in Nat, NEW T, T \subseteq 1..n, T # {} PROVE Newest(T) \in T
  <1>1. \E i \in T : \A j \in T : j <= i
    BY HasLast
  <1> QED
    BY <1>1, Zenon DEF Newest

(* What a list is after an item was put behind it. *)
LEMMA OneMore ==
  ASSUME NEW S, NEW list \in Seq(S), NEW item, NEW longer, longer = Append(list, item)
  PROVE  /\ Len(list) \in Nat /\ DOMAIN list = 1..Len(list)
         /\ Len(longer) = Len(list) + 1 /\ DOMAIN longer = 1..(Len(list) + 1)
         /\ longer[Len(list) + 1] = item /\ \A i \in 1..Len(list) : longer[i] = list[i]
         /\ longer \in Seq(S \cup {item})
  <1>1. list \in Seq(S \cup {item})
    OBVIOUS
  <1> QED
    BY <1>1

-----------------------------------------------------------------------------
(* The invariant. *)

(* The process goes by what it read when it started. *)
HubInv ==
  Running => hub.env \in Env /\ hub.config \in readConfig(hub.env, hub.file, hub.lifetime)

(* A job is as the process that submitted it would have it; without a map it is *)
(* in the default queue, unless the sandbox had a job elsewhere before.         *)
SubmittedWith(j, config) ==
  /\ jobs[j].server = config.url
  /\ \/ mapped(config) \/ jobs[j].queue = config.queue
     \/ \E i \in DOMAIN jobs : i # j /\ jobs[i].sandbox = jobs[j].sandbox
  /\ jobs[j].request.annotations[SANDBOX_MARK] = config.queue
  /\ jobs[j].request.expose = config.expose
  /\ jobs[j].request.ports = declaredPorts(config)
  /\ jobs[j].request.pod.agentPort = config.agentPort
  /\ jobs[j].request.pod.tokenSha256 = sha256(agentToken(config.agentTokenSecret, jobs[j].sandbox))

Ours(j) ==
  /\ jobs[j].sandbox \in Sandbox
  /\ jobs[j].env \in Env
  /\ \E f, lifetime : \E config \in readConfig(jobs[j].env, f, lifetime) : SubmittedWith(j, config)

JobsInv ==
  /\ \E S : jobs \in Seq(S)
  /\ \A j \in DOMAIN jobs : jobs[j] = StrangersJob \/ Ours(j)

(* What a process remembers of a sandbox is where a job of it is. *)
RememberedInv ==
  /\ DOMAIN remembered = Sandbox
  /\ \A s \in Sandbox : remembered[s] # Unset =>
       \E j \in DOMAIN jobs : jobs[j].sandbox = s /\ jobs[j].queue = remembered[s]

(* An answer has the credentials of the time it was given, which is this one. *)
HeaderInv ==
  answer.call \in {"submit", "reach", "expose", "list"} =>
    /\ answer.header = Header
    /\ Header = {} => answer.outcome \in {"no credentials", "unbuildable"}

Inv ==
  /\ env \in Env /\ HubInv /\ JobsInv /\ RememberedInv
  /\ HeaderInv /\ SessionSurvives /\ ListedIsOurs

LEMMA InitInv == Init => Inv
  <1> SUFFICES ASSUME Init PROVE Inv
    OBVIOUS
  <1>1. env \in Env
    BY InstallationAssumption DEF Init, Env
  <1>2. HubInv
    BY DEF Init, HubInv, Running
  <1>3. JobsInv
    <2>1. jobs \in Seq({StrangersJob}) /\ \A j \in DOMAIN jobs : jobs[j] = StrangersJob
      BY DEF Init
    <2> QED
      BY <2>1 DEF JobsInv
  <1>4. RememberedInv
    BY DEF Init, RememberedInv, NothingRemembered
  <1>5. HeaderInv /\ SessionSurvives /\ ListedIsOurs
    BY DEF Init, NoAnswer, HeaderInv, SessionSurvives, Session, ListedIsOurs
  <1> QED
    BY <1>1, <1>2, <1>3, <1>4, <1>5 DEF Inv

LEMMA JobIsOurs ==
  ASSUME JobsInv, NEW j \in DOMAIN jobs, jobs[j].sandbox \in Sandbox PROVE Ours(j)
  <1>1. jobs[j] # StrangersJob
    BY InstallationAssumption DEF StrangersJob
  <1> QED
    BY <1>1 DEF JobsInv

(* The list is scoped by the mark, which carries ARMADA_QUEUE. *)
LEMMA MarkIsOurs ==
  ASSUME NEW j, Ours(j)
  PROVE  jobs[j].request.annotations[SANDBOX_MARK] = jobs[j].env["ARMADA_QUEUE"]
  <1>1. PICK f, lifetime : \E config \in readConfig(jobs[j].env, f, lifetime) :
          SubmittedWith(j, config)
    BY DEF Ours
  <1>2. PICK config \in readConfig(jobs[j].env, f, lifetime) : SubmittedWith(j, config)
    BY <1>1
  <1> QED
    BY <1>2, ConfigFields DEF SubmittedWith

LEMMA MarkedIsOurs ==
  ASSUME Inv, Running, hub.config.queue # StrangerQueue
  PROVE  {jobs[j].sandbox : j \in Marked(hub.config)} =
           {s \in Sandbox : \E j \in DOMAIN jobs :
              /\ jobs[j].sandbox = s /\ jobs[j].server = Shows[hub.config.lookoutUrl]
              /\ jobs[j].env["ARMADA_QUEUE"] = hub.env["ARMADA_QUEUE"]}
  <1>1. hub.config.queue = hub.env["ARMADA_QUEUE"]
    BY ConfigFields DEF Inv, HubInv
  <1>2. ASSUME NEW j \in Marked(hub.config)
        PROVE  /\ j \in DOMAIN jobs /\ jobs[j].sandbox \in Sandbox
               /\ jobs[j].server = Shows[hub.config.lookoutUrl]
               /\ jobs[j].env["ARMADA_QUEUE"] = hub.env["ARMADA_QUEUE"]
    <2>1. /\ j \in DOMAIN jobs /\ jobs[j].server = Shows[hub.config.lookoutUrl]
          /\ jobs[j].request.annotations[SANDBOX_MARK] = hub.config.queue
      BY DEF Marked
    <2>2. jobs[j] # StrangersJob
      BY <2>1 DEF StrangersJob
    <2>3. Ours(j)
      BY <2>1, <2>2 DEF Inv, JobsInv
    <2> QED
      BY <1>1, <2>1, <2>3, MarkIsOurs DEF Ours
  <1>3. ASSUME NEW j \in DOMAIN jobs, jobs[j].sandbox \in Sandbox,
               jobs[j].server = Shows[hub.config.lookoutUrl],
               jobs[j].env["ARMADA_QUEUE"] = hub.env["ARMADA_QUEUE"]
        PROVE  j \in Marked(hub.config)
    <2>1. Ours(j)
      BY <1>3, JobIsOurs DEF Inv
    <2> QED
      BY <1>1, <1>3, <2>1, MarkIsOurs DEF Marked
  <1> QED
    BY <1>2, <1>3

(* A process with the settings a job was submitted with finds its agent where   *)
(* it looks, and there the token it makes is the pod's.                         *)
LEMMA KeptReaches ==
  ASSUME Inv, Running, NEW j, Ours(j), Kept(j, ReachVariables)
  PROVE  /\ Scheme(hub.config.expose) = Scheme(jobs[j].request.expose)
         /\ hub.config.agentPort = jobs[j].request.pod.agentPort
         /\ hub.config.agentPort \in jobs[j].request.ports
         /\ sha256(agentToken(hub.config.agentTokenSecret, jobs[j].sandbox))
              = jobs[j].request.pod.tokenSha256
  <1>1. PICK f, lifetime : \E config \in readConfig(jobs[j].env, f, lifetime) :
          SubmittedWith(j, config)
    BY DEF Ours
  <1>2. PICK config \in readConfig(jobs[j].env, f, lifetime) : SubmittedWith(j, config)
    BY <1>1
  <1>3. /\ hub.env \in Env /\ jobs[j].env \in Env
        /\ hub.config \in readConfig(hub.env, hub.file, hub.lifetime)
    BY DEF Inv, HubInv, Ours
  <1>4. \A name \in ReachVariables : jobs[j].env[name] = hub.env[name]
    BY DEF Kept
  <1>5. config.agentPort = hub.config.agentPort
    <2>1. /\ config.agentPort \in optionalPort(jobs[j].env, "ARMADA_AGENT_PORT", 8718)
          /\ hub.config.agentPort \in optionalPort(hub.env, "ARMADA_AGENT_PORT", 8718)
      BY <1>2, <1>3, ConfigFields
    <2>2. "ARMADA_AGENT_PORT" \in EnvVar
      BY PortVariablesRead
    <2>3. jobs[j].env["ARMADA_AGENT_PORT"] = hub.env["ARMADA_AGENT_PORT"]
      BY <1>4 DEF ReachVariables
    <2> QED
      BY <1>3, <2>1, <2>2, <2>3, SamePort
  <1>6. Scheme(config.expose) = Scheme(hub.config.expose)
    <2>1. config.expose \in readExposure(jobs[j].env) /\ hub.config.expose \in readExposure(hub.env)
      BY <1>2, <1>3, ConfigFields
    <2>2. /\ jobs[j].env["ARMADA_EXPOSE"] = hub.env["ARMADA_EXPOSE"]
          /\ jobs[j].env["ARMADA_INGRESS_TLS"] = hub.env["ARMADA_INGRESS_TLS"]
      BY <1>4 DEF ReachVariables
    <2> QED
      BY <2>1, <2>2, SameScheme
  <1>7. config.agentTokenSecret = hub.config.agentTokenSecret
    <2>1. /\ config.agentTokenSecret = jobs[j].env["ARMADA_AGENT_TOKEN_SECRET"]
          /\ hub.config.agentTokenSecret = hub.env["ARMADA_AGENT_TOKEN_SECRET"]
      BY <1>2, <1>3, ConfigFields
    <2> QED
      BY <1>4, <2>1 DEF ReachVariables
  <1>8. config.agentPort \in declaredPorts(config)
    BY DEF declaredPorts
  <1> QED
    BY <1>2, <1>5, <1>6, <1>7, <1>8 DEF SubmittedWith

LEMMA KeptIsReaching ==
  ASSUME Inv, Running, NEW j, Ours(j), Kept(j, ReachVariables) PROVE Reaching(j) = {"reached"}
  <1>1. /\ Scheme(hub.config.expose) = Scheme(jobs[j].request.expose)
        /\ hub.config.agentPort = jobs[j].request.pod.agentPort
        /\ hub.config.agentPort \in jobs[j].request.ports
        /\ sha256(agentToken(hub.config.agentTokenSecret, jobs[j].sandbox))
             = jobs[j].request.pod.tokenSha256
    BY KeptReaches
  <1> DEFINE urls == portUrl(hub.config, jobs[j].request, hub.config.agentPort)
  <1>2. urls = {[scheme |-> Scheme(hub.config.expose), address |-> hub.config.agentPort]}
    BY <1>1 DEF portUrl, ingressAddress
  <1>3. urls # {} /\ \A url \in urls : Reached(j, url) = "reached"
    BY <1>1, <1>2 DEF Reached
  <1> HIDE DEF urls
  <1> QED
    BY <1>3 DEF Reaching, urls

(* And if the ports are the same, each it asks for is one the pod declares. *)
LEMMA KeptPorts ==
  ASSUME Inv, Running, NEW j, Ours(j), Kept(j, ReachVariables \cup PortVariables),
         NEW port \in AskedPorts
  PROVE  port \in jobs[j].request.ports
  <1>1. PICK f, lifetime : \E config \in readConfig(jobs[j].env, f, lifetime) :
          SubmittedWith(j, config)
    BY DEF Ours
  <1>2. PICK config \in readConfig(jobs[j].env, f, lifetime) : SubmittedWith(j, config)
    BY <1>1
  <1>3. /\ hub.env \in Env /\ jobs[j].env \in Env
        /\ hub.config \in readConfig(hub.env, hub.file, hub.lifetime)
    BY DEF Inv, HubInv, Ours
  <1>4. \A name \in PortVariables : jobs[j].env[name] = hub.env[name]
    BY DEF Kept
  <1>5. config.port = hub.config.port
    <2>1. /\ config.port \in optionalPort(jobs[j].env, "ARMADA_KERNEL_PORT", 2718)
          /\ hub.config.port \in optionalPort(hub.env, "ARMADA_KERNEL_PORT", 2718)
      BY <1>2, <1>3, ConfigFields
    <2>2. "ARMADA_KERNEL_PORT" \in EnvVar
      BY PortVariablesRead
    <2>3. jobs[j].env["ARMADA_KERNEL_PORT"] = hub.env["ARMADA_KERNEL_PORT"]
      BY <1>4 DEF PortVariables
    <2> QED
      BY <1>3, <2>1, <2>2, <2>3, SamePort
  <1>6. config.surfacePorts = hub.config.surfacePorts
    <2>1. /\ config.surfacePorts \in readSurfacePorts(jobs[j].env)
          /\ hub.config.surfacePorts \in readSurfacePorts(hub.env)
      BY <1>2, <1>3, ConfigFields
    <2>2. /\ jobs[j].env["MARIMOHUB_SURFACES"] = hub.env["MARIMOHUB_SURFACES"]
          /\ \A t \in SURFACES : jobs[j].env[t.variable] = hub.env[t.variable]
      BY <1>4 DEF PortVariables
    <2> QED
      BY <1>3, <2>1, <2>2, SameSurfacePorts
  <1>7. port \in declaredPorts(config)
    BY <1>5, <1>6 DEF AskedPorts, declaredPorts
  <1> QED
    BY <1>2, <1>7 DEF SubmittedWith

LEMMA KeptIsExposing ==
  ASSUME Inv, Running, NEW j, Ours(j), Kept(j, ReachVariables \cup PortVariables),
         NEW port \in AskedPorts
  PROVE  Exposing(j, port) = {"served"}
  <1>1. Kept(j, ReachVariables)
    BY DEF Kept
  <1>2. Scheme(hub.config.expose) = Scheme(jobs[j].request.expose)
    BY <1>1, KeptReaches
  <1>3. Reaching(j) = {"reached"}
    BY <1>1, KeptIsReaching
  <1>4. port \in jobs[j].request.ports
    BY KeptPorts
  <1> DEFINE urls == portUrl(hub.config, jobs[j].request, port)
  <1>5. urls = {[scheme |-> Scheme(hub.config.expose), address |-> port]}
    BY <1>4 DEF portUrl, ingressAddress
  <1>6. urls # {} /\ \A url \in urls : url.scheme = Scheme(jobs[j].request.expose)
    BY <1>2, <1>5
  <1> HIDE DEF urls
  <1> QED
    BY <1>3, <1>6 DEF Exposing, urls

-----------------------------------------------------------------------------
(* A sandbox with one job is found where it is. *)

Of(s) == {i \in DOMAIN jobs : jobs[i].sandbox = s}

(* The same text holds the same object. *)
LEMMA SameMap ==
  ASSUME NEW e \in Env, NEW g \in Env, NEW name \in EnvVar, e[name] = g[name],
         NEW a \in Held(e, name), NEW b \in Held(g, name)
  PROVE  a = b
  <1>1. CASE e[name] = Unset
    BY <1>1 DEF Held
  <1>2. CASE e[name] # Unset
    <2>1. e[name] \in Text
      BY <1>2 DEF Env
    <2>2. a \in Json[e[name]] /\ b \in Json[e[name]]
      BY <1>2 DEF Held
    <2>3. \A t \in Text : \A m, n \in Json[t] : m = n
      BY TextAssumption, Zenon
    <2> QED
      BY <2>1, <2>2, <2>3, Zenon
  <1> QED
    BY <1>1, <1>2

(* Where no map of this process makes it ask, and the maps are those the job    *)
(* was placed by, it is in the default queue.                                   *)
LEMMA UnmappedIsDefault ==
  ASSUME Inv, Running, NEW j \in DOMAIN jobs, Ours(j), NEW s, Of(s) = {j},
         Kept(j, {"ARMADA_QUEUE"}), Kept(j, MapsOfQueues), ~mapped(hub.config)
  PROVE  jobs[j].queue = hub.config.queue
  <1>1. PICK f, lifetime : \E config \in readConfig(jobs[j].env, f, lifetime) :
          SubmittedWith(j, config)
    BY DEF Ours
  <1>2. PICK config \in readConfig(jobs[j].env, f, lifetime) : SubmittedWith(j, config)
    BY <1>1
  <1>3. /\ hub.env \in Env /\ jobs[j].env \in Env
        /\ hub.config \in readConfig(hub.env, hub.file, hub.lifetime)
    BY DEF Inv, HubInv, Ours
  <1>4. /\ jobs[j].env["ARMADA_QUEUE"] = hub.env["ARMADA_QUEUE"]
        /\ \A name \in MapsOfQueues : jobs[j].env[name] = hub.env[name]
    BY DEF Kept
  <1>5. config.queue = hub.config.queue
    BY <1>2, <1>3, <1>4, ConfigFields
  <1>6. MapsOfQueues \subseteq EnvVar
    BY ChoicesAssumption DEF MapsOfQueues, MapVariables
  <1>m. /\ config.queueByUser \in Held(jobs[j].env, "ARMADA_QUEUE_BY_USER")
        /\ config.queueByProject \in Held(jobs[j].env, "ARMADA_QUEUE_BY_PROJECT")
    BY QueueFields, Zenon
  <1>n. /\ hub.config.queueByUser \in Held(hub.env, "ARMADA_QUEUE_BY_USER")
        /\ hub.config.queueByProject \in Held(hub.env, "ARMADA_QUEUE_BY_PROJECT")
    BY <1>3, QueueFields, Zenon
  <1>7. config.queueByUser = hub.config.queueByUser
    <2>1. /\ "ARMADA_QUEUE_BY_USER" \in EnvVar
          /\ jobs[j].env["ARMADA_QUEUE_BY_USER"] = hub.env["ARMADA_QUEUE_BY_USER"]
      BY <1>4, <1>6 DEF MapsOfQueues
    <2> QED
      BY <1>3, <1>m, <1>n, <2>1, SameMap
  <1>8. config.queueByProject = hub.config.queueByProject
    <2>1. /\ "ARMADA_QUEUE_BY_PROJECT" \in EnvVar
          /\ jobs[j].env["ARMADA_QUEUE_BY_PROJECT"] = hub.env["ARMADA_QUEUE_BY_PROJECT"]
      BY <1>4, <1>6 DEF MapsOfQueues
    <2> QED
      BY <1>3, <1>m, <1>n, <2>1, SameMap
  <1>9. ~mapped(config)
    BY <1>5, <1>7, <1>8 DEF mapped
  <1>10. ~\E i \in DOMAIN jobs : i # j /\ jobs[i].sandbox = jobs[j].sandbox
    BY DEF Of
  <1> QED
    BY <1>2, <1>5, <1>9, <1>10 DEF SubmittedWith

LEMMA FoundWhereItIs ==
  ASSUME Inv, Running, NEW s \in Sandbox, NEW owner, NEW j, Of(s) = {j}, Findable(j)
  PROVE  j \in InSet(s, resolve(s, owner))
  <1>1. j \in DOMAIN jobs /\ jobs[j].sandbox = s
    BY DEF Of
  <1>2. Ours(j)
    BY <1>1, JobIsOurs DEF Inv
  <1>3. /\ Kept(j, {"ARMADA_URL"}) /\ Kept(j, {"ARMADA_QUEUE"})
        /\ IF mapped(hub.config) THEN Shows[hub.config.lookoutUrl] = hub.config.url
           ELSE Kept(j, MapsOfQueues)
    BY DEF Findable, Kept
  <1>4. /\ hub.config \in readConfig(hub.env, hub.file, hub.lifetime)
        /\ jobs[j].env["ARMADA_URL"] = hub.env["ARMADA_URL"]
        /\ jobs[j].env["ARMADA_QUEUE"] = hub.env["ARMADA_QUEUE"]
    BY <1>3 DEF Inv, HubInv, Kept
  <1>5. jobs[j].server = hub.config.url
    <2>1. PICK f, lifetime : \E config \in readConfig(jobs[j].env, f, lifetime) :
            SubmittedWith(j, config)
      BY <1>2 DEF Ours
    <2>2. PICK config \in readConfig(jobs[j].env, f, lifetime) : SubmittedWith(j, config)
      BY <2>1
    <2>3. config.url = jobs[j].env["ARMADA_URL"]
      BY <2>2, QueueFields
    <2>4. hub.config.url = hub.env["ARMADA_URL"]
      BY <1>4, QueueFields
    <2> QED
      BY <1>4, <2>2, <2>3, <2>4 DEF SubmittedWith
  <1>6. jobs[j].request.annotations[SANDBOX_MARK] = hub.config.queue
    BY <1>2, <1>4, MarkIsOurs, ConfigFields
  <1>7. resolve(s, owner) = jobs[j].queue
    <2>1. CASE remembered[s] # Unset
      <3>1. PICK i \in DOMAIN jobs : jobs[i].sandbox = s /\ jobs[i].queue = remembered[s]
        BY <2>1 DEF Inv, RememberedInv
      <3>2. i = j
        BY <3>1 DEF Of
      <3> QED
        BY <2>1, <3>1, <3>2 DEF resolve
    <2>2. CASE remembered[s] = Unset /\ mapped(hub.config)
      <3>1. Shown(s) = {j}
        BY <1>1, <1>3, <1>5, <1>6, <2>2 DEF Shown, Marked, Of
      <3>2. PICK S : jobs \in Seq(S)
        BY DEF Inv, JobsInv
      <3>3. Len(jobs) \in Nat /\ DOMAIN jobs = 1..Len(jobs)
        BY <3>2
      <3>4. Newest({j}) \in {j}
        BY <1>1, <3>3, NewestIsOne
      <3> QED
        BY <2>2, <3>1, <3>4, Zenon DEF resolve
    <2>3. CASE remembered[s] = Unset /\ ~mapped(hub.config)
      <3>1. jobs[j].queue = hub.config.queue
        BY <1>1, <1>2, <1>3, <2>3, UnmappedIsDefault
      <3> QED
        BY <2>3, <3>1, Zenon DEF resolve
    <2> QED
      BY <2>1, <2>2, <2>3
  <1> QED
    BY <1>1, <1>5, <1>7 DEF InSet

-----------------------------------------------------------------------------
(* The steps.  Whatever changes the file, the process or a job takes the answer *)
(* with it.                                                                     *)

LEMMA NoAnswerHolds ==
  ASSUME answer'.call \in {"none", "start", "run"}
  PROVE  HeaderInv' /\ SessionSurvives' /\ ListedIsOurs'
  BY DEF HeaderInv, SessionSurvives, Session, ListedIsOurs

LEMMA HubKept == ASSUME HubInv, UNCHANGED hub PROVE HubInv'
  BY DEF HubInv, Running

LEMMA JobsKept == ASSUME JobsInv, UNCHANGED jobs PROVE JobsInv'
  BY DEF JobsInv, Ours, SubmittedWith

LEMMA RememberedKept == ASSUME RememberedInv, UNCHANGED <<jobs, remembered>> PROVE RememberedInv'
  BY DEF RememberedInv

(* A process that found a job in a queue may remember that queue. *)
LEMMA RemembersFound ==
  ASSUME RememberedInv, UNCHANGED jobs, NEW s \in Sandbox, NEW queue, Remembers(s, queue),
         \E j \in DOMAIN jobs : jobs[j].sandbox = s /\ jobs[j].queue = queue
  PROVE  RememberedInv'
  <1>1. CASE remembered' = remembered
    BY <1>1, RememberedKept
  <1>2. CASE remembered' = [remembered EXCEPT ![s] = queue]
    BY <1>2 DEF RememberedInv
  <1> QED
    BY <1>1, <1>2 DEF Remembers

LEMMA OtherSteps ==
  ASSUME Inv, NEW variables, NEW onlyIfUnset,
         \/ \E name \in EnvVar : \E text \in Choices[name] : Edit(name, text)
         \/ \E text \in TokenFiles : Rotate(text)
         \/ Stop \/ Create \/ SetEnvVars(variables, onlyIfUnset)
  PROVE  Inv'
  <1>1. /\ answer' = NoAnswer /\ UNCHANGED jobs /\ (UNCHANGED hub \/ hub' = Down)
        /\ UNCHANGED remembered \/ remembered' = NothingRemembered
    BY DEF Edit, Rotate, Stop, Create, SetEnvVars
  <1>2. env' \in Env
    BY InstallationAssumption DEF Inv, Env, Edit, Rotate, Stop, Create, SetEnvVars
  <1>3. HubInv'
    <2>1. CASE hub' = Down
      BY <2>1 DEF HubInv, Running
    <2> QED
      BY <1>1, <2>1, HubKept DEF Inv
  <1>4. RememberedInv'
    <2>1. CASE remembered' = NothingRemembered
      BY <2>1 DEF RememberedInv, NothingRemembered
    <2> QED
      BY <1>1, <2>1, RememberedKept DEF Inv
  <1> QED
    BY <1>1, <1>2, <1>3, <1>4, JobsKept, NoAnswerHolds DEF Inv, NoAnswer

LEMMA StartStep == ASSUME Inv, NEW lifetime, Start(lifetime) PROVE Inv'
  <1>1. PICK config \in readConfig(env, file, lifetime) :
          hub' = [env |-> env, file |-> file, lifetime |-> lifetime, config |-> config]
    BY DEF Start
  <1>2. env' = env /\ UNCHANGED <<jobs, remembered>> /\ answer' = [call |-> "start"]
    BY DEF Start
  <1>3. HubInv'
    BY <1>1 DEF Inv, HubInv
  <1> QED
    BY <1>2, <1>3, JobsKept, RememberedKept, NoAnswerHolds DEF Inv

LEMMA RunCommandStep ==
  ASSUME Inv, NEW s \in Sandbox, NEW owner, NEW processEnv, RunCommand(s, owner, processEnv)
  PROVE  Inv'
  <1>1. /\ answer'.call = "run" /\ UNCHANGED <<env, hub, jobs>>
        /\ Remembers(s, resolve(s, owner)) /\ InSet(s, resolve(s, owner)) # {}
    BY DEF RunCommand
  <1>2. \E j \in DOMAIN jobs : jobs[j].sandbox = s /\ jobs[j].queue = resolve(s, owner)
    BY <1>1 DEF InSet
  <1>3. RememberedInv'
    BY <1>1, <1>2, RemembersFound DEF Inv
  <1> QED
    BY <1>1, <1>3, HubKept, JobsKept, NoAnswerHolds DEF Inv

(* Of a call that submitted nothing: the session is the sandbox's one job. *)
LEMMA SessionIsOne ==
  ASSUME UNCHANGED jobs, answer'.outcome # "submitted", NEW j, Session(j)'
  PROVE  Of(answer'.of) = {j}
  BY DEF Session, Of

LEMMA FoundIsOurs ==
  ASSUME Inv, NEW s \in Sandbox, NEW queue, NEW j \in InSet(s, queue)
  PROVE  j \in DOMAIN jobs /\ jobs[j].sandbox = s /\ jobs[j].queue = queue /\ Ours(j)
  <1>1. j \in DOMAIN jobs /\ jobs[j].sandbox = s /\ jobs[j].queue = queue
    BY DEF InSet
  <1> QED
    BY <1>1, JobIsOurs DEF Inv

LEMMA ReachStep == ASSUME Inv, NEW s \in Sandbox, NEW owner, Reach(s, owner) PROVE Inv'
  <1>0. Running /\ UNCHANGED <<env, file, hub, jobs>>
    BY DEF Reach
  <1>1. PICK j \in InSet(s, resolve(s, owner)) :
          IF Header = {} THEN Settles("reach", s, "no credentials") /\ UNCHANGED remembered
          ELSE /\ \E outcome \in Reaching(j) : Settles("reach", s, outcome)
               /\ Remembers(s, resolve(s, owner))
    BY Zenon DEF Reach
  <1>2. j \in DOMAIN jobs /\ jobs[j].sandbox = s /\ jobs[j].queue = resolve(s, owner) /\ Ours(j)
    BY FoundIsOurs
  <1>3. /\ answer'.call = "reach" /\ answer'.of = s /\ answer'.header = Header
        /\ Header = {} => answer'.outcome = "no credentials"
        /\ Header # {} => answer'.outcome \in Reaching(j)
    <2>1. CASE Header = {}
      <3>1. Settles("reach", s, "no credentials")
        BY <1>1, <2>1
      <3> QED
        BY <2>1, <3>1 DEF Settles
    <2>2. CASE Header # {}
      <3>1. PICK outcome \in Reaching(j) : Settles("reach", s, outcome)
        BY <1>1, <2>2
      <3> QED
        BY <2>2, <3>1 DEF Settles
    <2> QED
      BY <2>1, <2>2
  <1>4. answer'.outcome # "submitted"
    BY <1>3 DEF Reaching, Reached
  <1>5. RememberedInv'
    BY <1>0, <1>1, <1>2, RememberedKept, RemembersFound DEF Inv
  <1>6. HeaderInv'
    BY <1>0, <1>3 DEF HeaderInv, Header
  <1>7. Kept(j, ReachVariables) => answer'.outcome \in {"reached", "no credentials"}
    BY <1>0, <1>2, <1>3, KeptIsReaching
  <1>8. SessionSurvives'
    <2> SUFFICES ASSUME NEW i, Session(i)', Kept(i, ReachVariables)'
                 PROVE  answer'.outcome \in {"reached", "no credentials"}
      BY <1>3 DEF SessionSurvives
    <2>1. Of(s) = {i}
      BY <1>0, <1>3, <1>4, SessionIsOne
    <2>2. i = j
      BY <1>2, <2>1 DEF Of
    <2>3. Kept(j, ReachVariables)
      BY <1>0, <2>2 DEF Kept
    <2> QED
      BY <1>7, <2>3
  <1>9. ListedIsOurs'
    BY <1>3 DEF ListedIsOurs
  <1> QED
    BY <1>0, <1>5, <1>6, <1>8, <1>9, HubKept, JobsKept DEF Inv

LEMMA ExposePortStep ==
  ASSUME Inv, NEW s \in Sandbox, NEW owner, NEW port \in AskedPorts, ExposePort(s, owner, port)
  PROVE  Inv'
  <1>0. Running /\ UNCHANGED <<env, file, hub, jobs>>
    BY DEF ExposePort
  <1>1. PICK j \in InSet(s, resolve(s, owner)) :
          IF Header = {} THEN Settles("expose", s, "no credentials") /\ UNCHANGED remembered
          ELSE /\ \E outcome \in Exposing(j, port) : Settles("expose", s, outcome)
               /\ Remembers(s, resolve(s, owner))
    BY Zenon DEF ExposePort
  <1>2. j \in DOMAIN jobs /\ jobs[j].sandbox = s /\ jobs[j].queue = resolve(s, owner) /\ Ours(j)
    BY FoundIsOurs
  <1>3. /\ answer'.call = "expose" /\ answer'.of = s /\ answer'.header = Header
        /\ Header = {} => answer'.outcome = "no credentials"
        /\ Header # {} => answer'.outcome \in Exposing(j, port)
    <2>1. CASE Header = {}
      <3>1. Settles("expose", s, "no credentials")
        BY <1>1, <2>1
      <3> QED
        BY <2>1, <3>1 DEF Settles
    <2>2. CASE Header # {}
      <3>1. PICK outcome \in Exposing(j, port) : Settles("expose", s, outcome)
        BY <1>1, <2>2
      <3> QED
        BY <2>2, <3>1 DEF Settles
    <2> QED
      BY <2>1, <2>2
  <1>4. answer'.outcome # "submitted"
    <2>1. Exposing(j, port) \subseteq {"not ready", "no address", "served", "unreachable"}
      BY DEF Exposing
    <2> QED
      BY <1>3, <2>1
  <1>5. RememberedInv'
    BY <1>0, <1>1, <1>2, RememberedKept, RemembersFound DEF Inv
  <1>6. HeaderInv'
    BY <1>0, <1>3 DEF HeaderInv, Header
  <1>7. Kept(j, ReachVariables \cup PortVariables) =>
          answer'.outcome \in {"served", "no credentials"}
    BY <1>0, <1>2, <1>3, KeptIsExposing
  <1>8. SessionSurvives'
    <2> SUFFICES ASSUME NEW i, Session(i)', Kept(i, ReachVariables \cup PortVariables)'
                 PROVE  answer'.outcome \in {"served", "no credentials"}
      BY <1>3 DEF SessionSurvives
    <2>1. Of(s) = {i}
      BY <1>0, <1>3, <1>4, SessionIsOne
    <2>2. i = j
      BY <1>2, <2>1 DEF Of
    <2>3. Kept(j, ReachVariables \cup PortVariables)
      BY <1>0, <2>2 DEF Kept
    <2> QED
      BY <1>7, <2>3
  <1>9. ListedIsOurs'
    BY <1>3 DEF ListedIsOurs
  <1> QED
    BY <1>0, <1>5, <1>6, <1>8, <1>9, HubKept, JobsKept DEF Inv

LEMMA ListAnswers == ASSUME ListActive PROVE answer'.call = "list"
  <1> DEFINE listed == {jobs[j].sandbox : j \in Marked(hub.config)}
  <1>1. \/ answer' = [call |-> "list", outcome |-> "no credentials", header |-> Header]
        \/ answer' = [call |-> "list", outcome |-> "listed", header |-> Header, found |-> listed]
    BY Zenon DEF ListActive
  <1> HIDE DEF listed
  <1>2. CASE answer' = [call |-> "list", outcome |-> "no credentials", header |-> Header]
    BY <1>2
  <1>3. CASE answer' = [call |-> "list", outcome |-> "listed", header |-> Header,
                        found |-> listed]
    BY <1>3
  <1> QED
    BY <1>1, <1>2, <1>3, Zenon

LEMMA ListActiveStep == ASSUME Inv, ListActive PROVE Inv'
  <1>0. Running /\ UNCHANGED <<env, file, hub, jobs>>
    BY DEF ListActive
  <1>1. /\ answer'.call = "list" /\ answer'.header = Header
        /\ \/ /\ Header = {} /\ answer'.outcome = "no credentials" /\ UNCHANGED remembered
           \/ /\ Header # {} /\ answer'.outcome = "listed"
              /\ answer'.found = {jobs[j].sandbox : j \in Marked(hub.config)}
              /\ remembered' = [s \in Sandbox |-> IF Shown(s) = {} THEN remembered[s]
                                                  ELSE jobs[Newest(Shown(s))].queue]
    <2> DEFINE listed == {jobs[j].sandbox : j \in Marked(hub.config)}
    <2>1. CASE Header = {}
      <3>1. /\ answer' = [call |-> "list", outcome |-> "no credentials", header |-> Header]
            /\ UNCHANGED remembered
        BY <2>1, Zenon DEF ListActive
      <3> QED
        BY <2>1, <3>1
    <2>2. CASE Header # {}
      <3>1. /\ answer' = [call |-> "list", outcome |-> "listed", header |-> Header,
                          found |-> listed]
            /\ remembered' = [s \in Sandbox |-> IF Shown(s) = {} THEN remembered[s]
                                                ELSE jobs[Newest(Shown(s))].queue]
        BY <2>2, Zenon DEF ListActive
      <3> HIDE DEF listed
      <3>2. /\ answer'.call = "list" /\ answer'.header = Header /\ answer'.outcome = "listed"
            /\ answer'.found = listed
        BY <3>1
      <3> QED
        BY <2>2, <3>1, <3>2, Zenon DEF listed
    <2> QED
      BY <2>1, <2>2
  <1>2. HeaderInv'
    BY <1>0, <1>1 DEF HeaderInv, Header
  <1>3. SessionSurvives'
    BY <1>1 DEF SessionSurvives, Session
  <1>4. ListedIsOurs'
    BY <1>0, <1>1, MarkedIsOurs DEF ListedIsOurs
  <1>5. RememberedInv'
    <2>1. CASE UNCHANGED remembered
      BY <1>0, <2>1, RememberedKept DEF Inv
    <2>2. CASE remembered' = [s \in Sandbox |-> IF Shown(s) = {} THEN remembered[s]
                                               ELSE jobs[Newest(Shown(s))].queue]
      <3>1. ASSUME NEW s \in Sandbox, Shown(s) # {}
            PROVE  \E j \in DOMAIN jobs : jobs[j].sandbox = s /\ jobs[j].queue = remembered'[s]
        <4>1. PICK S : jobs \in Seq(S)
          BY DEF Inv, JobsInv
        <4>2. Len(jobs) \in Nat /\ DOMAIN jobs = 1..Len(jobs)
          BY <4>1
        <4>3. Shown(s) \subseteq {j \in DOMAIN jobs : jobs[j].sandbox = s}
          BY DEF Shown, Marked
        <4>4. Newest(Shown(s)) \in Shown(s)
          BY <3>1, <4>2, <4>3, NewestIsOne
        <4>5. remembered'[s] = jobs[Newest(Shown(s))].queue
          BY <2>2, <3>1
        <4> QED
          BY <4>3, <4>4, <4>5
      <3>2. ASSUME NEW s \in Sandbox, Shown(s) = {} PROVE remembered'[s] = remembered[s]
        BY <2>2, <3>2
      <3>3. DOMAIN remembered' = Sandbox
        BY <2>2
      <3> QED
        BY <1>0, <3>1, <3>2, <3>3 DEF Inv, RememberedInv
    <2> QED
      BY <1>1, <2>1, <2>2
  <1> QED
    BY <1>0, <1>2, <1>3, <1>4, <1>5, HubKept, JobsKept DEF Inv

(* The job a submit leaves is built from the configuration of the process, in   *)
(* the queue that was resolved.                                                 *)
LEMMA JobAdded ==
  ASSUME Inv, Running, UNCHANGED hub, NEW s \in Sandbox, NEW owner, NEW options, NEW own,
         NEW pod \in buildPodSpec(hub.config,
                       sha256(agentToken(hub.config.agentTokenSecret, s)), options),
         NEW job, job = [sandbox |-> s, server |-> hub.config.url,
                         queue |-> resolve(s, owner), own |-> own, env |-> hub.env,
                         request |-> jobRequest(hub.config, pod)],
         jobs' = Append(jobs, job), Remembers(s, resolve(s, owner))
  PROVE  JobsInv' /\ RememberedInv'
  <1> DEFINE hash == sha256(agentToken(hub.config.agentTokenSecret, s))
  <1>n. PICK n : n = Len(jobs)
    OBVIOUS
  <1>c. PICK c : c = hub.config
    OBVIOUS
  <1>1. PICK S : jobs \in Seq(S)
    BY DEF Inv, JobsInv
  <1>2. /\ n \in Nat /\ DOMAIN jobs = 1..n /\ DOMAIN jobs' = 1..(n + 1)
        /\ jobs'[n + 1] = job /\ \A i \in 1..n : jobs'[i] = jobs[i]
        /\ jobs' \in Seq(S \cup {job})
    BY <1>n, <1>1, OneMore
  <1>3. /\ pod.agentPort = hub.config.agentPort /\ pod.tokenSha256 = hash
        /\ pod.ports = declaredPorts(hub.config)
    BY DEF buildPodSpec
  <1> HIDE DEF hash
  <1>4. /\ job.sandbox = s /\ job.server = hub.config.url /\ job.queue = resolve(s, owner)
        /\ job.env = hub.env /\ job.request.annotations = Annotations(hub.config)
        /\ job.request.expose = hub.config.expose
        /\ job.request.ports = pod.ports /\ job.request.pod = pod
    BY DEF jobRequest, exposedPorts
  <1>5. n + 1 \in DOMAIN jobs' /\ n + 1 \notin DOMAIN jobs /\ DOMAIN jobs \subseteq DOMAIN jobs'
    BY <1>2
  <1>6. \A i \in DOMAIN jobs : jobs'[i] = jobs[i]
    BY <1>2
  <1>7. \/ mapped(hub.config) \/ job.queue = hub.config.queue
        \/ \E i \in DOMAIN jobs' : i # n + 1 /\ jobs'[i].sandbox = s
    <2>1. CASE remembered[s] # Unset
      <3>1. PICK i \in DOMAIN jobs : jobs[i].sandbox = s
        BY <2>1 DEF Inv, RememberedInv
      <3> QED
        BY <1>5, <1>6, <3>1
    <2>2. CASE remembered[s] = Unset /\ ~mapped(hub.config)
      BY <1>4, <2>2, Zenon DEF resolve
    <2> QED
      BY <2>1, <2>2
  <1>8. Ours(n + 1)'
    <2>1. SubmittedWith(n + 1, c)'
      <3>1. /\ jobs'[n + 1].server = c.url
            /\ jobs'[n + 1].request.annotations[SANDBOX_MARK] = c.queue
            /\ jobs'[n + 1].request.expose = c.expose
            /\ jobs'[n + 1].request.ports = declaredPorts(c)
            /\ jobs'[n + 1].request.pod.agentPort = c.agentPort
        BY <1>c, <1>2, <1>3, <1>4, MarkIsQueue
      <3>2. jobs'[n + 1].request.pod.tokenSha256
              = sha256(agentToken(c.agentTokenSecret, jobs'[n + 1].sandbox))
        BY <1>c, <1>2, <1>3, <1>4 DEF hash
      <3>3. \/ mapped(c) \/ jobs'[n + 1].queue = c.queue
            \/ \E i \in DOMAIN jobs' : i # n + 1 /\ jobs'[i].sandbox = jobs'[n + 1].sandbox
        BY <1>c, <1>2, <1>4, <1>7
      <3> QED
        BY <3>1, <3>2, <3>3 DEF SubmittedWith
    <2>2. hub.env \in Env /\ c \in readConfig(hub.env, hub.file, hub.lifetime)
      BY <1>c DEF Inv, HubInv
    <2>3. jobs'[n + 1].env = hub.env /\ jobs'[n + 1].sandbox = s
      BY <1>2, <1>4
    <2>4. \E f, lifetime : \E config \in readConfig(jobs'[n + 1].env, f, lifetime) :
            SubmittedWith(n + 1, config)'
      BY <2>1, <2>2, <2>3
    <2> QED
      BY <2>2, <2>3, <2>4 DEF Ours
  <1>9. ASSUME NEW j \in DOMAIN jobs, Ours(j) PROVE Ours(j)'
    <2>1. PICK f, lifetime : \E config \in readConfig(jobs[j].env, f, lifetime) :
            SubmittedWith(j, config)
      BY <1>9 DEF Ours
    <2>2. PICK config \in readConfig(jobs[j].env, f, lifetime) : SubmittedWith(j, config)
      BY <2>1
    <2>3. SubmittedWith(j, config)'
      BY <1>5, <1>6, <2>2 DEF SubmittedWith
    <2>4. jobs'[j] = jobs[j]
      BY <1>6
    <2> QED
      BY <1>9, <2>2, <2>3, <2>4 DEF Ours
  <1>10. JobsInv'
    <2> SUFFICES ASSUME NEW j \in DOMAIN jobs' PROVE jobs'[j] = StrangersJob \/ Ours(j)'
      BY <1>2 DEF JobsInv
    <2>1. CASE j = n + 1
      BY <1>8, <2>1
    <2>2. CASE j \in DOMAIN jobs
      BY <1>6, <1>9, <2>2 DEF Inv, JobsInv
    <2> QED
      BY <1>2, <2>1, <2>2
  <1>11. RememberedInv'
    <2>1. \A t \in Sandbox : remembered'[t] = remembered[t] \/ (t = s /\ remembered'[t] = job.queue)
      BY <1>4 DEF Remembers, Inv, RememberedInv
    <2>2. DOMAIN remembered' = Sandbox
      BY DEF Remembers, Inv, RememberedInv
    <2>3. ASSUME NEW t \in Sandbox, remembered'[t] # Unset
          PROVE  \E j \in DOMAIN jobs' : jobs'[j].sandbox = t /\ jobs'[j].queue = remembered'[t]
      <3>1. CASE t = s /\ remembered'[t] = job.queue
        BY <1>2, <1>4, <1>5, <3>1
      <3>2. CASE remembered'[t] = remembered[t]
        BY <1>5, <1>6, <2>3, <3>2 DEF Inv, RememberedInv
      <3> QED
        BY <2>1, <3>1, <3>2
    <2> QED
      BY <2>2, <2>3 DEF RememberedInv
  <1> QED
    BY <1>10, <1>11

(* A sandbox whose one job is findable has no other submitted. *)
LEMMA SubmitFindsNone ==
  ASSUME Inv, Running, UNCHANGED hub, NEW s \in Sandbox, NEW owner,
         InSet(s, resolve(s, owner)) = {}, NEW j, Session(j)', Findable(j)', answer'.of = s,
         \/ UNCHANGED jobs /\ answer'.outcome # "submitted"
         \/ answer'.outcome = "submitted" /\ \E job : jobs' = Append(jobs, job)
  PROVE  FALSE
  <1>1. Of(s) = {j} /\ jobs'[j] = jobs[j]
    <2>1. CASE UNCHANGED jobs /\ answer'.outcome # "submitted"
      BY <2>1, SessionIsOne
    <2>2. CASE answer'.outcome = "submitted" /\ \E job : jobs' = Append(jobs, job)
      <3>1. PICK job : jobs' = Append(jobs, job)
        BY <2>2
      <3>2. PICK S : jobs \in Seq(S)
        BY DEF Inv, JobsInv
      <3> DEFINE n == Len(jobs)
      <3>3. /\ n \in Nat /\ DOMAIN jobs = 1..n /\ DOMAIN jobs' = 1..(n + 1)
            /\ \A i \in 1..n : jobs'[i] = jobs[i] /\ Len(jobs') = n + 1
        BY <3>1, <3>2, OneMore
      <3>4. {i \in DOMAIN jobs' : jobs'[i].sandbox = s /\ i # Len(jobs')} = {j}
        BY <2>2 DEF Session
      <3> HIDE DEF n
      <3>5. Len(jobs') = n + 1
        BY <3>1, <3>2, OneMore DEF n
      <3>6. Of(s) = {j}
        BY <3>3, <3>4, <3>5 DEF Of
      <3>7. j \in 1..n
        BY <3>3, <3>6 DEF Of
      <3> QED
        BY <3>3, <3>6, <3>7
    <2> QED
      BY <2>1, <2>2
  <1>2. Findable(j)
    BY <1>1 DEF Findable, Kept
  <1>3. j \in InSet(s, resolve(s, owner))
    BY <1>1, <1>2, FoundWhereItIs
  <1> QED
    BY <1>3

LEMMA SubmitStep ==
  ASSUME Inv, NEW s \in Sandbox, NEW owner, NEW options, NEW own, Submit(s, owner, options, own)
  PROVE  Inv'
  <1> DEFINE hash == sha256(agentToken(hub.config.agentTokenSecret, s))
             pods == buildPodSpec(hub.config, hash, options)
             outcome == IF pods = {} THEN "unbuildable"
                        ELSE IF Header = {} THEN "no credentials" ELSE "submitted"
             job(pod) == [sandbox |-> s, server |-> hub.config.url,
                          queue |-> resolve(s, owner), own |-> own, env |-> hub.env,
                          request |-> jobRequest(hub.config, pod)]
  <1>0. Running /\ UNCHANGED <<env, file, hub>> /\ InSet(s, resolve(s, owner)) = {}
    BY DEF Submit
  <1>1. /\ Settles("submit", s, outcome)
        /\ IF outcome # "submitted" THEN UNCHANGED <<jobs, remembered>>
           ELSE /\ Remembers(s, resolve(s, owner))
                /\ \E pod \in pods : jobs' = Append(jobs, job(pod))
    BY Zenon DEF Submit
  <1>2. Header = {} => outcome \in {"no credentials", "unbuildable"}
    OBVIOUS
  <1> HIDE DEF outcome, job
  <1>3. /\ answer'.call = "submit" /\ answer'.of = s /\ answer'.header = Header
        /\ answer'.outcome = outcome
    BY <1>1 DEF Settles
  <1>4. HeaderInv' /\ ListedIsOurs'
    <2>1. Header' = Header
      BY <1>0 DEF Header
    <2> QED
      BY <1>2, <1>3, <2>1 DEF HeaderInv, ListedIsOurs
  <1>5. JobsInv' /\ RememberedInv'
    <2>1. CASE UNCHANGED <<jobs, remembered>>
      BY <2>1, JobsKept, RememberedKept DEF Inv
    <2>2. ASSUME NEW pod \in pods, jobs' = Append(jobs, job(pod)), Remembers(s, resolve(s, owner))
          PROVE  JobsInv' /\ RememberedInv'
      BY <1>0, <2>2, JobAdded DEF job
    <2> QED
      BY <1>1, <2>1, <2>2
  <1>6. SessionSurvives'
    <2>1. \/ UNCHANGED jobs /\ answer'.outcome # "submitted"
          \/ answer'.outcome = "submitted" /\ \E item : jobs' = Append(jobs, item)
      BY <1>1, <1>3
    <2>2. ASSUME NEW j, Session(j)', Findable(j)' PROVE FALSE
      BY <1>0, <1>3, <2>1, <2>2, SubmitFindsNone
    <2> QED
      BY <2>2 DEF SessionSurvives
  <1> QED
    BY <1>0, <1>4, <1>5, <1>6, HubKept DEF Inv

LEMMA Stutter == ASSUME Inv, UNCHANGED vars PROVE Inv'
  <1>1. UNCHANGED <<env, file, hub, jobs, remembered, answer>>
    BY DEF vars
  <1>2. HeaderInv' /\ ListedIsOurs'
    BY <1>1 DEF Inv, HeaderInv, Header, ListedIsOurs
  <1>3. SessionSurvives'
    <2>1. \A j : Session(j)' <=> Session(j)
      BY <1>1 DEF Session
    <2>2. \A j : Findable(j)' <=> Findable(j)
      BY <1>1 DEF Findable, Kept
    <2>3. \A j, names : Kept(j, names)' <=> Kept(j, names)
      BY <1>1 DEF Kept
    <2>4. SessionSurvives
      BY DEF Inv
    <2> QED
      BY <1>1, <2>1, <2>2, <2>3, <2>4 DEF SessionSurvives
  <1> QED
    BY <1>1, <1>2, <1>3, HubKept, JobsKept, RememberedKept DEF Inv

LEMMA NextStep == Inv /\ [Next]_vars => Inv'
  <1> SUFFICES ASSUME Inv, [Next]_vars PROVE Inv'
    OBVIOUS
  <1>1. CASE \/ \E name \in EnvVar : \E text \in Choices[name] : Edit(name, text)
             \/ \E text \in TokenFiles : Rotate(text)
             \/ Stop \/ Create
             \/ \E variables \in VarSets, onlyIfUnset \in BOOLEAN : SetEnvVars(variables, onlyIfUnset)
    BY <1>1, OtherSteps
  <1>2. CASE \E lifetime \in Lifetimes : Start(lifetime)
    BY <1>2, StartStep
  <1>3. CASE \E s \in Sandbox, owner \in Owners :
               \E options \in Options, own \in OwnEnvs : Submit(s, owner, options, own)
    BY <1>3, SubmitStep
  <1>4. CASE \E s \in Sandbox, owner \in Owners : Reach(s, owner)
    BY <1>4, ReachStep
  <1>5. CASE \E s \in Sandbox, owner \in Owners : \E port \in AskedPorts : ExposePort(s, owner, port)
    BY <1>5, ExposePortStep
  <1>6. CASE \E s \in Sandbox, owner \in Owners :
               \E processEnv \in VarSets \cup {NoVars} : RunCommand(s, owner, processEnv)
    BY <1>6, RunCommandStep
  <1>7. CASE ListActive
    BY <1>7, ListActiveStep
  <1> QED
    BY <1>1, <1>2, <1>3, <1>4, <1>5, <1>6, <1>7, Stutter DEF Next

LEMMA OneHeader ==
  ASSUME NEW x
  PROVE  [scheme : {"Bearer"}, token : {x}] = {[scheme |-> "Bearer", token |-> x]}
  <1>1. [scheme : {"Bearer"}, token : {x}] \subseteq {[scheme |-> "Bearer", token |-> x]}
    OBVIOUS
  <1>2. [scheme |-> "Bearer", token |-> x] \in [scheme : {"Bearer"}, token : {x}]
    OBVIOUS
  <1> QED
    BY <1>1, <1>2, Zenon

(* A header carries the file's token when the file is the mechanism. *)
LEMMA HeaderIsCurrent ==
  ASSUME NEW auth, NEW text, auth.kind = "bearerFile"
  PROVE  authorizationHeader(auth, text) =
           IF text = Unset \/ Blank(text) THEN {} ELSE {[scheme |-> "Bearer", token |-> Trim[text]]}
  <1> DEFINE token == IF text = Unset THEN {} ELSE {Trim[text]} \ {""}
  <1>1. authorizationHeader(auth, text) = [scheme : {"Bearer"}, token : token]
    BY DEF authorizationHeader
  <1>2. token = IF text = Unset \/ Blank(text) THEN {} ELSE {Trim[text]}
    BY DEF Blank
  <1> HIDE DEF token
  <1>3. CASE token = {}
    BY <1>1, <1>2, <1>3
  <1>4. CASE token = {Trim[text]}
    <2>1. [scheme : {"Bearer"}, token : token] = {[scheme |-> "Bearer", token |-> Trim[text]]}
      BY <1>4, OneHeader, Zenon
    <2>2. ~(text = Unset \/ Blank(text))
      BY <1>2, <1>4
    <2> QED
      BY <1>1, <2>1, <2>2
  <1> QED
    BY <1>2, <1>3, <1>4

(* The invariant holds of every state: the process goes by what it read at its   *)
(* start, a job is as the process that submitted it would have it, and where a   *)
(* process remembers a sandbox to be a job of it is.                             *)
THEOREM InstallationInvariant == Spec => []Inv
  BY InitInv, NextStep, PTL DEF Spec

(* However often marimohub is restarted with other settings: a process on the    *)
(* server and the default queue a sandbox's job was submitted with, and with a   *)
(* map that makes it ask Lookout or the maps of then, starts no second kernel;   *)
(* and with the rest of what the job was submitted with it reaches the agent and *)
(* gives addresses that answer (queues.ts:94-112; sandbox.ts:233-261, 639-643;   *)
(* armada.ts:317-323).                                                           *)
THEOREM SessionsSurvive == Spec => []SessionSurvives
  <1>1. Inv => SessionSurvives
    BY DEF Inv
  <1> QED
    BY <1>1, InstallationInvariant, PTL

(* A list has this installation's jobs, those of earlier processes too, and no   *)
(* other's (armada.ts:404-424).                                                  *)
THEOREM ListsAreOurs == Spec => []ListedIsOurs
  <1>1. Inv => ListedIsOurs
    BY DEF Inv
  <1> QED
    BY <1>1, InstallationInvariant, PTL

(* A request carries the token the file holds now, whatever it held when the     *)
(* process started (auth.ts:39-43).                                              *)
THEOREM CredentialsAreCurrent == Spec => []CredentialIsCurrent
  <1>1. Inv => CredentialIsCurrent
    <2> SUFFICES ASSUME Inv, answer.call \in {"submit", "reach", "expose", "list"},
                        hub.config.auth.kind = "bearerFile"
                 PROVE  IF file = Unset \/ Blank(file)
                        THEN answer.outcome \in {"no credentials", "unbuildable"}
                        ELSE answer.header = {[scheme |-> "Bearer", token |-> Trim[file]]}
      BY DEF CredentialIsCurrent
    <2>1. Header = IF file = Unset \/ Blank(file) THEN {}
                   ELSE {[scheme |-> "Bearer", token |-> Trim[file]]}
      BY HeaderIsCurrent DEF Header
    <2> QED
      BY <2>1 DEF Inv, HeaderInv
  <1> QED
    BY <1>1, InstallationInvariant, PTL

-----------------------------------------------------------------------------
(* What a command sees.  The instance keeps a table of values and one of        *)
(* defaults; each holds, of every name, the last value it was told.             *)

Call == [variables: VarSets, onlyIfUnset: BOOLEAN]

(* The calls that gave a name a value, or a default. *)
Told(said, name, onlyIfUnset) ==
  {i \in DOMAIN said : said[i].onlyIfUnset = onlyIfUnset /\ name \in DOMAIN said[i].variables}

Holds(table, said, name, onlyIfUnset) ==
  LET at == Told(said, name, onlyIfUnset)
  IN  IF at = {} THEN name \notin DOMAIN table
      ELSE /\ name \in DOMAIN table
           /\ \E i \in at : (\A j \in at : j <= i) /\ table[name] = said[i].variables[name]

TablesInv ==
  /\ instance = [env |-> instance.env, envDefaults |-> instance.envDefaults,
                 said |-> instance.said]
  /\ instance.said \in Seq(Call)
  /\ \A name \in EnvName :
       /\ Holds(instance.env, instance.said, name, FALSE)
       /\ Holds(instance.envDefaults, instance.said, name, TRUE)

OwnInv ==
  /\ \E S : jobs \in Seq(S)
  /\ \A j \in DOMAIN jobs : jobs[j].sandbox \in Sandbox => jobs[j].own \in OwnEnvs

SeenInv == TypeOK /\ TablesInv /\ OwnInv /\ SeenInOrder

LEMMA TableGrows ==
  ASSUME NEW said \in Seq(Call), NEW call \in Call, NEW table, NEW name, NEW onlyIfUnset,
         Holds(table, said, name, onlyIfUnset)
  PROVE  Holds(IF call.onlyIfUnset = onlyIfUnset THEN Onto(call.variables, table) ELSE table,
               Append(said, call), name, onlyIfUnset)
  <1> DEFINE n == Len(said)
             new == Append(said, call)
             at == Told(said, name, onlyIfUnset)
             hit == call.onlyIfUnset = onlyIfUnset /\ name \in DOMAIN call.variables
             after == IF call.onlyIfUnset = onlyIfUnset THEN Onto(call.variables, table) ELSE table
  <1>1. /\ n \in Nat /\ DOMAIN said = 1..n /\ DOMAIN new = 1..(n + 1)
        /\ new[n + 1] = call /\ \A i \in 1..n : new[i] = said[i]
    OBVIOUS
  <1> HIDE DEF n, new
  <1>2. Told(new, name, onlyIfUnset) = at \cup (IF hit THEN {n + 1} ELSE {})
    BY <1>1 DEF Told
  <1>3. at \subseteq 1..n
    BY <1>1 DEF Told
  <1>4. CASE hit
    <2>1. name \in DOMAIN after /\ after[name] = call.variables[name]
      BY <1>4 DEF Onto
    <2>2. n + 1 \in Told(new, name, onlyIfUnset)
          /\ \A j \in Told(new, name, onlyIfUnset) : j <= n + 1
      BY <1>1, <1>2, <1>3, <1>4
    <2> HIDE DEF after, at, hit
    <2> QED
      BY <1>1, <2>1, <2>2 DEF Holds, after, new
  <1>5. CASE ~hit
    <2>1. /\ name \in DOMAIN after <=> name \in DOMAIN table
          /\ name \in DOMAIN table => after[name] = table[name]
      BY <1>5 DEF Onto
    <2>2. Told(new, name, onlyIfUnset) = at
      BY <1>2, <1>5
    <2> HIDE DEF after, at, hit
    <2>3. \A i \in at : new[i] = said[i]
      BY <1>1, <1>3
    <2>4. Holds(after, new, name, onlyIfUnset)
      BY <2>1, <2>2, <2>3 DEF Holds, at
    <2> QED
      BY <2>4 DEF after, new
  <1> QED
    BY <1>4, <1>5

(* What Latest says of the calls, the table says too. *)
LEMMA TableIsLatest ==
  ASSUME TablesInv, NEW name \in EnvName, NEW onlyIfUnset, NEW table,
         Holds(table, instance.said, name, onlyIfUnset)
  PROVE  /\ Latest(name, onlyIfUnset) = IF name \in DOMAIN table THEN table[name] ELSE Unset
         /\ name \in DOMAIN table => table[name] # Unset
  <1> DEFINE said == instance.said
             at == Told(said, name, onlyIfUnset)
             last == CHOOSE i \in at : \A j \in at : j <= i
  <1>1. Latest(name, onlyIfUnset) = IF at = {} THEN Unset ELSE said[last].variables[name]
    BY DEF Latest, Told
  <1>2. CASE at = {}
    BY <1>1, <1>2 DEF Holds
  <1>3. CASE at # {}
    <2>1. name \in DOMAIN table
      BY <1>3 DEF Holds
    <2>2. PICK i \in at : (\A j \in at : j <= i) /\ table[name] = said[i].variables[name]
      BY <1>3 DEF Holds
    <2>3. said \in Seq(Call)
      BY DEF TablesInv
    <2>4. at \subseteq Nat
      BY <2>3 DEF Told
    <2>5. last \in at /\ \A j \in at : j <= last
      BY <2>2, Zenon
    <2>6. last = i
      <3> HIDE DEF last, at
      <3> QED
        BY <2>2, <2>4, <2>5
    <2>7. said[i] \in Call /\ name \in DOMAIN said[i].variables
      BY <2>3 DEF Told
    <2>8. said[i].variables[name] # Unset
      BY <2>7, InstallationAssumption DEF Call
    <2> HIDE DEF last, at
    <2> QED
      BY <1>1, <1>3, <2>1, <2>2, <2>6, <2>8
  <1> QED
    BY <1>2, <1>3

LEMMA EmptyDomain == DOMAIN NoVars = {}
  BY DEF NoVars

LEMMA OntoAt ==
  ASSUME NEW over, NEW under, NEW name
  PROVE  /\ name \in DOMAIN Onto(over, under) <=> name \in DOMAIN over \/ name \in DOMAIN under
         /\ name \in DOMAIN over => Onto(over, under)[name] = over[name]
         /\ name \in DOMAIN under /\ name \notin DOMAIN over =>
              Onto(over, under)[name] = under[name]
  BY DEF Onto

(* What stands behind the prefix, name by name. *)
LEMMA PrefixAt ==
  ASSUME NEW own, NEW forced, NEW defaults, NEW name, NEW under, under = Onto(forced, own),
         NEW sees, sees = withEnvPrefix(own, forced, defaults)
  PROVE  /\ name \in DOMAIN sees <=> name \in DOMAIN under \/ name \in DOMAIN defaults
         /\ name \in DOMAIN defaults /\ ~Set(under, name) => sees[name] = defaults[name]
         /\ name \in DOMAIN under /\ (name \in DOMAIN defaults => Set(under, name))
              => sees[name] = under[name]
  <1> DEFINE over == [n \in {m \in DOMAIN defaults : ~Set(under, m)} |-> defaults[n]]
  <1>1. /\ name \in DOMAIN over <=> name \in DOMAIN defaults /\ ~Set(under, name)
        /\ name \in DOMAIN over => over[name] = defaults[name]
    OBVIOUS
  <1>2. sees = Onto(over, under)
    BY DEF withEnvPrefix
  <1>3. Set(under, name) => name \in DOMAIN under
    BY Zenon DEF Set
  <1> HIDE DEF over
  <1> QED
    BY <1>1, <1>2, <1>3, OntoAt

LEMMA SetAt ==
  ASSUME NEW env0, NEW name, NEW value, name \in DOMAIN env0, env0[name] = value
  PROVE  Set(env0, name) <=> value # ""
  BY Zenon DEF Set

LEMMA LatestKept ==
  ASSUME UNCHANGED instance, NEW name, NEW onlyIfUnset
  PROVE  Latest(name, onlyIfUnset)' = Latest(name, onlyIfUnset)
  BY SMT DEF Latest

LEMMA RunIsSeen ==
  ASSUME SeenInv, NEW s \in Sandbox, NEW owner, NEW processEnv, RunCommand(s, owner, processEnv)
  PROVE  SeenInOrder'
  <1>0. PICK j \in InSet(s, resolve(s, owner)) :
          answer' = [call |-> "run", own |-> jobs[j].own, processEnv |-> processEnv,
                     sees |-> IF processEnv = NoVars
                              THEN CommandEnv(jobs[j].own, instance.env, instance.envDefaults)
                              ELSE ProcessEnv(jobs[j].own, instance.env, instance.envDefaults,
                                              processEnv)]
    BY Zenon DEF RunCommand
  <1> DEFINE own == jobs[j].own
             e == instance.env
             d == instance.envDefaults
             base == withEnvPrefix(own, e, d)
             sees == answer'.sees
  <1>1. /\ answer'.own = own /\ answer'.processEnv = processEnv /\ UNCHANGED instance
        /\ sees = IF processEnv = NoVars THEN base ELSE withEnvPrefix(base, processEnv, NoVars)
        /\ answer'.call = "run"
    BY <1>0 DEF RunCommand, CommandEnv, ProcessEnv
  <1>2. own \in OwnEnvs
    BY DEF SeenInv, OwnInv, InSet
  <1>3. \A name \in DOMAIN own : own[name] # Unset
    BY <1>2, InstallationAssumption
  <1> HIDE DEF own, e, d, base, sees
  <1> SUFFICES ASSUME NEW name \in EnvName
               PROVE  \/ name \in DOMAIN processEnv /\ Seen(name)' = processEnv[name]
                      \/ /\ name \notin DOMAIN processEnv
                         /\ IF Latest(name, TRUE)' = Unset THEN Seen(name)' = Given(name)'
                            ELSE \/ Given(name)' = ""
                                 \/ Seen(name)' = IF Given(name)' = Unset THEN Latest(name, TRUE)'
                                                  ELSE Given(name)'
    BY <1>1, Zenon DEF SeenInOrder
  <1> DEFINE forced == Latest(name, FALSE)
             default == Latest(name, TRUE)
             image == IF name \in DOMAIN own THEN own[name] ELSE Unset
             given == IF forced # Unset THEN forced ELSE image
  <1>g. /\ Latest(name, TRUE)' = default /\ Given(name)' = given
        /\ Seen(name)' = IF name \in DOMAIN sees THEN sees[name] ELSE Unset
    <2>1. Latest(name, TRUE)' = default /\ Latest(name, FALSE)' = forced
      BY <1>1, LatestKept
    <2> QED
      BY <1>1, <2>1, Zenon DEF Given, Seen, sees
  <1>4. /\ Latest(name, FALSE) = IF name \in DOMAIN e THEN e[name] ELSE Unset
        /\ name \in DOMAIN e => e[name] # Unset
    BY TableIsLatest DEF SeenInv, TablesInv, e
  <1>5. /\ Latest(name, TRUE) = IF name \in DOMAIN d THEN d[name] ELSE Unset
        /\ name \in DOMAIN d => d[name] # Unset
    BY TableIsLatest DEF SeenInv, TablesInv, d
  <1> DEFINE under == Onto(e, own)
             bare == given \in {Unset, ""}
  <1>6. /\ name \in DOMAIN base <=> name \in DOMAIN under \/ name \in DOMAIN d
        /\ name \in DOMAIN d /\ ~Set(under, name) => base[name] = d[name]
        /\ name \in DOMAIN under /\ (name \in DOMAIN d => Set(under, name))
             => base[name] = under[name]
    BY PrefixAt, Zenon DEF base
  <1>7. /\ name \in DOMAIN sees <=> name \in DOMAIN processEnv \/ name \in DOMAIN base
        /\ name \in DOMAIN processEnv => sees[name] = processEnv[name]
        /\ name \in DOMAIN base /\ name \notin DOMAIN processEnv => sees[name] = base[name]
    <2>1. CASE processEnv = NoVars
      BY <1>1, <2>1, EmptyDomain
    <2>2. CASE processEnv # NoVars
      <3> DEFINE both == Onto(processEnv, base)
      <3>1. sees = withEnvPrefix(base, processEnv, NoVars)
        BY <1>1, <2>2
      <3>2. name \notin DOMAIN NoVars
        BY EmptyDomain
      <3>3. /\ name \in DOMAIN sees <=> name \in DOMAIN both \/ name \in DOMAIN NoVars
            /\ name \in DOMAIN both /\ (name \in DOMAIN NoVars => Set(both, name))
                 => sees[name] = both[name]
        BY <3>1, PrefixAt
      <3>4. /\ name \in DOMAIN both <=> name \in DOMAIN processEnv \/ name \in DOMAIN base
            /\ name \in DOMAIN processEnv => both[name] = processEnv[name]
            /\ name \in DOMAIN base /\ name \notin DOMAIN processEnv => both[name] = base[name]
        BY OntoAt
      <3> HIDE DEF both
      <3> QED
        BY <3>2, <3>3, <3>4
    <2> QED
      BY <2>1, <2>2
  <1>8. /\ name \in DOMAIN under <=> name \in DOMAIN e \/ name \in DOMAIN own
        /\ name \in DOMAIN e => under[name] = e[name]
        /\ name \in DOMAIN own /\ name \notin DOMAIN e => under[name] = own[name]
    BY OntoAt
  <1> HIDE DEF under, bare, given
  <1>9. /\ name \in DOMAIN under => given = under[name] /\ given # Unset
        /\ name \notin DOMAIN under => given = Unset
    BY <1>3, <1>4, <1>8 DEF given
  <1>10. given = Unset => bare
    BY Zenon DEF bare
  <1>11. name \in DOMAIN under => (bare <=> ~Set(under, name))
    BY <1>9, SetAt, Zenon DEF bare
  <1>12. ~Set(under, name) \/ name \in DOMAIN under
    BY Zenon DEF Set
  <1>13. (IF name \in DOMAIN sees THEN sees[name] ELSE Unset) =
         IF name \in DOMAIN processEnv THEN processEnv[name]
         ELSE IF bare /\ default # Unset THEN default ELSE given
    BY <1>5, <1>6, <1>7, <1>9, <1>10, <1>11, <1>12
  <1> QED
    BY <1>g, <1>13, Zenon DEF bare

LEMMA NothingTold ==
  /\ << >> \in Seq(Call)
  /\ \A name, onlyIfUnset : Holds(NoVars, << >>, name, onlyIfUnset)
  <1>1. \A name, onlyIfUnset : Told(<< >>, name, onlyIfUnset) = {}
    BY DEF Told
  <1> QED
    BY <1>1, EmptyDomain DEF Holds

LEMMA InitSeen == Init => SeenInv
  <1> SUFFICES ASSUME Init PROVE SeenInv
    OBVIOUS
  <1>1. /\ instance.env = NoVars /\ instance.envDefaults = NoVars /\ instance.said = << >>
        /\ instance = Fresh
    BY DEF Init, Fresh
  <1>2. TypeOK
    <2>1. /\ env \in [EnvVar -> Text \cup {Unset}] /\ file \in Text \cup {Unset}
          /\ edits \in 0..MaxEdits
      BY InstallationAssumption DEF Init
    <2>2. /\ \A j \in DOMAIN jobs : jobs[j].sandbox \in Sandbox \cup {Stranger}
          /\ DOMAIN remembered = Sandbox
      BY DEF Init, StrangersJob, NothingRemembered
    <2>3. Len(instance.said) <= MaxSaid
      BY <1>1, InstallationAssumption
    <2> QED
      BY <1>1, <2>1, <2>2, <2>3, EmptyDomain DEF TypeOK
  <1>3. TablesInv
    <2>1. instance = [env |-> instance.env, envDefaults |-> instance.envDefaults,
                      said |-> instance.said]
      BY <1>1 DEF Fresh
    <2> QED
      BY <1>1, <2>1, EmptyDomain, NothingTold DEF TablesInv
  <1>4. OwnInv
    <2>1. /\ jobs \in Seq({StrangersJob})
          /\ \A j \in DOMAIN jobs : jobs[j].sandbox = Stranger
      BY DEF Init, StrangersJob
    <2> QED
      BY <2>1, InstallationAssumption DEF OwnInv
  <1>5. SeenInOrder
    BY DEF Init, SeenInOrder, NoAnswer
  <1> QED
    BY <1>2, <1>3, <1>4, <1>5 DEF SeenInv

LEMMA FreshTables ==
  ASSUME instance' = Fresh
  PROVE  /\ TablesInv'
         /\ DOMAIN instance'.env \cup DOMAIN instance'.envDefaults \subseteq EnvName
         /\ Len(instance'.said) <= MaxSaid
  <1>1. /\ instance'.env = NoVars /\ instance'.envDefaults = NoVars /\ instance'.said = << >>
    BY DEF Fresh
  <1>2. instance' = [env |-> instance'.env, envDefaults |-> instance'.envDefaults,
                     said |-> instance'.said]
    BY <1>1 DEF Fresh
  <1> QED
    <2>1. TablesInv'
      BY <1>1, <1>2, NothingTold DEF TablesInv
    <2>2. Len(<< >>) = 0
      OBVIOUS
    <2> QED
      BY <1>1, <2>1, <2>2, EmptyDomain, InstallationAssumption

LEMMA TablesKept == ASSUME TablesInv, UNCHANGED instance PROVE TablesInv'
  BY DEF TablesInv, Holds, Told

LEMMA OwnKept == ASSUME OwnInv, UNCHANGED jobs PROVE OwnInv'
  BY DEF OwnInv

LEMMA NotRun == ASSUME answer'.call # "run" PROVE SeenInOrder'
  BY DEF SeenInOrder

LEMMA SetEnvVarsTables ==
  ASSUME SeenInv, NEW variables \in VarSets, NEW onlyIfUnset \in BOOLEAN,
         SetEnvVars(variables, onlyIfUnset)
  PROVE  /\ TablesInv'
         /\ DOMAIN instance'.env \cup DOMAIN instance'.envDefaults \subseteq EnvName
         /\ Len(instance'.said) <= MaxSaid
  <1> DEFINE e == instance.env
             d == instance.envDefaults
             said == instance.said
             call == [variables |-> variables, onlyIfUnset |-> onlyIfUnset]
  <1>0. instance = [env |-> e, envDefaults |-> d, said |-> said]
    BY DEF SeenInv, TablesInv
  <1>t. /\ said \in Seq(Call) /\ Len(said) < MaxSaid /\ DOMAIN e \cup DOMAIN d \subseteq EnvName
        /\ \A name \in EnvName : Holds(e, said, name, FALSE) /\ Holds(d, said, name, TRUE)
    BY DEF SeenInv, TablesInv, TypeOK, SetEnvVars
  <1> HIDE DEF e, d, said
  <1>1. CASE ~NamesValid(variables)
    <2>1. instance' = [instance EXCEPT !.said = @]
      BY <1>1 DEF SetEnvVars, setEnvVars
    <2>2. instance' = instance
      BY <1>0, <2>1
    <2> QED
      BY <2>2, TablesKept DEF SeenInv, TypeOK
  <1>2. CASE NamesValid(variables)
    <2> DEFINE e2 == IF onlyIfUnset THEN e ELSE Onto(variables, e)
               d2 == IF onlyIfUnset THEN Onto(variables, d) ELSE d
    <2>1. instance' = [env |-> e2, envDefaults |-> d2, said |-> Append(said, call)]
      BY <1>0, <1>2 DEF SetEnvVars, setEnvVars
    <2>2. /\ instance'.env = e2 /\ instance'.envDefaults = d2
          /\ instance'.said = Append(said, call)
      BY <2>1
    <2>3. call \in Call
      BY DEF Call
    <2>4. call.variables = variables /\ call.onlyIfUnset = onlyIfUnset
      OBVIOUS
    <2> HIDE DEF call
    <2>5. \A name \in EnvName : Holds(e2, Append(said, call), name, FALSE)
      <3> SUFFICES ASSUME NEW name \in EnvName PROVE Holds(e2, Append(said, call), name, FALSE)
        OBVIOUS
      <3>1. Holds(IF call.onlyIfUnset = FALSE THEN Onto(call.variables, e) ELSE e,
                  Append(said, call), name, FALSE)
        BY <1>t, <2>3, TableGrows, Zenon
      <3> QED
        BY <2>4, <3>1, Zenon
    <2>6. \A name \in EnvName : Holds(d2, Append(said, call), name, TRUE)
      <3> SUFFICES ASSUME NEW name \in EnvName PROVE Holds(d2, Append(said, call), name, TRUE)
        OBVIOUS
      <3>1. Holds(IF call.onlyIfUnset = TRUE THEN Onto(call.variables, d) ELSE d,
                  Append(said, call), name, TRUE)
        BY <1>t, <2>3, TableGrows, Zenon
      <3> QED
        BY <2>4, <3>1, Zenon
    <2>7. DOMAIN e2 \cup DOMAIN d2 \subseteq EnvName
      BY <1>t, <1>2 DEF NamesValid, Onto
    <2>8. Append(said, call) \in Seq(Call) /\ Len(Append(said, call)) <= MaxSaid
      BY <1>t, <2>3, InstallationAssumption
    <2> HIDE DEF e2, d2
    <2> QED
      BY <2>1, <2>2, <2>5, <2>6, <2>7, <2>8 DEF TablesInv
  <1> QED
    BY <1>1, <1>2

LEMMA RemembersDomain ==
  ASSUME DOMAIN remembered = Sandbox, NEW s, NEW queue, Remembers(s, queue)
  PROVE  DOMAIN remembered' = Sandbox
  BY DEF Remembers

LEMMA SubmitOwn ==
  ASSUME SeenInv, NEW s \in Sandbox, NEW owner, NEW options, NEW own \in OwnEnvs,
         Submit(s, owner, options, own)
  PROVE  /\ OwnInv' /\ DOMAIN remembered' = Sandbox
         /\ \A j \in DOMAIN jobs' : jobs'[j].sandbox \in Sandbox \cup {Stranger}
  <1>0. DOMAIN remembered = Sandbox
    BY DEF SeenInv, TypeOK
  <1>1. CASE UNCHANGED <<jobs, remembered>>
    BY <1>0, <1>1, OwnKept DEF SeenInv, TypeOK
  <1>2. ASSUME NEW job, job.sandbox = s, job.own = own, jobs' = Append(jobs, job),
               Remembers(s, resolve(s, owner))
        PROVE  /\ OwnInv' /\ DOMAIN remembered' = Sandbox
               /\ \A j \in DOMAIN jobs' : jobs'[j].sandbox \in Sandbox \cup {Stranger}
    <2>1. PICK S : jobs \in Seq(S)
      BY DEF SeenInv, OwnInv
    <2>2. /\ Len(jobs) \in Nat /\ DOMAIN jobs = 1..Len(jobs) /\ DOMAIN jobs' = 1..(Len(jobs) + 1)
          /\ jobs'[Len(jobs) + 1] = job /\ \A i \in 1..Len(jobs) : jobs'[i] = jobs[i]
          /\ jobs' \in Seq(S \cup {job})
      BY <1>2, <2>1, OneMore
    <2>3. ASSUME NEW j \in DOMAIN jobs'
          PROVE  (j \in DOMAIN jobs /\ jobs'[j] = jobs[j]) \/ jobs'[j] = job
      BY <2>2
    <2>4. OwnInv'
      BY <1>2, <2>2, <2>3 DEF SeenInv, OwnInv
    <2> QED
      BY <1>0, <1>2, <2>3, <2>4, RemembersDomain DEF SeenInv, TypeOK
  <1>3. \/ UNCHANGED <<jobs, remembered>>
        \/ /\ Remembers(s, resolve(s, owner))
           /\ \E request : jobs' = Append(jobs,
                                     [sandbox |-> s, server |-> hub.config.url,
                                      queue |-> resolve(s, owner), own |-> own,
                                      env |-> hub.env, request |-> request])
    BY Zenon DEF Submit
  <1> QED
    BY <1>1, <1>2, <1>3

LEMMA SeenStep == SeenInv /\ [Next]_vars => SeenInv'
  <1> SUFFICES ASSUME SeenInv, [Next]_vars PROVE SeenInv'
    OBVIOUS
  <1> USE DEF SeenInv
  <1>1. CASE \E name \in EnvVar : \E text \in Choices[name] : Edit(name, text)
    <2>0. PICK name \in EnvVar : \E text \in Choices[name] : Edit(name, text)
      BY <1>1
    <2>1. PICK text \in Choices[name] : Edit(name, text)
      BY <2>0
    <2>2. /\ UNCHANGED <<file, jobs, remembered, instance>> /\ answer' = NoAnswer
          /\ env' = [env EXCEPT ![name] = text] /\ edits < MaxEdits /\ edits' = edits + 1
      BY <2>1 DEF Edit
    <2>3. text \in Text \cup {Unset}
      BY InstallationAssumption
    <2>4. env' \in [EnvVar -> Text \cup {Unset}] /\ edits' \in 0..MaxEdits
      BY <2>2, <2>3, InstallationAssumption DEF TypeOK
    <2> QED
      BY <2>2, <2>4, TablesKept, OwnKept, NotRun DEF TypeOK, NoAnswer
  <1>2. CASE \E text \in TokenFiles : Rotate(text)
    <2>1. /\ UNCHANGED <<env, jobs, remembered, instance, edits>> /\ answer' = NoAnswer
          /\ file' \in Text \cup {Unset}
      BY <1>2, InstallationAssumption DEF Rotate
    <2> QED
      BY <2>1, TablesKept, OwnKept, NotRun DEF TypeOK, NoAnswer
  <1>3. CASE Stop \/ Create
    <2>1. /\ UNCHANGED <<env, file, jobs, edits>> /\ answer' = NoAnswer /\ instance' = Fresh
          /\ DOMAIN remembered' = Sandbox
      BY <1>3 DEF Stop, Create, NothingRemembered, TypeOK
    <2> QED
      BY <2>1, FreshTables, OwnKept, NotRun DEF TypeOK, NoAnswer
  <1>4. CASE \E variables \in VarSets, onlyIfUnset \in BOOLEAN : SetEnvVars(variables, onlyIfUnset)
    <2>1. PICK variables \in VarSets, onlyIfUnset \in BOOLEAN : SetEnvVars(variables, onlyIfUnset)
      BY <1>4
    <2>2. UNCHANGED <<env, file, jobs, remembered, edits>> /\ answer' = NoAnswer
      BY <2>1 DEF SetEnvVars
    <2>3. /\ TablesInv'
          /\ DOMAIN instance'.env \cup DOMAIN instance'.envDefaults \subseteq EnvName
          /\ Len(instance'.said) <= MaxSaid
      BY <2>1, SetEnvVarsTables
    <2> QED
      BY <2>2, <2>3, OwnKept, NotRun DEF TypeOK, NoAnswer
  <1>5. CASE \E s \in Sandbox, owner \in Owners :
               \E options \in Options, own \in OwnEnvs : Submit(s, owner, options, own)
    <2>1. PICK s \in Sandbox, owner \in Owners :
            \E options \in Options, own \in OwnEnvs : Submit(s, owner, options, own)
      BY <1>5
    <2>2. PICK options \in Options, own \in OwnEnvs : Submit(s, owner, options, own)
      BY <2>1
    <2>3. UNCHANGED <<env, file, instance, edits>> /\ answer'.call = "submit"
      <3>1. UNCHANGED <<env, file, instance, edits>>
        BY <2>2 DEF Submit
      <3>2. \E outcome : Settles("submit", s, outcome)
        BY <2>2, Zenon DEF Submit
      <3> QED
        BY <3>1, <3>2 DEF Settles
    <2>4. /\ OwnInv' /\ DOMAIN remembered' = Sandbox
          /\ \A j \in DOMAIN jobs' : jobs'[j].sandbox \in Sandbox \cup {Stranger}
      BY <2>2, SubmitOwn
    <2> QED
      BY <2>3, <2>4, TablesKept, NotRun DEF TypeOK
  <1>6. CASE \E s \in Sandbox, owner \in Owners :
               Reach(s, owner) \/ \E port \in AskedPorts : ExposePort(s, owner, port)
    <2>1. PICK s \in Sandbox, owner \in Owners :
            Reach(s, owner) \/ \E port \in AskedPorts : ExposePort(s, owner, port)
      BY <1>6
    <2>2. UNCHANGED <<env, file, jobs, instance, edits>>
      BY <2>1 DEF Reach, ExposePort
    <2>3. UNCHANGED remembered \/ Remembers(s, resolve(s, owner))
      BY <2>1, Zenon DEF Reach, ExposePort
    <2>4. \E call \in {"reach", "expose"} : \E outcome : Settles(call, s, outcome)
      BY <2>1, Zenon DEF Reach, ExposePort
    <2>5. answer'.call # "run"
      BY <2>4 DEF Settles
    <2>6. DOMAIN remembered' = Sandbox
      BY <2>3, RemembersDomain DEF TypeOK
    <2> QED
      BY <2>2, <2>5, <2>6, TablesKept, OwnKept, NotRun DEF TypeOK
  <1>7. CASE \E s \in Sandbox, owner \in Owners :
               \E processEnv \in VarSets \cup {NoVars} : RunCommand(s, owner, processEnv)
    <2>1. PICK s \in Sandbox, owner \in Owners :
            \E processEnv \in VarSets \cup {NoVars} : RunCommand(s, owner, processEnv)
      BY <1>7
    <2>2. PICK processEnv \in VarSets \cup {NoVars} : RunCommand(s, owner, processEnv)
      BY <2>1
    <2>3. UNCHANGED <<env, file, jobs, instance, edits>> /\ Remembers(s, resolve(s, owner))
      BY <2>2 DEF RunCommand
    <2>4. DOMAIN remembered' = Sandbox
      BY <2>3, RemembersDomain DEF TypeOK
    <2> QED
      BY <2>2, <2>3, <2>4, RunIsSeen, TablesKept, OwnKept DEF TypeOK
  <1>8. CASE ListActive \/ \E lifetime \in Lifetimes : Start(lifetime)
    <2>1. /\ UNCHANGED <<env, file, jobs, instance, edits>> /\ answer'.call # "run"
          /\ DOMAIN remembered' = Sandbox
      <3>1. CASE ListActive
        <4>1. answer'.call = "list"
          BY <3>1, ListAnswers
        <4>2. UNCHANGED <<env, file, jobs, instance, edits>> /\ DOMAIN remembered' = Sandbox
          BY <3>1 DEF ListActive, TypeOK
        <4> QED
          BY <4>1, <4>2
      <3>2. CASE \E lifetime \in Lifetimes : Start(lifetime)
        BY <3>2 DEF Start, TypeOK
      <3> QED
        BY <1>8, <3>1, <3>2
    <2> QED
      BY <2>1, TablesKept, OwnKept, NotRun DEF TypeOK
  <1>9. CASE UNCHANGED vars
    <2>1. UNCHANGED <<env, file, jobs, remembered, instance, answer, edits>>
      BY <1>9 DEF vars
    <2>2. SeenInOrder'
      BY <2>1, LatestKept DEF SeenInOrder, Seen, Given
    <2> QED
      BY <2>1, <2>2, TablesKept, OwnKept DEF TypeOK
  <1> QED
    BY <1>1, <1>2, <1>3, <1>4, <1>5, <1>6, <1>7, <1>8, <1>9 DEF Next

(* The tables an instance keeps hold, of every name, the last value marimohub    *)
(* gave it, and what is set is a name sh takes (sandbox.ts:571-583).             *)
THEOREM TablesInvariant == Spec => [](TypeOK /\ TablesInv)
  <1>1. SeenInv => TypeOK /\ TablesInv
    BY DEF SeenInv
  <1> QED
    BY <1>1, InitSeen, SeenStep, PTL DEF Spec

(* A command sees the process's own value of a name, else the last marimohub     *)
(* set, else the image's, and a default only where none of these is there,       *)
(* after any number of calls of setEnvVars (shell.ts:33-49, sandbox.ts:571-626). *)
(* An empty value beside a default is left out, as in SeenInOrder.               *)
THEOREM CommandsSeeInOrder == Spec => []SeenInOrder
  <1>1. SeenInv => SeenInOrder
    BY DEF SeenInv
  <1> QED
    BY <1>1, InitSeen, SeenStep, PTL DEF Spec
-----------------------------------------------------------------------------
(* What is offered at the start. *)

(* A type that is mapped is mapped to a selector of the operator's. *)
LEMMA MappedIsSelector ==
  ASSUME NEW e \in Env, NEW map \in readGpuNodeSelectors(e), NEW t \in DOMAIN map
  PROVE  map[t] \in Selector
  <1>1. CASE e[GPU_SELECTORS] = Unset
    <2>1. map = << >>
      BY <1>1 DEF readGpuNodeSelectors, NoMap
    <2> QED
      BY <2>1
  <1>2. CASE e[GPU_SELECTORS] # Unset
    <2>1. PICK es \in JsonEntries[e[GPU_SELECTORS]] :
            map = Selectors(es) /\ \A i \in DOMAIN es : es[i].selector \in Selector
      BY <1>2 DEF readGpuNodeSelectors
    <2>2. e[GPU_SELECTORS] \in Text
      BY <1>2, GpuAssumption DEF Env
    <2>3. Len(es) \in Nat /\ DOMAIN es = 1..Len(es)
      BY <2>2, GpuAssumption
    <2> DEFINE at == {i \in DOMAIN es : Upper[es[i].type] = t}
               last == CHOOSE i \in DOMAIN es :
                         /\ Upper[es[i].type] = t
                         /\ \A j \in DOMAIN es : Upper[es[j].type] = t => j <= i
    <2>4. at # {} /\ map[t] = es[last].selector
      BY <2>1 DEF Selectors
    <2>5. \E i \in DOMAIN es : /\ Upper[es[i].type] = t
                               /\ \A j \in DOMAIN es : Upper[es[j].type] = t => j <= i
      <3>1. PICK i \in at : \A j \in at : j <= i
        <4> DEFINE n == Len(es)
        <4>1. n \in Nat /\ at \subseteq 1..n
          BY <2>3
        <4> HIDE DEF n, at
        <4> QED
          BY <2>4, <4>1, HasLast
      <3> QED
        BY <3>1
    <2>6. last \in DOMAIN es
      BY <2>5, Zenon
    <2> QED
      BY <2>1, <2>4, <2>6
  <1> QED
    BY <1>1, <1>2

(* All the memory asked for, whatever the unit. *)
LEMMA MemoryIsWhole ==
  ASSUME NEW bytes \in Nat
  PROVE  Size(memoryQuantity(bytes)) >= bytes
  <1>1. \A unit \in Nat \ {0} : bytes % unit = 0 => (bytes \div unit) * unit = bytes
    OBVIOUS
  <1>2. Mi \in Nat \ {0} /\ Gi \in Nat \ {0}
    BY UnitAssumption
  <1>3. CASE bytes % Gi = 0
    <2>1. Size(memoryQuantity(bytes)) = (bytes \div Gi) * Gi
      BY <1>3 DEF memoryQuantity, Size
    <2> QED
      BY <1>1, <1>2, <1>3, <2>1
  <1>4. CASE bytes % Gi # 0 /\ bytes % Mi = 0
    <2>1. Size(memoryQuantity(bytes)) = (bytes \div Mi) * Mi
      BY <1>4 DEF memoryQuantity, Size
    <2> QED
      BY <1>1, <1>2, <1>4, <2>1
  <1>5. CASE bytes % Gi # 0 /\ bytes % Mi # 0
    <2>1. Size(memoryQuantity(bytes)) = bytes * 1
      BY <1>5 DEF memoryQuantity, Size
    <2> QED
      BY <2>1
  <1> QED
    BY <1>3, <1>4, <1>5

ReadConfig == hub.env \in Env /\ hub.config \in readConfig(hub.env, hub.file, hub.lifetime)

(* A gpu value marimohub may pass on has a place. *)
LEMMA OfferedIsPlaced ==
  ASSUME ReadConfig, NEW resources, resources.gpu \in Offered
  PROVE  \E selector \in gpuNodeSelector(hub.config, resources) :
           Asks(resources.gpu) => selector \in Selector
  <1> DEFINE gpu == resources.gpu
             map == hub.config.gpuNodeSelectors
  <1>1. CASE ~Asks(gpu)
    <2>1. Unset \in gpuNodeSelector(hub.config, resources)
      BY <1>1 DEF gpuNodeSelector
    <2> QED
      BY <1>1, <2>1
  <1>2. CASE Asks(gpu)
    <2>1. gpu # Unset /\ gpu # ""
      BY <1>2 DEF Asks
    <2>2. map # NoMap /\ \E name \in PROFILE_VARIABLES :
                           hub.env[name] # Unset /\ gpu \in ProfileGpus[hub.env[name]]
      BY <2>1 DEF Offered, capabilities
    <2>3. PICK name \in PROFILE_VARIABLES :
            hub.env[name] # Unset /\ gpu \in ProfileGpus[hub.env[name]]
      BY <2>2
    <2>4. /\ hub.env \in Env /\ hub.config \in Fields(hub.env, hub.file, hub.lifetime)
          /\ GpuProfilesMapped(hub.env, hub.config)
      BY DEF ReadConfig, readConfig
    <2>5. map \in readGpuNodeSelectors(hub.env)
      BY <2>4, SelectorsField
    <2>6. hub.env[name] \in Text
      BY <2>3, <2>4, GpuAssumption DEF Env
    <2> DEFINE type == Upper[GpuParts[gpu].type]
    <2>7. Trim[GpuParts[gpu].type] = GpuParts[gpu].type /\ type # ""
      BY <2>1, <2>3, <2>6, GpuAssumption, Zenon
    <2>8. type \in DOMAIN map
      <3>1. profileGpuTypes(hub.env[name]) \subseteq DOMAIN map
        BY <2>2, <2>4 DEF GpuProfilesMapped
      <3>2. type \in profileGpuTypes(hub.env[name])
        <4>1. Upper[Trim[GpuParts[gpu].type]] = type
          BY <2>7
        <4> QED
          BY <2>3, <2>7, <4>1, Zenon DEF profileGpuTypes
      <3> QED
        BY <3>1, <3>2, Zenon
    <2>9. map[type] \in Selector
      BY <2>4, <2>5, <2>8, MappedIsSelector
    <2>10. map[type] \in gpuNodeSelector(hub.config, resources)
      <3>1. parseGpu(gpu).type = type
        BY DEF parseGpu
      <3> QED
        BY <1>2, <2>8, <3>1 DEF gpuNodeSelector
    <2> QED
      BY <2>9, <2>10
  <1> QED
    BY <1>1, <1>2

(* Every port that is asked for is declared, and none of them is the agent's. *)
LEMMA AskedIsDeclared ==
  ASSUME ReadConfig
  PROVE  /\ AskedPorts \subseteq declaredPorts(hub.config) \ {hub.config.agentPort}
         /\ hub.config.agentPort \in declaredPorts(hub.config)
  <1>1. PortsApart(hub.config)
    BY DEF ReadConfig, readConfig
  <1> QED
    BY <1>1 DEF PortsApart, AskedPorts, declaredPorts

LEMMA OfferedHere == ASSUME ReadConfig PROVE OfferedWorks
  <1> SUFFICES ASSUME NEW options \in Options
               PROVE  \E pod \in buildPodSpec(hub.config, "hash", options) :
                        /\ Asks(options.resources.gpu) => pod.nodeSelector \in Selector
                        /\ options.resources.memoryBytes # Unset =>
                             Size(pod.resources.memory) >= options.resources.memoryBytes
                        /\ AskedPorts \subseteq exposedPorts(pod) \ {pod.agentPort}
                        /\ pod.agentPort \in exposedPorts(pod)
    BY Zenon DEF OfferedWorks
  <1> DEFINE config == hub.config
             resources == options.resources
  <1>1. resources.gpu \in Offered /\ resources.memoryBytes \in Memory
    BY DEF Options
  <1>2. PICK selector \in gpuNodeSelector(config, resources) :
          Asks(resources.gpu) => selector \in Selector
    BY <1>1, OfferedIsPlaced
  <1> DEFINE pod ==
        [activeDeadlineSeconds |-> config.maxLifetimeSeconds,
         priorityClassName |-> config.priorityClassName,
         nodeSelector |-> selector,
         imagePullSecrets |-> config.imagePullSecrets,
         securityContext |-> securityContext(config),
         agentImage |-> config.agentImage,
         image |-> IF options.image = Unset THEN config.image ELSE options.image,
         agentPort |-> config.agentPort,
         tokenSha256 |-> "hash",
         ports |-> declaredPorts(config),
         resources |-> quantities(resources)]
  <1>3. pod \in buildPodSpec(config, "hash", options)
    BY DEF buildPodSpec
  <1>4. /\ pod.nodeSelector = selector /\ pod.agentPort = config.agentPort
        /\ exposedPorts(pod) = declaredPorts(config)
        /\ pod.resources = quantities(resources)
    BY DEF exposedPorts
  <1>5. resources.memoryBytes # Unset =>
          Size(quantities(resources).memory) >= resources.memoryBytes
    <2> SUFFICES ASSUME resources.memoryBytes # Unset
                 PROVE  Size(quantities(resources).memory) >= resources.memoryBytes
      OBVIOUS
    <2>1. resources.memoryBytes \in Nat
      BY <1>1, InstallationAssumption
    <2>2. quantities(resources).memory = memoryQuantity(resources.memoryBytes)
      BY DEF quantities
    <2> QED
      BY <2>1, <2>2, MemoryIsWhole
  <1>6. /\ AskedPorts \subseteq declaredPorts(config) \ {config.agentPort}
        /\ config.agentPort \in declaredPorts(config)
    BY AskedIsDeclared
  <1> HIDE DEF pod
  <1> QED
    BY <1>2, <1>3, <1>4, <1>5, <1>6, Zenon

Started == answer.call = "start" => ReadConfig

(* Only a start answers so. *)
LEMMA StartedFromRead ==
  ASSUME env \in Env, Started, [Next]_vars, answer'.call = "start"
  PROVE  ReadConfig'
  <1>1. CASE \/ \E name \in EnvVar : \E text \in Choices[name] : Edit(name, text)
             \/ \E text \in TokenFiles : Rotate(text)
             \/ Stop \/ Create
             \/ \E variables \in VarSets, onlyIfUnset \in BOOLEAN : SetEnvVars(variables, onlyIfUnset)
    <2>1. answer' = NoAnswer
      BY <1>1 DEF Edit, Rotate, Stop, Create, SetEnvVars
    <2> QED
      BY <2>1 DEF NoAnswer
  <1>2. CASE \E lifetime \in Lifetimes : Start(lifetime)
    BY <1>2 DEF Start, ReadConfig
  <1>3. CASE \E s \in Sandbox, owner \in Owners :
               \/ \E options \in Options, own \in OwnEnvs : Submit(s, owner, options, own)
               \/ Reach(s, owner)
               \/ \E port \in AskedPorts : ExposePort(s, owner, port)
    <2>1. PICK s \in Sandbox, owner \in Owners :
               \/ \E options \in Options, own \in OwnEnvs : Submit(s, owner, options, own)
               \/ Reach(s, owner)
               \/ \E port \in AskedPorts : ExposePort(s, owner, port)
      BY <1>3
    <2>2. \E call \in {"submit", "reach", "expose"} : \E outcome : Settles(call, s, outcome)
      BY <2>1, Zenon DEF Submit, Reach, ExposePort
    <2> QED
      BY <2>2 DEF Settles
  <1>4. CASE ListActive
    BY <1>4, ListAnswers
  <1>5. CASE \E s \in Sandbox, owner \in Owners :
               \E processEnv \in VarSets \cup {NoVars} : RunCommand(s, owner, processEnv)
    <2>1. answer'.call = "run"
      BY <1>5 DEF RunCommand
    <2> QED
      BY <2>1
  <1>6. CASE UNCHANGED vars
    BY <1>6 DEF vars, ReadConfig, Started
  <1> QED
    BY <1>1, <1>2, <1>3, <1>4, <1>5, <1>6 DEF Next

LEMMA StartsAreRead == Spec => []Started
  <1>1. Init => Started
    BY DEF Init, NoAnswer, Started
  <1>2. Inv /\ Started /\ [Next]_vars => Started'
    BY StartedFromRead DEF Inv, Started
  <1> QED
    BY <1>1, <1>2, InitInv, NextStep, PTL DEF Spec

(* A process that has started can do what it offers, with any profiles and any  *)
(* settings it accepts: every gpu value has a place, all the memory is asked    *)
(* for, every port is declared and none is the agent's (config.ts:607-622,      *)
(* provider.ts:41-48, podspec.ts:97-110).                                       *)
THEOREM OffersAreKept == Spec => []OfferedWorks
  <1>1. Started => OfferedWorks
    <2>1. answer.call # "start" => OfferedWorks
      BY Zenon DEF OfferedWorks
    <2> QED
      BY <2>1, OfferedHere DEF Started
  <1> QED
    BY <1>1, StartsAreRead, PTL

-----------------------------------------------------------------------------
(* No setting is ignored.  A configuration is the product of its fields, so a   *)
(* text that the reader of one of them throws at leaves none.                   *)

Refusable(e, f, lifetime, config, name) ==
  \E text \in Choices[name] : readConfig([e EXCEPT ![name] = text], f, lifetime) # {config}

LEMMA Overwritten ==
  ASSUME NEW e \in Env, NEW name \in EnvVar, NEW text
  PROVE  /\ [e EXCEPT ![name] = text][name] = text
         /\ \A other \in EnvVar : other # name => [e EXCEPT ![name] = text][other] = e[other]
  BY DEF Env

LEMMA WrittenIsText ==
  ASSUME NEW name \in EnvVar, NEW t \in Choices[name], t # Unset
  PROVE  t \in Text
  BY InstallationAssumption

LEMMA NumbersAreWhole ==
  ASSUME NEW t \in Text
  PROVE  Length[t] \in Nat /\ \A n \in Number[t] : n \in Int
  <1>1. Length \in [Text -> Nat] /\ Number \in [Text -> SUBSET Int]
    BY TextAssumption
  <1> QED
    BY <1>1

(* A configuration that would be read again is one of the fields read again. *)
LEMMA ReadAgain ==
  ASSUME NEW e, NEW f, NEW lifetime, NEW config, readConfig(e, f, lifetime) = {config}
  PROVE  config \in Fields(e, f, lifetime)
  BY DEF readConfig

LEMMA UrlCounts ==
  ASSUME NEW e \in Env, NEW f, NEW lifetime, NEW config, NEW name \in UrlVariables
  PROVE  Refusable(e, f, lifetime, config, name)
  <1>1. PICK t \in Writes(name) : t \notin Urls
    BY ChoicesAssumption
  <1> DEFINE g == [e EXCEPT ![name] = t]
  <1>2. name \in EnvVar /\ t \in Choices[name] /\ t # Unset
    BY ChoicesAssumption DEF Writes
  <1>3. g[name] = t
    BY <1>2, Overwritten
  <1> HIDE DEF g
  <1>4. requiredUrl(g, name) = {} /\ optionalUrl(g, name) = {}
    BY <1>1, <1>2, <1>3 DEF requiredUrl, optionalUrl, required
  <1>5. ASSUME config \in Fields(g, f, lifetime) PROVE FALSE
    <2>1. /\ config.url \in requiredUrl(g, "ARMADA_URL")
          /\ config.lookoutUrl \in optionalUrl(g, "ARMADA_LOOKOUT_URL")
      BY <1>5 DEF Fields
    <2> QED
      BY <1>4, <2>1 DEF UrlVariables
  <1> QED
    BY <1>2, <1>5, ReadAgain DEF Refusable, g

LEMMA NaturalCounts ==
  ASSUME NEW e \in Env, NEW f, NEW lifetime, NEW config, NEW name \in NaturalVariables
  PROVE  Refusable(e, f, lifetime, config, name)
  <1>1. PICK t \in Writes(name) : \A n \in Number[t] : n < 0
    BY ChoicesAssumption
  <1> DEFINE g == [e EXCEPT ![name] = t]
  <1>2. name \in EnvVar /\ t \in Choices[name] /\ t # Unset
    BY ChoicesAssumption DEF Writes
  <1>3. g[name] = t
    BY <1>2, Overwritten
  <1> HIDE DEF g
  <1>4. /\ optionalId(g, name) = {}
        /\ optionalSeconds(g, name, 21600, 0) = {}
    <2>1. \A n \in Number[t] : n \in Int
      BY <1>2, WrittenIsText, NumbersAreWhole
    <2>2. \A n \in Number[t] : ~(n >= 0)
      BY <1>1, <2>1
    <2> QED
      BY <1>2, <1>3, <2>2 DEF optionalId, optionalSeconds
  <1>5. ASSUME config \in Fields(g, f, lifetime) PROVE FALSE
    <2>1. /\ config.runAsUser \in optionalId(g, "ARMADA_RUN_AS_USER")
          /\ config.runAsGroup \in optionalId(g, "ARMADA_RUN_AS_GROUP")
          /\ config.fsGroup \in optionalId(g, "ARMADA_FS_GROUP")
          /\ config.commandMaxSeconds \in
               optionalSeconds(g, "ARMADA_COMMAND_MAX_SECONDS", 21600, 0)
      BY <1>5 DEF Fields
    <2> QED
      BY <1>4, <2>1 DEF NaturalVariables
  <1> QED
    BY <1>2, <1>5, ReadAgain DEF Refusable, g

LEMMA MapCounts ==
  ASSUME NEW e \in Env, NEW f, NEW lifetime, NEW config, NEW name \in {"ARMADA_QUEUE_BY_USER", "ARMADA_QUEUE_BY_PROJECT"}
  PROVE  Refusable(e, f, lifetime, config, name)
  <1>1. PICK t \in Writes(name) : Json[t] = {}
    BY ChoicesAssumption DEF MapVariables
  <1> DEFINE g == [e EXCEPT ![name] = t]
  <1>2. name \in EnvVar /\ t \in Choices[name] /\ t # Unset
    BY ChoicesAssumption DEF Writes, MapVariables
  <1>3. g[name] = t
    BY <1>2, Overwritten
  <1> HIDE DEF g
  <1>5. ASSUME config \in Fields(g, f, lifetime) PROVE FALSE
    <2>1. CASE name = "ARMADA_QUEUE_BY_USER"
      BY <1>1, <1>2, <1>3, <1>5, <2>1 DEF Fields, readStringMap
    <2>2. CASE name = "ARMADA_QUEUE_BY_PROJECT"
      BY <1>1, <1>2, <1>3, <1>5, <2>2 DEF Fields, readStringMap
    <2> QED
      BY <2>1, <2>2
  <1> QED
    BY <1>2, <1>5, ReadAgain DEF Refusable, g

LEMMA MetadataCounts ==
  ASSUME NEW e \in Env, NEW f, NEW lifetime, NEW config, NEW name \in MetadataVariables
  PROVE  Refusable(e, f, lifetime, config, name)
  <1>1. PICK t \in Writes(name) : \A m \in Json[t] : \E key \in DOMAIN m : isReservedKey(key)
    BY ChoicesAssumption
  <1> DEFINE g == [e EXCEPT ![name] = t]
  <1>2. name \in EnvVar /\ t \in Choices[name] /\ t # Unset
    BY ChoicesAssumption DEF Writes
  <1>3. g[name] = t
    BY <1>2, Overwritten
  <1> HIDE DEF g
  <1>4. \A kind : readPodMetadata(g, name, kind) = {}
    BY <1>1, <1>2, <1>3 DEF readPodMetadata, readStringMap
  <1>5. ASSUME config \in Fields(g, f, lifetime) PROVE FALSE
    <2>1. /\ config.podLabels \in readPodMetadata(g, "ARMADA_POD_LABELS", "label")
          /\ config.podAnnotations \in readPodMetadata(g, "ARMADA_POD_ANNOTATIONS", "annotation")
      BY <1>5 DEF Fields
    <2> QED
      BY <1>4, <2>1 DEF MetadataVariables
  <1> QED
    BY <1>2, <1>5, ReadAgain DEF Refusable, g

LEMMA SecretCounts ==
  ASSUME NEW e \in Env, NEW f, NEW lifetime, NEW config, NEW name, name = "ARMADA_AGENT_TOKEN_SECRET"
  PROVE  Refusable(e, f, lifetime, config, name)
  <1>1. PICK t \in Writes(name) : Length[t] < MIN_TOKEN_SECRET_LENGTH
    BY ChoicesAssumption
  <1> DEFINE g == [e EXCEPT ![name] = t]
  <1>2. name \in EnvVar /\ t \in Choices[name] /\ t # Unset
    BY ChoicesAssumption DEF Writes, OtherVariables
  <1>3. g[name] = t
    BY <1>2, Overwritten
  <1> HIDE DEF g
  <1>4. readTokenSecret(g) = {}
    <2>1. Length[t] \in Nat
      BY <1>2, WrittenIsText, NumbersAreWhole
    <2>2. ~(Length[t] >= MIN_TOKEN_SECRET_LENGTH)
      BY <1>1, <2>1 DEF MIN_TOKEN_SECRET_LENGTH
    <2> QED
      BY <1>3, <2>2 DEF readTokenSecret, required
  <1>5. ASSUME config \in Fields(g, f, lifetime) PROVE FALSE
    <2>1. config.agentTokenSecret \in readTokenSecret(g)
      BY <1>5 DEF Fields
    <2> QED
      BY <1>4, <2>1
  <1> QED
    BY <1>2, <1>5, ReadAgain DEF Refusable, g

LEMMA PullSecretsCount ==
  ASSUME NEW e \in Env, NEW f, NEW lifetime, NEW config, NEW name, name = "ARMADA_IMAGE_PULL_SECRETS"
  PROVE  Refusable(e, f, lifetime, config, name)
  <1>1. PICK t \in Writes(name) : Named(t) = {}
    BY ChoicesAssumption
  <1> DEFINE g == [e EXCEPT ![name] = t]
  <1>2. name \in EnvVar /\ t \in Choices[name] /\ t # Unset
    BY ChoicesAssumption DEF Writes, OtherVariables
  <1>3. g[name] = t
    BY <1>2, Overwritten
  <1> HIDE DEF g
  <1>4. readImagePullSecrets(g) = {}
    BY <1>1, <1>2, <1>3 DEF readImagePullSecrets
  <1>5. ASSUME config \in Fields(g, f, lifetime) PROVE FALSE
    <2>1. config.imagePullSecrets \in readImagePullSecrets(g)
      BY <1>5 DEF Fields
    <2> QED
      BY <1>4, <2>1
  <1> QED
    BY <1>2, <1>5, ReadAgain DEF Refusable, g

LEMMA ImageCounts ==
  ASSUME NEW e \in Env, NEW f, NEW lifetime, NEW config, NEW name, name = "MARIMOHUB_COMPUTE_IMAGE"
  PROVE  Refusable(e, f, lifetime, config, name)
  <1>1. PICK t \in Writes(name) : Items[t][1] = ""
    BY ChoicesAssumption
  <1> DEFINE g == [e EXCEPT ![name] = t]
  <1>2. name \in EnvVar /\ t \in Choices[name] /\ t # Unset
    BY ChoicesAssumption DEF Writes, OtherVariables
  <1>3. g[name] = t
    BY <1>2, Overwritten
  <1> HIDE DEF g
  <1>4. readImage(g) = {}
    BY <1>1, <1>2, <1>3 DEF readImage
  <1>5. ASSUME config \in Fields(g, f, lifetime) PROVE FALSE
    <2>1. config.image \in readImage(g)
      BY <1>5 DEF Fields
    <2> QED
      BY <1>4, <2>1
  <1> QED
    BY <1>2, <1>5, ReadAgain DEF Refusable, g

LEMMA SelectorsCount ==
  ASSUME NEW e \in Env, NEW f, NEW lifetime, NEW config, NEW name, name = GPU_SELECTORS
  PROVE  Refusable(e, f, lifetime, config, name)
  <1>1. PICK t \in Writes(name) : JsonEntries[t] = {}
    BY ChoicesAssumption
  <1> DEFINE g == [e EXCEPT ![name] = t]
  <1>2. name \in EnvVar /\ t \in Choices[name] /\ t # Unset
    BY ChoicesAssumption DEF Writes, OtherVariables
  <1>3. g[name] = t
    BY <1>2, Overwritten
  <1> HIDE DEF g
  <1>4. readGpuNodeSelectors(g) = {}
    BY <1>1, <1>2, <1>3 DEF readGpuNodeSelectors
  <1>5. ASSUME config \in Fields(g, f, lifetime) PROVE FALSE
    <2>1. config.gpuNodeSelectors \in readGpuNodeSelectors(g)
      BY <1>5 DEF Fields
    <2> QED
      BY <1>4, <2>1
  <1> QED
    BY <1>2, <1>5, ReadAgain DEF Refusable, g

LEMMA SurfacesCount ==
  ASSUME NEW e \in Env, NEW f, NEW lifetime, NEW config, NEW name, name = "MARIMOHUB_SURFACES"
  PROVE  Refusable(e, f, lifetime, config, name)
  <1>1. PICK t \in Writes(name) : \E item \in Named(t) :
          item \notin {PRIMARY_SURFACE} \cup {s.id : s \in SURFACES}
    BY ChoicesAssumption
  <1> DEFINE g == [e EXCEPT ![name] = t]
  <1>2. name \in EnvVar /\ t \in Choices[name] /\ t # Unset
    BY ChoicesAssumption DEF Writes, OtherVariables
  <1>3. g[name] = t
    BY <1>2, Overwritten
  <1> HIDE DEF g
  <1>4. readSurfacePorts(g) = {}
    BY <1>1, <1>2, <1>3 DEF readSurfacePorts
  <1>5. ASSUME config \in Fields(g, f, lifetime) PROVE FALSE
    <2>1. config.surfacePorts \in readSurfacePorts(g)
      BY <1>5 DEF Fields
    <2> QED
      BY <1>4, <2>1
  <1> QED
    BY <1>2, <1>5, ReadAgain DEF Refusable, g

LEMMA ExposeCounts ==
  ASSUME NEW e \in Env, NEW f, NEW lifetime, NEW config, NEW name, name = "ARMADA_EXPOSE"
  PROVE  Refusable(e, f, lifetime, config, name)
  <1>1. PICK t \in Writes(name) : t \notin {"nodeport", "ingress"}
    BY ChoicesAssumption
  <1> DEFINE g == [e EXCEPT ![name] = t]
  <1>2. name \in EnvVar /\ t \in Choices[name] /\ t # Unset
    BY ChoicesAssumption DEF Writes, OtherVariables
  <1>3. g[name] = t
    BY <1>2, Overwritten
  <1> HIDE DEF g
  <1>4. readExposure(g) = {}
    BY <1>1, <1>2, <1>3 DEF readExposure
  <1>5. ASSUME config \in Fields(g, f, lifetime) PROVE FALSE
    <2>1. config.expose \in readExposure(g)
      BY <1>5 DEF Fields
    <2> QED
      BY <1>4, <2>1
  <1> QED
    BY <1>2, <1>5, ReadAgain DEF Refusable, g

(* The port of a surface counts when the surface is enabled, the cap on a      *)
(* lifetime when marimohub gives none.                                         *)
LEMMA PositiveCounts ==
  ASSUME NEW e \in Env, NEW f, NEW lifetime, NEW config, NEW name \in PositiveVariables,
         name = "ARMADA_KERNEL_MAX_LIFETIME_SECONDS" => lifetime = Unset,
         \A s \in SURFACES : s.variable = name => s \in DOMAIN config.surfacePorts
  PROVE  Refusable(e, f, lifetime, config, name)
  <1>1. PICK t \in Writes(name) : \A n \in Number[t] : n < 1
    BY ChoicesAssumption
  <1> DEFINE g == [e EXCEPT ![name] = t]
  <1>2. name \in EnvVar /\ t \in Choices[name] /\ t # Unset
    BY ChoicesAssumption DEF Writes
  <1>3. g[name] = t
    BY <1>2, Overwritten
  <1> HIDE DEF g
  <1>4. /\ \A fallback : optionalPort(g, name, fallback) = {}
        /\ optionalSeconds(g, name, 86400, 1) = {}
    <2>1. \A n \in Number[t] : n \in Int
      BY <1>2, WrittenIsText, NumbersAreWhole
    <2>2. \A n \in Number[t] : ~(n >= 1)
      BY <1>1, <2>1
    <2>4. ASSUME NEW fallback, NEW k \in optionalPort(g, name, fallback) PROVE FALSE
      <3>1. k \in Number[t]
        BY <1>2, <1>3, <2>4, PortIsNumber
      <3>2. k >= 1
        BY <1>2, <1>3, <2>1, <2>4, <3>1, PortIsPositive
      <3> QED
        BY <2>2, <3>1, <3>2
    <2>5. optionalSeconds(g, name, 86400, 1) = {}
      BY <1>2, <1>3, <2>2 DEF optionalSeconds
    <2> QED
      BY <2>4, <2>5
  <1>5. ASSUME config \in Fields(g, f, lifetime) PROVE FALSE
    <2>1. /\ config.port \in optionalPort(g, "ARMADA_KERNEL_PORT", 2718)
          /\ config.agentPort \in optionalPort(g, "ARMADA_AGENT_PORT", 8718)
      BY <1>5 DEF Fields
    <2>2. CASE name = "ARMADA_KERNEL_MAX_LIFETIME_SECONDS"
      <3>1. config.maxLifetimeSeconds \in
              optionalSeconds(g, "ARMADA_KERNEL_MAX_LIFETIME_SECONDS", 86400, 1)
        BY <1>5, <2>2 DEF Fields
      <3> QED
        BY <1>4, <2>2, <3>1
    <2>3. CASE \E s \in SURFACES : s.variable = name
      <3>1. PICK s \in SURFACES : s.variable = name
        BY <2>3
      <3>2. config.surfacePorts \in readSurfacePorts(g)
        BY <1>5 DEF Fields
      <3>3. config.surfacePorts[s] \in optionalPort(g, s.variable, s.defaultPort)
        BY <3>1, <3>2 DEF readSurfacePorts
      <3> QED
        BY <1>4, <3>1, <3>3
    <2> QED
      BY <1>4, <2>1, <2>2, <2>3 DEF PositiveVariables
  <1> QED
    BY <1>2, <1>5, ReadAgain DEF Refusable, g

LEMMA RequiredCounts ==
  ASSUME NEW e \in Env, NEW f, NEW lifetime, NEW config,
         NEW name \in {"ARMADA_QUEUE", "ARMADA_AGENT_IMAGE"}
  PROVE  Refusable(e, f, lifetime, config, name)
  <1> DEFINE g == [e EXCEPT ![name] = ""]
  <1>2. name \in EnvVar /\ "" \in Choices[name]
    BY ChoicesAssumption DEF Writes, NonEmptyVariables
  <1>3. g[name] = ""
    BY <1>2 DEF Env
  <1> HIDE DEF g
  <1>4. required(g, name) = {}
    BY <1>3 DEF required
  <1>5. ASSUME config \in Fields(g, f, lifetime) PROVE FALSE
    <2>1. /\ config.queue \in required(g, "ARMADA_QUEUE")
          /\ config.agentImage \in required(g, "ARMADA_AGENT_IMAGE")
      BY <1>5 DEF Fields
    <2> QED
      BY <1>4, <2>1
  <1> QED
    BY <1>2, <1>5, ReadAgain DEF Refusable, g

(* Of two texts one is not the one there is. *)
LEMMA FreeCounts ==
  ASSUME NEW e \in Env, NEW f, NEW lifetime, NEW config, NEW name \in FreeVariables
  PROVE  Refusable(e, f, lifetime, config, name)
  <1>1. PICK u, v \in Writes(name) : u # v
    BY ChoicesAssumption
  <1> DEFINE value == CASE name = "ARMADA_NAMESPACE" -> config.namespace
                        [] name = "ARMADA_PRIORITY_CLASS" -> config.priorityClassName
                        [] OTHER -> config.sandboxHostname
  <1>2. PICK t \in Writes(name) : t # value
    <2> HIDE DEF value
    <2> QED
      BY <1>1
  <1> DEFINE g == [e EXCEPT ![name] = t]
  <1>3. name \in EnvVar /\ t \in Choices[name] /\ t # Unset
    BY ChoicesAssumption DEF Writes
  <1>4. g[name] = t
    BY <1>3, Overwritten
  <1> HIDE DEF g
  <1>5. ASSUME config \in Fields(g, f, lifetime) PROVE FALSE
    <2>1. CASE name = "ARMADA_NAMESPACE"
      BY <1>2, <1>3, <1>4, <1>5, <2>1 DEF Fields
    <2>2. CASE name = "ARMADA_PRIORITY_CLASS"
      BY <1>2, <1>3, <1>4, <1>5, <2>2 DEF Fields
    <2>3. CASE name = "MARIMOHUB_COMPUTE_SANDBOX_HOSTNAME"
      BY <1>2, <1>3, <1>4, <1>5, <2>3 DEF Fields
    <2> QED
      BY <2>1, <2>2, <2>3 DEF FreeVariables
  <1> QED
    BY <1>3, <1>5, ReadAgain DEF Refusable, g

(* What is set for an Ingress is accepted beside one only. *)
LEMMA IngressIsMeant ==
  ASSUME NEW e, NEW exposure \in readExposure(e), NEW name \in INGRESS_VARIABLES,
         e[name] # Unset
  PROVE  e["ARMADA_EXPOSE"] = "ingress" /\ e["ARMADA_EXPOSE"] # Unset
  BY DEF readExposure

LEMMA IngressCounts ==
  ASSUME NEW e \in Env, NEW f, NEW lifetime, NEW config \in readConfig(e, f, lifetime),
         NEW name \in INGRESS_VARIABLES, e[name] # Unset
  PROVE  Refusable(e, f, lifetime, config, name)
  <1>1. PICK t \in Writes(name) :
          /\ name = "ARMADA_INGRESS_TLS" => t \notin {"true", "false"}
          /\ name = "ARMADA_INGRESS_CERT_NAME" => Blank(t)
          /\ name = "ARMADA_INGRESS_ANNOTATIONS" => Json[t] = {}
    <2>1. CASE name = "ARMADA_INGRESS_TLS"
      BY <2>1, ChoicesAssumption
    <2>2. CASE name = "ARMADA_INGRESS_CERT_NAME"
      BY <2>2, ChoicesAssumption DEF NonBlankVariables
    <2>3. CASE name = "ARMADA_INGRESS_ANNOTATIONS"
      BY <2>3, ChoicesAssumption DEF MapVariables
    <2> QED
      BY <2>1, <2>2, <2>3 DEF INGRESS_VARIABLES
  <1> DEFINE g == [e EXCEPT ![name] = t]
  <1>2. name \in EnvVar /\ t \in Choices[name] /\ t # Unset
    BY ChoicesAssumption DEF Writes, INGRESS_VARIABLES, OtherVariables, NonBlankVariables, MapVariables
  <1>3. g[name] = t
    BY <1>2, Overwritten
  <1>4. g["ARMADA_EXPOSE"] = "ingress" /\ g["ARMADA_EXPOSE"] # Unset
    <2>1. "ARMADA_EXPOSE" \in EnvVar /\ "ARMADA_EXPOSE" # name
      BY ChoicesAssumption DEF OtherVariables, INGRESS_VARIABLES
    <2> QED
      BY <1>2, <2>1, ConfigFields, IngressIsMeant, Overwritten
  <1> HIDE DEF g
  <1>6. readExposure(g) = Ingress(g)
    BY <1>4 DEF readExposure
  <1>7. Ingress(g) = {}
    <2>1. CASE name = "ARMADA_INGRESS_TLS"
      BY <1>1, <1>2, <1>3, <2>1 DEF Ingress
    <2>2. CASE name = "ARMADA_INGRESS_CERT_NAME"
      BY <1>1, <1>2, <1>3, <2>2 DEF Ingress
    <2>3. CASE name = "ARMADA_INGRESS_ANNOTATIONS"
      BY <1>1, <1>2, <1>3, <2>3 DEF Ingress, readStringMap
    <2> QED
      BY <2>1, <2>2, <2>3 DEF INGRESS_VARIABLES
  <1>5. ASSUME config \in Fields(g, f, lifetime) PROVE FALSE
    <2>1. config.expose \in readExposure(g)
      BY <1>5 DEF Fields
    <2> QED
      BY <1>6, <1>7, <2>1
  <1> QED
    BY <1>2, <1>5, ReadAgain DEF Refusable, g

AuthVariables ==
  {"ARMADA_AUTH_USERNAME", "ARMADA_AUTH_PASSWORD", "ARMADA_AUTH_TOKEN", "ARMADA_AUTH_TOKEN_FILE"}

(* The variables of one mechanism are accepted without those of another. *)
LEMMA OneMechanism ==
  ASSUME NEW e, NEW f, NEW auth \in readAuth(e, f)
  PROVE  /\ e["ARMADA_AUTH_USERNAME"] # Unset \/ e["ARMADA_AUTH_PASSWORD"] # Unset =>
              e["ARMADA_AUTH_TOKEN"] = Unset /\ e["ARMADA_AUTH_TOKEN_FILE"] = Unset
         /\ e["ARMADA_AUTH_TOKEN"] # Unset =>
              /\ e["ARMADA_AUTH_USERNAME"] = Unset /\ e["ARMADA_AUTH_PASSWORD"] = Unset
              /\ e["ARMADA_AUTH_TOKEN_FILE"] = Unset
         /\ e["ARMADA_AUTH_TOKEN_FILE"] # Unset =>
              /\ e["ARMADA_AUTH_USERNAME"] = Unset /\ e["ARMADA_AUTH_PASSWORD"] = Unset
              /\ e["ARMADA_AUTH_TOKEN"] = Unset /\ auth.kind = "bearerFile"
  BY DEF readAuth

LEMMA AuthCounts ==
  ASSUME NEW e \in Env, NEW f, NEW lifetime, NEW config \in readConfig(e, f, lifetime),
         NEW name \in AuthVariables, e[name] # Unset
  PROVE  Refusable(e, f, lifetime, config, name)
  <1>1. PICK t \in Choices[name] :
          /\ name \in {"ARMADA_AUTH_USERNAME", "ARMADA_AUTH_PASSWORD"} => t = ""
          /\ name = "ARMADA_AUTH_TOKEN" => t # Unset /\ Trim[t] = ""
          /\ name = "ARMADA_AUTH_TOKEN_FILE" => t = Unset
    <2>1. CASE name \in {"ARMADA_AUTH_USERNAME", "ARMADA_AUTH_PASSWORD"}
      BY <2>1, ChoicesAssumption DEF NonEmptyVariables, Writes
    <2>2. CASE name = "ARMADA_AUTH_TOKEN"
      BY <2>2, ChoicesAssumption DEF NonBlankVariables, Writes, Blank
    <2>3. CASE name = "ARMADA_AUTH_TOKEN_FILE"
      BY <2>3, ChoicesAssumption
    <2> QED
      BY <2>1, <2>2, <2>3 DEF AuthVariables
  <1> DEFINE g == [e EXCEPT ![name] = t]
  <1>2. AuthVariables \subseteq EnvVar
    BY ChoicesAssumption DEF AuthVariables, NonEmptyVariables, NonBlankVariables, OtherVariables
  <1>3. g[name] = t /\ \A other \in AuthVariables : other # name => g[other] = e[other]
    BY <1>2, Overwritten
  <1> HIDE DEF g
  <1>4. config.auth \in readAuth(e, f)
    BY ConfigFields
  <1>5. ASSUME config \in Fields(g, f, lifetime) PROVE FALSE
    <2>1. config.auth \in readAuth(g, f)
      BY <1>5 DEF Fields
    <2>2. "" # Unset
      BY TextAssumption
    <2>3. CASE name = "ARMADA_AUTH_USERNAME"
      <3>1. /\ g["ARMADA_AUTH_USERNAME"] = ""
            /\ g["ARMADA_AUTH_TOKEN"] = Unset /\ g["ARMADA_AUTH_TOKEN_FILE"] = Unset
        BY <1>1, <1>3, <1>4, <2>3, OneMechanism DEF AuthVariables
      <3> QED
        BY <2>1, <2>2, <3>1 DEF readAuth, required
    <2>4. CASE name = "ARMADA_AUTH_PASSWORD"
      <3>1. /\ g["ARMADA_AUTH_PASSWORD"] = ""
            /\ g["ARMADA_AUTH_TOKEN"] = Unset /\ g["ARMADA_AUTH_TOKEN_FILE"] = Unset
        BY <1>1, <1>3, <1>4, <2>4, OneMechanism DEF AuthVariables
      <3> QED
        BY <2>1, <2>2, <3>1 DEF readAuth, required
    <2>5. CASE name = "ARMADA_AUTH_TOKEN"
      <3>1. /\ g["ARMADA_AUTH_TOKEN"] # Unset /\ Trim[g["ARMADA_AUTH_TOKEN"]] = ""
            /\ g["ARMADA_AUTH_USERNAME"] = Unset /\ g["ARMADA_AUTH_PASSWORD"] = Unset
            /\ g["ARMADA_AUTH_TOKEN_FILE"] = Unset
        BY <1>1, <1>3, <1>4, <2>5, OneMechanism DEF AuthVariables
      <3> QED
        BY <2>1, <3>1 DEF readAuth
    <2>6. CASE name = "ARMADA_AUTH_TOKEN_FILE"
      <3>1. \A other \in AuthVariables : g[other] = Unset
        BY <1>1, <1>3, <1>4, <2>6, OneMechanism DEF AuthVariables
      <3>2. readAuth(g, f) = [kind: {"anonymous"}]
        BY <3>1 DEF readAuth, AuthVariables
      <3> QED
        BY <1>4, <2>1, <2>6, <3>2, OneMechanism
    <2> QED
      BY <2>3, <2>4, <2>5, <2>6 DEF AuthVariables
  <1> QED
    BY <1>1, <1>5, ReadAgain DEF Refusable, g

LEMMA SettingCounts ==
  ASSUME NEW e \in Env, NEW f, NEW lifetime, NEW config \in readConfig(e, f, lifetime),
         NEW name \in EnvVar \ PROFILE_VARIABLES, e[name] # Unset,
         name = "ARMADA_KERNEL_MAX_LIFETIME_SECONDS" => lifetime = Unset,
         \A s \in SURFACES : s.variable = name => s \in DOMAIN config.surfacePorts
  PROVE  Refusable(e, f, lifetime, config, name)
  <1>1. CASE name \in UrlVariables
    BY <1>1, UrlCounts
  <1>2. CASE name \in PositiveVariables
    BY <1>2, PositiveCounts
  <1>3. CASE name \in NaturalVariables
    BY <1>3, NaturalCounts
  <1>4. CASE name \in {"ARMADA_QUEUE_BY_USER", "ARMADA_QUEUE_BY_PROJECT"}
    BY <1>4, MapCounts
  <1>5. CASE name \in MetadataVariables
    BY <1>5, MetadataCounts
  <1>6. CASE name \in {"ARMADA_QUEUE", "ARMADA_AGENT_IMAGE"}
    BY <1>6, RequiredCounts
  <1>7. CASE name \in FreeVariables
    BY <1>7, FreeCounts
  <1>8. CASE name \in INGRESS_VARIABLES
    BY <1>8, IngressCounts
  <1>9. CASE name \in AuthVariables
    BY <1>9, AuthCounts
  <1>10. CASE name \in OtherVariables \ (INGRESS_VARIABLES \cup AuthVariables)
    <2>1. \/ name = "ARMADA_AGENT_TOKEN_SECRET" \/ name = "ARMADA_EXPOSE"
          \/ name = "ARMADA_IMAGE_PULL_SECRETS" \/ name = "MARIMOHUB_COMPUTE_IMAGE"
          \/ name = "MARIMOHUB_SURFACES" \/ name = GPU_SELECTORS
      BY <1>10 DEF OtherVariables, INGRESS_VARIABLES, AuthVariables
    <2> QED
      BY <2>1, SecretCounts, ExposeCounts, PullSecretsCount, ImageCounts, SurfacesCount,
         SelectorsCount
  <1>11. \/ name \in UrlVariables \cup PositiveVariables \cup NaturalVariables
         \/ name \in MetadataVariables \cup FreeVariables \cup OtherVariables
         \/ name \in MapVariables \cup NonEmptyVariables \cup NonBlankVariables
    BY ChoicesAssumption
  <1> QED
    BY <1>1, <1>2, <1>3, <1>4, <1>5, <1>6, <1>7, <1>8, <1>9, <1>10, <1>11
    DEF MapVariables, NonEmptyVariables, NonBlankVariables, INGRESS_VARIABLES, AuthVariables

(* For any texts, settings and restarts: in a configuration that was accepted   *)
(* no variable that is set is ignored.  With another text there it would have   *)
(* been refused, or read differently; what is written for an Ingress or for a   *)
(* second way to authenticate never lies idle (config.ts:305-326, 243-267).     *)
THEOREM SettingsCount == Spec => []EverySettingCounts
  <1>1. Started => EverySettingCounts
    <2> SUFFICES ASSUME ReadConfig, NEW name \in EnvVar \ PROFILE_VARIABLES,
                        hub.env[name] # Unset,
                        name = "ARMADA_KERNEL_MAX_LIFETIME_SECONDS" => hub.lifetime = Unset,
                        \A s \in SURFACES :
                          s.variable = name => s \in DOMAIN hub.config.surfacePorts
                 PROVE  Refusable(hub.env, hub.file, hub.lifetime, hub.config, name)
      BY Zenon DEF EverySettingCounts, Refusable, Started
    <2> QED
      BY SettingCounts DEF ReadConfig
  <1> QED
    BY <1>1, StartsAreRead, PTL
=============================================================================
