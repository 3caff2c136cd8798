------------------------------ MODULE Settings ------------------------------
(***************************************************************************)
(* The adapter's settings: readConfig and the readers under it               *)
(* (src/src/config.ts), from marimohub's environment to an ArmadaConfig.     *)
(*                                                                           *)
(* A reader gives the set of the values it may return: one value, or none    *)
(* when it throws.  The configuration is then the product of its fields, and *)
(* a single reader that throws leaves none.                                  *)
(*                                                                           *)
(* A text is a string, and what the language and Kubernetes make of one is a *)
(* constant: the number it denotes (Number('') is 0), its trimmed form, its  *)
(* comma-separated items, the object its JSON holds.                         *)
(***************************************************************************)
EXTENDS Integers, Sequences

CONSTANTS
  Text,
  Unset,          \* a variable that is not there; also a field left undefined
  Trim, Upper,    \* text -> text
  Length,         \* text -> its length
  Number,         \* text -> the whole number it denotes, or nothing
  Items,          \* text -> its comma-separated items, each trimmed
  Urls,           \* texts that are http(s) URLs
  Json,           \* text -> the object of strings it holds, or nothing
  JsonEntries,    \* text -> the object of objects it holds, as entries in order, or nothing
  Selector,       \* non-empty objects of node label to value
  ProfileGpus,    \* a profile list -> the gpu values in it
  GpuParts,       \* a gpu value -> what stands before and after its colon
  QualifiedName,  \* keys Kubernetes takes
  LabelValue,     \* non-empty label values Kubernetes takes
  ReservedKey,    \* keys of Armada's, and the mark
  EnvVar          \* the variables that are read

SANDBOX_MARK == "marimohub/sandbox"
FAIL_FAST == "armadaproject.io/failFast"

ASSUME TextAssumption ==
  /\ Unset \notin Text /\ "" \in Text
  /\ Trim \in [Text -> Text] /\ Upper \in [Text -> Text] /\ Length \in [Text -> Nat]
  /\ Number \in [Text -> SUBSET Int] /\ Urls \subseteq Text
  /\ \A t \in Text : \A m, n \in Number[t] : m = n
  /\ \A t \in Text : Trim[t] = "" => Number[t] = {0}
  /\ \A t \in Text : \A m, n \in Json[t] : m = n
  /\ {SANDBOX_MARK, FAIL_FAST} \subseteq ReservedKey

-----------------------------------------------------------------------------
(* One variable. *)

Blank(t) == Trim[t] = ""

required(env, name) == {env[name]} \ {Unset, ""}

MIN_TOKEN_SECRET_LENGTH == 32

readTokenSecret(env) ==
  {s \in required(env, "ARMADA_AGENT_TOKEN_SECRET") : Length[s] >= MIN_TOKEN_SECRET_LENGTH}

requiredUrl(env, name) == required(env, name) \cap Urls

optionalUrl(env, name) == IF env[name] = Unset THEN {Unset} ELSE requiredUrl(env, name)

MAX_PORT == 65535

optionalPort(env, name, fallback) ==
  IF env[name] = Unset THEN {fallback}
  ELSE {n \in Number[env[name]] : 1 <= n /\ n <= MAX_PORT}

optionalSeconds(env, name, fallback, least) ==
  IF env[name] = Unset THEN {fallback} ELSE {n \in Number[env[name]] : n >= least}

(* A blank id is refused: as a number it would be root's. *)
optionalId(env, name) ==
  IF env[name] = Unset THEN {Unset}
  ELSE {n \in Number[env[name]] : n >= 0 /\ ~Blank(env[name])}

(* The items of a list that are not empty. *)
Named(t) == {Items[t][i] : i \in DOMAIN Items[t]} \ {""}

readImage(env) ==
  IF env["MARIMOHUB_COMPUTE_IMAGE"] = Unset THEN {"DEFAULT_IMAGE"}
  ELSE {Items[env["MARIMOHUB_COMPUTE_IMAGE"]][1]} \ {""}

readImagePullSecrets(env) ==
  IF env["ARMADA_IMAGE_PULL_SECRETS"] = Unset THEN {{}}
  ELSE {Named(env["ARMADA_IMAGE_PULL_SECRETS"])} \ {{}}

-----------------------------------------------------------------------------
(* Maps. *)

NoMap == << >>

(* An object of strings, of non-empty ones unless allowEmpty. *)
readStringMap(env, name, allowEmpty) ==
  IF env[name] = Unset THEN {NoMap}
  ELSE {m \in Json[env[name]] :
          \A key \in DOMAIN m : m[key] \in Text /\ (allowEmpty \/ ~Blank(m[key]))}

isQualifiedName(key) == key \in QualifiedName

isReservedKey(key) == key \in ReservedKey

readPodMetadata(env, name, kind) ==
  {m \in readStringMap(env, name, TRUE) :
     \A key \in DOMAIN m :
       /\ isQualifiedName(key) /\ ~isReservedKey(key)
       /\ kind = "label" => m[key] \in LabelValue \cup {""}}

GPU_SELECTORS == "ARMADA_GPU_NODE_SELECTORS"

(* Types that differ in case only are one, and the last of them is kept. *)
Selectors(entries) ==
  LET type(i) == Upper[entries[i].type]
      last(t) == CHOOSE i \in DOMAIN entries :
                   type(i) = t /\ \A j \in DOMAIN entries : type(j) = t => j <= i
  IN  [t \in {type(i) : i \in DOMAIN entries} |-> entries[last(t)].selector]

readGpuNodeSelectors(env) ==
  IF env[GPU_SELECTORS] = Unset THEN {NoMap}
  ELSE {Selectors(entries) : entries \in
          {es \in JsonEntries[env[GPU_SELECTORS]] :
             es # << >> /\ \A i \in DOMAIN es : es[i].selector \in Selector}}

PROFILE_VARIABLES == {"MARIMOHUB_COMPUTE_PROFILES", "MARIMOHUB_COMPUTE_APP_PROFILES"}

(* The types of the gpu values in a list. *)
profileGpuTypes(profiles) ==
  IF profiles = Unset THEN {}
  ELSE {Upper[Trim[GpuParts[gpu].type]] : gpu \in ProfileGpus[profiles]} \ {""}

(* The entries of an object have an order; and marimohub checks a profile list  *)
(* in full (config.ts:516-521), so a gpu value it passes on has a type, trimmed. *)
ASSUME GpuAssumption ==
  /\ {GPU_SELECTORS} \cup PROFILE_VARIABLES \subseteq EnvVar
  /\ \A t \in Text : \A entries \in JsonEntries[t] :
       Len(entries) \in Nat /\ DOMAIN entries = 1..Len(entries)
  /\ \A t \in Text : \A gpu \in ProfileGpus[t] :
       gpu # "" => /\ Trim[GpuParts[gpu].type] = GpuParts[gpu].type
                   /\ Upper[GpuParts[gpu].type] # ""

-----------------------------------------------------------------------------
(* Surfaces. *)

SURFACES ==
  {[id |-> "vscode", variable |-> "MARIMOHUB_SURFACE_VSCODE_PORT", defaultPort |-> 8443],
   [id |-> "opencode", variable |-> "MARIMOHUB_SURFACE_OPENCODE_PORT", defaultPort |-> 4096]}
PRIMARY_SURFACE == "marimo"

ASSUME PortVariablesRead ==
  {"ARMADA_KERNEL_PORT", "ARMADA_AGENT_PORT"} \cup {s.variable : s \in SURFACES} \subseteq EnvVar

(* The port of each surface that is enabled; an unknown surface is refused. *)
readSurfacePorts(env) ==
  LET enabled == IF env["MARIMOHUB_SURFACES"] = Unset THEN {PRIMARY_SURFACE}
                 ELSE Named(env["MARIMOHUB_SURFACES"])
      on == {s \in SURFACES : s.id \in enabled}
      port(s) == optionalPort(env, s.variable, s.defaultPort)
  IN  {ports \in [on -> UNION {port(s) : s \in on}] :
         /\ enabled \subseteq {PRIMARY_SURFACE} \cup {s.id : s \in SURFACES}
         /\ \A s \in on : ports[s] \in port(s)}

-----------------------------------------------------------------------------
(* Exposure and credentials. *)

INGRESS_VARIABLES ==
  {"ARMADA_INGRESS_TLS", "ARMADA_INGRESS_CERT_NAME", "ARMADA_INGRESS_ANNOTATIONS"}

Ingress(env) ==
  LET tls == IF env["ARMADA_INGRESS_TLS"] = Unset THEN "true" ELSE env["ARMADA_INGRESS_TLS"]
      certName == env["ARMADA_INGRESS_CERT_NAME"]
  IN  [kind: {"ingress"},
       tls: {flag \in BOOLEAN : tls = IF flag THEN "true" ELSE "false"},
       certName: {name \in {certName} : name = Unset \/ ~Blank(name)},
       annotations: readStringMap(env, "ARMADA_INGRESS_ANNOTATIONS", FALSE)]

(* Mutant: what is set for an Ingress is not looked at beside a NodePort. *)
readExposure_Ignores(env) ==
  IF env["ARMADA_EXPOSE"] = Unset \/ env["ARMADA_EXPOSE"] = "nodeport" THEN [kind: {"nodeport"}]
  ELSE IF env["ARMADA_EXPOSE"] = "ingress" THEN Ingress(env)
  ELSE {}

readExposure(env) ==
  IF env["ARMADA_EXPOSE"] = Unset \/ env["ARMADA_EXPOSE"] = "nodeport"
  THEN IF \E name \in INGRESS_VARIABLES : env[name] # Unset THEN {} ELSE [kind: {"nodeport"}]
  ELSE IF env["ARMADA_EXPOSE"] = "ingress" THEN Ingress(env)
  ELSE {}

(* At most one mechanism; a token file is read once, to refuse a bad one.  A    *)
(* file that cannot be read holds Unset.                                        *)
readAuth(env, file) ==
  LET basic == env["ARMADA_AUTH_USERNAME"] # Unset \/ env["ARMADA_AUTH_PASSWORD"] # Unset
      token == env["ARMADA_AUTH_TOKEN"]
      tokenFile == env["ARMADA_AUTH_TOKEN_FILE"]
  IN  IF basic /\ token = Unset /\ tokenFile = Unset
      THEN [kind: {"basic"}, username: required(env, "ARMADA_AUTH_USERNAME"),
            password: required(env, "ARMADA_AUTH_PASSWORD")]
      ELSE IF ~basic /\ token # Unset /\ tokenFile = Unset
      THEN [kind: {"bearer"}, token: {Trim[token]} \ {""}]
      ELSE IF ~basic /\ token = Unset /\ tokenFile # Unset
      THEN [kind: {"bearerFile"}, path: {t \in {tokenFile} : file # Unset /\ ~Blank(file)}]
      ELSE IF ~basic /\ token = Unset /\ tokenFile = Unset
      THEN [kind: {"anonymous"}]
      ELSE {}

-----------------------------------------------------------------------------
(* The whole. *)

Values(m) == {m[key] : key \in DOMAIN m}

(* Each of its fields as read; lifetime is marimohub's own, if it gives one. *)
Fields(env, file, lifetime) ==
  [url: requiredUrl(env, "ARMADA_URL"),
   expose: readExposure(env),
   queue: required(env, "ARMADA_QUEUE"),
   queueByUser: readStringMap(env, "ARMADA_QUEUE_BY_USER", FALSE),
   queueByProject: readStringMap(env, "ARMADA_QUEUE_BY_PROJECT", FALSE),
   namespace: {IF env["ARMADA_NAMESPACE"] = Unset THEN "default" ELSE env["ARMADA_NAMESPACE"]},
   priorityClassName: {env["ARMADA_PRIORITY_CLASS"]},
   image: readImage(env),
   sandboxHostname: {env["MARIMOHUB_COMPUTE_SANDBOX_HOSTNAME"]},
   port: optionalPort(env, "ARMADA_KERNEL_PORT", 2718),
   agentImage: required(env, "ARMADA_AGENT_IMAGE"),
   agentPort: optionalPort(env, "ARMADA_AGENT_PORT", 8718),
   agentTokenSecret: readTokenSecret(env),
   imagePullSecrets: readImagePullSecrets(env),
   runAsUser: optionalId(env, "ARMADA_RUN_AS_USER"),
   runAsGroup: optionalId(env, "ARMADA_RUN_AS_GROUP"),
   fsGroup: optionalId(env, "ARMADA_FS_GROUP"),
   surfacePorts: readSurfacePorts(env),
   gpuNodeSelectors: readGpuNodeSelectors(env),
   podLabels: readPodMetadata(env, "ARMADA_POD_LABELS", "label"),
   podAnnotations: readPodMetadata(env, "ARMADA_POD_ANNOTATIONS", "annotation"),
   lookoutUrl: optionalUrl(env, "ARMADA_LOOKOUT_URL"),
   maxLifetimeSeconds: IF lifetime # Unset THEN {lifetime}
                       ELSE optionalSeconds(env, "ARMADA_KERNEL_MAX_LIFETIME_SECONDS", 86400, 1),
   commandMaxSeconds: optionalSeconds(env, "ARMADA_COMMAND_MAX_SECONDS", 21600, 0),
   auth: readAuth(env, file)]

(* What no reader of one variable can see. *)
PortsApart(config) ==
  /\ config.agentPort # config.port
  /\ Values(config.surfacePorts) \cap {config.agentPort, config.port} = {}

GpuProfilesMapped(env, config) ==
  config.gpuNodeSelectors # NoMap =>
    \A name \in PROFILE_VARIABLES :
      profileGpuTypes(env[name]) \subseteq DOMAIN config.gpuNodeSelectors

QueuesPlaceable(config) ==
  config.lookoutUrl = Unset =>
    Values(config.queueByUser) \cup Values(config.queueByProject) \subseteq {config.queue}

(* Mutant: the profiles of apps are forgotten. *)
readConfig_EditingProfilesOnly(env, file, lifetime) ==
  {config \in Fields(env, file, lifetime) :
     /\ PortsApart(config) /\ QueuesPlaceable(config)
     /\ config.gpuNodeSelectors # NoMap =>
          profileGpuTypes(env["MARIMOHUB_COMPUTE_PROFILES"])
            \subseteq DOMAIN config.gpuNodeSelectors}

readConfig(env, file, lifetime) ==
  {config \in Fields(env, file, lifetime) :
     PortsApart(config) /\ GpuProfilesMapped(env, config) /\ QueuesPlaceable(config)}

-----------------------------------------------------------------------------
(* auth.ts: what a request to Armada or Lookout says of its sender.  Nothing,  *)
(* not even a request, when the token file holds none.                         *)

(* Mutant: a file that is empty for a moment is sent as it is. *)
authorizationHeader_SendsBlank(auth, file) ==
  CASE auth.kind = "anonymous" -> {[scheme |-> "none"]}
    [] auth.kind = "basic" ->
         {[scheme |-> "Basic", username |-> auth.username, password |-> auth.password]}
    [] auth.kind = "bearer" -> {[scheme |-> "Bearer", token |-> auth.token]}
    [] auth.kind = "bearerFile" ->
         [scheme: {"Bearer"}, token: IF file = Unset THEN {} ELSE {Trim[file]}]

authorizationHeader(auth, file) ==
  CASE auth.kind = "anonymous" -> {[scheme |-> "none"]}
    [] auth.kind = "basic" ->
         {[scheme |-> "Basic", username |-> auth.username, password |-> auth.password]}
    [] auth.kind = "bearer" -> {[scheme |-> "Bearer", token |-> auth.token]}
    [] auth.kind = "bearerFile" ->
         [scheme: {"Bearer"}, token: IF file = Unset THEN {} ELSE {Trim[file]} \ {""}]
=============================================================================
