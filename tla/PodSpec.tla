------------------------------ MODULE PodSpec -------------------------------
(***************************************************************************)
(* The pod a sandbox asks for (src/src/podspec.ts) and the job it is wrapped *)
(* in (src/src/armada.ts submit), from the configuration of the process that *)
(* submits.  As in Settings, what may throw gives a set of one or none.      *)
(* What is the same in every pod (names, volumes, the install container's    *)
(* command and its resources) is left out.                                   *)
(***************************************************************************)
EXTENDS Settings

CONSTANTS
  Mi, Gi  \* bytes of a mebibyte and of a gibibyte

ASSUME UnitAssumption == Mi \in Nat \ {0} /\ Gi \in Nat \ {0} /\ Gi % Mi = 0

(* The largest unit of which the bytes are a whole number; a fraction of a byte *)
(* is rounded up in the code and not modelled.                                  *)
memoryQuantity(bytes) ==
  IF bytes % Gi = 0 THEN [n |-> bytes \div Gi, unit |-> "Gi"]
  ELSE IF bytes % Mi = 0 THEN [n |-> bytes \div Mi, unit |-> "Mi"]
  ELSE [n |-> bytes, unit |-> ""]

(* A gpu value: its type, upper-cased, and its count, one unless it says so. *)
parseGpu(gpu) ==
  [type |-> Upper[GpuParts[gpu].type],
   count |-> IF GpuParts[gpu].count = Unset THEN "1" ELSE GpuParts[gpu].count]

Asks(gpu) == gpu \notin {Unset, ""}

(* Requests and limits alike. *)
quantities(resources) ==
  [cpu |-> IF resources.cpu = Unset THEN "1" ELSE resources.cpu,
   memory |-> IF resources.memoryBytes = Unset THEN [n |-> 2, unit |-> "Gi"]
              ELSE memoryQuantity(resources.memoryBytes),
   gpu |-> IF Asks(resources.gpu) THEN parseGpu(resources.gpu).count ELSE Unset]

(* Where a GPU of that type is; a type that is not mapped has no pod. *)
gpuNodeSelector(config, resources) ==
  IF ~Asks(resources.gpu) THEN {Unset}
  ELSE {config.gpuNodeSelectors[type] :
          type \in {parseGpu(resources.gpu).type} \cap DOMAIN config.gpuNodeSelectors}

(* The ids that are configured; none at all is no context. *)
securityContext(config) ==
  LET ids == [runAsUser |-> config.runAsUser, runAsGroup |-> config.runAsGroup,
              fsGroup |-> config.fsGroup]
      given == {name \in DOMAIN ids : ids[name] # Unset}
  IN  IF given = {} THEN Unset ELSE [name \in given |-> ids[name]]

(* The kernel's, the agent's and each surface's. *)
declaredPorts(config) == {config.port, config.agentPort} \cup Values(config.surfacePorts)

(* options.image is Unset unless marimohub chose one. *)
buildPodSpec(config, tokenSha256, options) ==
  [activeDeadlineSeconds: {config.maxLifetimeSeconds},
   priorityClassName: {config.priorityClassName},
   nodeSelector: gpuNodeSelector(config, options.resources),
   imagePullSecrets: {config.imagePullSecrets},
   securityContext: {securityContext(config)},
   agentImage: {config.agentImage},
   image: {IF options.image = Unset THEN config.image ELSE options.image},
   agentPort: {config.agentPort},
   tokenSha256: {tokenSha256},
   ports: {declaredPorts(config)},
   resources: {quantities(options.resources)}]

(* Every port the pod declares is one the service or Ingress exposes. *)
exposedPorts(pod) == pod.ports

-----------------------------------------------------------------------------
(* armada.ts *)

(* The operator's annotations, with the adapter's own over them. *)
Annotations(config) ==
  [key \in DOMAIN config.podAnnotations \cup {FAIL_FAST, SANDBOX_MARK} |->
     IF key = FAIL_FAST THEN "true"
     ELSE IF key = SANDBOX_MARK THEN config.queue
     ELSE config.podAnnotations[key]]

(* What submit sends for a pod. *)
jobRequest(config, pod) ==
  [namespace |-> config.namespace, labels |-> config.podLabels,
   annotations |-> Annotations(config), pod |-> pod,
   ports |-> exposedPorts(pod), expose |-> config.expose]

Scheme(expose) == IF expose.kind = "ingress" /\ expose.tls THEN "https" ELSE "http"

(* The address event carries one address for each port of the job; an Ingress   *)
(* hostname or a node's, without a scheme.                                      *)
ingressAddress(job, port) == IF port \in job.ports THEN {port} ELSE {}

(* The scheme is that of the process that asks. *)
portUrl(config, job, port) ==
  {[scheme |-> Scheme(config.expose), address |-> address] :
     address \in ingressAddress(job, port)}

(* sandbox.ts: the token of a sandbox's agent, an HMAC of its id. *)
agentToken(secret, sandbox) == <<"hmac", secret, sandbox>>

(* The pod carries the token's hash alone. *)
sha256(token) == <<"sha256", token>>

(* provider.ts: what marimohub is told it may ask for. *)
capabilities(config) ==
  [multiPort |-> config.surfacePorts # NoMap,
   computeProfiles |-> TRUE,
   gpuProfiles |-> config.gpuNodeSelectors # NoMap,
   listActive |-> config.lookoutUrl # Unset]
=============================================================================
