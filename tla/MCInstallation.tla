--------------------------- MODULE MCInstallation ---------------------------
(* Texts an operator may write, what each denotes, and the installations to   *)
(* begin with: one with the required variables only, one behind an Ingress    *)
(* with a token file, and one on NodePorts that shares its queues.  A JSON    *)
(* text is named for what it holds.                                           *)
EXTENDS Installation, TLC

Absent == [name \in EnvVar |-> Unset]

MCMinimal ==
  "ARMADA_URL" :> "http://armada" @@ "ARMADA_QUEUE" :> "q0" @@
  "ARMADA_AGENT_IMAGE" :> "agent" @@ "ARMADA_AGENT_TOKEN_SECRET" :> "secret64" @@ Absent

MCFull ==
  "ARMADA_EXPOSE" :> "ingress" @@ "ARMADA_INGRESS_TLS" :> "true" @@
  "ARMADA_INGRESS_CERT_NAME" :> "cert" @@ "ARMADA_INGRESS_ANNOTATIONS" :> "{team:x}" @@
  "ARMADA_AUTH_TOKEN_FILE" :> "file" @@ "ARMADA_LOOKOUT_URL" :> "http://lookout" @@
  "ARMADA_QUEUE_BY_USER" :> "{u1:q1}" @@ "MARIMOHUB_SURFACES" :> "vscode,opencode" @@
  "MARIMOHUB_SURFACE_VSCODE_PORT" :> "9000" @@ "ARMADA_GPU_NODE_SELECTORS" :> "{a100:A,A100:B}" @@
  "MARIMOHUB_COMPUTE_PROFILES" :> "gpu=a100:2" @@ "ARMADA_POD_ANNOTATIONS" :> "{team:x}" @@
  "ARMADA_COMMAND_MAX_SECONDS" :> "60" @@ "ARMADA_KERNEL_MAX_LIFETIME_SECONDS" :> "60" @@
  MCMinimal

MCShared ==
  "ARMADA_AUTH_USERNAME" :> "x" @@ "ARMADA_AUTH_PASSWORD" :> "x" @@
  "ARMADA_LOOKOUT_URL" :> "http://lookout" @@ "ARMADA_QUEUE_BY_PROJECT" :> "{u1:q1}" @@
  "MARIMOHUB_SURFACES" :> "marimo,vscode" @@ "ARMADA_RUN_AS_USER" :> "0" @@
  "MARIMOHUB_COMPUTE_APP_PROFILES" :> "gpu=H100" @@ "ARMADA_POD_LABELS" :> "{team:}" @@
  "ARMADA_IMAGE_PULL_SECRETS" :> "reg, ," @@ "MARIMOHUB_COMPUTE_IMAGE" :> "img, old" @@
  MCMinimal

MCBases == {MCMinimal, MCFull, MCShared}

Url == {Unset, "", "http://armada", "http://lookout", "?"}
Port == {Unset, " ", "2718", "4096", "9000", "0"}
Id == {Unset, "", "0", "60", "-1"}
Map == {Unset, "{u1:q1}", "{u1:q0}", "{u1: }", "?"}
Metadata == {Unset, "{team:x}", "{team:}", "{team:a b}", "{mark:q1}", "{bad key:x}"}
Profiles == {Unset, "gpu=a100:2", "gpu=H100"}
Free == {Unset, "", "x"}

MCChoices ==
  "ARMADA_URL" :> Url @@ "ARMADA_LOOKOUT_URL" :> Url @@
  "ARMADA_KERNEL_PORT" :> Port @@ "ARMADA_AGENT_PORT" :> Port @@
  "MARIMOHUB_SURFACE_VSCODE_PORT" :> Port @@ "MARIMOHUB_SURFACE_OPENCODE_PORT" :> Port @@
  "ARMADA_RUN_AS_USER" :> Id @@ "ARMADA_RUN_AS_GROUP" :> Id @@ "ARMADA_FS_GROUP" :> Id @@
  "ARMADA_QUEUE_BY_USER" :> Map @@ "ARMADA_QUEUE_BY_PROJECT" :> Map @@
  "ARMADA_POD_LABELS" :> Metadata @@ "ARMADA_POD_ANNOTATIONS" :> Metadata @@
  "MARIMOHUB_COMPUTE_PROFILES" :> Profiles @@ "MARIMOHUB_COMPUTE_APP_PROFILES" :> Profiles @@
  "ARMADA_QUEUE" :> {"q0", "q1", "q2", ""} @@
  "ARMADA_AGENT_TOKEN_SECRET" :> {"secret64", "other64", "short"} @@
  "ARMADA_IMAGE_PULL_SECRETS" :> {Unset, "reg, ,", ",", ""} @@
  "ARMADA_EXPOSE" :> {Unset, "nodeport", "ingress", "?"} @@
  "ARMADA_INGRESS_TLS" :> {Unset, "true", "false", "?"} @@
  "ARMADA_INGRESS_CERT_NAME" :> {Unset, "cert", " "} @@
  "ARMADA_INGRESS_ANNOTATIONS" :> {Unset, "{team:x}", "{team:}", "?"} @@
  "ARMADA_AUTH_USERNAME" :> Free @@ "ARMADA_AUTH_PASSWORD" :> Free @@
  "ARMADA_AUTH_TOKEN" :> {Unset, " ", " t1 "} @@ "ARMADA_AUTH_TOKEN_FILE" :> {Unset, "file"} @@
  "ARMADA_GPU_NODE_SELECTORS" :> {Unset, "{a100:A,A100:B}", "{a100:bad}", "{}", "?"} @@
  "ARMADA_KERNEL_MAX_LIFETIME_SECONDS" :> {Unset, "60", "0", ""} @@
  "ARMADA_COMMAND_MAX_SECONDS" :> {Unset, "60", "-1", ""} @@
  "MARIMOHUB_COMPUTE_IMAGE" :> {Unset, "img, old", ",img", ""} @@
  "MARIMOHUB_SURFACES" :> {Unset, "marimo", "vscode,opencode", "zed", ","} @@
  [name \in EnvVar |-> Free]

MCEnvVar ==
  {"ARMADA_URL", "ARMADA_LOOKOUT_URL", "ARMADA_KERNEL_PORT", "ARMADA_AGENT_PORT",
   "MARIMOHUB_SURFACE_VSCODE_PORT", "MARIMOHUB_SURFACE_OPENCODE_PORT", "ARMADA_RUN_AS_USER",
   "ARMADA_RUN_AS_GROUP", "ARMADA_FS_GROUP", "ARMADA_QUEUE_BY_USER", "ARMADA_QUEUE_BY_PROJECT",
   "ARMADA_POD_LABELS", "ARMADA_POD_ANNOTATIONS", "MARIMOHUB_COMPUTE_PROFILES",
   "MARIMOHUB_COMPUTE_APP_PROFILES", "ARMADA_QUEUE", "ARMADA_AGENT_TOKEN_SECRET",
   "ARMADA_IMAGE_PULL_SECRETS", "ARMADA_EXPOSE", "ARMADA_INGRESS_TLS", "ARMADA_INGRESS_CERT_NAME",
   "ARMADA_INGRESS_ANNOTATIONS", "ARMADA_AUTH_USERNAME", "ARMADA_AUTH_PASSWORD",
   "ARMADA_AUTH_TOKEN", "ARMADA_AUTH_TOKEN_FILE", "ARMADA_GPU_NODE_SELECTORS",
   "ARMADA_KERNEL_MAX_LIFETIME_SECONDS", "ARMADA_COMMAND_MAX_SECONDS", "MARIMOHUB_COMPUTE_IMAGE",
   "MARIMOHUB_SURFACES", "ARMADA_NAMESPACE", "ARMADA_PRIORITY_CLASS", "ARMADA_AGENT_IMAGE",
   "MARIMOHUB_COMPUTE_SANDBOX_HOSTNAME"}

MCTokenFiles == {Unset, " ", "t1", " t2 "}

MCText ==
  (UNION {MCChoices[name] : name \in EnvVar}
     \cup {base[name] : base \in MCBases, name \in EnvVar} \cup MCTokenFiles
     \cup {"a100", "A100", "H100", "t2", "a b"})
  \ {Unset}

-----------------------------------------------------------------------------
(* What a text denotes. *)
MCTrim == [t \in MCText |-> CASE t = " " -> "" [] t = " t1 " -> "t1" [] t = " t2 " -> "t2" [] OTHER -> t]
MCUpper == [t \in MCText |-> IF t = "a100" THEN "A100" ELSE t]
MCLength == [t \in MCText |-> IF t \in {"secret64", "other64"} THEN 64 ELSE 5]
MCUrls == {"http://armada", "http://lookout"}

Numerals ==
  "2718" :> 2718 @@ "4096" :> 4096 @@ "9000" :> 9000 @@ "0" :> 0 @@ "60" :> 60 @@
  "-1" :> -1 @@ "" :> 0 @@ " " :> 0
MCNumber == [t \in MCText |-> IF t \in DOMAIN Numerals THEN {Numerals[t]} ELSE {}]

Lists ==
  "img, old" :> <<"img", "old">> @@ ",img" :> <<"", "img">> @@ "reg, ," :> <<"reg", "", "">> @@
  "," :> <<"", "">> @@ "marimo,vscode" :> <<"marimo", "vscode">> @@
  "vscode,opencode" :> <<"vscode", "opencode">>
MCItems == [t \in MCText |-> IF t \in DOMAIN Lists THEN Lists[t] ELSE <<t>>]

Objects ==
  "{u1:q1}" :> ("u1" :> "q1") @@ "{u1:q0}" :> ("u1" :> "q0") @@ "{u1: }" :> ("u1" :> " ") @@
  "{team:x}" :> ("team" :> "x") @@ "{team:}" :> ("team" :> "") @@ "{team:a b}" :> ("team" :> "a b") @@
  "{mark:q1}" :> (SANDBOX_MARK :> "q1") @@ "{bad key:x}" :> ("bad key" :> "x") @@ "{}" :> << >>
MCJson == [t \in MCText |-> IF t \in DOMAIN Objects THEN {Objects[t]} ELSE {}]

MCSelector == {"A", "B"}
Entries ==
  "{a100:A,A100:B}" :> <<[type |-> "a100", selector |-> "A"], [type |-> "A100", selector |-> "B"]>> @@
  "{a100:bad}" :> <<[type |-> "a100", selector |-> "bad"]>> @@ "{}" :> << >>
MCJsonEntries == [t \in MCText |-> IF t \in DOMAIN Entries THEN {Entries[t]} ELSE {}]

MCProfileGpus ==
  [t \in MCText |-> CASE t = "gpu=a100:2" -> {"a100:2"} [] t = "gpu=H100" -> {"H100"} [] OTHER -> {}]
MCGpuParts ==
  "a100:2" :> [type |-> "a100", count |-> "2"] @@ "H100" :> [type |-> "H100", count |-> Unset]

MCQualifiedName == {"team", SANDBOX_MARK}
MCLabelValue == {"x"}
MCReservedKey == {SANDBOX_MARK, FAIL_FAST}

-----------------------------------------------------------------------------
MCShows == "http://lookout" :> "http://armada" @@ "http://armada" :> "http://lookout"
MCOwners == {Unset, [user |-> "u1", project |-> "u1"]}
MCLifetimes == {Unset, 7200}
MCImages == {Unset}
MCMemory == {Unset, 5, 8, 32}
MCOwnEnvs == {NoVars, "K" :> "image"}
MCVarSets == {"K" :> "x", "K" :> "", "K" :> "y" @@ "J" :> "x", "K" :> "x" @@ "1BAD" :> "x"}

(* A behaviour is about the settings or about the environment of commands,      *)
(* which share nothing but the job: a job with an environment of its own is not *)
(* followed over changes, and a sandbox that was told something is used until   *)
(* its process ends.  Of a process that marimohub gave a lifetime, and of the   *)
(* resources it may ask for, only the start is looked at; and what a token file *)
(* holds that nobody reads is always the same.                                  *)
AboutCommands == instance' # Fresh \/ answer'.call = "run"
OneSubject ==
  /\ (edits > 0 \/ file # "t1") => ~AboutCommands
  /\ AboutCommands => Len(jobs') = 2 /\ hub' = hub /\ answer'.call \in {"none", "run"}
  /\ \A j \in DOMAIN jobs' \ {1} :
       /\ jobs'[j].own # NoVars => edits' = 0 /\ file' = "t1"
       /\ jobs'[j].request.pod.resources = quantities([cpu |-> Unset, memoryBytes |-> Unset, gpu |-> Unset])
  /\ (Running /\ hub.lifetime # Unset) => ~Running'
  /\ env["ARMADA_AUTH_TOKEN_FILE"] = Unset => file = "t1"
=============================================================================
