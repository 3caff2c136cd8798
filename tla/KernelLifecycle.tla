-------------------------- MODULE KernelLifecycle ---------------------------
(***************************************************************************)
(* What the adapter promises marimohub of each sandbox id: a kernel that is  *)
(* started at most once, however often the sandbox is made ready, and that   *)
(* once gone, cancelled, failed or preempted, never comes back under the     *)
(* same id as an empty one (failFast and the clientId of armada.ts submit).  *)
(***************************************************************************)
CONSTANT Sandbox

VARIABLE kernel  \* sandbox -> "none", "live" or "gone"

KernelInit == kernel = [s \in Sandbox |-> "none"]

StartKernel(s) == kernel[s] = "none" /\ kernel' = [kernel EXCEPT ![s] = "live"]

EndKernel(s) == kernel[s] = "live" /\ kernel' = [kernel EXCEPT ![s] = "gone"]

KernelNext == \E s \in Sandbox : StartKernel(s) \/ EndKernel(s)

KernelSpec == KernelInit /\ [][KernelNext]_kernel
=============================================================================
