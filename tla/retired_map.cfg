SPECIFICATION Spec
CONSTANTS
  q0 = q0
  q1 = q1
  q2 = q2
  u1 = u1
  p1 = p1
  DefaultQueue = q0
  NoQueue = NoQueue
  NoUser = NoUser
  User = {u1}
  Project = {p1}
  Owner <- MCOwner
  Reconciler = Reconciler
  Sandbox = {s1}
  Queue = {q0, q1}
  Configs <- MCRetiredMap
  AddressReused = FALSE
  LookoutLags = FALSE
  Caller = {c1}
  Instance = {i1}
  Kinds <- MCCreateKinds
  SubmitsLinger = FALSE
  MaxRestarts = 1
INVARIANT DestroyEffective
