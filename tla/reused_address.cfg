SPECIFICATION Spec
CONSTANTS
  q0 = q0
  q1 = q1
  q2 = q2
  u1 = u1
  p1 = p1
  DefaultQueue = q0
  NoQueue = NoQueue
  NoUser = NoUser
  User = {u1}
  Project = {p1}
  Owner <- MCOwner
  Reconciler = Reconciler
  Sandbox = {s1, s2}
  Queue = {q0}
  Configs <- MCUnmapped
  AddressReused = TRUE
  LookoutLags = FALSE
  Caller = {c1}
  Instance = {i1}
  Kinds <- MCById
  SubmitsLinger = FALSE
  MaxRestarts = 0
INVARIANT HealthIsOwn
