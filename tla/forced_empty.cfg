SPECIFICATION Spec
CONSTANTS
  Unset = Unset
  Text <- MCText
  Trim <- MCTrim
  Upper <- MCUpper
  Length <- MCLength
  Number <- MCNumber
  Items <- MCItems
  Urls <- MCUrls
  Json <- MCJson
  JsonEntries <- MCJsonEntries
  Selector <- MCSelector
  ProfileGpus <- MCProfileGpus
  GpuParts <- MCGpuParts
  QualifiedName <- MCQualifiedName
  LabelValue <- MCLabelValue
  ReservedKey <- MCReservedKey
  EnvVar <- MCEnvVar
  Mi = 4
  Gi = 16
  EnvName = {"K", "J"}
  Sandbox = {s1}
  Stranger = other
  StrangerQueue = "q2"
  StrangerServer = "http://armada"
  Shows <- MCShows
  Owners <- MCOwners
  Bases <- MCBases
  Choices <- MCChoices
  TokenFiles <- MCTokenFiles
  Lifetimes <- MCLifetimes
  Images <- MCImages
  Memory <- MCMemory
  OwnEnvs <- MCOwnEnvs
  VarSets <- MCVarSets
  MaxEdits = 0
  MaxSaid = 2
ACTION_CONSTRAINT OneSubject
INVARIANT ForcedWins
CHECK_DEADLOCK FALSE
