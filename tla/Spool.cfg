SPECIFICATION MCSpec
CONSTANTS
  traffic = traffic
  probe = probe
  timer = timer
  command = command
  Kinds <- BothKinds
  Lanes <- TwoLanes
  LaneKinds <- AnyKind
  SpoolMax = 2
  MaxBatches = 4
  k1 = k1  k2 = k2  k3 = k3  lic1 = lic1  lic2 = lic2  i1 = i1  i2 = i2
  NoKey = NoKey  NoLicence = NoLicence  NoId = NoId  NoCommand = NoCommand
  Keys <- MCKeys  Licences <- MCLicences  AuthIds <- MCIds  Commands <- MCCommands
  BakedKey = k1
  Override = "unset"
  AllowUnsigned = FALSE
  Managed = TRUE
  Skew = 1
  Mishaps = {"crash", "disk"}
  MaxTime = 2
  Codes = {c1, c2}  NoCode = NoCode
  ConfigCode = c1  EnvCode = NoCode
  Docker = FALSE
  EnrolMishaps = {"crash", "disk", "answer", "revoke"}
  MaxCarried = 2
  r1 = r1  r2 = r2  r3 = r3
  Calls = {r1, r2, r3}  Reads = {r1, r2}  Configured <- MCConfigured  Pin = TRUE
INVARIANT LossIsCounted
INVARIANT NothingForgotten SpentIsKept NothingToStranger
PROPERTY NoRollback GetsToWork
PROPERTY ImplementsSeries
CHECK_DEADLOCK FALSE
