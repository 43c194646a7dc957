SPECIFICATION PartsSpec
SYMMETRY Symmetric
CONSTANTS
  u1 = u1
  u2 = u2
  u3 = u3
  ann = ann
  bob = bob
  administrator = administrator
  operator = operator
  i1 = i1
  q1 = q1
  r1 = r1
  r2 = r2
  t1 = t1
  t2 = t2
  Nothing = nothing
  Ids <- MCIds
  Names <- MCNames
  SeedNames <- MCSeeds
  Roles <- MCRoles
  Administering <- MCAdministering
  Owner = administrator
  Placeholder = operator
  Invites = {i1}
  Requests = {q1}
  Resets = {r1, r2}
  Threads = {t1, t2}
  MaxStarts = 2
  MaxIssued = 2
  MaxPasswords = 1
  Agents = {worker, reviewer}
  Sealers = {reviewer}
  Nobody = Nobody
  MaxRecords = 5
  MaxCuts = 2
  Askers = {reader}
  Loop = loop
  NoFile = NoFile
  Empty = Empty
  Garbled = Garbled
  MaxOthers = 1
  MaxEdits = 1
  MaxAsked = 2
  MaxFaults = 1
INVARIANTS
  
  RoleWasDecided
  ActiveWasApproved
  DamageIsBounded
  SealsReproduce
  CertificateTellsTheRun
PROPERTIES
  StartLeavesAWayIn
  ImplementsLedger
CHECK_DEADLOCK FALSE
