SPECIFICATION Spec
CONSTANTS
  People = {ann, bob}
  Clients = {proxy}
  Logins = {t1, t2}
  MaxFailures = 2
  SprayAccounts = 2
  Window = 2
  Lockout = 2
  MaxTime = 3
  MaxChanges = 1
  MaxSessions = 1
  Models = {drafting, coding, vision}
  Drafting = drafting
  Workers = {w1, w2}
  Starter = starter
  None = none
  Docs = {d1, d2, d3}
  Revisions = {1, 2}
  WithdrawnDocs = {d3}
  Deleters = {t3}
  Nobody = none
  MaxIngests = 4
  Testers = {ann, bob}
  Threads = {t1, t2, t4}
  EventLoop = loop
  MaxGlobal = 2
  MaxPerUser = 1
  NoUser = none
  qwen = qwen
  coder = coder
  vl = vl
  Registered = {qwen, coder, vl}
  Pinned = {qwen, vl}
  Billions <- MCBillions
  RoleOfModel <- MCRoleOfModel
  CapabilitiesOf <- MCCapabilitiesOf
  ApprovedFor <- MCApprovedFor
  Rules <- MCRules
  Kinds = {"visual", "coding", "document"}
  Stages <- MCStages
  Sensitivities = {"restricted", "sensitive"}
  RoleMatch = 50
  SmallerModel = 5
  NoModel = none
  Others = {1, 2, 3, 4}
  Tag = 0
  Shapes <- MCShapes
SYMMETRY Symmetric
INVARIANTS
  GuessesAreBounded
  OldPasswordsSignedOut
  
  OneInForce
  BrakesHold
  ConfinedAsChecked
  AnswererPassedTheGates
  IsolationHolds
\* every bound may be reached, and then nothing more is asked for
CHECK_DEADLOCK FALSE
