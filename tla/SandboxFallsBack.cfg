SPECIFICATION SandboxSpec
CONSTANTS
  Testers = {ann}
  Threads = {h1, h2}
  EventLoop = loop
  MaxGlobal = 2
  MaxPerUser = 1
  NoUser = none
INVARIANT ConfinedAsDemanded
\* nothing more is asked for while every request waits
CHECK_DEADLOCK FALSE
