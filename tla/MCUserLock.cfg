SPECIFICATION FairSpec
CONSTANTS
  LockKinds = {"ticket", "tas", "futex", "queuing", "drdpa", "critical"}
  Threads = {1, 2, 3}
  NoThread = 0
  Nestable = TRUE
  MaxTicket = 6
  MaxLevel = 2
  Locks = {1, 2}
  NestLocks = {2}
  Programs = {{1}, {2}, {1, 2}}
  Testers = {3}
  Uses = {"grow", "all"}
  CriticalUses <- SameKind
  MaxObjects = 4
INVARIANTS TicketSound TasSound LocalSpinSound CriticalSound
PROPERTIES ImplementsLock LockGranted
CHECK_DEADLOCK FALSE
