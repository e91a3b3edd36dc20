SPECIFICATION FairSpec
CONSTANTS
  GoFlags = {go}
  ArrivedFlags = {arrived}
  NoFlag = NoFlag
  Pokers = {p1}
  Waiter = Waiter
  Nobody = Nobody
  Blocktimes = {"finite", "infinite"}
  Rounds = 2
INVARIANTS NoLostWakeup SleepStateExact
PROPERTIES ImplementsFlag
CHECK_DEADLOCK FALSE
