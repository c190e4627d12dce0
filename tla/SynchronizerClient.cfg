SPECIFICATION Spec
CONSTANTS
  Threads = {t1, t2, t3}
  Values = {v1, v2, v3}
  Discipline = "Wpq"
INVARIANTS NoLostWakeup SleepersHavePledge PledgesAccounted NoneIsFinal ExactlyOnce
