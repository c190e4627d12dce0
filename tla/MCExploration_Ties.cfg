SPECIFICATION Spec
CONSTANTS
  t0 = t0
  t1 = t1
  t2 = t2
  t3 = t3
  ok = ok
  trap = trap
  assert1 = assert1
  assert2 = assert2
  Stop = Stop
  Tasks <- MCTasks
  Results <- MCResults
  Status <- MCStatus
  Outcome <- MCOutcome
  Crumbs <- TiedCrumbs
  Inputs <- SortedOnly
  MaxWorkers = 2
  Strategy = "LIFO"
INVARIANT OrderOfArrivalIrrelevant
