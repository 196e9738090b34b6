SPECIFICATION FairSpec
CONSTANTS
  t1 = t1
  t2 = t2
  t3 = t3
  w1 = w1
  w2 = w2
  TurnTasks <- MCTurnTasks
  WriterTasks <- MCWriterTasks
CHECK_DEADLOCK FALSE
INVARIANT TypeOK TurnsAreWoken
PROPERTY GateRefined ChangeGetsIn
