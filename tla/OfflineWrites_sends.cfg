\* A photo and a JSON write, two drains of one process, and one fault.
\* The run may stop: the queue is empty.
SPECIFICATION FairSpec
CONSTANTS
  Writes = {w1, w2}
  Photos = {w2}
  Drains = {d1, d2}
  Calls = {c1, c2}
  NoWrite = NoWrite
  NoOne = NoOne
  MaxFaults = 1
INVARIANTS TypeOK KeyRunsOnce SentIsDone KeptUntilAnswered
PROPERTIES InOrder QueueEmpties
CHECK_DEADLOCK FALSE
