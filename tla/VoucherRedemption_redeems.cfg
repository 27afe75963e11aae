\* One attempt; the request and two drains work on it, and three things go
\* wrong.  The run may stop: the attempt is over.
SPECIFICATION FairSpec
CONSTANTS
  Rows = {r1}
  Requests = {q1}
  Drains = {d1, d2}
  NoRow = NoRow
  NoOne = NoOne
  Worths = {"face", "amount"}
  MaxFaults = 3
INVARIANTS TypeOK WrongAmountNotTaken
PROPERTIES KeepsVoucherPromise FollowsMachine RedemptionEnds
CHECK_DEADLOCK FALSE
