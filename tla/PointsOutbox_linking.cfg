\* Ann links two accounts at once; one receipt, two drains, one kill or overrun.
\* The run may stop: every request and report over.
SPECIFICATION FairSpec
CONSTANTS
  ann = ann r1 = r1 r2 = r2  c1 = c1 c2 = c2 d1 = d1 d2 = d2 x = x y = y
  Users = {ann}
  Requests = {r1, r2}
  RequestUser <- AnnsAsk
  Account <- AnnLinks
  Captures = {c1}
  Owner <- Anns
  Receipt <- OneReceipt
  Numbered = {"receipt"}
  Drainers = {d1, d2}
  WorkerName <- OwnName
  MaxAttempts = 2
  MaxFaults = 1
  NoLink = NoLink
  NoName = NoName
  NoCapture = NoCapture
INVARIANTS NoForgottenLink
PROPERTIES NothingAfterUnlink ReportEnds
CHECK_DEADLOCK FALSE
