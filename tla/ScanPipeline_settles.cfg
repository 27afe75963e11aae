\* Two jobs of one receipt, with a kill and a missed heartbeat.
\* The run may stop: every job over and nobody asking for more.
SPECIFICATION FairSpec
CONSTANTS
  Captures = {c1}
  Statements = {}
  Linked = {c1}
  Workers = {w1, w2}
  Jobs = {j1, j2}
  MaxAttempts = 2
  NumGrants = 1
  Amount <- OneEach
  Bought = {1}
  NoCapture = NoCapture
  NoJob = NoJob
  NoWorker = NoWorker
  MaxCrashes = 1
  MaxStalls = 1
  MaxErrors = 0
INVARIANTS OneHolder NotForgotten
PROPERTIES ScanSettles ReportQueued
CHECK_DEADLOCK FALSE
