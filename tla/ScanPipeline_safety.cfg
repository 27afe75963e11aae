\* A receipt and a statement that compete for two credits (the first free, the
\* second bought), two jobs for either, a missed heartbeat and a failed call.
\* The run may stop: every job over and nobody asking for more.
SPECIFICATION Spec
CONSTANTS
  Captures = {c1, c2}
  Statements = {c2}
  Linked = {c1}
  Workers = {w1, w2}
  Jobs = {j1, j2}
  MaxAttempts = 2
  NumGrants = 2
  Amount <- OneEach
  Bought = {2}
  NoCapture = NoCapture
  NoJob = NoJob
  NoWorker = NoWorker
  MaxCrashes = 0
  MaxStalls = 1
  MaxErrors = 1
SYMMETRY Symmetry
INVARIANTS TypeOK CreditConservation
PROPERTIES KeepsPromise OwedUntilSettled
CHECK_DEADLOCK FALSE
