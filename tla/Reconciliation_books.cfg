\* Two receipts that may explain one bank line, and two requests, one of which
\* may be cut off; one of the receipts may be withdrawn.
\* The run may stop: the transaction ids run out and every request is done.
SPECIFICATION FairSpec
CONSTANTS
  Docs = {d1, d2}
  Lines = {l1}
  Txns = {t1, t2, t3}
  Requests = {r1, r2}
  Reopened = {d1}
  NoDoc = NoDoc
  NoLine = NoLine
  NoTxn = NoTxn
  MaxDeaths = 1
INVARIANTS TypeOK ObservedIsMaterialised DocumentCountedOnce
PROPERTIES KeepsRegister StaleIsVoided
CHECK_DEADLOCK FALSE
