\* A card order with two checkout sessions and a Play purchase, two requests,
\* two scans on packs of two credits, and one fault.
\* The run may stop: everything bought, spent and answered.
SPECIFICATION FairSpec
CONSTANTS
  Orders = {o1}
  Sessions = {s1, s2}
  Tokens = {t1}
  Requests = {r1, r2}
  Scans = {x1, x2}
  Pack = 2
  NoRef = NoRef
  MaxFaults = 1
INVARIANTS TypeOK OnePayment RefundTakesBack
PROPERTIES KeepsPurchasePromise PaidIsGranted PlaySettles
CHECK_DEADLOCK FALSE
