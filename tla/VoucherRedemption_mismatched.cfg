\* Two attempts at a voucher that holds more than its face value, with one
\* answer lost.
SPECIFICATION Spec
CONSTANTS
  Rows = {r1, r2}
  Requests = {q1}
  Drains = {d1, d2}
  NoRow = NoRow
  NoOne = NoOne
  Worths = {"face", "balance", "amount"}
  MaxFaults = 1
INVARIANT OtherValueNotTaken
SYMMETRY Symmetry
CHECK_DEADLOCK FALSE
