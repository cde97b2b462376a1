CONSTANTS
  Callers = {c1, c2, c3}
  NoCaller = NoCaller
  UnitIds = {u1, u2, u3}
  MaxExposure = 2
SPECIFICATION SlotSpec
INVARIANTS SlotsDense SomeoneWins
PROPERTY SlotsImplementLedger
