CONSTANTS
  scan = scan
  click = click
  clickForced = clickForced
  auto = auto
  manual = manual
  shot1 = shot1
  shot2 = shot2
  k1 = k1
  k2 = k2
  Requests = {scan, click, clickForced}
  Scopes = {auto, manual}
  ScopeOf <- MCScopeOf
  PayloadOf <- MCPayloadOf
  Automatic = {scan}
  Guarded = {scan}
  AssetsOf <- MCTwoAssets
  ClientKeys = {k1, k2}
  NoKey = NoKey
  MaxLots = 3
  MaxInFlight = 2
SPECIFICATION Spec
SYMMETRY ClientKeySymmetry
INVARIANTS LiveLotHoldsItsScope ScannerLeavesFailures
INVARIANT KeyKeepsItsLot
CHECK_DEADLOCK FALSE
