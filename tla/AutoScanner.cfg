CONSTANTS
  master = master
  frame = frame
  shot = shot
  scanMaster = scanMaster
  scanFrame = scanFrame
  scanShot = scanShot
  click = click
  masterLot = masterLot
  frameLot = frameLot
  shotLot = shotLot
  byHand = byHand
  k1 = k1
  Requests = {scanMaster, scanFrame, scanShot, click}
  Scopes = {masterLot, frameLot, shotLot, byHand}
  ScopeOf <- MCScopeOf
  PayloadOf <- MCPayloadOf
  Automatic = {scanMaster, scanFrame, scanShot}
  Guarded = {}
  AssetsOf <- MCAssetsOf
  ClientKeys = {k1}
  NoKey = NoKey
  MaxLots = 3
  MaxInFlight = 0
  Images = {master, frame}
  InScene = {master, frame}
  Videos = {shot}
  Refs <- MCRefs
  FrameOf <- MCFrameOf
  Written0 = {master}
  Cooldown = 2
  MaxPresses = 2
SPECIFICATION ScanSpec
PROPERTIES StopSweeps SceneSettles
CHECK_DEADLOCK FALSE
