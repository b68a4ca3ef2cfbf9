CONSTANTS
  N = 1
  DefAddr <- MCAddr
  DeviceId <- MCDeviceId
  Aid <- MCAid
  TwoByte = {}
  Codes <- MCCodes
  MaxFrames = 4
  MaxHistory = 6
SPECIFICATION Spec
INVARIANTS PaperIsText ScopeIsLog RepeatsCollapsed Legible
PROPERTIES QuitWritesLog
