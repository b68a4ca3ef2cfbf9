CONSTANTS
  N = 3
  DefAddr <- MCDefAddr
  DeviceId <- MCDeviceId
  Aid <- MCAid
  TwoByte = {1}
  Inputs <- MCInputs
  Payload = {7, 8}
  Sources = {1, 2}
  MaxLog = 4
  MaxHistory = 5
SPECIFICATION TransferFairSpec
INVARIANTS TransferTypeOK ClearsListeners EchoUnchanged IdentityRead NrdEndsData
PROPERTIES IsBroadcast TransferEnds
