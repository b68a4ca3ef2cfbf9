CONSTANTS
  N = 3
  DefAddr <- MCDefAddr
  DeviceId <- MCDeviceId
  Aid <- MCAid
  TwoByte = {1}
  Inputs <- MCInputs
  Payload = {7}
SPECIFICATION Spec
INVARIANTS TypeOK EngineStates SdiInBounds UniqueAddresses SingleTalker AadCounts ReadyAnswered
PROPERTIES AddressKept
