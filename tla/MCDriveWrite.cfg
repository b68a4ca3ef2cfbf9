CONSTANTS
  N = 1
  DefAddr <- MCAddr
  DeviceId <- MCDeviceId
  Aid <- MCAid
  TwoByte = {}
  B = 2
  nbe = 2
  lif_desc <- MCDesc
  Images <- ZeroImages
  Inputs <- WriteInputs
  Faults = {"open", "write"}
  Payload = {1}
  MaxPe = 2
SPECIFICATION StreamSpec
INVARIANTS TypeOK RunWritten
PROPERTIES OtherSectorsKept
VIEW View
