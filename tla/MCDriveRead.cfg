CONSTANTS
  N = 1
  DefAddr <- MCAddr
  DeviceId <- MCDeviceId
  Aid <- MCAid
  TwoByte = {}
  B = 2
  nbe = 2
  lif_desc <- MCDesc
  Images <- ReadImages
  Inputs <- ReadInputs
  Faults = {}
  Payload = {1}
  MaxPe = 3
SPECIFICATION StreamSpec
PROPERTIES ReadsImage
VIEW View
