CONSTANTS
  N = 1
  DefAddr <- MCAddr
  DeviceId <- MCDeviceId
  Aid <- MCAid
  TwoByte = {1}
  KbufSize = 3
  Chars = {5, 6}
SPECIFICATION Spec
PROPERTIES WholeKeys
