CONSTANTS
  Proc = {p, q}
  NoProc = NoProc
  Sizes = {tiny, usual, large}
  Small = {tiny}
  Reachable <- MCReachable
  Configs <- MCConfigs
  MaxLogged = 2
SPECIFICATION FairSpec
INVARIANT LogKept
