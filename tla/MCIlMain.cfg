CONSTANTS
  Proc = {p, q}
  NoProc = NoProc
  Sizes = {tiny, usual, large}
  Small = {tiny}
  Reachable <- MCReachable
  Configs <- MCConfigs
  MaxLogged = 2
SPECIFICATION FairSpec
INVARIANTS TypeOK OneTalks BoxStopped ConfigExact
PROPERTIES SizeFollowed QuitEnds
