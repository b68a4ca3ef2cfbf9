CONSTANTS
  Frames <- MCFrames
  Styles = {6, 7}
  MaxLine = 2
SPECIFICATION FairSpec
INVARIANTS TypeOK InSync
PROPERTIES IsCall IsServed
