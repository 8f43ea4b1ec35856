SPECIFICATION Spec
CONSTANTS
  FrameNum = 4
  Top = 1
INVARIANT DeletedFromList
