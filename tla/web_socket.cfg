SPECIFICATION Spec
CONSTANTS
  Byte = 8
  Op = 2
  Heads <- MCHeads
  Requests <- MCRequests
  MaxIn = 20
  MaxWire = 10
  MaxFrames = 2
INVARIANTS FramesAgree RefusedWhenCrowded
