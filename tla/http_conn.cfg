SPECIFICATION Spec
CONSTANTS
  Texts <- MCTexts
  MaxIn = 6
  MaxOut = 2
  Room = 2
  MaxReply = 4
INVARIANTS TypeOK InputIntact OutputIntact NoMissedElement
PROPERTIES ScanExact
