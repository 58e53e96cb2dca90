SPECIFICATION Spec
CONSTANTS
  Proc = {p1, p2}
  Inode = {i1,i2,i3,i4}
  None = None
  MaxStrays = 1
SYMMETRY Symmetry
VIEW View
CONSTRAINT FewStrays
INVARIANTS
  LiveComplete
  PublishedLeavesNoTmp
PROPERTIES
  IndexNeverVanishes
  ReplacedIsBackedUp
  LiveFilesFrozen
  ImplementsSlot
