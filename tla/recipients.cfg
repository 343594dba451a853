SPECIFICATION Spec
CONSTANTS
  Addresses = {a, b}
  Junk = junk
  MaxValues = 3
SYMMETRY Interchangeable
CHECK_DEADLOCK FALSE
INVARIANTS
  TypeOK
  InFileOrder
  AnnouncedIsScheduled
