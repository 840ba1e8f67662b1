SPECIFICATION Spec
CONSTANTS
  Bases = {b1}
  Suffixes = {x1}
  NoSuffix = NoSuffix
INVARIANTS
  OrphansAreMarked
