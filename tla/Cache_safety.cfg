SPECIFICATION Spec
CONSTANTS
  Queries = {q1, q2}
  Refreshers = {}
  Cleaner = cleaner
  Names = {n1}
  Groups = {default, kids}
  Default = default
  Caps = {1, 2}
  Optimistic = FALSE
  StaleFallback = TRUE
  Events = {"prefetch", "block", "clear", "resize", "exclude"}
  Faults = {"upstream", "uncacheable"}
  MaxStarts = 3
  None = None
CHECK_DEADLOCK FALSE
SYMMETRY Symmetry
INVARIANTS
  LruMatchesMap
  
  SharedNotOlder
PROPERTIES
  OnlyYounger
