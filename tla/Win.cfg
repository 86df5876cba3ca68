SPECIFICATION MCSpec
CONSTANTS
  Adapters = {a1, a2}
  Stacks = {v4, v6}
  Statics = {s1}
  DHCP = DHCP
  Loop = Loop
  None = None
  NameOf <- MCNameOf
  Callers = {c1, c2}
  Faults = {"save", "rename", "load", "clear", "apply", "restore", "netsh", "crash"}
  MaxFaults = 3
  MaxCalls = 3
INVARIANTS
  TypeOK
  Recoverable
  MemoryIsTrue
CHECK_DEADLOCK FALSE
PROPERTIES
  ForgetOnlyRestored
  ImplementsContract
  Progress
