SPECIFICATION UsageSpec
CONSTANTS
  VirtualKeys = {k1, k2}
  Models = {m1, m2}
  Window = 1
  MaxRequests = 2
INVARIANTS UsageAddsUp
PROPERTY UsageComesBack
