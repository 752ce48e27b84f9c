SPECIFICATION Spec
CONSTANTS
  c1 = c1
  c2 = c2
  c3 = c3
  b1 = b1
  b2 = b2
  m1 = m1
  r1 = r1
  None = None
  Collections = {c1,c2,c3}
  Builders = {b1, b2}
  Maintainers = {m1}
  Readers = {r1}
  MaxFaults = 2
  MaxCrashes = 1
  MaxLost = 1
  MaxTroubles = 2
SYMMETRY Symmetry
INVARIANTS OneActive ServedSound AgreeWhenSettled MaintenanceOnLive
PROPERTY CleanupSpares
