SPECIFICATION FairSpec
CONSTANTS
  c1 = c1
  c2 = c2
  b1 = b1
  b2 = b2
  m1 = m1
  r1 = r1
  None = None
  Collections = {c1,c2}
  Builders = {b1, b2}
  Maintainers = {m1}
  Readers = {r1}
  MaxFaults = 1
  MaxCrashes = 0
  MaxLost = 0
  MaxTroubles = 1
PROPERTIES PublishingEnds RefinesServedIndex
