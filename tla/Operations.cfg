SPECIFICATION Spec
CONSTANTS
  i1 = i1
  i2 = i2
  s1 = s1
  s2 = s2
  Incidents = {i1, i2}
  Sessions = {s1, s2}
  IdLimit = 1
INVARIANT TimelineTruth
PROPERTY EachAtOnce
SYMMETRY Alike
