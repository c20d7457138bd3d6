SPECIFICATION Spec
CONSTANTS
  Operators = {o1, o2}
  Engines = {e1, e2}
  Keys = {1}
  MaxRows = 2
  MaxIncidents = 2
SYMMETRY Symmetry
INVARIANTS OneOpenDetection IncidentsMatch MergesEnd
PROPERTIES LivesOneByOne
