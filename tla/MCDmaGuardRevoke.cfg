SPECIFICATION Spec
CONSTANTS
  d1 = d1
  d2 = d2
  NumSegments = 3
  Domains = {d1, d2}
  Ranges <- MCRanges
PROPERTIES RemoveInvalidates
