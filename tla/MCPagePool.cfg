CONSTANTS
  NumPages = 4
  Owners = {o1, o2, o3}

SPECIFICATION Spec

INVARIANTS
  PagesPartitioned

PROPERTY RefinesOwnership
