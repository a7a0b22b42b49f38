\* Screens of one (0 is taken for 1) and two rows.
CONSTANTS
  Lines = {a}
  Blank = blank
  None = None
  Limit = 2
  Sizes = {0, 2}
  Params = {1, 2}
  Regions <- MCRegions
SPECIFICATION Spec
INVARIANTS GridInvariant InBounds AltConsistent
PROPERTIES AltFreezesHistory RegionContained ImplementsScrollback
