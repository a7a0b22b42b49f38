CONSTANTS
  Lines = {a}
  Blank = blank
  None = None
  Limit = 2
  Sizes = {1, 3}
  Params = {1}
  Regions <- MCRegions
SPECIFICATION MCSpec
PROPERTY NativeFollowsHistory
