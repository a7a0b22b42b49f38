\* Screens of one (0 is taken for 1) to four columns.
CONSTANTS
  Narrow = {a}
  Wide = {W}
  Space = space
  Nul = nul
  None = None
  Widths = {0, 2, 4}
  Params = {1, 2}
  MaxCombining = 1
SPECIFICATION MCSpec
INVARIANTS EditsNear EditsLocal RoomKeeps
PROPERTIES TornOnlyAtMargin WrapAtMargin
