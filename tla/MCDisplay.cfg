\* One row for styles and modes, two for margins and the cursor.
CONSTANTS
  Cap = 2
  MaxTitles = 2
  None = None
  Setups <- MCSetups
SPECIFICATION Spec
INVARIANTS RowsShown ModesShown ShellClean SgrRoundTrip
PROPERTIES StylesKept
