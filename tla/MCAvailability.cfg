\* Two requests at once; no more than three rows are ever inserted.
SPECIFICATION BoundedSpec
CONSTANTS
  r1 = r1  r2 = r2  r3 = r3  w1 = w1  w2 = w2
  RowIds <- MCRowIds
  Workers <- MCWorkers
  Windows <- MCWindows
  Forms <- MCForms
SYMMETRY Symmetry
INVARIANTS OverlapNeedsRace
PROPERTIES LostUpdateNeedsRace ReplaceIsWhole
CHECK_DEADLOCK FALSE
