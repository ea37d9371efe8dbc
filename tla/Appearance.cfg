CONSTANTS
  Tabs = {t1, t2}
  Modes = {"flat", "glass"}
  Accents = {"ember-500", "ember-400", "red-500"}
  Styles = {"hatch", "grid"}
  Depths = {11}
  MaxEdits = 3
  MaxLoads = 3
  MaxFaults = 2
SPECIFICATION Spec
SYMMETRY Symmetry
INVARIANTS TypeOK HtmlShowsStore OnlyFirstChangeSwallowed
PROPERTIES OpeningWritesNothing
CHECK_DEADLOCK FALSE
