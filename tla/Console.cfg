CONSTANTS
  Routes = {"/", "/pipelines", "/dashboards", "/sql-editor", "/infrastructure", "/data-catalog"}
  Terms = {"term"}
  TableSql = {"table"}
  JobTypes = {"job"}
  RunIds = {"run"}
  MaxHits = 1
  Static <- MCStatic
  Sizes = {0, 2, 7}
  Queries = {"default", "table"}
  DefaultSql = "default"
  MaxEntries = 1
  MaxQueryRows = 1
  Services = {"service"}
  MaxActions = 1
  Tables = {"table"}
  Layers = {"layer"}
SPECIFICATION Spec
INVARIANTS TypeOK WindowHolds ShownIsRecorded ShownFresh
PROPERTIES ZoomIsSelection HighlightedIsOpened
