SPECIFICATION LibrariesSpec
CONSTANTS
  MaxParameters = 12
  MaxFragments = 3
  ParamName = {"p", "q"}
  MaxParams = 3
  MaxEntries = 2
  MaxTemplate = 9
  MaxChanged = 3
  FirstYears = {1583, 1599, 1699}
  MaxDays = 800
  MaxPushed = 3
  MaxRows = 3
  MaxBound = 2
  MaxDescriptor = 1
  MaxTransaction = 2
  FieldName = {"a", "b"}
  MaxFields = 2
  ByteBase = 4
  ReplacedLate = FALSE
  Holder = {o, p}
  Datum = {v, w}
  Stmt = {h, i}
  NoStmt = null
VIEW LibrariesView
CHECK_DEADLOCK FALSE
INVARIANTS PgfeDataKept ObjectsKept FormsRead HeadTextsRead TemplatesKept
  JrpcUnderstood StatementsRun UtilitiesKept
PROPERTY OptionsKept
