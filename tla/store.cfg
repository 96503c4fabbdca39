SPECIFICATION MCSpec
CONSTANTS
  p1 = p1
  p2 = p2
  p3 = p3
  t1 = t1
  t2 = t2
  s1 = s1
  s2 = s2
  e1 = e1
  e2 = e2
  None = None
  Unborn = Unborn
  Gone = Gone
  Processes = {p1, p2}
  Tables <- SchemaTables
  Columns <- SchemaColumns
  Heartbeat <- SchemaHeartbeat
  BoardIndex <- SchemaBoardIndex
  Legacy <- MCLegacy
  Entities = {s1}
  Texts = {t1, t2}
  Retention = 1
  Limits = {0, 2}
  MaxAdds = 3
  Sessions = {s1, s2}
  Events = {e1, e2}
  Owner <- MCOwner
  Dashboards = {p1}
  Commands = {p2}
  Users = {p3}
  MaxCosts = 2
  MaxCalls = 2
  Failures = TRUE
  Lanes = {"Inbox", "Active", "Done"}
  Inbox = "Inbox"
  Closed = {"Done"}
  Labels = {1, 2}
  Writers = {p2}
  BoardChanges = 3
  Kinds = {"jsonl_directory", "markdown"}
  Files = {1, 2}
  Records = {t1, t2}
  Limit = 3
  MaxRecords = 2
  FileChanges = 1
INVARIANTS StoreTypes OpenedMeansUsable HeartbeatsAreFilled MemoryIsCompact ImportsAreExact
  CheckpointMeansImported
PROPERTIES SomebodyGetsIn MemoryStays CopiesCatchUp
