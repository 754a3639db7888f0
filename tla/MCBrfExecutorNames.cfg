SPECIFICATION Spec
CONSTANTS
  kMaxThreads = 2
  OBJ_LIST_SIZE = 2
  sched = sched
  plain = plain
  twin = twin
  Files = {sched, plain, twin}
  StructOps = {sched, twin}
  ObjName <- MCObjName
  LongNames = {sched, twin}
  Logs <- MCLogs
  Pids = {2}
  OtherPids = {2}
  MaxCalls <- MCMaxCalls
  Programs <- MCPrograms
CHECK_DEADLOCK FALSE
INVARIANTS
  NamesUnique
