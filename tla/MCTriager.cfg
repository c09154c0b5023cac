SPECIFICATION PipelineSpec
CONSTANTS
  f1 = f1
  f2 = f2
  f3 = f3
  f4 = f4
  folder = folder
  hidden = hidden
  Files <- MCFiles
  Folders = {folder}
  Hidden = {hidden}
  LogsOf <- MCLogsOf
  Hangs = {f1, f3}
  Breaks = {f4}
  max_workers = 2
  Paths = {"report.json"}
  Signals = {"SIGSEGV", "SIGBUS"}
  FaultAddresses = {0, 5000}
  AddressMod = 65536
INVARIANTS
  EveryFileCounted
  EntriesConsistent
  SummaryComplete
  SeverityNotLowered
PROPERTIES
  TriageEnds
