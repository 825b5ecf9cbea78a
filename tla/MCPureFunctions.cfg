SPECIFICATION Spec
CONSTANTS
  ULONG = 65536
  Printings <- MCPrintings
  Entries <- MCEntries
  Names <- MCNames
  Disks <- MCDisks
  Lines <- MCLines
  Times <- MCTimes
  MaxTicks = 3
  Header = 2
  Pool = 11
  Requests = {1, 2, 5}
INVARIANTS
  PrintsAsC
  StoredIsFound
  LineExact
  ClockExact
  UserHeapSound
CHECK_DEADLOCK FALSE
