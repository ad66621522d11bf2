SPECIFICATION HelixFairSpec

CONSTANTS
  Graph <- MCGraph
  MaxJobs = 3
  MaxEdges = 2
  Capacity = 2
  MaxWorkers = 3
  Started = 3
  Priority <- MCPriority
  MinPriority = 0
  Reading = {84, 85, 95}
  ThrottleTemp = 85
  CriticalTemp = 95
  MaxReports = 2
  Empty = Empty

PROPERTIES
  QueueIsPool

CHECK_DEADLOCK FALSE
