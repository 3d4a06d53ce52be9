\* Blocks are submitted, saved and announced while the process is shut down,
\* ends or starts, or while peers connect, subscribe and go away.
SPECIFICATION NodeSpec
CONSTANTS
  main = main  t1 = t1  t2 = t2  p = p  q = q  blocks = blocks  ab = ab  b = b
  Tasks = {main, t1, t2}
  None = None
  Peers = {p, q}
  Channels <- MCChannels
  Endings <- MCEndings
  Capacity = 1
  Main = main
  Workloads <- MCWorkloads
  BlockEvents = blocks
  Others <- MCOthers
  MaxBlocks = 2
  MaxStarts = 3
  MaxOthers = 2
INVARIANTS TableTracksConnections AcknowledgedSurvive OneRewardPerHeight AnnouncedInOrder
CHECK_DEADLOCK FALSE
