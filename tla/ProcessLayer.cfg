CONSTANTS
  newaddr = newaddr
  dellink = dellink
  Event = {newaddr, dellink}
  eth0 = eth0
  eth1 = eth1
  Iface = {eth0, eth1}
  NoName = NoName
  Route = Route
  Other = Other
  MaxQueue = 1
  MaxBytes = 5
  MaxCount = 3
  Capacity = 2
  m1 = m1
  m2 = m2
  Maker = {m1, m2}
  Depth = 2
  MaxLen = 3
  MaxRoot = 1
SPECIFICATION LayerSpec
INVARIANTS
  WalkSafe
  StreamIntact
  MkdirOutcome
PROPERTY CallbackRuns
\* The listener's destructor may wait for ever, a process that has ended takes no
\* step, and the stream has an end.
CHECK_DEADLOCK FALSE
