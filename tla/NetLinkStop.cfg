CONSTANTS
  newaddr = newaddr
  Event = {newaddr}
  eth0 = eth0
  eth1 = eth1
  Iface = {eth0, eth1}
  NoName = NoName
  Route = Route
  Other = Other
  MaxQueue = 1
SPECIFICATION FairSpec
PROPERTY CloseStopsProcessor
\* The destructor may wait for ever, and a process that has ended takes no step.
CHECK_DEADLOCK FALSE
