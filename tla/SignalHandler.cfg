CONSTANTS
  t1 = t1
  t2 = t2
  Thread = {t1, t2}
  Main = t1
  NoThread = NoThread
  usr1 = usr1
  urg = urg
  kill = kill
  Sig = {usr1, urg, kill}
  NoSig = NoSig
  Uncatchable = {kill}
  Ignored = {urg}
SPECIFICATION FairSpec
INVARIANTS
  HandlerKnown
  OneSubscriber
PROPERTIES
  NotLost
\* A process that has ended takes no step.
CHECK_DEADLOCK FALSE
