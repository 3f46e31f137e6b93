SPECIFICATION ReceivingSpec
CONSTANTS
  Syslog = Syslog
  Traps = Traps
  s1 = s1  s2 = s2  k1 = k1
  Senders <- TwoSenders
  Keys = {k1}
  MaxEvents = 1
  Burst = 1
  MaxBuckets = 1
  MaxLines = 2
  NumIfs = 3  PendingMax = 2  Room = 2  Forget = 3
  Measurers = {"timer", "command"}
  x1 = x1  x2 = x2  l1 = l1  l2 = l2
  Exporters = {x1, x2}  SourceOf <- TwoSources
  Layouts = {l1, l2}  Unknown = Unknown  MaxFlows = 1  MaxWire = 2
INVARIANT Accounted RotationKept
PROPERTY EventsLeave ReadsSettle
