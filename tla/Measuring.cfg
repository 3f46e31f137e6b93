SPECIFICATION MeasuringSpec
CONSTANTS
  d1 = d1  d2 = d2  h1 = h1  p1 = p1
  Devices <- MCDevices  Hosts = {h1}  NoHost = NoHost
  Counted <- MCCounted  Interval <- MCInterval  CounterConcurrency = 2
  Presses = {p1}
  b1 = b1  b2 = b2  n1 = n1  n2 = n2  a1 = a1  a2 = a2
  Boxes = {b1, b2}  Names = {n1, n2}  NoName = NoName  Literals = {n1}
  Addresses = {a1, a2}  AddressesOf <- MCAddressesOf
  w1 = w1  w2 = w2
  Wishes = {w1, w2}  NoWish = NoWish  InstallRetries = 2
  ExporterMishaps = {"denied", "fails", "crash", "reboot", "delete"}
  c1 = c1
  Ids = {c1}  Bundled <- MCBundled  MaxVersion = 3  ForHere <- MCForHere  MaxCount = 2
  MaxRuns = 4  MaxRelease = 3
  Rotating = 4  MaxVlanWalks = 3  VlanWorkers = 2  GiveUpAfter = 2
  m1 = m1  m2 = m2  m3 = m3
  Macs = {m1, m2, m3}  Ports = {1, 2}  SwitchVlans = {1, 2}  DefaultVlan = 1  MaxFdb = 2
  Switches <- MCSwitches
  Interfaces = {1, 2}  MaxInterfaces = 1  Counted32 = {"inOctets", "outOctets"}
  Single = {"inErrors"}  Switchboards <- MCBoards  MaxRestarts = 1  MaxReadings = 2
  Certificates <- MCCertificates  Window = 1  Grain = 3  MaxClock = 2
  s1 = s1  s2 = s2  l1 = l1  l2 = l2
  OfferServers = {s1, s2}  NoServerId = NoServerId  Leases = {l1, l2}
  MaxOffers = 3  MaxHeard = 4
  Links = 3  MinSize = 1  MaxSize = 4  ProbesPerSize = 2  MaxLosses = 1  Paths <- MCPaths
INVARIANT ExporterKept
INVARIANT GoIsHonest
INVARIANT VerdictsHold
INVARIANT SweepIsHonest ReportIsTrue
PROPERTY PollsKeepUp DevicesKnown
CHECK_DEADLOCK FALSE
