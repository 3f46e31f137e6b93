SPECIFICATION WorkingSpec
CONSTANTS
  proc = proc
  flow = flow
  Configs <- TwoConfigs
  Interval <- OneInterval
  WantsExporter <- Exporting
  DefaultConfig = proc
  AuthRetry = TRUE
  Probes = FALSE
  HangsUp = TRUE
  MaxCalls = 1
  MaxLoads = 1
  e1 = e1  e2 = e2
  InterfacesOf <- MCInterfacesOf  Sources = {"proc"}
  SampleInterval = 2  Grace = 1  MaxInterfaces = 1  MaxMoved <- MCMaxMoved  MaxSampleClock = 6
  NumHosts = 2  Caps = {1, 2}  NumPorts = 3  Width = 2  Gap = 2  MaxClock = 9
PROPERTY ComesBackByItself
CHECK_DEADLOCK FALSE
