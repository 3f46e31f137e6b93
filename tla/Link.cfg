SPECIFICATION ChannelsSpec
CONSTANTS
  s1 = s1
  s2 = s2
  s3 = s3
  NoSocket = NoSocket
  Sockets <- ThreeSockets
  NumUrls = 2
  Schemes <- FirstHttp
  Answers <- Anything
  AuthRetry = TRUE
  StaleCheck = TRUE
  MaxAttempts = 2
  Conns = {g1, g2}  NoConn = NoConn  MaxDelay = 2
  o1 = o1  o2 = o2  o3 = o3  o4 = o4  o5 = o5  o6 = o6
  Orders = {o1, o2, o3, o4, o5, o6}  KindOf <- MCKindOf
  Total = 2  Retries = 2  MaxSent = 4
CHECK_DEADLOCK FALSE
INVARIANT OnePursuit StopStops
PROPERTY ImplementsChannel
PROPERTY AgentComesBack
PROPERTY GoImplementsChannel
PROPERTY GoComesBack
PROPERTY AllAnswered
