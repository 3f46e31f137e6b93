SPECIFICATION FairSpec
CONSTANTS
  web = web
  plain = plain
  traced = traced
  off = off
  Absent = Absent
  NoLane = NoLane
  Tests <- OneTest
  Defs <- ThreeDefs
  Enabled <- NotOff
  Orders <- AnyOrder
  Captured <- Traced
  BufferMax = 1
  MaxChains = 2
  MaxRuns = 2
  MaxResults = 2
INVARIANT OneChain
INVARIANT DefinitionIsCurrent
INVARIANT ResultsAccounted
INVARIANT NoStrayCapture
PROPERTY KeepsRunning
