\* Two tokens at a time through a network of all kinds of nodes.
SPECIFICATION FairSpec
CONSTANTS
  NumWorkers = 2
  Slices = 2
  Tokens = 3
  Sources <- TheSources
  Constants = {"constant"}
  Serial = {"serial"}
  Parallel = {"parallel"}
  Switches = {"switch"}
  Selects = {"select"}
  Sinks = {"sink"}
  Arity <- TheArity
  Targets <- TheTargets
  QueueOf <- TheQueueOf
INVARIANTS SlicesApart TokensInOrder
PROPERTY NetworkFinishes
CHECK_DEADLOCK FALSE
