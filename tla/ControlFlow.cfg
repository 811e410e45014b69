SPECIFICATION LiveSpec
CONSTANTS
  Promise <- MCPromise
  Code <- MCCode
  Error <- MCError
  Super <- MCSuper
  Handler <- MCHandler
  Sig <- MCSig
  MaxSignals <- MCMaxSignals
  MaxLoops = 2
  MaxFrames = 8
  MaxDepth = 3
INVARIANTS
  TypeOK
  RunsAsWritten
  StackBalanced
  SignalFlag
  HandlersApart
  InterpretersNest
PROPERTIES
  NoStarvation
  PendingTaken
