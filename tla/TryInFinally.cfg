SPECIFICATION Spec
CONSTANTS
  Promise <- MCTryInFinallyPromise
  Code <- MCTryInFinallyCode
  Error <- MCError
  Super <- MCSuper
  Handler <- MCHandler
  Sig <- MCSig
  MaxSignals <- MCNoSignals
  MaxLoops = 2
  MaxFrames = 8
  MaxDepth = 3
INVARIANTS
  FinallyAssertion
