\* Two connections one after the other, any of the sessions each.
CONSTANTS
  Sessions <- AllSessions
  MaxConns = 2
SPECIFICATION FairSpec
INVARIANT TypeOK
INVARIANT RepliesInOrder
INVARIANT ShiftsWholeVectors
INVARIANT VectorsFit
INVARIANT DriverReleased
INVARIANT SigpipeNeedsPipelining
INVARIANT IndInv
PROPERTY CommandsAnswered
PROPERTY ClosedPeerLetGo
PROPERTY RepeatedSigintStops
