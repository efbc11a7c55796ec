CONSTANTS
  Sessions <- FewSessions
  MaxConns = 1
SPECIFICATION FairSpec
PROPERTY SigintStops
