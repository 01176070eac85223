SPECIFICATION FairSpec
CONSTANTS
  NoNas = NoNas
  Sources = {r1}
  Nases = {n1}
  BatchSize = 2
  MaxLines = 3
  MaxEvents = 2
INVARIANTS InsertedOnceInOrder EveryLineAccounted AttributionWasRegistered
PROPERTY ImplementsTransfer PendingSettles
