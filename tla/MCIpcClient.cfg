CONSTANTS
  Clients = {c1, c2}
  Stalled = {c2}
  Leaving = {c1}
  MaxRequests = 2
  MaxEmissions = 2
SPECIFICATION Spec
INVARIANT WriteInProgress
INVARIANT BroadcastsComplete
INVARIANT AnswersInOrder
INVARIANT VisitsOnlyLiveClients
CHECK_DEADLOCK FALSE
PROPERTY ImplementsDelivery
