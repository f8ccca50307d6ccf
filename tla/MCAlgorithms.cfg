SPECIFICATION Spec
CONSTANTS
  AutoErrorResolving = TRUE
  Day = 12
  Delay = 2
  ResolveCheckout = 3
INVARIANTS
  RequestsRead
  RequestsAnswered
  HangsResolved
  CommandsCarriedOut
CHECK_DEADLOCK FALSE
