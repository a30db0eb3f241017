SPECIFICATION FairSpec
CONSTANTS
  Method <- MCMethod
  Supplied <- MCSupplied
  MaxRequests = 3
INVARIANTS
  TypeOK
  AnsweredOnce
  AnswerReachesItsCommand
PROPERTIES
  CommandAnswered
CHECK_DEADLOCK FALSE
