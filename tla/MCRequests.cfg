SPECIFICATION FairSettingsSpec
CONSTANTS
  Plan <- MCPlan
  Property <- MCProperty
  Script <- MCScript
  Text <- MCText
  MaxRequests = 3
INVARIANTS
  TypeOK
  SuccessMeansAll
  StepsInOrder
  RetryNotOvertaken
  ReadsWhatWasSet
PROPERTIES
  ServiceSpec
  RequestEnds
CHECK_DEADLOCK FALSE
