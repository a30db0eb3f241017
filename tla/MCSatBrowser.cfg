SPECIFICATION FairSpec
CONSTANTS
  Method <- BrowserMethod
  Supplied <- MCSupplied
  MaxRequests = 1
PROPERTIES
  BrowserAnswered
CHECK_DEADLOCK FALSE
