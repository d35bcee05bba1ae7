SPECIFICATION FairSpec
CONSTANTS
  UseSSL = TRUE
  Options <- SomeOptions
  NumAddrs = 2
CHECK_DEADLOCK FALSE
INVARIANTS RetriesBeginClean SSLModeKept AttemptsBounded EveryAddressTried OpenMeansWelcomed
PROPERTIES ConnectReturns
