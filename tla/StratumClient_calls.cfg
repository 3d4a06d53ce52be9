\* One thread, a pool that may fail twice, two shares and a keepalive.
SPECIFICATION ClientSpec
CONSTANTS
  MaxAttempts = 2
  MaxConns = 6
  MaxShares = 2
  MaxPings = 1
  MaxFaults = 2
INVARIANTS AuthorizedBelieved AnswersMatch
PROPERTIES Reauthorizes SubmissionEnds
CHECK_DEADLOCK FALSE
