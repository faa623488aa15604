\* The message pipeline with kill switch, failures, timeouts and restarts.
CONSTANTS
  m1 = m1
  m2 = m2
  Msgs = {m1, m2}
  Channel <- MCChannel
  MaxJobs = 1
  MaxLlmCalls = 3
  MaxTries = 3
  MaxRestarts = 2
SPECIFICATION FairSpec
INVARIANTS TypeOK StoredBeforeSent AnsweredOncePerRun
PROPERTIES PauseRunsDry DraftsStayHome JobEnds KeepsPromise
