\* One job with an LLM that may answer anything, for all levels of its agents.
CONSTANTS
  MaxSpecialistCalls = 2
  MaxToolRounds = 2
  ChannelRows = 2
  CustomerRows = 4
  SpecialistRows = 2
  MaxDecisions = 3
  MaxRows = 5
SPECIFICATION FairSpec
INVARIANTS TypeOK NoRowMissed LinksKept
PROPERTIES EscalationKept Ends StepsOfWorker
CHECK_DEADLOCK FALSE
