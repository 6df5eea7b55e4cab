SPECIFICATION FairSpec
CONSTANTS
  Users = {ann, bob}
  NoUser = nobody
  MaxPendingWrites = 2
  Refused = {2}
  MaxWrites = 3
  MaxAccounts = 1
  MaxFaults = 1
  MaxCrashes = 1
CONSTRAINT ThirdWriteInCalmerRuns
INVARIANTS NoAssertFails PipelineHeadsQueue AnswersMatchPipeline SentAsOwner CallbacksAreTrue IdleTimerFits QueueIsServed LastWriteStays
PROPERTIES ImplementsContract EveryWriteSettles
CHECK_DEADLOCK FALSE
