SPECIFICATION FairSpec
CONSTANTS
  MaxJobs = 5
  Instances = 3
INVARIANTS OneDialog AnswerInHand
PROPERTIES ImplementsDialogQueue EveryJobFires
