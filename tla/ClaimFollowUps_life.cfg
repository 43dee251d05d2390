SPECIFICATION FairSpec
CONSTANTS
  MaxFollowUps = 1
  FollowUpTypes = {"followup_1", "followup_2"}
  ReviewOutcomes = {"payment_confirmed", "refused", "manual_review"}
  MaxSending = 1
INVARIANTS
  StatusIsBacked
  RetriesAreSends
  SentTaskIsCompleted
PROPERTIES
  ChaseEnds
CHECK_DEADLOCK FALSE
