SPECIFICATION Spec
CONSTANTS
  MaxFollowUps = 1
  FollowUpTypes = {"followup_1"}
  ReviewOutcomes = {"payment_confirmed", "refused", "manual_review"}
  MaxSending = 1
PROPERTIES
  FinalNeverChased
CHECK_DEADLOCK FALSE
