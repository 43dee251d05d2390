SPECIFICATION FairSpec
CONSTANTS
    Disputes = {1, 2}
    Orders = {1, 2}
    OrderOf <- MCOrderOf
    Unclassified = {2}
    Workers = {w1}
    MaxCandidates = 2
    Decisions = {"evidence_requested", "payment_confirmed"}
    MaxMails = 1
INVARIANTS
    RefundsTypeOK
    MailsAreProven
    SentDisputesLeft
PROPERTIES
    HandSendsAreRecorded
