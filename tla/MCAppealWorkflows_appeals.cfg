SPECIFICATION Spec
CONSTANTS
    c1 = c1
    s1 = s1 s2 = s2
    Cases = {c1}
    Senders = {s1, s2}
    NoCase = NoCase
    Advice = {"challenge_generic_refusal", "provide_missing_evidence"}
    Asked = {"first_appeal"}
    EscalateAfter = 2
    ReviewAfter = 3
    MaxAppeals = 2
    MaxAttempts = 2
    MaxCount = 3
    MaxRefusals = 1
CONSTRAINT BoundedLoad
SYMMETRY SenderSymmetry
INVARIANTS
    AppealsTypeOK
    SentAttemptsAreCounted
    AppealSentBelowThreshold

    
