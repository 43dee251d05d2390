SPECIFICATION FairSpec
CONSTANTS
    w1 = w1
    Workers = {w1}
    Cases <- QueueCases
    Lane <- QueueLane
    Account <- QueueAccount
    Restaurant <- QueueRestaurant
    Barred = {4}
    Unreadable = {5}
    Deleted = {1}
    MaxCandidates = 2
    Preflights = 2
    MaxRemoteRepairs = 2
    DailyLimit = 2
    RestaurantLimit = 1
INVARIANTS RunsTypeOK 
PROPERTY BlockersDoNotStarve
PROPERTY RequestsSettleInTurn
