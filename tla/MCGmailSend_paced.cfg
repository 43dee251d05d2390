SPECIFICATION Spec
CONSTANTS
  s1 = s1 s2 = s2
  c1 = c1 c2 = c2 f1 = f1 f2 = f2
  a1 = a1 o1 = o1 o2 = o2
  t1 = t1 t2 = t2 t3 = t3 t4 = t4
  NoSender = NoSender
  NoDraft = NoDraft
  Senders = {s1}
  Accounts = {a1}
  Orders = {o1, o2}
  Drafts = {c1, c2, f1}
  InitialClaims = {c1, c2}
  TaskDrafts = {f1}
  AccountOf <- OneMailbox
  OrderOf <- ByOrder
  ThreadOf <- OwnThreads
  DailyLimit = 2
  Window = 3
  Slack = 1
INVARIANTS
  PacedDeliveries
  SecondClaimsFollowLostAnswers

CHECK_DEADLOCK FALSE
