CONSTANTS
  t1 = t1
  t2 = t2
  o1 = o1
  none = none
  NoOrder = none
  Threads <- MCThreads
  Orders <- MCOrders
  OrderOf <- MCOrderOf
  Contested = {}
  Scripts <- MCScripts
  Starred <- MCStarred
  MaxAttempts = 1
  MaxMessages = 3
  MaxMails = 2
SPECIFICATION FairSpec
INVARIANTS WatchTypeOK 
PROPERTIES StarsFollowPromises RepliesAnswerTheLatest 
