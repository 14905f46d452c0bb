SPECIFICATION FairApprovalSpec
CONSTANTS
  q1 = q1
  q2 = q2
  q3 = q3
  k1 = k1
  k2 = k2
  Requests <- ThreeRequests
  Calls <- TwoCalls
  DeclinedMax = 1
  MaxRestarts = 3
CHECK_DEADLOCK FALSE
INVARIANTS ApprovalTypeOK PendingIsReachable ApprovedByPerson
PROPERTIES  TelegramEnds
