SPECIFICATION MeetingPageSpec
CONSTANTS
  Members = {me, b}
  Me = me
  Messages = {m1, m2}
  NoMessage = NoMessage
  Limit = 1
  JoinsMayFail = TRUE
  RetentionChanges = TRUE
  Panels = {"people"}
  RetriesEarly = FALSE
  People = {me, p1, p2, p3}
  Self = me
  None = None
  PageSize = 1
  MaxActs = 4
  Simulcast = TRUE
SYMMETRY Symmetry
INVARIANTS
  MeetingPageInv
  AtMostOnce
  RetainedReachesAll
  SubscriptionsMatch
CHECK_DEADLOCK FALSE
