SPECIFICATION PagesSpec
CONSTANTS
  Values = {1, 2}
  Unknown = Unknown
  Valid <- MCValid
  First <- MCFirst
  Html <- MCHtml
  Secrets = {"right"}
  MaxActs = 1
  MaxEvents = 2
  TestsLate = FALSE
INVARIANTS
  PagesInv
  StoreIsFollowed
  RosterIsAllowed
PROPERTIES
  PagesSettle
