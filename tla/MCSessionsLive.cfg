SPECIFICATION FairSpec
CONSTANTS
  Conns = {c1, c2, c3}
  Ids = {p}
  None = None
  MaxParticipants = 2
  GraceChoices = {TRUE, FALSE}
  AdmissionFaults = TRUE
  Shutdowns = TRUE
PROPERTIES
  ResumeCompletes
  SlotsAreFreed
