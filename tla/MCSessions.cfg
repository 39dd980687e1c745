SPECIFICATION Spec
CONSTANTS
  Conns = {c1, c2, c3}
  Ids = {p, q}
  None = None
  MaxParticipants = 2
  GraceChoices = {TRUE, FALSE}
  AdmissionFaults = TRUE
  Shutdowns = TRUE
SYMMETRY Symmetry
INVARIANTS
  SessionsInv
  OneActingSession
  EveryoneIsVisible
PROPERTIES
  ImplementsTenancy
