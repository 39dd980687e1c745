SPECIFICATION Spec
CONSTANTS
  Conns = {c1, c2, c3}
  Ids = {p, q}
  None = None
  MaxParticipants = 2
  GraceChoices = {TRUE}
  AdmissionFaults = FALSE
  Shutdowns = FALSE
SYMMETRY Symmetry
INVARIANT NoGhosts
