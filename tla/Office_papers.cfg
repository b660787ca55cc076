SPECIFICATION OfficeSpec
CONSTANTS
  Decisions = {d1}
  Keys = {k1, k2}
  MaxCerts = 3
  Calls = {c1, c2}
  None = None
  Papers = {l1}
  Posters = {w1, w2}
  MaxLosses = 1
  Meetings = {m1, m2}
  Proposals = {p1}
SYMMETRY Interchangeable
CONSTRAINT WithinBounds
INVARIANTS SealsVerify CertificatesAgree LettersStand
PROPERTIES OneCertificate SittingsStand
CHECK_DEADLOCK FALSE
