SPECIFICATION Spec
CONSTANTS
  u1 = u1 u2 = u2 e1 = e1 e2 = e2 g1 = g1 g2 = g2 b1 = b1 b2 = b2
  None = None
  Users = {u1, u2}
  Emails = {e1, e2}
  Identities = {g1, g2}
  GoogleMail <- MCGoogleMail
  Browsers = {b1, b2}
  MaxLinks = 2
SYMMETRY Symmetric
CHECK_DEADLOCK FALSE
INVARIANTS OneOwner
PROPERTIES DoorsHold
