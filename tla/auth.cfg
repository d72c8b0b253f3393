SPECIFICATION AuthSpec
CONSTANTS
  Tokens = {t1, t2, t3, t4}
  Members = {t1, t2, t3}
  Clients = {c1, c2}
  TTL = 1
  Timeout = 1
  MaxEntries = 2
  MaxTime = 2
  MaxRotations = 2
  NoToken = NoToken
SYMMETRY AuthSym
INVARIANT AuthTypeOK
INVARIANT RevocationBounded
INVARIANT CacheBounded
INVARIANT RotationAbsorbed
