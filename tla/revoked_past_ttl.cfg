SPECIFICATION AuthSpec
CONSTANTS
  Tokens = {t1}
  Members = {t1}
  Clients = {c1, c2}
  TTL = 3
  Timeout = 2
  MaxEntries = 1
  MaxTime = 4
  MaxRotations = 0
  NoToken = NoToken
INVARIANT RevokedWithinTTL
