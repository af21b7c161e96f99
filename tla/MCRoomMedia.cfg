CONSTANTS
  Urls = {u1, u2}
  JwKeys = {k1, k2}
  Ivs = {iv1}
  Hashes = {h1, h2}
  Versions <- MCVersions
  None = None
SPECIFICATION Spec
INVARIANTS
  TypeOK
  NoEncryptionDowngrade
  ExtensibleRoundTrip
CHECK_DEADLOCK FALSE
