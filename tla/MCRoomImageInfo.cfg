CONSTANTS
  Urls = {u1}
  JwKeys = {k1, k2}
  Ivs = {iv1}
  Hashes = {h1}
  Versions <- MCVersions
  None = None
  Mimes = {m1}
  Sizes = {s1}
  Dims = {d1}
  MaxThumbnails = 2
SPECIFICATION Spec
INVARIANTS
  ThumbnailRoundTrip
CHECK_DEADLOCK FALSE
