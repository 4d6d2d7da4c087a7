SPECIFICATION Spec
CONSTANTS
  a1 = a1
  a2 = a2
  Attr <- OneAttr
  NoAttr = noAttr
  LocalPref <- MCLocalPref
  AsPathLen <- MCAsPathLen
  Family = "v4"
  Octet <- V4Octets
  MinMask = 8
  MaxMask = 9
  PathID = {1}
INVARIANTS
  ReadsAgree
  WalkersComplete
