SPECIFICATION GRSpec
CONSTANTS
  a1 = a1
  a2 = a2
  a3 = a3
  Attr <- ThreeAttrs
  NoAttr = noAttr
  LocalPref <- MCLocalPref
  AsPathLen <- MCAsPathLen
  Family = "v4"
  Octet <- OneOctet
  MinMask = 8
  MaxMask = 8
  PathID = {1, 2, 3}
INVARIANTS
  FreshIffAnnounced
  NoDoubling
  UniquePathIDs
  ReadsAgree
  SelectBestAgrees
  RegexExact
PROPERTIES
  SweepExact
