\* Two strands, four spans, None and one identity that objects may share.
SPECIFICATION MCSpec
CONSTANTS
  k1 = k1
  k2 = k2
  s1 = s1
  s2 = s2
  s3 = s3
  s4 = s4
  o1 = o1
  null = null
  MaxShared = 3
  Nil = Nil
  Strand = {k1, k2}
  Main = k1
  Span = {s1, s2, s3, s4}
  Object = {o1, null}
  Null = null
CHECK_DEADLOCK FALSE
INVARIANTS
  TypeOK
  TraceIsWhole
PROPERTIES
  LineageSound
  LineageKept
  BlameFounded
  BlameNamed
SYMMETRY Alike
