CONSTANTS
  s1 = s1
  s2 = s2
  s3 = s3
  NULL = NULL
  Sess <- MCSess
SYMMETRY MCSymmetry
SPECIFICATION Spec
INVARIANTS
  NoUseAfterClose
