CONSTANTS
  t1 = t1
  t2 = t2
  t3 = t3
  TPM = {t1, t2, t3}
  Format <- MCFormat
  Id = {k1, k2}
  Public <- MCPublic
  Session = {s1, s2}
  MaxCertified = 1
SPECIFICATION Spec
SYMMETRY Symmetry
INVARIANT
  CertifiedOnSameTPM
