SPECIFICATION Spec
CONSTANTS
  E = E
  A = A
  B = B
  C = C
  X = X
  Z = Z
  e = e
  t = t
  x = x
  y = y
  z = z
  p = p
  r = r
  Nobody = Nobody
  Fns = {E, A, B, C, X, Z}
  BuildNames = {e, t, x, y, z, p}
  RunNames = {r}
  Ignored = {p}
  Worlds <- Several
INVARIANT KeptOrRaised
