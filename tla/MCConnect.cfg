CONSTANTS
  c1 = c1
  c2 = c2
  c3 = c3
  q1 = q1
  q2 = q2
  q3 = q3
  u1 = u1
  u2 = u2
  u3 = u3
  Conn = {c1, c2}
  Tls = {c2}
  Stalled = {}
  Request = {q1, q2, q3}
  Uuid = {u1, u2, u3}
  Kinds = {"match", "missing", "crooked", "grpc", "authority"}
SPECIFICATION Spec
SYMMETRY MCSymmetry
INVARIANTS PathAndQueryIsSome
CHECK_DEADLOCK FALSE
