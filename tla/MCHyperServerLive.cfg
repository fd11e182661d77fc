CONSTANTS
  c1 = c1
  c2 = c2
  c3 = c3
  q1 = q1
  q2 = q2
  q3 = q3
  u1 = u1
  u2 = u2
  u3 = u3
  Conn = {c2, c3}
  Tls = {c2, c3}
  Stalled = {c3}
  Request = {q1, q2}
  Uuid = {u1, u2}
  Kinds = {"match", "missing", "crooked", "grpc", "authority"}
SPECIFICATION Spec
PROPERTIES EveryConnectionAccepted ImplementsService
CHECK_DEADLOCK FALSE
