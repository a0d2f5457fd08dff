SPECIFICATION Spec
CONSTANTS
  t1 = t1  t2 = t2  m1 = m1  m2 = m2  r1 = r1  r2 = r2  r3 = r3  s1 = s1  a1 = a1  a2 = a2
  NoCount = NoCount  NoSequence = NoSequence  NoRequest = NoRequest
  UsizeMax = 2
  Threads = {t1, t2}
  Mocks = {m1, m2}
  Rules = {r1, r2}
  SequenceIds = {s1}
  Args = {a1, a2}
  Requests <- ContractRequests
  Nested <- NestedCalls
  Contract = TRUE
SYMMETRY Symmetric
INVARIANTS
  VerdictExact
  SequenceInOrder
