SPECIFICATION Spec
CONSTANTS
  t1 = t1  t2 = t2  f1 = f1  f2 = f2  s1 = s1  s2 = s2  s3 = s3  s4 = s4
  NoFunction = NoFunction  NoThread = NoThread  NoSite = NoSite
  Threads = {t1, t2}
  Functions = {f1, f2}
  Sites = {s1, s2, s3, s4}
  Replaces <- Circular
  Uses <- GlobalUses
  Kinds = {"local", "global"}
  StopCalls = TRUE
  MaxSessions = 2
  MaxFailures = 1
SYMMETRY Symmetric
INVARIANTS
  PromiseKept
  RouteFound
  NothingLeaks
  NoCycle
