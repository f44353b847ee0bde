SPECIFICATION Spec
CONSTANTS
  Codes = {c1, c2}
  Pollers = {p1, p2}
  NoThread = NoThread
INVARIANT LatestIsSubscribed

