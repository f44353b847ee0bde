SPECIFICATION InterfaceSpec
CONSTANTS
  Components = {db}
  Heartbeats = {h1, h2}
  Callers = {k1}
  Stoppers = {s1}
  NoTask = NoTask
  RecoverThreshold = 3
  DegradeThreshold = 1
  UnhealthyThreshold = 3
  CountCap = 3
  Senders = {n1}
  Keys = {"a", "b", "c"}
  Batches <- MCBatches
  MinSeverity = 2
  Cooldown = 3
  MaxPerMinute = 1
  Minute = 2
  Directions = {}
  Channels = 2
  HubMax = 2
  HubWindow = 3
  Epoch = 3
  MaxTime = 8
  MaxBatches = 2
  MaxBroadcasts = 1
  Codes = {c1, c2}
  Pollers = {p1, p2}
  NoThread = NoThread
  Loops = {t1, t2}
  NoLoop = NoLoop
  Watchlists <- MCWatchlists
  Feeds <- MCFeeds
  Toggled = {"SPIKE", "VOLUME_BREAKOUT"}
  Subscribers = {f1}
INVARIANTS
  StatusExplained RunningHasHeartbeat
  HubRate NotifierCoolsDown
  OneScan DetectorsAgree
PROPERTIES
  NoJump StopQuiesces Recovers Detected
  BatchEnds
  PollingStops QuotesArrive
  TriggersAreSeen
CHECK_DEADLOCK FALSE
