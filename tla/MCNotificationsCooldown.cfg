SPECIFICATION NotifySpec
CONSTANTS
  Senders = {s1}
  Keys = {"a", "b", "c"}
  Batches <- MCBatches
  MinSeverity = 2
  Cooldown = 3
  MaxPerMinute = 1
  Minute = 2
  Directions = {}
  Channels = 2
  HubMax = 2
  HubWindow = 3
  Epoch = 3
  MaxTime = 9
  MaxBatches = 2
  MaxBroadcasts = 1
INVARIANT MessagesCoolDown

CHECK_DEADLOCK FALSE
