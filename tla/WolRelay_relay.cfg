CONSTANTS
  target = target
  near = near
  far = far
  Postes = {target, near, far}
  AtFirst <- MCAtFirst
  Targets = {target, far}
  Profile <- MCProfile
  Wakes = {1}
  RelayEnabled = {TRUE, FALSE}
  Ttl = 2
  Grace = 1
  OfflineAfter = 1
  AddressBits = 4
  DefaultPrefix = 2
  Configured = {}
  ZeroMac <- MCZero
  BroadcastMac <- MCBroadcast
  MacLength = 2
  MaxTime = 3
  MaxPower = 1
CHECK_DEADLOCK FALSE
SPECIFICATION WolSpec
INVARIANTS ExpiredUnheard
PROPERTIES WakeEnds AwakeCloses
