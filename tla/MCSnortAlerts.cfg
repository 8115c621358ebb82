SPECIFICATION Spec
CONSTANTS
  Sensors = {snort, snort_mid}
  Ips = {i1}
  Interval = 2
  QueueCap = 1
  Ttl = 1
  BackoffCap = 3
  MaxConns = 2
  MaxNow = 3
SYMMETRY SensorSymmetry
INVARIANTS TypeOK StoredOnce WaitingSpaced VisibleWhileRecent
PROPERTY OvertakenOnReconnect
