SPECIFICATION DaemonSpec
CONSTANTS
  a1 = a1
  k1 = k1
  p1 = p1
  w1 = w1
  w2 = w2
  Asks = {a1}
  Keys = {k1}
  KeyOf <- SameKey
  Posts = {p1}
  Watchers = {w1}
  MaxLoopEvents = 0
INVARIANTS
  DisconnectDenies
