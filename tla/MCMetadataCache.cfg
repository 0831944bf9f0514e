\* Two keys compete for a Map of one entry, with two concurrent calls and long
\* enough a clock for a value to travel KV -> edge cache -> memory with every
\* wait at its longest, and one unit more.  One of the keys is overwritten.
SPECIFICATION Spec
CONSTANTS
  Keys = {k1, k2}
  Isolates = {i1}
  Procs = {p1, p2}
  NoEntry = NoEntry
  NoAnswer = NoAnswer
  Ttl = 1
  Latency = 1
  Capacity = 1
  MaxClock = 4
  MaxPuts = 1
SYMMETRY Symmetry
CONSTRAINT OneKeyIsPut
INVARIANTS
  MapBounded
PROPERTY
  ImplementsStaleRegister
