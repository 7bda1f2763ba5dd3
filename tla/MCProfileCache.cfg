CONSTANTS
  Readers = {p1, p2}
  Users = {u1}
  RedisTTL = 2
  LocalTTL = 1
  MaxVersion = 3
SPECIFICATION CacheSpec
INVARIANTS CacheTypeOK StaleBound
PROPERTIES Converges
