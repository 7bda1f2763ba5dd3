CONSTANTS
  Procs = {p1, p2}
  Users = {u1, u2}
  Emails = {e1, e2}
  Passwords = {w1}
  Googles = {g1}
  Nobody = nobody
SYMMETRY Symmetry
SPECIFICATION Spec
INVARIANTS TypeOK AnsweredHolds
PROPERTIES DeletionStays
