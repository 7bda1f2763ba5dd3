SPECIFICATION Spec
CONSTANTS
  Procs = {p1, p2}
  Dids = {d1, d2, d3}
  Handles = {hs, h1}
  SysHandle = hs
  Idents = {is, i1}
  SysIdent = is
SYMMETRY Symmetry
INVARIANTS
  AccountsAreBacked
  DeletionIsOrderly
  SystemUserIsSound
