SPECIFICATION Spec
CONSTANTS
  Procs = {c1, c2}
  h = h
  g = g
  s = s
  tail = tail
  NoTail = NoTail
  Passwords <- DistinctPasswords
  Times = {1, 2}
  Lanes = {1}
  argonKeyLen = 32
  CutLens = {1, 16}
  ChanceLen = 1
INVARIANTS OnlyOwnPassword PasswordStays SuccessMigrates
