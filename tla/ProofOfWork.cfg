SPECIFICATION Spec
CONSTANTS
  c1 = c1
  c2 = c2
  c3 = c3
  c4 = c4
  r1 = r1
  r2 = r2
  r3 = r3
  Nil = Nil
  Challenge = {c1, c2, c3, c4}
  Response = {r1, r2, r3}
  Client = {client}
  Minute = 2
  RefreshPeriod = 3
  ReevaluationPeriod = 1
  Desired = 1
  Multiplier = 1
  Scale = 2
  BackMinutes = 2
  Initial = 100
  Hash = {1, 60}
SYMMETRY Symmetries
PROPERTY FasterIsHarder
INVARIANTS
  TypeOK
  ReuseWindow
  ChallengeIsGood
  DifficultyInRange
  ComesBack
