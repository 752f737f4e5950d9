SPECIFICATION FairSpec
CONSTANTS
  Pods = {p1}
  Requests = {r1, r2, r3}
  Categories = {song}
  Questions = {q1, q2}
  Genres = {rock, pop}
  QuizForms <- MCForms
  MaxFaults = 1
  Seed = Seed
  Nothing = Nothing
INVARIANTS NothingDangles EditStands
PROPERTY EditsShowUp
CHECK_DEADLOCK FALSE
