SPECIFICATION Spec
CONSTANTS
  Requests = {r1, r2, r3}
  Names = {ann, bob, long}
  Emails = {e1, e2, nul}
  Unfit = {long, nul}
  Passwords = {p1, p2}
  Nil = Nil
  MaxRestarts = 1
  MaxFailures = 1
SYMMETRY Symmetry
CHECK_DEADLOCK FALSE
INVARIANTS
  TypeOK
  UniqueUsers
  AcceptedCanLogIn
  TokensNameUsers
  ConflictMeansTaken
