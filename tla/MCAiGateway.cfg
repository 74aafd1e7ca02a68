\* Two users behind one address; three listings of which the last two are
\* candidates, and a ranking cut to its first; fairness for the database and
\* the timer.
CONSTANTS
  u1 = u1 u2 = u2 r1 = r1 r2 = r2 NoUser = NoUser Ip = Ip
  Users = {u1, u2}
  Slots = {r1}
  MaxListings = 3
  Limit = 1
  CandidateLimit = 2
  MaxMatches = 1
  MaxAnswer = 2
SPECIFICATION FairSpec
INVARIANTS TypeOK BestMatchesShown
PROPERTIES OwnTrafficOnly EveryRequestEnds
