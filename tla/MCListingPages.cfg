\* Two listings of the user, two deletions or saves in flight; fairness of React
\* and of the API.
CONSTANTS
  a = a b = b s1 = s1 s2 = s2 Gone = Gone None = None Pending = Pending Failed = Failed
  Ids = {a, b}
  Mine = {a, b}
  MaxRev = 2
  Slots = {s1, s2}
SPECIFICATION FairSpec
INVARIANTS TypeOK OwnValuesOnly AnswersOwnListing ReadsOwnWrites
PROPERTIES ImplementsLatest PendingEnds
