\* Two requests in flight on two spellings of one email and on another; fairness
\* of the process.
CONSTANTS
  upper = upper lower = lower other = other p1 = p1 p2 = p2
  i1 = i1 i2 = i2 r1 = r1 r2 = r2 Absent = Absent
  RawEmails = {upper, lower, other}
  Emails = {lower, other}
  Lower <- MCLower
  Passwords = {p1, p2}
  Ids = {i1, i2}
  Slots = {r1, r2}
SPECIFICATION FairSpec
INVARIANTS TypeOK EmailsUnique TokenEarned
PROPERTIES RefusalJustified ConflictJustified EveryRequestEnds
