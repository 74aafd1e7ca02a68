\* A listing whose features were patched to null fails every search.
CONSTANTS
  u1 = u1 u2 = u2 r1 = r1 r2 = r2 NoUser = NoUser Ip = Ip
  Users = {u1}
  Slots = {r1}
  MaxListings = 1
  Limit = 1
  CandidateLimit = 1
  MaxMatches = 1
  MaxAnswer = 1
SPECIFICATION Spec
INVARIANT SearchFailsWith503
