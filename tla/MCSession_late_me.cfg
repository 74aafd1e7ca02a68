\* A login overtakes the getMe of the page load.
CONSTANTS
  u1 = u1 u2 = u2 None = None
  Users = {u1, u2}
  c1 = c1 c2 = c2
  Calls = {c1, c2}
SPECIFICATION Spec
INVARIANT Mirrors
