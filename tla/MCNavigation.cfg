\* One user at one browser tab with two calls in flight; fairness of React, of the
\* network and of the API.  One protected page stands for all of them.
CONSTANTS
  u1 = u1 c1 = c1 c2 = c2 None = None
  home = home login = login register = register private = private generate = generate
  Users = {u1}
  Calls = {c1, c2}
  Home = home Login = login Profile = private Create = private
  Open = {home} Forms = {login, register} Protected = {private} Moved = {generate}
SPECIFICATION FairNavSpec
INVARIANTS NavTypeOK MirrorsWhenCalm
PROPERTIES LoadingEnds LogoutResets BouncesOnlyStrangers ComesToRest
