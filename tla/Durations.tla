------------------------------ MODULE Durations ------------------------------
(***************************************************************************)
(* How long a session lasts: JWT_EXPIRES_IN, which the token and the       *)
(* cookie that carries it are both given, each in its own way.             *)
(*                                                                         *)
(* Times are milliseconds.  A duration is a number and a unit; one without *)
(* a unit is a number of seconds, here given in thousandths.               *)
(***************************************************************************)
EXTENDS Integers

UNIT_MULTIPLIERS_MS ==
  [ms |-> 1, s |-> 1000, m |-> 60000, h |-> 3600000, d |-> 86400000]

Texts == [value : Nat, unit : DOMAIN UNIT_MULTIPLIERS_MS \cup {"none"}]

parseDurationToMs(text) ==
  IF text.unit = "none" THEN text.value ELSE text.value * UNIT_MULTIPLIERS_MS[text.unit]

\* What the token is signed with, in seconds, and what the cookie is given to
\* Express.
expiresIn(text) == parseDurationToMs(text) \div 1000
maxAge(text) == parseDurationToMs(text)

\* jsonwebtoken counts in whole seconds, from the one the token was issued in.
TokenEnds(issued, text) == 1000 * ((issued \div 1000) + expiresIn(text))

\* res.cookie writes Max-Age in whole seconds, which the browser counts from the
\* moment the reply arrives.
CookieEnds(arrived, text) == arrived + 1000 * (maxAge(text) \div 1000)

\* The browser keeps the cookie as long as the API believes its token, and less
\* than a second longer, the time the reply takes aside (setSessionCookie,
\* AuthModule).
Lasts(text, issued, arrived) ==
  /\ CookieEnds(arrived, text) >= TokenEnds(issued, text)
  /\ CookieEnds(issued, text) - TokenEnds(issued, text) < 1000
=============================================================================
