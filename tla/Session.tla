------------------------------ MODULE Session ------------------------------
(***************************************************************************)
(* The session as one browser tab sees it: AuthProvider of apps/web, which *)
(* keeps the user it believes is logged in, and the browser's cookie jar,  *)
(* which holds the session the API will believe.  The two change by        *)
(* different steps of the same calls: getMe when the tab loads, login or   *)
(* register from a form, logout from the profile page.  A call is sent     *)
(* with the cookie of that moment, is served later, and its promise        *)
(* settles later still; nothing orders two calls in flight.  Another tab   *)
(* of the browser shares the jar, and tells this one nothing.              *)
(*                                                                         *)
(* The cookie holds a token, and a token is named by the user in its       *)
(* subject.  login and register differ in nothing that is modelled.        *)
(***************************************************************************)
CONSTANTS
  Users,
  None,  \* no cookie; no user (null)
  Calls  \* bounds the calls in flight

ASSUME NoneAssumption == None \notin Users

\* A form disables its button while its call is pending; a form that has been
\* left and opened again is a new one.
Kinds == {"me", "auth", "logout"}

Stages == {"sent", "ok", "refused"}

NoCall == [kind |-> "none", stage |-> "none", as |-> None]

VARIABLES
  cookie,   \* the session cookie in the jar
  user,     \* AuthProvider's user
  status,   \* AuthProvider's status
  call,     \* the calls in flight: how far each is, and the user it is about
  overlap,  \* history: two calls were in flight at once since the tab loaded
  trouble   \* history: since then a call was lost, the session expired, or
            \* another tab changed it

vars == <<cookie, user, status, call, overlap, trouble>>

-----------------------------------------------------------------------------

Pending(c) == call[c] # NoCall

Quiet == \A c \in Calls : ~Pending(c)

New(kind, u) == [kind |-> kind, stage |-> "sent", as |-> u]

Send(c, kind, u) ==
  /\ ~Pending(c)
  /\ call' = [call EXCEPT ![c] = New(kind, u)]
  /\ overlap' = (overlap \/ ~Quiet)

\* The promise of a call of that kind may settle.
Answered(c, kind) == call[c].kind = kind /\ call[c].stage \in {"ok", "refused"}

Settled(c) == call' = [call EXCEPT ![c] = NoCall]

\* setUser and setStatus, batched into one render.
Show(u) ==
  /\ user' = u
  /\ status' = IF u = None THEN "unauthenticated" ELSE "authenticated"

-----------------------------------------------------------------------------
(* What the user does. *)

\* LoginPage and RegisterPage show their form unless the status is
\* authenticated, so also while it is still loading.
Submit(c, u) ==
  /\ status # "authenticated"
  /\ Send(c, "auth", u)
  /\ UNCHANGED <<cookie, user, status, trouble>>

\* ProfilePage shows its button once there is a user.
Logout(c) ==
  /\ status = "authenticated" /\ user # None
  /\ Send(c, "logout", cookie)
  /\ UNCHANGED <<cookie, user, status, trouble>>

\* The tab starts over: what was in flight is aborted, getMe is sent.
Reload ==
  /\ user' = None
  /\ status' = "loading"
  /\ \E c \in Calls :
       call' = [d \in Calls |-> IF d = c THEN New("me", cookie) ELSE NoCall]
  /\ overlap' = FALSE
  /\ trouble' = FALSE
  /\ UNCHANGED cookie

-----------------------------------------------------------------------------
(* What the API does: the guard of me and logout refuses a call without a  *)
(* session, login and register refuse what they do not like.               *)

Serve(c) ==
  /\ call[c].stage = "sent"
  /\ \E stage \in {"ok", "refused"} :
       /\ call[c].kind \in {"me", "logout"} => (stage = "ok" <=> call[c].as # None)
       /\ call' = [call EXCEPT ![c].stage = stage]
  /\ UNCHANGED <<cookie, user, status, overlap, trouble>>

\* The Set-Cookie header of the reply to a call, applied as it arrives.
Arrive(c) ==
  cookie' = IF call[c].stage # "ok" THEN cookie
            ELSE CASE call[c].kind = "auth"   -> call[c].as
                   [] call[c].kind = "logout" -> None
                   [] call[c].kind = "me"     -> cookie

-----------------------------------------------------------------------------
(* The continuations of AuthProvider. *)

MeSettles(c) ==
  /\ Answered(c, "me")
  /\ Show(IF call[c].stage = "ok" THEN call[c].as ELSE None)
  /\ Arrive(c)
  /\ Settled(c)
  /\ UNCHANGED <<overlap, trouble>>

\* Mutant: the body of the reply is stored, not the user in it.
RawAuthSettles(c) ==
  /\ Answered(c, "auth")
  /\ IF call[c].stage = "ok" THEN Show(call[c]) ELSE UNCHANGED <<user, status>>
  /\ Arrive(c)
  /\ Settled(c)
  /\ UNCHANGED <<overlap, trouble>>

\* Mutant: the status is left for the next getMe to set.
UnsetAuthSettles(c) ==
  /\ Answered(c, "auth")
  /\ Arrive(c)
  /\ Settled(c)
  /\ UNCHANGED <<user, status, overlap, trouble>>

AuthSettles(c) ==
  /\ Answered(c, "auth")
  /\ IF call[c].stage = "ok" THEN Show(call[c].as) ELSE UNCHANGED <<user, status>>
  /\ Arrive(c)
  /\ Settled(c)
  /\ UNCHANGED <<overlap, trouble>>

LogoutSettles(c) ==
  /\ Answered(c, "logout")
  /\ Show(None)
  /\ Arrive(c)
  /\ Settled(c)
  /\ UNCHANGED <<overlap, trouble>>

\* Mutant: getMe has no catch.
UncaughtLost(c) ==
  /\ Pending(c)
  /\ cookie' = cookie
  /\ IF call[c].kind = "logout" THEN Show(None) ELSE UNCHANGED <<user, status>>
  /\ Settled(c)
  /\ trouble' = TRUE
  /\ UNCHANGED overlap

\* Mutant: logout resets the user after the await, without a finally.
UnfinishedLost(c) ==
  /\ Pending(c)
  /\ cookie' = cookie
  /\ IF call[c].kind = "me" THEN Show(None) ELSE UNCHANGED <<user, status>>
  /\ Settled(c)
  /\ trouble' = TRUE
  /\ UNCHANGED overlap

\* The network or the API fails a call, with or without its headers having
\* arrived: request rejects.
Lost(c) ==
  /\ Pending(c)
  /\ cookie' = cookie \/ Arrive(c)
  /\ IF call[c].kind = "auth" THEN UNCHANGED <<user, status>> ELSE Show(None)
  /\ Settled(c)
  /\ trouble' = TRUE
  /\ UNCHANGED overlap

\* The cookie and the token in it reach the end of their common lifetime.
\* What carries the token of before is no longer served.
Expire ==
  /\ cookie # None
  /\ cookie' = None
  /\ call' = [c \in Calls |-> IF call[c].kind \in {"me", "logout"} /\ call[c].stage = "sent"
                                THEN [call[c] EXCEPT !.as = None] ELSE call[c]]
  /\ trouble' = TRUE
  /\ UNCHANGED <<user, status, overlap>>

\* A login or a logout in another tab of the browser.  Tokens are not revoked:
\* what was sent before is served as before.
OtherTab(u) ==
  /\ cookie' = u
  /\ trouble' = TRUE
  /\ UNCHANGED <<user, status, call, overlap>>

-----------------------------------------------------------------------------

Init ==
  /\ cookie \in Users \cup {None}
  /\ user = None
  /\ status = "loading"
  /\ \E c \in Calls :
       call = [d \in Calls |-> IF d = c THEN New("me", cookie) ELSE NoCall]
  /\ overlap = FALSE
  /\ trouble = FALSE

Settles(c) == MeSettles(c) \/ AuthSettles(c) \/ LogoutSettles(c)

Next ==
  \/ \E c \in Calls : \/ \E u \in Users : Submit(c, u)
                      \/ Logout(c)
                      \/ Serve(c)
                      \/ Settles(c)
                      \/ Lost(c)
  \/ Reload
  \/ Expire
  \/ \E u \in Users \cup {None} : OtherTab(u)

Spec == Init /\ [][Next]_vars

\* The API serves what reaches it, and the browser settles every fetch.
Fairness == \A c \in Calls : WF_vars(Serve(c)) /\ WF_vars(Settles(c))

FairSpec == Spec /\ Fairness

-----------------------------------------------------------------------------
(* Properties. *)

\* Every variable has its type.
TypeOK ==
  /\ cookie \in Users \cup {None}
  /\ user \in Users \cup {None}
  /\ status \in {"loading", "authenticated", "unauthenticated"}
  /\ call \in [Calls -> [kind : Kinds, stage : Stages, as : Users \cup {None}] \cup {NoCall}]
  /\ overlap \in BOOLEAN
  /\ trouble \in BOOLEAN

\* With no call in flight, the tab shows the user of the cookie, if no two of
\* its calls overlapped, none was lost, no session expired and no other tab
\* interfered since it was loaded (AuthContext.tsx: "this context only mirrors
\* the server state").  In particular a reload makes good whatever went before.
MirrorsWhenCalm ==
  Quiet /\ ~overlap /\ ~trouble =>
    user = cookie /\ status = IF cookie = None THEN "unauthenticated" ELSE "authenticated"

\* The same of calls that overlapped: what AuthContext.tsx:3 says.
Mirrors == Quiet /\ ~trouble => user = cookie

\* Once the user stops reloading the page, the spinner of ProtectedRoute ends,
\* also when getMe fails (AuthProvider's effect).
LoadingEnds == <>[][~Reload]_vars => (status = "loading" ~> status # "loading")

\* A logout leaves the tab without a user, whether or not the API was reached
\* (AuthProvider's logout).
LogoutResets == (\E c \in Calls : call[c].kind = "logout") ~> user = None
=============================================================================
