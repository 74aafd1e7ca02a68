----------------------------- MODULE Navigation -----------------------------
(***************************************************************************)
(* Which page a tab shows: the routes of App, the guard ProtectedRoute,    *)
(* the login, register and profile pages, over the session of the module   *)
(* Session.                                                                *)
(*                                                                         *)
(* Three things move at different times.  navigate() changes the address   *)
(* at once and asks React for a render with the new location; AuthProvider *)
(* changes its state and asks for a render with that; and the <Navigate>   *)
(* elements of what was rendered call navigate() in their effects.  React  *)
(* renders a state update before, or together with, a change of location,  *)
(* which the router asks for as a transition; and it runs the effects of   *)
(* one render before it starts the next.                                   *)
(*                                                                         *)
(* A location is a path and the path its state remembers as "from".  Every *)
(* from the client writes is a path of its own.                            *)
(***************************************************************************)
EXTENDS Session

CONSTANTS
  Home, Login, Profile, Create,
  Forms,      \* the login and register pages
  Protected,  \* the paths behind ProtectedRoute
  Open,       \* the paths anyone may see
  Moved       \* paths that only redirect to Create: /generate

Paths == Open \cup Forms \cup Protected \cup Moved

Locations == [path : Paths, from : Paths \cup {None}]

ASSUME PathsAssumption ==
  /\ Home \in Open /\ Login \in Forms /\ {Profile, Create} \subseteq Protected
  /\ Open \cap (Forms \cup Protected \cup Moved) = {}
  /\ Forms \cap (Protected \cup Moved) = {}
  /\ Protected \cap Moved = {}
  /\ None \notin Paths \cup Locations \cup Calls

VARIABLES
  url,    \* the address: the current entry of the browser's history
  moved,  \* navigate() was called since the last render with a new location
  at,     \* the location of the last render
  shown,  \* the status of the last render
  due,    \* what the effects of the last render will navigate to, or None
  form,   \* the call that the mounted page waits for, or None
  dest    \* where the continuation of a login or registration navigates

navVars == <<url, moved, at, shown, due, form, dest>>
allVars == <<vars, navVars>>

-----------------------------------------------------------------------------

Bare(path) == [path |-> path, from |-> None]

\* What the links of LoginPage and RegisterPage pass on, and their forms
\* navigate to: resolveSafeInternalPath.
From(l) == IF l.from = None THEN Home ELSE l.from

\* Mutant: the guard takes a session that is still loading for none.
HastyRedirect(l, s) ==
  IF l.path \in Protected /\ s # "authenticated" THEN [path |-> Login, from |-> l.path]
  ELSE IF l.path \in Forms /\ s = "authenticated" THEN Bare(Home)
  ELSE IF l.path \in Moved THEN Bare(Create)
  ELSE None

\* Mutant: LoginPage sends everybody back as soon as the session is known.
CircularRedirect(l, s) ==
  IF l.path \in Protected /\ s = "unauthenticated" THEN [path |-> Login, from |-> l.path]
  ELSE IF l.path \in Forms /\ s # "loading" THEN Bare(From(l))
  ELSE IF l.path \in Moved THEN Bare(Create)
  ELSE None

\* The <Navigate> element that the page of a location renders, or None.
Redirect(l, s) ==
  IF l.path \in Protected /\ s = "unauthenticated" THEN [path |-> Login, from |-> l.path]
  ELSE IF l.path \in Forms /\ s = "authenticated" THEN Bare(Home)
  ELSE IF l.path \in Moved THEN Bare(Create)
  ELSE None

Navigate(l) == url' = l /\ moved' = TRUE

\* React has no work left.
Idle == ~moved /\ shown = status /\ due = None

\* The links on the screen: the header's, those of the page, on the login and
\* register pages the one to the other, and on the home page those of AISearchBar
\* and PromoBanner.
Links ==
  {Bare(p) : p \in Open}
  \cup (IF shown = "authenticated"
          THEN {Bare(p) : p \in Protected}
          ELSE {Bare(p) : p \in Forms})
  \cup (IF at.path \in Forms /\ shown # "authenticated"
          THEN {[path |-> p, from |-> From(at)] : p \in Forms \ {at.path}}
          ELSE {})
  \cup (IF at.path = Home /\ shown # "authenticated"
          THEN {[path |-> Login, from |-> Home]}
          ELSE {})
  \cup (IF at.path = Home /\ shown = "unauthenticated"
          THEN {[path |-> Login, from |-> Create]}
          ELSE {})

\* What the entries of a history may be.
Entries ==
  {l \in Locations : IF l.path \in Forms THEN l.from \in {None, Home} \cup Protected
                                         ELSE l.from = None}

-----------------------------------------------------------------------------
(* What the user does. *)

Click(l) ==
  /\ l \in Links /\ Idle
  /\ Navigate(l)
  /\ UNCHANGED <<vars, at, shown, due, form, dest>>

\* Back or forward, within the tab's history.
Traverse(l) ==
  /\ l \in Entries /\ Idle
  /\ Navigate(l)
  /\ UNCHANGED <<vars, at, shown, due, form, dest>>

\* An address typed, or the page reloaded, which keeps the state of its entry.
Load(l) ==
  /\ Idle
  /\ l = url \/ l \in {Bare(p) : p \in Paths}
  /\ Reload
  /\ url' = l
  /\ moved' = FALSE
  /\ at' = l
  /\ shown' = "loading"
  /\ due' = Redirect(l, "loading")
  /\ form' = None
  /\ dest' = [c \in Calls |-> None]

\* The button of LoginForm or RegisterForm, its fields having passed validate.
SubmitForm(c, u) ==
  /\ Idle
  /\ at.path \in Forms /\ shown # "authenticated" /\ form = None
  /\ Submit(c, u)
  /\ form' = c
  /\ dest' = [dest EXCEPT ![c] = From(at)]
  /\ UNCHANGED <<url, moved, at, shown, due>>

\* The button of ProfilePage.
PressLogout(c) ==
  /\ Idle
  /\ at.path = Profile /\ shown = "authenticated" /\ form = None
  /\ Logout(c)
  /\ form' = c
  /\ UNCHANGED <<url, moved, at, shown, due, dest>>

-----------------------------------------------------------------------------
(* React. *)

\* The page is mounted still if it is the same component as before.
Rerender(l) ==
  /\ due = None
  /\ at' = l
  /\ shown' = status
  /\ due' = Redirect(l, status)
  /\ form' = IF l.path = at.path /\ Redirect(l, status) = None THEN form ELSE None
  /\ UNCHANGED <<vars, url, dest>>

\* A state update of AuthProvider.
RenderStatus == shown # status /\ Rerender(at) /\ UNCHANGED moved

\* The transition to a new location, with whatever else has changed.
RenderLocation == moved /\ Rerender(url) /\ moved' = FALSE

\* The effect of a <Navigate>.
RunRedirect ==
  /\ due # None
  /\ Navigate(due)
  /\ due' = None
  /\ UNCHANGED <<vars, at, shown, form, dest>>

-----------------------------------------------------------------------------
(* The calls: as in Session, and then the continuation of the page that    *)
(* made the call, which navigates even if that page is gone.               *)

AuthReturns(c) ==
  /\ AuthSettles(c)
  /\ dest' = [dest EXCEPT ![c] = None]
  /\ IF call[c].stage = "ok" THEN Navigate(Bare(dest[c])) ELSE UNCHANGED <<url, moved>>
  /\ form' = IF form = c THEN None ELSE form
  /\ UNCHANGED <<at, shown, due>>

\* ProfilePage leaves its button disabled and goes home.
LogoutReturns(c) ==
  /\ LogoutSettles(c)
  /\ Navigate(Bare(Home))
  /\ UNCHANGED <<at, shown, due, form, dest>>

MeReturns(c) == MeSettles(c) /\ UNCHANGED navVars

LoseCall(c) ==
  /\ Lost(c)
  /\ IF call[c].kind = "logout" THEN Navigate(Bare(Home)) ELSE UNCHANGED <<url, moved>>
  /\ form' = IF call[c].kind = "auth" /\ form = c THEN None ELSE form
  /\ dest' = [dest EXCEPT ![c] = None]
  /\ UNCHANGED <<at, shown, due>>

Elsewhere ==
  /\ Idle
  /\ \/ \E c \in Calls : Serve(c)
     \/ Expire
     \/ \E u \in Users \cup {None} : OtherTab(u)
  /\ UNCHANGED navVars

-----------------------------------------------------------------------------

NavInit ==
  /\ Init
  /\ url \in {Bare(p) : p \in Paths}
  /\ moved = FALSE
  /\ at = url
  /\ shown = "loading"
  /\ due = Redirect(url, "loading")
  /\ form = None
  /\ dest = [c \in Calls |-> None]

User ==
  \/ \E l \in Locations : Click(l) \/ Traverse(l) \/ Load(l)
  \/ \E c \in Calls : \/ \E u \in Users : SubmitForm(c, u)
                      \/ PressLogout(c)

Returns(c) == AuthReturns(c) \/ LogoutReturns(c) \/ MeReturns(c)

NavNext ==
  \/ User
  \/ RenderStatus \/ RenderLocation \/ RunRedirect
  \/ \E c \in Calls : Returns(c) \/ LoseCall(c)
  \/ Elsewhere

NavSpec == NavInit /\ [][NavNext]_allVars

\* As in Session; and React renders what it was asked to, and runs effects.
NavFairness ==
  /\ WF_allVars(RenderStatus) /\ WF_allVars(RenderLocation) /\ WF_allVars(RunRedirect)
  /\ \A c \in Calls : /\ WF_allVars(Serve(c) /\ UNCHANGED navVars)
                      /\ WF_allVars(Returns(c))

FairNavSpec == NavSpec /\ NavFairness

-----------------------------------------------------------------------------
(* Properties. *)

\* Every variable has its type.
NavTypeOK ==
  /\ TypeOK
  /\ url \in Locations
  /\ moved \in BOOLEAN
  /\ at \in Locations
  /\ shown \in {"loading", "authenticated", "unauthenticated"}
  /\ due \in Locations \cup {None}
  /\ form \in Calls \cup {None}
  /\ dest \in [Calls -> {Home} \cup Protected \cup {None}]

\* Nobody who has a session is sent to the login page, be it at the load of a
\* page or later, if calls are made one at a time and answered (ProtectedRoute
\* waits while the status is loading).
BouncesOnlyStrangers ==
  [][due' # due /\ due' \in Locations /\ due'.path = Login =>
       cookie = None \/ overlap \/ trouble]_allVars

\* The page shown is that of the address, it is neither a redirect nor the guard's
\* spinner, and no form is disabled.
AtRest ==
  /\ Idle /\ at = url
  /\ status # "loading"
  /\ Redirect(at, status) = None
  /\ at.path \in Forms => form = None

\* Once the user stops, the tab comes to rest (App, ProtectedRoute, LoginPage,
\* LoginForm).
ComesToRest == <>[][~User]_allVars => <>[]AtRest
=============================================================================
