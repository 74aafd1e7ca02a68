-------------------------- MODULE NavigationProofs --------------------------
(***************************************************************************)
(* Proofs about Session and Navigation, for any set of users, of paths and *)
(* of calls in flight: the tab mirrors the server as long as its calls are *)
(* made one at a time and answered, and then sends nobody with a session   *)
(* to the login page.                                                      *)
(***************************************************************************)
EXTENDS Navigation, TLAPS

Shown(u) == /\ user = u
            /\ status = IF u = None THEN "unauthenticated" ELSE "authenticated"

Call == [kind : Kinds, stage : Stages, as : Users \cup {None}] \cup {NoCall}

\* The calls the guard of the API looks at the session of.
Guarded(c) == call[c].kind = "me" \/ call[c].kind = "logout"

\* What a single call in flight knows, and what the tab shows meanwhile.
OneCall ==
  /\ \A c, d \in Calls : Pending(c) /\ Pending(d) => c = d
  /\ \A c \in Calls : Guarded(c) =>
       /\ call[c].as = cookie
       /\ call[c].stage = "ok" => cookie # None
       /\ call[c].stage = "refused" => cookie = None
  /\ \A c \in Calls : call[c].kind = "logout" => cookie # None
  /\ \A c \in Calls : call[c].kind = "auth" => cookie = None
  /\ \A c \in Calls : call[c].kind = "me" => status = "loading"
  /\ (\A c \in Calls : call[c].kind # "me") => Shown(cookie)

CalmInv == ~overlap /\ ~trouble => OneCall

AuthAs == \A c \in Calls : call[c].kind = "auth" => call[c].as # None

IInv == TypeOK /\ AuthAs /\ CalmInv

LEMMA KindsAndStages ==
  /\ Kinds = {"me", "auth", "logout"}
  /\ "sent" \in Stages /\ "ok" \in Stages /\ "refused" \in Stages
BY DEF Kinds, Stages

\* What a call in flight is, and what a free slot holds.
LEMMA CallFacts ==
  /\ NoCall.kind = "none" /\ NoCall.stage = "none"
  /\ \A x \in Call : x # NoCall => x.kind \in Kinds
  /\ \A x \in Call : x.as \in Users \cup {None}
  /\ \A x \in Call : x # NoCall <=> x.kind # "none"
<1>1. "none" \notin Kinds
  BY DEF Kinds
<1> QED
  BY <1>1 DEF Call, NoCall

LEMMA NewFacts ==
  ASSUME NEW kind \in Kinds, NEW u \in Users \cup {None}
  PROVE  /\ New(kind, u) \in Call /\ New(kind, u).kind = kind
         /\ New(kind, u).stage = "sent" /\ New(kind, u).as = u
BY KindsAndStages DEF New, Call

\* The record of a call is rewritten; the other calls are not.
LEMMA CallStep ==
  ASSUME call \in [Calls -> Call], NEW c \in Calls, NEW x \in Call,
         call' = [call EXCEPT ![c] = x]
  PROVE  /\ call' \in [Calls -> Call]
         /\ call'[c] = x
         /\ \A d \in Calls \ {c} : call'[d] = call[d]
OBVIOUS

LEMMA Typed == TypeOK => call \in [Calls -> Call]
BY DEF TypeOK, Call

LEMMA Retyped ==
  ASSUME cookie' \in Users \cup {None}, user' \in Users \cup {None},
         status' \in {"loading", "authenticated", "unauthenticated"},
         call' \in [Calls -> Call], overlap' \in BOOLEAN, trouble' \in BOOLEAN
  PROVE  TypeOK'
BY DEF TypeOK, Call

\* A page load.
LEMMA Loading ==
  ASSUME cookie' \in Users \cup {None}, user' = None, status' = "loading",
         NEW c \in Calls,
         call' = [d \in Calls |-> IF d = c THEN New("me", cookie') ELSE NoCall],
         overlap' = FALSE, trouble' = FALSE
  PROVE  IInv'
<1> DEFINE x == New("me", cookie')
<1>1. x \in Call /\ x.kind = "me" /\ x.stage = "sent" /\ x.as = cookie'
  BY KindsAndStages, NewFacts
<1>2. call'[c] = x /\ \A d \in Calls \ {c} : call'[d] = NoCall
  OBVIOUS
<1>3. call' \in [Calls -> Call]
  BY <1>1 DEF Call
<1> HIDE DEF x
<1>4. TypeOK'
  BY <1>3, Retyped
<1>5. \A d \in Calls \ {c} : call'[d] = NoCall /\ call'[d].kind = "none"
  BY <1>2, CallFacts
<1>6. AuthAs' /\ OneCall'
  BY <1>1, <1>2, <1>5 DEF AuthAs, OneCall, Pending, Guarded
<1> QED BY <1>4, <1>6 DEF IInv, CalmInv

\* A call is sent.
LEMMA SendKeepsInv ==
  ASSUME IInv, NEW c \in Calls, NEW kind \in {"auth", "logout"}, NEW u \in Users \cup {None},
         Send(c, kind, u), UNCHANGED <<cookie, user, status, trouble>>,
         status # "loading" \/ kind = "auth",
         kind = "auth" => u # None /\ status # "authenticated",
         kind = "logout" => u = cookie /\ status = "authenticated"
  PROVE  IInv'
<1> DEFINE x == New(kind, u)
<1>1. x \in Call /\ x.kind = kind /\ x.stage = "sent" /\ x.as = u
  BY KindsAndStages, NewFacts
<1>2. /\ call' \in [Calls -> Call]
      /\ call'[c] = x /\ \A d \in Calls \ {c} : call'[d] = call[d]
  BY <1>1, CallStep, Typed DEF Send, IInv
<1> HIDE DEF x
<1>3. TypeOK'
  BY <1>2, Retyped DEF IInv, TypeOK, Send
<1>4. AuthAs'
  BY <1>1, <1>2 DEF IInv, AuthAs
<1>5. ASSUME ~overlap', ~trouble' PROVE OneCall'
  <2>1. ~overlap /\ ~trouble /\ OneCall /\ \A d \in Calls : call[d] = NoCall
    BY <1>5 DEF Send, Quiet, Pending, IInv, CalmInv
  <2>2. \A d \in Calls : call[d].kind = "none"
    BY <2>1, CallFacts
  <2>3. Shown(cookie)
    BY <2>1, <2>2 DEF OneCall
  <2>4. \A d \in Calls \ {c} : call'[d] = NoCall /\ call'[d].kind = "none"
    BY <1>2, <2>1, <2>2
  <2>5. (kind = "auth" => cookie = None) /\ (kind = "logout" => cookie # None)
    BY <2>3 DEF Shown
  <2> QED
    BY <1>1, <1>2, <2>3, <2>4, <2>5 DEF OneCall, Pending, Guarded, Shown
<1> QED BY <1>3, <1>4, <1>5 DEF IInv, CalmInv

\* The slot of a call that is over.
LEMMA SettledFacts ==
  ASSUME TypeOK, NEW c \in Calls, Settled(c)
  PROVE  /\ call' \in [Calls -> Call]
         /\ call'[c] = NoCall /\ call'[c].kind = "none"
         /\ \A d \in Calls \ {c} : call'[d] = call[d]
<1>1. NoCall \in Call
  BY DEF Call
<1> QED
  BY <1>1, CallStep, CallFacts, Typed DEF Settled

\* A call settles that was the only one, and leaves the tab showing the session.
LEMMA LastSettles ==
  ASSUME IInv, NEW c \in Calls, Pending(c), OneCall, Settled(c), Shown(cookie)'
  PROVE  OneCall'
<1>1. \A d \in Calls : call'[d] = NoCall /\ call'[d].kind = "none"
  BY SettledFacts, CallFacts DEF IInv, OneCall, Pending
<1> QED
  BY <1>1 DEF OneCall, Pending, Guarded

\* A call settles without a session having been changed under it.
LEMMA SettlesKeepsInv ==
  ASSUME IInv, NEW c \in Calls, Settles(c)
  PROVE  IInv'
<1>1. /\ Settled(c) /\ UNCHANGED <<overlap, trouble>>
      /\ call[c].kind \in Kinds /\ call[c].as \in Users \cup {None}
      /\ call[c].stage \in {"ok", "refused"} /\ Arrive(c)
  BY Typed, CallFacts, KindsAndStages
     DEF Settles, MeSettles, AuthSettles, LogoutSettles, Answered, IInv
<1>2. Pending(c)
  BY <1>1, CallFacts, KindsAndStages DEF Pending, Kinds
<1>3. AuthAs'
  BY <1>1, SettledFacts DEF IInv, AuthAs
<1>4. CASE MeSettles(c)
  <2>1. call[c].kind = "me" /\ cookie' = cookie
        /\ Show(IF call[c].stage = "ok" THEN call[c].as ELSE None)
    BY <1>4 DEF MeSettles, Answered, Arrive
  <2>2. TypeOK'
    BY <1>1, <2>1, SettledFacts, Retyped DEF IInv, TypeOK, Show
  <2>3. ASSUME ~overlap', ~trouble' PROVE OneCall'
    <3>1. OneCall
      BY <1>1, <2>3 DEF IInv, CalmInv
    <3>2. Shown(cookie)'
      BY <1>1, <2>1, <3>1 DEF OneCall, Guarded, Show, Shown
    <3> QED BY <1>1, <1>2, <3>1, <3>2, LastSettles
  <2> QED BY <1>3, <2>2, <2>3 DEF IInv, CalmInv
<1>5. CASE AuthSettles(c)
  <2>1. call[c].kind = "auth" /\ call[c].as \in Users
        /\ IF call[c].stage = "ok" THEN cookie' = call[c].as /\ Show(call[c].as)
                                   ELSE UNCHANGED <<cookie, user, status>>
    BY <1>1, <1>5 DEF AuthSettles, Answered, Arrive, IInv, AuthAs
  <2>2. TypeOK'
    BY <1>1, <2>1, SettledFacts, Retyped DEF IInv, TypeOK, Show
  <2>3. ASSUME ~overlap', ~trouble' PROVE OneCall'
    <3>1. OneCall
      BY <1>1, <2>3 DEF IInv, CalmInv
    <3>2. \A d \in Calls : call[d].kind # "me"
      BY <1>2, <2>1, <3>1, CallFacts, Typed DEF OneCall, Pending, IInv
    <3>3. Shown(cookie)'
      BY <2>1, <3>1, <3>2 DEF OneCall, Show, Shown
    <3> QED BY <1>1, <1>2, <3>1, <3>3, LastSettles
  <2> QED BY <1>3, <2>2, <2>3 DEF IInv, CalmInv
<1>6. CASE LogoutSettles(c)
  <2>1. call[c].kind = "logout" /\ Show(None)
        /\ cookie' = IF call[c].stage = "ok" THEN None ELSE cookie
    BY <1>6 DEF LogoutSettles, Answered, Arrive
  <2>2. TypeOK'
    BY <1>1, <2>1, SettledFacts, Retyped DEF IInv, TypeOK, Show
  <2>3. ASSUME ~overlap', ~trouble' PROVE OneCall'
    <3>1. OneCall
      BY <1>1, <2>3 DEF IInv, CalmInv
    <3>2. Shown(cookie)'
      BY <1>1, <2>1, <3>1 DEF OneCall, Guarded, Show, Shown
    <3> QED BY <1>1, <1>2, <3>1, <3>2, LastSettles
  <2> QED BY <1>3, <2>2, <2>3 DEF IInv, CalmInv
<1> QED
  BY <1>4, <1>5, <1>6 DEF Settles

\* What was sent is served.
LEMMA ServeKeepsInv ==
  ASSUME IInv, NEW c \in Calls, Serve(c)
  PROVE  IInv'
<1>1. PICK stage \in {"ok", "refused"} :
        /\ call[c].kind \in {"me", "logout"} => (stage = "ok" <=> call[c].as # None)
        /\ call' = [call EXCEPT ![c].stage = stage]
  BY DEF Serve
<1>2. call[c].stage = "sent" /\ UNCHANGED <<cookie, user, status, overlap, trouble>>
  BY DEF Serve
<1>3. call[c] \in Call /\ call[c] # NoCall
  BY <1>2, Typed, CallFacts DEF IInv
<1> DEFINE x == [call[c] EXCEPT !.stage = stage]
<1>4. x \in Call /\ x.kind = call[c].kind /\ x.as = call[c].as /\ x.stage = stage
  BY <1>3, KindsAndStages DEF Call
<1>5. call' = [call EXCEPT ![c] = x]
  BY <1>1, Typed DEF IInv
<1> HIDE DEF x
<1>6. /\ call' \in [Calls -> Call]
      /\ call'[c] = x /\ \A d \in Calls \ {c} : call'[d] = call[d]
  BY <1>4, <1>5, Typed, CallStep DEF IInv
<1>7. TypeOK'
  BY <1>2, <1>6, Retyped DEF IInv, TypeOK
<1>8. AuthAs'
  BY <1>4, <1>6 DEF IInv, AuthAs
<1>9. x # NoCall
  BY <1>3, <1>4, CallFacts
<1>10. \A d \in Calls : (Pending(d)' <=> Pending(d)) /\ call'[d].kind = call[d].kind
                        /\ call'[d].as = call[d].as
  BY <1>3, <1>4, <1>6, <1>9 DEF Pending
<1>11. ASSUME ~overlap', ~trouble' PROVE OneCall'
  <2>1. OneCall
    BY <1>2, <1>11 DEF IInv, CalmInv
  <2>2. ASSUME NEW d \in Calls, Guarded(d)'
        PROVE  /\ call'[d].as = cookie
               /\ call'[d].stage = "ok" => cookie # None
               /\ call'[d].stage = "refused" => cookie = None
    <3>1. Guarded(d) /\ call[d].as = cookie
      BY <1>10, <2>1, <2>2 DEF Guarded, OneCall
    <3>2. CASE d = c
      BY <1>1, <1>4, <1>6, <3>1, <3>2 DEF Guarded
    <3>3. CASE d # c
      BY <1>6, <2>1, <3>1, <3>3 DEF OneCall
    <3> QED BY <3>2, <3>3
  <2> QED BY <1>2, <1>10, <2>1, <2>2 DEF OneCall, Shown
<1> QED BY <1>7, <1>8, <1>11 DEF IInv, CalmInv

\* A call is lost, the session ends, or another tab changes it.
LEMMA TroubleKeepsInv ==
  ASSUME IInv,
         \/ \E c \in Calls : Lost(c)
         \/ Expire
         \/ \E u \in Users \cup {None} : OtherTab(u)
  PROVE  IInv'
<1>1. ASSUME NEW c \in Calls, Lost(c)
      PROVE  TypeOK' /\ AuthAs'
  <2>1. cookie' \in Users \cup {None}
    <3>1. call[c].kind \in Kinds /\ call[c].as \in Users \cup {None}
      BY <1>1, Typed, CallFacts DEF Lost, IInv, Pending
    <3>2. cookie' = cookie \/ Arrive(c)
      BY <1>1 DEF Lost
    <3> QED BY <3>1, <3>2, KindsAndStages DEF Arrive, IInv, TypeOK
  <2>2. Settled(c) /\ trouble' = TRUE /\ overlap' = overlap
        /\ user' \in {user, None} /\ status' \in {status, "unauthenticated"}
    BY <1>1 DEF Lost, Show
  <2>3. TypeOK'
    BY <2>1, <2>2, SettledFacts, Retyped DEF IInv, TypeOK
  <2> QED
    BY <2>2, <2>3, SettledFacts DEF IInv, AuthAs
<1>2. CASE Expire
  <2> DEFINE Ended(c) == IF call[c].kind \in {"me", "logout"} /\ call[c].stage = "sent"
                           THEN [call[c] EXCEPT !.as = None] ELSE call[c]
  <2>1. call' = [c \in Calls |-> Ended(c)]
    BY <1>2 DEF Expire
  <2>2. ASSUME NEW c \in Calls
        PROVE  /\ Ended(c) \in Call
               /\ Ended(c).kind = "auth" => Ended(c) = call[c]
    <3>1. call[c] \in Call
      BY Typed DEF IInv
    <3>2. CASE call[c].kind \in {"me", "logout"} /\ call[c].stage = "sent"
      <4>1. call[c] \in [kind : Kinds, stage : Stages, as : Users \cup {None}]
        BY <3>1, <3>2, CallFacts DEF Call
      <4>2. Ended(c) = [call[c] EXCEPT !.as = None]
        BY <3>2
      <4> HIDE DEF Ended
      <4>3. Ended(c) \in Call /\ Ended(c).kind = call[c].kind
        BY <4>1, <4>2 DEF Call
      <4> QED BY <3>2, <4>3
    <3> QED BY <3>1, <3>2
  <2> HIDE DEF Ended
  <2>3. call' \in [Calls -> Call]
    BY <2>1, <2>2
  <2>4. TypeOK'
    BY <1>2, <2>3, Retyped DEF Expire, IInv, TypeOK
  <2>5. AuthAs'
    BY <2>1, <2>2 DEF IInv, AuthAs
  <2> QED BY <1>2, <2>4, <2>5 DEF IInv, CalmInv, Expire
<1>3. ASSUME NEW u \in Users \cup {None}, OtherTab(u)
      PROVE  IInv'
  BY <1>3, Typed, Retyped DEF OtherTab, IInv, AuthAs, CalmInv, TypeOK
<1>4. ASSUME NEW c \in Calls, Lost(c)
      PROVE  IInv'
  BY <1>1, <1>4 DEF Lost, IInv, CalmInv
<1> QED BY <1>2, <1>3, <1>4

\* Every step of the session keeps the invariant.
LEMMA SessionStep ==
  ASSUME IInv, [Next]_vars
  PROVE  IInv'
<1>1. CASE UNCHANGED vars
  BY <1>1 DEF vars, IInv, TypeOK, AuthAs, CalmInv, OneCall, Pending, Guarded, Shown
<1>2. ASSUME NEW c \in Calls, NEW u \in Users, Submit(c, u) PROVE IInv'
  BY <1>2, SendKeepsInv, NoneAssumption DEF Submit
<1>3. ASSUME NEW c \in Calls, Logout(c) PROVE IInv'
  BY <1>3, SendKeepsInv DEF Logout, IInv, TypeOK
<1>4. CASE Reload
  BY <1>4, Loading DEF Reload, IInv, TypeOK
<1> QED
  BY <1>1, <1>2, <1>3, <1>4, ServeKeepsInv, SettlesKeepsInv, TroubleKeepsInv DEF Next

LEMMA SessionStart ==
  ASSUME Init
  PROVE  IInv
<1>1. PICK c \in Calls : call = [d \in Calls |-> IF d = c THEN New("me", cookie) ELSE NoCall]
  BY DEF Init
<1> DEFINE x == New("me", cookie)
<1>2. x \in Call /\ x.kind = "me" /\ x.stage = "sent" /\ x.as = cookie
  BY KindsAndStages, NewFacts DEF Init
<1>3. call[c] = x /\ \A d \in Calls \ {c} : call[d] = NoCall
  BY <1>1
<1>4. call \in [Calls -> Call]
  BY <1>1, <1>2 DEF Call
<1> HIDE DEF x
<1>5. TypeOK
  BY <1>4 DEF Init, TypeOK, Call
<1>6. \A d \in Calls \ {c} : call[d] = NoCall /\ call[d].kind = "none"
  BY <1>3, CallFacts
<1>7. AuthAs /\ OneCall
  BY <1>2, <1>3, <1>6 DEF AuthAs, OneCall, Pending, Guarded, Init
<1> QED BY <1>5, <1>7 DEF IInv, CalmInv

LEMMA Mirrored == IInv => MirrorsWhenCalm
<1> SUFFICES ASSUME IInv, Quiet, ~overlap, ~trouble
             PROVE  Shown(cookie)
  BY DEF MirrorsWhenCalm, Shown
<1>1. \A c \in Calls : call[c].kind = "none"
  BY CallFacts DEF Quiet, Pending
<1> QED BY <1>1 DEF IInv, CalmInv, OneCall

\* Every variable of the session keeps its type.
THEOREM TypeCorrect == Spec => []TypeOK
<1>1. IInv /\ [Next]_vars => IInv'
  BY SessionStep
<1>2. Init => IInv
  BY SessionStart
<1>3. IInv => TypeOK
  BY DEF IInv
<1> QED BY <1>1, <1>2, <1>3, PTL DEF Spec

\* A tab whose calls were made one at a time and answered shows the user of the
\* cookie whenever none is in flight (AuthProvider).
THEOREM MirrorsTheServer == Spec => []MirrorsWhenCalm
<1>1. IInv /\ [Next]_vars => IInv'
  BY SessionStep
<1>2. Init => IInv
  BY SessionStart
<1> QED BY <1>1, <1>2, Mirrored, PTL DEF Spec

-----------------------------------------------------------------------------
(* The pages. *)

\* Where a login or a registration may lead to.
Targets == {Home} \cup Protected

PagesOK ==
  /\ url \in Entries /\ at \in Entries /\ due \in Entries \cup {None}
  /\ moved \in BOOLEAN
  /\ shown \in {"loading", "authenticated", "unauthenticated"}
  /\ form \in Calls \cup {None}
  /\ dest \in [Calls -> Targets \cup {None}]

\* A form in flight knows where to go.
DestInv == \A c \in Calls : call[c].kind = "auth" => dest[c] \in Targets

NavInv == IInv /\ PagesOK /\ DestInv

LEMMA PathFacts ==
  /\ Home \in Paths /\ Login \in Paths /\ Targets \subseteq Paths
  /\ Create \in Protected /\ Create \in Paths /\ Create # Login
  /\ Home # Login /\ Login \in Forms
  /\ None \notin Paths /\ None \notin Locations /\ None \notin Targets
BY PathsAssumption DEF Paths, Targets

LEMMA BareIsEntry ==
  ASSUME NEW p \in Paths
  PROVE  Bare(p) \in Entries /\ Bare(p).path = p
BY DEF Bare, Entries, Locations

LEMMA EntryFacts ==
  ASSUME NEW e \in Entries
  PROVE  /\ e \in Locations /\ e # None /\ e.path \in Paths
         /\ e.path \in Forms => From(e) \in Targets
<1>1. e \in Locations /\ (e.path \in Forms => e.from \in {None, Home} \cup Protected)
  BY DEF Entries
<1> QED
  BY <1>1, PathFacts DEF Locations, From, Targets

\* Of all redirects only that of ProtectedRoute leads to the login page.
LEMMA RedirectFacts ==
  ASSUME NEW e \in Entries, NEW s
  PROVE  /\ Redirect(e, s) \in Entries \cup {None}
         /\ Redirect(e, s) # None /\ Redirect(e, s).path = Login => s = "unauthenticated"
<1>1. CASE e.path \in Protected /\ s = "unauthenticated"
  <2> DEFINE l == [path |-> Login, from |-> e.path]
  <2>1. l \in Locations /\ l.path = Login /\ l.from \in Protected
    BY <1>1, EntryFacts, PathFacts DEF Locations
  <2>2. l \in Entries
    BY <2>1, PathFacts DEF Entries
  <2>3. Redirect(e, s) = l
    BY <1>1 DEF Redirect
  <2> QED BY <1>1, <2>2, <2>3
<1>2. CASE ~(e.path \in Protected /\ s = "unauthenticated")
  <2>1. CASE e.path \in Forms /\ s = "authenticated"
    BY <1>2, <2>1, PathFacts, BareIsEntry DEF Redirect
  <2>2. CASE ~(e.path \in Forms /\ s = "authenticated") /\ e.path \in Moved
    BY <1>2, <2>2, PathFacts, BareIsEntry DEF Redirect
  <2>3. CASE ~(e.path \in Forms /\ s = "authenticated") /\ e.path \notin Moved
    BY <1>2, <2>3 DEF Redirect
  <2> QED BY <2>1, <2>2, <2>3
<1> QED BY <1>1, <1>2

\* What a step that only serves, ends or replaces sessions does to the calls.
LEMMA KindsKept ==
  ASSUME TypeOK,
         \/ \E c \in Calls : Serve(c)
         \/ Expire
         \/ \E u \in Users \cup {None} : OtherTab(u)
  PROVE  \A d \in Calls : call'[d].kind = call[d].kind
<1>0. call \in [Calls -> Call]
  BY Typed
<1>1. ASSUME NEW c \in Calls, Serve(c)
      PROVE  \A d \in Calls : call'[d].kind = call[d].kind
  <2>1. PICK stage \in {"ok", "refused"} : call' = [call EXCEPT ![c].stage = stage]
    BY <1>1 DEF Serve
  <2>2. \A d \in Calls : call'[d] = IF d = c THEN [call[d] EXCEPT !.stage = stage] ELSE call[d]
    BY <1>0, <2>1
  <2>3. call[c] \in Call /\ [call[c] EXCEPT !.stage = stage].kind = call[c].kind
    BY <1>0 DEF Call, NoCall
  <2> QED BY <2>2, <2>3
<1>2. ASSUME Expire, NEW d \in Calls
      PROVE  call'[d].kind = call[d].kind
  <2>1. call'[d] = IF call[d].kind \in {"me", "logout"} /\ call[d].stage = "sent"
                     THEN [call[d] EXCEPT !.as = None] ELSE call[d]
    BY <1>2 DEF Expire
  <2>2. call[d] \in Call /\ [call[d] EXCEPT !.as = None].kind = call[d].kind
    BY <1>0 DEF Call, NoCall
  <2> QED BY <2>1, <2>2
<1>3. ASSUME NEW u \in Users \cup {None}, OtherTab(u)
      PROVE  call' = call
  BY <1>3 DEF OtherTab
<1> QED BY <1>1, <1>2, <1>3

\* Every step of a tab is one of its session, or leaves that alone.
LEMMA NavSteps ==
  ASSUME [NavNext]_allVars
  PROVE  [Next]_vars
<1>1. ASSUME NEW l \in Locations, Click(l) \/ Traverse(l) \/ Load(l)
      PROVE  [Next]_vars
  BY <1>1 DEF Click, Traverse, Load, Next
<1>2. ASSUME NEW c \in Calls, NEW u \in Users, SubmitForm(c, u)
      PROVE  Next
  BY <1>2 DEF SubmitForm, Next
<1>3. ASSUME NEW c \in Calls, PressLogout(c)
      PROVE  Next
  BY <1>3 DEF PressLogout, Next
<1>4. CASE RenderStatus \/ RenderLocation \/ RunRedirect
  BY <1>4 DEF RenderStatus, RenderLocation, RunRedirect, Rerender
<1>5. ASSUME NEW c \in Calls, Returns(c)
      PROVE  Next
  BY <1>5 DEF Returns, AuthReturns, LogoutReturns, MeReturns, Next, Settles
<1>6. ASSUME NEW c \in Calls, LoseCall(c)
      PROVE  Next
  BY <1>6 DEF LoseCall, Next
<1>7. CASE Elsewhere
  BY <1>7 DEF Elsewhere, Next
<1>8. CASE UNCHANGED allVars
  BY <1>8 DEF allVars
<1> QED
  BY <1>1, <1>2, <1>3, <1>4, <1>5, <1>6, <1>7, <1>8 DEF NavNext, User

\* A render.
LEMMA RerenderKeepsInv ==
  ASSUME NavInv, NEW l \in Entries, Rerender(l), moved' \in BOOLEAN
  PROVE  NavInv'
<1>1. /\ UNCHANGED <<vars, url, dest>> /\ at' = l /\ shown' = status
      /\ due' = Redirect(l, status) /\ form' \in {form, None}
  BY DEF Rerender
<1>2. IInv'
  BY <1>1, SessionStep DEF NavInv
<1>3. due' \in Entries \cup {None}
  BY <1>1, RedirectFacts
<1>4. PagesOK'
  BY <1>1, <1>3 DEF NavInv, IInv, TypeOK, PagesOK
<1>5. call' = call
  BY <1>1 DEF vars
<1> QED
  BY <1>1, <1>2, <1>4, <1>5 DEF NavInv, DestInv

\* A call settles or is lost.
LEMMA CallEndKeepsInv ==
  ASSUME NavInv, NEW c \in Calls, Returns(c) \/ LoseCall(c)
  PROVE  NavInv'
<1>1. IInv'
  BY NavSteps, SessionStep DEF NavInv, NavNext
<1>2. Settled(c) /\ UNCHANGED <<at, shown, due>>
  BY DEF Returns, LoseCall, AuthReturns, LogoutReturns, MeReturns, AuthSettles, LogoutSettles,
         MeSettles, Lost, navVars
<1>3. form' \in {form, None} /\ (dest' = dest \/ dest' = [dest EXCEPT ![c] = None])
  BY DEF Returns, LoseCall, AuthReturns, LogoutReturns, MeReturns, navVars
<1>4. Bare(Home) \in Entries /\ (AuthReturns(c) => Bare(dest[c]) \in Entries)
  BY BareIsEntry, PathFacts DEF AuthReturns, AuthSettles, Answered, NavInv, DestInv
<1>5. url' \in Entries /\ moved' \in BOOLEAN
  <2>1. CASE AuthReturns(c)
    <3>1. (url' = Bare(dest[c]) /\ moved' = TRUE) \/ (url' = url /\ moved' = moved)
      BY <2>1 DEF AuthReturns, Navigate
    <3> QED BY <1>4, <2>1, <3>1 DEF NavInv, PagesOK
  <2>2. CASE LogoutReturns(c) \/ LoseCall(c) \/ MeReturns(c)
    <3>1. (url' = Bare(Home) /\ moved' = TRUE) \/ (url' = url /\ moved' = moved)
      BY <2>2 DEF LogoutReturns, LoseCall, MeReturns, Navigate, navVars
    <3> QED BY <1>4, <3>1 DEF NavInv, PagesOK
  <2> QED BY <2>1, <2>2 DEF Returns
<1>6. dest' \in [Calls -> Targets \cup {None}] /\ \A d \in Calls \ {c} : dest'[d] = dest[d]
  BY <1>3 DEF NavInv, PagesOK
<1>7. PagesOK'
  BY <1>2, <1>3, <1>5, <1>6 DEF NavInv, PagesOK
<1>8. /\ call'[c].kind = "none"
      /\ \A d \in Calls \ {c} : call'[d] = call[d]
  BY <1>2, SettledFacts DEF NavInv, IInv
<1>9. DestInv'
  BY <1>6, <1>8 DEF NavInv, DestInv
<1> QED
  BY <1>1, <1>7, <1>9 DEF NavInv

\* The user submits a form, or logs out.
LEMMA CallStartKeepsInv ==
  ASSUME NavInv, NEW c \in Calls,
         (\E u \in Users : SubmitForm(c, u)) \/ PressLogout(c)
  PROVE  NavInv'
<1>1. IInv'
  BY NavSteps, SessionStep DEF NavInv, NavNext, User
<1>2. PICK kind \in {"auth", "logout"}, u \in Users \cup {None} :
        /\ Send(c, kind, u)
        /\ IF kind = "auth" THEN at.path \in Forms /\ dest' = [dest EXCEPT ![c] = From(at)]
                            ELSE dest' = dest
  BY DEF SubmitForm, PressLogout, Submit, Logout, NavInv, IInv, TypeOK
<1>3. form' = c /\ UNCHANGED <<url, moved, at, shown, due>>
  BY DEF SubmitForm, PressLogout
<1>4. New(kind, u) \in Call /\ New(kind, u).kind = kind
  BY NewFacts, KindsAndStages
<1>5. call'[c].kind = kind /\ \A d \in Calls \ {c} : call'[d] = call[d]
  BY <1>2, <1>4, CallStep, Typed DEF Send, NavInv, IInv
<1>6. kind = "auth" => From(at) \in Targets
  BY <1>2, EntryFacts DEF NavInv, PagesOK
<1>7. PagesOK'
  <2>1. dest' \in [Calls -> Targets \cup {None}]
    BY <1>2, <1>6 DEF NavInv, PagesOK
  <2> QED BY <1>3, <2>1 DEF NavInv, PagesOK
<1>8. DestInv'
  <2>1. dest \in [Calls -> Targets \cup {None}]
    BY DEF NavInv, PagesOK
  <2> QED BY <1>2, <1>5, <1>6, <2>1 DEF NavInv, DestInv
<1> QED
  BY <1>1, <1>7, <1>8 DEF NavInv

\* A page is loaded.
LEMMA LoadKeepsInv ==
  ASSUME NavInv, NEW l \in Locations, Load(l)
  PROVE  NavInv'
<1>1. IInv'
  BY NavSteps, SessionStep DEF NavInv, NavNext, User
<1>2. l \in Entries
  BY BareIsEntry DEF Load, NavInv, PagesOK
<1>3. due' \in Entries \cup {None}
  BY <1>2, RedirectFacts DEF Load
<1>4. PagesOK'
  BY <1>2, <1>3 DEF Load, PagesOK
<1>5. PICK c \in Calls : call' = [d \in Calls |-> IF d = c THEN New("me", cookie) ELSE NoCall]
  BY DEF Load, Reload
<1>6. New("me", cookie).kind = "me" /\ NoCall.kind = "none"
  BY DEF New, NoCall
<1>7. \A d \in Calls : call'[d].kind # "auth"
  BY <1>5, <1>6
<1> QED
  BY <1>1, <1>4, <1>7 DEF NavInv, DestInv

\* Every step keeps the invariant.
LEMMA NavStep ==
  ASSUME NavInv, [NavNext]_allVars
  PROVE  NavInv'
<1>1. ASSUME NEW l \in Locations, Click(l) \/ Traverse(l)
      PROVE  NavInv'
  <2>1. l \in Entries
    <3>1. CASE l \in Links
      <4>1. CASE \E p \in Paths : l = Bare(p)
        BY <4>1, BareIsEntry
      <4>2. CASE at.path \in Forms /\ \E p \in Forms : l = [path |-> p, from |-> From(at)]
        BY <4>2, EntryFacts, PathFacts DEF NavInv, PagesOK, Entries, Targets
      <4>3. CASE \E p \in {Home, Create} : l = [path |-> Login, from |-> p]
        BY <4>3, PathFacts DEF Entries, Targets
      <4> QED BY <3>1, <4>1, <4>2, <4>3 DEF Links, Paths
    <3>2. CASE l \in Entries
      BY <3>2
    <3> QED BY <1>1, <3>1, <3>2 DEF Click, Traverse
  <2>2. url' = l /\ moved' = TRUE /\ UNCHANGED <<vars, at, shown, due, form, dest>>
    BY <1>1 DEF Click, Traverse, Navigate
  <2>3. IInv'
    BY <2>2, SessionStep DEF NavInv
  <2>4. call' = call
    BY <2>2 DEF vars
  <2> QED BY <2>1, <2>2, <2>3, <2>4 DEF NavInv, PagesOK, DestInv
<1>2. CASE RenderStatus
  BY <1>2, RerenderKeepsInv DEF RenderStatus, NavInv, PagesOK
<1>3. CASE RenderLocation
  BY <1>3, RerenderKeepsInv DEF RenderLocation, NavInv, PagesOK
<1>4. CASE RunRedirect
  <2>1. /\ url' = due /\ due \in Entries /\ moved' = TRUE /\ due' = None
        /\ UNCHANGED <<vars, at, shown, form, dest>>
    BY <1>4 DEF RunRedirect, Navigate, NavInv, PagesOK
  <2>2. IInv'
    BY <2>1, SessionStep DEF NavInv
  <2>3. call' = call
    BY <2>1 DEF vars
  <2> QED BY <2>1, <2>2, <2>3 DEF NavInv, PagesOK, DestInv
<1>5. CASE Elsewhere
  <2>1. IInv'
    BY <1>5, NavSteps, SessionStep DEF NavInv, NavNext
  <2>2. UNCHANGED navVars
    BY <1>5 DEF Elsewhere
  <2>3. \A d \in Calls : call'[d].kind = call[d].kind
    BY <1>5, KindsKept DEF Elsewhere, NavInv, IInv
  <2> QED BY <2>1, <2>2, <2>3 DEF NavInv, PagesOK, DestInv, navVars
<1>6. CASE UNCHANGED allVars
  <2>1. IInv' /\ call' = call /\ UNCHANGED navVars
    BY <1>6, SessionStep DEF NavInv, allVars, vars
  <2> QED BY <2>1 DEF NavInv, PagesOK, DestInv, navVars
<1> QED
  BY <1>1, <1>2, <1>3, <1>4, <1>5, <1>6, LoadKeepsInv, CallStartKeepsInv, CallEndKeepsInv
     DEF NavNext, User

LEMMA NavStart ==
  ASSUME NavInit
  PROVE  NavInv
<1>1. IInv
  BY SessionStart DEF NavInit
<1>2. url \in Entries /\ Redirect(url, "loading") \in Entries \cup {None}
  BY BareIsEntry, RedirectFacts DEF NavInit
<1>3. PagesOK
  BY <1>2 DEF NavInit, PagesOK
<1>4. PICK c \in Calls : call = [d \in Calls |-> IF d = c THEN New("me", cookie) ELSE NoCall]
  BY DEF NavInit, Init
<1>5. New("me", cookie).kind = "me" /\ NoCall.kind = "none"
  BY DEF New, NoCall
<1>6. \A d \in Calls : call[d].kind # "auth"
  BY <1>4, <1>5
<1> QED
  BY <1>1, <1>3, <1>6 DEF NavInv, DestInv

\* Every variable of a tab keeps its type.
THEOREM NavTypeCorrect == NavSpec => []NavTypeOK
<1>1. NavInv /\ [NavNext]_allVars => NavInv'
  BY NavStep
<1>2. NavInit => NavInv
  BY NavStart
<1>3. NavInv => NavTypeOK
  BY EntryFacts DEF NavInv, IInv, PagesOK, NavTypeOK, Targets
<1> QED BY <1>1, <1>2, <1>3, PTL DEF NavSpec

\* Whatever the pages do, the tab mirrors the server when it is calm.
THEOREM PagesMirror == NavSpec => []MirrorsWhenCalm
<1>1. NavInv /\ [NavNext]_allVars => NavInv'
  BY NavStep
<1>2. NavInit => NavInv
  BY NavStart
<1>3. NavInv => MirrorsWhenCalm
  BY Mirrored DEF NavInv
<1> QED BY <1>1, <1>2, <1>3, PTL DEF NavSpec

\* ProtectedRoute sends nobody to the login page who has a session, if calls are
\* made one at a time and answered.
THEOREM OnlyStrangersBounce == NavSpec => BouncesOnlyStrangers
<1> DEFINE Bounced == due' # due /\ due' \in Locations /\ due'.path = Login
           Stranger == cookie = None \/ overlap \/ trouble
<1>1. NavInv /\ [NavNext]_allVars => NavInv'
  BY NavStep
<1>2. NavInit => NavInv
  BY NavStart
<1>3. ASSUME NavInv, [NavNext]_allVars, Bounced
      PROVE  Stranger
  <2>1. due' # None
    BY <1>3, PathFacts
  <2>2. PICK e \in Entries, s \in {status, "loading"} : due' = Redirect(e, s)
    <3>1. CASE RenderStatus \/ RenderLocation
      BY <1>3, <3>1 DEF RenderStatus, RenderLocation, Rerender, NavInv, PagesOK
    <3>2. ASSUME NEW l \in Locations, Load(l)
          PROVE  l \in Entries /\ due' = Redirect(l, "loading")
      BY <1>3, <3>2, BareIsEntry DEF Load, NavInv, PagesOK
    <3> QED
      BY <1>3, <2>1, <3>1, <3>2
         DEF NavNext, User, Click, Traverse, SubmitForm, PressLogout, RunRedirect, Returns,
             AuthReturns, LogoutReturns, MeReturns, LoseCall, Elsewhere, navVars, allVars
  <2>3. status = "unauthenticated"
    BY <1>3, <2>1, <2>2, RedirectFacts
  <2>4. CASE ~overlap /\ ~trouble
    <3>1. OneCall
      BY <1>3, <2>4 DEF NavInv, IInv, CalmInv
    <3>2. Shown(cookie)
      BY <2>3, <3>1 DEF OneCall
    <3> QED BY <2>3, <3>2 DEF Shown
  <2> QED BY <2>4
<1>4. NavInv /\ [NavNext]_allVars => [Bounced => Stranger]_allVars
  BY <1>3
<1> QED BY <1>1, <1>2, <1>4, PTL DEF NavSpec, BouncesOnlyStrangers
-----------------------------------------------------------------------------
(* Coming to rest: that it happens is left to the fairness of a run; that  *)
(* the tab can stop nowhere else, and that redirects do not chase one      *)
(* another, is proved here.                                                *)

\* A render that shows an old address is followed by another, and so is one whose
\* redirect has not run.
Rendered ==
  /\ ~moved => at = url
  /\ ~moved => due = Redirect(at, shown)

\* A disabled form waits for a login or a registration; the button of the profile
\* page stays disabled until that page is left.
FormWaits ==
  form # None => \/ at.path \in Forms /\ call[form].kind = "auth"
                 \/ at.path = Profile

\* The spinner waits for getMe.
SpinnerWaits == status = "loading" => \E c \in Calls : call[c].kind = "me"

RestInv == NavInv /\ Rendered /\ FormWaits /\ SpinnerWaits

\* A page whose <Navigate> has nowhere to lead to stays where it is: no location
\* starts more than two redirects.
LEMMA RedirectChain ==
  ASSUME NEW l \in Locations, NEW s,
         Redirect(l, s) # None, Redirect(Redirect(l, s), s) # None
  PROVE  Redirect(Redirect(Redirect(l, s), s), s) = None
<1>1. /\ \A p : Bare(p).path = p
      /\ \A p : [path |-> Login, from |-> p].path = Login
  BY DEF Bare
<1>2. /\ Home \notin Protected \cup Forms \cup Moved
      /\ Login \notin Protected \cup Moved
      /\ Create \notin Forms \cup Moved
      /\ Forms \cap Moved = {}
  BY PathsAssumption
<1>3. Redirect(Bare(Home), s) = None
  BY <1>1, <1>2 DEF Redirect
<1>4. ASSUME NEW m, m.path = Login
      PROVE  Redirect(m, s) \in {None, Bare(Home)} /\ (s = "unauthenticated" => Redirect(m, s) = None)
  BY <1>2, <1>4 DEF Redirect
<1>5. CASE l.path \in Protected /\ s = "unauthenticated"
  <2> DEFINE m == [path |-> Login, from |-> l.path]
  <2>1. Redirect(l, s) = m /\ m.path = Login
    BY <1>5 DEF Redirect
  <2> QED BY <1>4, <1>5, <2>1
<1>6. CASE ~(l.path \in Protected /\ s = "unauthenticated") /\ l.path \in Forms /\ s = "authenticated"
  <2>1. Redirect(l, s) = Bare(Home)
    BY <1>6 DEF Redirect
  <2> QED BY <1>3, <2>1
<1>7. CASE /\ ~(l.path \in Protected /\ s = "unauthenticated")
           /\ ~(l.path \in Forms /\ s = "authenticated")
  <2>1. Redirect(l, s) = Bare(Create)
    BY <1>7 DEF Redirect
  <2>2. Redirect(Bare(Create), s) =
          IF s = "unauthenticated" THEN [path |-> Login, from |-> Create] ELSE None
    BY <1>1, <1>2, PathFacts DEF Redirect
  <2> DEFINE m == [path |-> Login, from |-> Create]
  <2>3. Redirect(Redirect(l, s), s) = m /\ s = "unauthenticated" /\ m.path = Login
    BY <2>1, <2>2
  <2> QED BY <1>4, <2>3
<1> QED BY <1>5, <1>6, <1>7

\* A render.
LEMMA RerenderRests ==
  ASSUME RestInv, NEW l \in Entries, Rerender(l),
         \/ l = at /\ UNCHANGED moved
         \/ l = url /\ moved' = FALSE
  PROVE  RestInv'
<1>1. /\ UNCHANGED <<vars, url, dest>> /\ at' = l /\ shown' = status
      /\ due' = Redirect(l, status)
      /\ form' # None => form' = form /\ l.path = at.path
  BY DEF Rerender
<1>2. NavInv'
  BY RerenderKeepsInv DEF RestInv, NavInv, PagesOK
<1>3. call' = call /\ status' = status
  BY <1>1 DEF vars
<1>4. Rendered'
  BY <1>1 DEF RestInv, Rendered
<1>5. FormWaits'
  BY <1>1, <1>3 DEF RestInv, FormWaits
<1> QED
  BY <1>2, <1>3, <1>4, <1>5 DEF RestInv, SpinnerWaits

\* A call settles or is lost.
LEMMA CallEndRests ==
  ASSUME RestInv, NEW c \in Calls, Returns(c) \/ LoseCall(c)
  PROVE  RestInv'
<1>1. NavInv'
  BY CallEndKeepsInv DEF RestInv
<1>2. Settled(c) /\ UNCHANGED <<at, shown, due>>
  BY DEF Returns, LoseCall, AuthReturns, LogoutReturns, MeReturns, AuthSettles, LogoutSettles,
         MeSettles, Lost, navVars
<1>3. /\ call'[c].kind = "none"
      /\ \A d \in Calls \ {c} : call'[d] = call[d]
  BY <1>2, SettledFacts DEF RestInv, NavInv, IInv
<1>4. moved' = TRUE \/ UNCHANGED <<url, moved>>
  BY DEF Returns, LoseCall, AuthReturns, LogoutReturns, MeReturns, Navigate, navVars
<1>5. Rendered'
  BY <1>2, <1>4 DEF RestInv, Rendered
<1>6. FormWaits'
  <2>1. form' \in {form, None}
    BY DEF Returns, LoseCall, AuthReturns, LogoutReturns, MeReturns, navVars
  <2>2. call[c].kind = "auth" /\ form = c => form' = None
    BY DEF Returns, LoseCall, AuthReturns, LogoutReturns, MeReturns, AuthSettles, LogoutSettles,
           MeSettles, Answered
  <2>3. form \in Calls \cup {None}
    BY DEF RestInv, NavInv, PagesOK
  <2> QED
    BY <1>2, <1>3, <2>1, <2>2, <2>3 DEF RestInv, FormWaits
<1>7. SpinnerWaits'
  <2>1. CASE call[c].kind = "me"
    <3>1. \E u : Show(u)
      BY <2>1 DEF Returns, LoseCall, AuthReturns, LogoutReturns, MeReturns, AuthSettles,
                  LogoutSettles, MeSettles, Answered, Lost
    <3> QED BY <3>1 DEF Show, SpinnerWaits
  <2>2. CASE call[c].kind # "me"
    <3>1. status' = status \/ \E u : Show(u)
      BY <2>2 DEF Returns, LoseCall, AuthReturns, LogoutReturns, MeReturns, AuthSettles,
                  LogoutSettles, MeSettles, Answered, Lost
    <3>2. status' = "loading" => status = "loading"
      BY <3>1 DEF Show
    <3> QED BY <1>3, <2>2, <3>2 DEF RestInv, SpinnerWaits
  <2> QED BY <2>1, <2>2
<1> QED
  BY <1>1, <1>5, <1>6, <1>7 DEF RestInv

\* The user submits a form, or logs out.
LEMMA CallStartRests ==
  ASSUME RestInv, NEW c \in Calls,
         (\E u \in Users : SubmitForm(c, u)) \/ PressLogout(c)
  PROVE  RestInv'
<1>1. NavInv'
  BY CallStartKeepsInv DEF RestInv
<1>2. PICK kind \in {"auth", "logout"}, u \in Users \cup {None} :
        /\ Send(c, kind, u) /\ status' = status
        /\ \/ kind = "auth" /\ at.path \in Forms
           \/ at.path = Profile
  BY DEF SubmitForm, PressLogout, Submit, Logout, RestInv, NavInv, IInv, TypeOK
<1>3. form' = c /\ UNCHANGED <<url, moved, at, shown, due>>
  BY DEF SubmitForm, PressLogout
<1>4. New(kind, u) \in Call /\ New(kind, u).kind = kind
  BY NewFacts, KindsAndStages
<1>5. call'[c].kind = kind /\ \A d \in Calls \ {c} : call'[d] = call[d]
  BY <1>2, <1>4, CallStep, Typed DEF Send, RestInv, NavInv, IInv
<1>6. call[c].kind = "none"
  BY <1>2, CallFacts DEF Send, Pending
<1> QED
  BY <1>1, <1>2, <1>3, <1>5, <1>6 DEF RestInv, Rendered, FormWaits, SpinnerWaits

\* A page is loaded.
LEMMA LoadRests ==
  ASSUME RestInv, NEW l \in Locations, Load(l)
  PROVE  RestInv'
<1>1. NavInv'
  BY LoadKeepsInv DEF RestInv
<1>2. PICK c \in Calls : call' = [d \in Calls |-> IF d = c THEN New("me", cookie) ELSE NoCall]
  BY DEF Load, Reload
<1>3. call'[c].kind = "me"
  BY <1>2 DEF New
<1> QED
  BY <1>1, <1>3 DEF Load, RestInv, Rendered, FormWaits, SpinnerWaits

LEMMA RestStep ==
  ASSUME RestInv, [NavNext]_allVars
  PROVE  RestInv'
<1>1. ASSUME NEW l \in Locations, Click(l) \/ Traverse(l)
      PROVE  RestInv'
  <2>1. moved' = TRUE /\ UNCHANGED <<vars, at, shown, due, form, dest>>
    BY <1>1 DEF Click, Traverse, Navigate
  <2>2. NavInv' /\ call' = call /\ status' = status
    BY <1>1, <2>1, NavStep DEF RestInv, NavNext, User, vars
  <2> QED BY <2>1, <2>2 DEF RestInv, Rendered, FormWaits, SpinnerWaits
<1>2. CASE RenderStatus
  <2>1. at \in Entries /\ Rerender(at) /\ UNCHANGED moved
    BY <1>2 DEF RenderStatus, RestInv, NavInv, PagesOK
  <2> QED BY <2>1, RerenderRests
<1>3. CASE RenderLocation
  <2>1. url \in Entries /\ Rerender(url) /\ moved' = FALSE
    BY <1>3 DEF RenderLocation, RestInv, NavInv, PagesOK
  <2> QED BY <2>1, RerenderRests
<1>4. CASE RunRedirect
  <2>1. moved' = TRUE /\ UNCHANGED <<vars, at, form>>
    BY <1>4 DEF RunRedirect, Navigate
  <2>2. NavInv' /\ call' = call /\ status' = status
    BY <1>4, <2>1, NavStep DEF RestInv, NavNext, vars
  <2> QED BY <2>1, <2>2 DEF RestInv, Rendered, FormWaits, SpinnerWaits
<1>5. CASE Elsewhere
  <2>1. NavInv' /\ UNCHANGED navVars /\ status' = status
    BY <1>5, NavStep DEF RestInv, NavNext, Elsewhere, Serve, Expire, OtherTab
  <2>2. \A d \in Calls : call'[d].kind = call[d].kind
    BY <1>5, KindsKept DEF Elsewhere, RestInv, NavInv, IInv
  <2>3. form \in Calls \cup {None}
    BY DEF RestInv, NavInv, PagesOK
  <2> QED BY <2>1, <2>2, <2>3 DEF RestInv, Rendered, FormWaits, SpinnerWaits, navVars
<1>6. CASE UNCHANGED allVars
  <2>1. NavInv' /\ call' = call /\ status' = status /\ UNCHANGED navVars
    BY <1>6, NavStep DEF RestInv, allVars, vars
  <2> QED BY <2>1 DEF RestInv, Rendered, FormWaits, SpinnerWaits, navVars
<1> QED
  BY <1>1, <1>2, <1>3, <1>4, <1>5, <1>6, LoadRests, CallStartRests, CallEndRests
     DEF NavNext, User

LEMMA RestStart ==
  ASSUME NavInit
  PROVE  RestInv
<1>1. NavInv
  BY NavStart
<1>2. PICK c \in Calls : call = [d \in Calls |-> IF d = c THEN New("me", cookie) ELSE NoCall]
  BY DEF NavInit, Init
<1>3. call[c].kind = "me"
  BY <1>2 DEF New
<1> QED
  BY <1>1, <1>3 DEF NavInit, RestInv, Rendered, FormWaits, SpinnerWaits

\* No location redirects in circles, whatever the status: after two redirects at
\* most the page of the address stays (App, ProtectedRoute, LoginPage).
THEOREM RedirectsEnd ==
  \A l \in Locations, s \in {"loading", "authenticated", "unauthenticated"} :
    Redirect(l, s) # None /\ Redirect(Redirect(l, s), s) # None =>
      Redirect(Redirect(Redirect(l, s), s), s) = None
BY RedirectChain

\* A tab with no call in flight and no render outstanding is at rest: there is no
\* other state in which it could stop, in front of a spinner, a redirect that was
\* never followed, a page that is not that of the address, or a form that stays
\* disabled.
THEOREM StopsOnlyAtRest == NavSpec => [](Idle /\ Quiet => AtRest)
<1>1. RestInv /\ [NavNext]_allVars => RestInv'
  BY RestStep
<1>2. NavInit => RestInv
  BY RestStart
<1>3. RestInv => (Idle /\ Quiet => AtRest)
  <2> SUFFICES ASSUME RestInv, Idle, Quiet
               PROVE  AtRest
    OBVIOUS
  <2>1. \A c \in Calls : call[c].kind = "none"
    BY CallFacts DEF Quiet, Pending
  <2>2. at = url /\ Redirect(at, status) = None
    BY DEF Idle, RestInv, Rendered
  <2>3. status # "loading"
    BY <2>1 DEF RestInv, SpinnerWaits
  <2>4. at.path \in Forms => form = None
    <3>1. Profile \notin Forms
      BY PathsAssumption
    <3>2. form \in Calls \cup {None}
      BY DEF RestInv, NavInv, PagesOK
    <3> QED BY <2>1, <3>1, <3>2 DEF RestInv, FormWaits
  <2> QED BY <2>2, <2>3, <2>4 DEF AtRest
<1> QED BY <1>1, <1>2, <1>3, PTL DEF NavSpec
=============================================================================
