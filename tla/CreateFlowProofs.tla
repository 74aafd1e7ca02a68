-------------------------- MODULE CreateFlowProofs --------------------------
(***************************************************************************)
(* Proofs about CreateFlow, for any forms and any number of drafts and of  *)
(* publications in flight.                                                 *)
(***************************************************************************)
EXTENDS CreateFlow, TLAPS

\* While the model writes, the form stays what it was asked for.
FormInv == asked # Blank => asked = values /\ draft = None /\ status = "loading"

\* What is known of a publication: it is of a draft there was, it is the only
\* one of it, and unless a reply was lost it tells whether there is a listing.
PostInv ==
  /\ \A s, t \in Slots : posts[s] # None /\ posts[t] # None /\ posts[s].key = posts[t].key
       => s = t
  /\ \A s \in Slots : posts[s] # None =>
       /\ posts[s].key <= drafts
       /\ posts[s].key \notin doubted /\ posts[s].stage # "created"
            => published[posts[s].key] = 0

\* Drafts are numbered as they are made; one not yet made is no listing.
KeyInv ==
  /\ draft # None => draft.key <= drafts
  /\ \A k \in Keys : k > drafts => published[k] = 0

IInv ==
  /\ TypeOK /\ DraftOfOneForm /\ PostedAsShown /\ PublishedOnce
  /\ FormInv /\ PostInv /\ KeyInv

\* The statuses and stages the actions use.
LEMMA Constants ==
  /\ "idle" \in Statuses /\ "submitting" \in Statuses /\ "error" \in Statuses
  /\ "sent" \in Stages /\ "created" \in Stages /\ "refused" \in Stages
BY DEF Statuses, Stages

\* The draft is gone or unchanged; nothing else the invariant is about changes.
LEMMA FormStepKeepsInv ==
  ASSUME IInv, UNCHANGED <<drafts, posts, published, doubted>>,
         draft' \in {draft, None}, FormInv',
         page' \in {"create", "away"}, values' \in Forms \cup {Blank},
         status' \in {"idle", "loading", "success", "error"},
         asked' \in Forms \cup {Blank}
  PROVE  IInv'
<1>1. TypeOK'
  BY DEF IInv, TypeOK
<1>2. DraftOfOneForm'
  BY DEF IInv, DraftOfOneForm
<1>3. PostedAsShown'
  BY DEF IInv, PostedAsShown
<1>4. PublishedOnce'
  BY DEF IInv, PublishedOnce
<1>5. PostInv' /\ KeyInv'
  BY DEF IInv, PostInv, KeyInv
<1> QED BY <1>1, <1>2, <1>3, <1>4, <1>5 DEF IInv

\* The copy arrives: the new draft is of one form, and nothing is known of its
\* number yet.
LEMMA GeneratedKeepsInv == IInv /\ Generated => IInv'
<1> SUFFICES ASSUME IInv, Generated PROVE IInv'
  OBVIOUS
<1> DEFINE content == [copy |-> asked, facts |-> values, edited |-> FALSE]
           new(fit) == [key |-> drafts + 1, fit |-> fit, status |-> "idle",
                        content |-> content]
<1>1. PICK fit \in BOOLEAN : draft' = new(fit)
  BY DEF Generated
<1>2. /\ UNCHANGED <<page, values, posts, published, doubted>>
      /\ drafts' = drafts + 1 /\ drafts < MaxDrafts /\ drafts \in Nat
      /\ status' = "success" /\ asked' = Blank
      /\ asked \in Forms /\ asked = values
  BY DEF Generated, IInv, TypeOK, FormInv
<1>3. drafts + 1 \in Keys /\ drafts' \in 0 .. MaxDrafts
  BY <1>2, BoundsAssumption DEF Keys
<1>4. content \in Contents /\ content.copy = content.facts
  BY <1>2 DEF Contents
<1>5. new(fit) \in Draft
  <2> HIDE DEF content
  <2> QED BY <1>3, <1>4, Constants DEF Draft
<1>6. draft' # None /\ draft' \in Draft
  BY <1>1, <1>5, SentinelsAssumption
<1>7. /\ draft'.key = drafts + 1 /\ draft'.status = "idle"
      /\ draft'.content = content
  BY <1>1
<1> HIDE DEF content, new
<1>8. TypeOK'
  BY <1>2, <1>3, <1>6 DEF IInv, TypeOK
<1>9. DraftOfOneForm'
  BY <1>2, <1>4, <1>7 DEF IInv, DraftOfOneForm
<1>10. \A s \in Slots : posts[s] # None => posts[s].key \in Nat /\ posts[s].key # drafts + 1
  <2>1. \A s \in Slots : posts[s] # None => posts[s].key \in Keys /\ posts[s].key <= drafts
    BY DEF IInv, TypeOK, PostInv, Publication
  <2> QED BY <1>2, <2>1 DEF Keys
<1>11. PostedAsShown'
  BY <1>2, <1>7, <1>10 DEF PostedAsShown
<1>12. published[drafts + 1] = 0
  BY <1>2, <1>3 DEF IInv, KeyInv
<1>13. PublishedOnce'
  BY <1>2, <1>7, <1>12 DEF IInv, PublishedOnce
<1>14. FormInv'
  BY <1>2 DEF FormInv
<1>15. PostInv'
  <2>1. \A s \in Slots : posts[s] # None => posts[s].key \in Nat
    BY <1>10
  <2>2. \A s \in Slots : posts[s] # None => posts[s].key <= drafts + 1
    BY <1>2, <2>1 DEF IInv, PostInv
  <2> QED BY <1>2, <2>2 DEF IInv, PostInv
<1>16. KeyInv'
  BY <1>2, <1>7 DEF IInv, KeyInv, Keys
<1> QED BY <1>8, <1>9, <1>11, <1>13, <1>14, <1>15, <1>16 DEF IInv

\* An edit changes what the editor holds while nothing of it is posted.
LEMMA EditKeepsInv == ASSUME IInv, NEW fit \in BOOLEAN, EditDraft(fit) PROVE IInv'
<1> DEFINE d == [draft EXCEPT !.content.edited = TRUE, !.fit = fit]
<1>1. /\ draft # None /\ draft \in Draft /\ draft.status # "submitting"
      /\ draft' = d
      /\ UNCHANGED <<page, values, status, asked, drafts, posts, published, doubted>>
  BY DEF EditDraft, Enabled, OnDraft, IInv, TypeOK
<1>2. d \in Draft /\ d.key = draft.key /\ d.status = draft.status
  BY <1>1 DEF Draft, Contents
<1>3. d.content.copy = draft.content.copy /\ d.content.facts = draft.content.facts
  BY <1>1 DEF Draft, Contents
<1> HIDE DEF d
<1>4. TypeOK'
  BY <1>1, <1>2 DEF IInv, TypeOK
<1>5. DraftOfOneForm'
  BY <1>1, <1>3 DEF IInv, DraftOfOneForm
<1>6. PostedAsShown'
  BY <1>1, <1>2 DEF IInv, PostedAsShown
<1>7. PublishedOnce'
  BY <1>1, <1>2 DEF IInv, PublishedOnce
<1>8. FormInv' /\ PostInv' /\ KeyInv'
  BY <1>1, <1>2 DEF IInv, FormInv, PostInv, KeyInv
<1> QED BY <1>4, <1>5, <1>6, <1>7, <1>8 DEF IInv

\* A publication starts: the draft it is of was not posted, nor a listing.
LEMMA PublishKeepsInv == IInv /\ Publish => IInv'
<1> SUFFICES ASSUME IInv, Publish PROVE IInv'
  OBVIOUS
<1> DEFINE d == [draft EXCEPT !.status = "submitting"]
           p == Post
<1>1. PICK s \in Slots : posts[s] = None /\ posts' = [posts EXCEPT ![s] = p]
  BY DEF Publish
<1>2. /\ draft # None /\ draft \in Draft /\ draft.status # "submitting"
      /\ draft' = d
      /\ UNCHANGED <<page, values, status, asked, drafts, published, doubted>>
  BY DEF Publish, Enabled, OnDraft, IInv, TypeOK
<1>3. d \in Draft /\ d.key = draft.key /\ d.status = "submitting" /\ d.content = draft.content
  BY <1>2, Constants DEF Draft
<1>4. /\ p \in Publication /\ p # None
      /\ p.key = draft.key /\ p.content = draft.content /\ p.stage = "sent"
  <2>1. p \in Publication
    BY <1>2, Constants DEF Post, Draft, Publication
  <2>2. p.key = draft.key /\ p.content = draft.content /\ p.stage = "sent"
    BY DEF Post
  <2> QED BY <2>1, <2>2, SentinelsAssumption
<1> HIDE DEF d, p
<1>5. /\ posts \in [Slots -> Publication \cup {None}]
      /\ posts'[s] = p /\ \A t \in Slots \ {s} : posts'[t] = posts[t]
  BY <1>1 DEF IInv, TypeOK
<1>6. \A t \in Slots : posts[t] # None => posts[t].key # draft.key
  BY <1>2 DEF IInv, PostedAsShown
<1>7. draft.key \in Keys /\ draft.key <= drafts
  BY <1>2 DEF Draft, IInv, KeyInv
<1>8. draft.key \notin doubted => published[draft.key] = 0
  <2>1. published[draft.key] \in Nat
    BY <1>7 DEF IInv, TypeOK
  <2> QED BY <1>2, <1>7, <2>1 DEF IInv, PublishedOnce
<1>9. TypeOK'
  BY <1>1, <1>2, <1>3, <1>4, <1>5 DEF IInv, TypeOK
<1>10. DraftOfOneForm'
  BY <1>2, <1>3, <1>4, <1>5 DEF IInv, DraftOfOneForm
<1>11. PostedAsShown'
  BY <1>2, <1>3, <1>4, <1>5, <1>6 DEF PostedAsShown
<1>12. PublishedOnce'
  BY <1>2, <1>3 DEF IInv, PublishedOnce
<1>13. FormInv' /\ KeyInv'
  BY <1>2, <1>3 DEF IInv, FormInv, KeyInv
<1>14. PostInv'
  BY <1>2, <1>4, <1>5, <1>6, <1>7, <1>8 DEF IInv, PostInv
<1> QED BY <1>9, <1>10, <1>11, <1>12, <1>13, <1>14 DEF IInv

\* What the API does to a publication keeps the invariant if a listing appears
\* only where the publication says so or its draft is doubted.
LEMMA ServedKeepsInv ==
  ASSUME IInv, NEW s \in Slots, posts[s] # None, NEW stage \in Stages,
         posts' = [posts EXCEPT ![s].stage = stage],
         UNCHANGED <<page, values, status, asked, draft, drafts>>,
         \/ Copy(posts[s].key) /\ posts[s].stage # "created"
         \/ UNCHANGED published,
         doubted' \in {doubted, doubted \cup {posts[s].key}},
         \/ posts[s].key \in doubted'
         \/ stage = "created"
         \/ UNCHANGED published /\ posts[s].stage # "created"
  PROVE  IInv'
<1> DEFINE k == posts[s].key
           q == [posts[s] EXCEPT !.stage = stage]
<1>1. posts[s] \in Publication /\ posts \in [Slots -> Publication \cup {None}]
  BY DEF IInv, TypeOK
<1>2. /\ q \in Publication /\ q.key = k /\ q.content = posts[s].content /\ q.stage = stage
      /\ k \in Keys
  BY <1>1 DEF Publication
<1>3. q # None
  BY <1>2, SentinelsAssumption
<1>4. posts' = [posts EXCEPT ![s] = q]
  OBVIOUS
<1> HIDE DEF q
<1>5. posts'[s] = q /\ \A t \in Slots \ {s} : posts'[t] = posts[t]
  BY <1>1, <1>4
<1>6. published \in [Keys -> 0 .. MaxCopies] /\ drafts \in Nat /\ k \in Nat
  BY <1>2 DEF IInv, TypeOK, Keys
<1>7. /\ published' \in [Keys -> 0 .. MaxCopies]
      /\ \A j \in Keys \ {k} : published'[j] = published[j]
  BY <1>2, <1>6, BoundsAssumption DEF Copy
<1>8. k <= drafts
  BY DEF IInv, PostInv
<1>9. TypeOK'
  BY <1>1, <1>2, <1>4, <1>7 DEF IInv, TypeOK
<1>10. DraftOfOneForm'
  BY <1>2, <1>3, <1>5 DEF IInv, DraftOfOneForm
<1>11. PostedAsShown'
  BY <1>2, <1>3, <1>5 DEF IInv, PostedAsShown
<1>12. FormInv'
  BY DEF IInv, FormInv
<1>13. KeyInv'
  BY <1>2, <1>6, <1>7, <1>8 DEF IInv, KeyInv, Keys
<1>14. k \notin doubted /\ posts[s].stage # "created" => published[k] = 0
  BY DEF IInv, PostInv
<1>15. k \notin doubted /\ ~(UNCHANGED published) => published'[k] = 1
  BY <1>2, <1>6, <1>14 DEF Copy
<1>16. PublishedOnce'
  <2>1. draft # None /\ draft.key = k => draft.status = "submitting"
    BY DEF IInv, PostedAsShown
  <2> QED BY <1>2, <1>7, <1>15, <2>1 DEF IInv, PublishedOnce
<1>17. PostInv'
  <2>1. \A t, u \in Slots : posts'[t] # None /\ posts'[u] # None
          /\ posts'[t].key = posts'[u].key => t = u
    BY <1>2, <1>3, <1>5 DEF IInv, PostInv
  <2>2. \A t \in Slots : posts'[t] # None => posts'[t].key <= drafts'
    BY <1>2, <1>5, <1>8 DEF IInv, PostInv
  <2>3. \A t \in Slots \ {s} : posts[t] # None => posts[t].key # k /\ posts[t].key \in Keys
    BY <1>1 DEF IInv, PostInv, TypeOK, Publication
  <2>4. ASSUME NEW t \in Slots, posts'[t] # None, posts'[t].key \notin doubted',
               posts'[t].stage # "created"
        PROVE  published'[posts'[t].key] = 0
    <3>1. CASE t = s
      BY <1>2, <1>5, <1>14, <2>4, <3>1
    <3>2. CASE t # s
      BY <1>5, <1>7, <2>3, <2>4, <3>2 DEF IInv, PostInv
    <3> QED BY <3>1, <3>2
  <2> QED BY <2>1, <2>2, <2>4 DEF PostInv
<1> QED BY <1>9, <1>10, <1>11, <1>12, <1>13, <1>16, <1>17 DEF IInv

\* A publication is settled and gone; its editor, if it is there, may be gone
\* or show an error.
LEMMA SettledKeepsInv ==
  ASSUME IInv, NEW s \in Slots, posts[s] # None,
         posts' = [posts EXCEPT ![s] = None],
         UNCHANGED <<drafts, published, doubted>>, FormInv',
         page' \in {"create", "away"}, values' \in Forms \cup {Blank},
         status' \in {"idle", "loading", "success", "error"},
         asked' \in Forms \cup {Blank},
         \/ draft' = None
         \/ /\ posts[s].stage = "refused"
            /\ draft' = IF draft # None /\ draft.key = posts[s].key
                          THEN [draft EXCEPT !.status = "error"] ELSE draft
  PROVE  IInv'
<1> DEFINE d == [draft EXCEPT !.status = "error"]
<1>1. /\ posts \in [Slots -> Publication \cup {None}]
      /\ posts[s] \in Publication /\ posts[s].key \in Keys
  BY DEF IInv, TypeOK, Publication
<1>2. posts'[s] = None /\ \A t \in Slots \ {s} : posts'[t] = posts[t]
  BY <1>1
<1>3. ASSUME draft # None
      PROVE  d \in Draft /\ d.key = draft.key /\ d.content = draft.content /\ d.status = "error"
  <2>1. draft \in Draft
    BY <1>3 DEF IInv, TypeOK
  <2> QED BY <2>1, Constants DEF Draft
<1> HIDE DEF d
<1>4. \/ draft' = None
      \/ /\ draft # None /\ draft.key = posts[s].key /\ draft' = d
         /\ posts[s].stage = "refused"
      \/ draft' = draft /\ draft # None /\ draft.key # posts[s].key
  BY DEF d
<1>5. TypeOK'
  BY <1>1, <1>3, <1>4 DEF IInv, TypeOK
<1>6. DraftOfOneForm'
  BY <1>2, <1>3, <1>4 DEF IInv, DraftOfOneForm
<1>7. \A t \in Slots \ {s} : posts[t] # None => posts[t].key # posts[s].key
  BY DEF IInv, PostInv
<1>8. PostedAsShown'
  BY <1>2, <1>3, <1>4, <1>7 DEF IInv, PostedAsShown
<1>9. posts[s].stage = "refused" /\ posts[s].key \notin doubted
        => published[posts[s].key] = 0
  BY DEF IInv, PostInv
<1>10. PublishedOnce'
  BY <1>3, <1>4, <1>9 DEF IInv, PublishedOnce
<1>11. PostInv'
  BY <1>2 DEF IInv, PostInv
<1>12. KeyInv'
  BY <1>3, <1>4 DEF IInv, KeyInv
<1> QED BY <1>5, <1>6, <1>8, <1>10, <1>11, <1>12 DEF IInv

-----------------------------------------------------------------------------

\* The invariant holds when the page is mounted first.
LEMMA InitInv == Init => IInv
<1> SUFFICES ASSUME Init PROVE IInv
  OBVIOUS
<1>1. TypeOK
  BY BoundsAssumption DEF Init, TypeOK
<1>2. DraftOfOneForm /\ PostedAsShown /\ FormInv /\ PostInv /\ KeyInv
  BY DEF Init, DraftOfOneForm, PostedAsShown, FormInv, PostInv, KeyInv
<1>3. PublishedOnce
  BY DEF Init, PublishedOnce
<1> QED BY <1>1, <1>2, <1>3 DEF IInv

\* Every step keeps the invariant.
LEMMA NextKeepsInv == IInv /\ [Next]_vars => IInv'
<1> SUFFICES ASSUME IInv, [Next]_vars PROVE IInv'
  OBVIOUS
<1>0. TypeOK /\ FormInv
  BY DEF IInv
<1>1. CASE UNCHANGED vars
  BY <1>0, <1>1, FormStepKeepsInv DEF vars, TypeOK, FormInv
<1>2. ASSUME NEW v \in Forms \cup {Blank}, SetField(v) PROVE IInv'
  BY <1>0, <1>2, FormStepKeepsInv DEF SetField, TypeOK, FormInv
<1>3. CASE Submit
  BY <1>0, <1>3, FormStepKeepsInv DEF Submit, Passes, OnForm, TypeOK, FormInv
<1>4. CASE GenerateFailed
  BY <1>0, <1>4, FormStepKeepsInv DEF GenerateFailed, TypeOK, FormInv
<1>5. CASE BackToForm
  BY <1>0, <1>5, FormStepKeepsInv DEF BackToForm, TypeOK, FormInv
<1>6. CASE Leave \/ Return
  BY <1>0, <1>6, FormStepKeepsInv DEF Leave, Return, Fresh, TypeOK, FormInv
<1>7. ASSUME NEW s \in Slots, Serve(s) PROVE IInv'
  BY <1>7, ServedKeepsInv, Constants DEF Serve
<1>8. ASSUME NEW s \in Slots, Lose(s) PROVE IInv'
  BY <1>8, ServedKeepsInv, Constants DEF Lose
<1>9. ASSUME NEW s \in Slots, Succeed(s) PROVE IInv'
  BY <1>0, <1>9, SettledKeepsInv DEF Succeed, Fresh, TypeOK, FormInv
<1>10. ASSUME NEW s \in Slots, Fail(s) PROVE IInv'
  BY <1>0, <1>10, SettledKeepsInv DEF Fail, TypeOK, FormInv
<1> QED BY <1>1, <1>2, <1>3, <1>4, <1>5, <1>6, <1>7, <1>8, <1>9, <1>10,
           GeneratedKeepsInv, EditKeepsInv, PublishKeepsInv DEF Next, User, Settle

\* The invariant holds always.
THEOREM Invariance == Spec => []IInv
BY InitInv, NextKeepsInv, PTL DEF Spec

\* Every variable keeps its type.
THEOREM TypeCorrect == Spec => []TypeOK
<1>1. IInv => TypeOK
  BY DEF IInv
<1> QED BY Invariance, <1>1, PTL

\* A draft and its publications have the copy and the facts of one form.
THEOREM OneForm == Spec => []DraftOfOneForm
<1>1. IInv => DraftOfOneForm
  BY DEF IInv
<1> QED BY Invariance, <1>1, PTL

\* What was posted is what the editor shows.
THEOREM AsShown == Spec => []PostedAsShown
<1>1. IInv => PostedAsShown
  BY DEF IInv
<1> QED BY Invariance, <1>1, PTL

\* Unless a reply was lost, a draft is published at most once.
THEOREM Once == Spec => []PublishedOnce
<1>1. IInv => PublishedOnce
  BY DEF IInv
<1> QED BY Invariance, <1>1, PTL

-----------------------------------------------------------------------------
(* What is disabled waits for something: the part of PendingEnds that is   *)
(* not about fairness.                                                     *)

\* The form waits for the call that it made, the editor for the publication of the
\* draft that it shows.
Awaits ==
  /\ status = "loading" => OnForm /\ asked # Blank
  /\ draft # None /\ draft.status = "submitting" =>
       \E s \in Slots : posts[s] # None /\ posts[s].key = draft.key

\* The editor is that of before, or is not pending.
LEMMA EditorAwaits ==
  ASSUME IInv, Awaits, status' # "loading" \/ (status' = status /\ asked' = asked /\ OnForm'),
         \/ draft' = draft
         \/ draft' = None
         \/ draft'.status # "submitting",
         \A s \in Slots : posts[s] # None =>
           \/ posts'[s] # None /\ posts'[s].key = posts[s].key
           \/ draft' # None => draft'.key # posts[s].key \/ draft'.status # "submitting"
  PROVE  Awaits'
<1>1. status' = "loading" => OnForm' /\ asked' # Blank
  BY DEF Awaits
<1>2. ASSUME draft' # None, draft'.status = "submitting"
      PROVE  \E s \in Slots : posts'[s] # None /\ posts'[s].key = draft'.key
  BY <1>2 DEF Awaits
<1> QED BY <1>1, <1>2 DEF Awaits

\* The API touches the stage of a publication only.
LEMMA ServedAwaits ==
  ASSUME IInv, Awaits, NEW s \in Slots, posts[s] # None, NEW stage \in Stages,
         posts' = [posts EXCEPT ![s].stage = stage],
         UNCHANGED <<page, status, asked, draft>>
  PROVE  Awaits'
<1> DEFINE q == [posts[s] EXCEPT !.stage = stage]
<1>1. posts[s] \in Publication /\ posts \in [Slots -> Publication \cup {None}]
  BY DEF IInv, TypeOK
<1>2. q \in Publication /\ q.key = posts[s].key
  BY <1>1 DEF Publication
<1>3. q # None
  BY <1>2, SentinelsAssumption
<1>4. posts' = [posts EXCEPT ![s] = q]
  OBVIOUS
<1> HIDE DEF q
<1>5. \A t \in Slots : posts[t] # None => posts'[t] # None /\ posts'[t].key = posts[t].key
  BY <1>1, <1>2, <1>3, <1>4
<1> QED BY <1>5, EditorAwaits DEF OnForm, Awaits

LEMMA NextAwaits == IInv /\ Awaits /\ [Next]_vars => Awaits'
<1> SUFFICES ASSUME IInv, Awaits, [Next]_vars PROVE Awaits'
  OBVIOUS
<1>0. TypeOK /\ FormInv
  BY DEF IInv
<1>1. CASE UNCHANGED vars
  BY <1>1 DEF vars, Awaits, OnForm
<1>2. ASSUME NEW v \in Forms \cup {Blank}, SetField(v) PROVE Awaits'
  BY <1>2 DEF SetField, Awaits
<1>3. CASE Submit
  BY <1>0, <1>3, SentinelsAssumption DEF Submit, Passes, OnForm, Awaits
<1>4. CASE Generated \/ GenerateFailed
  <2>1. /\ status' # "loading" /\ UNCHANGED posts
        /\ draft' = draft \/ draft'.status = "idle"
    BY <1>4 DEF Generated, GenerateFailed
  <2> QED BY <2>1 DEF Awaits
<1>5. CASE BackToForm
  BY <1>5 DEF BackToForm, Enabled, OnDraft, OnForm, Awaits
<1>6. ASSUME NEW fit \in BOOLEAN, EditDraft(fit) PROVE Awaits'
  <2>1. draft \in Draft /\ draft' = [draft EXCEPT !.content.edited = TRUE, !.fit = fit]
        /\ draft.status # "submitting" /\ status' = status
    BY <1>0, <1>6 DEF EditDraft, Enabled, OnDraft, TypeOK
  <2>2. draft'.status # "submitting"
    BY <2>1 DEF Draft
  <2>3. status' # "loading"
    BY <1>6, <2>1 DEF EditDraft, Enabled, OnDraft, Awaits, OnForm
  <2> QED BY <2>2, <2>3 DEF Awaits
<1>7. CASE Publish
  <2>1. PICK s \in Slots : posts[s] = None /\ posts' = [posts EXCEPT ![s] = Post]
    BY <1>7 DEF Publish
  <2>2. /\ draft \in Draft /\ draft' = [draft EXCEPT !.status = "submitting"]
        /\ status' = status /\ status # "loading"
    BY <1>0, <1>7 DEF Publish, Enabled, OnDraft, TypeOK, Awaits, OnForm
  <2>3. draft'.key = draft.key
    BY <2>2 DEF Draft
  <2>4. Post \in Publication /\ Post.key = draft.key
    BY <2>2, Constants DEF Post, Draft, Publication
  <2>5. posts'[s] = Post
    BY <1>0, <2>1 DEF TypeOK
  <2>6. posts'[s] # None /\ posts'[s].key = draft'.key
    BY <2>3, <2>4, <2>5, SentinelsAssumption
  <2> QED BY <2>2, <2>6 DEF Awaits
<1>8. ASSUME NEW s \in Slots, Serve(s) \/ Lose(s) PROVE Awaits'
  BY <1>8, ServedAwaits, Constants DEF Serve, Lose
<1>9. ASSUME NEW s \in Slots, Succeed(s) PROVE Awaits'
  BY <1>9 DEF Succeed, Fresh, Awaits
<1>10. ASSUME NEW s \in Slots, Fail(s) PROVE Awaits'
  <2>1. /\ \A t \in Slots \ {s} : posts'[t] = posts[t]
        /\ UNCHANGED <<page, status, asked>>
        /\ draft' = IF draft # None /\ draft.key = posts[s].key
                      THEN [draft EXCEPT !.status = "error"] ELSE draft
    BY <1>0, <1>10 DEF Fail, TypeOK
  <2>2. CASE draft # None /\ draft.key = posts[s].key
    <3>1. draft \in Draft /\ draft' = [draft EXCEPT !.status = "error"]
      BY <1>0, <2>1, <2>2 DEF TypeOK
    <3>2. draft'.status = "error"
      BY <3>1 DEF Draft
    <3>3. status # "loading"
      BY <2>2 DEF Awaits, OnForm
    <3> QED BY <2>1, <3>2, <3>3 DEF Awaits
  <2>3. CASE ~(draft # None /\ draft.key = posts[s].key)
    BY <2>1, <2>3 DEF Awaits, OnForm
  <2> QED BY <2>2, <2>3
<1>11. CASE Leave \/ Return
  BY <1>11 DEF Leave, Return, Fresh, Awaits
<1> QED BY <1>1, <1>2, <1>3, <1>4, <1>5, <1>6, <1>7, <1>8, <1>9, <1>10, <1>11
           DEF Next, User, Settle

\* Whatever is disabled waits for a call that is in flight: a generation or a
\* publication that is over leaves neither the form nor the editor of its draft
\* disabled, however many drafts and publications there are.
THEOREM DisabledAwaits == Spec => []Awaits
<1>1. Init => Awaits
  BY DEF Init, Awaits
<1> QED BY <1>1, Invariance, NextAwaits, PTL DEF Spec
=============================================================================
