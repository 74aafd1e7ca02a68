----------------------------- MODULE CreateFlow -----------------------------
(***************************************************************************)
(* From the generator's form to a listing, in apps/web: CreatePage with    *)
(* the hooks useListingGenerator (the form and the copy the model writes   *)
(* for it) and useDraftPublish (the draft made of both, edited and then    *)
(* posted).  The user may leave the page at any time; the promises of what *)
(* was sent live on, and one of them navigates when it settles.  The reply *)
(* to a publication may be lost after the listing was created.             *)
(*                                                                         *)
(* The facts typed into the form are a member of Forms; generated copy is  *)
(* named by the form it was asked for.  A draft is named by its number,    *)
(* over all visits of the page.                                            *)
(***************************************************************************)
EXTENDS Naturals

CONSTANTS
  Forms,      \* contents of the form that pass validate
  Blank,      \* contents that do not, INITIAL_VALUES among them
  None,       \* no draft, no call
  MaxDrafts,  \* bounds the drafts ever made
  MaxCopies,  \* bounds the listings made of one draft
  Slots       \* bounds the publications in flight

ASSUME BoundsAssumption == MaxDrafts \in Nat /\ MaxCopies \in Nat \ {0, 1}

Keys == 1 .. MaxDrafts

\* What a listing is made of: generated copy, the facts of a form, and
\* whether the user has changed any of it.
Contents == [copy : Forms, facts : Forms, edited : BOOLEAN]

Statuses == {"idle", "submitting", "error"}
Stages == {"sent", "created", "refused"}

\* What an editor holds, and what is known of a publication.
Draft == [key : Keys, content : Contents, fit : BOOLEAN, status : Statuses]
Publication == [key : Keys, content : Contents, stage : Stages]

ASSUME SentinelsAssumption ==
  /\ Blank \notin Forms
  /\ None \notin Draft \cup Publication

VARIABLES
  page,       \* "create" while CreatePage is mounted, else "away"
  values,     \* useListingGenerator: the form
  status,     \* useListingGenerator: "idle", "loading", "success" or "error"
  asked,      \* the form the call to the model in flight is for, or Blank
  draft,      \* useDraftPublish, while DraftEditor is mounted
  drafts,     \* the number of drafts so far
  posts,      \* the publications in flight
  published,  \* the listings the API has created, by draft
  doubted     \* history: drafts of which a reply was lost

vars == <<page, values, status, asked, draft, drafts, posts, published, doubted>>

-----------------------------------------------------------------------------
(* The form. *)

\* The state of a page that has just been mounted, or of none.
Fresh ==
  /\ values' = Blank
  /\ status' = "idle"
  /\ asked' = Blank
  /\ draft' = None

OnForm == page = "create" /\ draft = None

\* Mutant: the fields stay enabled while the model writes.
EagerSetField(v) ==
  /\ OnForm
  /\ values' = v
  /\ UNCHANGED <<page, status, asked, draft, drafts, posts, published, doubted>>

\* The fields are disabled while the model writes.
SetField(v) ==
  /\ OnForm /\ status # "loading"
  /\ values' = v
  /\ UNCHANGED <<page, status, asked, draft, drafts, posts, published, doubted>>

\* validate, of the form, and validateDraft: where they fail, nothing changes but
\* the messages shown.
Passes == values \in Forms
Valid == draft.fit

\* The form's button, and after a failure the one of ResultPanel.
Submit ==
  /\ OnForm /\ status # "loading"
  /\ Passes
  /\ status' = "loading"
  /\ asked' = values
  /\ UNCHANGED <<page, values, draft, drafts, posts, published, doubted>>

\* The copy arrives, and the effect of CreatePage mounts a DraftEditor under a
\* new key.  The address is derived from the location and may come out empty.
Generated ==
  /\ OnForm /\ asked # Blank
  /\ drafts < MaxDrafts
  /\ status' = "success"
  /\ asked' = Blank
  /\ drafts' = drafts + 1
  /\ \E fit \in BOOLEAN :
       draft' = [key |-> drafts + 1, fit |-> fit, status |-> "idle",
                 content |-> [copy |-> asked, facts |-> values, edited |-> FALSE]]
  /\ UNCHANGED <<page, values, posts, published, doubted>>

GenerateFailed ==
  /\ OnForm /\ asked # Blank
  /\ status' = "error"
  /\ asked' = Blank
  /\ UNCHANGED <<page, values, draft, drafts, posts, published, doubted>>

-----------------------------------------------------------------------------
(* The draft. *)

OnDraft == page = "create" /\ draft # None

\* Every control of DraftEditor is disabled while a publication is pending.
Enabled == OnDraft /\ draft.status # "submitting"

\* The draft's state is lost; the form is as it was.
BackToForm ==
  /\ Enabled
  /\ draft' = None
  /\ UNCHANGED <<page, values, status, asked, drafts, posts, published, doubted>>

\* Mutant: the fields stay enabled while a publication is pending.
EagerEditDraft(fit) ==
  /\ OnDraft
  /\ draft' = [draft EXCEPT !.content.edited = TRUE, !.fit = fit]
  /\ UNCHANGED <<page, values, status, asked, drafts, posts, published, doubted>>

EditDraft(fit) ==
  /\ Enabled
  /\ draft' = [draft EXCEPT !.content.edited = TRUE, !.fit = fit]
  /\ UNCHANGED <<page, values, status, asked, drafts, posts, published, doubted>>

Post == [key |-> draft.key, content |-> draft.content, stage |-> "sent"]

\* Mutant: the draft is posted as the editor holds it.
RawPublish ==
  /\ Enabled /\ Valid
  /\ draft' = [draft EXCEPT !.status = "submitting"]
  /\ \E s \in Slots : posts[s] = None /\ posts' = [posts EXCEPT ![s] = draft]
  /\ UNCHANGED <<page, values, status, asked, drafts, published, doubted>>

\* Mutant: the button stays enabled while a publication is pending.
EagerPublish ==
  /\ OnDraft /\ Valid
  /\ draft' = [draft EXCEPT !.status = "submitting"]
  /\ \E s \in Slots : posts[s] = None /\ posts' = [posts EXCEPT ![s] = Post]
  /\ UNCHANGED <<page, values, status, asked, drafts, published, doubted>>

Publish ==
  /\ Enabled /\ Valid
  /\ draft' = [draft EXCEPT !.status = "submitting"]
  /\ \E s \in Slots : posts[s] = None /\ posts' = [posts EXCEPT ![s] = Post]
  /\ UNCHANGED <<page, values, status, asked, drafts, published, doubted>>

-----------------------------------------------------------------------------
(* The API, and what comes back. *)

Copy(k) == published[k] < MaxCopies /\ published' = [published EXCEPT ![k] = @ + 1]

Serve(s) ==
  /\ posts[s] # None /\ posts[s].stage = "sent"
  /\ \/ Copy(posts[s].key) /\ posts' = [posts EXCEPT ![s].stage = "created"]
     \/ posts' = [posts EXCEPT ![s].stage = "refused"] /\ UNCHANGED published
  /\ UNCHANGED <<page, values, status, asked, draft, drafts, doubted>>

\* The call fails on its way to the API or back, so that the listing may exist
\* without the client's knowing.
Lose(s) ==
  /\ posts[s] # None /\ posts[s].stage # "refused"
  /\ \/ posts[s].stage = "sent" /\ Copy(posts[s].key)
     \/ UNCHANGED published
  /\ posts' = [posts EXCEPT ![s].stage = "refused"]
  /\ doubted' = doubted \cup {posts[s].key}
  /\ UNCHANGED <<page, values, status, asked, draft, drafts>>

\* navigate to the new listing, from wherever the user is by now.
Succeed(s) ==
  /\ posts[s] # None /\ posts[s].stage = "created"
  /\ posts' = [posts EXCEPT ![s] = None]
  /\ page' = "away"
  /\ Fresh
  /\ UNCHANGED <<drafts, published, doubted>>

\* Mutant: a failure is caught and not shown.
ForgetfulFail(s) ==
  /\ posts[s] # None /\ posts[s].stage = "refused"
  /\ posts' = [posts EXCEPT ![s] = None]
  /\ UNCHANGED <<page, values, status, asked, draft, drafts, published, doubted>>

\* The editor shows the error, if it is still there.
Fail(s) ==
  /\ posts[s] # None /\ posts[s].stage = "refused"
  /\ posts' = [posts EXCEPT ![s] = None]
  /\ draft' = IF draft # None /\ draft.key = posts[s].key
                THEN [draft EXCEPT !.status = "error"] ELSE draft
  /\ UNCHANGED <<page, values, status, asked, drafts, published, doubted>>

-----------------------------------------------------------------------------
(* The page. *)

Leave ==
  /\ page = "create"
  /\ page' = "away"
  /\ Fresh
  /\ UNCHANGED <<drafts, posts, published, doubted>>

Return ==
  /\ page = "away"
  /\ page' = "create"
  /\ Fresh
  /\ UNCHANGED <<drafts, posts, published, doubted>>

Init ==
  /\ page = "create"
  /\ values = Blank
  /\ status = "idle"
  /\ asked = Blank
  /\ draft = None
  /\ drafts = 0
  /\ posts = [s \in Slots |-> None]
  /\ published = [k \in Keys |-> 0]
  /\ doubted = {}

User ==
  \/ \E v \in Forms \cup {Blank} : SetField(v)
  \/ Submit
  \/ BackToForm
  \/ \E fit \in BOOLEAN : EditDraft(fit)
  \/ Publish
  \/ Leave
  \/ Return

Settle(s) == Succeed(s) \/ Fail(s)

Next ==
  \/ User
  \/ Generated
  \/ GenerateFailed
  \/ \E s \in Slots : Serve(s) \/ Lose(s) \/ Settle(s)

Spec == Init /\ [][Next]_vars

\* The API answers a generation within its timeout and serves a publication,
\* and the browser settles what was answered.
Fairness ==
  /\ WF_vars(Generated \/ GenerateFailed)
  /\ \A s \in Slots : WF_vars(Serve(s)) /\ WF_vars(Settle(s))

FairSpec == Spec /\ Fairness

-----------------------------------------------------------------------------
(* Properties. *)

\* Every variable has its type.
TypeOK ==
  /\ page \in {"create", "away"}
  /\ values \in Forms \cup {Blank}
  /\ status \in {"idle", "loading", "success", "error"}
  /\ asked \in Forms \cup {Blank}
  /\ draft \in Draft \cup {None}
  /\ drafts \in 0 .. MaxDrafts
  /\ posts \in [Slots -> Publication \cup {None}]
  /\ published \in [Keys -> 0 .. MaxCopies]
  /\ doubted \subseteq Keys

\* A draft, and whatever is posted of it, has the copy and the facts of one
\* form: the copy never describes other facts than those it stands next to
\* (GeneratorForm, CreatePage, buildInitialDraft).
DraftOfOneForm ==
  /\ draft # None => draft.content.copy = draft.content.facts
  /\ \A s \in Slots : posts[s] # None => posts[s].content.copy = posts[s].content.facts

\* While a publication is pending, what was posted is what the editor shows:
\* the edits a user sees are in the listing (DraftEditor, useDraftPublish).
PostedAsShown ==
  \A s \in Slots : posts[s] # None /\ draft # None /\ draft.key = posts[s].key =>
    draft.status = "submitting" /\ draft.content = posts[s].content

\* Unless a reply was lost, a draft is published at most once, and a draft
\* that the editor offers for publication is not yet a listing, however often
\* the user leaves, comes back and presses the button (useDraftPublish).
PublishedOnce ==
  \A k \in Keys \ doubted :
    /\ published[k] <= 1
    /\ draft # None /\ draft.key = k /\ published[k] = 1 => draft.status = "submitting"

\* A generation and a publication end, one way or the other
\* (useListingGenerator, useDraftPublish).
PendingEnds ==
  /\ status = "loading" ~> status # "loading"
  /\ draft # None /\ draft.status = "submitting" ~> draft = None \/ draft.status # "submitting"
=============================================================================
