---------------------------- MODULE ListingPages ----------------------------
(***************************************************************************)
(* The two pages about one listing, in one tab: the details page, with the *)
(* owner's buttons and the questions, and the edit page with its form.     *)
(* The listings are those of an atomic store (ListingStore), which other   *)
(* tabs and users change too.                                              *)
(*                                                                         *)
(* A page fetches its listing in an effect; the cleanup of that effect     *)
(* makes the fetch before it do nothing, so that it is left out from then  *)
(* on.  A deletion or a save goes on when its page is left, and navigates  *)
(* when it is done.  What is below a page (buttons, questions, form) keeps *)
(* its state as long as the page shows a listing, whichever it is.         *)
(*                                                                         *)
(* React finishes its work before the next event of the user.  A reload    *)
(* starts a behaviour of its own.                                          *)
(***************************************************************************)
EXTENDS Integers

CONSTANTS
  Ids,
  Mine,    \* the listings of the user of this tab
  MaxRev,  \* bounds the revisions of a listing
  Slots,   \* bounds the deletions and saves in flight
  Gone,    \* no row
  None, Pending, Failed

Revs == 1..MaxRev

ASSUME ListingPagesAssumption ==
  /\ Mine \subseteq Ids
  /\ MaxRev \in Nat \ {0}
  /\ Gone \notin Int \cup {None} /\ None \notin Int
  /\ {Pending, Failed} \cap Ids = {}

VARIABLES
  store,     \* the rows, by revision
  page,      \* "details", "edit", or "away"
  at,        \* the id in the address
  due,       \* the effect of the last render has yet to run
  ran,       \* the id it last ran with
  load,      \* the page's state: its status, and the listing it got
  fetches,   \* the fetches whose continuations would still do something
  deletion,  \* OwnerActions: "none", "confirming" or "deleting"
  draft,     \* useEditProperty: whose values, their validity, its status
  qa,        \* PropertyQAForm
  writes,    \* the deletions and saves in flight
  told       \* history: what the replies to this tab's writes said

vars == <<store, page, at, due, ran, load, fetches, deletion, draft, qa, writes, told>>

below == <<deletion, draft, qa>>

-----------------------------------------------------------------------------

Listings == [id : Ids, rev : Revs, own : BOOLEAN]

Loads ==
  [status : {"loading", "success", "not-found", "error", "forbidden"},
   got : Listings \cup {None}]

Drafts == [of : Ids, fit : BOOLEAN, status : {"idle", "submitting", "error"}]

Writes ==
  [kind : {"delete", "save"}, id : Ids, from : Ids, stage : {"sent", "ok", "refused"},
   rev : Revs \cup {Gone, None}, live : BOOLEAN]

ASSUME SentinelAssumption == None \notin Writes

Loading == [status |-> "loading", got |-> None]

\* question: there is one typed; ask: the listing asked about; history: the
\* listings the answers on the screen are about.
NoQA == [question |-> FALSE, ask |-> None, history |-> {}]

Fetch(id) == [id |-> id, reply |-> None]

\* live: the component that made the call is still there.
Write(kind, id, from) ==
  [kind |-> kind, id |-> id, from |-> from, stage |-> "sent", rev |-> None, live |-> TRUE]

Left ==
  [s \in Slots |-> IF writes[s] = None THEN None ELSE [writes[s] EXCEPT !.live = FALSE]]

Send(w) == \E s \in Slots : writes[s] = None /\ writes' = [writes EXCEPT ![s] = w]

Pend(s) == writes[s] # None

\* The reply of a write, as long as somebody waits for it.
Tell(s) ==
  told' = IF writes[s].live THEN [told EXCEPT ![writes[s].id] = writes[s].rev] ELSE told

Cleared == deletion' = "none" /\ draft' = None /\ qa' = NoQA

\* What runs before the next event of the user: an effect, or a <Navigate>.
Busy == due \/ load.status = "forbidden"

\* The router renders another page, or the same with another id.
Render(p, id) ==
  /\ page' = p
  /\ at' = id
  /\ IF p = page
       THEN due' = (due \/ id # at) /\ UNCHANGED <<load, fetches, below>>
       ELSE due' = (p # "away") /\ load' = Loading /\ fetches' = {} /\ Cleared

-----------------------------------------------------------------------------
(* The effect of both pages. *)

\* Mutant: the fetch before is not told to be ignored.
UncleanedRunEffect ==
  /\ due
  /\ due' = FALSE
  /\ ran' = at
  /\ load' = Loading
  /\ fetches' = fetches \cup {Fetch(at)}
  /\ Cleared
  /\ writes' = Left
  /\ UNCHANGED <<store, page, at, told>>

\* Mutant: the listing of before is shown until the next one arrives.
SwappingRunEffect ==
  /\ due
  /\ due' = FALSE
  /\ ran' = at
  /\ fetches' = {Fetch(at)}
  /\ UNCHANGED <<store, page, at, load, below, writes, told>>

RunEffect ==
  /\ due
  /\ due' = FALSE
  /\ ran' = at
  /\ load' = Loading
  /\ fetches' = {Fetch(at)}
  /\ Cleared
  /\ writes' = Left
  /\ UNCHANGED <<store, page, at, told>>

\* GET /properties/:id
ServeFetch(f) ==
  /\ f \in fetches /\ f.reply = None
  /\ fetches' = (fetches \ {f}) \cup {[f EXCEPT !.reply = store[f.id]]}
  /\ UNCHANGED <<store, page, at, due, ran, load, below, writes, told>>

\* EditPropertyForm seeds its values when it is mounted.  What was stored need
\* not pass validateDraft (ListingFields).
Seeded(id) ==
  IF page # "edit" THEN {None}
  ELSE IF draft # None THEN {draft}
  ELSE {[of |-> id, fit |-> fit, status |-> "idle"] : fit \in BOOLEAN}

\* isOwn says what the session of the call allows.
Got(f) ==
  /\ f \in fetches /\ f.reply \in Revs
  /\ \E own \in BOOLEAN :
       /\ own => f.id \in Mine
       /\ IF page = "edit" /\ ~own
            THEN /\ load' = [status |-> "forbidden", got |-> None]
                 /\ Cleared /\ writes' = Left
            ELSE /\ load' = [status |-> "success",
                             got |-> [id |-> f.id, rev |-> f.reply, own |-> own]]
                 /\ draft' \in Seeded(f.id)
                 /\ UNCHANGED <<deletion, qa, writes>>
  /\ fetches' = fetches \ {f}
  /\ UNCHANGED <<store, page, at, due, ran, told>>

NotGot(f) ==
  /\ f \in fetches
  /\ \/ f.reply = Gone /\ load' = [status |-> "not-found", got |-> None]
     \/ load' = [status |-> "error", got |-> None]
  /\ Cleared /\ writes' = Left
  /\ fetches' = fetches \ {f}
  /\ UNCHANGED <<store, page, at, due, ran, told>>

\* The <Navigate> of EditPropertyPage.
Bounce ==
  /\ load.status = "forbidden"
  /\ Render("details", at)
  /\ UNCHANGED <<store, ran, writes, told>>

-----------------------------------------------------------------------------
(* What the user does. *)

\* Links, the Cancel button of the form, back and forward.
Visit(p, id) ==
  /\ ~Busy
  /\ <<p, id>> # <<page, at>>
  /\ Render(p, id)
  /\ writes' = IF p = page THEN writes ELSE Left
  /\ UNCHANGED <<store, ran, told>>

\* The button of ErrorState.
Retry ==
  /\ ~Busy
  /\ load.status = "error"
  /\ due' = TRUE
  /\ UNCHANGED <<store, page, at, ran, load, fetches, below, writes, told>>

Shows(p) == ~Busy /\ page = p /\ load.status = "success"

Confirm ==
  /\ Shows("details") /\ load.got.own
  /\ \/ deletion = "none" /\ deletion' = "confirming"
     \/ deletion = "confirming" /\ deletion' = "none"
  /\ UNCHANGED <<store, page, at, due, ran, load, fetches, draft, qa, writes, told>>

Delete ==
  /\ Shows("details") /\ load.got.own
  /\ deletion = "confirming"
  /\ deletion' = "deleting"
  /\ Send(Write("delete", load.got.id, load.got.id))
  /\ UNCHANGED <<store, page, at, due, ran, load, fetches, draft, qa, told>>

\* Every input and button of EditPropertyForm is disabled while it is pending.
Editable == Shows("edit") /\ draft.status # "submitting"

\* setField, addFeature, removeFeature.
SetField(fit) ==
  /\ Editable
  /\ draft' = [draft EXCEPT !.fit = fit]
  /\ UNCHANGED <<store, page, at, due, ran, load, fetches, deletion, qa, writes, told>>

\* save, the values having passed validateDraft.
Save ==
  /\ Editable /\ draft.fit
  /\ draft' = [draft EXCEPT !.status = "submitting"]
  /\ Send(Write("save", load.got.id, draft.of))
  /\ UNCHANGED <<store, page, at, due, ran, load, fetches, deletion, qa, told>>

\* The textarea and the suggestions stay enabled while an answer is awaited.
SetQuestion(text) ==
  /\ Shows("details")
  /\ qa' = [qa EXCEPT !.question = text]
  /\ UNCHANGED <<store, page, at, due, ran, load, fetches, deletion, draft, writes, told>>

Ask ==
  /\ Shows("details")
  /\ qa.question /\ qa.ask = None
  /\ qa' = [qa EXCEPT !.ask = load.got.id]
  /\ UNCHANGED <<store, page, at, due, ran, load, fetches, deletion, draft, writes, told>>

-----------------------------------------------------------------------------
(* Deletions, saves and questions. *)

\* DELETE and PATCH /properties/:id
ServeWrite(s) ==
  /\ Pend(s) /\ writes[s].stage = "sent"
  /\ LET w == writes[s] IN
       \/ /\ store[w.id] # Gone
          /\ w.kind = "save" => store[w.id] < MaxRev
          /\ store' = [store EXCEPT ![w.id] = IF w.kind = "save" THEN @ + 1 ELSE Gone]
          /\ writes' = [writes EXCEPT ![s] = [w EXCEPT !.stage = "ok", !.rev = store'[w.id]]]
       \/ /\ writes' = [writes EXCEPT ![s].stage = "refused"]
          /\ UNCHANGED store
  /\ UNCHANGED <<page, at, due, ran, load, fetches, below, told>>

\* Mutant: a deletion or a save stays where it is.
IdleDone(s) ==
  /\ Pend(s) /\ writes[s].stage = "ok"
  /\ writes' = [writes EXCEPT ![s] = None]
  /\ Tell(s)
  /\ UNCHANGED <<store, page, at, due, ran, load, fetches, below>>

\* A deletion leads home, a save to the details page, wherever the user is.
Done(s) ==
  /\ Pend(s) /\ writes[s].stage = "ok"
  /\ IF writes[s].kind = "delete" THEN Render("away", at) ELSE Render("details", writes[s].id)
  /\ writes' = [IF page' = page THEN writes ELSE Left EXCEPT ![s] = None]
  /\ Tell(s)
  /\ UNCHANGED <<store, ran>>

\* Mutant: the buttons stay disabled after a failure.
StuckNotDone(s) ==
  /\ Pend(s)
  /\ writes' = [writes EXCEPT ![s] = None]
  /\ UNCHANGED <<store, page, at, due, ran, load, fetches, below, told>>

\* Mutant: the failure of a deletion is shown in the place of its buttons.
LoudNotDone(s) ==
  /\ Pend(s)
  /\ deletion' = IF writes[s].live THEN "error" ELSE deletion
  /\ writes' = [writes EXCEPT ![s] = None]
  /\ UNCHANGED <<store, page, at, due, ran, load, fetches, draft, qa, told>>

\* Refused, or lost before or after it was served.
NotDone(s) ==
  /\ Pend(s)
  /\ LET by(kind) == writes[s].live /\ writes[s].kind = kind IN
       /\ deletion' = IF by("delete") THEN "confirming" ELSE deletion
       /\ draft' = IF by("save") THEN [draft EXCEPT !.status = "error"] ELSE draft
  /\ writes' = [writes EXCEPT ![s] = None]
  /\ UNCHANGED <<store, page, at, due, ran, load, fetches, qa, told>>

\* The promise of a question; that of a form that is gone does nothing.
Answered ==
  /\ qa.ask # None
  /\ qa' = [question |-> FALSE, ask |-> None, history |-> qa.history \cup {qa.ask}]
  /\ UNCHANGED <<store, page, at, due, ran, load, fetches, deletion, draft, writes, told>>

NotAnswered ==
  /\ qa.ask # None
  /\ qa' = [qa EXCEPT !.ask = None]
  /\ UNCHANGED <<store, page, at, due, ran, load, fetches, deletion, draft, writes, told>>

\* Another tab, or another user, edits or deletes.
Elsewhere(id) ==
  /\ store[id] # Gone
  /\ \/ store[id] < MaxRev /\ store' = [store EXCEPT ![id] = @ + 1]
     \/ store' = [store EXCEPT ![id] = Gone]
  /\ UNCHANGED <<page, at, due, ran, load, fetches, below, writes, told>>

-----------------------------------------------------------------------------

Init ==
  /\ store \in [Ids -> {1, Gone}]
  /\ page \in {"details", "edit"}
  /\ at \in Ids
  /\ due = TRUE
  /\ ran = at
  /\ load = Loading
  /\ fetches = {}
  /\ deletion = "none" /\ draft = None /\ qa = NoQA
  /\ writes = [s \in Slots |-> None]
  /\ told = [id \in Ids |-> 0]

User ==
  \/ \E p \in {"details", "edit", "away"}, id \in Ids : Visit(p, id)
  \/ Retry \/ Confirm \/ Delete \/ Save \/ Ask
  \/ \E b \in BOOLEAN : SetField(b) \/ SetQuestion(b)

React == RunEffect \/ Bounce

Network ==
  \/ \E f \in fetches : ServeFetch(f) \/ Got(f) \/ NotGot(f)
  \/ \E s \in Slots : ServeWrite(s) \/ Done(s) \/ NotDone(s)
  \/ Answered \/ NotAnswered

Next == User \/ React \/ Network \/ \E id \in Ids : Elsewhere(id)

Spec == Init /\ [][Next]_vars

\* React runs its effects; the API answers, or the browser fails the call.
FairSpec == Spec /\ WF_vars(React) /\ WF_vars(Network)

-----------------------------------------------------------------------------
(* Properties. *)

\* Every variable has its type.
TypeOK ==
  /\ store \in [Ids -> Revs \cup {Gone}]
  /\ page \in {"details", "edit", "away"}
  /\ at \in Ids /\ ran \in Ids
  /\ due \in BOOLEAN
  /\ load \in Loads
  /\ fetches \subseteq [id : Ids, reply : Revs \cup {Gone, None}]
  /\ deletion \in {"none", "confirming", "deleting"}
  /\ draft \in Drafts \cup {None}
  /\ qa \in [question : BOOLEAN, ask : Ids \cup {None}, history : SUBSET Ids]
  /\ writes \in [Slots -> Writes \cup {None}]
  /\ told \in [Ids -> Revs \cup {0, Gone}]

\* The page shows a skeleton, a failure, or the listing its effect last asked
\* for, in whatever order the replies arrive (PropertyDetailsPage,
\* EditPropertyPage).
Latest == INSTANCE LatestAnswer WITH
  Queries <- Ids,
  wanted  <- ran,
  shown   <- CASE load.status = "loading" -> Pending
               [] load.status = "success" -> load.got.id
               [] OTHER                   -> Failed

ImplementsLatest == Latest!Spec

\* No save puts the values of one listing into another, however the user moves
\* between them (useEditProperty keeps its values while its listing may change
\* under it).
OwnValuesOnly == \A s \in Slots : writes[s] # None => writes[s].from = writes[s].id

\* The answers on the screen are about the listing on the screen (PropertyQAForm
\* keeps its history while its propertyId may change under it).
AnswersOwnListing == qa.history # {} => load.status = "success" /\ qa.history = {load.got.id}

\* Neither page shows a listing as it was before a save or a deletion whose
\* reply this tab waited for on the page that made it (useEditProperty and
\* OwnerActions navigate to a page that fetches anew, or to another).
ReadsOwnWrites ==
  load.status = "success" =>
    /\ told[load.got.id] # Gone
    /\ load.got.rev >= told[load.got.id]

\* Once the user stops, no skeleton, spinner or disabled button stays: every
\* call has ended and every effect has run (both pages, OwnerActions,
\* useEditProperty, PropertyQAForm).
PendingEnds ==
  <>[][~User]_vars =>
    <>[](/\ ~Busy
         /\ page # "away" => load.status # "loading"
         /\ deletion # "deleting"
         /\ draft # None => draft.status # "submitting"
         /\ qa.ask = None)
=============================================================================
