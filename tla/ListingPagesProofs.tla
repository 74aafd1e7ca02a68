------------------------- MODULE ListingPagesProofs -------------------------
(***************************************************************************)
(* Proofs about ListingPages, for any set of listings, any number of       *)
(* revisions, and any number of deletions and saves in flight.             *)
(***************************************************************************)
EXTENDS ListingPages, TLAPS

\* The only fetch in flight is for the id of the last effect, and the page
\* shows skeletons meanwhile.
FetchInv ==
  /\ \A f, g \in fetches : f = g
  /\ \A f \in fetches : f.id = ran /\ load.status = "loading"

LoadInv == load.status = "success" => load.got \in Listings /\ load.got.id = ran

\* What is below a page that shows no listing is new; the rest is about the
\* listing shown.
BelowInv ==
  /\ load.status # "success" => deletion = "none" /\ draft = None /\ qa = NoQA
  /\ load.status = "success" =>
       /\ page = "edit" => draft \in Drafts /\ draft.of = load.got.id
       /\ qa.ask # None => qa.ask = load.got.id
       /\ qa.history \subseteq {load.got.id}

Origin(kind) == IF kind = "delete" THEN "details" ELSE "edit"

\* Somebody waits for a deletion or a save only on the page it was made on.
WriteInv ==
  \A s \in Slots : writes[s] # None =>
    /\ writes[s].from = writes[s].id
    /\ writes[s].live => load.status = "success" /\ page = Origin(writes[s].kind)

\* A row is not older than rev.
Kept(row, rev) ==
  /\ rev = Gone => row = Gone
  /\ rev \in Nat => row = Gone \/ rev <= row

\* What replies said holds of the rows.
KeptInv ==
  /\ \A id \in Ids : Kept(store[id], told[id])
  /\ \A s \in Slots : writes[s] # None /\ writes[s].stage = "ok" =>
       writes[s].rev # None /\ Kept(store[writes[s].id], writes[s].rev)

\* A revision rev of a listing is not older than what this tab was told.
Fresh(id, rev) == told[id] # Gone /\ rev >= told[id]

FreshInv ==
  /\ \A f \in fetches : f.reply \in Revs => Fresh(f.id, f.reply)
  /\ load.status = "success" => Fresh(load.got.id, load.got.rev)

PageInv == FetchInv /\ LoadInv /\ BelowInv /\ WriteInv

IInv == TypeOK /\ PageInv /\ KeptInv /\ FreshInv

-----------------------------------------------------------------------------

LEMMA Sentinels ==
  /\ Gone \notin Int /\ None \notin Int /\ Gone # None
  /\ \A r \in Revs : r \in Int /\ r >= 1 /\ r <= MaxRev
  /\ Revs \subseteq Nat
BY ListingPagesAssumption DEF Revs

\* A step that changes nothing but what is below the page.
LEMMA BelowKeepsInv ==
  ASSUME IInv, UNCHANGED <<store, page, at, due, ran, load, fetches, writes, told>>,
         deletion' \in {"none", "confirming", "deleting"}, draft' \in Drafts \cup {None},
         qa' \in [question : BOOLEAN, ask : Ids \cup {None}, history : SUBSET Ids],
         BelowInv'
  PROVE  IInv'
<1>1. TypeOK'
  BY DEF IInv, TypeOK
<1>2. PageInv'
  BY DEF IInv, PageInv, FetchInv, LoadInv, WriteInv
<1>3. KeptInv' /\ FreshInv'
  BY DEF IInv, KeptInv, Kept, FreshInv, Fresh
<1> QED BY <1>1, <1>2, <1>3 DEF IInv

\* What the writes are once nobody waits for them.
LEMMA LeftFacts ==
  ASSUME TypeOK
  PROVE  /\ Left \in [Slots -> Writes \cup {None}]
         /\ \A s \in Slots : Left[s] # None =>
              /\ writes[s] # None /\ ~Left[s].live
              /\ Left[s].kind = writes[s].kind /\ Left[s].id = writes[s].id
              /\ Left[s].from = writes[s].from /\ Left[s].stage = writes[s].stage
              /\ Left[s].rev = writes[s].rev
<1>1. ASSUME NEW s \in Slots, writes[s] # None
      PROVE  LET w == [writes[s] EXCEPT !.live = FALSE] IN
               /\ w \in Writes /\ ~w.live
               /\ w.kind = writes[s].kind /\ w.id = writes[s].id
               /\ w.from = writes[s].from /\ w.stage = writes[s].stage
               /\ w.rev = writes[s].rev
  BY <1>1 DEF TypeOK, Writes
<1> QED BY <1>1 DEF Left

\* The writes are those of before, or those with nobody waiting, and perhaps one
\* is over.
Fewer ==
  /\ writes' \in [Slots -> Writes \cup {None}]
  /\ \A s \in Slots : writes'[s] # None => writes'[s] = writes[s] \/ writes'[s] = Left[s]

LEMMA LeftIsFewer == ASSUME TypeOK, writes' = Left PROVE Fewer
BY LeftFacts DEF Fewer

LEMMA SameIsFewer == ASSUME TypeOK, writes' = writes PROVE Fewer
BY DEF Fewer, TypeOK

LEMMA FewerKeepKept ==
  ASSUME TypeOK, KeptInv, Fewer, store' = store, \A id \in Ids : Kept(store[id], told'[id])
  PROVE  KeptInv'
<1>1. ASSUME NEW s \in Slots, writes'[s] # None, writes'[s].stage = "ok"
      PROVE  writes'[s].rev # None /\ Kept(store[writes'[s].id], writes'[s].rev)
  BY <1>1, LeftFacts DEF Fewer, KeptInv
<1> QED BY <1>1 DEF KeptInv, Kept

\* A page is shown without a listing: nobody waits, nothing is below.
LEMMA ClearedKeepsInv ==
  ASSUME IInv, Fewer, \A s \in Slots : writes'[s] # None => ~writes'[s].live,
         store' = store, told' \in [Ids -> Revs \cup {0, Gone}],
         \A id \in Ids : Kept(store[id], told'[id]),
         page' \in {"details", "edit", "away"}, at' \in Ids, ran' \in Ids, due' \in BOOLEAN,
         load' \in Loads, load'.status # "success", Cleared,
         \/ fetches' = {}
         \/ fetches' = {Fetch(ran')} /\ load'.status = "loading"
  PROVE  IInv'
<1>1. NoQA \in [question : BOOLEAN, ask : Ids \cup {None}, history : SUBSET Ids]
  BY DEF NoQA
<1>2. Fetch(ran') \in [id : Ids, reply : Revs \cup {Gone, None}]
      /\ Fetch(ran').id = ran' /\ Fetch(ran').reply = None
  BY DEF Fetch
<1>3. TypeOK'
  BY <1>1, <1>2 DEF IInv, TypeOK, Cleared, Fewer
<1>4. FetchInv' /\ LoadInv' /\ BelowInv'
  BY <1>2 DEF FetchInv, LoadInv, BelowInv, Cleared
<1>5. WriteInv'
  BY LeftFacts DEF WriteInv, Fewer, IInv, PageInv
<1>6. KeptInv'
  BY FewerKeepKept DEF IInv
<1>7. FreshInv'
  BY <1>2, Sentinels DEF FreshInv
<1> QED BY <1>3, <1>4, <1>5, <1>6, <1>7 DEF IInv, PageInv

\* The router renders: the page is new, or it is the same and goes on.
LEMMA RenderKeepsInv ==
  ASSUME IInv, NEW p \in {"details", "edit", "away"}, NEW id \in Ids, Render(p, id),
         UNCHANGED <<store, ran>>, Fewer,
         p # page => \A s \in Slots : writes'[s] # None => ~writes'[s].live,
         told' \in [Ids -> Revs \cup {0, Gone}], \A x \in Ids : Kept(store[x], told'[x]),
         p = page => told' = told
  PROVE  IInv'
<1>1. CASE p # page
  <2>1. Loading \in Loads /\ Loading.status # "success"
    BY DEF Loading, Loads
  <2>2. /\ page' = p /\ at' = id /\ due' \in BOOLEAN /\ load' = Loading /\ fetches' = {}
        /\ Cleared
    BY <1>1 DEF Render
  <2>3. ran' \in Ids
    BY DEF IInv, TypeOK
  <2> QED BY <1>1, <2>1, <2>2, <2>3, ClearedKeepsInv
<1>2. CASE p = page
  <2>1. /\ page' = page /\ at' = id /\ UNCHANGED <<load, fetches, deletion, draft, qa>>
        /\ due' \in BOOLEAN
    BY <1>2 DEF Render, below, IInv, TypeOK
  <2>2. TypeOK'
    BY <2>1 DEF IInv, TypeOK, Fewer
  <2>3. FetchInv' /\ LoadInv' /\ BelowInv'
    BY <2>1 DEF IInv, PageInv, FetchInv, LoadInv, BelowInv
  <2>4. WriteInv'
    <3>1. ASSUME NEW s \in Slots, writes'[s] # None
          PROVE  /\ writes[s] # None
                 /\ writes'[s].from = writes[s].from /\ writes'[s].id = writes[s].id
                 /\ writes'[s].kind = writes[s].kind /\ (writes'[s].live => writes[s].live)
      BY <3>1, LeftFacts DEF Fewer, IInv
    <3> QED BY <2>1, <3>1 DEF WriteInv, IInv, PageInv, Origin
  <2>5. KeptInv'
    BY FewerKeepKept DEF IInv
  <2>6. FreshInv'
    BY <1>2, <2>1 DEF IInv, FreshInv, Fresh
  <2> QED BY <2>2, <2>3, <2>4, <2>5, <2>6 DEF IInv, PageInv
<1> QED BY <1>1, <1>2

LEMMA EffectKeepsInv ==
  ASSUME IInv, RunEffect
  PROVE  IInv'
<1>1. Loading \in Loads /\ Loading.status = "loading"
  BY DEF Loading, Loads
<1>2. /\ due' = FALSE /\ ran' = at /\ load' = Loading /\ fetches' = {Fetch(at)} /\ Cleared
      /\ writes' = Left /\ UNCHANGED <<store, page, at, told>>
  BY DEF RunEffect
<1>3. Fewer /\ \A s \in Slots : writes'[s] # None => ~writes'[s].live
  BY <1>2, LeftIsFewer, LeftFacts DEF IInv
<1>4. /\ page' \in {"details", "edit", "away"} /\ at' \in Ids /\ ran' \in Ids /\ due' \in BOOLEAN
      /\ told' \in [Ids -> Revs \cup {0, Gone}] /\ \A id \in Ids : Kept(store[id], told'[id])
  BY <1>2 DEF IInv, TypeOK, KeptInv
<1> QED BY <1>1, <1>2, <1>3, <1>4, ClearedKeepsInv

\* The API answers a fetch.
LEMMA ServeFetchKeepsInv ==
  ASSUME IInv, NEW f \in fetches, ServeFetch(f)
  PROVE  IInv'
<1> DEFINE g == [f EXCEPT !.reply = store[f.id]]
<1>1. /\ g \in [id : Ids, reply : Revs \cup {Gone, None}] /\ g.id = f.id
      /\ g.reply = store[f.id]
  BY DEF IInv, TypeOK
<1>2. fetches' = (fetches \ {f}) \cup {g}
      /\ UNCHANGED <<store, page, at, due, ran, load, deletion, draft, qa, writes, told>>
  BY DEF ServeFetch, below
<1> HIDE DEF g
<1>3. fetches' = {g}
  BY <1>2 DEF IInv, PageInv, FetchInv
<1>4. TypeOK'
  BY <1>1, <1>2, <1>3 DEF IInv, TypeOK
<1>5. PageInv'
  BY <1>1, <1>2, <1>3 DEF IInv, PageInv, FetchInv, LoadInv, BelowInv, WriteInv
<1>6. KeptInv'
  BY <1>2 DEF IInv, KeptInv, Kept
<1>7. store[f.id] \in Revs => Fresh(f.id, store[f.id])
  <2>1. f.id \in Ids /\ Kept(store[f.id], told[f.id]) /\ told[f.id] \in Revs \cup {0, Gone}
    BY DEF IInv, TypeOK, KeptInv
  <2>2. SUFFICES ASSUME store[f.id] \in Revs PROVE Fresh(f.id, store[f.id])
    OBVIOUS
  <2>3. store[f.id] # Gone /\ store[f.id] \in Int
    BY <2>2, Sentinels
  <2>4. told[f.id] # Gone
    BY <2>1, <2>3 DEF Kept
  <2>5. told[f.id] \in Nat
    BY <2>1, <2>4 DEF Revs
  <2>6. told[f.id] <= store[f.id]
    BY <2>1, <2>3, <2>5 DEF Kept
  <2> QED BY <2>3, <2>4, <2>5, <2>6 DEF Fresh
<1>8. FreshInv'
  BY <1>1, <1>2, <1>3, <1>7 DEF IInv, FreshInv, Fresh
<1> QED BY <1>4, <1>5, <1>6, <1>8 DEF IInv

\* A page without a listing, from a fetch that is over.
LEMMA FailedKeepsInv ==
  ASSUME IInv, NEW f \in fetches, fetches' = fetches \ {f}, load' \in Loads,
         load'.status # "success", Cleared, writes' = Left,
         UNCHANGED <<store, page, at, due, ran, told>>
  PROVE  IInv'
<1>1. fetches' = {}
  BY DEF IInv, PageInv, FetchInv
<1>2. Fewer /\ \A s \in Slots : writes'[s] # None => ~writes'[s].live
  BY LeftIsFewer, LeftFacts DEF IInv
<1>3. /\ page' \in {"details", "edit", "away"} /\ at' \in Ids /\ ran' \in Ids /\ due' \in BOOLEAN
      /\ told' \in [Ids -> Revs \cup {0, Gone}] /\ \A id \in Ids : Kept(store[id], told'[id])
  BY DEF IInv, TypeOK, KeptInv
<1> QED BY <1>1, <1>2, <1>3, ClearedKeepsInv

\* A listing arrives.
LEMMA GotKeepsInv ==
  ASSUME IInv, NEW f \in fetches, Got(f)
  PROVE  IInv'
<1>1. PICK own \in BOOLEAN :
        IF page = "edit" /\ ~own
          THEN /\ load' = [status |-> "forbidden", got |-> None]
               /\ Cleared /\ writes' = Left
          ELSE /\ load' = [status |-> "success",
                           got |-> [id |-> f.id, rev |-> f.reply, own |-> own]]
               /\ draft' \in Seeded(f.id)
               /\ UNCHANGED <<deletion, qa, writes>>
  BY DEF Got
<1>2. f.reply \in Revs /\ f.id = ran /\ load.status = "loading" /\ f.id \in Ids
      /\ fetches' = fetches \ {f} /\ UNCHANGED <<store, page, at, due, ran, told>>
  BY DEF Got, IInv, PageInv, FetchInv, TypeOK
<1>3. CASE page = "edit" /\ ~own
  <2>1. load' \in Loads /\ load'.status # "success"
    BY <1>1, <1>3 DEF Loads
  <2> QED BY <1>1, <1>2, <1>3, <2>1, FailedKeepsInv
<1>4. CASE ~(page = "edit" /\ ~own)
  <2> DEFINE l == [id |-> f.id, rev |-> f.reply, own |-> own]
  <2>1. /\ load' = [status |-> "success", got |-> l] /\ draft' \in Seeded(f.id)
        /\ UNCHANGED <<deletion, qa, writes>>
    BY <1>1, <1>4
  <2>2. l \in Listings /\ l.id = f.id /\ l.rev = f.reply
    BY <1>2 DEF Listings
  <2> HIDE DEF l
  <2>3. load' \in Loads /\ load'.status = "success" /\ load'.got = l
    BY <2>1, <2>2 DEF Loads
  <2>4. deletion = "none" /\ draft = None /\ qa = NoQA
    BY <1>2 DEF IInv, PageInv, BelowInv
  <2>5. /\ page # "edit" => draft' = None
        /\ page = "edit" => draft' \in Drafts /\ draft'.of = f.id
    <3>1. CASE page # "edit"
      BY <2>1, <3>1 DEF Seeded
    <3>2. CASE page = "edit"
      <4>1. PICK fit \in BOOLEAN : draft' = [of |-> f.id, fit |-> fit, status |-> "idle"]
        BY <2>1, <2>4, <3>2 DEF Seeded
      <4> QED BY <1>2, <3>2, <4>1 DEF Drafts
    <3> QED BY <3>1, <3>2
  <2>6. fetches' = {}
    BY <1>2 DEF IInv, PageInv, FetchInv
  <2>7. TypeOK'
    BY <1>2, <2>1, <2>3, <2>5, <2>6 DEF IInv, TypeOK
  <2>8. FetchInv' /\ LoadInv'
    BY <1>2, <2>2, <2>3, <2>6 DEF FetchInv, LoadInv
  <2>9. BelowInv'
    BY <1>2, <2>1, <2>2, <2>3, <2>4, <2>5 DEF BelowInv, NoQA
  <2>10. WriteInv'
    BY <1>2, <2>1, <2>3 DEF IInv, PageInv, WriteInv
  <2>11. KeptInv'
    BY <1>2, <2>1 DEF IInv, KeptInv, Kept
  <2>12. FreshInv'
    BY <1>2, <2>2, <2>3, <2>6 DEF IInv, FreshInv, Fresh
  <2> QED BY <2>7, <2>8, <2>9, <2>10, <2>11, <2>12 DEF IInv, PageInv
<1> QED BY <1>3, <1>4

LEMMA NotGotKeepsInv ==
  ASSUME IInv, NEW f \in fetches, NotGot(f)
  PROVE  IInv'
<1>1. /\ load' = [status |-> "not-found", got |-> None]
         \/ load' = [status |-> "error", got |-> None]
      /\ Cleared /\ writes' = Left /\ fetches' = fetches \ {f}
      /\ UNCHANGED <<store, page, at, due, ran, told>>
  BY DEF NotGot
<1>2. load' \in Loads /\ load'.status # "success"
  BY <1>1 DEF Loads
<1> QED BY <1>1, <1>2, FailedKeepsInv

\* The buttons and inputs that send nothing, and the questions.
LEMMA TypingKeepsInv ==
  ASSUME IInv,
         Confirm \/ Ask \/ Answered \/ NotAnswered \/ \E b \in BOOLEAN : SetField(b) \/ SetQuestion(b)
  PROVE  IInv'
<1>1. CASE Confirm
  BY <1>1, BelowKeepsInv DEF Confirm, Shows, IInv, TypeOK, PageInv, BelowInv
<1>2. CASE Ask
  <2>1. qa' = [qa EXCEPT !.ask = load.got.id] /\ load.status = "success"
        /\ UNCHANGED <<store, page, at, due, ran, load, fetches, deletion, draft, writes, told>>
    BY <1>2 DEF Ask, Shows
  <2>2. load.got.id \in Ids
    BY <2>1 DEF IInv, TypeOK, PageInv, LoadInv
  <2> QED BY <2>1, <2>2, BelowKeepsInv DEF IInv, TypeOK, PageInv, BelowInv
<1>3. CASE Answered
  <2>1. /\ qa.ask # None
        /\ qa' = [question |-> FALSE, ask |-> None, history |-> qa.history \cup {qa.ask}]
        /\ UNCHANGED <<store, page, at, due, ran, load, fetches, deletion, draft, writes, told>>
    BY <1>3 DEF Answered
  <2>2. load.status = "success"
    BY <2>1 DEF IInv, PageInv, BelowInv, NoQA
  <2> QED BY <2>1, <2>2, BelowKeepsInv DEF IInv, TypeOK, PageInv, BelowInv
<1>4. CASE NotAnswered
  <2>1. /\ qa.ask # None /\ qa' = [qa EXCEPT !.ask = None]
        /\ UNCHANGED <<store, page, at, due, ran, load, fetches, deletion, draft, writes, told>>
    BY <1>4 DEF NotAnswered
  <2>2. load.status = "success"
    BY <2>1 DEF IInv, PageInv, BelowInv, NoQA
  <2> QED BY <2>1, <2>2, BelowKeepsInv DEF IInv, TypeOK, PageInv, BelowInv
<1>5. ASSUME NEW b \in BOOLEAN, SetField(b)
      PROVE  IInv'
  <2>1. /\ page = "edit" /\ load.status = "success" /\ draft' = [draft EXCEPT !.fit = b]
        /\ UNCHANGED <<store, page, at, due, ran, load, fetches, deletion, qa, writes, told>>
    BY <1>5 DEF SetField, Editable, Shows
  <2>2. draft \in Drafts /\ draft.of = load.got.id
    BY <2>1 DEF IInv, PageInv, BelowInv
  <2>3. draft' \in Drafts /\ draft'.of = draft.of
    BY <2>1, <2>2 DEF Drafts
  <2> QED BY <2>1, <2>2, <2>3, BelowKeepsInv DEF IInv, TypeOK, PageInv, BelowInv
<1>6. ASSUME NEW b \in BOOLEAN, SetQuestion(b)
      PROVE  IInv'
  <2>1. /\ load.status = "success" /\ qa' = [qa EXCEPT !.question = b]
        /\ UNCHANGED <<store, page, at, due, ran, load, fetches, deletion, draft, writes, told>>
    BY <1>6 DEF SetQuestion, Shows
  <2> QED BY <2>1, BelowKeepsInv DEF IInv, TypeOK, PageInv, BelowInv
<1> QED BY <1>1, <1>2, <1>3, <1>4, <1>5, <1>6

\* A deletion or a save is sent.
LEMMA SendKeepsInv ==
  ASSUME IInv, NEW kind \in {"delete", "save"}, Send(Write(kind, load.got.id, load.got.id)),
         UNCHANGED <<store, page, at, due, ran, load, fetches, qa, told>>,
         load.status = "success", page = Origin(kind),
         deletion' \in {"none", "confirming", "deleting"}, draft' \in Drafts \cup {None},
         page = "edit" => draft' \in Drafts /\ draft'.of = load.got.id
  PROVE  IInv'
<1> DEFINE w == Write(kind, load.got.id, load.got.id)
<1>1. load.got.id \in Ids
  BY DEF IInv, PageInv, LoadInv, Listings
<1>2. /\ w \in Writes /\ w.from = w.id /\ w.kind = kind /\ w.stage # "ok"
  BY <1>1 DEF Write, Writes
<1>3. PICK s \in Slots : writes' = [writes EXCEPT ![s] = w]
  BY DEF Send
<1> HIDE DEF w
<1>4. /\ writes' \in [Slots -> Writes \cup {None}]
      /\ writes'[s] = w /\ \A t \in Slots \ {s} : writes'[t] = writes[t]
  BY <1>2, <1>3 DEF IInv, TypeOK
<1>5. TypeOK'
  BY <1>4 DEF IInv, TypeOK
<1>6. FetchInv' /\ LoadInv' /\ BelowInv'
  BY DEF IInv, PageInv, FetchInv, LoadInv, BelowInv
<1>7. WriteInv'
  BY <1>2, <1>4 DEF IInv, PageInv, WriteInv, Origin
<1>8. KeptInv'
  BY <1>2, <1>4 DEF IInv, KeptInv, Kept
<1>9. FreshInv'
  BY DEF IInv, FreshInv, Fresh
<1> QED BY <1>5, <1>6, <1>7, <1>8, <1>9 DEF IInv, PageInv

LEMMA SubmittingKeepsInv ==
  ASSUME IInv, Delete \/ Save
  PROVE  IInv'
<1>1. CASE Delete
  <2>1. /\ page = "details" /\ load.status = "success" /\ deletion' = "deleting"
        /\ Send(Write("delete", load.got.id, load.got.id))
        /\ UNCHANGED <<store, page, at, due, ran, load, fetches, draft, qa, told>>
    BY <1>1 DEF Delete, Shows
  <2>2. draft' \in Drafts \cup {None}
    BY <2>1 DEF IInv, TypeOK
  <2> QED BY <2>1, <2>2, SendKeepsInv DEF Origin
<1>2. CASE Save
  <2>1. /\ page = "edit" /\ load.status = "success"
        /\ draft' = [draft EXCEPT !.status = "submitting"]
        /\ Send(Write("save", load.got.id, draft.of))
        /\ UNCHANGED <<store, page, at, due, ran, load, fetches, deletion, qa, told>>
    BY <1>2 DEF Save, Editable, Shows
  <2>2. draft \in Drafts /\ draft.of = load.got.id
    BY <2>1 DEF IInv, PageInv, BelowInv
  <2>3. draft' \in Drafts /\ draft'.of = draft.of
    BY <2>1, <2>2 DEF Drafts
  <2>4. deletion' \in {"none", "confirming", "deleting"}
    BY <2>1 DEF IInv, TypeOK
  <2> QED BY <2>1, <2>2, <2>3, <2>4, SendKeepsInv DEF Origin
<1> QED BY <1>1, <1>2

-----------------------------------------------------------------------------
(* The store and its replies. *)

\* Rows only grow older, or go for good.
Ages ==
  /\ store' \in [Ids -> Revs \cup {Gone}]
  /\ \A id \in Ids : \/ store'[id] = store[id] \/ store'[id] = Gone
                     \/ store[id] # Gone /\ store'[id] = store[id] + 1

LEMMA AgedKept ==
  ASSUME TypeOK, Ages, NEW id \in Ids, NEW rev, Kept(store[id], rev)
  PROVE  Kept(store'[id], rev)
<1>1. CASE store'[id] = store[id] \/ store'[id] = Gone
  <2>1. store[id] = Gone => store'[id] = Gone
    BY <1>1
  <2> QED BY <1>1, <2>1 DEF Kept
<1>2. CASE store[id] # Gone /\ store'[id] = store[id] + 1
  <2>1. store[id] \in Revs
    BY <1>2 DEF TypeOK
  <2>2. store[id] \in Int
    BY <2>1, Sentinels
  <2> QED BY <1>2, <2>2 DEF Kept
<1> QED BY <1>1, <1>2 DEF Ages

\* A row that was just written.
LEMMA Answering ==
  ASSUME TypeOK, NEW id \in Ids, Ages
  PROVE  Kept(store'[id], store'[id])
<1>1. store'[id] \in Revs \cup {Gone}
  BY DEF Ages
<1>2. CASE store'[id] = Gone
  BY <1>2 DEF Kept
<1>3. CASE store'[id] # Gone
  <2>1. store'[id] \in Int
    BY <1>1, <1>3, Sentinels
  <2> QED BY <1>3, <2>1 DEF Kept
<1> QED BY <1>2, <1>3

LEMMA StoreKeepsInv ==
  ASSUME IInv, Ages, UNCHANGED <<page, at, due, ran, load, fetches, deletion, draft, qa, told>>,
         writes' \in [Slots -> Writes \cup {None}],
         \A s \in Slots : writes'[s] # None =>
           /\ writes[s] # None
           /\ writes'[s].kind = writes[s].kind /\ writes'[s].id = writes[s].id
           /\ writes'[s].from = writes[s].from /\ writes'[s].live = writes[s].live
           /\ \/ writes'[s].stage = writes[s].stage /\ writes'[s].rev = writes[s].rev
              \/ writes'[s].stage = "ok" /\ writes'[s].rev = store'[writes[s].id]
              \/ writes'[s].stage = "refused"
  PROVE  IInv'
<1>1. TypeOK'
  BY DEF IInv, TypeOK, Ages
<1>2. FetchInv' /\ LoadInv' /\ BelowInv' /\ FreshInv'
  BY DEF IInv, PageInv, FetchInv, LoadInv, BelowInv, FreshInv, Fresh
<1>3. WriteInv'
  BY DEF IInv, PageInv, WriteInv
<1>4. ASSUME NEW s \in Slots, writes'[s] # None, writes'[s].stage = "ok"
      PROVE  writes'[s].rev # None /\ Kept(store'[writes[s].id], writes'[s].rev)
  <2>1. writes[s] # None /\ writes[s].id \in Ids
    BY <1>4 DEF IInv, TypeOK, Writes
  <2>2. CASE writes[s].stage = "ok" /\ writes'[s].rev = writes[s].rev
    BY <1>4, <2>1, <2>2, AgedKept DEF IInv, KeptInv
  <2>3. CASE writes'[s].rev = store'[writes[s].id]
    <3>1. store'[writes[s].id] # None
      BY <2>1, Sentinels DEF Ages
    <3>2. Kept(store'[writes[s].id], store'[writes[s].id])
      BY <2>1, Answering DEF IInv
    <3> QED BY <2>3, <3>1, <3>2
  <2> QED BY <1>4, <2>2, <2>3
<1>5. \A id \in Ids : Kept(store'[id], told'[id])
  <2>1. ASSUME NEW id \in Ids PROVE Kept(store'[id], told'[id])
    BY AgedKept DEF IInv, KeptInv
  <2> QED BY <2>1
<1>6. KeptInv'
  BY <1>4, <1>5 DEF KeptInv
<1> QED BY <1>1, <1>2, <1>3, <1>6 DEF IInv, PageInv

\* One more revision is one within the bound.
LEMMA NextRevision ==
  ASSUME NEW r \in Revs, r < MaxRev
  PROVE  r + 1 \in Revs
BY ListingPagesAssumption DEF Revs

LEMMA ServeWriteKeepsInv ==
  ASSUME IInv, NEW s \in Slots, ServeWrite(s)
  PROVE  IInv'
<1> DEFINE w == writes[s]
<1>1. w # None /\ w \in Writes /\ w.id \in Ids
      /\ UNCHANGED <<page, at, due, ran, load, fetches, deletion, draft, qa, told>>
  BY DEF ServeWrite, Pend, IInv, TypeOK, Writes, below
<1>2. CASE /\ store[w.id] # Gone
           /\ w.kind = "save" => store[w.id] < MaxRev
           /\ store' = [store EXCEPT ![w.id] = IF w.kind = "save" THEN @ + 1 ELSE Gone]
           /\ writes' = [writes EXCEPT ![s] = [w EXCEPT !.stage = "ok", !.rev = store'[w.id]]]
  <2>1. store[w.id] \in Revs
    BY <1>1, <1>2 DEF IInv, TypeOK
  <2>2. store'[w.id] \in Revs \cup {Gone}
    BY <1>1, <1>2, <2>1, NextRevision DEF IInv, TypeOK
  <2>3. Ages
    <3>1. \A id \in Ids \ {w.id} : store'[id] = store[id]
      BY <1>2 DEF IInv, TypeOK
    <3>2. store'[w.id] = Gone \/ (store[w.id] # Gone /\ store'[w.id] = store[w.id] + 1)
      BY <1>1, <1>2 DEF IInv, TypeOK
    <3>3. store' \in [Ids -> Revs \cup {Gone}]
      BY <1>2, <2>2, <3>1 DEF IInv, TypeOK
    <3> QED BY <3>1, <3>2, <3>3 DEF Ages
  <2> DEFINE row == store'[w.id]
             x == [w EXCEPT !.stage = "ok", !.rev = row]
  <2>4. x \in Writes /\ x.kind = w.kind /\ x.id = w.id /\ x.from = w.from /\ x.live = w.live
        /\ x.stage = "ok" /\ x.rev = row
    BY <1>1, <2>2 DEF Writes
  <2>5. writes' = [writes EXCEPT ![s] = x]
    BY <1>2 DEF IInv, TypeOK
  <2> HIDE DEF x
  <2>6. /\ writes' \in [Slots -> Writes \cup {None}]
        /\ writes'[s] = x /\ \A t \in Slots \ {s} : writes'[t] = writes[t]
    BY <2>4, <2>5 DEF IInv, TypeOK
  <2> QED BY <1>1, <2>3, <2>4, <2>6, StoreKeepsInv
<1>3. CASE writes' = [writes EXCEPT ![s].stage = "refused"] /\ UNCHANGED store
  <2> DEFINE x == [w EXCEPT !.stage = "refused"]
  <2>1. x \in Writes /\ x.kind = w.kind /\ x.id = w.id /\ x.from = w.from /\ x.live = w.live
        /\ x.stage = "refused"
    BY <1>1 DEF Writes
  <2>2. writes' = [writes EXCEPT ![s] = x]
    BY <1>3 DEF IInv, TypeOK
  <2> HIDE DEF x
  <2>3. /\ writes' \in [Slots -> Writes \cup {None}]
        /\ writes'[s] = x /\ \A t \in Slots \ {s} : writes'[t] = writes[t]
    BY <2>1, <2>2 DEF IInv, TypeOK
  <2>4. Ages
    BY <1>3 DEF Ages, IInv, TypeOK
  <2> QED BY <1>1, <2>1, <2>3, <2>4, StoreKeepsInv
<1> QED BY <1>2, <1>3 DEF ServeWrite

LEMMA ElsewhereKeepsInv ==
  ASSUME IInv, NEW id \in Ids, Elsewhere(id)
  PROVE  IInv'
<1>1. /\ UNCHANGED <<page, at, due, ran, load, fetches, deletion, draft, qa, writes, told>>
      /\ store[id] \in Revs /\ store[id] # Gone
  BY DEF Elsewhere, IInv, TypeOK, below
<1>2. \/ store[id] < MaxRev /\ store' = [store EXCEPT ![id] = store[id] + 1]
      \/ store' = [store EXCEPT ![id] = Gone]
  BY DEF Elsewhere
<1>3. store'[id] \in Revs \cup {Gone}
  BY <1>1, <1>2, NextRevision DEF IInv, TypeOK
<1>4. /\ \A x \in Ids \ {id} : store'[x] = store[x]
      /\ store'[id] = Gone \/ store'[id] = store[id] + 1
      /\ store' \in [Ids -> Revs \cup {Gone}]
  BY <1>2, <1>3 DEF IInv, TypeOK
<1>5. Ages
  BY <1>1, <1>4 DEF Ages
<1>6. writes \in [Slots -> Writes \cup {None}]
  BY DEF IInv, TypeOK
<1> QED BY <1>1, <1>5, <1>6, StoreKeepsInv

\* A deletion or a save is done.
LEMMA DoneKeepsInv ==
  ASSUME IInv, NEW s \in Slots, Done(s)
  PROVE  IInv'
<1> DEFINE w == writes[s]
           p == IF w.kind = "delete" THEN "away" ELSE "details"
           id == IF w.kind = "delete" THEN at ELSE w.id
<1>1. w # None /\ w \in Writes /\ w.id \in Ids /\ w.stage = "ok" /\ w.kind \in {"delete", "save"}
  BY DEF Done, Pend, IInv, TypeOK, Writes
<1>2. w.rev \in Revs \cup {Gone} /\ Kept(store[w.id], w.rev)
  BY <1>1 DEF IInv, KeptInv, Writes
<1>3. /\ Render(p, id) /\ UNCHANGED <<store, ran>> /\ Tell(s)
      /\ writes' = [IF page' = page THEN writes ELSE Left EXCEPT ![s] = None]
  BY <1>1 DEF Done
<1>4. p \in {"details", "edit", "away"} /\ id \in Ids
  BY <1>1 DEF IInv, TypeOK
<1>5. page' = p
  BY <1>3 DEF Render
<1>6. w.live => p # page
  BY <1>1 DEF IInv, PageInv, WriteInv, Origin
<1>7. Fewer /\ (p # page => \A t \in Slots : writes'[t] # None => ~writes'[t].live)
  <2>1. CASE p = page
    <3>1. writes' = [writes EXCEPT ![s] = None]
      BY <1>3, <1>5, <2>1
    <3> QED BY <2>1, <3>1 DEF Fewer, IInv, TypeOK
  <2>2. CASE p # page
    <3>1. writes' = [Left EXCEPT ![s] = None]
      BY <1>3, <1>5, <2>2
    <3>2. Left \in [Slots -> Writes \cup {None}]
      BY LeftFacts DEF IInv
    <3>3. \A t \in Slots : writes'[t] # None => writes'[t] = Left[t] /\ Left[t] # None
      BY <3>1, <3>2
    <3>4. writes' \in [Slots -> Writes \cup {None}]
      BY <3>1, <3>2
    <3> QED BY <3>3, <3>4, LeftFacts DEF Fewer, IInv
  <2> QED BY <2>1, <2>2
<1>8. /\ told' \in [Ids -> Revs \cup {0, Gone}] /\ \A x \in Ids : Kept(store[x], told'[x])
      /\ p = page => told' = told
  <2>1. CASE w.live
    <3>1. told' = [told EXCEPT ![w.id] = w.rev]
      BY <1>3, <2>1 DEF Tell
    <3> QED BY <1>1, <1>2, <1>6, <2>1, <3>1 DEF IInv, TypeOK, KeptInv
  <2>2. CASE ~w.live
    <3>1. told' = told
      BY <1>3, <2>2 DEF Tell
    <3> QED BY <3>1 DEF IInv, TypeOK, KeptInv
  <2> QED BY <2>1, <2>2
<1> HIDE DEF p, id
<1> QED BY <1>3, <1>4, <1>7, <1>8, RenderKeepsInv

\* A deletion or a save fails.
LEMMA NotDoneKeepsInv ==
  ASSUME IInv, NEW s \in Slots, NotDone(s)
  PROVE  IInv'
<1> DEFINE by(kind) == writes[s].live /\ writes[s].kind = kind
<1>1. /\ writes[s] # None /\ writes' = [writes EXCEPT ![s] = None]
      /\ deletion' = IF by("delete") THEN "confirming" ELSE deletion
      /\ draft' = IF by("save") THEN [draft EXCEPT !.status = "error"] ELSE draft
      /\ UNCHANGED <<store, page, at, due, ran, load, fetches, qa, told>>
  BY DEF NotDone, Pend
<1>2. by("delete") => load.status = "success"
  BY <1>1 DEF IInv, PageInv, WriteInv
<1>3. by("save") => load.status = "success" /\ page = "edit"
  BY <1>1 DEF IInv, PageInv, WriteInv, Origin
<1>4. by("save") => draft \in Drafts /\ draft.of = load.got.id
  BY <1>3 DEF IInv, PageInv, BelowInv
<1>5. by("save") => draft' \in Drafts /\ draft'.of = draft.of
  BY <1>1, <1>4 DEF Drafts
<1> HIDE DEF by
<1>6. /\ writes' \in [Slots -> Writes \cup {None}]
      /\ \A t \in Slots : writes'[t] # None => writes'[t] = writes[t]
  BY <1>1 DEF IInv, TypeOK
<1>7. TypeOK'
  BY <1>1, <1>5, <1>6 DEF IInv, TypeOK
<1>8. BelowInv'
  BY <1>1, <1>2, <1>3, <1>4, <1>5 DEF IInv, PageInv, BelowInv
<1>9. FetchInv' /\ LoadInv'
  BY <1>1 DEF IInv, PageInv, FetchInv, LoadInv
<1>10. WriteInv'
  BY <1>1, <1>6 DEF IInv, PageInv, WriteInv
<1>11. KeptInv'
  BY <1>1, <1>6 DEF IInv, KeptInv
<1>12. FreshInv'
  BY <1>1 DEF IInv, FreshInv, Fresh
<1> QED BY <1>7, <1>8, <1>9, <1>10, <1>11, <1>12 DEF IInv, PageInv

\* The user moves, or the edit page sends them back.
LEMMA MovingKeepsInv ==
  ASSUME IInv,
         \/ \E p \in {"details", "edit", "away"}, id \in Ids : Visit(p, id)
         \/ Bounce
         \/ Retry
  PROVE  IInv'
<1>1. told \in [Ids -> Revs \cup {0, Gone}] /\ \A x \in Ids : Kept(store[x], told[x])
  BY DEF IInv, TypeOK, KeptInv
<1>2. ASSUME NEW p \in {"details", "edit", "away"}, NEW id \in Ids, Visit(p, id)
      PROVE  IInv'
  <2>1. /\ Render(p, id) /\ UNCHANGED <<store, ran, told>>
        /\ writes' = IF p = page THEN writes ELSE Left
    BY <1>2 DEF Visit
  <2>2. Fewer /\ (p # page => \A s \in Slots : writes'[s] # None => ~writes'[s].live)
    BY <2>1, LeftIsFewer, SameIsFewer, LeftFacts DEF IInv
  <2> QED BY <1>1, <2>1, <2>2, RenderKeepsInv
<1>3. CASE Bounce
  <2>1. /\ Render("details", at) /\ UNCHANGED <<store, ran, told, writes>>
        /\ load.status # "success" /\ at \in Ids
    BY <1>3 DEF Bounce, IInv, TypeOK
  <2>2. Fewer /\ \A s \in Slots : writes'[s] # None => ~writes'[s].live
    BY <2>1, SameIsFewer DEF IInv, PageInv, WriteInv
  <2> QED BY <1>1, <2>1, <2>2, RenderKeepsInv
<1>4. CASE Retry
  <2>1. due' \in BOOLEAN
        /\ UNCHANGED <<store, page, at, ran, load, fetches, deletion, draft, qa, writes, told>>
    BY <1>4 DEF Retry, below
  <2>2. TypeOK'
    BY <2>1 DEF IInv, TypeOK
  <2>3. PageInv'
    BY <2>1 DEF IInv, PageInv, FetchInv, LoadInv, BelowInv, WriteInv
  <2>4. KeptInv' /\ FreshInv'
    BY <2>1 DEF IInv, KeptInv, FreshInv, Fresh
  <2> QED BY <2>2, <2>3, <2>4 DEF IInv
<1> QED BY <1>2, <1>3, <1>4

-----------------------------------------------------------------------------

LEMMA Start == Init => IInv /\ Latest!Init
<1> SUFFICES ASSUME Init PROVE IInv /\ Latest!Init
  OBVIOUS
<1>1. load = Loading /\ Loading \in Loads /\ Loading.status = "loading"
  BY DEF Init, Loading, Loads
<1>2. TypeOK
  <2>1. 1 \in Revs
    BY ListingPagesAssumption DEF Revs
  <2> QED BY <1>1, <2>1 DEF Init, TypeOK, NoQA
<1>3. PageInv
  BY <1>1 DEF Init, PageInv, FetchInv, LoadInv, BelowInv, WriteInv
<1>4. KeptInv /\ FreshInv
  BY <1>1, Sentinels DEF Init, KeptInv, Kept, FreshInv
<1>5. Latest!Init
  BY <1>1 DEF Init, Latest!Init
<1> QED BY <1>2, <1>3, <1>4, <1>5 DEF IInv

\* Every step keeps the invariant.
LEMMA Step == IInv /\ [Next]_vars => IInv'
<1> SUFFICES ASSUME IInv, [Next]_vars PROVE IInv'
  OBVIOUS
<1>1. CASE User
  BY <1>1, MovingKeepsInv, TypingKeepsInv, SubmittingKeepsInv DEF User
<1>2. CASE React
  BY <1>2, EffectKeepsInv, MovingKeepsInv DEF React
<1>3. CASE Network
  BY <1>3, ServeFetchKeepsInv, GotKeepsInv, NotGotKeepsInv, ServeWriteKeepsInv, DoneKeepsInv,
     NotDoneKeepsInv, TypingKeepsInv DEF Network
<1>4. ASSUME NEW id \in Ids, Elsewhere(id)
      PROVE  IInv'
  BY <1>4, ElsewhereKeepsInv
<1>5. CASE UNCHANGED vars
  BY <1>5 DEF vars, IInv, TypeOK, PageInv, FetchInv, LoadInv, BelowInv, WriteInv, KeptInv,
              FreshInv, Fresh
<1> QED BY <1>1, <1>2, <1>3, <1>4, <1>5 DEF Next

\* What a step does to the page, as LatestAnswer sees it.
LEMMA Answers == IInv /\ [Next]_vars => [Latest!Next]_(Latest!vars)
<1> SUFFICES ASSUME IInv, [Next]_vars PROVE [Latest!Next]_(Latest!vars)
  OBVIOUS
<1> USE DEF Latest!vars, Latest!Next, Latest!Ask, Latest!Respond
<1>1. ran \in Ids /\ at \in Ids
  BY DEF IInv, TypeOK
<1>2. CASE UNCHANGED <<ran, load>>
  BY <1>2
<1>3. CASE load' = Loading /\ ran' \in Ids
  BY <1>3 DEF Loading
<1>4. CASE /\ load.status = "loading" /\ ran' = ran
           /\ \/ load'.status \in {"forbidden", "not-found", "error"}
              \/ load'.status = "success" /\ load'.got.id = ran
  BY <1>4
<1>5. ASSUME NEW p \in {"details", "edit", "away"}, NEW id \in Ids, Render(p, id), ran' = ran
      PROVE  load' = load \/ load' = Loading
  BY <1>5 DEF Render
<1>6. CASE User
  <2>1. ran' = ran /\ (load' = load \/ load' = Loading)
    BY <1>5, <1>6 DEF User, Visit, Retry, Confirm, Delete, Save, Ask, SetField, SetQuestion
  <2> QED BY <1>1, <1>2, <1>3, <2>1
<1>7. CASE RunEffect
  BY <1>1, <1>3, <1>7 DEF RunEffect
<1>8. CASE Bounce
  BY <1>1, <1>2, <1>3, <1>5, <1>8 DEF Bounce
<1>9. ASSUME NEW f \in fetches, Got(f)
      PROVE  [Latest!Next]_(Latest!vars)
  <2>1. ran' = ran /\ load.status = "loading" /\ f.id = ran
    BY <1>9 DEF Got, IInv, PageInv, FetchInv
  <2>2. \/ load' = [status |-> "forbidden", got |-> None]
        \/ \E own \in BOOLEAN :
             load' = [status |-> "success", got |-> [id |-> f.id, rev |-> f.reply, own |-> own]]
    BY <1>9 DEF Got
  <2>3. \/ load'.status = "forbidden"
        \/ load'.status = "success" /\ load'.got.id = ran
    BY <2>1, <2>2
  <2> QED BY <1>4, <2>1, <2>3
<1>10. ASSUME NEW f \in fetches, NotGot(f)
       PROVE  [Latest!Next]_(Latest!vars)
  <2>1. ran' = ran /\ load.status = "loading" /\ load'.status \in {"not-found", "error"}
    BY <1>10 DEF NotGot, IInv, PageInv, FetchInv
  <2> QED BY <1>4, <2>1
<1>11. ASSUME NEW s \in Slots, Done(s)
       PROVE  [Latest!Next]_(Latest!vars)
  <2>1. writes[s] \in Writes /\ writes[s].id \in Ids
    BY <1>11 DEF Done, Pend, IInv, TypeOK, Writes
  <2>2. ran' = ran /\ (load' = load \/ load' = Loading)
    BY <1>1, <1>5, <1>11, <2>1 DEF Done
  <2> QED BY <1>1, <1>2, <1>3, <2>2
<1>12. CASE \/ \E f \in fetches : ServeFetch(f)
            \/ \E s \in Slots : ServeWrite(s) \/ NotDone(s)
            \/ Answered \/ NotAnswered
            \/ \E id \in Ids : Elsewhere(id)
            \/ UNCHANGED vars
  <2>1. UNCHANGED <<ran, load>>
    BY <1>12 DEF ServeFetch, ServeWrite, NotDone, Answered, NotAnswered, Elsewhere, vars
  <2> QED BY <1>2, <2>1
<1> QED
  BY <1>6, <1>7, <1>8, <1>9, <1>10, <1>11, <1>12 DEF Next, React, Network

THEOREM Invariance == Spec => []IInv
BY Start, Step, PTL DEF Spec

\* Every variable keeps its type.
THEOREM TypeCorrect == Spec => []TypeOK
<1>1. IInv => TypeOK
  BY DEF IInv
<1> QED BY <1>1, Invariance, PTL

\* No save puts the values of one listing into another, for any number of
\* listings the user moves between.
THEOREM OwnValues == Spec => []OwnValuesOnly
<1>1. IInv => OwnValuesOnly
  BY DEF IInv, PageInv, WriteInv, OwnValuesOnly
<1> QED BY <1>1, Invariance, PTL

\* The answers on the screen are about the listing on the screen.
THEOREM OwnAnswers == Spec => []AnswersOwnListing
<1>1. IInv => AnswersOwnListing
  <2> SUFFICES ASSUME IInv, qa.history # {}
               PROVE  load.status = "success" /\ qa.history = {load.got.id}
    BY DEF AnswersOwnListing
  <2>1. load.status = "success"
    BY DEF IInv, PageInv, BelowInv, NoQA
  <2>2. qa.history \subseteq {load.got.id}
    BY <2>1 DEF IInv, PageInv, BelowInv
  <2> QED BY <2>1, <2>2
<1> QED BY <1>1, Invariance, PTL

\* Neither page shows a listing as it was before a save or a deletion whose reply
\* it waited for, whatever the order of replies and the edits of others.
THEOREM OwnWrites == Spec => []ReadsOwnWrites
<1>1. IInv => ReadsOwnWrites
  BY DEF IInv, FreshInv, Fresh, ReadsOwnWrites
<1> QED BY <1>1, Invariance, PTL

\* Each page shows skeletons, a failure, or the listing its effect last asked for.
THEOREM Refines == Spec => ImplementsLatest
<1>1. IInv /\ [Next]_vars => IInv'
  BY Step
<1> QED BY <1>1, Start, Answers, PTL DEF Spec, ImplementsLatest, Latest!Spec

-----------------------------------------------------------------------------
(* What is disabled waits for something: the part of PendingEnds that is   *)
(* not about fairness.                                                     *)

\* A deletion or a save in flight, made by what is on the screen.
Live(kind) == \E s \in Slots : writes[s] # None /\ writes[s].live /\ writes[s].kind = kind

\* The skeletons wait for an effect or a fetch, the buttons for a call of theirs.
Awaits ==
  /\ page # "away" /\ load.status = "loading" => due \/ \E f \in fetches : f.id = ran
  /\ deletion = "deleting" => Live("delete")
  /\ draft # None /\ draft.status = "submitting" => Live("save")

\* A page that has just been cleared waits for nothing below it.
LEMMA ClearedAwaits ==
  ASSUME Cleared, page' # "away" /\ load'.status = "loading" => due' \/ \E f \in fetches' : f.id = ran'
  PROVE  Awaits'
BY DEF Cleared, Awaits

\* The fetches and what is below stay, and so do the live writes.
LEMMA SameAwaits ==
  ASSUME IInv, Awaits, page' = page, UNCHANGED <<load, fetches, ran>>, due => due',
         deletion' = deletion \/ deletion' # "deleting",
         draft' = draft \/ draft' = None \/ draft'.status # "submitting",
         \A s \in Slots : writes[s] # None /\ writes[s].live =>
           \/ writes'[s] # None /\ writes'[s].live /\ writes'[s].kind = writes[s].kind
           \/ writes[s].kind = "delete" /\ deletion' # "deleting"
           \/ writes[s].kind = "save" /\ (draft' = None \/ draft'.status # "submitting")
  PROVE  Awaits'
<1>1. page' # "away" /\ load'.status = "loading" => due' \/ \E f \in fetches' : f.id = ran'
  BY DEF Awaits
<1>2. deletion' = "deleting" => Live("delete")'
  BY DEF Awaits, Live
<1>3. draft' # None /\ draft'.status = "submitting" => Live("save")'
  BY DEF Awaits, Live
<1> QED BY <1>1, <1>2, <1>3 DEF Awaits

LEMMA RenderAwaits ==
  ASSUME IInv, Awaits, NEW p, NEW id, Render(p, id), UNCHANGED ran,
         p = page => \A s \in Slots : writes[s] # None /\ writes[s].live => writes'[s] = writes[s]
  PROVE  Awaits'
<1>1. CASE p = page
  <2>1. page' = page /\ UNCHANGED <<load, fetches, deletion, draft>> /\ (due => due')
    BY <1>1 DEF Render, below
  <2> QED BY <1>1, <2>1, SameAwaits
<1>2. CASE p # page
  BY <1>2, ClearedAwaits DEF Render
<1> QED BY <1>1, <1>2

\* A deletion or a save is sent.
LEMMA SendAwaits ==
  ASSUME IInv, Awaits, Delete \/ Save
  PROVE  Awaits'
<1>1. load.status = "success" /\ load.got.id \in Ids
  BY DEF Delete, Save, Editable, Shows, IInv, PageInv, LoadInv, Listings
<1>2. Save => draft \in Drafts
  BY DEF Save, Editable, Shows, IInv, PageInv, BelowInv
<1>3. PICK kind \in {"delete", "save"}, from \in Ids :
        /\ Send(Write(kind, load.got.id, from))
        /\ load' = load
        /\ deletion' = deletion \/ kind = "delete"
        /\ draft' = draft \/ kind = "save"
  <2>1. CASE Delete
    BY <1>1, <2>1 DEF Delete
  <2>2. CASE Save
    BY <1>2, <2>2 DEF Save, Drafts
  <2> QED BY <2>1, <2>2
<1> DEFINE w == Write(kind, load.got.id, from)
<1>4. w # None /\ w.live /\ w.kind = kind
  <2>1. w \in Writes
    BY <1>1 DEF Write, Writes
  <2>2. w.live /\ w.kind = kind
    BY DEF Write
  <2> QED BY <2>1, <2>2, SentinelAssumption
<1>5. PICK s \in Slots : writes[s] = None /\ writes' = [writes EXCEPT ![s] = w]
  BY <1>3 DEF Send
<1> HIDE DEF w
<1>6. writes'[s] = w /\ \A t \in Slots \ {s} : writes'[t] = writes[t]
  BY <1>5 DEF IInv, TypeOK
<1>7. Live(kind)'
  BY <1>4, <1>6 DEF Live
<1>8. \A k \in {"delete", "save"} : Live(k) => Live(k)'
  BY <1>5, <1>6 DEF Live
<1>9. deletion' = "deleting" => Live("delete")'
  BY <1>3, <1>7, <1>8 DEF Awaits
<1>10. draft' # None /\ draft'.status = "submitting" => Live("save")'
  BY <1>3, <1>7, <1>8 DEF Awaits
<1> QED BY <1>1, <1>3, <1>9, <1>10 DEF Awaits

\* The API answers a write.
LEMMA ServeWriteAwaits ==
  ASSUME IInv, Awaits, NEW s \in Slots, ServeWrite(s)
  PROVE  Awaits'
<1> DEFINE w == writes[s]
<1>1. w # None /\ w \in Writes
      /\ UNCHANGED <<page, due, ran, load, fetches, deletion, draft>>
  BY DEF ServeWrite, Pend, IInv, TypeOK, below
<1>2. PICK x : /\ writes' = [writes EXCEPT ![s] = x]
               /\ x # None /\ x.live = w.live /\ x.kind = w.kind
  <2>1. CASE writes' = [writes EXCEPT ![s].stage = "refused"]
    <3> DEFINE x == [w EXCEPT !.stage = "refused"]
    <3>1. x \in Writes /\ x.live = w.live /\ x.kind = w.kind
      BY <1>1 DEF Writes
    <3>2. writes' = [writes EXCEPT ![s] = x]
      BY <2>1 DEF IInv, TypeOK
    <3> QED BY <3>1, <3>2, SentinelAssumption
  <2>2. CASE /\ store[w.id] # Gone
             /\ store' = [store EXCEPT ![w.id] = IF w.kind = "save" THEN @ + 1 ELSE Gone]
             /\ w.kind = "save" => store[w.id] < MaxRev
             /\ writes' = [writes EXCEPT ![s] = [w EXCEPT !.stage = "ok", !.rev = store'[w.id]]]
    <3> DEFINE x == [w EXCEPT !.stage = "ok", !.rev = store'[w.id]]
    <3>1. w.id \in Ids /\ store[w.id] \in Revs
      BY <1>1, <2>2 DEF IInv, TypeOK, Writes
    <3>2. store'[w.id] \in Revs \cup {Gone}
      BY <2>2, <3>1, NextRevision DEF IInv, TypeOK
    <3>3. x \in Writes /\ x.live = w.live /\ x.kind = w.kind
      BY <1>1, <3>2 DEF Writes
    <3> QED BY <2>2, <3>3, SentinelAssumption
  <2> QED BY <2>1, <2>2 DEF ServeWrite
<1>3. writes'[s] = x /\ \A t \in Slots \ {s} : writes'[t] = writes[t]
  BY <1>2 DEF IInv, TypeOK
<1>4. \A t \in Slots : writes[t] # None /\ writes[t].live =>
        writes'[t] # None /\ writes'[t].live /\ writes'[t].kind = writes[t].kind
  BY <1>2, <1>3
<1> QED BY <1>1, <1>4, SameAwaits

\* A deletion or a save is done, or fails.
LEMMA WriteEndAwaits ==
  ASSUME IInv, Awaits, NEW s \in Slots, Done(s) \/ NotDone(s)
  PROVE  Awaits'
<1> DEFINE w == writes[s]
<1>1. w # None /\ w \in Writes /\ w.kind \in {"delete", "save"}
  BY DEF Done, NotDone, Pend, IInv, TypeOK, Writes
<1>2. w.live => load.status = "success" /\ page = Origin(w.kind)
  BY <1>1 DEF IInv, PageInv, WriteInv
<1>3. CASE Done(s)
  <2>1. PICK p, id : /\ Render(p, id) /\ UNCHANGED ran
                     /\ w.kind = "delete" => p = "away"
                     /\ w.kind = "save" => p = "details"
    BY <1>1, <1>3 DEF Done
  <2>2. page' = p
    BY <2>1 DEF Render
  <2>3. CASE p = page
    <3>1. ~w.live
      BY <1>1, <1>2, <2>1, <2>3 DEF Origin
    <3>2. writes' = [writes EXCEPT ![s] = None]
      BY <1>3, <2>2, <2>3 DEF Done
    <3>3. \A t \in Slots : writes[t] # None /\ writes[t].live => writes'[t] = writes[t]
      BY <3>1, <3>2 DEF IInv, TypeOK
    <3> QED BY <2>1, <3>3, RenderAwaits
  <2>4. CASE p # page
    BY <2>1, <2>4, RenderAwaits
  <2> QED BY <2>3, <2>4
<1>4. CASE NotDone(s)
  <2>1. /\ deletion' = IF w.live /\ w.kind = "delete" THEN "confirming" ELSE deletion
        /\ draft' = IF w.live /\ w.kind = "save" THEN [draft EXCEPT !.status = "error"] ELSE draft
        /\ writes' = [writes EXCEPT ![s] = None]
        /\ UNCHANGED <<page, due, ran, load, fetches>>
    BY <1>4 DEF NotDone
  <2>2. ASSUME w.live, w.kind = "save"
        PROVE  draft'.status = "error"
    <3>1. draft \in Drafts
      BY <1>2, <2>2 DEF Origin, IInv, PageInv, BelowInv
    <3> QED BY <2>1, <2>2, <3>1 DEF Drafts
  <2>3. w.live /\ w.kind = "delete" => deletion' # "deleting"
    BY <2>1
  <2>4. \A t \in Slots \ {s} : writes'[t] = writes[t]
    BY <2>1 DEF IInv, TypeOK
  <2>5. /\ deletion' = deletion \/ deletion' # "deleting"
        /\ draft' = draft \/ draft'.status # "submitting"
    BY <2>1, <2>2
  <2>6. \A t \in Slots : writes[t] # None /\ writes[t].live =>
          \/ writes'[t] # None /\ writes'[t].live /\ writes'[t].kind = writes[t].kind
          \/ writes[t].kind = "delete" /\ deletion' # "deleting"
          \/ writes[t].kind = "save" /\ (draft' = None \/ draft'.status # "submitting")
    <3>1. ASSUME w.live
          PROVE  \/ w.kind = "delete" /\ deletion' # "deleting"
                 \/ w.kind = "save" /\ draft'.status # "submitting"
      BY <1>1, <2>2, <2>3, <3>1
    <3> QED BY <2>4, <3>1
  <2> HIDE DEF w
  <2> QED BY <2>1, <2>5, <2>6, SameAwaits
<1> QED BY <1>3, <1>4

\* The effect and the fetches of the page.
LEMMA PageAwaits ==
  ASSUME IInv, Awaits,
         RunEffect \/ \E f \in fetches : ServeFetch(f) \/ Got(f) \/ NotGot(f)
  PROVE  Awaits'
<1>1. CASE RunEffect
  <2>1. fetches' = {Fetch(at)} /\ ran' = at /\ Fetch(at).id = at /\ Cleared
    BY <1>1 DEF RunEffect, Fetch
  <2> QED BY <2>1, ClearedAwaits
<1>2. ASSUME NEW f \in fetches, ServeFetch(f)
      PROVE  Awaits'
  <2>1. [f EXCEPT !.reply = store[f.id]].id = f.id
    BY DEF IInv, TypeOK
  <2>2. f.id = ran
    BY DEF IInv, PageInv, FetchInv
  <2>3. /\ \E g \in fetches' : g.id = ran
        /\ UNCHANGED <<page, due, ran, load, deletion, draft, writes>>
    BY <1>2, <2>1, <2>2 DEF ServeFetch, below
  <2> QED BY <2>3 DEF Awaits, Live
<1>3. ASSUME NEW f \in fetches, Got(f)
      PROVE  Awaits'
  <2>1. deletion = "none" /\ draft = None
    BY DEF IInv, PageInv, FetchInv, BelowInv
  <2>2. CASE load' = [status |-> "forbidden", got |-> None] /\ Cleared
    BY <2>2, ClearedAwaits
  <2>3. CASE /\ \E own \in BOOLEAN :
                  load' = [status |-> "success",
                           got |-> [id |-> f.id, rev |-> f.reply, own |-> own]]
             /\ draft' \in Seeded(f.id) /\ deletion' = deletion
    <3>1. load'.status = "success"
      BY <2>3
    <3>2. draft' = None \/ draft'.status = "idle"
      BY <2>1, <2>3 DEF Seeded
    <3> QED BY <2>1, <2>3, <3>1, <3>2 DEF Awaits
  <2> QED BY <1>3, <2>2, <2>3 DEF Got
<1>4. ASSUME NEW f \in fetches, NotGot(f)
      PROVE  Awaits'
  <2>1. load'.status # "loading" /\ Cleared
    BY <1>4 DEF NotGot
  <2> QED BY <2>1, ClearedAwaits
<1> QED BY <1>1, <1>2, <1>3, <1>4

\* What the user does that sends nothing, and the questions.
LEMMA TypingAwaits ==
  ASSUME IInv, Awaits,
         Confirm \/ Ask \/ Answered \/ NotAnswered \/ Retry
           \/ \E b \in BOOLEAN : SetField(b) \/ SetQuestion(b)
  PROVE  Awaits'
<1>1. /\ UNCHANGED <<page, load, fetches, ran, writes>> /\ (due => due')
      /\ deletion' = deletion \/ deletion' # "deleting"
  BY DEF Confirm, Ask, Answered, NotAnswered, Retry, SetField, SetQuestion, below
<1>2. draft' = draft \/ draft'.status # "submitting"
  <2>1. ASSUME NEW b \in BOOLEAN, SetField(b)
        PROVE  draft'.status # "submitting"
    <3>1. /\ page = "edit" /\ load.status = "success"
          /\ draft' = [draft EXCEPT !.fit = b] /\ draft.status # "submitting"
      BY <2>1 DEF SetField, Editable, Shows
    <3>2. draft \in Drafts
      BY <3>1 DEF IInv, PageInv, BelowInv
    <3> QED BY <3>1, <3>2 DEF Drafts
  <2>2. CASE ~\E b \in BOOLEAN : SetField(b)
    BY <2>2 DEF Confirm, Ask, Answered, NotAnswered, Retry, SetQuestion, below
  <2> QED BY <2>1, <2>2
<1> QED BY <1>1, <1>2, SameAwaits

LEMMA StepAwaits == IInv /\ Awaits /\ [Next]_vars => Awaits'
<1> SUFFICES ASSUME IInv, Awaits, [Next]_vars PROVE Awaits'
  OBVIOUS
<1>1. ASSUME NEW p \in {"details", "edit", "away"}, NEW id \in Ids, Visit(p, id)
      PROVE  Awaits'
  <2>1. Render(p, id) /\ UNCHANGED ran /\ writes' = IF p = page THEN writes ELSE Left
    BY <1>1 DEF Visit
  <2> QED BY <2>1, RenderAwaits
<1>2. CASE Bounce
  <2>1. Render("details", at) /\ UNCHANGED <<ran, writes>>
    BY <1>2 DEF Bounce
  <2> QED BY <2>1, RenderAwaits
<1>3. ASSUME NEW id \in Ids, Elsewhere(id)
      PROVE  Awaits'
  <2>1. UNCHANGED <<page, due, ran, load, fetches, deletion, draft, writes>>
    BY <1>3 DEF Elsewhere, below
  <2> QED BY <2>1, SameAwaits
<1>4. CASE UNCHANGED vars
  <2>1. UNCHANGED <<page, due, ran, load, fetches, deletion, draft, writes>>
    BY <1>4 DEF vars
  <2> QED BY <2>1, SameAwaits
<1> QED
  BY <1>1, <1>2, <1>3, <1>4, SendAwaits, ServeWriteAwaits, WriteEndAwaits, PageAwaits,
     TypingAwaits
     DEF Next, User, React, Network

\* Whatever is disabled or a skeleton waits for something of its own: an effect or
\* a fetch for the listing of the address, a deletion or a save that this page
\* made.  A call that was left behind keeps nothing disabled, for any number of
\* listings and of calls in flight.
THEOREM DisabledAwaits == Spec => []Awaits
<1>1. Init => Awaits
  BY DEF Init, Awaits
<1> QED BY <1>1, Invariance, StepAwaits, PTL DEF Spec
=============================================================================
