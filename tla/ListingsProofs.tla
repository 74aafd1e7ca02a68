--------------------------- MODULE ListingsProofs ---------------------------
(***************************************************************************)
(* Proofs about Listings, for any set of users, listings, columns and      *)
(* requests in flight; and that Listings implements ListingStore when the  *)
(* writes to a listing do not overlap (ListingsSerial).                    *)
(***************************************************************************)
EXTENDS ListingsSerial, TLAPS

\* What a request that has passed the ownership check knows: it acts for the
\* user who published its target.
HandlerInv ==
  \A r \in Slots :
    LET q == req[r] IN
    /\ q.pc = "load" => q.who \in Users /\ q.target \in Refs
    /\ q.pc \in {"select", "write", "delete"} =>
         /\ q.who \in Users /\ q.target \in Refs
         /\ creator[q.target] = q.who
         /\ q.entity # Absent /\ q.entity.owner = q.who
    /\ q.pc \in {"select", "write"} => q.op = "update"
    /\ q.pc = "write" /\ q.found # Absent => q.found.owner \in {q.who, NoUser}

\* The history variable agrees with the table.
CreatorInv ==
  /\ \A l \in SeedRefs : creator[l] = NoUser
  /\ \A l \in UserRefs : creator[l] = NoUser => table[l] = Absent

IInv ==
  TypeOK /\ OwnerIsCreator /\ OwnFlagSound /\ HandlerInv /\ CreatorInv

-----------------------------------------------------------------------------
(* Lemmas about requests and rows. *)

\* The record an idle slot holds, and the one a handler leaves, are requests.
LEMMA IdleIsRequest == Idle \in RequestRec
BY SentinelsAssumption
DEF Idle, RequestRec, NoReply, Reply, Patches

\* A status alone is a reply without listings.
LEMMA StatusIsReply ==
  ASSUME NEW s \in {201, 204, 400, 401, 403, 404, 500}
  PROVE  Status(s) \in Reply /\ Status(s).own = {}
BY DEF Status, NoReply, Reply

\* What Finish leaves in the slot, and that it touches no other slot.
LEMMA FinishEffect ==
  ASSUME req \in [Slots -> RequestRec], NEW r \in Slots,
         NEW u \in Users \cup {NoUser}, NEW reply \in Reply,
         Finish(r, u, reply)
  PROVE  /\ req' \in [Slots -> RequestRec]
         /\ req'[r].pc = "done" /\ req'[r].who = u /\ req'[r].reply = reply
         /\ \A s \in Slots \ {r} : req'[s] = req[s]
BY IdleIsRequest DEF Finish, RequestRec

\* The ownership flags of a response are sound when owners are creators.
LEMMA ResponseSound ==
  ASSUME TypeOK, OwnerIsCreator, NEW u \in Users \cup {NoUser},
         NEW ls \in SUBSET {l \in Refs : table[l] # Absent}
  PROVE  /\ ToResponse(200, ls, u) \in Reply
         /\ \A l \in ToResponse(200, ls, u).own : u # NoUser /\ creator[l] = u
BY DEF ToResponse, Reply, IsOwn, OwnerIsCreator, TypeOK

\* Merging a PATCH body into a row keeps the owner.
LEMMA MergedIsEntity ==
  ASSUME NEW row \in Row, NEW payload \in Patches
  PROVE  Merged(row, payload) \in Entity /\ Merged(row, payload).owner = row.owner
BY DEF Merged, Row, Attrs, Entity, Patches

\* A record of the shape of an entity is not the sentinel Absent.
LEMMA EntityNotAbsent == Absent \notin Entity /\ Absent \notin Row
BY SentinelsAssumption DEF Entity, Row, Attrs

\* A slot that is answered keeps the invariants about requests, provided the
\* step changes the creator of unpublished listings only.
LEMMA FinishKeepsInv ==
  ASSUME IInv, NEW r \in Slots, NEW u \in Users \cup {NoUser},
         NEW reply \in Reply, Finish(r, u, reply),
         creator' \in [Refs -> Users \cup {NoUser}],
         \A l \in Refs : creator[l] # NoUser => creator'[l] = creator[l],
         \A l \in reply.own : u # NoUser /\ creator'[l] = u
  PROVE  req' \in [Slots -> RequestRec] /\ HandlerInv' /\ OwnFlagSound'
<1>1. /\ req' \in [Slots -> RequestRec]
      /\ req'[r].pc = "done" /\ req'[r].who = u /\ req'[r].reply = reply
      /\ \A s \in Slots \ {r} : req'[s] = req[s]
  BY FinishEffect DEF IInv, TypeOK
<1>2. HandlerInv'
  <2> SUFFICES ASSUME NEW s \in Slots \ {r}
               PROVE  req'[s] = req[s] /\ (req[s].target \in Refs /\
                        creator[req[s].target] \in Users =>
                        creator'[req[s].target] = creator[req[s].target])
    BY <1>1 DEF HandlerInv, IInv
  <2> QED BY <1>1, SentinelsAssumption
<1>3. OwnFlagSound'
  <2> SUFFICES ASSUME NEW s \in Slots, NEW l \in req'[s].reply.own
               PROVE  req'[s].who # NoUser /\ creator'[l] = req'[s].who
    BY DEF OwnFlagSound
  <2>1. CASE s = r
    BY <1>1, <2>1
  <2>2. CASE s # r
    <3>1. req[s].who # NoUser /\ creator[l] = req[s].who /\ l \in Refs
      BY <1>1, <2>2 DEF IInv, OwnFlagSound, TypeOK, RequestRec, Reply
    <3> QED BY <1>1, <2>2, <3>1
  <2> QED BY <2>1, <2>2
<1> QED BY <1>1, <1>2, <1>3

-----------------------------------------------------------------------------
(* The invariant, one lemma per group of actions. *)

LEMMA ReadsKeepInv ==
  ASSUME IInv, NEW r \in Slots, NEW u \in Users \cup {NoUser},
         \/ Refuse(r, u)
         \/ \E l \in Refs : FindOne(r, u, l)
         \/ \E filter \in Filters : FindAll(r, u, filter)
  PROVE  IInv'
<1>1. \E reply \in Reply :
        /\ Finish(r, u, reply)
        /\ \A l \in reply.own : u # NoUser /\ creator[l] = u
  <2>1. CASE Refuse(r, u)
    BY <2>1, StatusIsReply DEF Refuse
  <2>2. ASSUME NEW l \in Refs, FindOne(r, u, l)
        PROVE  \E reply \in Reply :
                 /\ Finish(r, u, reply)
                 /\ \A m \in reply.own : u # NoUser /\ creator[m] = u
    BY <2>2, StatusIsReply, ResponseSound DEF FindOne, IInv
  <2>3. ASSUME NEW filter \in Filters, FindAll(r, u, filter)
        PROVE  \E reply \in Reply :
                 /\ Finish(r, u, reply)
                 /\ \A m \in reply.own : u # NoUser /\ creator[m] = u
    BY <2>3, ResponseSound DEF FindAll, IInv
  <2> QED BY <2>1, <2>2, <2>3
<1>2. UNCHANGED <<table, account, api, creator>>
  BY DEF Refuse, FindOne, FindAll
<1>3. PICK reply \in Reply :
        /\ Finish(r, u, reply)
        /\ \A l \in reply.own : u # NoUser /\ creator[l] = u
  BY <1>1
<1>4. creator \in [Refs -> Users \cup {NoUser}]
  BY DEF IInv, TypeOK
<1>5. req' \in [Slots -> RequestRec] /\ HandlerInv' /\ OwnFlagSound'
  BY <1>2, <1>3, <1>4, FinishKeepsInv
<1> QED
  BY <1>2, <1>5 DEF IInv, TypeOK, OwnerIsCreator, CreatorInv, OwnerExists

LEMMA CreateKeepsInv ==
  ASSUME IInv, NEW r \in Slots, NEW u \in Users \cup {NoUser}, NEW l \in Refs,
         NEW attrs \in [Fields -> Values], Create(r, u, l, attrs)
  PROVE  IInv'
<1> DEFINE row == [owner |-> u, attrs |-> attrs]
           made == [status |-> 201, shown |-> {l}, own |-> {l}]
<1>1. /\ u \in Users /\ l \in UserRefs /\ creator[l] = NoUser
      /\ UNCHANGED <<account, api>>
  BY DEF Create
<1>2. creator \in [Refs -> Users \cup {NoUser}]
  BY DEF IInv, TypeOK
<1>3. CASE /\ OwnerExists(u)
           /\ table' = [table EXCEPT ![l] = row]
           /\ creator' = [creator EXCEPT ![l] = u]
           /\ Finish(r, u, made)
  <2>1. row \in Row /\ row # Absent
    <3>1. attrs \in Attrs
      BY SentinelsAssumption DEF Attrs
    <3> QED BY <1>1, <3>1, EntityNotAbsent DEF Row
  <2>2. made \in Reply
    BY DEF Reply
  <2>3. req' \in [Slots -> RequestRec] /\ HandlerInv' /\ OwnFlagSound'
    <3>1. /\ creator' \in [Refs -> Users \cup {NoUser}]
          /\ \A k \in Refs : creator[k] # NoUser => creator'[k] = creator[k]
          /\ \A k \in made.own : u # NoUser /\ creator'[k] = u
      BY <1>1, <1>2, <1>3, SentinelsAssumption
    <3> QED BY <1>3, <2>2, <3>1, FinishKeepsInv
  <2>4. TypeOK'
    BY <1>1, <1>2, <1>3, <2>1, <2>3 DEF IInv, TypeOK
  <2>5. OwnerIsCreator'
    BY <1>1, <1>2, <1>3, <2>1 DEF IInv, TypeOK, OwnerIsCreator, OwnerExists
  <2>6. CreatorInv'
    BY <1>1, <1>2, <1>3, InputsAssumption, SentinelsAssumption
    DEF IInv, TypeOK, CreatorInv, Refs
  <2> QED BY <2>3, <2>4, <2>5, <2>6 DEF IInv
<1>4. CASE Finish(r, u, Status(500)) /\ UNCHANGED <<table, creator>>
  <2>1. req' \in [Slots -> RequestRec] /\ HandlerInv' /\ OwnFlagSound'
    <3>1. Status(500) \in Reply /\ Status(500).own = {}
      BY StatusIsReply
    <3>2. creator' \in [Refs -> Users \cup {NoUser}] /\ creator' = creator
      BY <1>2, <1>4
    <3> QED BY <1>4, <3>1, <3>2, FinishKeepsInv
  <2> QED
    BY <1>1, <1>4, <2>1 DEF IInv, TypeOK, OwnerIsCreator, CreatorInv, OwnerExists
<1> QED BY <1>3, <1>4 DEF Create

LEMMA CallKeepsInv ==
  ASSUME IInv, NEW r \in Slots, NEW u \in Users \cup {NoUser}, NEW l \in Refs,
         NEW op \in {"update", "remove"}, NEW payload \in Patches,
         Call(r, op, u, l, payload)
  PROVE  IInv'
<1>1. /\ u \in Users /\ UNCHANGED <<table, account, api, creator>>
      /\ req' = [req EXCEPT ![r] =
                   [Idle EXCEPT !.pc = "load", !.op = op, !.who = u,
                                !.target = l, !.payload = payload]]
  BY DEF Call
<1>2. /\ req' \in [Slots -> RequestRec]
      /\ req'[r].pc = "load" /\ req'[r].who = u /\ req'[r].target = l
      /\ req'[r].reply = NoReply
      /\ \A s \in Slots \ {r} : req'[s] = req[s]
  BY <1>1, IdleIsRequest DEF IInv, TypeOK, RequestRec, Idle
<1>3. HandlerInv'
  BY <1>1, <1>2 DEF IInv, HandlerInv
<1>4. OwnFlagSound'
  <2> SUFFICES ASSUME NEW s \in Slots, NEW k \in req'[s].reply.own
               PROVE  req'[s].who # NoUser /\ creator'[k] = req'[s].who
    BY DEF OwnFlagSound
  <2>1. s # r
    BY <1>2 DEF NoReply
  <2> QED BY <1>1, <1>2, <2>1 DEF IInv, OwnFlagSound
<1>5. UNCHANGED <<table, account, api, creator>>
  BY <1>1
<1> QED
  BY <1>5, <1>2, <1>3, <1>4 DEF IInv, TypeOK, OwnerIsCreator, CreatorInv, OwnerExists

LEMMA LoadOwnedKeepsInv ==
  ASSUME IInv, NEW r \in Slots, LoadOwned(r)
  PROVE  IInv'
<1> DEFINE q == req[r]
           row == table[q.target]
<1>1. /\ q.pc = "load" /\ q.who \in Users /\ q.target \in Refs
      /\ UNCHANGED <<table, account, api, creator>>
      /\ q \in RequestRec /\ row \in Row \cup {Absent}
  BY DEF LoadOwned, IInv, HandlerInv, TypeOK
<1>2. ASSUME NEW s \in {403, 404}, Finish(r, q.who, Status(s))
      PROVE  req' \in [Slots -> RequestRec] /\ HandlerInv' /\ OwnFlagSound'
  <2>1. Status(s) \in Reply /\ Status(s).own = {}
    BY StatusIsReply
  <2>2. q.who \in Users \cup {NoUser}
    BY <1>1
  <2>3. creator' \in [Refs -> Users \cup {NoUser}] /\ creator' = creator
    BY <1>1 DEF IInv, TypeOK
  <2> QED BY <1>2, <2>1, <2>2, <2>3, FinishKeepsInv
<1>3. ASSUME row # Absent, row.owner = q.who,
             req' = [req EXCEPT
               ![r].pc = IF q.op = "update" THEN "select" ELSE "delete",
               ![r].entity = Merged(row, q.payload)]
      PROVE  req' \in [Slots -> RequestRec] /\ HandlerInv' /\ OwnFlagSound'
  <2> DEFINE e == Merged(row, q.payload)
  <2>1. e \in Entity /\ e.owner = q.who /\ e # Absent
    BY <1>1, <1>3, MergedIsEntity, EntityNotAbsent DEF RequestRec
  <2>2. creator[q.target] = q.who
    BY <1>1, <1>3, SentinelsAssumption DEF IInv, OwnerIsCreator
  <2>3. /\ req' \in [Slots -> RequestRec]
        /\ req'[r] = [q EXCEPT
             !.pc = IF q.op = "update" THEN "select" ELSE "delete", !.entity = e]
        /\ \A s \in Slots \ {r} : req'[s] = req[s]
    BY <1>1, <1>3, <2>1 DEF IInv, TypeOK, RequestRec
  <2>4. HandlerInv'
    <3> SUFFICES ASSUME NEW s \in Slots
                 PROVE  HandlerInv!(s)'
      BY DEF HandlerInv
    <3>1. CASE s = r
      BY <1>1, <2>1, <2>2, <2>3, <3>1 DEF RequestRec
    <3>2. CASE s # r
      BY <1>1, <2>3, <3>2 DEF IInv, HandlerInv
    <3> QED BY <3>1, <3>2
  <2>5. \A s \in Slots : req'[s].who = req[s].who /\ req'[s].reply = req[s].reply
    BY <1>1, <2>3 DEF RequestRec
  <2>6. OwnFlagSound'
    BY <1>1, <2>5 DEF IInv, OwnFlagSound
  <2> QED BY <2>3, <2>4, <2>6
<1>4. req' \in [Slots -> RequestRec] /\ HandlerInv' /\ OwnFlagSound'
  <2>1. CASE Finish(r, q.who, Status(404))
    BY <1>2, <2>1
  <2>2. CASE Finish(r, q.who, Status(403))
    BY <1>2, <2>2
  <2> QED BY <1>3, <2>1, <2>2 DEF LoadOwned
<1> QED
  BY <1>1, <1>4 DEF IInv, TypeOK, OwnerIsCreator, CreatorInv, OwnerExists

LEMMA SaveSelectKeepsInv ==
  ASSUME IInv, NEW r \in Slots, SaveSelect(r)
  PROVE  IInv'
<1> DEFINE q == req[r]
<1>1. /\ q.pc = "select" /\ q.who \in Users /\ q.target \in Refs
      /\ UNCHANGED <<table, account, api, creator>>
      /\ creator[q.target] = q.who
      /\ q \in RequestRec /\ table[q.target] \in Row \cup {Absent}
  BY DEF SaveSelect, IInv, HandlerInv, TypeOK
<1>2. /\ req' \in [Slots -> RequestRec]
      /\ req'[r] = [q EXCEPT !.pc = "write", !.found = table[q.target]]
      /\ \A s \in Slots \ {r} : req'[s] = req[s]
  BY <1>1 DEF SaveSelect, IInv, TypeOK, RequestRec
<1>3. HandlerInv'
  <2> SUFFICES ASSUME NEW s \in Slots
               PROVE  HandlerInv!(s)'
    BY DEF HandlerInv
  <2>1. CASE s = r
    <3>1. table[q.target] # Absent => table[q.target].owner \in {q.who, NoUser}
      BY <1>1 DEF IInv, OwnerIsCreator
    <3>2. HandlerInv!(r)
      BY DEF IInv, HandlerInv
    <3> QED BY <1>1, <1>2, <2>1, <3>1, <3>2 DEF RequestRec
  <2>2. CASE s # r
    BY <1>1, <1>2, <2>2 DEF IInv, HandlerInv
  <2> QED BY <2>1, <2>2
<1>4. \A s \in Slots : req'[s].who = req[s].who /\ req'[s].reply = req[s].reply
  BY <1>1, <1>2 DEF RequestRec
<1>5. OwnFlagSound'
  BY <1>1, <1>4 DEF IInv, OwnFlagSound
<1> QED
  BY <1>1, <1>2, <1>3, <1>5 DEF IInv, TypeOK, OwnerIsCreator, CreatorInv, OwnerExists

\* A step that answers a request whose write is allowed: only its target's row
\* changes, to no row or to one whose owner is its creator or nobody.
LEMMA WriteKeepsInv ==
  ASSUME IInv, NEW r \in Slots, NEW row \in Row \cup {Absent},
         req[r].pc \in {"write", "delete"},
         NEW reply \in Reply, Finish(r, req[r].who, reply),
         reply.own \subseteq {req[r].target},
         row # Absent => /\ row.owner \in {creator[req[r].target], NoUser}
                         /\ OwnerExists(row.owner),
         table' = [table EXCEPT ![req[r].target] = row],
         UNCHANGED <<account, api, creator>>
  PROVE  IInv'
<1>1. /\ req[r].who \in Users /\ req[r].target \in Refs
      /\ creator[req[r].target] = req[r].who
  BY DEF IInv, HandlerInv
<1>2. creator' \in [Refs -> Users \cup {NoUser}] /\ creator' = creator
  BY DEF IInv, TypeOK
<1>3. \A l \in reply.own : req[r].who # NoUser /\ creator'[l] = req[r].who
  BY <1>1, <1>2, SentinelsAssumption
<1>4. req' \in [Slots -> RequestRec] /\ HandlerInv' /\ OwnFlagSound'
  BY <1>1, <1>2, <1>3, FinishKeepsInv
<1>5. TypeOK'
  BY <1>1, <1>2, <1>4 DEF IInv, TypeOK
<1>6. OwnerIsCreator'
  BY <1>1, <1>2 DEF IInv, TypeOK, OwnerIsCreator, OwnerExists
<1>7. CreatorInv'
  BY <1>1, <1>2, SentinelsAssumption DEF IInv, TypeOK, CreatorInv, Refs
<1> QED BY <1>4, <1>5, <1>6, <1>7 DEF IInv

\* A reply that shows the caller its own listing, or a bare status.
LEMMA WriteReply ==
  ASSUME NEW l \in Refs
  PROVE  /\ [status |-> 200, shown |-> {l}, own |-> {l}] \in Reply
         /\ \A s \in {204, 500} : Status(s) \in Reply /\ Status(s).own = {}
BY StatusIsReply DEF Reply

LEMMA RemoveKeepsInv ==
  ASSUME IInv, NEW r \in Slots, Remove(r)
  PROVE  IInv'
<1>1. Status(204) \in Reply /\ Status(204).own = {}
  BY StatusIsReply
<1> QED BY <1>1, WriteKeepsInv DEF Remove

\* A write that is refused answers 500 and leaves the table as it was.
LEMMA NoWriteKeepsInv ==
  ASSUME IInv, NEW r \in Slots, req[r].pc = "write",
         NEW reply \in Reply, Finish(r, req[r].who, reply),
         reply.own \subseteq {req[r].target},
         UNCHANGED <<table, account, api, creator>>
  PROVE  IInv'
<1> DEFINE l == req[r].target
<1>1. l \in Refs /\ table \in [Refs -> Row \cup {Absent}]
  BY DEF IInv, HandlerInv, TypeOK
<1>2. table' = [table EXCEPT ![l] = table[l]] /\ table[l] \in Row \cup {Absent}
  BY <1>1
<1>3. table[l] # Absent => table[l].owner \in {creator[l], NoUser}
                           /\ OwnerExists(table[l].owner)
  BY <1>1 DEF IInv, OwnerIsCreator
<1> QED BY <1>2, <1>3, WriteKeepsInv

LEMMA SaveInsertKeepsInv ==
  ASSUME IInv, NEW r \in Slots, SaveInsert(r)
  PROVE  IInv'
<1> DEFINE q == req[r]
           l == q.target
           shown == [status |-> 200, shown |-> {l}, own |-> {l}]
<1>1. /\ q.pc = "write" /\ l \in Refs /\ creator[l] = q.who
      /\ q.entity.owner = q.who /\ q.entity # Absent /\ q.entity \in Entity
      /\ UNCHANGED <<account, api, creator>>
  BY DEF SaveInsert, IInv, HandlerInv, TypeOK, RequestRec
<1>2. /\ shown \in Reply /\ shown.own \subseteq {l}
      /\ Status(500) \in Reply /\ Status(500).own \subseteq {l}
  BY <1>1, WriteReply
<1>3. CASE /\ OwnerExists(q.entity.owner) /\ q.entity.attrs \in Attrs
           /\ table' = [table EXCEPT ![l] = q.entity]
           /\ Finish(r, q.who, shown)
  <2>1. q.entity \in Row
    BY <1>1, <1>3 DEF Entity, Row
  <2> QED BY <1>1, <1>2, <1>3, <2>1, WriteKeepsInv
<1>4. CASE Finish(r, q.who, Status(500)) /\ UNCHANGED table
  BY <1>1, <1>2, <1>4, NoWriteKeepsInv
<1> QED BY <1>3, <1>4 DEF SaveInsert

LEMMA SaveUpdateKeepsInv ==
  ASSUME IInv, NEW r \in Slots, SaveUpdate(r)
  PROVE  IInv'
<1> DEFINE q == req[r]
           l == q.target
           row == table[l]
           new == Updated(row, q)
           shown == [status |-> 200, shown |-> {l}, own |-> {l}]
<1>1. /\ q.pc = "write" /\ l \in Refs /\ creator[l] = q.who /\ q.who \in Users
      /\ q.entity.owner = q.who /\ q.entity # Absent /\ q.entity \in Entity
      /\ row \in Row \cup {Absent}
      /\ UNCHANGED <<account, api, creator>>
  BY DEF SaveUpdate, IInv, HandlerInv, TypeOK, RequestRec
<1>2. /\ shown \in Reply /\ shown.own \subseteq {l}
      /\ Status(500) \in Reply /\ Status(500).own \subseteq {l}
  BY <1>1, WriteReply
<1>3. CASE /\ row # Absent
           /\ OwnerChanged(q) => OwnerExists(q.entity.owner)
           /\ \A f \in Changed(q) \ Nullable : q.entity.attrs[f] # Null
           /\ table' = [table EXCEPT ![l] = new]
           /\ Finish(r, q.who, shown)
  <2>1. row \in Row /\ row.owner \in {creator[l], NoUser} /\ OwnerExists(row.owner)
    BY <1>1, <1>3 DEF IInv, OwnerIsCreator
  <2>2. new.owner \in {creator[l], NoUser} /\ OwnerExists(new.owner)
    BY <1>1, <1>3, <2>1 DEF Updated
  <2>3. new.attrs \in Attrs
    <3>1. new.attrs = [f \in Fields |->
            IF f \in Changed(q) THEN q.entity.attrs[f] ELSE row.attrs[f]]
      BY DEF Updated
    <3>2. /\ q.entity.attrs \in [Fields -> Values \cup {Null}]
          /\ row.attrs \in Attrs
      BY <1>1, <2>1 DEF Entity, Row
    <3> QED BY <1>3, <3>1, <3>2 DEF Attrs
  <2>4. new \in Row
    <3>1. new = [owner |-> new.owner, attrs |-> new.attrs]
      BY DEF Updated
    <3>2. new.owner \in Users \cup {NoUser}
      BY <1>1, <2>2
    <3> QED BY <2>3, <3>1, <3>2 DEF Row
  <2> HIDE DEF new
  <2> QED BY <1>1, <1>2, <1>3, <2>2, <2>4, WriteKeepsInv
<1>4. CASE Finish(r, q.who, shown) /\ UNCHANGED table
  BY <1>1, <1>2, <1>4, NoWriteKeepsInv
<1>5. CASE Finish(r, q.who, Status(500)) /\ UNCHANGED table
  BY <1>1, <1>2, <1>5, NoWriteKeepsInv
<1> QED BY <1>3, <1>4, <1>5 DEF SaveUpdate

LEMMA EnvironmentKeepsInv ==
  ASSUME IInv,
         \/ \E r \in Slots : Deliver(r)
         \/ \E u \in Users : Register(u) \/ DeleteAccount(u)
         \/ Boot \/ Crash
  PROVE  IInv'
<1>1. /\ Idle \in RequestRec /\ Idle.pc = "idle" /\ Idle.reply.own = {}
      /\ creator \in [Refs -> Users \cup {NoUser}]
  BY IdleIsRequest DEF Idle, NoReply, IInv, TypeOK
<1>2. ASSUME NEW r \in Slots, Deliver(r)
      PROVE  IInv'
  <2>1. /\ UNCHANGED <<table, account, api, creator>>
        /\ req' \in [Slots -> RequestRec]
        /\ req'[r] = Idle /\ \A s \in Slots \ {r} : req'[s] = req[s]
    BY <1>1, <1>2 DEF Deliver, IInv, TypeOK
  <2>2. HandlerInv' /\ OwnFlagSound'
    BY <1>1, <2>1 DEF IInv, HandlerInv, OwnFlagSound
  <2> QED BY <2>1, <2>2 DEF IInv, TypeOK, OwnerIsCreator, CreatorInv, OwnerExists
<1>3. ASSUME NEW u \in Users, Register(u)
      PROVE  IInv'
  <2>1. UNCHANGED <<table, api, req, creator>>
        /\ account' \in [Users -> {"none", "live", "deleted"}]
        /\ \A x \in Users : account[x] = "live" => account'[x] = "live"
    BY <1>3 DEF Register, IInv, TypeOK
  <2> QED BY <2>1 DEF IInv, TypeOK, OwnerIsCreator, OwnFlagSound, HandlerInv,
                      CreatorInv, OwnerExists
<1>4. ASSUME NEW u \in Users, DeleteAccount(u)
      PROVE  IInv'
  <2>1. /\ UNCHANGED <<api, req, creator>>
        /\ account' = [account EXCEPT ![u] = "deleted"]
        /\ account' \in [Users -> {"none", "live", "deleted"}]
    BY <1>4 DEF DeleteAccount, IInv, TypeOK
  <2>2. \A l \in Refs :
          /\ table'[l] \in Row \cup {Absent}
          /\ table'[l] # Absent =>
               /\ table[l] # Absent
               /\ table'[l].owner = IF table[l].owner = u THEN NoUser ELSE table[l].owner
    <3> SUFFICES ASSUME NEW l \in Refs
                 PROVE  <2>2!(l)
      OBVIOUS
    <3>1. table[l] \in Row \cup {Absent}
      BY DEF IInv, TypeOK
    <3>2. table'[l] = IF table[l] # Absent /\ table[l].owner = u
                        THEN [table[l] EXCEPT !.owner = NoUser] ELSE table[l]
      BY <1>4 DEF DeleteAccount
    <3>3. table[l] \in Row => [table[l] EXCEPT !.owner = NoUser] \in Row
      BY DEF Row
    <3> QED BY <3>1, <3>2, <3>3, EntityNotAbsent DEF Row
  <2>3. table' \in [Refs -> Row \cup {Absent}]
    BY <1>4, <2>2 DEF DeleteAccount
  <2>4. OwnerIsCreator'
    BY <2>1, <2>2, SentinelsAssumption
    DEF IInv, OwnerIsCreator, OwnerExists, TypeOK
  <2>5. OwnFlagSound' /\ HandlerInv' /\ TypeOK'
    BY <2>1, <2>3 DEF IInv, TypeOK, OwnFlagSound, HandlerInv
  <2>6. CreatorInv'
    BY <2>1, <2>2 DEF IInv, CreatorInv, Refs
  <2> QED BY <2>4, <2>5, <2>6 DEF IInv
<1>5. CASE Boot
  <2>1. UNCHANGED <<account, req, creator>> /\ api' = "up"
    BY <1>5 DEF Boot
  <2>2. \A l \in Refs :
          /\ table'[l] \in Row \cup {Absent}
          /\ table'[l] = table[l] \/ table'[l].owner = NoUser
          /\ l \in UserRefs => table'[l] = table[l]
    <3> SUFFICES ASSUME NEW l \in Refs
                 PROVE  <2>2!(l)
      OBVIOUS
    <3>1. table'[l] = IF l \in SeedRefs /\ table[l] = Absent
                        THEN [owner |-> NoUser, attrs |-> SeedAttrs[l]]
                        ELSE table[l]
      BY <1>5 DEF Boot
    <3>2. l \in SeedRefs => [owner |-> NoUser, attrs |-> SeedAttrs[l]] \in Row
      BY InputsAssumption DEF Row
    <3> QED BY <3>1, <3>2, InputsAssumption DEF IInv, TypeOK
  <2>3. table' \in [Refs -> Row \cup {Absent}]
    BY <1>5, <2>2 DEF Boot
  <2>4. OwnerIsCreator'
    BY <2>1, <2>2 DEF IInv, OwnerIsCreator, OwnerExists
  <2>5. OwnFlagSound' /\ HandlerInv' /\ TypeOK'
    BY <2>1, <2>3 DEF IInv, TypeOK, OwnFlagSound, HandlerInv
  <2>6. CreatorInv'
    BY <2>1, <2>2 DEF IInv, CreatorInv, Refs
  <2> QED BY <2>4, <2>5, <2>6 DEF IInv
<1>6. CASE Crash
  <2>1. /\ UNCHANGED <<table, account, creator>> /\ api' = "down"
        /\ \A r \in Slots : req'[r] = Idle
        /\ req' \in [Slots -> RequestRec]
    BY <1>1, <1>6 DEF Crash
  <2>2. OwnFlagSound' /\ HandlerInv'
    BY <1>1, <2>1 DEF OwnFlagSound, HandlerInv
  <2> QED BY <2>1, <2>2 DEF IInv, TypeOK, OwnerIsCreator, CreatorInv, OwnerExists
<1> QED BY <1>2, <1>3, <1>4, <1>5, <1>6

-----------------------------------------------------------------------------
(* Theorems. *)

LEMMA InitInv == Init => IInv
<1> SUFFICES ASSUME Init PROVE IInv
  OBVIOUS
<1>1. Idle \in RequestRec /\ Idle.pc = "idle" /\ Idle.reply.own = {}
  BY IdleIsRequest DEF Idle, NoReply
<1> QED
  BY <1>1 DEF Init, IInv, TypeOK, OwnerIsCreator, OwnFlagSound, HandlerInv, CreatorInv, Refs

LEMMA NextKeepsInv == IInv /\ [Next]_vars => IInv'
<1> SUFFICES ASSUME IInv, [Next]_vars PROVE IInv'
  OBVIOUS
<1>1. ASSUME NEW r \in Slots, Request(r)
      PROVE  IInv'
  <2>1. PICK u \in Users \cup {NoUser} :
          \/ Refuse(r, u)
          \/ \E filter \in Filters : FindAll(r, u, filter)
          \/ \E l \in Refs :
               \/ FindOne(r, u, l)
               \/ \E attrs \in [Fields -> Values] : Create(r, u, l, attrs)
               \/ \E payload \in Payloads : Call(r, "update", u, l, payload)
               \/ Call(r, "remove", u, l, Idle.payload)
    BY <1>1 DEF Request
  <2>2. Payloads \subseteq Patches /\ Idle.payload \in Patches
    BY InputsAssumption, IdleIsRequest DEF RequestRec
  <2> QED BY <2>1, <2>2, ReadsKeepInv, CreateKeepsInv, CallKeepsInv
<1>2. ASSUME NEW r \in Slots, Handle(r)
      PROVE  IInv'
  BY <1>2, LoadOwnedKeepsInv, SaveSelectKeepsInv, SaveInsertKeepsInv,
     SaveUpdateKeepsInv, RemoveKeepsInv DEF Handle
<1>3. CASE UNCHANGED vars
  BY <1>3 DEF vars, IInv, TypeOK, OwnerIsCreator, OwnFlagSound, HandlerInv,
              CreatorInv, OwnerExists
<1> QED BY <1>1, <1>2, <1>3, EnvironmentKeepsInv DEF Next

\* Every reachable state satisfies the inductive invariant.
THEOREM Invariance == Spec => []IInv
BY InitInv, NextKeepsInv, PTL DEF Spec

\* No interleaving takes the tables, the requests and their replies out of
\* their types; in particular no row breaks a NOT NULL constraint.
THEOREM TypeCorrect == Spec => []TypeOK
<1>1. IInv => TypeOK
  BY DEF IInv
<1> QED BY <1>1, Invariance, PTL

\* A listing belongs to the live account that published it, or to nobody.
THEOREM Ownership == Spec => []OwnerIsCreator
<1>1. IInv => OwnerIsCreator
  BY DEF IInv
<1> QED BY <1>1, Invariance, PTL

\* isOwn is shown to nobody but the user who published the listing.
THEOREM OwnFlags == Spec => []OwnFlagSound
<1>1. IInv => OwnFlagSound
  BY DEF IInv
<1> QED BY <1>1, Invariance, PTL

-----------------------------------------------------------------------------
(* Which steps change a row. *)

\* A row changes by its creation, by a write on behalf of its creator, by a
\* boot that seeds it, or by the deletion of its owner's account.
LEMMA RowChanges ==
  ASSUME IInv, [Next]_vars, NEW l \in Refs, table'[l] # table[l]
  PROVE  \/ l \in UserRefs /\ creator[l] = NoUser
         \/ \E r \in Slots :
              /\ SaveInsert(r) \/ SaveUpdate(r) \/ Remove(r)
              /\ req[r].target = l /\ req'[r].pc = "done"
              /\ req[r].who \in Users /\ req[r].who = creator[l]
         \/ l \in SeedRefs /\ table[l] = Absent
         \/ table[l] # Absent /\ table'[l] = [table[l] EXCEPT !.owner = NoUser]
<1>1. table \in [Refs -> Row \cup {Absent}] /\ req \in [Slots -> RequestRec]
  BY DEF IInv, TypeOK
<1>2. ASSUME NEW r \in Slots, NEW u \in Users \cup {NoUser}, NEW k \in Refs,
             NEW attrs \in [Fields -> Values], Create(r, u, k, attrs)
      PROVE  l \in UserRefs /\ creator[l] = NoUser
  BY <1>1, <1>2 DEF Create
<1>3. ASSUME NEW r \in Slots, SaveInsert(r) \/ SaveUpdate(r) \/ Remove(r)
      PROVE  /\ req[r].target = l /\ req'[r].pc = "done"
             /\ req[r].who \in Users /\ req[r].who = creator[l]
  <2>1. req[r].target \in Refs /\ req[r].who \in Users
        /\ creator[req[r].target] = req[r].who
    BY <1>3 DEF SaveInsert, SaveUpdate, Remove, IInv, HandlerInv
  <2>2. /\ \A k \in Refs : k # req[r].target => table'[k] = table[k]
        /\ \E reply : Finish(r, req[r].who, reply)
    BY <1>1, <1>3 DEF SaveInsert, SaveUpdate, Remove
  <2>3. req'[r].pc = "done"
    BY <1>1, <2>2 DEF Finish, Idle
  <2> QED BY <2>1, <2>2, <2>3
<1>4. CASE Boot
  BY <1>4 DEF Boot
<1>5. ASSUME NEW u \in Users, DeleteAccount(u)
      PROVE  table[l] # Absent /\ table'[l] = [table[l] EXCEPT !.owner = NoUser]
  BY <1>5 DEF DeleteAccount
<1>6. ASSUME UNCHANGED table
      PROVE  FALSE
  BY <1>6
<1>7. CASE \E r \in Slots : Request(r)
  <2>1. PICK r \in Slots : Request(r)
    BY <1>7
  <2>2. UNCHANGED table \/ \E u \in Users \cup {NoUser}, k \in Refs,
          attrs \in [Fields -> Values] : Create(r, u, k, attrs)
    BY <2>1 DEF Request, Refuse, FindOne, FindAll, Call
  <2> QED BY <1>2, <1>6, <2>2
<1>8. CASE \E r \in Slots : Handle(r)
  <2>1. PICK r \in Slots : Handle(r)
    BY <1>8
  <2>2. SaveInsert(r) \/ SaveUpdate(r) \/ Remove(r)
    BY <1>6, <2>1 DEF Handle, LoadOwned, SaveSelect
  <2> QED BY <1>3, <2>2
<1>9. CASE \/ \E r \in Slots : Deliver(r)
           \/ \E u \in Users : Register(u)
           \/ Crash
           \/ UNCHANGED vars
  BY <1>6, <1>9 DEF Deliver, Register, Crash, vars
<1> QED BY <1>4, <1>5, <1>7, <1>8, <1>9 DEF Next

\* Only the user who published a listing changes or deletes it.
THEOREM OwnerWrites == Spec => OnlyOwnerWrites
<1> DEFINE Allowed ==
      \A l \in Refs : table[l] # Absent /\ table'[l] # table[l] =>
        \/ table'[l] = [table[l] EXCEPT !.owner = NoUser]
        \/ \E r \in Slots :
             /\ req[r].pc \in {"write", "delete"} /\ req'[r].pc = "done"
             /\ req[r].target = l
             /\ req[r].who # NoUser /\ req[r].who = creator[l]
<1>1. IInv /\ [Next]_vars => [Allowed]_vars
  <2> SUFFICES ASSUME IInv, [Next]_vars, NEW l \in Refs,
                      table[l] # Absent, table'[l] # table[l]
               PROVE  \/ table'[l] = [table[l] EXCEPT !.owner = NoUser]
                      \/ \E r \in Slots :
                           /\ req[r].pc \in {"write", "delete"} /\ req'[r].pc = "done"
                           /\ req[r].target = l
                           /\ req[r].who # NoUser /\ req[r].who = creator[l]
    OBVIOUS
  <2>1. ~(l \in UserRefs /\ creator[l] = NoUser)
    BY DEF IInv, CreatorInv
  <2> QED
    BY <2>1, RowChanges, SentinelsAssumption DEF SaveInsert, SaveUpdate, Remove
<1> QED BY <1>1, Invariance, PTL DEF Spec, OnlyOwnerWrites

\* Nothing ever changes or removes a seed listing once it is there.
THEOREM SeedRowsStay == Spec => SeedRowsFixed
<1> DEFINE Fixed == \A l \in SeedRefs : table[l] # Absent => table'[l] = table[l]
<1>1. IInv /\ [Next]_vars => [Fixed]_vars
  <2> SUFFICES ASSUME IInv, [Next]_vars, NEW l \in SeedRefs,
                      table[l] # Absent, table'[l] # table[l]
               PROVE  FALSE
    OBVIOUS
  <2>1. l \in Refs /\ l \notin UserRefs /\ creator[l] = NoUser
    BY InputsAssumption DEF Refs, IInv, CreatorInv
  <2>2. table'[l] = [table[l] EXCEPT !.owner = NoUser]
    BY <2>1, RowChanges, SentinelsAssumption
  <2>3. table[l] \in Row /\ table[l].owner = NoUser
    BY <2>1 DEF IInv, TypeOK, OwnerIsCreator
  <2> QED BY <2>2, <2>3 DEF Row
<1> QED BY <1>1, Invariance, PTL DEF Spec, SeedRowsFixed

\* A deleted listing returns only through a PATCH that was already past the
\* ownership check when the DELETE was executed.
THEOREM Returns == Spec => ReturnsOnlyByEarlierPatch
<1> DEFINE ByPatch ==
      \A l \in UserRefs :
        creator[l] # NoUser /\ table[l] = Absent /\ table'[l] # Absent =>
          \E r \in Slots : /\ req[r].target = l /\ req[r].who = creator[l]
                           /\ req[r].op = "update" /\ req[r].found = Absent
                           /\ req[r].entity # Absent
<1>1. IInv /\ [Next]_vars => [ByPatch]_vars
  <2> SUFFICES ASSUME IInv, [Next]_vars, NEW l \in UserRefs,
                      creator[l] # NoUser, table[l] = Absent, table'[l] # Absent
               PROVE  \E r \in Slots :
                        /\ req[r].target = l /\ req[r].who = creator[l]
                        /\ req[r].op = "update" /\ req[r].found = Absent
                        /\ req[r].entity # Absent
    OBVIOUS
  <2>1. l \in Refs /\ l \notin SeedRefs /\ table \in [Refs -> Row \cup {Absent}]
    BY InputsAssumption DEF Refs, IInv, TypeOK
  <2>2. PICK r \in Slots :
          /\ SaveInsert(r) \/ SaveUpdate(r) \/ Remove(r)
          /\ req[r].target = l /\ req[r].who = creator[l]
    BY <2>1, RowChanges
  <2>3. SaveInsert(r)
    BY <2>1, <2>2 DEF SaveUpdate, Remove
  <2> QED BY <2>2, <2>3 DEF SaveInsert, IInv, HandlerInv
<1> QED BY <1>1, Invariance, PTL DEF Spec, ReturnsOnlyByEarlierPatch

-----------------------------------------------------------------------------
(* Listings implements ListingStore when no two writes to a listing         *)
(* overlap.  Its handlers take three queries for one step of the store, so  *)
(* the proof needs to know that what a handler read is still what the row   *)
(* holds when it writes.                                                    *)

\* A seed listing holds what the seed shipped.
SeedsAsShipped ==
  \A l \in SeedRefs : table[l] # Absent =>
    table[l] = [owner |-> NoUser, attrs |-> SeedAttrs[l]]

\* A published listing without an owner lost it with its creator's account.
DetachedByDeletion ==
  \A l \in Refs :
    table[l] # Absent /\ creator[l] # NoUser /\ table[l].owner = NoUser =>
      account[creator[l]] = "deleted"

\* What a PATCH has read of its row has not changed since, but for an owner
\* whose account was deleted.
FreshView(r) ==
  LET q == req[r] row == table[q.target] IN
  /\ q.op = "update" => q.payload \in Payloads
  /\ q.pc \in {"select", "write"} =>
       /\ row # Absent
       /\ q.entity.attrs = Merged(row, q.payload).attrs
  /\ q.pc = "write" =>
       /\ q.found # Absent /\ q.found.attrs = row.attrs
       /\ q.found.owner = NoUser => account[q.who] = "deleted"

FreshViews == \A r \in Slots : FreshView(r)

SerialInv ==
  OneWriterPerListing /\ SeedsAsShipped /\ DetachedByDeletion /\ FreshViews

\* The columns of a merged row.
LEMMA MergedAttrs ==
  ASSUME NEW row \in Row, NEW payload \in Patches
  PROVE  Merged(row, payload).attrs =
           [f \in Fields |-> IF payload[f] = Undefined THEN row.attrs[f] ELSE payload[f]]
BY DEF Merged, Row

\* An answered slot has nothing to be stale.
LEMMA FinishIsFresh ==
  ASSUME IInv, NEW r \in Slots, NEW u, NEW reply, Finish(r, u, reply)
  PROVE  FreshView(r)' /\ \A s \in Slots \ {r} : req'[s] = req[s]
BY DEF Finish, Idle, IInv, TypeOK, FreshView

\* The other slots' views stay fresh when the columns of their rows stay.
LEMMA OthersStayFresh ==
  ASSUME IInv, NEW s \in Slots, FreshView(s), req'[s] = req[s],
         req[s].pc \in {"select", "write"} =>
           LET row == table[req[s].target] IN
           table'[req[s].target] \in Row /\ table'[req[s].target].attrs = row.attrs,
         \A u \in Users : account[u] = "deleted" => account'[u] = "deleted"
  PROVE  FreshView(s)'
<1> DEFINE q == req[s]
           row == table[q.target]
           new == table'[q.target]
<1>1. q \in RequestRec
  BY DEF IInv, TypeOK
<1>2. CASE q.pc \notin {"select", "write"}
  BY <1>2 DEF FreshView
<1>3. CASE q.pc \in {"select", "write"}
  <2>1. row \in Row /\ q.payload \in Patches /\ q.who \in Users
    BY <1>1, <1>3 DEF FreshView, IInv, HandlerInv, TypeOK, RequestRec
  <2>2. new \in Row /\ new.attrs = row.attrs /\ new # Absent
    BY <1>3, EntityNotAbsent
  <2>3. Merged(new, q.payload).attrs = Merged(row, q.payload).attrs
    <3> HIDE DEF q, row, new
    <3>1. Merged(row, q.payload).attrs =
            [f \in Fields |-> IF q.payload[f] = Undefined THEN row.attrs[f] ELSE q.payload[f]]
      BY <2>1, MergedAttrs
    <3>2. Merged(new, q.payload).attrs =
            [f \in Fields |-> IF q.payload[f] = Undefined THEN new.attrs[f] ELSE q.payload[f]]
      BY <2>1, <2>2, MergedAttrs
    <3> QED BY <2>2, <3>1, <3>2
  <2> QED BY <1>3, <2>1, <2>2, <2>3 DEF FreshView
<1> QED BY <1>2, <1>3

\* A step that leaves the tables alone and one slot with a fresh view.
LEMMA QuietSerialStep ==
  ASSUME IInv, SerialInv, NEW r \in Slots, UNCHANGED <<table, account, creator>>,
         FreshView(r)', \A s \in Slots \ {r} : req'[s] = req[s]
  PROVE  SeedsAsShipped' /\ DetachedByDeletion' /\ FreshViews'
<1>1. ASSUME NEW s \in Slots
      PROVE  FreshView(s)'
  <2>1. CASE s = r
    BY <2>1
  <2>2. CASE s # r
    <3>1. FreshView(s) /\ req'[s] = req[s]
      BY <2>2 DEF SerialInv, FreshViews
    <3> QED BY <3>1 DEF FreshView
  <2> QED BY <2>1, <2>2
<1> QED BY <1>1 DEF SerialInv, SeedsAsShipped, DetachedByDeletion, FreshViews

-----------------------------------------------------------------------------
(* Every step keeps the views fresh and is a step of the store or none.     *)

\* Requests that read, that are refused or that only begin.
LEMMA ReadsAreSilent ==
  ASSUME IInv, SerialInv, NEW r \in Slots, NEW u \in Users \cup {NoUser},
         \/ Refuse(r, u)
         \/ \E l \in Refs : FindOne(r, u, l)
         \/ \E filter \in Filters : FindAll(r, u, filter)
  PROVE  SeedsAsShipped' /\ DetachedByDeletion' /\ FreshViews' /\ UNCHANGED Store!vars
<1>1. UNCHANGED <<table, account, creator>>
  BY DEF Refuse, FindOne, FindAll
<1>2. \E reply : Finish(r, u, reply)
  BY DEF Refuse, FindOne, FindAll
<1> QED BY <1>1, <1>2, FinishIsFresh, QuietSerialStep DEF Store!vars

LEMMA CallIsSilent ==
  ASSUME IInv, SerialInv, NEW r \in Slots, NEW u \in Users \cup {NoUser}, NEW l \in Refs,
         \/ \E payload \in Payloads : Call(r, "update", u, l, payload)
         \/ Call(r, "remove", u, l, Idle.payload)
  PROVE  SeedsAsShipped' /\ DetachedByDeletion' /\ FreshViews' /\ UNCHANGED Store!vars
<1>1. UNCHANGED <<table, account, creator>>
  BY DEF Call
<1>2. FreshView(r)' /\ \A s \in Slots \ {r} : req'[s] = req[s]
  BY DEF Call, Idle, FreshView, IInv, TypeOK
<1> QED BY <1>1, <1>2, QuietSerialStep DEF Store!vars

LEMMA LoadOwnedIsSilent ==
  ASSUME IInv, SerialInv, NEW r \in Slots, LoadOwned(r)
  PROVE  SeedsAsShipped' /\ DetachedByDeletion' /\ FreshViews' /\ UNCHANGED Store!vars
<1> DEFINE q == req[r]
           row == table[q.target]
           pc == IF q.op = "update" THEN "select" ELSE "delete"
<1>1. UNCHANGED <<table, account, creator>> /\ q \in RequestRec /\ q.pc = "load"
  BY DEF LoadOwned, IInv, TypeOK
<1>2. ASSUME row # Absent,
             req' = [req EXCEPT ![r].pc = pc, ![r].entity = Merged(row, q.payload)]
      PROVE  FreshView(r)' /\ \A s \in Slots \ {r} : req'[s] = req[s]
  <2>1. /\ req'[r] = [q EXCEPT !.pc = pc, !.entity = Merged(row, q.payload)]
        /\ \A s \in Slots \ {r} : req'[s] = req[s]
    BY <1>1, <1>2 DEF IInv, TypeOK, RequestRec
  <2>2. /\ req'[r].pc = pc /\ req'[r].op = q.op /\ req'[r].target = q.target
        /\ req'[r].payload = q.payload /\ req'[r].entity = Merged(row, q.payload)
    BY <1>1, <2>1 DEF RequestRec
  <2>3. q.op = "update" => q.payload \in Payloads
    BY DEF SerialInv, FreshViews, FreshView
  <2>4. pc # "write" /\ table' = table
    BY <1>1
  <2> HIDE DEF q, pc
  <2> QED BY <1>2, <2>1, <2>2, <2>3, <2>4 DEF FreshView
<1>3. FreshView(r)' /\ \A s \in Slots \ {r} : req'[s] = req[s]
  BY <1>2, FinishIsFresh DEF LoadOwned
<1> QED BY <1>1, <1>3, QuietSerialStep DEF Store!vars

LEMMA SaveSelectIsSilent ==
  ASSUME IInv, SerialInv, NEW r \in Slots, SaveSelect(r)
  PROVE  SeedsAsShipped' /\ DetachedByDeletion' /\ FreshViews' /\ UNCHANGED Store!vars
<1> DEFINE q == req[r]
           row == table[q.target]
<1>1. /\ UNCHANGED <<table, account, creator>> /\ q.pc = "select"
      /\ q \in RequestRec /\ q.who \in Users /\ q.target \in Refs
      /\ creator[q.target] = q.who
  BY DEF SaveSelect, IInv, TypeOK, HandlerInv
<1>2. /\ req'[r] = [q EXCEPT !.pc = "write", !.found = row]
      /\ \A s \in Slots \ {r} : req'[s] = req[s]
  BY <1>1 DEF SaveSelect, IInv, TypeOK, RequestRec
<1>3. /\ req'[r].pc = "write" /\ req'[r].target = q.target /\ req'[r].found = row
      /\ req'[r].op = q.op /\ req'[r].payload = q.payload /\ req'[r].who = q.who
      /\ req'[r].entity = q.entity
  BY <1>1, <1>2 DEF RequestRec
<1>4. /\ row # Absent /\ q.entity.attrs = Merged(row, q.payload).attrs
      /\ q.op = "update" => q.payload \in Payloads
  BY <1>1 DEF SerialInv, FreshViews, FreshView
<1>5. row.owner = NoUser => account[q.who] = "deleted"
  BY <1>1, <1>4, SentinelsAssumption DEF SerialInv, DetachedByDeletion
<1>6. FreshView(r)'
  BY <1>1, <1>3, <1>4, <1>5 DEF FreshView
<1> QED BY <1>1, <1>2, <1>6, QuietSerialStep DEF Store!vars

\* save() always finds the row it is to write.
LEMMA SaveInsertIsDisabled ==
  ASSUME SerialInv, NEW r \in Slots
  PROVE  ~SaveInsert(r)
BY DEF SerialInv, FreshViews, FreshView, SaveInsert

\* A write to one listing leaves the views of the others' rows fresh.
LEMMA WriteKeepsFresh ==
  ASSUME IInv, SerialInv, NEW r \in Slots, req[r].pc \in {"write", "delete"},
         NEW row, table' = [table EXCEPT ![req[r].target] = row],
         row # Absent /\ row.owner = NoUser => account[req[r].who] = "deleted",
         UNCHANGED <<account, creator>>,
         NEW u, NEW reply, Finish(r, u, reply)
  PROVE  SeedsAsShipped' /\ DetachedByDeletion' /\ FreshViews'
<1> DEFINE l == req[r].target
<1>1. /\ l \in Refs /\ l \notin SeedRefs /\ creator[l] = req[r].who
      /\ table \in [Refs -> Row \cup {Absent}]
  BY SentinelsAssumption DEF IInv, HandlerInv, CreatorInv, TypeOK
<1>2. FreshView(r)' /\ \A s \in Slots \ {r} : req'[s] = req[s]
  BY FinishIsFresh
<1>3. ASSUME NEW s \in Slots \ {r}
      PROVE  FreshView(s)'
  <2> DEFINE k == req[s].target
  <2>1. k # l
    BY <1>1, SentinelsAssumption DEF SerialInv, OneWriterPerListing
  <2>2. CASE req[s].pc \in {"select", "write"}
    <3>1. k \in Refs /\ table[k] # Absent /\ table'[k] = table[k]
      BY <1>1, <2>1, <2>2 DEF IInv, HandlerInv, SerialInv, FreshViews, FreshView
    <3>2. table[k] \in Row
      BY <1>1, <3>1
    <3> QED BY <1>2, <3>1, <3>2, OthersStayFresh DEF SerialInv, FreshViews
  <2>3. CASE req[s].pc \notin {"select", "write"}
    BY <1>2, <2>3, OthersStayFresh DEF SerialInv, FreshViews
  <2> QED BY <2>2, <2>3
<1>4. SeedsAsShipped'
  BY <1>1 DEF SerialInv, SeedsAsShipped, Refs
<1>5. DetachedByDeletion'
  BY <1>1 DEF SerialInv, DetachedByDeletion
<1> QED BY <1>2, <1>3, <1>4, <1>5 DEF FreshViews

\* The UPDATE of a row that is still as it was read writes the merged columns
\* and leaves the owner, or is refused for a NULL the body asks for.
LEMMA SaveUpdateRevises ==
  ASSUME IInv, SerialInv, NEW r \in Slots, SaveUpdate(r)
  PROVE  /\ SeedsAsShipped' /\ DetachedByDeletion' /\ FreshViews'
         /\ \/ UNCHANGED Store!vars
            \/ /\ req[r].target \in UserRefs /\ req[r].payload \in Payloads
               /\ Store!Revise(req[r].target, req[r].payload)
<1> DEFINE q == req[r]
           l == q.target
           row == table[l]
           new == Updated(row, q)
           merged == [f \in Fields |->
             IF q.payload[f] = Undefined THEN row.attrs[f] ELSE q.payload[f]]
<1>1. /\ q.pc = "write" /\ q.op = "update" /\ q.who \in Users
      /\ l \in Refs /\ creator[l] = q.who /\ creator[l] # NoUser /\ l \in UserRefs
      /\ q.entity.owner = q.who /\ q.entity # Absent /\ q.entity \in Entity
      /\ q.found # Absent => q.found.owner \in {q.who, NoUser}
      /\ q \in RequestRec /\ table \in [Refs -> Row \cup {Absent}]
      /\ UNCHANGED <<account, creator>>
  BY SentinelsAssumption
  DEF SaveUpdate, IInv, HandlerInv, CreatorInv, TypeOK, RequestRec, Refs
<1>2. /\ q.payload \in Payloads /\ row # Absent /\ row \in Row
      /\ q.entity.attrs = Merged(row, q.payload).attrs
      /\ q.found # Absent /\ q.found.attrs = row.attrs
      /\ q.found.owner = NoUser => account[q.who] = "deleted"
  BY <1>1 DEF SerialInv, FreshViews, FreshView
<1>3. q.entity.attrs = merged /\ q.payload \in Patches
  BY <1>1, <1>2, MergedAttrs DEF RequestRec
<1>4. CASE /\ OwnerChanged(q) => OwnerExists(q.entity.owner)
           /\ \A f \in Changed(q) \ Nullable : q.entity.attrs[f] # Null
           /\ table' = [table EXCEPT ![l] = new]
           /\ \E reply : Finish(r, q.who, reply)
  <2>1. ~OwnerChanged(q)
    BY <1>1, <1>2, <1>4, SentinelsAssumption DEF OwnerChanged, OwnerExists
  <2>2. new = [owner |-> row.owner, attrs |-> merged]
    <3>1. new.attrs = merged
      <4> SUFFICES ASSUME NEW f \in Fields
                   PROVE  (IF f \in Changed(q) THEN q.entity.attrs[f] ELSE row.attrs[f])
                            = merged[f]
        BY DEF Updated
      <4> QED BY <1>2, <1>3 DEF Changed
    <3> QED BY <2>1, <3>1 DEF Updated
  <2>3. new = [row EXCEPT !.attrs = merged]
    BY <1>2, <2>2 DEF Row
  <2>4. \A f \in Fields \ Nullable : q.payload[f] # Null
    <3> SUFFICES ASSUME NEW f \in Fields \ Nullable, q.payload[f] = Null
                 PROVE  FALSE
      OBVIOUS
    <3>1. q.entity.attrs[f] = Null
      BY <1>3, SentinelsAssumption
    <3>2. row.attrs[f] # Null
      BY <1>2 DEF Row, Attrs
    <3> QED BY <1>2, <1>4, <3>1, <3>2 DEF Changed
  <2>5. table' = [table EXCEPT ![l].attrs = merged]
    BY <1>4, <2>3, <1>1
  <2>6. Store!Revise(l, q.payload)
    BY <1>1, <1>2, <2>4, <2>5 DEF Store!Revise
  <2>7. new.owner = NoUser => account[q.who] = "deleted"
    <3>1. row.owner = NoUser => account[creator[l]] = "deleted"
      BY <1>1, <1>2 DEF SerialInv, DetachedByDeletion
    <3> QED BY <1>1, <2>2, <3>1
  <2>8. SeedsAsShipped' /\ DetachedByDeletion' /\ FreshViews'
    <3> HIDE DEF new
    <3> QED BY <1>1, <1>4, <2>7, WriteKeepsFresh
  <2> QED BY <1>1, <1>2, <2>6, <2>8
<1>5. CASE UNCHANGED table /\ \E reply : Finish(r, q.who, reply)
  BY <1>1, <1>5, FinishIsFresh, QuietSerialStep DEF Store!vars
<1> QED BY <1>4, <1>5 DEF SaveUpdate

LEMMA RemoveWithdraws ==
  ASSUME IInv, SerialInv, NEW r \in Slots, Remove(r)
  PROVE  /\ SeedsAsShipped' /\ DetachedByDeletion' /\ FreshViews'
         /\ \E l \in UserRefs : Store!Withdraw(l)
<1> DEFINE l == req[r].target
<1>1. /\ req[r].pc = "delete" /\ l \in UserRefs /\ creator[l] # NoUser
      /\ UNCHANGED <<account, creator>> /\ table' = [table EXCEPT ![l] = Absent]
      /\ Finish(r, req[r].who, Status(204))
  BY SentinelsAssumption DEF Remove, IInv, HandlerInv, CreatorInv, Refs
<1>2. Store!Withdraw(l)
  BY <1>1 DEF Store!Withdraw
<1>3. SeedsAsShipped' /\ DetachedByDeletion' /\ FreshViews'
  BY <1>1, WriteKeepsFresh
<1> QED BY <1>1, <1>2, <1>3

\* Steps that leave the columns of every row that is there as they were.
LEMMA ColumnsStayFresh ==
  ASSUME IInv, SerialInv,
         \A s \in Slots : req'[s] = req[s] \/ FreshView(s)',
         \A l \in Refs : table[l] # Absent =>
           table'[l] \in Row /\ table'[l].attrs = table[l].attrs,
         \A u \in Users : account[u] = "deleted" => account'[u] = "deleted"
  PROVE  FreshViews'
<1> SUFFICES ASSUME NEW s \in Slots, req'[s] = req[s]
             PROVE  FreshView(s)'
  BY DEF FreshViews
<1>1. req[s].pc \in {"select", "write"} =>
        req[s].target \in Refs /\ table[req[s].target] # Absent
  BY DEF IInv, HandlerInv, SerialInv, FreshViews, FreshView
<1> QED BY <1>1, OthersStayFresh DEF SerialInv, FreshViews

LEMMA CreatePublishes ==
  ASSUME IInv, SerialInv, NEW r \in Slots, NEW u \in Users \cup {NoUser},
         NEW l \in Refs, NEW attrs \in [Fields -> Values], Create(r, u, l, attrs)
  PROVE  /\ SeedsAsShipped' /\ DetachedByDeletion' /\ FreshViews'
         /\ \/ UNCHANGED Store!vars
            \/ l \in UserRefs /\ u \in Users /\ Store!Publish(u, l, attrs)
<1> DEFINE row == [owner |-> u, attrs |-> attrs]
<1>1. /\ u \in Users /\ l \in UserRefs /\ creator[l] = NoUser /\ UNCHANGED account
      /\ table[l] = Absent /\ table \in [Refs -> Row \cup {Absent}]
      /\ creator \in [Refs -> Users \cup {NoUser}]
  BY DEF Create, IInv, CreatorInv, TypeOK
<1>2. CASE /\ OwnerExists(u)
           /\ table' = [table EXCEPT ![l] = row]
           /\ creator' = [creator EXCEPT ![l] = u]
           /\ \E reply : Finish(r, u, reply)
  <2>1. Store!Publish(u, l, attrs)
    BY <1>1, <1>2, SentinelsAssumption DEF Store!Publish, OwnerExists
  <2>2. \A k \in Refs : table[k] # Absent => table'[k] = table[k]
    BY <1>1, <1>2
  <2>3. FreshViews'
    <3>1. \A s \in Slots : req'[s] = req[s] \/ FreshView(s)'
      BY <1>2, FinishIsFresh
    <3>2. \A k \in Refs : table[k] # Absent =>
            table'[k] \in Row /\ table'[k].attrs = table[k].attrs
      BY <1>1, <2>2
    <3> QED BY <1>1, <3>1, <3>2, ColumnsStayFresh
  <2>4. SeedsAsShipped'
    BY <1>1, <1>2, InputsAssumption DEF SerialInv, SeedsAsShipped, Refs
  <2>5. DetachedByDeletion'
    <3> SUFFICES ASSUME NEW k \in Refs, table'[k] # Absent, creator'[k] # NoUser,
                        table'[k].owner = NoUser
                 PROVE  account'[creator'[k]] = "deleted"
      BY DEF DetachedByDeletion
    <3>1. k # l
      BY <1>1, <1>2, SentinelsAssumption
    <3> QED BY <1>1, <1>2, <3>1 DEF SerialInv, DetachedByDeletion
  <2> QED BY <1>1, <2>1, <2>3, <2>4, <2>5
<1>3. CASE UNCHANGED <<table, creator>> /\ \E reply : Finish(r, u, reply)
  BY <1>1, <1>3, FinishIsFresh, QuietSerialStep DEF Store!vars
<1> QED BY <1>2, <1>3 DEF Create

\* A boot seeds what is missing, and what is there is as the seed has it.
LEMMA BootSeeds ==
  ASSUME IInv, SerialInv, Boot
  PROVE  SeedsAsShipped' /\ DetachedByDeletion' /\ FreshViews' /\ Store!Seed
<1>1. /\ UNCHANGED <<account, req, creator>>
      /\ table \in [Refs -> Row \cup {Absent}]
      /\ \A l \in Refs : table'[l] =
           IF l \in SeedRefs /\ table[l] = Absent
             THEN [owner |-> NoUser, attrs |-> SeedAttrs[l]] ELSE table[l]
  BY DEF Boot, IInv, TypeOK
<1>2. \A l \in Refs : table[l] # Absent => table'[l] = table[l] /\ table[l] \in Row
  BY <1>1
<1>3. FreshViews'
  BY <1>1, <1>2, ColumnsStayFresh
<1>4. SeedsAsShipped'
  BY <1>1 DEF SerialInv, SeedsAsShipped, Refs
<1>5. DetachedByDeletion'
  BY <1>1 DEF SerialInv, DetachedByDeletion, IInv, CreatorInv
<1>6. Store!Seed
  <2>1. \A l \in Refs : (IF l \in SeedRefs /\ table[l] = Absent
                           THEN [owner |-> NoUser, attrs |-> SeedAttrs[l]] ELSE table[l])
                      = (IF l \in SeedRefs
                           THEN [owner |-> NoUser, attrs |-> SeedAttrs[l]] ELSE table[l])
    BY DEF SerialInv, SeedsAsShipped
  <2> QED BY <1>1, <2>1 DEF Boot, Store!Seed, Refs, Store!Refs
<1> QED BY <1>3, <1>4, <1>5, <1>6

\* The rows an account deletion detaches are those its user published.
LEMMA DeleteAccountLeaves ==
  ASSUME IInv, SerialInv, NEW u \in Users, DeleteAccount(u)
  PROVE  SeedsAsShipped' /\ DetachedByDeletion' /\ FreshViews' /\ Store!Leave(u)
<1>1. /\ UNCHANGED <<req, creator>> /\ account[u] = "live"
      /\ table \in [Refs -> Row \cup {Absent}]
      /\ account' = [account EXCEPT ![u] = "deleted"]
      /\ account \in [Users -> {"none", "live", "deleted"}]
      /\ creator \in [Refs -> Users \cup {NoUser}]
  BY DEF DeleteAccount, IInv, TypeOK
<1>2. ASSUME NEW l \in Refs, table[l] # Absent
      PROVE  /\ table[l] \in Row
             /\ table'[l] = IF table[l].owner = u
                              THEN [table[l] EXCEPT !.owner = NoUser] ELSE table[l]
             /\ table'[l] = IF creator[l] = u
                              THEN [table[l] EXCEPT !.owner = NoUser] ELSE table[l]
  <2>1. table[l] \in Row /\ table[l].owner \in {creator[l], NoUser}
    BY <1>1, <1>2 DEF IInv, OwnerIsCreator
  <2>2. table'[l] = IF table[l].owner = u
                      THEN [table[l] EXCEPT !.owner = NoUser] ELSE table[l]
    BY <1>2 DEF DeleteAccount
  <2>3. table[l].owner = NoUser => [table[l] EXCEPT !.owner = NoUser] = table[l]
    BY <2>1 DEF Row
  <2> QED BY <2>1, <2>2, <2>3, SentinelsAssumption
<1>3. \A l \in Refs : table[l] = Absent => table'[l] = Absent
  BY DEF DeleteAccount
<1>4. ASSUME NEW l \in Refs, table[l] # Absent
      PROVE  /\ table'[l] \in Row /\ table'[l].attrs = table[l].attrs
             /\ table'[l].owner = IF creator[l] = u THEN NoUser ELSE table[l].owner
  BY <1>2, <1>4 DEF Row
<1>5. FreshViews'
  <2>1. \A x \in Users : account[x] = "deleted" => account'[x] = "deleted"
    BY <1>1
  <2> QED BY <1>1, <1>4, <2>1, ColumnsStayFresh
<1>6. SeedsAsShipped'
  BY <1>1, <1>2, <1>3, SentinelsAssumption
  DEF SerialInv, SeedsAsShipped, IInv, CreatorInv, Refs
<1>7. DetachedByDeletion'
  BY <1>1, <1>3, <1>4 DEF SerialInv, DetachedByDeletion
<1>8. Store!Leave(u)
  <2>1. \A l \in Refs : (IF table[l] # Absent /\ table[l].owner = u
                           THEN [table[l] EXCEPT !.owner = NoUser] ELSE table[l])
                      = (IF table[l] # Absent /\ creator[l] = u
                           THEN [table[l] EXCEPT !.owner = NoUser] ELSE table[l])
    BY <1>2
  <2> QED BY <1>1, <2>1 DEF DeleteAccount, Store!Leave, Refs, Store!Refs
<1> QED BY <1>5, <1>6, <1>7, <1>8

LEMMA RegisterJoins ==
  ASSUME IInv, SerialInv, NEW u \in Users, Register(u)
  PROVE  SeedsAsShipped' /\ DetachedByDeletion' /\ FreshViews' /\ Store!Join(u)
<1>1. /\ UNCHANGED <<table, req, creator>>
      /\ \A x \in Users : account[x] = "deleted" => account'[x] = "deleted"
      /\ \A l \in Refs : table[l] # Absent => table[l] \in Row
      /\ creator \in [Refs -> Users \cup {NoUser}]
  BY DEF Register, IInv, TypeOK
<1>2. FreshViews'
  BY <1>1, ColumnsStayFresh
<1>3. SeedsAsShipped' /\ DetachedByDeletion'
  BY <1>1 DEF SerialInv, SeedsAsShipped, DetachedByDeletion
<1>4. Store!Join(u)
  BY DEF Register, Store!Join
<1> QED BY <1>2, <1>3, <1>4

LEMMA DeliverCrashSilent ==
  ASSUME IInv, SerialInv, (\E r \in Slots : Deliver(r)) \/ Crash \/ UNCHANGED vars
  PROVE  SeedsAsShipped' /\ DetachedByDeletion' /\ FreshViews' /\ UNCHANGED Store!vars
<1>1. UNCHANGED <<table, account, creator>>
  BY DEF Deliver, Crash, vars
<1>2. \A s \in Slots : req'[s] = req[s] \/ FreshView(s)'
  BY DEF Deliver, Crash, vars, FreshView, Idle, IInv, TypeOK
<1>3. \A l \in Refs : table[l] # Absent =>
        table'[l] \in Row /\ table'[l].attrs = table[l].attrs
  BY <1>1 DEF IInv, TypeOK
<1>4. FreshViews'
  BY <1>1, <1>2, <1>3, ColumnsStayFresh
<1> QED BY <1>1, <1>4 DEF SerialInv, SeedsAsShipped, DetachedByDeletion, Store!vars

\* The step simulation: a step from a state with fresh views reaches one with
\* fresh views, and is a step of the store or leaves the store alone.
LEMMA SerialStep ==
  ASSUME IInv, SerialInv, [SerialNext]_vars
  PROVE  SerialInv' /\ [Store!Next]_(Store!vars)
<1>1. OneWriterPerListing'
  BY DEF SerialNext, SerialInv, OneWriterPerListing, vars
<1>2. [Next]_vars
  BY DEF SerialNext
<1>3. ASSUME NEW r \in Slots, Request(r)
      PROVE  /\ SeedsAsShipped' /\ DetachedByDeletion' /\ FreshViews'
             /\ [Store!Next]_(Store!vars)
  <2>1. PICK u \in Users \cup {NoUser} :
          \/ Refuse(r, u)
          \/ \E filter \in Filters : FindAll(r, u, filter)
          \/ \E l \in Refs :
               \/ FindOne(r, u, l)
               \/ \E attrs \in [Fields -> Values] : Create(r, u, l, attrs)
               \/ \E payload \in Payloads : Call(r, "update", u, l, payload)
               \/ Call(r, "remove", u, l, Idle.payload)
    BY <1>3 DEF Request
  <2>2. CASE \E l \in Refs, attrs \in [Fields -> Values] : Create(r, u, l, attrs)
    BY <2>2, CreatePublishes DEF Store!Next
  <2>3. CASE \/ Refuse(r, u)
             \/ \E filter \in Filters : FindAll(r, u, filter)
             \/ \E l \in Refs : FindOne(r, u, l)
    BY <2>3, ReadsAreSilent
  <2>4. CASE \E l \in Refs : \/ \E payload \in Payloads : Call(r, "update", u, l, payload)
                             \/ Call(r, "remove", u, l, Idle.payload)
    BY <2>4, CallIsSilent
  <2> QED BY <2>1, <2>2, <2>3, <2>4
<1>4. ASSUME NEW r \in Slots, Handle(r)
      PROVE  /\ SeedsAsShipped' /\ DetachedByDeletion' /\ FreshViews'
             /\ [Store!Next]_(Store!vars)
  <2>1. CASE LoadOwned(r)
    BY <2>1, LoadOwnedIsSilent
  <2>2. CASE SaveSelect(r)
    BY <2>2, SaveSelectIsSilent
  <2>3. CASE SaveUpdate(r)
    BY <2>3, SaveUpdateRevises DEF Store!Next
  <2>4. CASE Remove(r)
    BY <2>4, RemoveWithdraws DEF Store!Next
  <2> QED BY <1>4, <2>1, <2>2, <2>3, <2>4, SaveInsertIsDisabled DEF Handle
<1>5. CASE \E u \in Users : Register(u) \/ DeleteAccount(u)
  BY <1>1, <1>5, RegisterJoins, DeleteAccountLeaves DEF Store!Next, SerialInv
<1>6. CASE Boot
  BY <1>1, <1>6, BootSeeds DEF Store!Next, SerialInv
<1>7. CASE (\E r \in Slots : Deliver(r)) \/ Crash \/ UNCHANGED vars
  BY <1>1, <1>7, DeliverCrashSilent DEF SerialInv
<1> QED BY <1>1, <1>2, <1>3, <1>4, <1>5, <1>6, <1>7 DEF Next, SerialInv

\* The initial states map to initial states.
LEMMA SerialInit == Init => SerialInv /\ Store!Init
<1> SUFFICES ASSUME Init PROVE SerialInv /\ Store!Init
  OBVIOUS
<1>1. \A r \in Slots : req[r].pc = "idle" /\ req[r].op = "none" /\ req[r].target = NoRef
  BY DEF Init, Idle
<1> QED
  BY <1>1 DEF Init, SerialInv, OneWriterPerListing, SeedsAsShipped, DetachedByDeletion,
     FreshViews, FreshView, Refs, Store!Init, Store!Refs

\* While no two writes to a listing overlap, the handlers' three queries are
\* the one step of the store: no lost column, no resurrection, no INSERT by
\* save(), whatever crashes and account deletions come between them.
THEOREM SerialRefinement == SerialSpec => ImplementsStore
<1>1. [SerialNext]_vars => [Next]_vars
  BY DEF SerialNext
<1>2. IInv /\ SerialInv /\ [SerialNext]_vars => SerialInv' /\ [Store!Next]_(Store!vars)
  BY SerialStep
<1> QED
  BY <1>1, <1>2, InitInv, NextKeepsInv, SerialInit, PTL
  DEF SerialSpec, ImplementsStore, Store!Spec

\* Only its own save() takes a request from its SELECT to its answer.
LEMMA WrittenBySave ==
  ASSUME IInv, [Next]_vars, NEW r \in Slots, req[r].pc = "write", req'[r].pc = "done"
  PROVE  SaveInsert(r) \/ SaveUpdate(r)
<1>1. req \in [Slots -> RequestRec] /\ Idle.pc = "idle"
  BY DEF IInv, TypeOK, Idle
<1>2. ASSUME NEW s \in Slots, Request(s)
      PROVE  FALSE
  <2>1. req[s].pc = "idle"
    BY <1>2 DEF Request, Refuse, FindAll, FindOne, Create, Call, Arrives
  <2>2. \E q : req' = [req EXCEPT ![s] = q]
    BY <1>2 DEF Request, Refuse, FindAll, FindOne, Create, Call, Finish
  <2> QED BY <1>1, <2>1, <2>2
<1>3. ASSUME NEW s \in Slots, Handle(s)
      PROVE  s = r /\ (SaveInsert(s) \/ SaveUpdate(s))
  <2>1. \A z \in Slots \ {s} : req'[z] = req[z]
    BY <1>1, <1>3
    DEF Handle, LoadOwned, SaveSelect, SaveInsert, SaveUpdate, Remove, Finish
  <2>2. s = r
    BY <2>1
  <2> QED BY <1>3, <2>2 DEF Handle, LoadOwned, SaveSelect, Remove
<1>4. ASSUME NEW s \in Slots, Deliver(s)
      PROVE  FALSE
  BY <1>1, <1>4 DEF Deliver
<1>5. CASE (\E u \in Users : Register(u) \/ DeleteAccount(u)) \/ Boot \/ Crash
           \/ UNCHANGED vars
  BY <1>1, <1>5 DEF Register, DeleteAccount, Boot, Crash, vars
<1> QED BY <1>2, <1>3, <1>4, <1>5 DEF Next

\* Hence, without overlapping writes, what properties.e2e.spec.ts says of a
\* DELETE holds: the listing is gone for good.
THEOREM SerialDeleteIsFinal == SerialSpec => DeletedStaysDeleted
<1> DEFINE Final == \A l \in UserRefs :
             creator[l] # NoUser /\ table[l] = Absent => table'[l] = Absent
<1>1. IInv /\ SerialInv /\ [SerialNext]_vars => SerialInv' /\ [Final]_vars
  <2> SUFFICES ASSUME IInv, SerialInv, [SerialNext]_vars, NEW l \in UserRefs,
                      creator[l] # NoUser, table[l] = Absent, table'[l] # Absent
               PROVE  FALSE
    BY SerialStep
  <2>1. [Next]_vars /\ l \in Refs /\ l \notin SeedRefs
    BY InputsAssumption DEF SerialNext, Refs
  <2>2. PICK r \in Slots :
          /\ SaveInsert(r) \/ SaveUpdate(r) \/ Remove(r)
          /\ req[r].target = l
    BY <2>1, RowChanges
  <2>3. ~SaveInsert(r)
    BY SaveInsertIsDisabled
  <2>4. table \in [Refs -> Row \cup {Absent}]
    BY DEF IInv, TypeOK
  <2> QED BY <2>1, <2>2, <2>3, <2>4 DEF SaveUpdate, Remove
<1>2. [SerialNext]_vars => [Next]_vars
  BY DEF SerialNext
<1> QED
  BY <1>1, <1>2, InitInv, NextKeepsInv, SerialInit, PTL
  DEF SerialSpec, DeletedStaysDeleted

\* And so does the comment above PropertiesService.update: a partial payload
\* never clobbers a column it does not name.
THEOREM SerialPatchIsPartial == SerialSpec => PartialPatchKeepsOthers
<1> DEFINE Partial == \A r \in Slots :
             LET l == req[r].target IN
             req[r].pc = "write" /\ req'[r].pc = "done" /\ table[l] # Absent =>
               \A f \in Fields : req[r].payload[f] = Undefined =>
                 table'[l].attrs[f] = table[l].attrs[f]
<1>1. IInv /\ SerialInv /\ [SerialNext]_vars => SerialInv' /\ [Partial]_vars
  <2> SUFFICES ASSUME IInv, SerialInv, [SerialNext]_vars, NEW r \in Slots,
                      req[r].pc = "write", req'[r].pc = "done",
                      table[req[r].target] # Absent,
                      NEW f \in Fields, req[r].payload[f] = Undefined
               PROVE  table'[req[r].target].attrs[f] = table[req[r].target].attrs[f]
    BY SerialStep
  <2> DEFINE l == req[r].target
  <2>1. [Next]_vars /\ l \in Refs /\ table[l] \in Row
        /\ table \in [Refs -> Row \cup {Absent}]
    BY DEF SerialNext, IInv, HandlerInv, TypeOK
  <2>2. SaveUpdate(r)
    BY <2>1, WrittenBySave, SaveInsertIsDisabled
  <2>3. CASE UNCHANGED Store!vars
    BY <2>3 DEF Store!vars
  <2>4. CASE Store!Revise(l, req[r].payload)
    BY <2>1, <2>4 DEF Store!Revise, Row
  <2> QED BY <2>2, <2>3, <2>4, SaveUpdateRevises
<1>2. [SerialNext]_vars => [Next]_vars
  BY DEF SerialNext
<1> QED
  BY <1>1, <1>2, InitInv, NextKeepsInv, SerialInit, PTL
  DEF SerialSpec, PartialPatchKeepsOthers
=============================================================================
