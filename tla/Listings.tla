------------------------------ MODULE Listings ------------------------------
(***************************************************************************)
(* The listings API of apps/api: GET, POST, PATCH and DELETE on            *)
(* /api/properties, each handler split where it awaits the database, the   *)
(* boot sequence that seeds the table, a crash of the API process, and the *)
(* deletion of an account by an operator.                                  *)
(*                                                                         *)
(* The handlers run concurrently on Node's event loop and open no          *)
(* transaction that spans two of their queries.  PATCH takes three of      *)
(* them: the ownership SELECT, then the SELECT and the INSERT or UPDATE    *)
(* that TypeORM's save() issues.  DELETE takes two.                        *)
(*                                                                         *)
(* A listing is named by its externalRef, which is in bijection with its   *)
(* id.  Its columns are the function attrs from Fields to Values.          *)
(***************************************************************************)
EXTENDS Naturals, FiniteSets

CONSTANTS
  Users,       \* ids of accounts
  NoUser,      \* a request without a valid session; SQL NULL in ownerId
  SeedRefs,    \* externalRefs of the listings in database/seed.ts
  UserRefs,    \* externalRefs `user-<uuid>`; bounds the listings ever created
  NoRef,       \* the target of a slot that has none
  Fields,      \* the editable columns
  Nullable,    \* the columns without NOT NULL (features)
  Values,      \* values of a column
  Null,        \* SQL NULL, JSON null
  Undefined,   \* a key the PATCH body does not have
  Payloads,    \* the PATCH bodies clients send
  SeedAttrs,   \* the columns of the seed listings
  Filters,     \* the sets of column values a search form can ask for
  Absent,      \* no row
  Slots        \* bounds the requests in flight

Refs == SeedRefs \cup UserRefs

\* What the NOT NULL constraints of the table admit.
Attrs == {a \in [Fields -> Values \cup {Null}] :
            \A f \in Fields \ Nullable : a[f] # Null}

Patches == [Fields -> Values \cup {Null, Undefined}]

Row == [owner : Users \cup {NoUser}, attrs : Attrs]

ASSUME SentinelsAssumption ==
  /\ NoUser \notin Users
  /\ NoRef \notin Refs
  /\ Null \notin Values
  /\ Undefined \notin Values \cup {Null}
  /\ Absent \notin [owner : Users \cup {NoUser}, attrs : [Fields -> Values \cup {Null}]]

ASSUME InputsAssumption ==
  /\ SeedRefs \cap UserRefs = {}
  /\ Nullable \subseteq Fields
  /\ Payloads \subseteq Patches
  /\ SeedAttrs \in [SeedRefs -> Attrs]

VARIABLES
  table,    \* the properties table: a row or Absent for each externalRef
  account,  \* the users table: "none", "live" or "deleted" for each user
  api,      \* the API process: "down" or "up"
  req,      \* the requests in flight, one per slot
  creator   \* history: the user whose POST created a listing, else NoUser

vars == <<table, account, api, req, creator>>

-----------------------------------------------------------------------------
(* Requests and replies. *)

NoReply == [status |-> 0, shown |-> {}, own |-> {}]

Idle ==
  [pc |-> "idle", op |-> "none", who |-> NoUser, target |-> NoRef,
   payload |-> [f \in Fields |-> Undefined],
   entity |-> Absent, found |-> Absent, reply |-> NoReply]

Status(s) == [NoReply EXCEPT !.status = s]

\* A handler returned or threw: its locals are gone, its reply is on the wire.
Finish(r, user, reply) ==
  req' = [req EXCEPT ![r] =
            [Idle EXCEPT !.pc = "done", !.who = user, !.reply = reply]]

\* A session outlives its account: JwtStrategy.validate looks nothing up.
Requester(u) == u \in {NoUser} \cup {x \in Users : account[x] # "none"}

Arrives(r, u) == api = "up" /\ req[r].pc = "idle" /\ Requester(u)

\* Mutant: a null user id equals a null ownerId.
AnonymousIsOwn(row, u) == row.owner = u

IsOwn(row, u) == u # NoUser /\ row.owner = u

\* The listings ls as user u is shown them.
ToResponse(status, ls, u) ==
  [status |-> status, shown |-> ls, own |-> {l \in ls : IsOwn(table[l], u)}]

\* The foreign key of ownerId.
OwnerExists(owner) ==
  owner \in {NoUser} \cup {x \in Users : account[x] = "live"}

-----------------------------------------------------------------------------
(* Reads. *)

FindOne(r, u, l) ==
  /\ Arrives(r, u)
  /\ Finish(r, u, IF table[l] = Absent THEN Status(404)
                                       ELSE ToResponse(200, {l}, u))
  /\ UNCHANGED <<table, account, api, creator>>

FindAll(r, u, filter) ==
  /\ Arrives(r, u)
  /\ LET items == {l \in Refs : table[l] # Absent /\ table[l].attrs \in filter}
     IN  Finish(r, u, ToResponse(200, items, u))
  /\ UNCHANGED <<table, account, api, creator>>

\* The guard, or after it the validation pipes, reject a request.
Refuse(r, u) ==
  /\ Arrives(r, u)
  /\ Finish(r, u, Status(IF u = NoUser THEN 401 ELSE 400))
  /\ UNCHANGED <<table, account, api, creator>>

-----------------------------------------------------------------------------
(* POST: one INSERT under a fresh externalRef. *)

\* Mutant: the externalRef is not fresh, only absent from the table.
ReusedRefCreate(r, u, l, attrs) ==
  /\ Arrives(r, u)
  /\ u # NoUser /\ OwnerExists(u)
  /\ l \in UserRefs /\ table[l] = Absent
  /\ table' = [table EXCEPT ![l] = [owner |-> u, attrs |-> attrs]]
  /\ creator' = [creator EXCEPT ![l] = u]
  /\ Finish(r, u, [status |-> 201, shown |-> {l}, own |-> {l}])
  /\ UNCHANGED <<account, api>>

Create(r, u, l, attrs) ==
  /\ Arrives(r, u)
  /\ u # NoUser
  /\ l \in UserRefs /\ creator[l] = NoUser
  /\ \/ /\ OwnerExists(u)
        /\ table' = [table EXCEPT ![l] = [owner |-> u, attrs |-> attrs]]
        /\ creator' = [creator EXCEPT ![l] = u]
        /\ Finish(r, u, [status |-> 201, shown |-> {l}, own |-> {l}])
     \/ /\ ~OwnerExists(u)
        /\ Finish(r, u, Status(500))
        /\ UNCHANGED <<table, creator>>
  /\ UNCHANGED <<account, api>>

-----------------------------------------------------------------------------
(* PATCH and DELETE. *)

Call(r, op, u, l, payload) ==
  /\ Arrives(r, u)
  /\ u # NoUser
  /\ req' = [req EXCEPT ![r] =
               [Idle EXCEPT !.pc = "load", !.op = op, !.who = u,
                            !.target = l, !.payload = payload]]
  /\ UNCHANGED <<table, account, api, creator>>

\* Mutant: the keys a body does not have are cleared.
ClobberingMerged(row, payload) ==
  [row EXCEPT !.attrs = [f \in Fields |->
     IF payload[f] = Undefined THEN Null ELSE payload[f]]]

\* Mutant: the undefined fields are assigned too.
UnfilteredMerged(row, payload) == [row EXCEPT !.attrs = payload]

\* Object.assign of the fields of the body that are not undefined.
Merged(row, payload) ==
  [row EXCEPT !.attrs = [f \in Fields |->
     IF payload[f] = Undefined THEN row.attrs[f] ELSE payload[f]]]

\* Mutant: the owner is compared only where there is one.
LenientLoadOwned(r) ==
  LET q == req[r] row == table[q.target]
  IN
  /\ q.pc = "load"
  /\ \/ row = Absent /\ Finish(r, q.who, Status(404))
     \/ row # Absent /\ row.owner \notin {q.who, NoUser} /\ Finish(r, q.who, Status(403))
     \/ /\ row # Absent /\ row.owner \in {q.who, NoUser}
        /\ req' = [req EXCEPT
             ![r].pc = IF q.op = "update" THEN "select" ELSE "delete",
             ![r].entity = Merged(row, q.payload)]
  /\ UNCHANGED <<table, account, api, creator>>

\* Mutant: nobody compares the owner.
OpenLoadOwned(r) ==
  LET q == req[r] row == table[q.target]
  IN
  /\ q.pc = "load"
  /\ \/ row = Absent /\ Finish(r, q.who, Status(404))
     \/ /\ row # Absent
        /\ req' = [req EXCEPT
             ![r].pc = IF q.op = "update" THEN "select" ELSE "delete",
             ![r].entity = Merged(row, q.payload)]
  /\ UNCHANGED <<table, account, api, creator>>

\* Mutant: a missing row throws nothing.
SilentLoadOwned(r) ==
  LET q == req[r] row == table[q.target]
  IN
  /\ q.pc = "load" /\ row # Absent
  /\ \/ row.owner # q.who /\ Finish(r, q.who, Status(403))
     \/ /\ row.owner = q.who
        /\ req' = [req EXCEPT
             ![r].pc = IF q.op = "update" THEN "select" ELSE "delete",
             ![r].entity = Merged(row, q.payload)]
  /\ UNCHANGED <<table, account, api, creator>>

\* loadOwnedProperty, and what the handler does before its next await.
LoadOwned(r) ==
  LET q == req[r] row == table[q.target]
  IN
  /\ q.pc = "load"
  /\ \/ row = Absent /\ Finish(r, q.who, Status(404))
     \/ row # Absent /\ row.owner # q.who /\ Finish(r, q.who, Status(403))
     \/ /\ row # Absent /\ row.owner = q.who
        /\ req' = [req EXCEPT
             ![r].pc = IF q.op = "update" THEN "select" ELSE "delete",
             ![r].entity = Merged(row, q.payload)]
  /\ UNCHANGED <<table, account, api, creator>>

\* save() first reads the row again by id.
SaveSelect(r) ==
  /\ req[r].pc = "select"
  /\ req' = [req EXCEPT ![r].pc = "write", ![r].found = table[req[r].target]]
  /\ UNCHANGED <<table, account, api, creator>>

\* The columns save() found to differ between its argument and that row.
Changed(q) == {f \in Fields : q.entity.attrs[f] # q.found.attrs[f]}

OwnerChanged(q) == q.entity.owner # q.found.owner

\* The row after UPDATE ... SET of the changed columns.
Updated(row, q) ==
  [owner |-> IF OwnerChanged(q) THEN q.entity.owner ELSE row.owner,
   attrs |-> [f \in Fields |-> IF f \in Changed(q) THEN q.entity.attrs[f]
                                                   ELSE row.attrs[f]]]

\* save() found no row and inserts one; a primary key already there, a
\* missing owner and a NULL in a NOT NULL column are errors, hence 500.
SaveInsert(r) ==
  LET q == req[r]
  IN
  /\ q.pc = "write" /\ q.found = Absent
  /\ \/ /\ table[q.target] = Absent
        /\ OwnerExists(q.entity.owner) /\ q.entity.attrs \in Attrs
        /\ table' = [table EXCEPT ![q.target] = q.entity]
        /\ Finish(r, q.who, [status |-> 200, shown |-> {q.target}, own |-> {q.target}])
     \/ /\ \/ table[q.target] # Absent
           \/ ~OwnerExists(q.entity.owner)
           \/ q.entity.attrs \notin Attrs
        /\ Finish(r, q.who, Status(500))
        /\ UNCHANGED table
  /\ UNCHANGED <<account, api, creator>>

\* save() found the row and updates the changed columns.  An UPDATE that
\* matches no row any more is no error.
SaveUpdate(r) ==
  LET q == req[r]
      row == table[q.target]
      ok == /\ OwnerChanged(q) => OwnerExists(q.entity.owner)
            /\ \A f \in Changed(q) \ Nullable : q.entity.attrs[f] # Null
  IN
  /\ q.pc = "write" /\ q.found # Absent
  /\ \/ /\ row # Absent /\ ok
        /\ table' = [table EXCEPT ![q.target] = Updated(row, q)]
        /\ Finish(r, q.who, [status |-> 200, shown |-> {q.target}, own |-> {q.target}])
     \/ /\ row = Absent
        /\ Finish(r, q.who, [status |-> 200, shown |-> {q.target}, own |-> {q.target}])
        /\ UNCHANGED table
     \/ /\ row # Absent /\ ~ok
        /\ Finish(r, q.who, Status(500))
        /\ UNCHANGED table
  /\ UNCHANGED <<account, api, creator>>

\* remove() deletes by id, whether or not the row is still there.
Remove(r) ==
  /\ req[r].pc = "delete"
  /\ table' = [table EXCEPT ![req[r].target] = Absent]
  /\ Finish(r, req[r].who, Status(204))
  /\ UNCHANGED <<account, api, creator>>

-----------------------------------------------------------------------------
(* The process, the clients and the operator. *)

\* The client has the reply; the slot takes another request.
Deliver(r) ==
  /\ req[r].pc = "done"
  /\ req' = [req EXCEPT ![r] = Idle]
  /\ UNCHANGED <<table, account, api, creator>>

\* The container's command: migrate, seed, listen.
Boot ==
  /\ api = "down"
  /\ api' = "up"
  /\ table' = [l \in Refs |->
       IF l \in SeedRefs /\ table[l] = Absent
         THEN [owner |-> NoUser, attrs |-> SeedAttrs[l]]
         ELSE table[l]]
  /\ UNCHANGED <<account, req, creator>>

\* The process exits: requests in flight are never answered.
Crash ==
  /\ api = "up"
  /\ api' = "down"
  /\ req' = [r \in Slots |-> Idle]
  /\ UNCHANGED <<table, account, creator>>

Register(u) ==
  /\ api = "up" /\ account[u] = "none"
  /\ account' = [account EXCEPT ![u] = "live"]
  /\ UNCHANGED <<table, api, req, creator>>

\* Mutant: the foreign key takes no action.
DanglingDeleteAccount(u) ==
  /\ account[u] = "live"
  /\ account' = [account EXCEPT ![u] = "deleted"]
  /\ UNCHANGED <<table, api, req, creator>>

\* ON DELETE SET NULL; no endpoint deletes an account, an operator may.
DeleteAccount(u) ==
  /\ account[u] = "live"
  /\ account' = [account EXCEPT ![u] = "deleted"]
  /\ table' = [l \in Refs |->
       IF table[l] # Absent /\ table[l].owner = u
         THEN [table[l] EXCEPT !.owner = NoUser] ELSE table[l]]
  /\ UNCHANGED <<api, req, creator>>

-----------------------------------------------------------------------------

Init ==
  /\ table = [l \in Refs |-> Absent]
  /\ account = [u \in Users |-> "none"]
  /\ api = "down"
  /\ req = [r \in Slots |-> Idle]
  /\ creator = [l \in Refs |-> NoUser]

Handle(r) ==
  LoadOwned(r) \/ SaveSelect(r) \/ SaveInsert(r) \/ SaveUpdate(r) \/ Remove(r)

Request(r) ==
  \E u \in Users \cup {NoUser} :
    \/ Refuse(r, u)
    \/ \E filter \in Filters : FindAll(r, u, filter)
    \/ \E l \in Refs :
         \/ FindOne(r, u, l)
         \/ \E attrs \in [Fields -> Values] : Create(r, u, l, attrs)
         \/ \E payload \in Payloads : Call(r, "update", u, l, payload)
         \/ Call(r, "remove", u, l, Idle.payload)

Next ==
  \/ \E r \in Slots : Request(r) \/ Handle(r) \/ Deliver(r)
  \/ \E u \in Users : Register(u) \/ DeleteAccount(u)
  \/ Boot
  \/ Crash

Spec == Init /\ [][Next]_vars

\* Node runs every ready continuation, the database answers every query and
\* the container is restarted; clients, operators and crashes owe nothing.
Fairness ==
  /\ \A r \in Slots : WF_vars(Handle(r)) /\ WF_vars(Deliver(r))
  /\ WF_vars(Boot)

FairSpec == Spec /\ Fairness

-----------------------------------------------------------------------------
(* Properties. *)

Entity == [owner : Users \cup {NoUser}, attrs : [Fields -> Values \cup {Null}]]

Reply == [status : {0, 200, 201, 204, 400, 401, 403, 404, 500},
          shown : SUBSET Refs, own : SUBSET Refs]

RequestRec ==
  [pc : {"idle", "load", "select", "write", "delete", "done"},
   op : {"none", "update", "remove"}, who : Users \cup {NoUser},
   target : Refs \cup {NoRef}, payload : Patches,
   entity : Entity \cup {Absent}, found : Row \cup {Absent}, reply : Reply]

\* The type invariant: in particular no row breaks a NOT NULL constraint.
TypeOK ==
  /\ table \in [Refs -> Row \cup {Absent}]
  /\ account \in [Users -> {"none", "live", "deleted"}]
  /\ api \in {"down", "up"}
  /\ req \in [Slots -> RequestRec]
  /\ creator \in [Refs -> Users \cup {NoUser}]

\* A listing belongs to the account that published it, as long as that
\* account exists, and to nobody otherwise: no interleaving of PATCH, DELETE
\* and account deletion transfers a listing, leaves it with a deleted owner or
\* gives a seed listing one.
OwnerIsCreator ==
  \A l \in Refs : table[l] # Absent =>
    /\ table[l].owner \in {creator[l], NoUser}
    /\ OwnerExists(table[l].owner)

\* A reply flags a listing isOwn only to the user who published it: never to
\* an anonymous request, never on a seed listing, whose owner is null too.
OwnFlagSound ==
  \A r \in Slots : \A l \in req[r].reply.own :
    req[r].who # NoUser /\ creator[l] = req[r].who

\* Only a request of the user who published a listing, past the ownership
\* check, changes its columns or deletes it; an account deletion only detaches.
OnlyOwnerWrites ==
  [][\A l \in Refs : table[l] # Absent /\ table'[l] # table[l] =>
       \/ table'[l] = [table[l] EXCEPT !.owner = NoUser]
       \/ \E r \in Slots :
            /\ req[r].pc \in {"write", "delete"} /\ req'[r].pc = "done"
            /\ req[r].target = l
            /\ req[r].who # NoUser /\ req[r].who = creator[l]]_vars

\* Once seeded, a seed listing is there for good and never changes, whatever
\* clients send and however often the container reboots and seeds again.
SeedRowsFixed ==
  [][\A l \in SeedRefs : table[l] # Absent => table'[l] = table[l]]_vars

\* A deleted listing comes back only if its owner's own PATCH had passed the
\* ownership check before the deletion and had not yet been answered.
ReturnsOnlyByEarlierPatch ==
  [][\A l \in UserRefs :
       creator[l] # NoUser /\ table[l] = Absent /\ table'[l] # Absent =>
         \E r \in Slots : /\ req[r].target = l /\ req[r].who = creator[l]
                          /\ req[r].op = "update" /\ req[r].found = Absent
                          /\ req[r].entity # Absent]_vars

\* Every request is answered or dies with the process: no error path of a
\* handler forgets to reply.
EveryRequestEnds ==
  \A r \in Slots : req[r].pc # "idle" ~> req[r].pc = "idle"

\* What the comment above PropertiesService.update says: a partial payload
\* never clobbers columns it does not name.
PartialPatchKeepsOthers ==
  [][\A r \in Slots :
       LET l == req[r].target IN
       req[r].pc = "write" /\ req'[r].pc = "done" /\ table[l] # Absent =>
         \A f \in Fields : req[r].payload[f] = Undefined =>
           table'[l].attrs[f] = table[l].attrs[f]]_vars

\* What properties.e2e.spec.ts says of DELETE: 204, then 404 for good.
DeletedStaysDeleted ==
  [][\A l \in UserRefs :
       creator[l] # NoUser /\ table[l] = Absent => table'[l] = Absent]_vars
=============================================================================
