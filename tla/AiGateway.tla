----------------------------- MODULE AiGateway -----------------------------
(***************************************************************************)
(* The three AI endpoints of apps/api: ask about a listing, generate the   *)
(* copy of one, and rank the recent listings against a query.  Each passes *)
(* JwtAuthGuard, the per-user throttler and the validation pipes, reads    *)
(* the listings it needs, and then waits for the model or for a timer.     *)
(* The listings may change, and the process may restart, meanwhile.        *)
(*                                                                         *)
(* Listings are numbered in the order of their createdAt.  Of their        *)
(* columns only features matters here: it is the one that may be NULL.     *)
(***************************************************************************)
EXTENDS Naturals, Sequences, FiniteSets

CONSTANTS
  Users,
  NoUser,          \* a request without a valid session
  Ip,              \* the address all requests come from
  MaxListings,     \* bounds the listings ever published
  Slots,           \* bounds the requests in flight
  Limit,           \* AI_RATE_LIMIT_LIMIT
  CandidateLimit,  \* CANDIDATE_LIMIT
  MaxMatches,      \* MAX_MATCHES
  MaxAnswer        \* bounds the matches the model returns

ASSUME UsersAssumption == NoUser \notin Users /\ Ip \notin Users

ASSUME BoundsAssumption ==
  {MaxListings, Limit, CandidateLimit, MaxMatches, MaxAnswer} \subseteq Nat \ {0}

Ids == 1 .. MaxListings

Nowhere == 0  \* an id of no listing: what the model may invent

Ops == {"ask", "generate", "search"}

\* What the model may rank: the schema admits any strings as ids.
Answers == UNION {[1 .. n -> Ids \cup {Nowhere}] : n \in 0 .. MaxAnswer}

VARIABLES
  features,   \* the properties table: "none" (no row), "null" or "tags"
  published,  \* the number of listings published so far
  hits,       \* the throttler's counts, by tracker and endpoint
  admitted,   \* history: the requests of each user that used the quota since
  req         \* the requests in flight, one per slot

vars == <<features, published, hits, admitted, req>>

-----------------------------------------------------------------------------
(* Helpers. *)

Idle == [pc |-> "idle", op |-> "none", who |-> NoUser, target |-> Nowhere,
         read |-> {}, answer |-> <<>>, status |-> 0, shown |-> <<>>]

Rows == {l \in Ids : features[l] # "none"}

\* ORDER BY createdAt DESC LIMIT CANDIDATE_LIMIT.
FindRecent ==
  {l \in Rows : Cardinality({m \in Rows : m > l}) < CandidateLimit}

\* Mutant: the stock guard, which counts by address.
AddressTracker(u) == Ip

Tracker(u) == IF u \in Users THEN u ELSE Ip

Min(a, b) == IF a < b THEN a ELSE b

\* Mutant: the ids of the model are trusted.
TrustingMatches(answer, candidates) == SubSeq(answer, 1, Min(MaxMatches, Len(answer)))

\* The matches among the first n ids of an answer that are candidates, for
\* each n: the array filter, written so that it can be proved about.
Filtered(answer, candidates) ==
  LET kept[n \in 0 .. Len(answer)] ==
        IF n = 0 THEN <<>>
        ELSE IF answer[n] \in candidates THEN Append(kept[n - 1], answer[n])
        ELSE kept[n - 1]
  IN  kept

\* Mutant: cut first, then drop the ids that are not candidates.
CutFirstMatches(answer, candidates) ==
  LET best == SubSeq(answer, 1, Min(MaxMatches, Len(answer)))
  IN  Filtered(best, candidates)[Len(best)]

\* What a search shows of the model's ranking.
Matches(answer, candidates) ==
  LET known == Filtered(answer, candidates)[Len(answer)]
  IN  SubSeq(known, 1, Min(MaxMatches, Len(known)))

Answer(r, status, shown) ==
  req' = [req EXCEPT ![r].pc = "done", ![r].status = status, ![r].shown = shown]

-----------------------------------------------------------------------------
(* The guards and the pipes: one step, nothing in them waits for the       *)
(* database.                                                               *)

New(op, u, target) == [Idle EXCEPT !.op = op, !.who = u, !.target = target]

Reject(r, op, u, target, status) ==
  req' = [req EXCEPT ![r] = [New(op, u, target) EXCEPT !.pc = "done", !.status = status]]

\* JwtAuthGuard comes before the throttler: nothing is counted.
Unauthorized(r, op, target) ==
  /\ req[r].pc = "idle"
  /\ Reject(r, op, NoUser, target, 401)
  /\ UNCHANGED <<features, published, hits, admitted>>

Throttled(r, op, u, target) ==
  /\ req[r].pc = "idle"
  /\ hits[Tracker(u)][op] = Limit
  /\ Reject(r, op, u, target, 429)
  /\ UNCHANGED <<features, published, hits, admitted>>

\* A body the pipes reject has used the quota already.  The prompt of
\* generate is built from the body alone, so its model call starts at once.
Admit(r, op, u, target) ==
  /\ req[r].pc = "idle"
  /\ hits[Tracker(u)][op] < Limit
  /\ hits' = [hits EXCEPT ![Tracker(u)][op] = @ + 1]
  /\ admitted' = [admitted EXCEPT ![u][op] = @ + 1]
  /\ \/ Reject(r, op, u, target, 400)
     \/ req' = [req EXCEPT ![r] = [New(op, u, target) EXCEPT
                  !.pc = IF op = "generate" THEN "model" ELSE "load"]]
  /\ UNCHANGED <<features, published>>

-----------------------------------------------------------------------------
(* The handlers. *)

\* A prompt joins the features of every listing in it: a NULL throws.
PromptThrows(listings) == \E l \in listings : features[l] = "null"

\* The prompt is built outside the try block of generateSafely; then the model
\* is called.
Invoke(r, listings) ==
  req' = [req EXCEPT ![r].read = listings,
                     ![r].pc = IF PromptThrows(listings) THEN "done" ELSE "model",
                     ![r].status = IF PromptThrows(listings) THEN 500 ELSE 0]

\* The listings are read, or the database fails.
Load(r) ==
  /\ req[r].pc = "load"
  /\ \/ req[r].op = "ask" /\ req[r].target \notin Rows /\ Answer(r, 404, <<>>)
     \/ req[r].op = "ask" /\ req[r].target \in Rows /\ Invoke(r, {req[r].target})
     \/ req[r].op = "search" /\ Invoke(r, FindRecent)
     \/ Answer(r, 500, <<>>)
  /\ UNCHANGED <<features, published, hits, admitted>>

\* The model answers within the schema.
ModelAnswers(r, answer) ==
  /\ req[r].pc = "model"
  /\ req[r].op = "search" \/ answer = <<>>
  /\ req' = [req EXCEPT ![r].pc = "done", ![r].status = 200, ![r].answer = answer,
                        ![r].shown = Matches(answer, req[r].read)]
  /\ UNCHANGED <<features, published, hits, admitted>>

\* The provider fails, or answers outside the schema.
ModelFails(r) ==
  /\ req[r].pc = "model"
  /\ Answer(r, 503, <<>>)
  /\ UNCHANGED <<features, published, hits, admitted>>

\* Mutant: no timer of the service's own.
NoTimer(r) == FALSE /\ ModelFails(r)

\* raceAgainstTimeout: what the model says later finds the promise settled.
TimerFires(r) ==
  /\ req[r].pc = "model"
  /\ Answer(r, 503, <<>>)
  /\ UNCHANGED <<features, published, hits, admitted>>

Deliver(r) ==
  /\ req[r].pc = "done"
  /\ req' = [req EXCEPT ![r] = Idle]
  /\ UNCHANGED <<features, published, hits, admitted>>

-----------------------------------------------------------------------------
(* The rest of the system. *)

\* The throttler forgets the hits of one bucket.
WindowEnds(u, op) ==
  /\ hits' = [hits EXCEPT ![Tracker(u)][op] = 0]
  /\ admitted' = [v \in Users |-> IF Tracker(v) = Tracker(u)
                                    THEN [admitted[v] EXCEPT ![op] = 0]
                                    ELSE admitted[v]]
  /\ UNCHANGED <<features, published, req>>

NoHits == [k \in Users \cup {Ip} |-> [op \in Ops |-> 0]]
NoneAdmitted == [u \in Users |-> [op \in Ops |-> 0]]

\* The counts live in memory; requests in flight are lost.
Restart ==
  /\ hits' = NoHits
  /\ admitted' = NoneAdmitted
  /\ req' = [r \in Slots |-> Idle]
  /\ UNCHANGED <<features, published>>

\* POST validates features as an array; PATCH takes a null for it.
Publish ==
  /\ published < MaxListings
  /\ published' = published + 1
  /\ features' = [features EXCEPT ![published + 1] = "tags"]
  /\ UNCHANGED <<hits, admitted, req>>

Edit(l, value) ==
  /\ l \in Rows
  /\ features' = [features EXCEPT ![l] = value]
  /\ UNCHANGED <<published, hits, admitted, req>>

Remove(l) ==
  /\ l \in Rows
  /\ features' = [features EXCEPT ![l] = "none"]
  /\ UNCHANGED <<published, hits, admitted, req>>

-----------------------------------------------------------------------------

Init ==
  /\ features = [l \in Ids |-> "none"]
  /\ published = 0
  /\ hits = NoHits
  /\ admitted = NoneAdmitted
  /\ req = [r \in Slots |-> Idle]

Request(r) ==
  \E op \in Ops : \E target \in IF op = "ask" THEN Ids ELSE {Nowhere} :
    \/ Unauthorized(r, op, target)
    \/ \E u \in Users : Throttled(r, op, u, target) \/ Admit(r, op, u, target)

Handle(r) ==
  \/ Load(r)
  \/ \E answer \in Answers : ModelAnswers(r, answer)
  \/ ModelFails(r)
  \/ TimerFires(r)

Environment ==
  \/ \E u \in Users, op \in Ops : WindowEnds(u, op)
  \/ Restart
  \/ Publish
  \/ \E l \in Ids : Remove(l) \/ \E value \in {"null", "tags"} : Edit(l, value)

Next == (\E r \in Slots : Request(r) \/ Handle(r) \/ Deliver(r)) \/ Environment

Spec == Init /\ [][Next]_vars

\* The database answers or fails, and a timer that was set fires; nothing is
\* assumed of the model.
Fairness == \A r \in Slots : WF_vars(Load(r)) /\ WF_vars(TimerFires(r))

FairSpec == Spec /\ Fairness

-----------------------------------------------------------------------------
(* Properties. *)

\* Every variable has its type.
TypeOK ==
  /\ features \in [Ids -> {"none", "null", "tags"}]
  /\ published \in 0 .. MaxListings
  /\ hits \in [Users \cup {Ip} -> [Ops -> 0 .. Limit]]
  /\ admitted \in [Users -> [Ops -> 0 .. Limit]]
  /\ req \in [Slots -> [pc : {"idle", "load", "model", "done"}, op : Ops \cup {"none"},
                        who : Users \cup {NoUser}, target : Ids \cup {Nowhere},
                        read : SUBSET Ids, answer : Seq(Ids \cup {Nowhere}),
                        status : {0, 200, 400, 401, 404, 429, 500, 503},
                        shown : Seq(Ids)]]

Ranked(r) == req[r].op = "search" /\ req[r].status = 200

\* A search shows the first MAX_MATCHES of the candidates it read that the
\* model ranked, in the model's order: no invented id, and no invented id in
\* the way of a real one (SearchPropertiesController.search).
BestMatchesShown ==
  \A r \in Slots : Ranked(r) =>
    LET rank == {i \in 1 .. Len(req[r].answer) : req[r].answer[i] \in req[r].read}
        best == {i \in rank : Cardinality({j \in rank : j < i}) < MaxMatches}
    IN  /\ Len(req[r].shown) = Cardinality(best)
        /\ \A i \in best :
             req[r].shown[Cardinality({j \in best : j <= i})] = req[r].answer[i]

\* A user is told 429 only for the requests of their own that this endpoint
\* admitted in the window: users behind one address do not throttle each
\* other (UserThrottlerGuard.getTracker).
OwnTrafficOnly ==
  [][\A r \in Slots : req'[r].status = 429 /\ req[r].status # 429 =>
       admitted[req'[r].who][req'[r].op] = Limit]_vars

\* Every admitted request is answered, whatever the model does, unless the
\* process restarts (raceAgainstTimeout).
EveryRequestEnds ==
  \A r \in Slots : req[r].pc \in {"load", "model"} ~> req[r].pc \in {"done", "idle"}

\* README.md:254: a search fails with 503.  Once its candidates are read,
\* that is how it ends unless it succeeds.
SearchFailsWith503 ==
  \A r \in Slots : req[r].op = "search" /\ req[r].pc = "done" /\ req[r].read # {} =>
    req[r].status \in {200, 503}
=============================================================================
