-------------------------- MODULE AiGatewayProofs --------------------------
(***************************************************************************)
(* Proofs about AiGateway, for any users, limits, listings, answers of the *)
(* model and requests in flight: the throttler's count for a user is the   *)
(* number of that user's own admitted requests, so that nobody else's      *)
(* traffic can exhaust it; and a search shows the best known matches of    *)
(* the answer, by induction over the positions in it.                      *)
(***************************************************************************)
EXTENDS AiGateway, FiniteSetTheorems, WellFoundedInduction, TLAPS

\* The fields of a slot.
Fields == DOMAIN Idle

\* Slots hold records; counters are per user and endpoint.
Shape ==
  /\ req = [r \in Slots |-> req[r]]
  /\ \A r \in Slots : req[r] = [f \in Fields |-> req[r][f]]
  /\ hits \in [Users \cup {Ip} -> [Ops -> Nat]]
  /\ admitted \in [Users -> [Ops -> Nat]]

\* What is counted for a user is what the user sent.
Counted == \A u \in Users, op \in Ops : hits[u][op] = admitted[u][op]

IInv == Shape /\ Counted

LEMMA FieldNames ==
  Fields = {"pc", "op", "who", "target", "read", "answer", "status", "shown"}
BY DEF Fields, Idle

\* A slot that has just been filled.
LEMMA NewIsRecord ==
  ASSUME NEW op, NEW u, NEW target
  PROVE  /\ New(op, u, target) = [f \in Fields |-> New(op, u, target)[f]]
         /\ New(op, u, target).who = u /\ New(op, u, target).op = op
         /\ New(op, u, target).status = 0
BY FieldNames DEF New, Idle

\* Rewriting one slot keeps the others, and the shape.
LEMMA SlotStep ==
  ASSUME Shape, NEW r \in Slots, NEW q, q = [f \in Fields |-> q[f]],
         req' = [req EXCEPT ![r] = q]
  PROVE  /\ req'[r] = q
         /\ \A s \in Slots \ {r} : req'[s] = req[s]
         /\ req' = [s \in Slots |-> req'[s]]
         /\ \A s \in Slots : req'[s] = [f \in Fields |-> req'[s][f]]
<1>1. req' = [s \in Slots |-> IF s = r THEN q ELSE req[s]]
  BY DEF Shape
<1>2. req'[r] = q /\ \A s \in Slots \ {r} : req'[s] = req[s]
  BY <1>1
<1>3. req' = [s \in Slots |-> req'[s]]
  BY <1>1
<1>4. ASSUME NEW s \in Slots PROVE req'[s] = [f \in Fields |-> req'[s][f]]
  BY <1>2 DEF Shape
<1> QED BY <1>2, <1>3, <1>4

\* Rewriting one slot with another status than 429.
LEMMA QuietStep ==
  ASSUME Shape, NEW r \in Slots, NEW q, q = [f \in Fields |-> q[f]],
         req' = [req EXCEPT ![r] = q], q.status # 429
  PROVE  /\ req' = [s \in Slots |-> req'[s]]
         /\ \A s \in Slots : req'[s] = [f \in Fields |-> req'[s][f]]
         /\ \A s \in Slots : ~(req'[s].status = 429 /\ req[s].status # 429)
<1>1. /\ req'[r] = q
      /\ \A s \in Slots \ {r} : req'[s] = req[s]
      /\ req' = [s \in Slots |-> req'[s]]
      /\ \A s \in Slots : req'[s] = [f \in Fields |-> req'[s][f]]
  BY SlotStep
<1>2. ASSUME NEW s \in Slots, req'[s].status = 429, req[s].status # 429
      PROVE  FALSE
  BY <1>1, <1>2
<1> QED BY <1>1, <1>2

LEMMA IdleIsRecord == Idle = [f \in Fields |-> Idle[f]] /\ Idle.status = 0
BY FieldNames DEF Idle

\* An answer changes the status of one slot to the one it names.
LEMMA AnswerStep ==
  ASSUME Shape, NEW r \in Slots, NEW status, NEW shown, Answer(r, status, shown)
  PROVE  /\ req'[r].status = status
         /\ \A s \in Slots \ {r} : req'[s] = req[s]
         /\ req' = [s \in Slots |-> req'[s]]
         /\ \A s \in Slots : req'[s] = [f \in Fields |-> req'[s][f]]
<1> DEFINE q == [req[r] EXCEPT !.pc = "done", !.status = status, !.shown = shown]
<1>1. req' = [req EXCEPT ![r] = q]
  BY DEF Answer, Shape
<1>2. q = [f \in Fields |-> q[f]] /\ q.status = status
  BY FieldNames DEF Shape
<1> HIDE DEF q
<1> QED BY <1>1, <1>2, SlotStep

\* What a slot is rewritten to by a rejection.
LEMMA RejectStep ==
  ASSUME Shape, NEW r \in Slots, NEW op, NEW u, NEW target, NEW status,
         Reject(r, op, u, target, status)
  PROVE  /\ req'[r].status = status /\ req'[r].who = u /\ req'[r].op = op
         /\ \A s \in Slots \ {r} : req'[s] = req[s]
         /\ req' = [s \in Slots |-> req'[s]]
         /\ \A s \in Slots : req'[s] = [f \in Fields |-> req'[s][f]]
<1> DEFINE q == [New(op, u, target) EXCEPT !.pc = "done", !.status = status]
<1>1. req' = [req EXCEPT ![r] = q]
  BY DEF Reject
<1>2. /\ q = [f \in Fields |-> q[f]]
      /\ q.status = status /\ q.who = u /\ q.op = op
  BY FieldNames DEF New, Idle
<1> HIDE DEF q
<1> QED BY <1>1, <1>2, SlotStep

\* A prompt was built, or building it threw.
LEMMA InvokeStep ==
  ASSUME Shape, NEW r \in Slots, NEW listings, Invoke(r, listings)
  PROVE  \E z : /\ z = [f \in Fields |-> z[f]] /\ z.status # 429
                /\ req' = [req EXCEPT ![r] = z]
<1> DEFINE pc == IF PromptThrows(listings) THEN "done" ELSE "model"
           status == IF PromptThrows(listings) THEN 500 ELSE 0
           old == req[r]
           q == [old EXCEPT !.read = listings, !.pc = pc, !.status = status]
<1>1. old = [f \in Fields |-> old[f]]
  BY DEF Shape
<1>2. req' = [req EXCEPT ![r] = q]
  BY DEF Invoke, Shape
<1>3. status # 429
  OBVIOUS
<1> HIDE DEF pc, status, old
<1>4. q = [f \in Fields |-> q[f]]
  BY <1>1, FieldNames
<1>5. q.status = status
  BY <1>1, FieldNames
<1> HIDE DEF q
<1> QED BY <1>2, <1>3, <1>4, <1>5

\* The model answered: what it said is no 429.
LEMMA ModelStep ==
  ASSUME Shape, NEW r \in Slots, NEW answer, ModelAnswers(r, answer)
  PROVE  \E z : /\ z = [f \in Fields |-> z[f]] /\ z.status # 429
                /\ req' = [req EXCEPT ![r] = z]
<1> DEFINE shown == Matches(answer, req[r].read)
           old == req[r]
           q == [old EXCEPT !.pc = "done", !.status = 200, !.answer = answer,
                            !.shown = shown]
<1>1. old = [f \in Fields |-> old[f]]
  BY DEF Shape
<1>2. req' = [req EXCEPT ![r] = q]
  BY DEF ModelAnswers, Shape
<1> HIDE DEF shown, old
<1>3. q = [f \in Fields |-> q[f]]
  BY <1>1, FieldNames
<1>4. q.status = 200
  BY <1>1, FieldNames
<1>5. q.status # 429
  BY <1>4
<1> HIDE DEF q
<1> QED BY <1>2, <1>3, <1>5

\* Every step keeps the shape of the slots, and no step but the throttler's
\* answers 429.
LEMMA SlotsOfStep ==
  ASSUME IInv, [Next]_vars
  PROVE  /\ req' = [s \in Slots |-> req'[s]]
         /\ \A s \in Slots : req'[s] = [f \in Fields |-> req'[s][f]]
         /\ \A s \in Slots : req'[s].status = 429 /\ req[s].status # 429 =>
              /\ req'[s].who \in Users /\ req'[s].op \in Ops
              /\ hits[Tracker(req'[s].who)][req'[s].op] = Limit
              /\ UNCHANGED admitted
<1> DEFINE Good == /\ req' = [s \in Slots |-> req'[s]]
                   /\ \A s \in Slots : req'[s] = [f \in Fields |-> req'[s][f]]
           Told(s) == req'[s].status = 429 /\ req[s].status # 429
           Earned(s) == /\ req'[s].who \in Users /\ req'[s].op \in Ops
                        /\ hits[Tracker(req'[s].who)][req'[s].op] = Limit
                        /\ UNCHANGED admitted
<1> SUFFICES Good /\ \A s \in Slots : Told(s) => Earned(s)
  OBVIOUS
<1>0. Shape
  BY DEF IInv
<1>1. CASE UNCHANGED req
  BY <1>0, <1>1 DEF Shape
<1>2. ASSUME NEW r \in Slots, NEW op \in Ops, NEW target, Unauthorized(r, op, target)
      PROVE  Good /\ \A s \in Slots : Told(s) => Earned(s)
  BY <1>0, <1>2, RejectStep DEF Unauthorized
<1>3. ASSUME NEW r \in Slots, NEW op \in Ops, NEW target, NEW u \in Users,
             Throttled(r, op, u, target)
      PROVE  Good /\ \A s \in Slots : Told(s) => Earned(s)
  <2>1. /\ req'[r].who = u /\ req'[r].op = op
        /\ \A s \in Slots \ {r} : req'[s] = req[s] /\ Good
    BY <1>0, <1>3, RejectStep DEF Throttled
  <2>2. Good
    BY <1>0, <1>3, RejectStep DEF Throttled
  <2>3. Earned(r)
    BY <1>3, <2>1 DEF Throttled
  <2> QED BY <2>1, <2>2, <2>3
<1>4. ASSUME NEW r \in Slots, NEW op \in Ops, NEW target, NEW u \in Users,
             Admit(r, op, u, target)
      PROVE  Good /\ \A s \in Slots : Told(s) => Earned(s)
  <2>1. CASE Reject(r, op, u, target, 400)
    BY <1>0, <2>1, RejectStep
  <2>2. ASSUME req' = [req EXCEPT ![r] = [New(op, u, target) EXCEPT
                         !.pc = IF op = "generate" THEN "model" ELSE "load"]]
        PROVE  Good /\ \A s \in Slots : Told(s) => Earned(s)
    <3> DEFINE q == [New(op, u, target) EXCEPT
                       !.pc = IF op = "generate" THEN "model" ELSE "load"]
    <3>1. q = [f \in Fields |-> q[f]] /\ q.status = 0
      BY FieldNames DEF New, Idle
    <3>2. req' = [req EXCEPT ![r] = q]
      BY <2>2
    <3>3. q.status # 429
      BY <3>1
    <3> HIDE DEF q
    <3> QED BY <1>0, <3>1, <3>2, <3>3, QuietStep
  <2> QED BY <1>4, <2>1, <2>2 DEF Admit
<1>5. ASSUME NEW r \in Slots, Load(r)
      PROVE  Good /\ \A s \in Slots : Told(s) => Earned(s)
  <2>1. ASSUME NEW listings, Invoke(r, listings)
        PROVE  Good /\ \A s \in Slots : Told(s) => Earned(s)
    <3>1. PICK z : /\ z = [f \in Fields |-> z[f]] /\ z.status # 429
                   /\ req' = [req EXCEPT ![r] = z]
      BY <1>0, <2>1, InvokeStep
    <3>2. Good
      BY <1>0, <3>1, QuietStep
    <3>3. \A s \in Slots : ~(req'[s].status = 429 /\ req[s].status # 429)
      BY <1>0, <3>1, QuietStep
    <3> QED BY <3>2, <3>3
  <2>2. CASE Answer(r, 404, <<>>)
    BY <1>0, <2>2, AnswerStep
  <2>3. CASE Answer(r, 500, <<>>)
    BY <1>0, <2>3, AnswerStep
  <2> QED BY <1>5, <2>1, <2>2, <2>3 DEF Load
<1>6. ASSUME NEW r \in Slots, NEW answer, ModelAnswers(r, answer)
      PROVE  Good /\ \A s \in Slots : Told(s) => Earned(s)
  <2>1. PICK z : /\ z = [f \in Fields |-> z[f]] /\ z.status # 429
                 /\ req' = [req EXCEPT ![r] = z]
    BY <1>0, <1>6, ModelStep
  <2>2. Good
    BY <1>0, <2>1, QuietStep
  <2>3. \A s \in Slots : ~(req'[s].status = 429 /\ req[s].status # 429)
    BY <1>0, <2>1, QuietStep
  <2> QED BY <2>2, <2>3
<1>7. ASSUME NEW r \in Slots, ModelFails(r) \/ TimerFires(r)
      PROVE  Good /\ \A s \in Slots : Told(s) => Earned(s)
  BY <1>0, <1>7, AnswerStep DEF ModelFails, TimerFires
<1>8. ASSUME NEW r \in Slots, Deliver(r)
      PROVE  Good /\ \A s \in Slots : Told(s) => Earned(s)
  <2>1. Idle.status # 429
    BY IdleIsRecord
  <2> QED BY <1>0, <1>8, <2>1, IdleIsRecord, QuietStep DEF Deliver
<1>9. CASE Restart
  <2>1. Idle.status # 429
    BY IdleIsRecord
  <2>2. req' = [s \in Slots |-> Idle] /\ \A s \in Slots : req'[s] = Idle
    BY <1>9 DEF Restart
  <2> QED BY <2>1, <2>2, IdleIsRecord
<1>10. ASSUME Environment, ~Restart
       PROVE  UNCHANGED req
  BY <1>10 DEF Environment, WindowEnds, Publish, Edit, Remove
<1> QED BY <1>1, <1>2, <1>3, <1>4, <1>5, <1>6, <1>7, <1>8, <1>9, <1>10
        DEF Next, Request, Handle, vars

\* Every step counts for a user exactly the requests of that user.
LEMMA CountsOfStep ==
  ASSUME IInv, [Next]_vars
  PROVE  /\ hits' \in [Users \cup {Ip} -> [Ops -> Nat]]
         /\ admitted' \in [Users -> [Ops -> Nat]]
         /\ Counted'
<1> DEFINE Good == /\ hits' \in [Users \cup {Ip} -> [Ops -> Nat]]
                   /\ admitted' \in [Users -> [Ops -> Nat]]
                   /\ Counted'
<1> SUFFICES Good
  OBVIOUS
<1>1. CASE UNCHANGED <<hits, admitted>>
  BY <1>1 DEF IInv, Shape, Counted
<1>2. ASSUME NEW r \in Slots, NEW op \in Ops, NEW u \in Users, NEW target,
             Admit(r, op, u, target)
      PROVE  Good
  BY <1>2 DEF Admit, Tracker, IInv, Shape, Counted
<1>3. ASSUME NEW u \in Users, NEW op \in Ops, WindowEnds(u, op)
      PROVE  Good
  BY <1>3 DEF WindowEnds, Tracker, IInv, Shape, Counted
<1>4. CASE Restart
  BY <1>4 DEF Restart, NoHits, NoneAdmitted, Counted
<1>5. ASSUME NEW r \in Slots, NEW op, NEW target,
             \/ Unauthorized(r, op, target)
             \/ \E u \in Users : Throttled(r, op, u, target)
      PROVE  UNCHANGED <<hits, admitted>>
  BY <1>5 DEF Unauthorized, Throttled
<1>6. ASSUME NEW r \in Slots, Handle(r) \/ Deliver(r)
      PROVE  UNCHANGED <<hits, admitted>>
  BY <1>6 DEF Handle, Load, ModelAnswers, ModelFails, TimerFires, Deliver
<1>7. ASSUME Publish \/ \E l \in Ids : Remove(l) \/ \E value \in {"null", "tags"} : Edit(l, value)
      PROVE  UNCHANGED <<hits, admitted>>
  BY <1>7 DEF Publish, Remove, Edit
<1> QED BY <1>1, <1>2, <1>3, <1>4, <1>5, <1>6, <1>7 DEF Next, Request, Environment, vars

\* The count of a user's bucket is the number of requests that user had
\* admitted, always (UserThrottlerGuard.getTracker, JwtAuthGuard before it).
THEOREM QuotaIsPersonal == Spec => []IInv
<1>1. Init => IInv
  <2> SUFFICES ASSUME Init PROVE IInv
    OBVIOUS
  <2>1. Shape
    BY FieldNames DEF Init, Shape, NoHits, NoneAdmitted, Idle
  <2>2. Counted
    BY DEF Init, Counted, NoHits, NoneAdmitted
  <2> QED BY <2>1, <2>2 DEF IInv
<1>2. IInv /\ [Next]_vars => IInv'
  BY SlotsOfStep, CountsOfStep DEF IInv, Shape
<1> QED BY <1>1, <1>2, PTL DEF Spec

\* A 429 answers a user whose own requests used the quota up.
THEOREM NobodyElseThrottles == Spec => OwnTrafficOnly
<1>1. ASSUME IInv, [Next]_vars, NEW r \in Slots,
             req'[r].status = 429, req[r].status # 429
      PROVE  admitted[req'[r].who][req'[r].op] = Limit
  <2>1. /\ req'[r].who \in Users /\ req'[r].op \in Ops
        /\ hits[Tracker(req'[r].who)][req'[r].op] = Limit
    BY <1>1, SlotsOfStep
  <2> QED BY <1>1, <2>1 DEF IInv, Counted, Tracker
<1>2. IInv /\ [Next]_vars =>
        \A r \in Slots : req'[r].status = 429 /\ req[r].status # 429 =>
          admitted[req'[r].who][req'[r].op] = Limit
  BY <1>1
<1> QED BY <1>2, QuotaIsPersonal, PTL DEF Spec, OwnTrafficOnly

-----------------------------------------------------------------------------
(* What the filter and the cut of a search compute.  Both are recursive     *)
(* over the answer; the proofs are by induction on its length, written with *)
(* the set of the lengths for which the claim holds.                        *)

\* Every non-empty set of naturals has a least element.
LEMMA LeastNatural ==
  ASSUME NEW S \in SUBSET Nat, S # {}
  PROVE  \E n \in S : \A m \in S : n <= m
<1> DEFINE R == OpToRel(<, Nat)
<1>1. IsWellFoundedOn(R, Nat)
  BY NatLessThanWellFounded, Zenon
<1>2. \A m, n \in Nat : m < n => <<m, n>> \in R
  BY DEF OpToRel
<1> HIDE DEF R
<1>3. PICK n \in S : \A m \in S : ~(<<m, n>> \in R)
  BY <1>1, WFMin, Zenon
<1>4. ASSUME NEW m \in S PROVE n <= m
  <2>1. m \in Nat /\ n \in Nat /\ ~(<<m, n>> \in R)
    BY <1>3
  <2>2. ~(m < n)
    BY <1>2, <2>1
  <2> QED BY <2>1, <2>2
<1> QED BY <1>4

\* Induction up to N: a set that holds 0, and n + 1 whenever it holds n.
LEMMA InductionUpTo ==
  ASSUME NEW N \in Nat, NEW G, 0 \in G,
         \A n \in 0 .. N - 1 : n \in G => n + 1 \in G
  PROVE  \A n \in 0 .. N : n \in G
<1> DEFINE bad == {n \in 0 .. N : n \notin G}
<1> SUFFICES ASSUME bad # {} PROVE FALSE
  OBVIOUS
<1>1. PICK n \in bad : \A m \in bad : n <= m
  <2>1. bad \in SUBSET Nat
    OBVIOUS
  <2> HIDE DEF bad
  <2> QED BY <2>1, LeastNatural
<1>2. n \in 1 .. N /\ n \notin G
  OBVIOUS
<1>3. n - 1 \in 0 .. N - 1 /\ n - 1 \in 0 .. N /\ (n - 1) + 1 = n /\ ~(n <= n - 1)
  BY <1>2
<1>4. n - 1 \in G
  BY <1>1, <1>3
<1> QED BY <1>2, <1>3, <1>4

\* The recursive function Filtered is one: a function that satisfies its
\* equation exists on every prefix of the answer.
LEMMA FilteredUnfolds ==
  ASSUME NEW S, NEW answer \in Seq(S), NEW c
  PROVE  LET N == Len(answer) k == Filtered(answer, c) IN
         k = [n \in 0 .. N |->
               IF n = 0 THEN <<>>
               ELSE IF answer[n] \in c THEN Append(k[n - 1], answer[n]) ELSE k[n - 1]]
<1> DEFINE N == Len(answer)
           Step(g, n) == IF n = 0 THEN <<>>
                         ELSE IF answer[n] \in c THEN Append(g[n - 1], answer[n]) ELSE g[n - 1]
           G == {m \in 0 .. N : \E g : g = [n \in 0 .. m |-> Step(g, n)]}
<1>1. N \in Nat
  OBVIOUS
<1>2. 0 \in G
  <2> DEFINE g == [n \in 0 .. 0 |-> <<>>]
  <2>1. g = [n \in 0 .. 0 |-> Step(g, n)]
    OBVIOUS
  <2> HIDE DEF g, Step
  <2>2. \E z : z = [n \in 0 .. 0 |-> Step(z, n)]
    BY <2>1
  <2> QED BY <1>1, <2>2
<1>3. ASSUME NEW m \in 0 .. N - 1, m \in G
      PROVE  m + 1 \in G
  <2>1. PICK g : g = [n \in 0 .. m |-> Step(g, n)]
    BY <1>3
  <2> DEFINE h == [n \in 0 .. m + 1 |-> IF n = m + 1 THEN Step(g, n) ELSE g[n]]
  <2>2. ASSUME NEW n \in 0 .. m + 1 PROVE h[n] = Step(h, n)
    <3>1. CASE n = 0
      BY <3>1, <2>1
    <3>2. CASE n \in 1 .. m
      <4>1. h[n - 1] = g[n - 1] /\ h[n] = g[n] /\ n \in 0 .. m
        BY <3>2, <1>1
      <4> HIDE DEF h
      <4>2. g[n] = Step(g, n)
        BY <2>1, <4>1
      <4> QED BY <4>1, <4>2, <3>2
    <3>3. CASE n = m + 1
      <4>1. h[n - 1] = g[n - 1] /\ h[n] = Step(g, n)
        BY <3>3, <1>1
      <4> HIDE DEF h
      <4> QED BY <4>1, <3>3
    <3> QED BY <3>1, <3>2, <3>3, <1>1
  <2>3. h = [n \in 0 .. m + 1 |-> h[n]]
    OBVIOUS
  <2> HIDE DEF h, Step
  <2>4. h = [n \in 0 .. m + 1 |-> Step(h, n)]
    BY <2>2, <2>3
  <2> QED BY <2>4, <1>1
<1>4. N \in G
  <2> HIDE DEF G, N
  <2>1. \A m \in 0 .. N - 1 : m \in G => m + 1 \in G
    BY <1>3
  <2>2. \A m \in 0 .. N : m \in G
    BY <1>1, <1>2, <2>1, InductionUpTo
  <2> QED BY <1>1, <2>2
<1>5. \E g : g = [n \in 0 .. N |-> Step(g, n)]
  BY <1>4
<1> QED BY <1>5 DEF Filtered


\* The positions of the candidates among the first n ids of an answer, and
\* those of them that the cut keeps.
Rank(answer, c, n) == {i \in 1 .. n : answer[i] \in c}

\* The number of candidates among the first n ids.
RankOf(answer, c, n) == Cardinality(Rank(answer, c, n))

Best(answer, c, n) == {i \in Rank(answer, c, n) : RankOf(answer, c, i - 1) < MaxMatches}

\* One more id: the rank grows by its position if it is a candidate.
LEMMA RankStep ==
  ASSUME NEW answer, NEW c, NEW n \in Nat
  PROVE  /\ IsFiniteSet(Rank(answer, c, n)) /\ RankOf(answer, c, n) \in Nat
         /\ answer[n + 1] \in c =>
              /\ Rank(answer, c, n + 1) = Rank(answer, c, n) \cup {n + 1}
              /\ RankOf(answer, c, n + 1) = RankOf(answer, c, n) + 1
         /\ answer[n + 1] \notin c =>
              /\ Rank(answer, c, n + 1) = Rank(answer, c, n)
              /\ RankOf(answer, c, n + 1) = RankOf(answer, c, n)
<1>1. IsFiniteSet(Rank(answer, c, n))
  <2>1. IsFiniteSet(1 .. n) /\ Rank(answer, c, n) \in SUBSET (1 .. n)
    BY FS_Interval DEF Rank
  <2> QED BY <2>1, FS_Subset
<1>2. RankOf(answer, c, n) \in Nat
  BY <1>1, FS_CardinalityType DEF RankOf
<1>3. Rank(answer, c, n + 1) =
        IF answer[n + 1] \in c THEN Rank(answer, c, n) \cup {n + 1} ELSE Rank(answer, c, n)
  <2>1. 1 .. n + 1 = (1 .. n) \cup {n + 1}
    OBVIOUS
  <2> QED BY <2>1 DEF Rank
<1>4. n + 1 \notin Rank(answer, c, n)
  BY DEF Rank
<1>5. Cardinality(Rank(answer, c, n) \cup {n + 1}) = RankOf(answer, c, n) + 1
  BY <1>1, <1>4, FS_AddElement DEF RankOf
<1> QED BY <1>1, <1>2, <1>3, <1>5 DEF RankOf

\* A ranked position has its place among those up to it.
LEMMA RankedBefore ==
  ASSUME NEW answer, NEW c, NEW n \in Nat, NEW i \in Rank(answer, c, n)
  PROVE  /\ i \in 1 .. n /\ RankOf(answer, c, i) \in 1 .. RankOf(answer, c, n)
         /\ RankOf(answer, c, i) = RankOf(answer, c, i - 1) + 1
         /\ RankOf(answer, c, i - 1) \in Nat
<1>1. i \in 1 .. n /\ answer[i] \in c /\ i - 1 \in Nat /\ (i - 1) + 1 = i
  BY DEF Rank
<1>2. /\ RankOf(answer, c, i - 1) \in Nat
      /\ RankOf(answer, c, i) = RankOf(answer, c, i - 1) + 1
  <2>1. /\ RankOf(answer, c, i - 1) \in Nat
        /\ RankOf(answer, c, (i - 1) + 1) = IF answer[(i - 1) + 1] \in c
             THEN RankOf(answer, c, i - 1) + 1 ELSE RankOf(answer, c, i - 1)
    BY <1>1, RankStep
  <2> QED BY <1>1, <2>1
<1>3. Rank(answer, c, i) \in SUBSET Rank(answer, c, n)
  BY <1>1 DEF Rank
<1>4. RankOf(answer, c, i) <= RankOf(answer, c, n) /\ RankOf(answer, c, n) \in Nat
  BY <1>3, RankStep, FS_Subset DEF RankOf
<1> QED BY <1>1, <1>2, <1>4

\* The filter keeps the candidates of the first n ids, each once, in order.
LEMMA FilteredRanks ==
  ASSUME NEW S, NEW answer \in Seq(S), NEW c
  PROVE  \A n \in 0 .. Len(answer) :
           LET kept == Filtered(answer, c)[n] IN
           /\ kept \in Seq(S \cap c)
           /\ Len(kept) = RankOf(answer, c, n)
           /\ \A i \in Rank(answer, c, n) : kept[RankOf(answer, c, i)] = answer[i]
<1> DEFINE N == Len(answer)
           k == Filtered(answer, c)
           InOrder(n) == /\ k[n] \in Seq(S \cap c)
                        /\ Len(k[n]) = RankOf(answer, c, n)
                        /\ \A i \in Rank(answer, c, n) : k[n][RankOf(answer, c, i)] = answer[i]
           G == {n \in 0 .. N : InOrder(n)}
<1>1. N \in Nat
  OBVIOUS
<1>2. \A n \in 0 .. N : k[n] =
        IF n = 0 THEN <<>>
        ELSE IF answer[n] \in c THEN Append(k[n - 1], answer[n]) ELSE k[n - 1]
  <2>1. k = [n \in 0 .. N |->
               IF n = 0 THEN <<>>
               ELSE IF answer[n] \in c THEN Append(k[n - 1], answer[n]) ELSE k[n - 1]]
    BY FilteredUnfolds
  <2> HIDE DEF k, N
  <2> QED BY <2>1
<1> HIDE DEF k
<1>3. 0 \in G
  <2>1. k[0] = <<>> /\ Rank(answer, c, 0) = {}
    BY <1>1, <1>2 DEF Rank
  <2>2. RankOf(answer, c, 0) = 0
    BY <2>1, FS_EmptySet DEF RankOf
  <2>3. <<>> \in Seq(S \cap c) /\ Len(<<>>) = 0
    OBVIOUS
  <2>4. InOrder(0)
    BY <2>1, <2>2, <2>3
  <2> HIDE DEF InOrder
  <2> QED BY <1>1, <2>4
<1>4. ASSUME NEW n \in 0 .. N - 1, n \in G
      PROVE  n + 1 \in G
  <2>1. /\ n \in Nat /\ n + 1 \in 0 .. N /\ n + 1 # 0 /\ (n + 1) - 1 = n
        /\ answer[n + 1] \in S
    BY <1>1, <1>4
  <2>2. InOrder(n)
    BY <1>4
  <2>3. k[n + 1] = IF answer[n + 1] \in c THEN Append(k[n], answer[n + 1]) ELSE k[n]
    BY <1>2, <2>1
  <2>4. /\ RankOf(answer, c, n) \in Nat
        /\ answer[n + 1] \in c =>
             /\ Rank(answer, c, n + 1) = Rank(answer, c, n) \cup {n + 1}
             /\ RankOf(answer, c, n + 1) = RankOf(answer, c, n) + 1
        /\ answer[n + 1] \notin c =>
             /\ Rank(answer, c, n + 1) = Rank(answer, c, n)
             /\ RankOf(answer, c, n + 1) = RankOf(answer, c, n)
    <3>1. n \in Nat
      BY <2>1
    <3> HIDE DEF N, InOrder, G
    <3> QED BY <3>1, RankStep
  <2>5. CASE answer[n + 1] \notin c
    BY <2>1, <2>2, <2>3, <2>4, <2>5
  <2>6. CASE answer[n + 1] \in c
    <3> DEFINE old == k[n]
               new == k[n + 1]
    <3>1. /\ new = Append(old, answer[n + 1]) /\ old \in Seq(S \cap c)
          /\ answer[n + 1] \in S \cap c /\ Len(old) = RankOf(answer, c, n)
      BY <2>1, <2>2, <2>3, <2>6
    <3>2. /\ new \in Seq(S \cap c) /\ Len(new) = RankOf(answer, c, n + 1)
          /\ new[RankOf(answer, c, n + 1)] = answer[n + 1]
          /\ \A j \in 1 .. RankOf(answer, c, n) : new[j] = old[j]
      <4> HIDE DEF old, new
      <4> QED BY <2>4, <2>6, <3>1
    <3>3. ASSUME NEW i \in Rank(answer, c, n + 1)
          PROVE  new[RankOf(answer, c, i)] = answer[i]
      <4>1. CASE i = n + 1
        BY <3>2, <4>1
      <4>2. CASE i \in Rank(answer, c, n)
        <5>1. RankOf(answer, c, i) \in 1 .. RankOf(answer, c, n)
          BY <2>1, <4>2, RankedBefore
        <5>2. old[RankOf(answer, c, i)] = answer[i]
          BY <2>2, <4>2
        <5> QED BY <3>2, <5>1, <5>2
      <4> QED BY <2>4, <4>1, <4>2
    <3>4. InOrder(n + 1)
      BY <3>2, <3>3
    <3> HIDE DEF InOrder
    <3> QED BY <2>1, <3>4
  <2> QED BY <2>5, <2>6
<1>5. \A n \in 0 .. N : n \in G
  <2> HIDE DEF G, N
  <2>1. \A n \in 0 .. N - 1 : n \in G => n + 1 \in G
    BY <1>4
  <2> QED BY <1>1, <1>3, <2>1, InductionUpTo
<1> QED BY <1>5 DEF k

\* As many positions are kept by the cut as it leaves room for.
LEMMA BestCounts ==
  ASSUME NEW answer, NEW c, NEW N \in Nat
  PROVE  \A n \in 0 .. N : /\ IsFiniteSet(Best(answer, c, n))
                           /\ Cardinality(Best(answer, c, n)) = Min(MaxMatches, RankOf(answer, c, n))
<1> DEFINE Cut(n) == /\ IsFiniteSet(Best(answer, c, n))
                     /\ Cardinality(Best(answer, c, n)) = Min(MaxMatches, RankOf(answer, c, n))
           G == {n \in 0 .. N : Cut(n)}
<1>1. 0 \in G
  <2>1. Rank(answer, c, 0) = {} /\ Best(answer, c, 0) = {}
    BY DEF Rank, Best
  <2>2. Cut(0)
    BY <2>1, FS_EmptySet, BoundsAssumption DEF RankOf, Min
  <2> HIDE DEF Cut
  <2> QED BY <2>2
<1>2. ASSUME NEW n \in 0 .. N - 1, n \in G
      PROVE  n + 1 \in G
  <2>1. n \in Nat /\ n + 1 \in 0 .. N /\ (n + 1) - 1 = n
    OBVIOUS
  <2>2. Cut(n)
    BY <1>2
  <2>3. /\ RankOf(answer, c, n) \in Nat
        /\ answer[n + 1] \in c =>
             /\ Rank(answer, c, n + 1) = Rank(answer, c, n) \cup {n + 1}
             /\ RankOf(answer, c, n + 1) = RankOf(answer, c, n) + 1
        /\ answer[n + 1] \notin c =>
             /\ Rank(answer, c, n + 1) = Rank(answer, c, n)
             /\ RankOf(answer, c, n + 1) = RankOf(answer, c, n)
    <3> HIDE DEF Cut, G
    <3> QED BY <2>1, RankStep
  <2>4. Best(answer, c, n + 1) =
          IF answer[n + 1] \in c /\ RankOf(answer, c, n) < MaxMatches
            THEN Best(answer, c, n) \cup {n + 1} ELSE Best(answer, c, n)
    BY <2>1, <2>3 DEF Best
  <2>5. n + 1 \notin Best(answer, c, n)
    BY <2>1 DEF Best, Rank
  <2>6. /\ IsFiniteSet(Best(answer, c, n) \cup {n + 1})
        /\ Cardinality(Best(answer, c, n) \cup {n + 1}) = Cardinality(Best(answer, c, n)) + 1
    BY <2>2, <2>5, FS_AddElement
  <2>7. Cut(n + 1)
    BY <2>2, <2>3, <2>4, <2>6, BoundsAssumption DEF Min
  <2> HIDE DEF Cut
  <2> QED BY <2>1, <2>7
<1>3. \A n \in 0 .. N : n \in G
  <2> HIDE DEF G
  <2>1. \A n \in 0 .. N - 1 : n \in G => n + 1 \in G
    BY <1>2
  <2> QED BY <1>1, <2>1, InductionUpTo
<1> QED BY <1>3

\* The list shown is the best of the ranked candidates (BestMatchesShown).
ShowsBest(answer, c, shown) ==
  LET rank == {i \in 1 .. Len(answer) : answer[i] \in c}
      best == {i \in rank : Cardinality({j \in rank : j < i}) < MaxMatches}
  IN  /\ Len(shown) = Cardinality(best)
      /\ \A i \in best : shown[Cardinality({j \in best : j <= i})] = answer[i]

\* What a search shows of a ranking: as many candidates as fit, each the best
\* of those not shown before it.
LEMMA MatchesAreBest ==
  ASSUME NEW S, NEW answer \in Seq(S), NEW c
  PROVE  /\ Matches(answer, c) \in Seq(S \cap c)
         /\ ShowsBest(answer, c, Matches(answer, c))
<1> DEFINE N == Len(answer)
           rank == {i \in 1 .. N : answer[i] \in c}
           best == {i \in rank : Cardinality({j \in rank : j < i}) < MaxMatches}
           known == Filtered(answer, c)[N]
           room == Min(MaxMatches, Len(known))
           shown == Matches(answer, c)
<1>1. N \in Nat /\ rank = Rank(answer, c, N)
  BY DEF Rank
<1>2. /\ known \in Seq(S \cap c) /\ Len(known) = RankOf(answer, c, N)
      /\ \A i \in rank : known[RankOf(answer, c, i)] = answer[i]
  <2>1. N \in 0 .. N
    BY <1>1
  <2> HIDE DEF rank
  <2> QED BY <1>1, <2>1, FilteredRanks
<1>3. ASSUME NEW i \in rank
      PROVE  /\ {j \in rank : j < i} = Rank(answer, c, i - 1)
             /\ {j \in rank : j <= i} = Rank(answer, c, i)
  BY <1>1 DEF Rank
<1>4. best = Best(answer, c, N)
  BY <1>1, <1>3 DEF Best, RankOf
<1>5. Cardinality(best) = room
  <2> HIDE DEF best, known, N
  <2>1. N \in 0 .. N
    BY <1>1
  <2> QED BY <1>1, <1>2, <1>4, <2>1, BestCounts
<1>6. /\ shown \in Seq(S \cap c) /\ Len(shown) = room
      /\ \A m \in 1 .. room : shown[m] = known[m]
  <2>1. shown = SubSeq(known, 1, room)
    BY DEF Matches
  <2>2. room \in Nat /\ room <= Len(known)
    BY <1>2, BoundsAssumption DEF Min
  <2> HIDE DEF known, room, shown
  <2> QED BY <1>2, <2>1, <2>2
<1>7. ASSUME NEW i \in best
      PROVE  shown[Cardinality({j \in best : j <= i})] = answer[i]
  <2>1. /\ i \in rank /\ i \in Rank(answer, c, N) /\ RankOf(answer, c, i - 1) < MaxMatches
    BY <1>1, <1>4 DEF Best
  <2>2. /\ RankOf(answer, c, i) \in 1 .. RankOf(answer, c, N)
        /\ RankOf(answer, c, i) = RankOf(answer, c, i - 1) + 1
        /\ RankOf(answer, c, i - 1) \in Nat
    <3> HIDE DEF N, rank, best
    <3> QED BY <1>1, <2>1, RankedBefore
  <2>3. RankOf(answer, c, i) \in 1 .. room
    BY <1>2, <2>1, <2>2, BoundsAssumption DEF Min
  <2>4. {j \in best : j <= i} = Rank(answer, c, i)
    <3>1. ASSUME NEW j \in rank, j <= i
          PROVE  RankOf(answer, c, j - 1) < MaxMatches
      <4>1. j \in 1 .. N /\ i \in 1 .. N
        OBVIOUS
      <4>2. Rank(answer, c, j - 1) \in SUBSET Rank(answer, c, i - 1)
        BY <3>1, <4>1 DEF Rank
      <4>3. i - 1 \in Nat /\ j - 1 \in Nat
        BY <4>1
      <4>4. /\ IsFiniteSet(Rank(answer, c, i - 1))
            /\ RankOf(answer, c, i - 1) \in Nat /\ RankOf(answer, c, j - 1) \in Nat
        BY <4>3, RankStep
      <4>5. RankOf(answer, c, j - 1) <= RankOf(answer, c, i - 1)
        BY <4>2, <4>4, FS_Subset DEF RankOf
      <4> QED BY <2>1, <4>4, <4>5, BoundsAssumption
    <3>2. \A j \in rank : j <= i => j \in best
      BY <1>1, <1>4, <3>1 DEF Best
    <3>3. {j \in best : j <= i} = {j \in rank : j <= i}
      BY <3>2
    <3> QED BY <1>3, <2>1, <3>3
  <2>5. Cardinality({j \in best : j <= i}) = RankOf(answer, c, i)
    BY <2>4 DEF RankOf
  <2>6. known[RankOf(answer, c, i)] = answer[i]
    BY <1>2, <2>1
  <2> HIDE DEF known, room, shown, best, rank, N
  <2> QED BY <1>6, <2>3, <2>5, <2>6
<1>8. Len(shown) = Cardinality(best)
  BY <1>5, <1>6
<1> QED BY <1>6, <1>7, <1>8 DEF ShowsBest

-----------------------------------------------------------------------------
(* Every slot is well typed, and a ranking shows the best known matches.    *)

Statuses == {0, 200, 400, 401, 404, 429, 500, 503}

Phases == {"idle", "load", "model", "done"}

OpNames == Ops \cup {"none"}

SlotRec == [pc : Phases, op : OpNames, who : Users \cup {NoUser},
            target : Ids \cup {Nowhere}, read : SUBSET Ids,
            answer : Seq(Ids \cup {Nowhere}), status : Statuses, shown : Seq(Ids)]

\* What a slot that was answered with 200 shows is what the model's answer
\* and the candidates it was given determine.
Honest(q) == q \in SlotRec /\ (q.status = 200 => q.shown = Matches(q.answer, q.read))

HonestSlots == /\ req = [r \in Slots |-> req[r]]
               /\ \A r \in Slots : Honest(req[r])

LEMMA IdleIsHonest == Honest(Idle)
<1>1. Idle \in SlotRec
  <2>1. "idle" \in Phases /\ "none" \in OpNames /\ 0 \in Statuses
    BY DEF Phases, OpNames, Statuses
  <2> QED BY <2>1 DEF Idle, SlotRec
<1>2. Idle.status # 200
  BY DEF Idle
<1> QED BY <1>1, <1>2 DEF Honest

\* Rewriting one slot with an honest record.
LEMMA HonestStep ==
  ASSUME HonestSlots, NEW r \in Slots, NEW q, Honest(q), req' = [req EXCEPT ![r] = q]
  PROVE  HonestSlots'
<1>1. req' = [s \in Slots |-> IF s = r THEN q ELSE req[s]]
  BY DEF HonestSlots
<1>2. ASSUME NEW s \in Slots PROVE Honest(req'[s])
  BY <1>1 DEF HonestSlots
<1>3. req' = [s \in Slots |-> req'[s]]
  BY <1>1
<1> QED BY <1>2, <1>3 DEF HonestSlots, Honest

LEMMA NewIsRequest ==
  ASSUME NEW op \in Ops, NEW u \in Users \cup {NoUser}, NEW target \in Ids \cup {Nowhere}
  PROVE  New(op, u, target) \in SlotRec /\ New(op, u, target).status = 0
<1>1. Idle \in SlotRec /\ Idle.status = 0 /\ op \in OpNames
  BY IdleIsHonest DEF Honest, Idle, OpNames
<1> QED BY <1>1 DEF New, SlotRec

\* A request that the guards answer at once, and one that begins.
LEMMA RejectedIsHonest ==
  ASSUME HonestSlots, NEW r \in Slots, NEW op \in Ops, NEW u \in Users \cup {NoUser},
         NEW target \in Ids \cup {Nowhere}, NEW status \in Statuses \ {200},
         Reject(r, op, u, target, status)
  PROVE  HonestSlots'
<1> DEFINE new == New(op, u, target)
           q == [new EXCEPT !.pc = "done", !.status = status]
<1>1. new \in SlotRec /\ "done" \in Phases /\ req' = [req EXCEPT ![r] = q]
  BY NewIsRequest DEF Phases, Reject
<1> HIDE DEF new
<1>2. q \in SlotRec /\ q.status = status
  BY <1>1 DEF SlotRec
<1> HIDE DEF q
<1> QED BY <1>1, <1>2, HonestStep DEF Honest

LEMMA BegunIsHonest ==
  ASSUME NEW op \in Ops, NEW u \in Users \cup {NoUser}, NEW target \in Ids \cup {Nowhere},
         NEW pc \in Phases
  PROVE  Honest([New(op, u, target) EXCEPT !.pc = pc])
<1> DEFINE new == New(op, u, target)
           q == [new EXCEPT !.pc = pc]
<1>1. new \in SlotRec /\ new.status = 0
  BY NewIsRequest
<1> HIDE DEF new
<1>2. q \in SlotRec /\ q.status = 0
  BY <1>1 DEF SlotRec
<1> QED BY <1>2 DEF Honest, new

LEMMA AnswerIsHonest ==
  ASSUME HonestSlots, NEW r \in Slots, NEW status \in Statuses \ {200},
         Answer(r, status, <<>>)
  PROVE  HonestSlots'
<1> DEFINE old == req[r]
           q == [old EXCEPT !.pc = "done", !.status = status, !.shown = <<>>]
<1>1. old \in SlotRec /\ "done" \in Phases /\ <<>> \in Seq(Ids)
  BY DEF HonestSlots, Honest, Phases
<1>2. req' = [req EXCEPT ![r] = q]
  BY DEF Answer, HonestSlots
<1>3. q \in SlotRec /\ q.status = status
  <2> HIDE DEF old
  <2> QED BY <1>1 DEF SlotRec
<1> HIDE DEF q
<1> QED BY <1>2, <1>3, HonestStep DEF Honest

LEMMA InvokeIsHonest ==
  ASSUME HonestSlots, NEW r \in Slots, NEW listings \in SUBSET Ids, Invoke(r, listings)
  PROVE  HonestSlots'
<1> DEFINE old == req[r]
           pc == IF PromptThrows(listings) THEN "done" ELSE "model"
           status == IF PromptThrows(listings) THEN 500 ELSE 0
           q == [old EXCEPT !.read = listings, !.pc = pc, !.status = status]
<1>1. old \in SlotRec /\ pc \in Phases /\ status \in Statuses \ {200}
  BY DEF HonestSlots, Honest, Phases, Statuses
<1>2. req' = [req EXCEPT ![r] = q]
  BY DEF Invoke, HonestSlots
<1>3. q \in SlotRec /\ q.status = status
  <2> HIDE DEF old, pc, status
  <2> QED BY <1>1 DEF SlotRec
<1> HIDE DEF q, pc, status
<1> QED BY <1>1, <1>2, <1>3, HonestStep DEF Honest

LEMMA AnswersAreSequences ==
  ASSUME NEW answer \in Answers PROVE answer \in Seq(Ids \cup {Nowhere})
<1>1. PICK n \in 0 .. MaxAnswer : answer \in [1 .. n -> Ids \cup {Nowhere}]
  BY DEF Answers
<1>2. n \in Nat
  BY <1>1, BoundsAssumption
<1> QED BY <1>1, <1>2

LEMMA ModelIsHonest ==
  ASSUME HonestSlots, NEW r \in Slots, NEW answer \in Answers, ModelAnswers(r, answer)
  PROVE  HonestSlots'
<1> DEFINE old == req[r]
           shown == Matches(answer, old.read)
           q == [old EXCEPT !.pc = "done", !.status = 200, !.answer = answer,
                            !.shown = shown]
<1>1. /\ old \in SlotRec /\ "done" \in Phases /\ 200 \in Statuses
      /\ answer \in Seq(Ids \cup {Nowhere})
  BY AnswersAreSequences DEF HonestSlots, Honest, Phases, Statuses
<1>2. shown \in Seq(Ids)
  <2>1. old.read \subseteq Ids
    BY <1>1 DEF SlotRec
  <2>2. (Ids \cup {Nowhere}) \cap old.read \subseteq Ids
    BY <2>1
  <2>3. shown \in Seq((Ids \cup {Nowhere}) \cap old.read)
    <3> HIDE DEF old
    <3> QED BY <1>1, MatchesAreBest
  <2> HIDE DEF shown, old
  <2> QED BY <2>2, <2>3
<1>3. req' = [req EXCEPT ![r] = q]
  BY DEF ModelAnswers, HonestSlots
<1>4. /\ q \in SlotRec /\ q.shown = shown /\ q.answer = answer /\ q.read = old.read
  <2> HIDE DEF old, shown
  <2> QED BY <1>1, <1>2 DEF SlotRec
<1> HIDE DEF q
<1> QED BY <1>3, <1>4, HonestStep DEF Honest

LEMMA SlotsStayHonest ==
  ASSUME HonestSlots, [Next]_vars
  PROVE  HonestSlots'
<1>1. CASE UNCHANGED req
  BY <1>1 DEF HonestSlots, Honest
<1>2. ASSUME NEW r \in Slots, Request(r)
      PROVE  HonestSlots'
  <2>1. PICK op \in Ops, target \in Ids \cup {Nowhere} :
          \/ Unauthorized(r, op, target)
          \/ \E u \in Users : Throttled(r, op, u, target) \/ Admit(r, op, u, target)
    BY <1>2 DEF Request
  <2>2. /\ {400, 401, 429} \subseteq Statuses \ {200}
        /\ {"done", "model", "load"} \subseteq Phases
    BY DEF Statuses, Phases
  <2>3. ASSUME NEW u \in Users \cup {NoUser}, NEW status \in {400, 401, 429},
               Reject(r, op, u, target, status)
        PROVE  HonestSlots'
    <3>1. status \in Statuses \ {200}
      BY <2>2
    <3> QED BY <2>3, <3>1, RejectedIsHonest
  <2>4. ASSUME NEW u \in Users, NEW pc \in {"model", "load"},
               req' = [req EXCEPT ![r] = [New(op, u, target) EXCEPT !.pc = pc]]
        PROVE  HonestSlots'
    <3> DEFINE q == [New(op, u, target) EXCEPT !.pc = pc]
    <3>1. pc \in Phases /\ u \in Users \cup {NoUser}
      BY <2>2
    <3>2. Honest(q)
      BY <3>1, BegunIsHonest
    <3>3. req' = [req EXCEPT ![r] = q]
      BY <2>4
    <3> HIDE DEF q
    <3> QED BY <3>2, <3>3, HonestStep
  <2>5. ASSUME NEW u \in Users, Admit(r, op, u, target)
        PROVE  HonestSlots'
    BY <2>3, <2>4, <2>5 DEF Admit
  <2>6. CASE Unauthorized(r, op, target)
    BY <2>3, <2>6 DEF Unauthorized
  <2>7. ASSUME NEW u \in Users, Throttled(r, op, u, target)
        PROVE  HonestSlots'
    BY <2>3, <2>7 DEF Throttled
  <2> QED BY <2>1, <2>5, <2>6, <2>7
<1>3. ASSUME NEW r \in Slots, Load(r)
      PROVE  HonestSlots'
  <2>1. Rows \in SUBSET Ids /\ FindRecent \in SUBSET Ids
    BY DEF Rows, FindRecent
  <2>2. 404 \in Statuses \ {200} /\ 500 \in Statuses \ {200}
    BY DEF Statuses
  <2> QED BY <1>3, <2>1, <2>2, AnswerIsHonest, InvokeIsHonest DEF Load
<1>4. ASSUME NEW r \in Slots, ModelFails(r) \/ TimerFires(r)
      PROVE  HonestSlots'
  <2>1. 503 \in Statuses \ {200}
    BY DEF Statuses
  <2> QED BY <1>4, <2>1, AnswerIsHonest DEF ModelFails, TimerFires
<1>5. ASSUME NEW r \in Slots, Deliver(r)
      PROVE  HonestSlots'
  BY <1>5, IdleIsHonest, HonestStep DEF Deliver
<1>6. CASE Restart
  <2>1. req' = [r \in Slots |-> Idle]
    BY <1>6 DEF Restart
  <2> QED BY <2>1, IdleIsHonest DEF HonestSlots, Honest
<1>7. ASSUME Environment, ~Restart
      PROVE  UNCHANGED req
  BY <1>7 DEF Environment, WindowEnds, Publish, Edit, Remove
<1> QED BY <1>1, <1>2, <1>3, <1>4, <1>5, <1>6, <1>7, ModelIsHonest DEF Next, Handle, vars

\* The table and the counts stay in their ranges.
Counters ==
  /\ features \in [Ids -> {"none", "null", "tags"}]
  /\ published \in 0 .. MaxListings
  /\ hits \in [Users \cup {Ip} -> [Ops -> 0 .. Limit]]
  /\ admitted \in [Users -> [Ops -> 0 .. Limit]]

LEMMA CountersStay ==
  ASSUME Counters, Counted, [Next]_vars
  PROVE  Counters'
<1>0. Limit \in Nat \ {0} /\ MaxListings \in Nat \ {0}
  BY BoundsAssumption
<1>1. ASSUME NEW r \in Slots, NEW op \in Ops, NEW u \in Users, NEW target,
             Admit(r, op, u, target)
      PROVE  Counters'
  <2>1. /\ hits[u][op] \in 0 .. Limit - 1 /\ admitted[u][op] = hits[u][op]
        /\ hits' = [hits EXCEPT ![u][op] = @ + 1]
        /\ admitted' = [admitted EXCEPT ![u][op] = @ + 1]
        /\ UNCHANGED <<features, published>>
    BY <1>0, <1>1 DEF Admit, Tracker, Counters, Counted
  <2> QED BY <1>0, <2>1 DEF Counters
<1>2. ASSUME NEW u \in Users, NEW op \in Ops, WindowEnds(u, op)
      PROVE  Counters'
  BY <1>0, <1>2 DEF WindowEnds, Tracker, Counters
<1>3. CASE Restart
  BY <1>0, <1>3 DEF Restart, NoHits, NoneAdmitted, Counters
<1>4. CASE Publish
  <2>1. published + 1 \in Ids /\ published + 1 \in 0 .. MaxListings
    BY <1>0, <1>4 DEF Publish, Ids, Counters
  <2> QED BY <1>4, <2>1 DEF Publish, Counters
<1>5. ASSUME NEW l \in Ids, Remove(l) \/ \E value \in {"null", "tags"} : Edit(l, value)
      PROVE  Counters'
  BY <1>5 DEF Remove, Edit, Counters
<1>6. ASSUME NEW r \in Slots, NEW op, NEW target,
             \/ Unauthorized(r, op, target)
             \/ \E u \in Users : Throttled(r, op, u, target)
      PROVE  UNCHANGED <<features, published, hits, admitted>>
  BY <1>6 DEF Unauthorized, Throttled
<1>7. ASSUME NEW r \in Slots, Handle(r) \/ Deliver(r)
      PROVE  UNCHANGED <<features, published, hits, admitted>>
  BY <1>7 DEF Handle, Load, ModelAnswers, ModelFails, TimerFires, Deliver
<1>8. CASE UNCHANGED <<features, published, hits, admitted>>
  BY <1>8 DEF Counters
<1> QED BY <1>1, <1>2, <1>3, <1>4, <1>5, <1>6, <1>7, <1>8
        DEF Next, Request, Environment, vars

LEMMA HonestInvariance == Spec => [](Counters /\ HonestSlots)
<1>1. Init => Counters /\ HonestSlots
  <2> SUFFICES ASSUME Init PROVE Counters /\ HonestSlots
    OBVIOUS
  <2>1. Counters
    BY BoundsAssumption DEF Init, Counters, NoHits, NoneAdmitted
  <2>2. HonestSlots
    BY IdleIsHonest DEF Init, HonestSlots
  <2> QED BY <2>1, <2>2
<1>2. IInv /\ Counters /\ HonestSlots /\ [Next]_vars => Counters' /\ HonestSlots'
  BY CountersStay, SlotsStayHonest DEF IInv
<1> QED BY <1>1, <1>2, QuotaIsPersonal, PTL DEF Spec

\* No request, answer of the model or restart takes a slot or a count out of
\* its range: in particular nothing is shown that is no listing.
THEOREM TypeCorrect == Spec => []TypeOK
<1>1. Counters /\ HonestSlots => TypeOK
  <2> SUFFICES ASSUME Counters, HonestSlots PROVE TypeOK
    OBVIOUS
  <2>1. req \in [Slots -> SlotRec]
    BY DEF HonestSlots, Honest
  <2> QED BY <2>1 DEF TypeOK, Counters, SlotRec, Phases, OpNames, Statuses
<1> QED BY <1>1, HonestInvariance, PTL

\* A search shows the best of the known matches, however many ids the model
\* invents, repeats or leaves out.
THEOREM BestShown == Spec => []BestMatchesShown
<1>1. HonestSlots => BestMatchesShown
  <2> SUFFICES ASSUME HonestSlots, NEW r \in Slots, Ranked(r)
               PROVE  BestMatchesShown!(r)!2
    BY DEF BestMatchesShown
  <2> DEFINE answer == req[r].answer
             read == req[r].read
  <2>1. answer \in Seq(Ids \cup {Nowhere}) /\ req[r].shown = Matches(answer, read)
    BY DEF HonestSlots, Honest, SlotRec, Ranked
  <2>2. ShowsBest(answer, read, req[r].shown)
    <3> HIDE DEF answer, read
    <3> QED BY <2>1, MatchesAreBest
  <2> QED BY <2>2 DEF ShowsBest
<1> QED BY <1>1, HonestInvariance, PTL

-----------------------------------------------------------------------------
(* How a search fails.  README.md:254 promises a 503; that a listing with   *)
(* NULL features breaks the promise is what the run ai_null_features shows. *)
(* Nothing else does.                                                       *)

NoNulls == \A l \in Ids : features[l] # "null"

\* A request has read nothing before it loads; once it has, it ends well or with
\* a 503.
EndsWell(q) ==
  /\ q.pc = "load" => q.read = {}
  /\ q.op = "search" /\ q.pc = "done" /\ q.read # {} => q.status \in {200, 503}

AllEndWell == \A r \in Slots : EndsWell(req[r])

LEMMA EndsWellStep ==
  ASSUME Shape, AllEndWell, NEW r \in Slots, NEW q, EndsWell(q),
         req' = [req EXCEPT ![r] = q]
  PROVE  AllEndWell'
<1>1. req' = [s \in Slots |-> IF s = r THEN q ELSE req[s]]
  BY DEF Shape
<1>2. ASSUME NEW s \in Slots PROVE EndsWell(req'[s])
  BY <1>1 DEF AllEndWell
<1> QED BY <1>2 DEF AllEndWell, EndsWell

\* What a new request is, whatever becomes of it.
LEMMA NewHasReadNothing ==
  ASSUME NEW op, NEW u, NEW target
  PROVE  /\ New(op, u, target) = [f \in Fields |-> New(op, u, target)[f]]
         /\ New(op, u, target).read = {}
BY FieldNames DEF New, Idle

LEMMA RejectEndsWell ==
  ASSUME Shape, AllEndWell, NEW r \in Slots, NEW op, NEW u, NEW target, NEW status,
         Reject(r, op, u, target, status)
  PROVE  AllEndWell'
<1> DEFINE new == New(op, u, target)
           q == [new EXCEPT !.pc = "done", !.status = status]
<1>1. req' = [req EXCEPT ![r] = q]
  BY DEF Reject
<1>2. q.read = {} /\ q.pc = "done"
  <2>1. new = [f \in Fields |-> new[f]] /\ new.read = {}
    BY NewHasReadNothing
  <2> HIDE DEF new
  <2> QED BY <2>1, FieldNames
<1> HIDE DEF q
<1> QED BY <1>1, <1>2, EndsWellStep DEF EndsWell

LEMMA BegunEndsWell ==
  ASSUME Shape, AllEndWell, NEW r \in Slots, NEW op, NEW u, NEW target, NEW pc,
         req' = [req EXCEPT ![r] = [New(op, u, target) EXCEPT !.pc = pc]]
  PROVE  AllEndWell'
<1> DEFINE new == New(op, u, target)
           q == [new EXCEPT !.pc = pc]
<1>1. req' = [req EXCEPT ![r] = q]
  OBVIOUS
<1>2. q.read = {}
  <2>1. new = [f \in Fields |-> new[f]] /\ new.read = {}
    BY NewHasReadNothing
  <2> HIDE DEF new
  <2> QED BY <2>1, FieldNames
<1> HIDE DEF q
<1> QED BY <1>1, <1>2, EndsWellStep DEF EndsWell

\* An answer to a request that has read nothing, and a good one to any other.
LEMMA AnswerEndsWell ==
  ASSUME Shape, AllEndWell, NEW r \in Slots, NEW status, NEW shown,
         Answer(r, status, shown), req[r].read = {} \/ status \in {200, 503}
  PROVE  AllEndWell'
<1> DEFINE old == req[r]
           q == [old EXCEPT !.pc = "done", !.status = status, !.shown = shown]
<1>1. req' = [req EXCEPT ![r] = q]
  BY DEF Answer, Shape
<1>2. old = [f \in Fields |-> old[f]]
  BY DEF Shape
<1>3. q.pc = "done" /\ q.status = status /\ q.read = old.read
  <2> HIDE DEF old
  <2> QED BY <1>2, FieldNames
<1> HIDE DEF q
<1> QED BY <1>1, <1>3, EndsWellStep DEF EndsWell

LEMMA ModelEndsWell ==
  ASSUME Shape, AllEndWell, NEW r \in Slots, NEW answer, ModelAnswers(r, answer)
  PROVE  AllEndWell'
<1> DEFINE shown == Matches(answer, req[r].read)
           old == req[r]
           q == [old EXCEPT !.pc = "done", !.status = 200, !.answer = answer,
                            !.shown = shown]
<1>1. req' = [req EXCEPT ![r] = q]
  BY DEF ModelAnswers, Shape
<1>2. old = [f \in Fields |-> old[f]]
  BY DEF Shape
<1>3. q.pc = "done" /\ q.status = 200
  <2> HIDE DEF old, shown
  <2> QED BY <1>2, FieldNames
<1> HIDE DEF q
<1> QED BY <1>1, <1>3, EndsWellStep DEF EndsWell

\* Without a NULL among the listings the prompt can be built.
LEMMA InvokeEndsWell ==
  ASSUME Shape, AllEndWell, NoNulls, NEW r \in Slots, NEW listings \in SUBSET Ids,
         Invoke(r, listings)
  PROVE  AllEndWell'
<1> DEFINE old == req[r]
           q == [old EXCEPT !.read = listings, !.pc = "model", !.status = 0]
<1>1. ~PromptThrows(listings)
  BY DEF NoNulls, PromptThrows
<1>2. req' = [req EXCEPT ![r] = q]
  BY <1>1 DEF Invoke, Shape
<1>3. old = [f \in Fields |-> old[f]]
  BY DEF Shape
<1>4. q.pc = "model"
  <2> HIDE DEF old
  <2> QED BY <1>3, FieldNames
<1> HIDE DEF q
<1> QED BY <1>2, <1>4, EndsWellStep DEF EndsWell

LEMMA SlotsEndWell ==
  ASSUME Shape, AllEndWell, NoNulls, [Next]_vars
  PROVE  AllEndWell'
<1>1. CASE UNCHANGED req
  BY <1>1 DEF AllEndWell, EndsWell
<1>2. ASSUME NEW r \in Slots, NEW op, NEW target, Unauthorized(r, op, target)
      PROVE  AllEndWell'
  BY <1>2, RejectEndsWell DEF Unauthorized
<1>3. ASSUME NEW r \in Slots, NEW op, NEW target, NEW u,
             Throttled(r, op, u, target) \/ Admit(r, op, u, target)
      PROVE  AllEndWell'
  <2>1. CASE Throttled(r, op, u, target)
    BY <2>1, RejectEndsWell DEF Throttled
  <2>2. CASE Reject(r, op, u, target, 400)
    BY <2>2, RejectEndsWell
  <2>3. CASE req' = [req EXCEPT ![r] = [New(op, u, target) EXCEPT
                       !.pc = IF op = "generate" THEN "model" ELSE "load"]]
    BY <2>3, BegunEndsWell
  <2> QED BY <1>3, <2>1, <2>2, <2>3 DEF Admit
<1>4. ASSUME NEW r \in Slots, Load(r)
      PROVE  AllEndWell'
  <2>1. req[r].read = {}
    BY <1>4 DEF Load, AllEndWell, EndsWell
  <2>2. Rows \in SUBSET Ids /\ FindRecent \in SUBSET Ids
    BY DEF Rows, FindRecent
  <2> QED BY <1>4, <2>1, <2>2, AnswerEndsWell, InvokeEndsWell DEF Load
<1>5. ASSUME NEW r \in Slots, ModelFails(r) \/ TimerFires(r)
      PROVE  AllEndWell'
  BY <1>5, AnswerEndsWell DEF ModelFails, TimerFires
<1>6. ASSUME NEW r \in Slots, Deliver(r)
      PROVE  AllEndWell'
  <2>1. EndsWell(Idle)
    BY DEF Idle, EndsWell
  <2> QED BY <1>6, <2>1, EndsWellStep DEF Deliver
<1>7. CASE Restart
  <2>1. EndsWell(Idle)
    BY DEF Idle, EndsWell
  <2> QED BY <1>7, <2>1 DEF Restart, AllEndWell, EndsWell
<1>8. ASSUME Environment, ~Restart
      PROVE  UNCHANGED req
  BY <1>8 DEF Environment, WindowEnds, Publish, Edit, Remove
<1> QED BY <1>1, <1>2, <1>3, <1>4, <1>5, <1>6, <1>7, <1>8, ModelEndsWell
        DEF Next, Request, Handle, vars

\* As long as no PATCH leaves a listing with NULL features, a search that has read
\* its candidates ends with 200 or 503, as README.md:254 says: whatever the model,
\* the timer, the database and the other requests do.
THEOREM OnlyNullsFailOtherwise == Spec /\ []NoNulls => []SearchFailsWith503
<1>1. Init => AllEndWell
  BY DEF Init, Idle, AllEndWell, EndsWell
<1>2. IInv /\ AllEndWell /\ NoNulls /\ [Next]_vars => AllEndWell'
  BY SlotsEndWell DEF IInv
<1>3. AllEndWell => SearchFailsWith503
  BY DEF AllEndWell, EndsWell, SearchFailsWith503
<1> QED BY <1>1, <1>2, <1>3, QuotaIsPersonal, PTL DEF Spec
=============================================================================
