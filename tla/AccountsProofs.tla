--------------------------- MODULE AccountsProofs ---------------------------
(***************************************************************************)
(* Proofs about Accounts, for any emails, passwords and number of requests *)
(* in flight.                                                              *)
(***************************************************************************)
EXTENDS Accounts, Durations, TLAPS

\* The history agrees with the table.
PastInv == \A id \in Ids : users[id] # Absent => past[id] = users[id]

\* What a request knows while argon2 runs, and that a token is an account's.
AwaitInv ==
  \A r \in Slots :
    /\ req[r].pc \in {"hash", "verify", "failed"} =>
         /\ req[r].raw \in RawEmails /\ req[r].password \in Passwords
         /\ req[r].token = Absent
    /\ req[r].pc \in {"verify", "failed"} =>
         /\ req[r].subject \in Ids /\ past[req[r].subject] # Absent
         /\ past[req[r].subject].email = Lower[req[r].raw]
    /\ req[r].token # Absent => past[req[r].token] # Absent

IInv == TypeOK /\ EmailsUnique /\ TokenEarned /\ PastInv /\ AwaitInv

\* The program counters, operations and statuses the handlers use.
LEMMA Constants ==
  /\ "idle" \in Pc /\ "hash" \in Pc /\ "verify" \in Pc /\ "failed" \in Pc /\ "done" \in Pc
  /\ "none" \in Op /\ "register" \in Op /\ "login" \in Op /\ "me" \in Op
  /\ 0 \in Status /\ 200 \in Status /\ 201 \in Status
  /\ 401 \in Status /\ 409 \in Status /\ 500 \in Status
BY DEF Pc, Op, Status

LEMMA IdleIsRequest ==
  /\ Idle \in Request /\ Idle.pc = "idle" /\ Idle.token = Absent
BY Constants DEF Idle, Request

\* A request that has just arrived.
LEMMA BeginIsRequest ==
  ASSUME NEW op \in Op, NEW raw \in RawEmails, NEW password \in Passwords
  PROVE  LET b == Begin(op, raw, password) IN
         b \in Request /\ b.raw = raw /\ b.password = password /\ b.token = Absent
BY IdleIsRequest, Constants DEF Begin, Request

\* A step that rewrites one slot and neither table keeps the invariant, if the
\* slot's new contents satisfy what the invariant says of a slot.
LEMMA SlotStepKeepsInv ==
  ASSUME IInv, NEW r \in Slots, NEW q \in Request,
         req' = [req EXCEPT ![r] = q], UNCHANGED <<users, past>>,
         q.token # Absent =>
           /\ past[q.token] # Absent
           /\ past[q.token] = [email |-> Lower[q.raw], hash |-> Hash(q.password)],
         q.pc \in {"hash", "verify", "failed"} =>
           q.raw \in RawEmails /\ q.password \in Passwords /\ q.token = Absent,
         q.pc \in {"verify", "failed"} =>
           /\ q.subject \in Ids /\ past[q.subject] # Absent
           /\ past[q.subject].email = Lower[q.raw]
  PROVE  IInv'
<1>1. req' \in [Slots -> Request] /\ req'[r] = q
      /\ \A s \in Slots \ {r} : req'[s] = req[s]
  BY DEF IInv, TypeOK, Request
<1>2. TypeOK'
  BY <1>1 DEF IInv, TypeOK, Request
<1>3. TokenEarned'
  BY <1>1 DEF IInv, TokenEarned
<1>4. AwaitInv'
  BY <1>1 DEF IInv, AwaitInv
<1> QED
  BY <1>2, <1>3, <1>4 DEF IInv, EmailsUnique, PastInv

LEMMA ArriveKeepsInv ==
  ASSUME IInv, NEW r \in Slots, Arrive(r)
  PROVE  IInv'
<1>1. ASSUME NEW raw \in RawEmails, NEW password \in Passwords,
             RegisterFind(r, raw, password)
      PROVE  IInv'
  <2> DEFINE b == Begin("register", raw, password)
             conflict == 409
             q == IF Taken(Lower[raw])
                    THEN [b EXCEPT !.pc = "done", !.status = conflict]
                    ELSE [b EXCEPT !.pc = "hash"]
  <2>1. /\ q \in Request /\ q.token = Absent /\ q.raw = raw
        /\ q.password = password /\ q.pc \in {"done", "hash"}
    <3>1. b \in Request /\ b.raw = raw /\ b.password = password /\ b.token = Absent
      BY BeginIsRequest, Constants
    <3>2. conflict \in Status
      BY Constants
    <3> HIDE DEF b, conflict
    <3> QED BY <3>1, <3>2, Constants DEF Request
  <2>2. req' = [req EXCEPT ![r] = q] /\ UNCHANGED <<users, past>>
    BY <1>1 DEF RegisterFind
  <2> HIDE DEF q
  <2> QED BY <2>1, <2>2, SlotStepKeepsInv
<1>2. ASSUME NEW raw \in RawEmails, NEW password \in Passwords,
             LoginFind(r, raw, password)
      PROVE  IInv'
  <2>1. CASE req' = [req EXCEPT ![r] =
               [Begin("login", raw, password) EXCEPT !.pc = "done", !.status = 401]]
    <3> DEFINE b == Begin("login", raw, password)
               refused == 401
               q == [b EXCEPT !.pc = "done", !.status = refused]
    <3>1. q \in Request /\ q.token = Absent /\ q.pc = "done"
      <4>1. b \in Request /\ b.raw = raw /\ b.password = password /\ b.token = Absent
        BY BeginIsRequest, Constants
      <4>2. refused \in Status
        BY Constants
      <4> HIDE DEF b, refused
      <4> QED BY <4>1, <4>2, Constants DEF Request
    <3>2. req' = [req EXCEPT ![r] = q] /\ UNCHANGED <<users, past>>
      BY <1>2, <2>1 DEF LoginFind
    <3> HIDE DEF q
    <3> QED BY <3>1, <3>2, SlotStepKeepsInv
  <2>2. ASSUME NEW id \in Ids, users[id] # Absent, users[id].email = Lower[raw],
               req' = [req EXCEPT ![r] =
                 [Begin("login", raw, password) EXCEPT !.pc = "verify", !.subject = id]]
        PROVE  IInv'
    <3> DEFINE b == Begin("login", raw, password)
               q == [b EXCEPT !.pc = "verify", !.subject = id]
    <3>1. /\ q \in Request /\ q.token = Absent /\ q.pc = "verify" /\ q.subject = id
          /\ q.raw = raw /\ q.password = password
      <4>1. b \in Request /\ b.raw = raw /\ b.password = password /\ b.token = Absent
        BY BeginIsRequest, Constants
      <4> HIDE DEF b
      <4> QED BY <4>1, Constants DEF Request
    <3>2. req' = [req EXCEPT ![r] = q] /\ UNCHANGED <<users, past>>
      BY <1>2, <2>2 DEF LoginFind
    <3>3. past[id] # Absent /\ past[id].email = Lower[raw]
      BY <2>2 DEF IInv, PastInv
    <3> HIDE DEF q
    <3> QED BY <3>1, <3>2, <3>3, SlotStepKeepsInv
  <2> QED BY <1>2, <2>1, <2>2 DEF LoginFind
<1>3. ASSUME NEW id \in Ids, Me(r, id)
      PROVE  IInv'
  <2> DEFINE status == IF users[id] = Absent THEN 401 ELSE 200
             q == [Idle EXCEPT !.pc = "done", !.op = "me", !.subject = id,
                     !.status = status]
  <2>1. q \in Request /\ q.token = Absent /\ q.pc = "done"
    <3>1. status \in Status
      BY Constants
    <3> HIDE DEF status
    <3> QED BY <3>1, IdleIsRequest, Constants DEF Request
  <2>2. req' = [req EXCEPT ![r] = q] /\ UNCHANGED <<users, past>>
    BY <1>3 DEF Me
  <2> HIDE DEF q
  <2> QED BY <2>1, <2>2, SlotStepKeepsInv
<1>4. ASSUME QueryFails(r)
      PROVE  IInv'
  <2>1. PICK op \in {"register", "login", "me"} :
          req' = [req EXCEPT ![r] = [Idle EXCEPT !.pc = "done", !.op = op, !.status = 500]]
    BY <1>4 DEF QueryFails
  <2> DEFINE broken == 500
             q == [Idle EXCEPT !.pc = "done", !.op = op, !.status = broken]
  <2>2. q \in Request /\ q.token = Absent /\ q.pc = "done"
    <3>1. broken \in Status
      BY Constants
    <3> HIDE DEF broken
    <3> QED BY <3>1, IdleIsRequest, Constants DEF Request
  <2>3. req' = [req EXCEPT ![r] = q] /\ UNCHANGED <<users, past>>
    BY <1>4, <2>1 DEF QueryFails
  <2> HIDE DEF q
  <2> QED BY <2>2, <2>3, SlotStepKeepsInv
<1> QED BY <1>1, <1>2, <1>3, <1>4 DEF Arrive

\* A slot that is answered without a write.
LEMMA AnswerKeepsInv ==
  ASSUME IInv, NEW r \in Slots, NEW status \in Status,
         NEW token \in Ids \cup {Absent}, Answer(r, status, token),
         UNCHANGED <<users, past>>,
         token # Absent =>
           /\ past[token] # Absent
           /\ past[token] = [email |-> Lower[req[r].raw], hash |-> Hash(req[r].password)]
  PROVE  IInv'
<1> DEFINE b == req[r]
           q == [b EXCEPT !.pc = "done", !.status = status, !.token = token]
<1>1. req \in [Slots -> Request] /\ b \in Request
  BY DEF IInv, TypeOK
<1>2. /\ q \in Request /\ q.pc = "done" /\ q.token = token
      /\ q.raw = b.raw /\ q.password = b.password
  <2> HIDE DEF b
  <2> QED BY <1>1, Constants DEF Request
<1>3. req' = [req EXCEPT ![r] = q]
  BY <1>1 DEF Answer, Request
<1> HIDE DEF q
<1> QED BY <1>2, <1>3, SlotStepKeepsInv

\* The INSERT of a registration, with the reply it gets.
LEMMA InsertKeepsInv ==
  ASSUME IInv, NEW r \in Slots, NEW id \in Ids, NEW status \in Status,
         NEW token \in {id, Absent},
         req[r].pc = "hash", ~Taken(Lower[req[r].raw]), past[id] = Absent,
         users' = [users EXCEPT ![id] =
                     [email |-> Lower[req[r].raw], hash |-> Hash(req[r].password)]],
         past' = [past EXCEPT ![id] =
                     [email |-> Lower[req[r].raw], hash |-> Hash(req[r].password)]],
         Answer(r, status, token)
  PROVE  IInv'
<1> DEFINE row == [email |-> Lower[req[r].raw], hash |-> Hash(req[r].password)]
           b == req[r]
           q == [b EXCEPT !.pc = "done", !.status = status, !.token = token]
<1>1. row \in Account /\ row # Absent /\ row.email = Lower[req[r].raw]
  BY LowerAssumption, AbsentAssumption DEF IInv, AwaitInv, Account
<1>2. req \in [Slots -> Request] /\ b \in Request
  BY DEF IInv, TypeOK
<1>3. /\ q \in Request /\ q.pc = "done" /\ q.token = token
      /\ q.raw = b.raw /\ q.password = b.password
  <2> HIDE DEF b
  <2> QED BY <1>2, Constants DEF Request
<1>4. /\ req' \in [Slots -> Request] /\ req'[r] = q
      /\ \A s \in Slots \ {r} : req'[s] = req[s]
  <2>1. req' = [req EXCEPT ![r] = q]
    BY <1>2 DEF Answer, Request
  <2> HIDE DEF q
  <2> QED BY <1>2, <1>3, <2>1
<1>5. /\ users' \in [Ids -> Account \cup {Absent}] /\ past' \in [Ids -> Account \cup {Absent}]
      /\ users'[id] = row /\ past'[id] = row
      /\ \A i \in Ids \ {id} : users'[i] = users[i] /\ past'[i] = past[i]
  <2> HIDE DEF row
  <2> QED BY <1>1 DEF IInv, TypeOK, row
<1>6. TypeOK'
  BY <1>4, <1>5 DEF TypeOK
<1>7. EmailsUnique'
  BY <1>1, <1>5 DEF IInv, EmailsUnique, Taken
<1>8. TokenEarned'
  <2> SUFFICES ASSUME NEW s \in Slots, req'[s].token # Absent
               PROVE  past'[req'[s].token] =
                        [email |-> Lower[req'[s].raw], hash |-> Hash(req'[s].password)]
    BY DEF TokenEarned
  <2>1. CASE s = r
    BY <2>1, <1>3, <1>4, <1>5
  <2>2. CASE s # r
    <3>1. req[s] \in Request /\ req'[s] = req[s]
      BY <2>2, <1>2, <1>4
    <3>2. req[s].token \in Ids
      BY <3>1 DEF Request
    <3>3. past[req[s].token] = [email |-> Lower[req[s].raw], hash |-> Hash(req[s].password)]
      BY <3>1 DEF IInv, TokenEarned
    <3>4. past[req[s].token] # Absent
      BY <3>1, <2>2 DEF IInv, AwaitInv
    <3> QED BY <3>1, <3>2, <3>3, <3>4, <1>5
  <2> QED BY <2>1, <2>2
<1>9. PastInv'
  BY <1>5 DEF IInv, PastInv
<1>10. AwaitInv'
  <2> SUFFICES ASSUME NEW s \in Slots
               PROVE  AwaitInv!(s)'
    BY DEF AwaitInv
  <2>1. CASE s = r
    BY <2>1, <1>1, <1>3, <1>4, <1>5
  <2>2. CASE s # r
    <3>1. req[s] \in Request /\ req'[s] = req[s] /\ AwaitInv!(s)
      BY <2>2, <1>2, <1>4 DEF IInv, AwaitInv
    <3>2. req[s].token \in Ids \cup {Absent}
      BY <3>1 DEF Request
    <3> QED BY <3>1, <3>2, <1>5
  <2> QED BY <2>1, <2>2
<1> QED BY <1>6, <1>7, <1>8, <1>9, <1>10 DEF IInv

LEMMA SaveKeepsInv ==
  ASSUME IInv, NEW r \in Slots, RegisterSave(r)
  PROVE  IInv'
<1> DEFINE row == [email |-> Lower[req[r].raw], hash |-> Hash(req[r].password)]
<1>1. req[r].pc = "hash"
  BY DEF RegisterSave
<1>2. ASSUME NEW id \in Ids, ~Taken(Lower[req[r].raw]), past[id] = Absent,
             users' = [users EXCEPT ![id] = row], past' = [past EXCEPT ![id] = row],
             Answer(r, 201, id) \/ Answer(r, 500, Absent)
      PROVE  IInv'
  BY <1>1, <1>2, InsertKeepsInv, Constants
<1>3. ASSUME Answer(r, 409, Absent) \/ Answer(r, 500, Absent), UNCHANGED <<users, past>>
      PROVE  IInv'
  BY <1>3, AnswerKeepsInv, Constants
<1> QED BY <1>2, <1>3 DEF RegisterSave

LEMMA VerifyKeepsInv ==
  ASSUME IInv, NEW r \in Slots, LoginVerify(r)
  PROVE  IInv'
<1>1. req[r].pc \in {"verify", "failed"} /\ UNCHANGED <<users, past>>
  BY DEF LoginVerify
<1>2. CASE Answer(r, 401, Absent)
  BY <1>1, <1>2, AnswerKeepsInv, Constants
<1>3. ASSUME past[req[r].subject].hash = Hash(req[r].password),
             Answer(r, 200, req[r].subject)
      PROVE  IInv'
  <2>1. /\ req[r].subject \in Ids /\ past[req[r].subject] # Absent
        /\ past[req[r].subject].email = Lower[req[r].raw]
    BY <1>1 DEF IInv, AwaitInv
  <2>2. past[req[r].subject] =
          [email |-> Lower[req[r].raw], hash |-> Hash(req[r].password)]
    BY <1>3, <2>1 DEF IInv, TypeOK, Account
  <2> QED BY <1>1, <1>3, <2>1, <2>2, AnswerKeepsInv, Constants
<1> QED BY <1>2, <1>3 DEF LoginVerify

LEMMA FailureKeepsInv ==
  ASSUME IInv, NEW r \in Slots, ArgonFails(r)
  PROVE  IInv'
<1> DEFINE b == req[r]
           q == [b EXCEPT !.pc = "failed"]
<1>1. /\ req \in [Slots -> Request] /\ b \in Request /\ b.pc = "verify"
      /\ UNCHANGED <<users, past>>
  BY DEF IInv, TypeOK, ArgonFails
<1>2. /\ q \in Request /\ q.pc = "failed" /\ q.token = b.token /\ q.raw = b.raw
      /\ q.password = b.password /\ q.subject = b.subject
  <2> HIDE DEF b
  <2> QED BY <1>1, Constants DEF Request
<1>3. req' = [req EXCEPT ![r] = q]
  BY <1>1 DEF ArgonFails, Request
<1>4. /\ b.raw \in RawEmails /\ b.password \in Passwords /\ b.token = Absent
      /\ b.subject \in Ids /\ past[b.subject] # Absent
      /\ past[b.subject].email = Lower[b.raw]
  BY <1>1 DEF IInv, AwaitInv
<1> HIDE DEF q, b
<1> QED BY <1>1, <1>2, <1>3, <1>4, SlotStepKeepsInv

LEMMA EnvironmentKeepsInv ==
  ASSUME IInv, \/ \E r \in Slots : Deliver(r)
               \/ \E id \in Ids : DeleteAccount(id)
               \/ Crash
  PROVE  IInv'
<1>1. ASSUME NEW r \in Slots, Deliver(r)
      PROVE  IInv'
  BY <1>1, IdleIsRequest, SlotStepKeepsInv DEF Deliver
<1>2. ASSUME NEW id \in Ids, DeleteAccount(id)
      PROVE  IInv'
  <2>1. users' = [users EXCEPT ![id] = Absent] /\ UNCHANGED <<past, req>>
    BY <1>2 DEF DeleteAccount
  <2>2. TypeOK'
    BY <2>1 DEF IInv, TypeOK
  <2>3. EmailsUnique' /\ PastInv'
    BY <2>1 DEF IInv, TypeOK, EmailsUnique, PastInv
  <2> QED BY <2>1, <2>2, <2>3 DEF IInv, TokenEarned, AwaitInv
<1>3. CASE Crash
  <2>1. \A s \in Slots : req'[s] = Idle
    BY <1>3 DEF Crash
  <2>2. TypeOK'
    BY <1>3, IdleIsRequest DEF IInv, TypeOK, Crash
  <2>3. TokenEarned' /\ AwaitInv'
    BY <2>1, IdleIsRequest DEF TokenEarned, AwaitInv
  <2> QED BY <1>3, <2>2, <2>3 DEF Crash, IInv, EmailsUnique, PastInv
<1> QED BY <1>1, <1>2, <1>3

LEMMA InitInv == Init => IInv
<1> SUFFICES ASSUME Init PROVE IInv
  OBVIOUS
<1>1. \A s \in Slots : req[s] = Idle
  BY DEF Init
<1>2. TypeOK
  BY IdleIsRequest DEF Init, TypeOK
<1>3. TokenEarned /\ AwaitInv
  BY <1>1, IdleIsRequest DEF TokenEarned, AwaitInv
<1>4. EmailsUnique /\ PastInv
  BY DEF Init, EmailsUnique, PastInv
<1> QED BY <1>2, <1>3, <1>4 DEF IInv

LEMMA NextKeepsInv == IInv /\ [Next]_vars => IInv'
<1> SUFFICES ASSUME IInv, [Next]_vars PROVE IInv'
  OBVIOUS
<1>1. CASE UNCHANGED vars
  BY <1>1 DEF vars, IInv, TypeOK, EmailsUnique, TokenEarned, PastInv, AwaitInv, Taken
<1>2. CASE Next
  BY <1>2, ArriveKeepsInv, SaveKeepsInv, VerifyKeepsInv, FailureKeepsInv,
     EnvironmentKeepsInv DEF Next
<1> QED BY <1>1, <1>2

\* The inductive invariant holds in every reachable state.
THEOREM Invariance == Spec => []IInv
BY InitInv, NextKeepsInv, PTL DEF Spec

\* Every variable keeps its type, whatever the requests and crashes.
THEOREM TypeCorrect == Spec => []TypeOK
<1>1. IInv => TypeOK
  BY DEF IInv
<1> QED BY <1>1, Invariance, PTL

\* However many registrations race between their SELECT and their INSERT, no
\* two accounts share an email.
THEOREM UniqueEmails == Spec => []EmailsUnique
<1>1. IInv => EmailsUnique
  BY DEF IInv
<1> QED BY <1>1, Invariance, PTL

\* A token is only handed to whoever gave its account's email and password.
THEOREM TokensEarned == Spec => []TokenEarned
<1>1. IInv => TokenEarned
  BY DEF IInv
<1> QED BY <1>1, Invariance, PTL

-----------------------------------------------------------------------------
(* What one step may answer. *)

\* Answer sets the status and keeps the inputs and the operation.
LEMMA AnswerEffect ==
  ASSUME IInv, NEW r \in Slots, NEW status, NEW token, Answer(r, status, token)
  PROVE  /\ req'[r].status = status /\ req'[r].op = req[r].op
         /\ req'[r].raw = req[r].raw /\ req'[r].password = req[r].password
         /\ \A s \in Slots \ {r} : req'[s] = req[s]
<1>1. req \in [Slots -> Request]
  BY DEF IInv, TypeOK
<1> QED BY <1>1 DEF Answer, Request

\* What a request that has just arrived holds, whichever way it went.
LEMMA ArriveEffect ==
  ASSUME IInv, NEW r \in Slots, NEW raw \in RawEmails, NEW password \in Passwords
  PROVE  /\ RegisterFind(r, raw, password) =>
              /\ req'[r].op = "register" /\ req'[r].raw = raw
              /\ (req'[r].status = 409 /\ Taken(Lower[raw])) \/ req'[r].status = 0
              /\ \A s \in Slots \ {r} : req'[s] = req[s]
         /\ LoginFind(r, raw, password) =>
              /\ req'[r].op = "login" /\ req'[r].raw = raw /\ req'[r].password = password
              /\ (req'[r].status = 401 /\ ~Taken(Lower[raw])) \/ req'[r].status = 0
              /\ \A s \in Slots \ {r} : req'[s] = req[s]
<1>1. req \in [Slots -> Request]
  BY DEF IInv, TypeOK
<1>2. ASSUME RegisterFind(r, raw, password)
      PROVE  /\ req'[r].op = "register" /\ req'[r].raw = raw
             /\ (req'[r].status = 409 /\ Taken(Lower[raw])) \/ req'[r].status = 0
             /\ \A s \in Slots \ {r} : req'[s] = req[s]
  BY <1>1, <1>2 DEF RegisterFind, Begin, Idle
<1>3. ASSUME LoginFind(r, raw, password)
      PROVE  /\ req'[r].op = "login" /\ req'[r].raw = raw /\ req'[r].password = password
             /\ (req'[r].status = 401 /\ ~Taken(Lower[raw])) \/ req'[r].status = 0
             /\ \A s \in Slots \ {r} : req'[s] = req[s]
  <2>1. CASE /\ ~Taken(Lower[raw])
             /\ req' = [req EXCEPT ![r] =
                  [Begin("login", raw, password) EXCEPT !.pc = "done", !.status = 401]]
    BY <1>1, <2>1 DEF Begin, Idle
  <2>2. CASE \E id \in Ids : req' = [req EXCEPT ![r] =
                  [Begin("login", raw, password) EXCEPT !.pc = "verify", !.subject = id]]
    BY <1>1, <2>2 DEF Begin, Idle
  <2> QED BY <1>3, <2>1, <2>2 DEF LoginFind
<1> QED BY <1>2, <1>3

\* The other steps: what they may answer, and which slots they leave alone.
LEMMA OtherEffects ==
  ASSUME IInv, NEW r \in Slots
  PROVE  /\ RegisterSave(r) =>
              /\ \/ req'[r].status \in {201, 500}
                 \/ req'[r].status = 409 /\ Taken(Lower[req'[r].raw])
              /\ \A s \in Slots \ {r} : req'[s] = req[s]
         /\ LoginVerify(r) =>
              /\ \/ req'[r].status = 200
                 \/ /\ req'[r].status = 401
                    /\ \/ req[r].pc = "failed"
                       \/ past[req[r].subject].hash # Hash(req[r].password)
              /\ req'[r].raw = req[r].raw /\ req'[r].password = req[r].password
              /\ \A s \in Slots \ {r} : req'[s] = req[s]
         /\ \A id \in Ids : Me(r, id) =>
              /\ req'[r].op = "me" /\ req'[r].status \in {200, 401}
              /\ \A s \in Slots \ {r} : req'[s] = req[s]
         /\ QueryFails(r) =>
              /\ req'[r].status = 500 /\ \A s \in Slots \ {r} : req'[s] = req[s]
         /\ ArgonFails(r) => \A s \in Slots : req'[s].status = req[s].status
         /\ Deliver(r) =>
              /\ req'[r].status = 0 /\ \A s \in Slots \ {r} : req'[s] = req[s]
         /\ Crash => \A s \in Slots : req'[s].status = 0
<1>1. req \in [Slots -> Request]
  BY DEF IInv, TypeOK
<1>2. RegisterSave(r) =>
        /\ \/ req'[r].status \in {201, 500}
           \/ req'[r].status = 409 /\ Taken(Lower[req'[r].raw])
        /\ \A s \in Slots \ {r} : req'[s] = req[s]
  BY AnswerEffect DEF RegisterSave
<1>3. LoginVerify(r) =>
        /\ \/ req'[r].status = 200
           \/ /\ req'[r].status = 401
              /\ \/ req[r].pc = "failed"
                 \/ past[req[r].subject].hash # Hash(req[r].password)
        /\ req'[r].raw = req[r].raw /\ req'[r].password = req[r].password
        /\ \A s \in Slots \ {r} : req'[s] = req[s]
  BY AnswerEffect DEF LoginVerify
<1>4. \A id \in Ids : Me(r, id) =>
        /\ req'[r].op = "me" /\ req'[r].status \in {200, 401}
        /\ \A s \in Slots \ {r} : req'[s] = req[s]
  BY <1>1 DEF Me, Idle
<1>5. Deliver(r) => req'[r].status = 0 /\ \A s \in Slots \ {r} : req'[s] = req[s]
  BY <1>1 DEF Deliver, Idle
<1>6. Crash => \A s \in Slots : req'[s].status = 0
  BY DEF Crash, Idle
<1>7. QueryFails(r) =>
        req'[r].status = 500 /\ \A s \in Slots \ {r} : req'[s] = req[s]
  BY <1>1 DEF QueryFails, Idle
<1>8. ArgonFails(r) => \A s \in Slots : req'[s].status = req[s].status
  BY <1>1 DEF ArgonFails, Request
<1> QED BY <1>2, <1>3, <1>4, <1>5, <1>6, <1>7, <1>8

\* A registration is told of a conflict only if the email is taken: neither a
\* failure of the database nor anything else is reported as one.
THEOREM Conflicts == Spec => ConflictJustified
<1> DEFINE A == \A r \in Slots : req'[r].status = 409 /\ req[r].status # 409 =>
                  Taken(Lower[req'[r].raw])
<1>1. IInv /\ [Next]_vars => [A]_vars
  <2> SUFFICES ASSUME IInv, Next, NEW s \in Slots,
                      req'[s].status = 409, req[s].status # 409
               PROVE  Taken(Lower[req'[s].raw])
    OBVIOUS
  <2>1. ASSUME NEW r \in Slots, \/ Arrive(r) \/ RegisterSave(r) \/ LoginVerify(r)
                                \/ ArgonFails(r) \/ Deliver(r)
        PROVE  Taken(Lower[req'[s].raw])
    BY <2>1, ArriveEffect, OtherEffects DEF Arrive
  <2>2. ASSUME NEW id \in Ids, DeleteAccount(id)
        PROVE  FALSE
    BY <2>2 DEF DeleteAccount
  <2>3. CASE Crash
    BY <2>3, OtherEffects
  <2> QED BY <2>1, <2>2, <2>3 DEF Next
<1> QED BY <1>1, Invariance, PTL DEF Spec, ConflictJustified

\* A login is refused only if no account has these credentials at that moment,
\* the account it was checking was deleted under it, or argon2 failed.
THEOREM Refusals == Spec => RefusalJustified
<1> DEFINE Justified(r) ==
             \/ req[r].subject # Absent /\ users[req[r].subject] = Absent
             \/ req[r].pc = "failed"
             \/ ~\E id \in Ids : users[id] =
                  [email |-> Lower[req'[r].raw], hash |-> Hash(req'[r].password)]
           A == \A r \in Slots :
                  req'[r].op = "login" /\ req'[r].status = 401 /\ req[r].status # 401 =>
                    Justified(r)
<1>1. IInv /\ [Next]_vars => [A]_vars
  <2> SUFFICES ASSUME IInv, Next, NEW s \in Slots, req'[s].op = "login",
                      req'[s].status = 401, req[s].status # 401
               PROVE  Justified(s)
    OBVIOUS
  <2> HIDE DEF Justified
  <2>1. ASSUME NEW r \in Slots, NEW raw \in RawEmails, NEW password \in Passwords,
               RegisterFind(r, raw, password) \/ LoginFind(r, raw, password)
        PROVE  Justified(s)
    <3>1. /\ s = r /\ ~Taken(Lower[raw])
          /\ req'[s].raw = raw /\ req'[s].password = password
      BY <2>1, ArriveEffect
    <3>2. [email |-> Lower[raw], hash |-> Hash(password)] # Absent
      BY LowerAssumption, AbsentAssumption DEF Account
    <3> QED BY <3>1, <3>2 DEF Justified, Taken
  <2>2. ASSUME NEW r \in Slots, LoginVerify(r)
        PROVE  Justified(s)
    <3>1. /\ s = r
          /\ req[s].pc = "failed" \/ past[req[s].subject].hash # Hash(req[s].password)
          /\ req'[s].raw = req[s].raw /\ req'[s].password = req[s].password
      BY <2>2, OtherEffects
    <3>2. /\ req[s].subject \in Ids /\ past[req[s].subject] # Absent
          /\ past[req[s].subject].email = Lower[req[s].raw]
          /\ req[s].raw \in RawEmails /\ req[s].password \in Passwords
      BY <2>2, <3>1 DEF IInv, AwaitInv, LoginVerify
    <3>3. [email |-> Lower[req[s].raw], hash |-> Hash(req[s].password)] # Absent
      BY <3>2, LowerAssumption, AbsentAssumption DEF Account
    <3>4. CASE users[req[s].subject] = Absent
      BY <3>2, <3>4, AbsentAssumption DEF Justified
    <3>5. ASSUME users[req[s].subject] # Absent, req[s].pc # "failed", NEW id \in Ids,
                 users[id] = [email |-> Lower[req[s].raw], hash |-> Hash(req[s].password)]
          PROVE  FALSE
      <4>1. users[id].email = Lower[req[s].raw] /\ users[id].hash = Hash(req[s].password)
        BY <3>5
      <4>2. users[id] # Absent
        BY <3>3, <3>5
      <4>3. users[req[s].subject] = past[req[s].subject]
        BY <3>2, <3>5 DEF IInv, PastInv
      <4>4. id = req[s].subject
        BY <3>2, <3>5, <4>1, <4>2, <4>3 DEF IInv, EmailsUnique
      <4> QED BY <3>1, <3>5, <4>1, <4>3, <4>4
    <3> QED BY <3>1, <3>4, <3>5 DEF Justified
  <2>3. ASSUME NEW r \in Slots, \/ \E id \in Ids : Me(r, id)
                                \/ RegisterSave(r) \/ QueryFails(r) \/ ArgonFails(r)
                                \/ Deliver(r)
        PROVE  FALSE
    BY <2>3, OtherEffects
  <2>4. ASSUME NEW id \in Ids, DeleteAccount(id)
        PROVE  FALSE
    BY <2>4 DEF DeleteAccount
  <2>5. ~Crash
    BY OtherEffects
  <2> QED BY <2>1, <2>2, <2>3, <2>4, <2>5 DEF Next, Arrive
<1> QED BY <1>1, Invariance, PTL DEF Spec, RefusalJustified
-----------------------------------------------------------------------------
(* The lifetime of a session. *)

LEMMA DurationsAreNumbers ==
  ASSUME NEW text \in Texts
  PROVE  parseDurationToMs(text) \in Nat
<1>1. CASE text.unit = "none"
  BY <1>1 DEF Texts, parseDurationToMs
<1>2. CASE text.unit # "none"
  <2>1. UNIT_MULTIPLIERS_MS[text.unit] \in Nat
    BY <1>2 DEF Texts, UNIT_MULTIPLIERS_MS
  <2>2. \A n, k \in Nat : n * k \in Nat
    OBVIOUS
  <2> QED
    BY <1>2, <2>1, <2>2 DEF Texts, parseDurationToMs
<1> QED
  BY <1>1, <1>2

\* The cookie of a session outlives its token, but not by a second, for every
\* duration that parseDurationToMs understands: the token loses what is left of
\* the second it is issued in, and both lose the same milliseconds of the lifetime.
THEOREM CookieOutlivesToken ==
  ASSUME NEW text \in Texts, NEW issued \in Nat, NEW arrived \in Nat, issued <= arrived
  PROVE  Lasts(text, issued, arrived)
<1> DEFINE ms == parseDurationToMs(text)
<1>1. ms \in Nat
  BY DurationsAreNumbers
<1> HIDE DEF ms
<1>2. \A n \in Nat : n \div 1000 \in Nat /\ n % 1000 \in 0..999
                   /\ n = 1000 * (n \div 1000) + (n % 1000)
  OBVIOUS
<1>3. /\ \A from \in Nat : CookieEnds(from, text) = from + 1000 * (ms \div 1000)
      /\ TokenEnds(issued, text) = 1000 * ((issued \div 1000) + (ms \div 1000))
  BY DEF CookieEnds, TokenEnds, maxAge, expiresIn, ms
<1> QED
  BY <1>1, <1>2, <1>3 DEF Lasts

=============================================================================
