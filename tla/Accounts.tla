------------------------------ MODULE Accounts ------------------------------
(***************************************************************************)
(* Registration and login of apps/api: AuthController and AuthService over *)
(* the users table.  Both handlers read the table, then await argon2 with  *)
(* what they read in hand; registration inserts after that, with nothing   *)
(* but the unique index on the email to tell it that another registration  *)
(* came first.                                                             *)
(*                                                                         *)
(* A password hash is the password under the constructor Hash: all the     *)
(* code does with it is compare.  A token is the id in its subject.        *)
(***************************************************************************)
EXTENDS Naturals, FiniteSets

CONSTANTS
  RawEmails,  \* e-mail addresses as clients type them
  Emails,     \* the same in lower case
  Lower,      \* String.prototype.toLowerCase on RawEmails
  Passwords,
  Ids,        \* account ids; bounds the accounts ever created
  Absent,     \* no row, no token, no account
  Slots       \* bounds the requests in flight

Hash(password) == [argon2id |-> password]

Account == [email : Emails, hash : {Hash(p) : p \in Passwords}]

Pc == {"idle", "hash", "verify", "failed", "done"}
Op == {"none", "register", "login", "me"}
Status == {0, 200, 201, 401, 409, 500}

Request ==
  [pc : Pc, op : Op, raw : RawEmails \cup {Absent}, password : Passwords \cup {Absent},
   subject : Ids \cup {Absent}, status : Status, token : Ids \cup {Absent}]

ASSUME LowerAssumption == Lower \in [RawEmails -> Emails]

ASSUME AbsentAssumption ==
  /\ Absent \notin Account
  /\ Absent \notin Ids \cup Emails \cup RawEmails \cup Passwords

VARIABLES
  users,  \* the users table
  past,   \* history: every account ever inserted, by id
  req     \* the requests in flight, one per slot

vars == <<users, past, req>>

-----------------------------------------------------------------------------

Idle == [pc |-> "idle", op |-> "none", raw |-> Absent, password |-> Absent,
         subject |-> Absent, status |-> 0, token |-> Absent]

Taken(email) == \E id \in Ids : users[id] # Absent /\ users[id].email = email

\* The reply of a slot whose handler returned or threw; the inputs stay for
\* the properties to refer to.
Answer(r, status, token) ==
  req' = [req EXCEPT ![r].pc = "done", ![r].status = status, ![r].token = token]

Begin(op, raw, password) ==
  [Idle EXCEPT !.op = op, !.raw = raw, !.password = password]

\* register: the SELECT by lower-cased email, then argon2.hash is awaited.
RegisterFind(r, raw, password) ==
  /\ req[r].pc = "idle"
  /\ req' = [req EXCEPT ![r] =
       IF Taken(Lower[raw])
         THEN [Begin("register", raw, password) EXCEPT !.pc = "done", !.status = 409]
         ELSE [Begin("register", raw, password) EXCEPT !.pc = "hash"]]
  /\ UNCHANGED <<users, past>>

\* Mutant: the email column has no unique index.
UnindexedRegisterSave(r) ==
  LET row == [email |-> Lower[req[r].raw], hash |-> Hash(req[r].password)]
  IN
  /\ req[r].pc = "hash"
  /\ \/ \E id \in Ids : /\ past[id] = Absent
                       /\ users' = [users EXCEPT ![id] = row]
                       /\ past' = [past EXCEPT ![id] = row]
                       /\ Answer(r, 201, id)
     \/ Answer(r, 500, Absent) /\ UNCHANGED <<users, past>>

\* Mutant: the password is stored as it came.
PlainRegisterSave(r) ==
  LET row == [email |-> Lower[req[r].raw], hash |-> req[r].password]
  IN
  /\ req[r].pc = "hash"
  /\ \/ \E id \in Ids : /\ past[id] = Absent /\ ~Taken(row.email)
                       /\ users' = [users EXCEPT ![id] = row]
                       /\ past' = [past EXCEPT ![id] = row]
                       /\ Answer(r, 201, id)
     \/ Answer(r, 500, Absent) /\ UNCHANGED <<users, past>>

\* Mutant: every failure of the INSERT is taken for a duplicate.
BlanketRegisterSave(r) ==
  LET row == [email |-> Lower[req[r].raw], hash |-> Hash(req[r].password)]
  IN
  /\ req[r].pc = "hash"
  /\ \/ \E id \in Ids : /\ past[id] = Absent /\ ~Taken(row.email)
                       /\ users' = [users EXCEPT ![id] = row]
                       /\ past' = [past EXCEPT ![id] = row]
                       /\ Answer(r, 201, id)
     \/ Answer(r, 409, Absent) /\ UNCHANGED <<users, past>>

\* register: the INSERT.  The unique index answers 23505 to the loser of a
\* race, which becomes a 409 too; any other error of the database, which may
\* strike before or after the commit, is rethrown and becomes a 500.
RegisterSave(r) ==
  LET email == Lower[req[r].raw]
      row   == [email |-> email, hash |-> Hash(req[r].password)]
      Insert(id) == /\ past[id] = Absent
                    /\ users' = [users EXCEPT ![id] = row]
                    /\ past' = [past EXCEPT ![id] = row]
  IN
  /\ req[r].pc = "hash"
  /\ \/ /\ ~Taken(email)
        /\ \E id \in Ids : Insert(id) /\ (Answer(r, 201, id) \/ Answer(r, 500, Absent))
     \/ Taken(email) /\ Answer(r, 409, Absent) /\ UNCHANGED <<users, past>>
     \/ Answer(r, 500, Absent) /\ UNCHANGED <<users, past>>

\* Mutant: the email is looked up as it was typed.
CaseSensitiveLoginFind(r, raw, password) ==
  /\ req[r].pc = "idle"
  /\ \/ /\ ~Taken(raw)
        /\ req' = [req EXCEPT ![r] =
             [Begin("login", raw, password) EXCEPT !.pc = "done", !.status = 401]]
     \/ \E id \in Ids :
          /\ users[id] # Absent /\ users[id].email = raw
          /\ req' = [req EXCEPT ![r] =
               [Begin("login", raw, password) EXCEPT !.pc = "verify", !.subject = id]]
  /\ UNCHANGED <<users, past>>

\* login: the SELECT by lower-cased email, then argon2.verify is awaited.
LoginFind(r, raw, password) ==
  /\ req[r].pc = "idle"
  /\ \/ /\ ~Taken(Lower[raw])
        /\ req' = [req EXCEPT ![r] =
             [Begin("login", raw, password) EXCEPT !.pc = "done", !.status = 401]]
     \/ \E id \in Ids :
          /\ users[id] # Absent /\ users[id].email = Lower[raw]
          /\ req' = [req EXCEPT ![r] =
               [Begin("login", raw, password) EXCEPT !.pc = "verify", !.subject = id]]
  /\ UNCHANGED <<users, past>>

\* Mutant: verify is not awaited, and a promise is truthy.
UnawaitedLoginVerify(r) ==
  /\ req[r].pc \in {"verify", "failed"}
  /\ Answer(r, 200, req[r].subject)
  /\ UNCHANGED <<users, past>>

\* Mutant: a mismatch neither returns nor throws.
SilentLoginVerify(r) ==
  /\ req[r].pc = "verify"
  /\ past[req[r].subject].hash = Hash(req[r].password)
  /\ Answer(r, 200, req[r].subject)
  /\ UNCHANGED <<users, past>>

\* login: the comparison with the hash that was read, whose account may be
\* gone by now (past[id] is the row as it was read: no code rewrites one).  A
\* failure of argon2 is caught and taken for a mismatch.
LoginVerify(r) ==
  /\ req[r].pc \in {"verify", "failed"}
  /\ IF req[r].pc = "verify" /\ past[req[r].subject].hash = Hash(req[r].password)
       THEN Answer(r, 200, req[r].subject)
       ELSE Answer(r, 401, Absent)
  /\ UNCHANGED <<users, past>>

\* argon2.verify rejects instead of comparing.
ArgonFails(r) ==
  /\ req[r].pc = "verify"
  /\ req' = [req EXCEPT ![r].pc = "failed"]
  /\ UNCHANGED <<users, past>>

\* me, with a session whose token has subject id: 401 once the account is gone.
Me(r, id) ==
  /\ req[r].pc = "idle"
  /\ past[id] # Absent
  /\ req' = [req EXCEPT ![r] = [Idle EXCEPT
       !.pc = "done", !.op = "me", !.subject = id,
       !.status = IF users[id] = Absent THEN 401 ELSE 200]]
  /\ UNCHANGED <<users, past>>

\* The SELECT of a handler fails, which nothing catches.
QueryFails(r) ==
  /\ req[r].pc = "idle"
  /\ \E op \in {"register", "login", "me"} :
       req' = [req EXCEPT ![r] = [Idle EXCEPT !.pc = "done", !.op = op, !.status = 500]]
  /\ UNCHANGED <<users, past>>

Deliver(r) ==
  /\ req[r].pc = "done"
  /\ req' = [req EXCEPT ![r] = Idle]
  /\ UNCHANGED <<users, past>>

\* An operator deletes an account; no endpoint does.
DeleteAccount(id) ==
  /\ users[id] # Absent
  /\ users' = [users EXCEPT ![id] = Absent]
  /\ UNCHANGED <<past, req>>

\* The process exits; what was committed stays.
Crash ==
  /\ req' = [r \in Slots |-> Idle]
  /\ UNCHANGED <<users, past>>

-----------------------------------------------------------------------------

Init ==
  /\ users = [id \in Ids |-> Absent]
  /\ past = [id \in Ids |-> Absent]
  /\ req = [r \in Slots |-> Idle]

Arrive(r) ==
  \/ \E raw \in RawEmails, password \in Passwords :
       RegisterFind(r, raw, password) \/ LoginFind(r, raw, password)
  \/ \E id \in Ids : Me(r, id)
  \/ QueryFails(r)

Next ==
  \/ \E r \in Slots :
       Arrive(r) \/ RegisterSave(r) \/ LoginVerify(r) \/ ArgonFails(r) \/ Deliver(r)
  \/ \E id \in Ids : DeleteAccount(id)
  \/ Crash

Spec == Init /\ [][Next]_vars

\* Node resumes a handler whose await has settled, and argon2 and the
\* database do settle.
Fairness == \A r \in Slots :
  WF_vars(RegisterSave(r) \/ LoginVerify(r)) /\ WF_vars(Deliver(r))

FairSpec == Spec /\ Fairness

-----------------------------------------------------------------------------
(* Properties. *)

\* Every variable has its type: what the table holds of a password is a hash.
TypeOK ==
  /\ users \in [Ids -> Account \cup {Absent}]
  /\ past \in [Ids -> Account \cup {Absent}]
  /\ req \in [Slots -> Request]

\* No two accounts have the same email, in whatever case it was typed and
\* however registrations interleave between their SELECT and their INSERT.
EmailsUnique ==
  \A i, j \in Ids : users[i] # Absent /\ users[j] # Absent
                      /\ users[i].email = users[j].email => i = j

\* Whoever is handed a token gave the email and the password of its account:
\* the loser of a registration race is never logged in to the winner's.
TokenEarned ==
  \A r \in Slots : req[r].token # Absent =>
    past[req[r].token] = [email |-> Lower[req[r].raw], hash |-> Hash(req[r].password)]

\* A login is refused only if no account has these credentials at that moment,
\* the account it was checking was deleted under it, or argon2 failed to compare:
\* the refusal of AuthService.login does not tell the last from a wrong password.
RefusalJustified ==
  [][\A r \in Slots :
       req'[r].op = "login" /\ req'[r].status = 401 /\ req[r].status # 401 =>
         \/ req[r].subject # Absent /\ users[req[r].subject] = Absent
         \/ req[r].pc = "failed"
         \/ ~\E id \in Ids : users[id] =
              [email |-> Lower[req'[r].raw], hash |-> Hash(req'[r].password)]]_vars

\* A registration is told of a conflict only if the email is taken; a failure
\* of the database is never reported as one.
ConflictJustified ==
  [][\A r \in Slots : req'[r].status = 409 /\ req[r].status # 409 =>
       Taken(Lower[req'[r].raw])]_vars

\* Every request is answered or dies with the process.
EveryRequestEnds == \A r \in Slots : req[r].pc # "idle" ~> req[r].pc = "idle"
=============================================================================
