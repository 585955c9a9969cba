---------------------------- MODULE AccountsProofs ----------------------------
(***************************************************************************)
(* For any Kakao accounts, addresses, requests and window: types, that no  *)
(* account is inactive without a date, and that links lead to the user of  *)
(* the address.  The last needs to know what a request remembers of a row: *)
(* the row may be deleted meanwhile, and inserted again by a profile edit, *)
(* so that two requests that remember one key must remember one address.   *)
(* From this, a key names one person as long as its row is there; InTime,  *)
(* which says how long a request stays good for a row, bounds when a       *)
(* withdrawn account can come back.                                        *)
(***************************************************************************)
EXTENDS Accounts, TLAPS

USE EmailAssumption, BoundsAssumption, KakaoAssumption, NoRowAssumption

LoginSteps == {"lookup", "create", "again", "email", "recover", "recover_link", "link"}
KeySteps == {"recover", "recover_link", "link", "withdraw", "profile"}

RecordOK(q) ==
    /\ q.at \in LoginSteps => q.kakao \in Kakao
    /\ q.at \in KeySteps => q.pk \in Pks
    /\ q.at = "profile" => q.row \in Rows /\ q.row.active /\ q.row.deleted = NotDeleted

\* A request remembers the address of the row that it works on.
Remembers(q) == q.at \in KeySteps
Address(q) == IF q.at \in {"withdraw", "profile"} THEN q.row.email ELSE Normal[EmailOf[q.kakao]]

RequestsOK == \A r \in Requests : RecordOK(req[r])
RowsKnown == \A r \in Requests :
    Remembers(req[r]) /\ HasRow(req[r].pk) => user[req[r].pk].email = Address(req[r])
RequestsAgree == \A r, s \in Requests :
    Remembers(req[r]) /\ Remembers(req[s]) /\ req[r].pk = req[s].pk
        => Address(req[r]) = Address(req[s])

IInv == TypeOK /\ RequestsOK /\ NoneInLimbo /\ LinkedByEmail /\ RowsKnown /\ RequestsAgree

LEMMA RequestRecord ==
    ASSUME NEW at \in Steps \cup Answers, NEW k \in Kakao \cup {0}, NEW p \in Pks \cup {0},
           NEW row \in Rows \cup {NoRow}, NEW old \in BOOLEAN
    PROVE  /\ Request(at, k, p, row, old) \in ReqRecords
           /\ Request(at, k, p, row, old).at = at
           /\ Request(at, k, p, row, old).kakao = k
           /\ Request(at, k, p, row, old).pk = p
           /\ Request(at, k, p, row, old).row = row
BY DEF Request, ReqRecords

(* A step of one request, whose record becomes q, keeps what holds of requests. *)
LEMMA RequestStep ==
    ASSUME IInv, NEW r \in Requests, NEW q \in ReqRecords, RecordOK(q),
           Becomes(r, q),
           Remembers(q) => HasRow(q.pk) /\ user[q.pk].email = Address(q)
                           /\ user'[q.pk] = user[q.pk],
           \A s \in Requests \ {r} :
               Remembers(req[s]) /\ user'[req[s].pk] # NoRow
                   => user'[req[s].pk].email = Address(req[s])
    PROVE  req' \in [Requests -> ReqRecords] /\ RequestsOK' /\ RowsKnown' /\ RequestsAgree'
<1>1. req \in [Requests -> ReqRecords]
  BY DEF IInv, TypeOK
<1>2. req' \in [Requests -> ReqRecords]
  BY <1>1 DEF Becomes
<1>3. req'[r] = q /\ \A s \in Requests \ {r} : req'[s] = req[s]
  BY <1>1 DEF Becomes
<1>4. RequestsOK'
  BY <1>3 DEF IInv, RequestsOK, RecordOK
<1>5. RowsKnown'
  BY <1>3 DEF RowsKnown, Remembers, Address, HasRow
<1>6. \A s \in Requests \ {r} :
         Remembers(q) /\ Remembers(req[s]) /\ q.pk = req[s].pk => Address(q) = Address(req[s])
  BY DEF IInv, RowsKnown
<1>7. RequestsAgree'
  <2> SUFFICES ASSUME NEW s \in Requests, NEW t \in Requests,
                      Remembers(req'[s]), Remembers(req'[t]), req'[s].pk = req'[t].pk
               PROVE  Address(req'[s]) = Address(req'[t])
    BY DEF RequestsAgree, Remembers, Address
  <2>1. CASE s = r
    BY <1>3, <1>6, <2>1
  <2>2. CASE s # r
    BY <1>3, <1>6, <2>2 DEF IInv, RequestsAgree
  <2> QED BY <2>1, <2>2
<1> QED BY <1>2, <1>4, <1>5, <1>7

(* The rows keep their addresses: what a request remembers stays true. *)
LEMMA AddressesKept ==
    ASSUME IInv, NEW r \in Requests,
           \A p \in Pks : user'[p] # NoRow => HasRow(p) /\ user'[p].email = user[p].email
    PROVE  \A s \in Requests \ {r} :
               Remembers(req[s]) /\ user'[req[s].pk] # NoRow
                   => user'[req[s].pk].email = Address(req[s])
<1> SUFFICES ASSUME NEW s \in Requests, Remembers(req[s]), user'[req[s].pk] # NoRow
             PROVE  user'[req[s].pk].email = Address(req[s])
  OBVIOUS
<1>1. req[s].pk \in Pks
  BY DEF IInv, RequestsOK, RecordOK, Remembers, KeySteps
<1> QED BY <1>1 DEF IInv, RowsKnown

(* The answer of a request. *)
LEMMA AnswerStep ==
    ASSUME IInv, NEW r \in Requests, NEW a \in Answers, Answer(r, a),
           \A s \in Requests \ {r} :
               Remembers(req[s]) /\ user'[req[s].pk] # NoRow
                   => user'[req[s].pk].email = Address(req[s])
    PROVE  req' \in [Requests -> ReqRecords] /\ RequestsOK' /\ RowsKnown' /\ RequestsAgree'
<1> DEFINE q == Request(a, req[r].kakao, 0, NoRow, FALSE)
<1>1. req[r] \in ReqRecords
  BY DEF IInv, TypeOK
<1>2. req[r].kakao \in Kakao \cup {0}
  BY <1>1 DEF ReqRecords
<1>3. q \in ReqRecords /\ q.at = a
  <2>1. q \in ReqRecords
    BY <1>2 DEF Request, ReqRecords
  <2>2. q.at = a
    BY DEF Request
  <2> QED BY <2>1, <2>2
<1>4. RecordOK(q) /\ ~Remembers(q)
  BY <1>3 DEF RecordOK, Remembers, LoginSteps, KeySteps, Answers
<1>5. Becomes(r, q)
  BY DEF Answer
<1> HIDE DEF q
<1> QED BY <1>3, <1>4, <1>5, RequestStep

(* A step that goes on to another place and writes nothing. *)
LEMMA GoOn ==
    ASSUME IInv, NEW r \in Requests, NEW q \in ReqRecords, RecordOK(q),
           Becomes(r, q),
           UNCHANGED <<user, social, purge, clashes>>,
           Remembers(q) => HasRow(q.pk) /\ user[q.pk].email = Address(q)
    PROVE  IInv'
<1>1. user' = user /\ social' = social /\ purge' = purge /\ clashes' = clashes
  OBVIOUS
<1>2. \A p \in Pks : user'[p] # NoRow => HasRow(p) /\ user'[p].email = user[p].email
  BY <1>1 DEF HasRow
<1>3. req' \in [Requests -> ReqRecords] /\ RequestsOK' /\ RowsKnown' /\ RequestsAgree'
  BY <1>1, <1>2, AddressesKept, RequestStep
<1>4. TypeOK'
  BY <1>1, <1>3 DEF IInv, TypeOK
<1>5. NoneInLimbo' /\ LinkedByEmail'
  BY <1>1 DEF IInv, NoneInLimbo, LinkedByEmail, HasRow
<1> QED BY <1>3, <1>4, <1>5 DEF IInv

(* An answer without a write. *)
LEMMA AnswerOnly ==
    ASSUME IInv, NEW r \in Requests, NEW a \in Answers, Answer(r, a),
           UNCHANGED <<user, social, purge>>, clashes' \in 0..MaxClashes
    PROVE  IInv'
<1>1. user' = user /\ social' = social /\ purge' = purge
  OBVIOUS
<1>2. \A p \in Pks : user'[p] # NoRow => HasRow(p) /\ user'[p].email = user[p].email
  BY <1>1 DEF HasRow
<1>3. req' \in [Requests -> ReqRecords] /\ RequestsOK' /\ RowsKnown' /\ RequestsAgree'
  BY <1>2, AddressesKept, AnswerStep
<1>4. TypeOK'
  BY <1>1, <1>3 DEF IInv, TypeOK
<1>5. NoneInLimbo' /\ LinkedByEmail'
  BY <1>1 DEF IInv, NoneInLimbo, LinkedByEmail, HasRow
<1> QED BY <1>3, <1>4, <1>5 DEF IInv

(* A login step that goes on, perhaps with a user it has found. *)
LEMMA LoginGoesOn ==
    ASSUME IInv, NEW r \in Requests, NEW step \in LoginSteps, NEW p \in Pks \cup {0},
           req[r].at \in LoginSteps, GotoWith(r, step, p),
           UNCHANGED <<user, social, purge, clashes>>,
           step \in KeySteps =>
               p \in Pks /\ HasRow(p) /\ user[p].email = Normal[EmailOf[req[r].kakao]]
    PROVE  IInv'
<1> DEFINE q == Request(step, req[r].kakao, p, req[r].row, req[r].old)
<1>1. req[r] \in ReqRecords /\ req[r].kakao \in Kakao
  BY DEF IInv, TypeOK, RequestsOK, RecordOK
<1>2. q \in ReqRecords
  BY <1>1 DEF Request, ReqRecords, LoginSteps, Steps
<1>3. q.at = step /\ q.kakao = req[r].kakao /\ q.pk = p
  BY DEF Request
<1>4. Becomes(r, q)
  BY DEF GotoWith
<1> HIDE DEF q
<1>5. q.at \notin {"withdraw", "profile"}
  BY <1>3 DEF LoginSteps
<1>6. RecordOK(q)
  BY <1>1, <1>3, <1>5 DEF RecordOK
<1>7. Remembers(q) => HasRow(q.pk) /\ user[q.pk].email = Address(q)
  BY <1>3, <1>5 DEF Remembers, Address
<1> QED BY <1>2, <1>4, <1>6, <1>7, GoOn

(* An answer with a write to one row, which keeps its address. *)
LEMMA WriteAnswer ==
    ASSUME IInv, NEW r \in Requests, NEW a \in Answers, Answer(r, a),
           NEW p \in Pks, HasRow(p), NEW row \in Rows,
           row.email = user[p].email, row.active <=> row.deleted = NotDeleted,
           user' = [user EXCEPT ![p] = row],
           social' \in [Kakao -> Pks \cup {0}],
           \A k \in Kakao : social'[k] = social[k]
                            \/ (social'[k] = p /\ user[p].email = Normal[EmailOf[k]]),
           UNCHANGED <<purge, clashes>>
    PROVE  IInv'
<1>1. user \in [Pks -> Rows \cup {NoRow}]
  BY DEF IInv, TypeOK
<1>2. user' \in [Pks -> Rows \cup {NoRow}]
  BY <1>1
<1>3. user'[p] = row /\ \A o \in Pks \ {p} : user'[o] = user[o]
  BY <1>1
<1>4. row # NoRow
  OBVIOUS
<1>5. \A o \in Pks : user'[o] # NoRow => HasRow(o) /\ user'[o].email = user[o].email
  BY <1>3 DEF HasRow
<1>6. req' \in [Requests -> ReqRecords] /\ RequestsOK' /\ RowsKnown' /\ RequestsAgree'
  BY <1>5, AddressesKept, AnswerStep
<1>7. TypeOK'
  BY <1>2, <1>6 DEF IInv, TypeOK
<1>8. NoneInLimbo'
  BY <1>3 DEF IInv, NoneInLimbo, HasRow
<1>9. LinkedByEmail'
  <2> SUFFICES ASSUME NEW k \in Kakao, social'[k] # 0
               PROVE  user'[social'[k]] # NoRow /\ user'[social'[k]].email = Normal[EmailOf[k]]
    BY DEF LinkedByEmail, HasRow
  <2>1. CASE social'[k] = p /\ user[p].email = Normal[EmailOf[k]]
    BY <1>3, <1>4, <2>1
  <2>2. CASE social'[k] = social[k]
    <3>1. HasRow(social[k]) /\ user[social[k]].email = Normal[EmailOf[k]] /\ social[k] \in Pks
      BY <2>2 DEF IInv, LinkedByEmail, TypeOK
    <3> QED BY <1>3, <1>4, <2>2, <3>1 DEF HasRow
  <2> QED BY <2>1, <2>2
<1> QED BY <1>6, <1>7, <1>8, <1>9 DEF IInv

LEMMA LoginTyped ==
    ASSUME IInv, NEW r \in Requests, req[r].at \in LoginSteps
    PROVE  req[r].kakao \in Kakao /\ social[req[r].kakao] \in Pks \cup {0}
BY DEF IInv, TypeOK, RequestsOK, RecordOK

LEMMA FoundStep ==
    ASSUME IInv, NEW r \in Requests, NEW p \in Pks, NEW save \in {"recover", "recover_link"},
           req[r].at \in LoginSteps,
           UNCHANGED <<user, social, purge, clashes>>,
           HasRow(p), user[p].email = Normal[EmailOf[req[r].kakao]],
           GotoWith(r, save, p) \/ Answer(r, "withdrawn")
    PROVE  IInv'
<1>1. CASE GotoWith(r, save, p)
  <2>1. save \in LoginSteps /\ save # "link"
    BY DEF LoginSteps
  <2> QED BY <1>1, <2>1, LoginGoesOn
<1>2. CASE Answer(r, "withdrawn")
  <2>1. clashes \in 0..MaxClashes /\ "withdrawn" \in Answers
    BY DEF IInv, TypeOK, Answers
  <2> QED BY <1>2, <2>1, AnswerOnly
<1> QED BY <1>1, <1>2

LEMMA LoginStarts ==
    ASSUME IInv, NEW r \in Requests, NEW k \in Kakao, Login(r, k)
    PROVE  IInv'
<1> DEFINE q == Request("lookup", k, 0, NoRow, FALSE)
<1>1. q \in ReqRecords
  BY DEF Request, ReqRecords, Steps
<1>2. q.at = "lookup" /\ q.kakao = k
  BY DEF Request
<1>3. Becomes(r, q)
  BY DEF Login
<1> HIDE DEF q
<1>4. RecordOK(q) /\ ~Remembers(q)
  BY <1>2 DEF RecordOK, Remembers, KeySteps
<1> QED BY <1>1, <1>3, <1>4, GoOn DEF Login

LEMMA LookupKeeps ==
    ASSUME IInv, NEW r \in Requests, Lookup(r)
    PROVE  IInv'
<1> DEFINE p == social[req[r].kakao]
<1>1. req[r].at \in LoginSteps
  BY DEF Lookup, LoginSteps
<1>2. p \in Pks \cup {0} /\ req[r].pk \in Pks \cup {0}
  BY <1>1, LoginTyped DEF IInv, TypeOK, ReqRecords
<1>3. UNCHANGED <<user, social, purge, clashes>> /\ clashes \in 0..MaxClashes
  BY DEF Lookup, IInv, TypeOK
<1>4. \/ p # 0 /\ Answer(r, "ok")
      \/ p # 0 /\ (GotoWith(r, "recover", p) \/ Answer(r, "withdrawn"))
      \/ GotoWith(r, "create", req[r].pk)
      \/ GotoWith(r, "email", req[r].pk)
  BY DEF Lookup, Found, Goto
<1>5. CASE p # 0 /\ Answer(r, "ok")
  BY <1>3, <1>5, AnswerOnly DEF Answers
<1>6. CASE p # 0 /\ (GotoWith(r, "recover", p) \/ Answer(r, "withdrawn"))
  <2>1. p \in Pks
    BY <1>2, <1>6
  <2>2. HasRow(p) /\ user[p].email = Normal[EmailOf[req[r].kakao]]
    BY <1>1, <1>6, LoginTyped DEF IInv, LinkedByEmail
  <2> HIDE DEF p
  <2> QED BY <1>1, <1>3, <1>6, <2>1, <2>2, FoundStep
<1>7. CASE GotoWith(r, "create", req[r].pk)
  <2>1. "create" \in LoginSteps /\ "create" \notin KeySteps
    BY DEF LoginSteps, KeySteps
  <2> QED BY <1>1, <1>2, <1>3, <1>7, <2>1, LoginGoesOn
<1>8. CASE GotoWith(r, "email", req[r].pk)
  <2>1. "email" \in LoginSteps /\ "email" \notin KeySteps
    BY DEF LoginSteps, KeySteps
  <2> QED BY <1>1, <1>2, <1>3, <1>8, <2>1, LoginGoesOn
<1> QED BY <1>4, <1>5, <1>6, <1>7, <1>8

LEMMA FindByEmailKeeps ==
    ASSUME IInv, NEW r \in Requests, FindByEmail(r)
    PROVE  IInv'
<1> DEFINE e == EmailOf[req[r].kakao]
<1>1. req[r].at \in LoginSteps /\ req[r].kakao \in Kakao
  BY LoginTyped DEF FindByEmail, LoginSteps
<1>2. UNCHANGED <<user, social, purge, clashes>> /\ clashes \in 0..MaxClashes
  BY DEF FindByEmail, IInv, TypeOK
<1>3. ASSUME NEW p \in Pks, HasRow(p), user[p].email = e
      PROVE  user[p].email = Normal[EmailOf[req[r].kakao]]
  <2>1. user[p] \in Rows
    BY <1>3 DEF IInv, TypeOK, HasRow
  <2>2. PICK f \in Emails : user[p].email = Normal[f]
    BY <2>1 DEF Rows, Stored
  <2>3. Normal[e] = e
    BY <1>3, <2>2
  <2> QED BY <1>3, <2>3
<1>4. \/ \E p \in Pks : HasRow(p) /\ user[p].email = e
                        /\ (GotoWith(r, "link", p) \/ GotoWith(r, "recover_link", p)
                            \/ Answer(r, "withdrawn"))
      \/ Answer(r, "error")
  BY DEF FindByEmail, Found
<1>5. CASE Answer(r, "error")
  BY <1>2, <1>5, AnswerOnly DEF Answers
<1>6. ASSUME NEW p \in Pks, HasRow(p), user[p].email = e,
             GotoWith(r, "link", p) \/ GotoWith(r, "recover_link", p) \/ Answer(r, "withdrawn")
      PROVE  IInv'
  <2>1. user[p].email = Normal[EmailOf[req[r].kakao]]
    BY <1>3, <1>6
  <2>2. CASE GotoWith(r, "link", p)
    <3>1. "link" \in LoginSteps
      BY DEF LoginSteps
    <3> QED BY <1>1, <1>2, <1>6, <2>1, <2>2, <3>1, LoginGoesOn
  <2>3. CASE GotoWith(r, "recover_link", p) \/ Answer(r, "withdrawn")
    BY <1>1, <1>2, <1>6, <2>1, <2>3, FoundStep
  <2> QED BY <1>6, <2>2, <2>3
<1> QED BY <1>4, <1>5, <1>6

(* A recovery, with or without a link. *)
LEMMA RecoverKeeps ==
    ASSUME IInv, NEW r \in Requests, Recover(r) \/ RecoverLink(r)
    PROVE  IInv'
<1> DEFINE p == req[r].pk
           k == req[r].kakao
           row == Row(user[p].email, TRUE, NotDeleted)
<1>1. p \in Pks /\ k \in Kakao
  BY DEF IInv, RequestsOK, RecordOK, Recover, RecoverLink, LoginSteps, KeySteps
<1>2. clashes \in 0..MaxClashes /\ "ok" \in Answers /\ "error" \in Answers
  BY DEF IInv, TypeOK, Answers
<1>3. CASE Answer(r, "error") /\ UNCHANGED <<user, social, purge, clashes>>
  BY <1>2, <1>3, AnswerOnly
<1>4. CASE /\ HasRow(p) /\ Answer(r, "ok") /\ user' = [user EXCEPT ![p] = row]
           /\ social' = social \/ (req[r].at = "recover_link" /\ social' = [social EXCEPT ![k] = p])
           /\ UNCHANGED <<purge, clashes>>
  <2>1. user[p] \in Rows
    BY <1>1, <1>4 DEF IInv, TypeOK, HasRow
  <2>2. row \in Rows /\ row.email = user[p].email /\ row.active /\ row.deleted = NotDeleted
    BY <2>1 DEF Row, Rows, Ages, NotDeleted
  <2> HIDE DEF row
  <2>3. social \in [Kakao -> Pks \cup {0}]
    BY DEF IInv, TypeOK
  <2>4. social' \in [Kakao -> Pks \cup {0}]
    BY <1>1, <1>4, <2>3
  <2>5. req[r].at = "recover_link" => user[p].email = Normal[EmailOf[k]]
    BY <1>4 DEF IInv, RowsKnown, Remembers, Address, KeySteps
  <2>6. \A j \in Kakao : social'[j] = social[j]
                         \/ (social'[j] = p /\ user[p].email = Normal[EmailOf[j]])
    BY <1>4, <2>3, <2>5
  <2> QED BY <1>1, <1>2, <1>4, <2>2, <2>4, <2>6, WriteAnswer
<1> QED BY <1>3, <1>4 DEF Recover, RecoverLink

LEMMA LinkKeeps ==
    ASSUME IInv, NEW r \in Requests, Link(r)
    PROVE  IInv'
<1> DEFINE p == req[r].pk
           k == req[r].kakao
<1>1. p \in Pks /\ k \in Kakao
  BY DEF IInv, RequestsOK, RecordOK, Link, LoginSteps, KeySteps
<1>2. clashes \in 0..MaxClashes /\ "ok" \in Answers /\ "error" \in Answers
  BY DEF IInv, TypeOK, Answers
<1>3. user' = user /\ purge' = purge /\ clashes' = clashes
  BY DEF Link
<1>4. CASE UNCHANGED social /\ (Answer(r, "ok") \/ Answer(r, "error"))
  BY <1>2, <1>3, <1>4, AnswerOnly
<1>5. CASE HasRow(p) /\ social' = [social EXCEPT ![k] = p] /\ Answer(r, "ok")
  <2>1. social \in [Kakao -> Pks \cup {0}] /\ user \in [Pks -> Rows \cup {NoRow}]
    BY DEF IInv, TypeOK
  <2>2. social' \in [Kakao -> Pks \cup {0}]
    BY <1>1, <1>5, <2>1
  <2>3. user[p].email = Normal[EmailOf[k]]
    BY <1>5 DEF IInv, RowsKnown, Remembers, Address, Link, KeySteps
  <2>4. \A j \in Kakao : social'[j] = social[j]
                         \/ (social'[j] = p /\ user[p].email = Normal[EmailOf[j]])
    BY <1>5, <2>1, <2>3
  <2>5. user[p] \in Rows /\ user' = [user EXCEPT ![p] = user[p]]
    BY <1>1, <1>3, <1>5, <2>1 DEF HasRow
  <2>6. user[p].active <=> user[p].deleted = NotDeleted
    BY <1>1, <1>5 DEF IInv, NoneInLimbo
  <2> HIDE DEF p, k
  <2> QED BY <1>1, <1>2, <1>3, <1>5, <2>2, <2>4, <2>5, <2>6, WriteAnswer
<1>6. CASE social[k] = 0 /\ HasRow(p)
  BY <1>5, <1>6 DEF Link
<1>7. CASE social[k] # 0 \/ ~HasRow(p)
  BY <1>4, <1>7 DEF Link
<1> QED BY <1>6, <1>7

(* A key that nobody holds is not remembered by a request. *)
LEMMA CreateKeeps ==
    ASSUME IInv, NEW r \in Requests, Create(r)
    PROVE  IInv'
<1> DEFINE k == req[r].kakao
           e == Normal[EmailOf[k]]
           row == Row(e, TRUE, NotDeleted)
<1>1. k \in Kakao
  BY LoginTyped DEF Create, LoginSteps
<1>2. PICK p \in Pks : /\ Free(p)
                       /\ user' = [user EXCEPT ![p] = row]
                       /\ social' = [social EXCEPT ![k] = p]
                       /\ Answer(r, "new")
  BY DEF Create, FirstFree
<1>3. purge' = purge /\ clashes' = clashes
  BY DEF Create
<1>4. row \in Rows /\ row.email = e /\ row.active /\ row.deleted = NotDeleted
  <2>1. EmailOf[k] \in Emails
    BY <1>1
  <2>2. e \in Stored
    BY <2>1 DEF Stored
  <2>3. NotDeleted \in Ages
    BY DEF NotDeleted, Ages
  <2> HIDE DEF e
  <2>4. row \in Rows
    BY <2>2, <2>3 DEF Row, Rows
  <2>5. row.email = e /\ row.active /\ row.deleted = NotDeleted
    BY DEF Row
  <2> QED BY <2>4, <2>5
<1> HIDE DEF row
<1>5. user \in [Pks -> Rows \cup {NoRow}] /\ social \in [Kakao -> Pks \cup {0}]
  BY DEF IInv, TypeOK
<1>6. user'[p] = row /\ row # NoRow /\ \A o \in Pks \ {p} : user'[o] = user[o]
  BY <1>2, <1>4, <1>5
<1>7. ~HasRow(p) /\ \A s \in Requests : Busy(s) => req[s].pk # p
  BY <1>2 DEF Free
<1>8. \A s \in Requests \ {r} :
         Remembers(req[s]) /\ user'[req[s].pk] # NoRow
             => user'[req[s].pk].email = Address(req[s])
  <2> SUFFICES ASSUME NEW s \in Requests, Remembers(req[s]), user'[req[s].pk] # NoRow
               PROVE  user'[req[s].pk].email = Address(req[s])
    OBVIOUS
  <2>1. req[s].pk \in Pks \ {p}
    BY <1>7 DEF Busy, Steps, Remembers, IInv, RequestsOK, RecordOK, KeySteps
  <2> QED BY <1>6, <2>1 DEF IInv, RowsKnown, HasRow
<1>9. req' \in [Requests -> ReqRecords] /\ RequestsOK' /\ RowsKnown' /\ RequestsAgree'
  <2>1. "new" \in Answers
    BY DEF Answers
  <2> QED BY <1>2, <1>8, <2>1, AnswerStep
<1>10. TypeOK'
  <2>1. user' \in [Pks -> Rows \cup {NoRow}] /\ social' \in [Kakao -> Pks \cup {0}]
    BY <1>1, <1>2, <1>4, <1>5
  <2> QED BY <1>3, <1>9, <2>1 DEF IInv, TypeOK
<1>11. NoneInLimbo'
  BY <1>4, <1>6 DEF IInv, NoneInLimbo, HasRow
<1>12. LinkedByEmail'
  <2> SUFFICES ASSUME NEW j \in Kakao, social'[j] # 0
               PROVE  user'[social'[j]] # NoRow /\ user'[social'[j]].email = Normal[EmailOf[j]]
    BY DEF LinkedByEmail, HasRow
  <2>1. CASE j = k
    BY <1>1, <1>2, <1>4, <1>5, <1>6, <2>1
  <2>2. CASE j # k
    <3>1. social'[j] = social[j]
      BY <1>2, <1>5, <2>2
    <3>2. HasRow(social[j]) /\ user[social[j]].email = Normal[EmailOf[j]] /\ social[j] \in Pks
      BY <1>5, <3>1 DEF IInv, LinkedByEmail
    <3> QED BY <1>6, <1>7, <3>1, <3>2 DEF HasRow
  <2> QED BY <2>1, <2>2
<1> QED BY <1>9, <1>10, <1>11, <1>12 DEF IInv

LEMMA CreateFailsKeeps ==
    ASSUME IInv, NEW r \in Requests, CreateFails(r)
    PROVE  IInv'
<1> DEFINE q == Request("again", req[r].kakao, req[r].pk, req[r].row, req[r].old)
<1>1. req[r].kakao \in Kakao /\ req[r] \in ReqRecords
  BY LoginTyped DEF CreateFails, LoginSteps, IInv, TypeOK
<1>2. q \in ReqRecords
  BY <1>1 DEF Request, ReqRecords, Steps
<1>3. q.at = "again" /\ q.kakao = req[r].kakao
  BY DEF Request
<1>4. Becomes(r, q)
  BY DEF CreateFails, Goto, GotoWith
<1> HIDE DEF q
<1>5. RecordOK(q) /\ ~Remembers(q)
  BY <1>1, <1>3 DEF RecordOK, Remembers, KeySteps
<1>6. user' = user /\ social' = social /\ purge' = purge /\ clashes' \in 0..MaxClashes
  BY DEF CreateFails, IInv, TypeOK
<1>7. \A p \in Pks : user'[p] # NoRow => HasRow(p) /\ user'[p].email = user[p].email
  BY <1>6 DEF HasRow
<1>8. req' \in [Requests -> ReqRecords] /\ RequestsOK' /\ RowsKnown' /\ RequestsAgree'
  BY <1>2, <1>4, <1>5, <1>7, AddressesKept, RequestStep
<1>9. TypeOK'
  BY <1>6, <1>8 DEF IInv, TypeOK
<1>10. NoneInLimbo' /\ LinkedByEmail'
  BY <1>6 DEF IInv, NoneInLimbo, LinkedByEmail, HasRow
<1> QED BY <1>8, <1>9, <1>10 DEF IInv

LEMMA AuthenticatedKeeps ==
    ASSUME IInv, NEW r \in Requests, NEW p \in Pks, NEW step \in {"withdraw", "profile"},
           Authenticated(r, p, step)
    PROVE  IInv'
<1> DEFINE q == Request(step, 0, p, user[p], FALSE)
<1>1. user[p] \in Rows /\ user[p].active /\ user[p].deleted = NotDeleted
  BY DEF Authenticated, IInv, TypeOK, NoneInLimbo, HasRow
<1>2. q \in ReqRecords
  BY <1>1 DEF Request, ReqRecords, Steps
<1>3. q.at = step /\ q.pk = p /\ q.row = user[p]
  BY DEF Request
<1>4. Becomes(r, q)
  BY DEF Authenticated
<1> HIDE DEF q
<1>5. RecordOK(q)
  BY <1>1, <1>3 DEF RecordOK, LoginSteps
<1>6. Remembers(q) => HasRow(q.pk) /\ user[q.pk].email = Address(q)
  BY <1>3 DEF Remembers, Address, Authenticated
<1> QED BY <1>2, <1>4, <1>5, <1>6, GoOn DEF Authenticated

LEMMA SaveWithdrawalKeeps ==
    ASSUME IInv, NEW r \in Requests, SaveWithdrawal(r)
    PROVE  IInv'
<1> DEFINE p == req[r].pk
           row == Row(user[p].email, FALSE, 0)
<1>1. p \in Pks
  BY DEF IInv, RequestsOK, RecordOK, SaveWithdrawal, KeySteps
<1>2. clashes \in 0..MaxClashes /\ "ok" \in Answers /\ "error" \in Answers
      /\ social \in [Kakao -> Pks \cup {0}]
  BY DEF IInv, TypeOK, Answers
<1>3. CASE Answer(r, "error") /\ user' = user
  BY <1>2, <1>3, AnswerOnly DEF SaveWithdrawal
<1>4. CASE HasRow(p) /\ Answer(r, "ok") /\ user' = [user EXCEPT ![p] = row]
  <2>1. user[p] \in Rows
    BY <1>1, <1>4 DEF IInv, TypeOK, HasRow
  <2>2. row \in Rows /\ row.email = user[p].email /\ row.active = FALSE /\ row.deleted = 0
    BY <2>1 DEF Row, Rows, Ages, NotDeleted
  <2> HIDE DEF row
  <2>3. row.active <=> row.deleted = NotDeleted
    BY <2>2 DEF NotDeleted
  <2>4. social' = social /\ purge' = purge /\ clashes' = clashes
    BY DEF SaveWithdrawal
  <2>5. social' \in [Kakao -> Pks \cup {0}] /\ \A k \in Kakao : social'[k] = social[k]
    BY <1>2, <2>4
  <2> QED BY <1>1, <1>2, <1>4, <2>2, <2>3, <2>4, <2>5, WriteAnswer
<1> QED BY <1>3, <1>4 DEF SaveWithdrawal

(* The copy has the address of the row, also of the row that it brings back. *)
LEMMA SaveProfileKeeps ==
    ASSUME IInv, NEW r \in Requests, SaveProfile(r)
    PROVE  IInv'
<1> DEFINE p == req[r].pk
           row == req[r].row
<1>1. req[r].at = "profile" /\ social' = social /\ purge' = purge /\ clashes' = clashes
  BY DEF SaveProfile
<1>2. p \in Pks /\ row \in Rows /\ row.active /\ row.deleted = NotDeleted
  BY <1>1 DEF IInv, RequestsOK, RecordOK, KeySteps
<1>3. user \in [Pks -> Rows \cup {NoRow}] /\ clashes \in 0..MaxClashes
      /\ "ok" \in Answers /\ "error" \in Answers
  BY DEF IInv, TypeOK, Answers
<1>4. CASE Answer(r, "error") /\ user' = user
  BY <1>1, <1>3, <1>4, AnswerOnly
<1>5. CASE Answer(r, "ok") /\ user' = [user EXCEPT ![p] = row]
  <2>1. user'[p] = row /\ row # NoRow /\ \A o \in Pks \ {p} : user'[o] = user[o]
    BY <1>2, <1>3, <1>5
  <2>2. Remembers(req[r]) /\ Address(req[r]) = row.email
    BY <1>1 DEF Remembers, Address, KeySteps
  <2>3. \A s \in Requests \ {r} :
           Remembers(req[s]) /\ user'[req[s].pk] # NoRow
               => user'[req[s].pk].email = Address(req[s])
    <3> SUFFICES ASSUME NEW s \in Requests, Remembers(req[s]), user'[req[s].pk] # NoRow
                 PROVE  user'[req[s].pk].email = Address(req[s])
      OBVIOUS
    <3>1. req[s].pk \in Pks
      BY DEF Remembers, IInv, RequestsOK, RecordOK, KeySteps
    <3>2. CASE req[s].pk = p
      <4>1. Address(req[s]) = row.email
        BY <2>2, <3>2 DEF IInv, RequestsAgree
      <4> QED BY <2>1, <3>2, <4>1
    <3>3. CASE req[s].pk # p
      BY <2>1, <3>1, <3>3 DEF IInv, RowsKnown, HasRow
    <3> QED BY <3>2, <3>3
  <2>4. req' \in [Requests -> ReqRecords] /\ RequestsOK' /\ RowsKnown' /\ RequestsAgree'
    BY <1>3, <1>5, <2>3, AnswerStep
  <2>5. TypeOK'
    <3>1. user' \in [Pks -> Rows \cup {NoRow}]
      BY <1>2, <1>3, <1>5
    <3> QED BY <1>1, <2>4, <3>1 DEF IInv, TypeOK
  <2>6. NoneInLimbo'
    BY <1>2, <2>1 DEF IInv, NoneInLimbo, HasRow
  <2>7. LinkedByEmail'
    <3> SUFFICES ASSUME NEW k \in Kakao, social[k] # 0
                 PROVE  user'[social[k]] # NoRow /\ user'[social[k]].email = Normal[EmailOf[k]]
      BY <1>1 DEF LinkedByEmail, HasRow
    <3>1. HasRow(social[k]) /\ user[social[k]].email = Normal[EmailOf[k]] /\ social[k] \in Pks
      BY DEF IInv, LinkedByEmail, TypeOK
    <3>2. CASE social[k] = p
      <4>1. user[p].email = row.email
        BY <2>2, <3>1, <3>2 DEF IInv, RowsKnown
      <4> QED BY <2>1, <3>1, <3>2, <4>1
    <3>3. CASE social[k] # p
      BY <2>1, <3>1, <3>3 DEF HasRow
    <3> QED BY <3>2, <3>3
  <2> QED BY <2>4, <2>5, <2>6, <2>7 DEF IInv
<1> QED BY <1>4, <1>5 DEF SaveProfile

LEMMA UserStepKeeps ==
    ASSUME IInv, NEW r \in Requests, LoginStep(r) \/ UserStep(r)
    PROVE  IInv'
<1>1. CASE RefuseProfile(r)
  BY <1>1, AnswerOnly DEF RefuseProfile, Answers, IInv, TypeOK
<1>2. CASE LoginStep(r)
  BY <1>2, LookupKeeps, RecoverKeeps, CreateKeeps, CreateFailsKeeps, FindByEmailKeeps,
     LinkKeeps DEF LoginStep
<1>3. CASE SaveWithdrawal(r) \/ SaveProfile(r)
  BY <1>3, SaveWithdrawalKeeps, SaveProfileKeeps
<1> QED BY <1>1, <1>2, <1>3 DEF UserStep

(* The requests stand still and rows only go: what they remember stays true. *)
LEMMA RowsGo ==
    ASSUME IInv, req' = req,
           \A p \in Pks : user'[p] = user[p] \/ user'[p] = NoRow
    PROVE  RequestsOK' /\ NoneInLimbo' /\ RowsKnown' /\ RequestsAgree'
<1>1. RequestsOK' /\ RequestsAgree'
  BY DEF IInv, RequestsOK, RequestsAgree
<1>2. NoneInLimbo'
  BY DEF IInv, NoneInLimbo, HasRow
<1>3. RowsKnown'
  <2> SUFFICES ASSUME NEW r \in Requests, Remembers(req[r]), user'[req[r].pk] # NoRow
               PROVE  user'[req[r].pk].email = Address(req[r])
    BY DEF RowsKnown, HasRow
  <2>1. req[r].pk \in Pks
    BY DEF Remembers, IInv, RequestsOK, RecordOK, KeySteps
  <2> QED BY <2>1 DEF IInv, RowsKnown, HasRow
<1> QED BY <1>1, <1>2, <1>3

LEMMA PurgeKeeps ==
    ASSUME IInv, PurgeStep
    PROVE  IInv'
<1> DEFINE Runs == [at : {"idle", "collect", "delete"}, users : SUBSET Pks,
                    links : SUBSET Kakao, old : BOOLEAN]
<1>1. purge \in Runs /\ user \in [Pks -> Rows \cup {NoRow}] /\ social \in [Kakao -> Pks \cup {0}]
  BY DEF IInv, TypeOK
<1>2. purge' \in Runs
  <2>1. CASE PurgeSelect
    BY <1>1, <2>1 DEF PurgeSelect
  <2>2. CASE PurgeCollect
    BY <1>1, <2>2 DEF PurgeCollect
  <2>3. CASE PurgeEnds
    BY <2>3 DEF PurgeEnds
  <2> QED BY <2>1, <2>2, <2>3 DEF PurgeStep, PurgeDelete, PurgeFails
<1>3. req' = req /\ clashes' = clashes
  BY DEF PurgeStep, PurgeSelect, PurgeCollect, PurgeDelete, PurgeFails
<1> HIDE DEF Runs
<1>4. CASE user' = user /\ social' = social
  <2>1. RequestsOK' /\ NoneInLimbo' /\ RowsKnown' /\ RequestsAgree'
    BY <1>3, <1>4, RowsGo
  <2>2. TypeOK'
    BY <1>2, <1>3, <1>4 DEF IInv, TypeOK, Runs
  <2>3. LinkedByEmail'
    BY <1>4 DEF IInv, LinkedByEmail, HasRow
  <2> QED BY <2>1, <2>2, <2>3 DEF IInv
<1>5. CASE PurgeDelete
  <2>1. \A p \in Pks : user'[p] = user[p] \/ user'[p] = NoRow
    BY <1>5 DEF PurgeDelete
  <2>2. RequestsOK' /\ NoneInLimbo' /\ RowsKnown' /\ RequestsAgree'
    BY <1>3, <2>1, RowsGo
  <2>3. user' \in [Pks -> Rows \cup {NoRow}] /\ social' \in [Kakao -> Pks \cup {0}]
    BY <1>1, <1>5 DEF PurgeDelete
  <2>4. TypeOK'
    BY <1>2, <1>3, <2>3 DEF IInv, TypeOK, Runs
  <2>5. LinkedByEmail'
    <3> SUFFICES ASSUME NEW k \in Kakao, social'[k] # 0
                 PROVE  user'[social'[k]] # NoRow
                        /\ user'[social'[k]].email = Normal[EmailOf[k]]
      BY DEF LinkedByEmail, HasRow
    <3>1. social'[k] = social[k] /\ k \notin purge.links
      BY <1>5 DEF PurgeDelete
    <3>2. social[k] \notin purge.users
      BY <1>5, <3>1 DEF PurgeDelete, NewLinks
    <3>3. social[k] \in Pks /\ HasRow(social[k])
          /\ user[social[k]].email = Normal[EmailOf[k]]
      BY <1>1, <3>1 DEF IInv, LinkedByEmail
    <3>4. user'[social[k]] = user[social[k]]
      BY <1>5, <3>2, <3>3 DEF PurgeDelete
    <3> QED BY <3>1, <3>3, <3>4 DEF HasRow
  <2> QED BY <2>2, <2>4, <2>5 DEF IInv
<1> QED BY <1>4, <1>5 DEF PurgeStep, PurgeSelect, PurgeCollect, PurgeFails

(* A day changes dates only. *)
LEMMA NextDayKeeps ==
    ASSUME IInv, NextDay
    PROVE  IInv'
<1>1. user \in [Pks -> Rows \cup {NoRow}] /\ req \in [Requests -> ReqRecords]
  BY DEF IInv, TypeOK
<1>2. social' = social /\ clashes' = clashes
  BY DEF NextDay
<1>3. ASSUME NEW p \in Pks
      PROVE  /\ user'[p] \in Rows \cup {NoRow}
             /\ (user'[p] # NoRow) <=> HasRow(p)
             /\ HasRow(p) => /\ user'[p].email = user[p].email
                             /\ user'[p].active <=> user[p].active
                             /\ user'[p].deleted = NotDeleted <=> user[p].deleted = NotDeleted
  <2> DEFINE dated == HasRow(p) /\ user[p].deleted \in 0..Window
             row == Row(user[p].email, user[p].active, user[p].deleted + 1)
  <2>1. CASE ~dated
    <3>1. user'[p] = user[p]
      BY <2>1 DEF NextDay
    <3> QED BY <1>1, <3>1 DEF HasRow
  <2>2. CASE dated
    <3>1. user'[p] = row
      BY <2>2 DEF NextDay
    <3>2. user[p] \in Rows
      BY <1>1, <2>2 DEF HasRow
    <3>3. user[p].email \in Stored /\ user[p].active \in BOOLEAN
      BY <3>2 DEF Rows
    <3>4. user[p].deleted + 1 \in Ages /\ user[p].deleted + 1 # NotDeleted
          /\ user[p].deleted # NotDeleted
      BY <2>2 DEF Ages, NotDeleted
    <3>5. row \in Rows
      BY <3>3, <3>4 DEF Row, Rows
    <3>6. row.email = user[p].email /\ row.active = user[p].active
          /\ row.deleted = user[p].deleted + 1
      BY DEF Row
    <3> HIDE DEF row
    <3>7. user'[p] # NoRow /\ HasRow(p)
      BY <2>2, <3>1, <3>5
    <3> QED BY <3>1, <3>4, <3>5, <3>6, <3>7
  <2> QED BY <2>1, <2>2
<1>4. ASSUME NEW r \in Requests
      PROVE  /\ req'[r] \in ReqRecords /\ req'[r].at = req[r].at
             /\ req'[r].kakao = req[r].kakao /\ req'[r].pk = req[r].pk
             /\ req'[r].row = req[r].row
  <2>1. req'[r] = Request(req[r].at, req[r].kakao, req[r].pk, req[r].row, Busy(r))
    BY DEF NextDay
  <2>2. Busy(r) \in BOOLEAN /\ req[r] \in ReqRecords
    BY <1>1 DEF Busy
  <2> QED BY <2>1, <2>2 DEF Request, ReqRecords
<1>5. TypeOK'
  <2>1. user' \in [Pks -> Rows \cup {NoRow}]
    BY <1>3 DEF NextDay
  <2>2. req' \in [Requests -> ReqRecords]
    BY <1>4 DEF NextDay
  <2>3. purge' \in [at : {"idle", "collect", "delete"}, users : SUBSET Pks,
                    links : SUBSET Kakao, old : BOOLEAN]
    BY DEF NextDay, IInv, TypeOK
  <2> QED BY <1>2, <2>1, <2>2, <2>3 DEF IInv, TypeOK
<1>6. RequestsOK'
  BY <1>4 DEF IInv, RequestsOK, RecordOK
<1>7. NoneInLimbo'
  BY <1>3 DEF IInv, NoneInLimbo, HasRow
<1>8. LinkedByEmail'
  <2> SUFFICES ASSUME NEW k \in Kakao, social[k] # 0
               PROVE  user'[social[k]] # NoRow /\ user'[social[k]].email = Normal[EmailOf[k]]
    BY <1>2 DEF LinkedByEmail, HasRow
  <2>1. social[k] \in Pks /\ HasRow(social[k]) /\ user[social[k]].email = Normal[EmailOf[k]]
    BY DEF IInv, LinkedByEmail, TypeOK
  <2> QED BY <1>3, <2>1
<1>9. \A r \in Requests : /\ Remembers(req'[r]) <=> Remembers(req[r])
                          /\ Address(req'[r]) = Address(req[r])
  BY <1>4 DEF Remembers, Address
<1>10. RowsKnown'
  <2> SUFFICES ASSUME NEW r \in Requests, Remembers(req'[r]), user'[req'[r].pk] # NoRow
               PROVE  user'[req'[r].pk].email = Address(req'[r])
    BY DEF RowsKnown, HasRow, Remembers, Address
  <2>1. req[r].pk \in Pks /\ req'[r].pk = req[r].pk
    BY <1>4, <1>9 DEF Remembers, IInv, RequestsOK, RecordOK, KeySteps
  <2> QED BY <1>3, <1>9, <2>1 DEF IInv, RowsKnown
<1>11. RequestsAgree'
  <2> SUFFICES ASSUME NEW r \in Requests, NEW s \in Requests,
                      Remembers(req'[r]), Remembers(req'[s]), req'[r].pk = req'[s].pk
               PROVE  Address(req'[r]) = Address(req'[s])
    BY DEF RequestsAgree, Remembers, Address
  <2> QED BY <1>4, <1>9 DEF IInv, RequestsAgree
<1> QED BY <1>5, <1>6, <1>7, <1>8, <1>10, <1>11 DEF IInv

LEMMA InitOK == Init => IInv
<1> SUFFICES ASSUME Init PROVE IInv
  OBVIOUS
<1>1. \A r \in Requests : req[r] = Request("none", 0, 0, NoRow, FALSE)
  BY DEF Init
<1>2. Request("none", 0, 0, NoRow, FALSE) \in ReqRecords
      /\ Request("none", 0, 0, NoRow, FALSE).at = "none"
  BY DEF Request, ReqRecords, Answers
<1>3. \A r \in Requests : req[r].at = "none"
  BY <1>1, <1>2
<1>4. TypeOK
  <2>1. user \in [Pks -> Rows \cup {NoRow}] /\ social \in [Kakao -> Pks \cup {0}]
    BY DEF Init
  <2> DEFINE record == Request("none", 0, 0, NoRow, FALSE)
  <2>2. req = [r \in Requests |-> record] /\ record \in ReqRecords
    BY <1>2 DEF Init
  <2> HIDE DEF record
  <2>3. req \in [Requests -> ReqRecords]
    BY <2>2
  <2>4. purge \in [at : {"idle", "collect", "delete"}, users : SUBSET Pks,
                   links : SUBSET Kakao, old : BOOLEAN]
    BY DEF Init
  <2>5. clashes \in 0..MaxClashes
    BY DEF Init
  <2> QED BY <2>1, <2>3, <2>4, <2>5 DEF TypeOK
<1>5. RequestsOK /\ RowsKnown /\ RequestsAgree
  BY <1>3 DEF RequestsOK, RecordOK, RowsKnown, RequestsAgree, Remembers, LoginSteps, KeySteps
<1>6. NoneInLimbo /\ LinkedByEmail
  BY DEF Init, NoneInLimbo, LinkedByEmail, HasRow
<1> QED BY <1>4, <1>5, <1>6 DEF IInv

LEMMA NextKeeps == IInv /\ [Next]_vars => IInv'
<1> SUFFICES ASSUME IInv, [Next]_vars PROVE IInv'
  OBVIOUS
<1>1. CASE UNCHANGED vars
  <2>1. user' = user /\ social' = social /\ req' = req /\ purge' = purge /\ clashes' = clashes
    BY <1>1 DEF vars
  <2>2. RequestsOK' /\ NoneInLimbo' /\ RowsKnown' /\ RequestsAgree'
    BY <2>1, RowsGo
  <2>3. TypeOK' /\ LinkedByEmail'
    BY <2>1 DEF IInv, TypeOK, LinkedByEmail, HasRow
  <2> QED BY <2>2, <2>3 DEF IInv
<1>2. ASSUME NEW r \in Requests, LoginStep(r) \/ UserStep(r) PROVE IInv'
  BY <1>2, UserStepKeeps
<1>3. ASSUME NEW r \in Requests, NEW k \in Kakao, Login(r, k) PROVE IInv'
  BY <1>3, LoginStarts
<1>4. ASSUME NEW r \in Requests, NEW p \in Pks, Withdraw(r, p) \/ EditProfile(r, p) PROVE IInv'
  BY <1>4, AuthenticatedKeeps DEF Withdraw, EditProfile
<1> QED BY <1>1, <1>2, <1>3, <1>4, PurgeKeeps, NextDayKeeps DEF Next

LEMMA Invariance == Spec => []IInv
BY InitOK, NextKeeps, PTL DEF Spec

(* Every variable keeps its type; stored addresses are normalised. *)
THEOREM TypeCorrect == Spec => []TypeOK
<1>1. IInv => TypeOK
  BY DEF IInv
<1> QED BY <1>1, Invariance, PTL

(* No account is inactive without the date that the purge and the recovery go by, *)
(* and a Kakao account is linked to an existing user, the one of its address,     *)
(* whatever logins, profile edits and purges overlap. *)
THEOREM RowsAlwaysFit == Spec => []RowsFit
<1>1. IInv => RowsFit
  BY DEF IInv, RowsFit
<1> QED BY <1>1, Invariance, PTL

-----------------------------------------------------------------------------
(***************************************************************************)
(* Whose row a step touches.                                               *)
(***************************************************************************)

KeepsAddress(p) == HasRow(p) /\ user'[p] # NoRow => user'[p].email = user[p].email
Returns(p) == HasRow(p) /\ ~user[p].active /\ user'[p] # NoRow /\ user'[p].active

(* A login of the person, or a profile edit that began before the withdrawal. *)
OwnRequest(p) == \E r \in Requests :
    /\ Recover(r) \/ RecoverLink(r) \/ SaveProfile(r)
    /\ req[r].pk = p /\ Address(req[r]) = user[p].email

OwnRowOnly == \A p \in Pks : KeepsAddress(p) /\ (Returns(p) => OwnRequest(p))

(* A write to the row that a request remembers. *)
LEMMA OwnWrite ==
    ASSUME IInv, NEW r \in Requests, Remembers(req[r]), NEW row \in Rows,
           user' = [user EXCEPT ![req[r].pk] = row],
           HasRow(req[r].pk) => row.email = user[req[r].pk].email,
           row.active => Recover(r) \/ RecoverLink(r) \/ SaveProfile(r)
    PROVE  OwnRowOnly
<1> DEFINE key == req[r].pk
<1>1. user \in [Pks -> Rows \cup {NoRow}] /\ key \in Pks
  BY DEF IInv, TypeOK, RequestsOK, RecordOK, Remembers
<1>2. user'[key] = row /\ \A p \in Pks \ {key} : user'[p] = user[p]
  BY <1>1
<1>3. HasRow(key) => Address(req[r]) = user[key].email
  BY DEF IInv, RowsKnown
<1>4. ASSUME NEW p \in Pks PROVE KeepsAddress(p) /\ (Returns(p) => OwnRequest(p))
  <2>1. CASE p # key
    BY <1>2, <2>1 DEF KeepsAddress, Returns
  <2>2. CASE p = key
    BY <1>2, <1>3, <2>2 DEF KeepsAddress, Returns, OwnRequest
  <2> QED BY <2>1, <2>2
<1> QED BY <1>4 DEF OwnRowOnly

LEMMA OwnRowStep == IInv /\ [Next]_vars => OwnRowOnly
<1> SUFFICES ASSUME IInv, [Next]_vars PROVE OwnRowOnly
  OBVIOUS
<1> USE DEF KeepsAddress, Returns, OwnRowOnly
<1>1. user \in [Pks -> Rows \cup {NoRow}]
  BY DEF IInv, TypeOK
<1>2. CASE user' = user
  BY <1>2
<1>3. ASSUME NEW r \in Requests, Recover(r) \/ RecoverLink(r), user' # user PROVE OwnRowOnly
  <2> DEFINE row == Row(user[req[r].pk].email, TRUE, NotDeleted)
  <2>1. HasRow(req[r].pk) /\ user' = [user EXCEPT ![req[r].pk] = row] /\ Remembers(req[r])
    BY <1>3 DEF Recover, RecoverLink, Remembers, KeySteps
  <2>2. req[r].pk \in Pks
    BY <2>1 DEF IInv, RequestsOK, RecordOK, Remembers
  <2>3. row \in Rows /\ row.email = user[req[r].pk].email
    BY <1>1, <2>1, <2>2 DEF Row, Rows, HasRow, Ages, NotDeleted
  <2> HIDE DEF row
  <2> QED BY <1>3, <2>1, <2>3, OwnWrite
<1>4. ASSUME NEW r \in Requests, SaveWithdrawal(r), user' # user PROVE OwnRowOnly
  <2> DEFINE row == Row(user[req[r].pk].email, FALSE, 0)
  <2>1. HasRow(req[r].pk) /\ user' = [user EXCEPT ![req[r].pk] = row] /\ Remembers(req[r])
    BY <1>4 DEF SaveWithdrawal, Remembers, KeySteps
  <2>2. req[r].pk \in Pks
    BY <2>1 DEF IInv, RequestsOK, RecordOK, Remembers
  <2>3. row \in Rows /\ row.email = user[req[r].pk].email /\ ~row.active
    BY <1>1, <2>1, <2>2 DEF Row, Rows, HasRow, Ages, NotDeleted
  <2> HIDE DEF row
  <2> QED BY <2>1, <2>3, OwnWrite
<1>5. ASSUME NEW r \in Requests, SaveProfile(r), user' # user PROVE OwnRowOnly
  <2>1. req[r].at = "profile" /\ user' = [user EXCEPT ![req[r].pk] = req[r].row]
    BY <1>5 DEF SaveProfile
  <2>2. req[r].row \in Rows /\ Remembers(req[r]) /\ Address(req[r]) = req[r].row.email
    BY <2>1 DEF IInv, RequestsOK, RecordOK, Remembers, KeySteps, Address
  <2>3. HasRow(req[r].pk) => req[r].row.email = user[req[r].pk].email
    BY <2>2 DEF IInv, RowsKnown
  <2> QED BY <1>5, <2>1, <2>2, <2>3, OwnWrite
<1>6. ASSUME NEW r \in Requests, Create(r) PROVE OwnRowOnly
  <2>1. PICK p \in Pks : /\ ~HasRow(p)
                         /\ user' = [user EXCEPT
                              ![p] = Row(Normal[EmailOf[req[r].kakao]], TRUE, NotDeleted)]
    BY <1>6 DEF Create, FirstFree, Free
  <2>2. \A o \in Pks \ {p} : user'[o] = user[o]
    BY <1>1, <2>1
  <2> QED BY <2>1, <2>2 DEF HasRow
<1>7. CASE PurgeDelete
  <2>1. \A p \in Pks : user'[p] = NoRow \/ user'[p] = user[p]
    BY <1>7 DEF PurgeDelete
  <2> QED BY <2>1
<1>8. CASE NextDay
  <2>1. ASSUME NEW p \in Pks, HasRow(p), user'[p] # user[p]
        PROVE  user'[p].email = user[p].email /\ user'[p].active = user[p].active
    <3>1. user'[p] = Row(user[p].email, user[p].active, user[p].deleted + 1)
      BY <1>8, <2>1 DEF NextDay
    <3> QED BY <3>1 DEF Row
  <2> QED BY <2>1
<1>9. ASSUME NEW r \in Requests, LoginStep(r) PROVE OwnRowOnly
  <2>1. CASE Lookup(r) \/ CreateFails(r) \/ FindByEmail(r) \/ Link(r)
    BY <1>2, <2>1 DEF Lookup, CreateFails, FindByEmail, Link
  <2> QED BY <1>2, <1>3, <1>6, <1>9, <2>1 DEF LoginStep
<1>10. ASSUME NEW r \in Requests, UserStep(r) PROVE OwnRowOnly
  BY <1>2, <1>4, <1>5, <1>10 DEF UserStep, RefuseProfile
<1>11. ASSUME NEW r \in Requests, NEW k \in Kakao, Login(r, k) PROVE OwnRowOnly
  BY <1>2, <1>11 DEF Login
<1>12. ASSUME NEW r \in Requests, NEW p \in Pks, Withdraw(r, p) \/ EditProfile(r, p)
       PROVE  OwnRowOnly
  BY <1>2, <1>12 DEF Withdraw, EditProfile, Authenticated
<1>13. CASE PurgeStep
  BY <1>2, <1>7, <1>13 DEF PurgeStep, PurgeSelect, PurgeCollect, PurgeFails
<1>14. CASE UNCHANGED vars
  BY <1>2, <1>14 DEF vars
<1> QED BY <1>8, <1>9, <1>10, <1>11, <1>12, <1>13, <1>14 DEF Next

(***************************************************************************)
(* When a withdrawn account can still come back.                           *)
(***************************************************************************)

Returning == {"recover", "recover_link", "profile"}

(* The last day a request is good for, since the withdrawal: the window for a *)
(* login, the same day for an edit, and a day more once midnight has passed.  *)
LastDay(q) == (IF q.at = "profile" THEN 0 ELSE Window) + (IF q.old THEN 1 ELSE 0)

InTime == \A r \in Requests :
    req[r].at \in Returning /\ HasRow(req[r].pk) => user[req[r].pk].deleted <= LastDay(req[r])

ReturnsInTime == \A p \in Pks : Returns(p) =>
    \E r \in Requests : req[r].pk = p /\ req[r].at \in Returning
                         /\ user[p].deleted <= LastDay(req[r])

LEMMA LastDayIsDay == ASSUME NEW q PROVE LastDay(q) \in Nat
<1>1. (IF q.at = "profile" THEN 0 ELSE Window) \in Nat /\ (IF q.old THEN 1 ELSE 0) \in Nat
  BY BoundsAssumption
<1> QED BY <1>1 DEF LastDay

(* In the course of a day a row stays, goes, or is active or withdrawn today. *)
LEMMA RowsYoung ==
    ASSUME IInv, [Next]_vars, ~NextDay, NEW p \in Pks
    PROVE  \/ user'[p] = NoRow \/ user'[p] = user[p]
           \/ user'[p].deleted = NotDeleted \/ user'[p].deleted = 0
<1>1. user \in [Pks -> Rows \cup {NoRow}]
  BY DEF IInv, TypeOK
<1>2. ASSUME NEW key, NEW row, user' = [user EXCEPT ![key] = row],
             row.deleted = NotDeleted \/ row.deleted = 0
      PROVE  user'[p] = user[p] \/ user'[p].deleted = NotDeleted \/ user'[p].deleted = 0
  BY <1>1, <1>2
<1>4. ASSUME NEW r \in Requests, Recover(r) \/ RecoverLink(r) \/ SaveWithdrawal(r)
      PROVE  user'[p] = user[p] \/ user'[p].deleted = NotDeleted \/ user'[p].deleted = 0
  <2> DEFINE key == req[r].pk
             back == Row(user[key].email, TRUE, NotDeleted)
             gone == Row(user[key].email, FALSE, 0)
  <2>1. \/ user' = user
        \/ user' = [user EXCEPT ![key] = back] \/ user' = [user EXCEPT ![key] = gone]
    BY <1>4, Zenon DEF Recover, RecoverLink, SaveWithdrawal
  <2>2. back.deleted = NotDeleted /\ gone.deleted = 0
    BY DEF Row
  <2> HIDE DEF key, back, gone
  <2>3. CASE user' = user
    BY <2>3
  <2>4. CASE user' = [user EXCEPT ![key] = back]
    BY <1>2, <2>2, <2>4, Zenon
  <2>5. CASE user' = [user EXCEPT ![key] = gone]
    BY <1>2, <2>2, <2>5, Zenon
  <2> QED BY <2>1, <2>3, <2>4, <2>5
<1>5. ASSUME NEW r \in Requests, Create(r)
      PROVE  user'[p] = user[p] \/ user'[p].deleted = NotDeleted \/ user'[p].deleted = 0
  <2> DEFINE row == Row(Normal[EmailOf[req[r].kakao]], TRUE, NotDeleted)
  <2>1. PICK key \in Pks : user' = [user EXCEPT ![key] = row]
    BY <1>5, Zenon DEF Create
  <2>2. row.deleted = NotDeleted
    BY DEF Row
  <2> HIDE DEF row
  <2> QED BY <1>2, <2>1, <2>2, Zenon
<1>6. ASSUME NEW r \in Requests, SaveProfile(r)
      PROVE  user'[p] = user[p] \/ user'[p].deleted = NotDeleted \/ user'[p].deleted = 0
  <2> DEFINE key == req[r].pk
             row == req[r].row
  <2>1. req[r].at = "profile" /\ (user' = user \/ user' = [user EXCEPT ![key] = row])
    BY <1>6, Zenon DEF SaveProfile
  <2>2. row.deleted = NotDeleted
    BY <2>1 DEF IInv, RequestsOK, RecordOK
  <2> HIDE DEF key, row
  <2>3. CASE user' = user
    BY <2>3
  <2>4. CASE user' = [user EXCEPT ![key] = row]
    BY <1>2, <2>2, <2>4, Zenon
  <2> QED BY <2>1, <2>3, <2>4
<1>7. CASE PurgeDelete
  BY <1>7 DEF PurgeDelete
<1>8. ASSUME user' = user PROVE user'[p] = user[p]
  BY <1>8
<1>9. ASSUME NEW r \in Requests, LoginStep(r) \/ UserStep(r)
      PROVE  user'[p] = user[p] \/ user'[p].deleted = NotDeleted \/ user'[p].deleted = 0
  <2>1. CASE Lookup(r) \/ CreateFails(r) \/ FindByEmail(r) \/ Link(r) \/ RefuseProfile(r)
    BY <1>8, <2>1 DEF Lookup, CreateFails, FindByEmail, Link, RefuseProfile
  <2> QED BY <1>4, <1>5, <1>6, <1>9, <2>1 DEF LoginStep, UserStep
<1>10. ASSUME NEW r \in Requests, NEW k \in Kakao, Login(r, k) PROVE user' = user
  BY <1>10 DEF Login
<1>11. ASSUME NEW r \in Requests, NEW q \in Pks, Withdraw(r, q) \/ EditProfile(r, q)
       PROVE  user' = user
  BY <1>11 DEF Withdraw, EditProfile, Authenticated
<1>12. CASE PurgeStep
  BY <1>7, <1>8, <1>12 DEF PurgeStep, PurgeSelect, PurgeCollect, PurgeFails
<1>13. CASE UNCHANGED vars
  BY <1>8, <1>13 DEF vars
<1> QED BY <1>8, <1>9, <1>10, <1>11, <1>12, <1>13 DEF Next

(* A record that a request gets in the course of a day. *)
Fresh(q) == q.at \in Returning => user' = user /\ user[q.pk].deleted <= LastDay(q)

LEMMA BecomesFresh ==
    ASSUME IInv, InTime, [Next]_vars, ~NextDay, NEW r \in Requests, NEW q,
           Becomes(r, q), Fresh(q)
    PROVE  InTime'
<1>1. req \in [Requests -> ReqRecords] /\ BoundsAssumption
  BY DEF IInv, TypeOK, BoundsAssumption
<1>2. req'[r] = q /\ \A s \in Requests \ {r} : req'[s] = req[s]
  BY <1>1 DEF Becomes
<1>3. ASSUME NEW s \in Requests \ {r}, req[s].at \in Returning, user'[req[s].pk] # NoRow
      PROVE  user'[req[s].pk].deleted <= LastDay(req[s])
  <2>1. req[s].pk \in Pks /\ LastDay(req[s]) \in Nat
    BY <1>3 DEF IInv, RequestsOK, RecordOK, Returning, KeySteps, LastDay
  <2>2. HasRow(req[s].pk) => user[req[s].pk].deleted <= LastDay(req[s])
    BY <1>3 DEF InTime
  <2>3. CASE user'[req[s].pk] = user[req[s].pk]
    BY <1>3, <2>2, <2>3 DEF HasRow
  <2>4. CASE user'[req[s].pk].deleted = NotDeleted \/ user'[req[s].pk].deleted = 0
    BY <2>1, <2>4 DEF NotDeleted
  <2> QED BY <1>3, <2>1, <2>3, <2>4, RowsYoung
<1>4. q.at \in Returning => user'[q.pk].deleted <= LastDay(q)
  BY DEF Fresh
<1> QED BY <1>2, <1>3, <1>4 DEF InTime, HasRow, LastDay

LEMMA InTimeNext == IInv /\ InTime /\ [Next]_vars => InTime'
<1> SUFFICES ASSUME IInv, InTime, [Next]_vars PROVE InTime'
  OBVIOUS
<1> USE DEF IInv, TypeOK
<1>1. CASE NextDay
  <2> SUFFICES ASSUME NEW r \in Requests, req'[r].at \in Returning, user'[req'[r].pk] # NoRow
               PROVE  user'[req'[r].pk].deleted <= LastDay(req'[r])
    BY DEF InTime, HasRow, LastDay
  <2>1. req'[r] = Request(req[r].at, req[r].kakao, req[r].pk, req[r].row, Busy(r))
    BY <1>1 DEF NextDay
  <2>2. /\ req'[r].at = req[r].at /\ req'[r].pk = req[r].pk /\ req'[r].old = Busy(r)
        /\ req[r].old = FALSE
    BY <1>1, <2>1 DEF Request, NextDay, ReqRecords
  <2>3. Busy(r) /\ req[r].pk \in Pks
    BY <2>2 DEF Busy, Returning, Steps, RequestsOK, RecordOK, KeySteps
  <2>4. LastDay(req[r]) \in Nat /\ LastDay(req'[r]) = LastDay(req[r]) + 1
    <3>1. req[r].old = FALSE /\ req'[r].old = TRUE /\ req'[r].at = req[r].at
      BY <2>2, <2>3, Zenon
    <3>2. /\ LastDay(req[r]) = (IF req[r].at = "profile" THEN 0 ELSE Window) + 0
          /\ LastDay(req'[r]) = (IF req[r].at = "profile" THEN 0 ELSE Window) + 1
      BY <3>1, Zenon DEF LastDay
    <3> DEFINE days == IF req[r].at = "profile" THEN 0 ELSE Window
    <3>3. days \in Nat
      BY BoundsAssumption
    <3> HIDE DEF days
    <3>4. LastDay(req[r]) = days + 0 /\ LastDay(req'[r]) = days + 1
      BY <3>2 DEF days
    <3> QED BY <3>3, <3>4
  <2> DEFINE key == req[r].pk
             dated == HasRow(key) /\ user[key].deleted \in 0..Window
  <2>5. user'[key] = IF dated THEN Row(user[key].email, user[key].active, user[key].deleted + 1)
                     ELSE user[key]
    BY <1>1, <2>3 DEF NextDay
  <2>6. CASE dated
    <3>1. user'[key].deleted = user[key].deleted + 1 /\ user[key].deleted <= LastDay(req[r])
      BY <2>2, <2>5, <2>6 DEF Row, InTime
    <3> QED BY <2>2, <2>4, <2>6, <3>1
  <2>7. CASE ~dated
    <3>1. user'[key] = user[key] /\ HasRow(key)
      BY <2>2, <2>5, <2>7 DEF HasRow
    <3>2. user[key].deleted <= LastDay(req[r])
      BY <2>2, <3>1 DEF InTime
    <3>3. user[key].deleted \in Int
      BY <2>3, <3>1 DEF HasRow, Rows, Ages, NotDeleted
    <3> QED BY <2>2, <2>4, <3>1, <3>2, <3>3
  <2> QED BY <2>6, <2>7
<1>2. ASSUME ~NextDay, req' = req PROVE InTime'
  <2> SUFFICES ASSUME NEW r \in Requests, req[r].at \in Returning, user'[req[r].pk] # NoRow
               PROVE  user'[req[r].pk].deleted <= LastDay(req[r])
    BY <1>2 DEF InTime, HasRow, LastDay
  <2>1. req[r].pk \in Pks /\ LastDay(req[r]) \in Nat
    <3>1. req[r].pk \in Pks
      BY DEF RequestsOK, RecordOK, Returning, KeySteps
    <3> QED BY <3>1, LastDayIsDay
  <2>2. CASE user'[req[r].pk] = user[req[r].pk]
    BY <2>2 DEF InTime, HasRow
  <2>3. CASE user'[req[r].pk].deleted = NotDeleted \/ user'[req[r].pk].deleted = 0
    BY <2>1, <2>3 DEF NotDeleted
  <2> QED BY <1>2, <2>1, <2>2, <2>3, RowsYoung
<1>3. ASSUME ~NextDay, NEW r \in Requests, NEW q, Becomes(r, q), q.at \notin Returning
      PROVE  InTime'
  BY <1>3, BecomesFresh DEF Fresh
<1>4. ASSUME ~NextDay, NEW r \in Requests, NEW a \in Answers, Answer(r, a) PROVE InTime'
  <2>1. Request(a, req[r].kakao, 0, NoRow, FALSE).at \notin Returning
    BY DEF Request, Returning, Answers
  <2> QED BY <1>3, <1>4, <2>1 DEF Answer
<1>5. ASSUME ~NextDay, NEW r \in Requests, NEW step, NEW p, GotoWith(r, step, p),
             step \notin Returning
      PROVE  InTime'
  <2>1. Request(step, req[r].kakao, p, req[r].row, req[r].old).at \notin Returning
    BY <1>5 DEF Request
  <2> QED BY <1>3, <1>5, <2>1 DEF GotoWith
<1>6. ASSUME ~NextDay, NEW r \in Requests, NEW step \in {"recover", "recover_link"}, NEW p \in Pks,
             GotoWith(r, step, p), WithinWindow(p), HasRow(p), user' = user
      PROVE  InTime'
  <2> DEFINE q == Request(step, req[r].kakao, p, req[r].row, req[r].old)
  <2>1. q.at = step /\ q.pk = p /\ q.old = req[r].old /\ q.old \in BOOLEAN
    BY DEF Request, ReqRecords
  <2>2. Becomes(r, q)
    BY <1>6 DEF GotoWith
  <2> HIDE DEF q
  <2>3. user[p].deleted <= Window /\ user[p].deleted \in Int
    BY <1>6 DEF WithinWindow, HasRow, Rows, Ages, NotDeleted
  <2>4. LastDay(q) \in Int /\ Window <= LastDay(q)
    BY <2>1 DEF LastDay
  <2>5. Fresh(q)
    BY <1>6, <2>1, <2>3, <2>4 DEF Fresh
  <2> QED BY <1>6, <2>2, <2>5, BecomesFresh
<1>7. ASSUME ~NextDay, NEW r \in Requests, Lookup(r) PROVE InTime'
  <2> DEFINE p == social[req[r].kakao]
  <2>1. p \in Pks \cup {0} /\ (p # 0 => HasRow(p)) /\ user' = user
    BY <1>7, LoginTyped DEF Lookup, LoginSteps, LinkedByEmail
  <2>2. \/ Answer(r, "ok") \/ Answer(r, "withdrawn")
        \/ p # 0 /\ WithinWindow(p) /\ GotoWith(r, "recover", p)
        \/ GotoWith(r, "create", req[r].pk) \/ GotoWith(r, "email", req[r].pk)
    BY <1>7 DEF Lookup, Found, Goto
  <2> HIDE DEF p
  <2>3. "ok" \in Answers /\ "withdrawn" \in Answers
        /\ "create" \notin Returning /\ "email" \notin Returning
    BY DEF Answers, Returning
  <2> QED BY <1>4, <1>5, <1>6, <1>7, <2>1, <2>2, <2>3
<1>8. ASSUME ~NextDay, NEW r \in Requests, FindByEmail(r) PROVE InTime'
  <2>1. \/ \E p \in Pks : HasRow(p) /\ WithinWindow(p) /\ GotoWith(r, "recover_link", p)
        \/ \E p \in Pks : GotoWith(r, "link", p)
        \/ Answer(r, "withdrawn") \/ Answer(r, "error")
    BY <1>8 DEF FindByEmail, Found
  <2>2. "error" \in Answers /\ "withdrawn" \in Answers /\ "link" \notin Returning
        /\ user' = user
    BY <1>8 DEF Answers, Returning, FindByEmail
  <2> QED BY <1>4, <1>5, <1>6, <1>8, <2>1, <2>2
<1>9. ASSUME ~NextDay, NEW r \in Requests, CreateFails(r) PROVE InTime'
  <2>1. "again" \notin Returning
    BY DEF Returning
  <2> QED BY <1>5, <1>9, <2>1 DEF CreateFails, Goto
<1>10. ASSUME ~NextDay, NEW r \in Requests,
              Recover(r) \/ RecoverLink(r) \/ Create(r) \/ Link(r) \/ UserStep(r)
       PROVE  InTime'
  <2>1. Answer(r, "ok") \/ Answer(r, "error") \/ Answer(r, "new") \/ Answer(r, "refused")
    BY <1>10, Zenon
    DEF Recover, RecoverLink, Create, Link, UserStep, SaveWithdrawal, SaveProfile, RefuseProfile
  <2> QED BY <1>4, <1>10, <2>1 DEF Answers
<1>11. ASSUME ~NextDay, NEW r \in Requests, NEW k \in Kakao, Login(r, k) PROVE InTime'
  <2>1. Request("lookup", k, 0, NoRow, FALSE).at \notin Returning
    BY DEF Request, Returning
  <2> QED BY <1>3, <1>11, <2>1 DEF Login
<1>12. ASSUME ~NextDay, NEW r \in Requests, NEW p \in Pks, Withdraw(r, p) PROVE InTime'
  <2>1. Request("withdraw", 0, p, user[p], FALSE).at \notin Returning
    BY DEF Request, Returning
  <2> QED BY <1>3, <1>12, <2>1 DEF Withdraw, Authenticated
<1>13. ASSUME ~NextDay, NEW r \in Requests, NEW p \in Pks, EditProfile(r, p) PROVE InTime'
  <2> DEFINE q == Request("profile", 0, p, user[p], FALSE)
  <2>1. q.at = "profile" /\ q.pk = p /\ q.old = FALSE
    BY DEF Request
  <2>2. Becomes(r, q) /\ user' = user /\ user[p].deleted = NotDeleted
    BY <1>13 DEF EditProfile, Authenticated, NoneInLimbo
  <2> HIDE DEF q
  <2>3. Fresh(q)
    BY <2>1, <2>2 DEF Fresh, LastDay, NotDeleted
  <2> QED BY <1>13, <2>2, <2>3, BecomesFresh
<1>14. ASSUME ~NextDay, NEW r \in Requests, LoginStep(r) PROVE InTime'
  BY <1>7, <1>8, <1>9, <1>10, <1>14 DEF LoginStep
<1>15. CASE PurgeStep
  <2>1. req' = req
    BY <1>15 DEF PurgeStep, PurgeSelect, PurgeCollect, PurgeDelete, PurgeFails
  <2> QED BY <1>1, <1>2, <2>1
<1>16. CASE UNCHANGED vars
  BY <1>1, <1>2, <1>16 DEF vars
<1> QED
  <2> HIDE DEF IInv, TypeOK
  <2> QED BY <1>1, <1>10, <1>11, <1>12, <1>13, <1>14, <1>15, <1>16 DEF Next

LEMMA ReturnsStep == IInv /\ InTime /\ [Next]_vars => ReturnsInTime
<1> SUFFICES ASSUME IInv, InTime, [Next]_vars, NEW p \in Pks, Returns(p)
             PROVE  \E r \in Requests : req[r].pk = p /\ req[r].at \in Returning
                                          /\ user[p].deleted <= LastDay(req[r])
  BY DEF ReturnsInTime
<1>1. PICK r \in Requests : (Recover(r) \/ RecoverLink(r) \/ SaveProfile(r)) /\ req[r].pk = p
  BY OwnRowStep DEF OwnRowOnly, OwnRequest
<1>2. req[r].at \in Returning
  BY <1>1, Zenon DEF Recover, RecoverLink, SaveProfile, Returning
<1> QED BY <1>1, <1>2 DEF InTime, Returns

(* Whatever is deleted, brought back and linked meanwhile, a key names one person *)
(* as long as its row is there, and a withdrawn account becomes active again only *)
(* by a request for the same address: a login that recovers it, or a profile edit *)
(* that read the row before (the one step that WithdrawnStays does not allow). *)
THEOREM OnlyOwnRows == Spec => [][OwnRowOnly]_vars
<1>1. IInv /\ [Next]_vars => [OwnRowOnly]_vars
  BY OwnRowStep
<1> QED BY <1>1, Invariance, PTL DEF Spec

(* A login recovers an account only if it found the recovery window open, and an  *)
(* edit that brings one back read its row before the withdrawal; at most one       *)
(* midnight passes on the way.  Who has been away for longer comes back by neither *)
(* (RECOVERY_WINDOW_DAYS). *)
THEOREM ReturnInTime == Spec => [][ReturnsInTime]_vars
<1>1. Init => InTime
  <2> SUFFICES ASSUME Init, NEW r \in Requests PROVE req[r].at \notin Returning
    BY DEF InTime
  <2>1. req[r] = Request("none", 0, 0, NoRow, FALSE)
    BY DEF Init
  <2> QED BY <2>1 DEF Request, Returning
<1>2. IInv /\ InTime /\ [Next]_vars => [ReturnsInTime]_vars
  BY ReturnsStep
<1> QED BY <1>1, <1>2, InTimeNext, Invariance, PTL DEF Spec
===============================================================================
