------------------------------- MODULE Accounts -------------------------------
(***************************************************************************)
(* Accounts (auth_service.py, profile_view.py, tasks.py): users log in with *)
(* Kakao, withdraw, come back within RECOVERY_WINDOW_DAYS, edit their       *)
(* profile; a nightly task deletes who stayed away.                        *)
(*                                                                         *)
(* The database is read committed: a statement sees what is committed, and *)
(* a request is cut where another transaction may commit between two of    *)
(* its statements.  The statements from the first write of a transaction to *)
(* its commit are one step: what they write cannot be seen before, and     *)
(* another writer of these rows waits for the commit.                      *)
(*                                                                         *)
(* Abstracted: nicknames (a clash is a choice), the other profile fields,  *)
(* the answers of Kakao, tokens and cookies.                               *)
(***************************************************************************)
EXTENDS Integers

CONSTANTS
    Kakao,            \* Kakao accounts, by provider id, from one
    Emails,           \* addresses, in any spelling
    EmailOf,          \* the address that Kakao gives for an account
    Normal,           \* normalize_email: the spelling that is stored
    Requests,         \* requests in flight
    NoRow,            \* a key without row
    MaxUsers,         \* bound: primary keys in use at one time
    Window,           \* RECOVERY_WINDOW_DAYS
    MaxClashes        \* bound: generated nicknames that were just taken

ASSUME EmailAssumption ==
    /\ EmailOf \in [Kakao -> Emails]
    /\ Normal \in [Emails -> Emails]
    /\ \A e \in Emails : Normal[Normal[e]] = Normal[e]
ASSUME BoundsAssumption ==
    /\ MaxUsers \in Nat /\ Window \in Nat /\ MaxClashes \in Nat
ASSUME KakaoAssumption == Kakao \subseteq Nat \ {0}

VARIABLES
    user,      \* table user, by primary key
    social,    \* table social_users: the user of a Kakao account, or 0
    req,       \* the requests
    purge,     \* the run of purge_withdrawn_users
    clashes

vars == <<user, social, req, purge, clashes>>

Pks == 1..MaxUsers
NotDeleted == -1                       \* deleted_at IS NULL
Ages == NotDeleted..(Window + 1)       \* days since deleted_at

Stored == {Normal[e] : e \in Emails}
Rows == [email : Stored, active : BOOLEAN, deleted : Ages]
ASSUME NoRowAssumption == NoRow \notin Rows
Row(e, active, deleted) == [email |-> e, active |-> active, deleted |-> deleted]
HasRow(p) == user[p] # NoRow

Steps == {"lookup", "create", "again", "email", "recover", "recover_link",
          "link", "withdraw", "profile"}
Answers == {"none", "new", "ok", "withdrawn", "refused", "error"}

ReqRecords == [at : Steps \cup Answers, kakao : Kakao \cup {0}, pk : Pks \cup {0},
               row : Rows \cup {NoRow}, old : BOOLEAN]
Request(at, kakao, pk, row, old) ==
    [at |-> at, kakao |-> kakao, pk |-> pk, row |-> row, old |-> old]
Busy(r) == req[r].at \in Steps

Init ==
    /\ user = [p \in Pks |-> NoRow]
    /\ social = [k \in Kakao |-> 0]
    /\ req = [r \in Requests |-> Request("none", 0, 0, NoRow, FALSE)]
    /\ purge = [at |-> "idle", users |-> {}, links |-> {}, old |-> FALSE]
    /\ clashes = 0

-----------------------------------------------------------------------------
(* Login: get_or_create_user *)

Becomes(r, q) == req' = [req EXCEPT ![r] = q]
GotoWith(r, step, p) ==
    Becomes(r, Request(step, req[r].kakao, p, req[r].row, req[r].old))
Goto(r, step) == GotoWith(r, step, req[r].pk)
Answer(r, answer) == Becomes(r, Request(answer, req[r].kakao, 0, NoRow, FALSE))

Login(r, k) ==
    /\ ~Busy(r)
    /\ Becomes(r, Request("lookup", k, 0, NoRow, FALSE))
    /\ UNCHANGED <<user, social, purge, clashes>>

WithinWindow(p) == user[p].deleted # NotDeleted /\ user[p].deleted <= Window

\* What a login does with the user it has found; save is the step that
\* stores the recovery.
Found(r, p, ready, save) ==
    \/ user[p].active /\ ready
    \/ ~user[p].active /\ WithinWindow(p) /\ GotoWith(r, save, p)
    \/ ~user[p].active /\ ~WithinWindow(p) /\ Answer(r, "withdrawn")

\* The account is looked up by its provider id, again after an IntegrityError.
Lookup(r) ==
    LET p == social[req[r].kakao]
    IN  /\ req[r].at \in {"lookup", "again"}
        /\ \/ p # 0 /\ Found(r, p, Answer(r, "ok"), "recover")
           \/ p = 0 /\ req[r].at = "lookup" /\ Goto(r, "create")
           \/ p = 0 /\ req[r].at = "again" /\ Goto(r, "email")
        /\ UNCHANGED <<user, social, purge, clashes>>

\* _recover_or_raise: save(update_fields=...) fails when the row is gone.
Recover(r) ==
    LET p == req[r].pk
    IN  /\ req[r].at = "recover"
        /\ \/ /\ HasRow(p)
              /\ user' = [user EXCEPT ![p] = Row(user[p].email, TRUE, NotDeleted)]
              /\ Answer(r, "ok")
           \/ ~HasRow(p) /\ Answer(r, "error") /\ UNCHANGED user
        /\ UNCHANGED <<social, purge, clashes>>

EmailTaken(e) == \E p \in Pks : HasRow(p) /\ user[p].email = e

\* A primary key that nobody holds; the smallest, as all are alike.
Free(p) ==
    /\ ~HasRow(p) /\ p \notin purge.users
    /\ \A r \in Requests : Busy(r) => req[r].pk # p
FirstFree(p) == Free(p) /\ \A q \in Pks : q < p => ~Free(q)

\* The savepoint: both rows are inserted or none.
Create(r) ==
    LET k == req[r].kakao
        e == Normal[EmailOf[k]]
    IN  /\ req[r].at = "create"
        /\ ~EmailTaken(e) /\ social[k] = 0
        /\ \E p \in Pks :
              /\ FirstFree(p)
              /\ user' = [user EXCEPT ![p] = Row(e, TRUE, NotDeleted)]
              /\ social' = [social EXCEPT ![k] = p]
              /\ Answer(r, "new")
        /\ UNCHANGED <<purge, clashes>>

\* IntegrityError: the address or the Kakao account is there, or the nickname
\* was taken after generate_nickname had looked.
CreateFails(r) ==
    /\ req[r].at = "create"
    /\ \/ /\ EmailTaken(Normal[EmailOf[req[r].kakao]]) \/ social[req[r].kakao] # 0
          /\ UNCHANGED clashes
       \/ clashes < MaxClashes /\ clashes' = clashes + 1
    /\ Goto(r, "again")
    /\ UNCHANGED <<user, social, purge>>

\* Mutated form of FindByEmail: every IntegrityError is raised again.
RaiseAgain(r) ==
    /\ req[r].at = "email"
    /\ Answer(r, "error")
    /\ UNCHANGED <<user, social, purge, clashes>>

\* Case 2: the user of this address, as Kakao spells it.
FindByEmail(r) ==
    LET e == EmailOf[req[r].kakao]
    IN  /\ req[r].at = "email"
        /\ \/ \E p \in Pks : HasRow(p) /\ user[p].email = e
                             /\ Found(r, p, GotoWith(r, "link", p), "recover_link")
           \/ ~EmailTaken(e) /\ Answer(r, "error")
        /\ UNCHANGED <<user, social, purge, clashes>>

\* Recovery and link commit together; the IntegrityError of a link that
\* another request was faster with ends the request.
RecoverLink(r) ==
    LET p == req[r].pk
        k == req[r].kakao
    IN  /\ req[r].at = "recover_link"
        /\ \/ /\ HasRow(p) /\ social[k] = 0
              /\ user' = [user EXCEPT ![p] = Row(user[p].email, TRUE, NotDeleted)]
              /\ social' = [social EXCEPT ![k] = p]
              /\ Answer(r, "ok")
           \/ /\ ~HasRow(p) \/ social[k] # 0
              /\ Answer(r, "error")
              /\ UNCHANGED <<user, social>>
        /\ UNCHANGED <<purge, clashes>>

\* An active user gets the link; here the IntegrityError is swallowed.  When
\* the user is gone the foreign key fails at the commit.
Link(r) ==
    LET p == req[r].pk
        k == req[r].kakao
    IN  /\ req[r].at = "link"
        /\ \/ /\ HasRow(p) \/ social[k] # 0
              /\ social' = IF social[k] = 0 THEN [social EXCEPT ![k] = p] ELSE social
              /\ Answer(r, "ok")
           \/ ~HasRow(p) /\ social[k] = 0 /\ Answer(r, "error") /\ UNCHANGED social
        /\ UNCHANGED <<user, purge, clashes>>

-----------------------------------------------------------------------------
(* Requests of a user who is logged in: authentication reads the row *)

Authenticated(r, p, step) ==
    /\ ~Busy(r)
    /\ HasRow(p) /\ user[p].active
    /\ Becomes(r, Request(step, 0, p, user[p], FALSE))
    /\ UNCHANGED <<user, social, purge, clashes>>

Withdraw(r, p) == Authenticated(r, p, "withdraw")
EditProfile(r, p) == Authenticated(r, p, "profile")

\* save(update_fields=...), which fails when the row is gone.
SaveWithdrawal(r) ==
    LET p == req[r].pk
    IN  /\ req[r].at = "withdraw"
        /\ \/ /\ HasRow(p)
              /\ user' = [user EXCEPT ![p] = Row(user[p].email, FALSE, 0)]
              /\ Answer(r, "ok")
           \/ ~HasRow(p) /\ Answer(r, "error") /\ UNCHANGED user
        /\ UNCHANGED <<social, purge, clashes>>

\* serializer.save() writes every column of the row that authentication read,
\* and inserts that row when it is gone.
SaveProfile(r) ==
    LET p == req[r].pk
        taken == \E q \in Pks \ {p} : HasRow(q) /\ user[q].email = req[r].row.email
    IN  /\ req[r].at = "profile"
        /\ \/ ~taken /\ user' = [user EXCEPT ![p] = req[r].row] /\ Answer(r, "ok")
           \/ taken /\ Answer(r, "error") /\ UNCHANGED user
        /\ UNCHANGED <<social, purge, clashes>>

\* The nickname is taken, or a field is not valid.
RefuseProfile(r) ==
    /\ req[r].at = "profile"
    /\ Answer(r, "refused")
    /\ UNCHANGED <<user, social, purge, clashes>>

-----------------------------------------------------------------------------
(* The nightly purge: a queryset's delete() *)

Expired(p) == HasRow(p) /\ ~user[p].active /\ user[p].deleted > Window

\* Mutated form of PurgeSelect: the comparison with the cut-off is turned round.
PurgeSelectRecent ==
    /\ purge.at = "idle"
    /\ purge' = [purge EXCEPT !.at = "collect",
                              !.users = {p \in Pks : HasRow(p) /\ ~user[p].active
                                                      /\ ~Expired(p)}]
    /\ UNCHANGED <<user, social, req, clashes>>

PurgeSelect ==
    /\ purge.at = "idle"
    /\ purge' = [purge EXCEPT !.at = "collect", !.users = {p \in Pks : Expired(p)}]
    /\ UNCHANGED <<user, social, req, clashes>>

\* The rows that refer to the users, for the cascade.
PurgeCollect ==
    /\ purge.at = "collect"
    /\ purge' = [purge EXCEPT !.at = "delete",
                              !.links = {k \in Kakao : social[k] \in purge.users}]
    /\ UNCHANGED <<user, social, req, clashes>>

PurgeEnds == purge' = [at |-> "idle", users |-> {}, links |-> {}, old |-> FALSE]
NewLinks == {k \in Kakao \ purge.links : social[k] \in purge.users}

\* Mutated form of PurgeDelete: the links are not deleted with their users.
PurgeUsersOnly ==
    /\ purge.at = "delete" /\ NewLinks = {}
    /\ user' = [p \in Pks |-> IF p \in purge.users THEN NoRow ELSE user[p]]
    /\ PurgeEnds
    /\ UNCHANGED <<social, req, clashes>>

PurgeDelete ==
    /\ purge.at = "delete" /\ NewLinks = {}
    /\ user' = [p \in Pks |-> IF p \in purge.users THEN NoRow ELSE user[p]]
    /\ social' = [k \in Kakao |-> IF k \in purge.links THEN 0 ELSE social[k]]
    /\ PurgeEnds
    /\ UNCHANGED <<req, clashes>>

\* A link was made since: the foreign key fails and all is rolled back.
PurgeFails ==
    /\ purge.at = "delete" /\ NewLinks # {}
    /\ PurgeEnds
    /\ UNCHANGED <<user, social, req, clashes>>

\* A day passes.  No request and no purge lasts from one midnight to the next.
NextDay ==
    /\ \A r \in Requests : ~req[r].old
    /\ ~purge.old
    /\ user' = [p \in Pks |->
                  IF HasRow(p) /\ user[p].deleted \in 0..Window
                  THEN Row(user[p].email, user[p].active, user[p].deleted + 1)
                  ELSE user[p]]
    /\ req' = [r \in Requests |->
                 Request(req[r].at, req[r].kakao, req[r].pk, req[r].row, Busy(r))]
    /\ purge' = [purge EXCEPT !.old = purge.at # "idle"]
    /\ UNCHANGED <<social, clashes>>

-----------------------------------------------------------------------------
LoginStep(r) ==
    \/ Lookup(r) \/ Recover(r) \/ Create(r) \/ CreateFails(r)
    \/ FindByEmail(r) \/ RecoverLink(r) \/ Link(r)
UserStep(r) == SaveWithdrawal(r) \/ SaveProfile(r) \/ RefuseProfile(r)
PurgeStep == PurgeSelect \/ PurgeCollect \/ PurgeDelete \/ PurgeFails

Next ==
    \/ \E r \in Requests :
          \/ \E k \in Kakao : Login(r, k)
          \/ \E p \in Pks : Withdraw(r, p) \/ EditProfile(r, p)
          \/ LoginStep(r) \/ UserStep(r)
    \/ PurgeStep
    \/ NextDay

Spec == Init /\ [][Next]_vars

\* Requests come to an end, days pass, and the purge is scheduled every night.
Fairness ==
    /\ \A r \in Requests : WF_vars(LoginStep(r) \/ UserStep(r))
    /\ WF_vars(PurgeStep)
    /\ WF_vars(NextDay)

FairSpec == Spec /\ Fairness

-----------------------------------------------------------------------------
(* Properties *)

TypeOK ==
    /\ user \in [Pks -> Rows \cup {NoRow}]
    /\ social \in [Kakao -> Pks \cup {0}]
    /\ req \in [Requests -> ReqRecords]
    /\ purge \in [at : {"idle", "collect", "delete"}, users : SUBSET Pks,
                  links : SUBSET Kakao, old : BOOLEAN]
    /\ clashes \in 0..MaxClashes

\* An account is active or has the date of its withdrawal: without one the
\* purge would never delete it and a login never recover it.
NoneInLimbo ==
    \A p \in Pks : HasRow(p) => (user[p].active <=> user[p].deleted = NotDeleted)

\* A Kakao account leads to the user of its address: whatever logins, links
\* and purges overlap, two Kakao accounts of one person share one user and a
\* link never leads to a deleted user.
LinkedByEmail ==
    \A k \in Kakao : social[k] # 0 =>
        /\ HasRow(social[k])
        /\ user[social[k]].email = Normal[EmailOf[k]]

\* The rows of a person fit together: an inactive one is dated and a linked one is the
\* person's own.
RowsFit == NoneInLimbo /\ LinkedByEmail

\* Who withdraws and stays away is deleted in the end, although a purge may
\* fail as a whole.
GoneInTheEnd == \A p \in Pks : Expired(p) ~> ~Expired(p)

\* Whoever keeps logging in is let in, or told that the account has been
\* withdrawn: no state makes every login of a person fail.  For addresses that
\* Kakao spells as they are stored.
SamePerson(k) == {j \in Kakao : Normal[EmailOf[j]] = Normal[EmailOf[k]]}
LoggingIn(k) == \E r \in Requests : req[r].at = "lookup" /\ req[r].kakao = k
LetIn(k) == \E r \in Requests :
    req[r].at \in {"new", "ok", "withdrawn"} /\ req[r].kakao \in SamePerson(k)
LoginSucceeds ==
    \A k \in Kakao : Normal[EmailOf[k]] = EmailOf[k] =>
        ([]<>LoggingIn(k) => []<>LetIn(k))

\* An account that has been withdrawn becomes active again only by a login
\* that recovers it.
WithdrawnStays ==
    [][\A p \in Pks :
          (HasRow(p) /\ ~user[p].active /\ user'[p] # NoRow /\ user'[p].active)
              => \E r \in Requests : Recover(r) \/ RecoverLink(r)]_vars
=============================================================================
