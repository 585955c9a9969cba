------------------------------ MODULE Follows ------------------------------
(***************************************************************************)
(* Members follow each other (follow_service.py, follow_view.py), leave,   *)
(* come back and are deleted, while somebody scrolls through a list of     *)
(* followers or of followed members, page by page.  A page starts behind   *)
(* the creation time of the last row of the page before                    *)
(* (FollowCursorPagination), not at a number of rows.                      *)
(***************************************************************************)
EXTENDS Integers, FiniteSets

CONSTANTS People,        \* members
          Clicks,        \* requests to follow under way at a time
          Owners,        \* members whose lists are scrolled through
          PageSize,      \* page_size: 20 in the code
          MaxClock       \* bound: rows ever created

ASSUME FollowAssumption == Owners \subseteq People /\ PageSize \in Nat \ {0} /\ MaxClock \in Nat

VARIABLES account,       \* active, withdrawn or gone
          follows,       \* the Follow rows
          clock,         \* the time of the newest row
          ask,           \* per request to follow: what its check let through
          reader         \* who scrolls, with who was shown so far, and shown twice

followVars == <<account, follows, clock, ask, reader>>

NoAsk == [from |-> "nobody", to |-> "nobody"]
NoReader == [at |-> "idle", of |-> "nobody", side |-> "followers", cursor |-> 0,
             seen |-> {}, twice |-> {}, steady |-> {}]

FollowInit ==
    /\ account = [u \in People |-> "active"]
    /\ follows = {} /\ clock = 0
    /\ ask = [c \in Clicks |-> NoAsk]
    /\ reader = NoReader

Active(u) == account[u] = "active"
Pair(f) == <<f.from, f.to>>

\* get_followers and get_following: the rows of a list and whom a row shows.
InList(f, of, side) == of = (IF side = "followers" THEN f.to ELSE f.from)
Shows(f, side) == IF side = "followers" THEN f.from ELSE f.to
Rows(of, side) == {f \in follows : InList(f, of, side)}
Shown(of, side) == {Shows(f, side) : f \in Rows(of, side)}

\* Rows go; the members they showed are no longer there all along.
Drop(gone) ==
    /\ follows' = follows \ gone
    /\ reader' = [reader EXCEPT !.steady = @ \ {Shows(f, reader.side) : f \in
                                   {g \in gone : InList(g, reader.of, reader.side)}}]
-----------------------------------------------------------------------------
\* FollowService.follow: nobody follows himself, and the target must be active.
CheckTarget(c, from, to) ==
    /\ ask[c] = NoAsk /\ from # to /\ Active(from) /\ Active(to)
    /\ ask' = [ask EXCEPT ![c] = [from |-> from, to |-> to]]
    /\ UNCHANGED <<account, follows, clock, reader>>

\* The insertion as it would be if the pair were not unique.
InsertedAgain(f) == follows \cup {f}

\* The insertion: a pair that is there, or a member that is gone, is an
\* IntegrityError, which is answered as a conflict.
Inserted(f) ==
    IF \/ \E g \in follows : Pair(g) = Pair(f)
       \/ account[f.from] = "gone" \/ account[f.to] = "gone"
    THEN follows ELSE follows \cup {f}

CreateFollow(c) ==
    /\ ask[c] # NoAsk /\ clock < MaxClock
    /\ follows' = Inserted([from |-> ask[c].from, to |-> ask[c].to, at |-> clock + 1])
    /\ clock' = IF follows' = follows THEN clock ELSE clock + 1
    /\ ask' = [ask EXCEPT ![c] = NoAsk]
    /\ UNCHANGED <<account, reader>>

Unfollow(from, to) ==
    /\ Active(from)
    /\ \E f \in follows : Pair(f) = <<from, to>> /\ Drop({f})
    /\ UNCHANGED <<account, clock, ask>>

\* A withdrawal is reversible for two weeks and touches no row; then a task
\* deletes the member with all rows that name it (Accounts).
Withdraw(u) ==
    /\ Active(u)
    /\ account' = [account EXCEPT ![u] = "withdrawn"]
    /\ UNCHANGED <<follows, clock, ask, reader>>

Recover(u) ==
    /\ account[u] = "withdrawn"
    /\ account' = [account EXCEPT ![u] = "active"]
    /\ UNCHANGED <<follows, clock, ask, reader>>

PurgeMember(u) ==
    /\ account[u] = "withdrawn"
    /\ account' = [account EXCEPT ![u] = "gone"]
    /\ Drop({f \in follows : u \in {f.from, f.to}})
    /\ UNCHANGED <<clock, ask>>
-----------------------------------------------------------------------------
\* One page of rows: the newest ones.
NewerThan(f, rows) == {g \in rows : g.at > f.at}
Newest(rows) == {f \in rows : Cardinality(NewerThan(f, rows)) < PageSize}

\* The rows after the cursor as they would be if it counted rows.
AfterNumber(of, side) ==
    {f \in Rows(of, side) :
        Cardinality(NewerThan(f, Rows(of, side))) >= Cardinality(reader.seen)}

\* The rows of a list after the cursor.
After(of, side) == {f \in Rows(of, side) : reader.cursor = 0 \/ f.at < reader.cursor}

\* Somebody opens a list; it answers for active members only.
OpenList(of, side) ==
    /\ reader.at # "next" /\ Active(of)
    /\ reader' = [NoReader EXCEPT !.at = "next", !.of = of, !.side = side,
                                  !.steady = Shown(of, side)]
    /\ UNCHANGED <<account, follows, clock, ask>>

\* What a page adds: its members, and those of them that were shown before
\* or are on it twice.
ShownOn(page) == {Shows(f, reader.side) : f \in page}
SeenAgain(page) ==
    {u \in ShownOn(page) : \/ u \in reader.seen
                         \/ \E f, g \in page : /\ f # g
                                               /\ Shows(f, reader.side) = u
                                               /\ Shows(g, reader.side) = u}

\* One page; there is a next one if a row is left behind it, and it starts
\* behind the oldest row of this one.
ReadPage ==
    /\ reader.at = "next"
    /\ LET rest == After(reader.of, reader.side)
           page == Newest(rest)
       IN  reader' = IF ~Active(reader.of) THEN NoReader
                     ELSE [reader EXCEPT
                             !.at = IF rest = page THEN "end" ELSE "next",
                             !.cursor = IF page = {} THEN @
                                        ELSE CHOOSE t \in {f.at : f \in page} :
                                                \A f \in page : t <= f.at,
                             !.seen = @ \cup ShownOn(page),
                             !.twice = @ \cup SeenAgain(page)]
    /\ UNCHANGED <<account, follows, clock, ask>>

FollowNext ==
    \/ \E c \in Clicks : CreateFollow(c) \/ \E u, v \in People : CheckTarget(c, u, v)
    \/ \E u, v \in People : Unfollow(u, v)
    \/ \E u \in People : Withdraw(u) \/ Recover(u) \/ PurgeMember(u)
    \/ \E u \in Owners, side \in {"followers", "following"} : OpenList(u, side)
    \/ ReadPage

FollowSpec == FollowInit /\ [][FollowNext]_followVars
-----------------------------------------------------------------------------
\* Every pair is there once, nobody follows himself, and both members exist,
\* however requests, withdrawals and deletions overlap (follow_service.py:24).
FollowTypeOK ==
    /\ account \in [People -> {"active", "withdrawn", "gone"}]
    /\ \A f \in follows :
          /\ f.at \in 1 .. clock /\ f.from # f.to
          /\ account[f.from] # "gone" /\ account[f.to] # "gone"
          /\ \A g \in follows : Pair(f) = Pair(g) => f = g

\* Who scrolls to the end sees nobody twice and misses nobody who was in the
\* list from the first page to the last, though members follow, leave and
\* follow again meanwhile (follow_service.py:9, pages behind the creation time).
EachSeenOnce ==
    /\ reader.twice = {}
    /\ reader.at = "end" => reader.steady \subseteq reader.seen
=============================================================================
