------------------------------ MODULE Bookmarks ------------------------------
(***************************************************************************)
(* The bookmark of one user at one place, and the log of actions that is   *)
(* written with it.  Adding one checks for a row, then inserts the row and *)
(* a BOOKMARK log in a transaction; removing one reads the row, deletes it *)
(* by its key and logs an UNBOOKMARK, in a transaction as well.  Requests  *)
(* of the user overlap; any of them may fail before it commits.            *)
(***************************************************************************)
EXTENDS Integers, FiniteSets

CONSTANTS Calls,      \* requests under way at a time
          MaxRows     \* bound of the rows inserted

ASSUME RowAssumption == MaxRows \in Nat

VARIABLES marks,      \* the committed rows, by key
          lastKey,    \* the last key used
          click,      \* per request
          made,       \* committed BOOKMARK logs
          removed,    \* committed UNBOOKMARK logs
          vain        \* history: committed deletes that found their row gone

markVars == <<marks, lastKey, click, made, removed, vain>>

NoCall == [at |-> "idle", key |-> 0]
AskAt(c, at, key) == click' = [click EXCEPT ![c] = [at |-> at, key |-> key]]
End(c) == click' = [click EXCEPT ![c] = NoCall]

MarkInit ==
    /\ marks = {}
    /\ lastKey = 0
    /\ click = [c \in Calls |-> NoCall]
    /\ made = 0
    /\ removed = 0
    /\ vain = 0

\* BookmarkCreateDeleteView.post: the look at the table before the transaction.
Add(c) ==
    /\ click[c].at = "idle"
    /\ marks = {}
    /\ AskAt(c, "adding", 0)
    /\ UNCHANGED <<marks, lastKey, made, removed, vain>>

Holding(at) == {c \in Calls : click[c].at = at}

\* The table as it would be without the constraint.
RowThereNot == FALSE

\* unique_user_place_bookmark: a second row is refused.
RowThere == marks # {}

\* The insert waits for another insert and for a delete that are not committed,
\* and is refused when a row is there.
Insert(c) ==
    /\ click[c].at = "adding"
    /\ Holding("inserted") = {}
    /\ \A d \in Holding("deleted") : click[d].key \notin marks
    /\ IF RowThere
       THEN End(c) /\ UNCHANGED lastKey
       ELSE /\ lastKey < MaxRows
            /\ lastKey' = lastKey + 1
            /\ AskAt(c, "inserted", lastKey')
    /\ UNCHANGED <<marks, made, removed, vain>>

\* The row and its log become visible together.
CommitAdd(c) ==
    /\ click[c].at = "inserted"
    /\ marks' = marks \cup {click[c].key}
    /\ made' = made + 1
    /\ End(c)
    /\ UNCHANGED <<lastKey, removed, vain>>

\* BookmarkService.delete_bookmark reads the row, 404 without one.
FindMark(c) ==
    /\ click[c].at = "idle"
    /\ \E k \in marks : AskAt(c, "removing", k)
    /\ UNCHANGED <<marks, lastKey, made, removed, vain>>

\* bookmark.delete() waits for another delete of the row; none is left after it.
Delete(c) ==
    /\ click[c].at = "removing"
    /\ \A d \in Holding("deleted") : click[d].key # click[c].key \/ click[c].key \notin marks
    /\ AskAt(c, "deleted", click[c].key)
    /\ UNCHANGED <<marks, lastKey, made, removed, vain>>

\* The log is written whether the delete found its row or not.
CommitRemove(c) ==
    /\ click[c].at = "deleted"
    /\ removed' = removed + 1
    /\ vain' = IF click[c].key \in marks THEN vain ELSE vain + 1
    /\ marks' = marks \ {click[c].key}
    /\ End(c)
    /\ UNCHANGED <<lastKey, made>>

\* A failure as it would be if the action were logged outside the transaction.
RollbackLogged(c) ==
    /\ click[c].at \in {"adding", "inserted", "removing", "deleted"}
    /\ made' = IF click[c].at = "inserted" THEN made + 1 ELSE made
    /\ End(c)
    /\ UNCHANGED <<marks, lastKey, removed, vain>>

\* A failure before the commit undoes the row and the log.
Rollback(c) ==
    /\ click[c].at \in {"adding", "inserted", "removing", "deleted"}
    /\ End(c)
    /\ UNCHANGED <<marks, lastKey, made, removed, vain>>

MarkNext ==
    \E c \in Calls : \/ Add(c) \/ Insert(c) \/ CommitAdd(c)
                     \/ FindMark(c) \/ Delete(c) \/ CommitRemove(c)
                     \/ Rollback(c)

MarkSpec == MarkInit /\ [][MarkNext]_markVars

-----------------------------------------------------------------------------
\* Every variable keeps its type, and there is at most one row (bookmark/models.py:31).
MarkTypeOK ==
    /\ lastKey \in 0 .. MaxRows
    /\ marks \subseteq 1 .. lastKey /\ Cardinality(marks) <= 1
    /\ click \in [Calls -> [at : {"idle", "adding", "inserted", "removing", "deleted"},
                           key : 0 .. MaxRows]]
    /\ made \in Nat /\ removed \in Nat /\ vain \in Nat

\* The log tells how often the bookmark was set and taken back: a BOOKMARK for
\* every row, an UNBOOKMARK for every row that went.  A delete that another one
\* overtook logs a second UNBOOKMARK for the row (services.py:28-33), and these
\* deletes are the only excess.
LogsBalance == made - removed + vain = Cardinality(marks)
=============================================================================
