--------------------------------- MODULE OwnLists ---------------------------------
(***************************************************************************)
(* The lists of one member's bookmarks and reviews (profile_service.py),   *)
(* read page by page by the member, the reviews also by visitors, while    *)
(* rows are added, removed and edited, places deleted and the member       *)
(* withdraws and comes back.                                               *)
(*                                                                         *)
(* A page is the answer to two queries, the count and the rows, behind the *)
(* newest rows by number: (page - 1) * size of them are left out, whatever *)
(* they are by then, and none is taken behind the number counted.  What a  *)
(* row shows is left out.                                                  *)
(***************************************************************************)
EXTENDS Naturals, FiniteSets

CONSTANTS
    OwnPlaces,      \* places
    OwnPage,        \* rows on a page: 8 in the code
    MaxTicks        \* bound: additions, removals and edits

ASSUME OwnAssumption == OwnPage \in Nat \ {0} /\ MaxTicks \in Nat

VARIABLES
    ownRows,    \* rows of each list: the place, created_at and updated_at
    present,    \* whether the member is active
    ticks,      \* the clock of created_at and updated_at
    scroll,     \* who reads a list
    added,      \* history: rows that came into the list since its first page was asked for
    removed     \* history: and rows that left it

ownVars == <<ownRows, present, ticks, scroll, added, removed>>

-----------------------------------------------------------------------------
Lists == {"bookmarks", "reviews"}
\* Who reads: the rows seen so far, how many were shown, and (history) the rows that have
\* been in the list since its first page was asked for.
NoScroll == [pc |-> "idle", list |-> "bookmarks", page |-> 1, count |-> 0,
             seen |-> {}, total |-> 0, whole |-> {}]

OwnInit ==
    /\ ownRows = [l \in Lists |-> {}] /\ present = TRUE
    /\ ticks = 0 /\ scroll = NoScroll /\ added = 0 /\ removed = 0

-----------------------------------------------------------------------------
(* Rows come and go *)

\* The rows of a list become these.
ListBecomes(l, rows) ==
    /\ ownRows' = [ownRows EXCEPT ![l] = rows]
    /\ UNCHANGED present
    /\ ticks < MaxTicks /\ ticks' = ticks + 1

Noted(l, come, gone) ==
    /\ added' = IF scroll.list = l THEN added + come ELSE added
    /\ removed' = IF scroll.list = l THEN removed + gone ELSE removed

\* A bookmark that is set again is a new row; a review can be written anew as well.
AddRow(l, p) ==
    /\ present /\ \A row \in ownRows[l] : row.place # p
    /\ ListBecomes(l, ownRows[l] \cup {[place |-> p, at |-> ticks + 1, changed |-> ticks + 1]})
    /\ Noted(l, 1, 0) /\ UNCHANGED scroll

\* By its member or an administrator, or with its place.
TakeRow(l, row) ==
    /\ ListBecomes(l, ownRows[l] \ {row})
    /\ scroll' = [scroll EXCEPT !.whole = IF scroll.list = l THEN scroll.whole \ {row.at}
                                          ELSE scroll.whole]
    /\ Noted(l, 0, 1)

EditRow(row) ==
    /\ present
    /\ ListBecomes("reviews", (ownRows["reviews"] \ {row})
                            \cup {[place |-> row.place, at |-> row.at, changed |-> ticks + 1]})
    /\ UNCHANGED <<scroll, added, removed>>

LeaveOrReturn ==
    /\ present' = ~present /\ ticks < MaxTicks /\ ticks' = ticks + 1
    /\ UNCHANGED <<ownRows, scroll, added, removed>>

-----------------------------------------------------------------------------
(* The pages *)

\* Mutated form of Later: the reviews edited last come first.
ChangedLast(row, other) == row.changed > other.changed

\* order_by("-created_at")
Later(row, other) == row.at > other.at

\* The slice of a page of so many rows as have been counted: Paginator.page takes the count
\* for the end of the last page.
OnOwnPage(l, page, count) ==
    {row \in ownRows[l] :
        LET newer == Cardinality({other \in ownRows[l] : Later(other, row)}) IN
        /\ (page - 1) * OwnPage <= newer
        /\ newer < page * OwnPage /\ newer < count}

OpenOwn(l) ==
    /\ scroll.pc = "idle"
    /\ scroll' = [NoScroll EXCEPT !.pc = "asked", !.list = l,
                                  !.whole = {row.at : row \in ownRows[l]}]
    /\ added' = 0 /\ removed' = 0 /\ UNCHANGED <<ownRows, present, ticks>>

\* Each page asks first whether the member is active: the public list in its view, the own
\* lists when they authenticate.  A page behind the end is refused, the first one is not.
CountOwn ==
    /\ scroll.pc = "asked"
    /\ LET count == Cardinality(ownRows[scroll.list]) IN
       scroll' = IF ~present THEN NoScroll
                 ELSE IF scroll.page > 1 /\ count <= (scroll.page - 1) * OwnPage
                 THEN [scroll EXCEPT !.pc = "ended"]
                 ELSE [scroll EXCEPT !.pc = "counted", !.count = count]
    /\ UNCHANGED <<ownRows, present, ticks, added, removed>>

\* Rows are told apart by their creation time.
Seeing(rows, pc) == [scroll EXCEPT !.pc = pc, !.seen = scroll.seen \cup {row.at : row \in rows},
                                   !.total = scroll.total + Cardinality(rows)]

ReadOwn ==
    /\ scroll.pc = "counted"
    /\ scroll' = Seeing(OnOwnPage(scroll.list, scroll.page, scroll.count),
                        IF scroll.count > scroll.page * OwnPage THEN "shown" ELSE "ended")
    /\ UNCHANGED <<ownRows, present, ticks, added, removed>>

MoreOwn ==
    /\ scroll.pc = "shown"
    /\ scroll' = [scroll EXCEPT !.pc = "asked", !.page = scroll.page + 1]
    /\ UNCHANGED <<ownRows, present, ticks, added, removed>>

CloseOwn ==
    /\ scroll.pc \in {"shown", "ended"}
    /\ scroll' = NoScroll /\ added' = 0 /\ removed' = 0
    /\ UNCHANGED <<ownRows, present, ticks>>

OwnNext ==
    \/ \E l \in Lists : \/ \E p \in OwnPlaces : AddRow(l, p)
                        \/ \E row \in ownRows[l] : TakeRow(l, row)
                        \/ OpenOwn(l)
    \/ \E row \in ownRows["reviews"] : EditRow(row)
    \/ LeaveOrReturn \/ CountOwn \/ ReadOwn \/ MoreOwn \/ CloseOwn

OwnSpec == OwnInit /\ [][OwnNext]_ownVars

-----------------------------------------------------------------------------
(* Properties *)

\* Who scrolls through bookmarks or reviews sees a row again at most once for each row added
\* meanwhile, and at the end has missed, of those there all the time, at most one for each
\* row removed meanwhile and each added between the count and the rows of the last page: an
\* edit shifts nothing (UserBookmarkService, UserReviewService: order_by("-created_at")).
OwnShiftBounded ==
    /\ scroll.total <= Cardinality(scroll.seen) + added
    /\ scroll.pc = "ended" => Cardinality(scroll.whole \ scroll.seen) <= removed + added
=============================================================================
