------------------------------- MODULE RouteStore -------------------------------
(***************************************************************************)
(* What the routes promise, without transactions: a route is one row with  *)
(* its dates and one plan, and every change of it is a single step.  The   *)
(* plan always comes from one request and fits the dates stored with it;   *)
(* a change of the dates alone leaves the plan, a place that is deleted    *)
(* disappears from it, and nothing else happens to it.                     *)
(***************************************************************************)
EXTENDS Integers

CONSTANTS
    Places,     \* places a plan may visit
    Dates,      \* consecutive dates, as numbers
    MaxDays,    \* days of a route
    Plans       \* the plans that requests carry: for each day its stops

VARIABLES
    row,        \* the Route row
    days        \* its RouteDay and RouteDayPlace rows

Day == 1..MaxDays
Row == [there : BOOLEAN, first : Dates, last : Dates]
Stop == [order : Nat, place : Places]
NoDay == [there |-> FALSE, stops |-> {}]
Plan == [Day -> [there : BOOLEAN, stops : SUBSET Stop]]
Empty == [d \in Day |-> NoDay]

\* total_days of _validate_days; zero or less when the dates are the wrong way round.
Length(r) == r.last - r.first + 1
Fits(plan, r) == \A d \in Day : plan[d].there => d <= Length(r)

Without(plan, p) ==
    [d \in Day |-> [there |-> plan[d].there,
                    stops |-> {s \in plan[d].stops : s.place # p}]]

Init == row \in {r \in Row : ~r.there} /\ days = Empty

\* A request stores a row together with its plan.
Store == row'.there /\ row' \in Row /\ days' \in Plans /\ Fits(days', row')

\* A request without days stores the row and leaves the plan.
StoreRow == row'.there /\ row' \in Row /\ UNCHANGED days

Remove == row' \in {r \in Row : ~r.there} /\ days' = Empty

LosePlace == \E p \in Places : days' = Without(days, p) /\ UNCHANGED row

Next == Store \/ StoreRow \/ Remove \/ LosePlace

Spec == Init /\ [][Next]_<<row, days>>
=============================================================================
