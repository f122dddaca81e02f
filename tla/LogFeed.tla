-------------------------------- MODULE LogFeed --------------------------------
(***************************************************************************)
(* What the status page's log promises within one start of the bridge:     *)
(* every page is shown the records in the order they were logged, each     *)
(* once, and misses only those that the bounded buffer had overwritten     *)
(* before they were read.  Across a restart it promises less: a page that  *)
(* stays open goes on after the last number it was shown, and misses the   *)
(* records that the new start gave that number or a lower one.             *)
(***************************************************************************)
EXTENDS Integers, Sequences

CONSTANTS Pages, Capacity   \* Capacity: how many records the buffer holds

VARIABLES
    logged,   \* records logged since the bridge started; the n-th has number n
    shown     \* per page: the numbers of the records on its screen, oldest first

vars == <<logged, shown>>

Init ==
    /\ logged = 0
    /\ shown = [p \in Pages |-> <<>>]

Newest(p) == IF shown[p] = <<>> THEN 0 ELSE shown[p][Len(shown[p])]
Overwritten(n) == n <= logged - Capacity

Log == logged' = logged + 1 /\ UNCHANGED shown

\* A run of records appears, from the first one above Newest that is still held.
Show(p) ==
    \E first, last \in Newest(p) + 1 .. logged :
        /\ first <= last
        /\ \A n \in Newest(p) + 1 .. first - 1 : Overwritten(n)
        /\ shown' = [shown EXCEPT ![p] = @ \o [i \in 1 .. last - first + 1 |-> first + i - 1]]
        /\ UNCHANGED logged

Reload(p) == shown' = [shown EXCEPT ![p] = <<>>] /\ UNCHANGED logged

\* The buffer is in memory: it and the numbers start again with the bridge, but Newest,
\* which decides what Show may add, does not.
Restart == logged' = 0 /\ UNCHANGED shown

Next == Log \/ Restart \/ \E p \in Pages : Show(p) \/ Reload(p)

Spec == Init /\ [][Next]_vars
=============================================================================
