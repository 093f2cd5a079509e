-------------------------------- MODULE Fifo --------------------------------
(***************************************************************************)
(* What a kernel queue promises its users: it keeps at most Capacity       *)
(* items, refuses an item only when it is full, and hands the items out in *)
(* the order they came.                                                    *)
(***************************************************************************)
EXTENDS Naturals, Sequences

CONSTANTS
    Capacity,  \* how many items fit
    NoItem     \* what a taker has before its first item

VARIABLES
    items,     \* the queue
    got,       \* the item taken last
    refused    \* how many items were refused

Init == items = << >> /\ got = NoItem /\ refused = 0

\* Any item is put behind the others.
Put ==
    /\ Len(items) < Capacity
    /\ items' # << >>
    /\ items' = Append(items, items'[Len(items')])
    /\ UNCHANGED <<got, refused>>

Refuse ==
    /\ Len(items) = Capacity
    /\ refused' = refused + 1
    /\ UNCHANGED <<items, got>>

Get ==
    /\ items # << >>
    /\ got' = Head(items) /\ items' = Tail(items)
    /\ UNCHANGED refused

Next == Put \/ Refuse \/ Get

Spec == Init /\ [][Next]_<<items, got, refused>>
=============================================================================
