-------------------------------- MODULE List --------------------------------
(***************************************************************************)
(* The intrusive singly linked list of 02.Kernel64/Source/List.c.          *)
(*                                                                         *)
(* A LIST is its header, its tail and its item count; the links are kept   *)
(* in the items themselves, so they are one function next on all the       *)
(* items that can be on a list of the kind, and an item keeps its link     *)
(* when it leaves a list.  An operation returns the new list and links.    *)
(***************************************************************************)
EXTENDS Integers, FiniteSets

CONSTANTS
    Slots,   \* the items
    NULL     \* the null pointer

ASSUME NullAssumption  == NULL \notin Slots
ASSUME SlotsAssumption == IsFiniteSet(Slots)

Pointer  == Slots \cup {NULL}
ListType == [head : Pointer, tail : Pointer, count : Int]
LinkType == [Slots -> Pointer]

\* kInitializeList
EmptyList == [head |-> NULL, tail |-> NULL, count |-> 0]

\* kAddListToTail: the old tail, when there is one, gets linked to x.
AddListToTail(l, next, x) ==
    IF l.head = NULL
    THEN [list |-> [head |-> x, tail |-> x, count |-> 1],
          next |-> [next EXCEPT ![x] = NULL]]
    ELSE [list |-> [head |-> l.head, tail |-> x, count |-> l.count + 1],
          next |-> [next EXCEPT ![x] = NULL, ![l.tail] = x]]

\* The items a search starting at the header meets, in order: it follows the
\* links to a null pointer, past the tail if the tail has a link.
Chain(l, next) ==
    LET at[k \in 0 .. Cardinality(Slots)] ==
            IF k = 0 THEN l.head
            ELSE IF at[k - 1] = NULL THEN NULL ELSE next[at[k - 1]]
    IN  at

\* The k-th item of the chain is the first one of the set wanted.
FirstHit(at, k, wanted) ==
    /\ at[k] \in wanted
    /\ k > 0 => at[k - 1] \in Slots
    /\ \A j \in 0 .. k - 1 : at[j] \notin wanted

\* Faulty: the tail stays where it was.
UnlinkKeepsTail(l, next, previous, x) ==
    [node |-> x,
     list |-> [head  |-> IF x # l.head THEN l.head
                         ELSE IF x = l.tail THEN NULL ELSE next[x],
               tail  |-> l.tail,
               count |-> l.count - 1],
     next |-> IF x \in {l.head, l.tail} THEN next
              ELSE [next EXCEPT ![previous] = next[x]]]

\* The list l without its item x, which the search found behind previous.
\* Neither the link of x nor, when x was the tail, that of previous changes.
Unlink(l, next, previous, x) ==
    [node |-> x,
     list |-> [head  |-> IF x # l.head THEN l.head
                         ELSE IF x = l.tail THEN NULL ELSE next[x],
               tail  |-> IF x # l.tail THEN l.tail
                         ELSE IF x = l.head THEN NULL ELSE previous,
               count |-> l.count - 1],
     next |-> IF x \in {l.head, l.tail} THEN next
              ELSE [next EXCEPT ![previous] = next[x]]]

\* kRemoveList: wanted is the set of items whose qwID is the one asked for.
RemoveList(l, next, wanted) ==
    LET at == Chain(l, next)
        positions == 0 .. Cardinality(Slots)
    IN  IF \E k \in positions : FirstHit(at, k, wanted)
        THEN LET k == CHOOSE k \in positions : FirstHit(at, k, wanted)
             IN  Unlink(l, next, IF k = 0 THEN at[k] ELSE at[k - 1], at[k])
        ELSE [node |-> NULL, list |-> l, next |-> next]

\* kRemoveListFromHeader: the header is found by its own ID, at once.  (With a
\* count but no header the code reads an ID at address 0, which is mapped, and
\* then searches an empty chain.)
RemoveListFromHeader(l, next) ==
    IF l.count = 0 \/ l.head = NULL
    THEN [node |-> NULL, list |-> l, next |-> next]
    ELSE Unlink(l, next, l.head, l.head)

-----------------------------------------------------------------------------
\* What a list means.

Members(l, next) == {Chain(l, next)[k] : k \in 0 .. l.count - 1}

\* Its count items are reached from the header, each once, the tail last.
WellFormed(l, next) ==
    /\ l.count \in 0 .. Cardinality(Slots)
    /\ l.count = 0 => l.head = NULL /\ l.tail = NULL
    /\ l.count > 0 =>
         /\ Members(l, next) \subseteq Slots
         /\ Cardinality(Members(l, next)) = l.count
         /\ Chain(l, next)[l.count - 1] = l.tail
=============================================================================
