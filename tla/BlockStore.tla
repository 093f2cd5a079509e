----------------------------- MODULE BlockStore -----------------------------
(***************************************************************************)
(* What a write-back cache in front of a disk promises: whoever reads sees *)
(* what was written last, the disk may lag behind until a flush, and a     *)
(* restart goes back to what the disk has.                                 *)
(***************************************************************************)
CONSTANTS
    Blocks,
    Data,
    Fresh(_)  \* what a formatted block holds

VARIABLES
    content,  \* what a reader sees
    stable,   \* what would survive a restart
    flushed,  \* nothing has been written since a flush that succeeded
    torn      \* formatting has failed half-way

vars == <<content, stable, flushed, torn>>

Init == content = stable /\ stable \in [Blocks -> Data] /\ ~flushed /\ ~torn

\* Blocks can be written back at any time.
WriteBack(written, new) ==
    stable' = [b \in Blocks |-> IF b \in written THEN new[b] ELSE stable[b]]

Write(b, d) ==
    /\ content' = [content EXCEPT ![b] = d]
    /\ flushed' = FALSE
    /\ \E written \in SUBSET Blocks : WriteBack(written, content')
    /\ UNCHANGED torn

Lag ==
    /\ \E written \in SUBSET Blocks : WriteBack(written, content)
    /\ UNCHANGED <<content, flushed, torn>>

Flush == ~torn /\ stable' = content /\ flushed' = TRUE /\ UNCHANGED <<content, torn>>

Format ==
    /\ stable' = [b \in Blocks |-> Fresh(b)] /\ content' = stable'
    /\ flushed' = FALSE /\ torn' = FALSE

\* Formatting fails half-way, and until it succeeds or the machine restarts
\* nothing is promised.
Torn ==
    /\ content' \in [Blocks -> Data] /\ stable' \in [Blocks -> Data]
    /\ flushed' = FALSE /\ torn' = TRUE

Restart ==
    /\ content' = stable /\ flushed' = FALSE /\ torn' = FALSE
    /\ UNCHANGED stable

Next ==
    \/ \E b \in Blocks, d \in Data : Write(b, d)
    \/ Lag
    \/ Flush
    \/ Format
    \/ Torn
    \/ Restart

Spec == Init /\ [][Next]_vars
=============================================================================
