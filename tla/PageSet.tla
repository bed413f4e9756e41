------------------------------- MODULE PageSet -------------------------------
(* What a page allocator promises: a page is available, used, or withdrawn for *)
(* good; withdrawals end when the first page is handed out.                    *)
VARIABLES
    avail,  \* pages that can be handed out
    used    \* pages handed out

Init == used = {}

Withdraw ==
    /\ used = {}
    /\ avail' \subseteq avail
    /\ UNCHANGED used

Alloc == \E p \in avail : avail' = avail \ {p} /\ used' = used \cup {p}
Free == \E p \in used : used' = used \ {p} /\ avail' = avail \cup {p}

Next == Withdraw \/ Alloc \/ Free
Spec == Init /\ [][Next]_<<avail, used>>
==============================================================================
