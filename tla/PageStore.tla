----------------------------- MODULE PageStore -----------------------------
(***************************************************************************)
(* What the buffer pool promises: a page has one current content, which    *)
(* only its users change, whatever is cached, evicted or reloaded, and a   *)
(* file that holds some earlier or the current content.  Stopping the      *)
(* program, by a crash or by an orderly shutdown, leaves of every page     *)
(* either what the file held or what was current.                          *)
(***************************************************************************)
CONSTANTS
    Pages,
    ZeroPage,
    Edits       \* the changes users make: pairs of an old and a new content

VARIABLES
    content,    \* what a reader of the page sees
    stable      \* what the file holds

Init ==
    /\ content = [p \in Pages |-> ZeroPage]
    /\ stable = [p \in Pages |-> ZeroPage]

\* A user changes page p, and no other page changes.
Edit(p) ==
    /\ <<content[p], content'[p]>> \in Edits
    /\ content' = [content EXCEPT ![p] = content'[p]]

Write(p) == Edit(p) /\ UNCHANGED stable

Persist(p) ==
    /\ stable' = [stable EXCEPT ![p] = content[p]]
    /\ UNCHANGED content

WriteThrough(p) == Edit(p) /\ stable' = [stable EXCEPT ![p] = content'[p]]

Stop(S) ==
    /\ stable' = [p \in Pages |-> IF p \in S THEN content[p] ELSE stable[p]]
    /\ content' = stable'

Next ==
    \/ \E p \in Pages : Write(p) \/ Persist(p) \/ WriteThrough(p)
    \/ \E S \in SUBSET Pages : Stop(S)

Spec == Init /\ [][Next]_<<content, stable>>
=============================================================================
