-------------------------- MODULE DocumentContract --------------------------
(***************************************************************************)
(* A document as its user and a search know it, with the stores, the queue *)
(* and the workers out of sight.  docs/robustness-plan.md, phase 4, asks   *)
(* this of them: it is built once (E02), the searches find all of it from  *)
(* the moment it is ready and nothing of it before or after (E01, E07),    *)
(* and its segments go only when it is gone (E04).                         *)
(***************************************************************************)
CONSTANT Documents

VARIABLES stage,       \* how far each document is
          contents,    \* the segments it has
          byKeyword,   \* those a full-text search finds
          byVector     \* those a semantic search finds

Init ==
    /\ stage \in [Documents -> {"none", "ready"}]
    /\ \A d \in Documents : stage[d] = "none" => contents[d] = {}
    /\ byKeyword = [d \in Documents |-> contents[d]]
    /\ byVector = [d \in Documents |-> contents[d]]

Becomes(d, from, to) ==
    /\ stage[d] = from
    /\ stage' = [stage EXCEPT ![d] = to]

\* Both searches find of document d just the segments `found'.
Find(d, found) ==
    /\ byKeyword' = [byKeyword EXCEPT ![d] = found]
    /\ byVector' = [byVector EXCEPT ![d] = found]

Accept(d) ==
    /\ Becomes(d, "none", "building")
    /\ UNCHANGED <<contents, byKeyword, byVector>>

Grow(d) ==
    /\ stage[d] = "building"
    /\ contents' = [contents EXCEPT ![d] = contents'[d]]
    /\ contents[d] \subseteq contents'[d]
    /\ UNCHANGED <<stage, byKeyword, byVector>>

\* It is ready with all it has.
Publish(d) ==
    /\ Becomes(d, "building", "ready")
    /\ Find(d, contents[d])
    /\ UNCHANGED contents

GiveUp(d) ==
    /\ Becomes(d, "building", "failed")
    /\ UNCHANGED <<contents, byKeyword, byVector>>

\* The user deletes it; it is out of every search at once.
Remove(d) ==
    /\ Becomes(d, "ready", "gone") \/ Becomes(d, "failed", "gone")
    /\ Find(d, {})
    /\ UNCHANGED contents

CleanUp(d) ==
    /\ stage[d] = "gone"
    /\ contents' = [contents EXCEPT ![d] = {}]
    /\ UNCHANGED <<stage, byKeyword, byVector>>

Next ==
    \E d \in Documents :
        Accept(d) \/ Grow(d) \/ Publish(d) \/ GiveUp(d) \/ Remove(d) \/ CleanUp(d)

Spec == Init /\ [][Next]_<<stage, contents, byKeyword, byVector>>

-----------------------------------------------------------------------------
\* What this comes to for who searches: all of a document that is ready is found, by
\* keyword and by vector, and nothing of a document at any other stage.
SearchesAreExact ==
    \A d \in Documents :
        LET all == IF stage[d] = "ready" THEN contents[d] ELSE {}
        IN byKeyword[d] = all /\ byVector[d] = all
=============================================================================
