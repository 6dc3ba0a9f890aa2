-------------------------- MODULE DurableDocument --------------------------
(***************************************************************************)
(* What PILO promises about one Drive document once the Realtime Server's  *)
(* checkpoints are forgotten: editors hand in edits, and the store moves   *)
(* from one version to the next.  A version may only add accepted edits to *)
(* what the version before it already held.                                *)
(***************************************************************************)
EXTENDS Naturals

CONSTANT Edit

VARIABLES
    version,    \* documents.current_version
    content,    \* the edits inside the latest document_snapshots row
    accepted    \* the edits a Realtime Server has taken from a client

vars == <<version, content, accepted>>

TypeOK ==
    /\ version \in Nat
    /\ content \in SUBSET Edit
    /\ accepted \in SUBSET Edit

Init ==
    /\ version = 0
    /\ content = {}
    /\ accepted = {}

Accept(e) ==
    /\ accepted' = accepted \cup {e}
    /\ UNCHANGED <<version, content>>

\* The durable content only grows, and only by edits somebody made.
Commit ==
    \E next \in SUBSET accepted :
        /\ content \subseteq next
        /\ content' = next
        /\ version' = version + 1
        /\ UNCHANGED accepted

Next == Commit \/ \E e \in Edit : Accept(e)

Spec == Init /\ [][Next]_vars
=============================================================================
