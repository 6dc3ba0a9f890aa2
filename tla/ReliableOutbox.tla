--------------------------- MODULE ReliableOutbox ---------------------------
(***************************************************************************)
(* What a transactional outbox promises to the code that writes into it:  *)
(* a message written with a committed change is sent at least once, and it *)
(* is put aside only after it was sent.  Nothing is promised about order,  *)
(* nor that a message is sent only once.                                   *)
(***************************************************************************)
CONSTANT Message        \* what can be written into the outbox

VARIABLES
    owed,               \* the messages whose transaction committed
    sent,               \* the messages handed over at least once
    settled             \* the messages the outbox will not send again

vars == <<owed, sent, settled>>

Init == owed = {} /\ sent = {} /\ settled = {}

Enqueue(m) ==
    /\ m \notin owed
    /\ owed' = owed \cup {m}
    /\ UNCHANGED <<sent, settled>>

Send(m) ==
    /\ m \in owed
    /\ sent' = sent \cup {m}
    /\ UNCHANGED <<owed, settled>>

Settle(m) ==
    /\ m \in sent
    /\ settled' = settled \cup {m}
    /\ UNCHANGED <<owed, sent>>

Next == \E m \in Message : Enqueue(m) \/ Send(m) \/ Settle(m)

Spec ==
    /\ Init
    /\ [][Next]_vars
    /\ \A m \in Message : WF_vars(Send(m)) /\ WF_vars(Settle(m))
=============================================================================
