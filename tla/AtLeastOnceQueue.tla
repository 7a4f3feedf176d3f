-------------------------- MODULE AtLeastOnceQueue --------------------------
(***************************************************************************)
(* What a queue of omniqueue promises, whatever the backend: a message     *)
(* whose send returned Ok stays with the queue until a Delivery of it has  *)
(* been acked or the queue has given it up, and it is given up only after  *)
(* it has been received often enough.  In between it may be received any   *)
(* number of times, in any order: delivery is at least once.               *)
(*                                                                         *)
(* The state is what the caller can be told about each message.  Copies,   *)
(* lists, pending entries, leases and half-finished calls belong to the    *)
(* implementations: RedisStreams, RedisFallback and Brokers say how theirs *)
(* map to this.                                                            *)
(***************************************************************************)
EXTENDS Naturals

CONSTANTS
    Messages,
    GiveUpAfter   \* receives after which the queue may give a message up

VARIABLES
    promised,  \* messages whose send returned Ok
    held,      \* messages the queue still hands out, now or after a deadline
    receives,  \* how often each was handed out
    acked,     \* messages some consumer has acked
    dead       \* messages the queue has given up

vars == <<promised, held, receives, acked, dead>>

TypeOK ==
    /\ promised \subseteq Messages
    /\ held \subseteq Messages
    /\ receives \in [Messages -> Nat]
    /\ acked \subseteq Messages
    /\ dead \subseteq Messages

Init ==
    /\ promised = {}
    /\ held = {}
    /\ receives = [m \in Messages |-> 0]
    /\ acked = {}
    /\ dead = {}

\* send_raw and send_raw_batch: the queue takes messages and promises messages,
\* of which it took some earlier (a batch goes out in parts) and may be rid of
\* again.  A send that fails may take without promising.
Send ==
    /\ held' \in SUBSET Messages
    /\ held \subseteq held'
    /\ promised \subseteq promised'
    /\ promised' \subseteq promised \cup held' \cup acked \cup dead
    /\ UNCHANGED <<receives, acked, dead>>

\* receive and receive_all hand out messages the queue holds, and keeps.
HandOut ==
    /\ receives' \in [Messages -> Nat]
    /\ \A m \in Messages : receives'[m] >= receives[m]
    /\ \A m \in Messages \ held : receives'[m] = receives[m]
    /\ UNCHANGED <<promised, held, acked, dead>>

\* ack, of a Delivery of m: other copies of m may remain.
Ack(m) ==
    /\ receives[m] > 0
    /\ acked' = acked \cup {m}
    /\ held' \in {held, held \ {m}}
    /\ UNCHANGED <<promised, receives, dead>>

\* The queue gives m up, to the dead letters or for good.
GiveUp(m) ==
    /\ receives[m] > 0
    /\ receives[m] >= GiveUpAfter
    /\ dead' = dead \cup {m}
    /\ held' \in {held, held \ {m}}
    /\ UNCHANGED <<promised, receives, acked>>

\* Copies go, of messages that are acked or given up.
Forget ==
    /\ held' \subseteq held
    /\ held \subseteq held' \cup acked \cup dead
    /\ UNCHANGED <<promised, receives, acked, dead>>

\* A message that was handed out comes back, late, after an ack of it: whoever
\* puts it back works with what it read before.
Requeue(m) ==
    /\ receives[m] > 0
    /\ held' = held \cup {m}
    /\ UNCHANGED <<promised, receives, acked, dead>>

Next ==
    \/ Send \/ HandOut \/ Forget
    \/ \E m \in Messages : Ack(m) \/ GiveUp(m) \/ Requeue(m)

Spec == Init /\ [][Next]_vars

-----------------------------------------------------------------------------
(* Properties *)

\* At least once: what was promised is held, or was acked or given up.
NothingLost ==
    promised \subseteq held \cup acked \cup dead

\* Nobody acks what was not received, and nothing is given up early.
ReceivedFirst ==
    /\ \A m \in acked : receives[m] > 0
    /\ \A m \in dead : receives[m] > 0 /\ receives[m] >= GiveUpAfter

=============================================================================
