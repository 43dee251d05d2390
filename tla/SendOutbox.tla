------------------------------ MODULE SendOutbox ------------------------------
(***************************************************************************)
(* What the send protocol promises about one provider draft, whatever the  *)
(* number of threads, crashes and repairs: an outbox whose entries leave   *)
(* at most once, are called sent only after they left, and go back to the  *)
(* queue only when they have not.                                          *)
(***************************************************************************)

CONSTANT Drafts

VARIABLES
    phase,      \* draft -> what the database says of it
    delivered   \* the drafts that left the mailbox

Init ==
    /\ phase = [d \in Drafts |-> "absent"]
    /\ delivered = {}

Become(d, p) == phase' = [phase EXCEPT ![d] = p]

Prepare(d) ==
    /\ phase[d] = "absent"
    /\ Become(d, "provider_draft_created") \/ Become(d, "failed")
    /\ UNCHANGED delivered

Request(d) ==
    /\ phase[d] = "provider_draft_created"
    /\ Become(d, "send_requested") \/ Become(d, "failed")
    /\ UNCHANGED delivered

Deliver(d) ==
    /\ phase[d] = "send_requested"
    /\ d \notin delivered
    /\ delivered' = delivered \cup {d}
    /\ UNCHANGED phase

(* A delivered draft may end up failed: its answer was lost. *)
Settle(d) ==
    /\ phase[d] = "send_requested"
    /\ (d \in delivered /\ Become(d, "sent")) \/ Become(d, "failed")
    /\ UNCHANGED delivered

Requeue(d) ==
    /\ phase[d] \in {"send_requested", "failed"}
    /\ d \notin delivered
    /\ Become(d, "provider_draft_created")
    /\ UNCHANGED delivered

Next == \E d \in Drafts :
    Prepare(d) \/ Request(d) \/ Deliver(d) \/ Settle(d) \/ Requeue(d)

Spec == Init /\ [][Next]_<<phase, delivered>>
==============================================================================
