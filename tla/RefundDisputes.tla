---------------------------- MODULE RefundDisputes ----------------------------
(***************************************************************************)
(* The disputes of what Uber deducted for customer refunds.                *)
(*                                                                         *)
(* detect_customer_refund_disputes opens one dispute per deduction, and an *)
(* imported proof may open one.  A dispute needs a claim order and a       *)
(* receipt, is drafted, sent and reviewed; each request of a person is one *)
(* transaction and one action.  The worker's run_customer_refund_autopilot *)
(* lists its candidates once and then works through them, committing       *)
(* before every call to Gmail.                                             *)
(*                                                                         *)
(* The policy of every dispute type asks for the receipt alone, so the     *)
(* requirements of a dispute are one Boolean and its evidence is never     *)
(* "partial" or "not_required".                                            *)
(*                                                                         *)
(* A definition whose comment begins with "Fault" is no part of the        *)
(* specification.                                                          *)
(***************************************************************************)
EXTENDS Integers, Sequences, FiniteSets

CONSTANTS
    Disputes,           \* numbered in the order of deducted_at and id
    Orders,             \* Uber order numbers
    OrderOf,            \* dispute -> the order number of its transaction
    Unclassified,       \* disputes whose transaction no rule fits
    Workers,            \* worker threads
    MaxCandidates,      \* max_candidates of a pass
    Decisions,          \* the types of review people make
    MaxMails            \* bound: mails that leave for one dispute

REVIEW_STATUS_TRANSITIONS ==
    [accepted |-> "accepted", payment_to_verify |-> "payment_to_verify",
     payment_confirmed |-> "payment_confirmed", refused |-> "refused",
     evidence_requested |-> "needs_evidence", information_requested |-> "manual_review",
     followup_needed |-> "manual_review", ignored |-> "ignored",
     manual_review |-> "manual_review"]

ReviewTypes == DOMAIN REVIEW_STATUS_TRANSITIONS

ASSUME RefundsAssumption ==
    /\ Disputes \subseteq Nat \ {0} /\ IsFiniteSet(Disputes)
    /\ OrderOf \in [Disputes -> Orders] /\ Unclassified \subseteq Disputes
    /\ MaxCandidates \in Nat \ {0} /\ MaxMails \in Nat
    /\ Decisions \subseteq ReviewTypes

PROTECTED_DISPUTE_STATUSES == {"payment_confirmed", "ignored"}

POSITIVE_CUSTOMER_REFUND_STATUSES == {"accepted", "payment_to_verify", "payment_confirmed"}

(* The statuses run_customer_refund_autopilot selects. *)
CandidateStatuses == {"evidence_ready", "draft_created", "gmail_draft_created", "sent"}

DisputeStatus ==
    {"undetected", "needs_evidence", "refused", "manual_review"}
        \cup CandidateStatuses \cup PROTECTED_DISPUTE_STATUSES
        \cup POSITIVE_CUSTOMER_REFUND_STATUSES

Dispute ==
    [status : DisputeStatus,
     unknown : BOOLEAN,                 \* dispute_type: no rule fits
     evidence_status : {"missing", "complete", "manual_review"},
     claim_order : BOOLEAN,             \* claim_order_id is set
     receipt : BOOLEAN,                 \* the requirement is uploaded
     email_draft : BOOLEAN,             \* dispute_email_draft_id is set
     mail : {"none", "draft", "send_requested", "sent", "retryable", "failed"}]

FINAL_ORDER_STATUSES == {"accepted", "payment_confirmed", "refused"}

(* Of the claim order's statuses only the end is told from the rest. *)
OrderStatus == {"none", "open", "final"}

VARIABLES
    dispute,    \* dispute -> its row, its requirement and its provider draft
    order,      \* order number -> status of its claim order
    photo,      \* orders with a receipt among their evidence files
    left,       \* dispute -> mails that left Gmail for it
    todo,       \* worker -> the disputes of its list not yet worked on
    pc,         \* worker -> where it is
    job,        \* worker -> the dispute it works on
    own         \* worker -> its provider draft is still the dispute's

rows == <<dispute, order, photo>>
vars == <<dispute, order, photo, left, todo, pc, job, own>>

NewDispute(s, u, c) ==
    [status |-> s, unknown |-> u, evidence_status |-> "missing", claim_order |-> c,
     receipt |-> FALSE, email_draft |-> FALSE, mail |-> "none"]

NoDispute == NewDispute("undetected", FALSE, FALSE)

None == 0   \* no dispute has this number

RefundsTypeOK ==
    /\ dispute \in [Disputes -> Dispute]
    /\ order \in [Orders -> OrderStatus]
    /\ photo \subseteq Orders
    /\ left \in [Disputes -> 0 .. MaxMails]
    /\ todo \in [Workers -> Seq(Disputes)]
    /\ pc \in [Workers -> {"idle", "loop", "create", "send", "call"}]
    /\ job \in [Workers -> Disputes \cup {None}]
    /\ own \in [Workers -> BOOLEAN]

Init ==
    /\ dispute = [d \in Disputes |-> NoDispute]
    /\ order = [o \in Orders |-> "none"]
    /\ photo = {}
    /\ left = [d \in Disputes |-> 0]
    /\ todo = [w \in Workers |-> <<>>]
    /\ pc = [w \in Workers |-> "idle"]
    /\ job = [w \in Workers |-> None]
    /\ own = [w \in Workers |-> FALSE]

(***************************************************************************)
(* Evidence                                                                *)
(***************************************************************************)

(* The evidence status from the requirement, and the status from it. *)
Refreshed(r) ==
    IF r.unknown
    THEN [r EXCEPT !.evidence_status = "manual_review", !.status = "manual_review"]
    ELSE IF ~r.receipt
    THEN [r EXCEPT !.evidence_status = "missing",
                   !.status = IF @ = "evidence_ready" THEN "needs_evidence" ELSE @]
    ELSE [r EXCEPT !.evidence_status = "complete",
                   !.status = IF @ \in {"needs_evidence", "manual_review"}
                              THEN "evidence_ready" ELSE @]

(* recalculate_dispute_evidence: an uploaded requirement stays uploaded. *)
Recalculated(d, r) ==
    Refreshed([r EXCEPT !.receipt = @ \/ (r.claim_order /\ OrderOf[d] \in photo)])

Detected(d) == dispute[d].status # "undetected"

Update(d, r) == dispute' = [dispute EXCEPT ![d] = r]

AtRest == UNCHANGED <<left, todo, pc, job, own>>

(* validate_claim_order, which leaves an order that ended alone. *)
Validated(status) == IF status = "final" THEN "final" ELSE "open"

(* A claim order of this number can come from the imports. *)
ImportOrder(o) ==
    /\ order[o] = "none"
    /\ order' = [order EXCEPT ![o] = "open"]
    /\ UNCHANGED <<dispute, photo>> /\ AtRest

(* A receipt reaches the order on another way than the dispute's task. *)
UploadReceipt(o) ==
    /\ order[o] # "none"
    /\ photo' = photo \cup {o}
    /\ order' = [order EXCEPT ![o] = Validated(@)]
    /\ UNCHANGED dispute /\ AtRest

(* sync_requirement_from_evidence_task. *)
UploadForTask(d) ==
    /\ Detected(d) /\ dispute[d].claim_order
    /\ photo' = photo \cup {OrderOf[d]}
    /\ Update(d, Refreshed([dispute[d] EXCEPT !.receipt = TRUE]))
    /\ order' = [order EXCEPT ![OrderOf[d]] = Validated(@)]
    /\ AtRest

(* process_refund_proof: an imported photo names an order Uber deducted a  *)
(* refund from.  Its dispute is found, or opened though no deduction is    *)
(* known, and so is its claim order; the photo meets the requirement       *)
(* whatever it shows.                                                      *)
ProofOf(r) ==
    [r EXCEPT !.claim_order = TRUE, !.receipt = TRUE, !.evidence_status = "complete",
              !.status = IF @ \in {"undetected", "needs_evidence", "manual_review"}
                         THEN "evidence_ready" ELSE @]

Known(o) == {d \in Disputes : OrderOf[d] = o /\ Detected(d)}

TakeRefundProof(d) ==
    LET o == OrderOf[d] IN
    /\ d \in Known(o) \/ Known(o) = {}
    /\ Update(d, ProofOf(dispute[d]))
    /\ \E shows \in SUBSET {o} : photo' = photo \cup shows
    /\ order' = [order EXCEPT ![o] = Validated(@)]
    /\ AtRest

(***************************************************************************)
(* /v1/customer-refunds                                                    *)
(***************************************************************************)

(* detect_customer_refund_disputes, for one deduction. *)
Detect(d) ==
    /\ ~Detected(d)
    /\ Update(d, Recalculated(d,
            NewDispute("needs_evidence", d \in Unclassified, order[OrderOf[d]] # "none")))
    /\ UNCHANGED <<order, photo>> /\ AtRest

Recalculate(d) ==
    /\ Detected(d)
    /\ Update(d, Recalculated(d, dispute[d]))
    /\ UNCHANGED <<order, photo>> /\ AtRest

(* create_claim_order_from_dispute: the order is created and linked. *)
WithOrder(d) == Recalculated(d, [dispute[d] EXCEPT !.claim_order = TRUE])

MayCreateOrder(d) ==
    Detected(d) /\ ~dispute[d].claim_order /\ order[OrderOf[d]] = "none"

CreateClaimOrder(d) ==
    /\ MayCreateOrder(d)
    /\ order' = [order EXCEPT ![OrderOf[d]] = "open"]
    /\ Update(d, WithOrder(d))
    /\ UNCHANGED photo /\ AtRest

(* The order exists already: the dispute is linked to it, but the request  *)
(* is refused and the link rolled back.  In a bulk request the next        *)
(* success commits it.                                                     *)
BulkCreateClaimOrders(d, e) ==
    /\ Detected(d) /\ ~dispute[d].claim_order
    /\ order[OrderOf[d]] # "none"
    /\ MayCreateOrder(e)
    /\ order' = [order EXCEPT ![OrderOf[e]] = "open"]
    /\ dispute' = [dispute EXCEPT ![d].claim_order = TRUE, ![e] = WithOrder(e)]
    /\ UNCHANGED photo /\ AtRest

(* Fault: a claim order is enough. *)
MayDraftUnproven(r) == r.claim_order

MayDraft(r) == r.claim_order /\ r.evidence_status = "complete"

(* Fault: the status of the email draft in the place of the dispute's. *)
DraftedAsEmail(r) == [r EXCEPT !.email_draft = TRUE, !.status = "created"]

Drafted(r) == [r EXCEPT !.email_draft = TRUE, !.status = "draft_created"]

(* create_customer_refund_draft. *)
CreateDraft(d) ==
    /\ Detected(d) /\ MayDraft(dispute[d])
    /\ Update(d, Drafted(dispute[d]))
    /\ UNCHANGED <<order, photo>> /\ AtRest

(* A new Gmail draft takes the place of the provider draft of a dispute,   *)
(* also of the one a worker still holds.                                   *)
WithGmailDraft(r) == [r EXCEPT !.mail = "draft", !.status = "gmail_draft_created"]

Holders(d) == {w \in Workers : job[w] = d}

(* create_customer_refund_gmail_draft, asked by a person. *)
CreateGmailDraft(d) ==
    /\ dispute[d].email_draft
    /\ Update(d, WithGmailDraft(dispute[d]))
    /\ own' = [w \in Workers |-> own[w] /\ w \notin Holders(d)]
    /\ UNCHANGED <<order, photo, left, todo, pc, job>>

Ignore(d) ==
    /\ Detected(d)
    /\ Update(d, [dispute[d] EXCEPT !.status = "ignored"])
    /\ UNCHANGED <<order, photo>> /\ AtRest

(* apply_dispute_transition. *)
Reviewed(d, t) ==
    LET r == [dispute[d] EXCEPT !.status = REVIEW_STATUS_TRANSITIONS[t]]
        e == Recalculated(d, r) IN
    IF t # "evidence_requested" THEN r
    ELSE [e EXCEPT !.status = IF e.evidence_status = "complete"
                              THEN "evidence_ready" ELSE "needs_evidence"]

(* apply_claim_order_transition, whatever the order's status is. *)
OrderReviewed(d, t) ==
    IF dispute[d].claim_order /\ t # "ignored"
    THEN [order EXCEPT ![OrderOf[d]] =
            IF REVIEW_STATUS_TRANSITIONS[t] \in FINAL_ORDER_STATUSES THEN "final" ELSE "open"]
    ELSE order

(* create_customer_refund_review. *)
Review(d, t) ==
    /\ Detected(d) /\ dispute[d].status \notin PROTECTED_DISPUTE_STATUSES
    /\ Update(d, Reviewed(d, t))
    /\ order' = OrderReviewed(d, t)
    /\ UNCHANGED photo /\ AtRest

(* The disputes of an order a positive reply may be meant for. *)
Active(o) ==
    {d \in Disputes : OrderOf[d] = o /\ dispute[d].claim_order /\ dispute[d].status # "ignored"}

AlreadyAccounts(d, t) ==
    IF t = "payment_confirmed" THEN dispute[d].status = t
    ELSE dispute[d].status \in POSITIVE_CUSTOMER_REFUND_STATUSES

(* sync_linked_customer_refund_positive_review: the reply announces money, *)
(* and exactly one dispute of the order can be meant.                      *)
SyncLinked(d, t) ==
    /\ t \in POSITIVE_CUSTOMER_REFUND_STATUSES
    /\ Active(OrderOf[d]) = {d}
    /\ ~AlreadyAccounts(d, t)
    /\ Review(d, t)

(* sync_positive_customer_refund_backlog: a stored reply promised the      *)
(* payment of an order one of whose disputes does not know it.  The        *)
(* analysis of a new reply ends in the same call.                          *)
SyncPositiveReview(d, t) == Detected(d) /\ SyncLinked(d, t)

(* apply_official_uber_payments: Uber's report shows the money. *)
ApplyPayment(o) ==
    /\ dispute' = [d \in Disputes |->
            IF OrderOf[d] = o /\ Detected(d)
            THEN [dispute[d] EXCEPT !.status = "payment_confirmed"] ELSE dispute[d]]
    /\ order' = [order EXCEPT ![o] = IF @ = "none" THEN @ ELSE "final"]
    /\ UNCHANGED photo /\ AtRest

(* A person sends the Gmail draft through /v1/email; the dispute is not    *)
(* told.                                                                   *)
SendByHand(d) ==
    /\ dispute[d].mail = "draft"
    /\ order[OrderOf[d]] # "final"
    /\ left[d] < MaxMails
    /\ Update(d, [dispute[d] EXCEPT !.mail = "sent"])
    /\ order' = [order EXCEPT ![OrderOf[d]] = "open"]
    /\ left' = [left EXCEPT ![d] = @ + 1]
    /\ UNCHANGED <<photo, todo, pc, job, own>>

(***************************************************************************)
(* run_customer_refund_autopilot                                           *)
(***************************************************************************)

Candidates ==
    {d \in Disputes : ~dispute[d].unknown /\ dispute[d].status \in CandidateStatuses}

(* The list of a pass: the oldest MaxCandidates, sent ones included. *)
Listed ==
    LET first == {d \in Candidates :
                    Cardinality({e \in Candidates : e < d}) < MaxCandidates} IN
    [i \in 1 .. Cardinality(first) |->
        CHOOSE d \in first : Cardinality({e \in first : e < d}) = i - 1]

BeginPass(w) ==
    /\ pc[w] = "idle"
    /\ Candidates # {}
    /\ todo' = [todo EXCEPT ![w] = Listed]
    /\ pc' = [pc EXCEPT ![w] = "loop"]
    /\ UNCHANGED <<rows, left, job, own>>

(* The next dispute of the list, or the end of it. *)
NextDispute(w) ==
    /\ pc' = [pc EXCEPT ![w] = IF Len(todo[w]) = 1 THEN "idle" ELSE "loop"]
    /\ todo' = [todo EXCEPT ![w] = Tail(@)]
    /\ job' = [job EXCEPT ![w] = None]
    /\ own' = [own EXCEPT ![w] = FALSE]

Hold(w, d, l) ==
    /\ pc' = [pc EXCEPT ![w] = l]
    /\ job' = [job EXCEPT ![w] = d]
    /\ own' = [own EXCEPT ![w] = TRUE]
    /\ UNCHANGED todo

(* What the pass finds when it comes to a dispute; whether its status      *)
(* still is that of a candidate is not asked again.                        *)
Found(w) == Recalculated(Head(todo[w]), dispute[Head(todo[w])])

Ready(w) == IF Found(w).email_draft THEN Found(w) ELSE Drafted(Found(w))

AtTurn(w) == pc[w] = "loop" /\ dispute[Head(todo[w])].status # "sent"

EvidenceHolds(w) == MayDraft(Found(w))

(* Sent already, without an order, or without its evidence. *)
SkipDispute(w) ==
    LET d == Head(todo[w]) IN
    /\ pc[w] = "loop"
    /\ IF dispute[d].status = "sent" \/ ~dispute[d].claim_order
       THEN UNCHANGED dispute
       ELSE ~EvidenceHolds(w) /\ Update(d, Found(w))
    /\ NextDispute(w)
    /\ UNCHANGED <<order, photo, left>>

(* Fault: the pass goes on without telling the dispute. *)
PassOverSent(w) ==
    /\ AtTurn(w) /\ EvidenceHolds(w)
    /\ Ready(w).mail = "sent"
    /\ Update(Head(todo[w]), Ready(w))
    /\ NextDispute(w)
    /\ UNCHANGED <<order, photo, left>>

(* The Gmail draft left by another hand: the dispute is told. *)
RepairSent(w) ==
    /\ AtTurn(w) /\ EvidenceHolds(w)
    /\ Ready(w).mail = "sent"
    /\ Update(Head(todo[w]), [Ready(w) EXCEPT !.status = "sent"])
    /\ NextDispute(w)
    /\ UNCHANGED <<order, photo, left>>

(* A request whose answer nobody recorded, or a limit: not now. *)
NotNow(w) ==
    /\ AtTurn(w) /\ EvidenceHolds(w)
    /\ Ready(w).mail \in {"send_requested", "draft", "retryable"}
    /\ Update(Head(todo[w]), [Ready(w) EXCEPT !.mail = IF @ = "retryable" THEN "draft" ELSE @])
    /\ NextDispute(w)
    /\ UNCHANGED <<order, photo, left>>

(* A draft, or one a quota kept back, can be sent. *)
TakeDraft(w) ==
    /\ AtTurn(w) /\ EvidenceHolds(w)
    /\ Ready(w).mail \in {"draft", "retryable"}
    /\ Update(Head(todo[w]), [Ready(w) EXCEPT !.mail = "draft"])
    /\ Hold(w, Head(todo[w]), "send")
    /\ UNCHANGED <<order, photo, left>>

(* No draft yet, or a failed one, which is forgotten. *)
AskDraft(w) ==
    /\ AtTurn(w) /\ EvidenceHolds(w)
    /\ Ready(w).mail \in {"none", "failed"}
    /\ Update(Head(todo[w]), [Ready(w) EXCEPT !.mail = "none"])
    /\ Hold(w, Head(todo[w]), "create")
    /\ UNCHANGED <<order, photo, left>>

(* Gmail made the draft: the answer replaces status and provider draft. *)
RecordDraft(w) ==
    LET d == job[w] IN
    /\ pc[w] = "create"
    /\ Update(d, WithGmailDraft(dispute[d]))
    /\ own' = [v \in Workers |-> IF v = w THEN TRUE ELSE own[v] /\ v \notin Holders(d)]
    /\ pc' = [pc EXCEPT ![w] = "send"]
    /\ UNCHANGED <<order, photo, left, todo, job>>

(* The worker's draft: its dispute's, or one replaced in the meantime. *)
WithMail(w, m) ==
    IF own[w] THEN [dispute EXCEPT ![job[w]].mail = m] ELSE dispute

RequestSend(w) ==
    /\ pc[w] = "send"
    /\ own[w] => dispute[job[w]].mail = "draft"
    /\ left[job[w]] < MaxMails
    /\ dispute' = WithMail(w, "send_requested")
    /\ pc' = [pc EXCEPT ![w] = "call"]
    /\ UNCHANGED <<order, photo, left, todo, job, own>>

(* Gmail has no draft to make, the draft is not ready under the lock, the  *)
(* mailbox is not safe or a limit is reached: on with the next dispute.    *)
GiveUp(w) ==
    /\ pc[w] \in {"create", "send"}
    /\ NextDispute(w)
    /\ UNCHANGED <<rows, left>>

(* Fault: the dispute is called sent before Gmail answers. *)
RecordAnyway(w) ==
    LET d == job[w] IN
    /\ pc[w] = "call"
    /\ dispute' = [WithMail(w, "failed") EXCEPT ![d].status = "sent"]
    /\ NextDispute(w)
    /\ UNCHANGED <<order, photo, left>>

(* Gmail sent it: the dispute and its order are written over. *)
RecordSent(w) ==
    LET d == job[w] IN
    /\ pc[w] = "call"
    /\ left' = [left EXCEPT ![d] = IF @ < MaxMails THEN @ + 1 ELSE @]
    /\ dispute' = [WithMail(w, "sent") EXCEPT ![d].status = "sent"]
    /\ order' = [order EXCEPT ![OrderOf[d]] = "open"]
    /\ NextDispute(w)
    /\ UNCHANGED photo

(* Gmail refuses, or sends it and the answer is lost.  An error the draft  *)
(* is not to blame for leaves it ready or retryable.                       *)
RecordFailed(w) ==
    LET d == job[w] IN
    /\ pc[w] = "call"
    /\ \/ /\ \E m \in {"draft", "retryable", "failed"} : dispute' = WithMail(w, m)
          /\ UNCHANGED left
       \/ /\ dispute' = WithMail(w, "failed")
          /\ left' = [left EXCEPT ![d] = IF @ < MaxMails THEN @ + 1 ELSE @]
    /\ NextDispute(w)
    /\ UNCHANGED <<order, photo>>

(* The process dies; a committed send_requested stays, sent or not. *)
Die(w) ==
    /\ pc[w] # "idle"
    /\ \/ UNCHANGED left
       \/ /\ pc[w] = "call"
          /\ left' = [left EXCEPT ![job[w]] = IF @ < MaxMails THEN @ + 1 ELSE @]
    /\ todo' = [todo EXCEPT ![w] = <<>>]
    /\ pc' = [pc EXCEPT ![w] = "idle"]
    /\ job' = [job EXCEPT ![w] = None]
    /\ own' = [own EXCEPT ![w] = FALSE]
    /\ UNCHANGED rows

(***************************************************************************)
(* The specification                                                       *)
(***************************************************************************)

Pass(w) ==
    \/ BeginPass(w) \/ SkipDispute(w) \/ RepairSent(w) \/ NotNow(w)
    \/ TakeDraft(w) \/ AskDraft(w) \/ RecordDraft(w)
    \/ RequestSend(w) \/ GiveUp(w) \/ RecordSent(w) \/ RecordFailed(w)

Next ==
    \/ \E o \in Orders : ImportOrder(o) \/ UploadReceipt(o) \/ ApplyPayment(o)
    \/ \E d \in Disputes :
          \/ UploadForTask(d) \/ TakeRefundProof(d) \/ Detect(d) \/ Recalculate(d) \/ CreateClaimOrder(d)
          \/ CreateDraft(d) \/ CreateGmailDraft(d) \/ Ignore(d) \/ SendByHand(d)
    \/ \E d \in Disputes, e \in Disputes : BulkCreateClaimOrders(d, e)
    \/ \E d \in Disputes, t \in Decisions : Review(d, t) \/ SyncPositiveReview(d, t)
    \/ \E w \in Workers : Pass(w) \/ Die(w)

Spec == Init /\ [][Next]_vars

(* The loop of the worker comes back to the disputes, and Gmail answers or *)
(* times out.                                                              *)
FairSpec == Spec /\ \A w \in Workers : WF_vars(Pass(w))

(***************************************************************************)
(* Properties                                                              *)
(***************************************************************************)

(* No dispute is sent to Uber without its claim order and the proof that   *)
(* meets its requirement, whoever sends it and however late.               *)
MailsAreProven ==
    \A d \in Disputes : left[d] > 0 => dispute[d].receipt /\ dispute[d].claim_order

(* A dispute that says it was sent did leave Gmail: neither a failure nor  *)
(* a draft made in the meantime passes for a send.                         *)
SentDisputesLeft ==
    \A d \in Disputes : dispute[d].status = "sent" => left[d] > 0

(* Once the process is no longer killed, a dispute whose draft a person    *)
(* sent is told by a later pass, unless it is decided, redrafted or put    *)
(* aside first.                                                            *)
StaysUp == <>[][\A w \in Workers : ~Die(w)]_vars

HandSendsAreRecorded ==
    StaysUp => \A d \in Disputes :
        d \in Candidates /\ dispute[d].mail = "sent" ~>
            \/ dispute[d].status = "sent"
            \/ d \notin Candidates \/ dispute[d].mail # "sent"
===============================================================================
