---------------------------- MODULE ClaimFollowUps ----------------------------
(***************************************************************************)
(* The life of one claim order: validation, the initial claim, the         *)
(* follow-up tasks of FollowUpPolicyService, and what a recorded send, a   *)
(* reply, a review or a payment does to them.                              *)
(*                                                                         *)
(* The send protocol itself is module GmailSend.  Here a send is three     *)
(* steps: the checks on the order, made before the account lock; the       *)
(* commit of "send_requested"; the record of the outcome, which writes the *)
(* order and completes the task.  Reviews, payments, replies and the owner *)
(* come in between.  Every other handler is one transaction and one step.  *)
(*                                                                         *)
(* Bounds of the model: one Gmail draft and at most one sending thread per *)
(* email type (two threads on a draft are the subject of GmailSend), so a  *)
(* task is not linked to a second draft when the owner made one by hand;   *)
(* no conversation recovered from before TENNET.  The repair of a task     *)
(* whose draft is already sent has no action: RecordSend completes it in   *)
(* the transaction that records the send.                                  *)
(*                                                                         *)
(* A definition whose comment begins with "Fault" is no part of the        *)
(* specification: it is a plausible error the README's runs must detect.   *)
(***************************************************************************)
EXTENDS Integers, FiniteSets

CONSTANTS
    MaxFollowUps,   \* max_followups_per_order
    FollowUpTypes,  \* the FOLLOWUP_DRAFT_TYPES in use, all three in the code
    ReviewOutcomes, \* the order statuses a response review can choose
    MaxSending      \* bound: emails of the order being sent at the same time

ASSUME LimitsAssumption == MaxFollowUps \in Nat /\ MaxSending \in Nat
ASSUME TypesAssumption ==
    /\ FollowUpTypes \subseteq {"followup_1", "followup_2", "escalation"}
    /\ ReviewOutcomes \subseteq
        {"accepted", "payment_to_verify", "payment_confirmed", "refused", "manual_review"}

VARIABLES
    status,     \* ClaimOrder.status
    retry,      \* ClaimOrder.retry_count
    elapsed,    \* how many of the four delays have passed since the first email
    unreviewed, \* a linked reply is still "unreviewed"
    positive,   \* a review of the order said accepted, to verify or confirmed
    drafted,    \* the EmailDraft types that exist for the order
    mail,       \* email type -> the status of its latest EmailProviderDraft
    task,       \* task type -> FollowUpTask.status, "none" before the row exists
    linked,     \* follow-ups whose task has a generated_provider_draft
    at,         \* email type -> where the thread that sends it is
    after       \* email type -> order_status_after_send, once it is chosen

order == <<status, retry, elapsed, unreviewed, positive>>
mails == <<drafted, mail>>
tasks == <<task, linked>>
sends == <<at, after>>
vars == <<status, retry, elapsed, unreviewed, positive, drafted, mail, task, linked, at, after>>

EmailTypes == {"initial_claim"} \cup FollowUpTypes
TaskTypes == {"manual_review"} \cup FollowUpTypes

FOLLOWUP_SENT_STATUS_BY_TYPE ==
    [t \in {"followup_1", "followup_2", "escalation"} |->
        CASE t = "followup_1" -> "followup_1_sent"
          [] t = "followup_2" -> "followup_2_sent"
          [] t = "escalation" -> "escalation_sent"]
SentStatuses == {"followup_1_sent", "followup_2_sent", "escalation_sent"}

FINAL_ORDER_STATUSES == {"accepted", "payment_confirmed", "refused"}
FOLLOWUP_ELIGIBLE_STATUSES == {"sent", "response_received"} \cup SentStatuses
FOLLOWUP_ALLOWED_STATUSES == {"draft_email_created"} \cup FOLLOWUP_ELIGIBLE_STATUSES

(* No code assigns "waiting_uber_response" or "closed". *)
ClaimStatus ==
    FINAL_ORDER_STATUSES \cup FOLLOWUP_ALLOWED_STATUSES \cup
    {"draft", "missing_evidence", "ready_to_send", "payment_to_verify", "manual_review"}

OpenTask == {"pending", "draft_created", "provider_draft_created"}
TaskStatus == {"none", "completed", "skipped", "cancelled"} \cup OpenTask
MailStatus == {"none", "provider_draft_created", "send_requested", "sent", "failed"}

(* J+2, J+5, J+10 and J+15, in this order. *)
Milestones == 0 .. 4

TypeOK ==
    /\ status \in ClaimStatus
    /\ retry \in 0 .. Cardinality(FollowUpTypes)
    /\ elapsed \in Milestones
    /\ unreviewed \in BOOLEAN
    /\ positive \in BOOLEAN
    /\ drafted \subseteq EmailTypes
    /\ mail \in [EmailTypes -> MailStatus]
    /\ task \in [TaskTypes -> TaskStatus]
    /\ linked \subseteq FollowUpTypes
    /\ at \in [EmailTypes -> {"idle", "checked", "ready", "called"}]
    /\ after \in [EmailTypes -> ClaimStatus]

Init ==
    /\ status = "draft"
    /\ retry = 0
    /\ elapsed = 0
    /\ unreviewed = FALSE
    /\ positive = FALSE
    /\ drafted = {}
    /\ mail = [t \in EmailTypes |-> "none"]
    /\ task = [t \in TaskTypes |-> "none"]
    /\ linked = {}
    /\ at = [t \in EmailTypes |-> "idle"]
    /\ after = [t \in EmailTypes |-> "sent"]

(* first_sent_at is not None; the send also left an outbound EmailThread. *)
FirstSent == \E t \in EmailTypes : mail[t] = "sent"

(***************************************************************************)
(* Validation and drafts                                                   *)
(***************************************************************************)

(* validate_claim_order, at the owner's request or after an upload. *)
Validate ==
    /\ status \notin FINAL_ORDER_STATUSES
    /\ status' \in {"ready_to_send", "missing_evidence"}
    /\ UNCHANGED <<retry, elapsed, unreviewed, positive, mails, tasks, sends>>

(* What create_email_draft requires of a draft of this type. *)
DraftAllowed(t) ==
    /\ status \notin FINAL_ORDER_STATUSES
    /\ t = "initial_claim" => status = "ready_to_send"
    /\ t # "initial_claim" => "initial_claim" \in drafted
    /\ t = "followup_1" => status \in FOLLOWUP_ALLOWED_STATUSES
    /\ t = "followup_2" => "followup_1" \in drafted

(* POST /orders/{id}/drafts: the text only. *)
CreateEmailDraft(t) ==
    /\ DraftAllowed(t)
    /\ drafted' = drafted \cup {t}
    /\ status' = IF t = "initial_claim" THEN "draft_email_created" ELSE status
    /\ UNCHANGED <<retry, elapsed, unreviewed, positive, mail, tasks, sends>>

(* POST /drafts/{id}/gmail-draft, outside any task. *)
CreateGmailDraft(t) ==
    /\ t \in drafted
    /\ mail[t] = "none"
    /\ mail' = [mail EXCEPT ![t] = "provider_draft_created"]
    /\ UNCHANGED <<order, drafted, tasks, sends>>

(***************************************************************************)
(* Follow-up tasks                                                         *)
(***************************************************************************)

(* A follow-up that may still be asked for: not followup_exists, neither a *)
(* task of the type nor a draft written without one.                       *)
Missing(t) == t \in FollowUpTypes \ drafted /\ task[t] = "none"

(* Fault: the review after J+15 is forgotten. *)
ManualReviewDueEarly == unreviewed \/ retry >= MaxFollowUps

ManualReviewDue == unreviewed \/ retry >= MaxFollowUps \/ (FirstSent /\ elapsed >= 4)
EscalationDue ==
    elapsed >= 3 /\ {"followup_1", "followup_2"} \subseteq drafted /\ Missing("escalation")
FollowUp2Due == elapsed >= 2 /\ "followup_1" \in drafted /\ Missing("followup_2")
FollowUp1Due == elapsed >= 1 /\ Missing("followup_1")

(* The one task decide_next_task asks for, if any. *)
decide_next_task ==
    IF ManualReviewDue THEN {"manual_review"}
    ELSE IF ~FirstSent THEN {}
    ELSE IF EscalationDue THEN {"escalation"}
    ELSE IF FollowUp2Due THEN {"followup_2"}
    ELSE IF FollowUp1Due THEN {"followup_1"}
    ELSE {}

Recalculate ==
    /\ status \in FOLLOWUP_ELIGIBLE_STATUSES
    /\ task["manual_review"] = "none"
    /\ \E t \in decide_next_task : task' = [task EXCEPT ![t] = "pending"]
    /\ UNCHANGED <<order, mails, linked, sends>>

(* POST /followups/{id}/create-draft. *)
CreateTaskDraft(t) ==
    /\ task[t] = "pending"
    /\ DraftAllowed(t)
    /\ task' = [task EXCEPT ![t] = "draft_created"]
    /\ drafted' = drafted \cup {t}
    /\ UNCHANGED <<order, mail, linked, sends>>

(* The same route for a manual review, which writes no email. *)
AcceptManualReview ==
    /\ task["manual_review"] = "pending"
    /\ task' = [task EXCEPT !["manual_review"] = "completed"]
    /\ status' = "manual_review"
    /\ UNCHANGED <<retry, elapsed, unreviewed, positive, mails, linked, sends>>

(* POST /followups/{id}/create-gmail-draft. *)
CreateTaskGmailDraft(t) ==
    /\ task[t] = "draft_created"
    /\ mail[t] = "none"
    /\ mail' = [mail EXCEPT ![t] = "provider_draft_created"]
    /\ task' = [task EXCEPT ![t] = "provider_draft_created"]
    /\ linked' = linked \cup {t}
    /\ UNCHANGED <<order, drafted, sends>>

SkipTask(t) ==
    /\ task[t] \notin {"none", "completed"}
    /\ task' = [task EXCEPT ![t] = "skipped"]
    /\ UNCHANGED <<order, mails, linked, sends>>

(* Fault: completing a completed task counts again. *)
CompletionRecounts(t, m, s) ==
    IF t \in linked /\ m = "sent"
    THEN retry' = retry + 1 /\ status' = FOLLOWUP_SENT_STATUS_BY_TYPE[t]
    ELSE UNCHANGED retry /\ status' = IF t = "manual_review" THEN "manual_review" ELSE s

(* Fault: the status advances even if the follow-up has not been sent. *)
CompletionUnsent(t, m, s) ==
    IF t \in linked
    THEN /\ retry' = IF task[t] = "completed" THEN retry ELSE retry + 1
         /\ status' = FOLLOWUP_SENT_STATUS_BY_TYPE[t]
    ELSE UNCHANGED retry /\ status' = IF t = "manual_review" THEN "manual_review" ELSE s

(* apply_followup_completion_effects on the order, when the email of the   *)
(* task is in status m and the order is about to be in status s.           *)
CompletionEffects(t, m, s) ==
    IF t \in linked /\ m = "sent"
    THEN /\ retry' = IF task[t] = "completed" THEN retry ELSE retry + 1
         /\ status' = FOLLOWUP_SENT_STATUS_BY_TYPE[t]
    ELSE UNCHANGED retry /\ status' = IF t = "manual_review" THEN "manual_review" ELSE s

(* POST /followups/{id}/complete. *)
CompleteTask(t) ==
    /\ task[t] \notin {"none", "skipped", "cancelled"}
    /\ CompletionEffects(t, IF t \in EmailTypes THEN mail[t] ELSE "none", status)
    /\ task' = [task EXCEPT ![t] = "completed"]
    /\ UNCHANGED <<elapsed, unreviewed, positive, mails, linked, sends>>

(***************************************************************************)
(* Sending                                                                 *)
(***************************************************************************)

Move(t, l) == at' = [at EXCEPT ![t] = l]

StartSend(t, l) ==
    /\ at[t] = "idle"
    /\ Cardinality({u \in EmailTypes : at[u] # "idle"}) < MaxSending
    /\ Move(t, l)

EndSend(t) ==
    /\ Move(t, "idle")
    /\ after' = [after EXCEPT ![t] = "sent"]

(* POST .../provider-drafts/{id}/send: the order is read here, once. *)
SendByHand(t) ==
    /\ StartSend(t, "ready")
    /\ mail[t] = "provider_draft_created"
    /\ status \notin FINAL_ORDER_STATUSES
    /\ UNCHANGED <<order, mails, tasks, after>>

(* positive_payment_signal_skip_reason: a review, an analysis or a stored  *)
(* message of the conversation announces money.                            *)
MoneyAnnounced == positive

(* initial_claim_candidates, and among them those not skipped. *)
InitialClaimListed == status = "ready_to_send"
InitialClaimAllowed == ~MoneyAnnounced /\ ~unreviewed /\ ~FirstSent

(* The same for a follow-up task. *)
FollowUpAllowed ==
    /\ status \notin FINAL_ORDER_STATUSES
    /\ ~MoneyAnnounced /\ ~unreviewed /\ retry < MaxFollowUps
FollowUpListed(t) == task[t] \in OpenTask /\ FirstSent /\ FollowUpAllowed

(* AutoPilot picks an initial claim: it writes what is missing and creates *)
(* a new Gmail draft, whose commit makes the new order status visible.     *)
PrepareInitialClaim ==
    /\ StartSend("initial_claim", "checked")
    /\ InitialClaimListed /\ InitialClaimAllowed
    /\ status' = IF "initial_claim" \in drafted THEN status ELSE "draft_email_created"
    /\ drafted' = drafted \cup {"initial_claim"}
    /\ mail' = [mail EXCEPT !["initial_claim"] = "provider_draft_created"]
    /\ UNCHANGED <<retry, elapsed, unreviewed, positive, tasks, after>>

(* AutoPilot picks a follow-up task, with the drafts it already has or not. *)
PrepareFollowUp(t) ==
    /\ StartSend(t, "checked")
    /\ FollowUpListed(t)
    /\ task[t] # "pending" \/ DraftAllowed(t)
    /\ t \in linked \/ mail[t] = "none"
    /\ drafted' = drafted \cup {t}
    /\ linked' = linked \cup {t}
    /\ mail' = IF t \in linked THEN mail ELSE [mail EXCEPT ![t] = "provider_draft_created"]
    /\ task' = IF t \in linked THEN task ELSE [task EXCEPT ![t] = "provider_draft_created"]
    /\ UNCHANGED <<order, after>>

(* send_provider_draft is called: the status to restore is chosen here. *)
ChooseStatusAfterSend(t) ==
    /\ at[t] = "checked"
    /\ mail[t] = "provider_draft_created"
    /\ after' = [after EXCEPT ![t] = IF t = "initial_claim" THEN "sent" ELSE status]
    /\ Move(t, "ready")
    /\ UNCHANGED <<order, mails, tasks>>

(* A limit of the account: an initial claim gives its order back the status *)
(* it had when AutoPilot picked it.                                         *)
DeferSend(t) ==
    /\ at[t] = "checked"
    /\ status' = IF t = "initial_claim" THEN "ready_to_send" ELSE status
    /\ EndSend(t)
    /\ UNCHANGED <<retry, elapsed, unreviewed, positive, mails, tasks>>

(* lock_and_validate_gmail_send accepts the draft, "send_requested" commits. *)
RequestSend(t) ==
    /\ at[t] = "ready"
    /\ mail[t] = "provider_draft_created"
    /\ mail' = [mail EXCEPT ![t] = "send_requested"]
    /\ Move(t, "called")
    /\ UNCHANGED <<order, drafted, tasks, after>>

(* ... or refuses it, or the thread dies before or after that commit. *)
AbandonSend(t) ==
    /\ at[t] # "idle"
    /\ EndSend(t)
    /\ UNCHANGED <<order, mails, tasks>>

(* Fault: only an open task is completed by the send of its draft. *)
CompletesOpenTask(t) == t \in linked /\ task[t] \in OpenTask

(* The task complete_task_for_sent_provider_draft finds for a sent draft. *)
CompletesTask(t) == t \in linked /\ task[t] # "completed"

(* The draft is sent, the order is s, and the task that waited is completed. *)
Sent(t, s) ==
    /\ mail' = [mail EXCEPT ![t] = "sent"]
    /\ IF CompletesTask(t)
       THEN CompletionEffects(t, "sent", s) /\ task' = [task EXCEPT ![t] = "completed"]
       ELSE status' = s /\ UNCHANGED <<retry, task>>

RecordSend(t) ==
    /\ at[t] = "called"
    /\ Sent(t, after[t])
    /\ EndSend(t)
    /\ UNCHANGED <<elapsed, unreviewed, positive, drafted, linked>>

(* An error of Gmail; AutoPilot keeps a draft refused for a quota. *)
RecordFailure(t) ==
    /\ at[t] = "called"
    /\ \E m \in {"failed", "provider_draft_created"} : mail' = [mail EXCEPT ![t] = m]
    /\ EndSend(t)
    /\ UNCHANGED <<order, drafted, tasks>>

(* repair_followup_queue: the draft of an open task whose request is stale *)
(* left, or it did not; a failure that was a quota is undone.              *)
ConfirmStaleSend(t) ==
    /\ at[t] # "called"
    /\ t \in linked /\ task[t] \in OpenTask
    /\ mail[t] = "send_requested"
    /\ Sent(t, status)
    /\ UNCHANGED <<elapsed, unreviewed, positive, drafted, linked, sends>>

RequeueDraft(t) ==
    /\ at[t] # "called"
    /\ t \in linked /\ task[t] \in OpenTask
    /\ mail[t] \in {"send_requested", "failed"}
    /\ mail' = [mail EXCEPT ![t] = "provider_draft_created"]
    /\ task' = [task EXCEPT ![t] = "provider_draft_created"]
    /\ UNCHANGED <<order, drafted, linked, sends>>

(***************************************************************************)
(* Uber and the owner                                                      *)
(***************************************************************************)

(* A reply is linked to the order by the inbound synchronisation. *)
LinkReply ==
    /\ FirstSent
    /\ unreviewed' = TRUE
    /\ status' = IF status = "sent" THEN "response_received" ELSE status
    /\ UNCHANGED <<retry, elapsed, positive, mails, tasks, sends>>

(* A starred reply: the order is to be appealed. *)
MakeStarredActionable ==
    /\ FirstSent
    /\ status \notin {"accepted", "payment_confirmed", "refused", "response_received"}
    /\ status' = "refused"
    /\ UNCHANGED <<retry, elapsed, unreviewed, positive, mails, tasks, sends>>

(* create_response_review, with or without the message it answers. *)
Review(s) ==
    /\ status # "payment_confirmed"
    /\ status' = s
    /\ positive' = (positive \/ s \in {"accepted", "payment_to_verify", "payment_confirmed"})
    /\ unreviewed' \in {unreviewed, FALSE}
    /\ UNCHANGED <<retry, elapsed, mails, tasks, sends>>

IgnoreReply ==
    /\ unreviewed
    /\ unreviewed' = FALSE
    /\ UNCHANGED <<status, retry, elapsed, positive, mails, tasks, sends>>

(* apply_payment_to_claim: the payment is in Uber's own report. *)
ApplyPayment ==
    /\ status' = "payment_confirmed"
    /\ task' = [t \in TaskTypes |-> IF task[t] \in OpenTask THEN "cancelled" ELSE task[t]]
    /\ UNCHANGED <<retry, elapsed, unreviewed, positive, mails, linked, sends>>

Elapse ==
    /\ FirstSent
    /\ elapsed < 4
    /\ elapsed' = elapsed + 1
    /\ UNCHANGED <<status, retry, unreviewed, positive, mails, tasks, sends>>

(***************************************************************************)
(* The specification                                                       *)
(***************************************************************************)

Send(t) ==
    \/ SendByHand(t) \/ ChooseStatusAfterSend(t) \/ DeferSend(t)
    \/ RequestSend(t) \/ AbandonSend(t) \/ RecordSend(t) \/ RecordFailure(t)

FollowUp(t) ==
    \/ CreateTaskDraft(t) \/ CreateTaskGmailDraft(t) \/ PrepareFollowUp(t)
    \/ ConfirmStaleSend(t) \/ RequeueDraft(t)

Next ==
    \/ Validate \/ PrepareInitialClaim
    \/ \E t \in EmailTypes : CreateEmailDraft(t) \/ CreateGmailDraft(t) \/ Send(t)
    \/ Recalculate \/ AcceptManualReview
    \/ \E t \in FollowUpTypes : FollowUp(t)
    \/ \E t \in TaskTypes : SkipTask(t) \/ CompleteTask(t)
    \/ LinkReply \/ MakeStarredActionable \/ IgnoreReply \/ ApplyPayment \/ Elapse
    \/ \E s \in ReviewOutcomes : Review(s)

Spec == Init /\ [][Next]_vars

(* Time passes, and every run of the worker recalculates the follow-ups. *)
FairSpec == Spec /\ WF_vars(Elapse) /\ WF_vars(Recalculate)

(***************************************************************************)
(* Properties                                                              *)
(***************************************************************************)

(* A status that says an email left is true: the status AutoPilot chose    *)
(* before the send and writes after it, a task completed by hand or by the *)
(* repair never claims a follow-up that is still in the drafts.            *)
StatusIsBacked ==
    /\ status \in FOLLOWUP_ELIGIBLE_STATUSES => FirstSent
    /\ \A t \in FollowUpTypes :
        status = FOLLOWUP_SENT_STATUS_BY_TYPE[t] => mail[t] = "sent"

(* The retry counter, which ends the chase at MaxFollowUps, counts each    *)
(* follow-up once however often its task is completed, recorded, repaired. *)
RetriesAreSends ==
    retry <= Cardinality({t \in FollowUpTypes : mail[t] = "sent" /\ task[t] = "completed"})

(* A task whose own email left is completed, even if it had been skipped   *)
(* or cancelled while the email was on its way: no later run sends it.     *)
SentTaskIsCompleted ==
    \A t \in linked : mail[t] = "sent" => task[t] = "completed"

(* An order Uber has to answer does not stay with the follow-ups for ever: *)
(* someone or something decides on it, or a manual review task exists.     *)
ChaseEnds ==
    status \in FOLLOWUP_ELIGIBLE_STATUSES ~>
        status \notin FOLLOWUP_ELIGIBLE_STATUSES \/ task["manual_review"] # "none"

(* No send of an order is requested once its status is final.              *)
FinalNeverChased ==
    [][\A t \in EmailTypes :
        mail[t] # "send_requested" /\ mail'[t] = "send_requested"
            => status \notin FINAL_ORDER_STATUSES]_vars
==============================================================================
