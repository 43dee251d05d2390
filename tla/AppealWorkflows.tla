---------------------------- MODULE AppealWorkflows ----------------------------
(***************************************************************************)
(* The appeal workflows of refused claim orders.                           *)
(*                                                                         *)
(* A workflow counts Uber's refusals and the appeals sent, and holds the   *)
(* next action.  People drive it through /v1/appeals and the reviews of    *)
(* Uber's replies; AutoPilot answers the replies itself (run_autopilot     *)
(* and resume_next_prepared_provider_draft).  A request of a person is one *)
(* transaction and one action.  AutoPilot commits before every Gmail call, *)
(* so its work on a case is several steps and others act between them.     *)
(*                                                                         *)
(* Cases are the workflows whose claim_order is set: AutoPilot sends no    *)
(* appeal without one (send_provider_draft asks for a reply thread).       *)
(* current_level is not kept: it always equals appeal_attempt_count.       *)
(*                                                                         *)
(* A definition whose comment begins with "Fault" is no part of the        *)
(* specification.                                                          *)
(***************************************************************************)
EXTENDS Integers, Sequences, FiniteSets

CONSTANTS
    Cases,              \* refused claim orders, each with its workflow
    Senders,            \* backend threads that run AutoPilot
    NoCase,             \* "the thread works on no case"
    Advice,             \* the policy actions the words of a refusal may lead to
    Asked,              \* the types of appeal people ask for
    EscalateAfter,      \* appeal_max_attempts_before_escalation
    ReviewAfter,        \* appeal_max_attempts_before_manual_review
    MaxAppeals,         \* autopilot_max_appeal_attempts
    MaxAttempts,        \* bound: attempts of one workflow
    MaxCount,           \* bound: appeals counted for one workflow
    MaxRefusals         \* bound: refused reviews of one order

(***************************************************************************)
(* Data                                                                    *)
(***************************************************************************)

TERMINAL_WORKFLOW_STATUSES == {"payment_confirmed", "accepted", "manually_closed"}

(* The statuses whose workflows run_autopilot lists. *)
ELIGIBLE_APPEAL_STATUSES ==
    {"active", "appeal_needed", "draft_needed", "gmail_draft_needed",
     "appeal_sent", "response_received", "escalated"}

WorkflowStatus ==
    {"absent", "evidence_needed", "payment_to_verify", "paused"}
        \cup TERMINAL_WORKFLOW_STATUSES \cup ELIGIBLE_APPEAL_STATUSES

(* RefusalAnalysis.recommended_next_action. *)
PolicyAction ==
    {"provide_missing_evidence", "clarify_order_prepared", "clarify_delivery_proof",
     "challenge_generic_refusal", "request_escalation", "payment_verification",
     "manual_review"}

NextAction ==
    {"none", "review_refusal", "request_more_evidence", "create_appeal_draft",
     "escalation", "payment_verification", "manual_review", "create_gmail_draft",
     "send_manual_appeal"}

AppealType ==
    {"first_appeal", "second_appeal", "evidence_reply", "escalation",
     "payment_verification", "manager_review"}

ReviewType ==
    {"accepted", "payment_to_verify", "payment_confirmed", "refused",
     "evidence_requested", "information_requested", "followup_needed",
     "manual_review", "ignored"}

ASSUME AppealsAssumption ==
    /\ NoCase \notin Cases
    /\ Advice \subseteq PolicyAction /\ Asked \subseteq AppealType
    /\ EscalateAfter \in Nat \ {0} /\ ReviewAfter \in Nat /\ EscalateAfter < ReviewAfter
    /\ MaxAppeals \in Nat /\ MaxAttempts \in Nat
    /\ MaxCount \in Nat /\ MaxRefusals \in Nat

next_action_type_for_policy(action) ==
    CASE action = "provide_missing_evidence" -> "request_more_evidence"
      [] action = "request_escalation" -> "escalation"
      [] action = "payment_verification" -> "payment_verification"
      [] action = "manual_review" -> "manual_review"
      [] OTHER -> "create_appeal_draft"

(* Fault: the status of a draft in the place of a workflow's. *)
DraftStatusForPolicyAction(action) ==
    IF action = "manual_review" THEN "paused" ELSE "draft_created"

status_for_policy_action(action) ==
    CASE action = "provide_missing_evidence" -> "evidence_needed"
      [] action = "request_escalation" -> "escalated"
      [] action = "payment_verification" -> "payment_to_verify"
      [] action = "manual_review" -> "paused"
      [] OTHER -> "draft_needed"

(* What the analysis of a refusal may recommend after n of them: the       *)
(* thresholds are authoritative, below them the words of the refusal or    *)
(* the recovery strategist choose.                                         *)
Recommendations(n) ==
    IF n >= ReviewAfter THEN {"manual_review"}
    ELSE IF n >= EscalateAfter THEN {"request_escalation"}
    ELSE Advice

(* An analysis assumes one refusal when none has been counted. *)
RefusalsAssumed(w) == IF w.refusal_count = 0 THEN 1 ELSE w.refusal_count

Reply == {"none", "answered", "fresh"}

Workflow ==
    [status : WorkflowStatus, next_action_type : NextAction,
     due : BOOLEAN,                 \* next_action_at is null or has passed
     refusal_count : 0 .. MaxRefusals,
     appeal_attempt_count : 0 .. MaxCount,
     last_sent : {"today", "cooling", "past"},        \* last_appeal_sent_at
     advice : {"none", "evidence", "other"}]     \* the latest analysis: does it ask
                                                 \* for evidence

(* An attempt always has its EmailDraft; mail is its provider draft, which *)
(* is "local" when no Gmail draft stands behind it.                        *)
Attempt ==
    [appeal_type : AppealType,
     status : {"draft_created", "gmail_draft_created", "sent"},
     mail : {"none", "local", "draft", "send_requested", "sent", "failed"}]

NewWorkflow(refusals) ==
    [status |-> "appeal_needed", next_action_type |-> "review_refusal", due |-> TRUE,
     refusal_count |-> refusals, appeal_attempt_count |-> 0, last_sent |-> "past",
     advice |-> "none"]

NoWorkflow == [NewWorkflow(0) EXCEPT !.status = "absent", !.next_action_type = "none"]

VARIABLES
    wf,         \* case -> its appeal workflow
    attempts,   \* case -> its attempts, oldest first
    order,      \* case -> what the status of the claim order says
    positive,   \* cases with a review that announces a payment
    reply,      \* case -> the newest verified reply of Uber: "fresh" when it
                \*         came after last_appeal_sent_at
    pc,         \* thread -> where AutoPilot is
    job,        \* thread -> the case it works on
    pick,       \* thread -> the number of the attempt it sends
    own         \* thread -> its provider draft is still the attempt's

records == <<wf, attempts, order, positive>>
threads == <<pc, job, pick, own>>
vars == <<wf, attempts, order, positive, reply, pc, job, pick, own>>

AppealsTypeOK ==
    /\ wf \in [Cases -> Workflow]
    /\ attempts \in [Cases -> Seq(Attempt)]
    /\ \A c \in Cases : Len(attempts[c]) <= MaxAttempts
    /\ order \in [Cases -> {"open", "refused", "accepted", "payment_confirmed"}]
    /\ positive \subseteq Cases
    /\ reply \in [Cases -> Reply]
    /\ pc \in [Senders -> {"idle", "prepare", "create", "send", "call"}]
    /\ job \in [Senders -> Cases \cup {NoCase}]
    /\ pick \in [Senders -> 0 .. MaxAttempts]
    /\ own \in [Senders -> BOOLEAN]

Init ==
    /\ wf = [c \in Cases |-> NoWorkflow]
    /\ attempts = [c \in Cases |-> <<>>]
    /\ order = [c \in Cases |-> "open"]
    /\ positive = {}
    /\ reply = [c \in Cases |-> "none"]
    /\ pc = [s \in Senders |-> "idle"]
    /\ job = [s \in Senders |-> NoCase]
    /\ pick = [s \in Senders |-> 0]
    /\ own = [s \in Senders |-> FALSE]

(***************************************************************************)
(* What an operation does to a workflow                                    *)
(***************************************************************************)

Exists(c) == wf[c].status # "absent"
Terminal(c) == wf[c].status \in TERMINAL_WORKFLOW_STATUSES
Latest(c) == Len(attempts[c])

(* ensure_workflow_for_claim_order: the workflow, created if there is none. *)
Ensured(w) == IF w.status = "absent" THEN NewWorkflow(0) ELSE w

(* create_refusal_analysis: its recommendation decides status and action. *)
Analyzed(w, action) ==
    [w EXCEPT !.advice = IF action = "provide_missing_evidence" THEN "evidence" ELSE "other",
              !.due = TRUE,
              !.status = status_for_policy_action(action),
              !.next_action_type = next_action_type_for_policy(action)]

(* A refused review: whatever the status was, the workflow is open again. *)
RefusedAgain(w, action) ==
    [Analyzed([w EXCEPT !.refusal_count = @ + 1], action) EXCEPT !.status = "appeal_needed"]

(* sync_resolution_status, from any status. *)
Resolved(w, review_type) ==
    CASE review_type \in {"accepted", "payment_confirmed"} ->
            [w EXCEPT !.status = review_type, !.next_action_type = "none", !.due = TRUE]
      [] review_type = "payment_to_verify" ->
            [w EXCEPT !.status = "payment_to_verify",
                      !.next_action_type = "payment_verification", !.due = TRUE]
      [] review_type = "evidence_requested" ->
            [w EXCEPT !.status = "evidence_needed",
                      !.next_action_type = "request_more_evidence", !.due = TRUE]
      [] review_type \in {"information_requested", "followup_needed", "manual_review"} ->
            [w EXCEPT !.status = "appeal_needed",
                      !.next_action_type = "manual_review", !.due = TRUE]
      [] OTHER -> w

(* Fault: the escalation of an appeal hides the pause after it. *)
CountedWithoutPause(w) ==
    LET n == w.appeal_attempt_count + 1 IN
    [w EXCEPT !.appeal_attempt_count = n, !.last_sent = "today", !.due = FALSE,
              !.status = IF n > EscalateAfter THEN "escalated" ELSE "appeal_sent",
              !.next_action_type = IF n > EscalateAfter THEN "escalation" ELSE "review_refusal"]

(* mark_appeal_sent on the workflow: count, cool down, escalate or pause. *)
Counted(w) ==
    LET n == w.appeal_attempt_count + 1 IN
    [w EXCEPT !.appeal_attempt_count = n, !.last_sent = "today", !.due = FALSE,
              !.status = IF n >= ReviewAfter THEN "paused"
                         ELSE IF n >= EscalateAfter THEN "escalated" ELSE "appeal_sent",
              !.next_action_type = IF n >= ReviewAfter THEN "manual_review"
                                   ELSE IF n >= EscalateAfter THEN "escalation"
                                   ELSE "review_refusal"]

(* mark_appeal_sent on the attempt and on its provider draft. *)
AttemptSent(a) ==
    [a EXCEPT !.status = "sent", !.mail = IF @ = "none" THEN "none" ELSE "sent"]

(* Every reply received so far is older than an appeal sent now. *)
Older(r) == IF r = "fresh" THEN "answered" ELSE r

Answered(f, c) == [f EXCEPT ![c] = Older(@)]

MarkAllowed(c) ==
    /\ Exists(c) /\ ~Terminal(c)
    /\ Latest(c) > 0
    /\ attempts[c][Latest(c)].status # "sent"

(***************************************************************************)
(* Reviews, payments and the mailbox                                       *)
(***************************************************************************)

(* create_response_review and sync_claim_response_review. *)
Review(c, t) ==
    /\ t # "ignored" => order[c] # "payment_confirmed"
    /\ t = "refused" => wf[c].refusal_count < MaxRefusals
    /\ order' = [order EXCEPT ![c] =
                    CASE t = "ignored" -> @
                      [] t \in {"accepted", "payment_confirmed", "refused"} -> t
                      [] OTHER -> "open"]
    /\ positive' = IF t \in {"accepted", "payment_to_verify", "payment_confirmed"}
                   THEN positive \cup {c} ELSE positive
    /\ IF t = "refused"
       THEN \E a \in Recommendations(Ensured(wf[c]).refusal_count + 1) :
                wf' = [wf EXCEPT ![c] = RefusedAgain(Ensured(@), a)]
       ELSE wf' = IF Exists(c) THEN [wf EXCEPT ![c] = Resolved(@, t)] ELSE wf
    /\ UNCHANGED <<attempts, reply, threads>>

(* The review of a refund dispute of the same order writes the order's     *)
(* status whatever it is; the workflow it syncs is the dispute's own.      *)
ReviewDispute(c, t) ==
    /\ t # "ignored"
    /\ order' = [order EXCEPT ![c] =
                    IF t \in {"accepted", "payment_confirmed", "refused"} THEN t ELSE "open"]
    /\ UNCHANGED <<wf, attempts, positive, reply, threads>>

(* apply_payment_to_claim: Uber's own report shows the money. *)
ApplyPayment(c) ==
    /\ order' = [order EXCEPT ![c] = "payment_confirmed"]
    /\ wf' = IF Exists(c) THEN [wf EXCEPT ![c] = Resolved(@, "payment_confirmed")] ELSE wf
    /\ UNCHANGED <<attempts, positive, reply, threads>>

(* recalculate_appeal_workflows, for the orders found refused. *)
Recalculate ==
    /\ \E c \in Cases : order[c] = "refused" /\ ~Exists(c)
    /\ wf' = [c \in Cases |-> IF order[c] = "refused" THEN Ensured(wf[c]) ELSE wf[c]]
    /\ UNCHANGED <<attempts, order, positive, reply, threads>>

(* The synchronisation links a reply of Uber to the order; it can be one   *)
(* that Gmail received before the last appeal left.                        *)
ImportReply(c) ==
    /\ \/ reply' = [reply EXCEPT ![c] = "fresh"]
       \/ /\ reply[c] = "none" /\ wf[c].appeal_attempt_count > 0
          /\ reply' = [reply EXCEPT ![c] = "answered"]
    /\ UNCHANGED <<records, threads>>

(* ensure_starred_linked_message_is_actionable. *)
MakeStarredActionable(c) ==
    /\ reply[c] # "none"
    /\ order[c] \notin {"accepted", "payment_confirmed"}
    /\ order' = [order EXCEPT ![c] = "refused"]
    /\ LET w == Ensured(wf[c]) IN
       wf' = [wf EXCEPT ![c] =
                IF w.status \in TERMINAL_WORKFLOW_STATUSES THEN w
                ELSE [w EXCEPT !.due = TRUE,
                        !.status = IF @ = "paused" THEN "appeal_needed" ELSE @,
                        !.next_action_type =
                            IF @ = "manual_review" THEN "review_refusal" ELSE @]]
    /\ UNCHANGED <<attempts, positive, reply, threads>>

(* repair_appeal_workflow_for_autopilot: a starred conversation takes the  *)
(* case out of manual review.                                              *)
RepairForAutopilot(c) ==
    /\ reply[c] # "none"
    /\ wf[c].next_action_type = "manual_review"
    /\ wf[c].advice # "evidence"
    /\ wf' = [wf EXCEPT ![c].due = TRUE, ![c].next_action_type = "review_refusal",
                        ![c].status = IF @ = "paused" THEN "appeal_needed" ELSE @]
    /\ UNCHANGED <<attempts, order, positive, reply, threads>>

(* A day of the cool-down passes. *)
Elapse(c) ==
    /\ wf[c].last_sent \in {"today", "cooling"}
    /\ wf' = [wf EXCEPT
                ![c].last_sent = IF @ = "today" THEN "cooling" ELSE "past",
                ![c].due = @ \/ wf[c].last_sent = "cooling"]
    /\ UNCHANGED <<attempts, order, positive, reply, threads>>

(***************************************************************************)
(* /v1/appeals                                                             *)
(***************************************************************************)

AnalyzeRefusal(c) ==
    /\ Exists(c)
    /\ \E a \in Recommendations(RefusalsAssumed(wf[c])) :
           wf' = [wf EXCEPT ![c] = Analyzed(@, a)]
    /\ UNCHANGED <<attempts, order, positive, reply, threads>>

(* create_appeal_draft; an analysis is made first when there is none.  The *)
(* request always names a type, "first_appeal" when the person says        *)
(* nothing.                                                                *)
CreateAppealDraft(c) ==
    /\ Exists(c) /\ ~Terminal(c)
    /\ wf[c].last_sent \notin {"today", "cooling"}
    /\ Latest(c) < MaxAttempts
    /\ \E a \in Recommendations(RefusalsAssumed(wf[c])), type \in Asked :
        /\ ~\E i \in 1 .. Latest(c) : attempts[c][i].appeal_type = type
                                     /\ attempts[c][i].status # "sent"
        /\ attempts' = [attempts EXCEPT ![c] = Append(@,
                [appeal_type |-> type, status |-> "draft_created", mail |-> "none"])]
        /\ wf' = [wf EXCEPT ![c] =
                [(IF @.advice = "none" THEN Analyzed(@, a) ELSE @) EXCEPT
                    !.status = "gmail_draft_needed", !.due = TRUE,
                    !.next_action_type = "create_gmail_draft"]]
    /\ UNCHANGED <<order, positive, reply, threads>>

(* create_appeal_gmail_draft: a row without a Gmail draft behind it. *)
CreateAppealGmailDraft(c) ==
    /\ Exists(c) /\ ~Terminal(c)
    /\ Latest(c) > 0
    /\ attempts[c][Latest(c)].mail = "none"
    /\ attempts' = [attempts EXCEPT ![c][Latest(c)].mail = "local",
                                    ![c][Latest(c)].status = "gmail_draft_created"]
    /\ wf' = [wf EXCEPT ![c].status = "appeal_needed", ![c].due = TRUE,
                        ![c].next_action_type = "send_manual_appeal"]
    /\ UNCHANGED <<order, positive, reply, threads>>

(* POST .../mark-sent: a person sent the appeal. *)
MarkSent(c) ==
    /\ MarkAllowed(c)
    /\ wf[c].appeal_attempt_count < MaxCount
    /\ attempts' = [attempts EXCEPT ![c][Latest(c)] = AttemptSent(@)]
    /\ wf' = [wf EXCEPT ![c] = Counted(@)]
    /\ reply' = Answered(reply, c)
    /\ UNCHANGED <<order, positive, threads>>

Pause(c) ==
    /\ Exists(c)
    /\ wf' = [wf EXCEPT ![c].status = "paused", ![c].next_action_type = "manual_review"]
    /\ UNCHANGED <<attempts, order, positive, reply, threads>>

ManualClose(c) ==
    /\ Exists(c)
    /\ wf' = [wf EXCEPT ![c].status = "manually_closed", ![c].due = TRUE,
                        ![c].next_action_type = "none"]
    /\ UNCHANGED <<attempts, order, positive, reply, threads>>

Reopen(c) ==
    /\ Exists(c)
    /\ wf' = [wf EXCEPT ![c].status = "appeal_needed", ![c].due = TRUE,
                        ![c].next_action_type = "review_refusal"]
    /\ UNCHANGED <<attempts, order, positive, reply, threads>>

(***************************************************************************)
(* AutoPilot                                                               *)
(***************************************************************************)

AlreadySent(a) == a.status = "sent" \/ a.mail = "sent"

(* Fault: the order itself is not looked at, only the workflow. *)
MayAppealByWorkflow(c) ==
    /\ Exists(c) /\ ~Terminal(c)
    /\ c \notin positive
    /\ reply[c] # "none"
    /\ wf[c].appeal_attempt_count < MaxAppeals
    /\ wf[c].last_sent = "today" => reply[c] = "fresh"

(* appeal_skip_reason and starred_thread_reply_skip_reason find nothing    *)
(* against an answer to the newest reply.                                  *)
MayAppeal(c) ==
    /\ Exists(c) /\ ~Terminal(c)
    /\ order[c] \notin {"accepted", "payment_confirmed"}
    /\ c \notin positive
    /\ reply[c] # "none"
    /\ wf[c].appeal_attempt_count < MaxAppeals
    /\ wf[c].last_sent = "today" => reply[c] = "fresh"

Goto(s, l) == pc' = [pc EXCEPT ![s] = l]

Leave(s) ==
    /\ Goto(s, "idle")
    /\ job' = [job EXCEPT ![s] = NoCase]
    /\ pick' = [pick EXCEPT ![s] = 0]
    /\ own' = [own EXCEPT ![s] = FALSE]

(* run_autopilot reaches the workflow in its list of candidates.  It then  *)
(* asks Gmail whether the conversation is safe to answer (GiveUp: no).     *)
BeginRun(s, c) ==
    /\ pc[s] = "idle"
    /\ wf[c].status \in ELIGIBLE_APPEAL_STATUSES /\ wf[c].due
    /\ wf[c].next_action_type # "manual_review"
    /\ MayAppeal(c)
    /\ Goto(s, "prepare")
    /\ job' = [job EXCEPT ![s] = c]
    /\ UNCHANGED <<records, reply, pick, own>>

(* resume_next_prepared_provider_draft finds a Gmail draft of the latest   *)
(* attempt: neither the status nor the next action is looked at.           *)
ResumePrepared(s, c) ==
    /\ pc[s] = "idle"
    /\ Latest(c) > 0
    /\ attempts[c][Latest(c)].mail = "draft"
    /\ MayAppeal(c)
    /\ Goto(s, "send")
    /\ job' = [job EXCEPT ![s] = c]
    /\ pick' = [pick EXCEPT ![s] = Latest(c)]
    /\ own' = [own EXCEPT ![s] = TRUE]
    /\ UNCHANGED <<records, reply>>

starred_thread_appeal_type(w) ==
    IF w.appeal_attempt_count >= 2 THEN "escalation"
    ELSE IF w.appeal_attempt_count = 1 THEN "second_appeal" ELSE "first_appeal"

(* send_appeal takes the latest attempt, or writes a reply of its own      *)
(* (create_starred_thread_reply_attempt) when that one has been sent.      *)
Prepare(s) ==
    LET c == job[s]
        n == Latest(c) IN
    /\ pc[s] = "prepare"
    /\ IF n = 0 \/ AlreadySent(attempts[c][n])
       THEN /\ n < MaxAttempts
            /\ attempts' = [attempts EXCEPT ![c] = Append(@,
                    [appeal_type |-> starred_thread_appeal_type(wf[c]),
                     status |-> "draft_created", mail |-> "none"])]
            /\ wf' = [wf EXCEPT ![c].status = "gmail_draft_needed", ![c].due = TRUE,
                                ![c].next_action_type = "create_gmail_draft"]
            /\ pick' = [pick EXCEPT ![s] = n + 1]
            /\ Goto(s, "create")
       ELSE /\ pick' = [pick EXCEPT ![s] = n]
            /\ Goto(s, IF attempts[c][n].mail = "none" THEN "create" ELSE "send")
            /\ UNCHANGED <<wf, attempts>>
    /\ own' = [own EXCEPT ![s] = TRUE]
    /\ UNCHANGED <<order, positive, reply, job>>

(* drafts.create succeeded: the draft becomes the attempt's, in the place  *)
(* of any other, and the workflow is written without another look at it.   *)
(* The limits may then put the send off.                                   *)
CreateGmailDraft(s) ==
    LET c == job[s] IN
    /\ pc[s] = "create"
    /\ attempts' = [attempts EXCEPT ![c][pick[s]].mail = "draft",
                                    ![c][pick[s]].status = "gmail_draft_created"]
    /\ wf' = [wf EXCEPT ![c].status = "appeal_needed",
                        ![c].next_action_type = "send_manual_appeal"]
    /\ \/ /\ Goto(s, "send")
          /\ own' = [t \in Senders |->
                        IF t # s /\ job[t] = c /\ pick[t] = pick[s] THEN FALSE ELSE own[t]]
          /\ UNCHANGED <<job, pick>>
       \/ Leave(s)
    /\ UNCHANGED <<order, positive, reply>>

(* The thread's provider draft, as send_provider_draft reads it. *)
DraftOf(s) == IF own[s] THEN attempts[job[s]][pick[s]].mail ELSE "draft"

(* Fault: the thread marks its own attempt too, counted or not. *)
MarkedWithMail(s, m) ==
    IF own[s] THEN [attempts EXCEPT ![job[s]][pick[s]].mail = m,
                                    ![job[s]][pick[s]].status = IF m = "sent" THEN m ELSE @]
    ELSE attempts

WithMail(s, m) ==
    IF own[s] THEN [attempts EXCEPT ![job[s]][pick[s]].mail = m] ELSE attempts

(* The draft is ready: send_requested is committed by the Gmail call. *)
RequestSend(s) ==
    /\ pc[s] = "send"
    /\ DraftOf(s) = "draft"
    /\ attempts' = WithMail(s, "send_requested")
    /\ Goto(s, "call")
    /\ UNCHANGED <<wf, order, positive, reply, job, pick, own>>

(* Gmail shows a newer reply or another draft, the draft is not ready or   *)
(* has no conversation, or a limit is reached; the process can die too.    *)
GiveUp(s) ==
    /\ pc[s] # "idle"
    /\ Leave(s)
    /\ UNCHANGED <<records, reply>>

(* Gmail sent it.  The attempt marked is the latest of the workflow, and   *)
(* nothing is marked when a person closed the workflow or was faster.      *)
RecordAppeal(s) ==
    LET c == job[s]
        sent == WithMail(s, "sent") IN
    /\ pc[s] = "call"
    /\ MarkAllowed(c) => wf[c].appeal_attempt_count < MaxCount
    /\ IF MarkAllowed(c)
       THEN /\ attempts' = [sent EXCEPT ![c][Latest(c)] = AttemptSent(@)]
            /\ wf' = [wf EXCEPT ![c] = Counted(@)]
            /\ reply' = Answered(reply, c)
       ELSE attempts' = sent /\ UNCHANGED <<wf, reply>>
    /\ Leave(s)
    /\ UNCHANGED <<order, positive>>

(* Gmail refuses, or its answer is lost; a quota leaves the draft ready.   *)
RecordFailure(s) ==
    /\ pc[s] = "call"
    /\ \E outcome \in {"failed", "draft"} : attempts' = WithMail(s, outcome)
    /\ Leave(s)
    /\ UNCHANGED <<wf, order, positive, reply>>

(***************************************************************************)
(* The specification                                                       *)
(***************************************************************************)

Next ==
    \/ \E c \in Cases, t \in ReviewType : Review(c, t) \/ ReviewDispute(c, t)
    \/ \E c \in Cases :
          \/ ApplyPayment(c) \/ ImportReply(c)
          \/ MakeStarredActionable(c) \/ RepairForAutopilot(c) \/ Elapse(c)
          \/ AnalyzeRefusal(c) \/ CreateAppealDraft(c) \/ CreateAppealGmailDraft(c)
          \/ MarkSent(c) \/ Pause(c) \/ ManualClose(c) \/ Reopen(c)
    \/ Recalculate
    \/ \E s \in Senders, c \in Cases : BeginRun(s, c) \/ ResumePrepared(s, c)
    \/ \E s \in Senders :
          \/ Prepare(s) \/ CreateGmailDraft(s) \/ RequestSend(s)
          \/ GiveUp(s) \/ RecordAppeal(s) \/ RecordFailure(s)

Spec == Init /\ [][Next]_vars

(***************************************************************************)
(* Properties                                                              *)
(***************************************************************************)

(* Every attempt recorded as sent is in the count that escalates and       *)
(* pauses the workflow, whoever recorded it.                               *)
SentAttemptsAreCounted ==
    \A c \in Cases :
        Cardinality({i \in 1 .. Latest(c) : attempts[c][i].status = "sent"})
            <= wf[c].appeal_attempt_count

(* A workflow that waits for Uber's answer to an appeal has sent at least  *)
(* one and has not reached the threshold of escalation, whoever marked its *)
(* appeals and whatever was written over its status in between.            *)
AppealSentBelowThreshold ==
    \A c \in Cases :
        wf[c].status = "appeal_sent" => wf[c].appeal_attempt_count \in 1 .. EscalateAfter - 1

(* Once the order is paid or the limit of appeals is reached, AutoPilot    *)
(* begins no other appeal of it: only those already begun can leave.       *)
Working(c) == {s \in Senders : job[s] = c}
Settled(c) ==
    order[c] \in {"accepted", "payment_confirmed"} \/ wf[c].appeal_attempt_count >= MaxAppeals
SettledAdmitsNoAppeal ==
    [][\A c \in Cases : Settled(c) => Working(c)' \subseteq Working(c)]_vars
==============================================================================
