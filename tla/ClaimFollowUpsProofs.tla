------------------------- MODULE ClaimFollowUpsProofs -------------------------
(***************************************************************************)
(* Proofs about ClaimFollowUps, for every limit on follow-ups and sends,   *)
(* every set of follow-up types and every set of review outcomes.          *)
(***************************************************************************)
EXTENDS ClaimFollowUps, FiniteSetTheorems, TLAPS

(***************************************************************************)
(* The inductive invariant                                                 *)
(***************************************************************************)

(* TypeOK, with no bound on the retry counter. *)
Typed ==
    /\ status \in ClaimStatus
    /\ retry \in Nat
    /\ elapsed \in Milestones
    /\ unreviewed \in BOOLEAN
    /\ positive \in BOOLEAN
    /\ drafted \subseteq EmailTypes
    /\ mail \in [EmailTypes -> MailStatus]
    /\ task \in [TaskTypes -> TaskStatus]
    /\ linked \subseteq FollowUpTypes
    /\ at \in [EmailTypes -> {"idle", "checked", "ready", "called"}]
    /\ after \in [EmailTypes -> ClaimStatus]

(* While Gmail is called, the draft is "send_requested". *)
CalledIsRequested == \A t \in EmailTypes : at[t] = "called" => mail[t] = "send_requested"

(* The status AutoPilot will write names no follow-up that has not left. *)
AfterIsBacked ==
    \A t \in EmailTypes : \A u \in FollowUpTypes :
        after[t] = FOLLOWUP_SENT_STATUS_BY_TYPE[u] => mail[u] = "sent"

(* The follow-ups that count as retries. *)
Counted == {t \in FollowUpTypes : mail[t] = "sent" /\ task[t] = "completed"}

IInv ==
    /\ Typed
    /\ CalledIsRequested
    /\ AfterIsBacked
    /\ StatusIsBacked
    /\ SentTaskIsCompleted
    /\ RetriesAreSends

(***************************************************************************)
(* Data                                                                    *)
(***************************************************************************)

(* Every follow-up type has a status of its own, which is one of a claim. *)
LEMMA SentStatusInjective ==
    ASSUME NEW t \in FollowUpTypes, NEW u \in FollowUpTypes
    PROVE  /\ FOLLOWUP_SENT_STATUS_BY_TYPE[t] \in SentStatuses
           /\ FOLLOWUP_SENT_STATUS_BY_TYPE[t] = FOLLOWUP_SENT_STATUS_BY_TYPE[u] => t = u
<1> t \in {"followup_1", "followup_2", "escalation"} /\ u \in {"followup_1", "followup_2", "escalation"}
  BY TypesAssumption
<1> QED BY DEF FOLLOWUP_SENT_STATUS_BY_TYPE, SentStatuses

(* Follow-ups are emails and tasks, the initial claim is no task and the   *)
(* manual review is no email.                                              *)
LEMMA TypesDiffer ==
    /\ FollowUpTypes \subseteq EmailTypes /\ FollowUpTypes \subseteq TaskTypes
    /\ "initial_claim" \notin FollowUpTypes /\ "manual_review" \notin FollowUpTypes
    /\ "manual_review" \notin EmailTypes
BY TypesAssumption DEF EmailTypes, TaskTypes

LEMMA FollowUpTypesFinite == IsFiniteSet(FollowUpTypes)
<1> DEFINE All == {"followup_1", "followup_2", "escalation"}
<1>1. IsFiniteSet({} \cup {"followup_1"})
  BY FS_EmptySet, FS_AddElement
<1>2. IsFiniteSet(({} \cup {"followup_1"}) \cup {"followup_2"})
  BY <1>1, FS_AddElement
<1>3. IsFiniteSet((({} \cup {"followup_1"}) \cup {"followup_2"}) \cup {"escalation"})
  BY <1>2, FS_AddElement
<1>4. All = (({} \cup {"followup_1"}) \cup {"followup_2"}) \cup {"escalation"}
  OBVIOUS
<1>5. IsFiniteSet(All)
  BY <1>3, <1>4
<1>6. FollowUpTypes \in SUBSET All
  BY TypesAssumption
<1> QED BY <1>5, <1>6, FS_Subset

(* A set of follow-ups that grows does not get smaller, and one that gains *)
(* a member has more of them.                                              *)
LEMMA CountGrows ==
    ASSUME NEW S \in SUBSET FollowUpTypes, NEW T \in SUBSET FollowUpTypes, S \subseteq T
    PROVE  /\ Cardinality(S) \in Nat /\ Cardinality(T) \in Nat
           /\ Cardinality(S) <= Cardinality(T)
           /\ S # T => Cardinality(S) + 1 <= Cardinality(T)
<1>1. IsFiniteSet(S) /\ IsFiniteSet(T)
  BY FollowUpTypesFinite, FS_Subset
<1>2. /\ Cardinality(S) \in Nat /\ Cardinality(T) \in Nat
      /\ Cardinality(S) <= Cardinality(T)
  BY <1>1, FS_Subset, FS_CardinalityType
<1>3. ASSUME S # T PROVE Cardinality(S) + 1 <= Cardinality(T)
  <2>1. PICK x \in T : x \notin S
    BY <1>3
  <2>2. S \cup {x} \in SUBSET T
    BY <2>1
  <2>3. Cardinality(S \cup {x}) <= Cardinality(T)
    BY <1>1, <2>2, FS_Subset
  <2>4. Cardinality(S \cup {x}) = Cardinality(S) + 1
    BY <1>1, <2>1, FS_AddElement
  <2> QED BY <2>3, <2>4
<1> QED BY <1>2, <1>3

(* The policy only asks for a task the order does not have. *)
LEMMA DecisionFresh ==
    ASSUME NEW t \in decide_next_task
    PROVE  /\ t \in TaskTypes
           /\ t # "manual_review" => task[t] = "none"
BY TypesDiffer DEF decide_next_task, EscalationDue, FollowUp2Due, FollowUp1Due, Missing, TaskTypes

(***************************************************************************)
(* Types                                                                   *)
(***************************************************************************)

(* What a completed task writes to the order has its type. *)
LEMMA EffectsType ==
    ASSUME Typed, NEW t \in TaskTypes, NEW m, NEW s \in ClaimStatus, CompletionEffects(t, m, s)
    PROVE  status' \in ClaimStatus /\ retry' \in Nat
<1>1. t \in linked => FOLLOWUP_SENT_STATUS_BY_TYPE[t] \in ClaimStatus
  BY SentStatusInjective DEF Typed, ClaimStatus, FOLLOWUP_ALLOWED_STATUSES, FOLLOWUP_ELIGIBLE_STATUSES
<1> QED BY <1>1 DEF Typed, CompletionEffects, ClaimStatus

(* So has what a recorded send writes. *)
LEMMA SentType ==
    ASSUME Typed, NEW t \in EmailTypes, NEW s \in ClaimStatus, Sent(t, s)
    PROVE  /\ status' \in ClaimStatus /\ retry' \in Nat
           /\ mail' \in [EmailTypes -> MailStatus] /\ task' \in [TaskTypes -> TaskStatus]
<1>1. mail' \in [EmailTypes -> MailStatus]
  BY DEF Typed, Sent, MailStatus
<1>2. CASE CompletesTask(t)
  <2>1. t \in TaskTypes
    BY <1>2, TypesDiffer DEF CompletesTask, Typed
  <2>2. CompletionEffects(t, "sent", s) /\ task' = [task EXCEPT ![t] = "completed"]
    BY <1>2 DEF Sent
  <2> QED BY <1>1, <2>1, <2>2, EffectsType DEF Typed, TaskStatus
<1>3. CASE ~CompletesTask(t)
  BY <1>1, <1>3 DEF Typed, Sent
<1> QED BY <1>2, <1>3

(* One step on an email keeps every variable in its type. *)
LEMMA EmailType ==
    ASSUME Typed, NEW t \in EmailTypes,
           CreateEmailDraft(t) \/ CreateGmailDraft(t) \/ Send(t)
    PROVE  Typed'
<1> USE DEF Typed, order, mails, tasks, sends, Move, EndSend, ClaimStatus, MailStatus
<1>1. CASE CreateEmailDraft(t)
  BY <1>1 DEF CreateEmailDraft, FOLLOWUP_ALLOWED_STATUSES
<1>2. CASE CreateGmailDraft(t)
  BY <1>2 DEF CreateGmailDraft
<1>3. CASE SendByHand(t)
  BY <1>3 DEF SendByHand, StartSend
<1>4. CASE ChooseStatusAfterSend(t)
  BY <1>4 DEF ChooseStatusAfterSend, FOLLOWUP_ALLOWED_STATUSES, FOLLOWUP_ELIGIBLE_STATUSES
<1>5. CASE DeferSend(t)
  BY <1>5 DEF DeferSend, FOLLOWUP_ALLOWED_STATUSES, FOLLOWUP_ELIGIBLE_STATUSES
<1>6. CASE RequestSend(t)
  BY <1>6 DEF RequestSend
<1>7. CASE AbandonSend(t)
  BY <1>7 DEF AbandonSend, FOLLOWUP_ALLOWED_STATUSES, FOLLOWUP_ELIGIBLE_STATUSES
<1>8. CASE RecordSend(t)
  <2>1. after[t] \in ClaimStatus /\ Sent(t, after[t]) /\ EndSend(t)
        /\ UNCHANGED <<elapsed, unreviewed, positive, drafted, linked>>
    BY <1>8 DEF RecordSend
  <2>2. /\ status' \in ClaimStatus /\ retry' \in Nat
        /\ mail' \in [EmailTypes -> MailStatus] /\ task' \in [TaskTypes -> TaskStatus]
    BY <2>1, SentType
  <2> QED BY <2>1, <2>2 DEF FOLLOWUP_ALLOWED_STATUSES, FOLLOWUP_ELIGIBLE_STATUSES
<1>9. CASE RecordFailure(t)
  BY <1>9 DEF RecordFailure, FOLLOWUP_ALLOWED_STATUSES, FOLLOWUP_ELIGIBLE_STATUSES
<1> QED
  BY <1>1, <1>2, <1>3, <1>4, <1>5, <1>6, <1>7, <1>8, <1>9 DEF Send

(* So does every other step. *)
LEMMA TypedStep ==
    ASSUME Typed, [Next]_vars
    PROVE  Typed'
<1> USE DEF Typed, order, mails, tasks, sends
<1>1. ASSUME NEW t \in FollowUpTypes, FollowUp(t) PROVE Typed'
  <2>0. t \in EmailTypes /\ t \in TaskTypes
    BY TypesDiffer
  <2>1. CASE CreateTaskDraft(t)
    BY <2>0, <2>1 DEF CreateTaskDraft, TaskStatus, OpenTask
  <2>2. CASE CreateTaskGmailDraft(t)
    BY <2>0, <2>2 DEF CreateTaskGmailDraft, TaskStatus, OpenTask, MailStatus
  <2>3. CASE PrepareFollowUp(t)
    BY <2>0, <2>3 DEF PrepareFollowUp, StartSend, Move, TaskStatus, OpenTask, MailStatus
  <2>4. CASE ConfirmStaleSend(t)
    BY <2>0, <2>4, SentType DEF ConfirmStaleSend
  <2>5. CASE RequeueDraft(t)
    BY <2>0, <2>5 DEF RequeueDraft, TaskStatus, OpenTask, MailStatus
  <2> QED BY <1>1, <2>1, <2>2, <2>3, <2>4, <2>5 DEF FollowUp
<1>2. ASSUME NEW t \in TaskTypes, SkipTask(t) PROVE Typed'
  BY <1>2 DEF SkipTask, TaskStatus
<1>3. ASSUME NEW t \in TaskTypes, CompleteTask(t) PROVE Typed'
  <2>1. status' \in ClaimStatus /\ retry' \in Nat
    BY <1>3, EffectsType DEF CompleteTask
  <2> QED BY <1>3, <2>1 DEF CompleteTask, TaskStatus
<1>4. CASE Validate
  BY <1>4 DEF Validate, ClaimStatus
<1>5. CASE PrepareInitialClaim
  BY <1>5 DEF PrepareInitialClaim, StartSend, Move, ClaimStatus, FOLLOWUP_ALLOWED_STATUSES,
              EmailTypes, MailStatus
<1>6. CASE Recalculate
  BY <1>6, DecisionFresh DEF Recalculate, TaskStatus, OpenTask
<1>7. CASE AcceptManualReview
  BY <1>7 DEF AcceptManualReview, TaskTypes, TaskStatus, ClaimStatus
<1>8. CASE LinkReply
  BY <1>8 DEF LinkReply, ClaimStatus, FOLLOWUP_ALLOWED_STATUSES, FOLLOWUP_ELIGIBLE_STATUSES
<1>9. CASE MakeStarredActionable
  BY <1>9 DEF MakeStarredActionable, ClaimStatus, FINAL_ORDER_STATUSES
<1>10. CASE IgnoreReply
  BY <1>10 DEF IgnoreReply
<1>11. CASE ApplyPayment
  BY <1>11 DEF ApplyPayment, ClaimStatus, FINAL_ORDER_STATUSES, TaskStatus
<1>12. CASE Elapse
  BY <1>12 DEF Elapse, Milestones
<1>13. ASSUME NEW s \in ReviewOutcomes, Review(s) PROVE Typed'
  <2>1. s \in ClaimStatus
    BY TypesAssumption DEF ClaimStatus, FINAL_ORDER_STATUSES
  <2> QED BY <1>13, <2>1 DEF Review
<1>14. CASE UNCHANGED vars
  BY <1>14 DEF vars
<1> QED
  BY <1>1, <1>2, <1>3, <1>4, <1>5, <1>6, <1>7, <1>8, <1>9, <1>10, <1>11, <1>12, <1>13,
     <1>14, EmailType DEF Next

(***************************************************************************)
(* What is never undone                                                    *)
(***************************************************************************)

(* A sent email stays sent. *)
LEMMA SentStays ==
    ASSUME Typed, CalledIsRequested, [Next]_vars, NEW u \in EmailTypes, mail[u] = "sent"
    PROVE  mail'[u] = "sent"
<1> USE DEF Typed, order, mails, tasks, sends
<1>1. ASSUME NEW t \in EmailTypes, CreateEmailDraft(t) \/ CreateGmailDraft(t) \/ Send(t)
      PROVE  mail'[u] = "sent"
  BY <1>1 DEF CreateEmailDraft, CreateGmailDraft, Send, SendByHand, ChooseStatusAfterSend,
     DeferSend, RequestSend, AbandonSend, RecordSend, Sent, RecordFailure, CalledIsRequested
<1>2. ASSUME NEW t \in FollowUpTypes, FollowUp(t) PROVE mail'[u] = "sent"
  BY <1>2 DEF FollowUp, CreateTaskDraft, CreateTaskGmailDraft, PrepareFollowUp,
     ConfirmStaleSend, Sent, RequeueDraft
<1>3. CASE PrepareInitialClaim
  BY <1>3 DEF PrepareInitialClaim, InitialClaimAllowed, FirstSent
<1>4. ASSUME \/ Validate \/ Recalculate \/ AcceptManualReview
             \/ \E t \in TaskTypes : SkipTask(t) \/ CompleteTask(t)
             \/ LinkReply \/ MakeStarredActionable \/ IgnoreReply \/ ApplyPayment \/ Elapse
             \/ \E s \in ReviewOutcomes : Review(s)
             \/ UNCHANGED vars
      PROVE  mail'[u] = "sent"
  BY <1>4 DEF Validate, Recalculate, AcceptManualReview, SkipTask, CompleteTask, LinkReply,
     MakeStarredActionable, IgnoreReply, ApplyPayment, Elapse, Review, vars
<1> QED BY <1>1, <1>2, <1>3, <1>4 DEF Next

(* A completed task stays completed. *)
LEMMA CompletedStays ==
    ASSUME Typed, [Next]_vars, NEW u \in TaskTypes, task[u] = "completed"
    PROVE  task'[u] = "completed"
<1> USE DEF Typed, order, mails, tasks, sends
<1>1. ASSUME NEW t \in EmailTypes, CreateEmailDraft(t) \/ CreateGmailDraft(t) \/ Send(t)
      PROVE  task'[u] = "completed"
  BY <1>1 DEF CreateEmailDraft, CreateGmailDraft, Send, SendByHand, ChooseStatusAfterSend,
     DeferSend, RequestSend, AbandonSend, RecordSend, Sent, RecordFailure
<1>2. ASSUME NEW t \in FollowUpTypes, FollowUp(t) PROVE task'[u] = "completed"
  BY <1>2 DEF FollowUp, CreateTaskDraft, CreateTaskGmailDraft, PrepareFollowUp,
     FollowUpListed, ConfirmStaleSend, Sent, RequeueDraft, OpenTask
<1>3. CASE Recalculate
  BY <1>3, DecisionFresh DEF Recalculate
<1>4. ASSUME \/ Validate \/ PrepareInitialClaim \/ AcceptManualReview
             \/ \E t \in TaskTypes : SkipTask(t) \/ CompleteTask(t)
             \/ LinkReply \/ MakeStarredActionable \/ IgnoreReply \/ ApplyPayment \/ Elapse
             \/ \E s \in ReviewOutcomes : Review(s)
             \/ UNCHANGED vars
      PROVE  task'[u] = "completed"
  BY <1>4 DEF Validate, PrepareInitialClaim, AcceptManualReview, SkipTask, CompleteTask,
     LinkReply, MakeStarredActionable, IgnoreReply, ApplyPayment, OpenTask, Elapse, Review, vars
<1> QED BY <1>1, <1>2, <1>3, <1>4 DEF Next

(***************************************************************************)
(* Sends in progress                                                       *)
(***************************************************************************)

(* A draft Gmail is called for stays "send_requested" until the outcome. *)
LEMMA CalledStep ==
    ASSUME Typed, CalledIsRequested, [Next]_vars
    PROVE  CalledIsRequested'
<1> USE DEF Typed, order, mails, tasks, sends, CalledIsRequested
<1>1. ASSUME NEW t \in EmailTypes, CreateEmailDraft(t) \/ CreateGmailDraft(t) \/ Send(t)
      PROVE  CalledIsRequested'
  BY <1>1 DEF CreateEmailDraft, CreateGmailDraft, Send, SendByHand, StartSend, Move, EndSend,
     ChooseStatusAfterSend, DeferSend, RequestSend, AbandonSend, RecordSend, Sent, RecordFailure
<1>2. ASSUME NEW t \in FollowUpTypes, FollowUp(t) PROVE CalledIsRequested'
  BY <1>2, TypesDiffer DEF FollowUp, CreateTaskDraft, CreateTaskGmailDraft, PrepareFollowUp,
     StartSend, Move, ConfirmStaleSend, Sent, RequeueDraft
<1>3. CASE PrepareInitialClaim
  BY <1>3 DEF PrepareInitialClaim, StartSend, Move
<1>4. ASSUME \/ Validate \/ Recalculate \/ AcceptManualReview
             \/ \E t \in TaskTypes : SkipTask(t) \/ CompleteTask(t)
             \/ LinkReply \/ MakeStarredActionable \/ IgnoreReply \/ ApplyPayment \/ Elapse
             \/ \E s \in ReviewOutcomes : Review(s)
             \/ UNCHANGED vars
      PROVE  CalledIsRequested'
  BY <1>4 DEF Validate, Recalculate, AcceptManualReview, SkipTask, CompleteTask, LinkReply,
     MakeStarredActionable, IgnoreReply, ApplyPayment, Elapse, Review, vars
<1> QED BY <1>1, <1>2, <1>3, <1>4 DEF Next

(* The status chosen before a send was the order's own, so what it says is *)
(* as true as the order's status was, and no send is undone afterwards.    *)
LEMMA AfterStep ==
    ASSUME Typed, CalledIsRequested, AfterIsBacked, StatusIsBacked, [Next]_vars
    PROVE  AfterIsBacked'
<1>1. ASSUME NEW u \in FollowUpTypes, mail[u] = "sent" PROVE mail'[u] = "sent"
  BY <1>1, SentStays, TypesDiffer
<1>2. ASSUME NEW u \in FollowUpTypes PROVE FOLLOWUP_SENT_STATUS_BY_TYPE[u] # "sent"
  BY SentStatusInjective DEF SentStatuses
<1>3. ASSUME UNCHANGED after PROVE AfterIsBacked'
  BY <1>1, <1>3 DEF AfterIsBacked
<1>4. ASSUME NEW t \in EmailTypes, Send(t) PROVE AfterIsBacked'
  <2>1. CASE ChooseStatusAfterSend(t)
    BY <1>1, <1>2, <2>1 DEF ChooseStatusAfterSend, Typed, AfterIsBacked, StatusIsBacked
  <2>2. CASE EndSend(t)
    BY <1>1, <1>2, <2>2 DEF EndSend, Typed, AfterIsBacked
  <2> QED
    BY <1>3, <1>4, <2>1, <2>2 DEF Send, SendByHand, DeferSend, RequestSend, AbandonSend,
       RecordSend, RecordFailure
<1>5. ASSUME ~\E t \in EmailTypes : Send(t) PROVE UNCHANGED after
  BY <1>5 DEF Next, vars, sends, CreateEmailDraft, CreateGmailDraft, FollowUp, CreateTaskDraft,
     CreateTaskGmailDraft, PrepareFollowUp, ConfirmStaleSend, RequeueDraft, Validate,
     PrepareInitialClaim, Recalculate, AcceptManualReview, SkipTask, CompleteTask, LinkReply,
     MakeStarredActionable, IgnoreReply, ApplyPayment, Elapse, Review
<1> QED BY <1>3, <1>4, <1>5

(***************************************************************************)
(* The order and its tasks                                                 *)
(***************************************************************************)

(* A recorded send leaves a status that is true. *)
LEMMA SentBacks ==
    ASSUME Typed, CalledIsRequested, [Next]_vars, NEW t \in EmailTypes, NEW s,
           \A u \in FollowUpTypes : s = FOLLOWUP_SENT_STATUS_BY_TYPE[u] => mail[u] = "sent",
           Sent(t, s)
    PROVE  StatusIsBacked'
<1>1. mail'[t] = "sent" /\ FirstSent'
  BY DEF Sent, Typed, FirstSent
<1>2. ASSUME NEW u \in FollowUpTypes, mail[u] = "sent" PROVE mail'[u] = "sent"
  BY <1>2, SentStays, TypesDiffer
<1>3. CASE CompletesTask(t)
  <2>1. t \in FollowUpTypes /\ status' = FOLLOWUP_SENT_STATUS_BY_TYPE[t]
    BY <1>3 DEF Sent, CompletionEffects, CompletesTask, Typed
  <2>2. \A u \in FollowUpTypes : status' = FOLLOWUP_SENT_STATUS_BY_TYPE[u] => u = t
    BY <2>1, SentStatusInjective
  <2> QED BY <1>1, <2>2 DEF StatusIsBacked
<1>4. CASE ~CompletesTask(t)
  BY <1>1, <1>2, <1>4 DEF Sent, StatusIsBacked
<1> QED BY <1>3, <1>4

(* A status that says an email left stays true. *)
LEMMA StatusStep ==
    ASSUME Typed, CalledIsRequested, AfterIsBacked, StatusIsBacked, [Next]_vars
    PROVE  StatusIsBacked'
<1>1. ASSUME NEW u \in EmailTypes, mail[u] = "sent" PROVE mail'[u] = "sent"
  BY <1>1, SentStays
<1>2. FirstSent => FirstSent'
  BY <1>1 DEF FirstSent
<1>3. ASSUME UNCHANGED status PROVE StatusIsBacked'
  BY <1>1, <1>2, <1>3, TypesDiffer DEF StatusIsBacked
<1>4. ASSUME status' \notin FOLLOWUP_ELIGIBLE_STATUSES PROVE StatusIsBacked'
  BY <1>4, SentStatusInjective DEF StatusIsBacked, FOLLOWUP_ELIGIBLE_STATUSES
<1>5. CASE LinkReply
  <2>1. FirstSent' /\ status' \in {status, "response_received"}
    BY <1>2, <1>5 DEF LinkReply
  <2>2. \A u \in FollowUpTypes : FOLLOWUP_SENT_STATUS_BY_TYPE[u] # "response_received"
    BY SentStatusInjective DEF SentStatuses
  <2> QED BY <1>1, <1>3, <2>1, <2>2, TypesDiffer DEF StatusIsBacked
<1>6. ASSUME NEW t \in TaskTypes, CompleteTask(t) PROVE StatusIsBacked'
  <2>1. CASE t \in linked /\ mail[t] = "sent"
    <3>1. t \in FollowUpTypes /\ t \in EmailTypes
      BY <2>1, TypesDiffer DEF Typed
    <3>2. status' = FOLLOWUP_SENT_STATUS_BY_TYPE[t] /\ mail'[t] = "sent"
      BY <1>1, <1>6, <2>1, <3>1 DEF CompleteTask, CompletionEffects
    <3>3. \A u \in FollowUpTypes : status' = FOLLOWUP_SENT_STATUS_BY_TYPE[u] => u = t
      BY <3>1, <3>2, SentStatusInjective
    <3> QED BY <3>1, <3>2, <3>3 DEF StatusIsBacked, FirstSent
  <2>2. CASE ~(t \in linked /\ mail[t] = "sent")
    <3>1. t \in linked => t \in EmailTypes
      BY TypesDiffer DEF Typed
    <3>2. status' \in {status, "manual_review"}
      BY <1>6, <2>2, <3>1 DEF CompleteTask, CompletionEffects
    <3> QED BY <1>3, <1>4, <3>2 DEF FOLLOWUP_ELIGIBLE_STATUSES, SentStatuses
  <2> QED BY <2>1, <2>2
<1>7. ASSUME NEW t \in EmailTypes, CreateEmailDraft(t) \/ CreateGmailDraft(t) \/ Send(t)
      PROVE  StatusIsBacked'
  <2>1. CASE RecordSend(t)
    BY <2>1, SentBacks DEF RecordSend, AfterIsBacked
  <2>2. CASE CreateEmailDraft(t) \/ DeferSend(t)
    <3>1. status' \in {status, "draft_email_created", "ready_to_send"}
      BY <2>2 DEF CreateEmailDraft, DeferSend
    <3> QED BY <1>3, <1>4, <3>1 DEF FOLLOWUP_ELIGIBLE_STATUSES, SentStatuses
  <2> QED
    BY <1>3, <1>7, <2>1, <2>2 DEF Send, CreateGmailDraft, SendByHand, ChooseStatusAfterSend,
       RequestSend, AbandonSend, RecordFailure, order
<1>8. ASSUME NEW t \in FollowUpTypes, FollowUp(t) PROVE StatusIsBacked'
  <2>1. CASE ConfirmStaleSend(t)
    BY <2>1, SentBacks, TypesDiffer DEF ConfirmStaleSend, StatusIsBacked
  <2> QED
    BY <1>3, <1>8, <2>1 DEF FollowUp, CreateTaskDraft, CreateTaskGmailDraft, PrepareFollowUp,
       RequeueDraft, order
<1>9. ASSUME Validate \/ PrepareInitialClaim \/ AcceptManualReview \/ MakeStarredActionable
             \/ ApplyPayment \/ \E s \in ReviewOutcomes : Review(s)
      PROVE  StatusIsBacked'
  <2>1. status' \in {status, "ready_to_send", "missing_evidence", "draft_email_created", "refused"}
                    \cup {"accepted", "payment_to_verify", "payment_confirmed", "manual_review"}
    BY <1>9, TypesAssumption DEF Validate, PrepareInitialClaim, AcceptManualReview,
       MakeStarredActionable, ApplyPayment, Review
  <2> QED BY <1>3, <1>4, <2>1 DEF FOLLOWUP_ELIGIBLE_STATUSES, SentStatuses
<1>10. ASSUME Recalculate \/ IgnoreReply \/ Elapse \/ (\E t \in TaskTypes : SkipTask(t))
              \/ UNCHANGED vars
       PROVE  StatusIsBacked'
  BY <1>3, <1>10 DEF Recalculate, IgnoreReply, Elapse, SkipTask, order, vars
<1> QED BY <1>5, <1>6, <1>7, <1>8, <1>9, <1>10 DEF Next

(* The task of a follow-up that left is completed in the same step. *)
LEMMA TaskStep ==
    ASSUME Typed, CalledIsRequested, SentTaskIsCompleted, [Next]_vars
    PROVE  SentTaskIsCompleted'
<1>1. ASSUME NEW t \in FollowUpTypes, task[t] = "completed" PROVE task'[t] = "completed"
  BY <1>1, CompletedStays, TypesDiffer
<1>2. ASSUME linked' = linked, \A t \in linked : mail'[t] = "sent" => mail[t] = "sent"
      PROVE  SentTaskIsCompleted'
  BY <1>1, <1>2 DEF SentTaskIsCompleted, Typed
<1>3. ASSUME NEW t \in EmailTypes, NEW s, Sent(t, s), linked' = linked
      PROVE  SentTaskIsCompleted'
  <2>1. t \in linked => task'[t] = "completed"
    BY <1>1, <1>3, TypesDiffer DEF Sent, CompletesTask, Typed
  <2> QED BY <1>1, <1>3, <2>1 DEF Sent, SentTaskIsCompleted, Typed
<1>4. ASSUME NEW t \in EmailTypes, CreateEmailDraft(t) \/ CreateGmailDraft(t) \/ Send(t)
      PROVE  SentTaskIsCompleted'
  <2>1. CASE RecordSend(t)
    BY <1>3, <2>1 DEF RecordSend
  <2> QED
    BY <1>2, <1>4, <2>1, TypesDiffer DEF Send, CreateEmailDraft, CreateGmailDraft, SendByHand,
       ChooseStatusAfterSend, DeferSend, RequestSend, AbandonSend, RecordFailure, mails, tasks, Typed
<1>5. ASSUME NEW t \in FollowUpTypes, FollowUp(t) PROVE SentTaskIsCompleted'
  <2>0. t \in EmailTypes
    BY TypesDiffer
  <2>1. CASE ConfirmStaleSend(t)
    BY <1>3, <2>0, <2>1 DEF ConfirmStaleSend
  <2>2. CASE CreateTaskGmailDraft(t) \/ PrepareFollowUp(t)
    <3>1. linked' = linked \cup {t}
      BY <2>2 DEF CreateTaskGmailDraft, PrepareFollowUp
    <3>2. \A u \in EmailTypes \ {t} : mail'[u] = mail[u]
      BY <2>2 DEF CreateTaskGmailDraft, PrepareFollowUp, Typed
    <3>3. mail'[t] = "sent" => t \in linked /\ mail[t] = "sent"
      BY <2>0, <2>2 DEF CreateTaskGmailDraft, PrepareFollowUp, Typed
    <3> QED BY <1>1, <3>1, <3>2, <3>3, TypesDiffer DEF SentTaskIsCompleted, Typed
  <2> QED
    BY <1>2, <1>5, <2>0, <2>1, <2>2, TypesDiffer DEF FollowUp, CreateTaskDraft, RequeueDraft,
       mails, tasks, Typed
<1>6. CASE PrepareInitialClaim
  BY <1>2, <1>6, TypesDiffer DEF PrepareInitialClaim, tasks, Typed
<1>7. ASSUME \/ Validate \/ Recalculate \/ AcceptManualReview
             \/ \E t \in TaskTypes : SkipTask(t) \/ CompleteTask(t)
             \/ LinkReply \/ MakeStarredActionable \/ IgnoreReply \/ ApplyPayment \/ Elapse
             \/ \E s \in ReviewOutcomes : Review(s)
             \/ UNCHANGED vars
      PROVE  SentTaskIsCompleted'
  BY <1>2, <1>7 DEF Validate, Recalculate, AcceptManualReview, SkipTask, CompleteTask, LinkReply,
     MakeStarredActionable, IgnoreReply, ApplyPayment, Elapse, Review, mails, tasks, vars
<1> QED BY <1>4, <1>5, <1>6, <1>7 DEF Next

(* The counter moves only when a follow-up that left is completed for the  *)
(* first time.                                                             *)
LEMMA EffectsCount ==
    ASSUME Typed, RetriesAreSends, NEW t \in TaskTypes, NEW m, NEW s,
           CompletionEffects(t, m, s), task'[t] = "completed",
           t \in linked => mail'[t] = m,
           Counted \subseteq Counted'
    PROVE  RetriesAreSends'
<1>1. Counted \in SUBSET FollowUpTypes /\ Counted' \in SUBSET FollowUpTypes
  BY DEF Counted
<1>2. retry <= Cardinality(Counted)
  BY DEF RetriesAreSends, Counted
<1>3. CASE UNCHANGED retry
  <2>1. retry' <= Cardinality(Counted')
    BY <1>1, <1>2, <1>3, CountGrows DEF Typed
  <2> QED BY <2>1 DEF RetriesAreSends, Counted
<1>4. CASE ~UNCHANGED retry
  <2>1. t \in linked /\ m = "sent" /\ task[t] # "completed" /\ retry' = retry + 1
    BY <1>4 DEF CompletionEffects
  <2>2. t \notin Counted /\ t \in Counted'
    BY <2>1 DEF Counted, Typed
  <2>3. Cardinality(Counted) + 1 <= Cardinality(Counted')
    BY <1>1, <2>2, CountGrows
  <2>4. Cardinality(Counted) \in Nat /\ Cardinality(Counted') \in Nat
    BY <1>1, CountGrows
  <2>5. retry' <= Cardinality(Counted')
    BY <1>2, <2>1, <2>3, <2>4 DEF Typed
  <2> QED BY <2>5 DEF RetriesAreSends, Counted
<1> QED BY <1>3, <1>4

(* Each follow-up is counted once, whoever completes its task. *)
LEMMA RetriesStep ==
    ASSUME Typed, CalledIsRequested, RetriesAreSends, [Next]_vars
    PROVE  RetriesAreSends'
<1>1. Counted \subseteq Counted'
  BY SentStays, CompletedStays, TypesDiffer DEF Counted
<1>2. ASSUME UNCHANGED retry PROVE RetriesAreSends'
  <2>1. Counted \in SUBSET FollowUpTypes /\ Counted' \in SUBSET FollowUpTypes
    BY DEF Counted
  <2>2. retry <= Cardinality(Counted)
    BY DEF RetriesAreSends, Counted
  <2>3. retry' <= Cardinality(Counted')
    BY <1>1, <1>2, <2>1, <2>2, CountGrows DEF Typed
  <2> QED BY <2>3 DEF RetriesAreSends, Counted
<1>3. ASSUME NEW t \in EmailTypes, NEW s, Sent(t, s) PROVE RetriesAreSends'
  <2>1. CASE CompletesTask(t)
    <3>1. t \in TaskTypes /\ CompletionEffects(t, "sent", s)
      BY <1>3, <2>1, TypesDiffer DEF Sent, CompletesTask, Typed
    <3>2. task'[t] = "completed" /\ mail'[t] = "sent"
      BY <1>3, <2>1, <3>1 DEF Sent, Typed
    <3> QED BY <1>1, <3>1, <3>2, EffectsCount
  <2> QED BY <1>2, <1>3, <2>1 DEF Sent
<1>4. ASSUME NEW t \in TaskTypes, CompleteTask(t) PROVE RetriesAreSends'
  <2> DEFINE m == IF t \in EmailTypes THEN mail[t] ELSE "none"
  <2>1. CompletionEffects(t, m, status) /\ task'[t] = "completed"
    BY <1>4 DEF CompleteTask, Typed
  <2>2. t \in linked => mail'[t] = m
    BY <1>4, TypesDiffer DEF CompleteTask, mails, Typed
  <2> QED BY <1>1, <2>1, <2>2, EffectsCount
<1>5. ASSUME NEW t \in EmailTypes, CreateEmailDraft(t) \/ CreateGmailDraft(t) \/ Send(t)
      PROVE  RetriesAreSends'
  BY <1>2, <1>3, <1>5 DEF Send, CreateEmailDraft, CreateGmailDraft, SendByHand,
     ChooseStatusAfterSend, DeferSend, RequestSend, AbandonSend, RecordSend, RecordFailure, order
<1>6. ASSUME NEW t \in FollowUpTypes, FollowUp(t) PROVE RetriesAreSends'
  BY <1>2, <1>3, <1>6, TypesDiffer DEF FollowUp, CreateTaskDraft, CreateTaskGmailDraft,
     PrepareFollowUp, ConfirmStaleSend, RequeueDraft, order
<1>7. ASSUME \/ Validate \/ PrepareInitialClaim \/ Recalculate \/ AcceptManualReview
             \/ (\E t \in TaskTypes : SkipTask(t))
             \/ LinkReply \/ MakeStarredActionable \/ IgnoreReply \/ ApplyPayment \/ Elapse
             \/ (\E s \in ReviewOutcomes : Review(s))
             \/ UNCHANGED vars
      PROVE  RetriesAreSends'
  BY <1>2, <1>7 DEF Validate, PrepareInitialClaim, Recalculate, AcceptManualReview, SkipTask,
     LinkReply, MakeStarredActionable, IgnoreReply, ApplyPayment, Elapse, Review, order, vars
<1> QED BY <1>4, <1>5, <1>6, <1>7 DEF Next

(***************************************************************************)
(* Theorems                                                                *)
(***************************************************************************)

(* The invariant holds initially, every step keeps it, and it bounds the   *)
(* retry counter by the number of follow-up types.                         *)
LEMMA InitInv == Init => IInv
<1> SUFFICES ASSUME Init PROVE IInv
  OBVIOUS
<1> USE DEF Init
<1>1. Typed
  <2>1. retry \in Nat /\ elapsed \in Milestones
    BY DEF Milestones
  <2>2. unreviewed \in BOOLEAN /\ positive \in BOOLEAN
    OBVIOUS
  <2>3. status \in ClaimStatus /\ after \in [EmailTypes -> ClaimStatus]
    BY DEF ClaimStatus, FOLLOWUP_ALLOWED_STATUSES, FOLLOWUP_ELIGIBLE_STATUSES
  <2>4. /\ mail \in [EmailTypes -> MailStatus] /\ task \in [TaskTypes -> TaskStatus]
        /\ at \in [EmailTypes -> {"idle", "checked", "ready", "called"}]
    BY DEF MailStatus, TaskStatus
  <2>5. drafted \subseteq EmailTypes /\ linked \subseteq FollowUpTypes
    OBVIOUS
  <2> QED BY <2>1, <2>2, <2>3, <2>4, <2>5 DEF Typed
<1>2. CalledIsRequested /\ SentTaskIsCompleted
  BY DEF CalledIsRequested, SentTaskIsCompleted
<1>3. AfterIsBacked /\ StatusIsBacked
  BY SentStatusInjective DEF AfterIsBacked, StatusIsBacked, SentStatuses,
     FOLLOWUP_ELIGIBLE_STATUSES
<1>4. RetriesAreSends
  <2>1. Counted \in SUBSET FollowUpTypes
    BY DEF Counted
  <2>2. Cardinality(Counted) \in Nat
    BY <2>1, CountGrows
  <2> QED BY <2>2 DEF RetriesAreSends, Counted
<1> QED BY <1>1, <1>2, <1>3, <1>4 DEF IInv

LEMMA StepInv == IInv /\ [Next]_vars => IInv'
BY TypedStep, CalledStep, AfterStep, StatusStep, TaskStep, RetriesStep DEF IInv

LEMMA InvType == IInv => TypeOK
<1> SUFFICES ASSUME IInv PROVE TypeOK
  OBVIOUS
<1>1. Counted \in SUBSET FollowUpTypes
  BY DEF Counted
<1>2. /\ Cardinality(Counted) \in Nat /\ Cardinality(FollowUpTypes) \in Nat
      /\ Cardinality(Counted) <= Cardinality(FollowUpTypes)
  BY <1>1, CountGrows
<1>3. retry \in 0 .. Cardinality(FollowUpTypes)
  BY <1>2 DEF IInv, Typed, RetriesAreSends, Counted
<1> QED BY <1>3 DEF IInv, Typed, TypeOK

LEMMA Invariance == Spec => []IInv
BY InitInv, StepInv, PTL DEF Spec

(* Every variable keeps its type; in particular no order is ever chased    *)
(* more often than there are kinds of follow-up.                           *)
THEOREM FollowUpTypeInvariant == Spec => []TypeOK
BY Invariance, InvType, PTL

(* A status that says an email left is true, whatever the order of sends,  *)
(* completions, repairs and reviews.                                       *)
THEOREM StatusBacked == Spec => []StatusIsBacked
<1>1. IInv => StatusIsBacked
  BY DEF IInv
<1> QED BY <1>1, Invariance, PTL

(* The retry counter never counts a follow-up twice. *)
THEOREM RetriesCounted == Spec => []RetriesAreSends
<1>1. IInv => RetriesAreSends
  BY DEF IInv
<1> QED BY <1>1, Invariance, PTL

(* The task of an email that left is completed, so no run sends it again. *)
THEOREM SentCompletes == Spec => []SentTaskIsCompleted
<1>1. IInv => SentTaskIsCompleted
  BY DEF IInv
<1> QED BY <1>1, Invariance, PTL
==============================================================================
