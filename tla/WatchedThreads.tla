---------------------------- MODULE WatchedThreads ----------------------------
(***************************************************************************)
(* One mailbox and the conversations with Uber it watches.                 *)
(*                                                                         *)
(* A pass of GmailInboundAutoSyncService works through the account in      *)
(* stages: the backlog of stored messages, one read of every watched       *)
(* conversation, at most one reply, the discovery of newly starred         *)
(* conversations (and a second round when it found some), and last the     *)
(* import of the recent messages nobody starred.  Uber, the owner of the   *)
(* mailbox and the official payments act between any two steps.            *)
(*                                                                         *)
(* Rows is the database as a record, so that what the code does to one     *)
(* message reads as a chain of operators; a step saves the last of them.   *)
(* A pass that dies is rolled back to its last commit: what it undoes is   *)
(* as if it had never run, except what it did to Gmail, so only the steps  *)
(* that change Gmail have an outcome in which their rows are lost.         *)
(***************************************************************************)
EXTENDS Naturals, Sequences, FiniteSets, SequencesExt

CONSTANTS
    Threads,            \* conversations
    Orders, NoOrder,    \* claim orders
    OrderOf,            \* the order the text of a conversation names, if any
    Contested,          \* orders with two open disputes: no promise can be applied
    Scripts,            \* bound: what Uber may post, a sequence of messages each
    Starred,            \* bound: the kinds of message the owner stars
    MaxAttempts,        \* autopilot_max_appeal_attempts
    MaxMessages,        \* bound: length of a script
    MaxMails            \* bound: replies that leave for one message

MessageKinds ==
    {"refusal", "evidence", "waiting", "promise", "unclear", "survey", "closed"}

Mail == [thread : Threads, kind : MessageKinds]

ASSUME WatchedAssumption ==
    /\ NoOrder \notin Orders
    /\ OrderOf \in [Threads -> Orders \cup {NoOrder}]
    /\ Contested \subseteq Orders
    /\ Scripts \subseteq Seq(Mail) /\ Starred \subseteq MessageKinds
    /\ \A s \in Scripts : Len(s) <= MaxMessages
    /\ MaxAttempts \in Nat /\ MaxMessages \in Nat /\ MaxMails \in Nat

PROTECTED_ORDER_STATUSES == {"payment_confirmed"}

FOLLOWUP_TERMINAL_ORDER_STATUSES == {"payment_to_verify", "payment_confirmed"}

(* What a review of a decision makes of the order; Uber's other messages     *)
(* are never applied without a person.                                     *)
REVIEW_STATUS_TRANSITIONS ==
    [promise |-> "payment_to_verify", refusal |-> "refused", evidence |-> "manual_review"]

SKIPPABLE_FINAL_WORK_ITEM_STATUSES == {"processed", "positive", "refused", "evidence_needed"}

SAFE_FOLLOWUP_WORK_ITEM_REASONS == {"waiting", "replied"}

RECOVERABLE_PROOF_REPLY_REASONS == {"blocked"}

Messages == 1 .. MaxMessages

(* label: the stored labels hold STARRED. *)
InboundEmailMessage ==
    [known : BOOLEAN, review : {"unreviewed", "reviewed", "ignored"}, label : BOOLEAN]

(* payment_confirmed is positive too; first is first_starred_message_id. *)
GmailWatchedThread ==
    [status : {"none", "active", "manual_review", "positive", "closed"},
     star : BOOLEAN, first : Messages \cup {0}]

(* bound: inbound_message_id is set. *)
GmailStarredWorkItem ==
    [status : {"none", "pending", "manual_review", "skipped"} \cup
              SKIPPABLE_FINAL_WORK_ITEM_STATUSES,
     bound : BOOLEAN,
     reason : {"none", "other"} \cup RECOVERABLE_PROOF_REPLY_REASONS \cup
              SAFE_FOLLOWUP_WORK_ITEM_REASONS]

OrderStatus ==
    {"sent", "response_received", "refused", "manual_review"} \cup FOLLOWUP_TERMINAL_ORDER_STATUSES

DraftStatus == {"none", "provider_draft_created", "send_requested", "sent", "failed"}

VARIABLES
    mail,       \* Gmail: the messages of Uber, in the order they arrived
    star,       \* Gmail: the starred ones
    gone,       \* Gmail: deleted conversations
    inbox,      \* message -> its row
    watch,      \* conversation -> its GmailWatchedThread
    item,       \* message -> its GmailStarredWorkItem
    order,      \* order -> status
    promised,   \* orders to which a promise of Uber was applied
    attempts,   \* order -> appeal_attempt_count of its workflow
    cooling,    \* acknowledgements too young, or answered too recently, to relaunch
    reply,      \* message -> the provider draft of its latest attempt
    proof,      \* conversation -> its latest proof_reply draft
    heard,      \* conversation -> messages there were when a reply was last recorded sent
    mails,      \* message -> replies that left for it
    lost,       \* message -> those of them whose Gmail answer was an error
    pass        \* the running pass

gmail == <<mail, star, gone>>
rows == <<inbox, watch, item, order, promised>>
sends == <<attempts, cooling, reply, proof, heard, mails, lost>>
vars == <<gmail, rows, sends, pass>>

Posted == DOMAIN mail
Thread(m) == mail[m].thread
Kind(m) == mail[m].kind
Claim(m) == OrderOf[Thread(m)]
In(t) == {m \in Posted : Thread(m) = t}
Latest(S) == IF S = {} THEN 0 ELSE CHOOSE m \in S : \A n \in S : n <= m
OfKind(S, k) == {m \in S : Kind(m) = k}
Substantive(S) == S \ OfKind(S, "survey")

(* todo: conversations still to poll; seen: the newest message the poll of   *)
(* a conversation returned; queue: replies still to try, then the messages  *)
(* the recent import stored; unstarred: the one star removal was used;      *)
(* again: this is the second round; cut: Gmail asked to stop.               *)
Idle ==
    [stage |-> "idle", todo |-> {}, seen |-> [t \in Threads |-> 0], queue |-> {},
     unstarred |-> FALSE, again |-> FALSE, cut |-> FALSE]

WatchTypeOK ==
    /\ mail \in Seq(Mail)
    /\ star \subseteq Posted
    /\ gone \subseteq Threads
    /\ inbox \in [Messages -> InboundEmailMessage]
    /\ watch \in [Threads -> GmailWatchedThread]
    /\ item \in [Messages -> GmailStarredWorkItem]
    /\ order \in [Orders -> OrderStatus]
    /\ promised \subseteq Orders
    /\ attempts \in [Orders -> 0 .. MaxAttempts + MaxMessages * MaxMails]
    /\ cooling \subseteq Messages
    /\ reply \in [Messages -> DraftStatus]
    /\ proof \in [Threads -> DraftStatus]
    /\ heard \in [Threads -> 0 .. MaxMessages]
    /\ mails \in [Messages -> 0 .. MaxMails]
    /\ lost \in [Messages -> 0 .. MaxMails]
    /\ pass \in [stage : {"idle", "backlog", "poll", "send", "discover", "recent"},
                 todo : SUBSET Threads, seen : [Threads -> 0 .. MaxMessages],
                 queue : SUBSET Messages,
                 unstarred : BOOLEAN, again : BOOLEAN, cut : BOOLEAN]

Init ==
    /\ mail = <<>> /\ star = {} /\ gone = {}
    /\ inbox = [m \in Messages |-> [known |-> FALSE, review |-> "unreviewed", label |-> FALSE]]
    /\ watch = [t \in Threads |-> [status |-> "none", star |-> FALSE, first |-> 0]]
    /\ item = [m \in Messages |-> [status |-> "none", bound |-> FALSE, reason |-> "none"]]
    /\ order = [o \in Orders |-> "sent"]
    /\ promised = {}
    /\ attempts = [o \in Orders |-> 0]
    /\ cooling = {}
    /\ reply = [m \in Messages |-> "none"]
    /\ proof = [t \in Threads |-> "none"]
    /\ heard = [t \in Threads |-> 0]
    /\ mails = [m \in Messages |-> 0] /\ lost = [m \in Messages |-> 0]
    /\ pass = Idle

-----------------------------------------------------------------------------
(* Around the pass: Uber, the owner of the mailbox, payments and the clock *)

Post(t, k) ==
    /\ t \notin gone
    /\ mail' = Append(mail, [thread |-> t, kind |-> k])
    /\ \E s \in Scripts : IsPrefix(mail', s)
    /\ cooling' = IF k = "waiting" THEN cooling \cup {Len(mail) + 1} ELSE cooling
    /\ UNCHANGED <<star, gone, rows, attempts, reply, proof, heard, mails, lost, pass>>

Star(m) ==
    /\ m \in Posted \ star /\ Thread(m) \notin gone /\ Kind(m) \in Starred
    /\ star' = star \cup {m}
    /\ UNCHANGED <<mail, gone, rows, sends, pass>>

DeleteThread(t) ==
    /\ In(t) # {} /\ t \notin gone
    /\ gone' = gone \cup {t} /\ star' = star \ In(t)
    /\ UNCHANGED <<mail, rows, sends, pass>>

ConfirmOfficialPayment(o) ==
    /\ order[o] # "payment_confirmed"
    /\ order' = [order EXCEPT ![o] = "payment_confirmed"]
    /\ UNCHANGED <<gmail, inbox, watch, item, promised, sends, pass>>

CooldownEnds(m) ==
    /\ m \in cooling
    /\ cooling' = cooling \ {m}
    /\ UNCHANGED <<gmail, rows, attempts, reply, proof, heard, mails, lost, pass>>

-----------------------------------------------------------------------------
(* What the code does to the rows of one message                           *)

Db == [inbox |-> inbox, watch |-> watch, item |-> item, order |-> order, promised |-> promised]

Save(r) ==
    /\ inbox' = r.inbox /\ watch' = r.watch /\ item' = r.item
    /\ order' = r.order /\ promised' = r.promised

(* create_inbound_message with record_linked_message, or the refresh of a    *)
(* stored message: a new star makes it unreviewed again.                    *)
Upserted(r, m) ==
    IF r.inbox[m].known
    THEN [r EXCEPT !.inbox[m].label = m \in star,
                   !.inbox[m].review = IF m \in star /\ ~r.inbox[m].label
                                       THEN "unreviewed" ELSE @]
    ELSE [inbox |-> [r.inbox EXCEPT ![m] = [known |-> TRUE, review |-> "unreviewed",
                                            label |-> m \in star]],
          watch |-> r.watch, item |-> r.item, promised |-> r.promised,
          order |-> [o \in Orders |->
                       IF o = Claim(m) /\ r.order[o] = "sent" THEN "response_received"
                       ELSE r.order[o]]]

(* Fault: a refused order takes no promise any more. *)
AppliesUnlessRefused(r, m) ==
    /\ Claim(m) # NoOrder
    /\ r.inbox[m].review = "unreviewed"
    /\ r.order[Claim(m)] \notin PROTECTED_ORDER_STATUSES \cup {"refused"}
    /\ Kind(m) \in DOMAIN REVIEW_STATUS_TRANSITIONS
    /\ Kind(m) = "promise" => Claim(m) \notin Contested

Applies(r, m) ==
    /\ Claim(m) # NoOrder
    /\ r.inbox[m].review = "unreviewed"
    /\ r.order[Claim(m)] \notin PROTECTED_ORDER_STATUSES
    /\ Kind(m) \in DOMAIN REVIEW_STATUS_TRANSITIONS
    /\ Kind(m) = "promise" => Claim(m) \notin Contested

(* analyze_message for a linked message. *)
Analyzed(r, m) ==
    IF Applies(r, m)
    THEN [r EXCEPT !.inbox[m].review = "reviewed",
                   !.order[Claim(m)] = REVIEW_STATUS_TRANSITIONS[Kind(m)],
                   !.promised = IF Kind(m) = "promise" THEN @ \cup {Claim(m)} ELSE @]
    ELSE IF /\ Claim(m) # NoOrder /\ r.inbox[m].review = "unreviewed"
            /\ r.order[Claim(m)] \in PROTECTED_ORDER_STATUSES
         THEN [r EXCEPT !.inbox[m].review = "ignored"]
         ELSE r

(* The monitor's analysis: the fast one when no order is known. *)
Classified(r, m) ==
    IF Claim(m) = NoOrder THEN [r EXCEPT !.inbox[m].review = "reviewed"] ELSE Analyzed(r, m)

(* analyze_linked_message also asks Gmail to remove this star. *)
OwnStar(r, m) ==
    IF Applies(r, m) /\ Kind(m) = "promise" /\ r.inbox[m].label /\ Thread(m) \notin gone
    THEN {m} ELSE {}

(* Fault: the text of the promise is enough. *)
AccountedByText(r, m) == Kind(m) = "promise" /\ Claim(m) # NoOrder

(* positive_accounting_block_reason is None. *)
Accounted(r, m) ==
    /\ Kind(m) = "promise" /\ Claim(m) # NoOrder
    /\ Claim(m) \notin Contested
    /\ r.order[Claim(m)] \in FOLLOWUP_TERMINAL_ORDER_STATUSES

(* Fault: the type of the review becomes the status of the item. *)
UpdatedByType(r, m) ==
    [r EXCEPT !.item[m] = [status |-> IF Kind(m) \in DOMAIN REVIEW_STATUS_TRANSITIONS
                                      THEN REVIEW_STATUS_TRANSITIONS[Kind(m)] ELSE "manual_review",
                           bound |-> TRUE, reason |-> "other"]]

(* update_work_item_status, but for the removal of the stars. *)
Updated(r, m) ==
    LET t == Thread(m)
        waiting == /\ Kind(m) = "waiting" /\ Claim(m) # NoOrder
                   /\ r.inbox[m].review = "unreviewed"
        became(i, w) == [r EXCEPT !.item[m] = [status |-> i, bound |-> TRUE,
                                               reason |-> IF waiting THEN "waiting" ELSE "other"],
                                  !.watch[t].status = w,
                                  !.watch[t].star = @ \/ r.inbox[m].label
                                                    \/ Kind(m) \in {"refusal", "evidence",
                                                                    "promise", "closed"}]
    IN  CASE Accounted(r, m)     -> became("positive", "positive")
          [] Kind(m) = "refusal" -> became("refused", "active")
          [] Kind(m) = "evidence" -> became("evidence_needed", "active")
          [] OTHER               -> became("manual_review", "manual_review")

(* remove_thread_star once Gmail agreed. *)
Unstarred(r, t) ==
    [r EXCEPT !.watch[t].star = FALSE,
              !.inbox = [m \in Messages |-> IF m \in In(t) THEN [@[m] EXCEPT !.label = FALSE]
                                            ELSE @[m]]]

(* starred_message_ids_for_thread. *)
StarredIds(r, t, remote) ==
    IF remote THEN star \cap In(t)
    ELSE ({r.watch[t].first} \ {0}) \cup {m \in In(t) : r.inbox[m].label}

(* remove_thread_star and then p: the one attempt of the pass may be spent,  *)
(* Gmail may refuse, and the pass may die before the rows are written.      *)
RemoveThreadStar(r, t, remote, left, p) ==
    LET ids == StarredIds(r, t, remote)
    IN  \/ /\ pass.unstarred
           /\ star' = left /\ Save(r) /\ pass' = p
        \/ /\ ~pass.unstarred
           /\ star' = left /\ Save(r) /\ pass' = [p EXCEPT !.unstarred = TRUE]
        \/ /\ ~pass.unstarred /\ t \notin gone /\ (remote \/ ids # {})
           /\ star' = left \ ids /\ Save(Unstarred(r, t))
           /\ pass' = [p EXCEPT !.unstarred = TRUE]
        \/ /\ ~pass.unstarred /\ ids \cap left # {}
           /\ star' = left \ ids /\ Save(r) /\ pass' = Idle

(* Classification and update of one message, and then p. *)
Read(r, m, remote, p) ==
    LET a == Classified(r, m)
        own == OwnStar(r, m)
        Rest(c, left) ==
            LET u == Updated(c, m)
            IN  IF u.item[m].status = "positive"
                THEN RemoveThreadStar(u, Thread(m), remote, left, p)
                ELSE star' = left /\ Save(u) /\ pass' = p
    IN  \/ Rest(a, star)
        \/ own # {} /\ Rest([a EXCEPT !.inbox[m].label = FALSE], star \ own)
        \/ own # {} /\ star' = star \ own /\ Save(a) /\ pass' = Idle

-----------------------------------------------------------------------------
(* The pass                                                                *)

Begin ==
    /\ pass.stage = "idle"
    /\ pass' = [Idle EXCEPT !.stage = "backlog"]
    /\ UNCHANGED <<gmail, rows, sends>>

(* process_pending_local_work_items, newest first. *)
Backlog ==
    {m \in Posted : /\ item[m].status = "pending" /\ item[m].bound
                    /\ watch[Thread(m)].status \in {"active", "manual_review"}
                    /\ watch[Thread(m)].star}

ProcessPendingLocal ==
    /\ pass.stage = "backlog" /\ Backlog # {}
    /\ Read(Db, Latest(Backlog), FALSE, pass)
    /\ UNCHANGED <<mail, gone, sends>>

ActiveThreads(r) ==
    {t \in Threads : r.watch[t].status \in {"active", "manual_review", "positive"} /\ r.watch[t].star}

ListActiveThreads ==
    /\ pass.stage = "backlog" /\ Backlog = {}
    /\ pass' = [pass EXCEPT !.stage = "poll", !.todo = ActiveThreads(Db)]
    /\ UNCHANGED <<gmail, rows, sends>>

Polled(t) == [pass EXCEPT !.todo = @ \ {t}]

(* block_unverified_positive_star_cleanup. *)
BlockPositiveCleanup(t) ==
    /\ pass.stage = "poll" /\ t \in pass.todo /\ watch[t].status = "positive"
    /\ LET positive == {m \in In(t) : item[m].status = "positive" /\ item[m].bound}
       IN  \E m \in positive :
             /\ ~Accounted(Db, m)
             /\ Save([Db EXCEPT !.item[m].status = "manual_review", !.item[m].reason = "other",
                                !.watch[t].status = "manual_review"])
    /\ pass' = Polled(t)
    /\ UNCHANGED <<gmail, sends>>

CleanPositive(t) ==
    /\ pass.stage = "poll" /\ t \in pass.todo /\ watch[t].status = "positive"
    /\ \E m \in In(t) : item[m].status = "positive" /\ item[m].bound /\ Accounted(Db, m)
    /\ RemoveThreadStar(Db, t, TRUE, star, Polled(t))
    /\ UNCHANGED <<mail, gone, sends>>

Actionable(t) ==
    \E m \in In(t) : /\ item[m].bound
                     /\ \/ item[m].status \in {"refused", "evidence_needed"}
                        \/ item[m].status = "manual_review" /\ Kind(m) = "waiting"

(* fetch_thread_payloads. *)
Payloads(t) ==
    IF Actionable(t) \/ Kind(Latest(In(t))) = "survey" THEN In(t) ELSE {Latest(In(t))}

(* select_payloads_for_processing. *)
Selected(S) ==
    IF OfKind(S, "promise") # {} THEN Latest(OfKind(S, "promise")) ELSE Latest(Substantive(S))

WithItem(r, m) ==
    [r EXCEPT !.item[m].bound = TRUE,
              !.item[m].status = IF @ = "none" THEN "pending" ELSE @]

(* Final items are read again only when their message became unreviewed. *)
ToProcess(r, m) ==
    \/ r.item[m].status \in {"none", "pending"}
    \/ /\ r.item[m].status \in {"manual_review", "skipped"}
       /\ \/ Claim(m) # NoOrder /\ r.inbox[m].review = "unreviewed"
          \/ inbox[m].known /\ r.inbox[m].label # inbox[m].label

PollThread(t) ==
    /\ pass.stage = "poll" /\ t \in pass.todo /\ t \notin gone
    /\ watch[t].status \in {"active", "manual_review"}
    /\ LET m == Selected(Payloads(t))
           p == [Polled(t) EXCEPT !.seen[t] = Latest(In(t))]
           r == Upserted(Db, m)
       IN  IF m = 0 \/ item[m].status \in SKIPPABLE_FINAL_WORK_ITEM_STATUSES
           THEN pass' = p /\ UNCHANGED <<star, rows>>
           ELSE IF ToProcess(r, m)
                THEN Read(WithItem(r, m), m, Cardinality(Payloads(t)) > 1, p)
                ELSE pass' = p /\ Save(WithItem(r, m)) /\ UNCHANGED star
    /\ UNCHANGED <<mail, gone, sends>>

(* close_missing_watched_thread. *)
CloseMissing(t) ==
    /\ pass.stage = "poll" /\ t \in pass.todo /\ t \in gone
    /\ watch[t].status \in {"active", "manual_review"}
    /\ watch' = [watch EXCEPT ![t].status = "closed", ![t].star = FALSE]
    /\ item' = [m \in Messages |->
                  IF m \in In(t) /\ item[m].status = "pending"
                  THEN [item[m] EXCEPT !.status = "skipped", !.reason = "other"] ELSE item[m]]
    /\ inbox' = [m \in Messages |-> IF m \in In(t) THEN [inbox[m] EXCEPT !.label = FALSE]
                                    ELSE inbox[m]]
    /\ pass' = Polled(t)
    /\ UNCHANGED <<gmail, order, promised, sends>>

PollFails(t) ==
    /\ pass.stage = "poll" /\ t \in pass.todo
    /\ watch[t].status \in {"active", "manual_review"}
    /\ watch' = [watch EXCEPT ![t].status = "manual_review"]
    /\ pass' = Polled(t)
    /\ UNCHANGED <<gmail, inbox, item, order, promised, sends>>

(* Gmail's quota is spent: the replies are still tried, nothing after them. *)
PollIsCut ==
    /\ pass.stage = "poll" /\ pass.todo # {}
    /\ pass' = [pass EXCEPT !.todo = {}, !.cut = TRUE]
    /\ UNCHANGED <<gmail, rows, sends>>

(* The query of send_pending_actionable_replies, over what this pass polled. *)
ReplyCandidates ==
    {m \in Posted :
       /\ item[m].bound /\ pass.seen[Thread(m)] # 0
       /\ watch[Thread(m)].status \in {"active", "manual_review"} /\ watch[Thread(m)].star
       /\ Claim(m) # NoOrder => order[Claim(m)] \notin FOLLOWUP_TERMINAL_ORDER_STATUSES
       /\ \/ item[m].status \in {"refused", "evidence_needed"}
          \/ /\ item[m].status = "manual_review"
             /\ \/ /\ Kind(m) = "waiting" /\ m \notin cooling
                   /\ item[m].reason \in SAFE_FOLLOWUP_WORK_ITEM_REASONS
                \/ Kind(m) = "evidence" /\ item[m].reason \in RECOVERABLE_PROOF_REPLY_REASONS}

(* mark_unsafe_reply_for_review. *)
Unsafe(r, S) ==
    [r EXCEPT !.item = [m \in Messages |->
                          IF m \in S THEN [@[m] EXCEPT !.status = "skipped", !.reason = "other"]
                          ELSE @[m]],
              !.watch = [t \in Threads |->
                          IF \E m \in S : Thread(m) = t
                          THEN [@[t] EXCEPT !.status = "manual_review"] ELSE @[t]]]

Superseded(m) == Latest({n \in In(Thread(m)) : inbox[n].known}) # m

SelectReplies ==
    /\ pass.stage = "poll" /\ pass.todo = {}
    /\ LET stale == {m \in ReplyCandidates : Superseded(m)}
           blocked == {m \in ReplyCandidates : item[m].reason \in RECOVERABLE_PROOF_REPLY_REASONS}
           r == [Db EXCEPT !.item = [m \in Messages |->
                                       IF m \in blocked
                                       THEN [@[m] EXCEPT !.status = "evidence_needed"] ELSE @[m]]]
       IN  /\ Save(Unsafe(r, stale))
           /\ pass' = [pass EXCEPT !.stage = "send", !.queue = ReplyCandidates \ stale]
    /\ UNCHANGED <<gmail, sends>>

(* Fault: the stored messages are asked instead of Gmail. *)
AnsweredLocally(t) == Latest({n \in In(t) : inbox[n].known})

(* latest_reply_block_reason looks behind a survey, in Gmail. *)
Answered(t) ==
    IF Kind(pass.seen[t]) # "survey" THEN pass.seen[t]
    ELSE IF t \in gone THEN 0 ELSE Latest(Substantive(In(t)))

Trying(m) == pass.stage = "send" /\ m \in pass.queue

Tried(m) ==
    [pass EXCEPT !.queue = @ \ {m},
                 !.seen[Thread(m)] = IF Answered(Thread(m)) = 0 THEN @ ELSE Answered(Thread(m))]

(* queue_latest_external_message_for_processing. *)
Queued(r, n) == WithItem(Upserted(r, n), n)

Draft(m) == IF Kind(m) = "evidence" THEN proof[Thread(m)] ELSE reply[m]

(* Fault: a request whose outcome is unknown is made again. *)
MayReplyAgain(m) == Claim(m) # NoOrder /\ Draft(m) # "sent"

MayReply(m) ==
    /\ Claim(m) # NoOrder
    /\ IF Kind(m) = "waiting"
       THEN attempts[Claim(m)] < MaxAttempts /\ Draft(m) # "send_requested"
       ELSE Draft(m) \notin {"sent", "send_requested"} /\ heard[Thread(m)] < m

Ready(m) ==
    /\ Trying(m) /\ Answered(Thread(m)) = m /\ Kind(m) # "closed" /\ MayReply(m)
    /\ mails[m] < MaxMails

(* Something else is Uber's latest word, or one of the mailbox's own drafts  *)
(* waits in the conversation.                                              *)
LeaveUnsafe(m) ==
    /\ Trying(m)
    /\ LET n == Answered(Thread(m))
       IN  \/ n = 0 /\ Save(Unsafe(Db, {m}))
           \/ n # 0 /\ Kind(n) = "closed" /\ Save(Unsafe(Db, {m}))
           \/ n \notin {0, m} /\ Kind(n) # "closed" /\ Save(Queued(Unsafe(Db, {m}), n))
           \/ /\ Ready(m) /\ Draft(m) # "provider_draft_created"
              /\ "failed" \in {reply[k] : k \in In(Thread(m))} \cup {proof[Thread(m)]}
              /\ Save(Unsafe(Db, {m}))
    /\ pass' = Tried(m)
    /\ UNCHANGED <<gmail, sends>>

(* The reply is not due, or its conversation has no order. *)
PassOver(m) ==
    /\ Trying(m) /\ Answered(Thread(m)) = m /\ Kind(m) # "closed" /\ ~MayReply(m)
    /\ item' = [item EXCEPT ![m].status = IF \/ Claim(m) = NoOrder
                                             \/ Kind(m) = "waiting" /\ attempts[Claim(m)] < MaxAttempts
                                          THEN "manual_review" ELSE "skipped",
                            ![m].reason = "other"]
    /\ pass' = Tried(m)
    /\ UNCHANGED <<gmail, inbox, watch, order, promised, sends>>

(* The order has no usable evidence file, and recovering one from the        *)
(* conversation fails too, or finds a newer message.                       *)
ProofIsMissing(m) ==
    /\ Ready(m) /\ Kind(m) = "evidence"
    /\ LET n == Latest(In(Thread(m)))
       IN  \/ n # m /\ Kind(n) = "survey" /\ Save(Unsafe(Db, {m}))
           \/ n # m /\ Kind(n) # "survey" /\ Save(Queued(Unsafe(Db, {m}), n))
           \/ n = m /\ \E why \in {"other"} \cup RECOVERABLE_PROOF_REPLY_REASONS :
                         Save([Db EXCEPT !.item[m].status = "manual_review", !.item[m].reason = why])
    /\ pass' = Tried(m)
    /\ UNCHANGED <<gmail, sends>>

SetDraft(m, s) ==
    IF Kind(m) = "evidence"
    THEN proof' = [proof EXCEPT ![Thread(m)] = s] /\ UNCHANGED reply
    ELSE reply' = [reply EXCEPT ![m] = s] /\ UNCHANGED proof

Mailed(m) == mails' = [mails EXCEPT ![m] = @ + 1]

(* send_provider_draft succeeded: the attempt is counted, the item ends, and *)
(* the round with it.                                                      *)
ReplySent(m) ==
    /\ Ready(m)
    /\ SetDraft(m, "sent") /\ Mailed(m)
    /\ heard' = [heard EXCEPT ![Thread(m)] = Len(mail)]
    /\ IF Kind(m) = "evidence" THEN UNCHANGED <<attempts, cooling>>
       ELSE /\ attempts' = [attempts EXCEPT ![Claim(m)] = @ + 1]
            /\ cooling' = cooling \cup OfKind({k \in Posted : Claim(k) = Claim(m)}, "waiting")
    /\ item' = [item EXCEPT ![m].status = IF Kind(m) = "waiting" THEN "manual_review" ELSE "processed",
                            ![m].reason = IF Kind(m) = "waiting" THEN "replied" ELSE "other"]
    /\ pass' = [Tried(m) EXCEPT !.queue = {}]
    /\ UNCHANGED <<gmail, inbox, watch, order, promised, lost>>

(* Gmail answered with an error; the mail may have left all the same. *)
ReplyFailed(m) ==
    /\ Ready(m)
    /\ SetDraft(m, "failed")
    /\ \/ Mailed(m) /\ lost' = [lost EXCEPT ![m] = @ + 1]
       \/ UNCHANGED <<mails, lost>>
    /\ item' = [item EXCEPT ![m].reason = "other"]
    /\ pass' = Tried(m)
    /\ UNCHANGED <<gmail, inbox, watch, order, promised, attempts, cooling, heard>>

(* Pacing or quota: the draft waits in Gmail. *)
ReplyDeferred(m) ==
    /\ Ready(m)
    /\ SetDraft(m, "provider_draft_created")
    /\ item' = [item EXCEPT ![m].reason = "other"]
    /\ \E cut \in BOOLEAN : pass' = [Tried(m) EXCEPT !.cut = @ \/ cut]
    /\ UNCHANGED <<gmail, inbox, watch, order, promised, attempts, cooling, heard, mails, lost>>

(* The pass dies while Gmail sends: the request is committed, no repair      *)
(* looks at it.                                                            *)
ReplyDies(m) ==
    /\ Ready(m)
    /\ SetDraft(m, "send_requested")
    /\ Mailed(m) \/ UNCHANGED mails
    /\ pass' = Idle
    /\ UNCHANGED <<gmail, rows, attempts, cooling, heard, lost>>

Recent == [Idle EXCEPT !.stage = "recent"]

(* Emergency stop, daily limit or pacing: the remaining replies wait. *)
StopReplies ==
    /\ pass.stage = "send"
    /\ pass' = IF pass.cut THEN Idle
               ELSE IF pass.again THEN Recent
               ELSE [Idle EXCEPT !.stage = "discover", !.unstarred = pass.unstarred]
    /\ UNCHANGED <<gmail, rows, sends>>

(* discover_from_starred_message_refs; the new work items get a second round. *)
Discovered ==
    LET refs(t) == star \cap In(t)
        stale(t, m) == /\ watch[t].status = "positive" /\ ~watch[t].star
                       /\ m = watch[t].first \/ item[m].status # "none"
    IN  [Db EXCEPT
           !.watch = [t \in Threads |->
              IF refs(t) = {} THEN @[t]
              ELSE [status |-> IF @[t].status = "none" THEN "active" ELSE @[t].status,
                    first |-> IF @[t].first = 0 THEN Latest(refs(t)) ELSE @[t].first,
                    star |-> @[t].star \/ \E m \in refs(t) : ~stale(t, m)]],
           !.item = [m \in Messages |->
              IF m \in star /\ @[m].status = "none" THEN [@[m] EXCEPT !.status = "pending"] ELSE @[m]]]

DiscoverStars ==
    /\ pass.stage = "discover"
    /\ Save(Discovered)
    /\ pass' = IF Discovered.item # item
               THEN [pass EXCEPT !.stage = "poll", !.again = TRUE, !.todo = ActiveThreads(Discovered)]
               ELSE Recent
    /\ UNCHANGED <<gmail, sends>>

DiscoveryFails ==
    /\ pass.stage = "discover"
    /\ \/ pass' = Idle
       \/ pass' = Recent
    /\ UNCHANGED <<gmail, rows, sends>>

-----------------------------------------------------------------------------
(* sync_account over the recent messages the mailbox does not hold         *)

Unseen == {m \in Posted : ~inbox[m].known /\ Thread(m) \notin gone}

(* Analysis without a work item, and then p. *)
AnalyzeLinked(r, m, p) ==
    LET a == Analyzed(r, m)
        own == OwnStar(r, m)
    IN  \/ star' = star /\ Save(a) /\ pass' = p
        \/ own # {} /\ star' = star \ own /\ Save([a EXCEPT !.inbox[m].label = FALSE]) /\ pass' = p
        \/ own # {} /\ star' = star \ own /\ Save(a) /\ pass' = Idle

ImportRecent ==
    /\ pass.stage = "recent" /\ Unseen # {}
    /\ LET m == Latest(Unseen)
       IN  AnalyzeLinked(Upserted(Db, m), m, [pass EXCEPT !.queue = @ \cup {m}])
    /\ UNCHANGED <<mail, gone, sends>>

(* The stored messages the two backlogs of sync_account look at again, once  *)
(* each here, after something was imported.                                *)
Again ==
    {m \in Posted \ pass.queue : inbox[m].known /\ (inbox[m].review = "unreviewed" \/ inbox[m].label)}

(* ensure_starred_linked_message_is_actionable. *)
MadeActionable(r, m) ==
    IF /\ r.inbox[m].label /\ Claim(m) # NoOrder
       /\ r.order[Claim(m)] \notin {"payment_confirmed", "refused", "response_received"}
    THEN [r EXCEPT !.order[Claim(m)] = "refused"] ELSE r

ReprocessBacklog ==
    /\ pass.stage = "recent" /\ Unseen = {}
    /\ \E m \in Again :
         LET r == IF inbox[m].label /\ Thread(m) \notin gone THEN Upserted(Db, m) ELSE Db
             a == Analyzed(r, m)
             own == OwnStar(r, m)
             p == [pass EXCEPT !.queue = @ \cup {m}]
         IN  /\ pass.queue # {}
             /\ \/ star' = star /\ Save(MadeActionable(a, m)) /\ pass' = p
                \/ /\ own # {} /\ star' = star \ own /\ pass' = p
                   /\ Save(MadeActionable([a EXCEPT !.inbox[m].label = FALSE], m))
    /\ UNCHANGED <<mail, gone, sends>>

EndPass ==
    /\ pass.stage = "recent" /\ Unseen = {} /\ (pass.queue = {} \/ Again = {})
    /\ pass' = Idle
    /\ UNCHANGED <<gmail, rows, sends>>

(* A listing or a message that cannot be read ends the import. *)
RecentFails ==
    /\ pass.stage = "recent"
    /\ pass' = Idle
    /\ UNCHANGED <<gmail, rows, sends>>

Environment ==
    \/ \E t \in Threads, k \in MessageKinds : Post(t, k)
    \/ \E m \in Posted : Star(m) \/ CooldownEnds(m)
    \/ \E t \in Threads : DeleteThread(t)
    \/ \E o \in Orders : ConfirmOfficialPayment(o)

Poll ==
    \E t \in Threads :
       BlockPositiveCleanup(t) \/ CleanPositive(t) \/ PollThread(t) \/ CloseMissing(t) \/ PollFails(t)

Replies ==
    \E m \in Posted :
       \/ LeaveUnsafe(m) \/ PassOver(m) \/ ProofIsMissing(m)
       \/ ReplySent(m) \/ ReplyFailed(m) \/ ReplyDeferred(m) \/ ReplyDies(m)

Next ==
    \/ Environment
    \/ Begin \/ ProcessPendingLocal \/ ListActiveThreads
    \/ Poll \/ PollIsCut \/ SelectReplies \/ Replies \/ StopReplies
    \/ DiscoverStars \/ DiscoveryFails
    \/ ImportRecent \/ ReprocessBacklog \/ EndPass \/ RecentFails

Spec == Init /\ [][Next]_vars

(* An import that is not disturbed ends, and a message that can be read is   *)
(* read when it is tried again and again.                                  *)
FairSpec ==
    /\ Spec
    /\ WF_vars(ReprocessBacklog \/ EndPass)
    /\ SF_vars(ImportRecent)

-----------------------------------------------------------------------------
(* Properties                                                              *)

(* The star, which keeps a conversation watched, is removed only once Uber   *)
(* promised a payment in that conversation and its order was marked for it: *)
(* remove_thread_star and remove_star_after_positive_signal never unstar on  *)
(* another answer, whatever died or failed before.                         *)
StarsFollowPromises ==
    [][\A m \in star \ star' :
          \/ Thread(m) \in gone'
          \/ \E n \in In(Thread(m)) :
                /\ Kind(n) = "promise" /\ Claim(n) # NoOrder
                /\ order'[Claim(n)] \in FOLLOWUP_TERMINAL_ORDER_STATUSES]_vars

(* A refusal or a request for evidence is answered once, however often the   *)
(* passes die, fail or read it again; a second answer needs a first one that *)
(* left although Gmail reported an error.                                  *)
RepeatsFollowLostAnswers ==
    \A m \in Posted : Kind(m) # "waiting" => mails[m] <= 1 + lost[m]

(* No reply leaves for a message after which the poll of this pass had seen  *)
(* anything but surveys from Uber.                                         *)
RepliesAnswerTheLatest ==
    [][\A m \in Posted : mails'[m] > mails[m] =>
          \A n \in In(Thread(m)) :
             m < n /\ n <= pass.seen[Thread(m)] => Kind(n) = "survey"]_vars

(* As long as passes reach the import of recent messages again and again, a  *)
(* promise Uber posts for an order that can take one ends up applied to it,  *)
(* in whichever order polls, backlogs and imports meet it.                  *)
PromisesAreRead ==
    []<>(pass.stage = "recent") =>
    \A m \in Messages, o \in Orders \ Contested :
       (m \in Posted /\ Kind(m) = "promise" /\ Claim(m) = o)
       ~> (\/ o \in promised
           \/ order[o] = "payment_confirmed"
           \/ m \in Posted /\ Thread(m) \in gone)

=============================================================================
