------------------------------ MODULE GmailSend ------------------------------
(***************************************************************************)
(* How TENNET sends a prepared Gmail draft.                                *)
(*                                                                         *)
(* A sender is one thread of the backend that runs the send protocol: the  *)
(* manual route POST .../provider-drafts/{id}/send or send_provider_draft  *)
(* of AutoPilot.  Senders share the email_provider_drafts table, one row   *)
(* lock per Gmail account, and Gmail itself.  The rules modelled:          *)
(*                                                                         *)
(*   - lock_and_validate_gmail_send takes the account row FOR UPDATE and   *)
(*     rechecks the draft, the emergency stop and the limits under it;     *)
(*   - a row lock lasts until the transaction ends, and every call to the  *)
(*     Gmail API commits first (access_token_for_external_call), so the    *)
(*     lock does not survive validate_remote_send_window when a daily      *)
(*     limit is configured;                                                *)
(*   - the same commit makes "send_requested" durable before drafts.send   *)
(*     is called, and the answer is recorded by a later transaction;       *)
(*   - a thread can die, or leave through an unexpected exception, between *)
(*     any two transactions; repair_followup_queue settles what it leaves. *)
(*                                                                         *)
(* One step is what happens between two commits, lock waits or Gmail       *)
(* answers.  What a recorded send does to the order and to the follow-up   *)
(* task is the subject of module ClaimFollowUps.                           *)
(*                                                                         *)
(* A definition whose comment begins with "Fault" is no part of the        *)
(* specification: it is a plausible error the README's runs must detect.   *)
(***************************************************************************)
EXTENDS Integers, FiniteSets

CONSTANTS
    Senders,        \* backend threads that can run the send protocol
    Drafts,         \* rows of email_provider_drafts (provider = "gmail")
    Accounts,       \* rows of email_accounts
    Orders,         \* claim orders
    NoSender,       \* "the account row is not locked"
    NoDraft,        \* "the sender has no draft in hand"
    AccountOf,      \* the mailbox of a draft
    OrderOf,        \* the claim order a draft is about
    ThreadOf,       \* the Gmail conversation a draft belongs to
    InitialClaims,  \* drafts whose EmailDraft.draft_type is "initial_claim"
    TaskDrafts,     \* drafts attached to an open follow-up task (1, 2, escalation)
    DailyLimit,     \* autopilot_per_gmail_account_daily_limit (0 disables it)
    Window,         \* the 24 hours of the daily limit, in ticks
    Slack           \* the 5 minutes of repair_followup_queue, in ticks

(* Fault: the division rounds down. *)
floored_gmail_send_interval == IF DailyLimit <= 0 THEN 0 ELSE Window \div DailyLimit

(* ceil(24h / limit): the pacing interval of an account. *)
minimum_gmail_send_interval ==
    IF DailyLimit <= 0 THEN 0 ELSE (Window + DailyLimit - 1) \div DailyLimit

ASSUME SendersAssumption == NoSender \notin Senders
ASSUME DraftsAssumption ==
    /\ NoDraft \notin Drafts
    /\ AccountOf \in [Drafts -> Accounts]
    /\ OrderOf \in [Drafts -> Orders]
    /\ InitialClaims \subseteq Drafts
    /\ TaskDrafts \subseteq Drafts
    /\ InitialClaims \cap TaskDrafts = {}
    /\ \A d \in Drafts, e \in Drafts : ThreadOf[d] = ThreadOf[e] => AccountOf[d] = AccountOf[e]
ASSUME LimitsAssumption ==
    /\ DailyLimit \in Nat
    /\ Window \in Nat \ {0}
    /\ Slack \in 0 .. Window

VARIABLES
    \* The database, as other transactions see it.
    status,     \* draft -> EmailProviderDraft.status, or "absent" before the row exists
    lastError,  \* draft -> what last_error / error_message says: none, quota or other
    stale,      \* draft -> send_requested for longer than stale_send_requested_minutes
    tooOld,     \* draft -> messages of its thread sent too long before its request
    connected,  \* accounts whose disconnected_at is null
    stopped,    \* the latest emergency_stop run has status "stopped"
    lock,       \* account -> the sender whose transaction holds its row lock
    \* Gmail.
    remote,     \* draft -> none, draft, sent or discarded
    age,        \* draft -> ticks since Gmail accepted it, up to Window
    \* The threads.
    pc,         \* sender -> where it is in the protocol
    job,        \* sender -> the draft in hand
    old,        \* sender -> old_status, read after the checks
    mode        \* sender -> the manual route or AutoPilot

db == <<status, lastError, stale, tooOld, connected, stopped>>
gmail == <<remote, age>>
threads == <<pc, job, old, mode>>
vars == <<status, lastError, stale, tooOld, connected, stopped, lock, remote, age, pc, job, old, mode>>

EmailProviderDraftStatus ==
    {"absent", "provider_draft_created", "send_requested", "sent", "failed"}

Control ==
    {"idle",        \* next: Begin
     "lock",        \* waits for the account row; next: LockAccount
     "validate",    \* holds the row; next: Validate or Reject
     "window",      \* valid; next: OpenRemoteWindow
     "query",       \* asks Gmail for its sent history; next: CheckRemoteWindow
     "request",     \* next: RequestSend or RequestFails
     "call",        \* drafts.send is on its way; next: GmailAccepts or GmailRefuses
     "accepted",    \* the answer was read; next: RecordSent
     "refused",     \* an EmailProviderError was raised; next: RecordFailed
     "quota"}       \* ... for a quota; next: RecordQuota

(* Past the commit of send_requested and before that of the outcome. *)
InFlight == {"call", "accepted", "refused", "quota"}

TypeOK ==
    /\ status \in [Drafts -> EmailProviderDraftStatus]
    /\ lastError \in [Drafts -> {"none", "quota", "other"}]
    /\ stale \in [Drafts -> BOOLEAN]
    /\ tooOld \in [Drafts -> SUBSET Drafts]
    /\ connected \subseteq Accounts
    /\ stopped \in BOOLEAN
    /\ lock \in [Accounts -> Senders \cup {NoSender}]
    /\ remote \in [Drafts -> {"none", "draft", "sent", "discarded"}]
    /\ age \in [Drafts -> 0 .. Window]
    /\ pc \in [Senders -> Control]
    /\ job \in [Senders -> Drafts \cup {NoDraft}]
    /\ old \in [Senders -> EmailProviderDraftStatus]
    /\ mode \in [Senders -> {"manual", "autopilot"}]

Init ==
    /\ status = [d \in Drafts |-> "absent"]
    /\ lastError = [d \in Drafts |-> "none"]
    /\ stale = [d \in Drafts |-> FALSE]
    /\ tooOld = [d \in Drafts |-> {}]
    /\ connected = Accounts
    /\ stopped = FALSE
    /\ lock = [a \in Accounts |-> NoSender]
    /\ remote = [d \in Drafts |-> "none"]
    /\ age = [d \in Drafts |-> 0]
    /\ pc = [s \in Senders |-> "idle"]
    /\ job = [s \in Senders |-> NoDraft]
    /\ old = [s \in Senders |-> "absent"]
    /\ mode = [s \in Senders |-> "manual"]

(***************************************************************************)
(* What the checks read                                                    *)
(***************************************************************************)

(* Rows of the account recorded as sent less than n ticks ago. *)
RecordedSince(a, n) ==
    {d \in Drafts : AccountOf[d] = a /\ status[d] = "sent" /\ age[d] < n}

(* Messages in Gmail's own sent folder less than n ticks old. *)
DeliveredSince(a, n) ==
    {d \in Drafts : AccountOf[d] = a /\ remote[d] = "sent" /\ age[d] < n}

(* The daily limit and the pacing interval, over the local rows. *)
AccountLimitsAllow(d) ==
    DailyLimit > 0 =>
        /\ Cardinality(RecordedSince(AccountOf[d], Window)) < DailyLimit
        /\ RecordedSince(AccountOf[d], minimum_gmail_send_interval) \ {d} = {}

OtherInitialClaimSent(d) ==
    \E e \in InitialClaims \ {d} : OrderOf[e] = OrderOf[d] /\ status[e] = "sent"

(* Fault: the row is not refreshed and its status not rechecked. *)
SendAllowedUnrefreshed(d) == AccountOf[d] \in connected /\ ~stopped /\ AccountLimitsAllow(d)

(* Fault: the emergency stop is only looked at before the lock. *)
SendAllowedWhileStopped(d) ==
    /\ AccountOf[d] \in connected
    /\ status[d] = "provider_draft_created"
    /\ AccountLimitsAllow(d)

(* Fault: another initial claim of the order is not looked for. *)
SendAllowedTwice(d) ==
    /\ AccountOf[d] \in connected
    /\ status[d] = "provider_draft_created"
    /\ ~stopped
    /\ AccountLimitsAllow(d)

SendAllowed(d) ==
    /\ AccountOf[d] \in connected
    /\ status[d] = "provider_draft_created"
    /\ ~stopped
    /\ AccountLimitsAllow(d)
    /\ d \in InitialClaims => ~OtherInitialClaimSent(d)

RemoteWindowAllows(a) ==
    /\ Cardinality(DeliveredSince(a, Window)) < DailyLimit
    /\ DeliveredSince(a, minimum_gmail_send_interval) = {}

(* Messages of the conversation that left more than 5 minutes ago. *)
TooOldFor(d) ==
    {e \in Drafts : remote[e] = "sent" /\ ThreadOf[e] = ThreadOf[d] /\ age[e] > Slack}

Unlocked(s) == [a \in Accounts |-> IF lock[a] = s THEN NoSender ELSE lock[a]]

Goto(s, l) == pc' = [pc EXCEPT ![s] = l]

(* The transaction ends, its row lock with it, and the thread is free. *)
Leave(s) ==
    /\ Goto(s, "idle")
    /\ job' = [job EXCEPT ![s] = NoDraft]
    /\ old' = [old EXCEPT ![s] = "absent"]
    /\ mode' = [mode EXCEPT ![s] = "manual"]
    /\ lock' = Unlocked(s)

(***************************************************************************)
(* Draft creation                                                          *)
(***************************************************************************)

(* drafts.create succeeded: the row carries the Gmail draft id. *)
CreateDraft(d) ==
    /\ status[d] = "absent"
    /\ AccountOf[d] \in connected
    /\ status' = [status EXCEPT ![d] = "provider_draft_created"]
    /\ remote' = [remote EXCEPT ![d] = "draft"]
    /\ UNCHANGED <<lastError, stale, tooOld, connected, stopped, lock, age, threads>>

(* drafts.create failed: a failed row without a Gmail draft id is kept. *)
CreateDraftFails(d) ==
    /\ status[d] = "absent"
    /\ AccountOf[d] \in connected
    /\ status' = [status EXCEPT ![d] = "failed"]
    /\ \E e \in {"quota", "other"} : lastError' = [lastError EXCEPT ![d] = e]
    /\ UNCHANGED <<stale, tooOld, connected, stopped, lock, gmail, threads>>

(***************************************************************************)
(* The send protocol                                                       *)
(***************************************************************************)

(* The checks both paths make before the lock, on rows read without it.    *)
(* AutoPilot checks the account limits too, and never prepares an initial  *)
(* claim for an order one was already sent for.                            *)
Begin(s, d, m) ==
    /\ pc[s] = "idle"
    /\ status[d] = "provider_draft_created"
    /\ AccountOf[d] \in connected
    /\ m = "autopilot" =>
        /\ AccountLimitsAllow(d)
        /\ d \in InitialClaims =>
            \A e \in Drafts : OrderOf[e] = OrderOf[d] => status[e] # "sent"
    /\ Goto(s, "lock")
    /\ job' = [job EXCEPT ![s] = d]
    /\ mode' = [mode EXCEPT ![s] = m]
    /\ UNCHANGED <<db, lock, gmail, old>>

LockAccount(s) ==
    /\ pc[s] = "lock"
    /\ lock[AccountOf[job[s]]] = NoSender
    /\ lock' = [lock EXCEPT ![AccountOf[job[s]]] = s]
    /\ Goto(s, "validate")
    /\ UNCHANGED <<db, gmail, job, old, mode>>

Validate(s) ==
    /\ pc[s] = "validate"
    /\ SendAllowed(job[s])
    /\ Goto(s, "window")
    /\ UNCHANGED <<db, lock, gmail, job, old, mode>>

(* GmailSendSafetyError: the route answers 409, AutoPilot skips. *)
Reject(s) ==
    /\ pc[s] = "validate"
    /\ ~SendAllowed(job[s])
    /\ Leave(s)
    /\ UNCHANGED <<db, gmail>>

(* validate_remote_send_window returns at once without a daily limit; with *)
(* one, the token of its first Gmail call commits and frees the account.   *)
OpenRemoteWindow(s) ==
    /\ pc[s] = "window"
    /\ IF DailyLimit = 0
       THEN Goto(s, "request") /\ UNCHANGED lock
       ELSE Goto(s, "query") /\ lock' = Unlocked(s)
    /\ UNCHANGED <<db, gmail, job, old, mode>>

(* Gmail's sent history allows the send, or it does not or is unavailable. *)
CheckRemoteWindow(s) ==
    /\ pc[s] = "query"
    /\ \/ /\ RemoteWindowAllows(AccountOf[job[s]])
          /\ Goto(s, "request")
          /\ UNCHANGED <<lock, job, old, mode>>
       \/ Leave(s)
    /\ UNCHANGED <<db, gmail>>

(* "send_requested" is flushed, then committed by the token of drafts.send. *)
RequestSend(s) ==
    LET d == job[s] IN
    /\ pc[s] = "request"
    /\ status' = [status EXCEPT ![d] = "send_requested"]
    /\ stale' = [stale EXCEPT ![d] = FALSE]
    /\ tooOld' = [tooOld EXCEPT ![d] = TooOldFor(d)]
    /\ old' = [old EXCEPT ![s] = status[d]]
    /\ lock' = Unlocked(s)
    /\ Goto(s, "call")
    /\ UNCHANGED <<lastError, connected, stopped, gmail, job, mode>>

(* No usable account or token: an EmailProviderError before the call. *)
RequestFails(s) ==
    LET d == job[s] IN
    /\ pc[s] = "request"
    /\ status' = [status EXCEPT ![d] = "failed"]
    /\ lastError' = [lastError EXCEPT ![d] = "other"]
    /\ Leave(s)
    /\ UNCHANGED <<stale, tooOld, connected, stopped, gmail>>

(* Gmail sends the draft and consumes it.  The answer may be lost, which   *)
(* read_json_response turns into an EmailProviderError.                    *)
GmailAccepts(s) ==
    LET d == job[s] IN
    /\ pc[s] = "call"
    /\ remote[d] = "draft"
    /\ remote' = [remote EXCEPT ![d] = "sent"]
    /\ age' = [age EXCEPT ![d] = 0]
    /\ \E answer \in {"accepted", "refused"} : Goto(s, answer)
    /\ UNCHANGED <<db, lock, job, old, mode>>

(* Gmail does not send: a quota, an error, or no such draft any more. *)
GmailRefuses(s) ==
    /\ pc[s] = "call"
    /\ \E answer \in {"refused", "quota"} : Goto(s, answer)
    /\ UNCHANGED <<db, lock, gmail, job, old, mode>>

RecordSent(s) ==
    LET d == job[s] IN
    /\ pc[s] = "accepted"
    /\ status' = [status EXCEPT ![d] = "sent"]
    /\ lastError' = [lastError EXCEPT ![d] = "none"]
    /\ Leave(s)
    /\ UNCHANGED <<stale, tooOld, connected, stopped, gmail>>

RecordFailed(s) ==
    LET d == job[s] IN
    /\ pc[s] = "refused"
    /\ status' = [status EXCEPT ![d] = "failed"]
    /\ lastError' = [lastError EXCEPT ![d] = "other"]
    /\ Leave(s)
    /\ UNCHANGED <<stale, tooOld, connected, stopped, gmail>>

(* The route fails the draft; AutoPilot restores the status it had found,  *)
(* unless the answer names a retry time that has already passed.           *)
RecordQuota(s) ==
    LET d == job[s] IN
    /\ pc[s] = "quota"
    /\ \E outcome \in {"failed"} \cup (IF mode[s] = "autopilot" THEN {old[s]} ELSE {}) :
           status' = [status EXCEPT ![d] = outcome]
    /\ lastError' = [lastError EXCEPT ![d] = "quota"]
    /\ Leave(s)
    /\ UNCHANGED <<stale, tooOld, connected, stopped, gmail>>

(* The process dies, or an exception no handler expects ends the work: the *)
(* open transaction is rolled back, what was committed stays.              *)
Crash(s) ==
    /\ pc[s] # "idle"
    /\ Leave(s)
    /\ UNCHANGED <<db, gmail>>

(***************************************************************************)
(* repair_followup_queue                                                   *)
(***************************************************************************)

(* Fault: a stale age so short that the call can still be in flight. *)
GoStaleInFlight(d) ==
    /\ status[d] = "send_requested"
    /\ stale' = [stale EXCEPT ![d] = TRUE]
    /\ UNCHANGED <<status, lastError, tooOld, connected, stopped, lock, gmail, threads>>

(* The 15 minutes have passed; a call to Gmail lasts 20 seconds at most.   *)
GoStale(d) ==
    /\ status[d] = "send_requested"
    /\ ~stale[d]
    /\ \A s \in Senders : ~(pc[s] \in InFlight /\ job[s] = d)
    /\ stale' = [stale EXCEPT ![d] = TRUE]
    /\ UNCHANGED <<status, lastError, tooOld, connected, stopped, lock, gmail, threads>>

(* Fault: any recent message of the mailbox is taken for the draft. *)
RemoteMatchesInMailbox(d) ==
    {e \in Drafts : remote[e] = "sent" /\ AccountOf[e] = AccountOf[d]} \ tooOld[d]

(* The sent messages taken for d: its conversation, and recent enough. *)
RemoteMatches(d) ==
    {e \in Drafts : remote[e] = "sent" /\ ThreadOf[e] = ThreadOf[d]} \ tooOld[d]

Repairable(d) ==
    /\ d \in TaskDrafts
    /\ status[d] = "send_requested"
    /\ stale[d]
    /\ AccountOf[d] \in connected

(* Fault: a draft Gmail no longer has is taken for a sent one. *)
ConfirmMissingDraft(d) ==
    /\ Repairable(d)
    /\ remote[d] # "draft"
    /\ status' = [status EXCEPT ![d] = "sent"]
    /\ UNCHANGED <<lastError, stale, tooOld, connected, stopped, lock, gmail, threads>>

(* A matching message is in the sent folder: the draft was sent. *)
ConfirmRemoteSend(d) ==
    /\ Repairable(d)
    /\ RemoteMatches(d) # {}
    /\ status' = [status EXCEPT ![d] = "sent"]
    /\ UNCHANGED <<lastError, stale, tooOld, connected, stopped, lock, gmail, threads>>

(* Fault: a stale request is queued again without asking Gmail. *)
RequeueBlindly(d) ==
    /\ Repairable(d)
    /\ status' = [status EXCEPT ![d] = "provider_draft_created"]
    /\ UNCHANGED <<lastError, stale, tooOld, connected, stopped, lock, gmail, threads>>

(* None, and Gmail still has the draft: it goes back to the queue. *)
RequeueRemoteDraft(d) ==
    /\ Repairable(d)
    /\ RemoteMatches(d) = {}
    /\ remote[d] = "draft"
    /\ status' = [status EXCEPT ![d] = "provider_draft_created"]
    /\ UNCHANGED <<lastError, stale, tooOld, connected, stopped, lock, gmail, threads>>

(* Fault: any failure is queued again. *)
RequeueAnyFailure(d) ==
    /\ d \in TaskDrafts
    /\ status[d] = "failed"
    /\ remote[d] # "none"
    /\ status' = [status EXCEPT ![d] = "provider_draft_created"]
    /\ UNCHANGED <<lastError, stale, tooOld, connected, stopped, lock, gmail, threads>>

(* A failure that was a quota, on a draft Gmail has: back to the queue. *)
RequeueQuotaDraft(d) ==
    /\ d \in TaskDrafts
    /\ status[d] = "failed"
    /\ lastError[d] = "quota"
    /\ remote[d] # "none"
    /\ status' = [status EXCEPT ![d] = "provider_draft_created"]
    /\ UNCHANGED <<lastError, stale, tooOld, connected, stopped, lock, gmail, threads>>

(***************************************************************************)
(* The owner, the mailbox and time                                         *)
(***************************************************************************)

EmergencyStop ==
    /\ stopped' = TRUE
    /\ UNCHANGED <<status, lastError, stale, tooOld, connected, lock, gmail, threads>>

EmergencyResume ==
    /\ stopped
    /\ stopped' = FALSE
    /\ UNCHANGED <<status, lastError, stale, tooOld, connected, lock, gmail, threads>>

(* The UPDATE of the account row waits for whoever holds its lock. *)
Disconnect(a) ==
    /\ a \in connected
    /\ lock[a] = NoSender
    /\ connected' = connected \ {a}
    /\ UNCHANGED <<status, lastError, stale, tooOld, stopped, lock, gmail, threads>>

Reconnect(a) ==
    /\ a \notin connected
    /\ lock[a] = NoSender
    /\ connected' = connected \cup {a}
    /\ UNCHANGED <<status, lastError, stale, tooOld, stopped, lock, gmail, threads>>

(* Someone deletes the draft in the mailbox itself. *)
DiscardRemoteDraft(d) ==
    /\ remote[d] = "draft"
    /\ remote' = [remote EXCEPT ![d] = "discarded"]
    /\ UNCHANGED <<db, lock, age, threads>>

(* Fault: a message never leaves the window. *)
TickForever ==
    /\ \E d \in Drafts : remote[d] = "sent"
    /\ age' = [d \in Drafts |-> IF remote[d] = "sent" THEN age[d] + 1 ELSE age[d]]
    /\ UNCHANGED <<db, lock, remote, threads>>

Tick ==
    /\ \E d \in Drafts : remote[d] = "sent" /\ age[d] < Window
    /\ age' = [d \in Drafts |->
                  IF remote[d] = "sent" /\ age[d] < Window THEN age[d] + 1 ELSE age[d]]
    /\ UNCHANGED <<db, lock, remote, threads>>

(***************************************************************************)
(* The specification                                                       *)
(***************************************************************************)

Protocol(s) ==
    \/ LockAccount(s) \/ Validate(s) \/ Reject(s)
    \/ OpenRemoteWindow(s) \/ CheckRemoteWindow(s)
    \/ RequestSend(s) \/ RequestFails(s)
    \/ GmailAccepts(s) \/ GmailRefuses(s)
    \/ RecordSent(s) \/ RecordFailed(s) \/ RecordQuota(s)

(* Fault: a request Gmail did not receive is left as it is. *)
RepairConfirmOnly(d) == ConfirmRemoteSend(d) \/ RequeueQuotaDraft(d)

Repair(d) == ConfirmRemoteSend(d) \/ RequeueRemoteDraft(d) \/ RequeueQuotaDraft(d)

Next ==
    \/ \E d \in Drafts : CreateDraft(d) \/ CreateDraftFails(d)
    \/ \E s \in Senders, d \in Drafts, m \in {"manual", "autopilot"} : Begin(s, d, m)
    \/ \E s \in Senders : Protocol(s) \/ Crash(s)
    \/ \E d \in Drafts : GoStale(d) \/ Repair(d) \/ DiscardRemoteDraft(d)
    \/ EmergencyStop \/ EmergencyResume
    \/ \E a \in Accounts : Disconnect(a) \/ Reconnect(a)
    \/ Tick

Spec == Init /\ [][Next]_vars

(* Threads that do not die keep going, Gmail answers or times out, and the *)
(* worker loop comes back to the follow-up queue.                          *)
Fairness ==
    /\ \A s \in Senders : WF_vars(Protocol(s))
    /\ \A d \in Drafts : WF_vars(GoStale(d)) /\ WF_vars(Repair(d))

FairSpec == Spec /\ Fairness

(***************************************************************************)
(* Properties                                                              *)
(***************************************************************************)

(* At most one thread at a time is between the commit of send_requested    *)
(* and the record of Gmail's answer for a draft: lock_and_validate_gmail_  *)
(* send rechecks the status under the account lock.                        *)
OneSenderPerDraft ==
    \A s \in Senders, t \in Senders :
        pc[s] \in InFlight /\ pc[t] \in InFlight /\ job[s] = job[t] => s = t

(* The protocol implements the outbox: a draft leaves at most once, is     *)
(* called sent only once it left, and is requeued only if it did not.      *)
Outbox == INSTANCE SendOutbox WITH
    phase <- status,
    delivered <- {d \in Drafts : remote[d] = "sent"}
OutboxSpec == Outbox!Spec

(* A draft the queue offers for sending is not one Gmail already sent,     *)
(* whatever crashed, was retried or was repaired in between.               *)
ReadyMeansUndelivered ==
    \A d \in Drafts : status[d] = "provider_draft_created" => remote[d] # "sent"

(* What the database calls sent left the mailbox: neither the protocol nor *)
(* the repair records a send Gmail never made.                             *)
SentMeansDelivered ==
    \A d \in Drafts : status[d] = "sent" => remote[d] = "sent"

(* While the emergency stop is active no send passes the checks under the  *)
(* lock: only those already past them can still reach Gmail.               *)
PastChecks == {s \in Senders : pc[s] \in {"window", "query", "request"} \cup InFlight}
StopAdmitsNoSend == [][stopped /\ stopped' => PastChecks' \subseteq PastChecks]_vars

(* Two messages of one mailbox leave so far apart that DailyLimit of them  *)
(* take 24 hours, even when a crash kept one of them out of the database.  *)
PacedDeliveries ==
    \A d \in Drafts : \A e \in Drafts \ {d} :
        /\ AccountOf[d] = AccountOf[e]
        /\ remote[d] = "sent" /\ remote[e] = "sent"
        /\ age[e] <= age[d] /\ age[d] < Window
        => (age[d] - age[e]) * DailyLimit >= Window

(* With one thread, no two initial claims of an order are recorded as sent: *)
(* a second one can leave only when the answer about the first was lost,   *)
(* and is itself looked at under the lock with what is recorded by then.   *)
SecondClaimsFollowLostAnswers ==
    \A d \in InitialClaims : \A e \in InitialClaims \ {d} :
        OrderOf[d] = OrderOf[e] => ~(status[d] = "sent" /\ status[e] = "sent")

(* A follow-up left in send_requested by a thread that died is settled by  *)
(* the repair, unless its mailbox is disconnected or its draft was deleted *)
(* in Gmail before it was sent.                                            *)
RequestsSettle ==
    \A d \in TaskDrafts :
        status[d] = "send_requested" ~>
            \/ status[d] # "send_requested"
            \/ remote[d] = "discarded"
            \/ AccountOf[d] \notin connected
==============================================================================
