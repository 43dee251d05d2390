--------------------------- MODULE GmailSendProofs ---------------------------
(***************************************************************************)
(* Proofs about GmailSend, for any number of senders, drafts and mailboxes. *)
(***************************************************************************)
EXTENDS GmailSend, TLAPS

(***************************************************************************)
(* Type correctness                                                        *)
(***************************************************************************)

(* A thread that is in the protocol has a draft in hand. *)
JobHeld == \A s \in Senders : pc[s] # "idle" => job[s] \in Drafts

(* One step of the protocol of one sender keeps every variable in its type. *)
LEMMA ProtocolType ==
    ASSUME TypeOK, JobHeld, NEW s \in Senders, Protocol(s)
    PROVE  TypeOK'
<1> USE DEF TypeOK, db, gmail, threads, Goto, Leave, Unlocked, Control,
            EmailProviderDraftStatus
<1>1. CASE LockAccount(s)
  BY <1>1 DEF LockAccount
<1>2. CASE Validate(s)
  BY <1>2 DEF Validate
<1>3. CASE Reject(s)
  BY <1>3 DEF Reject
<1>4. CASE OpenRemoteWindow(s)
  BY <1>4 DEF OpenRemoteWindow
<1>5. CASE CheckRemoteWindow(s)
  BY <1>5 DEF CheckRemoteWindow
<1>6. CASE RequestSend(s)
  <2>1. TooOldFor(job[s]) \in SUBSET Drafts
    BY DEF TooOldFor
  <2>2. tooOld' \in [Drafts -> SUBSET Drafts]
    BY <1>6, <2>1 DEF RequestSend
  <2>3. old' \in [Senders -> EmailProviderDraftStatus]
    BY <1>6 DEF RequestSend, JobHeld
  <2> QED BY <1>6, <2>2, <2>3 DEF RequestSend
<1>7. CASE RequestFails(s)
  BY <1>7 DEF RequestFails
<1>8. CASE GmailAccepts(s)
  <2>0. 0 \in 0 .. Window
    BY LimitsAssumption
  <2>1. age' \in [Drafts -> 0 .. Window]
    BY <1>8, <2>0 DEF GmailAccepts
  <2>2. pc' \in [Senders -> Control]
    BY <1>8 DEF GmailAccepts
  <2> QED BY <1>8, <2>1, <2>2 DEF GmailAccepts
<1>9. CASE GmailRefuses(s)
  BY <1>9 DEF GmailRefuses
<1>10. CASE RecordSent(s)
  BY <1>10 DEF RecordSent
<1>11. CASE RecordFailed(s)
  BY <1>11 DEF RecordFailed
<1>12. CASE RecordQuota(s)
  <2>1. PICK outcome \in {"failed"} \cup (IF mode[s] = "autopilot" THEN {old[s]} ELSE {}) :
          status' = [status EXCEPT ![job[s]] = outcome]
    BY <1>12 DEF RecordQuota
  <2>2. outcome \in EmailProviderDraftStatus
    OBVIOUS
  <2>3. status' \in [Drafts -> EmailProviderDraftStatus]
    BY <2>1, <2>2
  <2> QED BY <1>12, <2>3 DEF RecordQuota
<1> QED
  BY <1>1, <1>2, <1>3, <1>4, <1>5, <1>6, <1>7, <1>8, <1>9, <1>10, <1>11, <1>12
  DEF Protocol

(* So does every step of the repair, of the owner, of the mailbox and of time. *)
LEMMA SurroundingsType ==
    ASSUME TypeOK, JobHeld,
           \/ \E d \in Drafts : CreateDraft(d) \/ CreateDraftFails(d)
           \/ \E s \in Senders, d \in Drafts, m \in {"manual", "autopilot"} : Begin(s, d, m)
           \/ \E s \in Senders : Crash(s)
           \/ \E d \in Drafts : GoStale(d) \/ Repair(d) \/ DiscardRemoteDraft(d)
           \/ EmergencyStop \/ EmergencyResume
           \/ \E a \in Accounts : Disconnect(a) \/ Reconnect(a)
           \/ Tick
    PROVE  TypeOK'
<1> USE DEF TypeOK, db, gmail, threads, EmailProviderDraftStatus
<1>1. ASSUME NEW d \in Drafts, CreateDraft(d) PROVE TypeOK'
  BY <1>1 DEF CreateDraft
<1>2. ASSUME NEW d \in Drafts, CreateDraftFails(d) PROVE TypeOK'
  BY <1>2 DEF CreateDraftFails
<1>3. ASSUME NEW s \in Senders, NEW d \in Drafts, NEW m \in {"manual", "autopilot"}, Begin(s, d, m)
      PROVE TypeOK'
  BY <1>3 DEF Begin, Goto, Control
<1>4. ASSUME NEW s \in Senders, Crash(s) PROVE TypeOK'
  BY <1>4 DEF Crash, Leave, Goto, Unlocked, Control
<1>5. ASSUME NEW d \in Drafts, GoStale(d) PROVE TypeOK'
  BY <1>5 DEF GoStale
<1>6. ASSUME NEW d \in Drafts, Repair(d) PROVE TypeOK'
  BY <1>6 DEF Repair, ConfirmRemoteSend, RequeueRemoteDraft, RequeueQuotaDraft
<1>7. ASSUME NEW d \in Drafts, DiscardRemoteDraft(d) PROVE TypeOK'
  BY <1>7 DEF DiscardRemoteDraft
<1>8. CASE EmergencyStop \/ EmergencyResume
  BY <1>8 DEF EmergencyStop, EmergencyResume
<1>9. ASSUME NEW a \in Accounts, Disconnect(a) \/ Reconnect(a) PROVE TypeOK'
  BY <1>9 DEF Disconnect, Reconnect
<1>10. CASE Tick
  <2>1. age' \in [Drafts -> 0 .. Window]
    BY <1>10, LimitsAssumption DEF Tick
  <2> QED BY <1>10, <2>1 DEF Tick
<1> QED
  BY <1>1, <1>2, <1>3, <1>4, <1>5, <1>6, <1>7, <1>8, <1>9, <1>10

(* A thread keeps its draft until it leaves the protocol. *)
LEMMA JobHeldStep ==
    ASSUME TypeOK, JobHeld, Next
    PROVE  JobHeld'
<1> USE DEF TypeOK, JobHeld, db, gmail, threads, Goto, Leave
<1>1. ASSUME NEW s \in Senders, Protocol(s) PROVE JobHeld'
  BY <1>1 DEF Protocol, LockAccount, Validate, Reject, OpenRemoteWindow, CheckRemoteWindow,
     RequestSend, RequestFails, GmailAccepts, GmailRefuses, RecordSent, RecordFailed, RecordQuota
<1>2. ASSUME NEW s \in Senders, NEW d \in Drafts, NEW m \in {"manual", "autopilot"}, Begin(s, d, m)
      PROVE JobHeld'
  BY <1>2 DEF Begin
<1>3. ASSUME NEW s \in Senders, Crash(s) PROVE JobHeld'
  BY <1>3 DEF Crash
<1>4. ASSUME UNCHANGED threads PROVE JobHeld'
  BY <1>4
<1> QED
  BY <1>1, <1>2, <1>3, <1>4 DEF Next, CreateDraft, CreateDraftFails, GoStale, Repair,
     ConfirmRemoteSend, RequeueRemoteDraft, RequeueQuotaDraft, DiscardRemoteDraft,
     EmergencyStop, EmergencyResume, Disconnect, Reconnect, Tick

(* The state stays well typed, and a thread in the protocol has a draft.    *)
THEOREM TypeInvariant == Spec => [](TypeOK /\ JobHeld)
<1>1. Init => TypeOK /\ JobHeld
  <2> SUFFICES ASSUME Init PROVE TypeOK /\ JobHeld
    OBVIOUS
  <2>1. 0 \in 0 .. Window
    BY LimitsAssumption
  <2>2. age \in [Drafts -> 0 .. Window]
    BY <2>1 DEF Init
  <2> QED BY <2>2 DEF Init, TypeOK, JobHeld, EmailProviderDraftStatus, Control
<1>2. TypeOK /\ JobHeld /\ [Next]_vars => (TypeOK /\ JobHeld)'
  <2> SUFFICES ASSUME TypeOK, JobHeld, [Next]_vars PROVE (TypeOK /\ JobHeld)'
    OBVIOUS
  <2>1. CASE Next
    BY <2>1, ProtocolType, SurroundingsType, JobHeldStep DEF Next
  <2>2. CASE UNCHANGED vars
    BY <2>2 DEF vars, TypeOK, JobHeld
  <2> QED BY <2>1, <2>2
<1> QED BY <1>1, <1>2, PTL DEF Spec

(***************************************************************************)
(* Safety                                                                  *)
(*                                                                         *)
(* Between the checks and the commit of send_requested a thread must be    *)
(* alone with its draft.  Without a daily limit the account lock sees to   *)
(* it, for any number of threads; with one the lock is freed in between,   *)
(* and only a single thread is safe (TLC shows what two of them do).       *)
(***************************************************************************)

OneThread == \A s \in Senders, t \in Senders : s = t

Exclusive == DailyLimit = 0 \/ OneThread

(* Past the checks under the lock, before the commit of send_requested. *)
Checked == {"window", "query", "request"}

(* Without a daily limit, that thread holds the row of its account. *)
LockHeld == DailyLimit = 0 => \A s \in Senders :
    /\ pc[s] # "query"
    /\ pc[s] \in {"validate", "window", "request"} => lock[AccountOf[job[s]]] = s

(* What was checked under the lock still holds at the commit. *)
CheckedReady == \A s \in Senders :
    pc[s] \in Checked => status[job[s]] = "provider_draft_created"

(* No one else moves a draft whose send is in flight. *)
FlightRequested == \A s \in Senders :
    pc[s] \in InFlight =>
        /\ status[job[s]] = "send_requested"
        /\ ~stale[job[s]]
        /\ old[s] = "provider_draft_created"

(* What a thread in flight knows of Gmail. *)
FlightKnows == \A s \in Senders :
    /\ pc[s] \in {"call", "quota"} => remote[job[s]] # "sent"
    /\ pc[s] = "accepted" => remote[job[s]] = "sent"

(* A failure recorded as a quota, or a row not yet written, left nothing. *)
QuotaMeansUndelivered == \A d \in Drafts :
    /\ status[d] = "failed" /\ lastError[d] = "quota" => remote[d] # "sent"
    /\ status[d] = "absent" => remote[d] = "none"

SafetyInv ==
    /\ LockHeld /\ CheckedReady /\ FlightRequested /\ FlightKnows
    /\ OneSenderPerDraft
    /\ ReadyMeansUndelivered /\ QuotaMeansUndelivered

(* Two threads past the checks for one draft are the same thread. *)
LEMMA Alone ==
    ASSUME Exclusive, TypeOK, JobHeld, SafetyInv, NEW s \in Senders, NEW t \in Senders,
           pc[s] \in Checked, pc[t] \in Checked, job[s] = job[t]
    PROVE  s = t
<1>1. CASE DailyLimit = 0
  <2>1. lock[AccountOf[job[s]]] = s /\ lock[AccountOf[job[t]]] = t
    BY <1>1 DEF SafetyInv, LockHeld, Checked
  <2> QED BY <2>1
<1>2. CASE OneThread
  BY <1>2 DEF OneThread
<1> QED BY <1>1, <1>2 DEF Exclusive

(* A step that ends a thread's work without writing, crash or refusal. *)
LEMMA LeaveSafe ==
    ASSUME TypeOK, JobHeld, SafetyInv, NEW s \in Senders, Leave(s), UNCHANGED <<db, gmail>>
    PROVE  SafetyInv'
<1> USE DEF TypeOK, JobHeld, db, gmail, Leave, Goto, Unlocked, SafetyInv, InFlight, Checked
<1>1. LockHeld'
  BY DraftsAssumption DEF LockHeld
<1>2. CheckedReady'
  BY DEF CheckedReady
<1>3. FlightRequested'
  BY DEF FlightRequested
<1>4. FlightKnows'
  BY DEF FlightKnows
<1>5. OneSenderPerDraft'
  BY DEF OneSenderPerDraft
<1>6. ReadyMeansUndelivered' /\ QuotaMeansUndelivered'
  BY DEF ReadyMeansUndelivered, QuotaMeansUndelivered
<1> QED BY <1>1, <1>2, <1>3, <1>4, <1>5, <1>6

(* Recording an answer of Gmail: the thread in flight writes the row and leaves. *)
LEMMA RecordSafe ==
    ASSUME TypeOK, JobHeld, SafetyInv, NEW s \in Senders, pc[s] \in InFlight, Leave(s),
           NEW outcome \in {"sent", "failed", "provider_draft_created"},
           NEW error \in {"none", "quota", "other"},
           status' = [status EXCEPT ![job[s]] = outcome],
           lastError' = [lastError EXCEPT ![job[s]] = error],
           outcome = "provider_draft_created" \/ error = "quota" => remote[job[s]] # "sent",
           UNCHANGED <<stale, gmail>>
    PROVE  SafetyInv'
<1> USE DEF TypeOK, JobHeld, gmail, Leave, Goto, Unlocked, SafetyInv, InFlight, Checked
<1>0. job[s] \in Drafts
  OBVIOUS
<1>1. LockHeld'
  BY DraftsAssumption DEF LockHeld
<1>2. CheckedReady'
  BY DEF CheckedReady, FlightRequested
<1>3. FlightRequested'
  BY DEF FlightRequested, OneSenderPerDraft
<1>4. FlightKnows'
  BY DEF FlightKnows
<1>5. OneSenderPerDraft'
  BY DEF OneSenderPerDraft
<1>6. ReadyMeansUndelivered'
  BY <1>0 DEF ReadyMeansUndelivered
<1>7. QuotaMeansUndelivered'
  BY <1>0 DEF QuotaMeansUndelivered
<1> QED BY <1>1, <1>2, <1>3, <1>4, <1>5, <1>6, <1>7

(* The commit of send_requested, by the only thread past the checks. *)
LEMMA RequestSafe ==
    ASSUME Exclusive, TypeOK, JobHeld, SafetyInv, NEW s \in Senders, RequestSend(s)
    PROVE  SafetyInv'
<1> USE DEF TypeOK, JobHeld, gmail, RequestSend, Goto, Unlocked, SafetyInv, InFlight, Checked
<1>0. /\ job[s] \in Drafts
      /\ status[job[s]] = "provider_draft_created"
      /\ remote[job[s]] # "sent"
  BY DEF CheckedReady, ReadyMeansUndelivered
<1>1. LockHeld'
  BY DraftsAssumption DEF LockHeld
<1>2. CheckedReady'
  BY <1>0, Alone DEF CheckedReady
<1>3. FlightRequested'
  BY <1>0 DEF FlightRequested
<1>4. FlightKnows'
  BY <1>0 DEF FlightKnows
<1>5. OneSenderPerDraft'
  BY <1>0 DEF OneSenderPerDraft, FlightRequested
<1>6. ReadyMeansUndelivered' /\ QuotaMeansUndelivered'
  BY <1>0 DEF ReadyMeansUndelivered, QuotaMeansUndelivered
<1> QED BY <1>1, <1>2, <1>3, <1>4, <1>5, <1>6

(* A failure before the call: the draft was ready, so nothing left. *)
LEMMA RequestFailsSafe ==
    ASSUME Exclusive, TypeOK, JobHeld, SafetyInv, NEW s \in Senders, RequestFails(s)
    PROVE  SafetyInv'
<1> USE DEF TypeOK, JobHeld, gmail, RequestFails, Leave, Goto, Unlocked, SafetyInv, InFlight, Checked
<1>0. job[s] \in Drafts /\ status[job[s]] = "provider_draft_created"
  BY DEF CheckedReady
<1>1. LockHeld'
  BY DraftsAssumption DEF LockHeld
<1>2. CheckedReady'
  BY <1>0, Alone DEF CheckedReady
<1>3. FlightRequested'
  BY <1>0 DEF FlightRequested
<1>4. FlightKnows' /\ OneSenderPerDraft'
  BY DEF FlightKnows, OneSenderPerDraft
<1>5. ReadyMeansUndelivered' /\ QuotaMeansUndelivered'
  BY <1>0 DEF ReadyMeansUndelivered, QuotaMeansUndelivered
<1> QED BY <1>1, <1>2, <1>3, <1>4, <1>5

(* Gmail takes the draft: only the thread in flight with it can tell. *)
LEMMA AcceptSafe ==
    ASSUME TypeOK, JobHeld, SafetyInv, NEW s \in Senders, GmailAccepts(s)
    PROVE  SafetyInv'
<1> USE DEF TypeOK, JobHeld, db, GmailAccepts, Goto, SafetyInv, InFlight, Checked
<1>0. job[s] \in Drafts /\ status[job[s]] = "send_requested" /\ remote[job[s]] = "draft"
  BY DEF FlightRequested
<1>1. LockHeld' /\ CheckedReady' /\ FlightRequested'
  BY DEF LockHeld, CheckedReady, FlightRequested
<1>2. FlightKnows'
  BY <1>0 DEF FlightKnows, OneSenderPerDraft
<1>3. OneSenderPerDraft'
  BY DEF OneSenderPerDraft
<1>4. ReadyMeansUndelivered' /\ QuotaMeansUndelivered'
  BY <1>0 DEF ReadyMeansUndelivered, QuotaMeansUndelivered
<1> QED BY <1>1, <1>2, <1>3, <1>4

(* Each step of one sender keeps the invariant. *)
LEMMA ProtocolSafe ==
    ASSUME Exclusive, TypeOK, JobHeld, SafetyInv, NEW s \in Senders, Protocol(s)
    PROVE  SafetyInv'
<1> USE DEF TypeOK, JobHeld
<1>1. CASE LockAccount(s)
  <2> USE <1>1 DEF LockAccount, Goto, db, gmail, SafetyInv, InFlight, Checked
  <2>1. LockHeld'
    BY SendersAssumption, DraftsAssumption DEF LockHeld
  <2>2. CheckedReady' /\ FlightRequested' /\ FlightKnows' /\ OneSenderPerDraft'
    BY DEF CheckedReady, FlightRequested, FlightKnows, OneSenderPerDraft
  <2>3. ReadyMeansUndelivered' /\ QuotaMeansUndelivered'
    BY DEF ReadyMeansUndelivered, QuotaMeansUndelivered
  <2> QED BY <2>1, <2>2, <2>3
<1>2. CASE Validate(s)
  <2> USE <1>2 DEF Validate, Goto, db, gmail, SafetyInv, InFlight, Checked
  <2>1. LockHeld' /\ FlightRequested' /\ FlightKnows' /\ OneSenderPerDraft'
    BY DEF LockHeld, FlightRequested, FlightKnows, OneSenderPerDraft
  <2>2. CheckedReady'
    BY DEF CheckedReady, SendAllowed
  <2>3. ReadyMeansUndelivered' /\ QuotaMeansUndelivered'
    BY DEF ReadyMeansUndelivered, QuotaMeansUndelivered
  <2> QED BY <2>1, <2>2, <2>3
<1>3. CASE Reject(s)
  BY <1>3, LeaveSafe DEF Reject
<1>4. CASE OpenRemoteWindow(s)
  <2> USE <1>4 DEF OpenRemoteWindow, Goto, Unlocked, db, gmail, SafetyInv, InFlight, Checked
  <2>1. LockHeld' /\ CheckedReady' /\ FlightRequested' /\ FlightKnows' /\ OneSenderPerDraft'
    BY DEF LockHeld, CheckedReady, FlightRequested, FlightKnows, OneSenderPerDraft
  <2>2. ReadyMeansUndelivered' /\ QuotaMeansUndelivered'
    BY DEF ReadyMeansUndelivered, QuotaMeansUndelivered
  <2> QED BY <2>1, <2>2
<1>5. CASE CheckRemoteWindow(s)
  <2>1. CASE Leave(s)
    BY <1>5, <2>1, LeaveSafe DEF CheckRemoteWindow
  <2>2. CASE Goto(s, "request") /\ UNCHANGED <<lock, job, old, mode>>
    <3> USE <1>5, <2>2 DEF CheckRemoteWindow, Goto, db, gmail, SafetyInv, InFlight, Checked
    <3>1. LockHeld' /\ CheckedReady' /\ FlightRequested' /\ FlightKnows' /\ OneSenderPerDraft'
      BY DEF LockHeld, CheckedReady, FlightRequested, FlightKnows, OneSenderPerDraft
    <3>2. ReadyMeansUndelivered' /\ QuotaMeansUndelivered'
      BY DEF ReadyMeansUndelivered, QuotaMeansUndelivered
    <3> QED BY <3>1, <3>2
  <2> QED BY <1>5, <2>1, <2>2 DEF CheckRemoteWindow
<1>6. CASE RequestSend(s)
  BY <1>6, RequestSafe
<1>7. CASE RequestFails(s)
  BY <1>7, RequestFailsSafe
<1>8. CASE GmailAccepts(s)
  BY <1>8, AcceptSafe
<1>9. CASE GmailRefuses(s)
  <2> USE <1>9 DEF GmailRefuses, Goto, db, gmail, SafetyInv, InFlight, Checked
  <2>1. LockHeld' /\ CheckedReady' /\ FlightRequested' /\ FlightKnows' /\ OneSenderPerDraft'
    BY DEF LockHeld, CheckedReady, FlightRequested, FlightKnows, OneSenderPerDraft
  <2>2. ReadyMeansUndelivered' /\ QuotaMeansUndelivered'
    BY DEF ReadyMeansUndelivered, QuotaMeansUndelivered
  <2> QED BY <2>1, <2>2
<1>10. CASE RecordSent(s)
  BY <1>10, RecordSafe DEF RecordSent, InFlight
<1>11. CASE RecordFailed(s)
  BY <1>11, RecordSafe DEF RecordFailed, InFlight
<1>12. CASE RecordQuota(s)
  <2>1. remote[job[s]] # "sent" /\ old[s] = "provider_draft_created"
    BY <1>12 DEF RecordQuota, SafetyInv, FlightKnows, FlightRequested, InFlight
  <2>2. PICK outcome \in {"failed"} \cup (IF mode[s] = "autopilot" THEN {old[s]} ELSE {}) :
          status' = [status EXCEPT ![job[s]] = outcome]
    BY <1>12 DEF RecordQuota
  <2>3. outcome \in {"sent", "failed", "provider_draft_created"}
    BY <2>1
  <2> QED BY <1>12, <2>1, <2>2, <2>3, RecordSafe DEF RecordQuota, InFlight
<1> QED
  BY <1>1, <1>2, <1>3, <1>4, <1>5, <1>6, <1>7, <1>8, <1>9, <1>10, <1>11, <1>12 DEF Protocol

(* The repair leaves what is in flight alone and requeues nothing that left. *)
LEMMA RepairSafe ==
    ASSUME TypeOK, JobHeld, SafetyInv, NEW d \in Drafts, Repair(d)
    PROVE  SafetyInv'
<1> USE DEF TypeOK, JobHeld, gmail, threads, SafetyInv, InFlight, Checked
<1>2. CASE ConfirmRemoteSend(d)
  <2> USE <1>2 DEF ConfirmRemoteSend, Repairable
  <2>1. LockHeld' /\ CheckedReady' /\ FlightRequested' /\ FlightKnows' /\ OneSenderPerDraft'
    BY DEF LockHeld, CheckedReady, FlightRequested, FlightKnows, OneSenderPerDraft
  <2>2. ReadyMeansUndelivered' /\ QuotaMeansUndelivered'
    BY DEF ReadyMeansUndelivered, QuotaMeansUndelivered
  <2> QED BY <2>1, <2>2
<1>3. CASE RequeueRemoteDraft(d)
  <2> USE <1>3 DEF RequeueRemoteDraft, Repairable
  <2>1. LockHeld' /\ CheckedReady' /\ FlightRequested' /\ FlightKnows' /\ OneSenderPerDraft'
    BY DEF LockHeld, CheckedReady, FlightRequested, FlightKnows, OneSenderPerDraft
  <2>2. ReadyMeansUndelivered' /\ QuotaMeansUndelivered'
    BY DEF ReadyMeansUndelivered, QuotaMeansUndelivered
  <2> QED BY <2>1, <2>2
<1>4. CASE RequeueQuotaDraft(d)
  <2> USE <1>4 DEF RequeueQuotaDraft
  <2>1. LockHeld' /\ CheckedReady' /\ FlightRequested' /\ FlightKnows' /\ OneSenderPerDraft'
    BY DEF LockHeld, CheckedReady, FlightRequested, FlightKnows, OneSenderPerDraft
  <2>2. ReadyMeansUndelivered' /\ QuotaMeansUndelivered'
    BY DEF ReadyMeansUndelivered, QuotaMeansUndelivered
  <2> QED BY <2>1, <2>2
<1> QED BY <1>2, <1>3, <1>4 DEF Repair

(* A new row, sent or not, is one no thread has in flight. *)
LEMMA CreationSafe ==
    ASSUME TypeOK, JobHeld, SafetyInv, NEW d \in Drafts, CreateDraft(d) \/ CreateDraftFails(d)
    PROVE  SafetyInv'
<1> USE DEF TypeOK, JobHeld, gmail, threads, SafetyInv, InFlight, Checked
<1>1. CASE CreateDraft(d)
  <2> USE <1>1 DEF CreateDraft
  <2>1. LockHeld' /\ CheckedReady' /\ FlightRequested' /\ FlightKnows' /\ OneSenderPerDraft'
    BY DEF LockHeld, CheckedReady, FlightRequested, FlightKnows, OneSenderPerDraft
  <2>2. ReadyMeansUndelivered' /\ QuotaMeansUndelivered'
    BY DEF ReadyMeansUndelivered, QuotaMeansUndelivered
  <2> QED BY <2>1, <2>2
<1>2. CASE CreateDraftFails(d)
  <2> USE <1>2 DEF CreateDraftFails
  <2>1. LockHeld' /\ CheckedReady' /\ FlightRequested' /\ FlightKnows' /\ OneSenderPerDraft'
    BY DEF LockHeld, CheckedReady, FlightRequested, FlightKnows, OneSenderPerDraft
  <2>2. ReadyMeansUndelivered' /\ QuotaMeansUndelivered'
    BY DEF ReadyMeansUndelivered, QuotaMeansUndelivered
  <2> QED BY <2>1, <2>2
<1> QED BY <1>1, <1>2

(* The steps that write neither the rows nor the threads' knowledge of them. *)
LEMMA SurroundingsSafe ==
    ASSUME TypeOK, JobHeld, SafetyInv,
           \/ \E s \in Senders, d \in Drafts, m \in {"manual", "autopilot"} : Begin(s, d, m)
           \/ \E d \in Drafts : GoStale(d) \/ DiscardRemoteDraft(d)
           \/ EmergencyStop \/ EmergencyResume
           \/ \E a \in Accounts : Disconnect(a) \/ Reconnect(a)
           \/ Tick
    PROVE  SafetyInv'
<1> USE DEF TypeOK, JobHeld, SafetyInv, InFlight, Checked
<1>1. ASSUME NEW s \in Senders, NEW d \in Drafts, NEW m \in {"manual", "autopilot"}, Begin(s, d, m)
      PROVE SafetyInv'
  <2> USE <1>1 DEF Begin, Goto, db, gmail
  <2>1. LockHeld' /\ CheckedReady' /\ FlightRequested' /\ FlightKnows' /\ OneSenderPerDraft'
    BY DEF LockHeld, CheckedReady, FlightRequested, FlightKnows, OneSenderPerDraft
  <2>2. ReadyMeansUndelivered' /\ QuotaMeansUndelivered'
    BY DEF ReadyMeansUndelivered, QuotaMeansUndelivered
  <2> QED BY <2>1, <2>2
<1>2. ASSUME NEW d \in Drafts, GoStale(d) PROVE SafetyInv'
  <2> USE <1>2 DEF GoStale, gmail, threads
  <2>1. LockHeld' /\ CheckedReady' /\ FlightRequested' /\ FlightKnows' /\ OneSenderPerDraft'
    BY DEF LockHeld, CheckedReady, FlightRequested, FlightKnows, OneSenderPerDraft
  <2>2. ReadyMeansUndelivered' /\ QuotaMeansUndelivered'
    BY DEF ReadyMeansUndelivered, QuotaMeansUndelivered
  <2> QED BY <2>1, <2>2
<1>3. ASSUME NEW d \in Drafts, DiscardRemoteDraft(d) PROVE SafetyInv'
  <2> USE <1>3 DEF DiscardRemoteDraft, db, threads
  <2>1. LockHeld' /\ CheckedReady' /\ FlightRequested' /\ FlightKnows' /\ OneSenderPerDraft'
    BY DEF LockHeld, CheckedReady, FlightRequested, FlightKnows, OneSenderPerDraft
  <2>2. ReadyMeansUndelivered' /\ QuotaMeansUndelivered'
    BY DEF ReadyMeansUndelivered, QuotaMeansUndelivered
  <2> QED BY <2>1, <2>2
<1>4. ASSUME UNCHANGED <<status, lastError, stale, lock, remote, threads>> PROVE SafetyInv'
  BY <1>4 DEF threads, LockHeld, CheckedReady, FlightRequested, FlightKnows, OneSenderPerDraft,
     ReadyMeansUndelivered, QuotaMeansUndelivered
<1>5. CASE EmergencyStop \/ EmergencyResume
  BY <1>4, <1>5 DEF EmergencyStop, EmergencyResume, gmail
<1>6. ASSUME NEW a \in Accounts, Disconnect(a) \/ Reconnect(a) PROVE SafetyInv'
  BY <1>4, <1>6 DEF Disconnect, Reconnect, gmail
<1>7. CASE Tick
  BY <1>4, <1>7 DEF Tick, db
<1> QED BY <1>1, <1>2, <1>3, <1>5, <1>6, <1>7

(* The safety invariant holds in every reachable state. *)
THEOREM Safety ==
    ASSUME Exclusive
    PROVE  Spec => []SafetyInv
<1>1. Init => SafetyInv
  BY DEF Init, SafetyInv, InFlight, Checked, LockHeld, CheckedReady, FlightRequested, FlightKnows,
     OneSenderPerDraft, ReadyMeansUndelivered, QuotaMeansUndelivered
<1>2. TypeOK /\ JobHeld /\ SafetyInv /\ [Next]_vars => SafetyInv'
  <2> SUFFICES ASSUME TypeOK, JobHeld, SafetyInv, [Next]_vars PROVE SafetyInv'
    OBVIOUS
  <2>1. ASSUME NEW s \in Senders, Crash(s) PROVE SafetyInv'
    BY <2>1, LeaveSafe DEF Crash
  <2>2. CASE Next
    BY <2>1, <2>2, ProtocolSafe, RepairSafe, CreationSafe, SurroundingsSafe DEF Next
  <2>3. CASE UNCHANGED vars
    BY <2>3 DEF vars, SafetyInv, InFlight, Checked, LockHeld, CheckedReady, FlightRequested,
       FlightKnows, OneSenderPerDraft, ReadyMeansUndelivered, QuotaMeansUndelivered
  <2> QED BY <2>2, <2>3
<1> QED BY <1>1, <1>2, TypeInvariant, PTL DEF Spec

(* One sender at a time has the send of a draft in flight: a second one     *)
(* finds the status changed when it gets the account row.                   *)
THEOREM OneSender ==
    ASSUME Exclusive
    PROVE  Spec => []OneSenderPerDraft
BY Safety, PTL DEF SafetyInv

(* The queue never offers a draft that already left the mailbox.            *)
THEOREM NoResend ==
    ASSUME Exclusive
    PROVE  Spec => []ReadyMeansUndelivered
BY Safety, PTL DEF SafetyInv

(***************************************************************************)
(* What is called sent                                                     *)
(*                                                                         *)
(* OwnConversations excludes the one mistake the repair can make: taking a *)
(* message of the same Gmail thread for the draft it looks for.            *)
(***************************************************************************)

OwnConversations == \A d \in Drafts, e \in Drafts : ThreadOf[d] = ThreadOf[e] => d = e

(* A message that left stays in the sent folder, so what a thread has read *)
(* of it stays true, however many threads there are.                       *)
SentInv ==
    /\ SentMeansDelivered
    /\ \A d \in Drafts : status[d] = "absent" => remote[d] = "none"
    /\ \A s \in Senders :
        /\ pc[s] # "idle" => status[job[s]] # "absent"
        /\ pc[s] = "accepted" => remote[job[s]] = "sent"
        /\ pc[s] \in InFlight => old[s] # "absent"
        /\ pc[s] \in InFlight /\ old[s] = "sent" => remote[job[s]] = "sent"

LEMMA SentProtocol ==
    ASSUME TypeOK, JobHeld, SentInv, NEW s \in Senders, Protocol(s)
    PROVE  SentInv'
<1> USE DEF TypeOK, JobHeld, SentInv, SentMeansDelivered, InFlight, db, gmail, Goto
<1>0. pc[s] # "idle" => job[s] \in Drafts
  OBVIOUS
<1>1. CASE RequestSend(s)
  BY <1>0, <1>1 DEF RequestSend
<1>2. CASE RequestFails(s)
  BY <1>0, <1>2 DEF RequestFails, Leave
<1>3. CASE GmailAccepts(s)
  BY <1>0, <1>3 DEF GmailAccepts
<1>4. CASE RecordSent(s)
  BY <1>0, <1>4 DEF RecordSent, Leave
<1>5. CASE RecordFailed(s)
  BY <1>0, <1>5 DEF RecordFailed, Leave
<1>6. CASE RecordQuota(s)
  <2>1. old[s] # "absent" /\ (old[s] = "sent" => remote[job[s]] = "sent")
    BY <1>6 DEF RecordQuota
  <2> QED BY <1>0, <1>6, <2>1 DEF RecordQuota, Leave
<1>7. CASE LockAccount(s) \/ Validate(s) \/ OpenRemoteWindow(s) \/ GmailRefuses(s)
  BY <1>7 DEF LockAccount, Validate, OpenRemoteWindow, GmailRefuses
<1>8. CASE Reject(s) \/ CheckRemoteWindow(s)
  BY <1>8 DEF Reject, CheckRemoteWindow, Leave
<1> QED
  BY <1>1, <1>2, <1>3, <1>4, <1>5, <1>6, <1>7, <1>8 DEF Protocol

LEMMA SentStep ==
    ASSUME OwnConversations, TypeOK, JobHeld, SentInv, Next
    PROVE  SentInv'
<1> USE DEF TypeOK, JobHeld, SentInv, SentMeansDelivered, InFlight, db, gmail, threads
<1>1. ASSUME NEW d \in Drafts, CreateDraft(d) \/ CreateDraftFails(d) PROVE SentInv'
  BY <1>1 DEF CreateDraft, CreateDraftFails
<1>2. ASSUME NEW s \in Senders, Protocol(s) PROVE SentInv'
  BY <1>2, SentProtocol
<1>3. ASSUME NEW d \in Drafts, Repair(d) PROVE SentInv'
  <2>1. RemoteMatches(d) # {} => remote[d] = "sent"
    BY DEF RemoteMatches, OwnConversations
  <2>2. CASE ConfirmRemoteSend(d)
    BY <2>1, <2>2 DEF ConfirmRemoteSend, Repairable
  <2>3. CASE RequeueRemoteDraft(d)
    BY <2>3 DEF RequeueRemoteDraft, Repairable
  <2>4. CASE RequeueQuotaDraft(d)
    BY <2>4 DEF RequeueQuotaDraft
  <2> QED BY <1>3, <2>2, <2>3, <2>4 DEF Repair
<1>4. ASSUME NEW d \in Drafts, DiscardRemoteDraft(d) PROVE SentInv'
  <2>1. status[d] # "absent"
    BY <1>4 DEF DiscardRemoteDraft
  <2> QED BY <1>4, <2>1 DEF DiscardRemoteDraft
<1>5. ASSUME NEW s \in Senders, NEW d \in Drafts, NEW m \in {"manual", "autopilot"}, Begin(s, d, m)
      PROVE SentInv'
  BY <1>5 DEF Begin, Goto
<1>6. ASSUME NEW s \in Senders, Crash(s) PROVE SentInv'
  BY <1>6 DEF Crash, Leave, Goto
<1>7. ASSUME UNCHANGED <<status, remote, threads>> PROVE SentInv'
  BY <1>7
<1> QED
  BY <1>1, <1>2, <1>3, <1>4, <1>5, <1>6, <1>7 DEF Next, GoStale,
     EmergencyStop, EmergencyResume, Disconnect, Reconnect, Tick

(* A draft the database calls sent did leave the mailbox.                   *)
THEOREM NoFalseSend ==
    ASSUME OwnConversations
    PROVE  Spec => []SentMeansDelivered
<1>1. Init => SentInv
  BY DEF Init, SentInv, SentMeansDelivered, InFlight
<1>2. TypeOK /\ JobHeld /\ SentInv /\ [Next]_vars => SentInv'
  <2>1. UNCHANGED vars /\ SentInv => SentInv'
    BY DEF vars, SentInv, SentMeansDelivered, InFlight
  <2> QED BY <2>1, SentStep
<1>3. SentInv => SentMeansDelivered
  BY DEF SentInv
<1> QED BY <1>1, <1>2, <1>3, TypeInvariant, PTL DEF Spec

(***************************************************************************)
(* Pacing                                                                  *)
(*                                                                         *)
(* A single thread keeps the pacing of every mailbox, whatever crashed: it *)
(* asks Gmail itself what left, and only it can send in the meantime.      *)
(***************************************************************************)

(* Since Gmail's sent history was read, nothing has left the mailbox. *)
WindowOpen == \A s \in Senders : pc[s] \in {"request", "call"} =>
    \A d \in Drafts : AccountOf[d] = AccountOf[job[s]] /\ remote[d] = "sent"
        => age[d] >= minimum_gmail_send_interval

(* What the interval is for: DailyLimit of them make up the window. *)
LEMMA IntervalLongEnough ==
    ASSUME DailyLimit > 0
    PROVE  /\ minimum_gmail_send_interval \in Nat \ {0}
           /\ \A n \in Nat : n >= minimum_gmail_send_interval => n * DailyLimit >= Window
<1> DEFINE q == (Window + DailyLimit - 1) \div DailyLimit
<1>1. minimum_gmail_send_interval = q
  BY LimitsAssumption DEF minimum_gmail_send_interval
<1>2. q \in Int /\ q * DailyLimit >= Window
  BY LimitsAssumption, SMTT(30)
<1> HIDE DEF q
<1>3. q > 0
  BY <1>2, LimitsAssumption, SMTT(30)
<1>4. ASSUME NEW n \in Nat, n >= q PROVE n * DailyLimit >= Window
  <2>1. n * DailyLimit >= q * DailyLimit
    BY <1>2, <1>4, LimitsAssumption, SMTT(30)
  <2> QED BY <1>2, <2>1, LimitsAssumption
<1> QED BY <1>1, <1>2, <1>3, <1>4

(* Time only makes messages older, and does not change their distance. *)
LEMMA TickPaced ==
    ASSUME TypeOK, JobHeld, WindowOpen, PacedDeliveries, Tick
    PROVE  WindowOpen' /\ PacedDeliveries'
<1> USE DEF TypeOK, Tick, db, threads
<1>1. \A d \in Drafts : age'[d] \in Nat /\ age[d] \in Nat /\ age'[d] >= age[d]
  BY LimitsAssumption
<1>2. WindowOpen'
  <2>1. minimum_gmail_send_interval \in Int
    BY LimitsAssumption DEF minimum_gmail_send_interval
  <2> QED BY <1>1, <2>1 DEF WindowOpen, JobHeld
<1>3. PacedDeliveries'
  <2> SUFFICES ASSUME NEW d \in Drafts, NEW e \in Drafts \ {d}, AccountOf[d] = AccountOf[e],
                      remote[d] = "sent", remote[e] = "sent", age'[e] <= age'[d], age'[d] < Window
               PROVE  (age'[d] - age'[e]) * DailyLimit >= Window
    BY DEF PacedDeliveries
  <2>1. age'[d] = age[d] + 1 /\ age[d] < Window
    BY LimitsAssumption
  <2>2. age'[e] = age[e] + 1 /\ age[e] <= age[d]
    BY <2>1, LimitsAssumption
  <2>3. age'[d] - age'[e] = age[d] - age[e]
    BY <1>1, <2>1, <2>2
  <2>4. (age[d] - age[e]) * DailyLimit >= Window
    BY <2>1, <2>2 DEF PacedDeliveries
  <2> QED BY <2>3, <2>4
<1> QED BY <1>2, <1>3

(* The message that leaves is the youngest, and all others are old enough. *)
LEMMA AcceptPaced ==
    ASSUME DailyLimit > 0, TypeOK, JobHeld, WindowOpen, PacedDeliveries,
           NEW s \in Senders, GmailAccepts(s)
    PROVE  PacedDeliveries'
<1> USE DEF TypeOK, GmailAccepts
<1> DEFINE n == minimum_gmail_send_interval
<1>1. /\ n \in Nat \ {0}
      /\ \A k \in Nat : k >= n => k * DailyLimit >= Window
  BY IntervalLongEnough
<1>2. job[s] \in Drafts
  BY DEF JobHeld
<1>3. \A d \in Drafts : AccountOf[d] = AccountOf[job[s]] /\ remote[d] = "sent" => age[d] >= n
  BY DEF WindowOpen
<1> HIDE DEF n
<1> SUFFICES ASSUME NEW d \in Drafts, NEW e \in Drafts \ {d}, AccountOf[d] = AccountOf[e],
                    remote'[d] = "sent", remote'[e] = "sent", age'[e] <= age'[d], age'[d] < Window
             PROVE  (age'[d] - age'[e]) * DailyLimit >= Window
  BY DEF PacedDeliveries
<1>4. \A c \in Drafts : age[c] \in Nat
  BY LimitsAssumption
<1>5. CASE e = job[s]
  <2>1. age'[e] = 0 /\ age'[d] = age[d] /\ remote[d] = "sent"
    BY <1>2, <1>5
  <2>2. age[d] >= n
    BY <1>3, <1>5, <2>1
  <2>3. age[d] * DailyLimit >= Window
    BY <1>1, <1>4, <2>2
  <2>4. age'[d] - age'[e] = age[d]
    BY <1>4, <2>1
  <2> QED BY <2>3, <2>4
<1>6. CASE d = job[s]
  <2>1. age'[d] = 0 /\ age'[e] = age[e] /\ remote[e] = "sent"
    BY <1>2, <1>6
  <2>2. age[e] >= n /\ age[e] <= 0
    BY <1>3, <1>6, <2>1
  <2> QED BY <1>1, <1>4, <2>2
<1>7. CASE d # job[s] /\ e # job[s]
  <2>1. age'[d] = age[d] /\ age'[e] = age[e] /\ remote[d] = "sent" /\ remote[e] = "sent"
    BY <1>2, <1>7
  <2> QED BY <2>1 DEF PacedDeliveries
<1> QED BY <1>5, <1>6, <1>7

(* Every other step lets no message leave, and opens the window only after *)
(* it has read it.                                                         *)
LEMMA PacedStep ==
    ASSUME DailyLimit > 0, OneThread, TypeOK, JobHeld, WindowOpen, PacedDeliveries, Next
    PROVE  WindowOpen' /\ PacedDeliveries'
<1> USE DEF TypeOK, JobHeld, db, gmail, threads
<1>1. CASE Tick
  BY <1>1, TickPaced
<1>2. ASSUME NEW d \in Drafts,
             CreateDraft(d) \/ CreateDraftFails(d) \/ DiscardRemoteDraft(d)
      PROVE  WindowOpen' /\ PacedDeliveries'
  <2>1. /\ UNCHANGED <<age, pc, job>>
        /\ \A e \in Drafts : remote'[e] = "sent" => remote[e] = "sent"
    BY <1>2 DEF CreateDraft, CreateDraftFails, DiscardRemoteDraft
  <2> QED BY <2>1 DEF WindowOpen, PacedDeliveries
<1>3. ASSUME NEW s \in Senders, Protocol(s)
      PROVE  WindowOpen' /\ PacedDeliveries'
  <2>1. CASE GmailAccepts(s)
    <3>1. WindowOpen'
      <4>1. \A t \in Senders : pc'[t] \in {"accepted", "refused"}
        BY <2>1 DEF GmailAccepts, Goto, OneThread
      <4> QED BY <4>1 DEF WindowOpen
    <3> QED BY <2>1, <3>1, AcceptPaced
  <2>2. CASE CheckRemoteWindow(s)
    <3>1. PacedDeliveries'
      BY <2>2 DEF CheckRemoteWindow, PacedDeliveries
    <3>2. WindowOpen'
      <4>1. CASE Leave(s)
        BY <2>2, <4>1 DEF CheckRemoteWindow, Leave, Goto, WindowOpen
      <4>2. CASE RemoteWindowAllows(AccountOf[job[s]]) /\ Goto(s, "request")
                 /\ UNCHANGED <<lock, job, old, mode>>
        <5>1. \A d \in Drafts : AccountOf[d] = AccountOf[job[s]] /\ remote[d] = "sent"
                => ~(age[d] < minimum_gmail_send_interval)
          BY <4>2 DEF RemoteWindowAllows, DeliveredSince
        <5>2. minimum_gmail_send_interval \in Nat /\ \A d \in Drafts : age[d] \in Nat
          BY IntervalLongEnough, LimitsAssumption
        <5>3. \A d \in Drafts : AccountOf[d] = AccountOf[job[s]] /\ remote[d] = "sent"
                => age[d] >= minimum_gmail_send_interval
          BY <5>1, <5>2
        <5> QED BY <2>2, <4>2, <5>3 DEF CheckRemoteWindow, Goto, WindowOpen
      <4> QED BY <2>2, <4>1, <4>2 DEF CheckRemoteWindow
    <3> QED BY <3>1, <3>2
  <2>3. CASE LockAccount(s) \/ Validate(s) \/ Reject(s) \/ OpenRemoteWindow(s) \/ RequestSend(s)
             \/ RequestFails(s) \/ GmailRefuses(s) \/ RecordSent(s) \/ RecordFailed(s)
             \/ RecordQuota(s)
    <3>1. UNCHANGED <<remote, age>>
      BY <2>3 DEF LockAccount, Validate, Reject, OpenRemoteWindow, RequestSend, RequestFails,
         GmailRefuses, RecordSent, RecordFailed, RecordQuota
    <3>2. \A t \in Senders : pc'[t] \in {"request", "call"}
             => pc[t] \in {"request", "call"} /\ job'[t] = job[t]
      BY <2>3 DEF LockAccount, Validate, Reject, OpenRemoteWindow, RequestSend, RequestFails,
         GmailRefuses, RecordSent, RecordFailed, RecordQuota, Goto, Leave
    <3> QED BY <3>1, <3>2 DEF WindowOpen, PacedDeliveries
  <2> QED BY <1>3, <2>1, <2>2, <2>3 DEF Protocol
<1>4. ASSUME UNCHANGED <<remote, age>>,
             \A t \in Senders : pc'[t] \in {"request", "call"}
                => pc[t] \in {"request", "call"} /\ job'[t] = job[t]
      PROVE  WindowOpen' /\ PacedDeliveries'
  BY <1>4 DEF WindowOpen, PacedDeliveries
<1>5. ASSUME NEW s \in Senders, Crash(s) PROVE WindowOpen' /\ PacedDeliveries'
  BY <1>4, <1>5 DEF Crash, Leave, Goto
<1>6. ASSUME NEW s \in Senders, NEW d \in Drafts, NEW m \in {"manual", "autopilot"}, Begin(s, d, m)
      PROVE  WindowOpen' /\ PacedDeliveries'
  BY <1>4, <1>6 DEF Begin, Goto
<1>7. ASSUME UNCHANGED <<gmail, threads>> PROVE WindowOpen' /\ PacedDeliveries'
  BY <1>4, <1>7
<1> QED
  BY <1>1, <1>2, <1>3, <1>5, <1>6, <1>7 DEF Next, GoStale, Repair, ConfirmRemoteSend,
     RequeueRemoteDraft, RequeueQuotaDraft, EmergencyStop, EmergencyResume, Disconnect, Reconnect

(* A single thread with a daily limit sends no two messages of a mailbox   *)
(* closer than the pacing interval, even across crashes and lost answers.  *)
THEOREM Paced ==
    ASSUME DailyLimit > 0, OneThread
    PROVE  Spec => []PacedDeliveries
<1>1. Init => WindowOpen /\ PacedDeliveries
  BY DEF Init, WindowOpen, PacedDeliveries
<1>2. TypeOK /\ JobHeld /\ WindowOpen /\ PacedDeliveries /\ [Next]_vars
        => (WindowOpen /\ PacedDeliveries)'
  <2>1. UNCHANGED vars /\ WindowOpen /\ PacedDeliveries => (WindowOpen /\ PacedDeliveries)'
    BY DEF vars, WindowOpen, PacedDeliveries
  <2> QED BY <2>1, PacedStep
<1> QED BY <1>1, <1>2, TypeInvariant, PTL DEF Spec

(***************************************************************************)
(* Initial claims                                                          *)
(*                                                                         *)
(* Between the checks and the record nobody else sends, and the repair     *)
(* confirms follow-ups only: the other claims of the order stay unsent.    *)
(***************************************************************************)

Unrivalled == \A s \in PastChecks :
    job[s] \in InitialClaims => ~OtherInitialClaimSent(job[s])

(* A step after which every initial claim called sent was called so before. *)
LEMMA NoClaimRecorded ==
    ASSUME Unrivalled, SecondClaimsFollowLostAnswers,
           \A d \in InitialClaims : status'[d] = "sent" => status[d] = "sent",
           \A t \in PastChecks' : /\ job'[t] = job[t]
                                  /\ \/ t \in PastChecks
                                     \/ job[t] \in InitialClaims => ~OtherInitialClaimSent(job[t])
    PROVE  Unrivalled' /\ SecondClaimsFollowLostAnswers'
BY DEF Unrivalled, SecondClaimsFollowLostAnswers, OtherInitialClaimSent

(* The record of an answer: the draft in hand has no sent rival, and no    *)
(* other thread is past the checks.                                        *)
LEMMA ClaimRecorded ==
    ASSUME OneThread, TypeOK, Unrivalled, SecondClaimsFollowLostAnswers,
           NEW s \in Senders, RecordSent(s) \/ RecordQuota(s)
    PROVE  Unrivalled' /\ SecondClaimsFollowLostAnswers'
<1>1. Unrivalled'
  <2>1. \A t \in Senders : pc'[t] = "idle"
    BY DEF TypeOK, OneThread, RecordSent, RecordQuota, Leave, Goto
  <2> QED BY <2>1 DEF Unrivalled, PastChecks, InFlight
<1>2. SecondClaimsFollowLostAnswers'
  <2>1. s \in PastChecks
    BY DEF RecordSent, RecordQuota, PastChecks, InFlight
  <2>2. \A e \in Drafts \ {job[s]} : status'[e] = status[e]
    BY DEF TypeOK, RecordSent, RecordQuota
  <2>3. \A e \in InitialClaims \ {job[s]} :
          job[s] \in InitialClaims /\ OrderOf[e] = OrderOf[job[s]] => status'[e] # "sent"
    BY <2>1, <2>2, DraftsAssumption DEF Unrivalled, OtherInitialClaimSent
  <2> QED BY <2>2, <2>3, DraftsAssumption DEF SecondClaimsFollowLostAnswers
<1> QED BY <1>1, <1>2

LEMMA ClaimsStep ==
    ASSUME OneThread, TypeOK, JobHeld, Unrivalled, SecondClaimsFollowLostAnswers, Next
    PROVE  Unrivalled' /\ SecondClaimsFollowLostAnswers'
<1> DEFINE NoneRecorded == \A d \in InitialClaims : status'[d] = "sent" => status[d] = "sent"
<1> USE DEF TypeOK, JobHeld, PastChecks, InFlight, db, gmail, threads
<1>1. ASSUME NEW s \in Senders, Protocol(s)
      PROVE  Unrivalled' /\ SecondClaimsFollowLostAnswers'
  <2>1. CASE RecordSent(s) \/ RecordQuota(s)
    BY <2>1, ClaimRecorded
  <2>2. CASE Validate(s)
    <3>1. NoneRecorded
      BY <2>2 DEF Validate
    <3>2. \A t \in PastChecks' : job'[t] = job[t] /\ (t \in PastChecks
             \/ (job[t] \in InitialClaims => ~OtherInitialClaimSent(job[t])))
      BY <2>2 DEF Validate, SendAllowed, Goto
    <3> QED BY <3>1, <3>2, NoClaimRecorded
  <2>3. CASE LockAccount(s) \/ Reject(s) \/ OpenRemoteWindow(s) \/ CheckRemoteWindow(s)
             \/ RequestSend(s) \/ RequestFails(s) \/ GmailAccepts(s) \/ GmailRefuses(s)
             \/ RecordFailed(s)
    <3>1. NoneRecorded
      BY <2>3, DraftsAssumption DEF LockAccount, Reject, OpenRemoteWindow, CheckRemoteWindow,
         RequestSend, RequestFails, GmailAccepts, GmailRefuses, RecordFailed
    <3>2. \A t \in PastChecks' : job'[t] = job[t] /\ t \in PastChecks
      BY <2>3 DEF LockAccount, Reject, OpenRemoteWindow, CheckRemoteWindow, RequestSend,
         RequestFails, GmailAccepts, GmailRefuses, RecordFailed, Goto, Leave
    <3> QED BY <3>1, <3>2, NoClaimRecorded
  <2> QED BY <1>1, <2>1, <2>2, <2>3 DEF Protocol
<1>2. ASSUME NoneRecorded, \A t \in PastChecks' : job'[t] = job[t] /\ t \in PastChecks
      PROVE  Unrivalled' /\ SecondClaimsFollowLostAnswers'
  BY <1>2, NoClaimRecorded
<1>3. ASSUME NEW d \in Drafts, CreateDraft(d) \/ CreateDraftFails(d)
      PROVE  Unrivalled' /\ SecondClaimsFollowLostAnswers'
  <2>1. NoneRecorded /\ UNCHANGED threads
    BY <1>3, DraftsAssumption DEF CreateDraft, CreateDraftFails
  <2> QED BY <1>2, <2>1
<1>4. ASSUME NEW d \in Drafts, Repair(d)
      PROVE  Unrivalled' /\ SecondClaimsFollowLostAnswers'
  <2>1. d \notin InitialClaims /\ UNCHANGED threads
    BY <1>4, DraftsAssumption DEF Repair, ConfirmRemoteSend, RequeueRemoteDraft,
       RequeueQuotaDraft, Repairable
  <2>2. NoneRecorded
    BY <1>4, <2>1, DraftsAssumption DEF Repair, ConfirmRemoteSend, RequeueRemoteDraft,
       RequeueQuotaDraft
  <2> QED BY <1>2, <2>1, <2>2
<1>5. ASSUME NEW s \in Senders, NEW d \in Drafts, NEW m \in {"manual", "autopilot"}, Begin(s, d, m)
      PROVE  Unrivalled' /\ SecondClaimsFollowLostAnswers'
  BY <1>2, <1>5 DEF Begin, Goto
<1>6. ASSUME NEW s \in Senders, Crash(s)
      PROVE  Unrivalled' /\ SecondClaimsFollowLostAnswers'
  BY <1>2, <1>6 DEF Crash, Leave, Goto
<1>7. ASSUME UNCHANGED <<status, threads>>
      PROVE  Unrivalled' /\ SecondClaimsFollowLostAnswers'
  BY <1>2, <1>7
<1> QED
  BY <1>1, <1>3, <1>4, <1>5, <1>6, <1>7 DEF Next, GoStale, DiscardRemoteDraft,
     EmergencyStop, EmergencyResume, Disconnect, Reconnect, Tick

(* One thread records at most one initial claim of an order as sent,       *)
(* whatever crashes, is refused or loses its answer.                       *)
THEOREM OneRecordedClaim ==
    ASSUME OneThread
    PROVE  Spec => []SecondClaimsFollowLostAnswers
<1>1. Init => Unrivalled /\ SecondClaimsFollowLostAnswers
  BY DraftsAssumption DEF Init, Unrivalled, PastChecks, InFlight, SecondClaimsFollowLostAnswers
<1>2. TypeOK /\ JobHeld /\ Unrivalled /\ SecondClaimsFollowLostAnswers /\ [Next]_vars
        => (Unrivalled /\ SecondClaimsFollowLostAnswers)'
  <2>1. UNCHANGED vars /\ Unrivalled /\ SecondClaimsFollowLostAnswers
          => (Unrivalled /\ SecondClaimsFollowLostAnswers)'
    BY DEF vars, Unrivalled, PastChecks, OtherInitialClaimSent, SecondClaimsFollowLostAnswers
  <2> QED BY <2>1, ClaimsStep
<1> QED BY <1>1, <1>2, TypeInvariant, PTL DEF Spec

(***************************************************************************)
(* The emergency stop                                                      *)
(***************************************************************************)

(* Whatever the limits, no thread passes the checks while the stop is active. *)
THEOREM StopHolds == Spec => StopAdmitsNoSend
<1>1. TypeOK /\ [Next]_vars => [stopped /\ stopped' => PastChecks' \subseteq PastChecks]_vars
  <2> SUFFICES ASSUME TypeOK, Next, stopped, stopped', NEW t \in PastChecks'
               PROVE  t \in PastChecks
    OBVIOUS
  <2> USE DEF TypeOK, PastChecks, InFlight, Goto, Leave
  <2>1. ASSUME NEW s \in Senders, Protocol(s) PROVE t \in PastChecks
    <3>1. ~Validate(s)
      BY DEF Validate, SendAllowed
    <3> QED
      BY <2>1, <3>1 DEF Protocol, LockAccount, Reject, OpenRemoteWindow, CheckRemoteWindow,
         RequestSend, RequestFails, GmailAccepts, GmailRefuses, RecordSent, RecordFailed, RecordQuota
  <2>2. ASSUME NEW s \in Senders, NEW d \in Drafts, NEW m \in {"manual", "autopilot"}, Begin(s, d, m)
        PROVE t \in PastChecks
    BY <2>2 DEF Begin
  <2>3. ASSUME NEW s \in Senders, Crash(s) PROVE t \in PastChecks
    BY <2>3 DEF Crash
  <2>4. ASSUME UNCHANGED threads PROVE t \in PastChecks
    BY <2>4 DEF threads
  <2> QED
    BY <2>1, <2>2, <2>3, <2>4 DEF Next, CreateDraft, CreateDraftFails, GoStale, Repair,
       ConfirmRemoteSend, RequeueRemoteDraft, RequeueQuotaDraft, DiscardRemoteDraft,
       EmergencyStop, EmergencyResume, Disconnect, Reconnect, Tick
<1> QED BY <1>1, TypeInvariant, PTL DEF Spec, StopAdmitsNoSend

(***************************************************************************)
(* The protocol implements the outbox                                      *)
(***************************************************************************)

Delivered == {d \in Drafts : remote[d] = "sent"}

(* Each step is a step of the outbox, or leaves it alone. *)
LEMMA OutboxStep ==
    ASSUME OwnConversations, TypeOK, JobHeld, SafetyInv, Next
    PROVE  Outbox!Next \/ UNCHANGED <<status, Delivered>>
<1> USE DEF TypeOK, JobHeld, SafetyInv, InFlight, Delivered, db, gmail, threads
<1>1. ASSUME NEW d \in Drafts, CreateDraft(d) \/ CreateDraftFails(d) PROVE Outbox!Prepare(d)
  <2>1. CASE CreateDraft(d)
    <3>1. Delivered' = Delivered
      BY <2>1 DEF CreateDraft, QuotaMeansUndelivered
    <3> QED BY <2>1, <3>1 DEF CreateDraft, Outbox!Prepare, Outbox!Become
  <2>2. CASE CreateDraftFails(d)
    BY <2>2 DEF CreateDraftFails, Outbox!Prepare, Outbox!Become
  <2> QED BY <1>1, <2>1, <2>2
<1>2. ASSUME NEW s \in Senders, Protocol(s)
      PROVE Outbox!Next \/ UNCHANGED <<status, Delivered>>
  <2>0. pc[s] # "idle" => job[s] \in Drafts
    OBVIOUS
  <2>1. CASE RequestSend(s) \/ RequestFails(s)
    <3>1. status[job[s]] = "provider_draft_created" /\ job[s] \in Drafts
      BY <2>0, <2>1 DEF RequestSend, RequestFails, CheckedReady, Checked
    <3>2. Outbox!Request(job[s])
      BY <2>1, <3>1 DEF RequestSend, RequestFails, Outbox!Request, Outbox!Become
    <3> QED BY <3>1, <3>2 DEF Outbox!Next
  <2>2. CASE GmailAccepts(s)
    <3>1. PICK d \in Drafts : d = job[s]
      BY <2>0, <2>2 DEF GmailAccepts
    <3>2. status[d] = "send_requested" /\ remote[d] = "draft"
      BY <2>2, <3>1 DEF GmailAccepts, FlightRequested
    <3>3. Delivered' = Delivered \cup {d}
      BY <2>2, <3>1, <3>2 DEF GmailAccepts
    <3>4. Outbox!Deliver(d)
      BY <2>2, <3>2, <3>3 DEF GmailAccepts, Outbox!Deliver
    <3> QED BY <3>4 DEF Outbox!Next
  <2>3. CASE RecordSent(s) \/ RecordFailed(s)
    <3>1. /\ status[job[s]] = "send_requested" /\ job[s] \in Drafts
          /\ pc[s] = "accepted" => remote[job[s]] = "sent"
      BY <2>0, <2>3 DEF RecordSent, RecordFailed, FlightRequested, FlightKnows
    <3>2. Outbox!Settle(job[s])
      BY <2>3, <3>1 DEF RecordSent, RecordFailed, Outbox!Settle, Outbox!Become
    <3> QED BY <3>1, <3>2 DEF Outbox!Next
  <2>4. CASE RecordQuota(s)
    <3>1. /\ status[job[s]] = "send_requested" /\ job[s] \in Drafts
          /\ remote[job[s]] # "sent" /\ old[s] = "provider_draft_created"
      BY <2>0, <2>4 DEF RecordQuota, FlightRequested, FlightKnows
    <3>2. Outbox!Settle(job[s]) \/ Outbox!Requeue(job[s])
      BY <2>4, <3>1 DEF RecordQuota, Outbox!Settle, Outbox!Requeue, Outbox!Become
    <3> QED BY <3>1, <3>2 DEF Outbox!Next
  <2>5. CASE LockAccount(s) \/ Validate(s) \/ Reject(s) \/ OpenRemoteWindow(s)
             \/ CheckRemoteWindow(s) \/ GmailRefuses(s)
    BY <2>5 DEF LockAccount, Validate, Reject, OpenRemoteWindow, CheckRemoteWindow, GmailRefuses
  <2> QED BY <1>2, <2>1, <2>2, <2>3, <2>4, <2>5 DEF Protocol
<1>3. ASSUME NEW d \in Drafts, Repair(d) PROVE Outbox!Settle(d) \/ Outbox!Requeue(d)
  <2>1. CASE ConfirmRemoteSend(d)
    <3>1. remote[d] = "sent"
      BY <2>1 DEF ConfirmRemoteSend, RemoteMatches, OwnConversations
    <3> QED BY <2>1, <3>1 DEF ConfirmRemoteSend, Repairable, Outbox!Settle, Outbox!Become
  <2>2. CASE RequeueRemoteDraft(d)
    BY <2>2 DEF RequeueRemoteDraft, Repairable, Outbox!Requeue, Outbox!Become
  <2>3. CASE RequeueQuotaDraft(d)
    BY <2>3 DEF RequeueQuotaDraft, QuotaMeansUndelivered, Outbox!Requeue, Outbox!Become
  <2> QED BY <1>3, <2>1, <2>2, <2>3 DEF Repair
<1>4. ASSUME NEW d \in Drafts, DiscardRemoteDraft(d) PROVE UNCHANGED <<status, Delivered>>
  BY <1>4 DEF DiscardRemoteDraft
<1>5. ASSUME UNCHANGED <<status, remote>> PROVE UNCHANGED <<status, Delivered>>
  BY <1>5
<1> QED
  BY <1>1, <1>2, <1>3, <1>4, <1>5 DEF Next, Outbox!Next, Begin, Crash, GoStale,
     EmergencyStop, EmergencyResume, Disconnect, Reconnect, Tick

(* The send protocol implements the outbox: a draft leaves at most once, is *)
(* called sent only after it left, and is requeued only when it did not.    *)
THEOREM ImplementsOutbox ==
    ASSUME Exclusive, OwnConversations
    PROVE  Spec => OutboxSpec
<1>1. Init => Outbox!Init
  BY DEF Init, Outbox!Init
<1>2. TypeOK /\ JobHeld /\ SafetyInv /\ [Next]_vars
        => [Outbox!Next]_<<status, {d \in Drafts : remote[d] = "sent"}>>
  BY OutboxStep DEF vars, Delivered
<1> QED BY <1>1, <1>2, TypeInvariant, Safety, PTL DEF Spec, OutboxSpec, Outbox!Spec
==============================================================================
