------------------------- MODULE AppealWorkflowsProofs -------------------------
(***************************************************************************)
(* Proofs about AppealWorkflows, for any number of cases and threads, any  *)
(* thresholds and any advice an analysis may give.                         *)
(***************************************************************************)
EXTENDS AppealWorkflows, FiniteSetTheorems, SequenceTheorems, TLAPS

(***************************************************************************)
(* The inductive invariant                                                 *)
(***************************************************************************)

SentOf(as) == {i \in 1 .. Len(as) : as[i].status = "sent"}

(* What is true of a workflow w with the attempts as: no more of them are  *)
(* recorded as sent than are counted.                                      *)
CaseOK(w, as) ==
    /\ w \in Workflow /\ as \in Seq(Attempt) /\ Len(as) <= MaxAttempts
    /\ Cardinality(SentOf(as)) <= w.appeal_attempt_count
    /\ w.status = "absent" => as = <<>> /\ w.appeal_attempt_count = 0
    /\ w.status = "appeal_sent" => w.appeal_attempt_count \in 1 .. EscalateAfter - 1

CasesOK ==
    /\ wf \in [Cases -> Workflow] /\ attempts \in [Cases -> Seq(Attempt)]
    /\ \A c \in Cases : CaseOK(wf[c], attempts[c])

OrdersOK ==
    /\ order \in [Cases -> {"open", "refused", "accepted", "payment_confirmed"}]
    /\ positive \subseteq Cases
    /\ reply \in [Cases -> Reply]

(* A thread at work has a case with a workflow, and from the draft on an   *)
(* attempt of it.                                                          *)
Busy ==
    \A s \in Senders :
        /\ pc[s] # "idle" => job[s] \in Cases /\ Exists(job[s])
        /\ pc[s] \in {"create", "send", "call"} => pick[s] \in 1 .. Latest(job[s])

ThreadsOK ==
    /\ pc \in [Senders -> {"idle", "prepare", "create", "send", "call"}]
    /\ job \in [Senders -> Cases \cup {NoCase}]
    /\ pick \in [Senders -> 0 .. MaxAttempts]
    /\ own \in [Senders -> BOOLEAN]
    /\ Busy

IInv == CasesOK /\ OrdersOK /\ ThreadsOK

(***************************************************************************)
(* Attempts                                                                *)
(***************************************************************************)

LEMMA SentFinite ==
    ASSUME NEW as \in Seq(Attempt)
    PROVE  IsFiniteSet(SentOf(as)) /\ Cardinality(SentOf(as)) \in Nat
<1>1. IsFiniteSet(1 .. Len(as))
  <2>1. 1 \in Int /\ Len(as) \in Int
    BY LenProperties
  <2> QED BY <2>1, FS_Interval
<1>2. SentOf(as) \in SUBSET (1 .. Len(as))
  BY DEF SentOf
<1>3. IsFiniteSet(SentOf(as))
  BY <1>1, <1>2, FS_Subset
<1> QED BY <1>3, FS_CardinalityType

(* Fewer attempts, and one more, and the count of those that are sent. *)
LEMMA SentGrows ==
    ASSUME NEW as \in Seq(Attempt), NEW bs \in Seq(Attempt), NEW i
    PROVE  /\ SentOf(bs) \subseteq SentOf(as) => Cardinality(SentOf(bs)) <= Cardinality(SentOf(as))
           /\ SentOf(bs) \subseteq SentOf(as) \cup {i} =>
                Cardinality(SentOf(bs)) <= Cardinality(SentOf(as)) + 1
<1>1. IsFiniteSet(SentOf(as)) /\ Cardinality(SentOf(as)) \in Nat
  BY SentFinite
<1>2. SentOf(bs) \subseteq SentOf(as) => Cardinality(SentOf(bs)) <= Cardinality(SentOf(as))
  BY <1>1, FS_Subset
<1>3. ASSUME SentOf(bs) \subseteq SentOf(as) \cup {i}
      PROVE  Cardinality(SentOf(bs)) <= Cardinality(SentOf(as)) + 1
  <2> DEFINE more == SentOf(as) \cup {i}
  <2>1. IsFiniteSet(more) /\ Cardinality(more) \in Nat /\ Cardinality(more) <= Cardinality(SentOf(as)) + 1
    <3>1. /\ IsFiniteSet(more)
          /\ Cardinality(more) = IF i \in SentOf(as) THEN Cardinality(SentOf(as))
                                 ELSE Cardinality(SentOf(as)) + 1
      BY <1>1, FS_AddElement
    <3>2. Cardinality(more) \in Nat
      BY <3>1, FS_CardinalityType
    <3>3. \/ Cardinality(more) = Cardinality(SentOf(as))
          \/ Cardinality(more) = Cardinality(SentOf(as)) + 1
      BY <3>1, Zenon
    <3> DEFINE l == Cardinality(SentOf(as))
               m == Cardinality(more)
    <3>4. m \in Nat /\ l \in Nat /\ (m = l \/ m = l + 1)
      BY <1>1, <3>2, <3>3, Zenon
    <3>5. m <= l + 1
      <4> HIDE DEF l, m
      <4> QED BY <3>4
    <3> QED BY <3>1, <3>2, <3>5, Zenon
  <2>2. Cardinality(SentOf(bs)) <= Cardinality(more)
    <3>1. SentOf(bs) \in SUBSET more
      BY <1>3
    <3> HIDE DEF more
    <3> QED BY <2>1, <3>1, FS_Subset
  <2>3. Cardinality(SentOf(bs)) \in Nat
    BY SentFinite
  <2> HIDE DEF more
  <2> DEFINE k == Cardinality(SentOf(bs))
             l == Cardinality(SentOf(as))
             m == Cardinality(more)
  <2>4. k \in Nat /\ l \in Nat /\ m \in Nat /\ k <= m /\ m <= l + 1
    BY <1>1, <2>1, <2>2, <2>3
  <2>5. k <= l + 1
    <3> HIDE DEF k, l, m
    <3> QED BY <2>4
  <2> QED BY <2>5
<1> QED BY <1>2, <1>3

(* Writing one attempt. *)
LEMMA EditAttempt ==
    ASSUME NEW as \in Seq(Attempt), NEW i \in 1 .. Len(as), NEW a \in Attempt
    PROVE  LET bs == [as EXCEPT ![i] = a] IN
           /\ bs \in Seq(Attempt) /\ Len(bs) = Len(as)
           /\ SentOf(bs) \subseteq SentOf(as) \cup {i}
           /\ (a.status = "sent" => as[i].status = "sent") => SentOf(bs) \subseteq SentOf(as)
<1> DEFINE bs == [as EXCEPT ![i] = a]
<1>1. bs \in Seq(Attempt) /\ Len(bs) = Len(as)
  BY ExceptSeq
<1>2. \A j \in 1 .. Len(as) : bs[j] = IF j = i THEN a ELSE as[j]
  BY LenProperties
<1> HIDE DEF bs
<1>3. SentOf(bs) \subseteq SentOf(as) \cup {i}
  BY <1>1, <1>2 DEF SentOf
<1>4. ASSUME a.status = "sent" => as[i].status = "sent"
      PROVE  SentOf(bs) \subseteq SentOf(as)
  BY <1>1, <1>2, <1>4 DEF SentOf
<1> QED BY <1>1, <1>3, <1>4 DEF bs

(* A new attempt has not been sent. *)
LEMMA NewAttempt ==
    ASSUME NEW as \in Seq(Attempt), NEW type \in AppealType
    PROVE  LET bs == Append(as, [appeal_type |-> type, status |-> "draft_created", mail |-> "none"])
           IN  /\ bs \in Seq(Attempt) /\ Len(bs) = Len(as) + 1
               /\ SentOf(bs) \subseteq SentOf(as)
<1> DEFINE a == [appeal_type |-> type, status |-> "draft_created", mail |-> "none"]
           bs == Append(as, a)
<1>1. a \in Attempt /\ a.status # "sent"
  BY DEF Attempt
<1> HIDE DEF a
<1>2. /\ bs \in Seq(Attempt) /\ Len(bs) = Len(as) + 1
      /\ \A j \in 1 .. Len(as) : bs[j] = as[j]
      /\ bs[Len(as) + 1] = a
  BY <1>1, AppendProperties
<1> HIDE DEF bs
<1>3. Len(as) \in Nat
  BY LenProperties
<1>4. SentOf(bs) \subseteq SentOf(as)
  <2> SUFFICES ASSUME NEW j \in 1 .. Len(bs), bs[j].status = "sent"
               PROVE  j \in 1 .. Len(as) /\ as[j].status = "sent"
    BY DEF SentOf
  <2>1. j = Len(as) + 1 \/ j \in 1 .. Len(as)
    <3> DEFINE m == Len(as)
               n == Len(bs)
    <3>1. n = m + 1 /\ m \in Nat /\ j \in 1 .. n
      BY <1>2, <1>3, Zenon
    <3>2. j = m + 1 \/ j \in 1 .. m
      <4> HIDE DEF m, n
      <4> QED BY <3>1
    <3> QED BY <3>2
  <2> QED BY <1>1, <1>2, <2>1
<1> QED BY <1>2, <1>4 DEF bs, a

(***************************************************************************)
(* Workflows                                                               *)
(***************************************************************************)

(* v comes of w without an appeal: the count stays, and nobody begins to   *)
(* wait for an answer.                                                     *)
Kept(w, v) ==
    /\ v \in Workflow
    /\ v.appeal_attempt_count = w.appeal_attempt_count
    /\ v.status = "absent" => w.status = "absent"
    /\ v.status = "appeal_sent" => w.status = "appeal_sent"

LEMMA KeptSelf == \A w \in Workflow : Kept(w, w)
BY DEF Kept

LEMMA KeptTwice ==
    ASSUME NEW u, NEW v, NEW w, Kept(u, v), Kept(v, w)
    PROVE  Kept(u, w)
BY DEF Kept

LEMMA EnsuredKept ==
    ASSUME AppealsAssumption, NEW w, NEW as, CaseOK(w, as)
    PROVE  Kept(w, Ensured(w)) /\ Ensured(w).status # "absent" /\ Ensured(w).refusal_count \in Nat
<1>1. NewWorkflow(0) \in Workflow /\ NewWorkflow(0).status = "appeal_needed"
      /\ NewWorkflow(0).appeal_attempt_count = 0
  BY DEF NewWorkflow, Workflow, WorkflowStatus, ELIGIBLE_APPEAL_STATUSES, NextAction, AppealsAssumption
<1>2. \A v \in Workflow : v.refusal_count \in Nat
  BY DEF Workflow, AppealsAssumption
<1> QED BY <1>1, <1>2 DEF Kept, Ensured, CaseOK

LEMMA RecommendationsTyped ==
    ASSUME AppealsAssumption, NEW n \in Nat
    PROVE  Recommendations(n) \subseteq PolicyAction
BY DEF Recommendations, PolicyAction, AppealsAssumption

LEMMA PolicyTyped ==
    ASSUME NEW a \in PolicyAction
    PROVE  /\ status_for_policy_action(a) \in WorkflowStatus \ {"absent", "appeal_sent"}
           /\ next_action_type_for_policy(a) \in NextAction
BY DEF PolicyAction, WorkflowStatus, ELIGIBLE_APPEAL_STATUSES, NextAction,
       status_for_policy_action, next_action_type_for_policy

LEMMA AnalyzedKept ==
    ASSUME NEW w \in Workflow, NEW a \in PolicyAction
    PROVE  Kept(w, Analyzed(w, a)) /\ Analyzed(w, a).status # "absent"
BY PolicyTyped DEF Kept, Analyzed, Workflow

LEMMA RefusedAgainKept ==
    ASSUME AppealsAssumption, NEW w \in Workflow, w.refusal_count < MaxRefusals,
           NEW a \in PolicyAction
    PROVE  Kept(w, RefusedAgain(w, a))
<1> DEFINE v == [w EXCEPT !.refusal_count = @ + 1]
           u == Analyzed(v, a)
<1>1. w.refusal_count + 1 \in 0 .. MaxRefusals
  BY DEF Workflow, AppealsAssumption
<1>2. Kept(w, v) /\ v \in Workflow
  BY <1>1 DEF Kept, Workflow
<1>3. Kept(v, u)
  <2> HIDE DEF v
  <2> QED BY <1>2, AnalyzedKept
<1>4. RefusedAgain(w, a) = [u EXCEPT !.status = "appeal_needed"]
  BY DEF RefusedAgain
<1>5. Kept(u, [u EXCEPT !.status = "appeal_needed"])
  <2> HIDE DEF u
  <2> QED BY <1>3 DEF Kept, Workflow, WorkflowStatus, ELIGIBLE_APPEAL_STATUSES
<1> HIDE DEF u, v
<1> QED BY <1>2, <1>3, <1>4, <1>5, KeptTwice

LEMMA ResolvedKept ==
    ASSUME NEW w \in Workflow, NEW t \in ReviewType
    PROVE  Kept(w, Resolved(w, t))
BY DEF Kept, Resolved, Workflow, ReviewType, WorkflowStatus, TERMINAL_WORKFLOW_STATUSES,
       ELIGIBLE_APPEAL_STATUSES, NextAction

(* A status other than "appeal_sent", with an action that is due or not. *)
LEMMA StatusKept ==
    ASSUME NEW w \in Workflow, NEW x \in WorkflowStatus, NEW n \in NextAction, NEW b \in BOOLEAN,
           x = "absent" => w.status = "absent", x = "appeal_sent" => w.status = "appeal_sent"
    PROVE  /\ Kept(w, [w EXCEPT !.status = x, !.next_action_type = n])
           /\ Kept(w, [w EXCEPT !.status = x, !.due = b, !.next_action_type = n])
           /\ Kept(w, [w EXCEPT !.due = b, !.status = x, !.next_action_type = n])
           /\ Kept(w, [w EXCEPT !.due = b, !.next_action_type = n, !.status = x])
           /\ Kept(w, [w EXCEPT !.status = x, !.due = b])
BY DEF Kept, Workflow

(* Without a new mail, what was true of a case stays true. *)
LEMMA CaseKept ==
    ASSUME NEW w, NEW as, CaseOK(w, as), NEW v, Kept(w, v),
           NEW bs \in Seq(Attempt), Len(bs) <= MaxAttempts, SentOf(bs) \subseteq SentOf(as),
           v.status # "absent" \/ bs = as
    PROVE  CaseOK(v, bs)
<1>1. Cardinality(SentOf(bs)) <= Cardinality(SentOf(as))
      /\ Cardinality(SentOf(bs)) \in Nat /\ Cardinality(SentOf(as)) \in Nat
  BY SentGrows, SentFinite DEF CaseOK
<1>2. v.appeal_attempt_count = w.appeal_attempt_count /\ v.appeal_attempt_count \in Nat
  BY DEF Kept, Workflow
<1>3. Cardinality(SentOf(bs)) <= v.appeal_attempt_count
  <2> DEFINE k == Cardinality(SentOf(bs))
             l == Cardinality(SentOf(as))
             n == v.appeal_attempt_count
  <2>1. k \in Nat /\ l \in Nat /\ n \in Nat /\ k <= l /\ l <= n
    BY <1>1, <1>2 DEF CaseOK
  <2> HIDE DEF k, l, n
  <2>2. k <= n
    BY <2>1
  <2> QED BY <2>2 DEF k, n
<1> QED BY <1>2, <1>3 DEF CaseOK, Kept

(* An appeal recorded as sent is counted, and waits for an answer only     *)
(* below the threshold.                                                    *)
LEMMA CountedCase ==
    ASSUME AppealsAssumption, NEW w, NEW as, CaseOK(w, as), w.status # "absent",
           w.appeal_attempt_count < MaxCount,
           NEW bs \in Seq(Attempt), Len(bs) <= MaxAttempts, NEW i,
           SentOf(bs) \subseteq SentOf(as) \cup {i}
    PROVE  CaseOK(Counted(w), bs) /\ Counted(w).status # "absent"
<1>1. Cardinality(SentOf(bs)) <= Cardinality(SentOf(as)) + 1
      /\ Cardinality(SentOf(bs)) \in Nat /\ Cardinality(SentOf(as)) \in Nat
  BY SentGrows, SentFinite DEF CaseOK
<1>2. w \in Workflow /\ w.appeal_attempt_count \in Nat /\ w.appeal_attempt_count + 1 \in 0 .. MaxCount
  BY DEF CaseOK, Workflow, AppealsAssumption
<1>3. /\ Counted(w) \in Workflow /\ Counted(w).appeal_attempt_count = w.appeal_attempt_count + 1
      /\ Counted(w).status \in {"paused", "escalated", "appeal_sent"}
      /\ Counted(w).status = "appeal_sent" => w.appeal_attempt_count + 1 \in 1 .. EscalateAfter - 1
  <2> DEFINE n == w.appeal_attempt_count + 1
             x == IF n >= ReviewAfter THEN "paused"
                  ELSE IF n >= EscalateAfter THEN "escalated" ELSE "appeal_sent"
             y == IF n >= ReviewAfter THEN "manual_review"
                  ELSE IF n >= EscalateAfter THEN "escalation" ELSE "review_refusal"
             v == [w EXCEPT !.appeal_attempt_count = n, !.last_sent = "today", !.due = FALSE,
                            !.status = x, !.next_action_type = y]
  <2>1. Counted(w) = v
    BY DEF Counted
  <2>2. x \in {"paused", "escalated", "appeal_sent"} /\ y \in NextAction
    BY DEF NextAction
  <2>3. x = "appeal_sent" => n \in 1 .. EscalateAfter - 1
    BY <1>2 DEF AppealsAssumption
  <2>4. x \in WorkflowStatus
    BY <2>2 DEF WorkflowStatus, ELIGIBLE_APPEAL_STATUSES
  <2>5. v \in Workflow /\ v.appeal_attempt_count = n /\ v.status = x
    <3> n \in 0 .. MaxCount
      BY <1>2
    <3> HIDE DEF n, x, y
    <3> QED BY <1>2, <2>2, <2>4 DEF Workflow
  <2> QED BY <2>1, <2>2, <2>3, <2>5
<1>4. Cardinality(SentOf(bs)) <= Counted(w).appeal_attempt_count
  <2> DEFINE k == Cardinality(SentOf(bs))
             l == Cardinality(SentOf(as))
             n == w.appeal_attempt_count
  <2>1. k \in Nat /\ l \in Nat /\ n \in Nat /\ k <= l + 1 /\ l <= n
    BY <1>1, <1>2 DEF CaseOK
  <2>2. k <= n + 1
    <3> HIDE DEF k, l, n
    <3> QED BY <2>1
  <2> QED BY <1>3, <2>2
<1> QED BY <1>3, <1>4 DEF CaseOK

(***************************************************************************)
(* The parts of a step                                                     *)
(***************************************************************************)

(* Workflows stay, and no attempt is taken away. *)
Grows ==
    \A c \in Cases : /\ wf[c].status # "absent" => wf'[c].status # "absent"
                     /\ Len(attempts[c]) <= Len(attempts'[c])

LEMMA CaseStep ==
    ASSUME CasesOK, NEW c \in Cases, NEW w, NEW as, CaseOK(w, as),
           wf' = [wf EXCEPT ![c] = w], attempts' = [attempts EXCEPT ![c] = as],
           w.status = "absent" => wf[c].status = "absent", Latest(c) <= Len(as)
    PROVE  CasesOK' /\ Grows
<1>1. w \in Workflow /\ as \in Seq(Attempt)
  BY DEF CaseOK
<1>2. wf' \in [Cases -> Workflow] /\ attempts' \in [Cases -> Seq(Attempt)]
  BY <1>1 DEF CasesOK
<1>3. \A d \in Cases : /\ wf'[d] = IF d = c THEN w ELSE wf[d]
                       /\ attempts'[d] = IF d = c THEN as ELSE attempts[d]
  BY DEF CasesOK
<1>4. \A d \in Cases : Len(attempts[d]) \in Nat
  BY LenProperties DEF CasesOK
<1>5. Grows
  <2> SUFFICES ASSUME NEW d \in Cases
               PROVE  /\ wf[d].status # "absent" => wf'[d].status # "absent"
                      /\ Len(attempts[d]) <= Len(attempts'[d])
    BY DEF Grows
  <2>1. CASE d = c
    BY <1>3, <2>1 DEF Latest
  <2>2. CASE d # c
    <3>1. attempts'[d] = attempts[d] /\ wf'[d] = wf[d]
      BY <1>3, <2>2
    <3>2. Len(attempts'[d]) = Len(attempts[d])
      BY <3>1
    <3> DEFINE m == Len(attempts[d])
               n == Len(attempts'[d])
    <3>3. m \in Nat /\ n = m
      BY <1>4, <3>2
    <3>4. m <= n
      <4> HIDE DEF m, n
      <4> QED BY <3>3
    <3> QED BY <3>1, <3>4
  <2> QED BY <2>1, <2>2
<1> QED BY <1>2, <1>3, <1>5 DEF CasesOK

(* A step that writes one workflow and no attempt. *)
LEMMA WorkflowStep ==
    ASSUME CasesOK, NEW c \in Cases, NEW w, Kept(wf[c], w),
           wf' = [wf EXCEPT ![c] = w], UNCHANGED attempts
    PROVE  CasesOK' /\ Grows
<1>1. CaseOK(wf[c], attempts[c])
  BY DEF CasesOK
<1>2. CaseOK(w, attempts[c])
  BY <1>1 DEF CaseOK, Kept
<1>3. attempts' = [attempts EXCEPT ![c] = attempts[c]]
  BY DEF CasesOK
<1>4. Len(attempts[c]) \in Nat
  BY LenProperties DEF CasesOK
<1>5. Latest(c) <= Len(attempts[c])
  BY <1>4 DEF Latest
<1>6. w.status = "absent" => wf[c].status = "absent"
  BY DEF Kept
<1> QED BY <1>2, <1>3, <1>5, <1>6, CaseStep

LEMMA SameCases ==
    ASSUME CasesOK, UNCHANGED <<wf, attempts>>
    PROVE  CasesOK' /\ Grows
<1>1. \A c \in Cases : Len(attempts[c]) \in Nat
  BY LenProperties DEF CasesOK
<1> QED BY <1>1 DEF CasesOK, Grows

LEMMA SameOrders ==
    ASSUME OrdersOK, UNCHANGED <<order, positive, reply>>
    PROVE  OrdersOK'
BY DEF OrdersOK

(* What a thread at work has is there after any step. *)
LEMMA StillThere ==
    ASSUME CasesOK, CasesOK', Grows, NEW c \in Cases, NEW n
    PROVE  /\ Exists(c) => Exists(c)'
           /\ n \in 1 .. Latest(c) => n \in 1 .. Latest(c)'
<1>1. Exists(c) => Exists(c)'
  BY DEF Grows, Exists
<1>2. ASSUME n \in 1 .. Latest(c)
      PROVE  n \in 1 .. Latest(c)'
  <2>1. n \in Nat /\ 1 <= n /\ n <= Len(attempts[c])
    <3>1. Len(attempts[c]) \in Nat
      BY LenProperties DEF CasesOK
    <3> QED BY <1>2, <3>1 DEF Latest
  <2>2. Len(attempts[c]) <= Len(attempts'[c])
    BY DEF Grows
  <2>3. Latest(c)' = Len(attempts'[c])
    BY DEF Latest
  <2>4. Len(attempts[c]) \in Nat /\ Len(attempts'[c]) \in Nat
    BY LenProperties DEF CasesOK
  <2> QED BY <2>1, <2>2, <2>3, <2>4
<1> QED BY <1>1, <1>2

LEMMA ThreadsStay ==
    ASSUME CasesOK, CasesOK', Grows, ThreadsOK, UNCHANGED threads
    PROVE  ThreadsOK'
<1>1. pc' = pc /\ job' = job /\ pick' = pick /\ own' = own
  BY DEF threads
<1>2. ASSUME NEW s \in Senders
      PROVE  /\ pc'[s] # "idle" => job'[s] \in Cases /\ Exists(job[s])'
             /\ pc'[s] \in {"create", "send", "call"} => pick'[s] \in 1 .. Latest(job[s])'
  BY <1>1, StillThere DEF ThreadsOK, Busy
<1> QED BY <1>1, <1>2 DEF ThreadsOK, Busy

(* What one thread does with its own place. *)
LEMMA ThreadStep ==
    ASSUME AppealsAssumption, CasesOK, CasesOK', Grows, ThreadsOK, NEW s \in Senders,
           NEW l \in {"idle", "prepare", "create", "send", "call"},
           NEW c \in Cases \cup {NoCase}, NEW n \in 0 .. MaxAttempts,
           pc' = [pc EXCEPT ![s] = l], job' = [job EXCEPT ![s] = c],
           pick' = [pick EXCEPT ![s] = n], own' \in [Senders -> BOOLEAN],
           l # "idle" => c \in Cases /\ Exists(c)',
           l \in {"create", "send", "call"} => n \in 1 .. Latest(c)'
    PROVE  ThreadsOK'
<1>1. /\ pc' \in [Senders -> {"idle", "prepare", "create", "send", "call"}]
      /\ job' \in [Senders -> Cases \cup {NoCase}]
      /\ pick' \in [Senders -> 0 .. MaxAttempts]
  BY DEF ThreadsOK
<1>2. ASSUME NEW t \in Senders
      PROVE  /\ pc'[t] # "idle" => job'[t] \in Cases /\ Exists(job[t])'
             /\ pc'[t] \in {"create", "send", "call"} => pick'[t] \in 1 .. Latest(job[t])'
  <2>1. CASE t = s
    <3>1. pc'[s] = l /\ job'[s] = c /\ pick'[s] = n
      BY DEF ThreadsOK
    <3> QED BY <2>1, <3>1 DEF Exists, Latest
  <2>2. CASE t # s
    <3>1. pc'[t] = pc[t] /\ job'[t] = job[t] /\ pick'[t] = pick[t]
      BY <2>2 DEF ThreadsOK
    <3>2. /\ pc[t] # "idle" => job[t] \in Cases /\ Exists(job[t])'
          /\ pc[t] \in {"create", "send", "call"} => pick[t] \in 1 .. Latest(job[t])'
      <4>1. /\ pc[t] # "idle" => job[t] \in Cases /\ Exists(job[t])
            /\ pc[t] \in {"create", "send", "call"} =>
                  pc[t] # "idle" /\ pick[t] \in 1 .. Latest(job[t])
        BY DEF ThreadsOK, Busy
      <4>2. ASSUME job[t] \in Cases
            PROVE  /\ Exists(job[t]) => wf'[job[t]].status # "absent"
                   /\ pick[t] \in 1 .. Latest(job[t]) => pick[t] \in 1 .. Len(attempts'[job[t]])
        BY <4>2, StillThere DEF Exists, Latest
      <4> QED BY <3>1, <4>1, <4>2 DEF Exists, Latest
    <3> QED BY <3>1, <3>2 DEF Exists, Latest
  <2> QED BY <2>1, <2>2
<1> QED BY <1>1, <1>2 DEF ThreadsOK, Busy

LEMMA LeaveStep ==
    ASSUME AppealsAssumption, CasesOK, CasesOK', Grows, ThreadsOK, NEW s \in Senders, Leave(s)
    PROVE  ThreadsOK'
<1>1. own' \in [Senders -> BOOLEAN]
  BY DEF ThreadsOK, Leave
<1>2. 0 \in 0 .. MaxAttempts
  BY DEF AppealsAssumption
<1> QED BY <1>1, <1>2, ThreadStep DEF Leave, Goto

(***************************************************************************)
(* Reviews, payments and people                                            *)
(***************************************************************************)

LEMMA ReviewStep ==
    ASSUME AppealsAssumption, IInv, NEW c \in Cases, NEW t \in ReviewType, Review(c, t)
    PROVE  IInv'
<1>1. CasesOK /\ OrdersOK /\ ThreadsOK /\ CaseOK(wf[c], attempts[c]) /\ wf[c] \in Workflow
  BY DEF IInv, CasesOK
<1>2. CasesOK' /\ Grows
  <2>1. CASE t = "refused"
    <3>1. PICK a \in Recommendations(Ensured(wf[c]).refusal_count + 1) :
              wf' = [wf EXCEPT ![c] = RefusedAgain(Ensured(wf[c]), a)]
      BY <2>1 DEF Review
    <3> DEFINE w == Ensured(wf[c])
    <3>2. Kept(wf[c], w) /\ w \in Workflow /\ w.refusal_count \in Nat
      BY <1>1, EnsuredKept DEF Kept
    <3>3. w.refusal_count < MaxRefusals
      <4>1. wf[c].refusal_count < MaxRefusals
        BY <2>1 DEF Review
      <4>2. NewWorkflow(0).refusal_count = 0 /\ wf[c].refusal_count \in Nat
        BY <1>1 DEF NewWorkflow, Workflow, AppealsAssumption
      <4> QED BY <4>1, <4>2 DEF Ensured, AppealsAssumption
    <3>4. a \in PolicyAction
      BY <3>2, RecommendationsTyped
    <3> HIDE DEF w
    <3>5. Kept(w, RefusedAgain(w, a))
      BY <3>2, <3>3, <3>4, RefusedAgainKept
    <3>6. wf' = [wf EXCEPT ![c] = RefusedAgain(w, a)] /\ UNCHANGED attempts
      BY <3>1 DEF w, Review
    <3> QED BY <1>1, <3>2, <3>5, <3>6, KeptTwice, WorkflowStep
  <2>2. CASE t # "refused"
    <3>1. CASE UNCHANGED wf
      BY <1>1, <3>1, SameCases DEF Review
    <3>2. CASE wf' = [wf EXCEPT ![c] = Resolved(wf[c], t)]
      BY <1>1, <3>2, ResolvedKept, WorkflowStep DEF Review
    <3> QED BY <2>2, <3>1, <3>2 DEF Review
  <2> QED BY <2>1, <2>2
<1>3. OrdersOK'
  <2>1. order' \in [Cases -> {"open", "refused", "accepted", "payment_confirmed"}]
    BY <1>1 DEF Review, OrdersOK, ReviewType
  <2> QED BY <1>1, <2>1 DEF Review, OrdersOK
<1>4. UNCHANGED threads
  BY DEF Review, threads
<1> QED BY <1>1, <1>2, <1>3, <1>4, ThreadsStay DEF IInv

(* A step about one case that leaves the attempts and the threads alone.   *)
LEMMA QuietStep ==
    ASSUME IInv, NEW c \in Cases, NEW w, Kept(wf[c], w), wf' = [wf EXCEPT ![c] = w],
           UNCHANGED <<attempts, threads>>, OrdersOK'
    PROVE  IInv'
<1>1. CasesOK /\ ThreadsOK
  BY DEF IInv
<1>2. CasesOK' /\ Grows
  BY <1>1, WorkflowStep
<1> QED BY <1>1, <1>2, ThreadsStay DEF IInv

LEMMA SilentStep ==
    ASSUME IInv, UNCHANGED <<wf, attempts, threads>>, OrdersOK'
    PROVE  IInv'
<1>1. CasesOK /\ ThreadsOK
  BY DEF IInv
<1>2. CasesOK' /\ Grows
  BY <1>1, SameCases
<1> QED BY <1>1, <1>2, ThreadsStay DEF IInv

LEMMA OutsideActions ==
    ASSUME AppealsAssumption, IInv, NEW c \in Cases,
           \/ \E t \in ReviewType : ReviewDispute(c, t)
           \/ ApplyPayment(c) \/ ImportReply(c) \/ MakeStarredActionable(c)
           \/ RepairForAutopilot(c) \/ Elapse(c)
    PROVE  IInv'
<1>1. CasesOK /\ OrdersOK /\ ThreadsOK /\ CaseOK(wf[c], attempts[c]) /\ wf[c] \in Workflow
  BY DEF IInv, CasesOK
<1>2. CASE \E t \in ReviewType : ReviewDispute(c, t)
  <2>1. OrdersOK' /\ UNCHANGED <<wf, attempts, threads>>
    BY <1>1, <1>2 DEF ReviewDispute, OrdersOK, threads
  <2> QED BY <2>1, SilentStep
<1>3. CASE ApplyPayment(c)
  <2>1. OrdersOK' /\ UNCHANGED <<attempts, threads>>
    BY <1>1, <1>3 DEF ApplyPayment, OrdersOK, threads
  <2>2. CASE UNCHANGED wf
    BY <2>1, <2>2, SilentStep
  <2>3. CASE wf' = [wf EXCEPT ![c] = Resolved(wf[c], "payment_confirmed")]
    <3>1. Kept(wf[c], Resolved(wf[c], "payment_confirmed"))
      BY <1>1, ResolvedKept DEF ReviewType
    <3> QED BY <2>1, <2>3, <3>1, QuietStep
  <2> QED BY <1>3, <2>2, <2>3 DEF ApplyPayment
<1>4. CASE ImportReply(c)
  <2>1. OrdersOK' /\ UNCHANGED <<wf, attempts, threads>>
    BY <1>1, <1>4 DEF ImportReply, OrdersOK, records, threads, Reply
  <2> QED BY <2>1, SilentStep
<1>5. CASE MakeStarredActionable(c)
  <2> DEFINE w == Ensured(wf[c])
             x == IF w.status = "paused" THEN "appeal_needed" ELSE w.status
             n == IF w.next_action_type = "manual_review" THEN "review_refusal" ELSE w.next_action_type
             v == [w EXCEPT !.due = TRUE, !.status = x, !.next_action_type = n]
  <2>1. OrdersOK' /\ UNCHANGED <<attempts, threads>>
    BY <1>1, <1>5 DEF MakeStarredActionable, OrdersOK, threads
  <2>2. Kept(wf[c], w) /\ w \in Workflow /\ w.status # "absent"
    BY <1>1, EnsuredKept DEF Kept
  <2>3. Kept(w, v)
    <3>1. x \in WorkflowStatus /\ n \in NextAction /\ x # "absent"
          /\ (x = "appeal_sent" => w.status = "appeal_sent")
      BY <2>2 DEF Workflow, WorkflowStatus, ELIGIBLE_APPEAL_STATUSES, NextAction
    <3> HIDE DEF w, x, n
    <3> QED BY <2>2, <3>1, StatusKept
  <2>4. wf' = [wf EXCEPT ![c] = w] \/ wf' = [wf EXCEPT ![c] = v]
    BY <1>5 DEF MakeStarredActionable
  <2> HIDE DEF w, v
  <2> QED BY <2>1, <2>2, <2>3, <2>4, KeptTwice, QuietStep
<1>6. CASE RepairForAutopilot(c)
  <2> DEFINE w == wf[c]
             x == IF w.status = "paused" THEN "appeal_needed" ELSE w.status
             v == [w EXCEPT !.due = TRUE, !.next_action_type = "review_refusal", !.status = x]
  <2>1. OrdersOK' /\ UNCHANGED <<attempts, threads>>
    BY <1>1, <1>6 DEF RepairForAutopilot, OrdersOK, threads
  <2>2. Kept(w, v)
    <3>1. x \in WorkflowStatus /\ "review_refusal" \in NextAction
          /\ (x = "absent" => w.status = "absent") /\ (x = "appeal_sent" => w.status = "appeal_sent")
      BY <1>1 DEF Workflow, WorkflowStatus, ELIGIBLE_APPEAL_STATUSES, NextAction
    <3> HIDE DEF x
    <3> QED BY <1>1, <3>1, StatusKept
  <2>3. wf' = [wf EXCEPT ![c] = v]
    BY <1>1, <1>6 DEF RepairForAutopilot, CasesOK
  <2> HIDE DEF v
  <2> QED BY <2>1, <2>2, <2>3, QuietStep
<1>7. CASE Elapse(c)
  <2> DEFINE w == wf[c]
             b == w.due \/ w.last_sent = "cooling"
             v == [w EXCEPT !.last_sent = IF @ = "today" THEN "cooling" ELSE "past", !.due = b]
  <2>1. OrdersOK' /\ UNCHANGED <<attempts, threads>>
    BY <1>1, <1>7 DEF Elapse, OrdersOK, threads
  <2>2. Kept(w, v)
    <3>1. b \in BOOLEAN
      BY <1>1 DEF Workflow
    <3> HIDE DEF b
    <3> QED BY <1>1, <3>1 DEF Kept, Workflow
  <2>3. wf' = [wf EXCEPT ![c] = v]
    BY <1>1, <1>7 DEF Elapse, CasesOK
  <2> HIDE DEF v
  <2> QED BY <2>1, <2>2, <2>3, QuietStep
<1> QED BY <1>2, <1>3, <1>4, <1>5, <1>6, <1>7

LEMMA RecalculateStep ==
    ASSUME AppealsAssumption, IInv, Recalculate
    PROVE  IInv'
<1>1. CasesOK /\ OrdersOK /\ ThreadsOK
  BY DEF IInv
<1>2. wf' = [c \in Cases |-> IF order[c] = "refused" THEN Ensured(wf[c]) ELSE wf[c]]
      /\ UNCHANGED <<attempts, order, positive, reply, threads>>
  BY DEF Recalculate
<1>3. ASSUME NEW c \in Cases
      PROVE  Kept(wf[c], wf'[c]) /\ CaseOK(wf'[c], attempts[c])
  <2>1. CaseOK(wf[c], attempts[c]) /\ wf[c] \in Workflow
    BY <1>1 DEF CasesOK
  <2>2. Kept(wf[c], wf'[c])
    BY <1>2, <2>1, EnsuredKept, KeptSelf
  <2> QED BY <2>1, <2>2 DEF CaseOK, Kept
<1>4. wf' \in [Cases -> Workflow]
  <2>1. wf' = [c \in Cases |-> wf'[c]]
    BY <1>2
  <2> QED BY <1>3, <2>1 DEF Kept
<1>5. CasesOK' /\ Grows
  <2>1. \A c \in Cases : Len(attempts[c]) \in Nat
    BY <1>1, LenProperties DEF CasesOK
  <2> QED BY <1>1, <1>2, <1>3, <1>4, <2>1 DEF CasesOK, Grows, Kept
<1> QED BY <1>1, <1>2, <1>5, SameOrders, ThreadsStay DEF IInv

LEMMA DecisionActions ==
    ASSUME AppealsAssumption, IInv, NEW c \in Cases,
           AnalyzeRefusal(c) \/ Pause(c) \/ ManualClose(c) \/ Reopen(c)
    PROVE  IInv'
<1>1. CasesOK /\ OrdersOK /\ ThreadsOK /\ wf[c] \in Workflow
  BY DEF IInv, CasesOK
<1>2. OrdersOK' /\ UNCHANGED <<attempts, threads>>
  BY <1>1, SameOrders DEF AnalyzeRefusal, Pause, ManualClose, Reopen
<1>3. CASE AnalyzeRefusal(c)
  <2>1. PICK a \in Recommendations(RefusalsAssumed(wf[c])) : wf' = [wf EXCEPT ![c] = Analyzed(wf[c], a)]
    BY <1>3 DEF AnalyzeRefusal
  <2>2. a \in PolicyAction
    <3>1. RefusalsAssumed(wf[c]) \in Nat
      BY <1>1 DEF RefusalsAssumed, Workflow, AppealsAssumption
    <3> QED BY <3>1, RecommendationsTyped
  <2> QED BY <1>1, <1>2, <2>1, <2>2, AnalyzedKept, QuietStep
<1>4. CASE Pause(c)
  <2> DEFINE v == [wf[c] EXCEPT !.status = "paused", !.next_action_type = "manual_review"]
  <2>1. Kept(wf[c], v)
    BY <1>1, StatusKept DEF WorkflowStatus, NextAction
  <2>2. wf' = [wf EXCEPT ![c] = v]
    BY <1>1, <1>4 DEF Pause, CasesOK
  <2> HIDE DEF v
  <2> QED BY <1>2, <2>1, <2>2, QuietStep
<1>5. CASE ManualClose(c)
  <2> DEFINE v == [wf[c] EXCEPT !.status = "manually_closed", !.due = TRUE, !.next_action_type = "none"]
  <2>1. Kept(wf[c], v)
    BY <1>1, StatusKept DEF WorkflowStatus, TERMINAL_WORKFLOW_STATUSES, NextAction
  <2>2. wf' = [wf EXCEPT ![c] = v]
    BY <1>1, <1>5 DEF ManualClose, CasesOK
  <2> HIDE DEF v
  <2> QED BY <1>2, <2>1, <2>2, QuietStep
<1>6. CASE Reopen(c)
  <2> DEFINE v == [wf[c] EXCEPT !.status = "appeal_needed", !.due = TRUE,
                                !.next_action_type = "review_refusal"]
  <2>1. Kept(wf[c], v)
    BY <1>1, StatusKept DEF WorkflowStatus, ELIGIBLE_APPEAL_STATUSES, NextAction
  <2>2. wf' = [wf EXCEPT ![c] = v]
    BY <1>1, <1>6 DEF Reopen, CasesOK
  <2> HIDE DEF v
  <2> QED BY <1>2, <2>1, <2>2, QuietStep
<1> QED BY <1>3, <1>4, <1>5, <1>6

(* A step of a person that writes the workflow and the attempts of a case. *)
LEMMA PersonStep ==
    ASSUME IInv, NEW c \in Cases, NEW w, NEW as, CaseOK(w, as), w.status # "absent",
           Latest(c) <= Len(as), wf' = [wf EXCEPT ![c] = w],
           attempts' = [attempts EXCEPT ![c] = as], UNCHANGED threads, OrdersOK'
    PROVE  IInv'
<1>1. CasesOK /\ ThreadsOK
  BY DEF IInv
<1>2. CasesOK' /\ Grows
  BY <1>1, CaseStep
<1> QED BY <1>1, <1>2, ThreadsStay DEF IInv

(* The case of a step, its attempts, and the number of the latest.         *)
LEMMA CaseTyped ==
    ASSUME CasesOK, NEW c \in Cases
    PROVE  /\ CaseOK(wf[c], attempts[c]) /\ wf[c] \in Workflow /\ attempts[c] \in Seq(Attempt)
           /\ Latest(c) = Len(attempts[c]) /\ Latest(c) \in Nat /\ Latest(c) <= MaxAttempts
           /\ \A i \in 1 .. Latest(c) : attempts[c][i] \in Attempt
BY LenProperties, ElementOfSeq DEF CasesOK, CaseOK, Latest

LEMMA DraftStep ==
    ASSUME AppealsAssumption, IInv, NEW c \in Cases, CreateAppealDraft(c)
    PROVE  IInv'
<1> USE DEF IInv
<1>1. CaseOK(wf[c], attempts[c]) /\ wf[c] \in Workflow /\ attempts[c] \in Seq(Attempt)
      /\ Latest(c) = Len(attempts[c]) /\ Latest(c) \in Nat
  BY CaseTyped
<1>2. PICK a \in Recommendations(RefusalsAssumed(wf[c])), type \in Asked :
        /\ attempts' = [attempts EXCEPT ![c] = Append(attempts[c],
                [appeal_type |-> type, status |-> "draft_created", mail |-> "none"])]
        /\ wf' = [wf EXCEPT ![c] =
                [(IF wf[c].advice = "none" THEN Analyzed(wf[c], a) ELSE wf[c]) EXCEPT
                    !.status = "gmail_draft_needed", !.due = TRUE,
                    !.next_action_type = "create_gmail_draft"]]
  BY DEF CreateAppealDraft
<1> DEFINE w == IF wf[c].advice = "none" THEN Analyzed(wf[c], a) ELSE wf[c]
           v == [w EXCEPT !.status = "gmail_draft_needed", !.due = TRUE,
                          !.next_action_type = "create_gmail_draft"]
           as == Append(attempts[c], [appeal_type |-> type, status |-> "draft_created", mail |-> "none"])
<1>3. a \in PolicyAction /\ type \in AppealType
  <2>1. RefusalsAssumed(wf[c]) \in Nat
    BY <1>1 DEF RefusalsAssumed, Workflow, AppealsAssumption
  <2> QED BY <2>1, RecommendationsTyped DEF AppealsAssumption
<1>4. Kept(wf[c], w) /\ w \in Workflow
  BY <1>1, <1>3, AnalyzedKept, KeptSelf DEF Kept
<1>5. Kept(w, v) /\ v.status = "gmail_draft_needed"
  <2> HIDE DEF w
  <2> QED BY <1>4, StatusKept DEF WorkflowStatus, ELIGIBLE_APPEAL_STATUSES, NextAction, Workflow
<1>6. as \in Seq(Attempt) /\ Len(as) = Len(attempts[c]) + 1 /\ SentOf(as) \subseteq SentOf(attempts[c])
  BY <1>1, <1>3, NewAttempt
<1>7. wf' = [wf EXCEPT ![c] = v] /\ attempts' = [attempts EXCEPT ![c] = as]
  BY <1>2
<1> HIDE DEF w, v, as
<1>8. Kept(wf[c], v) /\ v.status # "absent"
  BY <1>4, <1>5, KeptTwice
<1>9. Latest(c) < MaxAttempts /\ UNCHANGED <<order, positive, reply, threads>>
  BY DEF CreateAppealDraft
<1>10. Len(as) <= MaxAttempts /\ Latest(c) <= Len(as)
  BY <1>1, <1>6, <1>9 DEF AppealsAssumption
<1>11. CaseOK(v, as)
  BY <1>1, <1>6, <1>8, <1>10, CaseKept
<1> QED BY <1>7, <1>8, <1>9, <1>10, <1>11, SameOrders, PersonStep

LEMMA GmailDraftStep ==
    ASSUME AppealsAssumption, IInv, NEW c \in Cases, CreateAppealGmailDraft(c)
    PROVE  IInv'
<1> USE DEF IInv
<1> DEFINE i == Latest(c)
           v == [wf[c] EXCEPT !.status = "appeal_needed", !.due = TRUE,
                              !.next_action_type = "send_manual_appeal"]
           a == [attempts[c][i] EXCEPT !.mail = "local", !.status = "gmail_draft_created"]
           as == [attempts[c] EXCEPT ![i] = a]
<1>1. CaseOK(wf[c], attempts[c]) /\ wf[c] \in Workflow /\ attempts[c] \in Seq(Attempt)
      /\ i = Len(attempts[c]) /\ i \in Nat /\ i <= MaxAttempts
  BY CaseTyped
<1>2. i \in 1 .. Len(attempts[c]) /\ attempts[c][i] \in Attempt
  BY <1>1, CaseTyped DEF CreateAppealGmailDraft
<1>3. a \in Attempt /\ a.status = "gmail_draft_created"
  BY <1>2 DEF Attempt
<1>4. Kept(wf[c], v) /\ v.status = "appeal_needed"
  BY <1>1, StatusKept DEF WorkflowStatus, ELIGIBLE_APPEAL_STATUSES, NextAction, Workflow
<1>5. wf' = [wf EXCEPT ![c] = v]
  BY DEF CreateAppealGmailDraft, CasesOK
<1>6. attempts' = [attempts EXCEPT ![c] = as]
  BY <1>1, <1>2 DEF CreateAppealGmailDraft, CasesOK
<1> HIDE DEF a, v
<1>7. as \in Seq(Attempt) /\ Len(as) = Len(attempts[c]) /\ SentOf(as) \subseteq SentOf(attempts[c])
  BY <1>1, <1>2, <1>3, EditAttempt
<1> HIDE DEF as, i
<1>8. Len(as) <= MaxAttempts /\ Latest(c) <= Len(as)
  BY <1>1, <1>7 DEF i
<1>9. CaseOK(v, as)
  BY <1>1, <1>4, <1>7, <1>8, CaseKept
<1>10. UNCHANGED <<order, positive, reply, threads>>
  BY DEF CreateAppealGmailDraft
<1> QED BY <1>4, <1>5, <1>6, <1>8, <1>9, <1>10, SameOrders, PersonStep

LEMMA OlderTyped ==
    ASSUME OrdersOK, NEW c \in Cases, UNCHANGED <<order, positive>>, reply' = Answered(reply, c)
    PROVE  OrdersOK'
BY DEF OrdersOK, Answered, Older, Reply

LEMMA MarkSentStep ==
    ASSUME AppealsAssumption, IInv, NEW c \in Cases, MarkSent(c)
    PROVE  IInv'
<1> USE DEF IInv
<1> DEFINE i == Latest(c)
           a == AttemptSent(attempts[c][i])
           as == [attempts[c] EXCEPT ![i] = a]
<1>1. CaseOK(wf[c], attempts[c]) /\ wf[c] \in Workflow /\ attempts[c] \in Seq(Attempt)
      /\ i = Len(attempts[c]) /\ i \in Nat /\ i <= MaxAttempts
  BY CaseTyped
<1>2. i \in 1 .. Len(attempts[c]) /\ attempts[c][i] \in Attempt
  BY <1>1, CaseTyped DEF MarkSent, MarkAllowed
<1>3. a \in Attempt
  BY <1>2 DEF Attempt, AttemptSent
<1>4. attempts' = [attempts EXCEPT ![c] = as] /\ wf' = [wf EXCEPT ![c] = Counted(wf[c])]
  BY <1>1, <1>2 DEF MarkSent, CasesOK
<1> HIDE DEF a
<1>5. as \in Seq(Attempt) /\ Len(as) = Len(attempts[c]) /\ SentOf(as) \subseteq SentOf(attempts[c]) \cup {i}
  BY <1>1, <1>2, <1>3, EditAttempt
<1> HIDE DEF as, i
<1>6. Len(as) <= MaxAttempts /\ Latest(c) <= Len(as)
  BY <1>1, <1>5 DEF i
<1>7. CaseOK(Counted(wf[c]), as) /\ Counted(wf[c]).status # "absent"
  BY <1>1, <1>5, <1>6, CountedCase DEF MarkSent, MarkAllowed, Exists
<1>8. OrdersOK' /\ UNCHANGED threads
  BY OlderTyped DEF MarkSent
<1> QED BY <1>4, <1>6, <1>7, <1>8, PersonStep

(***************************************************************************)
(* AutoPilot                                                               *)
(***************************************************************************)

LEMMA TakeCaseActions ==
    ASSUME AppealsAssumption, IInv, NEW s \in Senders, NEW c \in Cases,
           BeginRun(s, c) \/ ResumePrepared(s, c)
    PROVE  IInv'
<1> USE DEF IInv
<1>1. /\ Latest(c) \in Nat /\ Latest(c) <= MaxAttempts
  BY CaseTyped
<1>2. Exists(c) /\ UNCHANGED <<records, reply>>
  BY DEF BeginRun, ResumePrepared, MayAppeal
<1>3. CasesOK' /\ OrdersOK' /\ Grows
  BY <1>2, SameCases, SameOrders DEF records
<1>4. Exists(c)' /\ Latest(c)' = Latest(c)
  BY <1>2 DEF records, Exists, Latest
<1>5. CASE BeginRun(s, c)
  <2>1. pick' = [pick EXCEPT ![s] = pick[s]] /\ pick[s] \in 0 .. MaxAttempts
        /\ own' \in [Senders -> BOOLEAN]
    BY <1>5 DEF BeginRun, ThreadsOK
  <2> QED BY <1>3, <1>4, <1>5, <2>1, ThreadStep DEF BeginRun, Goto
<1>6. CASE ResumePrepared(s, c)
  <2>1. own' \in [Senders -> BOOLEAN]
    BY <1>6 DEF ResumePrepared, ThreadsOK
  <2>2. Latest(c) \in 1 .. Latest(c)' /\ Latest(c) \in 0 .. MaxAttempts
    BY <1>1, <1>4, <1>6 DEF ResumePrepared, AppealsAssumption
  <2> QED BY <1>3, <1>4, <1>6, <2>1, <2>2, ThreadStep DEF ResumePrepared, Goto
<1> QED BY <1>5, <1>6

LEMMA PrepareStep ==
    ASSUME AppealsAssumption, IInv, NEW s \in Senders, Prepare(s)
    PROVE  IInv'
<1> USE DEF IInv
<1>0. PICK c, n : c = job[s] /\ n = Latest(c)
  OBVIOUS
<1>1. c \in Cases /\ Exists(c) /\ pc[s] = "prepare"
  BY <1>0 DEF Prepare, ThreadsOK, Busy
<1>2. CaseOK(wf[c], attempts[c]) /\ wf[c] \in Workflow /\ attempts[c] \in Seq(Attempt)
      /\ n = Len(attempts[c]) /\ n \in Nat /\ n <= MaxAttempts
  BY <1>0, <1>1, CaseTyped
<1>3. OrdersOK'
  BY SameOrders DEF Prepare
<1>4. own' \in [Senders -> BOOLEAN] /\ job' = [job EXCEPT ![s] = c]
  BY <1>0 DEF Prepare, ThreadsOK
<1>5. CASE n = 0 \/ AlreadySent(attempts[c][n])
  <2> DEFINE type == starred_thread_appeal_type(wf[c])
             as == Append(attempts[c], [appeal_type |-> type, status |-> "draft_created", mail |-> "none"])
             v == [wf[c] EXCEPT !.status = "gmail_draft_needed", !.due = TRUE,
                                !.next_action_type = "create_gmail_draft"]
  <2>1. type \in AppealType
    BY DEF starred_thread_appeal_type, AppealType
  <2>2. as \in Seq(Attempt) /\ Len(as) = Len(attempts[c]) + 1 /\ SentOf(as) \subseteq SentOf(attempts[c])
    BY <1>2, <2>1, NewAttempt
  <2>3. Kept(wf[c], v) /\ v.status = "gmail_draft_needed"
    BY <1>2, StatusKept DEF WorkflowStatus, ELIGIBLE_APPEAL_STATUSES, NextAction, Workflow
  <2>4. n < MaxAttempts /\ pick' = [pick EXCEPT ![s] = n + 1] /\ pc' = [pc EXCEPT ![s] = "create"]
        /\ attempts' = [attempts EXCEPT ![c] = as]
    BY <1>0, <1>1, <1>5 DEF Prepare, Goto
  <2>5. wf' = [wf EXCEPT ![c] = v]
    BY <1>0, <1>1, <1>5 DEF Prepare, CasesOK
  <2> HIDE DEF as, v
  <2>6. Len(as) <= MaxAttempts /\ Latest(c) <= Len(as) /\ Len(as) = n + 1
    BY <1>0, <1>2, <2>2, <2>4 DEF AppealsAssumption
  <2>7. CaseOK(v, as)
    BY <1>2, <2>2, <2>3, <2>6, CaseKept
  <2>8. CasesOK' /\ Grows
    BY <1>1, <2>3, <2>4, <2>5, <2>6, <2>7, CaseStep
  <2>9. attempts'[c] = as /\ wf'[c] = v
    BY <1>1, <2>4, <2>5 DEF CasesOK
  <2>10. Exists(c)' /\ n + 1 \in 1 .. Latest(c)' /\ n + 1 \in 0 .. MaxAttempts
    <3>1. n + 1 \in 1 .. Len(as) /\ n + 1 \in 0 .. MaxAttempts
      BY <1>2, <2>4, <2>6 DEF AppealsAssumption
    <3> QED BY <2>3, <2>9, <3>1 DEF Exists, Latest
  <2>11. ThreadsOK'
    BY <1>1, <1>4, <2>4, <2>8, <2>10, ThreadStep
  <2> QED BY <1>3, <2>8, <2>11
<1>6. CASE ~(n = 0 \/ AlreadySent(attempts[c][n]))
  <2> DEFINE l == IF attempts[c][n].mail = "none" THEN "create" ELSE "send"
  <2>1. UNCHANGED <<wf, attempts>> /\ pick' = [pick EXCEPT ![s] = n] /\ pc' = [pc EXCEPT ![s] = l]
    BY <1>0, <1>6 DEF Prepare, Goto
  <2>2. CasesOK' /\ Grows
    BY <2>1, SameCases
  <2>3. Exists(c)' /\ n \in 1 .. Latest(c)' /\ n \in 0 .. MaxAttempts
    BY <1>0, <1>1, <1>2, <1>6, <2>1 DEF Exists, Latest, AppealsAssumption
  <2>4. l \in {"create", "send"}
    OBVIOUS
  <2> HIDE DEF l
  <2>5. ThreadsOK'
    BY <1>1, <1>4, <2>1, <2>2, <2>3, <2>4, ThreadStep
  <2> QED BY <1>3, <2>2, <2>5
<1> QED BY <1>5, <1>6

(* A thread at Gmail and the attempt it holds. *)
LEMMA AtTheAttempt ==
    ASSUME IInv, NEW s \in Senders, pc[s] \in {"create", "send", "call"}
    PROVE  /\ job[s] \in Cases /\ Exists(job[s]) /\ pick[s] \in 1 .. Len(attempts[job[s]])
           /\ attempts[job[s]][pick[s]] \in Attempt
           /\ pick[s] \in 0 .. MaxAttempts
<1>1. job[s] \in Cases /\ Exists(job[s]) /\ pick[s] \in 1 .. Latest(job[s])
      /\ pick[s] \in 0 .. MaxAttempts
  BY DEF IInv, ThreadsOK, Busy
<1> QED BY <1>1, CaseTyped DEF IInv

LEMMA CreateDraftStep ==
    ASSUME AppealsAssumption, IInv, NEW s \in Senders, CreateGmailDraft(s)
    PROVE  IInv'
<1> USE DEF IInv
<1>0. PICK c, i : c = job[s] /\ i = pick[s]
  OBVIOUS
<1> DEFINE a == [attempts[c][i] EXCEPT !.mail = "draft", !.status = "gmail_draft_created"]
           as == [attempts[c] EXCEPT ![i] = a]
           v == [wf[c] EXCEPT !.status = "appeal_needed", !.next_action_type = "send_manual_appeal"]
<1>1. c \in Cases /\ Exists(c) /\ i \in 1 .. Len(attempts[c]) /\ attempts[c][i] \in Attempt
      /\ i \in 0 .. MaxAttempts
  BY <1>0, AtTheAttempt DEF CreateGmailDraft
<1>2. CaseOK(wf[c], attempts[c]) /\ wf[c] \in Workflow /\ attempts[c] \in Seq(Attempt)
      /\ Latest(c) = Len(attempts[c]) /\ Latest(c) \in Nat /\ Latest(c) <= MaxAttempts
  BY <1>1, CaseTyped
<1>3. a \in Attempt /\ a.status = "gmail_draft_created"
  BY <1>1 DEF Attempt
<1>4. Kept(wf[c], v) /\ v.status = "appeal_needed"
  BY <1>2, StatusKept DEF WorkflowStatus, ELIGIBLE_APPEAL_STATUSES, NextAction, Workflow
<1>5. wf' = [wf EXCEPT ![c] = v] /\ attempts' = [attempts EXCEPT ![c] = as]
  <2>1. wf' = [wf EXCEPT ![c] = v]
    BY <1>0, <1>1 DEF CreateGmailDraft, CasesOK
  <2>2. attempts' = [attempts EXCEPT ![c] = as]
    <3>1. attempts' = [attempts EXCEPT ![c][i].mail = "draft", ![c][i].status = "gmail_draft_created"]
      BY <1>0 DEF CreateGmailDraft
    <3> QED BY <1>1, <1>2, <3>1 DEF CasesOK
  <2> QED BY <2>1, <2>2
<1>6. OrdersOK'
  BY SameOrders DEF CreateGmailDraft
<1> HIDE DEF a, v
<1>7. as \in Seq(Attempt) /\ Len(as) = Len(attempts[c]) /\ SentOf(as) \subseteq SentOf(attempts[c])
  BY <1>1, <1>2, <1>3, EditAttempt
<1> HIDE DEF as
<1>8. Len(as) <= MaxAttempts /\ Latest(c) <= Len(as)
  BY <1>2, <1>7
<1>9. CaseOK(v, as)
  BY <1>2, <1>4, <1>7, <1>8, CaseKept
<1>10. CasesOK' /\ Grows
  <2> QED BY <1>1, <1>4, <1>5, <1>8, <1>9, CaseStep
<1>11. Exists(c)' /\ i \in 1 .. Latest(c)'
  <2>1. Exists(c) => Exists(c)'
    BY <1>1, <1>10, StillThere DEF Exists
  <2>2. attempts'[c] = as
    BY <1>1, <1>5 DEF CasesOK
  <2>3. wf'[c] = v
    BY <1>1, <1>5 DEF CasesOK
  <2> QED BY <1>1, <1>4, <1>7, <2>2, <2>3 DEF Exists, Latest
<1>12. ThreadsOK'
  <2>1. CASE Leave(s)
    BY <1>10, <2>1, LeaveStep
  <2>2. CASE /\ Goto(s, "send")
             /\ own' = [t \in Senders |->
                           IF t # s /\ job[t] = c /\ pick[t] = pick[s] THEN FALSE ELSE own[t]]
             /\ UNCHANGED <<job, pick>>
    <3>1. own' \in [Senders -> BOOLEAN]
      BY <1>0, <2>2 DEF ThreadsOK
    <3>2. job' = [job EXCEPT ![s] = c] /\ pick' = [pick EXCEPT ![s] = i]
          /\ pc' = [pc EXCEPT ![s] = "send"]
      BY <1>0, <2>2 DEF ThreadsOK, Goto
    <3> QED BY <1>1, <1>10, <1>11, <3>1, <3>2, ThreadStep
  <2> QED BY <1>0, <2>1, <2>2 DEF CreateGmailDraft
<1> QED BY <1>6, <1>10, <1>12

(* The mail of the thread's attempt is told, or of none. *)
Told(s, m) ==
    IF own[s] THEN [attempts[job[s]] EXCEPT ![pick[s]] = [attempts[job[s]][pick[s]] EXCEPT !.mail = m]]
    ELSE attempts[job[s]]

LEMMA WithMailIsTold ==
    ASSUME IInv, NEW s \in Senders, pc[s] \in {"create", "send", "call"},
           NEW m \in {"draft", "send_requested", "sent", "failed"}
    PROVE  LET as == Told(s, m)
               bs == attempts[job[s]] IN
           /\ WithMail(s, m) = [attempts EXCEPT ![job[s]] = as]
           /\ as \in Seq(Attempt) /\ Len(as) = Len(bs) /\ SentOf(as) \subseteq SentOf(bs)
           /\ \A i \in 1 .. Len(bs) : as[i].status = bs[i].status
<1> DEFINE c == job[s]
           i == pick[s]
           bs == attempts[c]
           a == [bs[i] EXCEPT !.mail = m]
<1>1. c \in Cases /\ i \in 1 .. Len(bs) /\ bs[i] \in Attempt
  BY AtTheAttempt
<1>2. bs \in Seq(Attempt)
  BY <1>1, CaseTyped DEF IInv
<1>3. a \in Attempt /\ a.status = bs[i].status
  BY <1>1 DEF Attempt
<1>4. CASE own[s]
  <2>1. Told(s, m) = [bs EXCEPT ![i] = a]
    BY <1>4 DEF Told
  <2>2. WithMail(s, m) = [attempts EXCEPT ![c] = [bs EXCEPT ![i] = a]]
    BY <1>1, <1>2, <1>4 DEF WithMail, IInv, CasesOK
  <2> HIDE DEF a, bs
  <2>3. /\ [bs EXCEPT ![i] = a] \in Seq(Attempt) /\ Len([bs EXCEPT ![i] = a]) = Len(bs)
        /\ SentOf([bs EXCEPT ![i] = a]) \subseteq SentOf(bs)
    BY <1>1, <1>2, <1>3, EditAttempt
  <2>4. \A j \in 1 .. Len(bs) : [bs EXCEPT ![i] = a][j].status = bs[j].status
    BY <1>1, <1>2, <1>3, LenProperties
  <2> QED BY <2>1, <2>2, <2>3, <2>4 DEF bs
<1>5. CASE ~own[s]
  <2>1. Told(s, m) = bs
    BY <1>5 DEF Told
  <2>2. WithMail(s, m) = [attempts EXCEPT ![c] = bs]
    BY <1>1, <1>5 DEF WithMail, IInv, CasesOK
  <2> HIDE DEF bs
  <2> QED BY <1>2, <2>1, <2>2 DEF bs
<1> QED BY <1>4, <1>5

(* A step that writes attempts of a case, none of them as sent.            *)
LEMMA SilentCase ==
    ASSUME CasesOK, NEW c \in Cases, Exists(c), NEW as \in Seq(Attempt),
           Len(as) = Len(attempts[c]), SentOf(as) \subseteq SentOf(attempts[c]),
           attempts' = [attempts EXCEPT ![c] = as], UNCHANGED wf
    PROVE  CasesOK' /\ Grows
<1>1. CaseOK(wf[c], attempts[c]) /\ wf[c] \in Workflow /\ Latest(c) = Len(attempts[c])
      /\ Latest(c) \in Nat /\ Latest(c) <= MaxAttempts
  BY CaseTyped
<1>2. Len(as) <= MaxAttempts /\ Latest(c) <= Len(as)
  BY <1>1
<1>3. CaseOK(wf[c], as)
  BY <1>1, <1>2, KeptSelf, CaseKept DEF Exists
<1>4. wf' = [wf EXCEPT ![c] = wf[c]]
  BY DEF CasesOK
<1> QED BY <1>2, <1>3, <1>4, CaseStep

LEMMA RequestSendStep ==
    ASSUME AppealsAssumption, IInv, NEW s \in Senders, RequestSend(s)
    PROVE  IInv'
<1>0. PICK c, i : c = job[s] /\ i = pick[s]
  OBVIOUS
<1>1. CasesOK /\ OrdersOK /\ ThreadsOK /\ pc[s] = "send"
  BY DEF IInv, RequestSend
<1>2. c \in Cases /\ Exists(c) /\ i \in 1 .. Latest(c) /\ i \in 0 .. MaxAttempts
  BY <1>0, <1>1, AtTheAttempt DEF Latest
<1>3. PICK as \in Seq(Attempt) :
        /\ attempts' = [attempts EXCEPT ![c] = as]
        /\ Len(as) = Len(attempts[c]) /\ SentOf(as) \subseteq SentOf(attempts[c])
  <2>1. attempts' = WithMail(s, "send_requested")
    BY DEF RequestSend
  <2> QED BY <1>0, <1>1, <2>1, WithMailIsTold
<1>4. CasesOK' /\ Grows
  BY <1>1, <1>2, <1>3, SilentCase DEF RequestSend
<1>5. OrdersOK'
  BY <1>1, SameOrders DEF RequestSend
<1>6. ThreadsOK'
  <2>1. Exists(c)' /\ i \in 1 .. Latest(c)'
    BY <1>1, <1>2, <1>4, StillThere
  <2>2. /\ pc' = [pc EXCEPT ![s] = "call"] /\ job' = [job EXCEPT ![s] = c]
        /\ pick' = [pick EXCEPT ![s] = i] /\ own' \in [Senders -> BOOLEAN]
    BY <1>0, <1>1 DEF RequestSend, Goto, ThreadsOK
  <2> QED BY <1>1, <1>2, <1>4, <2>1, <2>2, ThreadStep
<1> QED BY <1>4, <1>5, <1>6 DEF IInv

LEMMA GiveUpStep ==
    ASSUME AppealsAssumption, IInv, NEW s \in Senders, GiveUp(s)
    PROVE  IInv'
<1>1. CasesOK /\ OrdersOK /\ ThreadsOK
  BY DEF IInv
<1>2. CasesOK' /\ Grows
  BY <1>1, SameCases DEF GiveUp, records
<1>3. OrdersOK'
  BY <1>1, SameOrders DEF GiveUp, records
<1>4. ThreadsOK'
  BY <1>1, <1>2, LeaveStep DEF GiveUp
<1> QED BY <1>2, <1>3, <1>4 DEF IInv

LEMMA RecordFailureStep ==
    ASSUME AppealsAssumption, IInv, NEW s \in Senders, RecordFailure(s)
    PROVE  IInv'
<1>0. PICK c : c = job[s]
  OBVIOUS
<1>1. CasesOK /\ OrdersOK /\ ThreadsOK /\ pc[s] = "call"
  BY DEF IInv, RecordFailure
<1>2. c \in Cases /\ Exists(c)
  BY <1>0, <1>1, AtTheAttempt
<1>3. PICK as \in Seq(Attempt) :
        /\ attempts' = [attempts EXCEPT ![c] = as]
        /\ Len(as) = Len(attempts[c]) /\ SentOf(as) \subseteq SentOf(attempts[c])
  <2>1. PICK m \in {"failed", "draft"} : attempts' = WithMail(s, m)
    BY DEF RecordFailure
  <2>2. m \in {"draft", "send_requested", "sent", "failed"}
    OBVIOUS
  <2> QED BY <1>0, <1>1, <2>1, <2>2, WithMailIsTold
<1>4. CasesOK' /\ Grows
  BY <1>1, <1>2, <1>3, SilentCase DEF RecordFailure
<1>5. OrdersOK'
  BY <1>1, SameOrders DEF RecordFailure
<1>6. ThreadsOK'
  BY <1>1, <1>4, LeaveStep DEF RecordFailure
<1> QED BY <1>4, <1>5, <1>6 DEF IInv

(* The mail is told first; the latest attempt of the case is marked after  *)
(* it, and it may be another one.                                          *)
LEMMA RecordAppealStep ==
    ASSUME AppealsAssumption, IInv, NEW s \in Senders, RecordAppeal(s)
    PROVE  IInv'
<1>0. PICK c, n : c = job[s] /\ n = Latest(c)
  OBVIOUS
<1>1. CasesOK /\ OrdersOK /\ ThreadsOK /\ pc[s] = "call"
  BY DEF IInv, RecordAppeal
<1>2. c \in Cases /\ Exists(c)
  BY <1>0, <1>1, AtTheAttempt
<1>3. CaseOK(wf[c], attempts[c]) /\ wf[c] \in Workflow /\ attempts[c] \in Seq(Attempt)
      /\ n = Len(attempts[c]) /\ n \in Nat /\ n <= MaxAttempts
  BY <1>0, <1>1, <1>2, CaseTyped
<1>4. PICK as \in Seq(Attempt) :
        /\ WithMail(s, "sent") = [attempts EXCEPT ![c] = as]
        /\ Len(as) = Len(attempts[c]) /\ SentOf(as) \subseteq SentOf(attempts[c])
  BY <1>0, <1>1, WithMailIsTold
<1>5. (CasesOK' /\ Grows) /\ OrdersOK'
  <2>1. CASE ~MarkAllowed(c)
    <3>1. attempts' = [attempts EXCEPT ![c] = as] /\ UNCHANGED <<wf, order, positive, reply>>
      BY <1>0, <1>4, <2>1 DEF RecordAppeal
    <3> QED BY <1>1, <1>2, <1>4, <3>1, SilentCase, SameOrders
  <2>2. CASE MarkAllowed(c)
    <3> DEFINE a == AttemptSent(as[n])
               bs == [as EXCEPT ![n] = a]
    <3>1. n \in 1 .. Len(as) /\ as[n] \in Attempt
      <4>1. n \in 1 .. Len(as)
        BY <1>0, <1>3, <1>4, <2>2 DEF MarkAllowed
      <4> QED BY <4>1, ElementOfSeq
    <3>2. a \in Attempt
      BY <3>1 DEF Attempt, AttemptSent
    <3>3. attempts' = [attempts EXCEPT ![c] = bs] /\ wf' = [wf EXCEPT ![c] = Counted(wf[c])]
          /\ reply' = Answered(reply, c) /\ UNCHANGED <<order, positive>>
      <4>1. attempts' = [WithMail(s, "sent") EXCEPT ![c][n] = AttemptSent(@)]
        BY <1>0, <2>2 DEF RecordAppeal
      <4>2. attempts' = [attempts EXCEPT ![c] = bs]
        BY <1>1, <1>2, <1>4, <4>1 DEF CasesOK
      <4> QED BY <1>0, <2>2, <4>2 DEF RecordAppeal
    <3> HIDE DEF a
    <3>4. bs \in Seq(Attempt) /\ Len(bs) = Len(as) /\ SentOf(bs) \subseteq SentOf(as) \cup {n}
      BY <3>1, <3>2, EditAttempt
    <3> HIDE DEF bs
    <3>5. Len(bs) <= MaxAttempts /\ Latest(c) <= Len(bs)
          /\ SentOf(bs) \subseteq SentOf(attempts[c]) \cup {n}
      <4>1. Len(bs) = n /\ Latest(c) = n
        BY <1>0, <1>3, <1>4, <3>4
      <4>2. Len(bs) <= MaxAttempts /\ Latest(c) <= Len(bs)
        BY <1>3, <4>1
      <4>3. SentOf(bs) \subseteq SentOf(attempts[c]) \cup {n}
        BY <1>4, <3>4, Zenon
      <4> QED BY <4>2, <4>3
    <3>6. wf[c].appeal_attempt_count < MaxCount /\ wf[c].status # "absent"
      BY <1>0, <1>2, <2>2 DEF RecordAppeal, Exists
    <3>7. CaseOK(Counted(wf[c]), bs) /\ Counted(wf[c]).status # "absent"
      BY <1>3, <3>4, <3>5, <3>6, CountedCase
    <3>8. CasesOK' /\ Grows
      BY <1>1, <1>2, <3>3, <3>5, <3>7, CaseStep
    <3> QED BY <1>1, <1>2, <3>3, <3>8, OlderTyped
  <2> QED BY <2>1, <2>2
<1>6. ThreadsOK'
  BY <1>1, <1>5, LeaveStep DEF RecordAppeal
<1> QED BY <1>5, <1>6 DEF IInv

(***************************************************************************)
(* The theorems                                                            *)
(***************************************************************************)

LEMMA InitIInv ==
    ASSUME AppealsAssumption, Init
    PROVE  IInv
<1>1. NoWorkflow \in Workflow /\ NoWorkflow.status = "absent" /\ NoWorkflow.appeal_attempt_count = 0
  <2> DEFINE w == NewWorkflow(0)
  <2>1. w \in Workflow /\ w.appeal_attempt_count = 0
    BY DEF NewWorkflow, Workflow, WorkflowStatus, ELIGIBLE_APPEAL_STATUSES, NextAction,
           AppealsAssumption
  <2>2. NoWorkflow = [w EXCEPT !.status = "absent", !.next_action_type = "none"]
    BY DEF NoWorkflow
  <2> HIDE DEF w
  <2> QED BY <2>1, <2>2 DEF Workflow, WorkflowStatus, NextAction
<1>2. << >> \in Seq(Attempt) /\ Len(<< >>) = 0 /\ Len(<< >>) <= MaxAttempts
  BY EmptySeq DEF AppealsAssumption
<1>3. SentOf(<< >>) = {}
  BY <1>2 DEF SentOf
<1>4. Cardinality(SentOf(<< >>)) <= NoWorkflow.appeal_attempt_count
  BY <1>1, <1>3, FS_EmptySet
<1>5. CaseOK(NoWorkflow, << >>)
  BY <1>1, <1>2, <1>4 DEF CaseOK
<1>6. CasesOK
  BY <1>1, <1>2, <1>5 DEF Init, CasesOK
<1>7. OrdersOK
  BY DEF Init, OrdersOK, Reply
<1>8. ThreadsOK
  BY DEF Init, ThreadsOK, Busy, AppealsAssumption
<1> QED BY <1>6, <1>7, <1>8 DEF IInv

LEMMA NextIInv ==
    ASSUME AppealsAssumption, IInv, [Next]_vars
    PROVE  IInv'
<1>1. CASE UNCHANGED vars
  BY <1>1 DEF vars, IInv, CasesOK, CaseOK, OrdersOK, ThreadsOK, Busy, Exists, Latest
<1>2. ASSUME NEW c \in Cases, NEW t \in ReviewType, Review(c, t) \/ ReviewDispute(c, t)
      PROVE  IInv'
  BY <1>2, ReviewStep, OutsideActions
<1>3. ASSUME NEW c \in Cases,
             \/ ApplyPayment(c) \/ ImportReply(c)
             \/ MakeStarredActionable(c) \/ RepairForAutopilot(c) \/ Elapse(c)
      PROVE  IInv'
  BY <1>3, OutsideActions
<1>4. ASSUME NEW c \in Cases, AnalyzeRefusal(c) \/ Pause(c) \/ ManualClose(c) \/ Reopen(c)
      PROVE  IInv'
  BY <1>4, DecisionActions
<1>5. ASSUME NEW c \in Cases, CreateAppealDraft(c) \/ CreateAppealGmailDraft(c) \/ MarkSent(c)
      PROVE  IInv'
  BY <1>5, DraftStep, GmailDraftStep, MarkSentStep
<1>6. CASE Recalculate
  BY <1>6, RecalculateStep
<1>7. ASSUME NEW s \in Senders, NEW c \in Cases, BeginRun(s, c) \/ ResumePrepared(s, c)
      PROVE  IInv'
  BY <1>7, TakeCaseActions
<1>8. ASSUME NEW s \in Senders,
             \/ Prepare(s) \/ CreateGmailDraft(s) \/ RequestSend(s)
             \/ GiveUp(s) \/ RecordAppeal(s) \/ RecordFailure(s)
      PROVE  IInv'
  BY <1>8, PrepareStep, CreateDraftStep, RequestSendStep, GiveUpStep, RecordAppealStep,
     RecordFailureStep
<1> QED BY <1>1, <1>2, <1>3, <1>4, <1>5, <1>6, <1>7, <1>8 DEF Next

(* IInv is inductive: in every behaviour of the appeals the counts, the    *)
(* orders and the threads' attempts fit together.                          *)
THEOREM Inductive == Spec => []IInv
<1> USE AppealsAssumption
<1>1. Init => IInv
  BY InitIInv
<1>2. IInv /\ [Next]_vars => IInv'
  BY NextIInv
<1> QED BY <1>1, <1>2, PTL DEF Spec

(* Every variable of the appeals keeps its type, and no workflow gets more *)
(* attempts than the bound.                                                *)
THEOREM AppealsTypeInvariant == Spec => []AppealsTypeOK
<1>1. IInv => AppealsTypeOK
  BY DEF IInv, CasesOK, CaseOK, OrdersOK, ThreadsOK, AppealsTypeOK
<1> QED BY <1>1, Inductive, PTL

(* Every attempt recorded as sent is counted, for any number of threads    *)
(* and people that record it.                                              *)
THEOREM SentCounted == Spec => []SentAttemptsAreCounted
<1>1. IInv => SentAttemptsAreCounted
  BY DEF IInv, CasesOK, CaseOK, SentOf, Latest, SentAttemptsAreCounted
<1> QED BY <1>1, Inductive, PTL

(* A workflow waits for an answer only between the first appeal and the    *)
(* threshold of escalation.                                                *)
THEOREM WaitsBelowThreshold == Spec => []AppealSentBelowThreshold
<1>1. IInv => AppealSentBelowThreshold
  BY DEF IInv, CasesOK, CaseOK, AppealSentBelowThreshold
<1> QED BY <1>1, Inductive, PTL

(* A settled order admits no other appeal of AutoPilot: a thread takes a   *)
(* case through MayAppeal alone.                                           *)
THEOREM SettledIsLeftAlone == Spec => SettledAdmitsNoAppeal
<1> DEFINE Left == \A c \in Cases : Settled(c) => Working(c)' \subseteq Working(c)
<1>1. ASSUME AppealsAssumption, IInv, [Next]_vars
      PROVE  Left
  <2> SUFFICES ASSUME NEW c \in Cases, Settled(c), NEW t \in Senders, job'[t] = c
               PROVE  job[t] = c
    BY DEF Working
  <2>1. job \in [Senders -> Cases \cup {NoCase}] /\ c # NoCase
    BY <1>1 DEF IInv, ThreadsOK, AppealsAssumption
  <2>2. CASE UNCHANGED job
    BY <2>2
  <2>3. ASSUME NEW s \in Senders, Leave(s)
        PROVE  job[t] = c
    BY <2>1, <2>3 DEF Leave
  <2>4. ASSUME NEW s \in Senders, NEW d \in Cases, BeginRun(s, d) \/ ResumePrepared(s, d)
        PROVE  job[t] = c
    <3>1. MayAppeal(d) /\ job' = [job EXCEPT ![s] = d]
      BY <2>4 DEF BeginRun, ResumePrepared
    <3>2. ~Settled(d)
      <4>1. wf[d].appeal_attempt_count \in Nat
        BY <1>1 DEF IInv, CasesOK, Workflow, AppealsAssumption
      <4> QED BY <1>1, <3>1, <4>1 DEF MayAppeal, Settled, AppealsAssumption
    <3> QED BY <2>1, <3>1, <3>2
  <2>5. \/ UNCHANGED job
        \/ \E s \in Senders : Leave(s)
        \/ \E s \in Senders, d \in Cases : BeginRun(s, d) \/ ResumePrepared(s, d)
    <3>1. CASE UNCHANGED vars
      BY <3>1 DEF vars
    <3>2. CASE Next
      BY <3>2 DEF Next, threads, records, Review, ReviewDispute, ApplyPayment, ImportReply,
         MakeStarredActionable, RepairForAutopilot, Elapse, AnalyzeRefusal, CreateAppealDraft,
         CreateAppealGmailDraft, MarkSent, Pause, ManualClose, Reopen, Recalculate,
         Prepare, CreateGmailDraft, RequestSend, GiveUp, RecordAppeal, RecordFailure
    <3> QED BY <1>1, <3>1, <3>2
  <2> QED BY <2>2, <2>3, <2>4, <2>5
<1>2. IInv /\ [Next]_vars => Left
  BY <1>1, AppealsAssumption
<1> QED BY <1>2, Inductive, PTL DEF Spec, SettledAdmitsNoAppeal
==============================================================================
