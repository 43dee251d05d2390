------------------------- MODULE RefundDisputesProofs -------------------------
(***************************************************************************)
(* Proofs about RefundDisputes, for any number of disputes, orders and     *)
(* workers, any length of a pass's list and any number of mails.           *)
(***************************************************************************)
EXTENDS RefundDisputes, FiniteSetTheorems, SequenceTheorems, TLAPS

(***************************************************************************)
(* The inductive invariant                                                 *)
(***************************************************************************)

(* What is true of a dispute r for which n mails left: it is drafted only  *)
(* with its order and receipt, and nothing is mailed but from that draft.  *)
Sound(r, n) ==
    /\ r \in Dispute
    /\ r.evidence_status = "complete" => r.receipt
    /\ r.email_draft => r.receipt /\ r.claim_order
    /\ r.mail # "none" \/ n > 0 => r.email_draft
    /\ r.status = "undetected" => ~r.email_draft
    /\ r.status = "sent" \/ r.mail = "sent" => n > 0

Sounds == \A d \in Disputes : Sound(dispute[d], left[d])

AtGmail == {"create", "send", "call"}

(* A worker at Gmail holds a drafted dispute, and no list is empty while   *)
(* it is worked on.                                                        *)
Holds ==
    \A w \in Workers :
        /\ pc[w] # "idle" => todo[w] # <<>>
        /\ pc[w] \in AtGmail => job[w] \in Disputes /\ dispute[job[w]].email_draft
        /\ pc[w] = "call" => MaxMails > 0

IInv == RefundsTypeOK /\ Sounds /\ Holds

(***************************************************************************)
(* The list of a pass                                                      *)
(***************************************************************************)

Rank(S, d) == Cardinality({e \in S : e < d})

(* A finite set of n numbers has a member of every rank below n.           *)
LEMMA EveryRank ==
    ASSUME NEW S \in SUBSET Nat, IsFiniteSet(S), NEW n \in Nat, n < Cardinality(S)
    PROVE  \E d \in S : Rank(S, d) = n
<1> DEFINE m == Cardinality(S)
           below(d) == {e \in S : e < d}
           f == [d \in S |-> Rank(S, d)]
<1>1. m \in Nat
  BY FS_CardinalityType
<1>2. ASSUME NEW d \in S
      PROVE  IsFiniteSet(below(d)) /\ Rank(S, d) \in Nat /\ Rank(S, d) < m
  <2>1. IsFiniteSet(below(d)) /\ Cardinality(below(d)) <= m
        /\ (m = Cardinality(below(d)) => S = below(d))
    BY FS_Subset
  <2>2. S # below(d)
    OBVIOUS
  <2>3. Cardinality(below(d)) \in Nat
    BY <2>1, FS_CardinalityType
  <2> QED BY <1>1, <2>1, <2>2, <2>3 DEF Rank
<1>3. ASSUME NEW d \in S, NEW e \in S, d < e
      PROVE  Rank(S, d) < Rank(S, e)
  <2>1. d \in below(e) /\ d \notin below(d)
    BY <1>3
  <2>2. \A x \in S : x < d => x < e
    BY <1>3
  <2>3. below(d) \in SUBSET below(e)
    BY <2>2
  <2>4. IsFiniteSet(below(e))
    BY <1>2
  <2>5. Cardinality(below(d)) <= Cardinality(below(e))
        /\ Cardinality(below(d)) # Cardinality(below(e))
    BY <2>1, <2>3, <2>4, FS_Subset
  <2>6. Rank(S, d) = Cardinality(below(d)) /\ Rank(S, e) = Cardinality(below(e))
    BY DEF Rank
  <2>7. Rank(S, d) \in Nat /\ Rank(S, e) \in Nat
    BY <1>2
  <2> HIDE DEF below
  <2> QED BY <2>5, <2>6, <2>7
<1>4. f \in [S -> 0 .. m - 1]
  <2> HIDE DEF m, below
  <2>1. \A d \in S : Rank(S, d) \in 0 .. m - 1
    BY <1>1, <1>2
  <2> QED BY <2>1
<1>5. ASSUME NEW d \in S, NEW e \in S, f[d] = f[e]
      PROVE  d = e
  <2>1. d < e \/ e < d \/ d = e
    OBVIOUS
  <2>2. Rank(S, d) = Rank(S, e) /\ Rank(S, d) \in Nat
    BY <1>2, <1>5
  <2> QED BY <1>3, <2>1, <2>2
<1>6. f \in Injection(S, 0 .. m - 1)
  BY <1>4, <1>5 DEF Injection, IsInjective
<1>7. IsFiniteSet(0 .. m - 1) /\ Cardinality(0 .. m - 1) = m
  <2> HIDE DEF m
  <2> QED BY <1>1, FS_Interval
<1>8. f \in Surjection(S, 0 .. m - 1)
  BY <1>6, <1>7, FS_Injection
<1>9. n \in 0 .. m - 1
  BY <1>1
<1> QED BY <1>8, <1>9 DEF Surjection

(* A pass that has candidates lists at least one, and disputes only.       *)
LEMMA ListOfDisputes ==
    ASSUME RefundsAssumption, Candidates # {}
    PROVE  Listed \in Seq(Disputes) /\ Listed # <<>>
<1> DEFINE first == {d \in Candidates : Rank(Candidates, d) < MaxCandidates}
           n == Cardinality(first)
<1>1. Candidates \in SUBSET Nat /\ IsFiniteSet(Candidates) /\ Candidates \subseteq Disputes
  <2>1. Candidates \in SUBSET Disputes
    BY DEF Candidates
  <2> QED BY <2>1, FS_Subset DEF RefundsAssumption
<1>2. first \in SUBSET Candidates /\ IsFiniteSet(first) /\ n \in Nat
  <2>1. first \in SUBSET Candidates
    OBVIOUS
  <2>2. IsFiniteSet(first)
    BY <1>1, <2>1, FS_Subset
  <2> QED BY <2>1, <2>2, FS_CardinalityType
<1>3. n > 0
  <2>1. Cardinality(Candidates) \in Nat /\ Cardinality(Candidates) # 0
    BY <1>1, FS_CardinalityType, FS_EmptySet
  <2>2. PICK d \in Candidates : Rank(Candidates, d) = 0
    BY <1>1, <2>1, EveryRank
  <2>3. d \in first
    BY <2>2 DEF RefundsAssumption
  <2> QED BY <1>2, <2>3, FS_EmptySet
<1>4. ASSUME NEW i \in 1 .. n
      PROVE  (CHOOSE d \in first : Rank(first, d) = i - 1) \in Disputes
  <2>1. i - 1 \in Nat /\ i - 1 < n
    BY <1>2
  <2>2. \E d \in first : Rank(first, d) = i - 1
    BY <1>1, <1>2, <2>1, EveryRank
  <2> QED BY <1>1, <1>2, <2>2
<1>5. Listed = [i \in 1 .. n |-> CHOOSE d \in first : Rank(first, d) = i - 1]
  BY DEF Listed, Rank
<1>6. Listed \in [1 .. n -> Disputes]
  BY <1>4, <1>5
<1>7. Listed \in Seq(Disputes) /\ Len(Listed) = n
  <2> HIDE DEF n
  <2> QED BY <1>2, <1>6
<1> QED BY <1>3, <1>7

(***************************************************************************)
(* One dispute                                                             *)
(***************************************************************************)

(* Recalculating the evidence keeps a dispute sound and drafted.           *)
LEMMA RefreshedSound ==
    ASSUME NEW r, NEW n \in Nat, Sound(r, n)
    PROVE  Sound(Refreshed(r), n) /\ Refreshed(r).email_draft = r.email_draft
           /\ Refreshed(r).claim_order = r.claim_order /\ Refreshed(r).mail = r.mail
           /\ (r.status # "undetected" => Refreshed(r).status # "undetected")
BY DEF Sound, Refreshed, Dispute, DisputeStatus, CandidateStatuses,
       PROTECTED_DISPUTE_STATUSES, POSITIVE_CUSTOMER_REFUND_STATUSES

(* Recalculating looks for the receipt among the files of the order first. *)
LEMMA RecalculatedSound ==
    ASSUME NEW d \in Disputes, NEW r, NEW n \in Nat, Sound(r, n)
    PROVE  LET q == Recalculated(d, r) IN
           /\ Sound(q, n) /\ q.email_draft = r.email_draft
           /\ q.claim_order = r.claim_order /\ q.mail = r.mail
           /\ (r.status # "undetected" => q.status # "undetected")
<1> DEFINE p == [r EXCEPT !.receipt = @ \/ (r.claim_order /\ OrderOf[d] \in photo)]
<1>1. Sound(p, n) /\ p.email_draft = r.email_draft /\ p.claim_order = r.claim_order
      /\ p.mail = r.mail /\ p.status = r.status
  BY DEF Sound, Dispute
<1>2. Recalculated(d, r) = Refreshed(p)
  BY DEF Recalculated
<1> HIDE DEF p
<1> QED BY <1>1, <1>2, RefreshedSound

(* A new dispute is sound before its evidence is looked for. *)
LEMMA OpenedSound ==
    ASSUME NEW b \in BOOLEAN, NEW c \in BOOLEAN
    PROVE  Sound(NewDispute("needs_evidence", b, c), 0)
           /\ ~NewDispute("needs_evidence", b, c).email_draft
BY DEF Sound, Dispute, NewDispute, DisputeStatus

(* A draft of a sound dispute that may be drafted is sound.                *)
LEMMA DraftedSound ==
    ASSUME NEW r, NEW n \in Nat, Sound(r, n), MayDraft(r)
    PROVE  Sound(Drafted(r), n) /\ Drafted(r).email_draft /\ Drafted(r).mail = r.mail
           /\ Drafted(r).status # "undetected"
BY DEF Sound, Dispute, Drafted, MayDraft, DisputeStatus, CandidateStatuses

(* Nothing of a dispute but its mail changes.                              *)
LEMMA MailSound ==
    ASSUME NEW r, NEW n \in Nat, Sound(r, n), r.email_draft,
           NEW m \in {"none", "draft", "send_requested", "retryable", "failed"}
    PROVE  Sound([r EXCEPT !.mail = m], n) /\ [r EXCEPT !.mail = m].email_draft
BY DEF Sound, Dispute

(* A mail that left, whatever is recorded of it.                           *)
LEMMA LeftSound ==
    ASSUME NEW r, NEW n \in Nat, NEW k \in Nat, Sound(r, n), r.email_draft, n <= k
    PROVE  Sound(r, k)
BY DEF Sound

(* The status "sent" of a dispute a mail left for.                         *)
LEMMA SentSound ==
    ASSUME NEW r, NEW n \in Nat, Sound(r, n), r.email_draft, n > 0
    PROVE  Sound([r EXCEPT !.status = "sent"], n) /\ [r EXCEPT !.status = "sent"].email_draft
           /\ Sound([r EXCEPT !.mail = "sent"], n) /\ [r EXCEPT !.mail = "sent"].email_draft
BY DEF Sound, Dispute, DisputeStatus, CandidateStatuses

(* A Gmail draft of a drafted dispute. *)
LEMMA GmailDraftSound ==
    ASSUME NEW r, NEW n \in Nat, Sound(r, n), r.email_draft
    PROVE  Sound(WithGmailDraft(r), n) /\ WithGmailDraft(r).email_draft
BY DEF Sound, Dispute, WithGmailDraft, DisputeStatus, CandidateStatuses

(* What a pass finds and makes ready is sound and drafted.                 *)
LEMMA ReadySound ==
    ASSUME NEW w \in Workers, NEW n \in Nat, EvidenceHolds(w),
           Head(todo[w]) \in Disputes, Sound(dispute[Head(todo[w])], n)
    PROVE  Sound(Ready(w), n) /\ Ready(w).email_draft
<1>1. Sound(Found(w), n)
  BY RecalculatedSound DEF Found
<1> QED BY <1>1, DraftedSound DEF Ready, EvidenceHolds

(***************************************************************************)
(* The parts of a step                                                     *)
(***************************************************************************)

(* A drafted dispute stays drafted. *)
Keeps == \A d \in Disputes : dispute[d].email_draft => dispute'[d].email_draft

DisputesOK == dispute \in [Disputes -> Dispute] /\ left \in [Disputes -> 0 .. MaxMails] /\ Sounds

OrdersOK == order \in [Orders -> OrderStatus] /\ photo \subseteq Orders

WorkersOK ==
    /\ todo \in [Workers -> Seq(Disputes)]
    /\ pc \in [Workers -> {"idle", "loop", "create", "send", "call"}]
    /\ job \in [Workers -> Disputes \cup {None}]
    /\ own \in [Workers -> BOOLEAN]
    /\ Holds

LEMMA Parts == IInv <=> DisputesOK /\ OrdersOK /\ WorkersOK
BY DEF IInv, RefundsTypeOK, DisputesOK, OrdersOK, WorkersOK

LEMMA PartsNext == DisputesOK' /\ OrdersOK' /\ WorkersOK' => IInv'
BY DEF IInv, RefundsTypeOK, DisputesOK, OrdersOK, WorkersOK

LEMMA MailsTyped ==
    ASSUME RefundsAssumption, DisputesOK, NEW d \in Disputes
    PROVE  left[d] \in Nat /\ left[d] <= MaxMails
BY DEF DisputesOK, RefundsAssumption

(* Writing a sound and not less drafted row in the place of one dispute's. *)
LEMMA UpdateStep ==
    ASSUME DisputesOK, NEW d \in Disputes, NEW r, Update(d, r), UNCHANGED left,
           Sound(r, left[d]), dispute[d].email_draft => r.email_draft
    PROVE  DisputesOK' /\ Keeps
<1>1. r \in Dispute
  BY DEF Sound
<1>2. dispute' \in [Disputes -> Dispute]
  BY <1>1 DEF DisputesOK, Update
<1>3. \A e \in Disputes : dispute'[e] = IF e = d THEN r ELSE dispute[e]
  BY DEF DisputesOK, Update
<1> QED BY <1>2, <1>3 DEF DisputesOK, Sounds, Keeps

(* The same, when a mail left for the dispute. *)
LEMMA MailedStep ==
    ASSUME RefundsAssumption, DisputesOK, NEW d \in Disputes, NEW r, Update(d, r),
           NEW n \in 0 .. MaxMails, left' = [left EXCEPT ![d] = n],
           Sound(r, n), r.email_draft
    PROVE  DisputesOK' /\ Keeps
<1>1. r \in Dispute
  BY DEF Sound
<1>2. dispute' \in [Disputes -> Dispute] /\ left' \in [Disputes -> 0 .. MaxMails]
  BY <1>1 DEF DisputesOK, Update
<1>3. \A e \in Disputes : /\ dispute'[e] = IF e = d THEN r ELSE dispute[e]
                          /\ left'[e] = IF e = d THEN n ELSE left[e]
  BY DEF DisputesOK, Update
<1> QED BY <1>2, <1>3 DEF DisputesOK, Sounds, Keeps

LEMMA SameDisputes ==
    ASSUME DisputesOK, UNCHANGED <<dispute, left>>
    PROVE  DisputesOK' /\ Keeps
BY DEF DisputesOK, Sounds, Keeps

LEMMA SameOrders ==
    ASSUME OrdersOK, UNCHANGED <<order, photo>>
    PROVE  OrdersOK'
BY DEF OrdersOK

LEMMA SameWorkers ==
    ASSUME WorkersOK, Keeps, UNCHANGED <<todo, pc, job>>, own' \in [Workers -> BOOLEAN]
    PROVE  WorkersOK'
BY DEF WorkersOK, Holds, Keeps, AtGmail

LEMMA RestStep ==
    ASSUME WorkersOK, Keeps, AtRest
    PROVE  WorkersOK' /\ UNCHANGED left
BY SameWorkers DEF AtRest, WorkersOK

(* Only the last of a list leaves an empty one. *)
LEMMA TailOfList ==
    ASSUME NEW S, NEW s \in Seq(S), s # <<>>
    PROVE  Head(s) \in S /\ Tail(s) \in Seq(S) /\ (Len(s) # 1 => Tail(s) # <<>>)
<1>1. Head(s) \in S /\ Tail(s) \in Seq(S) /\ Len(Tail(s)) = Len(s) - 1
  BY HeadTailProperties
<1>2. Len(s) # 1 => Len(Tail(s)) # 0
  BY <1>1
<1>3. Len(<<>>) = 0
  OBVIOUS
<1> QED BY <1>1, <1>2, <1>3, Zenon

(* The worker goes on to the next dispute of its list. *)
LEMMA NextStep ==
    ASSUME WorkersOK, Keeps, NEW w \in Workers, pc[w] # "idle", NextDispute(w)
    PROVE  WorkersOK'
<1>1. todo[w] \in Seq(Disputes) /\ todo[w] # <<>>
  BY DEF WorkersOK, Holds
<1>2. Tail(todo[w]) \in Seq(Disputes) /\ (Len(todo[w]) # 1 => Tail(todo[w]) # <<>>)
  BY <1>1, TailOfList
<1>3. /\ todo' \in [Workers -> Seq(Disputes)]
      /\ job' \in [Workers -> Disputes \cup {None}]
      /\ own' \in [Workers -> BOOLEAN]
      /\ pc' \in [Workers -> {"idle", "loop", "create", "send", "call"}]
  BY <1>2 DEF WorkersOK, NextDispute
<1>4. ASSUME NEW v \in Workers
      PROVE  /\ pc'[v] # "idle" => todo'[v] # <<>>
             /\ pc'[v] \in AtGmail => job'[v] \in Disputes /\ dispute'[job'[v]].email_draft
             /\ pc'[v] = "call" => MaxMails > 0
  <2>1. CASE v = w
    BY <1>2, <2>1 DEF WorkersOK, NextDispute, AtGmail
  <2>2. CASE v # w
    BY <2>2 DEF WorkersOK, Holds, NextDispute, Keeps, AtGmail
  <2> QED BY <2>1, <2>2
<1> QED BY <1>3, <1>4 DEF WorkersOK, Holds

(* The worker turns to Gmail with a drafted dispute. *)
LEMMA HoldStep ==
    ASSUME WorkersOK, Keeps, NEW w \in Workers, pc[w] # "idle",
           NEW d \in Disputes, dispute'[d].email_draft,
           NEW l \in {"create", "send"}, Hold(w, d, l)
    PROVE  WorkersOK'
<1>1. /\ todo' \in [Workers -> Seq(Disputes)]
      /\ job' \in [Workers -> Disputes \cup {None}]
      /\ own' \in [Workers -> BOOLEAN]
      /\ pc' \in [Workers -> {"idle", "loop", "create", "send", "call"}]
  BY DEF WorkersOK, Hold
<1>2. ASSUME NEW v \in Workers
      PROVE  /\ pc'[v] # "idle" => todo'[v] # <<>>
             /\ pc'[v] \in AtGmail => job'[v] \in Disputes /\ dispute'[job'[v]].email_draft
             /\ pc'[v] = "call" => MaxMails > 0
  <2>1. CASE v = w
    BY <2>1 DEF WorkersOK, Holds, Hold, AtGmail
  <2>2. CASE v # w
    BY <2>2 DEF WorkersOK, Holds, Hold, Keeps, AtGmail
  <2> QED BY <2>1, <2>2
<1> QED BY <1>1, <1>2 DEF WorkersOK, Holds

(* Order statuses are written among those there are. *)
LEMMA OrderWritten ==
    ASSUME RefundsAssumption, OrdersOK, NEW o, NEW x \in OrderStatus,
           order' = [order EXCEPT ![o] = x], photo' \subseteq Orders
    PROVE  OrdersOK'
BY DEF OrdersOK

LEMMA ValidatedTyped == \A x : Validated(x) \in OrderStatus
BY DEF Validated, OrderStatus

(***************************************************************************)
(* Evidence and people                                                     *)
(***************************************************************************)

LEMMA OrderOfTyped == RefundsAssumption => \A d \in Disputes : OrderOf[d] \in Orders
BY DEF RefundsAssumption

(* What comes from outside, for an order. *)
LEMMA OrderActions ==
    ASSUME RefundsAssumption, IInv, NEW o \in Orders,
           ImportOrder(o) \/ UploadReceipt(o) \/ ApplyPayment(o)
    PROVE  IInv'
<1> DisputesOK /\ OrdersOK /\ WorkersOK
  BY Parts
<1>1. CASE ImportOrder(o)
  <2>1. DisputesOK' /\ Keeps
    BY <1>1, SameDisputes DEF ImportOrder, AtRest
  <2>2. OrdersOK'
    BY <1>1 DEF ImportOrder, OrdersOK, OrderStatus
  <2> QED BY <1>1, <2>1, <2>2, RestStep, PartsNext DEF ImportOrder
<1>2. CASE UploadReceipt(o)
  <2>1. DisputesOK' /\ Keeps
    BY <1>2, SameDisputes DEF UploadReceipt, AtRest
  <2>2. OrdersOK'
    BY <1>2, ValidatedTyped DEF UploadReceipt, OrdersOK
  <2> QED BY <1>2, <2>1, <2>2, RestStep, PartsNext DEF UploadReceipt
<1>3. CASE ApplyPayment(o)
  <2>1. OrdersOK'
    BY <1>3 DEF ApplyPayment, OrdersOK, OrderStatus
  <2>2. ASSUME NEW d \in Disputes
        PROVE  Sound(dispute'[d], left[d]) /\ (dispute[d].email_draft => dispute'[d].email_draft)
    <3>1. Sound(dispute[d], left[d])
      BY DEF DisputesOK, Sounds
    <3>2. \/ dispute'[d] = dispute[d]
          \/ dispute'[d] = [dispute[d] EXCEPT !.status = "payment_confirmed"]
      BY <1>3 DEF ApplyPayment
    <3> QED BY <3>1, <3>2 DEF Sound, Dispute, DisputeStatus, PROTECTED_DISPUTE_STATUSES
  <2>3. dispute' \in [Disputes -> Dispute]
    <3>1. dispute' = [d \in Disputes |-> dispute'[d]]
      BY <1>3 DEF ApplyPayment
    <3> QED BY <2>2, <3>1 DEF Sound
  <2>4. DisputesOK' /\ Keeps
    BY <1>3, <2>2, <2>3 DEF DisputesOK, Sounds, Keeps, ApplyPayment, AtRest
  <2> QED BY <1>3, <2>1, <2>4, RestStep, PartsNext DEF ApplyPayment
<1> QED BY <1>1, <1>2, <1>3

(* A request that writes one dispute soundly, the orders and no worker.    *)
LEMMA RequestStep ==
    ASSUME IInv, NEW d \in Disputes, NEW r, Update(d, r), AtRest, OrdersOK',
           Sound(r, left[d]), dispute[d].email_draft => r.email_draft
    PROVE  IInv'
<1>1. UNCHANGED left
  BY DEF AtRest
<1>2. DisputesOK' /\ Keeps
  BY <1>1, Parts, UpdateStep
<1> QED BY <1>2, Parts, PartsNext, RestStep

LEMMA EvidenceActions ==
    ASSUME RefundsAssumption, IInv, NEW d \in Disputes,
           UploadForTask(d) \/ TakeRefundProof(d) \/ Detect(d) \/ Recalculate(d)
    PROVE  IInv'
<1>1. DisputesOK /\ OrdersOK /\ WorkersOK
  BY Parts
<1>2. Sound(dispute[d], left[d]) /\ left[d] \in Nat /\ OrderOf[d] \in Orders
  BY <1>1, MailsTyped, OrderOfTyped DEF DisputesOK, Sounds
<1>3. CASE UploadForTask(d)
  <2> DEFINE p == [dispute[d] EXCEPT !.receipt = TRUE]
  <2>1. Sound(p, left[d]) /\ p.email_draft = dispute[d].email_draft
    BY <1>2 DEF Sound, Dispute
  <2>2. Sound(Refreshed(p), left[d]) /\ Refreshed(p).email_draft = p.email_draft
    <3> HIDE DEF p
    <3> QED BY <1>2, <2>1, RefreshedSound
  <2>3. OrdersOK'
    BY <1>1, <1>2, <1>3, ValidatedTyped DEF UploadForTask, OrdersOK
  <2> QED BY <1>3, <2>1, <2>2, <2>3, RequestStep DEF UploadForTask
<1>4. CASE TakeRefundProof(d)
  <2>1. Sound(ProofOf(dispute[d]), left[d])
        /\ ProofOf(dispute[d]).email_draft = dispute[d].email_draft
    BY <1>2 DEF Sound, Dispute, ProofOf, DisputeStatus, CandidateStatuses
  <2>2. OrdersOK'
    <3>1. order' \in [Orders -> OrderStatus]
      BY <1>1, <1>4, ValidatedTyped DEF TakeRefundProof, OrdersOK
    <3>2. photo' \subseteq Orders
      BY <1>1, <1>2, <1>4 DEF TakeRefundProof, OrdersOK
    <3> QED BY <3>1, <3>2 DEF OrdersOK
  <2> QED BY <1>4, <2>1, <2>2, RequestStep DEF TakeRefundProof
<1>5. CASE Detect(d)
  <2> DEFINE p == NewDispute("needs_evidence", d \in Unclassified, order[OrderOf[d]] # "none")
  <2>1. ~dispute[d].email_draft /\ left[d] = 0
    BY <1>2, <1>5 DEF Sound, Detect, Detected
  <2>2. Sound(p, left[d]) /\ ~p.email_draft
    <3>1. (d \in Unclassified) \in BOOLEAN /\ (order[OrderOf[d]] # "none") \in BOOLEAN
      OBVIOUS
    <3>2. Sound(p, 0) /\ ~p.email_draft
      BY <3>1, OpenedSound, Zenon
    <3> HIDE DEF p
    <3> QED BY <2>1, <3>2
  <2>3. Sound(Recalculated(d, p), left[d])
    <3> HIDE DEF p
    <3> QED BY <1>2, <2>2, RecalculatedSound
  <2>4. OrdersOK'
    BY <1>1, <1>5, SameOrders DEF Detect
  <2> QED BY <1>5, <2>1, <2>3, <2>4, RequestStep DEF Detect
<1>6. CASE Recalculate(d)
  <2>1. Sound(Recalculated(d, dispute[d]), left[d])
        /\ Recalculated(d, dispute[d]).email_draft = dispute[d].email_draft
    BY <1>2, RecalculatedSound
  <2>2. OrdersOK'
    BY <1>1, <1>6, SameOrders DEF Recalculate
  <2> QED BY <1>6, <2>1, <2>2, RequestStep DEF Recalculate
<1> QED BY <1>3, <1>4, <1>5, <1>6

(* Linking the order of a dispute keeps it sound. *)
LEMMA LinkedSound ==
    ASSUME NEW r, NEW n \in Nat, Sound(r, n)
    PROVE  Sound([r EXCEPT !.claim_order = TRUE], n)
           /\ [r EXCEPT !.claim_order = TRUE].email_draft = r.email_draft
BY DEF Sound, Dispute

LEMMA WithOrderSound ==
    ASSUME NEW d \in Disputes, NEW n \in Nat, Sound(dispute[d], n)
    PROVE  Sound(WithOrder(d), n) /\ WithOrder(d).email_draft = dispute[d].email_draft
<1> DEFINE p == [dispute[d] EXCEPT !.claim_order = TRUE]
<1>1. Sound(p, n) /\ p.email_draft = dispute[d].email_draft
  BY LinkedSound
<1>2. WithOrder(d) = Recalculated(d, p)
  BY DEF WithOrder
<1> HIDE DEF p
<1> QED BY <1>1, <1>2, RecalculatedSound

(* A status other than "undetected" and "sent" asks for nothing. *)
LEMMA StatusSound ==
    ASSUME NEW r, NEW n \in Nat, Sound(r, n),
           NEW x \in DisputeStatus \ {"undetected", "sent"}
    PROVE  Sound([r EXCEPT !.status = x], n)
           /\ [r EXCEPT !.status = x].email_draft = r.email_draft
           /\ [r EXCEPT !.status = x].status # "undetected"
BY DEF Sound, Dispute

LEMMA ReviewStatuses ==
    \A t \in ReviewTypes : REVIEW_STATUS_TRANSITIONS[t] \in DisputeStatus \ {"undetected", "sent"}
BY DEF ReviewTypes, REVIEW_STATUS_TRANSITIONS, DisputeStatus, CandidateStatuses,
       PROTECTED_DISPUTE_STATUSES, POSITIVE_CUSTOMER_REFUND_STATUSES

LEMMA ReviewedSound ==
    ASSUME NEW d \in Disputes, NEW t \in ReviewTypes, NEW n \in Nat, Sound(dispute[d], n)
    PROVE  Sound(Reviewed(d, t), n) /\ Reviewed(d, t).email_draft = dispute[d].email_draft
<1> DEFINE r == [dispute[d] EXCEPT !.status = REVIEW_STATUS_TRANSITIONS[t]]
           e == Recalculated(d, r)
           x == IF e.evidence_status = "complete" THEN "evidence_ready" ELSE "needs_evidence"
<1>1. Sound(r, n) /\ r.email_draft = dispute[d].email_draft
  BY ReviewStatuses, StatusSound
<1>2. Sound(e, n) /\ e.email_draft = r.email_draft
  <2> HIDE DEF r
  <2> QED BY <1>1, RecalculatedSound
<1>3. x \in DisputeStatus \ {"undetected", "sent"}
  BY DEF DisputeStatus, CandidateStatuses
<1>4. Sound([e EXCEPT !.status = x], n) /\ [e EXCEPT !.status = x].email_draft = e.email_draft
  <2> HIDE DEF e, x
  <2> QED BY <1>2, <1>3, StatusSound
<1>5. Reviewed(d, t) = IF t # "evidence_requested" THEN r ELSE [e EXCEPT !.status = x]
  BY DEF Reviewed
<1> HIDE DEF r, e, x
<1> QED BY <1>1, <1>2, <1>4, <1>5

LEMMA ReviewStep ==
    ASSUME RefundsAssumption, IInv, NEW d \in Disputes, NEW t \in Decisions, Review(d, t)
    PROVE  IInv'
<1>1. DisputesOK /\ OrdersOK /\ WorkersOK
  BY Parts
<1>2. Sound(dispute[d], left[d]) /\ left[d] \in Nat /\ t \in ReviewTypes
  BY <1>1, MailsTyped DEF DisputesOK, Sounds, RefundsAssumption
<1>3. Sound(Reviewed(d, t), left[d]) /\ Reviewed(d, t).email_draft = dispute[d].email_draft
  BY <1>2, ReviewedSound
<1>4. OrdersOK'
  BY <1>1 DEF Review, OrderReviewed, OrdersOK, OrderStatus
<1> QED BY <1>3, <1>4, RequestStep DEF Review

(* The requests about one dispute. *)
LEMMA RequestActions ==
    ASSUME RefundsAssumption, IInv, NEW d \in Disputes,
           \/ CreateClaimOrder(d) \/ CreateDraft(d) \/ CreateGmailDraft(d)
           \/ Ignore(d) \/ SendByHand(d)
    PROVE  IInv'
<1>1. DisputesOK /\ OrdersOK /\ WorkersOK
  BY Parts
<1>2. Sound(dispute[d], left[d]) /\ left[d] \in Nat /\ OrderOf[d] \in Orders
  BY <1>1, MailsTyped, OrderOfTyped DEF DisputesOK, Sounds
<1>3. CASE CreateClaimOrder(d)
  <2>1. OrdersOK'
    BY <1>1, <1>3 DEF CreateClaimOrder, OrdersOK, OrderStatus
  <2> QED BY <1>2, <1>3, <2>1, WithOrderSound, RequestStep DEF CreateClaimOrder
<1>4. CASE CreateDraft(d)
  <2>1. OrdersOK'
    BY <1>1, <1>4, SameOrders DEF CreateDraft
  <2> QED BY <1>2, <1>4, <2>1, DraftedSound, RequestStep DEF CreateDraft
<1>5. CASE CreateGmailDraft(d)
  <2>1. Sound(WithGmailDraft(dispute[d]), left[d]) /\ WithGmailDraft(dispute[d]).email_draft
    BY <1>2, <1>5, GmailDraftSound DEF CreateGmailDraft
  <2>2. DisputesOK' /\ Keeps
    BY <1>1, <1>5, <2>1, UpdateStep DEF CreateGmailDraft
  <2>3. own' \in [Workers -> BOOLEAN]
    BY <1>5 DEF CreateGmailDraft
  <2>4. WorkersOK'
    BY <1>1, <1>5, <2>2, <2>3, SameWorkers DEF CreateGmailDraft
  <2> QED BY <1>1, <1>5, <2>2, <2>4, SameOrders, PartsNext DEF CreateGmailDraft
<1>6. CASE Ignore(d)
  <2>1. "ignored" \in DisputeStatus \ {"undetected", "sent"}
    BY DEF DisputeStatus, PROTECTED_DISPUTE_STATUSES
  <2>2. OrdersOK'
    BY <1>1, <1>6, SameOrders DEF Ignore
  <2> QED BY <1>2, <1>6, <2>1, <2>2, StatusSound, RequestStep DEF Ignore
<1>7. CASE SendByHand(d)
  <2>1. OrdersOK'
    BY <1>1, <1>7 DEF SendByHand, OrdersOK, OrderStatus
  <2>2. left' = [left EXCEPT ![d] = left[d] + 1] /\ left[d] < MaxMails
    BY <1>7 DEF SendByHand
  <2>3. Sound([dispute[d] EXCEPT !.mail = "sent"], left[d] + 1)
        /\ [dispute[d] EXCEPT !.mail = "sent"].email_draft
    <3>1. dispute[d].email_draft
      BY <1>2, <1>7 DEF Sound, SendByHand
    <3>2. Sound(dispute[d], left[d] + 1)
      BY <1>2, <3>1, LeftSound
    <3>3. left[d] + 1 \in Nat /\ left[d] + 1 > 0
      BY <1>2
    <3> QED BY <3>1, <3>2, <3>3, SentSound
  <2>4. DisputesOK' /\ Keeps
    <3>1. left[d] + 1 \in 0 .. MaxMails
      BY <1>2, <2>2 DEF RefundsAssumption
    <3>2. Update(d, [dispute[d] EXCEPT !.mail = "sent"])
      BY <1>7 DEF SendByHand
    <3> DEFINE r == [dispute[d] EXCEPT !.mail = "sent"]
    <3> HIDE DEF r
    <3> QED BY <1>1, <2>2, <2>3, <3>1, <3>2, MailedStep DEF r
  <2>5. WorkersOK'
    BY <1>1, <1>7, <2>4, SameWorkers DEF SendByHand, WorkersOK
  <2> QED BY <2>1, <2>4, <2>5, PartsNext
<1> QED BY <1>3, <1>4, <1>5, <1>6, <1>7

(* A bulk request writes two disputes, of which one has no order yet. *)
LEMMA BulkAction ==
    ASSUME RefundsAssumption, IInv, NEW d \in Disputes, NEW e \in Disputes,
           BulkCreateClaimOrders(d, e)
    PROVE  IInv'
<1>1. DisputesOK /\ OrdersOK /\ WorkersOK
  BY Parts
<1>2. OrdersOK'
  BY <1>1 DEF BulkCreateClaimOrders, OrdersOK, OrderStatus
<1>3. d # e /\ dispute' = [dispute EXCEPT ![d].claim_order = TRUE, ![e] = WithOrder(e)]
  BY DEF BulkCreateClaimOrders, MayCreateOrder
<1>4. ASSUME NEW f \in Disputes
      PROVE  Sound(dispute'[f], left[f]) /\ dispute'[f].email_draft = dispute[f].email_draft
  <2>1. Sound(dispute[f], left[f]) /\ left[f] \in Nat
    BY <1>1, MailsTyped DEF DisputesOK, Sounds
  <2>2. \/ dispute'[f] = dispute[f]
        \/ dispute'[f] = [dispute[f] EXCEPT !.claim_order = TRUE]
        \/ dispute'[f] = WithOrder(f)
    BY <1>1, <1>3 DEF DisputesOK
  <2> QED BY <2>1, <2>2, LinkedSound, WithOrderSound
<1>5. dispute' = [f \in Disputes |-> dispute'[f]]
  BY <1>1, <1>3 DEF DisputesOK
<1>6. dispute' \in [Disputes -> Dispute]
  BY <1>4, <1>5 DEF Sound
<1>7. DisputesOK' /\ Keeps
  BY <1>1, <1>4, <1>6 DEF DisputesOK, Sounds, Keeps, BulkCreateClaimOrders, AtRest
<1> QED BY <1>1, <1>2, <1>7, RestStep, PartsNext DEF BulkCreateClaimOrders

(***************************************************************************)
(* The pass of a worker                                                    *)
(***************************************************************************)

LEMMA AtTheHead ==
    ASSUME WorkersOK, NEW w \in Workers, pc[w] = "loop"
    PROVE  Head(todo[w]) \in Disputes
BY TailOfList DEF WorkersOK, Holds

LEMMA BeginStep ==
    ASSUME RefundsAssumption, IInv, NEW w \in Workers, BeginPass(w)
    PROVE  IInv'
<1>1. DisputesOK /\ OrdersOK /\ WorkersOK
  BY Parts
<1>2. Listed \in Seq(Disputes) /\ Listed # <<>>
  BY ListOfDisputes DEF BeginPass
<1>3. DisputesOK' /\ OrdersOK' /\ Keeps
  BY <1>1, SameDisputes, SameOrders DEF BeginPass, rows
<1> DEFINE list == Listed
<1>4. todo' = [todo EXCEPT ![w] = list] /\ pc' = [pc EXCEPT ![w] = "loop"] /\ UNCHANGED <<job, own>>
  BY DEF BeginPass
<1>5. WorkersOK'
  <2> HIDE DEF list
  <2>1. list \in Seq(Disputes) /\ list # <<>>
    BY <1>2 DEF list
  <2>2. todo' \in [Workers -> Seq(Disputes)]
    BY <1>1, <1>4, <2>1 DEF WorkersOK
  <2>3. pc' \in [Workers -> {"idle", "loop", "create", "send", "call"}]
    BY <1>1, <1>4 DEF WorkersOK
  <2>4. ASSUME NEW v \in Workers
        PROVE  /\ pc'[v] # "idle" => todo'[v] # <<>>
               /\ pc'[v] \in AtGmail => job'[v] \in Disputes /\ dispute'[job'[v]].email_draft
               /\ pc'[v] = "call" => MaxMails > 0
    <3>1. CASE v = w
      BY <1>1, <1>4, <2>1, <3>1 DEF WorkersOK, AtGmail
    <3>2. CASE v # w
      BY <1>1, <1>3, <1>4, <3>2 DEF WorkersOK, Holds, Keeps, AtGmail
    <3> QED BY <3>1, <3>2
  <2> QED BY <1>1, <1>4, <2>2, <2>3, <2>4 DEF WorkersOK, Holds
<1> QED BY <1>3, <1>5, PartsNext

LEMMA SkipStep ==
    ASSUME RefundsAssumption, IInv, NEW w \in Workers, SkipDispute(w)
    PROVE  IInv'
<1> DEFINE d == Head(todo[w])
<1>1. DisputesOK /\ OrdersOK /\ WorkersOK
  BY Parts
<1>2. d \in Disputes /\ pc[w] = "loop"
  BY <1>1, AtTheHead DEF SkipDispute
<1>3. Sound(dispute[d], left[d]) /\ left[d] \in Nat
  BY <1>1, <1>2, MailsTyped DEF DisputesOK, Sounds
<1>4. DisputesOK' /\ Keeps
  <2>1. CASE UNCHANGED dispute
    BY <1>1, <2>1, SameDisputes DEF SkipDispute
  <2>2. CASE Update(d, Found(w))
    <3>1. Sound(Found(w), left[d]) /\ Found(w).email_draft = dispute[d].email_draft
      BY <1>2, <1>3, RecalculatedSound DEF Found
    <3> HIDE DEF d
    <3> QED BY <1>1, <1>2, <2>2, <3>1, UpdateStep DEF SkipDispute
  <2> QED BY <2>1, <2>2 DEF SkipDispute
<1>5. OrdersOK' /\ WorkersOK'
  BY <1>1, <1>2, <1>4, SameOrders, NextStep DEF SkipDispute
<1> QED BY <1>4, <1>5, PartsNext

(* The dispute a pass found ready: told that it was sent, left for later,  *)
(* or taken to Gmail.                                                      *)
LEMMA TurnStep ==
    ASSUME RefundsAssumption, IInv, NEW w \in Workers,
           RepairSent(w) \/ NotNow(w) \/ TakeDraft(w) \/ AskDraft(w)
    PROVE  IInv'
<1> DEFINE d == Head(todo[w])
<1>1. DisputesOK /\ OrdersOK /\ WorkersOK
  BY Parts
<1>2. pc[w] = "loop" /\ EvidenceHolds(w) /\ UNCHANGED <<order, photo, left>>
  BY DEF RepairSent, NotNow, TakeDraft, AskDraft, AtTurn
<1>3. d \in Disputes
  BY <1>1, <1>2, AtTheHead
<1>4. left[d] \in Nat /\ Sound(dispute[d], left[d])
  BY <1>1, <1>3, MailsTyped DEF DisputesOK, Sounds
<1>5. Sound(Ready(w), left[d]) /\ Ready(w).email_draft
  BY <1>2, <1>3, <1>4, ReadySound
<1>6. OrdersOK'
  BY <1>1, <1>2, SameOrders
<1> HIDE DEF d
<1>7. ASSUME NEW r, Update(d, r), Sound(r, left[d]), r.email_draft
      PROVE  DisputesOK' /\ Keeps /\ dispute'[d].email_draft
  <2>1. DisputesOK' /\ Keeps
    BY <1>1, <1>2, <1>3, <1>7, UpdateStep
  <2>2. dispute'[d] = r
    BY <1>1, <1>3, <1>7 DEF DisputesOK, Update
  <2> QED BY <1>7, <2>1, <2>2
<1>8. CASE RepairSent(w)
  <2> DEFINE r == [Ready(w) EXCEPT !.status = "sent"]
  <2>1. left[d] > 0
    BY <1>5, <1>8 DEF Sound, RepairSent
  <2>2. Sound(r, left[d]) /\ r.email_draft
    BY <1>4, <1>5, <2>1, SentSound
  <2>3. Update(d, r) /\ NextDispute(w)
    BY <1>8 DEF RepairSent, d
  <2>4. DisputesOK' /\ Keeps
    <3> HIDE DEF r
    <3> QED BY <1>7, <2>2, <2>3
  <2> QED BY <1>1, <1>2, <1>6, <2>3, <2>4, NextStep, PartsNext
<1>9. CASE NotNow(w)
  <2> DEFINE r == [Ready(w) EXCEPT !.mail = IF @ = "retryable" THEN "draft" ELSE @]
  <2>1. Sound(r, left[d]) /\ r.email_draft
    BY <1>4, <1>5, <1>9, MailSound DEF NotNow
  <2>2. Update(d, r) /\ NextDispute(w)
    BY <1>9 DEF NotNow, d
  <2>3. DisputesOK' /\ Keeps
    <3> HIDE DEF r
    <3> QED BY <1>7, <2>1, <2>2
  <2> QED BY <1>1, <1>2, <1>6, <2>2, <2>3, NextStep, PartsNext
<1>10. ASSUME NEW m \in {"none", "draft"}, NEW l \in {"create", "send"},
              Update(d, [Ready(w) EXCEPT !.mail = m]), Hold(w, d, l)
       PROVE  IInv'
  <2> DEFINE r == [Ready(w) EXCEPT !.mail = m]
  <2>1. Sound(r, left[d]) /\ r.email_draft
    BY <1>4, <1>5, MailSound
  <2>2. Update(d, r)
    BY <1>10
  <2>3. DisputesOK' /\ Keeps /\ dispute'[d].email_draft
    <3> HIDE DEF r
    <3> QED BY <1>7, <2>1, <2>2
  <2> QED BY <1>1, <1>2, <1>3, <1>6, <1>10, <2>3, HoldStep, PartsNext
<1>11. CASE TakeDraft(w)
  BY <1>10, <1>11 DEF TakeDraft, d
<1>12. CASE AskDraft(w)
  BY <1>10, <1>12 DEF AskDraft, d
<1> QED BY <1>8, <1>9, <1>11, <1>12

(* What a worker holds at Gmail. *)
LEMMA AtTheJob ==
    ASSUME RefundsAssumption, DisputesOK, WorkersOK, NEW w \in Workers, pc[w] \in AtGmail
    PROVE  /\ job[w] \in Disputes /\ dispute[job[w]].email_draft
           /\ Sound(dispute[job[w]], left[job[w]])
           /\ left[job[w]] \in Nat /\ left[job[w]] <= MaxMails
           /\ pc[w] = "call" => MaxMails > 0
<1>1. job[w] \in Disputes /\ dispute[job[w]].email_draft /\ (pc[w] = "call" => MaxMails > 0)
  BY DEF WorkersOK, Holds
<1> QED BY <1>1, MailsTyped DEF DisputesOK, Sounds

(* The row of the job with the provider draft told, or left alone. *)
Told(w, m) == IF own[w] THEN [dispute[job[w]] EXCEPT !.mail = m] ELSE dispute[job[w]]

LEMMA WithMailIsTold ==
    ASSUME DisputesOK, NEW w \in Workers, job[w] \in Disputes, NEW m
    PROVE  /\ WithMail(w, m) = [dispute EXCEPT ![job[w]] = Told(w, m)]
           /\ [WithMail(w, m) EXCEPT ![job[w]].status = "sent"]
                = [dispute EXCEPT ![job[w]] = [Told(w, m) EXCEPT !.status = "sent"]]
BY DEF WithMail, Told, DisputesOK

LEMMA RecordDraftStep ==
    ASSUME RefundsAssumption, IInv, NEW w \in Workers, RecordDraft(w)
    PROVE  IInv'
<1>1. DisputesOK /\ OrdersOK /\ WorkersOK
  BY Parts
<1>2. pc[w] \in AtGmail
  BY DEF RecordDraft, AtGmail
<1>3. DisputesOK' /\ Keeps
  <2>1. Sound(WithGmailDraft(dispute[job[w]]), left[job[w]]) /\ WithGmailDraft(dispute[job[w]]).email_draft
    BY <1>1, <1>2, AtTheJob, GmailDraftSound
  <2> QED BY <1>1, <1>2, <2>1, AtTheJob, UpdateStep DEF RecordDraft
<1>4. pc' = [pc EXCEPT ![w] = "send"] /\ UNCHANGED <<todo, job>> /\ own' \in [Workers -> BOOLEAN]
  <2>1. \A v \in Workers : (IF v = w THEN TRUE ELSE own[v] /\ v \notin Holders(job[w])) \in BOOLEAN
    BY <1>1 DEF WorkersOK
  <2> QED BY <2>1 DEF RecordDraft
<1>5. WorkersOK'
  BY <1>1, <1>2, <1>3, <1>4 DEF WorkersOK, Holds, Keeps, AtGmail
<1> QED BY <1>1, <1>3, <1>5, SameOrders, PartsNext DEF RecordDraft

LEMMA RequestSendStep ==
    ASSUME RefundsAssumption, IInv, NEW w \in Workers, RequestSend(w)
    PROVE  IInv'
<1> DEFINE d == job[w]
           r == Told(w, "send_requested")
<1>1. DisputesOK /\ OrdersOK /\ WorkersOK
  BY Parts
<1>2. /\ d \in Disputes /\ dispute[d].email_draft /\ Sound(dispute[d], left[d])
      /\ left[d] \in Nat /\ left[d] < MaxMails
  BY <1>1, AtTheJob DEF RequestSend, AtGmail
<1>3. Sound(r, left[d]) /\ r.email_draft
  BY <1>2, MailSound DEF Told
<1>4. Update(d, r)
  BY <1>1, <1>2, WithMailIsTold DEF RequestSend, Update
<1>5. DisputesOK' /\ Keeps
  <2> HIDE DEF d, r
  <2> QED BY <1>1, <1>2, <1>3, <1>4, UpdateStep DEF RequestSend
<1>6. MaxMails > 0
  BY <1>2 DEF RefundsAssumption
<1>7. pc[w] = "send" /\ pc' = [pc EXCEPT ![w] = "call"] /\ UNCHANGED <<todo, job, own>>
  BY DEF RequestSend
<1>8. WorkersOK'
  BY <1>1, <1>5, <1>6, <1>7 DEF WorkersOK, Holds, Keeps, AtGmail
<1> QED BY <1>1, <1>5, <1>8, SameOrders, PartsNext DEF RequestSend

LEMMA GiveUpStep ==
    ASSUME RefundsAssumption, IInv, NEW w \in Workers, GiveUp(w)
    PROVE  IInv'
<1>1. DisputesOK /\ OrdersOK /\ WorkersOK
  BY Parts
<1>2. DisputesOK' /\ OrdersOK' /\ Keeps
  BY <1>1, SameDisputes, SameOrders DEF GiveUp, rows
<1>3. WorkersOK'
  BY <1>1, <1>2, NextStep DEF GiveUp
<1> QED BY <1>2, <1>3, PartsNext

(* The mail that left is counted up to the bound. *)
Another(n) == IF n < MaxMails THEN n + 1 ELSE n

LEMMA AnotherMail ==
    ASSUME RefundsAssumption, MaxMails > 0, NEW n \in Nat, n <= MaxMails
    PROVE  Another(n) \in 0 .. MaxMails /\ Another(n) \in Nat /\ Another(n) > 0 /\ n <= Another(n)
BY DEF Another, RefundsAssumption

LEMMA RecordSentStep ==
    ASSUME RefundsAssumption, IInv, NEW w \in Workers, RecordSent(w)
    PROVE  IInv'
<1> DEFINE d == job[w]
           n == Another(left[d])
           r == [Told(w, "sent") EXCEPT !.status = "sent"]
<1>1. DisputesOK /\ OrdersOK /\ WorkersOK
  BY Parts
<1>2. /\ d \in Disputes /\ dispute[d].email_draft /\ Sound(dispute[d], left[d])
      /\ left[d] \in Nat /\ left[d] <= MaxMails /\ MaxMails > 0 /\ pc[w] = "call"
  BY <1>1, AtTheJob DEF RecordSent, AtGmail
<1>3. n \in 0 .. MaxMails /\ n \in Nat /\ n > 0 /\ left[d] <= n
  BY <1>2, AnotherMail
<1>4. Sound(r, n) /\ r.email_draft
  <2> HIDE DEF d, n
  <2>1. Sound(dispute[d], n)
    BY <1>2, <1>3, LeftSound
  <2>2. Sound(Told(w, "sent"), n) /\ Told(w, "sent").email_draft
    BY <1>2, <1>3, <2>1, SentSound DEF Told, d
  <2> QED BY <1>3, <2>2, SentSound
<1>5. Update(d, r) /\ left' = [left EXCEPT ![d] = n]
  BY <1>1, <1>2, WithMailIsTold DEF RecordSent, Update, Another
<1>6. DisputesOK' /\ Keeps
  <2> HIDE DEF d, r, n
  <2> QED BY <1>1, <1>2, <1>3, <1>4, <1>5, MailedStep
<1>7. OrdersOK'
  BY <1>1 DEF RecordSent, OrdersOK, OrderStatus
<1>8. WorkersOK'
  BY <1>1, <1>2, <1>6, NextStep DEF RecordSent
<1> QED BY <1>6, <1>7, <1>8, PartsNext

LEMMA RecordFailedStep ==
    ASSUME RefundsAssumption, IInv, NEW w \in Workers, RecordFailed(w)
    PROVE  IInv'
<1> DEFINE d == job[w]
           n == Another(left[d])
<1>1. DisputesOK /\ OrdersOK /\ WorkersOK
  BY Parts
<1>2. /\ d \in Disputes /\ dispute[d].email_draft /\ Sound(dispute[d], left[d])
      /\ left[d] \in Nat /\ left[d] <= MaxMails /\ MaxMails > 0 /\ pc[w] = "call"
  BY <1>1, AtTheJob DEF RecordFailed, AtGmail
<1>3. ASSUME NEW m \in {"draft", "retryable", "failed"}, NEW k \in Nat, Sound(dispute[d], k)
      PROVE  Sound(Told(w, m), k) /\ Told(w, m).email_draft
  BY <1>2, <1>3, MailSound DEF Told
<1>4. DisputesOK' /\ Keeps
  <2>1. ASSUME NEW m \in {"draft", "retryable", "failed"}, dispute' = WithMail(w, m), UNCHANGED left
        PROVE  DisputesOK' /\ Keeps
    <3>1. Update(d, Told(w, m))
      BY <1>1, <1>2, <2>1, WithMailIsTold DEF Update
    <3>2. Sound(Told(w, m), left[d]) /\ Told(w, m).email_draft
      BY <1>2, <1>3
    <3> HIDE DEF d
    <3> QED BY <1>1, <1>2, <2>1, <3>1, <3>2, UpdateStep
  <2>2. ASSUME dispute' = WithMail(w, "failed"), left' = [left EXCEPT ![d] = n]
        PROVE  DisputesOK' /\ Keeps
    <3>1. n \in 0 .. MaxMails /\ n \in Nat /\ left[d] <= n
      BY <1>2, AnotherMail
    <3>2. Update(d, Told(w, "failed"))
      BY <1>1, <1>2, <2>2, WithMailIsTold DEF Update
    <3> HIDE DEF d, n
    <3>3. Sound(dispute[d], n)
      BY <1>2, <3>1, LeftSound
    <3>4. Sound(Told(w, "failed"), n) /\ Told(w, "failed").email_draft
      BY <1>3, <3>1, <3>3
    <3> QED BY <1>1, <1>2, <2>2, <3>1, <3>2, <3>4, MailedStep
  <2> QED BY <2>1, <2>2 DEF RecordFailed, Another
<1>5. OrdersOK'
  BY <1>1, SameOrders DEF RecordFailed
<1>6. WorkersOK'
  BY <1>1, <1>2, <1>4, NextStep DEF RecordFailed
<1> QED BY <1>4, <1>5, <1>6, PartsNext

LEMMA DieStep ==
    ASSUME RefundsAssumption, IInv, NEW w \in Workers, Die(w)
    PROVE  IInv'
<1> DEFINE d == job[w]
           n == Another(left[d])
<1>1. DisputesOK /\ OrdersOK /\ WorkersOK
  BY Parts
<1>2. DisputesOK' /\ Keeps
  <2>1. CASE UNCHANGED left
    BY <1>1, <2>1, SameDisputes DEF Die, rows
  <2>2. CASE pc[w] = "call" /\ left' = [left EXCEPT ![d] = n]
    <3>1. /\ d \in Disputes /\ dispute[d].email_draft /\ Sound(dispute[d], left[d])
          /\ left[d] \in Nat /\ left[d] <= MaxMails /\ MaxMails > 0
      BY <1>1, <2>2, AtTheJob DEF AtGmail
    <3>2. n \in 0 .. MaxMails /\ n \in Nat /\ left[d] <= n
      BY <3>1, AnotherMail
    <3>3. Update(d, dispute[d])
      BY <1>1, <3>1 DEF Die, rows, Update, DisputesOK
    <3> HIDE DEF d, n
    <3> QED BY <1>1, <2>2, <3>1, <3>2, <3>3, LeftSound, MailedStep
  <2> QED BY <2>1, <2>2 DEF Die, Another
<1>3. OrdersOK'
  BY <1>1, SameOrders DEF Die, rows
<1>4. WorkersOK'
  <2>1. /\ todo' = [todo EXCEPT ![w] = <<>>] /\ pc' = [pc EXCEPT ![w] = "idle"]
        /\ job' = [job EXCEPT ![w] = None] /\ own' = [own EXCEPT ![w] = FALSE]
    BY DEF Die
  <2>2. <<>> \in Seq(Disputes)
    OBVIOUS
  <2>3. /\ todo' \in [Workers -> Seq(Disputes)]
        /\ pc' \in [Workers -> {"idle", "loop", "create", "send", "call"}]
        /\ job' \in [Workers -> Disputes \cup {None}]
        /\ own' \in [Workers -> BOOLEAN]
    BY <1>1, <2>1, <2>2 DEF WorkersOK
  <2>4. Holds'
    BY <1>1, <1>2, <2>1 DEF WorkersOK, Holds, Keeps, AtGmail
  <2> QED BY <2>3, <2>4 DEF WorkersOK
<1> QED BY <1>2, <1>3, <1>4, PartsNext

(***************************************************************************)
(* The theorems                                                            *)
(***************************************************************************)

LEMMA InitIInv == RefundsAssumption /\ Init => IInv
<1> SUFFICES ASSUME RefundsAssumption, Init PROVE IInv
  OBVIOUS
<1>1. Sound(NoDispute, 0)
  BY DEF Sound, NoDispute, NewDispute, Dispute, DisputeStatus
<1>2. NoDispute \in Dispute /\ 0 \in 0 .. MaxMails
  BY <1>1 DEF Sound, RefundsAssumption
<1>3. DisputesOK
  <2>1. \A d \in Disputes : dispute[d] = NoDispute /\ left[d] = 0
    BY DEF Init
  <2>2. dispute \in [Disputes -> Dispute] /\ left \in [Disputes -> 0 .. MaxMails]
    BY <1>2 DEF Init
  <2> QED BY <1>1, <2>1, <2>2 DEF DisputesOK, Sounds
<1>4. OrdersOK
  BY DEF Init, OrdersOK, OrderStatus
<1>5. WorkersOK
  <2>1. <<>> \in Seq(Disputes)
    OBVIOUS
  <2> QED BY <2>1 DEF Init, WorkersOK, Holds, AtGmail
<1> QED BY <1>3, <1>4, <1>5, Parts

LEMMA NextIInv == RefundsAssumption /\ IInv /\ [Next]_vars => IInv'
<1> SUFFICES ASSUME RefundsAssumption, IInv, [Next]_vars PROVE IInv'
  OBVIOUS
<1>1. CASE UNCHANGED vars
  BY <1>1 DEF vars, IInv, RefundsTypeOK, Sounds, Holds
<1>2. ASSUME NEW o \in Orders, ImportOrder(o) \/ UploadReceipt(o) \/ ApplyPayment(o)
      PROVE  IInv'
  BY <1>2, OrderActions
<1>3. ASSUME NEW d \in Disputes,
             \/ UploadForTask(d) \/ TakeRefundProof(d) \/ Detect(d) \/ Recalculate(d)
             \/ CreateClaimOrder(d) \/ CreateDraft(d) \/ CreateGmailDraft(d)
             \/ Ignore(d) \/ SendByHand(d)
      PROVE  IInv'
  BY <1>3, EvidenceActions, RequestActions
<1>4. ASSUME NEW d \in Disputes, NEW e \in Disputes, BulkCreateClaimOrders(d, e)
      PROVE  IInv'
  BY <1>4, BulkAction
<1>5. ASSUME NEW d \in Disputes, NEW t \in Decisions, Review(d, t) \/ SyncPositiveReview(d, t)
      PROVE  IInv'
  BY <1>5, ReviewStep DEF SyncPositiveReview, SyncLinked
<1>6. ASSUME NEW w \in Workers, Pass(w) \/ Die(w)
      PROVE  IInv'
  BY <1>6, BeginStep, SkipStep, TurnStep, RecordDraftStep, RequestSendStep, GiveUpStep,
     RecordSentStep, RecordFailedStep, DieStep DEF Pass
<1> QED BY <1>1, <1>2, <1>3, <1>4, <1>5, <1>6 DEF Next

THEOREM Inductive == Spec => []IInv
<1>1. RefundsAssumption
  BY RefundsAssumption
<1> QED BY <1>1, InitIInv, NextIInv, PTL DEF Spec

(* The disputes, their orders and the lists of the workers keep their      *)
(* types; a list is one of disputes because every rank has its dispute.    *)
THEOREM RefundsTypeInvariant == Spec => []RefundsTypeOK
<1>1. IInv => RefundsTypeOK
  BY DEF IInv
<1> QED BY <1>1, Inductive, PTL

(* Whoever sends, however many workers: no mail about a dispute leaves     *)
(* without its claim order and its receipt.                                *)
THEOREM ProvenMails == Spec => []MailsAreProven
<1>1. IInv => MailsAreProven
  BY MailsTyped, Parts DEF Sound, Sounds, DisputesOK, MailsAreProven, IInv
<1> QED BY <1>1, Inductive, PTL

(* A dispute that says it was sent did leave Gmail.                        *)
THEOREM SentLeft == Spec => []SentDisputesLeft
<1>1. IInv => SentDisputesLeft
  BY DEF Sound, Sounds, SentDisputesLeft, IInv
<1> QED BY <1>1, Inductive, PTL
===============================================================================
