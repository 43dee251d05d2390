-------------------------- MODULE WatchedThreadsProofs --------------------------
(***************************************************************************)
(* Proofs about WatchedThreads, for any number of conversations and        *)
(* orders, any scripts and any limits: first the replies, with IInv, then  *)
(* the tables and the stars, with WInv, which needs IInv.                  *)
(***************************************************************************)
EXTENDS WatchedThreads, SequenceTheorems, FiniteSetTheorems, WellFoundedInduction, TLAPS

(***************************************************************************)
(* The inductive invariant of the replies                                  *)
(***************************************************************************)

(* The rows and the mails of the replies, and what Uber posted.            *)
RepliesTyped ==
    /\ mail \in Seq(Mail) /\ Len(mail) <= MaxMessages
    /\ reply \in [Messages -> DraftStatus] /\ proof \in [Threads -> DraftStatus]
    /\ heard \in [Threads -> Nat]
    /\ mails \in [Messages -> Nat] /\ lost \in [Messages -> Nat]

(* A mail that left and whose answer was not lost keeps its message from   *)
(* another: the request is still there, or the reply is on record.         *)
Closed(m) == Draft(m) = "send_requested" \/ heard[Thread(m)] >= m

AnsweredOnce ==
    \A m \in Posted : Kind(m) # "waiting" =>
        \/ mails[m] <= lost[m]
        \/ mails[m] <= lost[m] + 1 /\ Closed(m)

(* Nothing leaves for a message that has not come. *)
NoneBefore == \A m \in Messages : m > Len(mail) => mails[m] = 0

IInv == RepliesTyped /\ AnsweredOnce /\ NoneBefore

(***************************************************************************)
(* Messages                                                                *)
(***************************************************************************)

LEMMA PostedTyped ==
    ASSUME WatchedAssumption, RepliesTyped
    PROVE  /\ Len(mail) \in Nat /\ Posted = 1 .. Len(mail) /\ Posted \subseteq Messages
           /\ \A m \in Posted : Thread(m) \in Threads /\ Kind(m) \in MessageKinds
<1>1. Len(mail) \in Nat /\ Posted = 1 .. Len(mail)
  BY LenProperties DEF RepliesTyped, Posted
<1>2. Posted \subseteq Messages
  BY <1>1 DEF RepliesTyped, Messages, WatchedAssumption
<1>3. \A m \in Posted : mail[m] \in Mail
  BY <1>1, ElementOfSeq DEF RepliesTyped
<1> QED BY <1>1, <1>2, <1>3 DEF Mail, Thread, Kind

(* A set of row numbers has a first one. *)
LEMMA FirstRow ==
    ASSUME NEW T \in SUBSET Nat, T # {}
    PROVE  \E x \in T : \A y \in T : x <= y
<1> DEFINE R == OpToRel(<, Nat)
<1>1. IsWellFoundedOn(R, Nat)
  BY NatLessThanWellFounded
<1>2. \A x, y \in Nat : <<y, x>> \in R <=> y < x
  BY DEF OpToRel
<1> HIDE DEF R
<1>3. PICK x \in T : \A y \in T : ~ (<<y, x>> \in R)
  BY <1>1, WFMin
<1>4. \A y \in T : ~ (y < x)
  <2> SUFFICES ASSUME NEW y \in T, y < x
               PROVE  FALSE
    OBVIOUS
  <2>1. x \in Nat /\ y \in Nat
    OBVIOUS
  <2> QED BY <1>2, <1>3, <2>1, Zenon
<1> QED BY <1>4

(* A set of numbers up to n has a last one. *)
LEMMA LastRow ==
    ASSUME NEW n \in Nat, NEW T \in SUBSET (1 .. n), T # {}
    PROVE  \E x \in T : \A y \in T : y <= x
<1> DEFINE U == {n - x : x \in T}
<1>1. U \in SUBSET Nat /\ U # {}
  <2>1. \A x \in T : n - x \in Nat
    OBVIOUS
  <2>2. PICK x : x \in T
    OBVIOUS
  <2>3. n - x \in U
    BY <2>2
  <2> QED BY <2>1, <2>3
<1>2. PICK u \in U : \A v \in U : u <= v
  BY <1>1, FirstRow
<1>3. PICK x \in T : u = n - x
  OBVIOUS
<1>4. \A y \in T : n - x <= n - y
  BY <1>2, <1>3
<1>5. \A y \in T : y <= x
  BY <1>4
<1> QED BY <1>5

(* The latest of some messages is one of them, and none is after it. *)
LEMMA LatestIsLast ==
    ASSUME WatchedAssumption, RepliesTyped, NEW S \in SUBSET Posted, S # {}
    PROVE  Latest(S) \in S /\ \A n \in S : n <= Latest(S)
<1>1. \E m \in S : \A n \in S : n <= m
  BY PostedTyped, LastRow
<1> QED BY <1>1 DEF Latest

(***************************************************************************)
(* The steps                                                               *)
(***************************************************************************)

(* Only the replies write these. *)
LEMMA QuietStep ==
    ASSUME IInv, UNCHANGED <<mail, reply, proof, heard, mails, lost>>
    PROVE  IInv'
BY DEF IInv, RepliesTyped, AnsweredOnce, NoneBefore, Closed, Draft, Posted, Thread, Kind

LEMMA PostStep ==
    ASSUME WatchedAssumption, IInv, NEW t \in Threads, NEW k \in MessageKinds, Post(t, k)
    PROVE  IInv'
<1> DEFINE it == [thread |-> t, kind |-> k]
           n == Len(mail) + 1
<1>1. it \in Mail
  BY DEF Mail
<1>2. RepliesTyped /\ Len(mail) \in Nat /\ Posted = 1 .. Len(mail)
  BY PostedTyped DEF IInv
<1>3. mail' = Append(mail, it) /\ UNCHANGED <<reply, proof, heard, mails, lost>>
  BY DEF Post
<1> HIDE DEF it
<1>4. /\ mail' \in Seq(Mail) /\ Len(mail') = n
      /\ \A i \in 1 .. Len(mail) : mail'[i] = mail[i]
  BY <1>1, <1>2, <1>3, AppendProperties DEF RepliesTyped
<1>5. n <= MaxMessages
  <2>1. PICK s \in Scripts : IsPrefix(mail', s)
    BY DEF Post
  <2>2. Len(s) <= MaxMessages /\ Len(s) \in Nat
    BY LenProperties DEF WatchedAssumption
  <2>3. Len(mail') <= Len(s)
    BY <2>1 DEF IsPrefix
  <2> QED BY <1>2, <1>4, <2>2, <2>3 DEF WatchedAssumption
<1>6. RepliesTyped'
  BY <1>2, <1>3, <1>4, <1>5 DEF RepliesTyped
<1>7. Posted' = 1 .. n
  BY <1>4, LenProperties DEF Posted
<1>8. AnsweredOnce'
  <2> SUFFICES ASSUME NEW m \in 1 .. n, Kind(m)' # "waiting"
               PROVE  \/ mails'[m] <= lost'[m]
                      \/ mails'[m] <= lost'[m] + 1 /\ Closed(m)'
    BY <1>7 DEF AnsweredOnce
  <2>1. CASE m \in 1 .. Len(mail)
    <3>1. mail'[m] = mail[m]
      BY <1>4, <2>1
    <3>2. Kind(m)' = Kind(m) /\ (Closed(m)' <=> Closed(m))
      BY <1>3, <3>1 DEF Kind, Thread, Closed, Draft
    <3> QED BY <1>2, <1>3, <2>1, <3>2 DEF IInv, AnsweredOnce
  <2>2. CASE m = n
    <3>1. n \in Messages /\ n > Len(mail)
      BY <1>2, <1>5 DEF Messages, WatchedAssumption
    <3>2. mails[m] = 0 /\ lost[m] \in Nat
      BY <1>2, <2>2, <3>1 DEF IInv, NoneBefore, RepliesTyped
    <3> QED BY <1>3, <3>2
  <2> QED BY <1>2, <2>1, <2>2
<1>9. NoneBefore'
  BY <1>2, <1>3, <1>4 DEF IInv, NoneBefore, Messages
<1> QED BY <1>6, <1>8, <1>9 DEF IInv

(* A try of m writes its draft and perhaps a mail.  What another message   *)
(* of the conversation had closed stays closed, since the draft they share *)
(* is touched only when it is not a request in flight.                     *)
LEMMA TryStep ==
    ASSUME WatchedAssumption, IInv, NEW m \in Posted, MayReply(m),
           NEW d \in DraftStatus, SetDraft(m, d), UNCHANGED mail,
           heard' \in [Threads -> Nat],
           \A t \in Threads : heard'[t] = heard[t] \/ heard'[t] = Len(mail),
           NEW a \in {0, 1}, NEW b \in {0, 1},
           mails' = [mails EXCEPT ![m] = @ + a], lost' = [lost EXCEPT ![m] = @ + b],
           \/ a = b
           \/ d = "send_requested"
           \/ heard'[Thread(m)] = Len(mail)
    PROVE  IInv'
<1>1. RepliesTyped /\ Len(mail) \in Nat /\ Posted = 1 .. Len(mail) /\ Posted \subseteq Messages
      /\ \A k \in Posted : Thread(k) \in Threads /\ Kind(k) \in MessageKinds
  BY PostedTyped DEF IInv
<1>2. \A k \in Messages : /\ mails'[k] = IF k = m THEN mails[k] + a ELSE mails[k]
                          /\ lost'[k] = IF k = m THEN lost[k] + b ELSE lost[k]
                          /\ mails[k] \in Nat /\ lost[k] \in Nat
  BY <1>1 DEF RepliesTyped
<1>3. RepliesTyped'
  <2>1. mails' \in [Messages -> Nat] /\ lost' \in [Messages -> Nat]
    <3>1. mails \in [Messages -> Nat] /\ lost \in [Messages -> Nat]
      BY <1>1 DEF RepliesTyped
    <3>2. m \in Messages /\ mails[m] + a \in Nat /\ lost[m] + b \in Nat
      BY <1>1, <1>2
    <3> QED BY <3>1, <3>2
  <2>2. reply' \in [Messages -> DraftStatus] /\ proof' \in [Threads -> DraftStatus]
    BY <1>1 DEF RepliesTyped, SetDraft
  <2> QED BY <1>1, <2>1, <2>2 DEF RepliesTyped
<1>4. Draft(m)' = d /\ \A k \in Posted : Draft(k)' = Draft(k) \/ (Draft(k)' = d /\ Draft(k) = Draft(m))
  <2>1. \A k : Kind(k)' = Kind(k) /\ Thread(k)' = Thread(k)
    BY DEF Kind, Thread
  <2>2. \A k \in Posted : Draft(k)' = IF Kind(k) = "evidence" THEN proof'[Thread(k)] ELSE reply'[k]
    BY <2>1 DEF Draft
  <2>3. reply \in [Messages -> DraftStatus] /\ proof \in [Threads -> DraftStatus]
    BY <1>1 DEF RepliesTyped
  <2>4. CASE Kind(m) = "evidence"
    <3>1. proof' = [proof EXCEPT ![Thread(m)] = d] /\ reply' = reply
      BY <2>4 DEF SetDraft
    <3>2. \A t \in Threads : proof'[t] = IF t = Thread(m) THEN d ELSE proof[t]
      BY <2>3, <3>1
    <3>3. Draft(m) = proof[Thread(m)] /\ Draft(m)' = d
      BY <1>1, <2>2, <2>4, <3>2 DEF Draft
    <3>4. ASSUME NEW k \in Posted PROVE Draft(k)' = Draft(k) \/ (Draft(k)' = d /\ Draft(k) = Draft(m))
      <4>1. CASE Kind(k) = "evidence"
        <5>1. Draft(k) = proof[Thread(k)] /\ Draft(k)' = proof'[Thread(k)] /\ Thread(k) \in Threads
          BY <1>1, <2>2, <4>1 DEF Draft
        <5> QED BY <3>2, <3>3, <5>1
      <4>2. CASE Kind(k) # "evidence"
        <5>1. Draft(k) = reply[k] /\ Draft(k)' = reply'[k]
          BY <2>2, <4>2 DEF Draft
        <5> QED BY <3>1, <5>1
      <4> QED BY <4>1, <4>2
    <3> QED BY <3>3, <3>4
  <2>5. CASE Kind(m) # "evidence"
    <3>1. reply' = [reply EXCEPT ![m] = d] /\ proof' = proof
      BY <2>5 DEF SetDraft
    <3>2. \A k \in Messages : reply'[k] = IF k = m THEN d ELSE reply[k]
      BY <2>3, <3>1
    <3>3. Draft(m) = reply[m] /\ Draft(m)' = d
      BY <1>1, <2>2, <2>5, <3>2 DEF Draft
    <3>4. ASSUME NEW k \in Posted PROVE Draft(k)' = Draft(k) \/ (Draft(k)' = d /\ Draft(k) = Draft(m))
      <4>1. CASE Kind(k) = "evidence"
        <5>1. Draft(k) = proof[Thread(k)] /\ Draft(k)' = proof'[Thread(k)]
          BY <2>2, <4>1 DEF Draft
        <5> QED BY <3>1, <5>1
      <4>2. CASE Kind(k) # "evidence"
        <5>1. Draft(k) = reply[k] /\ Draft(k)' = reply'[k] /\ k \in Messages
          BY <1>1, <2>2, <4>2 DEF Draft
        <5> QED BY <3>2, <3>3, <5>1
      <4> QED BY <4>1, <4>2
    <3> QED BY <3>3, <3>4
  <2> QED BY <2>4, <2>5
<1>5. Draft(m) # "send_requested"
  BY DEF MayReply
<1>6. \A k \in Posted : Closed(k) => Closed(k)'
  <2> SUFFICES ASSUME NEW k \in Posted, Closed(k)
               PROVE  Closed(k)'
    OBVIOUS
  <2>1. Thread(k)' = Thread(k) /\ Thread(k) \in Threads
    BY <1>1 DEF Thread
  <2>2. CASE Draft(k) = "send_requested"
    BY <1>4, <1>5, <2>2 DEF Closed
  <2>3. CASE heard[Thread(k)] >= k
    <3>1. heard'[Thread(k)] >= k
      BY <1>1, <2>1, <2>3
    <3> QED BY <2>1, <3>1 DEF Closed
  <2> QED BY <2>2, <2>3 DEF Closed
<1>7. AnsweredOnce'
  <2>1. Posted' = Posted /\ \A k : Kind(k)' = Kind(k) /\ Thread(k)' = Thread(k)
    BY DEF Posted, Kind, Thread
  <2> SUFFICES ASSUME NEW k \in Posted, Kind(k) # "waiting"
               PROVE  \/ mails'[k] <= lost'[k]
                      \/ mails'[k] <= lost'[k] + 1 /\ Closed(k)'
    BY <2>1 DEF AnsweredOnce
  <2>2. CASE k # m
    BY <1>1, <1>2, <1>6, <2>2 DEF IInv, AnsweredOnce
  <2>3. CASE k = m
    <3>1. ~Closed(m)
      BY <1>1, <1>5, <2>3 DEF MayReply, Closed, RepliesTyped
    <3>2. mails[m] <= lost[m]
      BY <2>3, <3>1 DEF IInv, AnsweredOnce
    <3>3. CASE a = b
      BY <1>1, <1>2, <2>3, <3>2, <3>3
    <3>4. CASE d = "send_requested" \/ heard'[Thread(m)] = Len(mail)
      <4>1. Closed(m)'
        BY <1>1, <1>4, <2>1, <3>4 DEF Closed
      <4>2. mails'[m] <= lost'[m] + 1
        <5>1. /\ mails'[m] = mails[m] + a /\ lost'[m] = lost[m] + b
              /\ mails[m] \in Nat /\ lost[m] \in Nat
          BY <1>1, <1>2
        <5> QED BY <3>2, <5>1
      <4> QED BY <2>3, <4>1, <4>2
    <3> QED BY <3>3, <3>4
  <2> QED BY <2>2, <2>3
<1>8. NoneBefore'
  BY <1>1, <1>2 DEF IInv, NoneBefore
<1> QED BY <1>3, <1>7, <1>8 DEF IInv

LEMMA RepliesStep ==
    ASSUME WatchedAssumption, IInv, NEW m \in Posted,
           ReplySent(m) \/ ReplyFailed(m) \/ ReplyDeferred(m) \/ ReplyDies(m)
    PROVE  IInv'
<1>1. /\ Len(mail) \in Nat /\ Len(mail) <= MaxMessages /\ heard \in [Threads -> Nat]
      /\ m \in Messages /\ Thread(m) \in Threads
      /\ mails \in [Messages -> Nat] /\ lost \in [Messages -> Nat]
  BY PostedTyped DEF IInv, RepliesTyped
<1>2. MayReply(m) /\ UNCHANGED mail
  BY DEF ReplySent, ReplyFailed, ReplyDeferred, ReplyDies, Ready, gmail
<1>3. Thread(m)' = Thread(m) /\ mails = [mails EXCEPT ![m] = @ + 0] /\ lost = [lost EXCEPT ![m] = @ + 0]
  BY <1>1, <1>2 DEF Thread
<1>4. CASE ReplySent(m)
  <2>1. /\ SetDraft(m, "sent") /\ mails' = [mails EXCEPT ![m] = @ + 1] /\ lost' = lost
        /\ heard' = [heard EXCEPT ![Thread(m)] = Len(mail)]
    BY <1>4 DEF ReplySent, Mailed
  <2>2. /\ heard' \in [Threads -> Nat] /\ heard'[Thread(m)] = Len(mail)
        /\ \A t \in Threads : heard'[t] = heard[t] \/ heard'[t] = Len(mail)
    BY <1>1, <2>1
  <2>3. lost' = [lost EXCEPT ![m] = @ + 0] /\ "sent" \in DraftStatus
    BY <1>3, <2>1 DEF DraftStatus
  <2> QED BY <1>2, <2>1, <2>2, <2>3, TryStep
<1>5. CASE ReplyFailed(m)
  <2>1. SetDraft(m, "failed") /\ heard' = heard /\ "failed" \in DraftStatus
    BY <1>5 DEF ReplyFailed, DraftStatus
  <2>2. \/ mails' = [mails EXCEPT ![m] = @ + 1] /\ lost' = [lost EXCEPT ![m] = @ + 1]
        \/ mails' = [mails EXCEPT ![m] = @ + 0] /\ lost' = [lost EXCEPT ![m] = @ + 0]
    BY <1>3, <1>5 DEF ReplyFailed, Mailed
  <2>3. heard' \in [Threads -> Nat] /\ \A t \in Threads : heard'[t] = heard[t]
    BY <1>1, <2>1
  <2>4. CASE mails' = [mails EXCEPT ![m] = @ + 1] /\ lost' = [lost EXCEPT ![m] = @ + 1]
    BY <1>2, <2>1, <2>3, <2>4, TryStep
  <2>5. CASE mails' = [mails EXCEPT ![m] = @ + 0] /\ lost' = [lost EXCEPT ![m] = @ + 0]
    BY <1>2, <2>1, <2>3, <2>5, TryStep
  <2> QED BY <2>2, <2>4, <2>5
<1>6. CASE ReplyDeferred(m)
  <2>1. SetDraft(m, "provider_draft_created") /\ "provider_draft_created" \in DraftStatus
    BY <1>6 DEF ReplyDeferred, DraftStatus
  <2>2. /\ mails' = [mails EXCEPT ![m] = @ + 0] /\ lost' = [lost EXCEPT ![m] = @ + 0]
        /\ heard' = heard
    BY <1>3, <1>6 DEF ReplyDeferred
  <2>3. heard' \in [Threads -> Nat] /\ \A t \in Threads : heard'[t] = heard[t]
    BY <1>1, <2>2
  <2> QED BY <1>2, <2>1, <2>2, <2>3, TryStep
<1>7. CASE ReplyDies(m)
  <2>1. SetDraft(m, "send_requested") /\ heard' = heard /\ "send_requested" \in DraftStatus
    BY <1>7 DEF ReplyDies, DraftStatus
  <2>2. /\ lost' = [lost EXCEPT ![m] = @ + 0]
        /\ \/ mails' = [mails EXCEPT ![m] = @ + 1]
           \/ mails' = [mails EXCEPT ![m] = @ + 0]
    BY <1>3, <1>7 DEF ReplyDies, Mailed
  <2> QED BY <1>1, <1>2, <2>1, <2>2, TryStep
<1> QED BY <1>4, <1>5, <1>6, <1>7

(* Where a mail comes from. *)
LEMMA MailsFromReady ==
    ASSUME WatchedAssumption, IInv, Next, NEW m \in Posted, mails'[m] > mails[m]
    PROVE  Ready(m)
<1> USE DEF rows, gmail, sends
<1>1. mails \in [Messages -> Nat] /\ m \in Messages
  BY PostedTyped DEF IInv, RepliesTyped
<1>2. mails' # mails
  BY <1>1
<1>3. ~Environment
  BY <1>2 DEF Environment, Post, Star, CooldownEnds, DeleteThread, ConfirmOfficialPayment
<1>4. ~(Begin \/ ProcessPendingLocal \/ ListActiveThreads \/ PollIsCut \/ SelectReplies \/ StopReplies)
  BY <1>2 DEF Begin, ProcessPendingLocal, ListActiveThreads, PollIsCut, SelectReplies, StopReplies
<1>5. ~Poll
  BY <1>2 DEF Poll, BlockPositiveCleanup, CleanPositive, PollThread, CloseMissing, PollFails
<1>6. ~(DiscoverStars \/ DiscoveryFails \/ ImportRecent \/ ReprocessBacklog \/ EndPass \/ RecentFails)
  BY <1>2 DEF DiscoverStars, DiscoveryFails, ImportRecent, ReprocessBacklog, EndPass, RecentFails
<1>7. PICK k \in Posted : \/ LeaveUnsafe(k) \/ PassOver(k) \/ ProofIsMissing(k)
                          \/ ReplySent(k) \/ ReplyFailed(k) \/ ReplyDeferred(k) \/ ReplyDies(k)
  BY <1>3, <1>4, <1>5, <1>6 DEF Next, Replies
<1>8. Ready(k) /\ mails' = [mails EXCEPT ![k] = @ + 1]
  BY <1>2, <1>7 DEF LeaveUnsafe, PassOver, ProofIsMissing, ReplySent, ReplyFailed, ReplyDeferred,
                    ReplyDies, Mailed
<1>9. k = m
  BY <1>1, <1>8
<1> QED BY <1>8, <1>9

LEMMA NextIInv ==
    ASSUME WatchedAssumption, IInv, [Next]_vars
    PROVE  IInv'
<1> USE DEF rows, gmail, sends
<1>1. CASE UNCHANGED vars
  BY <1>1, QuietStep DEF vars
<1>2. CASE Environment
  <2>1. ASSUME NEW t \in Threads, NEW k \in MessageKinds, Post(t, k)
        PROVE  IInv'
    BY <2>1, PostStep
  <2>2. ASSUME NEW m \in Posted, Star(m) \/ CooldownEnds(m)
        PROVE  IInv'
    BY <2>2, QuietStep DEF Star, CooldownEnds
  <2>3. ASSUME NEW t \in Threads, DeleteThread(t)
        PROVE  IInv'
    BY <2>3, QuietStep DEF DeleteThread
  <2>4. ASSUME NEW o \in Orders, ConfirmOfficialPayment(o)
        PROVE  IInv'
    BY <2>4, QuietStep DEF ConfirmOfficialPayment
  <2> QED BY <1>2, <2>1, <2>2, <2>3, <2>4 DEF Environment
<1>3. CASE Begin \/ ProcessPendingLocal \/ ListActiveThreads
  BY <1>3, QuietStep DEF Begin, ProcessPendingLocal, ListActiveThreads
<1>4. CASE Poll
  <2>1. PICK t \in Threads : \/ BlockPositiveCleanup(t) \/ CleanPositive(t) \/ PollThread(t)
                             \/ CloseMissing(t) \/ PollFails(t)
    BY <1>4 DEF Poll
  <2> QED BY <2>1, QuietStep
          DEF BlockPositiveCleanup, CleanPositive, PollThread, CloseMissing, PollFails
<1>5. CASE PollIsCut \/ SelectReplies \/ StopReplies
  BY <1>5, QuietStep DEF PollIsCut, SelectReplies, StopReplies
<1>6. CASE Replies
  <2>1. PICK m \in Posted : \/ LeaveUnsafe(m) \/ PassOver(m) \/ ProofIsMissing(m)
                            \/ ReplySent(m) \/ ReplyFailed(m) \/ ReplyDeferred(m) \/ ReplyDies(m)
    BY <1>6 DEF Replies
  <2>2. CASE LeaveUnsafe(m) \/ PassOver(m) \/ ProofIsMissing(m)
    BY <2>2, QuietStep DEF LeaveUnsafe, PassOver, ProofIsMissing
  <2>3. CASE ReplySent(m) \/ ReplyFailed(m) \/ ReplyDeferred(m) \/ ReplyDies(m)
    BY <2>3, RepliesStep
  <2> QED BY <2>1, <2>2, <2>3
<1>7. CASE DiscoverStars \/ DiscoveryFails
  BY <1>7, QuietStep DEF DiscoverStars, DiscoveryFails
<1>8. CASE ImportRecent \/ ReprocessBacklog \/ EndPass \/ RecentFails
  BY <1>8, QuietStep DEF ImportRecent, ReprocessBacklog, EndPass, RecentFails
<1> QED BY <1>1, <1>2, <1>3, <1>4, <1>5, <1>6, <1>7, <1>8 DEF Next

LEMMA InitIInv == ASSUME WatchedAssumption, Init PROVE IInv
<1>1. mail \in Seq(Mail) /\ Len(mail) = 0 /\ Posted = 1 .. 0
  <2>1. mail = <<>>
    BY DEF Init
  <2> QED BY <2>1, EmptySeq, LenProperties DEF Posted
<1> QED BY <1>1 DEF Init, IInv, RepliesTyped, AnsweredOnce, NoneBefore, DraftStatus, WatchedAssumption

(***************************************************************************)
(* Theorems about the replies                                              *)
(***************************************************************************)

(* The invariant of the replies holds of every pass: their rows and mails  *)
(* are typed, and each mail Gmail did not lose closes its message.         *)
THEOREM Inductive == Spec => []IInv
<1> USE WatchedAssumption
<1>1. Init => IInv
  BY InitIInv
<1>2. IInv /\ [Next]_vars => IInv'
  BY NextIInv
<1> QED BY <1>1, <1>2, PTL DEF Spec

(* send_pending_actionable_replies answers a refusal or a request for      *)
(* evidence a second time only after a mail that left although Gmail       *)
(* reported an error.                                                      *)
THEOREM RepeatsNeedLostAnswers == Spec => []RepeatsFollowLostAnswers
<1> USE WatchedAssumption
<1>1. IInv => RepeatsFollowLostAnswers
  <2> SUFFICES ASSUME IInv, NEW m \in Posted, Kind(m) # "waiting"
               PROVE  mails[m] <= 1 + lost[m]
    BY DEF RepeatsFollowLostAnswers
  <2>1. m \in Messages
    BY PostedTyped DEF IInv
  <2>2. mails[m] \in Nat /\ lost[m] \in Nat
    BY <2>1 DEF IInv, RepliesTyped
  <2>3. mails[m] <= lost[m] \/ mails[m] <= lost[m] + 1
    BY DEF IInv, AnsweredOnce
  <2> QED BY <2>2, <2>3
<1> QED BY <1>1, Inductive, PTL

(* A reply leaves only for the message latest_reply_block_reason found to  *)
(* be Uber's last word, surveys aside.                                     *)
THEOREM LatestIsAnswered == Spec => RepliesAnswerTheLatest
<1> USE WatchedAssumption
<1>1. IInv /\ [Next]_vars =>
        [\A m \in Posted : mails'[m] > mails[m] =>
           \A n \in In(Thread(m)) :
              m < n /\ n <= pass.seen[Thread(m)] => Kind(n) = "survey"]_vars
  <2> SUFFICES ASSUME IInv, Next, NEW m \in Posted, mails'[m] > mails[m],
                      NEW n \in In(Thread(m)), m < n, n <= pass.seen[Thread(m)]
               PROVE  Kind(n) = "survey"
    OBVIOUS
  <2>1. Answered(Thread(m)) = m
    BY MailsFromReady DEF Ready
  <2>2. m \in Nat /\ n \in Nat /\ m # 0 /\ In(Thread(m)) \subseteq Posted
    BY PostedTyped DEF IInv, In
  <2>3. CASE Kind(pass.seen[Thread(m)]) # "survey"
    BY <2>1, <2>2, <2>3 DEF Answered
  <2>4. CASE Kind(pass.seen[Thread(m)]) = "survey"
    <3>1. Latest(Substantive(In(Thread(m)))) = m
      BY <2>1, <2>2, <2>4 DEF Answered
    <3> SUFFICES ASSUME Kind(n) # "survey" PROVE FALSE
      OBVIOUS
    <3>2. n \in Substantive(In(Thread(m))) /\ Substantive(In(Thread(m))) \subseteq Posted
      BY <2>2 DEF Substantive, OfKind
    <3>3. n <= m
      BY <3>1, <3>2, LatestIsLast DEF IInv
    <3> QED BY <2>2, <3>3
  <2> QED BY <2>3, <2>4
<1> QED BY <1>1, Inductive, PTL DEF Spec, RepliesAnswerTheLatest

(***************************************************************************)
(* The rows, as the record a chain of operators hands on                   *)
(***************************************************************************)

(* A record of the tables with typed rows, in which the starred message a  *)
(* watched conversation began with is one of its own.                      *)
Tables ==
    [inbox : [Messages -> InboundEmailMessage], watch : [Threads -> GmailWatchedThread],
     item : [Messages -> GmailStarredWorkItem], order : [Orders -> OrderStatus],
     promised : SUBSET Orders]

FirstsOwn(w) == \A t \in Threads : w[t].first \in In(t) \cup {0}

Sound(r) == r \in Tables /\ FirstsOwn(r.watch)

(* Every operator rewrites some fields of some rows: what it makes of one  *)
(* table is typed when each row is.                                        *)
LEMMA UpsertedSound ==
    ASSUME NEW r, Sound(r), NEW m \in Messages
    PROVE  Sound(Upserted(r, m))
<1>1. /\ r \in Tables /\ r.inbox \in [Messages -> InboundEmailMessage]
      /\ r.order \in [Orders -> OrderStatus] /\ FirstsOwn(r.watch)
  BY DEF Sound, Tables
<1>2. CASE r.inbox[m].known
  <2> DEFINE row == [[r.inbox[m] EXCEPT !.label = m \in star]
                       EXCEPT !.review = IF m \in star /\ ~r.inbox[m].label THEN "unreviewed" ELSE @]
             box == [r.inbox EXCEPT ![m] = row]
  <2>1. row \in InboundEmailMessage
    <3>1. r.inbox[m] \in InboundEmailMessage
      BY <1>1
    <3>2. \A x \in InboundEmailMessage : \A b \in BOOLEAN, v \in {"unreviewed", x.review} :
            [[x EXCEPT !.label = b] EXCEPT !.review = v] \in InboundEmailMessage
      BY DEF InboundEmailMessage
    <3>3. row = [[r.inbox[m] EXCEPT !.label = m \in star]
                   EXCEPT !.review = IF m \in star /\ ~r.inbox[m].label THEN "unreviewed"
                                     ELSE r.inbox[m].review]
      BY <3>1 DEF InboundEmailMessage
    <3> DEFINE x == r.inbox[m]
               lab == m \in star
               v == IF lab /\ ~x.label THEN "unreviewed" ELSE x.review
    <3>4. row = [[x EXCEPT !.label = lab] EXCEPT !.review = v] /\ v \in {"unreviewed", x.review}
      BY <3>3
    <3>5. x \in InboundEmailMessage /\ lab \in BOOLEAN
      BY <3>1
    <3> HIDE DEF lab, v, row, x
    <3> QED BY <3>2, <3>4, <3>5
  <2>2. Upserted(r, m) = [r EXCEPT !.inbox = box]
    BY <1>1, <1>2 DEF Upserted, Tables, InboundEmailMessage
  <2> HIDE DEF row
  <2> QED BY <1>1, <2>1, <2>2 DEF Sound, Tables
<1>3. CASE ~r.inbox[m].known
  BY <1>1, <1>3 DEF Upserted, Sound, Tables, InboundEmailMessage, OrderStatus
<1> QED BY <1>2, <1>3

LEMMA AnalyzedSound ==
    ASSUME WatchedAssumption, RepliesTyped, NEW r, Sound(r), NEW m \in Posted
    PROVE  Sound(Analyzed(r, m))
<1>1. /\ r \in Tables /\ r.inbox \in [Messages -> InboundEmailMessage]
      /\ r.order \in [Orders -> OrderStatus] /\ r.promised \in SUBSET Orders
      /\ FirstsOwn(r.watch) /\ m \in Messages
  BY PostedTyped DEF Sound, Tables
<1>2. Claim(m) # NoOrder => Claim(m) \in Orders
  BY PostedTyped DEF Claim, WatchedAssumption
<1> DEFINE after(v, ord, pr) == [r EXCEPT !.inbox[m].review = v, !.order = ord, !.promised = pr]
<1>3. ASSUME NEW v \in {"reviewed", "ignored"}, NEW ord \in [Orders -> OrderStatus], NEW pr \in SUBSET Orders
      PROVE  Sound(after(v, ord, pr))
  <2>1. [r.inbox[m] EXCEPT !.review = v] \in InboundEmailMessage
    BY <1>1 DEF InboundEmailMessage
  <2>2. [r.inbox EXCEPT ![m].review = v] \in [Messages -> InboundEmailMessage]
    BY <1>1, <2>1
  <2> QED BY <1>1, <2>2 DEF Sound, Tables
<1>4. CASE Applies(r, m)
  <2> DEFINE ord == [r.order EXCEPT ![Claim(m)] = REVIEW_STATUS_TRANSITIONS[Kind(m)]]
             pr == IF Kind(m) = "promise" THEN r.promised \cup {Claim(m)} ELSE r.promised
  <2>1. ord \in [Orders -> OrderStatus] /\ pr \in SUBSET Orders
    BY <1>1, <1>2, <1>4 DEF Applies, REVIEW_STATUS_TRANSITIONS, OrderStatus, FOLLOWUP_TERMINAL_ORDER_STATUSES
  <2>2. Analyzed(r, m) = after("reviewed", ord, pr)
    BY <1>1, <1>4 DEF Analyzed, Tables
  <2> HIDE DEF ord, pr, after
  <2> QED BY <1>3, <2>1, <2>2
<1>5. CASE ~Applies(r, m)
  <2>1. [r EXCEPT !.inbox[m].review = "ignored"] = after("ignored", r.order, r.promised)
    BY <1>1 DEF Tables
  <2>2. Analyzed(r, m) = r \/ Analyzed(r, m) = [r EXCEPT !.inbox[m].review = "ignored"]
    BY <1>5 DEF Analyzed
  <2> HIDE DEF after
  <2>3. Sound(after("ignored", r.order, r.promised))
    BY <1>1, <1>3
  <2> QED BY <2>1, <2>2, <2>3
<1> QED BY <1>4, <1>5

LEMMA ClassifiedSound ==
    ASSUME WatchedAssumption, RepliesTyped, NEW r, Sound(r), NEW m \in Posted
    PROVE  Sound(Classified(r, m))
<1>1. /\ r \in Tables /\ r.inbox \in [Messages -> InboundEmailMessage] /\ m \in Messages
      /\ FirstsOwn(r.watch)
  BY PostedTyped DEF Sound, Tables
<1>2. [r.inbox[m] EXCEPT !.review = "reviewed"] \in InboundEmailMessage
  BY <1>1 DEF InboundEmailMessage
<1>3. [r.inbox EXCEPT ![m].review = "reviewed"] \in [Messages -> InboundEmailMessage]
  BY <1>1, <1>2
<1>4. Sound([r EXCEPT !.inbox[m].review = "reviewed"])
  BY <1>1, <1>3 DEF Sound, Tables
<1> QED BY <1>4, AnalyzedSound DEF Classified

LEMMA LabelledSound ==
    ASSUME NEW r, Sound(r), NEW m \in Messages
    PROVE  Sound([r EXCEPT !.inbox[m].label = FALSE])
<1>1. r \in Tables /\ r.inbox \in [Messages -> InboundEmailMessage] /\ FirstsOwn(r.watch)
  BY DEF Sound, Tables
<1>2. [r.inbox[m] EXCEPT !.label = FALSE] \in InboundEmailMessage
  BY <1>1 DEF InboundEmailMessage
<1>3. [r.inbox EXCEPT ![m].label = FALSE] \in [Messages -> InboundEmailMessage]
  BY <1>1, <1>2
<1> QED BY <1>1, <1>3 DEF Sound, Tables

LEMMA UnstarredSound ==
    ASSUME NEW r, Sound(r), NEW t \in Threads
    PROVE  Sound(Unstarred(r, t))
<1>1. /\ r \in Tables /\ r.inbox \in [Messages -> InboundEmailMessage]
      /\ r.watch \in [Threads -> GmailWatchedThread] /\ FirstsOwn(r.watch)
  BY DEF Sound, Tables
<1> DEFINE box == [m \in Messages |-> IF m \in In(t) THEN [r.inbox[m] EXCEPT !.label = FALSE]
                                      ELSE r.inbox[m]]
           w == [r.watch EXCEPT ![t].star = FALSE]
<1>2. \A m \in Messages : [r.inbox[m] EXCEPT !.label = FALSE] \in InboundEmailMessage
  BY <1>1 DEF InboundEmailMessage
<1>3. box \in [Messages -> InboundEmailMessage]
  BY <1>1, <1>2
<1>4. w \in [Threads -> GmailWatchedThread] /\ \A u \in Threads : w[u].first = r.watch[u].first
  BY <1>1 DEF GmailWatchedThread
<1>5. Unstarred(r, t) = [r EXCEPT !.watch = w, !.inbox = box]
  BY <1>1 DEF Unstarred, Tables
<1> HIDE DEF box, w
<1> QED BY <1>1, <1>3, <1>4, <1>5 DEF Sound, Tables, FirstsOwn

LEMMA UpdatedSound ==
    ASSUME WatchedAssumption, RepliesTyped, NEW r, Sound(r), NEW m \in Posted
    PROVE  /\ Sound(Updated(r, m)) /\ Updated(r, m).order = r.order
           /\ Updated(r, m).item[m].status = "positive" => Accounted(r, m)
<1>1. /\ r \in Tables /\ r.item \in [Messages -> GmailStarredWorkItem]
      /\ r.watch \in [Threads -> GmailWatchedThread] /\ FirstsOwn(r.watch)
      /\ r.inbox[m].label \in BOOLEAN
      /\ m \in Messages /\ Thread(m) \in Threads
  BY PostedTyped DEF Sound, Tables, InboundEmailMessage
<1> DEFINE waiting == /\ Kind(m) = "waiting" /\ Claim(m) # NoOrder
                      /\ r.inbox[m].review = "unreviewed"
           st(s) == [r.item EXCEPT ![m] = [status |-> s, bound |-> TRUE,
                                           reason |-> IF waiting THEN "waiting" ELSE "other"]]
           keeps == r.watch[Thread(m)].star \/ r.inbox[m].label
                      \/ Kind(m) \in {"refusal", "evidence", "promise", "closed"}
           w(s) == [r.watch EXCEPT ![Thread(m)] = [status |-> s, star |-> keeps,
                                                   first |-> r.watch[Thread(m)].first]]
           after(s, v) == [r EXCEPT !.item = st(s), !.watch = w(v)]
           became(s, v) ==
             [r EXCEPT !.item[m] = [status |-> s, bound |-> TRUE,
                                    reason |-> IF waiting THEN "waiting" ELSE "other"],
                       !.watch[Thread(m)].status = v,
                       !.watch[Thread(m)].star = @ \/ r.inbox[m].label
                                                   \/ Kind(m) \in {"refusal", "evidence",
                                                                   "promise", "closed"}]
<1>2. ASSUME NEW s, NEW v
      PROVE  became(s, v) = after(s, v)
  <2> DEFINE old == r.watch[Thread(m)]
             w2 == [r.watch EXCEPT ![Thread(m)].status = v, ![Thread(m)].star = keeps]
             i2 == st(s)
  <2>1. old \in GmailWatchedThread
    BY <1>1
  <2>2. [[old EXCEPT !.status = v] EXCEPT !.star = keeps] = [status |-> v, star |-> keeps, first |-> old.first]
    <3>1. ASSUME NEW x \in GmailWatchedThread, NEW k, NEW z
          PROVE  [[x EXCEPT !.status = z] EXCEPT !.star = k] = [status |-> z, star |-> k, first |-> x.first]
      <4>1. [x EXCEPT !.status = z] = [status |-> z, star |-> x.star, first |-> x.first]
        BY DEF GmailWatchedThread
      <4>2. [[status |-> z, star |-> x.star, first |-> x.first] EXCEPT !.star = k]
              = [status |-> z, star |-> k, first |-> x.first]
        OBVIOUS
      <4> QED BY <4>1, <4>2
    <3> HIDE DEF old, keeps
    <3> QED BY <2>1, <3>1
  <2>3. w2 = w(v)
    <3> HIDE DEF keeps
    <3> QED BY <1>1, <2>2
  <2>4. became(s, v) = [r EXCEPT !.item = i2, !.watch = w2]
    BY <1>1, <2>1 DEF Tables, GmailWatchedThread
  <2> HIDE DEF w2, w, i2
  <2> QED BY <2>3, <2>4 DEF i2
<1>3. \/ Updated(r, m) = became("positive", "positive") /\ Accounted(r, m)
      \/ Updated(r, m) = became("refused", "active")
      \/ Updated(r, m) = became("evidence_needed", "active")
      \/ Updated(r, m) = became("manual_review", "manual_review")
  BY DEF Updated
<1>4. \A s \in {"positive", "refused", "evidence_needed", "manual_review"} :
        st(s) \in [Messages -> GmailStarredWorkItem] /\ st(s)[m].status = s
  BY <1>1 DEF GmailStarredWorkItem, SKIPPABLE_FINAL_WORK_ITEM_STATUSES, RECOVERABLE_PROOF_REPLY_REASONS,
              SAFE_FOLLOWUP_WORK_ITEM_REASONS
<1>5. \A s \in {"positive", "active", "manual_review"} :
        w(s) \in [Threads -> GmailWatchedThread] /\ FirstsOwn(w(s))
  BY <1>1 DEF GmailWatchedThread, FirstsOwn
<1> HIDE DEF st, w
<1>6. ASSUME NEW s \in {"positive", "refused", "evidence_needed", "manual_review"},
             NEW v \in {"positive", "active", "manual_review"}
      PROVE  /\ Sound(after(s, v)) /\ after(s, v).order = r.order
             /\ after(s, v).item[m].status = s
  BY <1>1, <1>4, <1>5 DEF Sound, Tables
<1> HIDE DEF after, became
<1> QED BY <1>2, <1>3, <1>6
LEMMA WithItemSound ==
    ASSUME NEW r, Sound(r), NEW m \in Messages
    PROVE  Sound(WithItem(r, m))
<1>1. r \in Tables /\ r.item \in [Messages -> GmailStarredWorkItem] /\ FirstsOwn(r.watch)
  BY DEF Sound, Tables
<1> DEFINE s == IF r.item[m].status = "none" THEN "pending" ELSE r.item[m].status
           row == [status |-> s, bound |-> TRUE, reason |-> r.item[m].reason]
<1>2. row \in GmailStarredWorkItem
  <2>1. r.item[m] \in GmailStarredWorkItem
    BY <1>1
  <2> QED BY <2>1 DEF GmailStarredWorkItem
<1>3. WithItem(r, m) = [r EXCEPT !.item = [r.item EXCEPT ![m] = row]]
  <2>1. r.item[m] \in GmailStarredWorkItem
    BY <1>1
  <2>2. [[r.item[m] EXCEPT !.bound = TRUE] EXCEPT !.status = s] = row
    <3>1. ASSUME NEW x \in GmailStarredWorkItem, NEW z, NEW b
          PROVE  [[x EXCEPT !.bound = b] EXCEPT !.status = z]
                   = [status |-> z, bound |-> b, reason |-> x.reason]
      <4>1. [x EXCEPT !.bound = b] = [status |-> x.status, bound |-> b, reason |-> x.reason]
        BY DEF GmailStarredWorkItem
      <4>2. [[status |-> x.status, bound |-> b, reason |-> x.reason] EXCEPT !.status = z]
              = [status |-> z, bound |-> b, reason |-> x.reason]
        OBVIOUS
      <4> QED BY <4>1, <4>2
    <3> HIDE DEF s
    <3> QED BY <2>1, <3>1
  <2>3. WithItem(r, m) = [r EXCEPT !.item = [r.item EXCEPT ![m].bound = TRUE, ![m].status = s]]
    BY <1>1, <2>1 DEF WithItem, Tables, GmailStarredWorkItem
  <2>4. [r.item EXCEPT ![m].bound = TRUE, ![m].status = s] = [r.item EXCEPT ![m] = row]
    <3> HIDE DEF row, s
    <3> QED BY <1>1, <2>2
  <2> HIDE DEF row, s
  <2> QED BY <2>3, <2>4
<1> HIDE DEF row
<1> QED BY <1>1, <1>2, <1>3 DEF Sound, Tables

LEMMA UnsafeSound ==
    ASSUME NEW r, Sound(r), NEW S
    PROVE  Sound(Unsafe(r, S))
<1>1. /\ r \in Tables /\ r.item \in [Messages -> GmailStarredWorkItem]
      /\ r.watch \in [Threads -> GmailWatchedThread] /\ FirstsOwn(r.watch)
  BY DEF Sound, Tables
<1> DEFINE i == [m \in Messages |->
                   IF m \in S THEN [r.item[m] EXCEPT !.status = "skipped", !.reason = "other"]
                   ELSE r.item[m]]
           w == [t \in Threads |->
                   IF \E m \in S : Thread(m) = t
                   THEN [r.watch[t] EXCEPT !.status = "manual_review"] ELSE r.watch[t]]
<1>2. i \in [Messages -> GmailStarredWorkItem]
  <2>1. \A x \in GmailStarredWorkItem :
          [x EXCEPT !.status = "skipped", !.reason = "other"] \in GmailStarredWorkItem
    BY DEF GmailStarredWorkItem
  <2> QED BY <1>1, <2>1
<1>3. w \in [Threads -> GmailWatchedThread] /\ \A t \in Threads : w[t].first = r.watch[t].first
  <2>1. \A x \in GmailWatchedThread :
          /\ [x EXCEPT !.status = "manual_review"] \in GmailWatchedThread
          /\ [x EXCEPT !.status = "manual_review"].first = x.first
    BY DEF GmailWatchedThread
  <2> QED BY <1>1, <2>1
<1>4. Unsafe(r, S) = [r EXCEPT !.item = i, !.watch = w]
  BY <1>1 DEF Unsafe, Tables
<1> HIDE DEF i, w
<1> QED BY <1>1, <1>2, <1>3, <1>4 DEF Sound, Tables, FirstsOwn

LEMMA QueuedSound ==
    ASSUME NEW r, Sound(r), NEW m \in Messages
    PROVE  Sound(Queued(r, m))
BY UpsertedSound, WithItemSound DEF Queued

LEMMA MadeActionableSound ==
    ASSUME WatchedAssumption, RepliesTyped, NEW r, Sound(r), NEW m \in Posted
    PROVE  Sound(MadeActionable(r, m))
<1>1. r \in Tables /\ r.order \in [Orders -> OrderStatus] /\ FirstsOwn(r.watch)
  BY DEF Sound, Tables
<1>2. [r.order EXCEPT ![Claim(m)] = "refused"] \in [Orders -> OrderStatus]
  BY <1>1 DEF OrderStatus
<1> QED BY <1>1, <1>2 DEF MadeActionable, Sound, Tables

LEMMA DiscoveredSound ==
    ASSUME WatchedAssumption, RepliesTyped, Sound(Db)
    PROVE  Sound(Discovered)
<1>1. /\ Db \in Tables /\ watch \in [Threads -> GmailWatchedThread]
      /\ item \in [Messages -> GmailStarredWorkItem] /\ FirstsOwn(watch)
  BY DEF Sound, Tables, Db
<1> DEFINE refs(t) == star \cap In(t)
           stale(t, m) == /\ watch[t].status = "positive" /\ ~watch[t].star
                          /\ m = watch[t].first \/ item[m].status # "none"
           row(t) == [status |-> IF watch[t].status = "none" THEN "active" ELSE watch[t].status,
                      first |-> IF watch[t].first = 0 THEN Latest(refs(t)) ELSE watch[t].first,
                      star |-> watch[t].star \/ \E m \in refs(t) : ~stale(t, m)]
           w == [t \in Threads |-> IF refs(t) = {} THEN watch[t] ELSE row(t)]
           i == [m \in Messages |->
                   IF m \in star /\ item[m].status = "none" THEN [item[m] EXCEPT !.status = "pending"]
                   ELSE item[m]]
<1>2. Discovered = [Db EXCEPT !.watch = w, !.item = i]
  BY DEF Discovered, Db
<1>3. i \in [Messages -> GmailStarredWorkItem]
  <2>1. \A x \in GmailStarredWorkItem : [x EXCEPT !.status = "pending"] \in GmailStarredWorkItem
    BY DEF GmailStarredWorkItem
  <2> QED BY <1>1, <2>1
<1>4. ASSUME NEW t \in Threads, refs(t) # {}
      PROVE  row(t) \in GmailWatchedThread /\ row(t).first \in In(t) \cup {0}
  <2>1. watch[t] \in GmailWatchedThread /\ watch[t].first \in In(t) \cup {0} /\ In(t) \subseteq Posted
    BY <1>1 DEF FirstsOwn, In
  <2>2. Latest(refs(t)) \in In(t)
    BY <1>4, <2>1, LatestIsLast
  <2>3. In(t) \subseteq Messages
    BY <2>1, PostedTyped
  <2> HIDE DEF refs, stale
  <2> QED BY <2>1, <2>2, <2>3 DEF GmailWatchedThread
<1>5. w \in [Threads -> GmailWatchedThread] /\ FirstsOwn(w)
  <2> HIDE DEF refs, row
  <2>1. \A t \in Threads : /\ w[t] \in GmailWatchedThread
                           /\ w[t].first \in In(t) \cup {0}
    BY <1>1, <1>4 DEF FirstsOwn
  <2> QED BY <2>1 DEF FirstsOwn
<1> HIDE DEF w, i
<1> QED BY <1>1, <1>2, <1>3, <1>5 DEF Sound, Tables

(* What a poll selects is a message of the conversation, or none.          *)
LEMMA LatestAmong ==
    ASSUME WatchedAssumption, RepliesTyped, NEW S \in SUBSET Posted
    PROVE  Latest(S) \in S \cup {0}
BY LatestIsLast DEF Latest

LEMMA SelectedIsIn ==
    ASSUME WatchedAssumption, RepliesTyped, NEW t \in Threads
    PROVE  Selected(Payloads(t)) \in In(t) \cup {0}
<1>1. In(t) \subseteq Posted
  BY DEF In
<1>2. ASSUME NEW S \in SUBSET In(t)
      PROVE  Selected(S) \in S \cup {0}
  <2>1. OfKind(S, "promise") \in SUBSET Posted /\ Substantive(S) \in SUBSET Posted
        /\ OfKind(S, "promise") \subseteq S /\ Substantive(S) \subseteq S
    BY <1>1 DEF OfKind, Substantive
  <2> QED BY <2>1, LatestAmong DEF Selected
<1>3. CASE Payloads(t) \subseteq In(t)
  BY <1>2, <1>3
<1>4. CASE ~(Payloads(t) \subseteq In(t))
  <2>1. Payloads(t) = {0}
    BY <1>1, <1>4, LatestAmong DEF Payloads
  <2>2. \A S \in SUBSET {0} : Latest(S) = 0
    <3>1. \A S \in SUBSET {0} : S = {} \/ S = {0}
      OBVIOUS
    <3>2. Latest({}) = 0
      BY DEF Latest
    <3>3. Latest({0}) = 0
      <4>1. 0 <= 0
        OBVIOUS
      <4>2. \E m \in {0} : \A n \in {0} : n <= m
        BY <4>1
      <4> QED BY <4>2 DEF Latest
    <3> QED BY <3>1, <3>2, <3>3
  <2>3. OfKind({0}, "promise") \in SUBSET {0} /\ Substantive({0}) \in SUBSET {0}
    BY DEF OfKind, Substantive
  <2> QED BY <2>1, <2>2, <2>3 DEF Selected
<1> QED BY <1>3, <1>4

(***************************************************************************)
(* Stars                                                                   *)
(***************************************************************************)

Passes ==
    [stage : {"idle", "backlog", "poll", "send", "discover", "recent"},
     todo : SUBSET Threads, seen : [Threads -> 0 .. MaxMessages], queue : SUBSET Messages,
     unstarred : BOOLEAN, again : BOOLEAN, cut : BOOLEAN]

(* Each message of S is in a conversation with a promise, whose order is   *)
(* marked for it.                                                          *)
Promised(S, marked) ==
    \A m \in S :
       \E n \in In(Thread(m)) :
          /\ Kind(n) = "promise" /\ Claim(n) # NoOrder
          /\ marked[Claim(n)] \in FOLLOWUP_TERMINAL_ORDER_STATUSES

(* What a step that saves r leaves behind.                                 *)
LEMMA SaveSound ==
    ASSUME NEW r, Sound(r), Save(r), mail' = mail
    PROVE  Sound(Db)'
<1>1. \A t : In(t)' = In(t)
  BY DEF In, Posted, Thread
<1>2. /\ inbox' \in [Messages -> InboundEmailMessage] /\ watch' \in [Threads -> GmailWatchedThread]
      /\ item' \in [Messages -> GmailStarredWorkItem] /\ order' \in [Orders -> OrderStatus]
      /\ promised' \in SUBSET Orders
  BY DEF Save, Sound, Tables
<1>3. Db' \in Tables /\ Db'.watch = watch'
  BY <1>2 DEF Db, Tables
<1>4. FirstsOwn(watch)'
  BY <1>1 DEF FirstsOwn, Save, Sound
<1> QED BY <1>3, <1>4 DEF Sound, FirstsOwn, Db

LEMMA IdlePass == ASSUME WatchedAssumption PROVE Idle \in Passes
<1>1. 0 \in 0 .. MaxMessages
  BY DEF WatchedAssumption
<1> QED BY <1>1 DEF Idle, Passes

LEMMA UnstarredPass ==
    ASSUME NEW p \in Passes
    PROVE  [p EXCEPT !.unstarred = TRUE] \in Passes
BY DEF Passes

(* remove_thread_star takes stars of this conversation only: those Gmail    *)
(* holds, or those of the rows and of the message it began with.           *)
LEMMA RemoveStep ==
    ASSUME WatchedAssumption, RepliesTyped, NEW r, Sound(r), NEW t \in Threads, NEW remote,
           NEW left \in SUBSET Posted, NEW p \in Passes,
           RemoveThreadStar(r, t, remote, left, p), mail' = mail
    PROVE  /\ Sound(Db)' /\ order' = r.order /\ pass' \in Passes
           /\ star' \subseteq left /\ left \ star' \subseteq In(t)
<1> DEFINE ids == StarredIds(r, t, remote)
<1>1. ids \subseteq In(t) \cup {0}
  BY DEF StarredIds, Sound, FirstsOwn
<1>2. Sound(Unstarred(r, t)) /\ Unstarred(r, t).order = r.order
  <2>1. r \in Tables
    BY DEF Sound
  <2>2. Unstarred(r, t).order = r.order
    BY <2>1 DEF Unstarred, Tables
  <2> QED BY <2>2, UnstarredSound
<1>3. \/ star' = left /\ Save(r)
      \/ star' = left \ ids /\ (Save(r) \/ Save(Unstarred(r, t)))
  BY DEF RemoveThreadStar
<1>4. pass' \in Passes
  BY IdlePass, UnstarredPass DEF RemoveThreadStar
<1>5. Sound(Db)' /\ order' = r.order
  <2>1. CASE Save(r)
    BY <2>1, SaveSound DEF Save
  <2>2. CASE Save(Unstarred(r, t))
    BY <1>2, <2>2, SaveSound DEF Save
  <2> QED BY <1>3, <2>1, <2>2
<1>6. 0 \notin left
  BY PostedTyped
<1> QED BY <1>1, <1>3, <1>4, <1>5, <1>6

(* The star of the message analyze_linked_message applied is that of a      *)
(* promise, and its order is marked.                                       *)
LEMMA OwnStep ==
    ASSUME WatchedAssumption, RepliesTyped, NEW r, Sound(r), NEW m \in Posted, OwnStar(r, m) # {}
    PROVE  /\ OwnStar(r, m) = {m} /\ Claim(m) # NoOrder
           /\ Promised({m}, Analyzed(r, m).order)
<1>1. OwnStar(r, m) = {m} /\ Applies(r, m) /\ Kind(m) = "promise"
  BY DEF OwnStar
<1>2. Claim(m) # NoOrder /\ Claim(m) \in Orders /\ m \in In(Thread(m))
  BY <1>1, PostedTyped DEF Applies, Claim, WatchedAssumption, In
<1>3. Analyzed(r, m).order[Claim(m)] = "payment_to_verify"
  <2>1. r \in Tables /\ r.order \in [Orders -> OrderStatus]
    BY DEF Sound, Tables
  <2>2. REVIEW_STATUS_TRANSITIONS["promise"] = "payment_to_verify"
    BY DEF REVIEW_STATUS_TRANSITIONS
  <2>3. Analyzed(r, m).order = [r.order EXCEPT ![Claim(m)] = REVIEW_STATUS_TRANSITIONS[Kind(m)]]
    BY <1>1, <2>1 DEF Analyzed, Tables
  <2> QED BY <1>1, <1>2, <2>1, <2>2, <2>3
<1> QED BY <1>1, <1>2, <1>3 DEF Promised, FOLLOWUP_TERMINAL_ORDER_STATUSES

(* Classification and update of a message.                                 *)
LEMMA ReadStep ==
    ASSUME WatchedAssumption, RepliesTyped, star \subseteq Posted, NEW r, Sound(r),
           NEW m \in Posted, NEW remote, NEW p \in Passes, Read(r, m, remote, p), mail' = mail
    PROVE  /\ Sound(Db)' /\ pass' \in Passes
           /\ star' \subseteq Posted /\ Promised(star \ star', order')
<1> DEFINE a == Classified(r, m)
           b == [a EXCEPT !.inbox[m].label = FALSE]
           own == OwnStar(r, m)
           u(c) == Updated(c, m)
           Rest(c, left) ==
             IF u(c).item[m].status = "positive"
             THEN RemoveThreadStar(u(c), Thread(m), remote, left, p)
             ELSE star' = left /\ Save(u(c)) /\ pass' = p
<1>1. \/ Rest(a, star)
      \/ own # {} /\ Rest(b, star \ own)
      \/ own # {} /\ star' = star \ own /\ Save(a) /\ pass' = Idle
  BY DEF Read
<1>2. /\ Sound(a) /\ Sound(b) /\ b.order = a.order /\ m \in Messages /\ Thread(m) \in Threads
      /\ m \in In(Thread(m)) /\ a \in Tables
  <2>1. m \in Messages /\ Thread(m) \in Threads /\ m \in In(Thread(m))
    BY PostedTyped DEF In
  <2>2. Sound(a) /\ a \in Tables
    BY ClassifiedSound DEF Sound
  <2>3. Sound(b)
    <3> HIDE DEF a
    <3> QED BY <2>1, <2>2, LabelledSound
  <2>4. b.order = a.order
    <3> HIDE DEF a
    <3> QED BY <2>2 DEF Tables
  <2> QED BY <2>1, <2>2, <2>3, <2>4
<1>3. own # {} => own = {m} /\ Promised({m}, a.order)
  BY OwnStep DEF Classified
<1> HIDE DEF a, b, own
<1>4. ASSUME NEW c, Sound(c), NEW left \in SUBSET star, Rest(c, left)
      PROVE  /\ Sound(Db)' /\ pass' \in Passes /\ star' \subseteq left /\ order' = c.order
             /\ Promised(left \ star', order')
  <2>1. Sound(u(c)) /\ u(c).order = c.order /\ (u(c).item[m].status = "positive" => Accounted(c, m))
    BY <1>4, UpdatedSound
  <2>2. CASE u(c).item[m].status = "positive"
    <3>1. Accounted(c, m)
      BY <2>1, <2>2
    <3>2. RemoveThreadStar(u(c), Thread(m), remote, left, p)
      BY <1>4, <2>2
    <3> HIDE DEF u
    <3>3. /\ Sound(Db)' /\ order' = u(c).order /\ pass' \in Passes
          /\ star' \subseteq left /\ left \ star' \subseteq In(Thread(m))
      BY <1>2, <2>1, <3>2, RemoveStep
    <3>4. \A k \in left \ star' : Thread(k) = Thread(m)
      BY <3>3 DEF In
    <3> QED BY <1>2, <2>1, <3>1, <3>3, <3>4 DEF Promised, Accounted
  <2>3. CASE u(c).item[m].status # "positive"
    <3>1. star' = left /\ Save(u(c)) /\ pass' = p
      BY <1>4, <2>3
    <3> HIDE DEF u
    <3>2. Sound(Db)' /\ order' = c.order
      BY <2>1, <3>1, SaveSound DEF Save
    <3> QED BY <3>1, <3>2 DEF Promised
  <2> QED BY <2>2, <2>3
<1> HIDE DEF Rest
<1>5. CASE Rest(a, star)
  BY <1>2, <1>4, <1>5
<1>6. CASE own # {} /\ Rest(b, star \ own)
  <2>1. /\ Sound(Db)' /\ pass' \in Passes /\ star' \subseteq star \ own /\ order' = b.order
        /\ Promised((star \ own) \ star', order')
    BY <1>2, <1>4, <1>6
  <2>2. Promised({m}, order')
    BY <1>2, <1>3, <1>6, <2>1
  <2>3. \A k \in star \ star' : k \in {m} \/ k \in (star \ own) \ star'
    BY <1>3, <1>6
  <2> QED BY <2>1, <2>2, <2>3 DEF Promised
<1>7. CASE own # {} /\ star' = star \ own /\ Save(a) /\ pass' = Idle
  <2>1. Sound(Db)' /\ order' = a.order
    BY <1>2, <1>7, SaveSound DEF Save
  <2>2. star \ star' \subseteq {m}
    BY <1>3, <1>7
  <2> QED BY <1>3, <1>7, <2>1, <2>2, IdlePass DEF Promised
<1> QED BY <1>1, <1>5, <1>6, <1>7

(* Analysis without a work item.                                           *)
LEMMA LinkedStep ==
    ASSUME WatchedAssumption, RepliesTyped, star \subseteq Posted, NEW r, Sound(r),
           NEW m \in Posted, NEW p \in Passes, AnalyzeLinked(r, m, p), mail' = mail
    PROVE  /\ Sound(Db)' /\ pass' \in Passes
           /\ star' \subseteq Posted /\ Promised(star \ star', order')
<1> DEFINE a == Analyzed(r, m)
           b == [a EXCEPT !.inbox[m].label = FALSE]
           own == OwnStar(r, m)
<1>1. \/ star' = star /\ Save(a) /\ pass' = p
      \/ own # {} /\ star' = star \ own /\ (Save(a) \/ Save(b)) /\ pass' \in {p, Idle}
  BY DEF AnalyzeLinked
<1>2. Sound(a) /\ a \in Tables /\ m \in Messages
  BY AnalyzedSound, PostedTyped DEF Sound
<1>3. own # {} => own = {m} /\ Promised({m}, a.order)
  BY OwnStep
<1> HIDE DEF a, own
<1>4. Sound(b) /\ b.order = a.order
  BY <1>2, LabelledSound DEF Tables
<1> HIDE DEF b
<1>5. Sound(Db)' /\ order' = a.order
  <2>1. CASE Save(a)
    BY <1>2, <2>1, SaveSound DEF Save
  <2>2. CASE Save(b)
    BY <1>4, <2>2, SaveSound DEF Save
  <2> QED BY <1>1, <2>1, <2>2
<1>6. Promised(star \ star', order')
  <2>1. CASE star' = star
    BY <2>1 DEF Promised
  <2>2. CASE own # {} /\ star' = star \ own
    <3>1. star \ star' \subseteq {m}
      BY <1>3, <2>2
    <3> QED BY <1>3, <1>5, <2>2, <3>1 DEF Promised
  <2> QED BY <1>1, <2>1, <2>2
<1> QED BY <1>1, <1>5, <1>6, IdlePass

(***************************************************************************)
(* The typed state                                                         *)
(***************************************************************************)

(* Each reply that left for a message, numbered.                           *)
Slots == {s \in Messages \X (1 .. MaxMails) : s[2] <= mails[s[1]]}

(* An attempt is counted only for a reply that left; no more are lost than  *)
(* left.                                                                   *)
CountsTyped ==
    /\ attempts \in [Orders -> Nat]
    /\ \A o \in Orders : attempts[o] <= Cardinality(Slots)
    /\ heard \in [Threads -> 0 .. MaxMessages]
    /\ mails \in [Messages -> 0 .. MaxMails]
    /\ lost \in [Messages -> Nat]
    /\ \A m \in Messages : lost[m] <= mails[m]

GmailTyped == star \subseteq Posted /\ gone \subseteq Threads /\ cooling \subseteq Messages

RowsTyped == Sound(Db) /\ GmailTyped /\ pass \in Passes /\ CountsTyped

WInv == IInv /\ RowsTyped

(* What a step does to the typed state and to the stars: one goes with its  *)
(* conversation, or after a promise.                                       *)
Fine ==
    /\ RowsTyped'
    /\ \A m \in star \ star' : Thread(m) \in gone' \/ Promised({m}, order')

LEMMA SlotsAreFew ==
    ASSUME WatchedAssumption
    PROVE  /\ IsFiniteSet(Slots)
           /\ Cardinality(Slots) \in Nat /\ Cardinality(Slots) <= MaxMessages * MaxMails
<1> DEFINE A == Messages
           B == 1 .. MaxMails
<1>1. /\ IsFiniteSet(A) /\ Cardinality(A) = MaxMessages
      /\ IsFiniteSet(B) /\ Cardinality(B) = MaxMails
  BY FS_Interval DEF Messages, WatchedAssumption
<1>2. IsFiniteSet(A \X B) /\ Cardinality(A \X B) = MaxMessages * MaxMails
  BY <1>1, FS_Product
<1>3. Slots \subseteq A \X B
  BY DEF Slots
<1> QED BY <1>2, <1>3, FS_Subset, FS_CardinalityType

(* One more mail fills one more slot.                                      *)
LEMMA SlotsGrow ==
    ASSUME WatchedAssumption, CountsTyped, NEW m \in Messages, mails[m] < MaxMails,
           mails' = [mails EXCEPT ![m] = @ + 1]
    PROVE  Cardinality(Slots') = Cardinality(Slots) + 1
<1>1. mails \in [Messages -> 0 .. MaxMails] /\ MaxMails \in Nat
  BY DEF CountsTyped, WatchedAssumption
<1> DEFINE new == <<m, mails[m] + 1>>
<1>2. mails[m] \in Nat /\ mails[m] + 1 \in 1 .. MaxMails
  BY <1>1
<1>3. new \in Messages \X (1 .. MaxMails) /\ new \notin Slots
  BY <1>2 DEF Slots
<1>4. ASSUME NEW k \in Messages, NEW i \in 1 .. MaxMails
      PROVE  <<k, i>> \in Slots' <=> (<<k, i>> \in Slots \/ <<k, i>> = new)
  <2>1. mails'[k] = IF k = m THEN mails[m] + 1 ELSE mails[k]
    BY <1>1
  <2>2. (<<k, i>> \in Slots' <=> i <= mails'[k]) /\ (<<k, i>> \in Slots <=> i <= mails[k])
    BY DEF Slots
  <2>3. CASE k = m
    BY <1>1, <1>2, <2>1, <2>2, <2>3
  <2>4. CASE k # m
    BY <2>1, <2>2, <2>4
  <2> QED BY <2>3, <2>4
<1>5. Slots' = Slots \cup {new}
  <2>1. /\ Slots \subseteq Messages \X (1 .. MaxMails)
        /\ Slots' \subseteq Messages \X (1 .. MaxMails)
    BY DEF Slots
  <2> HIDE DEF new
  <2>2. ASSUME NEW s \in Messages \X (1 .. MaxMails)
        PROVE  s \in Slots' <=> (s \in Slots \/ s = new)
    <3>1. PICK k \in Messages, i \in 1 .. MaxMails : s = <<k, i>>
      OBVIOUS
    <3> QED BY <1>4, <3>1
  <2> QED BY <1>3, <2>1, <2>2
<1> HIDE DEF new
<1> QED BY <1>3, <1>5, SlotsAreFew, FS_AddElement

(* A step that sends nothing is fine when its rows, its pass and its stars  *)
(* are.                                                                    *)
LEMMA StarsFine ==
    ASSUME WInv, Sound(Db)', pass' \in Passes, UNCHANGED <<mail, gone, sends>>,
           star' \subseteq Posted, Promised(star \ star', order')
    PROVE  Fine
<1>1. GmailTyped'
  BY DEF WInv, RowsTyped, GmailTyped, Posted, sends
<1>2. CountsTyped'
  BY DEF WInv, RowsTyped, CountsTyped, Slots, sends
<1> QED BY <1>1, <1>2 DEF Fine, RowsTyped, Promised

LEMMA RowsFine ==
    ASSUME WInv, NEW r, Sound(r), Save(r), pass' \in Passes, UNCHANGED <<gmail, sends>>
    PROVE  Fine
<1>1. Sound(Db)'
  BY SaveSound DEF gmail
<1>2. star' \subseteq Posted /\ star \ star' = {}
  BY DEF WInv, RowsTyped, GmailTyped, gmail
<1> QED BY <1>1, <1>2, StarsFine DEF Promised, gmail

LEMMA SavedDb == ASSUME UNCHANGED rows PROVE Save(Db)
BY DEF Save, Db, rows

LEMMA PassFine ==
    ASSUME WInv, pass' \in Passes, UNCHANGED <<gmail, rows, sends>>
    PROVE  Fine
<1>1. Sound(Db) /\ Save(Db)
  BY SavedDb DEF WInv, RowsTyped
<1> QED BY <1>1, RowsFine

(* Only the items of the messages change.                                  *)
LEMMA ItemsSound ==
    ASSUME WInv, item' \in [Messages -> GmailStarredWorkItem],
           UNCHANGED <<mail, inbox, watch, order, promised>>
    PROVE  Sound(Db)'
<1> DEFINE r == [Db EXCEPT !.item = item']
<1>1. Sound(Db) /\ Db \in Tables
  BY DEF WInv, RowsTyped, Sound
<1>2. Sound(r)
  BY <1>1 DEF Sound, Tables
<1>3. Save(r)
  BY DEF Save, Db
<1> HIDE DEF r
<1> QED BY <1>2, <1>3, SaveSound

LEMMA Typed ==
    ASSUME WatchedAssumption, WInv
    PROVE  /\ RepliesTyped /\ Sound(Db) /\ Db \in Tables
           /\ pass \in Passes /\ star \subseteq Posted
           /\ inbox \in [Messages -> InboundEmailMessage] /\ watch \in [Threads -> GmailWatchedThread]
           /\ item \in [Messages -> GmailStarredWorkItem] /\ order \in [Orders -> OrderStatus]
           /\ promised \in SUBSET Orders
           /\ FirstsOwn(watch)
BY DEF WInv, IInv, RowsTyped, GmailTyped, Sound, Tables, Db

(***************************************************************************)
(* Around the pass                                                         *)
(***************************************************************************)

LEMMA PostFine ==
    ASSUME WatchedAssumption, WInv, NEW t \in Threads, NEW k \in MessageKinds, Post(t, k)
    PROVE  Fine
<1> DEFINE it == [thread |-> t, kind |-> k]
           n == Len(mail) + 1
<1>1. it \in Mail
  BY DEF Mail
<1>2. RepliesTyped /\ Len(mail) \in Nat /\ Posted = 1 .. Len(mail)
  BY PostedTyped, Typed
<1>3. mail' = Append(mail, it)
  BY DEF Post
<1> HIDE DEF it
<1>4. /\ mail' \in Seq(Mail) /\ Len(mail') = n
      /\ \A i \in 1 .. Len(mail) : mail'[i] = mail[i]
  BY <1>1, <1>2, <1>3, AppendProperties DEF RepliesTyped
<1>5. RepliesTyped'
  BY PostStep DEF WInv, IInv
<1>6. Posted' = 1 .. n /\ n \in Messages /\ Posted \subseteq Posted'
  BY <1>2, <1>4, <1>5, LenProperties DEF Posted, RepliesTyped, Messages, WatchedAssumption
<1>7. \A u \in Threads : In(u) \subseteq In(u)'
  BY <1>2, <1>4, <1>6 DEF In, Thread
<1>8. Sound(Db)'
  <2>1. UNCHANGED rows
    BY DEF Post
  <2>2. Db' = Db /\ watch' = watch
    BY <2>1 DEF Db, rows
  <2>3. FirstsOwn(watch)'
    BY <1>7, <2>2, Typed DEF FirstsOwn
  <2> QED BY <2>2, <2>3, Typed DEF Sound, FirstsOwn, Db
<1>9. GmailTyped'
  BY <1>6, Typed DEF Post, WInv, RowsTyped, GmailTyped
<1>10. CountsTyped'
  BY DEF Post, WInv, RowsTyped, CountsTyped, Slots
<1> QED BY <1>8, <1>9, <1>10, Typed DEF Fine, RowsTyped, Post

LEMMA EnvironmentFine ==
    ASSUME WatchedAssumption, WInv, Environment
    PROVE  Fine
<1>1. ASSUME NEW t \in Threads, NEW k \in MessageKinds, Post(t, k)
      PROVE  Fine
  BY <1>1, PostFine
<1>2. ASSUME UNCHANGED <<mail, rows>>, star' \subseteq Posted, gone' \subseteq Threads,
             UNCHANGED <<sends, pass>>, \A m \in star \ star' : Thread(m) \in gone'
      PROVE  Fine
  <2>1. Sound(Db)'
    BY <1>2, SavedDb, SaveSound, Typed
  <2>2. GmailTyped' /\ CountsTyped' /\ pass' \in Passes
    BY <1>2, Typed DEF WInv, RowsTyped, GmailTyped, CountsTyped, Slots, sends, Posted
  <2> QED BY <1>2, <2>1, <2>2 DEF Fine, RowsTyped
<1>3. ASSUME NEW m \in Posted, Star(m)
      PROVE  Fine
  BY <1>2, <1>3, Typed DEF Star, WInv, RowsTyped, GmailTyped
<1>4. ASSUME NEW m \in Posted, CooldownEnds(m)
      PROVE  Fine
  <2>1. Sound(Db)'
    BY <1>4, SavedDb, SaveSound, Typed DEF CooldownEnds, gmail
  <2>2. GmailTyped' /\ CountsTyped' /\ pass' \in Passes /\ star' = star
    BY <1>4, Typed DEF CooldownEnds, WInv, RowsTyped, GmailTyped, CountsTyped, Slots, Posted, gmail
  <2> QED BY <2>1, <2>2 DEF Fine, RowsTyped
<1>5. ASSUME NEW t \in Threads, DeleteThread(t)
      PROVE  Fine
  <2>1. \A m \in star \ star' : Thread(m) \in gone'
    BY <1>5 DEF DeleteThread, In
  <2> QED BY <1>2, <1>5, <2>1, Typed DEF DeleteThread, WInv, RowsTyped, GmailTyped
<1>6. ASSUME NEW o \in Orders, ConfirmOfficialPayment(o)
      PROVE  Fine
  <2> DEFINE r == [Db EXCEPT !.order = order']
  <2>1. order' \in [Orders -> OrderStatus]
    BY <1>6, Typed DEF ConfirmOfficialPayment, OrderStatus, FOLLOWUP_TERMINAL_ORDER_STATUSES
  <2>2. Sound(r)
    BY <2>1, Typed DEF Sound, Tables
  <2>3. Save(r)
    BY <1>6 DEF Save, Db, ConfirmOfficialPayment
  <2> HIDE DEF r
  <2> QED BY <1>6, <2>2, <2>3, RowsFine, Typed DEF ConfirmOfficialPayment
<1> QED BY <1>1, <1>3, <1>4, <1>5, <1>6 DEF Environment

(***************************************************************************)
(* The steps of a pass                                                     *)
(***************************************************************************)

LEMMA PolledPass ==
    ASSUME pass \in Passes, NEW t \in Threads
    PROVE  Polled(t) \in Passes
BY DEF Passes, Polled

LEMMA StagesFine ==
    ASSUME WatchedAssumption, WInv,
           Begin \/ ListActiveThreads \/ PollIsCut \/ StopReplies \/ DiscoveryFails \/ EndPass \/ RecentFails
    PROVE  Fine
<1>1. pass \in Passes /\ Idle \in Passes
  BY IdlePass, Typed
<1>2. pass' \in Passes
  <2>1. CASE Begin
    BY <1>1, <2>1 DEF Begin, Passes
  <2>2. CASE ListActiveThreads
    <3>1. ActiveThreads(Db) \in SUBSET Threads
      BY DEF ActiveThreads
    <3> QED BY <1>1, <2>2, <3>1 DEF ListActiveThreads, Passes
  <2>3. CASE PollIsCut
    BY <1>1, <2>3 DEF PollIsCut, Passes
  <2>4. CASE StopReplies
    BY <1>1, <2>4 DEF StopReplies, Recent, Passes
  <2>5. CASE DiscoveryFails \/ EndPass \/ RecentFails
    BY <1>1, <2>5 DEF DiscoveryFails, EndPass, RecentFails, Recent, Passes
  <2> QED BY <2>1, <2>2, <2>3, <2>4, <2>5
<1>3. UNCHANGED <<gmail, rows, sends>>
  BY DEF Begin, ListActiveThreads, PollIsCut, StopReplies, DiscoveryFails, EndPass, RecentFails
<1> QED BY <1>2, <1>3, PassFine

LEMMA BacklogFine ==
    ASSUME WatchedAssumption, WInv, ProcessPendingLocal
    PROVE  Fine
<1> DEFINE m == Latest(Backlog)
<1>1. m \in Posted
  <2>1. Backlog \in SUBSET Posted /\ Backlog # {}
    BY DEF Backlog, ProcessPendingLocal
  <2> QED BY <2>1, LatestIsLast, Typed
<1>2. Read(Db, m, FALSE, pass) /\ UNCHANGED <<mail, gone, sends>>
  BY DEF ProcessPendingLocal
<1> HIDE DEF m
<1> QED BY <1>1, <1>2, ReadStep, StarsFine, Typed

LEMMA PollThreadFine ==
    ASSUME WatchedAssumption, WInv, NEW t \in Threads, PollThread(t)
    PROVE  Fine
<1> DEFINE m == Selected(Payloads(t))
           p == [Polled(t) EXCEPT !.seen[t] = Latest(In(t))]
           r == Upserted(Db, m)
           w == WithItem(r, m)
           more == Cardinality(Payloads(t)) > 1
<1>1. UNCHANGED <<mail, gone, sends>>
  BY DEF PollThread
<1>2. \/ pass' = p /\ UNCHANGED <<star, rows>>
      \/ m # 0 /\ Read(w, m, more, p)
      \/ m # 0 /\ pass' = p /\ Save(w) /\ UNCHANGED star
  BY DEF PollThread
<1>3. m \in In(t) \cup {0} /\ In(t) \subseteq Posted /\ Posted \subseteq Messages
  BY SelectedIsIn, PostedTyped, Typed DEF In
<1>4. p \in Passes
  <2>1. Latest(In(t)) \in 0 .. MaxMessages
    <3>1. In(t) \in SUBSET Posted
      BY DEF In
    <3>2. Latest(In(t)) \in Posted \cup {0}
      BY <3>1, LatestAmong, Typed
    <3>3. \A x \in Posted \cup {0} : x \in 0 .. MaxMessages
      <4>1. Posted \subseteq 1 .. MaxMessages /\ MaxMessages \in Nat
        BY <1>3 DEF Messages, WatchedAssumption
      <4> QED BY <4>1
    <3> QED BY <3>2, <3>3
  <2>2. Polled(t) \in Passes
    BY PolledPass, Typed
  <2> QED BY <2>1, <2>2 DEF Passes
<1>5. m # 0 => Sound(w) /\ m \in Posted
  <2> SUFFICES ASSUME m # 0 PROVE Sound(w) /\ m \in Posted
    OBVIOUS
  <2>1. m \in Posted /\ m \in Messages
    BY <1>3
  <2> HIDE DEF m
  <2> QED BY <2>1, UpsertedSound, WithItemSound, Typed
<1> HIDE DEF m, p, w, more
<1>6. CASE pass' = p /\ UNCHANGED <<star, rows>>
  BY <1>1, <1>4, <1>6, PassFine DEF gmail
<1>7. CASE m # 0 /\ Read(w, m, more, p)
  BY <1>1, <1>4, <1>5, <1>7, ReadStep, StarsFine, Typed
<1>8. CASE m # 0 /\ pass' = p /\ Save(w) /\ UNCHANGED star
  BY <1>1, <1>4, <1>5, <1>8, RowsFine DEF gmail
<1> QED BY <1>2, <1>6, <1>7, <1>8

LEMMA PollFine ==
    ASSUME WatchedAssumption, WInv, Poll
    PROVE  Fine
<1>1. ASSUME NEW t \in Threads, BlockPositiveCleanup(t)
      PROVE  Fine
  <2>1. PICK m \in In(t) :
          Save([Db EXCEPT !.item[m].status = "manual_review", !.item[m].reason = "other",
                          !.watch[t].status = "manual_review"])
    BY <1>1 DEF BlockPositiveCleanup
  <2> DEFINE i == [item EXCEPT ![m].status = "manual_review", ![m].reason = "other"]
             w == [watch EXCEPT ![t].status = "manual_review"]
             r == [Db EXCEPT !.item = i, !.watch = w]
  <2>2. m \in Messages
    BY PostedTyped, Typed DEF In
  <2>3. i \in [Messages -> GmailStarredWorkItem]
    <3>1. \A x \in GmailStarredWorkItem :
            [[x EXCEPT !.status = "manual_review"] EXCEPT !.reason = "other"] \in GmailStarredWorkItem
      BY DEF GmailStarredWorkItem
    <3>2. i = [item EXCEPT ![m] = [[item[m] EXCEPT !.status = "manual_review"] EXCEPT !.reason = "other"]]
      BY <2>2, Typed
    <3> QED BY <2>2, <3>1, <3>2, Typed
  <2>4. w \in [Threads -> GmailWatchedThread] /\ FirstsOwn(w)
    BY Typed DEF GmailWatchedThread, FirstsOwn
  <2>5. Save(r)
    BY <2>1 DEF Save, Db
  <2> HIDE DEF i, w
  <2>6. Sound(r)
    BY <2>3, <2>4, Typed DEF Sound, Tables, Db
  <2> HIDE DEF r
  <2>7. pass' \in Passes /\ UNCHANGED <<gmail, sends>>
    BY <1>1, PolledPass, Typed DEF BlockPositiveCleanup
  <2> QED BY <2>5, <2>6, <2>7, RowsFine
<1>2. ASSUME NEW t \in Threads, CleanPositive(t)
      PROVE  Fine
  <2>1. PICK m \in In(t) : Accounted(Db, m)
    BY <1>2 DEF CleanPositive
  <2>2. RemoveThreadStar(Db, t, TRUE, star, Polled(t)) /\ UNCHANGED <<mail, gone, sends>>
    BY <1>2 DEF CleanPositive
  <2>3. /\ Sound(Db)' /\ order' = Db.order /\ pass' \in Passes
        /\ star' \subseteq star /\ star \ star' \subseteq In(t)
    BY <2>2, RemoveStep, PolledPass, Typed
  <2>4. Promised(star \ star', order')
    <3>1. \A k \in star \ star' : Thread(k) = t
      BY <2>3 DEF In
    <3> QED BY <2>1, <2>3, <3>1 DEF Promised, Accounted
  <2> QED BY <2>2, <2>3, <2>4, StarsFine, Typed
<1>3. ASSUME NEW t \in Threads, PollThread(t)
      PROVE  Fine
  BY <1>3, PollThreadFine
<1>4. ASSUME NEW t \in Threads, CloseMissing(t)
      PROVE  Fine
  <2> DEFINE r == [Db EXCEPT !.item = item', !.watch = watch', !.inbox = inbox']
  <2>1. watch' \in [Threads -> GmailWatchedThread] /\ \A u \in Threads : watch'[u].first = watch[u].first
    BY <1>4, Typed DEF CloseMissing, GmailWatchedThread
  <2>2. item' \in [Messages -> GmailStarredWorkItem]
    <3>1. \A x \in GmailStarredWorkItem :
            [x EXCEPT !.status = "skipped", !.reason = "other"] \in GmailStarredWorkItem
      BY DEF GmailStarredWorkItem
    <3> QED BY <1>4, <3>1, Typed DEF CloseMissing
  <2>3. inbox' \in [Messages -> InboundEmailMessage]
    <3>1. \A x \in InboundEmailMessage : [x EXCEPT !.label = FALSE] \in InboundEmailMessage
      BY DEF InboundEmailMessage
    <3> QED BY <1>4, <3>1, Typed DEF CloseMissing
  <2>4. FirstsOwn(watch')
    BY <2>1, Typed DEF FirstsOwn
  <2>5. Sound(r)
    BY <2>1, <2>2, <2>3, <2>4, Typed DEF Sound, Tables, Db
  <2>6. Save(r)
    BY <1>4 DEF Save, Db, CloseMissing
  <2> HIDE DEF r
  <2>7. pass' \in Passes /\ UNCHANGED <<gmail, sends>>
    BY <1>4, PolledPass, Typed DEF CloseMissing
  <2> QED BY <2>5, <2>6, <2>7, RowsFine
<1>5. ASSUME NEW t \in Threads, PollFails(t)
      PROVE  Fine
  <2> DEFINE r == [Db EXCEPT !.watch = watch']
  <2>1. watch' \in [Threads -> GmailWatchedThread] /\ \A u \in Threads : watch'[u].first = watch[u].first
    BY <1>5, Typed DEF PollFails, GmailWatchedThread
  <2>2. FirstsOwn(watch')
    BY <2>1, Typed DEF FirstsOwn
  <2>3. Sound(r)
    BY <2>1, <2>2, Typed DEF Sound, Tables, Db
  <2>4. Save(r)
    BY <1>5 DEF Save, Db, PollFails
  <2> HIDE DEF r
  <2>5. pass' \in Passes /\ UNCHANGED <<gmail, sends>>
    BY <1>5, PolledPass, Typed DEF PollFails
  <2> QED BY <2>3, <2>4, <2>5, RowsFine
<1> QED BY <1>1, <1>2, <1>3, <1>4, <1>5 DEF Poll

(***************************************************************************)
(* Replies                                                                 *)
(***************************************************************************)

LEMMA AnsweredTyped ==
    ASSUME WatchedAssumption, WInv, NEW t \in Threads
    PROVE  Answered(t) \in 0 .. MaxMessages
<1>1. pass.seen \in [Threads -> 0 .. MaxMessages]
  BY Typed DEF Passes
<1>2. Substantive(In(t)) \in SUBSET Posted
  BY DEF Substantive, OfKind, In
<1>3. Latest(Substantive(In(t))) \in Posted \cup {0}
  BY <1>2, LatestAmong, Typed
<1>4. \A x \in Posted \cup {0} : x \in 0 .. MaxMessages
  <2>1. Posted \subseteq 1 .. MaxMessages /\ MaxMessages \in Nat
    BY PostedTyped, Typed DEF Messages, WatchedAssumption
  <2> QED BY <2>1
<1> QED BY <1>1, <1>3, <1>4 DEF Answered

LEMMA TriedPass ==
    ASSUME WatchedAssumption, WInv, NEW m \in Posted
    PROVE  /\ Tried(m) \in Passes
           /\ [Tried(m) EXCEPT !.queue = {}] \in Passes
           /\ \A cut \in BOOLEAN : [Tried(m) EXCEPT !.cut = @ \/ cut] \in Passes
<1>1. Thread(m) \in Threads
  BY PostedTyped, Typed
<1>2. Answered(Thread(m)) \in 0 .. MaxMessages /\ pass \in Passes
  BY <1>1, AnsweredTyped, Typed
<1>3. Tried(m) \in Passes
  BY <1>1, <1>2 DEF Tried, Passes
<1> QED BY <1>3 DEF Passes

LEMMA SelectFine ==
    ASSUME WatchedAssumption, WInv, SelectReplies
    PROVE  Fine
<1> DEFINE stale == {m \in ReplyCandidates : Superseded(m)}
           blocked == {m \in ReplyCandidates : item[m].reason \in RECOVERABLE_PROOF_REPLY_REASONS}
           i == [m \in Messages |->
                   IF m \in blocked THEN [item[m] EXCEPT !.status = "evidence_needed"] ELSE item[m]]
           r == [Db EXCEPT !.item = i]
<1>1. /\ Save(Unsafe(r, stale)) /\ UNCHANGED <<gmail, sends>>
      /\ pass' = [pass EXCEPT !.stage = "send", !.queue = ReplyCandidates \ stale]
  BY DEF SelectReplies, Db
<1>2. pass' \in Passes
  <2>1. ReplyCandidates \subseteq Messages
    BY PostedTyped, Typed DEF ReplyCandidates
  <2> HIDE DEF stale
  <2> QED BY <1>1, <2>1, Typed DEF Passes
<1>3. i \in [Messages -> GmailStarredWorkItem]
  <2>1. \A x \in GmailStarredWorkItem : [x EXCEPT !.status = "evidence_needed"] \in GmailStarredWorkItem
    BY DEF GmailStarredWorkItem, SKIPPABLE_FINAL_WORK_ITEM_STATUSES
  <2> HIDE DEF blocked
  <2> QED BY <2>1, Typed
<1> HIDE DEF i, stale
<1>4. Sound(r)
  BY <1>3, Typed DEF Sound, Tables, Db
<1> HIDE DEF r
<1> QED BY <1>1, <1>2, <1>4, UnsafeSound, RowsFine

LEMMA LeaveFine ==
    ASSUME WatchedAssumption, WInv, NEW m \in Posted, LeaveUnsafe(m)
    PROVE  Fine
<1> DEFINE n == Answered(Thread(m))
           r == Unsafe(Db, {m})
<1>1. \/ Save(r)
      \/ n # 0 /\ Save(Queued(r, n))
  BY DEF LeaveUnsafe
<1>2. UNCHANGED <<gmail, sends>> /\ pass' \in Passes
  BY TriedPass DEF LeaveUnsafe
<1>3. Sound(r)
  BY UnsafeSound, Typed
<1>4. n # 0 => n \in Messages
  <2>1. n \in 0 .. MaxMessages
    BY PostedTyped, AnsweredTyped, Typed
  <2> QED BY <2>1 DEF Messages, WatchedAssumption
<1> HIDE DEF n, r
<1> QED BY <1>1, <1>2, <1>3, <1>4, QueuedSound, RowsFine

LEMMA ProofFine ==
    ASSUME WatchedAssumption, WInv, NEW m \in Posted, ProofIsMissing(m)
    PROVE  Fine
<1> DEFINE n == Latest(In(Thread(m)))
           r == Unsafe(Db, {m})
           i(why) == [item EXCEPT ![m].status = "manual_review", ![m].reason = why]
           s(why) == [Db EXCEPT !.item = i(why)]
<1>1. \/ Save(r) \/ Save(Queued(r, n))
      \/ \E why \in {"other"} \cup RECOVERABLE_PROOF_REPLY_REASONS : Save(s(why))
  <2>1. \A why : [Db EXCEPT !.item[m].status = "manual_review", !.item[m].reason = why] = s(why)
    BY DEF Db
  <2>2. \/ Save(r) \/ Save(Queued(r, n))
        \/ \E why \in {"other"} \cup RECOVERABLE_PROOF_REPLY_REASONS :
              Save([Db EXCEPT !.item[m].status = "manual_review", !.item[m].reason = why])
    BY DEF ProofIsMissing
  <2> HIDE DEF s
  <2> QED BY <2>1, <2>2
<1>2. UNCHANGED <<gmail, sends>> /\ pass' \in Passes
  BY TriedPass DEF ProofIsMissing
<1>3. Sound(r)
  BY UnsafeSound, Typed
<1>4. n \in Messages /\ m \in Messages
  <2>1. In(Thread(m)) \in SUBSET Posted /\ m \in In(Thread(m))
    BY DEF In
  <2> QED BY <2>1, LatestIsLast, PostedTyped, Typed
<1>5. ASSUME NEW why \in {"other"} \cup RECOVERABLE_PROOF_REPLY_REASONS
      PROVE  Sound(s(why))
  <2>1. \A x \in GmailStarredWorkItem :
          [[x EXCEPT !.status = "manual_review"] EXCEPT !.reason = why] \in GmailStarredWorkItem
    BY DEF GmailStarredWorkItem, RECOVERABLE_PROOF_REPLY_REASONS
  <2>2. i(why) = [item EXCEPT ![m] = [[item[m] EXCEPT !.status = "manual_review"] EXCEPT !.reason = why]]
    BY <1>4, Typed
  <2>3. i(why) \in [Messages -> GmailStarredWorkItem]
    BY <1>4, <2>1, <2>2, Typed
  <2> HIDE DEF i
  <2> QED BY <2>3, Typed DEF Sound, Tables, Db
<1> HIDE DEF n, r, s
<1> QED BY <1>1, <1>2, <1>3, <1>4, <1>5, QueuedSound, RowsFine

(* What one step writes into the item of a message.                        *)
LEMMA ItemTyped ==
    ASSUME WatchedAssumption, WInv, NEW m \in Posted,
           NEW st \in {"none", "pending", "manual_review", "skipped"} \cup SKIPPABLE_FINAL_WORK_ITEM_STATUSES,
           NEW why \in {"other", "replied"}
    PROVE  /\ [item EXCEPT ![m].status = st, ![m].reason = why] \in [Messages -> GmailStarredWorkItem]
           /\ [item EXCEPT ![m].reason = why] \in [Messages -> GmailStarredWorkItem]
<1>1. m \in Messages /\ item \in [Messages -> GmailStarredWorkItem] /\ item[m] \in GmailStarredWorkItem
  BY PostedTyped, Typed
<1>2. \A x \in GmailStarredWorkItem :
        /\ [[x EXCEPT !.status = st] EXCEPT !.reason = why] \in GmailStarredWorkItem
        /\ [x EXCEPT !.reason = why] \in GmailStarredWorkItem
  BY DEF GmailStarredWorkItem, SAFE_FOLLOWUP_WORK_ITEM_REASONS
<1>3. [item EXCEPT ![m].status = st, ![m].reason = why]
        = [item EXCEPT ![m] = [[item[m] EXCEPT !.status = st] EXCEPT !.reason = why]]
  BY <1>1
<1> QED BY <1>1, <1>2, <1>3

LEMMA PassOverFine ==
    ASSUME WatchedAssumption, WInv, NEW m \in Posted, PassOver(m)
    PROVE  Fine
<1> DEFINE st == IF \/ Claim(m) = NoOrder
                    \/ Kind(m) = "waiting" /\ attempts[Claim(m)] < MaxAttempts
                 THEN "manual_review" ELSE "skipped"
<1>1. item' = [item EXCEPT ![m].status = st, ![m].reason = "other"]
  BY DEF PassOver
<1>2. item' \in [Messages -> GmailStarredWorkItem]
  <2>1. st \in {"none", "pending", "manual_review", "skipped"} \cup SKIPPABLE_FINAL_WORK_ITEM_STATUSES
    OBVIOUS
  <2> HIDE DEF st
  <2>2. [item EXCEPT ![m].status = st, ![m].reason = "other"] \in [Messages -> GmailStarredWorkItem]
    BY <2>1, ItemTyped
  <2> QED BY <1>1, <2>2
<1>3. Sound(Db)'
  BY <1>2, ItemsSound DEF PassOver, gmail
<1> QED BY <1>3, TriedPass, StarsFine, Typed DEF PassOver, gmail, Promised

(* a replies to m leave, b of them lost, and c attempts are counted.        *)
Counted(m, a, b, c) ==
    /\ mails' = [mails EXCEPT ![m] = @ + a] /\ lost' = [lost EXCEPT ![m] = @ + b]
    /\ attempts' = [attempts EXCEPT ![Claim(m)] = @ + c]

LEMMA CountsFine ==
    ASSUME WatchedAssumption, WInv, NEW m \in Posted, Ready(m), UNCHANGED <<mail, star, gone>>,
           Sound(Db)', pass' \in Passes, cooling' \subseteq Messages,
           heard' \in [Threads -> 0 .. MaxMessages],
           NEW a \in {0, 1}, NEW b \in {0, 1}, NEW c \in {0, 1}, b <= a, c <= a, Counted(m, a, b, c)
    PROVE  Fine
<1> USE DEF Counted
<1>1. /\ m \in Messages /\ mails \in [Messages -> 0 .. MaxMails] /\ lost \in [Messages -> Nat]
      /\ attempts \in [Orders -> Nat] /\ MaxMails \in Nat /\ mails[m] < MaxMails
      /\ \A k \in Messages : lost[k] <= mails[k]
      /\ \A o \in Orders : attempts[o] <= Cardinality(Slots)
  BY PostedTyped, Typed DEF WInv, RowsTyped, CountsTyped, WatchedAssumption, Ready
<1>2. Cardinality(Slots') = Cardinality(Slots) + a
  <2>1. CASE a = 1
    BY <1>1, <2>1, SlotsGrow DEF WInv, RowsTyped
  <2>2. CASE a = 0
    <3>1. mails' = mails
      BY <1>1, <2>2
    <3>2. Slots' = Slots
      BY <3>1 DEF Slots
    <3> QED BY <2>2, <3>2, SlotsAreFew
  <2> QED BY <2>1, <2>2
<1>3. Cardinality(Slots) \in Nat
  BY SlotsAreFew
<1>4. attempts' \in [Orders -> Nat] /\ \A o \in Orders : attempts'[o] <= Cardinality(Slots')
  <2>1. \A o \in Orders : attempts'[o] = IF o = Claim(m) THEN attempts[o] + c ELSE attempts[o]
    BY <1>1
  <2>2. DOMAIN attempts' = Orders /\ attempts' = [o \in Orders |-> attempts'[o]]
    BY <1>1
  <2> HIDE DEF Slots
  <2>3. \A o \in Orders : attempts'[o] \in Nat /\ attempts'[o] <= Cardinality(Slots')
    BY <1>1, <1>2, <1>3, <2>1
  <2> QED BY <2>2, <2>3
<1>5. /\ mails' \in [Messages -> 0 .. MaxMails] /\ lost' \in [Messages -> Nat]
      /\ \A k \in Messages : lost'[k] <= mails'[k]
  <2>1. \A k \in Messages : /\ mails'[k] = IF k = m THEN mails[k] + a ELSE mails[k]
                            /\ lost'[k] = IF k = m THEN lost[k] + b ELSE lost[k]
                            /\ mails[k] \in Nat /\ lost[k] \in Nat /\ mails[k] <= MaxMails
    BY <1>1
  <2>2. /\ DOMAIN mails' = Messages /\ mails' = [k \in Messages |-> mails'[k]]
        /\ DOMAIN lost' = Messages /\ lost' = [k \in Messages |-> lost'[k]]
    BY <1>1
  <2>3. \A k \in Messages : mails'[k] \in 0 .. MaxMails /\ lost'[k] \in Nat /\ lost'[k] <= mails'[k]
    BY <1>1, <2>1
  <2> QED BY <2>2, <2>3
<1>6. CountsTyped'
  BY <1>4, <1>5 DEF CountsTyped
<1>7. GmailTyped'
  BY DEF WInv, RowsTyped, GmailTyped, Posted
<1> QED BY <1>6, <1>7 DEF Fine, RowsTyped

LEMMA SendsFine ==
    ASSUME WatchedAssumption, WInv, NEW m \in Posted,
           ReplySent(m) \/ ReplyFailed(m) \/ ReplyDeferred(m) \/ ReplyDies(m)
    PROVE  Fine
<1>1. /\ m \in Messages /\ Thread(m) \in Threads /\ Len(mail) \in Nat /\ Len(mail) <= MaxMessages
      /\ MaxMessages \in Nat /\ Posted \subseteq Messages
      /\ mails \in [Messages -> 0 .. MaxMails] /\ lost \in [Messages -> Nat]
      /\ attempts \in [Orders -> Nat] /\ heard \in [Threads -> 0 .. MaxMessages]
      /\ cooling \subseteq Messages
  BY PostedTyped, Typed DEF WInv, RowsTyped, CountsTyped, GmailTyped, RepliesTyped, WatchedAssumption
<1>2. Ready(m) /\ UNCHANGED <<mail, star, gone>>
  BY DEF ReplySent, ReplyFailed, ReplyDeferred, ReplyDies, gmail
<1>3. /\ mails = [mails EXCEPT ![m] = @ + 0] /\ lost = [lost EXCEPT ![m] = @ + 0]
      /\ attempts = [attempts EXCEPT ![Claim(m)] = @ + 0]
  <2>1. mails = [mails EXCEPT ![m] = @ + 0] /\ lost = [lost EXCEPT ![m] = @ + 0]
    BY <1>1
  <2>2. attempts = [attempts EXCEPT ![Claim(m)] = @ + 0]
    BY <1>1
  <2> QED BY <2>1, <2>2
<1>4. CASE ReplySent(m)
  <2> DEFINE st == IF Kind(m) = "waiting" THEN "manual_review" ELSE "processed"
             why == IF Kind(m) = "waiting" THEN "replied" ELSE "other"
  <2>1. item' = [item EXCEPT ![m].status = st, ![m].reason = why]
        /\ UNCHANGED <<inbox, watch, order, promised>>
    BY <1>4 DEF ReplySent
  <2>2. Sound(Db)'
    <3>1. /\ st \in {"none", "pending", "manual_review", "skipped"} \cup SKIPPABLE_FINAL_WORK_ITEM_STATUSES
          /\ why \in {"other", "replied"}
      BY DEF SKIPPABLE_FINAL_WORK_ITEM_STATUSES
    <3> HIDE DEF st, why
    <3>2. [item EXCEPT ![m].status = st, ![m].reason = why] \in [Messages -> GmailStarredWorkItem]
      BY <3>1, ItemTyped
    <3> QED BY <1>2, <2>1, <3>2, ItemsSound
  <2>3. pass' \in Passes
    BY <1>4, TriedPass DEF ReplySent
  <2>4. heard' \in [Threads -> 0 .. MaxMessages]
    BY <1>1, <1>4 DEF ReplySent
  <2>5. cooling' \subseteq Messages
    BY <1>1, <1>4 DEF ReplySent, OfKind
  <2>6. mails' = [mails EXCEPT ![m] = @ + 1] /\ lost' = [lost EXCEPT ![m] = @ + 0]
    BY <1>3, <1>4 DEF ReplySent, Mailed
  <2>7. \/ attempts' = [attempts EXCEPT ![Claim(m)] = @ + 0]
        \/ attempts' = [attempts EXCEPT ![Claim(m)] = @ + 1]
    BY <1>3, <1>4 DEF ReplySent
  <2>8. Counted(m, 1, 0, 0) \/ Counted(m, 1, 0, 1)
    BY <2>6, <2>7 DEF Counted
  <2>9. CASE Counted(m, 1, 0, 0)
    BY <1>2, <2>2, <2>3, <2>4, <2>5, <2>9, CountsFine
  <2>10. CASE Counted(m, 1, 0, 1)
    BY <1>2, <2>2, <2>3, <2>4, <2>5, <2>10, CountsFine
  <2> QED BY <2>8, <2>9, <2>10
<1>5. CASE ReplyFailed(m)
  <2>1. /\ item' = [item EXCEPT ![m].reason = "other"]
        /\ UNCHANGED <<inbox, watch, order, promised, attempts, cooling, heard>>
        /\ pass' \in Passes
    BY <1>5, TriedPass DEF ReplyFailed
  <2>2. Sound(Db)'
    <3>1. [item EXCEPT ![m].reason = "other"] \in [Messages -> GmailStarredWorkItem]
      BY ItemTyped
    <3> QED BY <1>2, <2>1, <3>1, ItemsSound
  <2>3. \/ mails' = [mails EXCEPT ![m] = @ + 1] /\ lost' = [lost EXCEPT ![m] = @ + 1]
        \/ mails' = [mails EXCEPT ![m] = @ + 0] /\ lost' = [lost EXCEPT ![m] = @ + 0]
    BY <1>3, <1>5 DEF ReplyFailed, Mailed
  <2>4. attempts' = [attempts EXCEPT ![Claim(m)] = @ + 0]
        /\ heard' \in [Threads -> 0 .. MaxMessages] /\ cooling' \subseteq Messages
    BY <1>1, <1>3, <2>1
  <2>5. Counted(m, 1, 1, 0) \/ Counted(m, 0, 0, 0)
    BY <2>3, <2>4 DEF Counted
  <2>6. CASE Counted(m, 1, 1, 0)
    BY <1>2, <2>1, <2>2, <2>4, <2>6, CountsFine
  <2>7. CASE Counted(m, 0, 0, 0)
    BY <1>2, <2>1, <2>2, <2>4, <2>7, CountsFine
  <2> QED BY <2>5, <2>6, <2>7
<1>6. CASE ReplyDeferred(m)
  <2>1. /\ item' = [item EXCEPT ![m].reason = "other"]
        /\ UNCHANGED <<inbox, watch, order, promised, attempts, cooling, heard, mails, lost>>
        /\ pass' \in Passes
    BY <1>6, TriedPass DEF ReplyDeferred
  <2>2. Sound(Db)'
    <3>1. [item EXCEPT ![m].reason = "other"] \in [Messages -> GmailStarredWorkItem]
      BY ItemTyped
    <3> QED BY <1>2, <2>1, <3>1, ItemsSound
  <2>3. /\ mails' = [mails EXCEPT ![m] = @ + 0] /\ lost' = [lost EXCEPT ![m] = @ + 0]
        /\ attempts' = [attempts EXCEPT ![Claim(m)] = @ + 0]
        /\ heard' \in [Threads -> 0 .. MaxMessages] /\ cooling' \subseteq Messages
    BY <1>1, <1>3, <2>1
  <2>4. Counted(m, 0, 0, 0)
    BY <2>3 DEF Counted
  <2> QED BY <1>2, <2>1, <2>2, <2>3, <2>4, CountsFine
<1>7. CASE ReplyDies(m)
  <2>1. UNCHANGED <<rows, attempts, cooling, heard, lost>> /\ pass' \in Passes
    BY <1>7, IdlePass DEF ReplyDies
  <2>2. Sound(Db)'
    BY <1>2, <2>1, SavedDb, SaveSound, Typed
  <2>3. \/ mails' = [mails EXCEPT ![m] = @ + 1]
        \/ mails' = [mails EXCEPT ![m] = @ + 0]
    BY <1>3, <1>7 DEF ReplyDies, Mailed
  <2>4. /\ lost' = [lost EXCEPT ![m] = @ + 0] /\ attempts' = [attempts EXCEPT ![Claim(m)] = @ + 0]
        /\ heard' \in [Threads -> 0 .. MaxMessages] /\ cooling' \subseteq Messages
    BY <1>1, <1>3, <2>1
  <2>5. Counted(m, 1, 0, 0) \/ Counted(m, 0, 0, 0)
    BY <2>3, <2>4 DEF Counted
  <2>6. CASE Counted(m, 1, 0, 0)
    BY <1>2, <2>1, <2>2, <2>4, <2>6, CountsFine
  <2>7. CASE Counted(m, 0, 0, 0)
    BY <1>2, <2>1, <2>2, <2>4, <2>7, CountsFine
  <2> QED BY <2>5, <2>6, <2>7
<1> QED BY <1>4, <1>5, <1>6, <1>7

(***************************************************************************)
(* Discovery and the import of recent messages                             *)
(***************************************************************************)

LEMMA DiscoverFine ==
    ASSUME WatchedAssumption, WInv, DiscoverStars
    PROVE  Fine
<1>1. Save(Discovered) /\ UNCHANGED <<gmail, sends>>
  BY DEF DiscoverStars
<1>2. ActiveThreads(Discovered) \in SUBSET Threads
  BY DEF ActiveThreads
<1>3. pass' \in Passes
  BY <1>2, IdlePass, Typed DEF DiscoverStars, Recent, Passes
<1> QED BY <1>1, <1>3, DiscoveredSound, RowsFine, Typed

LEMMA QueuePass ==
    ASSUME pass \in Passes, NEW m \in Messages
    PROVE  [pass EXCEPT !.queue = @ \cup {m}] \in Passes
BY DEF Passes

LEMMA ImportFine ==
    ASSUME WatchedAssumption, WInv, ImportRecent
    PROVE  Fine
<1> DEFINE m == Latest(Unseen)
           p == [pass EXCEPT !.queue = @ \cup {m}]
           r == Upserted(Db, m)
<1>1. AnalyzeLinked(r, m, p) /\ UNCHANGED <<mail, gone, sends>>
  BY DEF ImportRecent
<1>2. m \in Posted /\ m \in Messages
  <2>1. Unseen \in SUBSET Posted /\ Unseen # {}
    BY DEF Unseen, ImportRecent
  <2> QED BY <2>1, LatestIsLast, PostedTyped, Typed
<1> HIDE DEF m
<1>3. p \in Passes /\ Sound(r)
  BY <1>2, QueuePass, UpsertedSound, Typed
<1> HIDE DEF p, r
<1> QED BY <1>1, <1>2, <1>3, LinkedStep, StarsFine, Typed

LEMMA ReprocessFine ==
    ASSUME WatchedAssumption, WInv, ReprocessBacklog
    PROVE  Fine
<1> DEFINE r(m) == IF inbox[m].label /\ Thread(m) \notin gone THEN Upserted(Db, m) ELSE Db
           a(m) == Analyzed(r(m), m)
           b(m) == [a(m) EXCEPT !.inbox[m].label = FALSE]
           own(m) == OwnStar(r(m), m)
<1>1. UNCHANGED <<mail, gone, sends>>
  BY DEF ReprocessBacklog
<1>2. PICK m \in Again :
        /\ pass' = [pass EXCEPT !.queue = @ \cup {m}]
        /\ \/ star' = star /\ Save(MadeActionable(a(m), m))
           \/ own(m) # {} /\ star' = star \ own(m) /\ Save(MadeActionable(b(m), m))
  BY DEF ReprocessBacklog
<1>3. m \in Posted /\ m \in Messages
  BY PostedTyped, Typed DEF Again
<1>4. Sound(r(m))
  BY <1>3, UpsertedSound, Typed
<1>5. own(m) # {} => own(m) = {m} /\ Promised({m}, a(m).order)
  <2> HIDE DEF r
  <2> QED BY <1>3, <1>4, OwnStep, Typed
<1>6. Sound(a(m)) /\ a(m) \in Tables
  <2> HIDE DEF r
  <2> QED BY <1>3, <1>4, AnalyzedSound, Typed DEF Sound
<1> HIDE DEF r, a, own
<1>7. Sound(b(m)) /\ b(m).order = a(m).order /\ ~b(m).inbox[m].label
  <2>1. Sound(b(m))
    BY <1>3, <1>6, LabelledSound
  <2>2. b(m).order = a(m).order
    BY <1>6 DEF Tables
  <2>3. ~b(m).inbox[m].label
    <3>1. a(m).inbox \in [Messages -> InboundEmailMessage] /\ a(m).inbox[m] \in InboundEmailMessage
      BY <1>3, <1>6 DEF Tables
    <3>2. b(m).inbox[m] = [a(m).inbox[m] EXCEPT !.label = FALSE]
      BY <1>3, <1>6, <3>1 DEF Tables
    <3> QED BY <3>1, <3>2 DEF InboundEmailMessage
  <2> QED BY <2>1, <2>2, <2>3
<1> HIDE DEF b
<1>8. Sound(MadeActionable(a(m), m)) /\ MadeActionable(b(m), m) = b(m)
  <2>1. Sound(MadeActionable(a(m), m))
    BY <1>3, <1>6, MadeActionableSound, Typed
  <2> QED BY <1>7, <2>1 DEF MadeActionable
<1>9. pass' \in Passes
  BY <1>2, <1>3, QueuePass, Typed
<1>10. CASE star' = star /\ Save(MadeActionable(a(m), m))
  BY <1>1, <1>8, <1>9, <1>10, RowsFine DEF gmail
<1>11. CASE own(m) # {} /\ star' = star \ own(m) /\ Save(b(m))
  <2>1. Sound(Db)' /\ order' = a(m).order
    BY <1>1, <1>7, <1>11, SaveSound DEF Save
  <2>2. star \ star' \subseteq {m} /\ star' \subseteq Posted
    BY <1>5, <1>11, Typed
  <2>3. Promised(star \ star', order')
    BY <1>5, <1>11, <2>1, <2>2 DEF Promised
  <2> QED BY <1>1, <1>9, <2>1, <2>2, <2>3, StarsFine
<1> QED BY <1>2, <1>8, <1>10, <1>11

LEMMA NextFine ==
    ASSUME WatchedAssumption, WInv, [Next]_vars
    PROVE  Fine
<1>1. CASE UNCHANGED vars
  BY <1>1, PassFine, Typed DEF vars
<1>2. CASE Environment
  BY <1>2, EnvironmentFine
<1>3. CASE \/ Begin \/ ListActiveThreads \/ PollIsCut \/ StopReplies
           \/ DiscoveryFails \/ EndPass \/ RecentFails
  BY <1>3, StagesFine
<1>4. CASE ProcessPendingLocal
  BY <1>4, BacklogFine
<1>5. CASE Poll
  BY <1>5, PollFine
<1>6. CASE SelectReplies
  BY <1>6, SelectFine
<1>7. CASE Replies
  <2>1. PICK m \in Posted : \/ LeaveUnsafe(m) \/ PassOver(m) \/ ProofIsMissing(m)
                            \/ ReplySent(m) \/ ReplyFailed(m) \/ ReplyDeferred(m) \/ ReplyDies(m)
    BY <1>7 DEF Replies
  <2> QED BY <2>1, LeaveFine, PassOverFine, ProofFine, SendsFine
<1>8. CASE DiscoverStars
  BY <1>8, DiscoverFine
<1>9. CASE ImportRecent
  BY <1>9, ImportFine
<1>10. CASE ReprocessBacklog
  BY <1>10, ReprocessFine
<1> QED BY <1>1, <1>2, <1>3, <1>4, <1>5, <1>6, <1>7, <1>8, <1>9, <1>10 DEF Next

LEMMA InitWInv == ASSUME WatchedAssumption, Init PROVE WInv
<1>1. IInv
  BY InitIInv
<1>2. Posted = {}
  <2>1. mail = <<>>
    BY DEF Init
  <2> QED BY <2>1, EmptySeq, LenProperties DEF Posted
<1>3. Sound(Db)
  <2>1. FirstsOwn(watch)
    BY DEF Init, FirstsOwn
  <2>2. Db \in Tables
    BY DEF Init, Db, Tables, InboundEmailMessage, GmailWatchedThread, GmailStarredWorkItem, OrderStatus
  <2> QED BY <2>1, <2>2 DEF Sound, Db
<1>4. pass \in Passes
  BY IdlePass DEF Init
<1>5. CountsTyped
  <2>1. attempts = [o \in Orders |-> 0] /\ heard = [t \in Threads |-> 0]
        /\ mails = [m \in Messages |-> 0] /\ lost = [m \in Messages |-> 0]
    BY DEF Init
  <2>2. Cardinality(Slots) \in Nat /\ 0 \in 0 .. MaxMessages /\ 0 \in 0 .. MaxMails
    BY SlotsAreFew DEF WatchedAssumption
  <2> QED BY <2>1, <2>2 DEF CountsTyped
<1> QED BY <1>1, <1>2, <1>3, <1>4, <1>5 DEF WInv, RowsTyped, GmailTyped, Init

(***************************************************************************)
(* Theorems about the tables and the stars                                 *)
(***************************************************************************)

(* The tables are typed on every pass and around it, a watched conversation *)
(* begins with a message of its own, and an attempt is counted only for a   *)
(* reply that left.                                                        *)
THEOREM TablesTyped == Spec => []WInv
<1> USE WatchedAssumption
<1>1. Init => WInv
  BY InitWInv
<1>2. WInv /\ [Next]_vars => WInv'
  <2> SUFFICES ASSUME WInv, [Next]_vars PROVE WInv'
    OBVIOUS
  <2>1. IInv'
    BY NextIInv DEF WInv
  <2>2. RowsTyped'
    BY NextFine DEF Fine
  <2> QED BY <2>1, <2>2 DEF WInv
<1> QED BY <1>1, <1>2, PTL DEF Spec

(* Every row keeps its type, whichever step wrote it last.                 *)
THEOREM TypeCorrect == Spec => []WatchTypeOK
<1> USE WatchedAssumption
<1>1. WInv => WatchTypeOK
  <2> SUFFICES ASSUME WInv PROVE WatchTypeOK
    OBVIOUS
  <2>1. /\ RepliesTyped /\ pass \in Passes /\ star \subseteq Posted /\ gone \subseteq Threads
        /\ inbox \in [Messages -> InboundEmailMessage] /\ watch \in [Threads -> GmailWatchedThread]
        /\ item \in [Messages -> GmailStarredWorkItem] /\ order \in [Orders -> OrderStatus]
        /\ promised \subseteq Orders /\ cooling \subseteq Messages
    BY Typed DEF WInv, RowsTyped, GmailTyped
  <2>2. attempts \in [Orders -> 0 .. MaxAttempts + MaxMessages * MaxMails]
    <3>1. /\ MaxAttempts \in Nat /\ MaxMessages * MaxMails \in Nat
      BY DEF WatchedAssumption
    <3>2. Cardinality(Slots) \in Nat /\ Cardinality(Slots) <= MaxMessages * MaxMails
      BY SlotsAreFew
    <3>3. attempts \in [Orders -> Nat] /\ \A o \in Orders : attempts[o] <= Cardinality(Slots)
      BY DEF WInv, RowsTyped, CountsTyped
    <3> DEFINE few == Cardinality(Slots)
               most == MaxMessages * MaxMails
    <3> HIDE DEF few, most
    <3>4. \A o \in Orders : attempts[o] \in 0 .. MaxAttempts + most
      BY <3>1, <3>2, <3>3 DEF few, most
    <3> QED BY <3>3, <3>4 DEF most
  <2>3. lost \in [Messages -> 0 .. MaxMails] /\ mails \in [Messages -> 0 .. MaxMails]
        /\ heard \in [Threads -> 0 .. MaxMessages]
    BY DEF WInv, RowsTyped, CountsTyped, WatchedAssumption
  <2> QED BY <2>1, <2>2, <2>3 DEF WatchTypeOK, RepliesTyped, Passes
<1> QED BY <1>1, TablesTyped, PTL

(* A star goes only with its conversation, or once an order Uber promised   *)
(* to pay in that conversation is marked: remove_thread_star and           *)
(* remove_star_after_positive_signal never unstar on another answer.       *)
THEOREM PromisesUnstar == Spec => StarsFollowPromises
<1> USE WatchedAssumption
<1>1. WInv /\ [Next]_vars =>
        [\A m \in star \ star' :
           \/ Thread(m) \in gone'
           \/ \E n \in In(Thread(m)) :
                 /\ Kind(n) = "promise" /\ Claim(n) # NoOrder
                 /\ order'[Claim(n)] \in FOLLOWUP_TERMINAL_ORDER_STATUSES]_vars
  BY NextFine DEF Fine, Promised
<1> QED BY <1>1, TablesTyped, PTL DEF Spec, StarsFollowPromises

===============================================================================
