----------------------------- MODULE AutopilotRuns -----------------------------
(***************************************************************************)
(* The passes of AutoPilot over its queue during one day.                  *)
(*                                                                         *)
(* A process may run the follow-up worker (repair of stale requests, then  *)
(* the lanes in rotating order), a single lane, or the resumption of a     *)
(* mailbox's prepared drafts.  Several may run at once, in processes that  *)
(* know nothing of each other.  The limits are counted over the            *)
(* AutopilotAction rows, and what a pass wrote last is in its open         *)
(* transaction until its next Gmail call commits it.                       *)
(*                                                                         *)
(* The protocol of one send is GmailSend's; here it is three steps, and a  *)
(* case is one email that is due.  A mailbox's own limit and pacing may    *)
(* refuse at any time.                                                     *)
(***************************************************************************)
EXTENDS Naturals, Sequences, FiniteSets, FiniteSetsExt, SequencesExt

CONSTANTS
    Workers,            \* processes
    Cases,              \* due emails, numbered in the order of their due dates
    Lane,               \* case -> the lane that lists it
    Account,            \* case -> the mailbox of its restaurant
    Restaurant,
    Barred,             \* cases a local check refuses (candidate_skip_reason)
    Unreadable,         \* cases whose conversation Gmail does not find
    Deleted,            \* cases whose Gmail draft the owner deletes
    DailyLimit,         \* autopilot_daily_send_limit
    RestaurantLimit,    \* autopilot_per_restaurant_daily_limit
    MaxCandidates,
    Preflights,         \* reads of conversations per mailbox and lane, 3
    MaxRemoteRepairs    \* max_remote_send_repairs, 2

Lanes == {"followups", "appeals"}

ASSUME RunsAssumption ==
    /\ Cases \subseteq Nat /\ IsFiniteSet(Cases)
    /\ IsFiniteSet(Workers) /\ Workers # {}
    /\ Lane \in [Cases -> Lanes]
    /\ Barred \cup Unreadable \cup Deleted \subseteq Cases
    /\ DailyLimit \in Nat /\ RestaurantLimit \in Nat
    /\ MaxCandidates \in Nat \ {0} /\ Preflights \in Nat /\ MaxRemoteRepairs \in Nat

Accounts == {Account[c] : c \in Cases}
Restaurants == {Restaurant[c] : c \in Cases}

VARIABLES
    draft,      \* case -> the committed status of its Gmail draft
    stale,      \* requests older than stale_send_requested_minutes
    mailed,     \* cases whose email left today
    counted,    \* cases with a committed AutopilotAction that says sent
    run         \* worker -> its pass

vars == <<draft, stale, mailed, counted, run>>

DraftStatus == {"none", "provider_draft_created", "send_requested", "sent", "failed"}

Nothing == <<>>

(* lanes: still to run; todo: cases still to try; global, mine, used, tries: *)
(* global_sent, per_restaurant_sent, the mailboxes that sent or are over     *)
(* quota, remote_preflight_attempts_by_account; wrote: a case and its status *)
(* in the open transaction; single: resume_next_prepared_provider_draft.    *)
Idle ==
    [at |-> "idle", lanes |-> <<>>, todo |-> <<>>, global |-> 0,
     mine |-> [r \in Restaurants |-> 0], used |-> {}, tries |-> [a \in Accounts |-> 0],
     wrote |-> Nothing, single |-> FALSE]

(* Every variable has its type; a stale request is still a request, what is *)
(* counted left, and a pass that chose a case has it before it.            *)
RunsTypeOK ==
    /\ draft \in [Cases -> DraftStatus]
    /\ stale \subseteq {c \in Cases : draft[c] = "send_requested"}
    /\ mailed \subseteq Cases /\ counted \subseteq mailed
    /\ \A w \in Workers :
         LET p == run[w]
         IN  /\ p.at \in {"idle", "lane", "consider", "chosen", "ready", "call"}
             /\ ToSet(p.lanes) \subseteq Lanes /\ ToSet(p.todo) \subseteq Cases
             /\ p.global \in 0 .. Cardinality(Cases)
             /\ p.mine \in [Restaurants -> 0 .. Cardinality(Cases)]
             /\ p.used \subseteq Accounts
             /\ p.tries \in [Accounts -> 0 .. Preflights]
             /\ p.wrote = Nothing \/ p.wrote \in Cases \X DraftStatus
             /\ p.at \in {"chosen", "ready", "call"} => p.todo # <<>>

Init ==
    /\ draft = [c \in Cases |-> "none"]
    /\ stale = {} /\ mailed = {} /\ counted = {}
    /\ run = [w \in Workers |-> Idle]

-----------------------------------------------------------------------------
(* What a pass reads and writes                                            *)

(* The session of a pass sees its own last write. *)
DraftSeen(w) ==
    LET o == run[w].wrote IN IF o = Nothing THEN draft ELSE [draft EXCEPT ![o[1]] = o[2]]

OwnSent(w) ==
    LET o == run[w].wrote IN IF o # Nothing /\ o[2] = "sent" THEN {o[1]} ELSE {}

(* sent_today_count *)
SentToday(w) == counted \cup OwnSent(w)

OfRestaurant(S, r) == {c \in S : Restaurant[c] = r}

(* Every Gmail call commits the transaction first. *)
Commit(w) ==
    /\ draft' = DraftSeen(w)
    /\ counted' = SentToday(w)

Step(w, p) == run' = [run EXCEPT ![w] = p]

(* The members of S in the order that Before puts them in.  (SortSeq has no  *)
(* definition in TLA+ that a proof could use.)                             *)
Sorted(S, Before(_, _)) ==
    [i \in 1 .. Cardinality(S) |->
       CHOOSE c \in S : Cardinality({d \in S : Before(d, c)}) = i - 1]

InOrder == [S \in SUBSET Cases |-> Sorted(S, LAMBDA c, d : c < d)]

Upto(s, n) == SubSeq(s, 1, IF n < Len(s) THEN n ELSE Len(s))

Mates(S, c) == {d \in S : Account[d] = Account[c]}
Turn(S, c) == Cardinality({d \in Mates(S, c) : d < c})

(* The selection takes one case of each mailbox in turn. *)
FairShare ==
    [S \in SUBSET Cases |->
       Sorted(S, LAMBDA c, d :
              \/ Turn(S, c) < Turn(S, d)
              \/ Turn(S, c) = Turn(S, d) /\ Min(Mates(S, c)) < Min(Mates(S, d)))]

(* Fault: the limit of the query comes before the checks. *)
CandidatesCut(w, l) ==
    LET listed == {c \in Cases : Lane[c] = l /\ DraftSeen(w)[c] # "sent"}
        cut == ToSet(Upto(InOrder[listed], MaxCandidates))
    IN  InOrder[cut \ Barred] \o InOrder[cut \cap Barred]

(* followup_candidates, and appeal_candidates, which adds refused cases for   *)
(* the record while there is room.                                         *)
Candidates(w, l) ==
    LET listed == {c \in Cases : Lane[c] = l /\ DraftSeen(w)[c] # "sent"}
        eligible == IF Cardinality(listed \ Barred) > MaxCandidates
                    THEN FairShare[listed \ Barred] ELSE InOrder[listed \ Barred]
    IN  Upto(eligible \o (IF l = "appeals" THEN InOrder[listed \cap Barred] ELSE <<>>),
             MaxCandidates)

(* limit_skip_reason is None.  The restaurant's count holds what this pass  *)
(* sent already, and mine is added to it.                                  *)
LimitAllows(w, c) ==
    LET p == run[w]
        r == Restaurant[c]
    IN  /\ (IF p.single THEN Cardinality(SentToday(w)) ELSE p.global) < DailyLimit
        /\ Cardinality(OfRestaurant(SentToday(w), r)) + p.mine[r] < RestaurantLimit

-----------------------------------------------------------------------------
(* The repair of stale requests                                            *)

(* The first of them in due order, as many as a pass may ask Gmail about. *)
Asked ==
    LET due == {c \in stale : Lane[c] = "followups"}
    IN  {c \in due : Cardinality({d \in due : d < c}) < MaxRemoteRepairs}

(* Fault: a draft that is still in Gmail is left as it is. *)
RepairedIfMailed(c) == IF c \in mailed THEN "sent" ELSE draft[c]

(* A message in the sent folder confirms a request, a draft that is still   *)
(* in Gmail puts it back, and with neither it stays.                       *)
Repaired(c) ==
    IF c \in mailed THEN "sent"
    ELSE IF c \in Deleted THEN draft[c] ELSE "provider_draft_created"

(* Fault: a request that is put back keeps its age. *)
BeginWorkerAged(w, S) ==
    /\ run[w].at = "idle" /\ S \subseteq Asked
    /\ draft' = [c \in Cases |-> IF c \in S THEN Repaired(c) ELSE draft[c]]
    /\ \E order \in {<<"followups", "appeals">>, <<"appeals", "followups">>} :
         Step(w, [Idle EXCEPT !.at = "lane", !.lanes = order])
    /\ UNCHANGED <<stale, mailed, counted>>

(* repair_followup_queue, of which Gmail answered for the cases in S, and    *)
(* then the lanes.                                                         *)
BeginWorker(w, S) ==
    /\ run[w].at = "idle" /\ S \subseteq Asked
    /\ draft' = [c \in Cases |-> IF c \in S THEN Repaired(c) ELSE draft[c]]
    /\ stale' = {c \in stale : draft'[c] = "send_requested"}
    /\ \E order \in {<<"followups", "appeals">>, <<"appeals", "followups">>} :
         Step(w, [Idle EXCEPT !.at = "lane", !.lanes = order])
    /\ UNCHANGED <<mailed, counted>>

BeginRun(w, l) ==
    /\ run[w].at = "idle"
    /\ Step(w, [Idle EXCEPT !.at = "lane", !.lanes = <<l>>])
    /\ UNCHANGED <<draft, stale, mailed, counted>>

-----------------------------------------------------------------------------
(* A lane                                                                  *)

(* Fault: a lane counts from what the pass sent before it. *)
BeginLaneUncounted(w) ==
    /\ run[w].at = "lane" /\ run[w].lanes # <<>>
    /\ Step(w, [Idle EXCEPT !.at = "consider", !.lanes = Tail(run[w].lanes),
                            !.todo = Candidates(w, Head(run[w].lanes)),
                            !.global = run[w].global, !.wrote = run[w].wrote])
    /\ UNCHANGED <<draft, stale, mailed, counted>>

BeginLane(w) ==
    /\ run[w].at = "lane" /\ run[w].lanes # <<>>
    /\ Step(w, [Idle EXCEPT !.at = "consider", !.lanes = Tail(run[w].lanes),
                            !.todo = Candidates(w, Head(run[w].lanes)),
                            !.global = Cardinality(SentToday(w)), !.wrote = run[w].wrote])
    /\ UNCHANGED <<draft, stale, mailed, counted>>

(* resume_next_prepared_provider_draft of one mailbox. *)
BeginResume(w, a) ==
    /\ run[w].at = "idle"
    /\ Step(w, [Idle EXCEPT !.at = "consider", !.single = TRUE,
                            !.todo = InOrder[{c \in Cases : /\ Account[c] = a
                                                            /\ draft[c] = "provider_draft_created"}]])
    /\ UNCHANGED <<draft, stale, mailed, counted>>

(* No mailbox is tried after its send or its quota, nor a fourth time. *)
MayTry(w, c) ==
    /\ Account[c] \notin run[w].used /\ c \notin Barred
    /\ run[w].single \/ run[w].tries[Account[c]] < Preflights
    /\ LimitAllows(w, c)

Passed(p) == [p EXCEPT !.at = "consider", !.todo = Tail(p.todo)]

Consider(w, c) ==
    LET p == run[w]
    IN  /\ p.at = "consider" /\ p.todo # <<>> /\ c = Head(p.todo)
        /\ MayTry(w, c)
        /\ Step(w, [p EXCEPT !.at = "chosen",
                             !.tries = IF p.single THEN p.tries ELSE [p.tries EXCEPT ![Account[c]] = @ + 1]])
        /\ UNCHANGED <<draft, stale, mailed, counted>>

(* One of the checks refuses the case, its mailbox's limits among them. *)
PassOver(w) ==
    /\ run[w].at = "consider" /\ run[w].todo # <<>>
    /\ Step(w, Passed(run[w]))
    /\ UNCHANGED <<draft, stale, mailed, counted>>

(* remote_thread_safety_skip_reason, and the Gmail draft when there is none.  *)
(* A spent quota ends the mailbox's turn.                                  *)
Preflight(w, c) ==
    LET p == [run[w] EXCEPT !.wrote = Nothing]
    IN  /\ p.at = "chosen" /\ c = Head(p.todo)
        /\ counted' = SentToday(w)
        /\ \/ c \notin Unreadable
              /\ draft' = [DraftSeen(w) EXCEPT ![c] = IF @ = "none" THEN "provider_draft_created" ELSE @]
              /\ Step(w, [p EXCEPT !.at = "ready"])
           \/ draft' = DraftSeen(w) /\ Step(w, Passed(p))
           \/ /\ ~p.single /\ draft' = DraftSeen(w)
              /\ Step(w, [Passed(p) EXCEPT !.used = @ \cup {Account[c]}])
    /\ UNCHANGED <<stale, mailed>>

(* send_provider_draft commits the request. *)
Request(w, c) ==
    /\ run[w].at = "ready" /\ c = Head(run[w].todo)
    /\ draft[c] = "provider_draft_created"
    /\ draft' = [draft EXCEPT ![c] = "send_requested"]
    /\ Step(w, [run[w] EXCEPT !.at = "call"])
    /\ UNCHANGED <<stale, mailed, counted>>

(* The draft is not ready, or the mailbox's limits refuse it under the lock. *)
NotRequested(w) ==
    /\ run[w].at = "ready"
    /\ \E full \in BOOLEAN :
         LET p == run[w]
             c == Head(p.todo)
         IN  Step(w, IF p.single THEN Idle
                     ELSE [Passed(p) EXCEPT !.used = IF full THEN @ \cup {Account[c]} ELSE @])
    /\ UNCHANGED <<draft, stale, mailed, counted>>

Wrote(w, c, s) == [Passed(run[w]) EXCEPT !.wrote = <<c, s>>]

(* A resumption ends with its first send, and its caller commits. *)
AfterCall(w, c, s, p) ==
    IF run[w].single
    THEN /\ draft' = [draft EXCEPT ![c] = s] /\ Step(w, Idle)
         /\ counted' = IF s = "sent" THEN counted \cup {c} ELSE counted
    ELSE Step(w, p) /\ UNCHANGED <<draft, counted>>

Answer(w, c) ==
    /\ run[w].at = "call" /\ c = Head(run[w].todo) /\ c \notin Deleted
    /\ mailed' = mailed \cup {c}
    /\ AfterCall(w, c, "sent",
                 [Wrote(w, c, "sent") EXCEPT !.global = @ + 1, !.mine[Restaurant[c]] = @ + 1,
                                             !.used = @ \cup {Account[c]}])
    /\ UNCHANGED stale

(* An error; the email may have left all the same. *)
AnswerFails(w, c) ==
    /\ run[w].at = "call" /\ c = Head(run[w].todo)
    /\ AfterCall(w, c, "failed", Wrote(w, c, "failed"))
    /\ mailed' = mailed \/ (c \notin Deleted /\ mailed' = mailed \cup {c})
    /\ UNCHANGED stale

AnswerDefers(w, c) ==
    /\ run[w].at = "call" /\ c = Head(run[w].todo)
    /\ AfterCall(w, c, "provider_draft_created",
                 [Wrote(w, c, "provider_draft_created") EXCEPT !.used = @ \cup {Account[c]}])
    /\ UNCHANGED <<stale, mailed>>

EndLane(w) ==
    /\ run[w].at = "consider" /\ run[w].todo = <<>>
    /\ Step(w, IF run[w].single THEN Idle ELSE [run[w] EXCEPT !.at = "lane"])
    /\ UNCHANGED <<draft, stale, mailed, counted>>

EndPass(w) ==
    /\ run[w].at = "lane" /\ run[w].lanes = <<>>
    /\ Commit(w)
    /\ Step(w, Idle)
    /\ UNCHANGED <<stale, mailed>>

(* The process dies, or the next lane raises AutopilotError and everything   *)
(* since the last Gmail call is rolled back.  A call under way may succeed. *)
Die(w) ==
    /\ run[w].at # "idle"
    /\ Step(w, Idle)
    /\ \/ mailed' = mailed
       \/ /\ run[w].at = "call" /\ Head(run[w].todo) \notin Deleted
          /\ mailed' = mailed \cup {Head(run[w].todo)}
    /\ UNCHANGED <<draft, stale, counted>>

(* No call and no commit lasts as long as a request takes to be stale. *)
GoStale(c) ==
    /\ draft[c] = "send_requested" /\ c \notin stale
    /\ \A w \in Workers :
         /\ run[w].at = "call" => c # Head(run[w].todo)
         /\ run[w].wrote # Nothing => c # run[w].wrote[1]
    /\ stale' = stale \cup {c}
    /\ UNCHANGED <<draft, mailed, counted, run>>

Begin(w) ==
    \/ \E S \in SUBSET Asked : BeginWorker(w, S)
    \/ \E l \in Lanes : BeginRun(w, l)
    \/ \E a \in Accounts : BeginResume(w, a)

Work(w) ==
    \/ BeginLane(w) \/ PassOver(w) \/ NotRequested(w) \/ EndLane(w) \/ EndPass(w)
    \/ \E c \in Cases : \/ Consider(w, c) \/ Preflight(w, c) \/ Request(w, c)
                        \/ Answer(w, c) \/ AnswerFails(w, c) \/ AnswerDefers(w, c)

Next ==
    \/ \E w \in Workers : Begin(w) \/ Work(w) \/ Die(w)
    \/ \E c \in Cases : GoStale(c)

Spec == Init /\ [][Next]_vars

(* What need not happen: a death, an empty quota, or a refusal, deferral or  *)
(* error of Gmail for a case it could serve.                               *)
Misfortune(w) ==
    LET QuotaSpent == ~(run'[w].used \subseteq run[w].used)
    IN  \/ Die(w) /\ ~(EndLane(w) \/ EndPass(w) \/ NotRequested(w))
        \/ PassOver(w) /\ MayTry(w, Head(run[w].todo))
        \/ NotRequested(w) /\ (draft[Head(run[w].todo)] = "provider_draft_created" \/ QuotaSpent)
        \/ \E c \in Cases : AnswerDefers(w, c)
        \/ \E c \in Cases : Preflight(w, c) /\ run'[w].at # "ready" /\ (c \notin Unreadable \/ QuotaSpent)
        \/ \E c \in Cases \ Deleted : AnswerFails(w, c)

(* Passes go on, the worker is started again and again and Gmail answers its *)
(* repair, requests grow old, and misfortunes end.                         *)
FairSpec ==
    /\ Spec
    /\ \A w \in Workers : /\ WF_vars(Work(w)) /\ SF_vars(BeginWorker(w, Asked))
                          /\ <>[][~Misfortune(w)]_vars
    /\ WF_vars(\E c \in Cases : GoStale(c))

-----------------------------------------------------------------------------
(* Properties                                                              *)

(* A pass reads the count of the day when its lane begins, and that of the   *)
(* restaurant before each case, without what the others have not committed  *)
(* or have yet to send: each process may send the limit of the day once     *)
(* over, and two emails past that of a restaurant.                         *)
LimitsHold ==
    /\ Cardinality(counted) <= Cardinality(Workers) * DailyLimit
    /\ \A r \in Restaurants : Cardinality(OfRestaurant(counted, r))
                                 <= RestaurantLimit + 2 * (Cardinality(Workers) - 1)

RestaurantIsFull(c) ==
    Cardinality(OfRestaurant(counted, Restaurant[c])) >= RestaurantLimit

(* As many cases as a mailbox may have that take up its turn without ever    *)
(* being sent: those Gmail cannot read, drafts that are not ready, and what  *)
(* another restaurant of the mailbox may not send today.                   *)
Stuck(c) ==
    {d \in Cases \ (Barred \cup {c}) :
       /\ Account[d] = Account[c] /\ Lane[d] = Lane[c]
       /\ \/ d \in Unreadable \/ draft[d] \in {"send_requested", "failed"}
          \/ draft[d] # "sent" /\ RestaurantIsFull(d)}

Crowded(c) ==
    LET mailboxes == {Account[d] : d \in {e \in Cases : Lane[e] = Lane[c]}}
    IN  Cardinality(Stuck(c)) >= Min({Preflights, MaxCandidates \div Cardinality(mailboxes)})

LimitReached(c) ==
    Cardinality(counted) >= DailyLimit \/ RestaurantIsFull(c)

(* Cases a local check refuses never keep a later one from being sent, and   *)
(* neither do a few that Gmail refuses, or another mailbox: every sound     *)
(* case is requested of Gmail while its limits last.                       *)
BlockersDoNotStarve ==
    \A c \in Cases \ (Barred \cup Unreadable) :
       []<>(draft[c] \notin {"none", "provider_draft_created"} \/ Crowded(c) \/ LimitReached(c))

Hopeless ==
    {c \in Deleted \ mailed : Lane[c] = "followups" /\ draft[c] = "send_requested"}

(* A follow-up whose answer was lost is settled in its turn, as long as those *)
(* of which Gmail knows nothing leave the repair a place.                  *)
RequestsSettleInTurn ==
    \A c \in {d \in Cases \ Deleted : Lane[d] = "followups"} :
       draft[c] = "send_requested"
       ~> (draft[c] # "send_requested" \/ Cardinality(Hopeless) >= MaxRemoteRepairs)

=============================================================================
