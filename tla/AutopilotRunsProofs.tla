-------------------------- MODULE AutopilotRunsProofs --------------------------
(***************************************************************************)
(* Proofs about AutopilotRuns, for any number of processes, due emails,    *)
(* mailboxes and restaurants and any limits.                               *)
(***************************************************************************)
EXTENDS AutopilotRuns, FiniteSetTheorems, SequenceTheorems, WellFoundedInduction, TLAPS

(***************************************************************************)
(* Lists in order                                                          *)
(***************************************************************************)

(* R puts the members of S in a row. *)
Orders(R, S) ==
    /\ \A c \in S : <<c, c>> \notin R
    /\ \A c, d, e \in S : <<c, d>> \in R /\ <<d, e>> \in R => <<c, e>> \in R
    /\ \A c, d \in S : c = d \/ <<c, d>> \in R \/ <<d, c>> \in R

Before(R, S, c) == {d \in S : <<d, c>> \in R}

(* A finite set in order has a member with as many before it as one asks   *)
(* for.                                                                    *)
LEMMA EveryPlace ==
    ASSUME NEW S, IsFiniteSet(S), NEW R, Orders(R, S),
           NEW n \in Nat, n < Cardinality(S)
    PROVE  \E c \in S : Cardinality(Before(R, S, c)) = n
<1> DEFINE m == Cardinality(S)
           rank(c) == Cardinality(Before(R, S, c))
           f == [c \in S |-> rank(c)]
<1>1. m \in Nat
  BY FS_CardinalityType
<1>2. ASSUME NEW c \in S
      PROVE  IsFiniteSet(Before(R, S, c)) /\ rank(c) \in Nat /\ rank(c) < m
  <2>1. Before(R, S, c) \in SUBSET S /\ c \notin Before(R, S, c)
    BY DEF Before, Orders
  <2>2. IsFiniteSet(Before(R, S, c)) /\ rank(c) <= m /\ (m = rank(c) => S = Before(R, S, c))
    BY <2>1, FS_Subset
  <2>3. rank(c) \in Nat
    BY <2>2, FS_CardinalityType
  <2> QED BY <1>1, <2>1, <2>2, <2>3
<1>3. ASSUME NEW c \in S, NEW d \in S, <<c, d>> \in R
      PROVE  rank(c) < rank(d)
  <2>1. Before(R, S, c) \in SUBSET Before(R, S, d)
    BY <1>3 DEF Before, Orders
  <2>2. c \in Before(R, S, d) /\ c \notin Before(R, S, c)
    BY <1>3 DEF Before, Orders
  <2>3. rank(c) <= rank(d) /\ rank(c) # rank(d)
    BY <1>2, <2>1, <2>2, FS_Subset
  <2> QED BY <1>2, <2>3
<1> HIDE DEF m, rank
<1>4. f \in [S -> 0 .. m - 1]
  BY <1>1, <1>2
<1>5. \A c, d \in S : f[c] = f[d] => c = d
  <2> SUFFICES ASSUME NEW c \in S, NEW d \in S, rank(c) = rank(d)
               PROVE  c = d
    OBVIOUS
  <2>1. rank(c) \in Nat /\ rank(d) \in Nat
    BY <1>2
  <2>2. c = d \/ <<c, d>> \in R \/ <<d, c>> \in R
    BY DEF Orders
  <2>3. CASE <<c, d>> \in R
    BY <1>3, <2>1, <2>3
  <2>4. CASE <<d, c>> \in R
    BY <1>3, <2>1, <2>4
  <2> QED BY <2>2, <2>3, <2>4
<1>6. f \in Injection(S, 0 .. m - 1)
  BY <1>4, <1>5 DEF Injection, IsInjective
<1>7. IsFiniteSet(0 .. m - 1) /\ Cardinality(0 .. m - 1) = m
  BY <1>1, FS_Interval
<1>8. f \in Surjection(S, 0 .. m - 1)
  BY <1>6, <1>7, FS_Injection DEF m
<1>9. n \in 0 .. m - 1
  BY <1>1 DEF m
<1> QED BY <1>8, <1>9 DEF Surjection, rank

(* A list of S: some of its members, and no more of them than it has.      *)
ListOf(s, S) == s \in Seq(S) /\ Len(s) = Cardinality(S)

LEMMA RowIsSeq ==
    ASSUME NEW S, NEW n \in Nat, NEW s \in [1 .. n -> S]
    PROVE  s \in Seq(S) /\ Len(s) = n
OBVIOUS

LEMMA ListInPlace ==
    ASSUME NEW S, IsFiniteSet(S), NEW R, Orders(R, S), NEW s,
           s = [i \in 1 .. Cardinality(S) |->
                  CHOOSE c \in S : Cardinality(Before(R, S, c)) = i - 1]
    PROVE  ListOf(s, S)
<1>1. Cardinality(S) \in Nat
  BY FS_CardinalityType
<1>2. \A i \in 1 .. Cardinality(S) : s[i] \in S
  <2> SUFFICES ASSUME NEW i \in 1 .. Cardinality(S)
               PROVE  s[i] \in S
    OBVIOUS
  <2>1. i - 1 \in Nat /\ i - 1 < Cardinality(S)
    BY <1>1
  <2>2. \E c \in S : Cardinality(Before(R, S, c)) = i - 1
    BY <2>1, EveryPlace
  <2> QED BY <2>2
<1> DEFINE n == Cardinality(S)
<1>3. s \in [1 .. n -> S] /\ n \in Nat
  BY <1>1, <1>2
<1>4. s \in Seq(S) /\ Len(s) = n
  <2> HIDE DEF n
  <2> QED BY <1>3, RowIsSeq
<1> QED BY <1>4 DEF ListOf

LEMMA SubsetsOfCases ==
    ASSUME RunsAssumption, NEW S \in SUBSET Cases
    PROVE  /\ IsFiniteSet(S) /\ Cardinality(S) \in Nat
           /\ Cardinality(S) <= Cardinality(Cases) /\ Cardinality(Cases) \in Nat
BY FS_Subset, FS_CardinalityType DEF RunsAssumption

LEMMA InOrderLists ==
    ASSUME RunsAssumption, NEW S \in SUBSET Cases
    PROVE  ListOf(InOrder[S], S)
<1> DEFINE R == {p \in S \X S : p[1] < p[2]}
<1>1. S \in SUBSET Nat /\ IsFiniteSet(S)
  BY SubsetsOfCases DEF RunsAssumption
<1>2. \A c, d \in S : <<c, d>> \in R <=> c < d
  OBVIOUS
<1>3. Orders(R, S)
  <2> HIDE DEF R
  <2> QED BY <1>1, <1>2 DEF Orders
<1>4. \A c \in S : Before(R, S, c) = {d \in S : d < c}
  BY <1>2 DEF Before
<1>5. InOrder[S] = [i \in 1 .. Cardinality(S) |->
                      CHOOSE c \in S : Cardinality(Before(R, S, c)) = i - 1]
  <2>1. InOrder[S] = [i \in 1 .. Cardinality(S) |->
                        CHOOSE c \in S : Cardinality({d \in S : d < c}) = i - 1]
    BY DEF InOrder, Sorted
  <2> HIDE DEF R
  <2> QED BY <1>4, <2>1
<1> HIDE DEF R
<1> QED BY <1>1, <1>3, <1>5, ListInPlace

(* The first case of a mailbox is one of them. *)
LEMMA FirstMate ==
    ASSUME RunsAssumption, NEW S \in SUBSET Cases, NEW c \in S
    PROVE  Min(Mates(S, c)) \in Mates(S, c) /\ Min(Mates(S, c)) \in Nat
<1> DEFINE M == Mates(S, c)
           R == {p \in M \X M : p[1] < p[2]}
<1>1. M \in SUBSET Nat /\ M \in SUBSET Cases /\ c \in M
  BY DEF Mates, RunsAssumption
<1> HIDE DEF M
<1>2. IsFiniteSet(M) /\ Cardinality(M) \in Nat /\ Cardinality(M) # 0
  BY <1>1, SubsetsOfCases, FS_EmptySet
<1>3. \A d, e \in M : <<d, e>> \in R <=> d < e
  OBVIOUS
<1> HIDE DEF R
<1>4. Orders(R, M)
  BY <1>1, <1>3 DEF Orders
<1>5. PICK d \in M : Cardinality(Before(R, M, d)) = 0
  BY <1>2, <1>4, EveryPlace
<1>6. Before(R, M, d) = {}
  <2>1. IsFiniteSet(Before(R, M, d))
    BY <1>2, FS_Subset DEF Before
  <2> QED BY <1>5, <2>1, FS_EmptySet
<1>7. \A e \in M : d <= e
  <2> SUFFICES ASSUME NEW e \in M, e < d
               PROVE  FALSE
    BY <1>1
  <2>1. <<e, d>> \in R
    BY <1>3
  <2> QED BY <1>6, <2>1 DEF Before
<1>8. Min(M) \in M
  BY <1>7 DEF Min
<1> QED BY <1>1, <1>8 DEF M

(* Of two cases of a mailbox one has the earlier turn. *)
LEMMA TurnsDiffer ==
    ASSUME RunsAssumption, NEW S \in SUBSET Cases, NEW c \in S, NEW d \in S,
           Account[c] = Account[d], c < d
    PROVE  Turn(S, c) < Turn(S, d)
<1> DEFINE C == {e \in Mates(S, c) : e < c}
           D == {e \in Mates(S, d) : e < d}
<1>1. Mates(S, c) = Mates(S, d) /\ Mates(S, c) \in SUBSET Nat /\ c \in Mates(S, c)
  BY DEF Mates, RunsAssumption
<1>2. C \in SUBSET D /\ c \in D /\ c \notin C
  BY <1>1
<1>3. C \in SUBSET Cases /\ D \in SUBSET Cases
  BY DEF Mates
<1> HIDE DEF C, D
<1>4. IsFiniteSet(D) /\ Cardinality(D) \in Nat /\ Cardinality(C) \in Nat
  BY <1>3, SubsetsOfCases
<1>5. Cardinality(C) < Cardinality(D)
  <2>1. Cardinality(C) <= Cardinality(D) /\ (Cardinality(D) = Cardinality(C) => D = C)
    BY <1>2, <1>4, FS_Subset
  <2> QED BY <1>2, <1>4, <2>1
<1> QED BY <1>1, <1>5 DEF Turn, C, D

LEMMA FairShareLists ==
    ASSUME RunsAssumption, NEW S \in SUBSET Cases
    PROVE  ListOf(FairShare[S], S)
<1> DEFINE first(c) == Min(Mates(S, c))
           less(c, d) == \/ Turn(S, c) < Turn(S, d)
                         \/ Turn(S, c) = Turn(S, d) /\ first(c) < first(d)
           R == {p \in S \X S : less(p[1], p[2])}
<1>1. S \in SUBSET Nat /\ IsFiniteSet(S)
  BY SubsetsOfCases DEF RunsAssumption
<1>2. \A c, d \in S : <<c, d>> \in R <=> less(c, d)
  OBVIOUS
<1>3. \A c \in S : Turn(S, c) \in Nat /\ first(c) \in Nat
  <2> SUFFICES ASSUME NEW c \in S
               PROVE  Turn(S, c) \in Nat /\ first(c) \in Nat
    OBVIOUS
  <2>1. {d \in Mates(S, c) : d < c} \in SUBSET Cases
    BY DEF Mates
  <2> QED BY <2>1, SubsetsOfCases, FirstMate DEF Turn
<1>4. \A c, d \in S : Turn(S, c) = Turn(S, d) /\ first(c) = first(d) => c = d
  <2> SUFFICES ASSUME NEW c \in S, NEW d \in S,
                      Turn(S, c) = Turn(S, d), first(c) = first(d), c # d
               PROVE  FALSE
    OBVIOUS
  <2>1. Account[c] = Account[d]
    <3>1. first(c) \in Mates(S, c) /\ first(d) \in Mates(S, d)
      BY FirstMate
    <3> HIDE DEF first
    <3> QED BY <3>1 DEF Mates
  <2>2. c < d \/ d < c
    BY <1>1
  <2>3. Turn(S, c) < Turn(S, d) \/ Turn(S, d) < Turn(S, c)
    BY <2>1, <2>2, TurnsDiffer
  <2> QED BY <1>3, <2>3
<1>5. Orders(R, S)
  <2> HIDE DEF R, first
  <2> QED BY <1>2, <1>3, <1>4 DEF Orders
<1>6. \A c \in S : Before(R, S, c) = {d \in S : less(d, c)}
  BY <1>2 DEF Before
<1>7. FairShare[S] = [i \in 1 .. Cardinality(S) |->
                        CHOOSE c \in S : Cardinality({d \in S : less(d, c)}) = i - 1]
  BY DEF FairShare, Sorted
<1> HIDE DEF R, less
<1>8. FairShare[S] = [i \in 1 .. Cardinality(S) |->
                        CHOOSE c \in S : Cardinality(Before(R, S, c)) = i - 1]
  BY <1>6, <1>7
<1> QED BY <1>1, <1>5, <1>8, ListInPlace

LEMMA UptoShortens ==
    ASSUME NEW S, NEW s \in Seq(S), NEW n \in Nat
    PROVE  Upto(s, n) \in Seq(S) /\ Len(Upto(s, n)) <= Len(s)
<1> DEFINE k == IF n < Len(s) THEN n ELSE Len(s)
<1>1. Len(s) \in Nat /\ k \in Nat /\ k <= Len(s)
  BY LenProperties
<1>2. \A i \in 1 .. k : s[i] \in S
  BY <1>1, ElementOfSeq
<1> HIDE DEF k
<1>3. SubSeq(s, 1, k) \in Seq(S) /\ Len(SubSeq(s, 1, k)) = IF 1 <= k THEN k - 1 + 1 ELSE 0
  <2>1. 1 \in Int /\ k \in Int
    BY <1>1
  <2> QED BY <1>2, <2>1, SubSeqProperties
<1> QED BY <1>1, <1>3 DEF Upto, k

(* The cases a lane may list for a pass. *)
Unsent(w) == {c \in Cases : DraftSeen(w)[c] # "sent"}

LEMMA CandidatesListed ==
    ASSUME RunsAssumption, NEW w \in Workers, NEW l \in Lanes
    PROVE  /\ Candidates(w, l) \in Seq(Cases)
           /\ Len(Candidates(w, l)) <= Cardinality(Unsent(w))
<1> DEFINE listed == {c \in Cases : Lane[c] = l /\ DraftSeen(w)[c] # "sent"}
           open == listed \ Barred
           shut == listed \cap Barred
           first == IF Cardinality(open) > MaxCandidates THEN FairShare[open] ELSE InOrder[open]
           rest == IF l = "appeals" THEN InOrder[shut] ELSE <<>>
<1>1. listed \in SUBSET Cases /\ open \in SUBSET Cases /\ shut \in SUBSET Cases
      /\ listed \in SUBSET Unsent(w) /\ Unsent(w) \in SUBSET Cases
  BY DEF Unsent
<1>2. open \cup shut = listed /\ open \cap shut = {}
  OBVIOUS
<1>3. Candidates(w, l) = Upto(first \o rest, MaxCandidates)
  BY DEF Candidates
<1> HIDE DEF listed, open, shut
<1>4. first \in Seq(Cases) /\ Len(first) = Cardinality(open)
  <2>1. ListOf(first, open)
    BY <1>1, InOrderLists, FairShareLists
  <2> QED BY <1>1, <2>1, SeqMonotonic DEF ListOf
<1>5. rest \in Seq(Cases) /\ Len(rest) <= Cardinality(shut)
  <2>1. CASE l = "appeals"
    <3>1. ListOf(rest, shut)
      BY <1>1, <2>1, InOrderLists
    <3>2. Cardinality(shut) \in Nat
      BY <1>1, SubsetsOfCases
    <3> HIDE DEF rest
    <3>3. rest \in Seq(shut) /\ Len(rest) = Cardinality(shut)
      BY <3>1 DEF ListOf
    <3>4. rest \in Seq(Cases)
      BY <1>1, <3>3, SeqMonotonic
    <3> QED BY <3>2, <3>3, <3>4
  <2>2. CASE l # "appeals"
    <3>1. Cardinality(shut) \in Nat
      BY <1>1, SubsetsOfCases
    <3> QED BY <2>2, <3>1, EmptySeq
  <2> QED BY <2>1, <2>2
<1> HIDE DEF first, rest
<1>6. Cardinality(open) + Cardinality(shut) = Cardinality(listed)
  <2>1. IsFiniteSet(open) /\ IsFiniteSet(shut) /\ Cardinality(open) \in Nat
        /\ Cardinality(shut) \in Nat
    BY <1>1, SubsetsOfCases
  <2>2. Cardinality(open \cup shut) =
          Cardinality(open) + Cardinality(shut) - Cardinality(open \cap shut)
    BY <2>1, FS_Union
  <2>3. Cardinality(open \cap shut) = 0 /\ Cardinality(open \cup shut) = Cardinality(listed)
    BY <1>2, FS_EmptySet
  <2> QED BY <2>1, <2>2, <2>3
<1>7. Cardinality(listed) <= Cardinality(Unsent(w)) /\ Cardinality(listed) \in Nat
      /\ Cardinality(Unsent(w)) \in Nat /\ Cardinality(open) \in Nat /\ Cardinality(shut) \in Nat
  BY <1>1, SubsetsOfCases, FS_Subset
<1>8. first \o rest \in Seq(Cases) /\ Len(first \o rest) = Len(first) + Len(rest)
  BY <1>4, <1>5, ConcatProperties
<1>9. Candidates(w, l) \in Seq(Cases) /\ Len(Candidates(w, l)) <= Len(first \o rest)
  BY <1>3, <1>8, UptoShortens DEF RunsAssumption
<1>10. Len(Candidates(w, l)) \in Nat /\ Len(first) \in Nat /\ Len(rest) \in Nat
  BY <1>4, <1>5, <1>9, LenProperties
<1> QED BY <1>4, <1>5, <1>6, <1>7, <1>8, <1>9, <1>10

(***************************************************************************)
(* The inductive invariant                                                 *)
(***************************************************************************)

Places == {"idle", "lane", "consider", "chosen", "ready", "call"}
Chosen == {"chosen", "ready", "call"}

PassRow ==
    [at : Places, lanes : Seq(Lanes), todo : Seq(Cases), global : Nat,
     mine : [Restaurants -> Nat], used : SUBSET Accounts,
     tries : [Accounts -> 0 .. Preflights],
     wrote : {Nothing} \cup (Cases \X DraftStatus), single : BOOLEAN]

RowsTyped ==
    /\ draft \in [Cases -> DraftStatus] /\ stale \subseteq Cases
    /\ mailed \subseteq Cases /\ counted \subseteq mailed
    /\ run \in [Workers -> PassRow]

(* The counts of a pass leave room for the cases it may still send. *)
CountsFit(p) ==
    IF p.single THEN p.global = 0 /\ \A r \in Restaurants : p.mine[r] = 0
    ELSE /\ p.global + Len(p.todo) <= Cardinality(Cases)
         /\ \A r \in Restaurants : p.mine[r] + Len(p.todo) <= Cardinality(Cases)

(* An email on record in the open transaction of a pass. *)
Sent(p) == IF p.wrote # Nothing /\ p.wrote[2] = "sent" THEN {p.wrote[1]} ELSE {}

(* A pass with a case in hand had room for it in the day, and one with an   *)
(* email on record has counted it.                                         *)
PassOK(p) ==
    /\ CountsFit(p)
    /\ p.at \in Chosen => p.todo # <<>> /\ DailyLimit # 0
    /\ p.at \in Chosen /\ ~p.single => p.global < DailyLimit
    /\ p.single \/ p.at \in {"idle", "ready", "call"} => p.wrote = Nothing
    /\ Sent(p) # {} => p.global # 0 /\ DailyLimit # 0

PassesOK == \A w \in Workers : PassOK(run[w])

(* The case whose request a pass committed and has not yet committed the   *)
(* outcome of.                                                             *)
Holds(p) ==
    IF p.at = "call" THEN {Head(p.todo)}
    ELSE IF p.wrote # Nothing THEN {p.wrote[1]} ELSE {}

HeldOnce ==
    /\ \A w \in Workers : \A c \in Holds(run[w]) : draft[c] = "send_requested" /\ c \notin stale
    /\ \A w, v \in Workers : w # v => Holds(run[w]) \cap Holds(run[v]) = {}

Recorded ==
    /\ \A c \in counted : draft[c] = "sent"
    /\ \A c \in stale : draft[c] = "send_requested"
    /\ \A w \in Workers : Sent(run[w]) \subseteq mailed

(* What is on record, committed or not. *)
OnRecord(cs, rn) == cs \cup UNION {Sent(rn[w]) : w \in Workers}

(* How many more emails a pass would send by its own count of the day. *)
Left(p) ==
    IF p.single THEN (IF p.at \in Chosen THEN 1 ELSE 0)
    ELSE IF p.at \in {"consider"} \cup Chosen /\ p.global < DailyLimit
         THEN DailyLimit - p.global ELSE 0

Tokens(rn) == {t \in Workers \X (1 .. DailyLimit) : t[2] <= Left(rn[t[1]])}

DayFits == Cardinality(OnRecord(counted, run)) + Cardinality(Tokens(run))
              <= Cardinality(Workers) * DailyLimit

InHand(rn, r) == {w \in Workers : rn[w].at \in Chosen /\ Restaurant[Head(rn[w].todo)] = r}

RestaurantsFit ==
    \A r \in Restaurants :
       Cardinality(OfRestaurant(OnRecord(counted, run), r)) + Cardinality(InHand(run, r))
          <= RestaurantLimit + 2 * (Cardinality(Workers) - 1)

SoundPasses == RowsTyped /\ PassesOK /\ HeldOnce /\ Recorded

IInv == SoundPasses /\ DayFits /\ RestaurantsFit

(***************************************************************************)
(* The rows of the passes                                                  *)
(***************************************************************************)

LEMMA WrittenIsSome ==
    ASSUME NEW c, NEW s
    PROVE  <<c, s>> # Nothing
<1>1. Len(<<c, s>>) = 2 /\ Len(<<>>) = 0
  OBVIOUS
<1> QED BY <1>1 DEF Nothing

(* The parts of a pass that its counts, its record and its hold depend on.  *)
SoundRow(p) == p \in PassRow /\ PassOK(p)

LEMMA IdleRow ==
    ASSUME RunsAssumption
    PROVE  /\ SoundRow(Idle) /\ Idle.at = "idle" /\ Idle.single = FALSE
           /\ Idle.wrote = Nothing /\ Sent(Idle) = {} /\ Holds(Idle) = {} /\ Left(Idle) = 0
<1>1. <<>> \in Seq(Lanes) /\ <<>> \in Seq(Cases) /\ Len(<<>>) = 0
  BY EmptySeq
<1>2. Cardinality(Cases) \in Nat /\ Preflights \in Nat
  BY SubsetsOfCases DEF RunsAssumption
<1>3. Idle \in PassRow
  BY <1>1, <1>2 DEF Idle, PassRow, Places
<1>4. Idle.at = "idle" /\ Idle.single = FALSE /\ Idle.wrote = Nothing /\ Idle.todo = <<>>
      /\ Idle.global = 0 /\ \A r \in Restaurants : Idle.mine[r] = 0
  BY DEF Idle
<1>5. Sent(Idle) = {} /\ Holds(Idle) = {} /\ Left(Idle) = 0
  BY <1>4 DEF Sent, Holds, Left, Chosen
<1>6. CountsFit(Idle)
  BY <1>1, <1>2, <1>4 DEF CountsFit
<1>7. PassOK(Idle)
  BY <1>4, <1>5, <1>6 DEF PassOK, Chosen
<1> QED BY <1>3, <1>4, <1>5, <1>7 DEF SoundRow

(* A pass that begins has nothing in hand or on record. *)
LEMMA BegunRow ==
    ASSUME RunsAssumption, NEW p, p = [Idle EXCEPT !.at = "lane", !.lanes = p.lanes],
           p.lanes \in Seq(Lanes)
    PROVE  /\ SoundRow(p) /\ p.at = "lane" /\ p.single = FALSE
           /\ p.wrote = Nothing /\ Sent(p) = {} /\ Holds(p) = {} /\ Left(p) = 0
<1>1. p.at = "lane" /\ p.todo = Idle.todo /\ p.global = Idle.global /\ p.mine = Idle.mine
      /\ p.wrote = Nothing /\ p.single = FALSE
  BY DEF Idle
<1>2. p \in PassRow
  BY IdleRow DEF SoundRow, PassRow, Places
<1>3. Sent(p) = {} /\ Holds(p) = {} /\ Left(p) = 0
  BY <1>1 DEF Sent, Holds, Left, Chosen
<1>4. PassOK(p)
  BY <1>1, <1>3, IdleRow DEF SoundRow, PassOK, CountsFit, Chosen
<1> QED BY <1>1, <1>2, <1>3, <1>4 DEF SoundRow

(* A pass that passes its case over keeps its counts. *)
LEMMA PassedRow ==
    ASSUME RunsAssumption, NEW p \in PassRow, CountsFit(p), p.todo # <<>>
    PROVE  /\ Passed(p) \in PassRow /\ CountsFit(Passed(p))
           /\ Passed(p).at = "consider" /\ Passed(p).global = p.global /\ Passed(p).mine = p.mine
           /\ Passed(p).used = p.used /\ Passed(p).wrote = p.wrote /\ Passed(p).single = p.single
           /\ Passed(p).todo = Tail(p.todo) /\ Len(Passed(p).todo) = Len(p.todo) - 1
           /\ Len(p.todo) \in Nat
<1>1. p.todo \in Seq(Cases) /\ p.global \in Nat /\ p.mine \in [Restaurants -> Nat]
  BY DEF PassRow
<1>2. Tail(p.todo) \in Seq(Cases) /\ Len(Tail(p.todo)) = Len(p.todo) - 1 /\ Len(p.todo) \in Nat
  BY <1>1, HeadTailProperties, LenProperties
<1>3. /\ Passed(p).at = "consider" /\ Passed(p).global = p.global /\ Passed(p).mine = p.mine
      /\ Passed(p).used = p.used /\ Passed(p).wrote = p.wrote /\ Passed(p).single = p.single
      /\ Passed(p).todo = Tail(p.todo)
  BY DEF Passed, PassRow
<1>4. Passed(p) \in PassRow
  BY <1>2 DEF Passed, PassRow, Places
<1>5. CountsFit(Passed(p))
  <2>1. Cardinality(Cases) \in Nat
    BY SubsetsOfCases
  <2>2. CASE p.single
    BY <1>3, <2>2 DEF CountsFit
  <2>3. CASE ~p.single
    <3>1. p.global + Len(p.todo) <= Cardinality(Cases)
          /\ \A r \in Restaurants : p.mine[r] + Len(p.todo) <= Cardinality(Cases) /\ p.mine[r] \in Nat
      BY <1>1, <2>3 DEF CountsFit
    <3>2. p.global + (Len(p.todo) - 1) <= Cardinality(Cases)
          /\ \A r \in Restaurants : p.mine[r] + (Len(p.todo) - 1) <= Cardinality(Cases)
      BY <1>1, <1>2, <2>1, <3>1
    <3> QED BY <1>2, <1>3, <2>3, <3>2 DEF CountsFit
  <2> QED BY <2>2, <2>3
<1> QED BY <1>2, <1>3, <1>4, <1>5

(***************************************************************************)
(* What each step makes of its pass                                        *)
(***************************************************************************)

(* The pass of w becomes another sound one, and no other pass moves. *)
Moves(w) == run' = [run EXCEPT ![w] = run'[w]] /\ SoundRow(run'[w])

LEMMA StepTo ==
    ASSUME RowsTyped, NEW w \in Workers, NEW q, Step(w, q), SoundRow(q)
    PROVE  Moves(w) /\ run'[w] = q
BY DEF RowsTyped, Step, Moves

LEMMA RowParts ==
    ASSUME SoundPasses, NEW w \in Workers
    PROVE  /\ RowsTyped /\ run[w] \in PassRow /\ PassOK(run[w]) /\ CountsFit(run[w])
           /\ run[w].at \in Places /\ run[w].todo \in Seq(Cases) /\ run[w].global \in Nat
           /\ run[w].mine \in [Restaurants -> Nat] /\ run[w].single \in BOOLEAN
           /\ run[w].lanes \in Seq(Lanes)
           /\ run[w].used \in SUBSET Accounts /\ run[w].tries \in [Accounts -> 0 .. Preflights]
           /\ run[w].wrote = Nothing
              \/ run[w].wrote \in Cases \X DraftStatus
BY DEF SoundPasses, RowsTyped, PassesOK, PassOK, PassRow

LEMMA OwnSentIsSent ==
    ASSUME NEW w
    PROVE  OwnSent(w) = Sent(run[w]) /\ SentToday(w) = counted \cup Sent(run[w])
BY DEF OwnSent, SentToday, Sent

LEMMA OnRecordTyped ==
    ASSUME RunsAssumption, SoundPasses, NEW w \in Workers
    PROVE  /\ Sent(run[w]) \in SUBSET Cases /\ SentToday(w) \in SUBSET Cases
           /\ IsFiniteSet(SentToday(w)) /\ Cardinality(SentToday(w)) \in Nat
<1>1. Sent(run[w]) \in SUBSET Cases
  BY RowParts DEF Sent
<1>2. counted \in SUBSET Cases
  BY DEF SoundPasses, RowsTyped
<1>3. SentToday(w) \in SUBSET Cases
  BY <1>1, <1>2, OwnSentIsSent
<1> QED BY <1>1, <1>3, SubsetsOfCases

(* What is on record today is not listed again. *)
LEMMA RecordedNotListed ==
    ASSUME SoundPasses, NEW w \in Workers
    PROVE  SentToday(w) \cap Unsent(w) = {}
<1> SUFFICES ASSUME NEW c \in Cases, c \in SentToday(w), DraftSeen(w)[c] # "sent"
             PROVE  FALSE
  BY DEF Unsent
<1> DEFINE o == run[w].wrote
<1>1. draft \in [Cases -> DraftStatus]
  BY DEF SoundPasses, RowsTyped
<1>2. DraftSeen(w) = IF o = Nothing THEN draft ELSE [draft EXCEPT ![o[1]] = o[2]]
  BY DEF DraftSeen
<1>3. CASE c \in Sent(run[w])
  <2>1. o # Nothing /\ o[1] = c /\ o[2] = "sent"
    BY <1>3 DEF Sent
  <2> QED BY <1>1, <1>2, <2>1
<1>4. CASE c \in counted
  <2>1. draft[c] = "sent"
    BY <1>4 DEF SoundPasses, Recorded
  <2>2. o # Nothing /\ o[1] = c
    BY <1>1, <1>2, <2>1
  <2>3. run[w].at # "call"
    BY <2>2, RowParts DEF PassOK
  <2>4. c \in Holds(run[w])
    BY <2>2, <2>3 DEF Holds
  <2> QED BY <2>1, <2>4 DEF SoundPasses, HeldOnce
<1> QED BY <1>3, <1>4, OwnSentIsSent

(* A lane begins with the count of the day and what may still be sent. *)
LEMMA LaneRow ==
    ASSUME RunsAssumption, SoundPasses, NEW w \in Workers, BeginLane(w)
    PROVE  /\ Moves(w) /\ Holds(run'[w]) = Holds(run[w]) /\ Sent(run'[w]) = Sent(run[w])
           /\ run'[w].at = "consider" /\ run'[w].single = FALSE
           /\ run'[w].global = Cardinality(SentToday(w))
<1> DEFINE p == run[w]
           g == Cardinality(SentToday(w))
           todo == Candidates(w, Head(p.lanes))
           q == [Idle EXCEPT !.at = "consider", !.lanes = Tail(p.lanes), !.todo = todo,
                             !.global = g, !.wrote = p.wrote]
<1>1. p.at = "lane" /\ p.lanes # <<>> /\ Step(w, q)
  BY DEF BeginLane
<1>2. Head(p.lanes) \in Lanes /\ Tail(p.lanes) \in Seq(Lanes)
  BY <1>1, RowParts, HeadTailProperties
<1>3. todo \in Seq(Cases) /\ Len(todo) <= Cardinality(Unsent(w)) /\ Len(todo) \in Nat
  BY <1>2, CandidatesListed, LenProperties
<1>4. g + Cardinality(Unsent(w)) <= Cardinality(Cases) /\ g \in Nat
  <2>1. Unsent(w) \in SUBSET Cases /\ SentToday(w) \in SUBSET Cases
        /\ SentToday(w) \cup Unsent(w) \in SUBSET Cases
    BY OnRecordTyped DEF Unsent
  <2>2. /\ IsFiniteSet(Unsent(w)) /\ IsFiniteSet(SentToday(w))
        /\ Cardinality(Unsent(w)) \in Nat /\ g \in Nat
    BY <2>1, SubsetsOfCases
  <2>3. Cardinality(SentToday(w) \cup Unsent(w)) <= Cardinality(Cases)
    BY <2>1, SubsetsOfCases
  <2>4. Cardinality(SentToday(w) \cup Unsent(w)) = g + Cardinality(Unsent(w)) - 0
    <3>1. SentToday(w) \cap Unsent(w) = {}
      BY RecordedNotListed
    <3>2. Cardinality(SentToday(w) \cap Unsent(w)) = 0
      BY <3>1, FS_EmptySet
    <3> QED BY <2>2, <3>2, FS_Union
  <2> QED BY <2>2, <2>3, <2>4
<1>5. Cardinality(Unsent(w)) \in Nat /\ Cardinality(Cases) \in Nat
  <2>1. Unsent(w) \in SUBSET Cases
    BY DEF Unsent
  <2> QED BY <2>1, SubsetsOfCases
<1>6. /\ q.at = "consider" /\ q.todo = todo /\ q.global = g /\ q.wrote = p.wrote
      /\ q.single = FALSE /\ q.mine = Idle.mine
  BY DEF Idle
<1>7. q \in PassRow
  <2>1. p.wrote \in {Nothing} \cup (Cases \X DraftStatus) /\ Idle \in PassRow
    BY RowParts, IdleRow DEF SoundRow
  <2> HIDE DEF todo, g, p
  <2> QED BY <1>2, <1>3, <1>4, <2>1 DEF PassRow, Places
<1>8. Holds(q) = Holds(p) /\ Sent(q) = Sent(p)
  BY <1>1, <1>6 DEF Holds, Sent
<1>9. CountsFit(q)
  <2>1. g + Len(todo) <= Cardinality(Cases) /\ Len(todo) <= Cardinality(Cases)
    BY <1>3, <1>4, <1>5
  <2>2. \A r \in Restaurants : q.mine[r] = 0
    BY <1>6 DEF Idle
  <2> QED BY <1>3, <1>6, <2>1, <2>2 DEF CountsFit
<1>10. Sent(q) # {} => g # 0 /\ DailyLimit # 0
  <2>1. Sent(p) # {} => SentToday(w) # {}
    BY OwnSentIsSent
  <2> QED BY <1>8, <2>1, RowParts, OnRecordTyped, FS_EmptySet DEF PassOK
<1>11. PassOK(q)
  BY <1>6, <1>9, <1>10 DEF PassOK, Chosen
<1> HIDE DEF q
<1>12. Moves(w) /\ run'[w] = q
  BY <1>1, <1>7, <1>11, RowParts, StepTo DEF SoundRow
<1> QED BY <1>6, <1>8, <1>12

(* A resumption begins with nothing on record. *)
LEMMA ResumeRow ==
    ASSUME RunsAssumption, SoundPasses, NEW w \in Workers, NEW a \in Accounts, BeginResume(w, a)
    PROVE  /\ Moves(w) /\ Holds(run'[w]) = {} /\ Sent(run'[w]) = {}
           /\ Left(run'[w]) = 0 /\ run'[w].at = "consider"
<1> DEFINE S == {c \in Cases : Account[c] = a /\ draft[c] = "provider_draft_created"}
           todo == InOrder[S]
           q == [Idle EXCEPT !.at = "consider", !.single = TRUE, !.todo = todo]
<1>1. Step(w, q)
  BY DEF BeginResume
<1>2. todo \in Seq(Cases)
  <2>1. S \in SUBSET Cases
    OBVIOUS
  <2>2. ListOf(todo, S)
    BY <2>1, InOrderLists
  <2> HIDE DEF S, todo
  <2> QED BY <2>1, <2>2, SeqMonotonic DEF ListOf
<1> HIDE DEF todo
<1>3. q.at = "consider" /\ q.single = TRUE /\ q.wrote = Nothing /\ q.global = 0
      /\ \A r \in Restaurants : q.mine[r] = 0
  BY DEF Idle
<1>4. q \in PassRow
  BY <1>2, IdleRow DEF SoundRow, PassRow, Places
<1> HIDE DEF q
<1>5. Holds(q) = {} /\ Sent(q) = {} /\ Left(q) = 0
  BY <1>3 DEF Holds, Sent, Left, Chosen
<1>6. PassOK(q)
  BY <1>3, <1>5 DEF PassOK, CountsFit, Chosen
<1>7. Moves(w) /\ run'[w] = q
  BY <1>1, <1>4, <1>6, RowParts, StepTo DEF SoundRow
<1> QED BY <1>3, <1>5, <1>7

LEMMA StartRow ==
    ASSUME RunsAssumption, SoundPasses, NEW w \in Workers, NEW order \in Seq(Lanes),
           Step(w, [Idle EXCEPT !.at = "lane", !.lanes = order])
    PROVE  /\ Moves(w) /\ Holds(run'[w]) = {} /\ Sent(run'[w]) = {}
           /\ Left(run'[w]) = 0 /\ run'[w].at = "lane"
<1> DEFINE q == [Idle EXCEPT !.at = "lane", !.lanes = order]
<1>1. q.lanes = order
  BY DEF Idle
<1>2. SoundRow(q) /\ q.at = "lane" /\ Sent(q) = {} /\ Holds(q) = {} /\ Left(q) = 0
  BY <1>1, BegunRow
<1> HIDE DEF q
<1>3. Moves(w) /\ run'[w] = q
  BY <1>2, RowParts, StepTo DEF q
<1> QED BY <1>2, <1>3

(* The case in hand is a due email. *)
LEMMA HeadInCases ==
    ASSUME SoundPasses, NEW w \in Workers, run[w].todo # <<>>
    PROVE  Head(run[w].todo) \in Cases
BY RowParts, HeadTailProperties

(* A case is chosen while the day has room for it. *)
LEMMA ChosenRow ==
    ASSUME RunsAssumption, SoundPasses, NEW w \in Workers, NEW c \in Cases, Consider(w, c)
    PROVE  /\ Moves(w) /\ Holds(run'[w]) = Holds(run[w]) /\ Sent(run'[w]) = Sent(run[w])
           /\ run[w].at = "consider" /\ run'[w].at = "chosen" /\ Head(run'[w].todo) = c
           /\ run'[w].single = run[w].single /\ run'[w].global = run[w].global
<1> DEFINE p == run[w]
           tries == IF p.single THEN p.tries ELSE [p.tries EXCEPT ![Account[c]] = @ + 1]
           q == [p EXCEPT !.at = "chosen", !.tries = tries]
<1>1. p.at = "consider" /\ p.todo # <<>> /\ c = Head(p.todo) /\ MayTry(w, c) /\ Step(w, q)
  BY DEF Consider
<1>2. p \in PassRow /\ PassOK(p)
  BY RowParts
<1>3. tries \in [Accounts -> 0 .. Preflights]
  <2>1. p.tries \in [Accounts -> 0 .. Preflights] /\ Preflights \in Nat
    BY RowParts DEF RunsAssumption
  <2>2. ~p.single => p.tries[Account[c]] < Preflights
    BY <1>1 DEF MayTry
  <2>3. Account[c] \in Accounts
    BY DEF Accounts
  <2> HIDE DEF p
  <2> QED BY <2>1, <2>2, <2>3
<1>4. /\ q.at = "chosen" /\ q.todo = p.todo /\ q.global = p.global /\ q.mine = p.mine
      /\ q.wrote = p.wrote /\ q.single = p.single
  BY <1>2 DEF PassRow
<1>5. q \in PassRow
  <2> HIDE DEF p, tries
  <2> QED BY <1>2, <1>3 DEF PassRow, Places
<1>6. IF p.single THEN DailyLimit # 0 ELSE p.global < DailyLimit /\ DailyLimit # 0
  <2>1. (IF p.single THEN Cardinality(SentToday(w)) ELSE p.global) < DailyLimit
    BY <1>1 DEF MayTry, LimitAllows
  <2>2. Cardinality(SentToday(w)) \in Nat /\ p.global \in Nat /\ DailyLimit \in Nat
    BY RowParts, OnRecordTyped DEF RunsAssumption
  <2> HIDE DEF p
  <2> QED BY <2>1, <2>2
<1> HIDE DEF q
<1>7. Holds(q) = Holds(p) /\ Sent(q) = Sent(p)
  BY <1>1, <1>4 DEF Holds, Sent
<1>8. PassOK(q)
  <2>1. CountsFit(q)
    BY <1>2, <1>4 DEF PassOK, CountsFit
  <2>2. q.single => q.wrote = Nothing
    BY <1>2, <1>4 DEF PassOK
  <2>3. Sent(q) # {} => q.global # 0 /\ DailyLimit # 0
    BY <1>2, <1>4, <1>7 DEF PassOK
  <2> HIDE DEF p
  <2> QED BY <1>1, <1>4, <1>6, <2>1, <2>2, <2>3 DEF PassOK, Chosen
<1>9. Moves(w) /\ run'[w] = q
  BY <1>1, <1>5, <1>8, RowParts, StepTo DEF SoundRow, q
<1> QED BY <1>1, <1>4, <1>7, <1>9

(* A pass that goes on to its next case keeps its counts and its room.     *)
LEMMA NextCase ==
    ASSUME RunsAssumption, SoundPasses, NEW w \in Workers,
           run[w].at \in {"consider"} \cup Chosen, run[w].todo # <<>>,
           NEW q \in PassRow, q.at = "consider", q.todo = Tail(run[w].todo),
           q.global = run[w].global, q.mine = run[w].mine, q.single = run[w].single,
           q.single => q.wrote = Nothing, Sent(q) \subseteq Sent(run[w])
    PROVE  /\ SoundRow(q) /\ Left(q) <= Left(run[w])
           /\ Left(q) \in Nat /\ Left(run[w]) \in Nat
<1> DEFINE p == run[w]
<1>1. p \in PassRow /\ PassOK(p) /\ CountsFit(p) /\ p.global \in Nat /\ p.single \in BOOLEAN
  BY RowParts
<1>2. /\ CountsFit(Passed(p)) /\ Passed(p).todo = Tail(p.todo)
      /\ Passed(p).global = p.global /\ Passed(p).mine = p.mine /\ Passed(p).single = p.single
  BY <1>1, PassedRow
<1>3. CountsFit(q)
  BY <1>2 DEF CountsFit
<1>4. PassOK(q)
  <2>1. Sent(q) # {} => q.global # 0 /\ DailyLimit # 0
    BY <1>1 DEF PassOK
  <2> QED BY <1>3, <2>1 DEF PassOK, Chosen
<1>5. Left(q) <= Left(p) /\ Left(q) \in Nat /\ Left(p) \in Nat
  <2>1. DailyLimit \in Nat
    BY DEF RunsAssumption
  <2> QED BY <1>1, <2>1 DEF Left, Chosen
<1> QED BY <1>4, <1>5 DEF SoundRow

LEMMA PassedOver ==
    ASSUME RunsAssumption, SoundPasses, NEW w \in Workers, PassOver(w)
    PROVE  /\ Moves(w) /\ Holds(run'[w]) = Holds(run[w]) /\ Sent(run'[w]) = Sent(run[w])
           /\ Left(run'[w]) <= Left(run[w]) /\ run'[w].at = "consider"
<1> DEFINE p == run[w]
           q == Passed(p)
<1>1. p.at = "consider" /\ p.todo # <<>> /\ Step(w, q)
  BY DEF PassOver
<1>2. p \in PassRow /\ CountsFit(p) /\ PassOK(p)
  BY RowParts
<1>3. /\ q \in PassRow /\ q.at = "consider" /\ q.todo = Tail(p.todo) /\ q.global = p.global
      /\ q.mine = p.mine /\ q.single = p.single /\ q.wrote = p.wrote
  BY <1>1, <1>2, PassedRow
<1> HIDE DEF q
<1>4. Holds(q) = Holds(p) /\ Sent(q) = Sent(p)
  BY <1>1, <1>3 DEF Holds, Sent
<1>5. SoundRow(q) /\ Left(q) <= Left(p)
  <2>1. q.single => q.wrote = Nothing
    BY <1>2, <1>3 DEF PassOK
  <2> QED BY <1>1, <1>3, <1>4, <2>1, NextCase
<1>6. Moves(w) /\ run'[w] = q
  BY <1>1, <1>5, RowParts, StepTo
<1> QED BY <1>3, <1>4, <1>5, <1>6

(* The read of the conversation commits, whatever it finds. *)
LEMMA CheckedRow ==
    ASSUME RunsAssumption, SoundPasses, NEW w \in Workers, NEW c \in Cases, Preflight(w, c)
    PROVE  /\ Moves(w) /\ Holds(run'[w]) = {} /\ Sent(run'[w]) = {}
           /\ Left(run'[w]) <= Left(run[w])
           /\ run'[w].at \in Chosen => run[w].at \in Chosen
                                       /\ Head(run'[w].todo) = Head(run[w].todo)
<1> DEFINE p == run[w]
           p0 == [p EXCEPT !.wrote = Nothing]
<1>1. p.at = "chosen" /\ p.at \in Chosen
  BY DEF Preflight, Chosen
<1>2. p \in PassRow /\ PassOK(p) /\ CountsFit(p) /\ p.todo # <<>> /\ DailyLimit # 0
      /\ p.global \in Nat /\ p.single \in BOOLEAN /\ (~p.single => p.global < DailyLimit)
  BY <1>1, RowParts DEF PassOK
<1>3. /\ p0 \in PassRow /\ p0.at = p.at /\ p0.todo = p.todo /\ p0.global = p.global
      /\ p0.mine = p.mine /\ p0.single = p.single /\ p0.wrote = Nothing
  BY <1>2 DEF PassRow
<1>4. CountsFit(p0)
  BY <1>2, <1>3 DEF CountsFit
<1>5. \/ Step(w, [p0 EXCEPT !.at = "ready"])
      \/ Step(w, Passed(p0))
      \/ Step(w, [Passed(p0) EXCEPT !.used = @ \cup {Account[c]}])
  BY DEF Preflight
<1> HIDE DEF p0
<1>6. \A q : q.wrote = Nothing => Sent(q) = {}
  BY DEF Sent
<1>7. CASE Step(w, [p0 EXCEPT !.at = "ready"])
  <2> DEFINE q == [p0 EXCEPT !.at = "ready"]
  <2>1. /\ q \in PassRow /\ q.at = "ready" /\ q.todo = p.todo /\ q.global = p.global
        /\ q.mine = p.mine /\ q.single = p.single /\ q.wrote = Nothing
    BY <1>3 DEF PassRow, Places
  <2> HIDE DEF q
  <2>2. Holds(q) = {} /\ Sent(q) = {}
    BY <2>1 DEF Holds, Sent
  <2>3. CountsFit(q)
    BY <1>2, <2>1 DEF CountsFit
  <2>4. PassOK(q)
    BY <1>2, <2>1, <2>2, <2>3 DEF PassOK, Chosen
  <2>5. Left(q) <= Left(p)
    <3>1. DailyLimit \in Nat
      BY DEF RunsAssumption
    <3>2. Left(q) = Left(p) /\ Left(p) \in Nat
      <4> HIDE DEF p
      <4> QED BY <1>1, <1>2, <2>1, <3>1 DEF Left, Chosen
    <3> QED BY <3>2
  <2>6. Moves(w) /\ run'[w] = q
    BY <1>7, <2>1, <2>4, RowParts, StepTo DEF SoundRow, q
  <2> QED BY <1>1, <2>1, <2>2, <2>5, <2>6
<1>8. ASSUME NEW q \in PassRow, Step(w, q), q.at = "consider", q.todo = Tail(p.todo),
             q.global = p.global, q.mine = p.mine, q.single = p.single, q.wrote = Nothing
      PROVE  /\ Moves(w) /\ Holds(run'[w]) = {} /\ Sent(run'[w]) = {}
             /\ Left(run'[w]) <= Left(run[w]) /\ run'[w].at \notin Chosen
  <2>1. Sent(q) = {} /\ Holds(q) = {} /\ q.at \notin Chosen
    BY <1>8 DEF Sent, Holds, Chosen
  <2>2. SoundRow(q) /\ Left(q) <= Left(p)
    BY <1>1, <1>2, <1>8, <2>1, NextCase
  <2>3. Moves(w) /\ run'[w] = q
    BY <1>8, <2>2, RowParts, StepTo
  <2> QED BY <2>1, <2>2, <2>3
<1>9. /\ Passed(p0) \in PassRow /\ Passed(p0).at = "consider" /\ Passed(p0).todo = Tail(p.todo)
      /\ Passed(p0).global = p.global /\ Passed(p0).mine = p.mine
      /\ Passed(p0).single = p.single /\ Passed(p0).wrote = Nothing
  BY <1>2, <1>3, <1>4, PassedRow
<1>10. CASE Step(w, Passed(p0))
  BY <1>8, <1>9, <1>10
<1>11. CASE Step(w, [Passed(p0) EXCEPT !.used = @ \cup {Account[c]}])
  <2> DEFINE q == [Passed(p0) EXCEPT !.used = @ \cup {Account[c]}]
  <2>1. Account[c] \in Accounts
    BY DEF Accounts
  <2>2. /\ q \in PassRow /\ q.at = "consider" /\ q.todo = Tail(p.todo) /\ q.global = p.global
        /\ q.mine = p.mine /\ q.single = p.single /\ q.wrote = Nothing
    BY <1>9, <2>1 DEF PassRow
  <2> HIDE DEF q, p
  <2> QED BY <1>8, <1>11, <2>2 DEF q
<1> QED BY <1>5, <1>7, <1>10, <1>11

LEMMA RequestedRow ==
    ASSUME RunsAssumption, SoundPasses, NEW w \in Workers, NEW c \in Cases, Request(w, c)
    PROVE  /\ Moves(w) /\ Holds(run'[w]) = {c} /\ Sent(run'[w]) = {}
           /\ Left(run'[w]) <= Left(run[w]) /\ run[w].at \in Chosen
           /\ Head(run'[w].todo) = Head(run[w].todo)
<1> DEFINE p == run[w]
           q == [p EXCEPT !.at = "call"]
<1>1. p.at = "ready" /\ p.at \in Chosen /\ c = Head(p.todo) /\ Step(w, q)
  BY DEF Request, Chosen
<1>2. p \in PassRow /\ PassOK(p) /\ CountsFit(p) /\ p.todo # <<>> /\ DailyLimit # 0
      /\ p.global \in Nat /\ p.single \in BOOLEAN /\ (~p.single => p.global < DailyLimit)
      /\ p.wrote = Nothing
  BY <1>1, RowParts DEF PassOK
<1>3. /\ q \in PassRow /\ q.at = "call" /\ q.todo = p.todo /\ q.global = p.global
      /\ q.mine = p.mine /\ q.single = p.single /\ q.wrote = Nothing
  BY <1>2 DEF PassRow, Places
<1> HIDE DEF q
<1>4. Holds(q) = {c} /\ Sent(q) = {}
  BY <1>1, <1>3 DEF Holds, Sent
<1>5. CountsFit(q)
  BY <1>2, <1>3 DEF CountsFit
<1>6. PassOK(q)
  BY <1>2, <1>3, <1>4, <1>5 DEF PassOK, Chosen
<1>7. Left(q) = Left(p) /\ Left(p) \in Nat
  <2>1. DailyLimit \in Nat
    BY DEF RunsAssumption
  <2> HIDE DEF p
  <2> QED BY <1>1, <1>2, <1>3, <2>1 DEF Left, Chosen
<1>8. Moves(w) /\ run'[w] = q
  BY <1>1, <1>3, <1>6, RowParts, StepTo DEF SoundRow, q
<1> QED BY <1>1, <1>3, <1>4, <1>7, <1>8

LEMMA NotRequestedRow ==
    ASSUME RunsAssumption, SoundPasses, NEW w \in Workers, NotRequested(w)
    PROVE  /\ Moves(w) /\ Holds(run'[w]) = {} /\ Sent(run'[w]) = {}
           /\ Left(run'[w]) <= Left(run[w]) /\ run'[w].at \notin Chosen
<1> DEFINE p == run[w]
           c == Head(p.todo)
<1>1. p.at = "ready" /\ p.at \in Chosen
  BY DEF NotRequested, Chosen
<1>2. p \in PassRow /\ CountsFit(p) /\ p.todo # <<>> /\ p.wrote = Nothing
      /\ p.global \in Nat /\ p.single \in BOOLEAN
  BY <1>1, RowParts DEF PassOK
<1>3. DailyLimit \in Nat
  BY DEF RunsAssumption
<1>4. Left(p) \in Nat
  <2> HIDE DEF p
  <2> QED BY <1>2, <1>3 DEF Left
<1>5. PICK full \in BOOLEAN :
        Step(w, IF p.single THEN Idle
                ELSE [Passed(p) EXCEPT !.used = IF full THEN @ \cup {Account[c]} ELSE @])
  BY DEF NotRequested
<1>6. CASE p.single
  <2>1. Moves(w) /\ run'[w] = Idle
    BY <1>5, <1>6, IdleRow, RowParts, StepTo
  <2>2. Holds(run'[w]) = {} /\ Sent(run'[w]) = {} /\ Left(run'[w]) = 0 /\ run'[w].at \notin Chosen
    BY <2>1, IdleRow DEF Chosen
  <2> HIDE DEF p
  <2> QED BY <1>4, <2>1, <2>2 DEF p
<1>7. CASE ~p.single
  <2> DEFINE used == IF full THEN Passed(p).used \cup {Account[c]} ELSE Passed(p).used
             q == [Passed(p) EXCEPT !.used = used]
  <2>1. /\ Passed(p) \in PassRow /\ Passed(p).at = "consider" /\ Passed(p).todo = Tail(p.todo)
        /\ Passed(p).global = p.global /\ Passed(p).mine = p.mine
        /\ Passed(p).single = p.single /\ Passed(p).wrote = Nothing
    BY <1>2, PassedRow
  <2>2. used \in SUBSET Accounts
    <3>1. c \in Cases
      BY <1>2, HeadInCases
    <3>2. Account[c] \in Accounts
      BY <3>1 DEF Accounts
    <3>3. Passed(p).used \in SUBSET Accounts
      BY <2>1 DEF PassRow
    <3> HIDE DEF p, c
    <3> QED BY <3>2, <3>3
  <2>3. Step(w, q)
    BY <1>5, <1>7
  <2> HIDE DEF used, p
  <2>4. /\ q \in PassRow /\ q.at = "consider" /\ q.todo = Tail(p.todo) /\ q.global = p.global
        /\ q.mine = p.mine /\ q.single = p.single /\ q.wrote = Nothing
    BY <2>1, <2>2 DEF PassRow
  <2> HIDE DEF q
  <2>5. Sent(q) = {} /\ Holds(q) = {} /\ q.at \notin Chosen
    BY <2>4 DEF Sent, Holds, Chosen
  <2>6. SoundRow(q) /\ Left(q) <= Left(p)
    BY <1>1, <1>2, <2>4, <2>5, NextCase DEF p
  <2>7. Moves(w) /\ run'[w] = q
    BY <2>3, <2>6, RowParts, StepTo
  <2> QED BY <2>5, <2>6, <2>7 DEF p
<1> QED BY <1>6, <1>7

(* A call is one the pass counted on. *)
LEMMA CallRow ==
    ASSUME RunsAssumption, SoundPasses, NEW w \in Workers, run[w].at = "call"
    PROVE  /\ run[w].at \in Chosen /\ run[w].todo # <<>> /\ run[w].wrote = Nothing
           /\ Holds(run[w]) = {Head(run[w].todo)} /\ Head(run[w].todo) \in Cases
           /\ Sent(run[w]) = {} /\ SentToday(w) = counted /\ OwnSent(w) = {} /\ DraftSeen(w) = draft
           /\ run[w].single \in BOOLEAN
           /\ run[w].single => Left(run[w]) = 1
           /\ ~run[w].single => run[w].global < DailyLimit
                                /\ Left(run[w]) = DailyLimit - run[w].global
           /\ DailyLimit \in Nat \ {0} /\ run[w].global \in Nat
<1>1. run[w].at \in Chosen
  BY DEF Chosen
<1>2. run[w].todo # <<>> /\ run[w].wrote = Nothing /\ DailyLimit \in Nat \ {0}
      /\ run[w].global \in Nat /\ run[w].single \in BOOLEAN
      /\ (~run[w].single => run[w].global < DailyLimit)
  BY <1>1, RowParts DEF PassOK, RunsAssumption
<1>3. Holds(run[w]) = {Head(run[w].todo)} /\ Sent(run[w]) = {} /\ DraftSeen(w) = draft
  BY <1>2 DEF Holds, Sent, DraftSeen
<1>4. SentToday(w) = counted /\ OwnSent(w) = {}
  BY <1>3, OwnSentIsSent
<1> QED BY <1>1, <1>2, <1>3, <1>4, HeadInCases DEF Left

(* A pass counts what it sent, and has room for one less. *)
LEMMA AnsweredRow ==
    ASSUME RunsAssumption, SoundPasses, NEW w \in Workers, NEW c \in Cases, Answer(w, c),
           ~run[w].single
    PROVE  /\ Moves(w) /\ Holds(run'[w]) = {c} /\ Sent(run'[w]) = {c}
           /\ Left(run'[w]) + 1 <= Left(run[w]) /\ Left(run'[w]) \in Nat /\ run'[w].at \notin Chosen
           /\ UNCHANGED <<draft, counted>>
<1> DEFINE p == run[w]
           r == Restaurant[c]
           p1 == Passed(p)
           mine == [p1.mine EXCEPT ![r] = @ + 1]
           q == [Wrote(w, c, "sent") EXCEPT !.global = @ + 1, !.mine[r] = @ + 1,
                                            !.used = @ \cup {Account[c]}]
<1>1. p.at = "call" /\ c = Head(p.todo)
  BY DEF Answer
<1>2. Step(w, q) /\ UNCHANGED <<draft, counted>>
  BY DEF Answer, AfterCall
<1>3. p \in PassRow /\ CountsFit(p) /\ p.todo # <<>> /\ p.global \in Nat /\ p.todo \in Seq(Cases)
      /\ p.mine \in [Restaurants -> Nat] /\ p.global < DailyLimit /\ DailyLimit \in Nat \ {0}
      /\ Left(p) = DailyLimit - p.global
  BY <1>1, CallRow, RowParts
<1>4. /\ p1 \in PassRow /\ p1.at = "consider" /\ p1.todo = Tail(p.todo) /\ p1.global = p.global
      /\ p1.mine = p.mine /\ p1.single = FALSE /\ Len(p1.todo) = Len(p.todo) - 1
      /\ Len(p.todo) \in Nat
  <2>1. p.single = FALSE
    BY RowParts
  <2> QED BY <1>3, <2>1, PassedRow
<1>5. <<c, "sent">> \in Cases \X DraftStatus /\ Account[c] \in Accounts /\ r \in Restaurants
  BY DEF DraftStatus, Accounts, Restaurants
<1>6. mine \in [Restaurants -> Nat] /\ mine[r] = p.mine[r] + 1
      /\ \A s \in Restaurants : mine[s] <= p.mine[s] + 1
  <2> HIDE DEF p1, p, r
  <2> QED BY <1>3, <1>4, <1>5
<1>7. Wrote(w, c, "sent") = [p1 EXCEPT !.wrote = <<c, "sent">>]
  BY DEF Wrote
<1> HIDE DEF p, p1, r
<1>8. /\ q.at = "consider" /\ q.todo = Tail(p.todo) /\ q.global = p.global + 1
      /\ q.mine = mine /\ q.single = FALSE /\ q.wrote = <<c, "sent">>
      /\ q.lanes = p1.lanes /\ q.tries = p1.tries /\ q.used = p1.used \cup {Account[c]}
  BY <1>4, <1>7 DEF PassRow
<1>9. q \in PassRow
  <2>1. p1.lanes \in Seq(Lanes) /\ Tail(p.todo) \in Seq(Cases)
        /\ p1.used \cup {Account[c]} \in SUBSET Accounts /\ p1.tries \in [Accounts -> 0 .. Preflights]
    BY <1>4, <1>5 DEF PassRow
  <2>2. p.global + 1 \in Nat
    BY <1>3
  <2> HIDE DEF mine
  <2> QED BY <1>4, <1>5, <1>6, <1>7, <2>1, <2>2 DEF PassRow, Places
<1> HIDE DEF q, mine
<1>10. Sent(q) = {c} /\ Holds(q) = {c}
  BY <1>8, WrittenIsSome DEF Sent, Holds
<1>11. CountsFit(q)
  <2>1. Cardinality(Cases) \in Nat
    BY SubsetsOfCases
  <2>2. p.single = FALSE
    BY <1>4, RowParts DEF p
  <2>3. p.global + Len(p.todo) <= Cardinality(Cases)
        /\ \A s \in Restaurants : p.mine[s] + Len(p.todo) <= Cardinality(Cases) /\ p.mine[s] \in Nat
    BY <1>3, <2>2 DEF CountsFit
  <2>4. Len(q.todo) = Len(p.todo) - 1
    BY <1>4, <1>8
  <2>5. (p.global + 1) + (Len(p.todo) - 1) <= Cardinality(Cases)
    BY <1>3, <1>4, <2>1, <2>3
  <2>6. ASSUME NEW s \in Restaurants
        PROVE  mine[s] + (Len(p.todo) - 1) <= Cardinality(Cases)
    <3>1. p.mine[s] \in Nat /\ mine[s] \in Nat /\ mine[s] <= p.mine[s] + 1
          /\ p.mine[s] + Len(p.todo) <= Cardinality(Cases)
      BY <1>3, <1>6, <2>3
    <3> QED BY <1>4, <2>1, <3>1
  <2> QED BY <1>8, <2>4, <2>5, <2>6 DEF CountsFit
<1>12. PassOK(q)
  BY <1>3, <1>8, <1>10, <1>11 DEF PassOK, Chosen
<1>13. Left(q) + 1 <= Left(p) /\ Left(q) \in Nat /\ q.at \notin Chosen
  BY <1>3, <1>8 DEF Left, Chosen
<1>14. Moves(w) /\ run'[w] = q
  BY <1>2, <1>9, <1>12, RowParts, StepTo DEF SoundRow, q
<1> QED BY <1>2, <1>10, <1>13, <1>14 DEF p

(* A pass whose call brought nothing writes that down and goes on. *)
LEMMA FailedRow ==
    ASSUME RunsAssumption, SoundPasses, NEW w \in Workers, NEW c \in Cases,
           run[w].at = "call", c = Head(run[w].todo), ~run[w].single,
           NEW status \in {"failed", "provider_draft_created"}, NEW used \in SUBSET Accounts,
           NEW q, q = [Wrote(w, c, status) EXCEPT !.used = used], Step(w, q)
    PROVE  /\ Moves(w) /\ Holds(run'[w]) = {c} /\ Sent(run'[w]) = {}
           /\ Left(run'[w]) <= Left(run[w]) /\ run'[w].at \notin Chosen
<1> DEFINE p == run[w]
           p1 == Passed(p)
<1>1. p \in PassRow /\ CountsFit(p) /\ p.todo # <<>> /\ p.at \in Chosen /\ p.single = FALSE
  BY CallRow, RowParts
<1>2. /\ p1 \in PassRow /\ p1.at = "consider" /\ p1.todo = Tail(p.todo) /\ p1.global = p.global
      /\ p1.mine = p.mine /\ p1.single = FALSE
  BY <1>1, PassedRow
<1>3. <<c, status>> \in Cases \X DraftStatus
  BY DEF DraftStatus
<1>4. Wrote(w, c, status) = [p1 EXCEPT !.wrote = <<c, status>>]
  BY DEF Wrote
<1> HIDE DEF p, p1
<1>5. /\ q.at = "consider" /\ q.todo = Tail(p.todo) /\ q.global = p.global
      /\ q.mine = p.mine /\ q.single = FALSE /\ q.wrote = <<c, status>>
  BY <1>2, <1>4 DEF PassRow
<1>6. q \in PassRow
  BY <1>2, <1>3, <1>4 DEF PassRow
<1>7. Sent(q) = {} /\ Holds(q) = {c} /\ q.at \notin Chosen
  <2>1. q.wrote[1] = c /\ q.wrote[2] # "sent" /\ q.wrote # Nothing /\ q.at # "call"
    <3>1. <<c, status>>[1] = c /\ <<c, status>>[2] = status /\ status # "sent"
      OBVIOUS
    <3>2. <<c, status>> # Nothing
      BY WrittenIsSome
    <3> QED BY <1>5, <3>1, <3>2
  <2>2. Sent(q) = {}
    BY <2>1 DEF Sent
  <2>3. Holds(q) = {c}
    BY <2>1 DEF Holds
  <2> QED BY <1>5, <2>2, <2>3 DEF Chosen
<1>8. SoundRow(q) /\ Left(q) <= Left(p)
  BY <1>1, <1>5, <1>6, <1>7, NextCase DEF p
<1>9. Moves(w) /\ run'[w] = q
  BY <1>8, RowParts, StepTo
<1> QED BY <1>7, <1>8, <1>9 DEF p

LEMMA EndedLaneRow ==
    ASSUME RunsAssumption, SoundPasses, NEW w \in Workers, EndLane(w)
    PROVE  /\ Moves(w) /\ Holds(run'[w]) \subseteq Holds(run[w])
           /\ Sent(run'[w]) \subseteq Sent(run[w]) /\ Left(run'[w]) = 0 /\ run'[w].at \notin Chosen
<1> DEFINE p == run[w]
           q == [p EXCEPT !.at = "lane"]
<1>1. p.at = "consider" /\ Step(w, IF p.single THEN Idle ELSE q)
  BY DEF EndLane
<1>2. p \in PassRow /\ PassOK(p) /\ CountsFit(p)
  BY RowParts
<1>3. CASE p.single
  <2>1. Moves(w) /\ run'[w] = Idle
    BY <1>1, <1>3, IdleRow, RowParts, StepTo
  <2> QED BY <2>1, IdleRow DEF Chosen
<1>4. CASE ~p.single
  <2>1. /\ q \in PassRow /\ q.at = "lane" /\ q.todo = p.todo /\ q.global = p.global
        /\ q.mine = p.mine /\ q.single = p.single /\ q.wrote = p.wrote
    BY <1>2 DEF PassRow, Places
  <2>2. Step(w, q)
    BY <1>1, <1>4
  <2> HIDE DEF q
  <2>3. Holds(q) = Holds(p) /\ Sent(q) = Sent(p) /\ Left(q) = 0 /\ q.at \notin Chosen
    BY <1>1, <1>4, <2>1 DEF Holds, Sent, Left, Chosen
  <2>4. CountsFit(q)
    BY <1>2, <2>1 DEF CountsFit
  <2>5. PassOK(q)
    <3>1. Sent(q) # {} => q.global # 0 /\ DailyLimit # 0
      BY <1>2, <2>1, <2>3 DEF PassOK
    <3> QED BY <1>4, <2>1, <2>4, <3>1 DEF PassOK, Chosen
  <2>6. Moves(w) /\ run'[w] = q
    BY <2>1, <2>2, <2>5, RowParts, StepTo DEF SoundRow
  <2> QED BY <2>3, <2>6
<1> QED BY <1>3, <1>4

LEMMA StoppedRow ==
    ASSUME RunsAssumption, SoundPasses, NEW w \in Workers, Step(w, Idle)
    PROVE  /\ Moves(w) /\ Holds(run'[w]) = {} /\ Sent(run'[w]) = {} /\ Left(run'[w]) = 0
           /\ run'[w].at \notin Chosen
<1>1. Moves(w) /\ run'[w] = Idle
  BY IdleRow, RowParts, StepTo
<1> QED BY <1>1, IdleRow DEF Chosen

(***************************************************************************)
(* The steps keep the passes sound                                         *)
(***************************************************************************)

LEMMA OthersStay ==
    ASSUME SoundPasses, NEW w \in Workers, Moves(w)
    PROVE  /\ run' \in [Workers -> PassRow] /\ PassesOK'
           /\ \A v \in Workers : v # w => run'[v] = run[v]
<1>1. run \in [Workers -> PassRow] /\ run'[w] \in PassRow /\ PassOK(run'[w])
  BY DEF SoundPasses, RowsTyped, Moves, SoundRow
<1>2. \A v \in Workers : v # w => run'[v] = run[v]
  BY <1>1 DEF Moves
<1>3. run' \in [Workers -> PassRow]
  BY <1>1 DEF Moves
<1>4. \A v \in Workers : PassOK(run'[v])
  BY <1>1, <1>2 DEF SoundPasses, PassesOK
<1> QED BY <1>2, <1>3, <1>4 DEF PassesOK, PassOK, CountsFit

(* A step that leaves alone what the others hold keeps the holds apart. *)
LEMMA HoldsStay ==
    ASSUME SoundPasses, NEW w \in Workers, Moves(w), stale' \subseteq stale,
           \A v \in Workers \ {w} : \A c \in Holds(run[v]) :
              draft'[c] = draft[c] /\ c \notin Holds(run'[w]),
           \A c \in Holds(run'[w]) : draft'[c] = "send_requested" /\ c \notin stale
    PROVE  HeldOnce'
<1>1. \A v \in Workers : v # w => run'[v] = run[v]
  BY OthersStay
<1>2. ASSUME NEW v \in Workers, NEW c \in Holds(run'[v])
      PROVE  draft'[c] = "send_requested" /\ c \notin stale'
  <2>1. CASE v = w
    BY <1>2, <2>1
  <2>2. CASE v # w
    <3>1. c \in Holds(run[v])
      BY <1>1, <1>2, <2>2
    <3> QED BY <2>2, <3>1 DEF SoundPasses, HeldOnce
  <2> QED BY <2>1, <2>2
<1>3. ASSUME NEW u \in Workers, NEW v \in Workers, u # v,
             NEW c, c \in Holds(run'[u]), c \in Holds(run'[v])
      PROVE  FALSE
  <2>1. CASE u = w
    BY <1>1, <1>3, <2>1
  <2>2. CASE v = w
    BY <1>1, <1>3, <2>2
  <2>3. CASE u # w /\ v # w
    <3>1. c \in Holds(run[u]) /\ c \in Holds(run[v])
      BY <1>1, <1>3, <2>3
    <3> QED BY <1>3, <3>1 DEF SoundPasses, HeldOnce
  <2> QED BY <2>1, <2>2, <2>3
<1>4. \A u, v \in Workers : u # v => Holds(run'[u]) \cap Holds(run'[v]) = {}
  BY <1>3
<1> QED BY <1>2, <1>4 DEF HeldOnce, Holds

LEMMA RecordsStay ==
    ASSUME SoundPasses, NEW w \in Workers, Moves(w), mailed \subseteq mailed',
           Sent(run'[w]) \subseteq mailed',
           \A c \in counted' : draft'[c] = "sent",
           \A c \in stale' : draft'[c] = "send_requested"
    PROVE  Recorded'
<1>1. ASSUME NEW v \in Workers
      PROVE  Sent(run'[v]) \subseteq mailed'
  <2>1. CASE v = w
    BY <2>1
  <2>2. CASE v # w
    BY <2>2, OthersStay DEF SoundPasses, Recorded
  <2> QED BY <2>1, <2>2
<1> QED BY <1>1 DEF Recorded, Sent

(* A step that writes no row of a draft. *)
LEMMA QuietPass ==
    ASSUME SoundPasses, NEW w \in Workers, Moves(w), UNCHANGED <<draft, stale, counted>>,
           mailed \subseteq mailed', mailed' \subseteq Cases,
           Holds(run'[w]) \subseteq Holds(run[w]), Sent(run'[w]) \subseteq mailed'
    PROVE  SoundPasses'
<1>1. RowsTyped' /\ PassesOK'
  BY OthersStay DEF SoundPasses, RowsTyped
<1>2. HeldOnce'
  <2>1. \A v \in Workers \ {w} : \A c \in Holds(run[v]) :
          draft'[c] = draft[c] /\ c \notin Holds(run'[w])
    BY DEF SoundPasses, HeldOnce
  <2>2. \A c \in Holds(run'[w]) : draft'[c] = "send_requested" /\ c \notin stale
    BY DEF SoundPasses, HeldOnce
  <2>3. stale' \subseteq stale
    OBVIOUS
  <2> QED BY <2>1, <2>2, <2>3, HoldsStay
<1>3. Recorded'
  <2>1. /\ \A c \in counted' : draft'[c] = "sent"
        /\ \A c \in stale' : draft'[c] = "send_requested"
    BY DEF SoundPasses, Recorded
  <2> QED BY <2>1, RecordsStay
<1> QED BY <1>1, <1>2, <1>3 DEF SoundPasses

(* A step that commits what its pass wrote: nothing but that row changes,  *)
(* or a case D that nobody holds, counts or waits for.                     *)
LEMMA CommittedPass ==
    ASSUME RunsAssumption, SoundPasses, NEW w \in Workers, Moves(w),
           Holds(run'[w]) = {}, Sent(run'[w]) = {}, UNCHANGED <<stale, mailed>>,
           run[w].at # "call", counted' = SentToday(w),
           draft' \in [Cases -> DraftStatus],
           \A c \in Cases : draft'[c] = DraftSeen(w)[c] \/ DraftSeen(w)[c] = "none"
    PROVE  SoundPasses'
<1> DEFINE o == run[w].wrote
<1>1. draft \in [Cases -> DraftStatus] /\ stale \subseteq Cases /\ counted \subseteq Cases
      /\ counted \subseteq mailed
  BY DEF SoundPasses, RowsTyped
<1>2. DraftSeen(w) = IF o = Nothing THEN draft ELSE [draft EXCEPT ![o[1]] = o[2]]
  BY DEF DraftSeen
<1>3. \A c \in Cases : c \notin Holds(run[w]) => DraftSeen(w)[c] = draft[c]
  BY <1>1, <1>2 DEF Holds
<1>4. \A c \in Cases : c \notin Holds(run[w]) /\ draft[c] # "none" => draft'[c] = draft[c]
  BY <1>3
<1>5. \A c \in Sent(run[w]) : c \in Cases /\ draft'[c] = "sent"
  <2> SUFFICES ASSUME NEW c \in Sent(run[w])
               PROVE  c \in Cases /\ draft'[c] = "sent"
    OBVIOUS
  <2>1. c \in Cases /\ o # Nothing /\ o[1] = c /\ o[2] = "sent"
    BY OnRecordTyped DEF Sent
  <2>2. DraftSeen(w)[c] = "sent"
    BY <1>1, <1>2, <2>1
  <2> QED BY <2>1, <2>2
<1>6. \A v \in Workers : \A c \in Holds(run[v]) : draft[c] = "send_requested" /\ c \notin stale
  BY DEF SoundPasses, HeldOnce
<1>7. counted' \subseteq mailed'
  BY <1>1, OwnSentIsSent DEF SoundPasses, Recorded
<1>8. RowsTyped' /\ PassesOK'
  BY <1>7, OthersStay DEF SoundPasses, RowsTyped
<1>9. HeldOnce'
  <2>1. ASSUME NEW v \in Workers \ {w}, NEW c \in Holds(run[v])
        PROVE  draft'[c] = draft[c]
    <3>1. c \in Cases
      <4>1. CASE run[v].at = "call"
        BY <4>1, CallRow DEF Holds
      <4>2. CASE run[v].at # "call"
        BY <4>2, RowParts DEF Holds
      <4> QED BY <4>1, <4>2
    <3>2. c \notin Holds(run[w])
      BY DEF SoundPasses, HeldOnce
    <3> QED BY <1>4, <1>6, <3>1, <3>2
  <2> QED BY <2>1, HoldsStay
<1>10. Recorded'
  <2>1. \A c \in counted : draft'[c] = "sent"
    <3>1. \A c \in counted : draft[c] = "sent"
      BY DEF SoundPasses, Recorded
    <3> QED BY <1>1, <1>4, <1>6, <3>1
  <2>2. \A c \in counted' : draft'[c] = "sent"
    BY <1>5, <2>1, OwnSentIsSent
  <2>3. \A c \in stale' : draft'[c] = "send_requested"
    <3>1. \A c \in stale : draft[c] = "send_requested"
      BY DEF SoundPasses, Recorded
    <3> QED BY <1>1, <1>4, <1>6, <3>1
  <2> QED BY <2>2, <2>3, RecordsStay
<1> QED BY <1>8, <1>9, <1>10 DEF SoundPasses

(* A step that writes the row of one case, which no other pass holds. *)
LEMMA WrittenPass ==
    ASSUME RunsAssumption, SoundPasses, NEW w \in Workers, Moves(w), NEW c \in Cases,
           NEW s \in DraftStatus, draft' = [draft EXCEPT ![c] = s],
           c \notin stale, draft[c] # "sent",
           \A v \in Workers \ {w} : c \notin Holds(run[v]),
           Holds(run'[w]) \subseteq {c}, s # "send_requested" => Holds(run'[w]) = {},
           Sent(run'[w]) = {}, stale' = stale, mailed \subseteq mailed', mailed' \subseteq Cases,
           \/ counted' = counted
           \/ s = "sent" /\ c \in mailed' /\ counted' = counted \cup {c}
    PROVE  SoundPasses'
<1>1. draft \in [Cases -> DraftStatus] /\ stale \subseteq Cases /\ counted \subseteq mailed
      /\ mailed \subseteq Cases
  BY DEF SoundPasses, RowsTyped
<1>2. draft' \in [Cases -> DraftStatus] /\ draft'[c] = s
      /\ \A d \in Cases : d # c => draft'[d] = draft[d]
  BY <1>1
<1>3. counted' \subseteq mailed'
  BY <1>1
<1>4. RowsTyped' /\ PassesOK'
  BY <1>1, <1>2, <1>3, OthersStay DEF RowsTyped
<1>5. HeldOnce'
  <2>1. ASSUME NEW v \in Workers \ {w}, NEW d \in Holds(run[v])
        PROVE  draft'[d] = draft[d] /\ d \notin Holds(run'[w])
    <3>1. d # c
      OBVIOUS
    <3>2. draft'[d] = draft[d]
      BY <1>1, <3>1
    <3> QED BY <3>1, <3>2
  <2>2. \A d \in Holds(run'[w]) : draft'[d] = "send_requested" /\ d \notin stale
    BY <1>2
  <2> QED BY <2>1, <2>2, HoldsStay
<1>6. Recorded'
  <2>1. \A d \in counted : draft[d] = "sent"
    BY DEF SoundPasses, Recorded
  <2>2. ASSUME NEW d \in counted'
        PROVE  draft'[d] = "sent"
    <3>1. CASE d \in counted
      <4>1. d # c /\ d \in Cases
        BY <1>1, <2>1, <3>1
      <4> QED BY <1>2, <2>1, <3>1, <4>1
    <3>2. CASE d \notin counted
      <4>1. d = c /\ s = "sent"
        BY <2>2, <3>2
      <4> QED BY <1>2, <4>1
    <3> QED BY <3>1, <3>2
  <2>3. \A d \in stale : draft[d] = "send_requested"
    BY DEF SoundPasses, Recorded
  <2>4. \A d \in stale' : draft'[d] = "send_requested"
    BY <1>1, <1>2, <2>3
  <2> QED BY <2>2, <2>4, RecordsStay
<1> QED BY <1>4, <1>5, <1>6 DEF SoundPasses

(* The repair writes stale requests, which nobody holds. *)
LEMMA RepairSound ==
    ASSUME RunsAssumption, SoundPasses, NEW w \in Workers, NEW S \in SUBSET Asked, BeginWorker(w, S)
    PROVE  SoundPasses'
<1>1. draft \in [Cases -> DraftStatus] /\ stale \subseteq Cases /\ S \subseteq stale
  BY DEF SoundPasses, RowsTyped, Asked
<1>2. Moves(w) /\ Holds(run'[w]) = {} /\ Sent(run'[w]) = {}
  <2>1. PICK order \in {<<"followups", "appeals">>, <<"appeals", "followups">>} :
          Step(w, [Idle EXCEPT !.at = "lane", !.lanes = order])
    BY DEF BeginWorker
  <2>2. order \in Seq(Lanes)
    <3>1. "followups" \in Lanes /\ "appeals" \in Lanes
      BY DEF Lanes
    <3>2. <<"followups", "appeals">> \in Seq(Lanes) /\ <<"appeals", "followups">> \in Seq(Lanes)
      BY <3>1
    <3> QED BY <3>2
  <2> QED BY <2>1, <2>2, StartRow
<1>3. /\ draft' = [c \in Cases |-> IF c \in S THEN Repaired(c) ELSE draft[c]]
      /\ stale' = {c \in stale : draft'[c] = "send_requested"}
      /\ mailed' = mailed /\ counted' = counted
  BY DEF BeginWorker
<1>4. \A c \in Cases : Repaired(c) \in DraftStatus
  BY <1>1 DEF Repaired, DraftStatus
<1>5. draft' \in [Cases -> DraftStatus] /\ \A c \in Cases : c \notin stale => draft'[c] = draft[c]
  BY <1>1, <1>3, <1>4
<1>6. RowsTyped' /\ PassesOK'
  BY <1>2, <1>3, <1>5, OthersStay DEF SoundPasses, RowsTyped
<1>7. HeldOnce'
  <2>1. ASSUME NEW v \in Workers, NEW c \in Holds(run[v])
        PROVE  c \in Cases /\ draft'[c] = draft[c]
    <3>1. c \in Cases
      <4>1. CASE run[v].at = "call"
        BY <4>1, CallRow DEF Holds
      <4>2. CASE run[v].at # "call"
        BY <4>2, RowParts DEF Holds
      <4> QED BY <4>1, <4>2
    <3>2. c \notin stale
      BY DEF SoundPasses, HeldOnce
    <3> QED BY <1>5, <3>1, <3>2
  <2>2. stale' \subseteq stale
    BY <1>3
  <2> QED BY <1>2, <2>1, <2>2, HoldsStay
<1>8. Recorded'
  <2>1. counted \subseteq Cases /\ \A c \in counted : draft[c] = "sent" /\ c \notin stale
    BY DEF SoundPasses, RowsTyped, Recorded
  <2>2. \A c \in counted' : draft'[c] = "sent"
    BY <1>3, <1>5, <2>1
  <2>3. \A c \in stale' : draft'[c] = "send_requested"
    BY <1>3
  <2>4. mailed \subseteq mailed' /\ Sent(run'[w]) \subseteq mailed'
    BY <1>2, <1>3
  <2> QED BY <1>2, <2>2, <2>3, <2>4, RecordsStay
<1> QED BY <1>6, <1>7, <1>8 DEF SoundPasses

LEMMA AgingSound ==
    ASSUME SoundPasses, NEW c \in Cases, GoStale(c)
    PROVE  SoundPasses'
<1>1. /\ draft[c] = "send_requested" /\ stale' = stale \cup {c}
      /\ draft' = draft /\ mailed' = mailed /\ counted' = counted /\ run' = run
  BY DEF GoStale
<1>2. RowsTyped' /\ PassesOK'
  BY <1>1 DEF SoundPasses, RowsTyped, PassesOK, PassOK, CountsFit
<1>3. \A w \in Workers : c \notin Holds(run[w])
  BY DEF GoStale, Holds
<1>4. HeldOnce'
  <2>1. ASSUME NEW w \in Workers, NEW d \in Holds(run[w])
        PROVE  draft[d] = "send_requested" /\ d \notin stale'
    BY <1>1, <1>3 DEF SoundPasses, HeldOnce
  <2>2. \A w, v \in Workers : w # v => Holds(run[w]) \cap Holds(run[v]) = {}
    BY DEF SoundPasses, HeldOnce
  <2> QED BY <1>1, <2>1, <2>2 DEF HeldOnce, Holds
<1>5. Recorded'
  BY <1>1 DEF SoundPasses, Recorded, Sent
<1> QED BY <1>2, <1>4, <1>5 DEF SoundPasses

(* A call commits what the pass wrote and creates the draft it needs. *)
LEMMA CheckSound ==
    ASSUME RunsAssumption, SoundPasses, NEW w \in Workers, NEW c \in Cases, Preflight(w, c)
    PROVE  SoundPasses'
<1>1. Moves(w) /\ Holds(run'[w]) = {} /\ Sent(run'[w]) = {}
  BY CheckedRow
<1>2. run[w].at # "call" /\ counted' = SentToday(w) /\ UNCHANGED <<stale, mailed>>
  BY DEF Preflight
<1>3. DraftSeen(w) \in [Cases -> DraftStatus]
  BY RowParts DEF RowsTyped, DraftSeen
<1>4. \/ draft' = DraftSeen(w)
      \/ draft' = [DraftSeen(w) EXCEPT ![c] = IF @ = "none" THEN "provider_draft_created" ELSE @]
  BY DEF Preflight
<1>5. draft' \in [Cases -> DraftStatus]
      /\ \A d \in Cases : draft'[d] = DraftSeen(w)[d] \/ DraftSeen(w)[d] = "none"
  <2> DEFINE seen == DraftSeen(w)
  <2> HIDE DEF seen
  <2>1. seen \in [Cases -> DraftStatus]
    BY <1>3 DEF seen
  <2>2. \/ draft' = seen
        \/ draft' = [seen EXCEPT ![c] = IF @ = "none" THEN "provider_draft_created" ELSE @]
    BY <1>4 DEF seen
  <2>3. "provider_draft_created" \in DraftStatus
    BY DEF DraftStatus
  <2>4. draft' \in [Cases -> DraftStatus]
        /\ \A d \in Cases : draft'[d] = seen[d] \/ seen[d] = "none"
    BY <2>1, <2>2, <2>3
  <2> QED BY <2>4 DEF seen
<1> QED BY <1>1, <1>2, <1>5, CommittedPass

LEMMA EndSound ==
    ASSUME RunsAssumption, SoundPasses, NEW w \in Workers, EndPass(w)
    PROVE  SoundPasses'
<1>1. Moves(w) /\ Holds(run'[w]) = {} /\ Sent(run'[w]) = {}
  BY StoppedRow DEF EndPass
<1>2. run[w].at # "call" /\ counted' = SentToday(w) /\ draft' = DraftSeen(w)
      /\ UNCHANGED <<stale, mailed>>
  BY DEF EndPass, Commit
<1>3. DraftSeen(w) \in [Cases -> DraftStatus]
  BY RowParts DEF RowsTyped, DraftSeen
<1> QED BY <1>1, <1>2, <1>3, CommittedPass

(* A case that is not requested is in nobody's hold. *)
LEMMA RequestSound ==
    ASSUME RunsAssumption, SoundPasses, NEW w \in Workers, NEW c \in Cases, Request(w, c)
    PROVE  SoundPasses'
<1>1. Moves(w) /\ Holds(run'[w]) = {c} /\ Sent(run'[w]) = {}
  BY RequestedRow
<1>2. draft[c] = "provider_draft_created" /\ draft' = [draft EXCEPT ![c] = "send_requested"]
      /\ UNCHANGED <<stale, mailed, counted>>
  BY DEF Request
<1>3. c \notin stale /\ \A v \in Workers : c \notin Holds(run[v])
  BY <1>2 DEF SoundPasses, HeldOnce, Recorded
<1>4. "send_requested" \in DraftStatus /\ mailed' \subseteq Cases
  BY <1>2 DEF DraftStatus, SoundPasses, RowsTyped
<1> QED BY <1>1, <1>2, <1>3, <1>4, WrittenPass

(* What the mailbox answers is written by the pass that holds the request.  *)
LEMMA CallEndsSound ==
    ASSUME RunsAssumption, SoundPasses, NEW w \in Workers, NEW c \in Cases,
           run[w].at = "call", c = Head(run[w].todo), run[w].single,
           NEW s \in {"sent", "failed", "provider_draft_created"}, NEW p, AfterCall(w, c, s, p),
           stale' = stale, mailed' = mailed \/ mailed' = mailed \cup {c},
           s = "sent" => c \in mailed'
    PROVE  SoundPasses'
<1>1. Moves(w) /\ Holds(run'[w]) = {} /\ Sent(run'[w]) = {}
  BY StoppedRow DEF AfterCall
<1>2. /\ draft' = [draft EXCEPT ![c] = s]
      /\ counted' = IF s = "sent" THEN counted \cup {c} ELSE counted
  BY DEF AfterCall
<1>3. Holds(run[w]) = {c}
  BY CallRow
<1>4. draft[c] = "send_requested" /\ c \notin stale
      /\ \A v \in Workers \ {w} : c \notin Holds(run[v])
  BY <1>3 DEF SoundPasses, HeldOnce
<1>5. mailed \subseteq mailed' /\ mailed' \subseteq Cases /\ s \in DraftStatus /\ s # "send_requested"
  BY DEF SoundPasses, RowsTyped, DraftStatus
<1> QED BY <1>1, <1>2, <1>4, <1>5, WrittenPass

LEMMA AnswerSound ==
    ASSUME RunsAssumption, SoundPasses, NEW w \in Workers, NEW c \in Cases, Answer(w, c)
    PROVE  SoundPasses'
<1> DEFINE q == [Wrote(w, c, "sent") EXCEPT !.global = @ + 1, !.mine[Restaurant[c]] = @ + 1,
                                            !.used = @ \cup {Account[c]}]
<1>1. run[w].at = "call" /\ c = Head(run[w].todo) /\ mailed' = mailed \cup {c} /\ stale' = stale
      /\ AfterCall(w, c, "sent", q)
  BY DEF Answer
<1> HIDE DEF q
<1>2. CASE run[w].single
  BY <1>1, <1>2, CallEndsSound
<1>3. CASE ~run[w].single
  <2>1. Moves(w) /\ Holds(run'[w]) = {c} /\ Sent(run'[w]) = {c} /\ UNCHANGED <<draft, counted>>
    BY <1>3, AnsweredRow
  <2>2. Holds(run[w]) = {c}
    BY <1>1, CallRow
  <2>3. mailed \subseteq mailed' /\ mailed' \subseteq Cases /\ Sent(run'[w]) \subseteq mailed'
    BY <1>1, <2>1 DEF SoundPasses, RowsTyped
  <2> QED BY <1>1, <2>1, <2>2, <2>3, QuietPass
<1> QED BY <1>2, <1>3

LEMMA FailSound ==
    ASSUME RunsAssumption, SoundPasses, NEW w \in Workers, NEW c \in Cases,
           NEW status \in {"failed", "provider_draft_created"}, NEW used \in SUBSET Accounts,
           run[w].at = "call", c = Head(run[w].todo), stale' = stale,
           mailed' = mailed \/ mailed' = mailed \cup {c},
           NEW q, q = [Wrote(w, c, status) EXCEPT !.used = used], AfterCall(w, c, status, q)
    PROVE  SoundPasses'
<1>1. CASE run[w].single
  <2>1. status \in {"sent", "failed", "provider_draft_created"} /\ status # "sent"
    OBVIOUS
  <2> QED BY <1>1, <2>1, CallEndsSound
<1>2. CASE ~run[w].single
  <2>1. Step(w, q) /\ UNCHANGED <<draft, counted>>
    BY <1>2 DEF AfterCall
  <2>2. Moves(w) /\ Holds(run'[w]) = {c} /\ Sent(run'[w]) = {}
    BY <1>2, <2>1, FailedRow
  <2>3. Holds(run[w]) = {c}
    BY CallRow
  <2>4. mailed \subseteq mailed' /\ mailed' \subseteq Cases
    BY DEF SoundPasses, RowsTyped
  <2> QED BY <2>1, <2>2, <2>3, <2>4, QuietPass
<1> QED BY <1>1, <1>2

LEMMA SameUsed ==
    ASSUME NEW x \in PassRow
    PROVE  x = [x EXCEPT !.used = x.used]
BY DEF PassRow

(* What a pass writes of a call that failed: its mailbox may have its turn.  *)
LEMMA FailureWritten ==
    ASSUME RunsAssumption, SoundPasses, NEW w \in Workers, NEW c \in Cases,
           run[w].at = "call", c = Head(run[w].todo),
           AnswerFails(w, c) \/ AnswerDefers(w, c)
    PROVE  \E status \in {"failed", "provider_draft_created"}, used \in SUBSET Accounts :
              AfterCall(w, c, status, [Wrote(w, c, status) EXCEPT !.used = used])
<1> DEFINE p1 == Passed(run[w])
<1>1. p1 \in PassRow
  BY CallRow, RowParts, PassedRow
<1>2. \A s \in {"failed", "provider_draft_created"} :
        /\ Wrote(w, c, s).used = p1.used
        /\ Wrote(w, c, s) = [Wrote(w, c, s) EXCEPT !.used = p1.used]
  <2> SUFFICES ASSUME NEW s \in {"failed", "provider_draft_created"}
               PROVE  /\ Wrote(w, c, s).used = p1.used
                      /\ Wrote(w, c, s) = [Wrote(w, c, s) EXCEPT !.used = p1.used]
    OBVIOUS
  <2> DEFINE x == Wrote(w, c, s)
  <2>1. x = [p1 EXCEPT !.wrote = <<c, s>>]
    BY DEF Wrote
  <2>2. <<c, s>> \in Cases \X DraftStatus
    BY DEF DraftStatus
  <2> HIDE DEF p1, x
  <2>3. x \in PassRow /\ x.used = p1.used
    BY <1>1, <2>1, <2>2 DEF PassRow
  <2>4. x = [x EXCEPT !.used = x.used]
    BY <2>3, SameUsed
  <2> QED BY <2>3, <2>4 DEF x
<1>3. p1.used \in SUBSET Accounts /\ Account[c] \in Accounts
  BY <1>1 DEF PassRow, Accounts
<1> HIDE DEF p1
<1>4. CASE AnswerFails(w, c)
  <2>1. AfterCall(w, c, "failed", Wrote(w, c, "failed"))
    BY <1>4 DEF AnswerFails
  <2>2. AfterCall(w, c, "failed", [Wrote(w, c, "failed") EXCEPT !.used = p1.used])
    BY <1>2, <2>1
  <2> QED BY <1>3, <2>2
<1>5. CASE AnswerDefers(w, c)
  <2>1. AfterCall(w, c, "provider_draft_created",
                  [Wrote(w, c, "provider_draft_created") EXCEPT !.used = @ \cup {Account[c]}])
    BY <1>5 DEF AnswerDefers
  <2>2. AfterCall(w, c, "provider_draft_created",
                  [Wrote(w, c, "provider_draft_created") EXCEPT !.used = p1.used \cup {Account[c]}])
    BY <1>2, <2>1
  <2>3. p1.used \cup {Account[c]} \in SUBSET Accounts
    BY <1>3
  <2> QED BY <2>2, <2>3
<1> QED BY <1>4, <1>5

LEMMA FailuresSound ==
    ASSUME RunsAssumption, SoundPasses, NEW w \in Workers, NEW c \in Cases,
           AnswerFails(w, c) \/ AnswerDefers(w, c)
    PROVE  SoundPasses'
<1>1. /\ run[w].at = "call" /\ c = Head(run[w].todo) /\ stale' = stale
      /\ mailed' = mailed \/ mailed' = mailed \cup {c}
  BY DEF AnswerFails, AnswerDefers
<1>2. PICK status \in {"failed", "provider_draft_created"}, used \in SUBSET Accounts :
        AfterCall(w, c, status, [Wrote(w, c, status) EXCEPT !.used = used])
  BY <1>1, FailureWritten
<1> QED BY <1>1, <1>2, FailSound

LEMMA DeathSound ==
    ASSUME RunsAssumption, SoundPasses, NEW w \in Workers, Die(w)
    PROVE  SoundPasses'
<1>1. Moves(w) /\ Holds(run'[w]) = {} /\ Sent(run'[w]) = {}
  BY StoppedRow DEF Die
<1>2. mailed \subseteq mailed' /\ mailed' \subseteq Cases
  <2>1. run[w].at = "call" => Head(run[w].todo) \in Cases
    BY CallRow
  <2> QED BY <2>1 DEF Die, SoundPasses, RowsTyped
<1> QED BY <1>1, <1>2, QuietPass DEF Die

LEMMA QuietSteps ==
    ASSUME RunsAssumption, SoundPasses, NEW w \in Workers,
           \/ \E l \in Lanes : BeginRun(w, l)
           \/ \E a \in Accounts : BeginResume(w, a)
           \/ BeginLane(w) \/ PassOver(w) \/ NotRequested(w) \/ EndLane(w)
           \/ \E c \in Cases : Consider(w, c)
    PROVE  SoundPasses'
<1>1. UNCHANGED <<draft, stale, mailed, counted>>
  BY DEF BeginRun, BeginResume, BeginLane, PassOver, NotRequested, EndLane, Consider
<1>2. Moves(w) /\ Holds(run'[w]) \subseteq Holds(run[w]) /\ Sent(run'[w]) \subseteq Sent(run[w])
  <2>1. ASSUME NEW l \in Lanes, BeginRun(w, l)
        PROVE  Moves(w) /\ Holds(run'[w]) = {} /\ Sent(run'[w]) = {}
    <3>1. <<l>> \in Seq(Lanes)
      OBVIOUS
    <3>2. Step(w, [Idle EXCEPT !.at = "lane", !.lanes = <<l>>])
      BY <2>1 DEF BeginRun
    <3> QED BY <3>1, <3>2, StartRow
  <2> QED BY <2>1, ResumeRow, LaneRow, PassedOver, NotRequestedRow, EndedLaneRow, ChosenRow
<1>3. Sent(run[w]) \subseteq mailed /\ mailed \subseteq Cases
  BY DEF SoundPasses, Recorded, RowsTyped
<1> QED BY <1>1, <1>2, <1>3, QuietPass

(***************************************************************************)
(* The limit of the day                                                    *)
(***************************************************************************)

LEMMA WorkersCounted ==
    ASSUME RunsAssumption
    PROVE  /\ IsFiniteSet(Workers) /\ Cardinality(Workers) \in Nat \ {0}
           /\ \A S \in SUBSET Workers :
                IsFiniteSet(S) /\ Cardinality(S) \in Nat /\ Cardinality(S) <= Cardinality(Workers)
BY FS_Subset, FS_CardinalityType, FS_EmptySet DEF RunsAssumption

LEMMA LeftTyped ==
    ASSUME RunsAssumption, NEW p \in PassRow
    PROVE  Left(p) \in Nat /\ (p.single \/ Left(p) <= DailyLimit)
BY DEF RunsAssumption, PassRow, Left

LEMMA TokensFinite ==
    ASSUME RunsAssumption, NEW rn
    PROVE  IsFiniteSet(Tokens(rn)) /\ Cardinality(Tokens(rn)) \in Nat
<1>1. IsFiniteSet(1 .. DailyLimit)
  BY FS_Interval DEF RunsAssumption
<1>2. IsFiniteSet(Workers \X (1 .. DailyLimit))
  BY <1>1, WorkersCounted, FS_Product
<1>3. Tokens(rn) \in SUBSET (Workers \X (1 .. DailyLimit))
  BY DEF Tokens
<1> QED BY <1>2, <1>3, FS_Subset, FS_CardinalityType

LEMMA RecordFinite ==
    ASSUME RunsAssumption, NEW cs \in SUBSET Cases, NEW rn,
           \A w \in Workers : Sent(rn[w]) \in SUBSET Cases
    PROVE  /\ OnRecord(cs, rn) \in SUBSET Cases
           /\ IsFiniteSet(OnRecord(cs, rn)) /\ Cardinality(OnRecord(cs, rn)) \in Nat
<1>1. OnRecord(cs, rn) \in SUBSET Cases
  BY DEF OnRecord
<1> QED BY <1>1, SubsetsOfCases

(* Before and after a step there are numbers of records and tokens. *)
LEMMA FitTyped ==
    ASSUME RunsAssumption, SoundPasses, SoundPasses'
    PROVE  /\ OnRecord(counted, run) \in SUBSET Cases /\ IsFiniteSet(OnRecord(counted, run))
           /\ Cardinality(OnRecord(counted, run)) \in Nat
           /\ OnRecord(counted', run') \in SUBSET Cases /\ IsFiniteSet(OnRecord(counted', run'))
           /\ Cardinality(OnRecord(counted', run')) \in Nat
           /\ IsFiniteSet(Tokens(run)) /\ Cardinality(Tokens(run)) \in Nat
           /\ IsFiniteSet(Tokens(run')) /\ Cardinality(Tokens(run')) \in Nat
           /\ Cardinality(Workers) * DailyLimit \in Nat
<1>1. counted \in SUBSET Cases /\ \A w \in Workers : Sent(run[w]) \in SUBSET Cases
  BY DEF SoundPasses, RowsTyped, Recorded
<1>2. counted' \in SUBSET Cases /\ \A w \in Workers : Sent(run'[w]) \in SUBSET Cases
  <2>1. counted' \subseteq mailed' /\ mailed' \subseteq Cases
    BY DEF SoundPasses, RowsTyped
  <2>2. \A w \in Workers : Sent(run'[w]) \subseteq mailed'
    BY DEF SoundPasses, Recorded, Sent
  <2> QED BY <2>1, <2>2
<1>3. Cardinality(Workers) * DailyLimit \in Nat
  <2>1. Cardinality(Workers) \in Nat /\ DailyLimit \in Nat
    BY WorkersCounted DEF RunsAssumption
  <2> QED BY <2>1
<1>4. /\ OnRecord(counted, run) \in SUBSET Cases /\ IsFiniteSet(OnRecord(counted, run))
      /\ Cardinality(OnRecord(counted, run)) \in Nat
  BY <1>1, RecordFinite
<1>5. /\ OnRecord(counted', run') \in SUBSET Cases /\ IsFiniteSet(OnRecord(counted', run'))
      /\ Cardinality(OnRecord(counted', run')) \in Nat
  BY <1>2, RecordFinite
<1> QED BY <1>3, <1>4, <1>5, TokensFinite

(* The record grows at most by what the pass of w adds to it. *)
LEMMA RecordGrows ==
    ASSUME SoundPasses, NEW w \in Workers, Moves(w), NEW D,
           counted' \subseteq SentToday(w) \cup D, Sent(run'[w]) \subseteq SentToday(w) \cup D
    PROVE  OnRecord(counted', run') \subseteq OnRecord(counted, run) \cup D
<1>1. \A v \in Workers : v # w => run'[v] = run[v]
  BY OthersStay
<1>2. SentToday(w) \subseteq OnRecord(counted, run)
  BY OwnSentIsSent DEF OnRecord
<1>3. ASSUME NEW v \in Workers
      PROVE  Sent(run'[v]) \subseteq OnRecord(counted, run) \cup D
  <2>1. CASE v = w
    BY <1>2, <2>1
  <2>2. CASE v # w
    <3>1. Sent(run'[v]) = Sent(run[v])
      BY <1>1, <2>2
    <3> QED BY <3>1 DEF OnRecord
  <2> QED BY <2>1, <2>2
<1> QED BY <1>2, <1>3 DEF OnRecord

(* The others keep their tokens. *)
LEMMA TokensKept ==
    ASSUME SoundPasses, NEW w \in Workers, Moves(w), NEW t \in Tokens(run'), t[1] # w
    PROVE  t \in Tokens(run)
BY OthersStay DEF Tokens

(* A step that puts nothing on record and takes no room of the day. *)
LEMMA DayCalm ==
    ASSUME RunsAssumption, SoundPasses, SoundPasses', DayFits, NEW w \in Workers, Moves(w),
           counted' \subseteq SentToday(w), Sent(run'[w]) \subseteq SentToday(w),
           Left(run'[w]) <= Left(run[w])
    PROVE  DayFits'
<1>1. OnRecord(counted', run') \in SUBSET OnRecord(counted, run)
  <2>1. /\ counted' \subseteq SentToday(w) \cup {}
        /\ Sent(run'[w]) \subseteq SentToday(w) \cup {}
    OBVIOUS
  <2>2. OnRecord(counted', run') \subseteq OnRecord(counted, run) \cup {}
    BY <2>1, RecordGrows
  <2> QED BY <2>2
<1>2. Left(run[w]) \in Nat /\ Left(run'[w]) \in Nat
  BY RowParts, LeftTyped DEF Moves, SoundRow
<1>3. Tokens(run') \in SUBSET Tokens(run)
  <2> SUFFICES ASSUME NEW t \in Tokens(run'), t[1] = w
               PROVE  t \in Tokens(run)
    BY TokensKept
  <2> QED BY <1>2 DEF Tokens
<1>4. Cardinality(OnRecord(counted', run')) <= Cardinality(OnRecord(counted, run))
      /\ Cardinality(Tokens(run')) <= Cardinality(Tokens(run))
  BY <1>1, <1>3, FitTyped, FS_Subset
<1> QED BY <1>4, FitTyped DEF DayFits

(* An email on record takes the room its pass counted on. *)
LEMMA DayAnswered ==
    ASSUME RunsAssumption, SoundPasses, SoundPasses', DayFits, NEW w \in Workers, Moves(w),
           NEW c \in Cases, counted' \subseteq SentToday(w) \cup {c},
           Sent(run'[w]) \subseteq SentToday(w) \cup {c},
           Left(run'[w]) + 1 <= Left(run[w]), Left(run[w]) <= DailyLimit
    PROVE  DayFits'
<1> DEFINE t0 == <<w, Left(run[w])>>
<1>1. Left(run[w]) \in Nat /\ Left(run'[w]) \in Nat /\ DailyLimit \in Nat
  BY RowParts, LeftTyped DEF Moves, SoundRow, RunsAssumption
<1>2. t0 \in Tokens(run)
  BY <1>1 DEF Tokens
<1>3. Tokens(run') \in SUBSET (Tokens(run) \ {t0})
  <2>1. ASSUME NEW t \in Tokens(run'), t[1] = w
        PROVE  t \in Tokens(run) /\ t # t0
    BY <1>1, <2>1 DEF Tokens
  <2>2. ASSUME NEW t \in Tokens(run'), t[1] # w
        PROVE  t \in Tokens(run) /\ t # t0
    BY <2>2, TokensKept
  <2> QED BY <2>1, <2>2
<1> HIDE DEF t0
<1>4. Cardinality(Tokens(run')) <= Cardinality(Tokens(run)) - 1
  <2>1. IsFiniteSet(Tokens(run) \ {t0}) /\ Cardinality(Tokens(run) \ {t0}) = Cardinality(Tokens(run)) - 1
    BY <1>2, FitTyped, FS_RemoveElement
  <2>2. Cardinality(Tokens(run')) <= Cardinality(Tokens(run) \ {t0})
    BY <1>3, <2>1, FS_Subset
  <2> QED BY <2>1, <2>2
<1>5. Cardinality(OnRecord(counted', run')) <= Cardinality(OnRecord(counted, run)) + 1
  <2> DEFINE R == OnRecord(counted, run)
  <2>1. OnRecord(counted', run') \in SUBSET (R \cup {c})
    BY RecordGrows
  <2> HIDE DEF R
  <2>2. IsFiniteSet(R) /\ Cardinality(R) \in Nat
    BY FitTyped DEF R
  <2>3. IsFiniteSet(R \cup {c}) /\ Cardinality(R \cup {c}) <= Cardinality(R) + 1
    <3>1. IsFiniteSet(R \cup {c})
          /\ Cardinality(R \cup {c}) = IF c \in R THEN Cardinality(R) ELSE Cardinality(R) + 1
      BY <2>2, FS_AddElement
    <3> QED BY <2>2, <3>1
  <2>4. Cardinality(OnRecord(counted', run')) <= Cardinality(R \cup {c})
    BY <2>1, <2>3, FS_Subset
  <2>5. Cardinality(R \cup {c}) \in Nat
    BY <2>3, FS_CardinalityType
  <2> QED BY <2>2, <2>3, <2>4, <2>5, FitTyped DEF R
<1> QED BY <1>4, <1>5, FitTyped DEF DayFits

(* The other passes with an email on record, and those emails. *)
Senders(w) == {v \in Workers \ {w} : Sent(run[v]) # {}}
TheirSends(w) == UNION {Sent(run[v]) : v \in Senders(w)}

LEMMA SendersSendOne ==
    ASSUME RunsAssumption, SoundPasses, NEW w \in Workers
    PROVE  /\ IsFiniteSet(TheirSends(w)) /\ Cardinality(TheirSends(w)) \in Nat
           /\ IsFiniteSet(Senders(w)) /\ Cardinality(Senders(w)) \in Nat
           /\ Cardinality(TheirSends(w)) <= Cardinality(Senders(w))
           /\ Cardinality(Senders(w)) <= Cardinality(Workers) - 1
           /\ OnRecord(counted, run) \subseteq SentToday(w) \cup TheirSends(w)
<1> DEFINE f == [v \in Senders(w) |-> run[v].wrote[1]]
<1>1. \A v \in Senders(w) : Sent(run[v]) = {f[v]}
  BY DEF Senders, Sent
<1>2. TheirSends(w) = {f[v] : v \in Senders(w)}
  <2> HIDE DEF f
  <2> QED BY <1>1 DEF TheirSends
<1>3. IsFiniteSet(Workers \ {w}) /\ Cardinality(Workers \ {w}) = Cardinality(Workers) - 1
  BY WorkersCounted, FS_RemoveElement
<1>4. IsFiniteSet(Senders(w)) /\ Cardinality(Senders(w)) <= Cardinality(Workers) - 1
  <2>1. Senders(w) \in SUBSET (Workers \ {w})
    BY DEF Senders
  <2> QED BY <1>3, <2>1, FS_Subset
<1>5. f \in Surjection(Senders(w), TheirSends(w))
  <2>1. f = [v \in Senders(w) |-> f[v]]
    OBVIOUS
  <2> HIDE DEF f
  <2> QED BY <1>2, <2>1 DEF Surjection
<1> HIDE DEF f
<1>6. IsFiniteSet(TheirSends(w)) /\ Cardinality(TheirSends(w)) <= Cardinality(Senders(w))
  BY <1>4, <1>5, FS_Surjection
<1>7. OnRecord(counted, run) \subseteq SentToday(w) \cup TheirSends(w)
  <2>1. ASSUME NEW v \in Workers
        PROVE  Sent(run[v]) \subseteq SentToday(w) \cup TheirSends(w)
    <3>1. CASE v = w
      BY <3>1, OwnSentIsSent
    <3>2. CASE v # w
      BY <3>2 DEF TheirSends, Senders
    <3> QED BY <3>1, <3>2
  <2> QED BY <2>1, OwnSentIsSent DEF OnRecord
<1> QED BY <1>4, <1>6, <1>7, FS_CardinalityType

(* A token of the others is not their last when they have an email on record. *)
LEMMA OthersRoom ==
    ASSUME RunsAssumption, SoundPasses, NEW w \in Workers,
           NEW T, T = {t \in Tokens(run) : t[1] # w}
    PROVE  /\ IsFiniteSet(T) /\ Cardinality(T) \in Nat
           /\ Cardinality(T) + Cardinality(Senders(w)) <= (Cardinality(Workers) - 1) * DailyLimit
<1> DEFINE Others == Workers \ {w}
           P == Senders(w) \X {DailyLimit}
           all == Others \X (1 .. DailyLimit)
<1>1. DailyLimit \in Nat /\ IsFiniteSet(1 .. DailyLimit) /\ Cardinality(1 .. DailyLimit) = DailyLimit
  BY FS_Interval DEF RunsAssumption
<1>2. IsFiniteSet(Others) /\ Cardinality(Others) = Cardinality(Workers) - 1
  BY WorkersCounted, FS_RemoveElement
<1>3. IsFiniteSet(all) /\ Cardinality(all) = (Cardinality(Workers) - 1) * DailyLimit
  <2> HIDE DEF Others
  <2>1. IsFiniteSet(all) /\ Cardinality(all) = Cardinality(Others) * Cardinality(1 .. DailyLimit)
    BY <1>1, <1>2, FS_Product
  <2> QED BY <1>1, <1>2, <2>1
<1>4. T \in SUBSET all
  BY DEF Tokens
<1>5. ASSUME NEW v \in Senders(w)
      PROVE  DailyLimit # 0 /\ (Left(run[v]) < DailyLimit)
  <2>1. v \in Workers /\ Sent(run[v]) # {}
    BY DEF Senders
  <2>2. run[v].wrote # Nothing
    BY <2>1 DEF Sent
  <2>3. run[v].global # 0 /\ DailyLimit # 0 /\ ~run[v].single /\ run[v].global \in Nat
    BY <2>1, <2>2, RowParts DEF PassOK
  <2> QED BY <1>1, <2>3 DEF Left
<1>6. P \in SUBSET all
  BY <1>1, <1>5 DEF Senders
<1>7. T \cap P = {}
  <2> SUFFICES ASSUME NEW t \in T, t \in P
               PROVE  FALSE
    OBVIOUS
  <2>1. t[1] \in Senders(w) /\ t[2] = DailyLimit
    OBVIOUS
  <2>2. t[2] <= Left(run[t[1]])
    BY DEF Tokens
  <2>3. Left(run[t[1]]) < DailyLimit
    BY <1>5, <2>1
  <2>4. Left(run[t[1]]) \in Nat
    BY <2>1, RowParts, LeftTyped DEF Senders
  <2> HIDE DEF P
  <2> QED BY <1>1, <2>1, <2>2, <2>3, <2>4
<1>8. IsFiniteSet(P) /\ Cardinality(P) = Cardinality(Senders(w))
  <2>1. IsFiniteSet({DailyLimit}) /\ Cardinality({DailyLimit}) = 1
    BY FS_Singleton
  <2>2. IsFiniteSet(Senders(w)) /\ Cardinality(Senders(w)) \in Nat
    BY SendersSendOne
  <2>3. IsFiniteSet(P) /\ Cardinality(P) = Cardinality(Senders(w)) * Cardinality({DailyLimit})
    BY <2>1, <2>2, FS_Product
  <2> QED BY <2>1, <2>2, <2>3
<1> HIDE DEF P, all
<1>9. IsFiniteSet(T) /\ Cardinality(T) \in Nat
  BY <1>3, <1>4, FS_Subset, FS_CardinalityType
<1>10. T \cup P \in SUBSET all
  BY <1>4, <1>6
<1>11. Cardinality(T \cup P) = Cardinality(T) + Cardinality(P)
  <2>1. Cardinality(T \cup P) = Cardinality(T) + Cardinality(P) - Cardinality(T \cap P)
    BY <1>8, <1>9, FS_Union
  <2>2. Cardinality(T \cap P) = 0
    BY <1>7, FS_EmptySet
  <2>3. Cardinality(P) \in Nat
    BY <1>8, FS_CardinalityType
  <2> QED BY <1>9, <2>1, <2>2, <2>3
<1>12. Cardinality(T \cup P) <= Cardinality(all)
  BY <1>3, <1>10, FS_Subset
<1> QED BY <1>3, <1>8, <1>9, <1>11, <1>12

LEMMA OneMore ==
    ASSUME NEW n \in Nat, NEW d \in Nat
    PROVE  (n - 1) * d \in Int /\ (n - 1) * d + d = n * d
OBVIOUS

(* A pass that reads the count of the day leaves room for the others. *)
LEMMA DayRead ==
    ASSUME RunsAssumption, SoundPasses, SoundPasses', NEW w \in Workers, Moves(w),
           counted' = counted, Sent(run'[w]) = Sent(run[w]),
           Cardinality(SentToday(w)) + Left(run'[w]) <= DailyLimit
    PROVE  DayFits'
<1> DEFINE T == {t \in Tokens(run) : t[1] # w}
           M == {w} \X (1 .. Left(run'[w]))
           R == OnRecord(counted', run')
<1>1. Left(run'[w]) \in Nat /\ DailyLimit \in Nat /\ Cardinality(Workers) \in Nat
  BY LeftTyped, WorkersCounted DEF Moves, SoundRow, RunsAssumption
<1>2. R \subseteq SentToday(w) \cup TheirSends(w)
  <2>1. R \subseteq OnRecord(counted, run) \cup {}
    <3>1. /\ counted' \subseteq SentToday(w) \cup {}
          /\ Sent(run'[w]) \subseteq SentToday(w) \cup {}
      BY OwnSentIsSent
    <3> QED BY <3>1, RecordGrows
  <2> HIDE DEF R
  <2> QED BY <2>1, SendersSendOne
<1>3. Tokens(run') \in SUBSET (T \cup M)
  <2>1. ASSUME NEW t \in Tokens(run'), t[1] = w
        PROVE  t \in M
    BY <2>1, <1>1 DEF Tokens
  <2>2. ASSUME NEW t \in Tokens(run'), t[1] # w
        PROVE  t \in T
    BY <2>2, TokensKept
  <2> QED BY <2>1, <2>2
<1>4. IsFiniteSet(M) /\ Cardinality(M) = Left(run'[w])
  <2>1. IsFiniteSet(1 .. Left(run'[w])) /\ Cardinality(1 .. Left(run'[w])) = Left(run'[w])
    BY <1>1, FS_Interval
  <2>2. IsFiniteSet({w}) /\ Cardinality({w}) = 1
    BY FS_Singleton
  <2>3. IsFiniteSet(M) /\ Cardinality(M) = Cardinality({w}) * Cardinality(1 .. Left(run'[w]))
    BY <2>1, <2>2, FS_Product
  <2> QED BY <1>1, <2>1, <2>2, <2>3
<1>5. /\ IsFiniteSet(T) /\ Cardinality(T) \in Nat
      /\ Cardinality(T) + Cardinality(Senders(w)) <= (Cardinality(Workers) - 1) * DailyLimit
  BY OthersRoom
<1> HIDE DEF T, M
<1>6. Cardinality(Tokens(run')) <= Cardinality(T) + Left(run'[w])
  <2>1. IsFiniteSet(T \cup M) /\ Cardinality(T \cup M) = Cardinality(T) + Cardinality(M) - Cardinality(T \cap M)
    BY <1>4, <1>5, FS_Union
  <2>2. Cardinality(T \cap M) \in Nat
    BY <1>5, FS_Intersection, FS_CardinalityType
  <2>3. Cardinality(Tokens(run')) <= Cardinality(T \cup M)
    BY <1>3, <2>1, FS_Subset
  <2> QED BY <1>1, <1>4, <1>5, <2>1, <2>2, <2>3, FitTyped
<1>7. Cardinality(R) <= Cardinality(SentToday(w)) + Cardinality(Senders(w))
  <2> DEFINE A == SentToday(w)
             B == TheirSends(w)
  <2>1. IsFiniteSet(A) /\ Cardinality(A) \in Nat
    BY OnRecordTyped
  <2>2. /\ IsFiniteSet(B) /\ Cardinality(B) \in Nat /\ Cardinality(B) <= Cardinality(Senders(w))
        /\ Cardinality(Senders(w)) \in Nat
    BY SendersSendOne
  <2> HIDE DEF A, B, R
  <2>3. IsFiniteSet(A \cup B) /\ Cardinality(A \cup B) = Cardinality(A) + Cardinality(B) - Cardinality(A \cap B)
    BY <2>1, <2>2, FS_Union
  <2>4. Cardinality(A \cap B) \in Nat
    BY <2>1, FS_Intersection, FS_CardinalityType
  <2>5. Cardinality(R) <= Cardinality(A \cup B)
    <3>1. R \in SUBSET (A \cup B)
      BY <1>2 DEF A, B
    <3> QED BY <2>3, <3>1, FS_Subset
  <2>6. Cardinality(R) \in Nat
    BY FitTyped DEF R
  <2> QED BY <2>1, <2>2, <2>3, <2>4, <2>5, <2>6 DEF A
<1>8. (Cardinality(Workers) - 1) * DailyLimit + DailyLimit = Cardinality(Workers) * DailyLimit
      /\ (Cardinality(Workers) - 1) * DailyLimit \in Int
  BY <1>1, OneMore
<1> DEFINE K == (Cardinality(Workers) - 1) * DailyLimit
<1>9. Cardinality(R) \in Nat /\ Cardinality(Tokens(run')) \in Nat /\ Cardinality(SentToday(w)) \in Nat
      /\ Cardinality(Senders(w)) \in Nat
  BY FitTyped, OnRecordTyped, SendersSendOne
<1>10. Cardinality(R) + Cardinality(Tokens(run')) <= K + DailyLimit
  <2>1. K \in Int /\ Cardinality(T) + Cardinality(Senders(w)) <= K
    BY <1>5, <1>8
  <2> HIDE DEF K, R
  <2> QED BY <1>1, <1>5, <1>6, <1>7, <1>9, <2>1
<1> QED BY <1>8, <1>10 DEF DayFits

(***************************************************************************)
(* The limit of a restaurant                                               *)
(***************************************************************************)

RestaurantFits(r) ==
    Cardinality(OfRestaurant(OnRecord(counted, run), r)) + Cardinality(InHand(run, r))
       <= RestaurantLimit + 2 * (Cardinality(Workers) - 1)

LEMMA RestaurantTyped ==
    ASSUME RunsAssumption, SoundPasses, SoundPasses', NEW r
    PROVE  /\ IsFiniteSet(OfRestaurant(OnRecord(counted, run), r))
           /\ Cardinality(OfRestaurant(OnRecord(counted, run), r)) \in Nat
           /\ IsFiniteSet(OfRestaurant(OnRecord(counted', run'), r))
           /\ Cardinality(OfRestaurant(OnRecord(counted', run'), r)) \in Nat
           /\ IsFiniteSet(InHand(run, r)) /\ Cardinality(InHand(run, r)) \in Nat
           /\ IsFiniteSet(InHand(run', r)) /\ Cardinality(InHand(run', r)) \in Nat
           /\ Cardinality(InHand(run', r)) <= Cardinality(Workers)
           /\ RestaurantLimit \in Nat /\ Cardinality(Workers) \in Nat \ {0}
<1>1. OfRestaurant(OnRecord(counted, run), r) \in SUBSET Cases
      /\ OfRestaurant(OnRecord(counted', run'), r) \in SUBSET Cases
  BY FitTyped DEF OfRestaurant
<1>2. InHand(run, r) \in SUBSET Workers /\ InHand(run', r) \in SUBSET Workers
  BY DEF InHand
<1> QED BY <1>1, <1>2, SubsetsOfCases, WorkersCounted DEF RunsAssumption

(* Nothing more on record, and no other case in hand. *)
LEMMA RestaurantCalm ==
    ASSUME RunsAssumption, SoundPasses, SoundPasses', NEW r, RestaurantFits(r),
           NEW w \in Workers, Moves(w),
           counted' \subseteq SentToday(w), Sent(run'[w]) \subseteq SentToday(w),
           w \in InHand(run', r) => w \in InHand(run, r)
    PROVE  RestaurantFits(r)'
<1> DEFINE A == OfRestaurant(OnRecord(counted, run), r)
           B == OfRestaurant(OnRecord(counted', run'), r)
<1>1. B \in SUBSET A
  <2>1. /\ counted' \subseteq SentToday(w) \cup {}
        /\ Sent(run'[w]) \subseteq SentToday(w) \cup {}
    OBVIOUS
  <2>2. OnRecord(counted', run') \subseteq OnRecord(counted, run) \cup {}
    BY <2>1, RecordGrows
  <2> QED BY <2>2 DEF OfRestaurant
<1>2. InHand(run', r) \in SUBSET InHand(run, r)
  <2> SUFFICES ASSUME NEW v \in InHand(run', r), v # w
               PROVE  v \in InHand(run, r)
    OBVIOUS
  <2> QED BY OthersStay DEF InHand
<1>3. Cardinality(B) <= Cardinality(A)
      /\ Cardinality(InHand(run', r)) <= Cardinality(InHand(run, r))
  BY <1>1, <1>2, RestaurantTyped, FS_Subset
<1> QED BY <1>3, RestaurantTyped DEF RestaurantFits

(* An email on record is no longer in hand. *)
LEMMA RestaurantAnswered ==
    ASSUME RunsAssumption, SoundPasses, SoundPasses', NEW r, RestaurantFits(r),
           NEW w \in Workers, Moves(w), NEW c \in Cases, Restaurant[c] = r,
           counted' \subseteq SentToday(w) \cup {c}, Sent(run'[w]) \subseteq SentToday(w) \cup {c},
           w \in InHand(run, r), w \notin InHand(run', r)
    PROVE  RestaurantFits(r)'
<1> DEFINE A == OfRestaurant(OnRecord(counted, run), r)
           B == OfRestaurant(OnRecord(counted', run'), r)
           H == InHand(run, r)
<1>1. B \in SUBSET (A \cup {c})
  <2>1. OnRecord(counted', run') \subseteq OnRecord(counted, run) \cup {c}
    BY RecordGrows
  <2> QED BY <2>1 DEF OfRestaurant
<1>2. InHand(run', r) \in SUBSET (H \ {w})
  <2> SUFFICES ASSUME NEW v \in InHand(run', r), v # w
               PROVE  v \in InHand(run, r)
    OBVIOUS
  <2> QED BY OthersStay DEF InHand
<1>3. /\ IsFiniteSet(A) /\ Cardinality(A) \in Nat /\ Cardinality(B) \in Nat
      /\ IsFiniteSet(H) /\ Cardinality(H) \in Nat /\ Cardinality(InHand(run', r)) \in Nat
      /\ RestaurantLimit \in Nat /\ Cardinality(Workers) \in Nat
  BY RestaurantTyped
<1>4. Cardinality(A) + Cardinality(H) <= RestaurantLimit + 2 * (Cardinality(Workers) - 1)
  BY DEF RestaurantFits
<1> HIDE DEF A, B, H
<1>5. Cardinality(B) <= Cardinality(A) + 1
  <2>1. IsFiniteSet(A \cup {c})
        /\ Cardinality(A \cup {c}) = IF c \in A THEN Cardinality(A) ELSE Cardinality(A) + 1
    BY <1>3, FS_AddElement
  <2>2. Cardinality(B) <= Cardinality(A \cup {c})
    BY <1>1, <2>1, FS_Subset
  <2> QED BY <1>3, <2>1, <2>2
<1>6. Cardinality(InHand(run', r)) <= Cardinality(H) - 1
  <2>1. IsFiniteSet(H \ {w}) /\ Cardinality(H \ {w}) = Cardinality(H) - 1
    BY <1>3, FS_RemoveElement DEF H
  <2>2. Cardinality(InHand(run', r)) <= Cardinality(H \ {w})
    BY <1>2, <2>1, FS_Subset
  <2> QED BY <2>1, <2>2
<1>7. Cardinality(B) + Cardinality(InHand(run', r))
        <= RestaurantLimit + 2 * (Cardinality(Workers) - 1)
  BY <1>3, <1>4, <1>5, <1>6
<1> QED BY <1>7 DEF RestaurantFits, B

(* A pass that reads the restaurant's count below its limit misses at most  *)
(* one email of each other pass, on record or in hand.                     *)
LEMMA RestaurantRead ==
    ASSUME RunsAssumption, SoundPasses, SoundPasses', NEW r, NEW w \in Workers, Moves(w),
           counted' = counted, Sent(run'[w]) = Sent(run[w]),
           Cardinality(OfRestaurant(SentToday(w), r)) < RestaurantLimit
    PROVE  RestaurantFits(r)'
<1> DEFINE A == OfRestaurant(SentToday(w), r)
           B == OfRestaurant(OnRecord(counted', run'), r)
           D == TheirSends(w)
<1>1. B \in SUBSET (A \cup D)
  <2>1. /\ counted' \subseteq SentToday(w) \cup {}
        /\ Sent(run'[w]) \subseteq SentToday(w) \cup {}
    BY OwnSentIsSent
  <2>2. OnRecord(counted', run') \subseteq OnRecord(counted, run) \cup {}
    BY <2>1, RecordGrows
  <2>3. OnRecord(counted', run') \subseteq SentToday(w) \cup TheirSends(w)
    BY <2>2, SendersSendOne
  <2> QED BY <2>3 DEF OfRestaurant
<1>2. IsFiniteSet(A) /\ Cardinality(A) \in Nat
  <2>1. A \in SUBSET Cases
    BY OnRecordTyped DEF OfRestaurant
  <2> QED BY <2>1, SubsetsOfCases
<1>3. IsFiniteSet(D) /\ Cardinality(D) \in Nat /\ Cardinality(D) <= Cardinality(Workers) - 1
  <2>1. /\ IsFiniteSet(D) /\ Cardinality(D) \in Nat /\ Cardinality(D) <= Cardinality(Senders(w))
        /\ Cardinality(Senders(w)) \in Nat /\ Cardinality(Senders(w)) <= Cardinality(Workers) - 1
    BY SendersSendOne
  <2>2. Cardinality(Workers) \in Nat
    BY WorkersCounted
  <2> HIDE DEF D
  <2> QED BY <2>1, <2>2
<1>4. /\ Cardinality(B) \in Nat /\ Cardinality(InHand(run', r)) \in Nat
      /\ Cardinality(InHand(run', r)) <= Cardinality(Workers)
      /\ RestaurantLimit \in Nat /\ Cardinality(Workers) \in Nat
  BY RestaurantTyped
<1>5. Cardinality(A) < RestaurantLimit
  OBVIOUS
<1> HIDE DEF A, B, D
<1>6. Cardinality(B) <= Cardinality(A) + Cardinality(D)
  <2>1. IsFiniteSet(A \cup D) /\ Cardinality(A \cup D) = Cardinality(A) + Cardinality(D) - Cardinality(A \cap D)
    BY <1>2, <1>3, FS_Union
  <2>2. Cardinality(A \cap D) \in Nat
    BY <1>2, FS_Intersection, FS_CardinalityType
  <2>3. Cardinality(B) <= Cardinality(A \cup D)
    BY <1>1, <2>1, FS_Subset
  <2> QED BY <1>2, <1>3, <1>4, <2>1, <2>2, <2>3
<1>7. Cardinality(B) + Cardinality(InHand(run', r))
        <= RestaurantLimit + 2 * (Cardinality(Workers) - 1)
  BY <1>2, <1>3, <1>4, <1>5, <1>6
<1> QED BY <1>7 DEF RestaurantFits, B

(***************************************************************************)
(* The steps keep the limits                                               *)
(***************************************************************************)

(* A step that sends nothing, reads no count and takes up no case. *)
LEMMA CalmStep ==
    ASSUME RunsAssumption, IInv, SoundPasses', NEW w \in Workers, Moves(w),
           counted' \subseteq SentToday(w), Sent(run'[w]) \subseteq SentToday(w),
           Left(run'[w]) <= Left(run[w]),
           run'[w].at \in Chosen => run[w].at \in Chosen
                                    /\ Head(run'[w].todo) = Head(run[w].todo)
    PROVE  IInv'
<1>1. SoundPasses /\ DayFits /\ \A r \in Restaurants : RestaurantFits(r)
  BY DEF IInv, RestaurantsFit, RestaurantFits
<1>2. DayFits'
  BY <1>1, DayCalm
<1>3. ASSUME NEW r \in Restaurants
      PROVE  RestaurantFits(r)'
  <2>1. w \in InHand(run', r) => w \in InHand(run, r)
    BY DEF InHand
  <2> QED BY <1>1, <2>1, RestaurantCalm
<1>4. RestaurantsFit'
  BY <1>3 DEF RestaurantsFit, RestaurantFits
<1> QED BY <1>2, <1>4 DEF IInv

LEMMA BeginKeeps ==
    ASSUME RunsAssumption, IInv, NEW w \in Workers, Begin(w)
    PROVE  IInv'
<1>1. SoundPasses
  BY DEF IInv
<1>2. counted' = counted /\ counted \subseteq SentToday(w)
  BY DEF Begin, BeginWorker, BeginRun, BeginResume, SentToday
<1>3. /\ Moves(w) /\ Sent(run'[w]) = {} /\ Left(run'[w]) = 0 /\ run'[w].at \notin Chosen
      /\ SoundPasses'
  <2>1. CASE \E S \in SUBSET Asked : BeginWorker(w, S)
    <3>1. SoundPasses'
      BY <1>1, <2>1, RepairSound
    <3>2. PICK order \in {<<"followups", "appeals">>, <<"appeals", "followups">>} :
            Step(w, [Idle EXCEPT !.at = "lane", !.lanes = order])
      BY <2>1 DEF BeginWorker
    <3>3. order \in Seq(Lanes)
      <4>1. "followups" \in Lanes /\ "appeals" \in Lanes
        BY DEF Lanes
      <4>2. <<"followups", "appeals">> \in Seq(Lanes) /\ <<"appeals", "followups">> \in Seq(Lanes)
        BY <4>1
      <4> QED BY <4>2
    <3> QED BY <1>1, <3>1, <3>2, <3>3, StartRow DEF Chosen
  <2>2. CASE \E l \in Lanes : BeginRun(w, l)
    <3>1. PICK l \in Lanes : BeginRun(w, l)
      BY <2>2
    <3>2. <<l>> \in Seq(Lanes)
      OBVIOUS
    <3>3. Step(w, [Idle EXCEPT !.at = "lane", !.lanes = <<l>>])
      BY <3>1 DEF BeginRun
    <3>4. SoundPasses'
      BY <1>1, <2>2, QuietSteps
    <3> QED BY <1>1, <3>2, <3>3, <3>4, StartRow DEF Chosen
  <2>3. CASE \E a \in Accounts : BeginResume(w, a)
    <3>1. SoundPasses'
      BY <1>1, <2>3, QuietSteps
    <3> QED BY <1>1, <2>3, <3>1, ResumeRow DEF Chosen
  <2> QED BY <2>1, <2>2, <2>3 DEF Begin
<1>4. Left(run'[w]) <= Left(run[w])
  BY <1>1, <1>3, RowParts, LeftTyped
<1> QED BY <1>2, <1>3, <1>4, CalmStep

(* A lane reads the count of the day. *)
LEMMA LaneKeeps ==
    ASSUME RunsAssumption, IInv, NEW w \in Workers, BeginLane(w)
    PROVE  IInv'
<1> DEFINE g == Cardinality(SentToday(w))
<1>1. SoundPasses /\ \A r \in Restaurants : RestaurantFits(r)
  BY DEF IInv, RestaurantsFit, RestaurantFits
<1>2. SoundPasses'
  BY <1>1, QuietSteps
<1>3. /\ Moves(w) /\ Sent(run'[w]) = Sent(run[w]) /\ run'[w].at = "consider"
      /\ run'[w].single = FALSE /\ run'[w].global = g
  BY <1>1, LaneRow
<1>4. counted' = counted
  BY DEF BeginLane
<1>5. counted' \subseteq SentToday(w) /\ Sent(run'[w]) \subseteq SentToday(w)
  BY <1>3, <1>4, OwnSentIsSent
<1>6. g \in Nat /\ DailyLimit \in Nat
  BY <1>1, OnRecordTyped DEF RunsAssumption
<1>7. CASE g <= DailyLimit
  <2>1. g + Left(run'[w]) <= DailyLimit
    <3> HIDE DEF g
    <3> QED BY <1>3, <1>6, <1>7 DEF Left
  <2>2. DayFits'
    BY <1>1, <1>2, <1>3, <1>4, <2>1, DayRead
  <2>3. ASSUME NEW r \in Restaurants
        PROVE  RestaurantFits(r)'
    <3>1. w \notin InHand(run', r)
      BY <1>3 DEF InHand, Chosen
    <3> QED BY <1>1, <1>2, <1>3, <1>5, <3>1, RestaurantCalm
  <2>4. RestaurantsFit'
    BY <2>3 DEF RestaurantsFit, RestaurantFits
  <2> QED BY <1>2, <2>2, <2>4 DEF IInv
<1>8. CASE ~(g <= DailyLimit)
  <2>1. Left(run'[w]) = 0
    <3> HIDE DEF g
    <3> QED BY <1>3, <1>6, <1>8 DEF Left
  <2>2. Left(run'[w]) <= Left(run[w])
    BY <1>1, <2>1, RowParts, LeftTyped
  <2> QED BY <1>2, <1>3, <1>5, <2>2, CalmStep DEF Chosen
<1> QED BY <1>7, <1>8

(* A case that is chosen has room in its restaurant as the pass sees it. *)
LEMMA ConsiderKeeps ==
    ASSUME RunsAssumption, IInv, NEW w \in Workers, NEW c \in Cases, Consider(w, c)
    PROVE  IInv'
<1>1. SoundPasses /\ DayFits /\ \A r \in Restaurants : RestaurantFits(r)
  BY DEF IInv, RestaurantsFit, RestaurantFits
<1>2. SoundPasses'
  BY <1>1, QuietSteps
<1>3. /\ Moves(w) /\ Sent(run'[w]) = Sent(run[w]) /\ run[w].at = "consider"
      /\ run'[w].at = "chosen" /\ Head(run'[w].todo) = c
      /\ run'[w].single = run[w].single /\ run'[w].global = run[w].global
  BY <1>1, ChosenRow
<1>4. counted' = counted /\ LimitAllows(w, c)
  BY DEF Consider, MayTry
<1>5. counted' \subseteq SentToday(w) /\ Sent(run'[w]) \subseteq SentToday(w)
  BY <1>3, <1>4, OwnSentIsSent
<1>6. DayFits'
  <2>1. CASE run[w].single
    <3>1. Cardinality(SentToday(w)) < DailyLimit
      BY <1>4, <2>1 DEF LimitAllows
    <3>2. Left(run'[w]) = 1
      BY <1>3, <2>1 DEF Left, Chosen
    <3>3. Cardinality(SentToday(w)) + Left(run'[w]) <= DailyLimit
      BY <1>1, <3>1, <3>2, OnRecordTyped DEF RunsAssumption
    <3> QED BY <1>1, <1>2, <1>3, <1>4, <3>3, DayRead
  <2>2. CASE ~run[w].single
    <3>1. Left(run'[w]) = Left(run[w])
      BY <1>3, <2>2 DEF Left, Chosen
    <3>2. Left(run'[w]) <= Left(run[w])
      BY <1>1, <3>1, RowParts, LeftTyped
    <3> QED BY <1>1, <1>2, <1>3, <1>5, <3>2, DayCalm
  <2> QED BY <2>1, <2>2
<1>7. ASSUME NEW r \in Restaurants
      PROVE  RestaurantFits(r)'
  <2>1. CASE r = Restaurant[c]
    <3> DEFINE n == Cardinality(OfRestaurant(SentToday(w), r))
    <3>1. n + run[w].mine[r] < RestaurantLimit
      BY <1>4, <2>1 DEF LimitAllows
    <3>2. run[w].mine[r] \in Nat /\ RestaurantLimit \in Nat
      BY <1>1, RowParts DEF RunsAssumption
    <3>3. n \in Nat
      <4>1. OfRestaurant(SentToday(w), r) \in SUBSET Cases
        BY <1>1, OnRecordTyped DEF OfRestaurant
      <4> QED BY <4>1, SubsetsOfCases
    <3>4. n < RestaurantLimit
      <4> HIDE DEF n
      <4> QED BY <3>1, <3>2, <3>3
    <3> QED BY <1>1, <1>2, <1>3, <1>4, <3>4, RestaurantRead
  <2>2. CASE r # Restaurant[c]
    <3>1. w \notin InHand(run', r)
      BY <1>3, <2>2 DEF InHand
    <3> QED BY <1>1, <1>2, <1>3, <1>5, <3>1, RestaurantCalm
  <2> QED BY <2>1, <2>2
<1>8. RestaurantsFit'
  BY <1>7 DEF RestaurantsFit, RestaurantFits
<1> QED BY <1>2, <1>6, <1>8 DEF IInv

(* What a pass sends was in its hand, and counted on. *)
LEMMA AnswerKeeps ==
    ASSUME RunsAssumption, IInv, NEW w \in Workers, NEW c \in Cases, Answer(w, c)
    PROVE  IInv'
<1>1. SoundPasses /\ DayFits /\ \A r \in Restaurants : RestaurantFits(r)
  BY DEF IInv, RestaurantsFit, RestaurantFits
<1>2. SoundPasses'
  BY <1>1, AnswerSound
<1>3. run[w].at = "call" /\ c = Head(run[w].todo)
  BY DEF Answer
<1>4. /\ run[w].at \in Chosen /\ SentToday(w) = counted /\ run[w].single \in BOOLEAN
      /\ run[w].single => Left(run[w]) = 1
      /\ ~run[w].single => Left(run[w]) = DailyLimit - run[w].global
      /\ DailyLimit \in Nat \ {0} /\ run[w].global \in Nat
  BY <1>1, <1>3, CallRow
<1>5. /\ Moves(w) /\ run'[w].at \notin Chosen /\ Left(run'[w]) + 1 <= Left(run[w])
      /\ counted' \subseteq counted \cup {c} /\ Sent(run'[w]) \subseteq {c}
  <2>1. CASE run[w].single
    <3>1. Step(w, Idle) /\ counted' = counted \cup {c}
      BY <2>1 DEF Answer, AfterCall
    <3>2. /\ Moves(w) /\ Sent(run'[w]) = {} /\ Left(run'[w]) = 0 /\ run'[w].at \notin Chosen
      BY <1>1, <3>1, StoppedRow
    <3> QED BY <1>4, <2>1, <3>1, <3>2
  <2>2. CASE ~run[w].single
    BY <1>1, <2>2, AnsweredRow
  <2> QED BY <2>1, <2>2
<1>6. counted' \subseteq SentToday(w) \cup {c} /\ Sent(run'[w]) \subseteq SentToday(w) \cup {c}
  BY <1>4, <1>5
<1>7. Left(run[w]) <= DailyLimit
  BY <1>4
<1>8. DayFits'
  BY <1>1, <1>2, <1>5, <1>6, <1>7, DayAnswered
<1>9. ASSUME NEW r \in Restaurants
      PROVE  RestaurantFits(r)'
  <2>1. w \notin InHand(run', r)
    BY <1>5 DEF InHand
  <2>2. CASE r = Restaurant[c]
    <3>1. w \in InHand(run, r)
      BY <1>3, <1>4, <2>2 DEF InHand
    <3> QED BY <1>1, <1>2, <1>5, <1>6, <2>1, <2>2, <3>1, RestaurantAnswered
  <2>3. CASE r # Restaurant[c]
    <3> DEFINE A == OfRestaurant(OnRecord(counted, run), r)
               B == OfRestaurant(OnRecord(counted', run'), r)
    <3>1. B \in SUBSET A
      <4>1. OnRecord(counted', run') \subseteq OnRecord(counted, run) \cup {c}
        BY <1>1, <1>5, <1>6, RecordGrows
      <4> QED BY <2>3, <4>1 DEF OfRestaurant
    <3>2. InHand(run', r) \in SUBSET InHand(run, r)
      <4> SUFFICES ASSUME NEW v \in InHand(run', r), v # w
                   PROVE  v \in InHand(run, r)
        BY <2>1
      <4> QED BY <1>1, <1>5, OthersStay DEF InHand
    <3>3. Cardinality(B) <= Cardinality(A)
          /\ Cardinality(InHand(run', r)) <= Cardinality(InHand(run, r))
      BY <1>1, <1>2, <3>1, <3>2, RestaurantTyped, FS_Subset
    <3> QED BY <1>1, <1>2, <3>3, RestaurantTyped DEF RestaurantFits
  <2> QED BY <2>2, <2>3
<1>10. RestaurantsFit'
  BY <1>9 DEF RestaurantsFit, RestaurantFits
<1> QED BY <1>2, <1>8, <1>10 DEF IInv

LEMMA FailuresKeep ==
    ASSUME RunsAssumption, IInv, NEW w \in Workers, NEW c \in Cases,
           AnswerFails(w, c) \/ AnswerDefers(w, c)
    PROVE  IInv'
<1>1. SoundPasses
  BY DEF IInv
<1>2. SoundPasses'
  BY <1>1, FailuresSound
<1>3. run[w].at = "call" /\ c = Head(run[w].todo)
  BY DEF AnswerFails, AnswerDefers
<1>4. PICK status \in {"failed", "provider_draft_created"}, used \in SUBSET Accounts :
        AfterCall(w, c, status, [Wrote(w, c, status) EXCEPT !.used = used])
  BY <1>1, <1>3, FailureWritten
<1>5. status # "sent"
  OBVIOUS
<1>6. counted' = counted
  BY <1>4, <1>5 DEF AfterCall
<1>7. Moves(w) /\ Sent(run'[w]) = {} /\ Left(run'[w]) <= Left(run[w]) /\ run'[w].at \notin Chosen
  <2>1. CASE run[w].single
    <3>1. Step(w, Idle)
      BY <1>4, <2>1 DEF AfterCall
    <3>2. Left(run[w]) = 1
      BY <1>1, <1>3, <2>1, CallRow
    <3> QED BY <1>1, <3>1, <3>2, StoppedRow
  <2>2. CASE ~run[w].single
    <3>1. Step(w, [Wrote(w, c, status) EXCEPT !.used = used])
      BY <1>4, <2>2 DEF AfterCall
    <3> QED BY <1>1, <1>3, <2>2, <3>1, FailedRow
  <2> QED BY <2>1, <2>2
<1>8. counted' \subseteq SentToday(w)
  BY <1>6 DEF SentToday
<1> QED BY <1>2, <1>7, <1>8, CalmStep

(* The other steps of a pass send nothing and take up no case.             *)
LEMMA CalmSteps ==
    ASSUME RunsAssumption, IInv, NEW w \in Workers,
           \/ PassOver(w) \/ NotRequested(w) \/ EndLane(w) \/ EndPass(w) \/ Die(w)
           \/ \E c \in Cases : Preflight(w, c) \/ Request(w, c)
    PROVE  IInv'
<1>1. SoundPasses
  BY DEF IInv
<1>2. SoundPasses'
  BY <1>1, QuietSteps, EndSound, DeathSound, CheckSound, RequestSound
<1>3. counted \subseteq SentToday(w) /\ Sent(run[w]) \subseteq SentToday(w) /\ Left(run[w]) \in Nat
  BY <1>1, OwnSentIsSent, RowParts, LeftTyped
<1>4. counted' \subseteq SentToday(w)
  BY <1>3 DEF PassOver, NotRequested, EndLane, EndPass, Commit, Die, Preflight, Request
<1>5. /\ Moves(w) /\ Sent(run'[w]) \subseteq SentToday(w) /\ Left(run'[w]) <= Left(run[w])
      /\ run'[w].at \in Chosen => run[w].at \in Chosen
                                  /\ Head(run'[w].todo) = Head(run[w].todo)
  <2>1. CASE PassOver(w)
    <3>1. /\ Moves(w) /\ Sent(run'[w]) = Sent(run[w]) /\ Left(run'[w]) <= Left(run[w])
          /\ run'[w].at = "consider"
      BY <1>1, <2>1, PassedOver
    <3> QED BY <1>3, <3>1 DEF Chosen
  <2>2. CASE NotRequested(w)
    <3>1. /\ Moves(w) /\ Sent(run'[w]) = {} /\ Left(run'[w]) <= Left(run[w])
          /\ run'[w].at \notin Chosen
      BY <1>1, <2>2, NotRequestedRow
    <3> QED BY <3>1
  <2>3. CASE EndLane(w)
    <3>1. /\ Moves(w) /\ Sent(run'[w]) \subseteq Sent(run[w]) /\ Left(run'[w]) = 0
          /\ run'[w].at \notin Chosen
      BY <1>1, <2>3, EndedLaneRow
    <3> QED BY <1>3, <3>1
  <2>4. CASE EndPass(w) \/ Die(w)
    <3>1. Step(w, Idle)
      BY <2>4 DEF EndPass, Die
    <3>2. /\ Moves(w) /\ Sent(run'[w]) = {} /\ Left(run'[w]) = 0 /\ run'[w].at \notin Chosen
      BY <1>1, <3>1, StoppedRow
    <3> QED BY <1>3, <3>2
  <2>5. CASE \E c \in Cases : Preflight(w, c)
    <3>1. /\ Moves(w) /\ Sent(run'[w]) = {} /\ Left(run'[w]) <= Left(run[w])
          /\ run'[w].at \in Chosen => run[w].at \in Chosen
                                      /\ Head(run'[w].todo) = Head(run[w].todo)
      BY <1>1, <2>5, CheckedRow
    <3> QED BY <3>1
  <2>6. CASE \E c \in Cases : Request(w, c)
    <3>1. /\ Moves(w) /\ Sent(run'[w]) = {} /\ Left(run'[w]) <= Left(run[w])
          /\ run[w].at \in Chosen /\ Head(run'[w].todo) = Head(run[w].todo)
      BY <1>1, <2>6, RequestedRow
    <3> QED BY <3>1
  <2> QED BY <2>1, <2>2, <2>3, <2>4, <2>5, <2>6
<1> QED BY <1>2, <1>4, <1>5, CalmStep

LEMMA AgingKeeps ==
    ASSUME IInv, NEW c \in Cases, GoStale(c)
    PROVE  IInv'
<1>1. SoundPasses'
  BY AgingSound DEF IInv
<1>2. counted' = counted /\ run' = run
  BY DEF GoStale
<1> QED BY <1>1, <1>2 DEF IInv, DayFits, RestaurantsFit, OfRestaurant, OnRecord, Tokens, InHand

LEMMA IdleKeeps ==
    ASSUME IInv, UNCHANGED vars
    PROVE  IInv'
<1>1. draft' = draft /\ stale' = stale /\ mailed' = mailed /\ counted' = counted /\ run' = run
  BY DEF vars
<1>2. RowsTyped' /\ PassesOK' /\ HeldOnce' /\ Recorded'
  BY <1>1 DEF IInv, SoundPasses, RowsTyped, PassesOK, HeldOnce, Recorded
<1>3. DayFits' /\ RestaurantsFit'
  BY <1>1 DEF IInv, DayFits, RestaurantsFit
<1> QED BY <1>2, <1>3 DEF IInv, SoundPasses

LEMMA InitKeeps ==
    ASSUME RunsAssumption, Init
    PROVE  IInv
<1>1. /\ draft = [c \in Cases |-> "none"] /\ stale = {} /\ mailed = {} /\ counted = {}
      /\ run = [w \in Workers |-> Idle]
  BY DEF Init
<1>2. \A w \in Workers : run[w] = Idle
  BY <1>1
<1>3. RowsTyped /\ PassesOK
  BY <1>1, IdleRow DEF RowsTyped, PassesOK, SoundRow, DraftStatus
<1>4. HeldOnce /\ Recorded
  BY <1>1, <1>2, IdleRow DEF HeldOnce, Recorded
<1>5. OnRecord(counted, run) = {} /\ Tokens(run) = {} /\ \A r \in Restaurants : InHand(run, r) = {}
  <2>1. OnRecord(counted, run) = {}
    BY <1>1, <1>2, IdleRow DEF OnRecord
  <2>2. Tokens(run) = {}
    <3> SUFFICES ASSUME NEW t \in Tokens(run)
                 PROVE  FALSE
      OBVIOUS
    <3>1. Left(run[t[1]]) = 0
      BY <1>2, IdleRow DEF Tokens
    <3> QED BY <3>1 DEF Tokens, RunsAssumption
  <2>3. \A r \in Restaurants : InHand(run, r) = {}
    BY <1>2, IdleRow DEF InHand, Chosen
  <2> QED BY <2>1, <2>2, <2>3
<1>6. Cardinality(Workers) \in Nat \ {0} /\ DailyLimit \in Nat /\ RestaurantLimit \in Nat
  BY WorkersCounted DEF RunsAssumption
<1>7. Cardinality(Workers) * DailyLimit >= 0
  BY <1>6
<1>8. DayFits
  <2>1. Cardinality(OnRecord(counted, run)) = 0 /\ Cardinality(Tokens(run)) = 0
    BY <1>5, FS_EmptySet
  <2> QED BY <1>7, <2>1 DEF DayFits
<1>9. RestaurantsFit
  <2> SUFFICES ASSUME NEW r \in Restaurants
               PROVE  Cardinality(OfRestaurant(OnRecord(counted, run), r)) + Cardinality(InHand(run, r))
                        <= RestaurantLimit + 2 * (Cardinality(Workers) - 1)
    BY DEF RestaurantsFit
  <2>1. OfRestaurant(OnRecord(counted, run), r) = {} /\ InHand(run, r) = {}
    BY <1>5 DEF OfRestaurant
  <2>2. /\ Cardinality(OfRestaurant(OnRecord(counted, run), r)) = 0
        /\ Cardinality(InHand(run, r)) = 0
    BY <2>1, FS_EmptySet
  <2> QED BY <1>6, <2>2
<1> QED BY <1>3, <1>4, <1>8, <1>9 DEF IInv, SoundPasses

(***************************************************************************)
(* The theorems                                                            *)
(***************************************************************************)

(* Every pass is sound and the limits leave room for what is in flight, in *)
(* every state the passes reach.                                           *)
THEOREM Inductive == Spec => []IInv
<1>1. Init => IInv
  BY RunsAssumption, InitKeeps
<1>2. IInv /\ [Next]_vars => IInv'
  <2> SUFFICES ASSUME IInv, [Next]_vars
               PROVE  IInv'
    OBVIOUS
  <2> USE RunsAssumption
  <2>1. ASSUME NEW w \in Workers, Begin(w)
        PROVE  IInv'
    BY <2>1, BeginKeeps
  <2>2. ASSUME NEW w \in Workers, Work(w)
        PROVE  IInv'
    <3>1. CASE BeginLane(w)
      BY <3>1, LaneKeeps
    <3>2. CASE PassOver(w) \/ NotRequested(w) \/ EndLane(w) \/ EndPass(w)
      BY <3>2, CalmSteps
    <3>3. ASSUME NEW c \in Cases, Consider(w, c)
          PROVE  IInv'
      BY <3>3, ConsiderKeeps
    <3>4. ASSUME NEW c \in Cases, Preflight(w, c) \/ Request(w, c)
          PROVE  IInv'
      BY <3>4, CalmSteps
    <3>5. ASSUME NEW c \in Cases, Answer(w, c)
          PROVE  IInv'
      BY <3>5, AnswerKeeps
    <3>6. ASSUME NEW c \in Cases, AnswerFails(w, c) \/ AnswerDefers(w, c)
          PROVE  IInv'
      BY <3>6, FailuresKeep
    <3> QED BY <2>2, <3>1, <3>2, <3>3, <3>4, <3>5, <3>6 DEF Work
  <2>3. ASSUME NEW w \in Workers, Die(w)
        PROVE  IInv'
    BY <2>3, CalmSteps
  <2>4. ASSUME NEW c \in Cases, GoStale(c)
        PROVE  IInv'
    BY <2>4, AgingKeeps
  <2>5. CASE UNCHANGED vars
    BY <2>5, IdleKeeps
  <2> QED BY <2>1, <2>2, <2>3, <2>4, <2>5 DEF Next
<1> QED BY <1>1, <1>2, PTL DEF Spec

(* Every variable keeps its type, a stale request is still a request, what *)
(* is counted left, and the counts of a pass stay within the due emails.   *)
THEOREM TypeCorrect == Spec => []RunsTypeOK
<1>1. IInv => RunsTypeOK
  <2> SUFFICES ASSUME IInv
               PROVE  RunsTypeOK
    OBVIOUS
  <2>1. SoundPasses /\ RowsTyped /\ Recorded
    BY DEF IInv, SoundPasses
  <2>2. ASSUME NEW w \in Workers
        PROVE  LET p == run[w]
               IN  /\ p.at \in {"idle", "lane", "consider", "chosen", "ready", "call"}
                   /\ ToSet(p.lanes) \subseteq Lanes /\ ToSet(p.todo) \subseteq Cases
                   /\ p.global \in 0 .. Cardinality(Cases)
                   /\ p.mine \in [Restaurants -> 0 .. Cardinality(Cases)]
                   /\ p.used \subseteq Accounts
                   /\ p.tries \in [Accounts -> 0 .. Preflights]
                   /\ p.wrote = Nothing \/ p.wrote \in Cases \X DraftStatus
                   /\ p.at \in {"chosen", "ready", "call"} => p.todo # <<>>
    <3> DEFINE p == run[w]
    <3>1. /\ p \in PassRow /\ PassOK(p) /\ CountsFit(p) /\ p.todo \in Seq(Cases)
          /\ p.lanes \in Seq(Lanes) /\ p.global \in Nat /\ p.mine \in [Restaurants -> Nat]
          /\ p.at \in Places /\ p.single \in BOOLEAN /\ Len(p.todo) \in Nat
      BY <2>1, RowParts, LenProperties
    <3>2. ToSet(p.lanes) \subseteq Lanes /\ ToSet(p.todo) \subseteq Cases
      <4>1. \A i \in 1 .. Len(p.lanes) : p.lanes[i] \in Lanes
        BY <3>1, ElementOfSeq
      <4>2. \A i \in 1 .. Len(p.todo) : p.todo[i] \in Cases
        BY <3>1, ElementOfSeq
      <4>3. DOMAIN p.lanes = 1 .. Len(p.lanes) /\ DOMAIN p.todo = 1 .. Len(p.todo)
        BY <3>1, LenProperties
      <4> QED BY <4>1, <4>2, <4>3 DEF ToSet
    <3>3. Cardinality(Cases) \in Nat
      BY RunsAssumption, SubsetsOfCases
    <3>4. p.global \in 0 .. Cardinality(Cases)
          /\ \A r \in Restaurants : p.mine[r] \in 0 .. Cardinality(Cases)
      <4>1. CASE p.single
        <5>1. p.global = 0 /\ \A r \in Restaurants : p.mine[r] = 0
          BY <3>1, <4>1 DEF CountsFit
        <5> QED BY <3>3, <5>1
      <4>2. CASE ~p.single
        <5>1. p.global + Len(p.todo) <= Cardinality(Cases)
              /\ \A r \in Restaurants : p.mine[r] + Len(p.todo) <= Cardinality(Cases) /\ p.mine[r] \in Nat
          BY <3>1, <4>2 DEF CountsFit
        <5> HIDE DEF p
        <5> QED BY <3>1, <3>3, <5>1
      <4> QED BY <4>1, <4>2
    <3>5. p.mine \in [Restaurants -> 0 .. Cardinality(Cases)]
      <4> HIDE DEF p
      <4> QED BY <3>1, <3>4
    <3> QED BY <2>1, <3>1, <3>2, <3>4, <3>5, RowParts DEF PassOK, Places, Chosen
  <2>3. stale \subseteq {c \in Cases : draft[c] = "send_requested"}
    BY <2>1 DEF RowsTyped, Recorded
  <2> QED BY <2>1, <2>2, <2>3 DEF RunsTypeOK, RowsTyped
<1> QED BY <1>1, Inductive, PTL

(* However the passes of the processes interleave, die and repair each     *)
(* other's requests, each process sends the limit of the day at most once  *)
(* over, and a restaurant's limit is passed by at most two emails of every *)
(* other process.                                                          *)
THEOREM LimitsKept == Spec => []LimitsHold
<1>1. IInv => LimitsHold
  <2> SUFFICES ASSUME IInv
               PROVE  LimitsHold
    OBVIOUS
  <2>1. counted \in SUBSET Cases /\ \A w \in Workers : Sent(run[w]) \in SUBSET Cases
    BY DEF IInv, SoundPasses, RowsTyped, Recorded
  <2>2. IsFiniteSet(OnRecord(counted, run)) /\ Cardinality(OnRecord(counted, run)) \in Nat
        /\ OnRecord(counted, run) \in SUBSET Cases
    BY <2>1, RunsAssumption, RecordFinite
  <2>3. counted \in SUBSET OnRecord(counted, run)
    BY DEF OnRecord
  <2>4. Cardinality(counted) <= Cardinality(OnRecord(counted, run)) /\ Cardinality(counted) \in Nat
    BY <2>1, <2>2, <2>3, FS_Subset, RunsAssumption, SubsetsOfCases
  <2>5. Cardinality(counted) <= Cardinality(Workers) * DailyLimit
    <3>1. Cardinality(Workers) \in Nat /\ DailyLimit \in Nat
      BY RunsAssumption, WorkersCounted
    <3>2. Cardinality(Workers) * DailyLimit \in Nat
      BY <3>1
    <3>3. Cardinality(OnRecord(counted, run)) + Cardinality(Tokens(run))
            <= Cardinality(Workers) * DailyLimit
      BY DEF IInv, DayFits
    <3>4. Cardinality(Tokens(run)) \in Nat
      BY RunsAssumption, TokensFinite
    <3> QED BY <2>2, <2>4, <3>2, <3>3, <3>4
  <2>6. ASSUME NEW r \in Restaurants
        PROVE  Cardinality(OfRestaurant(counted, r))
                 <= RestaurantLimit + 2 * (Cardinality(Workers) - 1)
    <3> DEFINE A == OfRestaurant(counted, r)
               B == OfRestaurant(OnRecord(counted, run), r)
    <3>1. A \in SUBSET B /\ B \in SUBSET Cases /\ A \in SUBSET Cases
      BY <2>1, <2>2, <2>3 DEF OfRestaurant
    <3>2. Cardinality(B) + Cardinality(InHand(run, r))
            <= RestaurantLimit + 2 * (Cardinality(Workers) - 1)
      BY DEF IInv, RestaurantsFit
    <3> HIDE DEF A, B
    <3>3. IsFiniteSet(B) /\ Cardinality(B) \in Nat /\ Cardinality(A) \in Nat
      BY <3>1, RunsAssumption, SubsetsOfCases
    <3>4. Cardinality(A) <= Cardinality(B)
      BY <3>1, <3>3, FS_Subset
    <3>5. Cardinality(InHand(run, r)) \in Nat /\ Cardinality(Workers) \in Nat
          /\ RestaurantLimit \in Nat
      <4>1. InHand(run, r) \in SUBSET Workers
        BY DEF InHand
      <4> QED BY <4>1, RunsAssumption, WorkersCounted DEF RunsAssumption
    <3>6. Cardinality(A) <= RestaurantLimit + 2 * (Cardinality(Workers) - 1)
      BY <3>2, <3>3, <3>4, <3>5
    <3> QED BY <3>6 DEF A
  <2> QED BY <2>5, <2>6 DEF LimitsHold
<1> QED BY <1>1, Inductive, PTL

(* A request under way belongs to one pass, which alone writes what comes   *)
(* of it: no other pass requests the case, and no repair takes it for stale. *)
THEOREM OneHolder == Spec => []HeldOnce
<1>1. IInv => HeldOnce
  BY DEF IInv, SoundPasses
<1> QED BY <1>1, Inductive, PTL
==============================================================================
