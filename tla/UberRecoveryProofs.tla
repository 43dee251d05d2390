------------------------- MODULE UberRecoveryProofs -------------------------
(***************************************************************************)
(* Proofs about what Uber reports and the claims that come of it, for      *)
(* every set of orders, stores, files, batches and workers.                *)
(***************************************************************************)
EXTENDS UberRecovery, SequenceTheorems, FiniteSetTheorems, WellFoundedInduction, TLAPS

(***************************************************************************)
(* Sums over finite sets                                                   *)
(***************************************************************************)

(* A finite set is reached from the empty one, an element at a time: so is  *)
(* what a fold of the community modules computes of it, whose recursion     *)
(* takes an element of the set away.                                       *)

(* A set of row numbers has a first one. *)
LEMMA FirstRow ==
    ASSUME NEW T \in SUBSET Nat, T # {}
    PROVE  \E x \in T : \A y \in T : x <= y
<1> DEFINE R == OpToRel(<, Nat)
<1>1. IsWellFoundedOn(R, Nat)
  BY NatLessThanWellFounded
<1>2. \A x, y \in Nat : <<y, x>> \in R <=> y < x
  BY DEF OpToRel
<1> HIDE DEF R
<1>3. PICK x \in T : \A y \in T : ~ (<<y, x>> \in R)
  BY <1>1, WFMin
<1>4. \A y \in T : ~ (y < x)
  <2> SUFFICES ASSUME NEW y \in T, y < x
               PROVE  FALSE
    OBVIOUS
  <2>1. x \in Nat /\ y \in Nat
    OBVIOUS
  <2> QED BY <1>2, <1>3, <2>1, Zenon
<1> QED BY <1>4

(* A set of numbers up to n has a last one. *)
LEMMA LastRow ==
    ASSUME NEW n \in Nat, NEW T \in SUBSET (1 .. n), T # {}
    PROVE  \E x \in T : \A y \in T : y <= x
<1> DEFINE U == {n - x : x \in T}
<1>1. U \in SUBSET Nat /\ U # {}
  <2>1. \A x \in T : n - x \in Nat
    OBVIOUS
  <2>2. PICK x : x \in T
    OBVIOUS
  <2>3. n - x \in U
    BY <2>2
  <2> QED BY <2>1, <2>3
<1>2. PICK u \in U : \A v \in U : u <= v
  BY <1>1, FirstRow
<1>3. PICK x \in T : u = n - x
  OBVIOUS
<1>4. \A y \in T : n - x <= n - y
  BY <1>2, <1>3
<1>5. \A y \in T : y <= x
  BY <1>4
<1> QED BY <1>5

(* A set of subsets of a finite set that has the empty one, and every one   *)
(* of which all that is left when an element goes belongs, has them all.    *)
LEMMA SubsetInduction ==
    ASSUME NEW S, IsFiniteSet(S),
           NEW T \in SUBSET (SUBSET S),
           {} \in T,
           \A s \in SUBSET S : s # {} /\ (\A x \in s : s \ {x} \in T) => s \in T
    PROVE  T = SUBSET S
<1> SUFFICES ASSUME T # SUBSET S
             PROVE  FALSE
  OBVIOUS
<1> DEFINE Sizes == {Cardinality(s) : s \in (SUBSET S) \ T}
<1>1. \A s \in SUBSET S : IsFiniteSet(s) /\ Cardinality(s) \in Nat
  BY FS_Subset, FS_CardinalityType
<1>2. Sizes \in SUBSET Nat /\ Sizes # {}
  <2>1. PICK s \in SUBSET S : s \notin T
    OBVIOUS
  <2> QED BY <1>1, <2>1
<1>3. PICK n \in Sizes : \A k \in Sizes : n <= k
  BY <1>2, FirstRow
<1>4. PICK s \in (SUBSET S) \ T : n = Cardinality(s)
  BY <1>3
<1>5. \A x \in s : s \ {x} \in T
  <2> SUFFICES ASSUME NEW x \in s, s \ {x} \notin T
               PROVE  FALSE
    OBVIOUS
  <2>1. Cardinality(s \ {x}) = Cardinality(s) - 1
    BY <1>1, FS_RemoveElement
  <2>2. Cardinality(s \ {x}) \in Sizes
    <3>1. s \ {x} \in (SUBSET S) \ T
      OBVIOUS
    <3> QED BY <3>1
  <2> HIDE DEF Sizes
  <2> QED BY <1>1, <1>2, <1>3, <1>4, <2>1, <2>2
<1> QED BY <1>4, <1>5

(* g folds G over every subset of S: it takes away the element ch[s] of a   *)
(* set s, and gives G of it and of what it computed of the others.          *)
FoldsBy(g, S, base, ch, G) ==
    \A s \in SUBSET S : g[s] = IF s = {} THEN base ELSE G[<<ch[s], g[s \ {ch[s]}]>>]

Picks(ch, S) == \A s \in SUBSET S : s # {} => ch[s] \in s

Keeps(G, S, V) == \A x \in S, v \in V : G[<<x, v>>] \in V

(* Over a finite set there is such a fold. *)
LEMMA FoldExists ==
    ASSUME NEW S, IsFiniteSet(S), NEW V, NEW base \in V, NEW ch, NEW G,
           Picks(ch, S), Keeps(G, S, V)
    PROVE  \E g \in [SUBSET S -> V] : FoldsBy(g, S, base, ch, G)
<1> USE DEF Picks, Keeps
<1> DEFINE Step(g, s) == IF s = {} THEN base ELSE G[<<ch[s], g[s \ {ch[s]}]>>]
           Good(g, n) == \A s \in SUBSET S : Cardinality(s) <= n => g[s] = Step(g, s)
           Bad == {n \in Nat : ~ \E g \in [SUBSET S -> V] : Good(g, n)}
<1>1. \A s \in SUBSET S : IsFiniteSet(s) /\ Cardinality(s) \in Nat /\ Cardinality(s) <= Cardinality(S)
  BY FS_Subset, FS_CardinalityType
<1>2. \A s \in SUBSET S : s # {} => Cardinality(s \ {ch[s]}) = Cardinality(s) - 1
  BY <1>1, FS_RemoveElement
<1>3. Bad = {}
  <2> SUFFICES ASSUME Bad # {}
               PROVE  FALSE
    OBVIOUS
  <2>1. PICK n \in Bad : \A k \in Bad : n <= k
    BY FirstRow
  <2>2. CASE n = 0
    <3> DEFINE g == [s \in SUBSET S |-> base]
    <3>1. g \in [SUBSET S -> V]
      OBVIOUS
    <3>2. \A s \in SUBSET S : Cardinality(s) <= 0 => s = {}
      BY <1>1, FS_EmptySet
    <3>3. Good(g, 0)
      BY <3>2
    <3> QED BY <2>2, <3>1, <3>3
  <2>3. CASE n # 0
    <3>1. n - 1 \in Nat /\ n - 1 \notin Bad
      <4>1. n \in Nat /\ Bad \subseteq Nat
        OBVIOUS
      <4> HIDE DEF Bad
      <4> QED BY <2>1, <2>3, <4>1
    <3>2. PICK g \in [SUBSET S -> V] : Good(g, n - 1)
      BY <3>1
    <3> DEFINE h == [s \in SUBSET S |-> Step(g, s)]
    <3>3. h \in [SUBSET S -> V]
      <4> SUFFICES ASSUME NEW s \in SUBSET S
                   PROVE  Step(g, s) \in V
        OBVIOUS
      <4>1. CASE s = {}
        BY <4>1
      <4>2. CASE s # {}
        <5>1. ch[s] \in S /\ g[s \ {ch[s]}] \in V
          BY <4>2
        <5> QED BY <4>2, <5>1
      <4> QED BY <4>1, <4>2
    <3>4. \A s \in SUBSET S : Cardinality(s) <= n - 1 => h[s] = g[s]
      BY <3>2
    <3>5. Good(h, n)
      <4> SUFFICES ASSUME NEW s \in SUBSET S, Cardinality(s) <= n, s # {}
                   PROVE  h[s] = Step(h, s)
        OBVIOUS
      <4> DEFINE r == s \ {ch[s]}
      <4>1. r \in SUBSET S /\ Cardinality(r) <= n - 1
        BY <1>1, <1>2
      <4>2. h[r] = g[r]
        BY <3>4, <4>1
      <4> QED BY <4>2
    <3> QED BY <2>1, <3>3, <3>5
  <2> QED BY <2>2, <2>3
<1>4. PICK g \in [SUBSET S -> V] : Good(g, Cardinality(S))
  BY <1>1, <1>3
<1> QED BY <1>1, <1>4 DEF FoldsBy

(* g adds up f over every subset of U. *)
Sums(g, f, U) ==
    /\ g \in [SUBSET U -> Nat]
    /\ g[{}] = 0
    /\ \A s \in SUBSET U : \A x \in s : g[s] = f[x] + g[s \ {x}]

(* Over a finite set there is a sum, whatever is added first. *)
LEMMA SumsExist ==
    ASSUME NEW U, IsFiniteSet(U), NEW f \in [U -> Nat]
    PROVE  \E g : Sums(g, f, U)
<1> DEFINE ch == [s \in SUBSET U |-> CHOOSE x \in s : TRUE]
           G == [q \in U \X Nat |-> f[q[1]] + q[2]]
<1>1. \A s \in SUBSET U : s # {} => ch[s] \in s
  OBVIOUS
<1>2. \A x \in U, v \in Nat : G[<<x, v>>] = f[x] + v /\ G[<<x, v>>] \in Nat
  OBVIOUS
<1>3. PICK g \in [SUBSET U -> Nat] : FoldsBy(g, U, 0, ch, G)
  <2>1. Picks(ch, U) /\ Keeps(G, U, Nat)
    BY <1>1, <1>2 DEF Picks, Keeps
  <2> HIDE DEF ch, G
  <2> QED BY <2>1, FoldExists
<1> HIDE DEF ch, G
<1>4. g[{}] = 0
  BY <1>3 DEF FoldsBy
<1>5. \A s \in SUBSET U : s # {} => g[s] = f[ch[s]] + g[s \ {ch[s]}]
  <2>1. \A s \in SUBSET U : s # {} => ch[s] \in U /\ g[s \ {ch[s]}] \in Nat
    BY <1>1
  <2> QED BY <1>2, <1>3, <2>1 DEF FoldsBy
<1> DEFINE T == {s \in SUBSET U : \A x \in s : g[s] = f[x] + g[s \ {x}]}
<1>6. ASSUME NEW s \in SUBSET U, s # {}, \A x \in s : s \ {x} \in T, NEW x \in s
      PROVE  g[s] = f[x] + g[s \ {x}]
  <2> DEFINE y == ch[s]
  <2>1. y \in s /\ g[s] = f[y] + g[s \ {y}]
    BY <1>1, <1>5, <1>6
  <2>2. CASE x = y
    BY <2>1, <2>2
  <2>3. CASE x # y
    <3>1. x \in s \ {y} /\ y \in s \ {x} /\ (s \ {y}) \ {x} = (s \ {x}) \ {y}
      BY <2>1, <2>3
    <3>2. g[s \ {y}] = f[x] + g[(s \ {y}) \ {x}]
      BY <1>6, <2>1, <3>1
    <3>3. g[s \ {x}] = f[y] + g[(s \ {x}) \ {y}]
      BY <1>6, <2>1, <3>1
    <3> DEFINE r == g[(s \ {x}) \ {y}]
    <3>4. f[x] \in Nat /\ f[y] \in Nat /\ r \in Nat
      BY <2>1
    <3>5. g[s] = f[y] + (f[x] + r)
      BY <2>1, <3>1, <3>2
    <3>6. g[s \ {x}] = f[y] + r
      BY <3>3
    <3> HIDE DEF y, r, T
    <3> QED BY <3>4, <3>5, <3>6
  <2> QED BY <2>2, <2>3
<1>7. T = SUBSET U
  <2>1. {} \in T
    OBVIOUS
  <2>2. \A s \in SUBSET U : s # {} /\ (\A x \in s : s \ {x} \in T) => s \in T
    BY <1>6
  <2>3. T \in SUBSET (SUBSET U)
    OBVIOUS
  <2> HIDE DEF T
  <2> QED BY <2>1, <2>2, <2>3, SubsetInduction
<1>8. \A s \in SUBSET U : \A x \in s : g[s] = f[x] + g[s \ {x}]
  BY <1>7
<1> QED BY <1>4, <1>8 DEF Sums

(* A sum over more elements, or of larger values, is no smaller. *)
LEMMA SumsGrow ==
    ASSUME NEW U, IsFiniteSet(U), NEW f \in [U -> Nat], NEW h \in [U -> Nat],
           \A x \in U : f[x] <= h[x],
           NEW F, Sums(F, f, U), NEW H, Sums(H, h, U),
           NEW s \in SUBSET U, NEW t \in SUBSET U, s \subseteq t
    PROVE  F[s] <= H[t]
<1> DEFINE T == {b \in SUBSET U : \A a \in SUBSET b : F[a] <= H[b]}
<1>1. F[{}] = 0 /\ H[{}] = 0
  BY DEF Sums
<1>2. \A b \in SUBSET U : F[b] \in Nat /\ H[b] \in Nat
  BY DEF Sums
<1>3. ASSUME NEW b \in SUBSET U, b # {}, \A x \in b : b \ {x} \in T, NEW a \in SUBSET b
      PROVE  F[a] <= H[b]
  <2>1. PICK x \in b : TRUE
    BY <1>3
  <2>2. f[x] \in Nat /\ h[x] \in Nat /\ f[x] <= h[x] /\ H[b] = h[x] + H[b \ {x}]
    BY <2>1 DEF Sums
  <2>3. \A c \in SUBSET (b \ {x}) : F[c] <= H[b \ {x}]
    BY <1>3, <2>1
  <2>4. CASE x \in a
    <3>1. F[a] = f[x] + F[a \ {x}]
      BY <2>4 DEF Sums
    <3>2. a \ {x} \in SUBSET (b \ {x}) /\ a \ {x} \in SUBSET U /\ b \ {x} \in SUBSET U
      OBVIOUS
    <3>3. F[a \ {x}] <= H[b \ {x}] /\ F[a \ {x}] \in Nat /\ H[b \ {x}] \in Nat
      BY <1>2, <2>3, <3>2
    <3> QED BY <2>2, <3>1, <3>3
  <2>5. CASE x \notin a
    <3>1. a \in SUBSET (b \ {x}) /\ b \ {x} \in SUBSET U /\ a \in SUBSET U
      BY <2>5
    <3>2. F[a] <= H[b \ {x}] /\ F[a] \in Nat /\ H[b \ {x}] \in Nat
      BY <1>2, <2>3, <3>1
    <3> QED BY <2>2, <3>2
  <2> QED BY <2>4, <2>5
<1>4. T = SUBSET U
  <2>1. {} \in T
    <3>1. \A a \in SUBSET {} : a = {}
      OBVIOUS
    <3> QED BY <1>1, <3>1
  <2>2. \A b \in SUBSET U : b # {} /\ (\A x \in b : b \ {x} \in T) => b \in T
    BY <1>3
  <2>3. T \in SUBSET (SUBSET U)
    OBVIOUS
  <2> HIDE DEF T
  <2> QED BY <2>1, <2>2, <2>3, SubsetInduction
<1>5. t \in T
  BY <1>4
<1> QED BY <1>5

(***************************************************************************)
(* Money                                                                   *)
(***************************************************************************)
(* The files hold finitely many payments. *)
LEMMA PaymentsFinite == IsFiniteSet(Payments)
<1> DEFINE Row == OrderRow \cup PaymentRow
           all == {ToSet(f) : f \in Files}
           g == [f \in Files |-> ToSet(f)]
<1>1. \A f \in Files : IsFiniteSet(ToSet(f))
  <2> SUFFICES ASSUME NEW f \in Files
               PROVE  IsFiniteSet(ToSet(f))
    OBVIOUS
  <2>1. f \in Seq(Row)
    BY FilesAssumption
  <2>2. Len(f) \in Nat /\ DOMAIN f = 1 .. Len(f) /\ f \in [1 .. Len(f) -> Row]
    BY <2>1
  <2>3. f \in [1 .. Len(f) -> ToSet(f)]
    BY <2>2 DEF ToSet
  <2>4. f \in Surjection(1 .. Len(f), ToSet(f))
    BY <2>2, <2>3 DEF ToSet, Surjection
  <2>5. IsFiniteSet(1 .. Len(f))
    BY <2>2, FS_Interval
  <2> QED BY <2>4, <2>5, FS_Surjection
<1>2. IsFiniteSet(all)
  <2>1. g \in Surjection(Files, all)
    BY DEF Surjection
  <2> HIDE DEF g, all
  <2> QED BY <2>1, FilesAssumption, FS_Surjection
<1>3. IsFiniteSet(UNION all)
  <2>1. \A T \in all : IsFiniteSet(T)
    BY <1>1
  <2> HIDE DEF all
  <2> QED BY <1>2, <2>1, FS_UNION
<1>4. Payments \in SUBSET UNION all
  BY DEF Payments
<1> HIDE DEF all
<1> QED BY <1>3, <1>4, FS_Subset

(* A payment is a row of its kind. *)
LEMMA PaymentsAreRows ==
    ASSUME NEW p \in Payments
    PROVE  /\ p.order \in Orders /\ p.store \in Stores /\ p.by \in {"uuid", "short"}
           /\ p.amount \in Nat \ {0} /\ p.day \in Nat /\ p.kind # "order"
<1>1. PICK f \in Files : p \in ToSet(f) /\ p.kind # "order"
  BY DEF Payments
<1>2. f \in Seq(OrderRow \cup PaymentRow)
  BY FilesAssumption
<1>3. p \in OrderRow \cup PaymentRow
  BY <1>1, <1>2 DEF ToSet
<1>4. p \in PaymentRow
  BY <1>1, <1>3 DEF OrderRow
<1> QED BY <1>1, <1>4 DEF PaymentRow

Amounts(st) == [p \in Payments |-> p.amount * st[p]]

LEMMA AmountsAreNumbers ==
    ASSUME NEW st \in [Payments -> Nat]
    PROVE  /\ Amounts(st) \in [Payments -> Nat]
           /\ \A p \in Payments : st[p] > 0 => Amounts(st)[p] > 0
<1>1. ASSUME NEW p \in Payments
      PROVE  p.amount * st[p] \in Nat /\ (st[p] > 0 => p.amount * st[p] > 0)
  <2>1. p.amount \in Nat /\ p.amount > 0 /\ st[p] \in Nat
    BY PaymentsAreRows
  <2> QED BY <2>1
<1> QED BY <1>1 DEF Amounts

(* Money adds up the stored rows of payments, in whatever order. *)
LEMMA MoneyAddsUp ==
    ASSUME NEW st \in [Payments -> Nat]
    PROVE  \E g : /\ Sums(g, Amounts(st), Payments)
                  /\ \A s \in SUBSET Payments : Money(s, st) = g[s]
<1>1. Amounts(st) \in [Payments -> Nat]
  BY AmountsAreNumbers
<1>2. PICK g : Sums(g, Amounts(st), Payments)
  BY <1>1, PaymentsFinite, SumsExist
<1> SUFFICES ASSUME NEW s \in SUBSET Payments
             PROVE  Money(s, st) = g[s]
  BY <1>2
<1> DEFINE Adds(q) == q = [t \in SUBSET s |->
                             IF t = {} THEN 0
                             ELSE LET x == CHOOSE x \in t : TRUE
                                  IN  x.amount * st[x] + q[t \ {x}]]
<1>3. Money(s, st) = (CHOOSE q : Adds(q))[s]
  BY DEF Money, MapThenSumSet, MapThenFoldSet
<1>4. \A t \in SUBSET s : t # {} =>
         LET x == CHOOSE x \in t : TRUE
         IN  x \in t /\ t \ {x} \in SUBSET s /\ g[t] = x.amount * st[x] + g[t \ {x}]
  <2> SUFFICES ASSUME NEW t \in SUBSET s, t # {}
               PROVE  LET x == CHOOSE x \in t : TRUE
                      IN  x \in t /\ t \ {x} \in SUBSET s /\ g[t] = x.amount * st[x] + g[t \ {x}]
    OBVIOUS
  <2> DEFINE x == CHOOSE x \in t : TRUE
  <2>1. x \in t
    OBVIOUS
  <2> HIDE DEF x
  <2>2. x \in Payments /\ t \in SUBSET Payments
    BY <2>1
  <2>3. g[t] = Amounts(st)[x] + g[t \ {x}]
    BY <1>2, <2>1, <2>2 DEF Sums
  <2>4. Amounts(st)[x] = x.amount * st[x]
    BY <2>2 DEF Amounts
  <2>5. x \in t /\ t \ {x} \in SUBSET s /\ g[t] = x.amount * st[x] + g[t \ {x}]
    BY <2>1, <2>3, <2>4
  <2> QED BY <2>5 DEF x
<1>5. g[{}] = 0
  BY <1>2 DEF Sums
<1>6. \E q : Adds(q)
  <2> DEFINE q == [t \in SUBSET s |-> g[t]]
  <2>1. \A t \in SUBSET s :
           q[t] = IF t = {} THEN 0
                  ELSE LET x == CHOOSE x \in t : TRUE IN x.amount * st[x] + q[t \ {x}]
    BY <1>4, <1>5
  <2>2. Adds(q)
    BY <2>1
  <2> QED BY <2>2
<1> DEFINE h == CHOOSE q : Adds(q)
<1>7. Adds(h)
  BY <1>6
<1> DEFINE T == {t \in SUBSET s : h[t] = g[t]}
<1> HIDE DEF h
<1>8. \A t \in SUBSET s : t # {} /\ (\A x \in t : t \ {x} \in T) => t \in T
  <2> SUFFICES ASSUME NEW t \in SUBSET s, t # {}, \A x \in t : t \ {x} \in T
               PROVE  h[t] = g[t]
    OBVIOUS
  <2> DEFINE x == CHOOSE x \in t : TRUE
  <2>1. x \in t /\ g[t] = x.amount * st[x] + g[t \ {x}]
    BY <1>4
  <2>2. h[t] = x.amount * st[x] + h[t \ {x}]
    BY <1>7
  <2> HIDE DEF x
  <2>3. h[t \ {x}] = g[t \ {x}]
    BY <2>1
  <2> QED BY <2>1, <2>2, <2>3
<1>9. T = SUBSET s
  <2>1. {} \in T
    BY <1>5, <1>7
  <2>2. T \in SUBSET (SUBSET s)
    OBVIOUS
  <2>3. IsFiniteSet(s)
    BY PaymentsFinite, FS_Subset
  <2> HIDE DEF T
  <2> QED BY <1>8, <2>1, <2>2, <2>3, SubsetInduction
<1>10. s \in T
  BY <1>9
<1> QED BY <1>3, <1>10 DEF h

LEMMA MoneyIsNumber ==
    ASSUME NEW st \in [Payments -> Nat], NEW s \in SUBSET Payments
    PROVE  Money(s, st) \in Nat
<1>1. PICK g : Sums(g, Amounts(st), Payments) /\ \A t \in SUBSET Payments : Money(t, st) = g[t]
  BY MoneyAddsUp
<1> QED BY <1>1 DEF Sums

(* A stored payment counts. *)
LEMMA StoredCounts ==
    ASSUME NEW st \in [Payments -> Nat], NEW s \in SUBSET Payments,
           NEW p \in s, st[p] > 0
    PROVE  Money(s, st) > 0
<1>1. PICK g : Sums(g, Amounts(st), Payments) /\ \A t \in SUBSET Payments : Money(t, st) = g[t]
  BY MoneyAddsUp
<1>2. g[s] = Amounts(st)[p] + g[s \ {p}] /\ g[s \ {p}] \in Nat
  BY <1>1 DEF Sums
<1>3. Amounts(st)[p] \in Nat /\ Amounts(st)[p] > 0
  BY AmountsAreNumbers
<1> QED BY <1>1, <1>2, <1>3

(* More payments, or more rows of them, come to no less. *)
LEMMA MoneyGrows ==
    ASSUME NEW st \in [Payments -> Nat], NEW more \in [Payments -> Nat],
           \A p \in Payments : st[p] <= more[p],
           NEW s \in SUBSET Payments, NEW t \in SUBSET Payments, s \subseteq t
    PROVE  Money(s, st) <= Money(t, more)
<1>1. PICK g : Sums(g, Amounts(st), Payments) /\ \A u \in SUBSET Payments : Money(u, st) = g[u]
  BY MoneyAddsUp
<1>2. PICK h : Sums(h, Amounts(more), Payments) /\ \A u \in SUBSET Payments : Money(u, more) = h[u]
  BY MoneyAddsUp
<1>3. \A p \in Payments : Amounts(st)[p] <= Amounts(more)[p]
  <2> SUFFICES ASSUME NEW p \in Payments
               PROVE  p.amount * st[p] <= p.amount * more[p]
    BY DEF Amounts
  <2>1. p.amount \in Nat /\ st[p] \in Nat /\ more[p] \in Nat /\ st[p] <= more[p]
    BY PaymentsAreRows
  <2>2. more[p] - st[p] \in Nat
    BY <2>1
  <2>3. p.amount * (more[p] - st[p]) \in Nat
    BY <2>1, <2>2
  <2> QED BY <2>1, <2>3
<1>4. Amounts(st) \in [Payments -> Nat] /\ Amounts(more) \in [Payments -> Nat]
  BY AmountsAreNumbers
<1>5. g[s] <= h[t]
  BY <1>1, <1>2, <1>3, <1>4, PaymentsFinite, SumsGrow
<1> QED BY <1>1, <1>2, <1>5

(***************************************************************************)
(* Claims settled by the payments of a file                                *)
(***************************************************************************)
ClaimRow == [status : ClaimStatus, amount : Nat, ref : {"none", "uuid", "short"},
             live : BOOLEAN, recovered : Nat]

PaymentsOfOrder(o) == {p \in Payments : p.order = o /\ p.kind = "payment"}

(* What a claim records of its money, where stored counts the rows. *)
SoundClaim(c, o, stored) ==
    /\ c.status # "none" /\ ~ c.live => c.amount > 0
    /\ c.status = "payment_confirmed" =>
          /\ c.recovered > 0
          /\ c.recovered <= Money(PaymentsOfOrder(o), stored)
          /\ c.recovered <= c.amount \/ c.live

(* Claims that are sound, of which none was opened or taken back. *)
SoundClaims(stored) ==
    {cs \in [Names -> ClaimRow] :
        \A n \in Names : /\ SoundClaim(cs[n], n[1], stored)
                         /\ cs[n].status = "none" <=> claims[n].status = "none"}

LEMMA KeysName ==
    ASSUME NEW p \in Payments, NEW snaps, NEW k \in KeysOf(p, snaps)
    PROVE  k \in Names /\ k[1] = p.order
BY PaymentsAreRows DEF KeysOf, Names, Short

LEMMA KeysOfClaimName ==
    ASSUME NEW n \in Names, NEW cs \in [Names -> ClaimRow], NEW k \in KeysOfClaim(n, cs)
    PROVE  k[1] = n[1]
BY DEF KeysOfClaim, Names

(* What is paid under the names of a claim is paid for its order. *)
LEMMA PaidForTheOrder ==
    ASSUME NEW p \in Payments, NEW n \in Names, NEW cs \in [Names -> ClaimRow], NEW snaps,
           KeysOfClaim(n, cs) \cap KeysOf(p, snaps) # {}, p.kind = "payment",
           NEW stored \in [Payments -> Nat], stored[p] > 0
    PROVE  LET paid == Paid(KeysOf(p, snaps) \cup KeysOfClaim(n, cs), snaps, stored)
           IN  paid \in Nat /\ paid > 0 /\ paid <= Money(PaymentsOfOrder(n[1]), stored)
<1> DEFINE keys == KeysOf(p, snaps) \cup KeysOfClaim(n, cs)
           ps == {q \in Payments : q.kind = "payment" /\ KeysOf(q, snaps) \cap keys # {}}
<1>1. p.order = n[1]
  BY KeysName, KeysOfClaimName
<1>2. \A k \in keys : k[1] = n[1]
  BY <1>1, KeysName, KeysOfClaimName
<1>3. ps \subseteq PaymentsOfOrder(n[1])
  <2> SUFFICES ASSUME NEW q \in ps
               PROVE  q.order = n[1]
    BY DEF PaymentsOfOrder
  <2>1. PICK k \in KeysOf(q, snaps) : k \in keys
    OBVIOUS
  <2> HIDE DEF keys
  <2> QED BY <1>2, <2>1, KeysName
<1>4. p \in ps
  <2>1. <<p.order, p.by>> \in KeysOf(p, snaps)
    BY DEF KeysOf
  <2> QED BY <2>1
<1>5. ps \in SUBSET Payments /\ PaymentsOfOrder(n[1]) \in SUBSET Payments
  BY DEF PaymentsOfOrder
<1>6. Paid(keys, snaps, stored) = Money(ps, stored)
  BY DEF Paid
<1> HIDE DEF ps, keys
<1>7. Money(ps, stored) \in Nat /\ Money(ps, stored) > 0
  BY <1>4, <1>5, MoneyIsNumber, StoredCounts
<1>8. Money(ps, stored) <= Money(PaymentsOfOrder(n[1]), stored)
  <2>1. \A q \in Payments : stored[q] <= stored[q]
    OBVIOUS
  <2> QED BY <1>3, <1>5, <2>1, MoneyGrows
<1>9. Paid(keys, snaps, stored) \in Nat /\ Paid(keys, snaps, stored) > 0
        /\ Paid(keys, snaps, stored) <= Money(PaymentsOfOrder(n[1]), stored)
  BY <1>6, <1>7, <1>8
<1> QED BY <1>9 DEF keys

(* A row of the file leaves sound claims sound. *)
LEMMA SettledKeeps ==
    ASSUME NEW snaps, NEW stored \in [Payments -> Nat],
           NEW r, r.kind # "order" => r \in Payments /\ stored[r] > 0,
           NEW cs \in SoundClaims(stored)
    PROVE  Settled(cs, r, snaps, stored) \in SoundClaims(stored)
<1> DEFINE keys == KeysOf(r, snaps)
           found == {n \in Names : cs[n].status # "none" /\ KeysOfClaim(n, cs) \cap keys # {}}
           n == CHOOSE n \in found : TRUE
           paid == Paid(keys \cup KeysOfClaim(n, cs), snaps, stored)
           new == [cs EXCEPT ![n].status = "payment_confirmed", ![n].recovered = paid]
<1>1. CASE r.kind # "payment" \/ Cardinality(found) # 1 \/ ExceedsExpected(cs[n], paid)
  BY <1>1 DEF Settled
<1>2. CASE r.kind = "payment" /\ Cardinality(found) = 1 /\ ~ ExceedsExpected(cs[n], paid)
  <2>1. Settled(cs, r, snaps, stored) = new
    BY <1>2 DEF Settled
  <2>2. r \in Payments /\ stored[r] > 0
    BY <1>2
  <2>3. n \in found
    <3> HIDE DEF found
    <3>1. Cardinality(found) = 1
      BY <1>2
    <3>2. found # {}
      BY <3>1, FS_EmptySet
    <3> QED BY <3>2
  <2>4. n \in Names /\ cs[n].status # "none" /\ KeysOfClaim(n, cs) \cap keys # {}
    BY <2>3
  <2>5. cs \in [Names -> ClaimRow] /\ cs[n] \in ClaimRow
    BY <2>4 DEF SoundClaims
  <2> HIDE DEF n, found
  <2>6. paid \in Nat /\ paid > 0 /\ paid <= Money(PaymentsOfOrder(n[1]), stored)
    BY <1>2, <2>2, <2>4, <2>5, PaidForTheOrder
  <2>7. ~ (cs[n].amount > 0 /\ paid > cs[n].amount)
    BY <1>2 DEF ExceedsExpected
  <2> HIDE DEF paid, keys
  <2>8. new \in [Names -> ClaimRow]
    BY <2>5, <2>6 DEF ClaimRow, ClaimStatus
  <2>9. new[n] = [cs[n] EXCEPT !.status = "payment_confirmed", !.recovered = paid]
    BY <2>4, <2>5
  <2>10. SoundClaim(cs[n], n[1], stored)
    BY <2>4 DEF SoundClaims
  <2>11. SoundClaim(new[n], n[1], stored)
    <3>1. new[n].live = cs[n].live /\ new[n].amount = cs[n].amount /\ new[n].recovered = paid
      BY <2>5, <2>9 DEF ClaimRow
    <3>2. cs[n].amount \in Nat
      BY <2>5 DEF ClaimRow
    <3>3. cs[n].live \/ cs[n].amount > 0
      BY <2>4, <2>10 DEF SoundClaim
    <3> HIDE DEF new
    <3> QED BY <2>6, <2>7, <3>1, <3>2, <3>3 DEF SoundClaim
  <2>12. \A m \in Names : m # n => new[m] = cs[m]
    BY <2>5
  <2>13. new[n].status # "none" /\ claims[n].status # "none"
    BY <2>4, <2>5, <2>9 DEF SoundClaims, ClaimRow
  <2> HIDE DEF new
  <2>14. new \in SoundClaims(stored)
    <3>1. \A m \in Names : /\ SoundClaim(cs[m], m[1], stored)
                           /\ cs[m].status = "none" <=> claims[m].status = "none"
      BY DEF SoundClaims
    <3>2. \A m \in Names : /\ SoundClaim(new[m], m[1], stored)
                           /\ new[m].status = "none" <=> claims[m].status = "none"
      BY <2>11, <2>12, <2>13, <3>1
    <3> QED BY <2>8, <3>2 DEF SoundClaims
  <2> QED BY <2>1, <2>14
<1> QED BY <1>1, <1>2

(* The greatest of some of the places of a sequence is one of them. *)
LEMMA MaxIsPlace ==
    ASSUME NEW n \in Nat, NEW s \in SUBSET (1 .. n), s # {}
    PROVE  Max(s) \in s
BY LastRow DEF Max

(* All rows of the file, one after the other, leave sound claims sound. *)
LEMMA SettlingKeeps ==
    ASSUME NEW snaps, NEW stored \in [Payments -> Nat], NEW R, NEW rows \in Seq(R),
           \A r \in ToSet(rows) : r.kind # "order" => r \in Payments /\ stored[r] > 0,
           claims \in SoundClaims(stored)
    PROVE  Applied(rows, snaps, stored) \in SoundClaims(stored)
<1> DEFINE D == DOMAIN rows
           V == SoundClaims(stored)
           ch == [s \in SUBSET D |-> Max(s)]
           G == [q \in D \X V |-> Settled(q[2], rows[q[1]], snaps, stored)]
           Folds(g) == g = [s \in SUBSET D |->
                              IF s = {} THEN claims
                              ELSE LET i == Max(s)
                                   IN  Settled(g[s \ {i}], rows[i], snaps, stored)]
           h == CHOOSE g : Folds(g)
<1>1. Applied(rows, snaps, stored) = h[D]
  BY DEF Applied, FoldLeft, MapThenFoldSet
<1>2. D = 1 .. Len(rows) /\ Len(rows) \in Nat /\ IsFiniteSet(D)
  BY FS_Interval
<1>3. \A s \in SUBSET D : s # {} => Max(s) \in s
  BY <1>2, MaxIsPlace
<1>4. \A i \in D, cs \in V : Settled(cs, rows[i], snaps, stored) \in V
  <2> SUFFICES ASSUME NEW i \in D, NEW cs \in V
               PROVE  Settled(cs, rows[i], snaps, stored) \in V
    OBVIOUS
  <2>1. rows[i].kind # "order" => rows[i] \in Payments /\ stored[rows[i]] > 0
    BY DEF ToSet
  <2> QED BY <2>1, SettledKeeps
<1> HIDE DEF V, D
<1>5. Picks(ch, D) /\ Keeps(G, D, V)
  BY <1>3, <1>4 DEF Picks, Keeps
<1>6. PICK g \in [SUBSET D -> V] : FoldsBy(g, D, claims, ch, G)
  <2> HIDE DEF ch, G
  <2>1. claims \in V
    BY DEF V
  <2> QED BY <1>2, <1>5, <2>1, FoldExists
<1>7. Folds(g)
  <2>1. \A s \in SUBSET D : g[s] = IF s = {} THEN claims
                                   ELSE Settled(g[s \ {Max(s)}], rows[Max(s)], snaps, stored)
    <3> SUFFICES ASSUME NEW s \in SUBSET D, s # {}
                 PROVE  g[s] = Settled(g[s \ {Max(s)}], rows[Max(s)], snaps, stored)
      BY <1>6 DEF FoldsBy
    <3>1. ch[s] = Max(s) /\ Max(s) \in D /\ g[s \ {Max(s)}] \in V
      BY <1>3
    <3>2. g[s] = G[<<Max(s), g[s \ {Max(s)}]>>]
      BY <1>6, <3>1 DEF FoldsBy
    <3> QED BY <3>1, <3>2
  <2> QED BY <2>1
<1>8. Folds(h)
  BY <1>7
<1> DEFINE T == {s \in SUBSET D : h[s] \in V}
<1> HIDE DEF h
<1>9. \A s \in SUBSET D : s # {} /\ (\A i \in s : s \ {i} \in T) => s \in T
  <2> SUFFICES ASSUME NEW s \in SUBSET D, s # {}, \A i \in s : s \ {i} \in T
               PROVE  h[s] \in V
    OBVIOUS
  <2>1. Max(s) \in s /\ h[s \ {Max(s)}] \in V
    BY <1>3
  <2>2. h[s] = Settled(h[s \ {Max(s)}], rows[Max(s)], snaps, stored)
    BY <1>8
  <2> QED BY <1>4, <2>1, <2>2
<1>10. T = SUBSET D
  <2>1. h[{}] = claims
    BY <1>8
  <2>2. {} \in T
    BY <2>1 DEF V
  <2>3. T \in SUBSET (SUBSET D)
    OBVIOUS
  <2> HIDE DEF T
  <2> QED BY <1>2, <1>9, <2>2, <2>3, SubsetInduction
<1>11. h[D] \in V
  BY <1>10
<1> QED BY <1>1, <1>11 DEF V

(* The rows of a file to import are rows. *)
LEMMA RowsAreRows ==
    ASSUME NEW f \in Files \cup {<<>>}, NEW override
    PROVE  Rows(f, override) \in Seq(OrderRow \cup Payments)
<1> DEFINE D == DOMAIN f
           V == Seq(OrderRow \cup Payments)
           Keep(i) == /\ override \/ Resolved(f[i])
                      /\ \A j \in 1 .. i - 1 : ~ SameKey(f[j], f[i])
           Add(rows, i) == IF Keep(i) THEN Append(rows, f[i]) ELSE rows
           ch == [s \in SUBSET D |-> Max(s)]
           G == [q \in D \X V |-> Add(q[2], q[1])]
           Folds(g) == g = [s \in SUBSET D |->
                              IF s = {} THEN <<>>
                              ELSE LET i == Max(s) IN Add(g[s \ {i}], [k \in D |-> k][i])]
           h == CHOOSE g : Folds(g)
<1>1. Rows(f, override) = h[DOMAIN [k \in D |-> k]]
  BY DEF Rows, FoldLeftDomain, FoldLeft, MapThenFoldSet
<1>2. f \in Seq(OrderRow \cup PaymentRow)
  BY FilesAssumption, EmptySeq
<1>3. D = 1 .. Len(f) /\ Len(f) \in Nat /\ IsFiniteSet(D)
  BY <1>2, FS_Interval
<1>4. \A s \in SUBSET D : s # {} => Max(s) \in s
  BY <1>3, MaxIsPlace
<1>5. \A i \in D : f[i] \in OrderRow \cup Payments
  <2> SUFFICES ASSUME NEW i \in D
               PROVE  f[i] \in OrderRow \cup Payments
    OBVIOUS
  <2>1. f[i] \in OrderRow \cup PaymentRow /\ f \in Files /\ f[i] \in ToSet(f)
    BY <1>2 DEF ToSet
  <2>2. f[i] \in PaymentRow => f[i].kind # "order"
    BY DEF PaymentRow
  <2> QED BY <2>1, <2>2 DEF Payments
<1>6. \A i \in D, rows \in V : Add(rows, i) \in V
  <2> SUFFICES ASSUME NEW i \in D, NEW rows \in V
               PROVE  Append(rows, f[i]) \in V
    OBVIOUS
  <2> QED BY <1>5, AppendProperties
<1> HIDE DEF V, D, Add
<1>7. Picks(ch, D) /\ Keeps(G, D, V)
  BY <1>4, <1>6 DEF Picks, Keeps
<1>8. PICK g \in [SUBSET D -> V] : FoldsBy(g, D, <<>>, ch, G)
  <2> HIDE DEF ch, G
  <2>1. <<>> \in V
    BY DEF V
  <2> QED BY <1>3, <1>7, <2>1, FoldExists
<1>9. Folds(g)
  <2>1. \A s \in SUBSET D : g[s] = IF s = {} THEN <<>>
                                   ELSE Add(g[s \ {Max(s)}], [k \in D |-> k][Max(s)])
    <3> SUFFICES ASSUME NEW s \in SUBSET D, s # {}
                 PROVE  g[s] = Add(g[s \ {Max(s)}], [k \in D |-> k][Max(s)])
      BY <1>8 DEF FoldsBy
    <3>1. ch[s] = Max(s) /\ Max(s) \in D /\ g[s \ {Max(s)}] \in V
      BY <1>4
    <3>2. g[s] = G[<<Max(s), g[s \ {Max(s)}]>>]
      BY <1>8, <3>1 DEF FoldsBy
    <3> QED BY <3>1, <3>2
  <2> QED BY <2>1
<1>10. Folds(h)
  BY <1>9
<1> DEFINE T == {s \in SUBSET D : h[s] \in V}
<1> HIDE DEF h
<1>11. \A s \in SUBSET D : s # {} /\ (\A i \in s : s \ {i} \in T) => s \in T
  <2> SUFFICES ASSUME NEW s \in SUBSET D, s # {}, \A i \in s : s \ {i} \in T
               PROVE  h[s] \in V
    OBVIOUS
  <2>1. Max(s) \in s /\ h[s \ {Max(s)}] \in V
    BY <1>4
  <2>2. h[s] = Add(h[s \ {Max(s)}], Max(s))
    BY <1>10, <2>1
  <2> QED BY <1>6, <2>1, <2>2
<1>12. T = SUBSET D
  <2>1. h[{}] = <<>>
    BY <1>10
  <2>2. {} \in T
    <3>1. <<>> \in V
      BY EmptySeq DEF V
    <3> QED BY <2>1, <3>1
  <2>3. T \in SUBSET (SUBSET D)
    OBVIOUS
  <2>4. IsFiniteSet(D)
    BY <1>3
  <2> HIDE DEF T
  <2> QED BY <1>11, <2>2, <2>3, <2>4, SubsetInduction
<1>13. h[D] \in V
  BY <1>12
<1> QED BY <1>1, <1>13 DEF V

(***************************************************************************)
(* The inductive invariant                                                 *)
(***************************************************************************)
ResultRow == [status : ResultStatus, claim : Names \cup {NoName}, missing : Nat, short : BOOLEAN]

BatchRow == [status : {"none", "parsed", "confirmed", "cancelled", "partially_imported"},
             file : Files \cup {<<>>}, rows : Seq(OrderRow \cup Payments)]

ListedRow == [status : {"none", "parsed", "confirmed", "partially_imported", "failed",
                        "cancelled"},
              valid : SUBSET Orders]

SmartRow == [status : {"none", "previewed", "confirmed", "cancelled", "expired"},
             file : Files \cup {<<>>}]

WorkerRow == [pc : {"idle", "rows", "reconcile", "claims"},
              batch : Batches \cup {0}, missing : SUBSET Payments,
              target : [Orders -> 0 .. Cardinality(Stores)],
              todo : SUBSET Orders, smart : BOOLEAN]

(* No two snapshots of an order have the same store. *)
OneEach(sns) == \A i, j \in DOMAIN sns : sns[i].store = sns[j].store => i = j

SnapshotsOK == snapshots \in [Orders -> {sns \in Seq(Snapshot) : OneEach(sns)}]

(* The confirmations that will store a payment they found missing. *)
Outstanding(p) == {w \in Workers : workers[w].pc = "rows" /\ p \in workers[w].missing}

(* Whoever will store a payment once more found no row of it: a row is      *)
(* stored for each, and by one repair besides.                             *)
CopiesCounted ==
    \A p \in Payments : copies[p] + Cardinality(Outstanding(p)) <= Cardinality(Workers) + 1

(* What a confirmation of these rows leaves out is stored already, and the *)
(* snapshot it would update is there.                                      *)
Covered(rows, me, snaps, stored) ==
    \A r \in ToSet(rows) :
       IF r.kind = "order" THEN me.target[r.order] \in {0} \cup DOMAIN snaps[r.order]
       ELSE r \in me.missing \/ stored[r] > 0

LookedAt(me, bs, snaps, stored) ==
    me.pc # "idle" => /\ me.batch \in Batches /\ bs[me.batch].status # "none"
                      /\ me.pc = "rows" => Covered(bs[me.batch].rows, me, snaps, stored)

WorkersLooked == \A w \in Workers : LookedAt(workers[w], batches, snapshots, copies)

RowsStored(rows, snaps, stored) ==
    \A r \in ToSet(rows) :
       IF r.kind = "order" THEN snaps[r.order] # <<>> ELSE stored[r] > 0

(* A result that a claim may be opened from has something missing. *)
SomethingMissing ==
    \A o \in Orders : results[o].status \in ELIGIBLE_RESULT_STATUSES => results[o].missing > 0

ClaimsSound == \A n \in Names : SoundClaim(claims[n], n[1], copies)

IInv ==
    /\ mapping \in [Stores -> {"none", "active", "inactive"}]
    /\ SnapshotsOK
    /\ copies \in [Payments -> Nat]
    /\ results \in [Orders -> ResultRow]
    /\ claims \in [Names -> ClaimRow]
    /\ batches \in [Batches -> BatchRow]
    /\ listed \in ListedRow
    /\ smart \in SmartRow
    /\ workers \in [Workers -> WorkerRow]
    /\ CopiesCounted
    /\ WorkersLooked
    /\ ConfirmedRowsAreStored
    /\ SomethingMissing
    /\ ClaimsSound

LEMMA TypeParts ==
    ASSUME IInv
    PROVE  UberTypeOK
<1>1. snapshots \in [Orders -> Seq(Snapshot)]
  BY DEF IInv, SnapshotsOK
<1>2. ASSUME NEW o \in Orders
      PROVE  IsInjective([i \in DOMAIN snapshots[o] |-> snapshots[o][i].store])
  <2>1. OneEach(snapshots[o])
    BY DEF IInv, SnapshotsOK
  <2> QED BY <2>1 DEF OneEach, IsInjective
<1> QED BY <1>1, <1>2 DEF IInv, UberTypeOK, ResultRow, ClaimRow, BatchRow, ListedRow, SmartRow,
             WorkerRow

(* The parts of the invariant that a step does not touch. *)
LEMMA Kept ==
    ASSUME IInv
    PROVE  /\ UNCHANGED mapping => mapping' \in [Stores -> {"none", "active", "inactive"}]
           /\ UNCHANGED snapshots => SnapshotsOK'
           /\ UNCHANGED copies => copies' \in [Payments -> Nat]
           /\ UNCHANGED results => results' \in [Orders -> ResultRow] /\ SomethingMissing'
           /\ UNCHANGED claims => claims' \in [Names -> ClaimRow]
           /\ UNCHANGED batches => batches' \in [Batches -> BatchRow]
           /\ UNCHANGED listed => listed' \in ListedRow
           /\ UNCHANGED smart => smart' \in SmartRow
           /\ UNCHANGED workers => workers' \in [Workers -> WorkerRow]
           /\ UNCHANGED <<copies, workers>> => CopiesCounted'
           /\ UNCHANGED <<copies, snapshots, batches, workers>> => WorkersLooked'
           /\ UNCHANGED <<copies, snapshots, batches>> => ConfirmedRowsAreStored'
           /\ UNCHANGED <<copies, claims>> => ClaimsSound'
<1>1. UNCHANGED <<copies, workers>> => CopiesCounted'
  BY DEF IInv, CopiesCounted, Outstanding
<1>2. UNCHANGED <<copies, snapshots, batches, workers>> => WorkersLooked'
  BY DEF IInv, WorkersLooked
<1>3. UNCHANGED <<copies, snapshots, batches>> => ConfirmedRowsAreStored'
  BY DEF IInv, ConfirmedRowsAreStored
<1>4. UNCHANGED <<copies, claims>> => ClaimsSound'
  BY DEF IInv, ClaimsSound, SoundClaim
<1>5. UNCHANGED results => SomethingMissing'
  BY DEF IInv, SomethingMissing
<1>6. UNCHANGED snapshots => SnapshotsOK'
  BY DEF IInv, SnapshotsOK
<1> QED BY <1>1, <1>2, <1>3, <1>4, <1>5, <1>6 DEF IInv

LEMMA InitIInv ==
    ASSUME Init
    PROVE  IInv
<1>1. <<>> \in Seq(Snapshot) /\ <<>> \in Seq(OrderRow \cup Payments) /\ OneEach(<<>>)
  BY EmptySeq DEF OneEach
<1>2. SnapshotsOK
  BY <1>1 DEF Init, SnapshotsOK
<1>3. results \in [Orders -> ResultRow] /\ SomethingMissing
  BY DEF Init, NoResult, ResultRow, ResultStatus, ELIGIBLE_RESULT_STATUSES, SomethingMissing
<1>4. claims \in [Names -> ClaimRow] /\ ClaimsSound
  BY DEF Init, NoClaim, ClaimRow, ClaimStatus, ClaimsSound, SoundClaim
<1>5. batches \in [Batches -> BatchRow] /\ ConfirmedRowsAreStored
  BY <1>1 DEF Init, NoBatch, BatchRow, ConfirmedRowsAreStored
<1>6. workers \in [Workers -> WorkerRow] /\ WorkersLooked
  <2>1. 0 \in 0 .. Cardinality(Stores)
    <3>1. Cardinality(Stores) \in Nat
      BY UberAssumption, FS_CardinalityType
    <3> QED BY <3>1
  <2> QED BY <2>1
             DEF Init, Idle, WorkerRow, WorkersLooked, LookedAt
<1>7. copies \in [Payments -> Nat] /\ CopiesCounted
  <2>1. \A p \in Payments : Outstanding(p) = {}
    BY DEF Init, Idle, Outstanding
  <2>2. Cardinality({}) = 0 /\ Cardinality(Workers) \in Nat
    BY UberAssumption, FS_EmptySet, FS_CardinalityType
  <2> SUFFICES ASSUME NEW p \in Payments
               PROVE  copies[p] + Cardinality(Outstanding(p)) <= Cardinality(Workers) + 1
    BY DEF Init, CopiesCounted
  <2>3. copies[p] = 0 /\ Cardinality(Outstanding(p)) = 0
    BY <2>1, <2>2 DEF Init
  <2> QED BY <2>2, <2>3
<1>8. listed \in ListedRow /\ smart \in SmartRow
        /\ mapping \in [Stores -> {"none", "active", "inactive"}]
  BY DEF Init, ListedRow, SmartRow
<1> QED BY <1>2, <1>3, <1>4, <1>5, <1>6, <1>7, <1>8 DEF IInv

(***************************************************************************)
(* What is stored stays                                                    *)
(***************************************************************************)
LEMMA RowsHaveKinds ==
    ASSUME NEW rows \in Seq(OrderRow \cup Payments), NEW r \in ToSet(rows)
    PROVE  IF r.kind = "order" THEN r \in OrderRow ELSE r \in Payments
<1>1. r \in OrderRow \cup Payments
  BY DEF ToSet
<1>2. CASE r \in Payments
  BY <1>2, PaymentsAreRows
<1>3. CASE r \in OrderRow
  BY <1>3 DEF OrderRow
<1> QED BY <1>1, <1>2, <1>3

(* More snapshots and more rows of payments cover and store the same rows. *)
LEMMA CoveredGrows ==
    ASSUME NEW snaps \in [Orders -> Seq(Snapshot)], NEW news \in [Orders -> Seq(Snapshot)],
           \A o \in Orders : DOMAIN snaps[o] \subseteq DOMAIN news[o],
           NEW stored \in [Payments -> Nat], NEW more \in [Payments -> Nat],
           \A p \in Payments : stored[p] <= more[p],
           NEW rows \in Seq(OrderRow \cup Payments), NEW me
    PROVE  /\ Covered(rows, me, snaps, stored) => Covered(rows, me, news, more)
           /\ RowsStored(rows, snaps, stored) => RowsStored(rows, news, more)
<1>1. \A r \in ToSet(rows) : IF r.kind = "order" THEN r.order \in Orders ELSE r \in Payments
  BY RowsHaveKinds DEF OrderRow
<1>2. \A p \in Payments : stored[p] > 0 => more[p] > 0
  <2> SUFFICES ASSUME NEW p \in Payments, stored[p] > 0
               PROVE  more[p] > 0
    OBVIOUS
  <2>1. stored[p] \in Nat /\ more[p] \in Nat /\ stored[p] <= more[p]
    OBVIOUS
  <2> QED BY <2>1
<1>3. \A o \in Orders : snaps[o] # <<>> => news[o] # <<>>
  <2> SUFFICES ASSUME NEW o \in Orders, snaps[o] # <<>>
               PROVE  news[o] # <<>>
    OBVIOUS
  <2>1. snaps[o] \in Seq(Snapshot) /\ news[o] \in Seq(Snapshot)
    OBVIOUS
  <2>2. Len(snaps[o]) \in Nat \ {0} /\ DOMAIN snaps[o] = 1 .. Len(snaps[o])
    BY <2>1, EmptySeq
  <2>3. 1 \in DOMAIN news[o]
    BY <2>2
  <2>4. DOMAIN <<>> = {}
    OBVIOUS
  <2> QED BY <2>3, <2>4
<1>4. Covered(rows, me, snaps, stored) => Covered(rows, me, news, more)
  BY <1>1, <1>2 DEF Covered
<1>5. RowsStored(rows, snaps, stored) => RowsStored(rows, news, more)
  BY <1>1, <1>2, <1>3 DEF RowsStored
<1> QED BY <1>4, <1>5

(* A step that takes no snapshot, no row of a payment and no row to import *)
(* away.                                                                   *)
Grows ==
    /\ SnapshotsOK' /\ copies' \in [Payments -> Nat] /\ batches' \in [Batches -> BatchRow]
    /\ \A o \in Orders : DOMAIN snapshots[o] \subseteq DOMAIN snapshots'[o]
    /\ \A p \in Payments : copies[p] <= copies'[p]
    /\ \A b \in Batches : batches[b].status # "none" =>
          batches'[b].status # "none" /\ batches'[b].rows = batches[b].rows

LEMMA WhatStays ==
    ASSUME IInv, Grows
    PROVE  /\ \A w \in Workers : LookedAt(workers[w], batches', snapshots', copies')
           /\ \A b \in Batches : batches[b].status = "confirmed" =>
                 RowsStored(batches'[b].rows, snapshots', copies')
<1>1. /\ snapshots \in [Orders -> Seq(Snapshot)] /\ snapshots' \in [Orders -> Seq(Snapshot)]
      /\ copies \in [Payments -> Nat] /\ copies' \in [Payments -> Nat]
      /\ \A b \in Batches : batches[b].rows \in Seq(OrderRow \cup Payments)
  BY DEF IInv, Grows, SnapshotsOK, BatchRow
<1>2. \A b \in Batches : \A me :
         /\ Covered(batches[b].rows, me, snapshots, copies)
               => Covered(batches[b].rows, me, snapshots', copies')
         /\ RowsStored(batches[b].rows, snapshots, copies)
               => RowsStored(batches[b].rows, snapshots', copies')
  <2> SUFFICES ASSUME NEW b \in Batches, NEW me
               PROVE  /\ Covered(batches[b].rows, me, snapshots, copies)
                            => Covered(batches[b].rows, me, snapshots', copies')
                      /\ RowsStored(batches[b].rows, snapshots, copies)
                            => RowsStored(batches[b].rows, snapshots', copies')
    OBVIOUS
  <2>1. /\ \A o \in Orders : DOMAIN snapshots[o] \subseteq DOMAIN snapshots'[o]
        /\ \A p \in Payments : copies[p] <= copies'[p]
    BY DEF Grows
  <2> QED BY <1>1, <2>1, CoveredGrows
<1>3. ASSUME NEW w \in Workers
      PROVE  LookedAt(workers[w], batches', snapshots', copies')
  <2>1. LookedAt(workers[w], batches, snapshots, copies)
    BY DEF IInv, WorkersLooked
  <2> QED BY <1>2, <2>1 DEF Grows, LookedAt
<1>4. ASSUME NEW b \in Batches, batches[b].status = "confirmed"
      PROVE  RowsStored(batches'[b].rows, snapshots', copies')
  <2>1. RowsStored(batches[b].rows, snapshots, copies)
    BY <1>4 DEF IInv, ConfirmedRowsAreStored, RowsStored
  <2>2. batches'[b].rows = batches[b].rows
    BY <1>4 DEF Grows
  <2> QED BY <1>2, <2>1, <2>2
<1> QED BY <1>3, <1>4

(* A step that grows leaves what was looked at and stored so, if a worker   *)
(* it moves has looked, and a batch it confirms is stored.                 *)
LEMMA GrowingStep ==
    ASSUME IInv, Grows,
           \A w \in Workers : workers'[w] # workers[w] =>
              LookedAt(workers'[w], batches', snapshots', copies'),
           \A b \in Batches : batches'[b].status = "confirmed" /\ batches[b].status # "confirmed"
              => RowsStored(batches'[b].rows, snapshots', copies')
    PROVE  WorkersLooked' /\ ConfirmedRowsAreStored'
<1>1. \A w \in Workers : LookedAt(workers'[w], batches', snapshots', copies')
  BY WhatStays
<1>2. \A b \in Batches : batches'[b].status = "confirmed" =>
         RowsStored(batches'[b].rows, snapshots', copies')
  BY WhatStays
<1> QED BY <1>1, <1>2 DEF WorkersLooked, ConfirmedRowsAreStored, RowsStored

(* A step on the batches and the workers alone. *)
LEMMA NothingStored ==
    ASSUME IInv, UNCHANGED <<snapshots, copies>>, batches' \in [Batches -> BatchRow],
           \A b \in Batches : batches[b].status # "none" =>
              batches'[b].status # "none" /\ batches'[b].rows = batches[b].rows
    PROVE  Grows
<1>1. SnapshotsOK'
  BY Kept
<1>2. \A p \in Payments : copies[p] <= copies[p]
  BY DEF IInv
<1> QED BY <1>1, <1>2 DEF Grows, IInv

(* Claims of a step that stores no payment are sound if those it changes   *)
(* are.                                                                    *)
LEMMA ClaimsStaySound ==
    ASSUME IInv, UNCHANGED copies,
           \A n \in Names : claims'[n] = claims[n] \/ SoundClaim(claims'[n], n[1], copies)
    PROVE  ClaimsSound'
<1>1. \A n \in Names : SoundClaim(claims'[n], n[1], copies)
  BY DEF IInv, ClaimsSound
<1>2. \A n \in Names : SoundClaim(claims'[n], n[1], copies')
  BY <1>1
<1> QED BY <1>2 DEF ClaimsSound

LEMMA OpenedIsSound ==
    ASSUME NEW amount \in Nat, NEW live \in BOOLEAN, live \/ amount > 0
    PROVE  /\ Opened(amount, live) \in ClaimRow
           /\ \A o, stored : SoundClaim(Opened(amount, live), o, stored)
BY DEF Opened, ClaimRow, ClaimStatus, SoundClaim

(***************************************************************************)
(* The steps, one by one                                                   *)
(***************************************************************************)
LEMMA DecideStep ==
    ASSUME IInv, NEW n \in Names, Decide(n)
    PROVE  IInv'
<1>1. claims' = [claims EXCEPT ![n] = [claims[n] EXCEPT !.status = "refused"]]
        /\ claims \in [Names -> ClaimRow] /\ claims[n].status = "open"
  BY DEF Decide, IInv
<1>2. [claims[n] EXCEPT !.status = "refused"] \in ClaimRow
  BY <1>1 DEF ClaimRow, ClaimStatus
<1>3. claims' \in [Names -> ClaimRow]
  BY <1>1, <1>2
<1>4. ClaimsSound'
  <2>1. SoundClaim(claims[n], n[1], copies)
    BY DEF IInv, ClaimsSound
  <2>2. SoundClaim([claims[n] EXCEPT !.status = "refused"], n[1], copies)
    BY <1>1, <2>1 DEF SoundClaim, ClaimRow
  <2>3. UNCHANGED copies
    BY DEF Decide
  <2> QED BY <1>1, <2>2, <2>3, ClaimsStaySound
<1> QED BY <1>3, <1>4, Kept DEF Decide, IInv

LEMMA MappingStep ==
    ASSUME IInv, NEW s \in Stores, MapStore(s) \/ Deprovision(s)
    PROVE  IInv'
<1>1. mapping' \in [Stores -> {"none", "active", "inactive"}]
  BY DEF MapStore, Deprovision, IInv
<1> QED BY <1>1, Kept DEF MapStore, Deprovision, IInv

LEMMA OrderFileStep ==
    ASSUME IInv, PreviewOrders \/ CancelOrders
    PROVE  IInv'
<1>1. listed' \in ListedRow
  BY DEF PreviewOrders, CancelOrders, IInv, ListedRow
<1> QED BY <1>1, Kept DEF PreviewOrders, CancelOrders, IInv

LEMMA ConfirmOrdersStep ==
    ASSUME IInv, ConfirmOrders
    PROVE  IInv'
<1>1. listed' \in ListedRow
  BY DEF ConfirmOrders, IInv, ListedRow
<1>2. \A n \in Names : claims'[n] = claims[n] \/ claims'[n] = Opened(Total[n[1]], FALSE)
  BY DEF ConfirmOrders
<1>3. \A n \in Names : /\ Opened(Total[n[1]], FALSE) \in ClaimRow
                       /\ SoundClaim(Opened(Total[n[1]], FALSE), n[1], copies)
  <2> SUFFICES ASSUME NEW n \in Names
               PROVE  /\ Opened(Total[n[1]], FALSE) \in ClaimRow
                      /\ SoundClaim(Opened(Total[n[1]], FALSE), n[1], copies)
    OBVIOUS
  <2>1. Total[n[1]] \in Nat /\ Total[n[1]] > 0
    <3>1. n[1] \in Orders
      BY DEF Names
    <3>2. Total[n[1]] \in Nat \ {0}
      BY <3>1, UberAssumption
    <3> QED BY <3>2
  <2> QED BY <2>1, OpenedIsSound
<1>4. claims' \in [Names -> ClaimRow]
  <2>1. DOMAIN claims' = Names /\ claims' = [n \in Names |-> claims'[n]]
    BY DEF ConfirmOrders
  <2>2. \A n \in Names : claims'[n] \in ClaimRow
    BY <1>2, <1>3 DEF IInv
  <2> QED BY <2>1, <2>2
<1>5. ClaimsSound'
  <2>1. UNCHANGED copies
    BY DEF ConfirmOrders
  <2>2. \A n \in Names : claims'[n] = claims[n] \/ SoundClaim(claims'[n], n[1], copies)
    BY <1>2, <1>3
  <2> QED BY <2>1, <2>2, ClaimsStaySound
<1> QED BY <1>1, <1>4, <1>5, Kept DEF ConfirmOrders, IInv

LEMMA SmartStep ==
    ASSUME IInv, (\E f \in Files : PreviewSmart(f)) \/ CancelSmart \/ ExpireSmart
    PROVE  IInv'
<1>1. smart' \in SmartRow
  BY DEF PreviewSmart, CancelSmart, ExpireSmart, IInv, SmartRow
<1> QED BY <1>1, Kept DEF PreviewSmart, CancelSmart, ExpireSmart, IInv

LEMMA PreviewStep ==
    ASSUME IInv, NEW b \in Batches, NEW f \in Files, Preview(b, f)
    PROVE  IInv'
<1>1. Rows(f, FALSE) \in Seq(OrderRow \cup Payments)
  BY RowsAreRows
<1>2. batches' \in [Batches -> BatchRow]
  BY <1>1 DEF Preview, IInv, BatchRow
<1>3. /\ \A c \in Batches : c # b => batches'[c] = batches[c]
      /\ batches[b].status = "none" /\ batches'[b].status = "parsed"
  BY DEF Preview, IInv
<1>4. WorkersLooked' /\ ConfirmedRowsAreStored'
  <2>1. Grows
    BY <1>2, <1>3, NothingStored DEF Preview
  <2> QED BY <1>3, <2>1, GrowingStep DEF Preview
<1> QED BY <1>2, <1>4, Kept DEF Preview, IInv

LEMMA CancelBatchStep ==
    ASSUME IInv, NEW b \in Batches, CancelBatch(b)
    PROVE  IInv'
<1>1. batches' \in [Batches -> BatchRow]
  BY DEF CancelBatch, IInv, BatchRow
<1>2. /\ \A c \in Batches : c # b => batches'[c] = batches[c]
      /\ batches'[b].status = "cancelled" /\ batches'[b].rows = batches[b].rows
  BY DEF CancelBatch, IInv, BatchRow
<1>3. WorkersLooked' /\ ConfirmedRowsAreStored'
  <2>1. Grows
    BY <1>1, <1>2, NothingStored DEF CancelBatch
  <2> QED BY <1>2, <2>1, GrowingStep DEF CancelBatch
<1> QED BY <1>1, <1>3, Kept DEF CancelBatch, IInv

(* A worker that stores nothing and is to store nothing new.               *)
LEMMA FewerOutstanding ==
    ASSUME IInv, UNCHANGED copies,
           \A p \in Payments : Outstanding(p)' \subseteq Outstanding(p)
    PROVE  CopiesCounted'
<1> SUFFICES ASSUME NEW p \in Payments
             PROVE  copies'[p] + Cardinality(Outstanding(p)') <= Cardinality(Workers) + 1
  BY DEF CopiesCounted
<1>1. Outstanding(p) \in SUBSET Workers
  BY DEF Outstanding
<1>2. IsFiniteSet(Outstanding(p)) /\ Cardinality(Outstanding(p)) \in Nat
        /\ Cardinality(Workers) \in Nat
  BY <1>1, UberAssumption, FS_Subset, FS_CardinalityType
<1>3. Cardinality(Outstanding(p)') \in Nat
        /\ Cardinality(Outstanding(p)') <= Cardinality(Outstanding(p))
  BY <1>2, FS_Subset, FS_CardinalityType
<1>4. copies[p] + Cardinality(Outstanding(p)) <= Cardinality(Workers) + 1 /\ copies[p] \in Nat
  BY DEF IInv, CopiesCounted
<1> QED BY <1>2, <1>3, <1>4

LEMMA IdleIsTyped == Idle \in WorkerRow
<1>1. 0 \in 0 .. Cardinality(Stores)
  <2>1. Cardinality(Stores) \in Nat
    BY UberAssumption, FS_CardinalityType
  <2> QED BY <2>1
<1> QED BY <1>1 DEF Idle, WorkerRow

(* A confirmation that ends, is refused or dies. *)
LEMMA StopStep ==
    ASSUME IInv, NEW w \in Workers, RefuseRows(w) \/ Crash(w) \/ EndConfirm(w)
    PROVE  IInv'
<1>1. workers' = [workers EXCEPT ![w] = Idle]
        /\ UNCHANGED <<mapping, snapshots, copies, results, claims, batches, listed>>
  BY DEF RefuseRows, Crash, EndConfirm
<1>2. workers' \in [Workers -> WorkerRow] /\ workers'[w] = Idle
        /\ \A v \in Workers : v # w => workers'[v] = workers[v]
  BY <1>1, IdleIsTyped DEF IInv
<1>3. smart' \in SmartRow
  BY DEF RefuseRows, Crash, EndConfirm, IInv, SmartRow
<1>4. CopiesCounted'
  <2>1. \A p \in Payments : Outstanding(p)' \subseteq Outstanding(p)
    BY <1>2 DEF Outstanding, Idle
  <2> QED BY <1>1, <2>1, FewerOutstanding
<1>5. WorkersLooked' /\ ConfirmedRowsAreStored'
  <2>1. Grows
    BY <1>1, NothingStored DEF IInv
  <2>2. LookedAt(workers'[w], batches', snapshots', copies')
    BY <1>2 DEF Idle, LookedAt
  <2> QED BY <1>1, <1>2, <2>1, <2>2, GrowingStep
<1> QED BY <1>1, <1>2, <1>3, <1>4, <1>5, Kept DEF IInv

(***************************************************************************)
(* A confirmation looks                                                    *)
(***************************************************************************)
LEMMA LookIsTyped ==
    ASSUME IInv, NEW b \in Batches, NEW rows \in Seq(OrderRow \cup Payments),
           NEW t \in Targets(rows), NEW bySmart \in BOOLEAN
    PROVE  /\ Look(b, rows, t, bySmart) \in WorkerRow
           /\ Covered(rows, Look(b, rows, t, bySmart), snapshots, copies)
<1> DEFINE me == Look(b, rows, t, bySmart)
<1>1. \A r \in ToSet(rows) : IF r.kind = "order" THEN r \in OrderRow ELSE r \in Payments
  BY RowsHaveKinds
<1>2. Missing(rows) \subseteq Payments
  BY <1>1 DEF Missing, PaymentsOf
<1>3. t \in [Orders -> 0 .. Cardinality(Stores)]
  BY DEF Targets
<1>4. me \in WorkerRow
  BY <1>2, <1>3 DEF Look, WorkerRow
<1>5. ASSUME NEW r \in ToSet(rows)
      PROVE  IF r.kind = "order" THEN me.target[r.order] \in {0} \cup DOMAIN snapshots[r.order]
             ELSE r \in me.missing \/ copies[r] > 0
  <2>1. CASE r.kind = "order"
    <3>1. r.order \in Orders
      BY <1>1, <2>1 DEF OrderRow
    <3>2. t[r.order] \in {0} \cup DOMAIN snapshots[r.order]
      BY <3>1 DEF Targets
    <3> QED BY <2>1, <3>2 DEF Look
  <2>2. CASE r.kind # "order"
    <3>1. r \in Payments /\ copies[r] \in Nat
      BY <1>1, <2>2 DEF IInv
    <3>2. r \in Missing(rows) \/ copies[r] > 0
      BY <2>2, <3>1 DEF Missing, PaymentsOf
    <3> QED BY <2>2, <3>2 DEF Look
  <2> QED BY <2>1, <2>2
<1> QED BY <1>4, <1>5 DEF Covered

(* A worker that looked is to store only payments it found missing. *)
LEMMA LookIsCounted ==
    ASSUME IInv, UNCHANGED copies, NEW w \in Workers, NEW b, NEW rows, NEW t, NEW bySmart,
           workers' = [workers EXCEPT ![w] = Look(b, rows, t, bySmart)]
    PROVE  CopiesCounted'
<1> SUFFICES ASSUME NEW p \in Payments
             PROVE  copies[p] + Cardinality(Outstanding(p)') <= Cardinality(Workers) + 1
  BY DEF CopiesCounted
<1>1. IsFiniteSet(Outstanding(p)) /\ Cardinality(Outstanding(p)) \in Nat
        /\ Cardinality(Workers) \in Nat /\ IsFiniteSet(Outstanding(p)')
        /\ Cardinality(Outstanding(p)') \in Nat
        /\ Cardinality(Outstanding(p)') <= Cardinality(Workers)
  <2>1. Outstanding(p) \in SUBSET Workers /\ Outstanding(p)' \in SUBSET Workers
    BY DEF Outstanding
  <2> QED BY <2>1, UberAssumption, FS_Subset, FS_CardinalityType
<1>2. copies[p] + Cardinality(Outstanding(p)) <= Cardinality(Workers) + 1 /\ copies[p] \in Nat
  BY DEF IInv, CopiesCounted
<1>3. workers'[w] = Look(b, rows, t, bySmart) /\ \A v \in Workers : v # w => workers'[v] = workers[v]
  BY DEF IInv
<1>4. CASE p \in Missing(rows)
  <2>1. copies[p] = 0
    BY <1>4 DEF Missing
  <2> QED BY <1>1, <2>1
<1>5. CASE p \notin Missing(rows)
  <2>1. Outstanding(p)' \subseteq Outstanding(p)
    BY <1>3, <1>5 DEF Outstanding, Look
  <2>2. Cardinality(Outstanding(p)') <= Cardinality(Outstanding(p))
    BY <1>1, <2>1, FS_Subset
  <2> QED BY <1>1, <1>2, <2>2
<1> QED BY <1>4, <1>5

LEMMA BeginConfirmStep ==
    ASSUME IInv, NEW w \in Workers, NEW b \in Batches, BeginConfirm(w, b)
    PROVE  IInv'
<1> DEFINE rows == batches[b].rows
<1>1. PICK t \in Targets(rows) : workers' = [workers EXCEPT ![w] = Look(b, rows, t, FALSE)]
  BY DEF BeginConfirm
<1>2. UNCHANGED <<mapping, snapshots, copies, results, claims, batches, listed, smart>>
        /\ batches[b].status = "parsed"
  BY DEF BeginConfirm
<1>3. rows \in Seq(OrderRow \cup Payments)
  BY DEF IInv, BatchRow
<1>4. Look(b, rows, t, FALSE) \in WorkerRow
        /\ Covered(rows, Look(b, rows, t, FALSE), snapshots, copies)
  BY <1>3, LookIsTyped
<1>5. workers' \in [Workers -> WorkerRow] /\ workers'[w] = Look(b, rows, t, FALSE)
        /\ \A v \in Workers : v # w => workers'[v] = workers[v]
  BY <1>1, <1>4 DEF IInv
<1>6. CopiesCounted'
  BY <1>1, <1>2, LookIsCounted
<1>7. WorkersLooked' /\ ConfirmedRowsAreStored'
  <2>1. Grows
    BY <1>2, NothingStored DEF IInv
  <2>2. LookedAt(workers'[w], batches', snapshots', copies')
    BY <1>2, <1>4, <1>5 DEF Look, LookedAt
  <2> QED BY <1>2, <1>5, <2>1, <2>2, GrowingStep
<1> QED BY <1>2, <1>5, <1>6, <1>7, Kept DEF IInv

LEMMA ConfirmSmartStep ==
    ASSUME IInv, NEW w \in Workers, NEW b \in Batches, NEW override \in BOOLEAN,
           ConfirmSmart(w, b, override)
    PROVE  IInv'
<1> DEFINE rows == Rows(smart.file, override)
<1>1. PICK t \in Targets(rows) : workers' = [workers EXCEPT ![w] = Look(b, rows, t, TRUE)]
  BY DEF ConfirmSmart
<1>2. UNCHANGED <<mapping, snapshots, copies, results, claims, listed, smart>>
        /\ batches[b].status = "none"
        /\ batches' = [batches EXCEPT ![b] = [status |-> "parsed", file |-> smart.file,
                                                  rows |-> rows]]
  BY DEF ConfirmSmart
<1>3. smart.file \in Files \cup {<<>>}
  BY DEF IInv, SmartRow
<1>4. rows \in Seq(OrderRow \cup Payments)
  BY <1>3, RowsAreRows
<1> HIDE DEF rows
<1>5. Look(b, rows, t, TRUE) \in WorkerRow
        /\ Covered(rows, Look(b, rows, t, TRUE), snapshots, copies)
  BY <1>4, LookIsTyped
<1>6. workers' \in [Workers -> WorkerRow] /\ workers'[w] = Look(b, rows, t, TRUE)
        /\ \A v \in Workers : v # w => workers'[v] = workers[v]
  BY <1>1, <1>5 DEF IInv
<1>7. /\ batches' \in [Batches -> BatchRow]
      /\ \A c \in Batches : c # b => batches'[c] = batches[c]
      /\ batches'[b].status = "parsed" /\ batches'[b].rows = rows
  BY <1>2, <1>3, <1>4 DEF IInv, BatchRow
<1>8. CopiesCounted'
  BY <1>1, <1>2, LookIsCounted
<1>9. WorkersLooked' /\ ConfirmedRowsAreStored'
  <2>1. Grows
    BY <1>2, <1>7, NothingStored
  <2>2. LookedAt(workers'[w], batches', snapshots', copies')
    BY <1>2, <1>5, <1>6, <1>7 DEF Look, LookedAt
  <2> QED BY <1>6, <1>7, <2>1, <2>2, GrowingStep
<1> QED BY <1>2, <1>6, <1>7, <1>8, <1>9, Kept DEF IInv

(***************************************************************************)
(* Snapshots                                                               *)
(***************************************************************************)
Snapshots == {sns \in Seq(Snapshot) : OneEach(sns)}

(* A snapshot of a store that the others do not have may take its place    *)
(* among them.                                                             *)
LEMMA SnapshotPlaced ==
    ASSUME NEW sns \in Snapshots, NEW new \in Snapshot, NEW i \in {0} \cup DOMAIN sns,
           \A k \in DOMAIN sns : k # i => sns[k].store # new.store
    PROVE  LET all == IF i = 0 THEN Append(sns, new) ELSE [sns EXCEPT ![i] = new]
           IN  /\ all \in Snapshots
               /\ DOMAIN sns \subseteq DOMAIN all
               /\ \E k \in DOMAIN all : all[k] = new
<1>1. sns \in Seq(Snapshot) /\ Len(sns) \in Nat /\ DOMAIN sns = 1 .. Len(sns) /\ OneEach(sns)
  BY DEF Snapshots
<1>2. CASE i = 0
  <2> DEFINE all == Append(sns, new)
  <2>1. /\ all \in Seq(Snapshot) /\ DOMAIN all = 1 .. Len(sns) + 1
        /\ \A k \in 1 .. Len(sns) : all[k] = sns[k]
        /\ all[Len(sns) + 1] = new
    BY <1>1, AppendProperties
  <2> HIDE DEF all
  <2>2. \A k \in DOMAIN all : k = Len(sns) + 1 \/ k \in DOMAIN sns
    BY <1>1, <2>1
  <2>3. OneEach(all)
    <3> SUFFICES ASSUME NEW j \in DOMAIN all, NEW k \in DOMAIN all, all[j].store = all[k].store
                 PROVE  j = k
      BY DEF OneEach
    <3>1. \A l \in DOMAIN sns : sns[l].store # new.store
      BY <1>1, <1>2
    <3> QED BY <1>1, <2>1, <2>2, <3>1 DEF OneEach
  <2>4. Len(sns) + 1 \in DOMAIN all /\ DOMAIN sns \subseteq DOMAIN all
    BY <1>1, <2>1
  <2>5. all \in Snapshots /\ \E k \in DOMAIN all : all[k] = new
    BY <2>1, <2>3, <2>4 DEF Snapshots
  <2> QED BY <1>2, <2>4, <2>5 DEF all
<1>3. CASE i # 0
  <2> DEFINE all == [sns EXCEPT ![i] = new]
  <2>1. i \in DOMAIN sns
    BY <1>3
  <2>2. /\ all \in Seq(Snapshot) /\ DOMAIN all = DOMAIN sns /\ all[i] = new
        /\ \A k \in DOMAIN sns : k # i => all[k] = sns[k]
    BY <1>1, <2>1, ExceptSeq
  <2> HIDE DEF all
  <2>3. OneEach(all)
    BY <1>1, <2>1, <2>2 DEF OneEach
  <2>4. all \in Snapshots /\ \E k \in DOMAIN all : all[k] = new
    BY <2>1, <2>2, <2>3 DEF Snapshots
  <2> QED BY <1>3, <2>2, <2>4 DEF all
<1> QED BY <1>2, <1>3

LEMMA SnapshotsTyped ==
    ASSUME IInv
    PROVE  snapshots \in [Orders -> Snapshots]
BY DEF IInv, SnapshotsOK, Snapshots

(* A feed leaves one snapshot of the store for the order. *)
LEMMA CapturedIs ==
    ASSUME IInv, NEW o \in Orders, NEW s \in Stores, NEW answered \in BOOLEAN
    PROVE  LET sn == Captured(o, s, answered)
           IN  /\ sn.it \in Snapshot
               /\ sn.all \in Snapshots
               /\ DOMAIN snapshots[o] \subseteq DOMAIN sn.all
               /\ \E k \in DOMAIN sn.all : sn.all[k] = sn.it
<1> DEFINE sns == snapshots[o]
           I == {k \in 1 .. Len(sns) : sns[k].store = s}
           i == SelectInSeq(sns, LAMBDA sn : sn.store = s)
           old == IF i = 0 THEN [store |-> s, short |-> FALSE, cancelled |-> TRUE,
                                 amount |-> 0, placed |-> FALSE]
                           ELSE [sns[i] EXCEPT !.cancelled = TRUE]
           new == IF answered THEN [old EXCEPT !.short = TRUE, !.amount = Total[o], !.placed = TRUE]
                              ELSE old
           all == IF i = 0 THEN Append(sns, new) ELSE [sns EXCEPT ![i] = new]
<1>1. sns \in Snapshots /\ sns \in Seq(Snapshot) /\ Len(sns) \in Nat /\ DOMAIN sns = 1 .. Len(sns)
        /\ OneEach(sns)
  BY SnapshotsTyped DEF Snapshots
<1>2. i = IF I # {} THEN Min(I) ELSE 0
  BY DEF SelectInSeq
<1>3. I # {} => Min(I) \in I
  <2> SUFFICES ASSUME I # {}
               PROVE  Min(I) \in I
    OBVIOUS
  <2>1. I \in SUBSET Nat
    OBVIOUS
  <2> HIDE DEF I
  <2>2. \E x \in I : \A y \in I : x <= y
    BY <2>1, FirstRow
  <2> QED BY <2>2 DEF Min
<1> HIDE DEF i
<1>4. /\ i \in {0} \cup DOMAIN sns
      /\ i # 0 => sns[i].store = s /\ sns[i] \in Snapshot
      /\ \A k \in DOMAIN sns : sns[k].store = s => k = i
  <2>1. CASE I = {}
    BY <1>1, <1>2, <2>1
  <2>2. CASE I # {}
    <3>1. i \in I
      BY <1>2, <1>3, <2>2
    <3>2. i \in DOMAIN sns /\ sns[i].store = s /\ i # 0
      BY <1>1, <3>1
    <3>3. sns[i] \in Snapshot
      BY <1>1, <3>2
    <3> QED BY <1>1, <3>2, <3>3 DEF OneEach
  <2> QED BY <2>1, <2>2
<1>5. old \in Snapshot /\ old.store = s
  BY <1>4 DEF Snapshot
<1>6. Total[o] \in Nat
  BY UberAssumption
<1> HIDE DEF old
<1>7. new \in Snapshot /\ new.store = s
  BY <1>5, <1>6 DEF Snapshot
<1>8. Captured(o, s, answered) = [all |-> all, it |-> new]
  BY DEF Captured, i, old
<1> HIDE DEF new, sns
<1>9. \A k \in DOMAIN sns : k # i => sns[k].store # new.store
  BY <1>4, <1>7
<1>10. /\ all \in Snapshots /\ DOMAIN sns \subseteq DOMAIN all
       /\ \E k \in DOMAIN all : all[k] = new
  BY <1>1, <1>4, <1>7, <1>9, SnapshotPlaced
<1> HIDE DEF all
<1> QED BY <1>7, <1>8, <1>10 DEF sns

(* Snapshots of each order placed anew, where no batch and no payment      *)
(* changes.                                                                *)
LEMMA SnapshotsGrow ==
    ASSUME IInv, UNCHANGED <<copies, batches>>,
           snapshots' \in [Orders -> Snapshots],
           \A o \in Orders : DOMAIN snapshots[o] \subseteq DOMAIN snapshots'[o]
    PROVE  Grows
<1>1. SnapshotsOK'
  BY DEF SnapshotsOK, Snapshots
<1>2. \A p \in Payments : copies[p] <= copies[p]
  BY DEF IInv
<1> QED BY <1>1, <1>2 DEF Grows, IInv

LEMMA NamesAre ==
    ASSUME NEW o \in Orders, NEW short \in BOOLEAN
    PROVE  /\ Uuid(o) \in Names /\ Short(o) \in Names /\ Uuid(o) # Short(o)
           /\ NumberOf(o, short) \in {Uuid(o), Short(o)}
           /\ NumberOf(o, short) \in {Uuid(o)} \cup (IF short THEN {Short(o)} ELSE {})
           /\ \A n \in Filed(o, short) : n \in {Uuid(o), Short(o)} /\ claims[n].status # "none"
           /\ Filed(o, short) = {} => claims[NumberOf(o, short)].status = "none"
BY DEF Uuid, Short, NumberOf, Names, Filed

LEMMA CaptureStep ==
    ASSUME IInv, NEW o \in Orders, NEW s \in Stores, NEW answered \in BOOLEAN,
           Capture(o, s, answered)
    PROVE  IInv'
<1> DEFINE sn == Captured(o, s, answered)
           filed == Filed(o, sn.it.short)
           n0 == NumberOf(o, sn.it.short)
<1>1. /\ sn.it \in Snapshot /\ sn.all \in Snapshots
      /\ DOMAIN snapshots[o] \subseteq DOMAIN sn.all
  BY CapturedIs
<1>2. /\ snapshots' = [snapshots EXCEPT ![o] = sn.all]
      /\ IF filed = {} THEN claims' = [claims EXCEPT ![n0] = Opened(sn.it.amount, TRUE)]
         ELSE \E n \in filed : claims' = [claims EXCEPT ![n].amount = IF @ = 0 THEN sn.it.amount
                                                                      ELSE @]
      /\ UNCHANGED <<mapping, copies, results, batches, listed, smart, workers>>
  BY DEF Capture
<1>3. sn.it.amount \in Nat /\ sn.it.short \in BOOLEAN
  BY <1>1 DEF Snapshot
<1> HIDE DEF sn
<1>4. n0 \in Names /\ filed \subseteq Names
  BY <1>3, NamesAre
<1>5. snapshots' \in [Orders -> Snapshots]
        /\ \A p \in Orders : DOMAIN snapshots[p] \subseteq DOMAIN snapshots'[p]
  BY <1>1, <1>2, SnapshotsTyped
<1>6. Grows
  BY <1>2, <1>5, SnapshotsGrow
<1>7. SnapshotsOK' /\ WorkersLooked' /\ ConfirmedRowsAreStored'
  BY <1>2, <1>6, GrowingStep DEF Grows
<1>8. claims' \in [Names -> ClaimRow] /\ ClaimsSound'
  <2>1. CASE filed = {}
    <3>1. claims' = [claims EXCEPT ![n0] = Opened(sn.it.amount, TRUE)]
      BY <1>2, <2>1
    <3>2. /\ Opened(sn.it.amount, TRUE) \in ClaimRow
          /\ SoundClaim(Opened(sn.it.amount, TRUE), n0[1], copies)
      BY <1>3, OpenedIsSound
    <3> HIDE DEF n0, filed
    <3>3. claims' \in [Names -> ClaimRow]
      BY <3>1, <3>2 DEF IInv
    <3>4. \A n \in Names : claims'[n] = claims[n] \/ SoundClaim(claims'[n], n[1], copies)
      BY <3>1, <3>2 DEF IInv
    <3> QED BY <1>2, <3>3, <3>4, ClaimsStaySound
  <2>2. CASE filed # {}
    <3>1. PICK n \in filed : claims' = [claims EXCEPT ![n].amount = IF @ = 0 THEN sn.it.amount ELSE @]
      BY <1>2, <2>2
    <3>2. n \in Names /\ claims \in [Names -> ClaimRow] /\ claims[n] \in ClaimRow
            /\ claims[n].status # "none"
      BY <1>3, <1>4, NamesAre DEF IInv
    <3> DEFINE new == [claims[n] EXCEPT !.amount = IF claims[n].amount = 0 THEN sn.it.amount
                                                   ELSE claims[n].amount]
    <3>3. claims' = [claims EXCEPT ![n] = new]
      BY <3>1, <3>2
    <3>4. new \in ClaimRow
      BY <1>3, <3>2 DEF ClaimRow
    <3>5. SoundClaim(claims[n], n[1], copies)
      BY <3>2 DEF IInv, ClaimsSound
    <3>6. claims[n].amount \in Nat /\ (claims[n].amount = 0 => claims[n].live)
      BY <3>2, <3>5 DEF ClaimRow, SoundClaim
    <3>7. SoundClaim(new, n[1], copies)
      <4>1. CASE claims[n].amount = 0
        <5>1. new.live /\ new.status = claims[n].status /\ new.recovered = claims[n].recovered
          BY <3>2, <3>6, <4>1 DEF ClaimRow
        <5> HIDE DEF new
        <5> QED BY <3>5, <5>1 DEF SoundClaim
      <4>2. CASE claims[n].amount # 0
        <5>1. new = claims[n]
          BY <3>2, <4>2 DEF ClaimRow
        <5> QED BY <3>5, <5>1
      <4> QED BY <4>1, <4>2
    <3> HIDE DEF new, filed
    <3>8. claims' \in [Names -> ClaimRow]
            /\ \A m \in Names : claims'[m] = claims[m] \/ SoundClaim(claims'[m], m[1], copies)
      BY <3>2, <3>3, <3>4, <3>7
    <3> QED BY <1>2, <3>8, ClaimsStaySound
  <2> QED BY <2>1, <2>2
<1> QED BY <1>2, <1>7, <1>8, Kept DEF IInv

(***************************************************************************)
(* The rows are stored                                                     *)
(***************************************************************************)
LEMMA ReportedIsTyped ==
    ASSUME NEW r \in OrderRow
    PROVE  Reported(r) \in Snapshot /\ Reported(r).store = r.store /\ r.order \in Orders
<1>1. r.order \in Orders /\ r.store \in Stores /\ r.short \in BOOLEAN /\ r.cancelled \in BOOLEAN
  BY DEF OrderRow
<1>2. Total[r.order] \in Nat
  BY <1>1, UberAssumption
<1> QED BY <1>1, <1>2 DEF Reported, Snapshot

LEMMA ImportedIs ==
    ASSUME IInv, NEW rows \in Seq(OrderRow \cup Payments), NEW target,
           \A r \in OrderRowsOf(rows) : /\ target[r.order] \in {0} \cup DOMAIN snapshots[r.order]
                                        /\ ~ Clash(r, target[r.order])
    PROVE  LET snaps == Imported(rows, target)
           IN  /\ snaps \in [Orders -> Snapshots]
               /\ \A o \in Orders : DOMAIN snapshots[o] \subseteq DOMAIN snaps[o]
               /\ \A r \in OrderRowsOf(rows) : snaps[r.order] # <<>>
<1> DEFINE snaps == Imported(rows, target)
           found(o) == {r \in OrderRowsOf(rows) : r.order = o}
<1>1. \A r \in OrderRowsOf(rows) : r \in OrderRow
  BY RowsHaveKinds DEF OrderRowsOf
<1>2. \A o \in Orders : snaps[o] =
         LET new == Reported(CHOOSE r \in found(o) : TRUE)
         IN  IF found(o) = {} THEN snapshots[o]
             ELSE IF target[o] = 0 THEN Append(snapshots[o], new)
             ELSE [snapshots[o] EXCEPT ![target[o]] = new]
  BY DEF Imported
<1>3. snaps = [o \in Orders |-> snaps[o]]
  BY DEF Imported
<1> HIDE DEF snaps
<1>4. ASSUME NEW o \in Orders
      PROVE  /\ snaps[o] \in Snapshots
             /\ DOMAIN snapshots[o] \subseteq DOMAIN snaps[o]
             /\ found(o) # {} => snaps[o] # <<>>
  <2>1. snapshots[o] \in Snapshots
    BY SnapshotsTyped
  <2>2. CASE found(o) = {}
    BY <1>2, <2>1, <2>2
  <2>3. CASE found(o) # {}
    <3> DEFINE r == CHOOSE r \in found(o) : TRUE
               i == target[o]
               sns == snapshots[o]
               new == Reported(r)
    <3>1. r \in OrderRowsOf(rows) /\ r.order = o
      BY <2>3
    <3> HIDE DEF r
    <3>2. r \in OrderRow /\ i \in {0} \cup DOMAIN snapshots[o] /\ ~ Clash(r, i)
      BY <1>1, <3>1
    <3>3. Reported(r) \in Snapshot /\ Reported(r).store = r.store
      BY <3>2, ReportedIsTyped
    <3>4. \A k \in DOMAIN snapshots[o] : k # i => snapshots[o][k].store # Reported(r).store
      BY <3>1, <3>2, <3>3 DEF Clash
    <3>5. snaps[o] = IF i = 0 THEN Append(snapshots[o], Reported(r))
                     ELSE [snapshots[o] EXCEPT ![i] = Reported(r)]
      BY <1>2, <2>3 DEF r
    <3>6. /\ snaps[o] \in Snapshots /\ DOMAIN sns \subseteq DOMAIN snaps[o]
          /\ \E k \in DOMAIN snaps[o] : snaps[o][k] = new
      <4>1. /\ sns \in Snapshots /\ new \in Snapshot /\ i \in {0} \cup DOMAIN sns
            /\ \A k \in DOMAIN sns : k # i => sns[k].store # new.store
            /\ snaps[o] = IF i = 0 THEN Append(sns, new) ELSE [sns EXCEPT ![i] = new]
        BY <2>1, <3>2, <3>3, <3>4, <3>5
      <4> HIDE DEF sns, new, i
      <4> QED BY <4>1, SnapshotPlaced
    <3>7. snaps[o] # <<>>
      <4>1. DOMAIN <<>> = {}
        OBVIOUS
      <4> QED BY <3>6, <4>1
    <3> QED BY <3>6, <3>7
  <2> QED BY <2>2, <2>3
<1>5. snaps \in [Orders -> Snapshots]
  BY <1>3, <1>4
<1>6. \A r \in OrderRowsOf(rows) : r.order \in Orders /\ r \in found(r.order)
  BY <1>1, ReportedIsTyped
<1> QED BY <1>4, <1>5, <1>6 DEF snaps

(* Claims that were sound are, when more rows of payments are stored. *)
LEMMA MoreIsSound ==
    ASSUME IInv, NEW more \in [Payments -> Nat], \A p \in Payments : copies[p] <= more[p]
    PROVE  claims \in SoundClaims(more)
<1>1. ASSUME NEW n \in Names
      PROVE  SoundClaim(claims[n], n[1], more)
  <2>1. SoundClaim(claims[n], n[1], copies) /\ claims[n] \in ClaimRow
    BY DEF IInv, ClaimsSound
  <2>2. PaymentsOfOrder(n[1]) \in SUBSET Payments /\ copies \in [Payments -> Nat]
    BY DEF PaymentsOfOrder, IInv
  <2> DEFINE before == Money(PaymentsOfOrder(n[1]), copies)
             after == Money(PaymentsOfOrder(n[1]), more)
  <2>3. before <= after /\ before \in Nat /\ after \in Nat
    BY <2>2, MoneyGrows, MoneyIsNumber
  <2>4. claims[n].recovered \in Nat
    BY <2>1 DEF ClaimRow
  <2>5. claims[n].recovered <= before => claims[n].recovered <= after
    <3> HIDE DEF before, after
    <3> QED BY <2>3, <2>4
  <2> QED BY <2>1, <2>5 DEF SoundClaim
<1> QED BY <1>1 DEF IInv, SoundClaims

LEMMA CommitRowsStep ==
    ASSUME IInv, NEW w \in Workers, CommitRows(w)
    PROVE  IInv'
<1> DEFINE me == workers[w]
           b == me.batch
           rows == batches[b].rows
           snaps == Imported(rows, me.target)
           stored == [p \in Payments |-> copies[p] + (IF p \in me.missing THEN 1 ELSE 0)]
<1>1. /\ me.pc = "rows"
      /\ \A r \in OrderRowsOf(rows) : ~ Clash(r, me.target[r.order])
      /\ snapshots' = snaps
      /\ copies' = stored
      /\ claims' = Applied(rows, snaps, stored)
      /\ batches' = [batches EXCEPT ![b].status = "confirmed"]
      /\ workers' = [workers EXCEPT ![w].pc = "reconcile"]
      /\ UNCHANGED <<mapping, results, listed, smart>>
  BY DEF CommitRows
<1>2. /\ me \in WorkerRow /\ b \in Batches /\ batches[b].status # "none"
      /\ Covered(rows, me, snapshots, copies)
  BY <1>1 DEF IInv, WorkersLooked, LookedAt
<1>3. rows \in Seq(OrderRow \cup Payments) /\ batches[b] \in BatchRow
  BY <1>2 DEF IInv, BatchRow
<1>4. \A r \in ToSet(rows) : IF r.kind = "order" THEN r \in OrderRow ELSE r \in Payments
  BY <1>3, RowsHaveKinds
<1>5. /\ snaps \in [Orders -> Snapshots]
      /\ \A o \in Orders : DOMAIN snapshots[o] \subseteq DOMAIN snaps[o]
      /\ \A r \in OrderRowsOf(rows) : snaps[r.order] # <<>>
  <2>1. \A r \in OrderRowsOf(rows) : me.target[r.order] \in {0} \cup DOMAIN snapshots[r.order]
    BY <1>2 DEF Covered, OrderRowsOf
  <2> QED BY <1>1, <1>3, <2>1, ImportedIs
<1>6. /\ stored \in [Payments -> Nat] /\ \A p \in Payments : copies[p] <= stored[p]
      /\ \A p \in Payments : p \in me.missing \/ copies[p] > 0 => stored[p] > 0
  BY DEF IInv
<1>7. /\ batches' \in [Batches -> BatchRow]
      /\ \A c \in Batches : c # b => batches'[c] = batches[c]
      /\ batches'[b].status = "confirmed" /\ batches'[b].rows = rows
  BY <1>1, <1>2, <1>3 DEF IInv, BatchRow
<1>8. /\ workers' \in [Workers -> WorkerRow]
      /\ \A v \in Workers : v # w => workers'[v] = workers[v]
      /\ workers'[w].pc = "reconcile" /\ workers'[w].batch = b
      /\ workers'[w].missing = me.missing
  BY <1>1, <1>2 DEF IInv, WorkerRow
<1> HIDE DEF snaps, stored
<1>9. Grows
  <2>1. SnapshotsOK'
    BY <1>1, <1>5 DEF SnapshotsOK, Snapshots
  <2>2. \A c \in Batches : batches[c].status # "none" =>
           batches'[c].status # "none" /\ batches'[c].rows = batches[c].rows
    BY <1>7
  <2> QED BY <1>1, <1>5, <1>6, <1>7, <2>1, <2>2 DEF Grows
<1>10. WorkersLooked' /\ ConfirmedRowsAreStored'
  <2>1. LookedAt(workers'[w], batches', snapshots', copies')
    BY <1>2, <1>7, <1>8 DEF LookedAt
  <2>2. RowsStored(rows, snaps, stored)
    <3> SUFFICES ASSUME NEW r \in ToSet(rows)
                 PROVE  IF r.kind = "order" THEN snaps[r.order] # <<>> ELSE stored[r] > 0
      BY DEF RowsStored
    <3>1. CASE r.kind = "order"
      BY <1>5, <3>1 DEF OrderRowsOf
    <3>2. CASE r.kind # "order"
      <4>1. r \in me.missing \/ copies[r] > 0
        BY <1>2, <3>2 DEF Covered
      <4>2. r \in Payments
        BY <1>4, <3>2
      <4> QED BY <1>6, <3>2, <4>1, <4>2
    <3> QED BY <3>1, <3>2
  <2>3. RowsStored(batches'[b].rows, snapshots', copies')
    BY <1>1, <1>7, <2>2
  <2> QED BY <1>7, <1>8, <1>9, <2>1, <2>3, GrowingStep
<1>11. claims' \in SoundClaims(stored)
  <2>1. \A r \in ToSet(rows) : r.kind # "order" => r \in Payments /\ stored[r] > 0
    BY <1>2, <1>4, <1>6 DEF Covered
  <2>2. claims \in SoundClaims(stored)
    BY <1>6, MoreIsSound
  <2> QED BY <1>1, <1>3, <1>6, <2>1, <2>2, SettlingKeeps
<1>12. claims' \in [Names -> ClaimRow] /\ ClaimsSound'
  BY <1>1, <1>11 DEF SoundClaims, ClaimsSound
<1>13. CopiesCounted'
  <2> SUFFICES ASSUME NEW p \in Payments
               PROVE  stored[p] + Cardinality(Outstanding(p)') <= Cardinality(Workers) + 1
    BY <1>1 DEF CopiesCounted
  <2>1. IsFiniteSet(Outstanding(p)) /\ Cardinality(Outstanding(p)) \in Nat
          /\ Cardinality(Workers) \in Nat
    <3>1. Outstanding(p) \in SUBSET Workers
      BY DEF Outstanding
    <3> QED BY <3>1, UberAssumption, FS_Subset, FS_CardinalityType
  <2>2. copies[p] + Cardinality(Outstanding(p)) <= Cardinality(Workers) + 1 /\ copies[p] \in Nat
    BY DEF IInv, CopiesCounted
  <2>3. Outstanding(p)' = Outstanding(p) \ {w}
    BY <1>8 DEF Outstanding
  <2>4. CASE p \in me.missing
    <3>1. w \in Outstanding(p)
      BY <1>1, <2>4 DEF Outstanding
    <3>2. Cardinality(Outstanding(p)') = Cardinality(Outstanding(p)) - 1
      BY <2>1, <2>3, <3>1, FS_RemoveElement
    <3>3. stored[p] = copies[p] + 1
      BY <2>4 DEF stored
    <3> QED BY <2>1, <2>2, <3>2, <3>3
  <2>5. CASE p \notin me.missing
    <3>1. Outstanding(p)' = Outstanding(p)
      BY <2>3, <2>5 DEF Outstanding
    <3>2. stored[p] = copies[p] + 0
      BY <2>5 DEF stored
    <3> QED BY <2>1, <2>2, <3>1, <3>2
  <2> QED BY <2>4, <2>5
<1> QED BY <1>1, <1>6, <1>7, <1>8, <1>9, <1>10, <1>12, <1>13, Kept DEF IInv, Grows

(***************************************************************************)
(* The repair                                                              *)
(***************************************************************************)
LEMMA FileRowsHaveKinds ==
    ASSUME NEW f \in Files \cup {<<>>}
    PROVE  /\ Len(f) \in Nat /\ DOMAIN f = 1 .. Len(f)
           /\ \A i \in DOMAIN f : IF f[i].kind = "order" THEN f[i] \in OrderRow ELSE f[i] \in Payments
<1>1. f \in Seq(OrderRow \cup PaymentRow)
  BY FilesAssumption, EmptySeq
<1>2. Len(f) \in Nat /\ DOMAIN f = 1 .. Len(f)
  BY <1>1
<1>3. ASSUME NEW i \in DOMAIN f
      PROVE  IF f[i].kind = "order" THEN f[i] \in OrderRow ELSE f[i] \in Payments
  <2>1. f[i] \in OrderRow \cup PaymentRow /\ f \in Files /\ f[i] \in ToSet(f)
    BY <1>1, <1>3 DEF ToSet
  <2>2. CASE f[i].kind = "order"
    BY <2>1, <2>2 DEF PaymentRow
  <2>3. CASE f[i].kind # "order"
    BY <2>1, <2>3 DEF Payments
  <2> QED BY <2>2, <2>3
<1> QED BY <1>2, <1>3

LEMMA OneSnapshot ==
    ASSUME NEW new \in Snapshot
    PROVE  <<new>> \in Snapshots
<1>1. <<new>> \in Seq(Snapshot) /\ DOMAIN <<new>> = {1}
  OBVIOUS
<1> QED BY <1>1 DEF Snapshots, OneEach

(* The repair gives a snapshot to orders that had none. *)
LEMMA RepairedIs ==
    ASSUME IInv, NEW f \in Files \cup {<<>>}
    PROVE  /\ Repaired(f) \in [Orders -> Snapshots]
           /\ \A o \in Orders : DOMAIN snapshots[o] \subseteq DOMAIN Repaired(f)[o]
<1> DEFINE found(o) == {i \in Repairable(f) : f[i].kind = "order" /\ f[i].order = o}
<1>1. ASSUME NEW o \in Orders
      PROVE  /\ Repaired(f)[o] \in Snapshots
             /\ DOMAIN snapshots[o] \subseteq DOMAIN Repaired(f)[o]
  <2>1. Repaired(f)[o] = IF found(o) = {} THEN snapshots[o] ELSE <<Reported(f[Max(found(o))])>>
    BY DEF Repaired
  <2>2. CASE found(o) = {}
    BY <2>1, <2>2, SnapshotsTyped
  <2>3. CASE found(o) # {}
    <3> DEFINE F == found(o)
               i == Max(F)
    <3>1. i \in F
      <4>1. F \in SUBSET (1 .. Len(f)) /\ Len(f) \in Nat
        BY FileRowsHaveKinds DEF Repairable
      <4> HIDE DEF F
      <4> QED BY <2>3, <4>1, MaxIsPlace DEF F
    <3> HIDE DEF i
    <3>2. i \in DOMAIN f /\ f[i].kind = "order" /\ f[i].order = o /\ ~ Existing(f[i])
      BY <3>1 DEF Repairable
    <3>3. Reported(f[i]) \in Snapshot
      BY <3>2, FileRowsHaveKinds, ReportedIsTyped
    <3>4. snapshots[o] = <<>>
      BY <3>2 DEF Existing
    <3>5. DOMAIN snapshots[o] = {}
      BY <3>4
    <3>6. Repaired(f)[o] = <<Reported(f[i])>>
      BY <2>1, <2>3 DEF i
    <3> QED BY <3>3, <3>5, <3>6, OneSnapshot
  <2> QED BY <2>2, <2>3
<1>2. Repaired(f) = [o \in Orders |-> Repaired(f)[o]]
  BY DEF Repaired
<1> QED BY <1>1, <1>2

LEMMA RepairStep ==
    ASSUME IInv, NEW b \in Batches, Repair(b)
    PROVE  IInv'
<1> DEFINE f == batches[b].file
           mended(p) == \E i \in Repairable(f) : f[i] = p
<1>1. /\ snapshots' = Repaired(f)
      /\ copies' = [p \in Payments |-> IF mended(p) THEN 1 ELSE copies[p]]
      /\ batches' = [batches EXCEPT ![b].status =
                        IF @ \in {"parsed", "cancelled"} THEN "partially_imported" ELSE @]
      /\ batches[b].status # "none"
      /\ UNCHANGED <<mapping, results, claims, listed, smart, workers>>
  BY DEF Repair
<1>2. f \in Files \cup {<<>>} /\ batches[b] \in BatchRow
  BY DEF IInv, BatchRow
<1> HIDE DEF f
<1>3. \A p \in Payments : mended(p) => copies[p] = 0
  <2> SUFFICES ASSUME NEW p \in Payments, mended(p)
               PROVE  copies[p] = 0
    OBVIOUS
  <2>1. PICK i \in Repairable(f) : f[i] = p
    OBVIOUS
  <2>2. ~ Existing(p)
    BY <2>1 DEF Repairable
  <2>3. ~ (copies[p] > 0)
    BY <2>2, PaymentsAreRows DEF Existing
  <2> QED BY <2>3 DEF IInv
<1> HIDE DEF mended
<1>4. copies' \in [Payments -> Nat] /\ \A p \in Payments : copies[p] <= copies'[p]
  BY <1>1, <1>3 DEF IInv
<1>5. /\ batches' \in [Batches -> BatchRow]
      /\ \A c \in Batches : c # b => batches'[c] = batches[c]
      /\ batches'[b].rows = batches[b].rows /\ batches'[b].status # "none"
      /\ batches'[b].status = "confirmed" => batches[b].status = "confirmed"
  BY <1>1, <1>2 DEF IInv, BatchRow
<1>6. Grows
  <2>1. SnapshotsOK' /\ \A o \in Orders : DOMAIN snapshots[o] \subseteq DOMAIN snapshots'[o]
    BY <1>1, <1>2, RepairedIs DEF SnapshotsOK, Snapshots
  <2> QED BY <1>4, <1>5, <2>1 DEF Grows
<1>7. WorkersLooked' /\ ConfirmedRowsAreStored'
  BY <1>1, <1>5, <1>6, GrowingStep
<1>8. ClaimsSound'
  BY <1>1, <1>4, MoreIsSound DEF SoundClaims, ClaimsSound
<1>9. CopiesCounted'
  <2> SUFFICES ASSUME NEW p \in Payments
               PROVE  copies'[p] + Cardinality(Outstanding(p)) <= Cardinality(Workers) + 1
    BY <1>1 DEF CopiesCounted, Outstanding
  <2>1. Cardinality(Outstanding(p)) \in Nat /\ Cardinality(Workers) \in Nat
          /\ Cardinality(Outstanding(p)) <= Cardinality(Workers)
    <3>1. Outstanding(p) \in SUBSET Workers
      BY DEF Outstanding
    <3> QED BY <3>1, UberAssumption, FS_Subset, FS_CardinalityType
  <2>2. copies[p] + Cardinality(Outstanding(p)) <= Cardinality(Workers) + 1 /\ copies[p] \in Nat
    BY DEF IInv, CopiesCounted
  <2>3. copies'[p] = IF mended(p) THEN 1 ELSE copies[p]
    BY <1>1
  <2> QED BY <2>1, <2>2, <2>3
<1> QED BY <1>1, <1>4, <1>5, <1>6, <1>7, <1>8, <1>9, Kept DEF IInv, Grows

(***************************************************************************)
(* Reconciliation                                                          *)
(***************************************************************************)
SoundResults ==
    {r \in ResultRow : r.status \in ELIGIBLE_RESULT_STATUSES => r.missing > 0}

LEMMA ResultsSound ==
    /\ IInv => results \in [Orders -> SoundResults]
    /\ results' \in [Orders -> SoundResults] =>
          results' \in [Orders -> ResultRow] /\ SomethingMissing'
BY DEF IInv, SomethingMissing, SoundResults

(* A claim may be opened only from a result that has something missing. *)
LEMMA AnalysedIs ==
    ASSUME IInv, NEW o \in Orders, NEW sn \in Snapshot, NEW n \in Names \cup {NoName}
    PROVE  Analysed(o, sn, n) \in SoundResults
<1> DEFINE mine == {p \in Payments : /\ p.order = o /\ p.by = "uuid" /\ p.store = sn.store
                                     /\ copies[p] > 0}
           paid == Money({p \in mine : p.kind = "payment"}, copies)
           missing == IF sn.amount > paid THEN sn.amount - paid ELSE 0
           financial == IF sn.amount = 0 \/ \E p \in mine : p.kind = "unknown" THEN "manual_review"
                        ELSE IF missing = 0 THEN "compensated"
                        ELSE IF paid = 0 THEN "not_compensated" ELSE "partially_compensated"
           claimed == sn.amount # 0 /\ n # NoName
           status == IF ~ claimed THEN financial
                     ELSE IF claims[n].status = "refused" /\ missing > 0 THEN "manual_review"
                     ELSE "already_claimed"
<1>1. paid \in Nat
  <2>1. {p \in mine : p.kind = "payment"} \in SUBSET Payments /\ copies \in [Payments -> Nat]
    BY DEF IInv
  <2> QED BY <2>1, MoneyIsNumber
<1>2. sn.amount \in Nat /\ sn.short \in BOOLEAN
  BY DEF Snapshot
<1> HIDE DEF paid
<1>3. missing \in Nat
  BY <1>1, <1>2
<1> HIDE DEF missing, mine
<1>4. /\ financial \in ResultStatus
      /\ financial \in ELIGIBLE_RESULT_STATUSES => missing > 0
  BY <1>3 DEF ResultStatus, ELIGIBLE_RESULT_STATUSES
<1> HIDE DEF financial
<1>5. /\ status \in ResultStatus
      /\ status \in ELIGIBLE_RESULT_STATUSES => missing > 0
  BY <1>4 DEF ResultStatus, ELIGIBLE_RESULT_STATUSES
<1>6. Analysed(o, sn, n) = [status |-> status, claim |-> IF claimed THEN n ELSE NoName,
                            missing |-> missing, short |-> sn.short]
  BY DEF Analysed, financial, missing, paid, mine
<1> HIDE DEF status
<1>7. (IF claimed THEN n ELSE NoName) \in Names \cup {NoName}
  OBVIOUS
<1> HIDE DEF claimed
<1> QED BY <1>2, <1>3, <1>5, <1>6, <1>7 DEF SoundResults, ResultRow

LEMMA VerdictsAre ==
    ASSUME IInv, NEW o \in Orders, NEW from, NEW to, NEW v \in Verdicts(o, from, to)
    PROVE  v \in SoundResults
<1> DEFINE seen == InRun(o, from, to)
           sn == snapshots[o][Max(seen)]
           filed == Filed(o, sn.short)
<1>1. CASE seen = {}
  <2>1. v = results[o]
    BY <1>1 DEF Verdicts
  <2> QED BY <2>1, ResultsSound
<1>2. CASE seen # {}
  <2>1. snapshots[o] \in Seq(Snapshot)
    BY SnapshotsTyped DEF Snapshots
  <2>2. seen \in SUBSET (1 .. Len(snapshots[o])) /\ Len(snapshots[o]) \in Nat
    BY <2>1 DEF InRun
  <2> HIDE DEF seen
  <2>3. Max(seen) \in seen
    BY <1>2, <2>2, MaxIsPlace
  <2>4. sn \in Snapshot
    <3>1. Max(seen) \in 1 .. Len(snapshots[o])
      BY <2>2, <2>3
    <3> QED BY <2>1, <3>1, ElementOfSeq
  <2>5. PICK n \in IF filed = {} THEN {NoName} ELSE filed : v = Analysed(o, sn, n)
    BY <1>2 DEF Verdicts, seen
  <2>6. n \in Names \cup {NoName}
    <3>1. sn.short \in BOOLEAN
      BY <2>4 DEF Snapshot
    <3> HIDE DEF sn
    <3>2. \A m \in filed : m \in Names
      BY <3>1, NamesAre
    <3> QED BY <2>5, <3>2
  <2> HIDE DEF sn
  <2> QED BY <2>4, <2>5, <2>6, AnalysedIs
<1> QED BY <1>1, <1>2

LEMMA ReconcileIs ==
    ASSUME IInv, NEW from, NEW to, Reconcile(from, to)
    PROVE  results' \in [Orders -> ResultRow] /\ SomethingMissing'
<1>1. DOMAIN results' = Orders /\ results' = [o \in Orders |-> results'[o]]
        /\ \A o \in Orders : results'[o] \in Verdicts(o, from, to)
  BY DEF Reconcile
<1>2. \A o \in Orders : results'[o] \in SoundResults
  BY <1>1, VerdictsAre
<1>3. results' \in [Orders -> SoundResults]
  BY <1>1, <1>2
<1> QED BY <1>3, ResultsSound

LEMMA RunStep ==
    ASSUME IInv, Run
    PROVE  IInv'
<1>1. results' \in [Orders -> ResultRow] /\ SomethingMissing'
  BY ReconcileIs DEF Run
<1> QED BY <1>1, Kept DEF Run, IInv

LEMMA IgnoreStep ==
    ASSUME IInv, NEW o \in Orders, Ignore(o)
    PROVE  IInv'
<1>1. [results[o] EXCEPT !.status = "ignored"] \in SoundResults
  BY DEF IInv, ResultRow, ResultStatus, SoundResults, ELIGIBLE_RESULT_STATUSES
<1>2. results' = [results EXCEPT ![o] = [results[o] EXCEPT !.status = "ignored"]]
  BY DEF Ignore
<1>3. results' \in [Orders -> SoundResults]
  BY <1>1, <1>2, ResultsSound
<1> QED BY <1>3, ResultsSound, Kept DEF Ignore, IInv

LEMMA OpenFromResultIs ==
    ASSUME IInv, NEW o \in Orders, MayOpen(o), OpenFromResult(o), UNCHANGED copies
    PROVE  /\ results' \in [Orders -> ResultRow] /\ SomethingMissing'
           /\ claims' \in [Names -> ClaimRow] /\ ClaimsSound'
<1> DEFINE r == results[o]
           filed == Filed(o, r.short)
           n0 == NumberOf(o, r.short)
<1>1. r \in ResultRow /\ r.missing \in Nat /\ r.missing > 0 /\ r.short \in BOOLEAN
  BY DEF IInv, SomethingMissing, MayOpen, ResultRow
<1>2. PICK n \in IF filed = {} THEN {n0} ELSE filed :
         /\ results' = [results EXCEPT ![o].claim = n, ![o].status = "already_claimed"]
         /\ claims' = IF filed = {} THEN [claims EXCEPT ![n] = Opened(r.missing, FALSE)] ELSE claims
  BY DEF OpenFromResult
<1>3. n \in Names
  BY <1>1, <1>2, NamesAre
<1> HIDE DEF filed, n0
<1>4. results' \in [Orders -> SoundResults]
  <2>1. [r EXCEPT !.claim = n, !.status = "already_claimed"] \in SoundResults
    BY <1>1, <1>3 DEF ResultRow, ResultStatus, SoundResults, ELIGIBLE_RESULT_STATUSES
  <2>2. results' = [results EXCEPT ![o] = [r EXCEPT !.claim = n, !.status = "already_claimed"]]
    BY <1>2
  <2> QED BY <2>1, <2>2, ResultsSound
<1>5. /\ Opened(r.missing, FALSE) \in ClaimRow
      /\ SoundClaim(Opened(r.missing, FALSE), n[1], copies)
  BY <1>1, OpenedIsSound
<1>6. claims' \in [Names -> ClaimRow]
        /\ \A m \in Names : claims'[m] = claims[m] \/ SoundClaim(claims'[m], m[1], copies)
  BY <1>2, <1>3, <1>5 DEF IInv
<1> QED BY <1>4, <1>6, ResultsSound, ClaimsStaySound

LEMMA ClaimResultStep ==
    ASSUME IInv, NEW o \in Orders, ClaimResult(o)
    PROVE  IInv'
<1>1. /\ results' \in [Orders -> ResultRow] /\ SomethingMissing'
      /\ claims' \in [Names -> ClaimRow] /\ ClaimsSound'
  BY OpenFromResultIs DEF ClaimResult
<1> QED BY <1>1, Kept DEF ClaimResult, IInv

(* A confirmation that has stored its rows goes on. *)
LEMMA WorkerGoesOn ==
    ASSUME IInv, NEW w \in Workers, NEW new \in WorkerRow,
           workers' = [workers EXCEPT ![w] = new], new.batch = workers[w].batch,
           workers[w].pc # "idle", new.pc # "rows",
           UNCHANGED <<snapshots, copies, batches>>
    PROVE  /\ workers' \in [Workers -> WorkerRow]
           /\ CopiesCounted' /\ WorkersLooked' /\ ConfirmedRowsAreStored'
<1>1. workers' \in [Workers -> WorkerRow] /\ workers'[w] = new
        /\ \A v \in Workers : v # w => workers'[v] = workers[v]
  BY DEF IInv
<1>2. CopiesCounted'
  <2>1. \A p \in Payments : Outstanding(p)' \subseteq Outstanding(p)
    BY <1>1 DEF Outstanding
  <2> QED BY <2>1, FewerOutstanding
<1>3. Grows
  BY NothingStored DEF IInv
<1>4. LookedAt(workers'[w], batches', snapshots', copies')
  <2>1. LookedAt(workers[w], batches, snapshots, copies)
    BY DEF IInv, WorkersLooked
  <2> QED BY <1>1, <2>1 DEF LookedAt
<1> QED BY <1>1, <1>2, <1>3, <1>4, GrowingStep

LEMMA AutoReconcileStep ==
    ASSUME IInv, NEW w \in Workers, AutoReconcile(w)
    PROVE  IInv'
<1> DEFINE me == workers[w]
           days == DaysOf(batches[me.batch].rows)
           todo == {o \in Orders : InRun(o, Min(days), Max(days)) # {} /\ MayOpen(o)'}
           reconciled == [me EXCEPT !.pc = "claims", !.todo = todo]
           passed == [me EXCEPT !.pc = "claims"]
<1>1. UNCHANGED <<mapping, snapshots, copies, claims, batches, listed, smart>>
        /\ me.pc = "reconcile" /\ me \in WorkerRow
  BY DEF AutoReconcile, IInv
<1>2. CASE days = {}
  <2>1. UNCHANGED results /\ workers' = [workers EXCEPT ![w] = passed]
    BY <1>2 DEF AutoReconcile
  <2>2. passed \in WorkerRow /\ passed.pc # "rows" /\ passed.batch = me.batch
    BY <1>1 DEF WorkerRow
  <2> HIDE DEF passed
  <2>3. /\ workers' \in [Workers -> WorkerRow]
        /\ CopiesCounted' /\ WorkersLooked' /\ ConfirmedRowsAreStored'
    BY <1>1, <2>1, <2>2, WorkerGoesOn
  <2> QED BY <1>1, <2>1, <2>3, Kept DEF IInv
<1>3. CASE days # {}
  <2>1. Reconcile(Min(days), Max(days)) /\ workers' = [workers EXCEPT ![w] = reconciled]
    BY <1>3 DEF AutoReconcile
  <2>2. todo \in SUBSET Orders
    OBVIOUS
  <2> HIDE DEF todo
  <2>3. reconciled \in WorkerRow /\ reconciled.pc # "rows" /\ reconciled.batch = me.batch
    BY <1>1, <2>2 DEF WorkerRow
  <2> HIDE DEF reconciled, days
  <2>4. /\ workers' \in [Workers -> WorkerRow]
        /\ CopiesCounted' /\ WorkersLooked' /\ ConfirmedRowsAreStored'
    BY <1>1, <2>1, <2>3, WorkerGoesOn
  <2>5. results' \in [Orders -> ResultRow] /\ SomethingMissing'
    BY <2>1, ReconcileIs
  <2> QED BY <1>1, <2>4, <2>5, Kept DEF IInv
<1> QED BY <1>2, <1>3

LEMMA AutoClaimStep ==
    ASSUME IInv, NEW w \in Workers, NEW o \in Orders, AutoClaim(w, o)
    PROVE  IInv'
<1> DEFINE me == workers[w]
           new == [me EXCEPT !.todo = @ \ {o}]
<1>1. /\ UNCHANGED <<mapping, snapshots, copies, batches, listed, smart>>
      /\ me.pc = "claims" /\ me \in WorkerRow
      /\ workers' = [workers EXCEPT ![w] = new]
      /\ IF MayOpen(o) THEN OpenFromResult(o) ELSE UNCHANGED <<results, claims>>
  BY DEF AutoClaim, IInv
<1>2. new \in WorkerRow /\ new.pc # "rows" /\ new.batch = me.batch
  BY <1>1 DEF WorkerRow
<1> HIDE DEF new
<1>3. /\ workers' \in [Workers -> WorkerRow]
      /\ CopiesCounted' /\ WorkersLooked' /\ ConfirmedRowsAreStored'
  BY <1>1, <1>2, WorkerGoesOn
<1>4. /\ results' \in [Orders -> ResultRow] /\ SomethingMissing'
      /\ claims' \in [Names -> ClaimRow] /\ ClaimsSound'
  BY <1>1, OpenFromResultIs, Kept
<1> QED BY <1>1, <1>3, <1>4, Kept DEF IInv

(***************************************************************************)
(* Hydration                                                               *)
(***************************************************************************)
LEMMA AmountsSeenAreNumbers ==
    ASSUME IInv, NEW n \in Names
    PROVE  AmountsSeen(n) \subseteq Nat
<1>1. Total[n[1]] \in Nat
  <2>1. n[1] \in Orders
    BY DEF Names
  <2> QED BY <2>1, UberAssumption
<1>2. \A r \in UploadedRows : r.kind # "order" => r \in Payments
  <2> SUFFICES ASSUME NEW b \in Batches, NEW r \in ToSet(batches[b].file), r.kind # "order"
               PROVE  r \in Payments
    BY DEF UploadedRows
  <2>1. batches[b].file \in Files \cup {<<>>}
    BY DEF IInv, BatchRow
  <2> QED BY <2>1, FileRowsHaveKinds DEF ToSet
<1>3. \A p \in Payments : p.amount \in Nat
  BY PaymentsAreRows
<1> DEFINE total == results[n[1]].claim = n
                       \/ \E r \in UploadedRows : r.kind = "order" /\ r.order = n[1]
           paying == {r \in UploadedRows : /\ r.kind # "order" /\ r.order = n[1]
                                           /\ <<r.order, r.by>> \in KeysOfClaim(n, claims)}
<1>4. AmountsSeen(n) = IF total THEN {Total[n[1]]} ELSE {p.amount : p \in paying}
  BY DEF AmountsSeen
<1>5. paying \subseteq Payments
  BY <1>2
<1> HIDE DEF total, paying
<1> QED BY <1>1, <1>3, <1>4, <1>5

LEMMA HydrateStep ==
    ASSUME IInv, NEW n \in Names, Hydrate(n)
    PROVE  IInv'
<1> DEFINE seen == IF claims[n].amount = 0 /\ AmountsSeen(n) # {} THEN AmountsSeen(n)
                   ELSE {claims[n].amount}
           o == n[1]
<1>1. PICK amount \in seen :
         claims' = [claims EXCEPT ![n].amount = amount,
                                  ![n].ref = IF KnowsShort(n) THEN "short" ELSE @]
  BY DEF Hydrate
<1>2. /\ UNCHANGED <<mapping, snapshots, copies, batches, listed, smart, workers>>
      /\ results' = [results EXCEPT ![o].short = @ \/ (results[o].claim = n /\ KnowsShort(n))]
      /\ claims[n].status # "none"
  BY DEF Hydrate
<1>3. o \in Orders /\ results[o] \in SoundResults
        /\ claims[n] \in ClaimRow /\ SoundClaim(claims[n], o, copies)
  BY ResultsSound DEF Names, IInv, ClaimsSound
<1> HIDE DEF o
<1>4. amount \in Nat /\ (amount = claims[n].amount \/ claims[n].amount = 0)
  BY <1>1, <1>3, AmountsSeenAreNumbers DEF ClaimRow
<1>5. results' \in [Orders -> SoundResults]
  <2> DEFINE short == results[o].short \/ (results[o].claim = n /\ KnowsShort(n))
             new == [results[o] EXCEPT !.short = short]
  <2>1. results[o].short \in BOOLEAN
    BY <1>3 DEF SoundResults, ResultRow
  <2>2. short \in BOOLEAN
    BY <2>1
  <2> HIDE DEF short
  <2>3. new \in SoundResults
    BY <1>3, <2>2 DEF SoundResults, ResultRow
  <2>4. results' = [results EXCEPT ![o] = new]
    BY <1>2 DEF short
  <2> QED BY <1>3, <2>3, <2>4, ResultsSound
<1>6. claims' \in [Names -> ClaimRow] /\ ClaimsSound'
  <2> DEFINE ref == IF KnowsShort(n) THEN "short" ELSE claims[n].ref
             new == [claims[n] EXCEPT !.amount = amount, !.ref = ref]
  <2>1. ref \in {"none", "uuid", "short"}
    BY <1>3 DEF ClaimRow
  <2>2. claims' = [claims EXCEPT ![n] = new]
    BY <1>1 DEF IInv
  <2> HIDE DEF ref
  <2>3. new \in ClaimRow
    BY <1>3, <1>4, <2>1 DEF ClaimRow
  <2>4. /\ new.status = claims[n].status /\ new.live = claims[n].live
        /\ new.recovered = claims[n].recovered /\ new.amount = amount
    BY <1>3 DEF ClaimRow
  <2> HIDE DEF new
  <2>5. claims[n].amount \in Nat /\ (claims[n].amount = 0 => claims[n].live)
    BY <1>2, <1>3 DEF ClaimRow, SoundClaim
  <2>6. SoundClaim(new, o, copies)
    BY <1>3, <1>4, <2>4, <2>5 DEF SoundClaim
  <2>7. claims' \in [Names -> ClaimRow]
          /\ \A m \in Names : claims'[m] = claims[m] \/ SoundClaim(claims'[m], m[1], copies)
    BY <2>2, <2>3, <2>6 DEF IInv, o
  <2> QED BY <1>2, <2>7, ClaimsStaySound
<1> QED BY <1>2, <1>5, <1>6, ResultsSound, Kept DEF IInv

LEMMA NextIInv ==
    ASSUME IInv, [Next]_vars
    PROVE  IInv'
<1>1. CASE UNCHANGED vars
  BY <1>1, Kept DEF vars, IInv
<1>2. CASE \E n \in Names : Decide(n) \/ Hydrate(n)
  BY <1>2, DecideStep, HydrateStep
<1>3. CASE \E s \in Stores : MapStore(s) \/ Deprovision(s)
  BY <1>3, MappingStep
<1>4. CASE \E o \in Orders, s \in Stores, answered \in BOOLEAN : Capture(o, s, answered)
  BY <1>4, CaptureStep
<1>5. CASE PreviewOrders \/ ConfirmOrders \/ CancelOrders
  BY <1>5, OrderFileStep, ConfirmOrdersStep
<1>6. CASE \E b \in Batches : (\E f \in Files : Preview(b, f)) \/ CancelBatch(b) \/ Repair(b)
  BY <1>6, PreviewStep, CancelBatchStep, RepairStep
<1>7. CASE (\E f \in Files : PreviewSmart(f)) \/ CancelSmart \/ ExpireSmart
  BY <1>7, SmartStep
<1>8. CASE \E w \in Workers, b \in Batches :
              BeginConfirm(w, b) \/ \E override \in BOOLEAN : ConfirmSmart(w, b, override)
  BY <1>8, BeginConfirmStep, ConfirmSmartStep
<1>9. CASE \E w \in Workers :
              \/ CommitRows(w) \/ RefuseRows(w) \/ Crash(w)
              \/ AutoReconcile(w) \/ EndConfirm(w)
              \/ \E o \in Orders : AutoClaim(w, o)
  BY <1>9, CommitRowsStep, StopStep, AutoReconcileStep, AutoClaimStep
<1>10. CASE Run
  BY <1>10, RunStep
<1>11. CASE \E o \in Orders : Ignore(o) \/ ClaimResult(o)
  BY <1>11, IgnoreStep, ClaimResultStep
<1> QED BY <1>1, <1>2, <1>3, <1>4, <1>5, <1>6, <1>7, <1>8, <1>9, <1>10, <1>11 DEF Next

(* The strengthened invariant holds of every behaviour. *)
THEOREM Inductive == Spec => []IInv
<1>1. Init => IInv
  BY InitIInv
<1>2. IInv /\ [Next]_vars => IInv'
  BY NextIInv
<1> QED BY <1>1, <1>2, PTL DEF Spec

(***************************************************************************)
(* The invariants                                                          *)
(***************************************************************************)
(* Every variable has its type, and an order has no two snapshots of one   *)
(* store: the feed looks for the store's, a file with a clash is refused   *)
(* and the repair touches only orders without a snapshot.                  *)
THEOREM TypeCorrect == Spec => []UberTypeOK
<1>1. IInv => UberTypeOK
  BY TypeParts
<1> QED BY <1>1, Inductive, PTL

(* However often a file is confirmed again, routed again after a crash, or *)
(* repaired, a payment has no more rows than confirmations, and one repair,*)
(* can run at once: a row is stored only by who found none.                *)
THEOREM FewCopies == Spec => []CopiesNeedOverlaps
<1>1. IInv => CopiesNeedOverlaps
  <2> SUFFICES ASSUME IInv, NEW p \in Payments
               PROVE  copies[p] <= Cardinality(Workers) + 1
    BY DEF CopiesNeedOverlaps
  <2>1. copies[p] + Cardinality(Outstanding(p)) <= Cardinality(Workers) + 1 /\ copies[p] \in Nat
    BY DEF IInv, CopiesCounted
  <2>2. Cardinality(Outstanding(p)) \in Nat /\ Cardinality(Workers) \in Nat
    <3>1. Outstanding(p) \in SUBSET Workers
      BY DEF Outstanding
    <3> QED BY <3>1, UberAssumption, FS_Subset, FS_CardinalityType
  <2> QED BY <2>1, <2>2
<1> QED BY <1>1, Inductive, PTL

(* A batch that says confirmed has its orders and payments stored, though  *)
(* another worker, a crash, a refusal or a repair came in between.         *)
THEOREM ConfirmedIsStored == Spec => []ConfirmedRowsAreStored
<1>1. IInv => ConfirmedRowsAreStored
  BY DEF IInv
<1> QED BY <1>1, Inductive, PTL

(* What a settled claim recovered is in the stored payments of its order,  *)
(* and is no more than it asks for unless the live feed opened it.         *)
THEOREM SettledIsPaid == Spec => []RecoveredIsPaid
<1>1. IInv => RecoveredIsPaid
  BY DEF IInv, ClaimsSound, SoundClaim, PaymentsOfOrder, RecoveredIsPaid
<1> QED BY <1>1, Inductive, PTL

(***************************************************************************)
(* Who opens a claim                                                       *)
(***************************************************************************)
(* What SecondClaimsLackAName says of one order. *)
LacksAName(o) ==
    /\ IsOpened(Short(o)) /\ claims[Uuid(o)].status # "none" => listed # listed'
    /\ IsOpened(Uuid(o)) /\ claims[Short(o)].status # "none" =>
          \/ results[o].claim # results'[o].claim /\ ~ results[o].short
          \/ \E i \in DOMAIN snapshots'[o] : ~ snapshots'[o][i].short

(* A step that gives no claim a status it had not. *)
LEMMA OpensNothing ==
    ASSUME NEW o \in Orders,
           \A n \in Names : claims[n].status = "none" => claims'[n].status = "none"
    PROVE  LacksAName(o)
BY NamesAre DEF LacksAName, IsOpened

LEMMA CommitOpensNothing ==
    ASSUME IInv, NEW w \in Workers, CommitRows(w)
    PROVE  \A n \in Names : claims[n].status = "none" => claims'[n].status = "none"
<1> DEFINE me == workers[w]
           rows == batches[me.batch].rows
           snaps == Imported(rows, me.target)
           stored == [p \in Payments |-> copies[p] + (IF p \in me.missing THEN 1 ELSE 0)]
<1>1. me.pc = "rows" /\ claims' = Applied(rows, snaps, stored)
  BY DEF CommitRows
<1>2. me.batch \in Batches /\ Covered(rows, me, snapshots, copies)
  BY <1>1 DEF IInv, WorkersLooked, LookedAt
<1>3. rows \in Seq(OrderRow \cup Payments)
  BY <1>2 DEF IInv, BatchRow
<1>4. /\ stored \in [Payments -> Nat] /\ \A p \in Payments : copies[p] <= stored[p]
      /\ \A p \in Payments : p \in me.missing \/ copies[p] > 0 => stored[p] > 0
  BY DEF IInv
<1> HIDE DEF snaps, stored
<1>5. \A r \in ToSet(rows) : r.kind # "order" => r \in Payments /\ stored[r] > 0
  BY <1>2, <1>3, <1>4, RowsHaveKinds DEF Covered
<1>6. claims \in SoundClaims(stored)
  BY <1>4, MoreIsSound
<1>7. claims' \in SoundClaims(stored)
  BY <1>1, <1>3, <1>4, <1>5, <1>6, SettlingKeeps
<1> QED BY <1>7 DEF SoundClaims

LEMMA CaptureNames ==
    ASSUME IInv, NEW p \in Orders, NEW s \in Stores, NEW answered \in BOOLEAN,
           Capture(p, s, answered), NEW o \in Orders
    PROVE  LacksAName(o)
<1> DEFINE sn == Captured(p, s, answered)
           filed == Filed(p, sn.it.short)
           n0 == NumberOf(p, sn.it.short)
<1>1. sn.it \in Snapshot /\ \E k \in DOMAIN sn.all : sn.all[k] = sn.it
  BY CapturedIs
<1>2. /\ snapshots' = [snapshots EXCEPT ![p] = sn.all]
      /\ IF filed = {} THEN claims' = [claims EXCEPT ![n0] = Opened(sn.it.amount, TRUE)]
         ELSE \E n \in filed : claims' = [claims EXCEPT ![n].amount = IF @ = 0 THEN sn.it.amount
                                                                      ELSE @]
  BY DEF Capture
<1>3. sn.it.short \in BOOLEAN
  BY <1>1 DEF Snapshot
<1> HIDE DEF sn
<1>4. CASE filed # {}
  <2>1. \A n \in Names : claims[n].status = "none" => claims'[n].status = "none"
    <3>1. claims \in [Names -> ClaimRow]
      BY DEF IInv
    <3>2. PICK n \in filed : claims' = [claims EXCEPT ![n].amount = IF @ = 0 THEN sn.it.amount
                                                                   ELSE @]
      BY <1>2, <1>4
    <3>3. \A m \in Names : claims'[m].status = claims[m].status
      BY <3>1, <3>2 DEF ClaimRow
    <3> QED BY <3>3
  <2> QED BY <2>1, OpensNothing
<1>5. CASE filed = {}
  <2>1. claims' = [claims EXCEPT ![n0] = Opened(sn.it.amount, TRUE)]
    BY <1>2, <1>5
  <2>2. \A n \in Names : IsOpened(n) => n = n0
    BY <2>1 DEF IsOpened, IInv
  <2>3. CASE o # p
    <3>1. n0 \notin {Uuid(o), Short(o)}
      BY <1>3, <2>3 DEF NumberOf, Uuid, Short
    <3>2. Uuid(o) \in Names /\ Short(o) \in Names
      BY NamesAre
    <3> QED BY <2>2, <3>1, <3>2 DEF LacksAName
  <2>4. CASE o = p
    <3>1. claims[Uuid(o)].status = "none" /\ (sn.it.short => claims[Short(o)].status = "none")
      BY <1>5, <2>4, NamesAre DEF Filed
    <3>2. ~ sn.it.short => \E k \in DOMAIN snapshots'[o] : ~ snapshots'[o][k].short
      <4>1. snapshots'[o] = sn.all
        BY <1>2, <2>4, SnapshotsTyped
      <4> QED BY <1>1, <4>1
    <3> QED BY <3>1, <3>2 DEF LacksAName
  <2> QED BY <2>3, <2>4
<1> QED BY <1>4, <1>5

LEMMA ConfirmOrdersNames ==
    ASSUME IInv, ConfirmOrders, NEW o \in Orders
    PROVE  LacksAName(o)
<1>1. listed # listed'
  <2>1. listed.status = "parsed" /\ listed'.status # "parsed"
    BY DEF ConfirmOrders, IInv, ListedRow
  <2> QED BY <2>1
<1>2. claims'[Uuid(o)] = claims[Uuid(o)]
  BY NamesAre DEF ConfirmOrders, Uuid
<1> QED BY <1>1, <1>2 DEF LacksAName, IsOpened

LEMMA ResultNames ==
    ASSUME IInv, NEW p \in Orders, MayOpen(p), OpenFromResult(p), NEW o \in Orders
    PROVE  LacksAName(o)
<1> DEFINE r == results[p]
           filed == Filed(p, r.short)
           n0 == NumberOf(p, r.short)
<1>1. r \in ResultRow /\ r.short \in BOOLEAN /\ r.claim = NoName
  BY DEF IInv, MayOpen, ResultRow
<1>2. PICK n \in IF filed = {} THEN {n0} ELSE filed :
         /\ results' = [results EXCEPT ![p].claim = n, ![p].status = "already_claimed"]
         /\ claims' = IF filed = {} THEN [claims EXCEPT ![n] = Opened(r.missing, FALSE)] ELSE claims
  BY DEF OpenFromResult
<1>3. CASE filed # {}
  BY <1>2, <1>3, OpensNothing
<1>4. CASE filed = {}
  <2>1. n = n0 /\ claims' = [claims EXCEPT ![n0] = Opened(r.missing, FALSE)]
    BY <1>2, <1>4
  <2>2. \A m \in Names : IsOpened(m) => m = n0
    BY <2>1 DEF IsOpened, IInv
  <2>3. CASE o # p
    <3>1. n0 \notin {Uuid(o), Short(o)}
      BY <1>1, <2>3 DEF NumberOf, Uuid, Short
    <3>2. Uuid(o) \in Names /\ Short(o) \in Names
      BY NamesAre
    <3> QED BY <2>2, <3>1, <3>2 DEF LacksAName
  <2>4. CASE o = p
    <3>1. claims[Uuid(o)].status = "none" /\ (r.short => claims[Short(o)].status = "none")
      BY <1>4, <2>4, NamesAre DEF Filed
    <3>2. results'[o].claim # results[o].claim
      <4>1. n0 \in {Uuid(p), Short(p)}
        BY <1>1, NamesAre
      <4>2. n0 # NoName
        BY <4>1, UberAssumption DEF Uuid, Short, NoName
      <4>3. results'[p].claim = n0
        BY <1>1, <1>2, <2>1 DEF IInv, ResultRow
      <4> QED BY <1>1, <2>4, <4>2, <4>3
    <3> QED BY <2>4, <3>1, <3>2 DEF LacksAName
  <2> QED BY <2>3, <2>4
<1> QED BY <1>3, <1>4

(* A second claim of an order comes of a name somebody did not know: a     *)
(* feed or a result that knows both names looks under both.                *)
THEOREM SecondsLackAName == Spec => SecondClaimsLackAName
<1>1. IInv /\ [Next]_vars => [\A o \in Orders : LacksAName(o)]_vars
  <2> SUFFICES ASSUME IInv, Next, NEW o \in Orders
               PROVE  LacksAName(o)
    OBVIOUS
  <2>1. CASE UNCHANGED claims
    BY <2>1, OpensNothing
  <2>2. ASSUME NEW n \in Names, Decide(n) \/ Hydrate(n)
        PROVE  LacksAName(o)
    <3>1. \A m \in Names : claims'[m].status # claims[m].status => m = n
            /\ claims[m].status # "none"
      BY <2>2 DEF Decide, Hydrate, IInv, ClaimRow
    <3> QED BY <3>1, OpensNothing
  <2>3. CASE \E p \in Orders, s \in Stores, answered \in BOOLEAN : Capture(p, s, answered)
    BY <2>3, CaptureNames
  <2>4. CASE ConfirmOrders
    BY <2>4, ConfirmOrdersNames
  <2>5. ASSUME NEW w \in Workers, CommitRows(w)
        PROVE  LacksAName(o)
    BY <2>5, CommitOpensNothing, OpensNothing
  <2>6. ASSUME NEW w \in Workers, NEW p \in Orders, AutoClaim(w, p)
        PROVE  LacksAName(o)
    BY <2>1, <2>6, ResultNames DEF AutoClaim
  <2>7. ASSUME NEW p \in Orders, ClaimResult(p)
        PROVE  LacksAName(o)
    BY <2>7, ResultNames DEF ClaimResult
  <2>8. ASSUME NEW b \in Batches, (\E f \in Files : Preview(b, f)) \/ CancelBatch(b) \/ Repair(b)
        PROVE  UNCHANGED claims
    BY <2>8 DEF Preview, CancelBatch, Repair
  <2>9. ASSUME NEW w \in Workers, NEW b \in Batches,
               BeginConfirm(w, b) \/ \E override \in BOOLEAN : ConfirmSmart(w, b, override)
        PROVE  UNCHANGED claims
    BY <2>9 DEF BeginConfirm, ConfirmSmart
  <2>10. ASSUME NEW w \in Workers, RefuseRows(w) \/ Crash(w) \/ AutoReconcile(w) \/ EndConfirm(w)
         PROVE  UNCHANGED claims
    BY <2>10 DEF RefuseRows, Crash, AutoReconcile, EndConfirm
  <2>11. CASE \E s \in Stores : MapStore(s) \/ Deprovision(s)
    BY <2>1, <2>11 DEF MapStore, Deprovision
  <2>12. CASE PreviewOrders \/ CancelOrders \/ (\E f \in Files : PreviewSmart(f)) \/ CancelSmart
                \/ ExpireSmart \/ Run \/ \E p \in Orders : Ignore(p)
    BY <2>1, <2>12 DEF PreviewOrders, CancelOrders, PreviewSmart, CancelSmart, ExpireSmart, Run,
                       Ignore
  <2> QED BY <2>1, <2>2, <2>3, <2>4, <2>5, <2>6, <2>7, <2>8, <2>9, <2>10, <2>11, <2>12 DEF Next
<1>2. [\A o \in Orders : LacksAName(o)]_vars =>
         [\A o \in Orders :
             /\ IsOpened(Short(o)) /\ claims[Uuid(o)].status # "none" => listed # listed'
             /\ IsOpened(Uuid(o)) /\ claims[Short(o)].status # "none" =>
                   \/ results[o].claim # results'[o].claim /\ ~ results[o].short
                   \/ \E i \in DOMAIN snapshots'[o] : ~ snapshots'[o][i].short]_vars
  BY DEF LacksAName
<1> QED BY <1>1, <1>2, Inductive, PTL DEF Spec, SecondClaimsLackAName
==============================================================================
