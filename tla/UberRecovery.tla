---------------------------- MODULE UberRecovery ----------------------------
(***************************************************************************)
(* What Uber reports, and the claims that come of it.                      *)
(*                                                                         *)
(* Orders of one restaurant reach the application by Uber's webhook and    *)
(* its fallback poller, by reporting files (uploaded on their page or      *)
(* routed by the smart import) and by the restaurant's own order file.     *)
(* They leave snapshots, payments, reconciliation results and claims,      *)
(* which are tied by names only: Uber's identifier of the order, and the   *)
(* short number people see, which a record may or may not know.            *)
(*                                                                         *)
(* A request is one transaction and one action, but for the confirmation   *)
(* of a reporting file, which two workers may run at once: it looks for    *)
(* what is stored (BeginConfirm), stores the rest and settles claims       *)
(* (CommitRows), reconciles (AutoReconcile) and opens claims one           *)
(* transaction at a time (AutoClaim); it may die in between (Crash).  The  *)
(* clean-up of the workspace machine goes over what all of them left.      *)
(*                                                                         *)
(* A definition whose comment begins with "Fault" is no part of the        *)
(* specification.                                                          *)
(***************************************************************************)
EXTENDS Integers, Sequences, FiniteSets, SequencesExt, FiniteSetsExt

CONSTANTS
    Orders,         \* orders Uber cancelled, positive numbers
    Stores,         \* identifiers of the restaurant's store
    Named,          \* the stores a row names so that the restaurant is found
    Total,          \* order -> amount, in units
    Day,            \* order -> the day it was placed
    Files,          \* the reporting files, as sequences of rows
    Batches,        \* rows of uber_reporting_import_batches
    Workers         \* requests that confirm a file, at once

ASSUME UberAssumption ==
    /\ Orders \subseteq Nat \ {0} /\ Named \subseteq Stores
    /\ Total \in [Orders -> Nat \ {0}] /\ Day \in [Orders -> Nat]
    /\ IsFiniteSet(Stores) /\ IsFiniteSet(Workers)

OrderRow == [kind : {"order"}, order : Orders, store : Stores, short : BOOLEAN,
             cancelled : BOOLEAN]

(* A line of payment, or of a kind reconciliation does not know; it names  *)
(* the order by one of its two names.                                      *)
PaymentRow == [kind : {"payment", "unknown"}, order : Orders, store : Stores,
               by : {"uuid", "short"}, amount : Nat \ {0}, day : Nat]

ASSUME FilesAssumption == Files \subseteq Seq(OrderRow \cup PaymentRow) /\ IsFiniteSet(Files)

Payments == {r \in UNION {ToSet(f) : f \in Files} : r.kind # "order"}

Names == Orders \X {"uuid", "short"}
NoName == <<0, "uuid">>
Uuid(o) == <<o, "uuid">>
Short(o) == <<o, "short">>

ClaimStatus == {"none", "open", "refused", "payment_confirmed"}

ELIGIBLE_RESULT_STATUSES == {"not_compensated", "partially_compensated"}

ResultStatus == {"none", "compensated", "already_claimed", "manual_review", "ignored"}
                    \cup ELIGIBLE_RESULT_STATUSES

VARIABLES
    mapping,    \* store -> uber_store_mappings: "none", "active" or "inactive"
    snapshots,  \* order -> its snapshots, in the order they were created
    copies,     \* payment -> its rows in uber_financial_transactions
    results,    \* order -> its reconciliation result
    claims,     \* number -> the claim filed under it; amount 0 is unknown
    batches,    \* reporting file uploaded: status, and the rows to import
    listed,     \* the order file: status, and the orders it found new
    smart,      \* the smart import that holds a reporting file
    workers     \* what the confirmations under way have read

vars == <<mapping, snapshots, copies, results, claims, batches, listed, smart, workers>>

Snapshot == [store : Stores, short : BOOLEAN, cancelled : BOOLEAN, amount : Nat, placed : BOOLEAN]

NoClaim == [status |-> "none", amount |-> 0, ref |-> "none", live |-> FALSE, recovered |-> 0]
NoResult == [status |-> "none", claim |-> NoName, missing |-> 0, short |-> FALSE]
NoBatch == [status |-> "none", file |-> <<>>, rows |-> <<>>]
Idle == [pc |-> "idle", batch |-> 0, missing |-> {}, target |-> [o \in Orders |-> 0],
         todo |-> {}, smart |-> FALSE]

UberTypeOK ==
    /\ mapping \in [Stores -> {"none", "active", "inactive"}]
    /\ snapshots \in [Orders -> Seq(Snapshot)]
    /\ \A o \in Orders : IsInjective([i \in DOMAIN snapshots[o] |-> snapshots[o][i].store])
    /\ copies \in [Payments -> Nat]
    /\ results \in [Orders -> [status : ResultStatus, claim : Names \cup {NoName},
                               missing : Nat, short : BOOLEAN]]
    /\ claims \in [Names -> [status : ClaimStatus, amount : Nat, ref : {"none", "uuid", "short"},
                              live : BOOLEAN, recovered : Nat]]
    /\ batches \in [Batches -> [status : {"none", "parsed", "confirmed", "cancelled",
                                          "partially_imported"},
                                file : Files \cup {<<>>}, rows : Seq(OrderRow \cup Payments)]]
    /\ listed \in [status : {"none", "parsed", "confirmed", "partially_imported", "failed",
                             "cancelled"},
                   valid : SUBSET Orders]
    /\ smart \in [status : {"none", "previewed", "confirmed", "cancelled", "expired"},
                  file : Files \cup {<<>>}]
    /\ workers \in [Workers -> [pc : {"idle", "rows", "reconcile", "claims"},
                                batch : Batches \cup {0}, missing : SUBSET Payments,
                                target : [Orders -> 0 .. Cardinality(Stores)],
                                todo : SUBSET Orders, smart : BOOLEAN]]

Init ==
    /\ mapping = [s \in Stores |-> "none"]
    /\ snapshots = [o \in Orders |-> <<>>]
    /\ copies = [p \in Payments |-> 0]
    /\ results = [o \in Orders |-> NoResult]
    /\ claims = [n \in Names |-> NoClaim]
    /\ batches = [b \in Batches |-> NoBatch]
    /\ listed = [status |-> "none", valid |-> {}]
    /\ smart = [status |-> "none", file |-> <<>>]
    /\ workers = [w \in Workers |-> Idle]

(***************************************************************************)
(* Claims and the names they are filed under                               *)
(***************************************************************************)
NumberOf(o, short) == IF short THEN Short(o) ELSE Uuid(o)

(* Fault: only the number a new claim would get is looked for. *)
FiledUnderNumber(o, short) == {n \in {NumberOf(o, short)} : claims[n].status # "none"}

(* The claims filed under a name the record knows. *)
Filed(o, short) ==
    {n \in {Uuid(o)} \cup (IF short THEN {Short(o)} ELSE {}) : claims[n].status # "none"}

(* The feed keeps Uber's identifier in the internal reference. *)
Opened(amount, live) ==
    [status |-> "open", amount |-> amount, ref |-> IF live THEN "uuid" ELSE "none",
     live |-> live, recovered |-> 0]

(* A person closes a claim, or records Uber's refusal. *)
Decide(n) ==
    /\ claims[n].status = "open"
    /\ claims' = [claims EXCEPT ![n].status = "refused"]
    /\ UNCHANGED <<mapping, snapshots, copies, results, batches, listed, smart, workers>>

(***************************************************************************)
(* Uber's live feed                                                        *)
(***************************************************************************)
MapStore(s) ==
    /\ mapping[s] # "active"
    /\ mapping' = [mapping EXCEPT ![s] = "active"]
    /\ UNCHANGED <<snapshots, copies, results, claims, batches, listed, smart, workers>>

Deprovision(s) ==
    /\ mapping[s] = "active"
    /\ mapping' = [mapping EXCEPT ![s] = "inactive"]
    /\ UNCHANGED <<snapshots, copies, results, claims, batches, listed, smart, workers>>

(* The snapshot a feed leaves: what Uber answers when asked about the      *)
(* order, or only that it was cancelled when the question fails.           *)
Captured(o, s, answered) ==
    LET i == SelectInSeq(snapshots[o], LAMBDA sn : sn.store = s)
        old == IF i = 0 THEN [store |-> s, short |-> FALSE, cancelled |-> TRUE,
                              amount |-> 0, placed |-> FALSE]
                        ELSE [snapshots[o][i] EXCEPT !.cancelled = TRUE]
        new == IF answered THEN [old EXCEPT !.short = TRUE, !.amount = Total[o], !.placed = TRUE]
                           ELSE old
    IN  [all |-> IF i = 0 THEN Append(snapshots[o], new) ELSE [snapshots[o] EXCEPT ![i] = new],
         it |-> new]

(* A webhook or a poll: both may come any number of times, or never. *)
Capture(o, s, answered) ==
    /\ mapping[s] = "active"
    /\ LET sn == Captured(o, s, answered)
           filed == Filed(o, sn.it.short)
       IN  /\ snapshots' = [snapshots EXCEPT ![o] = sn.all]
           /\ IF filed = {}
              THEN claims' = [claims EXCEPT ![NumberOf(o, sn.it.short)] = Opened(sn.it.amount, TRUE)]
              ELSE \E n \in filed :
                      claims' = [claims EXCEPT ![n].amount = IF @ = 0 THEN sn.it.amount ELSE @]
    /\ UNCHANGED <<mapping, copies, results, batches, listed, smart, workers>>

(***************************************************************************)
(* The order file of the restaurant                                        *)
(***************************************************************************)
New(o) == claims[Short(o)].status = "none"

PreviewOrders ==
    /\ listed.status = "none"
    /\ \E os \in SUBSET Orders \ {{}} :
          listed' = [status |-> "parsed", valid |-> {o \in os : New(o)}]
    /\ UNCHANGED <<mapping, snapshots, copies, results, claims, batches, smart, workers>>

(* confirm_order_import_batch: a row is looked up once more. *)
ConfirmOrders ==
    /\ listed.status = "parsed"
    /\ LET created == {o \in listed.valid : New(o)}
       IN  /\ claims' = [n \in Names |-> IF n[2] = "short" /\ n[1] \in created
                                         THEN Opened(Total[n[1]], FALSE) ELSE claims[n]]
           /\ listed' = [listed EXCEPT !.status =
                            IF created = listed.valid THEN "confirmed"
                            ELSE IF created # {} THEN "partially_imported" ELSE "failed"]
    /\ UNCHANGED <<mapping, snapshots, copies, results, batches, smart, workers>>

CancelOrders ==
    /\ listed.status = "parsed"
    /\ listed' = [listed EXCEPT !.status = "cancelled"]
    /\ UNCHANGED <<mapping, snapshots, copies, results, claims, batches, smart, workers>>

(***************************************************************************)
(* Reporting files                                                         *)
(***************************************************************************)
Resolved(r) == mapping[r.store] # "none" \/ r.store \in Named

SameKey(r, q) ==
    IF r.kind = "order" /\ q.kind = "order" THEN r.order = q.order ELSE r = q

(* The rows of a file to import: those of a known restaurant, each once.   *)
(* The smart import takes the restaurant of its user for the others.       *)
Rows(f, override) ==
    LET Keep(i) == /\ override \/ Resolved(f[i])
                   /\ \A j \in 1 .. i - 1 : ~SameKey(f[j], f[i])
    IN  FoldLeftDomain(LAMBDA rows, i : IF Keep(i) THEN Append(rows, f[i]) ELSE rows, <<>>, f)

Preview(b, f) ==
    /\ batches[b].status = "none"
    /\ batches' = [batches EXCEPT ![b] = [status |-> "parsed", file |-> f,
                                               rows |-> Rows(f, FALSE)]]
    /\ UNCHANGED <<mapping, snapshots, copies, results, claims, listed, smart, workers>>

CancelBatch(b) ==
    /\ batches[b].status = "parsed"
    /\ batches' = [batches EXCEPT ![b].status = "cancelled"]
    /\ UNCHANGED <<mapping, snapshots, copies, results, claims, listed, smart, workers>>

OrderRowsOf(rows) == {r \in ToSet(rows) : r.kind = "order"}
PaymentsOf(rows) == {r \in ToSet(rows) : r.kind # "order"}

(* Fault: a payment without a payout reference matches no stored row. *)
MissingAlways(rows) == PaymentsOf(rows)

Missing(rows) == {p \in PaymentsOf(rows) : copies[p] = 0}

(* What a confirmation finds: the payments not stored yet, and for each    *)
(* order the snapshot to update, any of the order's, or 0 for a new one.   *)
Look(b, rows, targets, bySmart) ==
    [pc |-> "rows", batch |-> b, missing |-> Missing(rows), target |-> targets,
     todo |-> {}, smart |-> bySmart]

Targets(rows) ==
    {t \in [Orders -> 0 .. Cardinality(Stores)] :
        \A o \in Orders :
            IF (\E r \in OrderRowsOf(rows) : r.order = o) /\ snapshots[o] # <<>>
            THEN t[o] \in DOMAIN snapshots[o] ELSE t[o] = 0}

(* Fault: the batch is marked before its rows are stored. *)
BeginConfirmMarked(w, b) ==
    /\ workers[w].pc = "idle"
    /\ batches[b].status = "parsed"
    /\ \E t \in Targets(batches[b].rows) :
          workers' = [workers EXCEPT ![w] = Look(b, batches[b].rows, t, FALSE)]
    /\ batches' = [batches EXCEPT ![b].status = "confirmed"]
    /\ UNCHANGED <<mapping, snapshots, copies, results, claims, listed, smart>>

BeginConfirm(w, b) ==
    /\ workers[w].pc = "idle"
    /\ batches[b].status = "parsed"
    /\ \E t \in Targets(batches[b].rows) :
          workers' = [workers EXCEPT ![w] = Look(b, batches[b].rows, t, FALSE)]
    /\ UNCHANGED <<mapping, snapshots, copies, results, claims, batches, listed, smart>>

(* The smart import previews and confirms the file in one go. *)
PreviewSmart(f) ==
    /\ smart.status = "none"
    /\ smart' = [status |-> "previewed", file |-> f]
    /\ UNCHANGED <<mapping, snapshots, copies, results, claims, batches, listed, workers>>

ConfirmSmart(w, b, override) ==
    /\ workers[w].pc = "idle"
    /\ smart.status = "previewed"
    /\ batches[b].status = "none"
    /\ LET rows == Rows(smart.file, override)
       IN  /\ batches' = [batches EXCEPT ![b] = [status |-> "parsed", file |-> smart.file,
                                                     rows |-> rows]]
           /\ \E t \in Targets(rows) :
                 workers' = [workers EXCEPT ![w] = Look(b, rows, t, TRUE)]
    /\ UNCHANGED <<mapping, snapshots, copies, results, claims, listed, smart>>

(* A person gives it up, whatever its routing has come to. *)
CancelSmart ==
    /\ smart.status \in {"previewed", "expired"}
    /\ smart' = [smart EXCEPT !.status = "cancelled"]
    /\ UNCHANGED <<mapping, snapshots, copies, results, claims, batches, listed, workers>>

(* The clean-up of previews left too long, or a confirmation that is late. *)
ExpireSmart ==
    /\ smart.status = "previewed"
    /\ smart' = [smart EXCEPT !.status = "expired"]
    /\ UNCHANGED <<mapping, snapshots, copies, results, claims, batches, listed, workers>>

(***************************************************************************)
(* Payments                                                                *)
(***************************************************************************)
(* The names a payment answers to: the one it was given, and the short     *)
(* number if a snapshot of its store knows it.                             *)
KeysOf(p, snaps) ==
    {<<p.order, p.by>>}
        \cup {Short(p.order) : i \in {k \in DOMAIN snaps[p.order] :
                 p.by = "uuid" /\ snaps[p.order][k].store = p.store /\ snaps[p.order][k].short}}

KeysOfClaim(n, cs) == {n} \cup (IF cs[n].ref = "none" THEN {} ELSE {<<n[1], cs[n].ref>>})

(* What payments come to, every stored row of each counted. *)
Money(ps, stored) == MapThenSumSet(LAMBDA p : p.amount * stored[p], ps)

(* What was paid under any of the names. *)
Paid(keys, snaps, stored) ==
    Money({p \in Payments : p.kind = "payment" /\ KeysOf(p, snaps) \cap keys # {}}, stored)

(* Fault: the amount of the claim is not looked at. *)
ExceedsNothing(claim, paid) == FALSE

ExceedsExpected(claim, paid) == claim.amount > 0 /\ paid > claim.amount

(* apply_official_uber_payments, for one payment of the file: it settles   *)
(* the one claim that answers to its names, unless more was paid than the  *)
(* claim asks for.                                                         *)
Settled(cs, p, snaps, stored) ==
    LET keys == KeysOf(p, snaps)
        found == {n \in Names : cs[n].status # "none" /\ KeysOfClaim(n, cs) \cap keys # {}}
        n == CHOOSE n \in found : TRUE
        paid == Paid(keys \cup KeysOfClaim(n, cs), snaps, stored)
    IN  IF \/ p.kind # "payment"
           \/ Cardinality(found) # 1
           \/ ExceedsExpected(cs[n], paid)
        THEN cs
        ELSE [cs EXCEPT ![n].status = "payment_confirmed", ![n].recovered = paid]

(* The claims after every row of the file. *)
Applied(rows, snaps, stored) ==
    FoldLeft(LAMBDA cs, p : Settled(cs, p, snaps, stored), claims, rows)

(***************************************************************************)
(* The confirmation of a reporting file                                    *)
(***************************************************************************)
(* Fault: the stores of an order's snapshots are not compared. *)
NoClash(r, i) == FALSE

(* Two snapshots of an order may not have the same store: the transaction  *)
(* is refused as a whole.                                                  *)
Clash(r, i) ==
    \E k \in DOMAIN snapshots[r.order] : k # i /\ snapshots[r.order][k].store = r.store

Reported(r) == [store |-> r.store, short |-> r.short, cancelled |-> r.cancelled,
                amount |-> Total[r.order], placed |-> TRUE]

Imported(rows, target) ==
    [o \in Orders |->
        LET found == {r \in OrderRowsOf(rows) : r.order = o}
            new == Reported(CHOOSE r \in found : TRUE)
        IN  IF found = {} THEN snapshots[o]
            ELSE IF target[o] = 0 THEN Append(snapshots[o], new)
            ELSE [snapshots[o] EXCEPT ![target[o]] = new]]

CommitRows(w) ==
    /\ workers[w].pc = "rows"
    /\ LET b == workers[w].batch
           rows == batches[b].rows
           target == workers[w].target
           snaps == Imported(rows, target)
           stored == [p \in Payments |-> copies[p] + (IF p \in workers[w].missing THEN 1 ELSE 0)]
       IN  /\ \A r \in OrderRowsOf(rows) : ~Clash(r, target[r.order])
           /\ snapshots' = snaps
           /\ copies' = stored
           /\ claims' = Applied(rows, snaps, stored)
           /\ batches' = [batches EXCEPT ![b].status = "confirmed"]
    /\ workers' = [workers EXCEPT ![w].pc = "reconcile"]
    /\ UNCHANGED <<mapping, results, listed, smart>>

RefuseRows(w) ==
    /\ workers[w].pc = "rows"
    /\ \E r \in OrderRowsOf(batches[workers[w].batch].rows) :
          Clash(r, workers[w].target[r.order])
    /\ workers' = [workers EXCEPT ![w] = Idle]
    /\ UNCHANGED <<mapping, snapshots, copies, results, claims, batches, listed, smart>>

(* The process dies; what was committed stays. *)
Crash(w) ==
    /\ workers[w].pc # "idle"
    /\ workers' = [workers EXCEPT ![w] = Idle]
    /\ UNCHANGED <<mapping, snapshots, copies, results, claims, batches, listed, smart>>

(***************************************************************************)
(* Reconciliation                                                          *)
(***************************************************************************)
(* analyze_order_snapshot: payments are those of the snapshot's store,     *)
(* under Uber's identifier.  n is a claim filed under one of the names.    *)
Analysed(o, sn, n) ==
    LET mine == {p \in Payments : /\ p.order = o /\ p.by = "uuid" /\ p.store = sn.store
                                  /\ copies[p] > 0}
        paid == Money({p \in mine : p.kind = "payment"}, copies)
        missing == IF sn.amount > paid THEN sn.amount - paid ELSE 0
        financial == IF sn.amount = 0 \/ \E p \in mine : p.kind = "unknown" THEN "manual_review"
                     ELSE IF missing = 0 THEN "compensated"
                     ELSE IF paid = 0 THEN "not_compensated" ELSE "partially_compensated"
        claimed == sn.amount # 0 /\ n # NoName
    IN  [status |-> IF ~claimed THEN financial
                    ELSE IF claims[n].status = "refused" /\ missing > 0 THEN "manual_review"
                    ELSE "already_claimed",
         claim |-> IF claimed THEN n ELSE NoName, missing |-> missing, short |-> sn.short]

(* The snapshots a run goes through, between two days. *)
InRun(o, from, to) ==
    {i \in DOMAIN snapshots[o] : /\ snapshots[o][i].cancelled
                                 /\ snapshots[o][i].placed => Day[o] \in from .. to}

(* run_reconciliation writes over every result it computes; of two         *)
(* snapshots of an order, the last one has the say.                        *)
Verdicts(o, from, to) ==
    LET seen == InRun(o, from, to)
        sn == snapshots[o][Max(seen)]
        filed == Filed(o, sn.short)
    IN  IF seen = {} THEN {results[o]}
        ELSE {Analysed(o, sn, n) : n \in IF filed = {} THEN {NoName} ELSE filed}

Reconcile(from, to) ==
    results' \in {g \in [Orders -> UNION {Verdicts(o, from, to) : o \in Orders}] :
                     \A o \in Orders : g[o] \in Verdicts(o, from, to)}

(* A person runs it over every order. *)
Run ==
    /\ Reconcile(0, Max({Day[o] : o \in Orders}))
    /\ UNCHANGED <<mapping, snapshots, copies, claims, batches, listed, smart, workers>>

Ignore(o) ==
    /\ results[o].status \notin {"none", "ignored"}
    /\ results' = [results EXCEPT ![o].status = "ignored"]
    /\ UNCHANGED <<mapping, snapshots, copies, claims, batches, listed, smart, workers>>

(* create_claim_order_from_result: what was paid since is not looked at. *)
MayOpen(o) == results[o].status \in ELIGIBLE_RESULT_STATUSES /\ results[o].claim = NoName

OpenFromResult(o) ==
    LET r == results[o]
        filed == Filed(o, r.short)
    IN  \E n \in IF filed = {} THEN {NumberOf(o, r.short)} ELSE filed :
           /\ results' = [results EXCEPT ![o].claim = n, ![o].status = "already_claimed"]
           /\ claims' = IF filed = {} THEN [claims EXCEPT ![n] = Opened(r.missing, FALSE)] ELSE claims

ClaimResult(o) ==
    /\ MayOpen(o)
    /\ OpenFromResult(o)
    /\ UNCHANGED <<mapping, snapshots, copies, batches, listed, smart, workers>>

(***************************************************************************)
(* After the rows, auto_open_recovery_cases_from_reporting reconciles the  *)
(* days of the file and opens a claim for each result of that run.         *)
(***************************************************************************)
DaysOf(rows) == {IF r.kind = "order" THEN Day[r.order] ELSE r.day : r \in ToSet(rows)}

AutoReconcile(w) ==
    /\ workers[w].pc = "reconcile"
    /\ LET days == DaysOf(batches[workers[w].batch].rows)
       IN  IF days = {} THEN UNCHANGED results /\ workers' = [workers EXCEPT ![w].pc = "claims"]
           ELSE /\ Reconcile(Min(days), Max(days))
                /\ workers' = [workers EXCEPT ![w].pc = "claims",
                                  ![w].todo = {o \in Orders : InRun(o, Min(days), Max(days)) # {}
                                                                /\ MayOpen(o)'}]
    /\ UNCHANGED <<mapping, snapshots, copies, claims, batches, listed, smart>>

AutoClaim(w, o) ==
    /\ workers[w].pc = "claims"
    /\ o \in workers[w].todo
    /\ IF MayOpen(o) THEN OpenFromResult(o) ELSE UNCHANGED <<results, claims>>
    /\ workers' = [workers EXCEPT ![w].todo = @ \ {o}]
    /\ UNCHANGED <<mapping, snapshots, copies, batches, listed, smart>>

EndConfirm(w) ==
    /\ workers[w].pc = "claims"
    /\ workers[w].todo = {}
    /\ workers' = [workers EXCEPT ![w] = Idle]
    /\ smart' = IF workers[w].smart THEN [smart EXCEPT !.status = "confirmed"] ELSE smart
    /\ UNCHANGED <<mapping, snapshots, copies, results, claims, batches, listed>>

(***************************************************************************)
(* The clean-up of the workspace machine                                   *)
(***************************************************************************)
Existing(r) == IF r.kind = "order" THEN snapshots[r.order] # <<>> ELSE copies[r] > 0

(* The rows of an upload that would leave something new, whatever became   *)
(* of the upload: it need not have been confirmed, or was cancelled.       *)
Repairable(f) == {i \in DOMAIN f : Resolved(f[i]) /\ ~Existing(f[i])}

(* Of two rows of an order, the last one has the say. *)
Repaired(f) ==
    [o \in Orders |->
        LET found == {i \in Repairable(f) : f[i].kind = "order" /\ f[i].order = o}
        IN  IF found = {} THEN snapshots[o] ELSE <<Reported(f[Max(found)])>>]

(* The import repair stores them: it settles no claim and reconciles       *)
(* nothing.                                                                *)
Repair(b) ==
    /\ batches[b].status # "none"
    /\ LET f == batches[b].file
       IN  /\ Repairable(f) # {}
           /\ snapshots' = Repaired(f)
           /\ copies' = [p \in Payments |-> IF \E i \in Repairable(f) : f[i] = p THEN 1 ELSE copies[p]]
           /\ batches' = [batches EXCEPT ![b].status =
                             IF @ \in {"parsed", "cancelled"} THEN "partially_imported" ELSE @]
    /\ UNCHANGED <<mapping, results, claims, listed, smart, workers>>

UploadedRows == UNION {ToSet(batches[b].file) : b \in Batches}

(* What the identity hydration finds of the number of a claim's order ...  *)
KnowsShort(n) ==
    \/ n[2] = "short"
    \/ results[n[1]].claim = n /\ results[n[1]].short
    \/ \E r \in UploadedRows : r.kind = "order" /\ r.order = n[1] /\ r.short

(* ... and of its amount: that of the order if it is seen, else of a       *)
(* payment that names the claim.                                           *)
AmountsSeen(n) ==
    LET total == results[n[1]].claim = n
                    \/ \E r \in UploadedRows : r.kind = "order" /\ r.order = n[1]
    IN  IF total THEN {Total[n[1]]}
        ELSE {p.amount : p \in {r \in UploadedRows :
                /\ r.kind # "order" /\ r.order = n[1]
                /\ <<r.order, r.by>> \in KeysOfClaim(n, claims)}}

(* A number takes the place of an identifier in the internal reference,    *)
(* and is given to the result of the claim.                                *)
Hydrate(n) ==
    /\ claims[n].status # "none"
    /\ LET seen == IF claims[n].amount = 0 /\ AmountsSeen(n) # {} THEN AmountsSeen(n)
                   ELSE {claims[n].amount}
       IN  \E amount \in seen :
              claims' = [claims EXCEPT ![n].amount = amount,
                                       ![n].ref = IF KnowsShort(n) THEN "short" ELSE @]
    /\ results' = [results EXCEPT ![n[1]].short = @ \/ (results[n[1]].claim = n /\ KnowsShort(n))]
    /\ <<claims, results>>' # <<claims, results>>
    /\ UNCHANGED <<mapping, snapshots, copies, batches, listed, smart, workers>>

Next ==
    \/ \E n \in Names : Decide(n) \/ Hydrate(n)
    \/ \E s \in Stores : MapStore(s) \/ Deprovision(s)
    \/ \E o \in Orders, s \in Stores, answered \in BOOLEAN : Capture(o, s, answered)
    \/ PreviewOrders \/ ConfirmOrders \/ CancelOrders
    \/ \E b \in Batches : (\E f \in Files : Preview(b, f)) \/ CancelBatch(b) \/ Repair(b)
    \/ (\E f \in Files : PreviewSmart(f)) \/ CancelSmart \/ ExpireSmart
    \/ \E w \in Workers, b \in Batches :
          BeginConfirm(w, b) \/ \E override \in BOOLEAN : ConfirmSmart(w, b, override)
    \/ \E w \in Workers :
          \/ CommitRows(w) \/ RefuseRows(w) \/ Crash(w)
          \/ AutoReconcile(w) \/ EndConfirm(w)
          \/ \E o \in Orders : AutoClaim(w, o)
    \/ Run
    \/ \E o \in Orders : Ignore(o) \/ ClaimResult(o)

Spec == Init /\ [][Next]_vars

(***************************************************************************)
(* Properties                                                              *)
(***************************************************************************)
(* No index keeps a payment from being stored twice, only a look before    *)
(* the insertion: however often a file is sent again, routed again after a *)
(* crash, confirmed by two people or repaired, a payment has no more rows  *)
(* than confirmations, and one repair, can run at once.                    *)
CopiesNeedOverlaps == \A p \in Payments : copies[p] <= Cardinality(Workers) + 1

(* A batch that says confirmed has stored what it was to store: a process  *)
(* that dies or a row that clashes leaves the batch to be confirmed again. *)
ConfirmedRowsAreStored ==
    \A b \in Batches : batches[b].status = "confirmed" =>
        \A r \in ToSet(batches[b].rows) :
            IF r.kind = "order" THEN snapshots[r.order] # <<>> ELSE copies[r] > 0

(* A claim is settled by Uber's figures alone: what it recovered is in the *)
(* stored payments of its order, and is no more than the claim asks for.   *)
(* Only a claim the live feed opened may get its amount after its payment. *)
RecoveredIsPaid ==
    \A n \in Names : claims[n].status = "payment_confirmed" =>
        /\ claims[n].recovered > 0
        /\ claims[n].recovered <=
              Money({p \in Payments : p.order = n[1] /\ p.kind = "payment"}, copies)
        /\ claims[n].recovered <= claims[n].amount \/ claims[n].live

(* A second claim on an order comes of a name somebody did not know: the   *)
(* order file, which knows only short numbers, next to a claim under       *)
(* Uber's identifier; or a snapshot or a result without the short number,  *)
(* next to a claim under it.                                               *)
IsOpened(n) == claims[n].status = "none" /\ claims'[n].status # "none"

SecondClaimsLackAName ==
    [][\A o \in Orders :
          /\ IsOpened(Short(o)) /\ claims[Uuid(o)].status # "none" => listed # listed'
          /\ IsOpened(Uuid(o)) /\ claims[Short(o)].status # "none" =>
                \/ results[o].claim # results'[o].claim /\ ~results[o].short
                \/ \E i \in DOMAIN snapshots'[o] : ~snapshots'[o][i].short]_vars
==============================================================================
