--------------------------- MODULE MCUberRecovery ---------------------------
(* One order of two units, known by two stores' identifiers, paid in two    *)
(* parts; the files Uber may send about it.                                 *)
EXTENDS UberRecovery, TLC

CONSTANTS w1, w2

MCTotal == [o \in Orders |-> 2]
MCDay == [o \in Orders |-> 1]

Order(store, short, cancelled) ==
    [kind |-> "order", order |-> 1, store |-> store, short |-> short, cancelled |-> cancelled]

Paying(kind, by, day) ==
    [kind |-> kind, order |-> 1, store |-> "id", by |-> by, amount |-> 1, day |-> day]

(* "id" is Uber's identifier of the store, "name" the one made of its name. *)
MCFiles ==
    {<<Order("id", TRUE, TRUE), Paying("payment", "uuid", 2)>>,
     <<Order("name", FALSE, TRUE), Order("name", TRUE, FALSE)>>,
     <<Paying("payment", "short", 1), Paying("unknown", "uuid", 1), Paying("payment", "short", 1)>>}

WorkerSymmetry == Permutations(Workers)

(* Bound on what goes on at once, so that any three of these happen: a      *)
(* reporting file, its repair before confirmation, the smart import, the    *)
(* order file, the live feed, a refused claim, a hydrated claim, an ignored *)
(* result.  Batches are numbered as they come.                              *)
BoundedLoad ==
    /\ mapping["name"] = "none"
    /\ batches[2].status # "none" => batches[1].status # "none"
    /\ Cardinality({b \in Batches : batches[b].status # "none"})
        + Cardinality({b \in Batches : batches[b].status = "partially_imported"})
        + Cardinality({n \in Names : claims[n].status = "refused"})
        + Cardinality({n \in Names : claims[n].ref = "short"})
        + Cardinality({o \in Orders : results[o].status = "ignored"})
        + (IF listed.status = "none" THEN 0 ELSE 1)
        + (IF smart.status = "none" THEN 0 ELSE 1)
        + (IF mapping["id"] = "none" THEN 0 ELSE 1) <= 3
==============================================================================
