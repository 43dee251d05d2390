--------------------------- MODULE MCEvidenceFiles ---------------------------
(* Two copies of one photo and two uploads at once. *)
EXTENDS EvidenceFiles, TLC

CONSTANTS f1, f2, r1, r2

MCContent == [f \in Files |-> "photo"]

MCReadings ==
    {[kind |-> "receipt", order |-> o, signal |-> s] : o \in {None, 1}, s \in {"identity"}}
        \cup {[kind |-> "receipt", order |-> 1, signal |-> "order_number"],
              [kind |-> "cancellation_proof", order |-> 1, signal |-> "order_number"], Unread}

(* Bound on what goes on at once: a file counts for two rows, so that two   *)
(* uploads through one link, two copies of a file, or one file and an       *)
(* upload for each other's task all happen, but not all together.           *)
BoundedLoad ==
    Cardinality(Tasks \ Unused) + Cardinality({l \in Links : link[l].task # None})
        + Cardinality({r \in Requests : upload[r].task # None})
        + 2 * Cardinality({f \in Files : file[f].status # "absent"}) <= 5

EvidenceSymmetry == Permutations(Files) \cup Permutations(Requests)
==============================================================================
