--------------------------- MODULE MCWatchedThreads ---------------------------
(***************************************************************************)
(* One conversation about an order, and one that names none.               *)
(***************************************************************************)
EXTENDS WatchedThreads

CONSTANTS t1, t2, o1, none

MCThreads == {t1, t2}
MCOrders == {o1}
MCOrderOf == [t \in {t1, t2} |-> IF t = t1 THEN o1 ELSE none]

Of(t, kinds) == [i \in DOMAIN kinds |-> [thread |-> t, kind |-> kinds[i]]]

(* Promises before and after other answers, what hides them, and a           *)
(* conversation closed after a refusal nobody had read.                    *)
MCScripts ==
    {Of(t1, <<first, second>>) : first \in {"refusal", "waiting"}, second \in {"promise", "closed"}}
        \cup {Of(t1, <<"evidence", "survey">>), Of(t1, <<"evidence", "closed">>),
              Of(t1, <<"promise", "refusal", "closed">>),
              Of(t2, <<"refusal">>) \o Of(t1, <<"promise">>)}

MCStarred == {"refusal", "evidence", "waiting", "promise"}

=============================================================================
