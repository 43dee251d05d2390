----------------------------- MODULE MCGmailSend -----------------------------
(* Instances of GmailSend for TLC: c1 and c2 are two initial-claim drafts   *)
(* of one order, f1 and f2 two follow-up drafts of another.                 *)
EXTENDS GmailSend

CONSTANTS s1, s2, c1, c2, f1, f2, a1, o1, o2, t1, t2, t3, t4

OneMailbox == [d \in Drafts |-> a1]
ByOrder == [d \in Drafts |-> IF d \in {c1, c2} THEN o1 ELSE o2]

(* Every draft opens or answers a conversation of its own ... *)
OwnThreads ==
    [d \in Drafts |-> CASE d = c1 -> t1 [] d = c2 -> t2 [] d = f1 -> t3 [] d = f2 -> t4]

(* ... or the two follow-ups answer the same one. *)
FollowUpsShareThread ==
    [d \in Drafts |-> CASE d = c1 -> t1 [] d = c2 -> t2 [] d \in {f1, f2} -> t3]
==============================================================================
