-------------------------- MODULE MCAppealWorkflows --------------------------
(* One refused order and two threads of AutoPilot. *)
EXTENDS AppealWorkflows, TLC

CONSTANTS c1, s1, s2

SenderSymmetry == Permutations(Senders)

(* Bound on what goes on at once: any three of the two attempts, the two    *)
(* threads and an analysis that asks for evidence.                         *)
BoundedLoad ==
    \A c \in Cases :
        Latest(c) + Cardinality(Working(c)) + (IF wf[c].advice = "evidence" THEN 1 ELSE 0) <= 3
==============================================================================
