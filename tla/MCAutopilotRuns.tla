---------------------------- MODULE MCAutopilotRuns ----------------------------
(* An instance of AutopilotRuns for TLC: two mailboxes have follow-ups due,   *)
(* and one of them, which serves two restaurants, has appeals.             *)
EXTENDS AutopilotRuns

CONSTANTS w1

QueueCases == 1 .. 7
QueueLane == [c \in QueueCases |-> IF c <= 3 THEN "followups" ELSE "appeals"]
QueueAccount == [c \in QueueCases |-> IF c = 3 THEN "b" ELSE "a"]
QueueRestaurant == [c \in QueueCases |-> IF c = 3 THEN "y" ELSE IF c = 7 THEN "z" ELSE "x"]

===============================================================================
