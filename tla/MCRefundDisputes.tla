--------------------------- MODULE MCRefundDisputes ---------------------------
(* Two deductions, each of its own order. *)
EXTENDS RefundDisputes

MCOrderOf == [d \in Disputes |-> CHOOSE o \in Orders : o = d]
===============================================================================
