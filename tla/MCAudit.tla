------------------------------ MODULE MCAudit ------------------------------
(* Two events, both observers and one retry.                             *)
EXTENDS Audit

CONSTANTS e1, e2
=============================================================================
