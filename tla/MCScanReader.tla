---------------------------- MODULE MCScanReader ----------------------------
(* Model-checking instance of ScanReader: octets are their own kinds. *)
EXTENDS ScanReader

ItsKind == [k \in Kind |-> k]
=============================================================================
