--------------------------- MODULE MCSshTransfers ---------------------------
(* Small instances of SshTransfers for TLC: the model values of its .cfg files. *)
EXTENDS SshTransfers

CONSTANTS k1, k2, k3, c1, c2, p, q, x1
=============================================================================
