----------------------------- MODULE MCSubStream -----------------------------
(* One branch makes blocks with items, the other blocks without. *)
EXTENDS SubStream

CONSTANTS full, bare

MCBranches == {full, bare}
MCEmpty == {bare}
=============================================================================
