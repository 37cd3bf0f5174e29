--------------------------- MODULE MCVendorClient ---------------------------
(* An instance of VendorClient for TLC. *)
EXTENDS VendorClient

CONSTANTS t1, t2, t3

MCTask == {t1, t2, t3}
=============================================================================
