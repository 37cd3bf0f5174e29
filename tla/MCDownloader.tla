---------------------------- MODULE MCDownloader ----------------------------
(* Small instances of Downloader: one task with three contracts downloaded in two
   batches, and two the lister finds no contracts for. *)
EXTENDS Downloader

CONSTANTS t1, t2, t3, c1, c2, c3

MCTask == {t1, t2, t3}
MCContract == {c1, c2, c3}
MCContractsOf == [t \in MCTask |-> IF t = t1 THEN MCContract ELSE {}]
=============================================================================
