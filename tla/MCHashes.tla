------------------------------ MODULE MCHashes ------------------------------
(* Hashes for TLC: one suffix, since suffixes share nothing but the files  *)
(* that name them, two callers of get_hashes and one request.              *)
EXTENDS Hashes
=============================================================================
