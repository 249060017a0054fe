------------------------------ MODULE MCReader ------------------------------
(* Reader for TLC: one reader, with PUTs and damage around it.             *)
EXTENDS Reader
=============================================================================
