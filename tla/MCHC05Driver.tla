---------------------------- MODULE MCHC05Driver ----------------------------
(* HC05Driver with two attempts where the code makes 10 or 15.             *)
EXTENDS HC05Driver

MCRetries == [o \in Op |-> IF o = "CFG" THEN 1 ELSE 2]
=============================================================================
