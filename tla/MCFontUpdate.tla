---------------------------- MODULE MCFontUpdate ----------------------------
(* FontUpdate with the four font files of two cards: files that end inside *)
(* a sector, and files that are a whole number of blocks.                  *)
EXTENDS FontUpdate

MCFileLen == <<[f \in Font |-> <<6, 5, 4, 7>>[f + 1]],
               [f \in Font |-> <<4, 7, 5, 5>>[f + 1]]>>

\* The files fit: the theorems about FontUpdate hold of this instance.
MCTop == [f \in 0..NF |-> <<2, 8, 15, 20, 27>>[f + 1]]

ASSUME MCFontsFit == Fits(MCTop)
=============================================================================
