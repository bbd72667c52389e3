--------------------------- MODULE MCHeaderSearch ---------------------------
(* The table at its real size: entry k is 2k + 1, so that the even numbers *)
(* are the names that fall before, between and after the entries.          *)
EXTENDS HeaderSearch

Table == [k \in 0 .. 80 |-> 2 * k + 1]

AllNames == 0 .. 162
=============================================================================
