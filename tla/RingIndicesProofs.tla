------------------------- MODULE RingIndicesProofs -------------------------
(***************************************************************************)
(* The arithmetic modulo Cap, on any two indices l and n of a ring of any  *)
(* size: the entries from l up to n, that grow when n moves on and shrink  *)
(* when l does, and the distance from l to n.                              *)
(***************************************************************************)
EXTENDS RingIndices, TLAPS

(* The entries from l up to, and without, n.                               *)
Span(l, n) ==
    {i \in Entries : IF l <= n THEN l <= i /\ i < n ELSE l <= i \/ i < n}

LEMMA CapPositive == Cap \in Nat \ {0}
BY CapAssumption DEF Cap

(* The indices stay indices, and decrement undoes increment.               *)
LEMMA Wraps ==
    ASSUME NEW i \in Entries
    PROVE  /\ circular_increment(i) = IF i + 1 = Cap THEN 0 ELSE i + 1
           /\ circular_decrement(i) = IF i = 0 THEN Cap - 1 ELSE i - 1
           /\ circular_increment(i) \in Entries
           /\ circular_decrement(i) \in Entries
           /\ circular_decrement(circular_increment(i)) = i
<1> DEFINE C == Cap
<1>1. C \in Nat \ {0} /\ i \in 0 .. C - 1
  BY CapPositive DEF Entries
<1> HIDE DEF C
<1>2. (i + 1) % C = IF i + 1 = C THEN 0 ELSE i + 1
  BY <1>1
<1>3. (i - 1) % C = IF i = 0 THEN C - 1 ELSE i - 1
  BY <1>1
<1>4. ((IF i + 1 = C THEN 0 ELSE i + 1) - 1) % C = i
  BY <1>1
<1> QED
  BY <1>1, <1>2, <1>3, <1>4 DEF C, circular_increment, circular_decrement, Entries

(* Offsets from l, and the entries they name.                              *)
LEMMA Offsets ==
    ASSUME NEW l \in Entries, NEW n \in Entries
    PROVE  /\ (n - l) % Cap = IF l <= n THEN n - l ELSE n - l + Cap
           /\ (n - l) % Cap \in Entries
           /\ \A k \in Entries :
                 (l + k) % Cap = IF l + k < Cap THEN l + k ELSE l + k - Cap
<1> DEFINE C == Cap
<1>1. C \in Nat \ {0} /\ l \in 0 .. C - 1 /\ n \in 0 .. C - 1
  BY CapPositive DEF Entries
<1> HIDE DEF C
<1>2. (n - l) % C = IF l <= n THEN n - l ELSE n - l + C
  BY <1>1
<1>3. ASSUME NEW k \in 0 .. C - 1
      PROVE  (l + k) % C = IF l + k < C THEN l + k ELSE l + k - C
  BY <1>1
<1> QED
  BY <1>1, <1>2, <1>3 DEF C, Entries

(* The entries at the offsets below the distance are those between.        *)
LEMMA WindowSpan ==
    ASSUME NEW l \in Entries, NEW n \in Entries
    PROVE  {(l + k) % Cap : k \in 0 .. ((n - l) % Cap) - 1} = Span(l, n)
<1> DEFINE L == (n - l) % Cap
<1>1. Cap \in Nat \ {0}
  BY CapPositive
<1>2. /\ L = IF l <= n THEN n - l ELSE n - l + Cap
      /\ L \in Entries
      /\ \A k \in Entries :
            (l + k) % Cap = IF l + k < Cap THEN l + k ELSE l + k - Cap
  BY <1>1, Offsets
<1> HIDE DEF L
<1>3. ASSUME NEW k \in 0 .. L - 1
      PROVE  (l + k) % Cap \in Span(l, n)
  <2>1. k \in Entries
    BY <1>1, <1>2 DEF Entries
  <2> QED
    BY <2>1, <1>1, <1>2 DEF Entries, Span
<1>4. ASSUME NEW i \in Span(l, n)
      PROVE  \E k \in 0 .. L - 1 : i = (l + k) % Cap
  <2>1. CASE l <= i
    <3>1. i - l \in 0 .. L - 1 /\ i - l \in Entries
      BY <2>1, <1>1, <1>2 DEF Entries, Span
    <3>2. i = (l + (i - l)) % Cap
      BY <3>1, <1>1, <1>2 DEF Entries, Span
    <3> QED
      BY <3>1, <3>2
  <2>2. CASE ~(l <= i)
    <3>1. i - l + Cap \in 0 .. L - 1 /\ i - l + Cap \in Entries
      BY <2>2, <1>1, <1>2 DEF Entries, Span
    <3>2. i = (l + (i - l + Cap)) % Cap
      BY <3>1, <1>1, <1>2 DEF Entries, Span
    <3> QED
      BY <3>1, <3>2
  <2> QED
    BY <2>1, <2>2
<1>5. {(l + k) % Cap : k \in 0 .. L - 1} = Span(l, n)
  BY <1>3, <1>4
<1> QED
  BY <1>5 DEF L

(* One more entry is received ...                                          *)
LEMMA Grows ==
    ASSUME NEW l \in Entries, NEW n \in Entries, circular_increment(n) # l
    PROVE  /\ Span(l, circular_increment(n)) = Span(l, n) \union {n}
           /\ n \notin Span(l, n)
           /\ l # circular_increment(n)
BY CapPositive, Wraps DEF Span, Entries

(* ... and the oldest one is sent; the last received one is in between.    *)
LEMMA Shrinks ==
    ASSUME NEW l \in Entries, NEW n \in Entries, l # n
    PROVE  /\ l \in Span(l, n)
           /\ Span(circular_increment(l), n) = Span(l, n) \ {l}
           /\ circular_decrement(n) \in Span(l, n)
BY CapPositive, Wraps DEF Span, Entries

LEMMA EmptySpan ==
    ASSUME NEW i \in Entries
    PROVE  Span(i, i) = {}
BY CapPositive DEF Span, Entries

-----------------------------------------------------------------------------
(* The distance from l to n, and the entry at a given offset.              *)

LEMMA Distance ==
    ASSUME NEW l \in Entries, NEW n \in Entries
    PROVE  /\ (n - l) % Cap \in 0 .. Cap - 1
           /\ (n - l) % Cap = 0 <=> l = n
           /\ (n - l) % Cap = Cap - 1 <=> circular_increment(n) = l
           /\ (l + ((n - l) % Cap)) % Cap = n
           /\ \A j, k \in Entries : (l + j) % Cap = (l + k) % Cap => j = k
<1> DEFINE L == (n - l) % Cap
<1>1. Cap \in Nat \ {0} /\ l \in 0 .. Cap - 1 /\ n \in 0 .. Cap - 1
  BY CapPositive DEF Entries
<1>2. /\ L = IF l <= n THEN n - l ELSE n - l + Cap
      /\ L \in Entries
      /\ \A k \in Entries :
            (l + k) % Cap = IF l + k < Cap THEN l + k ELSE l + k - Cap
  BY Offsets
<1>3. circular_increment(n) = IF n + 1 = Cap THEN 0 ELSE n + 1
  BY Wraps
<1> HIDE DEF L
<1>4. (l + L) % Cap = n
  BY <1>1, <1>2
<1>5. \A j, k \in Entries : (l + j) % Cap = (l + k) % Cap => j = k
  BY <1>1, <1>2 DEF Entries
<1>6. /\ L \in 0 .. Cap - 1
      /\ L = 0 <=> l = n
      /\ L = Cap - 1 <=> circular_increment(n) = l
  BY <1>1, <1>2, <1>3 DEF Entries
<1> QED
  BY <1>4, <1>5, <1>6 DEF L

LEMMA DistanceGrows ==
    ASSUME NEW l \in Entries, NEW n \in Entries, circular_increment(n) # l
    PROVE  (circular_increment(n) - l) % Cap = ((n - l) % Cap) + 1
<1> DEFINE m == circular_increment(n)
<1>1. Cap \in Nat \ {0} /\ l \in 0 .. Cap - 1 /\ n \in 0 .. Cap - 1
  BY CapPositive DEF Entries
<1>2. m = (IF n + 1 = Cap THEN 0 ELSE n + 1) /\ m \in Entries /\ m # l
  BY Wraps
<1> HIDE DEF m
<1>3. (m - l) % Cap = IF l <= m THEN m - l ELSE m - l + Cap
  BY <1>2, Offsets
<1>4. (n - l) % Cap = IF l <= n THEN n - l ELSE n - l + Cap
  BY Offsets
<1>5. (m - l) % Cap = ((n - l) % Cap) + 1
  BY <1>1, <1>2, <1>3, <1>4
<1> QED
  BY <1>5 DEF m

LEMMA DistanceShrinks ==
    ASSUME NEW l \in Entries, NEW n \in Entries, l # n
    PROVE  /\ (n - circular_increment(l)) % Cap = ((n - l) % Cap) - 1
           /\ \A k \in 1 .. Cap - 1 :
                 (circular_increment(l) + (k - 1)) % Cap = (l + k) % Cap
           /\ (l + (((n - l) % Cap) - 1)) % Cap = circular_decrement(n)
<1> DEFINE m == circular_increment(l)
           L == (n - l) % Cap
<1>1. Cap \in Nat \ {0} /\ l \in 0 .. Cap - 1 /\ n \in 0 .. Cap - 1
  BY CapPositive DEF Entries
<1>2. m = (IF l + 1 = Cap THEN 0 ELSE l + 1) /\ m \in Entries
  BY Wraps
<1>3. circular_decrement(n) = IF n = 0 THEN Cap - 1 ELSE n - 1
  BY Wraps
<1>4. /\ L = IF l <= n THEN n - l ELSE n - l + Cap
      /\ L \in Entries
      /\ \A k \in Entries :
            (l + k) % Cap = IF l + k < Cap THEN l + k ELSE l + k - Cap
  BY Offsets
<1> HIDE DEF m, L
<1>5. /\ (n - m) % Cap = IF m <= n THEN n - m ELSE n - m + Cap
      /\ \A k \in Entries :
            (m + k) % Cap = IF m + k < Cap THEN m + k ELSE m + k - Cap
  BY <1>2, Offsets
<1>6. (n - m) % Cap = L - 1
  BY <1>1, <1>2, <1>4, <1>5
<1>7. ASSUME NEW k \in 1 .. Cap - 1
      PROVE  (m + (k - 1)) % Cap = (l + k) % Cap
  <2>1. k \in Entries /\ k - 1 \in Entries
    BY <1>1 DEF Entries
  <2> QED
    BY <1>1, <1>2, <1>4, <1>5, <2>1
<1>8. (l + (L - 1)) % Cap = circular_decrement(n)
  <2>1. L - 1 \in Entries
    BY <1>1, <1>4 DEF Entries
  <2> QED
    BY <1>1, <1>3, <1>4, <2>1
<1> QED
  BY <1>6, <1>7, <1>8 DEF m, L
=============================================================================
