------------------------- MODULE HeaderSearchProofs -------------------------
(* The search returns the right index for every sorted table.              *)
EXTENDS HeaderSearch, TLAPS

(* The invariant holds when the search starts: the index is below the      *)
(* bound unless the table is empty.                                        *)
LEMMA InitInv == Init => IInv
  BY NumAssumption, TableAssumption, NamesAssumption
  DEF Init, IInv, TypeOK, LargerAbove, SmallerBelow, FindsIt, Indices

(* Each round of the loop preserves it.                                    *)
LEMMA NextInv == IInv /\ [Next]_vars => IInv'
<1> SUFFICES ASSUME IInv, [Next]_vars PROVE IInv'
  OBVIOUS
<1> USE NumAssumption, TableAssumption, NamesAssumption DEF Indices
<1>1. CASE Found
  BY <1>1 DEF Found, Searching, IInv, TypeOK, LargerAbove, SmallerBelow, FindsIt
<1>2. CASE GoUp
  <2>1. /\ i \in Int /\ length \in Int /\ i < length
        /\ i' \in Int /\ i < i' /\ i' <= length
        /\ i' >= length => i = length - 1
    BY <1>2 DEF GoUp, IInv, TypeOK
  <2>2. TypeOK' /\ LargerAbove'
    BY <1>2, <2>1 DEF GoUp, IInv, TypeOK, LargerAbove
  <2>3. SmallerBelow'
    <3> SUFFICES ASSUME i' >= length, NEW k \in Indices, k < length
                 PROVE  HTTP_HEADER_STRINGS[k] < name
      BY <1>2 DEF GoUp, SmallerBelow
    <3>1. i = length - 1 /\ k <= i /\ i \in Indices
      BY <2>1 DEF IInv, TypeOK
    <3>2. HTTP_HEADER_STRINGS[k] <= HTTP_HEADER_STRINGS[i]
      BY <3>1
    <3> QED BY <1>2, <3>1, <3>2 DEF GoUp, IInv, TypeOK
  <2>4. FindsIt'
    BY <1>2 DEF GoUp, Searching, FindsIt
  <2> QED BY <2>2, <2>3, <2>4 DEF IInv
<1>3. CASE GoDown
  <2>1. /\ i \in Indices /\ i' \in Int /\ length' = i
        /\ 0 <= i' /\ i' <= i
        /\ i' >= length' => i = 0
    BY <1>3 DEF GoDown, IInv, TypeOK
  <2>2. TypeOK' /\ SmallerBelow'
    BY <1>3, <2>1 DEF GoDown, IInv, TypeOK, SmallerBelow
  <2>3. LargerAbove'
    <3> SUFFICES ASSUME NEW k \in Indices, k >= i
                 PROVE  name < HTTP_HEADER_STRINGS[k]
      BY <1>3 DEF GoDown, LargerAbove
    <3>1. HTTP_HEADER_STRINGS[i] <= HTTP_HEADER_STRINGS[k]
      BY <2>1
    <3> QED BY <1>3, <2>1, <3>1 DEF GoDown, IInv, TypeOK
  <2>4. FindsIt'
    BY <1>3 DEF GoDown, Searching, FindsIt
  <2> QED BY <2>2, <2>3, <2>4 DEF IInv
<1>4. CASE Absent
  <2>1. TypeOK' /\ LargerAbove' /\ SmallerBelow'
    BY <1>4 DEF Absent, IInv, TypeOK, LargerAbove, SmallerBelow
  <2>2. ASSUME NEW k \in Indices PROVE HTTP_HEADER_STRINGS[k] # name
    <3>1. CASE k >= length
      BY <3>1 DEF IInv, TypeOK, LargerAbove
    <3>2. CASE k < length
      BY <1>4, <3>2 DEF Absent, IInv, TypeOK, SmallerBelow
    <3> QED BY <3>1, <3>2 DEF IInv, TypeOK
  <2> QED BY <1>4, <2>1, <2>2 DEF Absent, IInv, FindsIt
<1>5. CASE UNCHANGED vars
  BY <1>5 DEF vars, IInv, TypeOK, LargerAbove, SmallerBelow, FindsIt
<1> QED BY <1>1, <1>2, <1>3, <1>4, <1>5 DEF Next

(* find_header_index returns the index of the name when the table has it,  *)
(* and -1 otherwise, for every strictly sorted table of any length.        *)
THEOREM SearchCorrect == Spec => []FindsIt
<1>1. IInv => FindsIt
  BY DEF IInv
<1> QED BY InitInv, NextInv, <1>1, PTL DEF Spec

(* The index never leaves the table while it is used.                      *)
THEOREM SearchTypeCorrect == Spec => []TypeOK
<1>1. IInv => TypeOK
  BY DEF IInv
<1> QED BY InitInv, NextInv, <1>1, PTL DEF Spec
=============================================================================
