---------------------------- MODULE HeaderSearch ----------------------------
(***************************************************************************)
(* find_header_index (http/http_headers.c): the search of a header name in *)
(* the table HTTP_HEADER_STRINGS.  It halves the index to go down and      *)
(* forgets the lower bound it had, so it is no ordinary binary search.     *)
(* Names are represented by integers in the order of strcmp; one round of  *)
(* the loop is one step.                                                   *)
(***************************************************************************)
EXTENDS Integers

CONSTANTS NUM_HTTP_HEADERS,
          HTTP_HEADER_STRINGS,   \* the table, in strictly increasing order
          Names                  \* the names that are looked up

ASSUME NumAssumption == NUM_HTTP_HEADERS \in Nat

Indices == 0 .. NUM_HTTP_HEADERS - 1

ASSUME TableAssumption ==
    /\ HTTP_HEADER_STRINGS \in [Indices -> Int]
    /\ \A i, j \in Indices : i < j => HTTP_HEADER_STRINGS[i] < HTTP_HEADER_STRINGS[j]
ASSUME NamesAssumption == Names \subseteq Int

VARIABLES name,      \* key
          i, length,
          result       \* -2 while searching

vars == <<name, i, length, result>>

Init == /\ name \in Names
        /\ i = NUM_HTTP_HEADERS \div 2
        /\ length = NUM_HTTP_HEADERS
        /\ result = -2

Searching == result = -2

Found ==
    /\ Searching
    /\ i < length
    /\ HTTP_HEADER_STRINGS[i] = name
    /\ result' = i
    /\ UNCHANGED <<name, i, length>>

(* Mutant: half of the sum of the bounds, added to the lower one.          *)
GoUp_AddsMiddle ==
    /\ Searching
    /\ i < length
    /\ HTTP_HEADER_STRINGS[i] < name
    /\ i' = i + (length + i + 1) \div 2
    /\ UNCHANGED <<name, length, result>>

(* Mutant: half of the rest, rounded down.                                 *)
GoUp_RoundsDown ==
    /\ Searching
    /\ i < length
    /\ HTTP_HEADER_STRINGS[i] < name
    /\ i' = i + (length - i) \div 2
    /\ UNCHANGED <<name, length, result>>

GoUp ==
    /\ Searching
    /\ i < length
    /\ HTTP_HEADER_STRINGS[i] < name
    /\ i' = i + (length - i + 1) \div 2
    /\ UNCHANGED <<name, length, result>>

(* Mutant: the bound excludes the entry below as well.                     *)
GoDown_TooFar ==
    /\ Searching
    /\ i < length
    /\ HTTP_HEADER_STRINGS[i] > name
    /\ length' = i - 1
    /\ i' = i \div 2
    /\ UNCHANGED <<name, result>>

GoDown ==
    /\ Searching
    /\ i < length
    /\ HTTP_HEADER_STRINGS[i] > name
    /\ length' = i
    /\ i' = i \div 2
    /\ UNCHANGED <<name, result>>

Absent ==
    /\ Searching
    /\ i >= length
    /\ result' = -1
    /\ UNCHANGED <<name, i, length>>

Next == Found \/ GoUp \/ GoDown \/ Absent

Spec == Init /\ [][Next]_vars

FairSpec == Spec /\ WF_vars(Next)

-----------------------------------------------------------------------------
TypeOK ==
    /\ name \in Names
    /\ i \in 0 .. NUM_HTTP_HEADERS
    /\ length \in 0 .. NUM_HTTP_HEADERS
    /\ result \in Indices \union {-1, -2}

(* The answer is the index of the name, and -1 only for a name that is not *)
(* in the table, although the search forgets its lower bound.              *)
FindsIt ==
    /\ result \in Indices => HTTP_HEADER_STRINGS[result] = name
    /\ result = -1 => \A k \in Indices : HTTP_HEADER_STRINGS[k] # name

(* The search ends for every name.                                         *)
Ends == <>(result # -2)

(* What makes FindsIt inductive: above `length' all is larger, and when    *)
(* the index has reached `length' all below it is smaller.                 *)
LargerAbove == \A k \in Indices : k >= length => name < HTTP_HEADER_STRINGS[k]

SmallerBelow ==
    i >= length => \A k \in Indices : k < length => HTTP_HEADER_STRINGS[k] < name

IInv == TypeOK /\ LargerAbove /\ SmallerBelow /\ FindsIt
=============================================================================
