------------------------ MODULE SharedBuffersProofs ------------------------
(***************************************************************************)
(* Proofs about the buffer pool for any set of threads and any number of   *)
(* buffers.  The inductive invariant is IInv; each of its parts is         *)
(* preserved by every action given the whole of IInv.                      *)
(***************************************************************************)
EXTENDS SharedBuffers, FiniteSetTheorems, TLAPS

(* No function maps a finite set one-to-one into a smaller part of itself. *)
LEMMA NotInjective ==
    ASSUME NEW S, IsFiniteSet(S), NEW k \in S, NEW f \in [S -> S \ {k}]
    PROVE  \E x, y \in S : x # y /\ f[x] = f[y]
<1>1. /\ IsFiniteSet(S \ {k})
      /\ Cardinality(S \ {k}) = Cardinality(S) - 1
      /\ Cardinality(S) \in Nat
  BY FS_RemoveElement, FS_CardinalityType
<1>2. Cardinality(S \ {k}) < Cardinality(S)
  BY <1>1
<1>3. QED
  BY <1>1, <1>2, FS_PigeonHole, Zenon

(* The free list has room for a key that is not listed: distinct keys, one *)
(* of them missing, cannot fill the array (free_buffer_list[++last]).      *)
LEMMA RoomForOne ==
    ASSUME NEW k \in Buffers,
           last \in -1 .. MaxBuffers - 1,
           free_buffer_list \in [Buffers -> -1 .. MaxBuffers - 1],
           ListedKeys,
           \A i, j \in 0 .. last : free_buffer_list[i] = free_buffer_list[j] => i = j,
           k \notin FreeKeys
    PROVE  last + 1 \in Buffers
<1>1. MaxBuffers \in Nat \ {0}
  BY MaxBuffersAssumption
<1>2. SUFFICES ASSUME last = MaxBuffers - 1  PROVE FALSE
  BY <1>1, SMT DEF Buffers
<1>3. IsFiniteSet(Buffers)
  BY <1>1, FS_Interval DEF Buffers
<1>4. free_buffer_list \in [Buffers -> Buffers \ {k}]
  BY <1>1, <1>2, SMT DEF Buffers, ListedKeys, FreeKeys
<1>5. \E x, y \in Buffers : x # y /\ free_buffer_list[x] = free_buffer_list[y]
  BY <1>3, <1>4, NotInjective, ZenonT(30)
<1>6. QED
  BY <1>2, <1>5 DEF Buffers


(* A step loses no key if what leaves the list or the callers is then in   *)
(* the hands of t, and what a thread had in hand it keeps or puts back.    *)
LEMMA StillSomewhere ==
    ASSUME NothingLost, Ready, NEW t \in Threads,
           \A b \in Buffers :
              b \in FreeKeys \union held =>
                 b \in (FreeKeys \union held)' \/ (InTransit(t)' /\ key'[t] = b),
           \A u \in Threads :
              InTransit(u) =>
                 key[u] \in (FreeKeys \union held)' \/ (InTransit(u)' /\ key'[u] = key[u])
    PROVE  NothingLost'
BY Zenon DEF NothingLost

(* The call starts: nothing shared changes.                                *)
LEMMA CallAllocStep ==
    ASSUME IInv, NEW t \in Threads, CallAlloc(t)
    PROVE  IInv'
<1> USE MaxBuffersAssumption DEF IInv, CallAlloc
<1>1. TypeOK'
  BY DEF TypeOK, Steps, AllocSteps, FreeSteps, StrayKeys, Buffers
<1>2. BeforeInit'
  BY DEF BeforeInit, TypeOK
<1>3. MutualExclusion'
  BY DEF MutualExclusion, Inside, AllocSteps, FreeSteps, TypeOK
<1>4. ListedKeys'
  BY DEF ListedKeys
<1>5. Locals'
  BY DEF Locals, TypeOK, Buffers, StrayKeys
<1>6. OneOwner'
  BY DEF OneOwner, FreeKeys, InTransit, Locals, TypeOK, Buffers, StrayKeys
<1>7. NothingLost'
  <2>1. Ready
    BY DEF Ready, BeforeInit, TypeOK
  <2>2. \A b \in Buffers :
           b \in FreeKeys \union held =>
              b \in (FreeKeys \union held)' \/ (InTransit(t)' /\ key'[t] = b)
    BY DEF FreeKeys, InTransit, Locals, TypeOK, Buffers, StrayKeys
  <2>3. \A u \in Threads :
           InTransit(u) =>
              key[u] \in (FreeKeys \union held)' \/ (InTransit(u)' /\ key'[u] = key[u])
    BY DEF FreeKeys, InTransit, Locals, TypeOK, Buffers, StrayKeys
  <2>4. QED
    BY <2>1, <2>2, <2>3, StillSomewhere
<1>8. HandedOutBlank'
  BY DEF HandedOutBlank, FreeKeys, Locals, TypeOK, Buffers, StrayKeys
<1>9. FailsOnlyWhenEmpty'
  BY DEF FailsOnlyWhenEmpty, available_buffers, Locals, TypeOK
<1> QED
  BY <1>1, <1>2, <1>3, <1>4, <1>5, <1>6, <1>7, <1>8, <1>9

(* Taking the semaphore: nobody else was inside.                           *)
LEMMA AllocWaitStep ==
    ASSUME IInv, NEW t \in Threads, AllocWait(t)
    PROVE  IInv'
<1> USE MaxBuffersAssumption DEF IInv, AllocWait, sem_wait
<1>1. TypeOK'
  BY DEF TypeOK, Steps, AllocSteps, FreeSteps, StrayKeys, Buffers
<1>2. BeforeInit'
  BY DEF BeforeInit, TypeOK
<1>3. MutualExclusion'
  BY DEF MutualExclusion, Inside, AllocSteps, FreeSteps, TypeOK
<1>4. ListedKeys'
  BY DEF ListedKeys
<1>5. Locals'
  BY DEF Locals, TypeOK, Buffers, StrayKeys
<1>6. OneOwner'
  BY DEF OneOwner, FreeKeys, InTransit, Locals, TypeOK, Buffers, StrayKeys
<1>7. NothingLost'
  <2>1. Ready
    BY DEF Ready, BeforeInit, TypeOK
  <2>2. \A b \in Buffers :
           b \in FreeKeys \union held =>
              b \in (FreeKeys \union held)' \/ (InTransit(t)' /\ key'[t] = b)
    BY DEF FreeKeys, InTransit, Locals, TypeOK, Buffers, StrayKeys
  <2>3. \A u \in Threads :
           InTransit(u) =>
              key[u] \in (FreeKeys \union held)' \/ (InTransit(u)' /\ key'[u] = key[u])
    BY DEF FreeKeys, InTransit, Locals, TypeOK, Buffers, StrayKeys
  <2>4. QED
    BY <2>1, <2>2, <2>3, StillSomewhere
<1>8. HandedOutBlank'
  BY DEF HandedOutBlank, FreeKeys, Locals, TypeOK, Buffers, StrayKeys
<1>9. FailsOnlyWhenEmpty'
  BY DEF FailsOnlyWhenEmpty, available_buffers, Locals, TypeOK
<1> QED
  BY <1>1, <1>2, <1>3, <1>4, <1>5, <1>6, <1>7, <1>8, <1>9

(* The empty list is seen as it is: t is alone inside.                     *)
LEMMA AllocEmptyStep ==
    ASSUME IInv, NEW t \in Threads, AllocEmpty(t)
    PROVE  IInv'
<1> USE MaxBuffersAssumption DEF IInv, AllocEmpty
<1>1. TypeOK'
  BY DEF TypeOK, Steps, AllocSteps, FreeSteps, StrayKeys, Buffers
<1>2. BeforeInit'
  BY DEF BeforeInit, TypeOK
<1>3. MutualExclusion'
  BY DEF MutualExclusion, Inside, AllocSteps, FreeSteps, TypeOK
<1>4. ListedKeys'
  BY DEF ListedKeys
<1>5. Locals'
  BY DEF Locals, TypeOK, Buffers, StrayKeys
<1>6. OneOwner'
  BY DEF OneOwner, FreeKeys, InTransit, Locals, TypeOK, Buffers, StrayKeys
<1>7. NothingLost'
  <2>1. Ready
    BY DEF Ready, BeforeInit, TypeOK
  <2>2. \A b \in Buffers :
           b \in FreeKeys \union held =>
              b \in (FreeKeys \union held)' \/ (InTransit(t)' /\ key'[t] = b)
    BY DEF FreeKeys, InTransit, Locals, TypeOK, Buffers, StrayKeys
  <2>3. \A u \in Threads :
           InTransit(u) =>
              key[u] \in (FreeKeys \union held)' \/ (InTransit(u)' /\ key'[u] = key[u])
    BY DEF FreeKeys, InTransit, Locals, TypeOK, Buffers, StrayKeys
  <2>4. QED
    BY <2>1, <2>2, <2>3, StillSomewhere
<1>8. HandedOutBlank'
  BY DEF HandedOutBlank, FreeKeys, Locals, TypeOK, Buffers, StrayKeys
<1>9. FailsOnlyWhenEmpty'
  BY DEF FailsOnlyWhenEmpty, available_buffers, Locals, TypeOK
<1> QED
  BY <1>1, <1>2, <1>3, <1>4, <1>5, <1>6, <1>7, <1>8, <1>9

(* The key on top of the list is seen, and is still listed.                *)
LEMMA AllocReadStep ==
    ASSUME IInv, NEW t \in Threads, AllocRead(t)
    PROVE  IInv'
<1> USE MaxBuffersAssumption DEF IInv, AllocRead
<1>1. TypeOK'
  <2>1. free_buffer_list[last] \in Buffers
    BY DEF ListedKeys, TypeOK
  <2>2. QED
    BY <2>1 DEF TypeOK, Steps, AllocSteps
<1>2. BeforeInit'
  BY DEF BeforeInit, TypeOK
<1>3. MutualExclusion'
  BY DEF MutualExclusion, Inside, AllocSteps, FreeSteps, TypeOK
<1>4. ListedKeys'
  BY DEF ListedKeys
<1>5. Locals'
  BY DEF Locals, TypeOK, Buffers, StrayKeys
<1>6. OneOwner'
  BY DEF OneOwner, FreeKeys, InTransit, Locals, TypeOK, Buffers, StrayKeys
<1>7. NothingLost'
  <2>1. Ready
    BY DEF Ready, BeforeInit, TypeOK
  <2>2. \A b \in Buffers :
           b \in FreeKeys \union held =>
              b \in (FreeKeys \union held)' \/ (InTransit(t)' /\ key'[t] = b)
    BY DEF FreeKeys, InTransit, Locals, TypeOK, Buffers, StrayKeys
  <2>3. \A u \in Threads :
           InTransit(u) =>
              key[u] \in (FreeKeys \union held)' \/ (InTransit(u)' /\ key'[u] = key[u])
    BY DEF FreeKeys, InTransit, Locals, TypeOK, Buffers, StrayKeys
  <2>4. QED
    BY <2>1, <2>2, <2>3, StillSomewhere
<1>8. HandedOutBlank'
  BY DEF HandedOutBlank, FreeKeys, Locals, TypeOK, Buffers, StrayKeys
<1>9. FailsOnlyWhenEmpty'
  BY DEF FailsOnlyWhenEmpty, available_buffers, Locals, TypeOK
<1> QED
  BY <1>1, <1>2, <1>3, <1>4, <1>5, <1>6, <1>7, <1>8, <1>9

(* The semaphore is given back, and the popped key gets an owner.          *)
LEMMA AllocPostStep ==
    ASSUME IInv, NEW t \in Threads, AllocPost(t)
    PROVE  IInv'
<1> USE MaxBuffersAssumption DEF IInv, AllocPost, sem_post
<1>1. TypeOK'
  <2>1. mutex = 0
    BY DEF MutualExclusion, Inside, AllocSteps
  <2>2. held' \subseteq Buffers
    BY DEF Locals, TypeOK, Buffers
  <2>3. QED
    BY <2>1, <2>2 DEF TypeOK, Steps, StrayKeys, Buffers
<1>2. BeforeInit'
  BY DEF BeforeInit, TypeOK
<1>3. MutualExclusion'
  BY DEF MutualExclusion, Inside, AllocSteps, FreeSteps, TypeOK
<1>4. ListedKeys'
  BY DEF ListedKeys
<1>5. Locals'
  BY DEF Locals, TypeOK, Buffers, StrayKeys
<1>6. OneOwner'
  BY DEF OneOwner, FreeKeys, InTransit, Locals, TypeOK, Buffers, StrayKeys
<1>7. NothingLost'
  <2>1. Ready
    BY DEF Ready, BeforeInit, TypeOK
  <2>2. \A b \in Buffers :
           b \in FreeKeys \union held =>
              b \in (FreeKeys \union held)' \/ (InTransit(t)' /\ key'[t] = b)
    BY DEF FreeKeys, InTransit, Locals, TypeOK, Buffers, StrayKeys
  <2>3. \A u \in Threads :
           InTransit(u) =>
              key[u] \in (FreeKeys \union held)' \/ (InTransit(u)' /\ key'[u] = key[u])
    BY DEF FreeKeys, InTransit, Locals, TypeOK, Buffers, StrayKeys
  <2>4. QED
    BY <2>1, <2>2, <2>3, StillSomewhere
<1>8. HandedOutBlank'
  BY DEF HandedOutBlank, FreeKeys, Locals, TypeOK, Buffers, StrayKeys
<1>9. FailsOnlyWhenEmpty'
  BY DEF FailsOnlyWhenEmpty, available_buffers, Locals, TypeOK
<1> QED
  BY <1>1, <1>2, <1>3, <1>4, <1>5, <1>6, <1>7, <1>8, <1>9

(* The owner gives its key up: the key is in transit.                      *)
LEMMA CallFreeStep ==
    ASSUME IInv, NEW t \in Threads, NEW k \in held \union StrayKeys, CallFree(t, k)
    PROVE  IInv'
<1> USE MaxBuffersAssumption DEF IInv, CallFree
<1>1. TypeOK'
  BY DEF TypeOK, Steps, AllocSteps, FreeSteps, StrayKeys, Buffers
<1>2. BeforeInit'
  BY DEF BeforeInit, TypeOK
<1>3. MutualExclusion'
  BY DEF MutualExclusion, Inside, AllocSteps, FreeSteps, TypeOK
<1>4. ListedKeys'
  BY DEF ListedKeys
<1>5. Locals'
  BY DEF Locals, TypeOK, Buffers, StrayKeys
<1>6. OneOwner'
  BY DEF OneOwner, FreeKeys, InTransit, Locals, TypeOK, Buffers, StrayKeys
<1>7. NothingLost'
  <2>1. Ready
    BY DEF Ready, BeforeInit, TypeOK
  <2>2. \A b \in Buffers :
           b \in FreeKeys \union held =>
              b \in (FreeKeys \union held)' \/ (InTransit(t)' /\ key'[t] = b)
    BY DEF FreeKeys, InTransit, Locals, TypeOK, Buffers, StrayKeys
  <2>3. \A u \in Threads :
           InTransit(u) =>
              key[u] \in (FreeKeys \union held)' \/ (InTransit(u)' /\ key'[u] = key[u])
    BY DEF FreeKeys, InTransit, Locals, TypeOK, Buffers, StrayKeys
  <2>4. QED
    BY <2>1, <2>2, <2>3, StillSomewhere
<1>8. HandedOutBlank'
  BY DEF HandedOutBlank, FreeKeys, Locals, TypeOK, Buffers, StrayKeys
<1>9. FailsOnlyWhenEmpty'
  BY DEF FailsOnlyWhenEmpty, available_buffers, Locals, TypeOK
<1> QED
  BY <1>1, <1>2, <1>3, <1>4, <1>5, <1>6, <1>7, <1>8, <1>9

(* Taking the semaphore to free: nobody else was inside.                   *)
LEMMA FreeWaitStep ==
    ASSUME IInv, NEW t \in Threads, FreeWait(t)
    PROVE  IInv'
<1> USE MaxBuffersAssumption DEF IInv, FreeWait, sem_wait
<1>1. TypeOK'
  BY DEF TypeOK, Steps, AllocSteps, FreeSteps, StrayKeys, Buffers
<1>2. BeforeInit'
  BY DEF BeforeInit, TypeOK
<1>3. MutualExclusion'
  BY DEF MutualExclusion, Inside, AllocSteps, FreeSteps, TypeOK
<1>4. ListedKeys'
  BY DEF ListedKeys
<1>5. Locals'
  BY DEF Locals, TypeOK, Buffers, StrayKeys
<1>6. OneOwner'
  BY DEF OneOwner, FreeKeys, InTransit, Locals, TypeOK, Buffers, StrayKeys
<1>7. NothingLost'
  <2>1. Ready
    BY DEF Ready, BeforeInit, TypeOK
  <2>2. \A b \in Buffers :
           b \in FreeKeys \union held =>
              b \in (FreeKeys \union held)' \/ (InTransit(t)' /\ key'[t] = b)
    BY DEF FreeKeys, InTransit, Locals, TypeOK, Buffers, StrayKeys
  <2>3. \A u \in Threads :
           InTransit(u) =>
              key[u] \in (FreeKeys \union held)' \/ (InTransit(u)' /\ key'[u] = key[u])
    BY DEF FreeKeys, InTransit, Locals, TypeOK, Buffers, StrayKeys
  <2>4. QED
    BY <2>1, <2>2, <2>3, StillSomewhere
<1>8. HandedOutBlank'
  BY DEF HandedOutBlank, FreeKeys, Locals, TypeOK, Buffers, StrayKeys
<1>9. FailsOnlyWhenEmpty'
  BY DEF FailsOnlyWhenEmpty, available_buffers, Locals, TypeOK
<1> QED
  BY <1>1, <1>2, <1>3, <1>4, <1>5, <1>6, <1>7, <1>8, <1>9

(* The range test: a key in the hands of t is in range.                    *)
LEMMA FreeTestStep ==
    ASSUME IInv, NEW t \in Threads, FreeTest(t)
    PROVE  IInv'
<1> USE MaxBuffersAssumption DEF IInv, FreeTest
<1>1. TypeOK'
  BY DEF TypeOK, Steps, AllocSteps, FreeSteps, StrayKeys, Buffers
<1>2. BeforeInit'
  BY DEF BeforeInit, TypeOK
<1>3. MutualExclusion'
  BY DEF MutualExclusion, Inside, AllocSteps, FreeSteps, TypeOK
<1>4. ListedKeys'
  BY DEF ListedKeys
<1>5. Locals'
  BY DEF Locals, TypeOK, Buffers, StrayKeys
<1>6. OneOwner'
  BY DEF OneOwner, FreeKeys, InTransit, Locals, TypeOK, Buffers, StrayKeys
<1>7. NothingLost'
  <2>1. Ready
    BY DEF Ready, BeforeInit, TypeOK
  <2>2. \A b \in Buffers :
           b \in FreeKeys \union held =>
              b \in (FreeKeys \union held)' \/ (InTransit(t)' /\ key'[t] = b)
    BY DEF FreeKeys, InTransit, Locals, TypeOK, Buffers, StrayKeys
  <2>3. \A u \in Threads :
           InTransit(u) =>
              key[u] \in (FreeKeys \union held)' \/ (InTransit(u)' /\ key'[u] = key[u])
    BY DEF FreeKeys, InTransit, Locals, TypeOK, Buffers, StrayKeys
  <2>4. QED
    BY <2>1, <2>2, <2>3, StillSomewhere
<1>8. HandedOutBlank'
  BY DEF HandedOutBlank, FreeKeys, Locals, TypeOK, Buffers, StrayKeys
<1>9. FailsOnlyWhenEmpty'
  BY DEF FailsOnlyWhenEmpty, available_buffers, Locals, TypeOK
<1> QED
  BY <1>1, <1>2, <1>3, <1>4, <1>5, <1>6, <1>7, <1>8, <1>9

(* Only the buffer in transit is erased.                                   *)
LEMMA FreeEraseStep ==
    ASSUME IInv, NEW t \in Threads, FreeErase(t)
    PROVE  IInv'
<1> USE MaxBuffersAssumption DEF IInv, FreeErase
<1>1. TypeOK'
  BY DEF TypeOK, Steps, AllocSteps, FreeSteps, StrayKeys, Buffers
<1>2. BeforeInit'
  BY DEF BeforeInit, TypeOK
<1>3. MutualExclusion'
  BY DEF MutualExclusion, Inside, AllocSteps, FreeSteps, TypeOK
<1>4. ListedKeys'
  BY DEF ListedKeys
<1>5. Locals'
  BY DEF Locals, TypeOK, Buffers, StrayKeys
<1>6. OneOwner'
  BY DEF OneOwner, FreeKeys, InTransit, Locals, TypeOK, Buffers, StrayKeys
<1>7. NothingLost'
  <2>1. Ready
    BY DEF Ready, BeforeInit, TypeOK
  <2>2. \A b \in Buffers :
           b \in FreeKeys \union held =>
              b \in (FreeKeys \union held)' \/ (InTransit(t)' /\ key'[t] = b)
    BY DEF FreeKeys, InTransit, Locals, TypeOK, Buffers, StrayKeys
  <2>3. \A u \in Threads :
           InTransit(u) =>
              key[u] \in (FreeKeys \union held)' \/ (InTransit(u)' /\ key'[u] = key[u])
    BY DEF FreeKeys, InTransit, Locals, TypeOK, Buffers, StrayKeys
  <2>4. QED
    BY <2>1, <2>2, <2>3, StillSomewhere
<1>8. HandedOutBlank'
  BY DEF HandedOutBlank, FreeKeys, Locals, TypeOK, Buffers, StrayKeys
<1>9. FailsOnlyWhenEmpty'
  BY DEF FailsOnlyWhenEmpty, available_buffers, Locals, TypeOK
<1> QED
  BY <1>1, <1>2, <1>3, <1>4, <1>5, <1>6, <1>7, <1>8, <1>9

(* The semaphore is given back, the key being listed.                      *)
LEMMA FreePostStep ==
    ASSUME IInv, NEW t \in Threads, FreePost(t)
    PROVE  IInv'
<1> USE MaxBuffersAssumption DEF IInv, FreePost, sem_post
<1>1. TypeOK'
  <2>1. mutex = 0
    BY DEF MutualExclusion, Inside, FreeSteps
  <2>2. QED
    BY <2>1 DEF TypeOK, Steps, StrayKeys, Buffers
<1>2. BeforeInit'
  BY DEF BeforeInit, TypeOK
<1>3. MutualExclusion'
  BY DEF MutualExclusion, Inside, AllocSteps, FreeSteps, TypeOK
<1>4. ListedKeys'
  BY DEF ListedKeys
<1>5. Locals'
  BY DEF Locals, TypeOK, Buffers, StrayKeys
<1>6. OneOwner'
  BY DEF OneOwner, FreeKeys, InTransit, Locals, TypeOK, Buffers, StrayKeys
<1>7. NothingLost'
  <2>1. Ready
    BY DEF Ready, BeforeInit, TypeOK
  <2>2. \A b \in Buffers :
           b \in FreeKeys \union held =>
              b \in (FreeKeys \union held)' \/ (InTransit(t)' /\ key'[t] = b)
    BY DEF FreeKeys, InTransit, Locals, TypeOK, Buffers, StrayKeys
  <2>3. \A u \in Threads :
           InTransit(u) =>
              key[u] \in (FreeKeys \union held)' \/ (InTransit(u)' /\ key'[u] = key[u])
    BY DEF FreeKeys, InTransit, Locals, TypeOK, Buffers, StrayKeys
  <2>4. QED
    BY <2>1, <2>2, <2>3, StillSomewhere
<1>8. HandedOutBlank'
  BY DEF HandedOutBlank, FreeKeys, Locals, TypeOK, Buffers, StrayKeys
<1>9. FailsOnlyWhenEmpty'
  BY DEF FailsOnlyWhenEmpty, available_buffers, Locals, TypeOK
<1> QED
  BY <1>1, <1>2, <1>3, <1>4, <1>5, <1>6, <1>7, <1>8, <1>9

(* The pop takes exactly one key off the list.                             *)
LEMMA PopKey ==
    ASSUME IInv, NEW t \in Threads, AllocPop(t)
    PROVE  key[t] \in FreeKeys /\ FreeKeys' = FreeKeys \ {key[t]}
<1> USE MaxBuffersAssumption DEF IInv, AllocPop
<1>1. last \in Buffers /\ key[t] = free_buffer_list[last]
  BY DEF Locals, TypeOK, Buffers
<1>2. \A i \in 0 .. last' : i \in 0 .. last /\ i # last /\ free_buffer_list'[i] = free_buffer_list[i]
  BY <1>1 DEF TypeOK, Buffers
<1>3. key[t] \in FreeKeys
  BY <1>1 DEF FreeKeys, Buffers
<1>4. FreeKeys' \subseteq FreeKeys \ {key[t]}
  BY <1>1, <1>2 DEF FreeKeys, OneOwner, Buffers
<1>5. FreeKeys \ {key[t]} \subseteq FreeKeys'
  <2>1. SUFFICES ASSUME NEW i \in 0 .. last, free_buffer_list[i] # key[t]
                 PROVE  free_buffer_list[i] \in FreeKeys'
    BY DEF FreeKeys
  <2>2. i \in 0 .. last'
    BY <1>1, <2>1 DEF Buffers
  <2>3. QED
    BY <1>2, <2>2 DEF FreeKeys
<1>6. QED
  BY <1>3, <1>4, <1>5

(* The push has room, and adds exactly the key that was given up.          *)
LEMMA PushKey ==
    ASSUME IInv, NEW t \in Threads, FreeList(t)
    PROVE  /\ key[t] \notin FreeKeys
           /\ last + 1 \in Buffers
           /\ FreeKeys' = FreeKeys \union {key[t]}
<1> USE MaxBuffersAssumption DEF IInv, FreeList
<1>1. key[t] \in Buffers /\ InTransit(t)
  BY DEF Locals, InTransit
<1>2. key[t] \notin FreeKeys
  BY <1>1 DEF OneOwner
<1>3. last + 1 \in Buffers
  BY <1>1, <1>2, RoomForOne DEF TypeOK, OneOwner
<1>4. /\ free_buffer_list'[last + 1] = key[t]
      /\ \A i \in 0 .. last : free_buffer_list'[i] = free_buffer_list[i]
      /\ 0 .. last' = (0 .. last) \union {last + 1}
  BY <1>3 DEF TypeOK, Buffers
<1>5. FreeKeys' = FreeKeys \union {key[t]}
  BY <1>4 DEF FreeKeys
<1>6. QED
  BY <1>2, <1>3, <1>5

(* The pop takes one key off the list: the one AllocRead saw on top.       *)
LEMMA AllocPopStep ==
    ASSUME IInv, NEW t \in Threads, AllocPop(t)
    PROVE  IInv'
<1> USE MaxBuffersAssumption DEF IInv, AllocPop
<1>1. /\ last \in Buffers
      /\ key[t] = free_buffer_list[last]
      /\ key[t] \in Buffers
  BY DEF Locals, ListedKeys, TypeOK, Buffers
<1>2. \A i \in 0 .. last' : i \in 0 .. last /\ i # last /\ free_buffer_list'[i] = free_buffer_list[i]
  BY <1>1 DEF TypeOK, Buffers
<1>3. key[t] \in FreeKeys
  BY PopKey
<1>4. FreeKeys' = FreeKeys \ {key[t]}
  BY PopKey
<1>6. \A u \in Threads : u # t => (InTransit(u)' <=> InTransit(u)) /\ key'[u] = key[u]
  BY DEF InTransit, TypeOK
<1>7. InTransit(t)' /\ ~InTransit(t) /\ key'[t] = key[t]
  BY <1>1 DEF InTransit, TypeOK, Buffers
<1>8. TypeOK'
  BY <1>1 DEF TypeOK, Steps, AllocSteps, Buffers
<1>9. BeforeInit'
  BY DEF BeforeInit, TypeOK
<1>10. MutualExclusion'
  BY DEF MutualExclusion, Inside, AllocSteps, FreeSteps, TypeOK
<1>11. ListedKeys'
  BY <1>2 DEF ListedKeys
<1>12. Locals'
  <2>1. \A u \in Threads : pc[u] = "alloc_pop" => u = t
    BY DEF MutualExclusion, Inside, AllocSteps
  <2>2. QED
    BY <1>1, <2>1 DEF Locals, TypeOK, Buffers
<1>13. OneOwner'
  <2>1. \A i, j \in 0 .. last' : free_buffer_list'[i] = free_buffer_list'[j] => i = j
    BY <1>2 DEF OneOwner
  <2>2. FreeKeys' \intersect held' = {}
    BY <1>4 DEF OneOwner
  <2>3. \A u \in Threads : InTransit(u)' => key'[u] \notin (FreeKeys \union held)'
    BY <1>3, <1>4, <1>6, <1>7 DEF OneOwner
  <2>4. \A u, v \in Threads :
           InTransit(u)' /\ InTransit(v)' /\ key'[u] = key'[v] => u = v
    BY <1>3, <1>6, <1>7 DEF OneOwner
  <2>5. QED
    BY <2>1, <2>2, <2>3, <2>4 DEF OneOwner
<1>14. NothingLost'
  <2>1. Ready
    BY DEF Ready, BeforeInit, TypeOK
  <2>2. \A b \in Buffers :
           b \in FreeKeys \union held =>
              b \in (FreeKeys \union held)' \/ (InTransit(t)' /\ key'[t] = b)
    BY <1>4, <1>7
  <2>3. \A u \in Threads :
           InTransit(u) =>
              key[u] \in (FreeKeys \union held)' \/ (InTransit(u)' /\ key'[u] = key[u])
    BY <1>6, <1>7
  <2>4. QED
    BY <2>1, <2>2, <2>3, StillSomewhere
<1>15. HandedOutBlank'
  BY <1>3, <1>4, <1>6, <1>7 DEF HandedOutBlank, InTransit, TypeOK
<1>16. FailsOnlyWhenEmpty'
  <2>1. \A u \in Threads : pc'[u] = "alloc_post" => u = t
    BY DEF MutualExclusion, Inside, AllocSteps, TypeOK
  <2>2. QED
    BY <1>1, <2>1 DEF FailsOnlyWhenEmpty, Buffers
<1>17. QED
  BY <1>8, <1>9, <1>10, <1>11, <1>12, <1>13, <1>14, <1>15, <1>16

(* The push lists the key t was given, and there is room for it.           *)
LEMMA FreeListStep ==
    ASSUME IInv, NEW t \in Threads, FreeList(t)
    PROVE  IInv'
<1> USE MaxBuffersAssumption DEF IInv, FreeList
<1>1. key[t] \in Buffers /\ InTransit(t)
  BY DEF Locals, InTransit
<1>2. key[t] \notin FreeKeys \union held
  BY <1>1 DEF OneOwner
<1>3. last + 1 \in Buffers
  BY PushKey
<1>4. /\ free_buffer_list'[last + 1] = key[t]
      /\ \A i \in 0 .. last : free_buffer_list'[i] = free_buffer_list[i]
      /\ 0 .. last' = (0 .. last) \union {last + 1}
  BY <1>3 DEF TypeOK, Buffers
<1>5. FreeKeys' = FreeKeys \union {key[t]}
  BY PushKey
<1>6. \A u \in Threads : u # t => (InTransit(u)' <=> InTransit(u)) /\ key'[u] = key[u]
  BY DEF InTransit, TypeOK
<1>7. ~InTransit(t)'
  BY DEF InTransit, TypeOK
<1>8. TypeOK'
  BY <1>1, <1>3 DEF TypeOK, Steps, FreeSteps, Buffers
<1>9. BeforeInit'
  BY DEF BeforeInit, TypeOK
<1>10. MutualExclusion'
  BY DEF MutualExclusion, Inside, AllocSteps, FreeSteps, TypeOK
<1>11. ListedKeys'
  BY <1>1, <1>4 DEF ListedKeys
<1>12. Locals'
  <2>1. \A u \in Threads : pc'[u] # "alloc_pop"
    BY DEF MutualExclusion, Inside, AllocSteps, FreeSteps, TypeOK
  <2>2. QED
    BY <2>1 DEF Locals, TypeOK
<1>13. OneOwner'
  <2>1. \A i, j \in 0 .. last' : free_buffer_list'[i] = free_buffer_list'[j] => i = j
    BY <1>2, <1>4 DEF OneOwner, FreeKeys
  <2>2. FreeKeys' \intersect held' = {}
    BY <1>2, <1>5 DEF OneOwner
  <2>3. \A u \in Threads : InTransit(u)' => key'[u] \notin (FreeKeys \union held)'
    BY <1>1, <1>5, <1>6, <1>7 DEF OneOwner
  <2>4. \A u, v \in Threads :
           InTransit(u)' /\ InTransit(v)' /\ key'[u] = key'[v] => u = v
    BY <1>6, <1>7 DEF OneOwner
  <2>5. QED
    BY <2>1, <2>2, <2>3, <2>4 DEF OneOwner
<1>14. NothingLost'
  <2>1. Ready
    BY DEF Ready, BeforeInit, TypeOK
  <2>2. \A b \in Buffers :
           b \in FreeKeys \union held =>
              b \in (FreeKeys \union held)' \/ (InTransit(t)' /\ key'[t] = b)
    BY <1>5
  <2>3. \A u \in Threads :
           InTransit(u) =>
              key[u] \in (FreeKeys \union held)' \/ (InTransit(u)' /\ key'[u] = key[u])
    BY <1>5, <1>6
  <2>4. QED
    BY <2>1, <2>2, <2>3, StillSomewhere
<1>15. HandedOutBlank'
  BY <1>1, <1>5 DEF HandedOutBlank, Locals, TypeOK
<1>16. FailsOnlyWhenEmpty'
  BY DEF FailsOnlyWhenEmpty, MutualExclusion, Inside, AllocSteps, FreeSteps, TypeOK
<1>17. QED
  BY <1>8, <1>9, <1>10, <1>11, <1>12, <1>13, <1>14, <1>15, <1>16

(* The owner of a buffer writes in it; nothing that is listed or in        *)
(* transit is touched.                                                     *)
LEMMA WriteMessageStep ==
    ASSUME IInv, NEW b \in held, WriteMessage(b)
    PROVE  IInv'
<1> USE MaxBuffersAssumption DEF IInv, WriteMessage
<1>1. FreeKeys' = FreeKeys
  BY DEF FreeKeys
<1>2. TypeOK'
  BY DEF TypeOK
<1>3. BeforeInit' /\ MutualExclusion' /\ ListedKeys'
  BY DEF BeforeInit, MutualExclusion, Inside, ListedKeys
<1>4. Locals'
  BY DEF Locals, OneOwner, InTransit, TypeOK
<1>5. OneOwner' /\ NothingLost'
  BY <1>1 DEF OneOwner, NothingLost, Ready, InTransit
<1>6. HandedOutBlank'
  BY <1>1 DEF HandedOutBlank, OneOwner, InTransit, TypeOK
<1>7. FailsOnlyWhenEmpty'
  BY DEF FailsOnlyWhenEmpty, available_buffers
<1>8. QED
  BY <1>2, <1>3, <1>4, <1>5, <1>6, <1>7

(* Every key starts on the list.                                           *)
LEMMA InitStep ==
    ASSUME IInv, init_shared_buffers
    PROVE  IInv'
<1> USE MaxBuffersAssumption, ThreadsAssumption DEF IInv, init_shared_buffers
<1>1. /\ \A t \in Threads : pc[t] = "boot" /\ pc'[t] = "idle" /\ key'[t] = -1
      /\ held' = {}
      /\ mutex' = mutex
  BY DEF BeforeInit, Locals
<1>2. \A i \in 0 .. last' : i \in Buffers /\ free_buffer_list'[i] = i
  BY DEF Buffers
<1>3. \A b \in Buffers : b \in FreeKeys'
  BY DEF FreeKeys, Buffers
<1>4. FreeKeys' \subseteq Buffers
  BY <1>2 DEF FreeKeys
<1>5. TypeOK'
  BY DEF TypeOK, Steps, Buffers
<1>6. BeforeInit' /\ MutualExclusion'
  BY <1>1 DEF BeforeInit, MutualExclusion, Inside, AllocSteps, FreeSteps
<1>7. ListedKeys' /\ Locals'
  BY <1>1, <1>2 DEF ListedKeys, Locals
<1>8. OneOwner'
  BY <1>1, <1>2 DEF OneOwner, InTransit
<1>9. NothingLost'
  BY <1>3 DEF NothingLost
<1>10. HandedOutBlank'
  BY <1>1, <1>4 DEF HandedOutBlank
<1>11. FailsOnlyWhenEmpty'
  BY <1>1 DEF FailsOnlyWhenEmpty
<1>12. QED
  BY <1>5, <1>6, <1>7, <1>8, <1>9, <1>10, <1>11

-----------------------------------------------------------------------------
(* The invariant holds before init_shared_buffers.                         *)
LEMMA InitInv == Init => IInv
<1> SUFFICES ASSUME Init PROVE IInv
  OBVIOUS
<1> USE MaxBuffersAssumption, ThreadsAssumption DEF Init
<1>1. TypeOK /\ BeforeInit
  BY DEF TypeOK, BeforeInit, Steps, Buffers, StrayKeys
<1>2. MutualExclusion /\ ListedKeys /\ Locals
  BY DEF MutualExclusion, Inside, AllocSteps, FreeSteps, ListedKeys, Locals
<1>3. OneOwner /\ NothingLost
  BY DEF OneOwner, NothingLost, Ready, InTransit, FreeKeys
<1>4. HandedOutBlank /\ FailsOnlyWhenEmpty
  BY DEF HandedOutBlank, FailsOnlyWhenEmpty, FreeKeys
<1>5. QED
  BY <1>1, <1>2, <1>3, <1>4 DEF IInv

(* The invariant speaks of nothing but the variables.                      *)
LEMMA StutterStep == IInv /\ UNCHANGED vars => IInv'
BY DEF IInv, vars, TypeOK, BeforeInit, MutualExclusion, Inside, ListedKeys, Locals,
       OneOwner, FreeKeys, InTransit, NothingLost, Ready, HandedOutBlank,
       FailsOnlyWhenEmpty, available_buffers

(* Every step of every thread preserves the invariant.                     *)
LEMMA NextInv == IInv /\ [Next]_vars => IInv'
<1> SUFFICES ASSUME IInv, [Next]_vars PROVE IInv'
  OBVIOUS
<1>1. CASE init_shared_buffers
  BY <1>1, InitStep
<1>2. ASSUME NEW t \in Threads, CallAlloc(t) PROVE IInv'
  BY <1>2, CallAllocStep
<1>3. ASSUME NEW t \in Threads, NEW k \in held \union StrayKeys, CallFree(t, k) PROVE IInv'
  BY <1>3, CallFreeStep
<1>4. ASSUME NEW t \in Threads, InCall(t) PROVE IInv'
  BY <1>4, AllocWaitStep, AllocEmptyStep, AllocReadStep, AllocPopStep, AllocPostStep,
     FreeWaitStep, FreeTestStep, FreeEraseStep, FreeListStep, FreePostStep DEF InCall
<1>5. ASSUME NEW b \in held, WriteMessage(b) PROVE IInv'
  BY <1>5, WriteMessageStep
<1>6. CASE UNCHANGED vars
  BY <1>6, StutterStep
<1>7. QED
  BY <1>1, <1>2, <1>3, <1>4, <1>5, <1>6 DEF Next

(* The inductive invariant holds in every reachable state.                 *)
THEOREM Inductive == Spec => []IInv
BY InitInv, NextInv, PTL DEF Spec

(* The variables of the pool keep their types: in particular `last' never  *)
(* runs off either end of free_buffer_list.                                *)
THEOREM TypeCorrect == Spec => []TypeOK
<1>1. IInv => TypeOK
  BY DEF IInv
<1>2. QED
  BY <1>1, Inductive, PTL

(* At most one thread is between sem_wait and sem_post.                    *)
THEOREM Exclusion == Spec => []MutualExclusion
<1>1. IInv => MutualExclusion
  BY DEF IInv
<1>2. QED
  BY <1>1, Inductive, PTL

(* alloc_buffer and free_buffer never give a buffer two owners and never   *)
(* lose one, for any number of threads and buffers.                        *)
THEOREM Ownership == Spec => [](OneOwner /\ NothingLost)
<1>1. IInv => OneOwner /\ NothingLost
  BY DEF IInv
<1>2. QED
  BY <1>1, Inductive, PTL

(* A buffer is handed out blank, and -1 is returned only by an empty pool. *)
THEOREM AllocResult == Spec => [](HandedOutBlank /\ FailsOnlyWhenEmpty)
<1>1. IInv => HandedOutBlank /\ FailsOnlyWhenEmpty
  BY DEF IInv
<1>2. QED
  BY <1>1, Inductive, PTL

-----------------------------------------------------------------------------
(* The data a caller wrote stays: only free_buffer erases, and it erases a *)
(* key its owner gave up.                                                  *)
THEOREM DataKept == Spec => HeldDataKept
<1>1. IInv /\ [Next]_vars
         => [\A b \in held \intersect held' : messages[b] = "data" => messages'[b] = "data"]_vars
  <2>1. SUFFICES ASSUME IInv, Next, NEW b \in held, b \in held', messages[b] = "data"
                 PROVE  messages'[b] = "data"
    BY DEF vars
  <2>2. CASE init_shared_buffers
    BY <2>1, <2>2, ThreadsAssumption DEF init_shared_buffers, IInv, BeforeInit
  <2>3. CASE \E t \in Threads : FreeErase(t)
    <3>1. PICK t \in Threads : FreeErase(t)
      BY <2>3
    <3>2. key[t] # b
      BY <2>1, <3>1 DEF FreeErase, IInv, OneOwner, InTransit, Locals
    <3>3. QED
      BY <2>1, <3>1, <3>2 DEF FreeErase, IInv, TypeOK
  <2>4. CASE \E c \in held : WriteMessage(c)
    BY <2>1, <2>4 DEF WriteMessage, IInv, TypeOK
  <2>5. CASE messages' = messages
    BY <2>1, <2>5
  <2>6. QED
    BY <2>1, <2>2, <2>3, <2>4, <2>5
       DEF Next, InCall, CallAlloc, AllocWait, AllocEmpty, AllocRead, AllocPop, AllocPost,
           CallFree, FreeWait, FreeTest, FreeList, FreePost
<1>2. QED
  BY <1>1, Inductive, PTL DEF Spec, HeldDataKept

-----------------------------------------------------------------------------
(* SharedBuffers implements BufferPool: the pop and the failed test are    *)
(* where alloc_buffer takes effect, the push is where free_buffer does.    *)

(* The pool starts uninitialised.                                          *)
LEMMA RefinesInit == Init => Pool!Init
BY ThreadsAssumption DEF Init, Pool!Init, Pool!Idle, Ready, FreeKeys, CallOf

(* Steps that change neither the list nor the owners nor what the call has *)
(* achieved are invisible in the abstract pool.                            *)
LEMMA Invisible ==
    ASSUME IInv, NEW t \in Threads,
           AllocWait(t) \/ AllocRead(t) \/ FreeWait(t) \/ FreeErase(t)
    PROVE  UNCHANGED Pool!poolVars
<1>1. Ready' = Ready /\ FreeKeys' = FreeKeys /\ held' = held
  BY DEF AllocWait, AllocRead, FreeWait, FreeErase, sem_wait, Ready, FreeKeys, IInv, TypeOK
<1>2. \A u \in Threads : CallOf(u)' = CallOf(u)
  BY DEF AllocWait, AllocRead, FreeWait, FreeErase, sem_wait, CallOf, IInv, TypeOK
<1>3. QED
  BY <1>1, <1>2 DEF Pool!poolVars

(* Every step is one of the atomic pool, or invisible there.               *)
LEMMA RefinesNext == IInv /\ [Next]_vars => [Pool!Next]_(Pool!poolVars)
<1> SUFFICES ASSUME IInv, [Next]_vars PROVE [Pool!Next]_(Pool!poolVars)
  OBVIOUS
<1> DEFINE Call == [u \in Threads |-> CallOf(u)]
<1>1. CASE init_shared_buffers
  <2>1. ~Ready /\ Ready' /\ FreeKeys = {} /\ held' = held
    BY <1>1, ThreadsAssumption DEF init_shared_buffers, Ready, FreeKeys, IInv, BeforeInit
  <2>2. FreeKeys' = Buffers
    BY <1>1 DEF init_shared_buffers, FreeKeys, Buffers
  <2>3. \A u \in Threads : CallOf(u)' = CallOf(u)
    BY <1>1 DEF init_shared_buffers, CallOf
  <2>4. QED
    BY <2>1, <2>2, <2>3 DEF Pool!Next, Pool!Fill
<1>2. ASSUME NEW t \in Threads, CallAlloc(t)
      PROVE  [Pool!Next]_(Pool!poolVars)
  <2>1. Ready /\ Ready' /\ FreeKeys' = FreeKeys /\ held' = held
    BY <1>2 DEF CallAlloc, Ready, FreeKeys, IInv, BeforeInit, TypeOK
  <2>2. CallOf(t) = Pool!Idle /\ Call' = [Call EXCEPT ![t] = [op |-> "alloc", key |-> -1]]
    BY <1>2 DEF CallAlloc, CallOf, Pool!Idle, IInv, TypeOK
  <2>3. QED
    BY <2>1, <2>2 DEF Pool!Next, Pool!RequestAlloc
<1>3. ASSUME NEW t \in Threads, AllocEmpty(t)
      PROVE  [Pool!Next]_(Pool!poolVars)
  <2>1. Ready' = Ready /\ FreeKeys' = FreeKeys /\ FreeKeys = {} /\ held' = held
    BY <1>3 DEF AllocEmpty, Ready, FreeKeys, IInv, TypeOK
  <2>2. /\ CallOf(t).op = "alloc"
        /\ Call' = [Call EXCEPT ![t] = [op |-> "allocated", key |-> -1]]
    BY <1>3, ZenonT(30) DEF AllocEmpty, CallOf, IInv, TypeOK, Locals
  <2>3. QED
    BY <2>1, <2>2 DEF Pool!Next, Pool!Refuse
<1>4. ASSUME NEW t \in Threads, AllocPop(t)
      PROVE  [Pool!Next]_(Pool!poolVars)
  <2>1. key[t] \in FreeKeys /\ key[t] \in Buffers /\ FreeKeys' = FreeKeys \ {key[t]}
    BY <1>4, PopKey DEF FreeKeys, IInv, ListedKeys
  <2>2. Ready' = Ready /\ held' = held
    BY <1>4 DEF AllocPop, Ready, IInv, TypeOK
  <2>3. /\ CallOf(t).op = "alloc"
        /\ Call' = [Call EXCEPT ![t] = [op |-> "allocated", key |-> key[t]]]
    BY <1>4 DEF AllocPop, CallOf, IInv, TypeOK
  <2>4. QED
    BY <2>1, <2>2, <2>3 DEF Pool!Next, Pool!Take
<1>5. ASSUME NEW t \in Threads, AllocPost(t)
      PROVE  [Pool!Next]_(Pool!poolVars)
  <2>1. Ready' = Ready /\ FreeKeys' = FreeKeys /\ held' = held \union ({key[t]} \ {-1})
    BY <1>5 DEF AllocPost, sem_post, Ready, FreeKeys, IInv, TypeOK
  <2>2. /\ CallOf(t).op = "allocated" /\ CallOf(t).key = key[t]
        /\ Call' = [Call EXCEPT ![t] = Pool!Idle]
    BY <1>5 DEF AllocPost, sem_post, CallOf, Pool!Idle, IInv, TypeOK
  <2>3. QED
    BY <2>1, <2>2 DEF Pool!Next, Pool!ReturnAlloc
<1>6. ASSUME NEW t \in Threads, NEW k \in held \union StrayKeys, CallFree(t, k)
      PROVE  [Pool!Next]_(Pool!poolVars)
  <2>1. /\ k \in Buffers \union StrayKeys
        /\ k \in held \/ k \notin Buffers
    BY MaxBuffersAssumption DEF StrayKeys, Buffers, IInv, TypeOK
  <2>2. Ready /\ Ready' /\ FreeKeys' = FreeKeys /\ held' = held \ {k}
    BY <1>6 DEF CallFree, Ready, FreeKeys, IInv, BeforeInit, TypeOK
  <2>3. CallOf(t) = Pool!Idle /\ Call' = [Call EXCEPT ![t] = [op |-> "free", key |-> k]]
    BY <1>6 DEF CallFree, CallOf, Pool!Idle, IInv, TypeOK
  <2>4. QED
    BY <2>1, <2>2, <2>3 DEF Pool!Next, Pool!RequestFree
<1>7. ASSUME NEW t \in Threads, FreeTest(t)
      PROVE  [Pool!Next]_(Pool!poolVars)
  <2>1. Ready' = Ready /\ FreeKeys' = FreeKeys /\ held' = held
    BY <1>7 DEF FreeTest, Ready, FreeKeys, IInv, TypeOK
  <2>2. CASE key[t] \in Buffers
    <3>1. Call' = Call
      BY <1>7, <2>2, MaxBuffersAssumption DEF FreeTest, CallOf, IInv, TypeOK, Buffers
    <3>2. QED
      BY <2>1, <3>1 DEF Pool!poolVars
  <2>3. CASE key[t] \notin Buffers
    <3>1. pc' = [pc EXCEPT ![t] = "free_post"] /\ key' = key
      <4>1. ~(key[t] >= 0 /\ key[t] < MaxBuffers)
        BY <2>3, MaxBuffersAssumption, SMTT(20) DEF IInv, TypeOK, Buffers, StrayKeys
      <4>2. QED
        BY <1>7, <4>1 DEF FreeTest
    <3>2. /\ CallOf(t).op = "free" /\ CallOf(t).key = key[t]
          /\ Call' = [Call EXCEPT ![t] = [op |-> "freed", key |-> -1]]
      BY <1>7, <3>1, ZenonT(30) DEF FreeTest, CallOf, IInv, TypeOK
    <3>3. FreeKeys' = FreeKeys \union ({CallOf(t).key} \intersect Buffers)
      BY <2>1, <2>3, <3>2
    <3>4. QED
      BY <2>1, <3>2, <3>3 DEF Pool!Next, Pool!PutBack
  <2>4. QED
    BY <2>2, <2>3
<1>8. ASSUME NEW t \in Threads, FreeList(t)
      PROVE  [Pool!Next]_(Pool!poolVars)
  <2>1. key[t] \in Buffers /\ FreeKeys' = FreeKeys \union {key[t]}
    BY <1>8, PushKey DEF IInv, Locals, FreeList
  <2>2. Ready' = Ready /\ held' = held
    BY <1>8 DEF FreeList, Ready, IInv, TypeOK
  <2>3. /\ CallOf(t).op = "free" /\ CallOf(t).key = key[t]
        /\ Call' = [Call EXCEPT ![t] = [op |-> "freed", key |-> -1]]
    BY <1>8 DEF FreeList, CallOf, IInv, TypeOK
  <2>4. FreeKeys' = FreeKeys \union ({CallOf(t).key} \intersect Buffers)
    BY <2>1, <2>3
  <2>5. QED
    BY <2>2, <2>3, <2>4 DEF Pool!Next, Pool!PutBack
<1>9. ASSUME NEW t \in Threads, FreePost(t)
      PROVE  [Pool!Next]_(Pool!poolVars)
  <2>1. Ready' = Ready /\ FreeKeys' = FreeKeys /\ held' = held
    BY <1>9 DEF FreePost, sem_post, Ready, FreeKeys, IInv, TypeOK
  <2>2. /\ CallOf(t).op = "freed"
        /\ Call' = [Call EXCEPT ![t] = Pool!Idle]
    BY <1>9 DEF FreePost, sem_post, CallOf, Pool!Idle, IInv, TypeOK
  <2>3. QED
    BY <2>1, <2>2 DEF Pool!Next, Pool!ReturnFree
<1>10. ASSUME NEW t \in Threads,
              AllocWait(t) \/ AllocRead(t) \/ FreeWait(t) \/ FreeErase(t)
       PROVE  [Pool!Next]_(Pool!poolVars)
  BY <1>10, Invisible
<1>11. CASE (\E b \in held : WriteMessage(b)) \/ UNCHANGED vars
  BY <1>11 DEF WriteMessage, vars, Pool!poolVars, Ready, FreeKeys, CallOf
<1>12. QED
  BY <1>1, <1>2, <1>3, <1>4, <1>5, <1>6, <1>7, <1>8, <1>9, <1>10, <1>11 DEF Next, InCall

(* Every behaviour of the semaphore-protected free list is a behaviour of  *)
(* the abstract pool, so its callers may rely on shared_buffers.h alone.   *)
THEOREM Refinement == Spec => PoolSpec
<1>1. Init => Pool!Init
  BY RefinesInit
<1>2. IInv /\ [Next]_vars => [Pool!Next]_(Pool!poolVars)
  BY RefinesNext
<1>3. QED
  BY <1>1, <1>2, Inductive, PTL DEF Spec, PoolSpec, Pool!Spec
=============================================================================
