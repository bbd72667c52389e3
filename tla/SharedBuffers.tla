---------------------------- MODULE SharedBuffers ----------------------------
(***************************************************************************)
(* The shared pool of transmission buffers (buffers/shared_buffers.c).     *)
(* Threads call alloc_buffer and free_buffer concurrently; a POSIX         *)
(* semaphore protects the free list, an array used as a stack whose top is *)
(* `last'.  Each step below is one access to shared memory, so that what   *)
(* the semaphore excludes is visible.                                      *)
(*                                                                         *)
(* The contract of a caller is the one of every caller in the repository:  *)
(* it frees a key it was given, once, or a key that is out of range.       *)
(***************************************************************************)
EXTENDS Integers

CONSTANTS Threads,     \* the threads that use the pool
          MaxBuffers   \* max_buffers

ASSUME MaxBuffersAssumption == MaxBuffers \in Nat \ {0}
ASSUME ThreadsAssumption == Threads # {}

VARIABLES last,            \* index of the top of the free list, -1 when empty
          free_buffer_list,
          mutex,           \* value of the semaphore
          messages,        \* what each buffer contains
          pc, key,         \* per thread: step of the call, `current' or `buffer_no'
          held             \* keys owned by the callers (a history of the contract)

vars == <<last, free_buffer_list, mutex, messages, pc, key, held>>

Buffers == 0 .. MaxBuffers - 1

(* Arguments of free_buffer that name no buffer: both sides of its test.   *)
StrayKeys == {-1, MaxBuffers}

AllocSteps == {"alloc_test", "alloc_pop", "alloc_post"}
FreeSteps == {"free_test", "free_erase", "free_list", "free_post"}

Steps == {"boot", "idle", "alloc_wait", "free_wait"} \union AllocSteps \union FreeSteps

(* sem_open(..., 1), before init_shared_buffers has filled the list.       *)
Init == /\ last = -1
        /\ free_buffer_list = [i \in Buffers |-> -1]
        /\ mutex = 1
        /\ messages = [b \in Buffers |-> "unwritten"]
        /\ pc = [t \in Threads |-> "boot"]
        /\ key = [t \in Threads |-> -1]
        /\ held = {}

(* init_shared_buffers runs alone, before any other thread exists.         *)
init_shared_buffers ==
    /\ \A t \in Threads : pc[t] = "boot"
    /\ free_buffer_list' = [i \in Buffers |-> i]
    /\ messages' = [b \in Buffers |-> "blank"]
    /\ last' = MaxBuffers - 1
    /\ pc' = [t \in Threads |-> "idle"]
    /\ UNCHANGED <<mutex, key, held>>

-----------------------------------------------------------------------------
(* The semaphore.                                                          *)

(* Mutant: the wait does not take the semaphore.                           *)
sem_wait_NotTaken(t, here, next) ==
    /\ pc[t] = here
    /\ mutex > 0
    /\ mutex' = mutex
    /\ pc' = [pc EXCEPT ![t] = next]

sem_wait(t, here, next) ==
    /\ pc[t] = here
    /\ mutex > 0
    /\ mutex' = mutex - 1
    /\ pc' = [pc EXCEPT ![t] = next]

sem_post(t) ==
    /\ mutex' = mutex + 1
    /\ pc' = [pc EXCEPT ![t] = "idle"]

-----------------------------------------------------------------------------
(* alloc_buffer                                                            *)

CallAlloc(t) ==
    /\ pc[t] = "idle"
    /\ pc' = [pc EXCEPT ![t] = "alloc_wait"]
    /\ key' = [key EXCEPT ![t] = -1]
    /\ UNCHANGED <<last, free_buffer_list, mutex, messages, held>>

AllocWait(t) ==
    /\ sem_wait(t, "alloc_wait", "alloc_test")
    /\ UNCHANGED <<last, free_buffer_list, messages, key, held>>

(* Mutant: wait for a buffer with the semaphore in hand.                   *)
AllocEmpty_Spins(t) ==
    /\ pc[t] = "alloc_test"
    /\ last < 0
    /\ UNCHANGED vars

(* The list is empty: the call returns -1.                                 *)
AllocEmpty(t) ==
    /\ pc[t] = "alloc_test"
    /\ last < 0
    /\ pc' = [pc EXCEPT ![t] = "alloc_post"]
    /\ UNCHANGED <<last, free_buffer_list, mutex, messages, key, held>>

(* Mutant: the other end of the list is read.                              *)
AllocRead_Bottom(t) ==
    /\ pc[t] = "alloc_test"
    /\ last >= 0
    /\ key' = [key EXCEPT ![t] = free_buffer_list[0]]
    /\ pc' = [pc EXCEPT ![t] = "alloc_pop"]
    /\ UNCHANGED <<last, free_buffer_list, mutex, messages, held>>

(* current = free_buffer_list[last]                                        *)
AllocRead(t) ==
    /\ pc[t] = "alloc_test"
    /\ last >= 0
    /\ key' = [key EXCEPT ![t] = free_buffer_list[last]]
    /\ pc' = [pc EXCEPT ![t] = "alloc_pop"]
    /\ UNCHANGED <<last, free_buffer_list, mutex, messages, held>>

(* Mutant: the top is read and left there.                                 *)
AllocPop_Peeks(t) ==
    /\ pc[t] = "alloc_pop"
    /\ pc' = [pc EXCEPT ![t] = "alloc_post"]
    /\ UNCHANGED <<last, free_buffer_list, mutex, messages, key, held>>

(* free_buffer_list[last--] = -1                                           *)
AllocPop(t) ==
    /\ pc[t] = "alloc_pop"
    /\ free_buffer_list' = [free_buffer_list EXCEPT ![last] = -1]
    /\ last' = last - 1
    /\ pc' = [pc EXCEPT ![t] = "alloc_post"]
    /\ UNCHANGED <<mutex, messages, key, held>>

(* sem_post, and the key becomes the caller's.                             *)
AllocPost(t) ==
    /\ pc[t] = "alloc_post"
    /\ sem_post(t)
    /\ held' = held \union ({key[t]} \ {-1})
    /\ key' = [key EXCEPT ![t] = -1]
    /\ UNCHANGED <<last, free_buffer_list, messages>>

-----------------------------------------------------------------------------
(* free_buffer and release_buffer                                          *)

CallFree(t, k) ==
    /\ pc[t] = "idle"
    /\ k \in held \union StrayKeys
    /\ held' = held \ {k}
    /\ key' = [key EXCEPT ![t] = k]
    /\ pc' = [pc EXCEPT ![t] = "free_wait"]
    /\ UNCHANGED <<last, free_buffer_list, mutex, messages>>

FreeWait(t) ==
    /\ sem_wait(t, "free_wait", "free_test")
    /\ UNCHANGED <<last, free_buffer_list, messages, key, held>>

(* Mutant: buffer_no <= max_buffers.                                       *)
FreeTest_Inclusive(t) ==
    /\ pc[t] = "free_test"
    /\ pc' = [pc EXCEPT ![t] = IF key[t] >= 0 /\ key[t] <= MaxBuffers
                               THEN "free_erase" ELSE "free_post"]
    /\ UNCHANGED <<last, free_buffer_list, mutex, messages, key, held>>

(* The range test of free_buffer.                                          *)
FreeTest(t) ==
    /\ pc[t] = "free_test"
    /\ pc' = [pc EXCEPT ![t] = IF key[t] >= 0 /\ key[t] < MaxBuffers
                               THEN "free_erase" ELSE "free_post"]
    /\ UNCHANGED <<last, free_buffer_list, mutex, messages, key, held>>

(* Mutant: no memset.                                                      *)
FreeErase_Skipped(t) ==
    /\ pc[t] = "free_erase"
    /\ pc' = [pc EXCEPT ![t] = "free_list"]
    /\ UNCHANGED <<last, free_buffer_list, mutex, messages, key, held>>

(* Mutant: the memset runs into the next buffer.                           *)
FreeErase_TooLong(t) ==
    /\ pc[t] = "free_erase"
    /\ messages' = [b \in Buffers |-> IF b \in {key[t], key[t] + 1}
                                      THEN "blank" ELSE messages[b]]
    /\ pc' = [pc EXCEPT ![t] = "free_list"]
    /\ UNCHANGED <<last, free_buffer_list, mutex, key, held>>

(* memset(messages[buffer_no], '\0', tx_buffer_size)                       *)
FreeErase(t) ==
    /\ pc[t] = "free_erase"
    /\ messages' = [messages EXCEPT ![key[t]] = "blank"]
    /\ pc' = [pc EXCEPT ![t] = "free_list"]
    /\ UNCHANGED <<last, free_buffer_list, mutex, key, held>>

(* free_buffer_list[++last] = buffer_no                                    *)
FreeList(t) ==
    /\ pc[t] = "free_list"
    /\ last' = last + 1
    /\ free_buffer_list' = [free_buffer_list EXCEPT ![last + 1] = key[t]]
    /\ pc' = [pc EXCEPT ![t] = "free_post"]
    /\ UNCHANGED <<mutex, messages, key, held>>

FreePost(t) ==
    /\ pc[t] = "free_post"
    /\ sem_post(t)
    /\ key' = [key EXCEPT ![t] = -1]
    /\ UNCHANGED <<last, free_buffer_list, messages, held>>

-----------------------------------------------------------------------------
(* The owner of a key writes into get_buffer(key); no lock is involved.    *)
WriteMessage(b) ==
    /\ b \in held
    /\ messages' = [messages EXCEPT ![b] = "data"]
    /\ UNCHANGED <<last, free_buffer_list, mutex, pc, key, held>>

(* available_buffers reads `last' without the semaphore.                   *)
available_buffers == last + 1

InCall(t) == \/ AllocWait(t) \/ AllocEmpty(t) \/ AllocRead(t)
             \/ AllocPop(t)  \/ AllocPost(t)
             \/ FreeWait(t)  \/ FreeTest(t)   \/ FreeErase(t)
             \/ FreeList(t)  \/ FreePost(t)

Next == \/ init_shared_buffers
        \/ \E t \in Threads : \/ CallAlloc(t)
                              \/ \E k \in held \union StrayKeys : CallFree(t, k)
                              \/ InCall(t)
        \/ \E b \in held : WriteMessage(b)

Spec == Init /\ [][Next]_vars

(* A thread that can take the next step of its call takes it eventually.   *)
(* Nothing is assumed of the order in which the semaphore wakes waiters.   *)
FairSpec == Spec /\ \A t \in Threads : WF_vars(InCall(t))

-----------------------------------------------------------------------------
(* Vocabulary of the properties                                            *)

(* init_shared_buffers has returned.                                       *)
Ready == \A t \in Threads : pc[t] # "boot"

FreeKeys == {free_buffer_list[i] : i \in 0 .. last}

Inside(t) == pc[t] \in AllocSteps \union FreeSteps

(* Thread t alone knows the key: popped and not yet returned, or given up  *)
(* by its owner and not yet listed.                                        *)
InTransit(t) == \/ pc[t] = "alloc_post" /\ key[t] # -1
                \/ pc[t] \in {"free_wait", "free_test", "free_erase", "free_list"}
                     /\ key[t] \in Buffers

TypeOK ==
    /\ last \in -1 .. MaxBuffers - 1
    /\ free_buffer_list \in [Buffers -> -1 .. MaxBuffers - 1]
    /\ mutex \in {0, 1}
    /\ messages \in [Buffers -> {"unwritten", "blank", "data"}]
    /\ pc \in [Threads -> Steps]
    /\ key \in [Threads -> Buffers \union StrayKeys]
    /\ held \subseteq Buffers

(* The free list, the callers and the calls in progress share the keys out *)
(* between them: every buffer is in exactly one place, so none is handed   *)
(* to two callers and none is lost, whatever the interleaving of           *)
(* alloc_buffer and free_buffer.                                           *)
OneOwner ==
    /\ \A i, j \in 0 .. last :
          free_buffer_list[i] = free_buffer_list[j] => i = j
    /\ FreeKeys \intersect held = {}
    /\ \A t \in Threads : InTransit(t) => key[t] \notin FreeKeys \union held
    /\ \A t, u \in Threads :
          InTransit(t) /\ InTransit(u) /\ key[t] = key[u] => t = u

NothingLost ==
    Ready => \A b \in Buffers : \/ b \in FreeKeys \union held
                                \/ \E t \in Threads : InTransit(t) /\ key[t] = b

(* release_buffer blanks a buffer before it lists it, so the key           *)
(* alloc_buffer returns never shows the data of an earlier message.        *)
HandedOutBlank ==
    /\ \A b \in FreeKeys : messages[b] = "blank"
    /\ \A t \in Threads :
          pc[t] = "alloc_post" /\ key[t] # -1 => messages[key[t]] = "blank"

(* "-1 if no buffer is available" (shared_buffers.h:26): a failed call has *)
(* seen the free list empty.                                               *)
FailsOnlyWhenEmpty ==
    \A t \in Threads : pc[t] = "alloc_post" /\ key[t] = -1 => available_buffers = 0

(* What a caller wrote in a buffer it holds stays there until it gives the *)
(* buffer back: no call of another thread erases it.                       *)
HeldDataKept ==
    [][\A b \in held \intersect held' :
          messages[b] = "data" => messages'[b] = "data"]_vars

(* The semaphore is a lock: its value says whether a thread is inside, and *)
(* two threads never are, so the two-step pop and push are not mixed.      *)
MutualExclusion ==
    /\ mutex = 0 <=> \E t \in Threads : Inside(t)
    /\ \A t, u \in Threads : Inside(t) /\ Inside(u) => t = u

(* If some thread waits for the semaphore, some thread gets to the end of  *)
(* its critical section: the semaphore is given back on every path.        *)
SemaphoreComesBack ==
    (\E t \in Threads : pc[t] \in {"alloc_wait", "free_wait"})
       ~> (\E t \in Threads : pc[t] \in {"alloc_post", "free_post"})

-----------------------------------------------------------------------------
(* What makes the invariants inductive: the locals of a thread at each of  *)
(* its steps, and the state before init_shared_buffers.                    *)

BeforeInit ==
    (\E t \in Threads : pc[t] = "boot")
       => /\ \A t \in Threads : pc[t] = "boot"
          /\ last = -1
          /\ held = {}

ListedKeys == \A i \in 0 .. last : free_buffer_list[i] \in Buffers

Locals ==
    \A t \in Threads :
       /\ pc[t] \in {"boot", "idle", "alloc_wait", "alloc_test"} => key[t] = -1
       /\ pc[t] = "alloc_pop" => last >= 0 /\ key[t] = free_buffer_list[last]
       /\ pc[t] = "alloc_post" => key[t] \in Buffers \union {-1}
       /\ pc[t] \in {"free_erase", "free_list"} => key[t] \in Buffers
       /\ pc[t] = "free_list" => messages[key[t]] = "blank"

IInv == /\ TypeOK
        /\ BeforeInit
        /\ MutualExclusion
        /\ ListedKeys
        /\ Locals
        /\ OneOwner
        /\ NothingLost
        /\ HandedOutBlank
        /\ FailsOnlyWhenEmpty

-----------------------------------------------------------------------------
(* SharedBuffers implements BufferPool.                                    *)

CallOf(t) ==
    CASE pc[t] \in {"alloc_wait", "alloc_test", "alloc_pop"} -> [op |-> "alloc", key |-> -1]
      [] pc[t] = "alloc_post" -> [op |-> "allocated", key |-> key[t]]
      [] pc[t] \in {"free_wait", "free_test", "free_erase", "free_list"} ->
            [op |-> "free", key |-> key[t]]
      [] pc[t] = "free_post" -> [op |-> "freed", key |-> -1]
      [] OTHER -> [op |-> "idle", key |-> -1]

Pool == INSTANCE BufferPool
          WITH Keys <- Buffers \union StrayKeys,
               ready <- Ready,
               free <- FreeKeys,
               call <- [t \in Threads |-> CallOf(t)]

PoolSpec == Pool!Spec
=============================================================================
