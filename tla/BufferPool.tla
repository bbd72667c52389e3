----------------------------- MODULE BufferPool -----------------------------
(***************************************************************************)
(* What buffers/shared_buffers.h promises to its callers: a pool of        *)
(* transmission buffers named by integer keys.  alloc_buffer hands out a   *)
(* key that nobody holds, or -1 when the pool is empty; free_buffer takes  *)
(* a key back and ignores a key that names no buffer.  Each call takes     *)
(* effect at one instant between its invocation and its return.            *)
(*                                                                         *)
(* SharedBuffers.tla is the implementation (semaphore, free list) and is   *)
(* shown to refine this module.                                            *)
(***************************************************************************)
EXTENDS Integers

CONSTANTS Threads,
          Buffers,   \* the keys of the pool
          Keys       \* what a caller may pass to free_buffer

VARIABLES ready,  \* the pool has been initialised
          free,   \* keys in the pool
          held,   \* keys the callers own
          call    \* call[t]: the call thread t has in progress

poolVars == <<ready, free, held, call>>

Idle == [op |-> "idle", key |-> -1]

Init == /\ ready = FALSE
        /\ free = {}
        /\ held = {}
        /\ call = [t \in Threads |-> Idle]

Fill == /\ ~ready
        /\ ready' = TRUE
        /\ free' = Buffers
        /\ UNCHANGED <<held, call>>

RequestAlloc(t) ==
    /\ ready
    /\ call[t] = Idle
    /\ call' = [call EXCEPT ![t] = [op |-> "alloc", key |-> -1]]
    /\ UNCHANGED <<ready, free, held>>

(* The effect of alloc_buffer: one free key leaves the pool ... *)
Take(t, b) ==
    /\ call[t].op = "alloc"
    /\ b \in free
    /\ free' = free \ {b}
    /\ call' = [call EXCEPT ![t] = [op |-> "allocated", key |-> b]]
    /\ UNCHANGED <<ready, held>>

(* ... or the call fails, which it may only do when the pool is empty. *)
Refuse(t) ==
    /\ call[t].op = "alloc"
    /\ free = {}
    /\ call' = [call EXCEPT ![t] = [op |-> "allocated", key |-> -1]]
    /\ UNCHANGED <<ready, free, held>>

ReturnAlloc(t) ==
    /\ call[t].op = "allocated"
    /\ held' = held \union ({call[t].key} \ {-1})
    /\ call' = [call EXCEPT ![t] = Idle]
    /\ UNCHANGED <<ready, free>>

(* The caller gives up the key when it calls; a key that is not a buffer   *)
(* may be passed too.                                                      *)
RequestFree(t, k) ==
    /\ ready
    /\ call[t] = Idle
    /\ k \in held \/ k \notin Buffers
    /\ held' = held \ {k}
    /\ call' = [call EXCEPT ![t] = [op |-> "free", key |-> k]]
    /\ UNCHANGED <<ready, free>>

PutBack(t) ==
    /\ call[t].op = "free"
    /\ free' = free \union ({call[t].key} \intersect Buffers)
    /\ call' = [call EXCEPT ![t] = [op |-> "freed", key |-> -1]]
    /\ UNCHANGED <<ready, held>>

ReturnFree(t) ==
    /\ call[t].op = "freed"
    /\ call' = [call EXCEPT ![t] = Idle]
    /\ UNCHANGED <<ready, free, held>>

Next == \/ Fill
        \/ \E t \in Threads :
              \/ RequestAlloc(t)
              \/ \E b \in Buffers : Take(t, b)
              \/ Refuse(t)
              \/ ReturnAlloc(t)
              \/ \E k \in Keys : RequestFree(t, k)
              \/ PutBack(t)
              \/ ReturnFree(t)

Spec == Init /\ [][Next]_poolVars
=============================================================================
