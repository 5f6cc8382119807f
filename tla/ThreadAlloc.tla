----------------------------- MODULE ThreadAlloc ----------------------------
(***************************************************************************)
(* The memory pools (thread_alloc.hpp): each thread has a record with the  *)
(* lists of its blocks in use and of those available for quick use, one of *)
(* each per capacity, and the bytes on them.  A block knows its thread and *)
(* its capacity from an index in front of it, and returns to the lists of  *)
(* that thread whoever returns it.                                         *)
(*                                                                         *)
(* A pool is a value here, and get_memory and return_memory map pools to   *)
(* pools, since the operations of vectors call several of them.  Lists are *)
(* sets: which available block is taken first is left open.  The lists of  *)
(* blocks in use are those of a debug build; nothing else reads them.      *)
(***************************************************************************)
EXTENDS Naturals, FiniteSets, FiniteSetsExt

CONSTANTS
  CPPAD_MAX_NUM_THREADS,
  num_cap,               \* the number of capacities
  capacity_vec,          \* the capacities, in bytes
  Addr,                  \* what the system can allocate
  Free,                  \* the state of an address that is not allocated
  Raw                    \* the contents of memory that holds no object

Thread == 0 .. CPPAD_MAX_NUM_THREADS - 1
Cap == 0 .. num_cap - 1

ASSUME ThreadCapAssumption ==
  /\ CPPAD_MAX_NUM_THREADS \in Nat \ {0}
  /\ num_cap \in Nat \ {0}
  /\ capacity_vec \in [Cap -> Nat \ {0}]

(* thread_alloc_info. *)
Info == [count_inuse_ : Int, count_available_ : Int,
         root_inuse_ : [Cap -> SUBSET Addr],
         root_available_ : [Cap -> SUBSET Addr]]

(* The info pointer of a thread: to no record, or to one. *)
NoRecord == <<>>

NoInfo == [count_inuse_ |-> 0, count_available_ |-> 0,
           root_inuse_ |-> [c \in Cap |-> {}],
           root_available_ |-> [c \in Cap |-> {}]]

-----------------------------------------------------------------------------
(* The index of a thread and a capacity, and back. *)
(* Mutant of TcIndex: one index between threads is left out. *)
TcIndexApart(t, c) == t * (num_cap + 1) + c

TcIndex(t, c) == t * num_cap + c
ThreadOf(p, a) == p.block[a].tc_index_ \div num_cap
CapOf(p, a) == p.block[a].tc_index_ % num_cap

(* The smallest capacity that holds bytes. *)
Fits(bytes, c) ==
  capacity_vec[c] >= bytes /\ \A d \in 0 .. c - 1 : capacity_vec[d] < bytes

(* thread_info(t): the record of t, a new one if there is none. *)
thread_info(p, t) == IF p.info[t] = NoRecord THEN NoInfo ELSE p.info[t][1]

(* The bytes in blocks on a list per capacity. *)
Bytes(root) ==
  MapThenSumSet(LAMBDA c : Cardinality(root[c]) * capacity_vec[c], Cap)

(* The addresses get_memory can answer. *)
Obtainable(p, t, c) ==
  LET available == thread_info(p, t).root_available_[c]
  IN  IF available # {} THEN available ELSE {a \in Addr : p.block[a] = Free}

(* Mutant of get_memory: a block stays available when it is taken. *)
get_memory_Listed(p, t, c, a) ==
  [p EXCEPT
     !.info[t] = <<[thread_info(p, t) EXCEPT !.root_inuse_[c] = @ \union {a},
                                    !.count_inuse_ = @ + capacity_vec[c]]>>,
     !.block[a] = [tc_index_ |-> TcIndex(t, c),
                   data |-> [k \in 1 .. capacity_vec[c] |-> Raw]]]

get_memory(p, t, c, a) ==
  LET i == thread_info(p, t)
      taken == [i EXCEPT !.root_inuse_[c] = @ \union {a},
                         !.count_inuse_ = @ + capacity_vec[c]]
  IN  IF i.root_available_[c] # {}
      THEN [p EXCEPT !.info[t] =
              <<[taken EXCEPT !.root_available_[c] = @ \ {a},
                              !.count_available_ = @ - capacity_vec[c]]>>]
      ELSE [p EXCEPT !.info[t] = <<taken>>,
                     !.block[a] = [tc_index_ |-> TcIndex(t, c),
                                   data |-> [k \in 1 .. capacity_vec[c] |-> Raw]]]

(* Mutant of return_memory: memory that is held still counts as in use. *)
return_memory_Uncounted(p, hold, a) ==
  LET t == ThreadOf(p, a)
      c == CapOf(p, a)
      i == thread_info(p, t)
      returned == [i EXCEPT !.root_inuse_[c] = @ \ {a}]
  IN  IF hold
      THEN [p EXCEPT !.info[t] =
              <<[returned EXCEPT !.root_available_[c] = @ \union {a},
                                 !.count_available_ = @ + capacity_vec[c]]>>]
      ELSE [p EXCEPT !.info[t] =
              <<[returned EXCEPT !.count_inuse_ = @ - capacity_vec[c]]>>,
                     !.block[a] = Free]

(* The block at a, which the program is done with. *)
return_memory(p, hold, a) ==
  LET t == ThreadOf(p, a)
      c == CapOf(p, a)
      i == thread_info(p, t)
      returned == [i EXCEPT !.root_inuse_[c] = @ \ {a},
                            !.count_inuse_ = @ - capacity_vec[c]]
  IN  IF hold
      THEN [p EXCEPT !.info[t] =
              <<[returned EXCEPT !.root_available_[c] = @ \union {a},
                                 !.count_available_ = @ + capacity_vec[c]]>>]
      ELSE [p EXCEPT !.info[t] = <<returned>>, !.block[a] = Free]

(* The record goes too if nothing of the thread is in use. *)
free_available(p, t) ==
  LET i == thread_info(p, t)
      held == UNION {i.root_available_[c] : c \in Cap}
      rest == [i EXCEPT !.root_available_ = [c \in Cap |-> {}],
                        !.count_available_ = @ - Bytes(i.root_available_)]
  IN  [info |-> [p.info EXCEPT ![t] = IF i.count_inuse_ = 0 THEN NoRecord
                                   ELSE <<rest>>],
       block |-> [a \in Addr |-> IF a \in held THEN Free ELSE p.block[a]]]

(* free_all: every thread's, and whether no thread had memory in use. *)
free_all(p) ==
  LET i == [t \in Thread |-> thread_info(p, t)]
      held == UNION {i[t].root_available_[c] : t \in Thread, c \in Cap}
  IN  [info |-> [t \in Thread |-> free_available(p, t).info[t]],
       block |-> [a \in Addr |-> IF a \in held THEN Free ELSE p.block[a]]]

(* Mutant of free_all_ok: "ok =" for "ok &=", so the last thread decides. *)
free_all_ok_Last(p) == thread_info(p, 0).count_inuse_ = 0

free_all_ok(p) == \A t \in Thread : thread_info(p, t).count_inuse_ = 0

(* parallel_setup: the records of n threads, and a first block that comes  *)
(* and goes, so that every static of the file is made by one thread.       *)
parallel_setup(p, hold, n, a) ==
  LET q == [p EXCEPT !.info = [t \in Thread |->
              IF t < n THEN <<thread_info(p, t)>> ELSE p.info[t]]]
  IN  free_available(return_memory(get_memory(q, 0, 0, a), hold, a), 0)
=============================================================================
