------------------------------ MODULE PodVector -----------------------------
(***************************************************************************)
(* Vectors over the memory pools (pod_vector.hpp): tapes, recordings,      *)
(* Taylor coefficients and partials are kept in them.  The recording of a  *)
(* thread is swapped into an ADFun, which another thread may destroy, so   *)
(* the block of a vector goes from hand to hand between threads.           *)
(*                                                                         *)
(* An operation is one step: in parallel mode a thread works on its own    *)
(* vectors and its own pool, which the assertion that a block is returned  *)
(* by its own thread makes sure of.  Assertions are guards here.           *)
(***************************************************************************)
EXTENDS ThreadAlloc, Sequences

CONSTANTS
  Vector,
  Null,            \* the data_ of a vector without memory
  MaxLength,       \* max_length_ of every vector
  Elem,            \* the values of an element of a vector
  Default,         \* what its constructor sets it to
  is_pod           \* whether elements have no constructor and destructor

ASSUME ElemAssumption ==
  Default \in Elem /\ Raw \notin Elem /\ is_pod \in BOOLEAN /\ MaxLength \in Nat

VARIABLES
  in_parallel,     \* thread_alloc::in_parallel()
  num_threads,     \* thread_alloc::num_threads()
  hold_memory,     \* set_get_hold_memory
  pool,            \* the records of the threads, and the blocks
  vector           \* length_, capacity_ and data_ of every vector

vars == <<in_parallel, num_threads, hold_memory, pool, vector>>

Block == [tc_index_ : 0 .. CPPAD_MAX_NUM_THREADS * num_cap - 1,
          data : UNION {[1 .. capacity_vec[c] -> Elem \union {Raw}] : c \in Cap}]

ASSUME FreeAssumption == Free \notin Block

Empty == [length_ |-> 0, capacity_ |-> 0, data_ |-> Null]

Running(t) == IF in_parallel THEN t < num_threads ELSE t = 0

(* The assertion of return_memory and free_available. *)
MayTouch(t, u) == t = u \/ ~in_parallel

-----------------------------------------------------------------------------
(* Placement new and the destructor, for all capacity_ elements. *)
Constructed(p, a) ==
  IF is_pod THEN p
  ELSE [p EXCEPT !.block[a].data = [k \in DOMAIN @ |-> Default]]

Destroyed(p, a) ==
  IF is_pod THEN p
  ELSE [p EXCEPT !.block[a].data = [k \in DOMAIN @ |-> Raw]]

(* Mutant of Released: only length_ elements are destroyed. *)
ReleasedShort(p, x) ==
  IF x.capacity_ > 0
  THEN return_memory(
         IF is_pod THEN p
         ELSE [p EXCEPT !.block[x.data_].data =
                 [k \in DOMAIN @ |-> IF k <= x.length_ THEN Raw ELSE @[k]]],
         hold_memory, x.data_)
  ELSE p

(* A vector gives its memory back. *)
Released(p, x) ==
  IF x.capacity_ > 0
  THEN return_memory(Destroyed(p, x.data_), hold_memory, x.data_)
  ELSE p

MayRelease(t, x) == x.capacity_ > 0 => MayTouch(t, ThreadOf(pool, x.data_))

(* Mutant of Copied: the last element is not copied. *)
CopiedShort(p, a, n, s) ==
  [p EXCEPT !.block[a].data = [k \in DOMAIN @ |-> IF k < n THEN s[k] ELSE @[k]]]

(* The first n elements of the block at a become s. *)
Copied(p, a, n, s) ==
  [p EXCEPT !.block[a].data = [k \in DOMAIN @ |-> IF k <= n THEN s[k] ELSE @[k]]]

Elements(p, x) == [k \in 1 .. x.length_ |-> p.block[x.data_].data[k]]

(* The part of extend and operator = that both share: t gets a block at a  *)
(* for n elements.                                                         *)
Obtained(p, t, c, a) == Constructed(get_memory(p, t, c, a), a)

(* Mutant of extend: the old memory is not returned. *)
extend_Leaking(t, v, n) ==
  LET x == vector[v]
      length == x.length_ + n
  IN  /\ length <= MaxLength
      /\ \/ /\ x.capacity_ >= length
            /\ vector' = [vector EXCEPT ![v].length_ = length]
            /\ UNCHANGED pool
         \/ /\ x.capacity_ < length
            /\ \E c \in Cap : Fits(length, c) /\
                 \E a \in Obtainable(pool, t, c) :
                   /\ vector' = [vector EXCEPT ![v] =
                        [length_ |-> length, capacity_ |-> capacity_vec[c],
                         data_ |-> a]]
                   /\ pool' = Copied(Obtained(pool, t, c, a), a,
                                     x.length_, Elements(pool, x))

extend(t, v, n) ==
  LET x == vector[v]
      length == x.length_ + n
  IN  /\ length <= MaxLength
      /\ \/ /\ x.capacity_ >= length
            /\ vector' = [vector EXCEPT ![v].length_ = length]
            /\ UNCHANGED pool
         \/ /\ x.capacity_ < length
            /\ MayRelease(t, x)
            /\ \E c \in Cap : Fits(length, c) /\
                 \E a \in Obtainable(pool, t, c) :
                   /\ vector' = [vector EXCEPT ![v] =
                        [length_ |-> length, capacity_ |-> capacity_vec[c],
                         data_ |-> a]]
                   /\ pool' = Released(Copied(Obtained(pool, t, c, a), a,
                                              x.length_, Elements(pool, x)), x)

Extend(t, v, n) ==
  /\ Running(t)
  /\ extend(t, v, n)
  /\ UNCHANGED <<in_parallel, num_threads, hold_memory>>

(* operator =: the old memory goes back before the new is taken. *)
Assign(t, v, w) ==
  LET x == vector[v]
      y == vector[w]
      back == Released(pool, x)
  IN  /\ Running(t)
      /\ \/ /\ y.length_ <= x.capacity_
            /\ vector' = [vector EXCEPT ![v].length_ = y.length_]
            /\ pool' = IF y.length_ = 0 THEN pool
                       ELSE Copied(pool, x.data_, y.length_, Elements(pool, y))
         \/ /\ y.length_ > x.capacity_
            /\ MayRelease(t, x)
            /\ \E c \in Cap : Fits(y.length_, c) /\
                 \E a \in Obtainable(back, t, c) :
                   /\ vector' = [vector EXCEPT ![v] =
                        [length_ |-> y.length_, capacity_ |-> capacity_vec[c],
                         data_ |-> a]]
                   /\ pool' = Copied(Obtained(back, t, c, a), a, y.length_,
                                     Elements(pool, y))
      /\ UNCHANGED <<in_parallel, num_threads, hold_memory>>

(* free, and the destructor. *)
FreeVector(t, v) ==
  /\ Running(t)
  /\ MayRelease(t, vector[v])
  /\ pool' = Released(pool, vector[v])
  /\ vector' = [vector EXCEPT ![v] = Empty]
  /\ UNCHANGED <<in_parallel, num_threads, hold_memory>>

Erase(v) ==
  /\ vector' = [vector EXCEPT ![v].length_ = 0]
  /\ UNCHANGED <<in_parallel, num_threads, hold_memory, pool>>

Swap(v, w) ==
  /\ vector' = [vector EXCEPT ![v] = vector[w], ![w] = vector[v]]
  /\ UNCHANGED <<in_parallel, num_threads, hold_memory, pool>>

(* operator []. *)
Write(v, i, x) ==
  /\ i \in 1 .. vector[v].length_
  /\ pool' = [pool EXCEPT !.block[vector[v].data_].data[i] = x]
  /\ UNCHANGED <<in_parallel, num_threads, hold_memory, vector>>

-----------------------------------------------------------------------------
HoldMemory(value) ==
  /\ hold_memory' = value
  /\ UNCHANGED <<in_parallel, num_threads, pool, vector>>

FreeAvailable(t, u) ==
  /\ Running(t)
  /\ MayTouch(t, u)
  /\ pool' = free_available(pool, u)
  /\ UNCHANGED <<in_parallel, num_threads, hold_memory, vector>>

FreeAll ==
  /\ ~in_parallel
  /\ pool' = free_all(pool)
  /\ UNCHANGED <<in_parallel, num_threads, hold_memory, vector>>

ParallelSetup(n) ==
  /\ ~in_parallel
  /\ num_threads' = n
  /\ IF n = 1 THEN pool' = pool
     ELSE \E a \in Obtainable(pool, 0, 0) :
            pool' = parallel_setup(pool, hold_memory, n, a)
  /\ UNCHANGED <<in_parallel, hold_memory, vector>>

(* The program enters and leaves a parallel region. *)
EnterParallel ==
  /\ ~in_parallel /\ num_threads > 1
  /\ in_parallel' = TRUE
  /\ UNCHANGED <<num_threads, hold_memory, pool, vector>>

LeaveParallel ==
  /\ in_parallel
  /\ in_parallel' = FALSE
  /\ UNCHANGED <<num_threads, hold_memory, pool, vector>>

Init ==
  /\ in_parallel = FALSE
  /\ num_threads = 1
  /\ hold_memory = FALSE
  /\ pool = [info |-> [t \in Thread |-> NoRecord], block |-> [a \in Addr |-> Free]]
  /\ vector = [v \in Vector |-> Empty]

VectorStep(t) ==
  \/ \E v \in Vector, n \in 1 .. MaxLength : Extend(t, v, n)
  \/ \E v, w \in Vector : Assign(t, v, w)
  \/ \E v \in Vector : FreeVector(t, v)
  \/ \E u \in Thread : FreeAvailable(t, u)

Next ==
  \/ \E t \in Thread : VectorStep(t)
  \/ \E v \in Vector : Erase(v)
  \/ \E v, w \in Vector : Swap(v, w)
  \/ \E v \in Vector, i \in 1 .. MaxLength, x \in Elem : Write(v, i, x)
  \/ \E value \in BOOLEAN : HoldMemory(value)
  \/ FreeAll
  \/ \E n \in 1 .. CPPAD_MAX_NUM_THREADS : ParallelSetup(n)
  \/ EnterParallel
  \/ LeaveParallel

Spec == Init /\ [][Next]_vars

-----------------------------------------------------------------------------
(***************************************************************************)
(* Properties.                                                             *)
(***************************************************************************)

TypeOK ==
  /\ in_parallel \in BOOLEAN /\ hold_memory \in BOOLEAN
  /\ num_threads \in 1 .. CPPAD_MAX_NUM_THREADS
  /\ pool \in [info : [Thread -> {s \in Seq(Info) : Len(s) <= 1}],
               block : [Addr -> Block \union {Free}]]
  /\ vector \in [Vector -> [length_ : Nat, capacity_ : Nat,
                            data_ : Addr \union {Null}]]

Holds(v, a) == vector[v].capacity_ > 0 /\ vector[v].data_ = a

Available(t, c, a) ==
  a \in thread_info(pool, t).root_available_[c]

(* A block is where its index says it is: no list has the block of another *)
(* thread or capacity, a block that a vector holds is on no list and is    *)
(* held by no other, and is as large as the vector believes.               *)
BlocksApart ==
  /\ \A t \in Thread, c \in Cap, a \in Addr : Available(t, c, a) =>
       pool.block[a] # Free /\ pool.block[a].tc_index_ = TcIndex(t, c)
  /\ \A v \in Vector, a \in Addr : Holds(v, a) =>
       /\ pool.block[a] # Free
       /\ vector[v].capacity_ = capacity_vec[CapOf(pool, a)]
       /\ DOMAIN pool.block[a].data = 1 .. vector[v].capacity_
       /\ \A t \in Thread, c \in Cap : ~Available(t, c, a)
       /\ \A w \in Vector \ {v} : ~Holds(w, a)

(* Nothing leaks: what the system gave is held by a vector or available.   *)
NothingLost ==
  \A a \in Addr : pool.block[a] # Free =>
    \/ \E v \in Vector : Holds(v, a)
    \/ \E t \in Thread, c \in Cap : Available(t, c, a)

(* The bytes a thread has in use and available are those of its blocks,    *)
(* whatever hold_memory was when they came and went, and a thread without  *)
(* a record has neither.                                                   *)
CountsExact ==
  \A t \in Thread :
    LET mine == {a \in Addr : pool.block[a] # Free /\ ThreadOf(pool, a) = t}
        held == {a \in mine : \E v \in Vector : Holds(v, a)}
        Size(a) == capacity_vec[CapOf(pool, a)]
        i == thread_info(pool, t)
    IN  /\ i.count_inuse_ = MapThenSumSet(Size, held)
        /\ i.count_available_ = MapThenSumSet(Size, mine \ held)
        /\ UNION {i.root_inuse_[c] : c \in Cap} = held

(* Elements that have constructors are constructed and destroyed once: all *)
(* those in memory that a vector holds are objects, and no memory that is  *)
(* available has one.                                                      *)
ObjectsLive ==
  ~is_pod =>
    /\ \A v \in Vector, a \in Addr : Holds(v, a) =>
         \A k \in DOMAIN pool.block[a].data : pool.block[a].data[k] # Raw
    /\ \A t \in Thread, c \in Cap, a \in Addr : Available(t, c, a) =>
         \A k \in DOMAIN pool.block[a].data : pool.block[a].data[k] = Raw

(* free_all answers true exactly if nothing stays allocated. *)
FreeAllTells ==
  [][FreeAll => (free_all_ok(pool) <=> \A a \in Addr : pool'.block[a] = Free)]_vars

(* The refinement mapping: the elements a vector leads to. *)
Vectors_ == INSTANCE Vectors WITH
  Elem <- Elem \union {Raw}, vec <- [v \in Vector |-> Elements(pool, vector[v])]

(* Vectors over the pools are values of their own: memory that came back   *)
(* from another vector or thread never shows through.                      *)
ImplementsVectors == Vectors_!Spec
=============================================================================
