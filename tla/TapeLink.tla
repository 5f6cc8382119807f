------------------------------ MODULE TapeLink ------------------------------
(***************************************************************************)
(* The life of a tape in CppAD and the link from AD objects to it          *)
(* (cppad/local/tape_link.hpp and the operations that go through it).      *)
(*                                                                         *)
(* A thread has at most one ADTape.  tape_manage creates it, hands it to   *)
(* the recording, takes it back and renumbers it.  An AD object does not   *)
(* point to a tape: it holds a tape identifier and an address, and it is a *)
(* variable exactly while its identifier is the current one of the thread  *)
(* id % CPPAD_MAX_NUM_THREADS.                                             *)
(*                                                                         *)
(* The debug assertions (CPPAD_ASSERT_KNOWN and CPPAD_ASSERT_UNKNOWN) stop *)
(* the program, so they are guards here.  Values are abstracted: where an  *)
(* operator looks at one (multiplication by an exact zero, say), the model *)
(* takes either branch.                                                    *)
(***************************************************************************)
EXTENDS Naturals, Sequences

CONSTANTS
  CPPAD_MAX_NUM_THREADS,
  Object,            (* The AD<Base> objects of the program.             *)
  Vector,            (* The vectors it declares independent.             *)
  MaxTapeId,         (* numeric_limits<CPPAD_TAPE_ID_TYPE>::max().       *)
  MaxVar,            (* Bound of the model: variables on one recording.  *)
  KeepsRestriction   (* parallel_ad is only called with no tape          *)
                     (* recording in any thread, as its doc requires.    *)

ASSUME ThreadsAssumption == CPPAD_MAX_NUM_THREADS \in Nat \ {0}
ASSUME BoundsAssumption ==
  /\ MaxVar \in Nat
  /\ MaxTapeId \in Nat
  /\ MaxTapeId >= 2 * CPPAD_MAX_NUM_THREADS
ASSUME RestrictionAssumption == KeepsRestriction \in BOOLEAN
ASSUME VectorAssumption ==
  \A x \in Vector :
    /\ x \in Seq(Object)
    /\ x # <<>>
    /\ \A i, j \in DOMAIN x : x[i] = x[j] => i = j

Thread == 0 .. CPPAD_MAX_NUM_THREADS - 1

VARIABLES
  in_parallel,     (* thread_alloc::in_parallel()                        *)
  ready,           (* parallel_ad has run: the statics are initialised   *)
  tape_table,      (* tape_table[t] # NULL                               *)
  id_,             (* id_ of the ADTape of thread t                      *)
  tape_id_save,    (* tape_id_save[t], zero when the program starts      *)
  tape_id_handle,  (* where *tape_id_handle(t) points                    *)
  tape_handle,     (* *tape_handle(t) # NULL: thread t is recording      *)
  size_independent_, (* of the ADTape of thread t, as last set            *)
  num_var_rec,     (* Rec_.num_var_rec() of the tape of thread t         *)
  object           (* the tape_id_ and taddr_ of every AD object         *)

tapeVars ==
  <<tape_table, id_, tape_id_save, tape_id_handle, tape_handle, size_independent_>>
vars == <<in_parallel, ready, tapeVars, num_var_rec, object>>

TapeId == 0 .. MaxTapeId

AD == [tape_id_ : TapeId, taddr_ : Nat]

(* Type correctness.  It says that no identifier overflows its width.      *)
TypeOK ==
  /\ in_parallel \in BOOLEAN
  /\ ready \in BOOLEAN
  /\ tape_table \in [Thread -> BOOLEAN]
  /\ id_ \in [Thread -> TapeId]
  /\ tape_id_save \in [Thread -> TapeId]
  /\ tape_id_handle \in [Thread -> {"null", "tape", "save"}]
  /\ tape_handle \in [Thread -> BOOLEAN]
  /\ size_independent_ \in [Thread -> Nat]
  /\ num_var_rec \in [Thread -> Nat]
  /\ object \in [Object -> AD]

-----------------------------------------------------------------------------
(***************************************************************************)
(* Reading the link.                                                       *)
(***************************************************************************)

(* thread_alloc::thread_num(): outside of a parallel region only the       *)
(* master thread runs.                                                     *)
Running(t) == in_parallel \/ t = 0

(* *tape_id_ptr(t), for a thread whose handle is not null. *)
CurrentId(t) == IF tape_id_handle[t] = "tape" THEN id_[t] ELSE tape_id_save[t]

ThreadOf(id) == id % CPPAD_MAX_NUM_THREADS

(* Variable(o), and Parameter(o) is its negation. *)
Variable(o) ==
  /\ object[o].tape_id_ # 0
  /\ object[o].tape_id_ = CurrentId(ThreadOf(object[o].tape_id_))

(* Calling Variable(o) or Parameter(o) in thread t: the handle of another  *)
(* thread must not be read in parallel mode.                               *)
MayTest(t, o) ==
  object[o].tape_id_ # 0 /\ in_parallel => ThreadOf(object[o].tape_id_) = t

(* The test of the binary operators, which look at the active tape of the  *)
(* thread that runs them and at nothing else.                              *)
OnTape(t, o) == tape_handle[t] /\ object[o].tape_id_ = id_[t]

-----------------------------------------------------------------------------
(***************************************************************************)
(* tape_manage.                                                            *)
(***************************************************************************)

(* Mutants of AttachedId: a first identifier without the offset that keeps *)
(* zero for parameters, and a new tape that starts again at the first one. *)
AttachedIdNoOffset(t) ==
  IF tape_table[t] THEN id_[t]
  ELSE IF tape_id_save[t] = 0 THEN t
  ELSE tape_id_save[t]

AttachedIdFirst(t) ==
  IF tape_table[t] THEN id_[t] ELSE t + CPPAD_MAX_NUM_THREADS

(* The identifier of the tape of thread t after the block that gives a     *)
(* tape to a thread that has none.                                         *)
AttachedId(t) ==
  IF tape_table[t] THEN id_[t]
  ELSE IF tape_id_save[t] = 0 THEN t + CPPAD_MAX_NUM_THREADS
  ELSE tape_id_save[t]

(* Mutant of TapeManageNew: the tape is not entered in tape_table. *)
TapeManageNewUnlisted(t) ==
  /\ ~tape_handle[t]
  /\ ThreadOf(AttachedId(t)) = t
  /\ id_' = [id_ EXCEPT ![t] = AttachedId(t)]
  /\ tape_id_handle' = [tape_id_handle EXCEPT ![t] = "tape"]
  /\ tape_handle' = [tape_handle EXCEPT ![t] = TRUE]
  /\ UNCHANGED <<tape_table, tape_id_save>>

TapeManageNew(t) ==
  /\ ~tape_handle[t]
  /\ ThreadOf(AttachedId(t)) = t
  /\ tape_table' = [tape_table EXCEPT ![t] = TRUE]
  /\ id_' = [id_ EXCEPT ![t] = AttachedId(t)]
  /\ tape_id_handle' = [tape_id_handle EXCEPT ![t] = "tape"]
  /\ tape_handle' = [tape_handle EXCEPT ![t] = TRUE]
  /\ UNCHANGED tape_id_save

(* Mutants of TapeManageDelete: the overflow of the identifier unchecked,  *)
(* the identifier not advanced, the recorder not freed.                    *)
TapeManageDeleteUnchecked(t) ==
  /\ tape_handle[t]
  /\ tape_table[t]
  /\ ThreadOf(id_[t]) = t
  /\ id_' = [id_ EXCEPT ![t] = @ + CPPAD_MAX_NUM_THREADS]
  /\ num_var_rec' = [num_var_rec EXCEPT ![t] = 0]
  /\ tape_handle' = [tape_handle EXCEPT ![t] = FALSE]
  /\ UNCHANGED <<tape_table, tape_id_save, tape_id_handle, size_independent_>>

TapeManageDeleteSameId(t) ==
  /\ tape_handle[t]
  /\ tape_table[t]
  /\ num_var_rec' = [num_var_rec EXCEPT ![t] = 0]
  /\ tape_handle' = [tape_handle EXCEPT ![t] = FALSE]
  /\ UNCHANGED <<tape_table, id_, tape_id_save, tape_id_handle, size_independent_>>

TapeManageDeleteNoFree(t) ==
  /\ tape_handle[t]
  /\ tape_table[t]
  /\ MaxTapeId - CPPAD_MAX_NUM_THREADS > id_[t]
  /\ id_' = [id_ EXCEPT ![t] = @ + CPPAD_MAX_NUM_THREADS]
  /\ tape_handle' = [tape_handle EXCEPT ![t] = FALSE]
  /\ UNCHANGED <<tape_table, tape_id_save, tape_id_handle, num_var_rec,
                 size_independent_>>

TapeManageDelete(t) ==
  /\ tape_handle[t]
  /\ tape_table[t]
  /\ ThreadOf(id_[t]) = t
  /\ MaxTapeId - CPPAD_MAX_NUM_THREADS > id_[t]
  /\ id_' = [id_ EXCEPT ![t] = @ + CPPAD_MAX_NUM_THREADS]
  /\ num_var_rec' = [num_var_rec EXCEPT ![t] = 0]
  /\ tape_handle' = [tape_handle EXCEPT ![t] = FALSE]
  /\ UNCHANGED <<tape_table, tape_id_save, tape_id_handle, size_independent_>>

(* Mutant of TapeManageClear: the identifiers are not kept. *)
TapeManageClearUnsaved ==
  /\ tape_id_handle' = [t \in Thread |->
                          IF tape_table[t] THEN "save" ELSE tape_id_handle[t]]
  /\ tape_table' = [t \in Thread |-> FALSE]
  /\ num_var_rec' = [t \in Thread |-> IF t = 0 THEN num_var_rec[t] ELSE 0]
  /\ UNCHANGED <<id_, tape_id_save, tape_handle, size_independent_>>

(* Every tape is taken from its thread, its identifier kept in             *)
(* tape_id_save.  The tape of the master thread is a static that keeps its *)
(* recorder, the others are deleted.  *tape_handle(t) is not touched.      *)
TapeManageClear ==
  /\ tape_id_save' = [t \in Thread |->
                        IF tape_table[t] THEN id_[t] ELSE tape_id_save[t]]
  /\ tape_id_handle' = [t \in Thread |->
                          IF tape_table[t] THEN "save" ELSE tape_id_handle[t]]
  /\ tape_table' = [t \in Thread |-> FALSE]
  /\ num_var_rec' = [t \in Thread |-> IF t = 0 THEN num_var_rec[t] ELSE 0]
  /\ UNCHANGED <<id_, tape_handle, size_independent_>>

-----------------------------------------------------------------------------
(***************************************************************************)
(* The operations of the program.                                          *)
(***************************************************************************)

(* parallel_ad() asks whether the calling thread is recording. *)
ParallelAD ==
  /\ ~in_parallel
  /\ ~tape_handle[0]
  /\ KeepsRestriction => \A t \in Thread : ~tape_handle[t]
  /\ TapeManageClear
  /\ ready' = TRUE
  /\ UNCHANGED <<in_parallel, object>>

EnterParallel ==
  /\ ready
  /\ ~in_parallel
  /\ in_parallel' = TRUE
  /\ UNCHANGED <<ready, tapeVars, num_var_rec, object>>

LeaveParallel ==
  /\ in_parallel
  /\ in_parallel' = FALSE
  /\ UNCHANGED <<ready, tapeVars, num_var_rec, object>>

(* Independent(x): the begin operator takes variable 0, x[j] variable j. *)
Independent(t, x) ==
  /\ Running(t)
  /\ 1 + Len(x) <= MaxVar
  /\ TapeManageNew(t)
  /\ num_var_rec' = [num_var_rec EXCEPT ![t] = 1 + Len(x)]
  /\ size_independent_' = [size_independent_ EXCEPT ![t] = Len(x)]
  /\ object' = [o \in Object |->
                  IF \E j \in DOMAIN x : x[j] = o
                    THEN [tape_id_ |-> AttachedId(t),
                          taddr_   |-> CHOOSE j \in DOMAIN x : x[j] = o]
                    ELSE object[o]]
  /\ UNCHANGED <<in_parallel, ready>>

(* r becomes the result of an operator put on the tape of t. *)
PutOp(t, r) ==
  /\ num_var_rec[t] < MaxVar
  /\ num_var_rec' = [num_var_rec EXCEPT ![t] = @ + 1]
  /\ object' = [object EXCEPT ![r] = [tape_id_ |-> id_[t],
                                      taddr_   |-> num_var_rec[t]]]
  /\ UNCHANGED <<in_parallel, ready, tapeVars>>

(* No operator is put: r becomes the AD object new. *)
SetObject(r, new) ==
  /\ object' = [object EXCEPT ![r] = new]
  /\ UNCHANGED <<in_parallel, ready, tapeVars, num_var_rec>>

(* r = a <op> b for + - * /: a fresh result, copied to r.  With one        *)
(* variable the operator is recorded, or the other operand is an exact     *)
(* zero or one and the result is that variable or a constant.              *)
BinaryOp(t, r, a, b) ==
  /\ Running(t)
  /\ \/ /\ OnTape(t, a) \/ OnTape(t, b)
        /\ PutOp(t, r)
     \/ /\ ~(OnTape(t, a) /\ OnTape(t, b))
        /\ \/ SetObject(r, [tape_id_ |-> 0, taddr_ |-> 0])
           \/ \E v \in {a, b} : OnTape(t, v) /\ SetObject(r, object[v])

(* a <op>= b, in place: without an active tape, or between two constants,  *)
(* only the value of a changes, its tape_id_ and taddr_ stay.              *)
AssignmentOp(t, a, b) ==
  /\ Running(t)
  /\ OnTape(t, a) \/ OnTape(t, b)
  /\ \/ PutOp(t, a)
     \/ OnTape(t, a) /\ ~OnTape(t, b)
        /\ SetObject(a, [object[a] EXCEPT !.tape_id_ = 0])   \* a *= 0
     \/ OnTape(t, b) /\ ~OnTape(t, a)
        /\ MayTest(t, a) /\ ~Variable(a)                    \* make_variable
        /\ SetObject(a, object[b])

(* r = f(a) for the standard math functions: they ask Variable(a) and      *)
(* record on the tape of the thread a names.                               *)
UnaryOp(t, r, a) ==
  /\ Running(t)
  /\ MayTest(t, a)
  /\ IF Variable(a)
       THEN /\ ThreadOf(object[a].tape_id_) = t
            /\ tape_handle[t]
            /\ PutOp(t, r)
       ELSE SetObject(r, [tape_id_ |-> 0, taddr_ |-> 0])

(* r = a, the implicit copy. *)
CopyObject(t, r, a) ==
  /\ Running(t)
  /\ SetObject(r, object[a])

(* r = b for a plain Base b: the address stays behind. *)
AssignBase(t, r) ==
  /\ Running(t)
  /\ SetObject(r, [object[r] EXCEPT !.tape_id_ = 0])

(* ADFun(x, y) and Dependent(x, y), with the checks that x still is the    *)
(* independent vector and y is not of another tape.                        *)
Dependent(t, x, y) ==
  /\ Running(t)
  /\ \A o \in {x[1], y} : MayTest(t, o)
  /\ Variable(x[1])
  /\ ThreadOf(object[x[1]].tape_id_) = t
  /\ size_independent_[t] = Len(x)
  /\ \A j \in DOMAIN x : object[x[j]] = [tape_id_ |-> object[x[1]].tape_id_,
                                         taddr_   |-> j]
  /\ Variable(y) => object[y].tape_id_ = object[x[1]].tape_id_
  /\ TapeManageDelete(t)
  /\ UNCHANGED <<in_parallel, ready, object>>

AbortRecording(t) ==
  /\ Running(t)
  /\ TapeManageDelete(t)
  /\ UNCHANGED <<in_parallel, ready, object>>

-----------------------------------------------------------------------------

Init ==
  /\ in_parallel = FALSE
  /\ ready = FALSE
  /\ tape_table = [t \in Thread |-> FALSE]
  /\ id_ = [t \in Thread |-> 0]
  /\ tape_id_save = [t \in Thread |-> 0]
  /\ tape_id_handle = [t \in Thread |-> "null"]
  /\ tape_handle = [t \in Thread |-> FALSE]
  /\ size_independent_ = [t \in Thread |-> 0]
  /\ num_var_rec = [t \in Thread |-> 0]
  /\ object = [o \in Object |-> [tape_id_ |-> 0, taddr_ |-> 0]]

ThreadStep(t) ==
  \/ \E x \in Vector : Independent(t, x)
  \/ \E r, a, b \in Object : BinaryOp(t, r, a, b)
  \/ \E a, b \in Object : AssignmentOp(t, a, b)
  \/ \E r, a \in Object : UnaryOp(t, r, a)
  \/ \E r, a \in Object : CopyObject(t, r, a)
  \/ \E r \in Object : AssignBase(t, r)
  \/ \E x \in Vector, y \in Object : Dependent(t, x, y)
  \/ AbortRecording(t)

Next ==
  \/ ParallelAD
  \/ EnterParallel
  \/ LeaveParallel
  \/ \E t \in Thread : ThreadStep(t)

Spec == Init /\ [][Next]_vars

-----------------------------------------------------------------------------
(***************************************************************************)
(* Properties.                                                             *)
(***************************************************************************)

(* A thread that is recording owns the tape it records on: *tape_handle(t) *)
(* is never left pointing to a tape that tape_manage has taken away.       *)
NoDanglingTape == \A t \in Thread : tape_handle[t] => tape_table[t]

(* A recorder is empty exactly while its thread is not recording, so       *)
(* Independent starts at variable 0 (its assertion on num_var_rec()) and   *)
(* an operator never takes the variable of the begin operator.             *)
RecorderEmptyWhenIdle ==
  \A t \in Thread : num_var_rec[t] = 0 <=> ~tape_handle[t]

(* The identifiers of two threads never meet: the current one of t is      *)
(* congruent to t and past the zero that marks a parameter.                *)
IdsSeparateThreads ==
  \A t \in Thread : tape_id_handle[t] # "null" =>
    CurrentId(t) >= CPPAD_MAX_NUM_THREADS /\ ThreadOf(CurrentId(t)) = t

(* An object that passes for a variable is one: the recording it names is  *)
(* open, and its address is that of a variable other than the begin        *)
(* operator's on that recording.                                           *)
VariablesAreLive ==
  \A o \in Object : Variable(o) =>
    LET t == ThreadOf(object[o].tape_id_)
    IN  tape_handle[t] /\ object[o].taddr_ \in 1 .. num_var_rec[t] - 1

(* The identifier a thread hands to a new recording was never on an object *)
(* before: no object carries an identifier past the current one.           *)
IdsAreFresh ==
  \A o \in Object : object[o].tape_id_ # 0 =>
    LET t == ThreadOf(object[o].tape_id_)
    IN  tape_id_handle[t] # "null" /\ object[o].tape_id_ <= CurrentId(t)

(* The inductive invariant: with the above, a thread has a tape exactly    *)
(* while its handle points to that tape's id_, and saves no identifier     *)
(* before it has had one.                                                  *)
HandleFollowsTable ==
  \A t \in Thread :
    /\ tape_table[t] <=> tape_id_handle[t] = "tape"
    /\ tape_id_handle[t] = "null" => tape_id_save[t] = 0

LinkInv ==
  /\ TypeOK
  /\ HandleFollowsTable
  /\ NoDanglingTape
  /\ RecorderEmptyWhenIdle
  /\ IdsSeparateThreads
  /\ IdsAreFresh
  /\ VariablesAreLive

(* parallel_ad is refused while a tape is being recorded: no step takes    *)
(* its tape away from a recording that goes on.                            *)
RecordingsKeepTheirTape ==
  [][\A t \in Thread : tape_table[t] /\ tape_handle[t] /\ tape_handle'[t]
                         => tape_table'[t]]_vars

(* The refinement mapping: an object is a variable or a constant of the    *)
(* abstract sessions as Variable tells.                                    *)
SessionVar ==
  [o \in Object |-> IF Variable(o)
                      THEN <<ThreadOf(object[o].tape_id_), object[o].taddr_>>
                      ELSE <<>>]

Sessions == INSTANCE RecordingSession WITH
  open <- tape_handle, count <- num_var_rec, var <- SessionVar

(* The tape identifiers implement the sessions: above all, ending a        *)
(* recording turns its variables into constants for ever, whatever         *)
(* recordings, parallel regions and renumberings follow.                   *)
ImplementsSessions == Sessions!Spec
=============================================================================
