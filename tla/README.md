# TapeScript in TLA+

TapeScript is a C++ library for adjoint algorithmic differentiation (AAD).  A
program computes with `tape_double` instead of `double`; between `tape_start`
and `tape_function` every operation is also written to a tape, and the tape is
then swept forward (values, directional derivatives) or backward (gradients).
The library is header-only: `tapescript/cpp/cl/tape` wraps a vendored and
patched copy of CppAD, `dependencies/cpp/cppad`.

This directory holds TLA+ models of the parts whose correctness depends on
state and on the order of operations, the TLC configurations that check them,
and TLAPS proofs about them.

    tlc -workers 2 -config MCSweep.cfg MCSweep      # check a configuration
    tlapm Sweep_proofs.tla                          # check the proofs of a module

`PROJECT.json` lists the components, the runs, the mutants that show each
property can fail, the source lines of every definition, the findings, the
hazards and the theorems.

Below, `impl/` is `tapescript/cpp/cl/tape/impl/` and `local/` is
`dependencies/cpp/cppad/local/`.

## 1. The system

### Its parts

| Part | State | Operations | Modelled by |
|---|---|---|---|
| **tape_wrapper** (`impl/double.hpp`, `impl/detail/`): the double of the program | 64 bits: a double, or under the mask of a NaN a pointer to an `AD<double>` it owns | constructors, assignments, `+ - * /`, `op=`, `++`, `--`, boxing | `TapeWrapper` |
| **adapters** (`impl/detail/adapters.hpp`) | none | `tape_start` boxes the elements of a vector and calls `Independent`; `tape_function` reads the dependents and calls `ADFun`'s constructor; `tape_ref` views | `TapeWrapper` (the first two) |
| **tape lifecycle** (`local/tape_link.hpp`, `independent.hpp`, `dependent.hpp`, `abort_recording.hpp`, `parallel_ad.hpp`) | statics: per thread a tape, a handle, a tape identifier; in each AD object the identifier and address that link it to a tape | `tape_manage` with four jobs; `Independent`, `Dependent`, `abort_recording`, `parallel_ad` | `TapeLink` |
| **recorder and AD operators** (`local/recorder.hpp`, `hash_code.hpp`, `add.hpp` ... `cond_exp.hpp`, `compare.hpp`) | vectors of op codes, arguments and parameters; a static hash table of parameters | `PutOp`, `PutArg`, `PutPar`; every overloaded operator, with its shortcuts; `player::get` | `Recording`, `Playback` |
| **player and sweeps** (`local/player.hpp`, `forward.hpp`, `*_op.hpp`; `impl/ad/tape_forward0sweep.hpp`, `tape_forward1sweep.hpp`, `tape_reverse_sweep.hpp`, `tape_reverse.hpp`, which replace CppAD's own by their include guards) | a cursor over the recording; Taylor coefficients, the number of orders known, skip flags and counts of changed comparisons, kept across calls; partials | `forward_next`, `reverse_next` and their corrections; `Forward`, `Reverse`, `compare_change_count` | `Player`, `Taylor`, `Sweep` |
| **optimizer** (`local/optimize.hpp`): public through the `ADFun` base of `tape_function` | for each variable how it is connected to the dependent ones, its new address and operator; a list of skips, a hash table of operators, a new recorder | `optimize` replaces a recording by one without what is not needed, with repeated operators merged, with cumulative sums and conditional skips | `Optimizer` |
| **tape_inner** (`impl/inner/`): arrays as a base type | a mode (scalar, array, or the intrusive scalar of a partial), a scalar, an array | the operators in each pair of modes; the sweeps over them | `TapeInner`, `ArraySweep` |
| **atomic functions** (`impl/atomics/tape_inner_ops.hpp`, `local/atomic_base.hpp`) | registered objects; the state of a `UserOp` sequence within a sweep | forward and reverse of each; recording a call | `TapeInnerOps` (forward and reverse) |
| **memory pools** (`dependencies/cpp/cppad/thread_alloc.hpp`, `local/pod_vector.hpp`): tapes, coefficients and partials live in them | per thread, a list of blocks in use and available for each capacity, and two counts; in a vector its length, capacity and block | `get_memory`, `return_memory`, `free_available`, `free_all`, `hold_memory`, `parallel_setup`; `extend`, `erase`, `swap`, assignment | `ThreadAlloc`, `PodVector` |
| **serializer** (`impl/ad/tape_serializer*.hpp`) | a stream | writes each operator of a sweep | its effect on the cursor, in `Sweep` |
| **ADFun's orders and directions** (`local/capacity_order.hpp`, `drivers.hpp`) | capacity of `taylor_` | `capacity_order`; Jacobian, Hessian | no |
| **VecAD**, **sparsity patterns**, **complex numbers**, **math functions and traits** | see `PROJECT.json` | | no |

### How they interact

The program holds wrappers.  `tape_start` boxes some of them and hands their AD
objects to `Independent`, which opens a recording of the calling thread
(lifecycle) and puts an instruction for each on the tape (recorder).  From then
on an operator on wrappers is the same operator on AD objects, whose result is
a new variable if an operand is one: whether it is, is a comparison of two tape
identifiers (lifecycle).  `tape_function` reads the dependents, takes the
recording from the recorder into the player of an `ADFun`, and ends it, at which
every variable turns into a constant without being touched.  `Forward` and
`Reverse` of that `ADFun` play the recording.  The base type of all this may be
`tape_inner`, and then the same sweeps compute with arrays, and atomic functions
take arrays apart and put them together.  Every vector of a recording or an
`ADFun` takes its memory from the pool of the thread that works with it.

There are no callbacks but atomic functions.  Threads share the tables of the
lifecycle and those of the pools, where each has entries of its own; what one
thread records another may play and destroy, once the threads have joined.

### What is hard

* *Links by identifier.*  An AD object does not point to its tape.  It outlives
  it, and must not pass for a variable of any later recording of any thread;
  identifiers are renumbered, saved and restored, and of bounded width.
* *Two contents in one word.*  Every constructor, assignment and operator of
  the wrapper has four cases, and ownership of the AD object is by hand.
* *Shortcuts.*  `x + 0`, `0 * x` and their like record nothing; they must agree
  with the operation at every later point, not only where it was recorded.
  Parameters are shared through a hash table that outlives its recordings.
* *Flat vectors.*  The player finds arguments by counting those before;
  instructions of varying size need a correction in each of five places.
* *State across calls.*  Coefficients, skip flags and counts of one call are
  used by the next, and are partly stale after a call of lower order.
* *Facts about a variable, found backwards and used forwards.*  The optimizer notes
  how a variable is used in one pass and acts on it in the next, in which each
  variable may be dropped, merged, gathered into a sum or skipped; every user of it,
  and every skip that names it, has to agree.
* *Two shapes in one value.*  A `tape_inner` is a scalar or an array, a scalar may
  stand for an array of equal elements, and the partial of a scalar must add up
  the elements of arrays.
* *Blocks from hand to hand.*  A block is given back by whoever has it, to the
  pool it came from, under whatever `hold_memory` says by then; vectors construct
  and destroy its elements by hand.

Each part's correctness is stated against an abstract specification: recording
sessions (`RecordingSession`), native doubles (`NativeDouble`), functions
(`RecordedFunctions`), derivatives (`Derivatives`) and vectors (`Vectors`).

The system has no scheduling of its own and no operation that waits for another.
What must eventually happen is that a sweep ends: its loop runs until the cursor
is at `EndOp` or `BeginOp`, and every branch of it, skipping included, has to move
the cursor the right way.  `Sweep` is therefore specified with fairness, and
with no more of it than a sequential loop has: weak fairness of the step that
plays the next operator.  Starting a call is the caller's choice and is not fair.
The other specifications are of operations that are one step each, state no
fairness and claim no liveness.

## 2. The modules

    TapeLink    --implements-->  RecordingSession     MCTapeLink     TapeLink_proofs
    TapeWrapper --implements-->  NativeDouble         MCTapeWrapper  TapeWrapper_proofs
    Tape                                              (operators, arithmetic, instructions)
    Recording   --implements-->  RecordedFunctions                   Playback_proofs
    Player, Taylor               (extend Tape)                       Player_proofs
    Playback                     (Recording with Player)  MCPlayback Playback_proofs
    Optimizer                    (extends Player)     MCOptimizer, MCTapes  Optimizer_proofs
    Sweep       --implements-->  Derivatives          MCSweep, MCTapes  Sweep_proofs
    TapeInner, TapeInnerOps      (values and atomic functions)
    ArraySweep  --implements-->  Derivatives          MCArraySweep   ArraySweep_proofs
    ThreadAlloc                  (the pools)
    PodVector   --implements-->  Vectors              MCPodVector    PodVector_proofs

### TapeLink

One action per operation of a thread (`Independent`, `Dependent`,
`AbortRecording`, and what each kind of operator does to the link of its
result) and per operation of the program (`ParallelAD`, `EnterParallel`,
`LeaveParallel`); threads interleave between operations while `in_parallel`.
`tape_manage` is the four operators `TapeManageNew`, `TapeManageDelete`,
`TapeManageClear` and `AttachedId`, called where the code calls it.  Values are
left out: where an operator looks at one, the model takes either branch.  Debug
assertions are guards.

`ImplementsSessions` is the point: through the mapping that calls an object a
variable exactly when `Variable(o)` does, the identifiers behave as if ending a
recording turned each of its variables into a constant at once and for ever.

### TapeWrapper

One action per constructor, assignment, operator and adapter.  `value_` holds a
number or an address; `heap` the AD objects.  A temporary is constructed,
moved from and destroyed within its expression, hence within one action.  An AD
object is abstracted to its value and whether it is a variable.  `call` records
the last call of the program so that the refinement of `NativeDouble` compares
operation by operation, and not only state by state.

`LosesOnlyTarget` is what can be said of leaks.  Assignment from a temporary
overwrites the bits of its target without destroying the AD object it owned
(`double.hpp:466`), so `a = b + c` over a boxed `a` leaks one; the property
says that nothing else is lost by any operation.

Two preconditions narrow the native behaviour.  `IncrementsPlain`: `++` is used on
native contents only (finding 2).  `DependentsBoxed`: what `tape_function` is given
was boxed, for given a const vector it records a dependent that never met the tape
as 0 and not as its value (`value_detail.hpp:48`).

### Tape, Recording

`Tape` has op codes, instructions and their arithmetic, which is a parameter:
`Calc(op, s)` with the laws of `ArithmeticAssumption`, those of a totally
ordered set of numbers in which the shortcuts are right.  NaN and the sign of
zero, for which some are not, are out of the model: with a NaN operand a comparison that
came out false is recorded as one that is false as well (`compare.hpp:158`), and a stale
entry of the hash table can give 0.0 for -0.0 (`recorder.hpp:318`).

`Recording` is one thread from `Independent` to `Dependent` or
`abort_recording` and again.  An operator is one action with the code's order
of tests: which operand is a variable, whether the parameter is 0 or 1.
Relational operators record the comparison that holds, operands exchanged if
need be.  The history variable `den` gives every address of the tape its
meaning, as a function of the independent variables, and `at` is the point of
the recording.  With them, "the tape says what was computed" is a predicate of
the state (`Faithful`), and `ImplementsFunctions` says that every AD object
stands for the function the program computed for it, and that the comparisons
recorded hold exactly where the program's come out as they did.

### Playback

The composition of the recorder and the player.  Every action of `Recording` is
taken together with what it writes: `op_rec_` and `op_arg_rec_` of the recorder
grow by the op codes and argument words of the instructions that action put on
the tape.  `Dependent` hands the vectors to the player of `f`, with the sums that
`player::get` computes.

Nothing in the vectors says where an instruction starts: both sides count by
`NumArg` and `NumRes`.  `Playable` says that what the player takes over is
`WellFormed`, which is what `Sweep` assumes of its tapes, and that the player reads
there the instructions that were recorded, with their arguments and results;
`PlaysBack` that a pass over it, from any point, gives every variable the value of
the function the program computed for it.

### Player, Taylor, Sweep

`Player` has the flat vectors and the cursor, its six moves being those of
`player.hpp`, and reads instructions at the cursor as the cases of the sweeps
do.  A tape is a constant with two more fields, `first` and `last`, that say
where the recorder put things; `WellFormed` says what the recorder and the
optimizer guarantee of a tape, and every tape of a run is checked against it.
It includes that an op code has the kinds of operands its name tells, that operands and
dependents are never auxiliary variables, and that only
operators with a result are skipped, or none, named by the number of operators.

`Taylor` has the arithmetic of the operators: order 0, order 1, and what each
adds to the partials of its operands.  `TaylorAssumption` says that the operations are
closed on the numbers.  `Ring` is more, and used only where it is named: addition and
multiplication are those of a commutative ring, and dividing is multiplying by an
inverse.  Rounding breaks it, so what is proved from it is proved of exact numbers.

`Sweep` is an ADFun object between and during calls; a step is one operator.
`ForwardSweep(p, q)` is `Forward(q, xq)` for coefficients of one order or of
all (`p` is `q` or 0), `ReverseSweep(w, text)` is `Reverse(1, w)`.  A call
may come with whatever orders, flags and counts earlier calls left.

`Traced` says that a reverse sweep over an optimized tape is given a text
stream to trace to.  With a trace the code corrects the cursor for sums and
skips, without it the calls are compiled out (finding 3 below), so what is
checked and proved of reverse sweeps over such tapes needs `Traced`; tapes
without sums and skips do not.

`SkipsHarmless(t)` says what the skips on a tape must respect: at every point there are
variables, the dependents among them, that are computed from one another only and
are not skipped.  It follows from no layout: a tape may well skip what it needs, which
is what finding 4 is about.  TLC checks it, and `Ring`, of the tapes and the arithmetic
of `MCSweep` (`MCSweepAssumption`); the arithmetic is also that of `MCOptimizer`.

`Derivatives` knows nothing of tapes, orders stored, flags or adjoints: `Forward`
returns the value of the function or its derivative along a direction, defined
by the chain rule from the partial derivative of each operator, and `Reverse`
the derivatives along the unit vectors, weighted.

### Optimizer

`optimize_run` in its two passes.  A step is one operator of the recording, read with
`reverse_next` or `forward_next`; gathering a sum, `record_csum`, is a step for each of
the sums in it.  The variable `tape` is the code's vector of that name with the entry of
`cexp_vec_set` beside the rest; `rec` has the vectors of the new recorder, and
`NewRecording` is what `player::get` takes from it.

The reverse actions find the connections: `Used` is the switch over them that the code
repeats for each kind of operator.  `Prepare` is what lies between the passes; the
sort of the skips leaves equal keys in any order.  Of the forward actions each is one
fate of an operator: dropped (`Drop`), replaced by an earlier variable (`Merge`),
recorded again, or start of a cumulative sum.  `WithSkip` and `Reserved` are in all of
them, as a conditional skip may come before any operator.

That matching may exchange the operands of sums and products is right if those commute,
which `CommutesAssumption` says.

Five properties, one for each thing that can go wrong.  `OperandsRecorded`, that no
operand was left out, is the assertions of `record_pv`, `record_vv` and `record_csum`,
which release builds drop.  `MergedAgree`: two variables that become one are equal on
every valuation that satisfies the instructions, and not only at one point.
`OutputPlayable`: the output is `WellFormed`, as `Sweep` assumes.  `SameFunction`: played
from any point along any direction, with any garbage in the coefficients that skips leave
alone, both recordings give the same values, derivatives and comparisons.

### TapeInner, TapeInnerOps, ArraySweep

`TapeInner` has the values, `ScalarMode`, `ArrayMode` and `ScalarIntrusive`, and the
operators and functions in each mode: the element by element result, the scalar
that an intrusive scalar adds up, and conditional expressions with conditions of
arrays.  `TapeInnerOps` has forward and reverse, orders 0 and 1, of `sum_vec`,
`conc_vec`, `make_vec`, `unpack_vec` and `pack_vec`, with the cases of each for
coefficients and partials that are scalars.

`ArraySweep` is `Sweep` over them.  What it leaves out, the layout of the vectors
and optimized operators, `Sweep` has; what it adds are shapes, and the steps of a
reverse sweep are finer: one operand at a time, since what an operand's partial
becomes depends on what it is.  `Given(k, n)` is what a caller may pass for a
variable of shape `n`: its direction or its weight may be a scalar that stands for
an array.  `ShapesKept` says that every coefficient has, or stands for, the shape
of its variable, and that the partial of a scalar stays intrusive to the end;
`ImplementsDerivatives` takes arrays apart into their elements and compares with
the `Derivatives` of the function of those.

### ThreadAlloc, PodVector

`ThreadAlloc` has the pool of every thread: the lists by index (thread and
capacity), the counts, the blocks; and `get_memory`, `return_memory`,
`free_available` and `free_all` as operators on it.  `PodVector` has the actions: the
operations of vectors by the threads running, and those of the program between,
entering and leaving parallel mode.  Blocks have contents: a block is
returned and given out again with what was in it.  A thread works on its own
vectors in parallel mode, and with all of them else.

`Vectors`, which it implements, has sequences and no memory.

## 3. What is checked

| Run | Bounds | Distinct states | Result |
|---|---|---|---|
| `tape_link` | 2 threads, 2 objects, vectors of 1 and 2, identifiers up to 7, 4 variables a recording | 79,357 | passes |
| `tape_link_unrestricted` | the same, `parallel_ad` called at any time | | finding 1 |
| `tape_wrapper` | 3 wrappers, 3 addresses, the integers modulo 3, `+` and `-` | 11,074 | passes |
| `wrapper_increment` | the same, `++` on any contents | | finding 2 |
| `recording` | 2 objects, 1 independent, modulo 3, every operator (of conditional expressions `<`, `<=` and `==`), 1 operation a recording, or 2 of `+`, `sin` and `<` | 17,912 | passes |
| `sweep` | 6 tapes, modulo 3; one with 4 comparisons, counts 0 and 2 | 169,241 | passes |
| `sweep_untraced` | 1 tape | | finding 3 |
| `optimize` | 11,678 initial states: tapes of 3 sums; of 2 products, differences, sines and comparisons and a quotient; of up to 5 operators with 1 or 2 conditional expressions; 2 hash codes | 167,062 | passes |
| `optimize_nested` | 1 tape | | finding 4 |
| `array_sweep` | 3 tapes, arrays of 2 to 4 elements and scalars, modulo 3 | 43,575 | passes |
| `array_mixed` | 1 tape | | finding 5 |
| `pod_vector` | 2 threads, 2 vectors of up to 3 elements, 2 capacities, 3 addresses | 98,400 | passes |

`recording` is of `Playback`, hence of the recorder and the player together.

### Why the bounds suffice

* Two threads are the fewest that can share an identifier, and identifiers up to
  7 give each thread two recordings before it runs out; a third is refused, as
  by the code's check.  Objects outlive recordings in every combination.
* Three wrappers let a result alias neither, one or both of its operands; three
  addresses let each own one.
* Modulo 3 the numbers 0, 1 and another are distinct, as the shortcuts tell them
  apart, and there are fewer hash codes than numbers, so parameters meet in the
  hash table.  One operation per recording tries every operator on every kind of
  operands; conditional expressions with `>=` and `>` are recorded by the same code as the
  three that the run has.  The number of recordings is not bounded, so the table is left in
  every state it can be; recordings of two operations share parameters within one
  and with a stale entry, and have instructions behind an auxiliary variable and behind
  one without a result.  `VIEW` leaves out `f` and
  `play`, which only `Dependent` writes and no operation reads: every property about
  them is about the step that writes them.
* The tapes of `MCSweep` have between them every operator in its kinds of
  operands, dependents that are one variable or an independent one, a skip of each
  branch of a conditional expression, a sum that is skipped, and a sum with
  operators after it.  Points and directions are all those modulo 3, and calls
  come in any order and number.  Their values are tables: `Exp`, `Log`, `Sin` and
  `Cos` need not be functions of analysis, as the chain rule holds for any
  operator whose formula uses the value, the auxiliary value and the operands.
* The tapes of `MCOptimizer` are all of a few operators on all operands.  Three sums are
  the fewest in which one is part of a sum that is itself part of one, or is used
  twice; hash codes meet in the table since there are two; a variable matches, by its
  operands in either order, before and after something else took its entry.  Conditional
  expressions skip one variable, several, and one that another conditional
  expression skips as well; the tapes with two of them have the inner one used once
  (`InnerUsedOnce`), for otherwise finding 4 shows.  No tape is long enough for a comparison
  right after a variable that is merged and skipped: the comparison would clear the mark
  that it was merged (`optimize.hpp:2305`), and the skip would name operator 0, which
  `OutputPlayable` rejects.
* The tapes of `MCArraySweep` have products, quotients and differences of arrays, of
  an array and a scalar on either side, and of scalars; conditional expressions
  whose condition and alternatives are arrays and scalars; every atomic function;
  and parameters among their operands.  The directions and weights given span all
  there are, so that an operator that is linear and right on them is right.
* Two vectors and two threads are the fewest for a block to be returned by one
  and given out to another; three addresses leave one to be chosen; lengths of up
  to 3 over capacities of 1 and 3 have vectors that grow within their block, out
  of it, and not at all.
* Objects, wrappers and addresses are interchangeable, hence `SYMMETRY`.

Each property has a mutant, an operator beside the one it replaces with a
plausible slip in it (an entry left out, a flag not cleared, an argument not
counted), under which the run finds the property violated.

### Findings

1. `parallel_ad` refuses to run while the *calling* thread records; it takes the
   tape of a recording another thread left open, whose handle then dangles.
2. `++` on a boxed double has no effect (`--` has).
3. `Reverse` over a tape with cumulative sums or conditional skips loses its place
   in the arguments unless a text trace is written: the corrections are compiled
   out, since `tape.hpp` always defines `CL_TAPE_TRACE_ENABLED`.
4. A conditional expression that another needs for one outcome, and a further operator
   for both, still hands that outcome on to its own alternatives when the tape is optimized.
   They are skipped where they are needed, and the optimized function is wrong.
5. The partial of a scalar that was combined with an array gets one term, where it
   should get one for each element, if the partial of the array is a scalar that
   stands for equal elements, as reverse of `sum_vec` leaves it.

## 4. What is proved

For every number of threads, objects, wrappers, addresses and variables, every
set of numbers and every well-formed tape:

| Theorem | Assumes | Argument |
|---|---|---|
| `TapeLink_proofs`: `TypeCorrect`, `IdsKeepThreadsApart`, `VariablesStayLive`, `HandlesKeepTapes`, `IdleRecordersEmpty`, `IdsStayFresh` | `KeepsRestriction` | `LinkInv` is inductive |
| `TapeLink_proofs`: `SessionsImplemented` | the same | every step under `LinkInv` is one of the sessions' or a stutter |
| `TapeWrapper_proofs`: `OwnershipExclusive`, `TypeCorrect` | | `OwnerInv` is inductive |
| `TapeWrapper_proofs`: `OnlyTargetsLost` | | what each step does to the set of owned addresses |
| `TapeWrapper_proofs`: `NativeImplemented` | `IncrementsPlain`, `DependentsBoxed` | every step under `OwnerInv` is the native one |
| `Playback_proofs`: `TypeCorrect`, `TapesFaithful`, `ValuesOfVariablesAgree`, `FunctionsFaithful` | `ArithmeticAssumption` | `IInv` is inductive |
| `Playback_proofs`: `FunctionsImplemented` | the same | every step under `IInv` is the abstract one |
| `Playback_proofs`: `TapesPlayable` | the same | the vectors lay out the recording, instruction by instruction (an invariant beside `IInv`) |
| `Playback_proofs`: `RecordingsPlayBack` | the same | up to every operator the player has the cursor and the values the recorder had (`StateAt`), by induction over the tape |
| `Sweep_proofs`: `CursorStaysAligned` | `Traced`; tapes are well formed | `FlowInv` is inductive |
| `Sweep_proofs`: `CoefficientsSolveTape` | tapes are well formed | `SolveInv` is inductive |
| `Sweep_proofs`: `TypeCorrect` | `Traced`; the same | `TypeInv` is inductive |
| `Sweep_proofs`: `ChangesAreCounted` | tapes are well formed | `CountInv` is inductive |
| `Sweep_proofs`: `SweepsImplementDerivatives` | `Traced`, `Ring`, `SkipsHarmless` of every tape | every step under `SweepsInv` is one of the derivatives' or a stutter |
| `ArraySweep_proofs`: `TypeCorrect`, `ShapesStay` | tapes are well formed | shapes of results follow from shapes of operands, in both directions |
| `PodVector_proofs`: `BlocksStayApart`, `NothingIsLost`, `ObjectsStayLive`, `CountsAreExact` | | `PodInv` is inductive |
| `PodVector_proofs`: `FreeAllSays` | | what `free_all` does to a pool that `PodInv` describes |
| `PodVector_proofs`: `TypeCorrect` | | `PodInv` says what a pool has, and every function keeps it plain, with nothing else in it |
| `PodVector_proofs`: `VectorsImplemented` | | every step under it is one of the vectors' or a stutter |
| `Optimizer_proofs`: `InvariantKept`, `TypeCorrect`, `OperandsStayRecorded`, `MergedStayEqual` | tapes are well formed; `CommutesAssumption` | `IInv` is inductive |
| `Optimizer_proofs`: `OutputStaysPlayable` | the same; the output has no conditional skip | the new recording is well formed but for its end at every step (`PlayInv`, inductive with `IInv`) |
| `Optimizer_proofs`: `FunctionKept` | the same; `Ring`; the output has no conditional skip | at every step, whatever both recordings compute from the same point, a variable has its value and slope where it is computed now, and the comparisons so far say the same (`Agrees`) |
| `Optimizer_proofs`: `NoSkipsPut` | the same; the option not to skip, or no conditional expression | no variable is `cexp_connected` (`Skiplessly`) |

`TapesPlayable` joins two of them: the tapes the recorder leaves are such as the
theorems about `Sweep` assume.  `RecordingsPlayBack` says that a pass over them gives, at
every point, the function the program computed.

The invariants are stronger than what they prove because

* `VariablesAreLive` needs every identifier on an object to be at most the
  current one of its thread (`IdsAreFresh`), which needs that a thread without
  a tape has saved its last (`HandleFollowsTable`), and that threads have different
  residues (`IdsSeparateThreads`);
* `TapeFaithful` needs that the values of variables agree with their meaning
  (`ValuesAgree`), since a shortcut looks at a value, and that the recorder is empty
  between recordings;
* `PlaysBack` needs, beside what `TapesPlayable` needs, that the first addresses are those
  of the independent variables through the whole recording (`Inputs`);
* `CursorAligned` needs where exactly the cursor is between two steps of either
  sweep (behind the arguments of a sum or skip when going forward, at them when
  going back), and that what is skipped has a result, as a skipped skip would not
  be corrected for;
* `OrdersSolveTape` is about the time between sweeps: during one, the orders
  below `p` stay solved, since no operator writes them, and those from `p` to `q`
  are solved up to the cursor, since operators write results in the order of
  their addresses and read only smaller ones.  A zero-order sweep may set the
  flags, which only weakens what is to be shown, and clears them only at its
  start, when nothing is claimed of its orders.

`SweepsImplementDerivatives` is the theorem the library exists for: `Forward` and
`Reverse` compute the derivatives of the function of the tape.  It needs (`SweepsInv`)

* that whatever is skipped, forward or in reverse, is skipped by a conditional skip that
  would still skip it at the point of the coefficients (`FlagsInv`), although flags
  outlive the sweep that set them;
* then, with `SkipsHarmless`, that the coefficients of the variables that matter solve
  the tape at that point (`SolveInv`) and so are the values and the derivatives of the
  chain rule (lemmas `LiveValues` and `LiveDerivatives`, by induction over the tape);
* for `Reverse`, that at every step the sum, over the variables not yet passed, of partial
  times derivative along a unit vector is the weighted gradient (`AdjointInv`): each
  operator moves its partial to its operands and changes nothing of that sum
  (`Ring` is for this), skipped operators and auxiliary variables have none to move,
  and at the end only the independent variables are left.

Inductions over the tape are on the least address where a claim fails, and folds are
unfolded one element at a time, as rules of induction with an operator for a parameter
are out of the provers' reach.

For the pools, that blocks are apart needs that an available block carries the
index of its list, that it is held by no vector, and that a vector's block has the
capacity the vector thinks it has; that objects live, that available blocks are bare.
That counts are exact needs both lists of every thread exactly as the blocks are
(`Counted`): in use what is held and has the thread in its index, available what the
lists say.  A count is a sum over a set of blocks, which is finite since every step
takes at most one; the sum of the library is unfolded once, to a sum in any order
(`SumRemove`), and the bytes `free_available` adds up by capacity are the sum over the
union of the lists (`BytesAreSizes`).  `FreeAllTells` then holds since sizes are
positive: a count is 0 only if nothing is in use.

For the optimizer, that operands are recorded needs (`IInv`, conjunct by conjunct)

* that a variable that is connected at all has operands that are (`ConnInv`), and that
  only a sum uses what is `csum_connected`, facts the first pass establishes from behind;
* that what the second pass has passed, and did not leave out or gather, has a new
  address, smaller than that of anything recorded later (`FreshInv`), and that
  new addresses number the new recording without a gap (`RecInv`);
* that an entry of the hash table is a variable that was recorded for an arithmetic
  operator, or 0 (`HashInv`): then a match is equal to what it replaces, since the operands
  are equal by `MergedAgree` and the operators are the same;
* that the work stacks of `record_csum` hold only sums that will be part of the one
  recorded (`CsumInv`), and where in the recording the conditional expressions
  are (`PlaceInv`), so that `cskip_info_index` never passes zero.

That the output is playable, `OutputStaysPlayable`, needs of every prefix of the new
recording what `WellFormed` says of the whole but for its end (`Begun`), that new
addresses are those of results and never that of `BeginOp` (`Numbered`), and that the
independent variables are recorded first, without a gap (`Counts`).  An operator that
is recorded again has the words it had, with new addresses (`Copies`); a cumulative sum
has the words `record_csum` puts (`CopiesSum`); with either the prefix stays well formed.
The hypothesis that no conditional skip is in the output is one that `NoSkipsPut` gives
for every recording if the program asks for none, and for every recording without
conditional expressions if it does not.

That the function is kept, `FunctionKept`, needs two recordings side by side.  A play
without skips is a `Run`: values and slopes of all variables such that each operator's
result is what its rule says (`Ran`), and what the comparisons said up to each operator.
`Agrees` is about every run of the recording and every run of what is recorded so far that
start from the same independent variables, and not about what a player does, so that a step
that appends one operator keeps what was known (`RunBegun`).  Then

* an operator that is recorded again has operands of equal values, so computes the same
  (`CopySame`);
* one that is matched has the operands of its match, or the same two in the other order,
  where `Ring` says that the value and the slope are equal too (`TwinSame`);
* while a sum is gathered, the parameter so far, plus what is on the stacks of operators
  and of variables to add, minus what is on the stack of variables to subtract, is the
  result of the sum (`SumInv`): each operator that is taken off is replaced by its operands
  with their signs (`OperatorAmount`), and `forward_csum_op` adds up what is left, which is
  popped in reverse (`SumComputes`, `PoppedTotal`).  Regrouping is where `Ring` is needed,
  and where floating point would differ.

At the end the dependent variables have addresses of equal values, and playing is the one run
there is (`PlayedFold`, `PlayedRuns`).

Only model-checked: `CallsReturn`, as liveness and `ENABLED` are out of the prover's
reach; `ImplementsDerivatives` of `ArraySweep`, as `Sweep`'s but with shapes on
top; and `SameFunction` and `OutputPlayable` of outputs with conditional skips.  There
neither is true of every tape: the first is what finding 4 is about, the second fails of
tapes longer than those of the run (a comparison right after a merged variable clears its
mark, `optimize.hpp:2305`).

## 5. What is not modelled

* NaN, infinities and the sign of zero: numbers are a totally ordered set with
  the laws of `ArithmeticAssumption`; `n / 0` is a number, 0 in the runs.
* Of the optimizer: VecAD, user atomics and discrete functions; sums of parameters as
  floating point has them, where gathering changes the rounding; a second call of
  `optimize`, which has no case for what the first one wrote.
* VecAD, discrete functions, `PriOp`, `abort_op_index`.
* Orders above 1, several directions, `capacity_order`.
* Of arrays: comparisons and `pow`, the auxiliary results of `sin` and its like,
  and recording over arrays: tapes are given.  Of atomic functions:
  `atomic_base::operator()`, which records a call, the states of the sweeps between
  `UserOp` and `UserOp`, `UsrrpOp`, and sparsity.
* Of the pools: `create_array` and `delete_array`, a pair of loops over `get_memory` and
  `return_memory`; `inuse` and `available`; `omp_alloc`, the deprecated interface.
* The serializer, but for its effect on the cursor.
* `tape_ref`, complex numbers, traits and conversions: views and overloads that
  forward to modelled operators.
* Reading and writing of statics by unsynchronised threads: operations are atomic,
  since each thread has entries of its own.
* The other math functions (`math/`, `local/erf.hpp`, `tan_op.hpp` and so on): formulas,
  with the control of the ones in `Taylor`.

## 6. Plan

Done: lifecycle, wrapper, recorder, sweeps, the composition of recorder and
player, arrays and atomic functions, the pools, each with its abstract specification,
its runs and the proof of its main invariants; and the optimizer, with its runs and the
proof of its invariants.

Next, by importance:

1. **Second order.**  `Reverse(2, w)` for both sizes of `w`, with the assignment of weights where the
   code asks whether it should add; `capacity_order` between calls.
2. **VecAD.**  Loads and stores whose index is a variable; `var_by_load_op` left by
   order zero for higher orders.
3. **Calls of atomic functions.**  `UserOp`, arguments and results on the tape, and the
   sweeps' `user_state` through it, also when skipped.
4. **Proofs.**  `ImplementsDerivatives` over arrays; that the tapes the optimizer leaves have
   `SkipsHarmless`, where finding 4 does not show.
