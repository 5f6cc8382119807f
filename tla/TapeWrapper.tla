---------------------------- MODULE TapeWrapper -----------------------------
(***************************************************************************)
(* tape_wrapper<double>, the double of TapeScript with AD enabled          *)
(* (cl/tape/impl/double.hpp).  Its 64 bits are either a double or, under   *)
(* the mask of a NaN, a pointer to an AD object on the heap that this      *)
(* wrapper owns.  The pointer appears when a double meets the tape, and    *)
(* every constructor, assignment and operator has a case for each of the   *)
(* two contents of each operand.                                           *)
(*                                                                         *)
(* The doubles of the program are taken to be no NaN that carries the      *)
(* pointer mask, so Num and Addr are disjoint.  Arithmetic is a parameter: *)
(* Apply on numbers is that of AD objects, and of native doubles where     *)
(* both operands are plain.                                                *)
(***************************************************************************)
EXTENDS Naturals

CONSTANTS
  Wrapper,         (* The tape_wrapper objects, temporaries left out.      *)
  Addr,            (* The addresses operator new may return.               *)
  Num,             (* The values of a native double.                       *)
  Zero, One,
  Plus, Minus,     (* The operators of ++ and --.                          *)
  Op,              (* The binary operators.                                *)
  Apply(_, _, _),  (* Apply(op, m, n): the number m op n.                  *)
  IncrementsPlain, (* The program uses ++ on native contents only,         *)
  DependentsBoxed, (* and gives tape_function no dependent that is native. *)
  Free             (* The content of an address that is not allocated.     *)

Number == [val : Num, var : BOOLEAN]

Plain(c) == [val |-> c, var |-> FALSE]

ASSUME NumAssumption ==
  /\ Zero \in Num /\ One \in Num
  /\ Num \cap (Addr \union Wrapper) = {}
ASSUME OpAssumption == Plus \in Op /\ Minus \in Op
ASSUME FreeAssumption == Free \notin Number
ASSUME ProgramAssumption ==
  IncrementsPlain \in BOOLEAN /\ DependentsBoxed \in BOOLEAN
ASSUME ApplyAssumption ==
  \A op \in Op :
    /\ \A m, n \in Number : Apply(op, m, n) \in Number
    /\ \A c, d \in Num : ~Apply(op, Plain(c), Plain(d)).var

VARIABLES
  live,    (* The wrappers constructed and not yet destroyed.              *)
  value_,  (* value_ of each wrapper: a double, or the address it owns.    *)
  heap,    (* The AD object at each address, or Free.                      *)
  recording, (* The tape is recording.                                     *)
  call     (* The last call of the program, for the properties only.       *)

vars == <<live, value_, heap, recording, call>>

(* Type correctness. *)
TypeOK ==
  /\ live \subseteq Wrapper
  /\ value_ \in [Wrapper -> Num \union Addr]
  /\ heap \in [Addr -> Number \union {Free}]
  /\ recording \in BOOLEAN

-----------------------------------------------------------------------------

is_ptr(w) == value_[w] \in Addr

(* What w holds: tdouble_() or double_(). *)
Read(w) == IF is_ptr(w) THEN heap[value_[w]] ELSE Plain(value_[w])

(* double_value::alloc_: new AD object n, its address put into w. *)
Alloc(w, n) ==
  \E a \in Addr :
    /\ heap[a] = Free
    /\ heap' = [heap EXCEPT ![a] = n]
    /\ value_' = [value_ EXCEPT ![w] = a]

(* The bits of w become the double c. *)
SetDouble(w, c) ==
  /\ value_' = [value_ EXCEPT ![w] = c]
  /\ UNCHANGED heap

(* The AD object of w becomes n. *)
SetBoxed(w, n) ==
  /\ heap' = [heap EXCEPT ![value_[w]] = n]
  /\ UNCHANGED value_

(* Mutant of AllocValue: the bits are copied, the AD object is not. *)
AllocValueShared(w, a) == SetDouble(w, value_[a])

(* alloc_value_: w, which owns nothing, gets a copy of what a holds. *)
AllocValue(w, a) ==
  IF is_ptr(a) THEN Alloc(w, heap[value_[a]]) ELSE SetDouble(w, value_[a])

(* Mutant of PutResult: the AD object itself is written to the bits. *)
PutResultUnboxed(w, boxed, n) ==
  IF boxed THEN Alloc(w, n) ELSE SetDouble(w, n)

(* The result of an expression n of which some operand is boxed or none    *)
(* is, in the bits of w.                                                   *)
PutResult(w, boxed, n) ==
  IF boxed THEN Alloc(w, n) ELSE SetDouble(w, n.val)

-----------------------------------------------------------------------------
(***************************************************************************)
(* Constructors and the destructor.                                        *)
(***************************************************************************)

Construct(w, c) ==
  /\ call' = <<"assign", w, c>>
  /\ w \notin live
  /\ live' = live \union {w}
  /\ SetDouble(w, c)
  /\ UNCHANGED recording

CopyConstruct(w, a) ==
  /\ call' = <<"assign", w, a>>
  /\ w \notin live
  /\ a \in live
  /\ live' = live \union {w}
  /\ AllocValue(w, a)
  /\ UNCHANGED recording

MoveConstruct(w, a) ==
  /\ call' = <<"move", w, a>>
  /\ w \notin live
  /\ a \in live
  /\ live' = live \union {w}
  /\ value_' = [value_ EXCEPT ![w] = value_[a], ![a] = Zero]
  /\ UNCHANGED <<heap, recording>>

(* w constructed from a op b, the result elided into it. *)
ResultConstruct(w, op, a, b) ==
  /\ call' = <<"result", w, op, a, b>>
  /\ w \notin live
  /\ {a, b} \subseteq live
  /\ live' = live \union {w}
  /\ PutResult(w, is_ptr(a) \/ is_ptr(b), Apply(op, Read(a), Read(b)))
  /\ UNCHANGED recording

(* Mutant of Destroy: the AD object is left allocated. *)
DestroyKeeping(w) ==
  /\ call' = <<"destroy", w>>
  /\ w \in live
  /\ live' = live \ {w}
  /\ value_' = IF is_ptr(w) THEN [value_ EXCEPT ![w] = Zero] ELSE value_
  /\ UNCHANGED <<heap, recording>>

Destroy(w) ==
  /\ call' = <<"destroy", w>>
  /\ w \in live
  /\ live' = live \ {w}
  /\ heap' = IF is_ptr(w) THEN [heap EXCEPT ![value_[w]] = Free] ELSE heap
  /\ value_' = IF is_ptr(w) THEN [value_ EXCEPT ![w] = Zero] ELSE value_
  /\ UNCHANGED recording

-----------------------------------------------------------------------------
(***************************************************************************)
(* Assignments.                                                            *)
(***************************************************************************)

CopyAssign(w, a) ==
  /\ call' = <<"assign", w, a>>
  /\ {w, a} \subseteq live
  /\ IF is_ptr(w) THEN SetBoxed(w, Read(a)) ELSE AllocValue(w, a)
  /\ UNCHANGED <<live, recording>>

(* value_ = ov.value_; ov.value_ = Inner(): what w owned is not freed, and *)
(* a wrapper moved to itself ends with a zero.                             *)
MoveAssign(w, a) ==
  /\ call' = <<"move", w, a>>
  /\ {w, a} \subseteq live
  /\ value_' = [value_ EXCEPT ![w] = value_[a], ![a] = Zero]
  /\ UNCHANGED <<live, heap, recording>>

(* w = a op b: the temporary is moved into w. *)
AssignResult(w, op, a, b) ==
  /\ call' = <<"result", w, op, a, b>>
  /\ {w, a, b} \subseteq live
  /\ PutResult(w, is_ptr(a) \/ is_ptr(b), Apply(op, Read(a), Read(b)))
  /\ UNCHANGED <<live, recording>>

(* w = c for a native double. *)
AssignDouble(w, c) ==
  /\ call' = <<"assign", w, c>>
  /\ w \in live
  /\ IF is_ptr(w) THEN SetBoxed(w, Plain(c)) ELSE SetDouble(w, c)
  /\ UNCHANGED <<live, recording>>

(* Mutant of OpAssignNumber: the double of w is not boxed for a boxed r. *)
OpAssignNumberNative(w, op, boxed, n) ==
  IF is_ptr(w) THEN SetBoxed(w, Apply(op, Read(w), n))
               ELSE SetDouble(w, Apply(op, Read(w), n).val)

(* w op= r, r being boxed or not: the double of w is boxed first when only *)
(* r is.                                                                   *)
OpAssignNumber(w, op, boxed, n) ==
  IF is_ptr(w) THEN SetBoxed(w, Apply(op, Read(w), n))
               ELSE PutResult(w, boxed, Apply(op, Read(w), n))

OpAssign(w, op, a) ==
  /\ call' = <<"result", w, op, w, a>>
  /\ {w, a} \subseteq live
  /\ OpAssignNumber(w, op, is_ptr(a), Read(a))
  /\ UNCHANGED <<live, recording>>

OpAssignDouble(w, op, c) ==
  /\ call' = <<"result", w, op, w, c>>
  /\ w \in live
  /\ OpAssignNumber(w, op, FALSE, Plain(c))
  /\ UNCHANGED <<live, recording>>

(* ++w adds to the bits as to a double; under the pointer mask they are a  *)
(* NaN, which the addition leaves as it is.                                *)
Increment(w) ==
  /\ call' = <<"result", w, Plus, w, One>>
  /\ w \in live
  /\ IncrementsPlain => ~is_ptr(w)
  /\ IF is_ptr(w) THEN UNCHANGED <<value_, heap>>
                  ELSE SetDouble(w, Apply(Plus, Read(w), Plain(One)).val)
  /\ UNCHANGED <<live, recording>>

Decrement(w) == OpAssignDouble(w, Minus, One)

-----------------------------------------------------------------------------
(***************************************************************************)
(* The tape.                                                               *)
(***************************************************************************)

(* tapescript::value on an element of a vector given to the tape: a double *)
(* is boxed.                                                               *)
Box(w) ==
  /\ w \in live
  /\ ~is_ptr(w)
  /\ call' = <<"assign", w, w>>
  /\ Alloc(w, Read(w))
  /\ UNCHANGED <<live, recording>>

(* tape_start(x), the elements S of x being boxed: their AD objects become *)
(* the independent variables.                                              *)
Independent(S) ==
  /\ S \subseteq live /\ S # {}
  /\ \A w \in S : is_ptr(w)
  /\ ~recording
  /\ recording' = TRUE
  /\ call' = <<"Independent", S>>
  /\ heap' = [a \in Addr |-> IF \E w \in S : value_[w] = a
                               THEN [heap[a] EXCEPT !.var = TRUE]
                               ELSE heap[a]]
  /\ UNCHANGED <<live, value_>>

(* What tape_function sees of its dependent y, through a const adapter: the *)
(* AD object, or an empty one for a native double.                         *)
cvalue(y) == IF is_ptr(y) THEN heap[value_[y]] ELSE Plain(Zero)

(* tape_function(x, y): the recording ends, and no AD object is a variable *)
(* any more.                                                               *)
TapeFunction(y) ==
  /\ y \in live
  /\ DependentsBoxed => is_ptr(y)
  /\ recording
  /\ recording' = FALSE
  /\ call' = <<"tape_function", y, cvalue(y)>>
  /\ heap' = [a \in Addr |-> IF heap[a] = Free THEN Free
                             ELSE Plain(heap[a].val)]
  /\ UNCHANGED <<live, value_>>

-----------------------------------------------------------------------------

Init ==
  /\ live = {}
  /\ value_ = [w \in Wrapper |-> Zero]
  /\ heap = [a \in Addr |-> Free]
  /\ recording = FALSE
  /\ call = <<>>

Step(w) ==
  \/ \E c \in Num : Construct(w, c) \/ AssignDouble(w, c)
  \/ \E a \in Wrapper :
       CopyConstruct(w, a) \/ MoveConstruct(w, a) \/ CopyAssign(w, a) \/ MoveAssign(w, a)
  \/ \E op \in Op, a, b \in Wrapper :
       ResultConstruct(w, op, a, b) \/ AssignResult(w, op, a, b)
  \/ \E op \in Op, a \in Wrapper : OpAssign(w, op, a)
  \/ \E op \in Op, c \in Num : OpAssignDouble(w, op, c)
  \/ Destroy(w) \/ Increment(w) \/ Decrement(w) \/ Box(w) \/ TapeFunction(w)

Next ==
  \/ \E w \in Wrapper : Step(w)
  \/ \E S \in SUBSET Wrapper : Independent(S)

Spec == Init /\ [][Next]_vars

-----------------------------------------------------------------------------
(***************************************************************************)
(* Properties.                                                             *)
(***************************************************************************)

(* Ownership is exclusive: whatever was copied, moved, assigned and        *)
(* destroyed, a wrapper that holds an address is alive, an AD object is    *)
(* allocated there, and no other wrapper holds the same address.  So no    *)
(* AD object is read after it is freed, or freed twice.                    *)
ExclusiveOwner ==
  \A w \in Wrapper : is_ptr(w) =>
    /\ w \in live
    /\ heap[value_[w]] # Free
    /\ \A v \in Wrapper : value_[v] = value_[w] => v = w

(* The inductive invariant. *)
OwnerInv == TypeOK /\ ExclusiveOwner

Owned(a) == \E w \in Wrapper : value_[w] = a

(* An AD object is lost, allocated and without a wrapper that will free    *)
(* it, only by a move or the assignment of a result, and then it is the    *)
(* one their target owned: no constructor, copy, compound assignment or    *)
(* destructor loses one, nor any operation that of a third wrapper.        *)
LosesOnlyTarget ==
  [][\A a \in Addr : Owned(a) /\ ~Owned(a)' /\ heap'[a] # Free =>
       call'[1] \in {"move", "result"} /\ value_[call'[2]] = a]_vars

(* The numbers of the abstract doubles: what is read from the wrappers. *)
NativeNumber ==
  [w \in Wrapper |-> IF w \in live THEN Read(w) ELSE Plain(Zero)]

Native == INSTANCE NativeDouble WITH Name <- Wrapper, number <- NativeNumber

(* The wrappers are doubles: each operation gives the result it has on     *)
(* native doubles, on the wrappers it names and on no other, whichever of  *)
(* its operands are boxed.                                                 *)
ImplementsNative == Native!Spec
=============================================================================
