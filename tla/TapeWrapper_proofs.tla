------------------------- MODULE TapeWrapper_proofs -------------------------
(***************************************************************************)
(* TapeWrapper for any number of wrappers and addresses and any            *)
(* arithmetic: ownership is exclusive, and the wrappers implement the      *)
(* native doubles they replace.                                            *)
(***************************************************************************)
EXTENDS TapeWrapper, TLAPS

(* What every constructor, assignment and operator does: w gets the number *)
(* n, in a new AD object, in its bits, or in the AD object it owns.        *)
Puts(w, n) ==
  \/ Alloc(w, n)
  \/ \E c \in Num : n = Plain(c) /\ SetDouble(w, c)
  \/ w \in live /\ is_ptr(w) /\ SetBoxed(w, n)

(* A number that is no variable is a plain double. *)
LEMMA PlainNumber ==
  /\ \A c \in Num : Plain(c) \in Number
  /\ \A n \in Number : n.val \in Num /\ (~n.var => n = Plain(n.val))
<1>1. \A c \in Num : Plain(c) \in Number
  BY DEF Plain, Number
<1>2. ASSUME NEW n \in Number
      PROVE  n.val \in Num /\ (~n.var => n = Plain(n.val))
  <2>1. n.val \in Num /\ n.var \in BOOLEAN /\ n = [val |-> n.val, var |-> n.var]
    BY DEF Number
  <2>2. ~n.var => n.var = FALSE
    BY <2>1
  <2>3. QED
    BY <2>1, <2>2 DEF Plain
<1>3. QED
  BY <1>1, <1>2

(* What a live wrapper holds is a number. *)
LEMMA ReadNumber ==
  ASSUME OwnerInv, NEW w \in live
  PROVE  /\ w \in Wrapper
         /\ Read(w) \in Number
         /\ is_ptr(w) => Read(w) = heap[value_[w]] /\ value_[w] \in Addr
         /\ ~is_ptr(w) => Read(w) = Plain(value_[w]) /\ value_[w] \in Num
  BY PlainNumber DEF OwnerInv, TypeOK, ExclusiveOwner, Read, is_ptr

(* Putting a number keeps ownership exclusive. *)
LEMMA PutsInv ==
  ASSUME OwnerInv, NEW w \in Wrapper, NEW n \in Number, Puts(w, n),
         live' = live \union {w}, UNCHANGED recording
  PROVE  OwnerInv'
<1>1. CASE Alloc(w, n)
  <2>1. PICK a \in Addr : /\ heap[a] = Free
                          /\ heap' = [heap EXCEPT ![a] = n]
                          /\ value_' = [value_ EXCEPT ![w] = a]
    BY <1>1 DEF Alloc
  <2>2. TypeOK'
    BY <2>1 DEF OwnerInv, TypeOK
  <2>3. ExclusiveOwner'
    BY <2>1, FreeAssumption DEF OwnerInv, TypeOK, ExclusiveOwner, is_ptr
  <2>4. QED
    BY <2>2, <2>3 DEF OwnerInv
<1>2. CASE \E c \in Num : n = Plain(c) /\ SetDouble(w, c)
  BY <1>2, NumAssumption
     DEF SetDouble, OwnerInv, TypeOK, ExclusiveOwner, is_ptr
<1>3. CASE w \in live /\ is_ptr(w) /\ SetBoxed(w, n)
  BY <1>3, FreeAssumption
     DEF SetBoxed, OwnerInv, TypeOK, ExclusiveOwner, is_ptr
<1>4. QED
  BY <1>1, <1>2, <1>3 DEF Puts

(* It changes the number of w and of no other wrapper. *)
LEMMA PutsNumber ==
  ASSUME OwnerInv, NEW w \in Wrapper, NEW n \in Number, Puts(w, n),
         live' = live \union {w}
  PROVE  NativeNumber' = [NativeNumber EXCEPT ![w] = n]
<1>1. CASE Alloc(w, n)
  <2>1. PICK a \in Addr : /\ heap[a] = Free
                          /\ heap' = [heap EXCEPT ![a] = n]
                          /\ value_' = [value_ EXCEPT ![w] = a]
    BY <1>1 DEF Alloc
  <2>2. Read(w)' = n
    BY <2>1 DEF OwnerInv, TypeOK, Read, is_ptr
  <2>3. ASSUME NEW v \in live, v # w
        PROVE  Read(v)' = Read(v)
    BY <2>1, <2>3, FreeAssumption
       DEF OwnerInv, TypeOK, ExclusiveOwner, Read, is_ptr
  <2>4. QED
    BY <2>2, <2>3 DEF NativeNumber
<1>2. ASSUME NEW c \in Num, n = Plain(c), SetDouble(w, c)
      PROVE  NativeNumber' = [NativeNumber EXCEPT ![w] = n]
  <2>1. Read(w)' = n
    BY <1>2, NumAssumption DEF SetDouble, OwnerInv, TypeOK, Read, is_ptr, Plain
  <2>2. ASSUME NEW v \in live, v # w
        PROVE  Read(v)' = Read(v)
    BY <1>2, <2>2 DEF SetDouble, OwnerInv, TypeOK, Read, is_ptr, Plain
  <2>3. QED
    BY <2>1, <2>2 DEF NativeNumber
<1>3. CASE w \in live /\ is_ptr(w) /\ SetBoxed(w, n)
  <2>1. Read(w)' = n
    BY <1>3 DEF SetBoxed, OwnerInv, TypeOK, Read, is_ptr
  <2>2. ASSUME NEW v \in live, v # w
        PROVE  Read(v)' = Read(v)
    BY <1>3, <2>2 DEF SetBoxed, OwnerInv, TypeOK, ExclusiveOwner, Read, is_ptr, Plain
  <2>3. QED
    BY <2>1, <2>2 DEF NativeNumber
<1>4. QED
  BY <1>1, <1>2, <1>3 DEF Puts

-----------------------------------------------------------------------------
(***************************************************************************)
(* Each operation puts the number native doubles would have.               *)
(***************************************************************************)

(* A result is boxed or plain as PutResult is told, and a plain result     *)
(* needs plain operands.                                                   *)
LEMMA PutResultPuts ==
  ASSUME NEW w \in Wrapper, NEW boxed \in BOOLEAN, NEW n \in Number,
         ~boxed => ~n.var, PutResult(w, boxed, n)
  PROVE  Puts(w, n)
<1>1. CASE boxed
  BY <1>1 DEF PutResult, Puts
<1>2. CASE ~boxed
  <2>1. n.val \in Num /\ n = Plain(n.val) /\ SetDouble(w, n.val)
    BY <1>2, PlainNumber DEF PutResult
  <2>2. QED
    BY <2>1 DEF Puts
<1>3. QED
  BY <1>1, <1>2

(* The operators on live wrappers. *)
LEMMA ApplyRead ==
  ASSUME OwnerInv, NEW op \in Op, NEW a \in live, NEW b \in live
  PROVE  /\ Apply(op, Read(a), Read(b)) \in Number
         /\ ~(is_ptr(a) \/ is_ptr(b)) => ~Apply(op, Read(a), Read(b)).var
<1>1. Read(a) \in Number /\ Read(b) \in Number
  BY ReadNumber
<1>2. ASSUME ~is_ptr(a), ~is_ptr(b)
      PROVE  ~Apply(op, Read(a), Read(b)).var
  <2>1. /\ value_[a] \in Num /\ Read(a) = Plain(value_[a])
        /\ value_[b] \in Num /\ Read(b) = Plain(value_[b])
    BY <1>2, ReadNumber
  <2>2. ~Apply(op, Plain(value_[a]), Plain(value_[b])).var
    BY <2>1, ApplyAssumption
  <2>3. QED
    BY <2>1, <2>2
<1>3. QED
  BY <1>1, <1>2, ApplyAssumption

LEMMA ApplyLiteral ==
  ASSUME OwnerInv, NEW op \in Op, NEW a \in live, NEW c \in Num
  PROVE  /\ Apply(op, Read(a), Plain(c)) \in Number
         /\ ~is_ptr(a) => ~Apply(op, Read(a), Plain(c)).var
<1>1. Read(a) \in Number /\ Plain(c) \in Number
  BY ReadNumber, PlainNumber
<1>2. ASSUME ~is_ptr(a)
      PROVE  ~Apply(op, Read(a), Plain(c)).var
  <2>1. value_[a] \in Num /\ Read(a) = Plain(value_[a])
    BY <1>2, ReadNumber
  <2>2. ~Apply(op, Plain(value_[a]), Plain(c)).var
    BY <2>1, ApplyAssumption
  <2>3. QED
    BY <2>1, <2>2
<1>3. QED
  BY <1>1, <1>2, ApplyAssumption

LEMMA CopyPuts ==
  ASSUME OwnerInv, NEW w \in Wrapper, NEW a \in live,
         CopyConstruct(w, a) \/ CopyAssign(w, a)
  PROVE  Puts(w, Read(a))
<1>1. ASSUME AllocValue(w, a)
      PROVE  Puts(w, Read(a))
  BY <1>1, ReadNumber DEF AllocValue, Puts
<1>2. QED
  BY <1>1 DEF CopyConstruct, CopyAssign, Puts

LEMMA ResultPuts ==
  ASSUME OwnerInv, NEW w \in Wrapper, NEW op \in Op, NEW a \in live, NEW b \in live,
         ResultConstruct(w, op, a, b) \/ AssignResult(w, op, a, b)
  PROVE  Puts(w, Apply(op, Read(a), Read(b)))
<1>1. PutResult(w, is_ptr(a) \/ is_ptr(b), Apply(op, Read(a), Read(b)))
  BY DEF ResultConstruct, AssignResult
<1>2. (is_ptr(a) \/ is_ptr(b)) \in BOOLEAN
  BY DEF is_ptr
<1>3. QED
  BY <1>1, <1>2, ApplyRead, PutResultPuts

LEMMA OpAssignPuts ==
  ASSUME OwnerInv, NEW w \in live, NEW op \in Op, NEW a \in live,
         OpAssign(w, op, a)
  PROVE  Puts(w, Apply(op, Read(w), Read(a)))
<1>1. CASE is_ptr(w)
  BY <1>1 DEF OpAssign, OpAssignNumber, Puts
<1>2. CASE ~is_ptr(w)
  <2>1. PutResult(w, is_ptr(a), Apply(op, Read(w), Read(a)))
    BY <1>2 DEF OpAssign, OpAssignNumber
  <2>2. is_ptr(a) \in BOOLEAN /\ w \in Wrapper
    BY ReadNumber DEF is_ptr
  <2>3. /\ Apply(op, Read(w), Read(a)) \in Number
        /\ ~is_ptr(a) => ~Apply(op, Read(w), Read(a)).var
    BY <1>2, ApplyRead
  <2>4. QED
    BY <2>1, <2>2, <2>3, PutResultPuts
<1>3. QED
  BY <1>1, <1>2

LEMMA OpAssignDoublePuts ==
  ASSUME OwnerInv, NEW w \in live, NEW op \in Op, NEW c \in Num,
         OpAssignDouble(w, op, c)
  PROVE  Puts(w, Apply(op, Read(w), Plain(c)))
<1>1. CASE is_ptr(w)
  BY <1>1 DEF OpAssignDouble, OpAssignNumber, Puts
<1>2. CASE ~is_ptr(w)
  <2>1. PutResult(w, FALSE, Apply(op, Read(w), Plain(c)))
    BY <1>2 DEF OpAssignDouble, OpAssignNumber
  <2>2. w \in Wrapper
    BY ReadNumber
  <2>3. QED
    BY <1>2, <2>1, <2>2, ApplyLiteral, PutResultPuts
<1>3. QED
  BY <1>1, <1>2

LEMMA IncrementPuts ==
  ASSUME OwnerInv, NEW w \in live, Increment(w), ~is_ptr(w)
  PROVE  Puts(w, Apply(Plus, Read(w), Plain(One)))
<1>1. ~is_ptr(w) /\ SetDouble(w, Apply(Plus, Read(w), Plain(One)).val)
  BY DEF Increment
<1>2. /\ Apply(Plus, Read(w), Plain(One)) \in Number
      /\ ~Apply(Plus, Read(w), Plain(One)).var
  BY <1>1, ApplyLiteral, OpAssumption, NumAssumption
<1>3. QED
  BY <1>1, <1>2, PlainNumber DEF Puts

-----------------------------------------------------------------------------
(***************************************************************************)
(* The operations that do more than put a number.                          *)
(***************************************************************************)

LEMMA MoveInv ==
  ASSUME OwnerInv, NEW w \in Wrapper, NEW a \in live,
         MoveConstruct(w, a) \/ MoveAssign(w, a)
  PROVE  OwnerInv'
<1>1. /\ value_' = [value_ EXCEPT ![w] = value_[a], ![a] = Zero]
      /\ heap' = heap
      /\ live' = live \union {w}
      /\ recording' = recording
  BY DEF MoveConstruct, MoveAssign
<1>2. Zero \in Num /\ Zero \notin Addr
  BY NumAssumption
<1>3. TypeOK'
  BY <1>1, <1>2, ReadNumber DEF OwnerInv, TypeOK
<1>4. ExclusiveOwner'
  BY <1>1, <1>2, ReadNumber DEF OwnerInv, TypeOK, ExclusiveOwner, is_ptr
<1>5. QED
  BY <1>3, <1>4 DEF OwnerInv

LEMMA MoveIsMove ==
  ASSUME OwnerInv, NEW w \in Wrapper, NEW a \in live,
         MoveConstruct(w, a) \/ MoveAssign(w, a)
  PROVE  Native!Move(w, a)
<1>1. /\ value_' = [value_ EXCEPT ![w] = value_[a], ![a] = Zero]
      /\ heap' = heap
      /\ live' = live \union {w}
      /\ recording' = recording
      /\ call' = <<"move", w, a>>
  BY DEF MoveConstruct, MoveAssign
<1>2. Zero \in Num /\ Zero \notin Addr /\ a \in Wrapper
  BY NumAssumption, ReadNumber
<1>3. Read(a)' = Plain(Zero)
  BY <1>1, <1>2 DEF OwnerInv, TypeOK, Read, is_ptr, Plain
<1>4. w # a => Read(w)' = Read(a)
  BY <1>1, <1>2 DEF OwnerInv, TypeOK, Read, is_ptr, Plain
<1>5. ASSUME NEW v \in live, v # w, v # a
      PROVE  Read(v)' = Read(v)
  BY <1>1, <1>5 DEF OwnerInv, TypeOK, Read, is_ptr, Plain
<1>6. NativeNumber[a] = Read(a)
  BY <1>2 DEF NativeNumber
<1>7. NativeNumber' = [NativeNumber EXCEPT ![w] = NativeNumber[a], ![a] = Plain(Zero)]
  BY <1>1, <1>2, <1>3, <1>4, <1>5, <1>6 DEF NativeNumber, Plain
<1>8. Plain(Zero) \in Native!Number
  BY <1>2, PlainNumber DEF Native!Number, Number
<1>9. QED
  BY <1>1, <1>7, <1>8 DEF Native!Move

LEMMA DestroyInv ==
  ASSUME OwnerInv, NEW w \in Wrapper, Destroy(w)
  PROVE  OwnerInv'
<1>1. TypeOK'
  BY NumAssumption DEF Destroy, OwnerInv, TypeOK, is_ptr
<1>2. ExclusiveOwner'
  <2>1. CASE is_ptr(w)
    BY <2>1, NumAssumption DEF Destroy, OwnerInv, TypeOK, ExclusiveOwner, is_ptr
  <2>2. CASE ~is_ptr(w)
    BY <2>2 DEF Destroy, OwnerInv, TypeOK, ExclusiveOwner, is_ptr
  <2>3. QED
    BY <2>1, <2>2
<1>3. QED
  BY <1>1, <1>2 DEF OwnerInv

LEMMA DestroyIsDestroy ==
  ASSUME OwnerInv, NEW w \in Wrapper, Destroy(w)
  PROVE  Native!Destroy(w)
<1>1. ASSUME NEW v \in live, v # w
      PROVE  Read(v)' = Read(v)
  BY <1>1 DEF Destroy, OwnerInv, TypeOK, ExclusiveOwner, Read, is_ptr, Plain
<1>2. live' = live \ {w}
  BY DEF Destroy
<1>3. NativeNumber' = [NativeNumber EXCEPT ![w] = Plain(Zero)]
  BY <1>1, <1>2 DEF NativeNumber, Plain
<1>4. QED
  BY <1>3 DEF Native!Destroy, Native!Plain, Plain, Destroy

LEMMA IndependentInv ==
  ASSUME OwnerInv, NEW S \in SUBSET Wrapper, Independent(S)
  PROVE  OwnerInv' /\ Native!Independent(S)
<1>1. /\ S \subseteq live /\ live' = live /\ value_' = value_
      /\ \A w \in S : is_ptr(w)
      /\ recording' = TRUE
  BY DEF Independent
<1>2. \A w \in S : heap[value_[w]] \in Number
  BY <1>1, ReadNumber
<1>3. \A n \in Number : [n EXCEPT !.var = TRUE] \in Number
  BY DEF Number
<1>4. ASSUME NEW a \in Addr
      PROVE  /\ heap'[a] \in Number \union {Free}
             /\ heap[a] # Free => heap'[a] # Free
  <2>1. CASE \E w \in S : value_[w] = a
    <3>1. heap[a] \in Number /\ heap'[a] = [heap[a] EXCEPT !.var = TRUE]
      BY <1>2, <2>1 DEF Independent
    <3>2. heap'[a] \in Number
      BY <1>3, <3>1
    <3>3. QED
      BY <3>2, FreeAssumption
  <2>2. CASE ~\E w \in S : value_[w] = a
    BY <2>2 DEF Independent, OwnerInv, TypeOK
  <2>3. QED
    BY <2>1, <2>2
<1>5. TypeOK'
  BY <1>1, <1>4 DEF Independent, OwnerInv, TypeOK
<1>6. ExclusiveOwner'
  BY <1>1, <1>4 DEF OwnerInv, ExclusiveOwner, is_ptr
<1>7. ASSUME NEW v \in Wrapper
      PROVE  NativeNumber'[v] = [NativeNumber[v] EXCEPT !.var = @ \/ v \in S]
  <2>1. CASE v \in S
    <3>1. /\ value_[v] \in Addr /\ v \in live
          /\ Read(v) = heap[value_[v]]
          /\ Read(v)' = heap'[value_[v]]
      BY <1>1, <2>1 DEF Read, is_ptr
    <3>2. heap'[value_[v]] = [heap[value_[v]] EXCEPT !.var = TRUE]
      BY <2>1, <3>1 DEF Independent
    <3>3. (heap[value_[v]].var \/ v \in S) = TRUE
      BY <2>1
    <3>4. QED
      BY <1>1, <3>1, <3>2, <3>3 DEF NativeNumber
  <2>2. CASE v \notin S
    <3>1. v \in live => Read(v)' = Read(v)
      <4>1. CASE is_ptr(v)
        <5>1. value_[v] \in Addr /\ \A w \in S : value_[w] # value_[v]
          BY <2>2, <4>1 DEF OwnerInv, ExclusiveOwner, is_ptr
        <5>2. heap'[value_[v]] = heap[value_[v]]
          BY <5>1 DEF Independent
        <5>3. QED
          BY <1>1, <4>1, <5>2 DEF Read, is_ptr
      <4>2. CASE ~is_ptr(v)
        BY <1>1, <4>2 DEF Read, is_ptr, Plain
      <4>3. QED
        BY <4>1, <4>2
    <3>2. NativeNumber'[v] = NativeNumber[v]
      BY <1>1, <3>1 DEF NativeNumber, Plain
    <3>3. NativeNumber[v] \in Number
      BY ReadNumber, PlainNumber, NumAssumption DEF NativeNumber
    <3>4. [NativeNumber[v] EXCEPT !.var = @ \/ v \in S] = NativeNumber[v]
      <4>1. (NativeNumber[v].var \/ v \in S) = NativeNumber[v].var
        BY <2>2, <3>3 DEF Number
      <4>2. QED
        BY <3>3, <4>1 DEF Number
    <3>5. QED
      BY <3>2, <3>4
  <2>3. QED
    BY <2>1, <2>2
<1>8. NativeNumber' = [v \in Wrapper |-> [NativeNumber[v] EXCEPT !.var = @ \/ v \in S]]
  BY <1>7 DEF NativeNumber
<1>9. QED
  BY <1>5, <1>6, <1>8 DEF OwnerInv, Native!Independent, Independent

LEMMA TapeFunctionInv ==
  ASSUME OwnerInv, NEW y \in Wrapper, TapeFunction(y)
  PROVE  OwnerInv' /\ (DependentsBoxed => Native!TapeFunction(y))
<1>1. /\ y \in live /\ live' = live /\ value_' = value_
      /\ recording' = FALSE
  BY DEF TapeFunction
<1>2. ASSUME NEW a \in Addr, heap[a] # Free
      PROVE  /\ heap[a] \in Number
             /\ heap'[a] = Plain(heap[a].val)
             /\ heap'[a] \in Number
  <2>1. heap[a] \in Number /\ heap'[a] = Plain(heap[a].val)
    BY <1>2 DEF TapeFunction, OwnerInv, TypeOK
  <2>2. QED
    BY <2>1, PlainNumber
<1>3. ASSUME NEW a \in Addr, heap[a] = Free
      PROVE  heap'[a] = Free
  BY <1>3 DEF TapeFunction
<1>4. TypeOK'
  BY <1>1, <1>2, <1>3 DEF TapeFunction, OwnerInv, TypeOK
<1>5. ExclusiveOwner'
  BY <1>1, <1>2, FreeAssumption DEF OwnerInv, ExclusiveOwner, is_ptr
<1>6. ASSUME NEW v \in live
      PROVE  Read(v)' = Plain(Read(v).val)
  <2>1. CASE is_ptr(v)
    <3>1. value_[v] \in Addr /\ heap[value_[v]] # Free
      BY <2>1 DEF OwnerInv, TypeOK, ExclusiveOwner, is_ptr
    <3>2. heap'[value_[v]] = Plain(heap[value_[v]].val)
      BY <1>2, <3>1
    <3>3. QED
      BY <1>1, <2>1, <3>2 DEF Read, is_ptr
  <2>2. CASE ~is_ptr(v)
    BY <1>1, <2>2 DEF Read, is_ptr, Plain
  <2>3. QED
    BY <2>1, <2>2
<1>7. NativeNumber' = [v \in Wrapper |-> Native!Plain(NativeNumber[v].val)]
  BY <1>1, <1>6 DEF NativeNumber, Plain, Native!Plain
<1>8. DependentsBoxed => cvalue(y) = NativeNumber[y]
  BY <1>1 DEF TapeFunction, cvalue, NativeNumber, Read
<1>9. QED
  BY <1>1, <1>4, <1>5, <1>7, <1>8 DEF OwnerInv, Native!TapeFunction, TapeFunction

-----------------------------------------------------------------------------

LEMMA InitOwner == Init => OwnerInv
  BY NumAssumption DEF Init, OwnerInv, TypeOK, ExclusiveOwner, is_ptr

LEMMA InitNative == Init => Native!Init
<1> SUFFICES ASSUME Init
             PROVE  Native!Init
  OBVIOUS
<1>1. NativeNumber = [w \in Wrapper |-> Plain(Zero)]
  BY DEF Init, NativeNumber
<1>2. QED
  BY <1>1 DEF Init, Native!Init, Native!Plain, Plain

(* Putting a number is the native assignment of it. *)
LEMMA PutsIsPut ==
  ASSUME OwnerInv, NEW w \in Wrapper, NEW n \in Number, Puts(w, n),
         live' = live \union {w}, UNCHANGED recording
  PROVE  OwnerInv' /\ Native!Put(w, n)
  BY PutsInv, PutsNumber DEF Native!Put

(* The operands a call names, as the native doubles have them. *)
LEMMA OperandIsRead ==
  /\ \A a \in live : a \in Wrapper => Native!Of(a) = Read(a) /\ a \in Native!Operand
  /\ \A c \in Num : Native!Of(c) = Plain(c) /\ c \in Native!Operand
  BY NumAssumption DEF Native!Of, Native!Operand, NativeNumber, Native!Plain, Plain

(* A step that puts the number of a named operand. *)
LEMMA AssignStep ==
  ASSUME OwnerInv, NEW w \in Wrapper, NEW a \in live \union Num,
         Puts(w, Native!Of(a)), live' = live \union {w}, UNCHANGED recording,
         call' = <<"assign", w, a>>
  PROVE  OwnerInv' /\ Native!Next
<1>1. Native!Of(a) \in Number /\ a \in Native!Operand
  BY OperandIsRead, ReadNumber, PlainNumber
<1>2. OwnerInv' /\ Native!Put(w, Native!Of(a))
  BY <1>1, PutsIsPut
<1>3. QED
  BY <1>1, <1>2 DEF Native!Next, Native!Assign

(* A step that puts the result of an operator. *)
LEMMA ResultStep ==
  ASSUME OwnerInv, NEW w \in Wrapper, NEW op \in Op,
         NEW a \in live, NEW b \in live \union Num,
         Puts(w, Apply(op, Native!Of(a), Native!Of(b))),
         live' = live \union {w}, UNCHANGED recording,
         call' = <<"result", w, op, a, b>>
  PROVE  OwnerInv' /\ Native!Next
<1>1. /\ Native!Of(a) \in Number /\ a \in Native!Operand
      /\ Native!Of(b) \in Number /\ b \in Native!Operand
  BY OperandIsRead, ReadNumber, PlainNumber
<1>2. Apply(op, Native!Of(a), Native!Of(b)) \in Number
  BY <1>1, ApplyAssumption
<1>3. OwnerInv' /\ Native!Put(w, Apply(op, Native!Of(a), Native!Of(b)))
  BY <1>2, PutsIsPut
<1>4. QED
  BY <1>1, <1>3 DEF Native!Next, Native!AssignResult

(* What the program must heed for its wrappers to be native doubles. *)
Heeds == IncrementsPlain /\ DependentsBoxed

(* Every step keeps ownership exclusive and is a native step.              *)
LEMMA NextNative ==
  ASSUME OwnerInv, [Next]_vars
  PROVE  OwnerInv' /\ (Heeds => [Native!Next]_Native!vars)
<1>1. CASE UNCHANGED vars
  <2>1. OwnerInv'
    BY <1>1 DEF vars, OwnerInv, TypeOK, ExclusiveOwner, is_ptr
  <2>2. UNCHANGED Native!vars
    BY <1>1 DEF vars, Native!vars, NativeNumber, Read, is_ptr, Plain
  <2>3. QED
    BY <2>1, <2>2
<1>2. ASSUME NEW S \in SUBSET Wrapper, Independent(S)
      PROVE  OwnerInv' /\ Native!Next
  BY <1>2, IndependentInv DEF Native!Next
<1>3. ASSUME NEW w \in Wrapper, Step(w)
      PROVE  OwnerInv' /\ (Heeds => Native!Next)
  <2>1. ASSUME NEW c \in Num, Construct(w, c) \/ AssignDouble(w, c)
        PROVE  OwnerInv' /\ Native!Next
    <3>1. Puts(w, Plain(c))
      BY <2>1 DEF Construct, AssignDouble, Puts
    <3>2. /\ live' = live \union {w}
          /\ UNCHANGED recording
          /\ call' = <<"assign", w, c>>
      BY <2>1 DEF Construct, AssignDouble
    <3>3. QED
      BY <3>1, <3>2, OperandIsRead, AssignStep
  <2>2. ASSUME NEW a \in Wrapper, CopyConstruct(w, a) \/ CopyAssign(w, a)
        PROVE  OwnerInv' /\ Native!Next
    <3>1. a \in live
      BY <2>2 DEF CopyConstruct, CopyAssign
    <3>2. Puts(w, Native!Of(a))
      BY <2>2, <3>1, CopyPuts, OperandIsRead
    <3>3. /\ live' = live \union {w}
          /\ UNCHANGED recording
          /\ call' = <<"assign", w, a>>
      BY <2>2 DEF CopyConstruct, CopyAssign
    <3>4. QED
      BY <3>1, <3>2, <3>3, AssignStep
  <2>3. ASSUME NEW a \in Wrapper, MoveConstruct(w, a) \/ MoveAssign(w, a)
        PROVE  OwnerInv' /\ Native!Next
    <3>1. a \in live
      BY <2>3 DEF MoveConstruct, MoveAssign
    <3>2. QED
      BY <2>3, <3>1, MoveInv, MoveIsMove DEF Native!Next
  <2>4. ASSUME NEW op \in Op, NEW a \in Wrapper, NEW b \in Wrapper,
               ResultConstruct(w, op, a, b) \/ AssignResult(w, op, a, b)
        PROVE  OwnerInv' /\ Native!Next
    <3>1. a \in live /\ b \in live
      BY <2>4 DEF ResultConstruct, AssignResult
    <3>2. Puts(w, Apply(op, Native!Of(a), Native!Of(b)))
      BY <2>4, <3>1, ResultPuts, OperandIsRead
    <3>3. /\ live' = live \union {w}
          /\ UNCHANGED recording
          /\ call' = <<"result", w, op, a, b>>
      BY <2>4 DEF ResultConstruct, AssignResult
    <3>4. QED
      BY <3>1, <3>2, <3>3, ResultStep
  <2>5. ASSUME NEW op \in Op, NEW a \in Wrapper, OpAssign(w, op, a)
        PROVE  OwnerInv' /\ Native!Next
    <3>1. w \in live /\ a \in live
      BY <2>5 DEF OpAssign
    <3>2. Puts(w, Apply(op, Native!Of(w), Native!Of(a)))
      BY <2>5, <3>1, OpAssignPuts, OperandIsRead
    <3>3. /\ live' = live \union {w}
          /\ UNCHANGED recording
          /\ call' = <<"result", w, op, w, a>>
      BY <2>5, <3>1 DEF OpAssign
    <3>4. QED
      BY <3>1, <3>2, <3>3, ResultStep
  <2>6. ASSUME NEW op \in Op, NEW c \in Num, OpAssignDouble(w, op, c)
        PROVE  OwnerInv' /\ Native!Next
    <3>1. w \in live
      BY <2>6 DEF OpAssignDouble
    <3>2. Puts(w, Apply(op, Native!Of(w), Native!Of(c)))
      BY <2>6, <3>1, OpAssignDoublePuts, OperandIsRead
    <3>3. /\ live' = live \union {w}
          /\ UNCHANGED recording
          /\ call' = <<"result", w, op, w, c>>
      BY <2>6, <3>1 DEF OpAssignDouble
    <3>4. QED
      BY <3>1, <3>2, <3>3, ResultStep
  <2>7. CASE Destroy(w)
    BY <2>7, DestroyInv, DestroyIsDestroy DEF Native!Next
  <2>8. CASE Increment(w)
    <3>1. w \in live
      BY <2>8 DEF Increment
    <3>2. /\ live' = live \union {w}
          /\ UNCHANGED recording
          /\ call' = <<"result", w, Plus, w, One>>
      BY <2>8, <3>1 DEF Increment
    <3>3. CASE ~is_ptr(w)
      <4>1. Puts(w, Apply(Plus, Native!Of(w), Native!Of(One)))
        BY <2>8, <3>1, <3>3, IncrementPuts, OperandIsRead, NumAssumption
      <4>2. QED
        BY <3>1, <3>2, <4>1, ResultStep, OpAssumption, NumAssumption
    <3>4. CASE is_ptr(w)
      <4>1. /\ UNCHANGED <<live, value_, heap, recording>>
            /\ ~Heeds
        BY <2>8, <3>4 DEF Increment, Heeds
      <4>2. OwnerInv'
        BY <4>1 DEF OwnerInv, TypeOK, ExclusiveOwner, is_ptr
      <4>3. QED
        BY <4>1, <4>2
    <3>5. QED
      BY <3>3, <3>4
  <2>9. CASE Decrement(w)
    BY <2>9, <2>6, OpAssumption, NumAssumption DEF Decrement
  <2>10. CASE Box(w)
    <3>1. w \in live
      BY <2>10 DEF Box
    <3>2. Puts(w, Native!Of(w))
      BY <2>10, <3>1, OperandIsRead DEF Box, Puts
    <3>3. /\ live' = live \union {w}
          /\ UNCHANGED recording
          /\ call' = <<"assign", w, w>>
      BY <2>10, <3>1 DEF Box
    <3>4. QED
      BY <3>1, <3>2, <3>3, AssignStep
  <2>11. CASE TapeFunction(w)
    BY <2>11, TapeFunctionInv DEF Native!Next, Heeds
  <2>12. QED
    BY <1>3, <2>1, <2>2, <2>3, <2>4, <2>5, <2>6, <2>7, <2>8, <2>9, <2>10, <2>11
       DEF Step
<1>4. QED
  BY <1>1, <1>2, <1>3 DEF Next

(* Whatever a program does with its wrappers, each AD object has one owner *)
(* as long as a wrapper points to it: none is freed twice or read after it *)
(* was freed.                                                              *)
THEOREM OwnershipExclusive == Spec => []ExclusiveOwner
<1>1. OwnerInv /\ [Next]_vars => OwnerInv'
  BY NextNative
<1>2. OwnerInv => ExclusiveOwner
  BY DEF OwnerInv
<1>3. QED
  BY <1>1, <1>2, InitOwner, PTL DEF Spec

(* Type correctness. *)
THEOREM TypeCorrect == Spec => []TypeOK
<1>1. OwnerInv /\ [Next]_vars => OwnerInv'
  BY NextNative
<1>2. OwnerInv => TypeOK
  BY DEF OwnerInv
<1>3. QED
  BY <1>1, <1>2, InitOwner, PTL DEF Spec

(* The wrappers are the doubles they replace: a program that increments    *)
(* native contents only, and whose dependent variables are boxed, computes *)
(* the numbers it would compute with native doubles.                       *)
THEOREM NativeImplemented ==
  IncrementsPlain /\ DependentsBoxed => (Spec => ImplementsNative)
<1> SUFFICES ASSUME Heeds
             PROVE  Spec => ImplementsNative
  BY DEF Heeds
<1>1. OwnerInv /\ [Next]_vars => OwnerInv' /\ [Native!Next]_Native!vars
  BY NextNative
<1>2. QED
  BY <1>1, InitOwner, InitNative, PTL DEF Spec, ImplementsNative, Native!Spec

-----------------------------------------------------------------------------
(***************************************************************************)
(* What operations lose.                                                   *)
(***************************************************************************)

Loses(a) == Owned(a) /\ ~Owned(a)' /\ heap'[a] # Free

(* Nothing is lost if what is boxed stays where it is. *)
LEMMA StayingKeeps ==
  ASSUME \A v \in Wrapper : is_ptr(v) => value_'[v] = value_[v]
  PROVE  \A a \in Addr : ~Loses(a)
  BY DEF Loses, Owned, is_ptr

(* Setting w, which owned nothing, or the AD object of w, leaves the rest. *)
LEMMA SettingKeeps ==
  ASSUME OwnerInv, NEW w \in Wrapper,
         \/ ~is_ptr(w) /\ \E b : value_' = [value_ EXCEPT ![w] = b]
         \/ value_' = value_
  PROVE  \A a \in Addr : ~Loses(a)
<1>1. \A v \in Wrapper : is_ptr(v) => value_'[v] = value_[v]
  BY DEF OwnerInv, TypeOK
<1>2. QED
  BY <1>1, StayingKeeps

(* Putting a result over an AD object loses that one. *)
LEMMA ResultLosesTarget ==
  ASSUME OwnerInv, NEW w \in Wrapper, NEW boxed, NEW n, PutResult(w, boxed, n)
  PROVE  \A a \in Addr : Loses(a) => value_[w] = a
<1>1. \E b : value_' = [value_ EXCEPT ![w] = b]
  BY DEF PutResult, Alloc, SetDouble
<1>2. \A v \in Wrapper \ {w} : value_'[v] = value_[v]
  BY <1>1 DEF OwnerInv, TypeOK
<1>3. QED
  BY <1>2 DEF Loses, Owned

(* Moving from a to w loses at most what w owned. *)
LEMMA MoveLosesTarget ==
  ASSUME OwnerInv, NEW w \in Wrapper, NEW a \in Wrapper,
         value_' = [value_ EXCEPT ![w] = value_[a], ![a] = Zero]
  PROVE  \A b \in Addr : Loses(b) => value_[w] = b
<1> SUFFICES ASSUME NEW b \in Addr, Owned(b), ~Owned(b)', value_[w] # b
             PROVE  FALSE
  BY DEF Loses
<1>1. PICK v \in Wrapper : value_[v] = b
  BY DEF Owned
<1>2. v # w /\ value_'[v] # b /\ value_'[w] # b
  BY <1>1 DEF Owned
<1>3. v = a
  BY <1>1, <1>2 DEF OwnerInv, TypeOK
<1>4. value_'[w] = value_[a]
  BY <1>2, <1>3 DEF OwnerInv, TypeOK
<1>5. QED
  BY <1>1, <1>2, <1>3, <1>4

(* What a step may lose. *)
Losses ==
  \A a \in Addr : Loses(a) =>
    call'[1] \in {"move", "result"} /\ value_[call'[2]] = a

LEMMA StepLosses ==
  ASSUME OwnerInv, NEW w \in Wrapper, Step(w)
  PROVE  Losses
<1>1. ASSUME NEW c \in Num, Construct(w, c) \/ AssignDouble(w, c)
      PROVE  Losses
  <2>1. w \notin live => ~is_ptr(w)
    BY DEF OwnerInv, ExclusiveOwner
  <2>2. QED
    BY <1>1, <2>1, SettingKeeps
       DEF Construct, AssignDouble, SetDouble, SetBoxed, Losses
<1>2. ASSUME NEW a \in Wrapper, CopyConstruct(w, a) \/ CopyAssign(w, a)
      PROVE  Losses
  <2>1. w \notin live => ~is_ptr(w)
    BY DEF OwnerInv, ExclusiveOwner
  <2>2. \/ ~is_ptr(w) /\ AllocValue(w, a)
        \/ SetBoxed(w, Read(a))
    BY <1>2, <2>1 DEF CopyConstruct, CopyAssign
  <2>3. \/ ~is_ptr(w) /\ \E b : value_' = [value_ EXCEPT ![w] = b]
        \/ value_' = value_
    BY <2>2 DEF AllocValue, Alloc, SetDouble, SetBoxed
  <2>4. QED
    BY <2>3, SettingKeeps DEF Losses
<1>3. ASSUME NEW a \in Wrapper, MoveConstruct(w, a) \/ MoveAssign(w, a)
      PROVE  Losses
  <2>1. /\ value_' = [value_ EXCEPT ![w] = value_[a], ![a] = Zero]
        /\ call' = <<"move", w, a>>
    BY <1>3 DEF MoveConstruct, MoveAssign
  <2>2. \A b \in Addr : Loses(b) => value_[w] = b
    BY <2>1, MoveLosesTarget
  <2>3. QED
    BY <2>1, <2>2 DEF Losses
<1>4. ASSUME NEW op \in Op, NEW a \in Wrapper, NEW b \in Wrapper,
             ResultConstruct(w, op, a, b) \/ AssignResult(w, op, a, b)
      PROVE  Losses
  <2>1. /\ PutResult(w, is_ptr(a) \/ is_ptr(b), Apply(op, Read(a), Read(b)))
        /\ call' = <<"result", w, op, a, b>>
    BY <1>4 DEF ResultConstruct, AssignResult
  <2>2. \A c \in Addr : Loses(c) => value_[w] = c
    BY <2>1, ResultLosesTarget
  <2>3. QED
    BY <2>1, <2>2 DEF Losses
<1>5. ASSUME NEW op \in Op, NEW boxed, NEW n, OpAssignNumber(w, op, boxed, n)
      PROVE  \A a \in Addr : ~Loses(a)
  <2>1. \/ ~is_ptr(w) /\ \E b : value_' = [value_ EXCEPT ![w] = b]
        \/ value_' = value_
    BY <1>5 DEF OpAssignNumber, PutResult, Alloc, SetDouble, SetBoxed
  <2>2. QED
    BY <2>1, SettingKeeps
<1>6. ASSUME NEW op \in Op, NEW a \in Wrapper, OpAssign(w, op, a)
      PROVE  Losses
  BY <1>5, <1>6 DEF OpAssign, Losses
<1>7. ASSUME NEW op \in Op, NEW c \in Num, OpAssignDouble(w, op, c)
      PROVE  Losses
  BY <1>5, <1>7 DEF OpAssignDouble, Losses
<1>8. CASE Destroy(w)
  <2>1. \A v \in Wrapper \ {w} : value_'[v] = value_[v]
    BY <1>8 DEF Destroy, OwnerInv, TypeOK
  <2>2. ASSUME NEW a \in Addr, Loses(a)
        PROVE  FALSE
    <3>1. value_[w] = a
      BY <2>1, <2>2 DEF Loses, Owned
    <3>2. heap'[a] = Free
      BY <1>8, <3>1 DEF Destroy, is_ptr, OwnerInv, TypeOK
    <3>3. QED
      BY <2>2, <3>2 DEF Loses
  <2>3. QED
    BY <2>2 DEF Losses
<1>9. CASE Increment(w)
  <2>1. \/ ~is_ptr(w) /\ \E b : value_' = [value_ EXCEPT ![w] = b]
        \/ value_' = value_
    BY <1>9 DEF Increment, SetDouble
  <2>2. QED
    BY <2>1, SettingKeeps DEF Losses
<1>10. CASE Decrement(w)
  BY <1>5, <1>10, OpAssumption DEF Decrement, OpAssignDouble, Losses
<1>11. CASE Box(w)
  <2>1. ~is_ptr(w) /\ \E b : value_' = [value_ EXCEPT ![w] = b]
    BY <1>11 DEF Box, Alloc
  <2>2. QED
    BY <2>1, SettingKeeps DEF Losses
<1>12. CASE TapeFunction(w)
  BY <1>12, SettingKeeps DEF TapeFunction, Losses
<1>13. QED
  BY <1>1, <1>2, <1>3, <1>4, <1>6, <1>7, <1>8, <1>9, <1>10, <1>11, <1>12
     DEF Step

(* Whatever the program does, an AD object is lost only by a move or the   *)
(* assignment of a result, as the one their target owned.                  *)
THEOREM OnlyTargetsLost == Spec => LosesOnlyTarget
<1>1. ASSUME OwnerInv, [Next]_vars
      PROVE  [Losses]_vars
  <2>1. ASSUME NEW w \in Wrapper, Step(w)
        PROVE  Losses
    BY <1>1, <2>1, StepLosses
  <2>2. ASSUME NEW S \in SUBSET Wrapper, Independent(S)
        PROVE  Losses
    BY <2>2, StayingKeeps DEF Independent, Losses
  <2>3. QED
    BY <1>1, <2>1, <2>2 DEF Next
<1>2. OwnerInv /\ [Next]_vars => OwnerInv'
  BY NextNative
<1>3. QED
  BY InitOwner, <1>1, <1>2, PTL DEF Spec, LosesOnlyTarget, Losses, Loses
=============================================================================
