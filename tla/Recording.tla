----------------------------- MODULE Recording ------------------------------
(***************************************************************************)
(* Recording a function: how the operations on AD<Base> objects become an  *)
(* operation sequence.  One thread, from Independent to Dependent or       *)
(* abort_recording, any number of times; TapeLink has the threads and the  *)
(* tape identifiers this module leaves out, so that here an object is a    *)
(* variable when its address taddr_ is not 0.                              *)
(*                                                                         *)
(* An operation records an instruction or avoids to: x + 0 is x, 0 * x is  *)
(* a parameter.  Parameters are shared: PutPar reuses the index of an      *)
(* equal one if its hash table still leads there; the table outlives the   *)
(* recordings.                                                             *)
(***************************************************************************)
EXTENDS Tape

CONSTANTS
  Object,
  Ops,       (* The operators the program uses.                                *)
  Dim,       (* The number of independent variables.                       *)
  Vector,    (* Vectors of Dim objects, those Independent is called with.  *)
  NoFun,     (* The ADFun object holds no operation sequence.              *)
  Code,      (* The hash codes of numbers.                                 *)
  Hash(_),
  Room(_, _) (* The bound of a recording: Room(R, op) says whether the     *)
             (* recorder R takes one more operator op.                     *)

ASSUME HashAssumption == \A c \in Num : Hash(c) \in Code

(***************************************************************************)
(* The shortcuts are those of a field whose numbers Num are totally        *)
(* ordered: NaN, for which x = x and 0 * x = 0 fail, is left out, as is    *)
(* the sign of zero.                                                       *)
(***************************************************************************)
ASSUME ArithmeticAssumption ==
  /\ Zero # One
  /\ \A m, n \in Num :
       /\ Calc("Add", <<m, n>>) = Calc("Add", <<n, m>>)
       /\ Calc("Mul", <<m, n>>) = Calc("Mul", <<n, m>>)
  /\ \A m \in Num :
       /\ Calc("Add", <<m, Zero>>) = m
       /\ Calc("Sub", <<m, Zero>>) = m
       /\ Calc("Mul", <<m, Zero>>) = Zero
       /\ Calc("Mul", <<m, One>>) = m
       /\ Calc("Div", <<m, One>>) = m
       /\ Calc("Div", <<Zero, m>>) = Zero

VARIABLES
  recording,  (* tape_handle is not null.                                  *)
  object,     (* object[o]: the value_ and the taddr_ of an AD<Base>.      *)
  Rec_,       (* The recorder of the tape.                                 *)
  at,         (* History: the values of the independent variables.         *)
  f           (* The ADFun<Base> that Dependent sets.                      *)

vars == <<recording, object, Rec_, at, f>>

Point == [1 .. Dim -> Num]

(* What an ADFun object holds. *)
Function == [tape : Seq(Instruction), par_rec_ : Seq(Num),
             den : Seq([Point -> Num]), dep_taddr_ : Nat]

ASSUME NoFunAssumption == NoFun \notin Function
ASSUME VectorAssumption ==
  /\ Dim \in Nat \ {0}
  /\ Vector \subseteq [1 .. Dim -> Object]
  /\ \A x \in Vector : \A i, j \in 1 .. Dim : x[i] = x[j] => i = j

-----------------------------------------------------------------------------
(* The recorder.  den is a history variable: den[a][u] is the value of     *)
(* variable a when the tape is played from the independent values u.       *)

EmptyRecorder(hash_table) ==
  [tape |-> <<>>, par_rec_ |-> <<>>, num_var_rec_ |-> 0, den |-> <<>>,
   hash_table |-> hash_table]

(* Mutant of PutPar: the parameter at a used entry of the hash table is    *)
(* replaced.                                                               *)
PutParReplacing(R, c) ==
  LET i == R.hash_table[Hash(c)]
  IN  IF i < Len(R.par_rec_)
        THEN [R EXCEPT !.par_rec_[i + 1] = c]
        ELSE [R EXCEPT !.par_rec_ = Append(@, c),
                       !.hash_table[Hash(c)] = Len(R.par_rec_)]

(* Find or add a parameter. *)
PutPar(R, c) ==
  LET i == R.hash_table[Hash(c)]
  IN  IF i < Len(R.par_rec_) /\ R.par_rec_[i + 1] = c
        THEN R
        ELSE [R EXCEPT !.par_rec_ = Append(@, c),
                       !.hash_table[Hash(c)] = Len(R.par_rec_)]

Variable(o) == o.taddr_ > 0

Parameter(o) == ~Variable(o)

(* The values of the variables when the tape is played from u. *)
Played(R, u) == [a \in DOMAIN R.den |-> R.den[a][u]]

(* Mutant of Put: every operator adds one variable. *)
PutOneVariable(R, op, kind, arg) ==
  LET ins == [op |-> op, kind |-> kind, arg |-> arg, res |-> R.num_var_rec_]
      operands(u) == Operands(ins, Played(R, u), R.par_rec_)
  IN  [R EXCEPT
         !.tape = Append(@, ins),
         !.num_var_rec_ = @ + 1,
         !.den = IF NumRes(op) = 0 THEN @
                 ELSE Append(@, [u \in Point |-> Value(op, operands(u))])]

(* Adds an instruction: PutOp and PutArg. *)
Put(R, op, kind, arg) ==
  LET ins == [op |-> op, kind |-> kind, arg |-> arg,
              res |-> R.num_var_rec_ + NumRes(op) - 1]
      operands(u) == Operands(ins, Played(R, u), R.par_rec_)
      result == [u \in Point |-> Value(op, operands(u))]
      aux == [u \in Point |-> Aux(op, operands(u))]
  IN  [R EXCEPT
         !.tape = Append(@, ins),
         !.num_var_rec_ = @ + NumRes(op),
         !.den = CASE NumRes(op) = 0 -> @
                   [] NumRes(op) = 1 -> Append(@, result)
                   [] NumRes(op) = 2 -> @ \o <<aux, result>>]

(* The recorder when the operands up to the j-th have been put. *)
PutOperand(R, s, j) ==
  IF j \in DOMAIN s /\ Parameter(s[j]) THEN PutPar(R, s[j].value_) ELSE R

Address(R, o) ==
  IF Variable(o) THEN o.taddr_ ELSE R.hash_table[Hash(o.value_)]

(* Records op with the objects s as operands: at most four, of which those *)
(* that are parameters get an index.                                       *)
Record(R, op, s) ==
  LET R1 == PutOperand(R, s, 1)
      R2 == PutOperand(R1, s, 2)
      R3 == PutOperand(R2, s, 3)
      R4 == PutOperand(R3, s, 4)
  IN  Put(R4, op,
          [j \in DOMAIN s |-> IF Variable(s[j]) THEN "v" ELSE "p"],
          [j \in DOMAIN s |-> Address(<<R1, R2, R3, R4>>[j], s[j])])

-----------------------------------------------------------------------------

Param(c) == [value_ |-> c, taddr_ |-> 0]

IndexIn(x, o) == CHOOSE j \in 1 .. Dim : x[j] = o

(* An object becomes a copy of another, or a parameter. *)
SetParameter(r, c) ==
  /\ object' = [object EXCEPT ![r] = Param(c)]
  /\ UNCHANGED <<recording, Rec_, at, f>>

SetCopy(r, c, taddr_) ==
  /\ object' = [object EXCEPT ![r] = [value_ |-> c, taddr_ |-> taddr_]]
  /\ UNCHANGED <<recording, Rec_, at, f>>

(* It becomes the result of an instruction. *)
SetResult(r, c, op, s) ==
  /\ Room(Rec_, op)
  /\ Rec_' = Record(Rec_, op, s)
  /\ object' = [object EXCEPT ![r] = [value_ |-> c,
                                      taddr_ |-> Rec_'.num_var_rec_ - 1]]
  /\ UNCHANGED <<recording, at, f>>

-----------------------------------------------------------------------------

Init ==
  /\ recording = FALSE
  /\ object = [o \in Object |-> Param(Zero)]
  /\ Rec_ = EmptyRecorder([c \in Code |-> 0])
  /\ at = [j \in 1 .. Dim |-> Zero]
  /\ f = NoFun

(* BeginOp takes address 0, and independent variable j address j. *)
Independent(x) ==
  /\ ~recording
  /\ recording' = TRUE
  /\ at' = [j \in 1 .. Dim |-> object[x[j]].value_]
  /\ Rec_' = [Rec_ EXCEPT
       !.tape = [i \in 1 .. Dim + 1 |->
                   [op |-> IF i = 1 THEN "Begin" ELSE "Inv",
                    kind |-> <<>>, arg |-> <<>>, res |-> i - 1]],
       !.num_var_rec_ = Dim + 1,
       !.den = [j \in 1 .. Dim |-> [u \in Point |-> u[j]]]]
  /\ object' = [o \in Object |->
       IF \E j \in 1 .. Dim : x[j] = o
         THEN [object[o] EXCEPT !.taddr_ = IndexIn(x, o)]
         ELSE object[o]]
  /\ UNCHANGED f

AssignBase(r, c) == SetParameter(r, c)

Copy(r, a) == SetCopy(r, object[a].value_, object[a].taddr_)

(* variable + 0, variable - 0, variable * 1, variable / 1 *)
IsLeft(op, p) ==
  \/ op \in {"Add", "Sub"} /\ p.value_ = Zero
  \/ op \in {"Mul", "Div"} /\ p.value_ = One

(* 0 + variable, 1 * variable *)
IsRight(op, p) ==
  \/ op = "Add" /\ p.value_ = Zero
  \/ op = "Mul" /\ p.value_ = One

(* variable * 0 *)
LeftIsLost(op, p) == op = "Mul" /\ p.value_ = Zero

(* 0 * variable, 0 / variable *)
RightIsLost(op, p) == op \in {"Mul", "Div"} /\ p.value_ = Zero

(* Mutant of InOrder: a parameter comes first whatever the operator. *)
InOrderParameterFirst(op, l, r) ==
  IF Parameter(r) THEN <<r, l>> ELSE <<l, r>>

(* A parameter of + or * is the first argument of its instruction. *)
InOrder(op, l, r) ==
  IF op \in {"Add", "Mul"} /\ Parameter(r) THEN <<r, l>> ELSE <<l, r>>

(* o := a op b, and o op= b when a is o. *)
BinaryOp(op, o, a, b) ==
  LET l == object[a]
      r == object[b]
      c == Calc(op, <<l.value_, r.value_>>)
  IN  \/ /\ Parameter(l) /\ Parameter(r)
         /\ SetParameter(o, c)
      \/ /\ Variable(l) /\ Parameter(r)
         /\ \/ LeftIsLost(op, r) /\ SetParameter(o, c)
            \/ IsLeft(op, r) /\ SetCopy(o, c, l.taddr_)
            \/ /\ ~LeftIsLost(op, r) /\ ~IsLeft(op, r)
               /\ SetResult(o, c, op, InOrder(op, l, r))
      \/ /\ Parameter(l) /\ Variable(r)
         /\ \/ RightIsLost(op, l) /\ SetParameter(o, c)
            \/ IsRight(op, l) /\ SetCopy(o, c, r.taddr_)
            \/ /\ ~RightIsLost(op, l) /\ ~IsRight(op, l)
               /\ SetResult(o, c, op, <<l, r>>)
      \/ /\ Variable(l) /\ Variable(r)
         /\ SetResult(o, c, op, <<l, r>>)

UnaryOp(op, o, a) ==
  LET x == object[a]
      c == Calc(op, <<x.value_>>)
  IN  \/ Parameter(x) /\ SetParameter(o, c)
      \/ Variable(x) /\ SetResult(o, c, op, <<x>>)

(* The choice is made now if both sides of the comparison are parameters,  *)
(* else it is recorded.                                                    *)
CondExpOp(cop, o, a, b, t, e) ==
  LET left == object[a]
      right == object[b]
      if_true == object[t]
      if_false == object[e]
      s == <<left, right, if_true, if_false>>
      chosen == IF Holds(cop, left.value_, right.value_) THEN if_true ELSE if_false
  IN  \/ /\ Parameter(left) /\ Parameter(right)
         /\ SetCopy(o, chosen.value_, chosen.taddr_)
      \/ /\ Variable(left) \/ Variable(right)
         /\ SetResult(o, chosen.value_, cop, s)

(* Mutant of Outcome: negations lose the case of equality. *)
OutcomeStrict(cop, l, r) ==
  LET true == Holds(cop, l.value_, r.value_)
  IN  CASE cop \in {"Lt", "Gt"} -> IF true = (cop = "Lt") THEN <<"Lt", l, r>>
                                                          ELSE <<"Lt", r, l>>
        [] cop \in {"Le", "Ge"} -> IF true = (cop = "Le") THEN <<"Le", l, r>>
                                                          ELSE <<"Le", r, l>>
        [] cop = "Eq" -> IF true THEN <<"Eq", l, r>> ELSE <<"Ne", l, r>>
        [] cop = "Ne" -> IF true THEN <<"Ne", l, r>> ELSE <<"Eq", l, r>>

(* The comparison recorded for l cop r, one that came out true. *)
Outcome(cop, l, r) ==
  LET true == Holds(cop, l.value_, r.value_)
  IN  CASE cop = "Lt" -> IF true THEN <<"Lt", l, r>> ELSE <<"Le", r, l>>
        [] cop = "Le" -> IF true THEN <<"Le", l, r>> ELSE <<"Lt", r, l>>
        [] cop = "Gt" -> IF true THEN <<"Lt", r, l>> ELSE <<"Le", l, r>>
        [] cop = "Ge" -> IF true THEN <<"Le", r, l>> ELSE <<"Lt", l, r>>
        [] cop = "Eq" -> IF true THEN <<"Eq", l, r>> ELSE <<"Ne", l, r>>
        [] cop = "Ne" -> IF true THEN <<"Ne", l, r>> ELSE <<"Eq", l, r>>

(* The parameter of an == or != is the first argument. *)
ComparisonOperands(c) ==
  IF c[1] \in {"Eq", "Ne"} /\ Parameter(c[3]) THEN <<c[3], c[2]>> ELSE <<c[2], c[3]>>

CompareOp(cop, a, b) ==
  LET l == object[a]
      r == object[b]
      c == Outcome(cop, l, r)
  IN  /\ Variable(l) \/ Variable(r)
      /\ Room(Rec_, c[1])
      /\ Rec_' = Record(Rec_, c[1], ComparisonOperands(c))
      /\ UNCHANGED <<recording, object, at, f>>

-----------------------------------------------------------------------------

(* The recording ends.  Objects stay as they are in the code, and are      *)
(* parameters from now on since their tape is gone (TapeLink).             *)
EndRecording ==
  /\ recording
  /\ recording' = FALSE
  /\ object' = [o \in Object |-> Param(object[o].value_)]
  /\ Rec_' = EmptyRecorder(Rec_.hash_table)
  /\ UNCHANGED at

(* A dependent variable that is a parameter becomes a variable, ParOp. *)
WithDependent(R, y) == IF Parameter(y) THEN Record(R, "Par", <<y>>) ELSE R

(* Mutant of Dependent: the address is read before ParOp is recorded. *)
DependentEarly(y) ==
  LET R == Put(WithDependent(Rec_, object[y]), "End", <<>>, <<>>)
  IN  /\ EndRecording
      /\ f' = [tape |-> R.tape, par_rec_ |-> R.par_rec_, den |-> R.den,
               dep_taddr_ |-> object[y].taddr_]

Dependent(y) ==
  LET R == Put(WithDependent(Rec_, object[y]), "End", <<>>, <<>>)
  IN  /\ EndRecording
      /\ f' = [tape |-> R.tape, par_rec_ |-> R.par_rec_, den |-> R.den,
               dep_taddr_ |-> IF Parameter(object[y]) THEN R.num_var_rec_ - 1
                                                      ELSE object[y].taddr_]

AbortRecording == EndRecording /\ UNCHANGED f

(* The operations of the program that may come in a recording or outside. *)
Operate ==
  \/ \E r \in Object :
       \/ \E c \in Num : AssignBase(r, c)
       \/ \E a \in Object : Copy(r, a)
       \/ \E op \in Binary \cap Ops, a, b \in Object : BinaryOp(op, r, a, b)
       \/ \E op \in Unary \cap Ops, a \in Object : UnaryOp(op, r, a)
       \/ \E cop \in CondExp \cap Ops, l, m, t, e \in Object :
            CondExpOp(cop, r, l, m, t, e)
  \/ \E cop \in Relational \cap Ops, a, b \in Object : CompareOp(cop, a, b)

Next ==
  \/ \E x \in Vector : Independent(x)
  \/ Operate
  \/ \E y \in Object : Dependent(y)
  \/ AbortRecording

Spec == Init /\ [][Next]_vars

-----------------------------------------------------------------------------

AD == [value_ : Num, taddr_ : Nat]

Recorder ==
  [tape : Seq(Instruction), par_rec_ : Seq(Num), num_var_rec_ : Nat,
   den : Seq([Point -> Num]), hash_table : [Code -> Nat]]

TypeOK ==
  /\ recording \in BOOLEAN
  /\ object \in [Object -> AD]
  /\ Rec_ \in Recorder
  /\ at \in Point
  /\ Rec_.num_var_rec_ = IF recording THEN Len(Rec_.den) + 1 ELSE 0
  /\ f \in {NoFun} \union Function

(* An operation sequence says what its variables are: the arguments of     *)
(* each instruction exist before it, their meaning has not changed since,  *)
(* and every variable is the result of one instruction, those of an        *)
(* instruction following those of the one before.                          *)
Faithful(R) ==
  \A i \in DOMAIN R.tape :
    LET ins == R.tape[i]
    IN  /\ ArgsValid(ins, Len(R.par_rec_))
        /\ ins.res <= Len(R.den)
        /\ \A u \in Point : Solves(ins, Played(R, u), R.par_rec_)
        /\ IF i = 1 THEN ins.op = "Begin" /\ ins.res = 0
                    ELSE ins.res = R.tape[i - 1].res + NumRes(ins.op)

(* PutPar, PutArg and PutOp: however operations, aborted recordings and    *)
(* stale entries of the hash table come together, the tape of a recording  *)
(* says what was computed.                                                 *)
TapeFaithful == Faithful(Rec_)

(* And so does what Dependent gives to f, with the instructions it adds    *)
(* for a dependent variable that is a parameter.                           *)
FunctionFaithful ==
  [][f' # f => Faithful(f') /\ f'.dep_taddr_ \in DOMAIN f'.den]_vars

(* An AD object that is a variable holds the value its tape address has    *)
(* at the recording point: what the program sees while it records is what  *)
(* zero order forward gives there.                                         *)
ValuesAgree ==
  \A o \in Object :
    Variable(object[o]) =>
      /\ object[o].taddr_ \in DOMAIN Rec_.den
      /\ object[o].value_ = Rec_.den[object[o].taddr_][at]

(* The comparisons recorded come out true at u: the tape would add nothing *)
(* to compare_change_count there.                                          *)
Agree(R, u) ==
  \A i \in DOMAIN R.tape :
    R.tape[i].op \in Comparison =>
      LET s == Operands(R.tape[i], Played(R, u), R.par_rec_)
      IN  Holds(R.tape[i].op, s[1], s[2])

(* The function of the independent variables an object stands for. *)
FunctionOf(R, o) ==
  IF Variable(o) THEN R.den[o.taddr_] ELSE [u \in Point |-> o.value_]

fn == [o \in Object |-> FunctionOf(Rec_, object[o])]
agrees == [u \in Point |-> Agree(Rec_, u)]
fun == IF f = NoFun THEN NoFun
       ELSE [value |-> f.den[f.dep_taddr_], agrees |-> [u \in Point |-> Agree(f, u)]]

Abstract == INSTANCE RecordedFunctions

(* Recording implements recorded functions: every object stands for the    *)
(* function the program computed for it, and f for that of the dependent   *)
(* variable, with the comparisons made on the way.                         *)
ImplementsFunctions == Abstract!Spec
=============================================================================
