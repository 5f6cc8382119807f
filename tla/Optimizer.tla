------------------------------ MODULE Optimizer -----------------------------
(***************************************************************************)
(* ADFun::optimize: a recording is replaced by one with fewer operators    *)
(* that computes the same.  A pass from its end to its beginning finds out *)
(* how each variable is connected to the dependent ones; a pass from the   *)
(* beginning records what is needed:                                       *)
(*   - a variable that is not connected is left out;                       *)
(*   - one that equals an earlier variable is replaced by that;            *)
(*   - sums that only sums use become part of a cumulative sum;            *)
(*   - one that is only needed for one outcome of conditional expressions  *)
(*     is skipped for the other, by a conditional skip inserted as soon as *)
(*     their operands have been computed.                                  *)
(* One step of the model is one operator of the recording, or one of the   *)
(* sums that are gathered.                                                 *)
(***************************************************************************)
EXTENDS Player, Taylor, FiniteSets

CONSTANTS
  HashCode,           (* 0 to CPPAD_HASH_TABLE_SIZE - 1.                   *)
  hash_code(_, _, _), (* Of an operator, the kinds of its operands, and    *)
                      (* the operands: new addresses, and parameters by    *)
                      (* their values.                                     *)
  Valuations(_)       (* Of a recording, values of all its variables that  *)
                      (* satisfy its instructions.                         *)

ASSUME RecordedAssumption ==
  \A t \in Tapes : \A i \in DOMAIN t.op_rec_ : t.op_rec_[i].op \notin Optimized
ASSUME HashAssumption ==
  \A n \in {t.num_var_rec : t \in Tapes} :
    \A op \in Binary \union Unary, k \in 1 .. 2 :
      \A kind \in [1 .. k -> {"v", "p"}], s \in [1 .. k -> Num \union 0 .. n] :
        hash_code(op, kind, s) \in HashCode

ASSUME ValuationsAssumption ==
  \A t \in Tapes : \A y \in Valuations(t) :
    /\ y \in [Address(t) -> Num]
    /\ \A i \in 0 .. t.num_op_rec - 1 : Solves(Instr(t, At(t, i)), y, t.par_rec_)

(* Sums and products do not depend on the order of their operands, which   *)
(* binary_match relies on.                                                 *)
ASSUME CommutesAssumption ==
  \A op \in {"Add", "Mul"} : \A m, n \in Num : Calc(op, <<m, n>>) = Calc(op, <<n, m>>)

VARIABLES
  play,              (* The recording; it never changes.                   *)
  conditional_skip,  (* The option "no_conditional_skip" is not given.     *)
  phase,
  cursor,            (* Of the player.                                     *)
  tape,              (* What is known of each variable of the recording;   *)
                     (* cexp_set is its entry of cexp_vec_set.             *)
  cskip_info,        (* Of the conditional expressions that are connected, *)
                     (* the last one first.                                *)
  cskip_info_order, cskip_order_next, cskip_info_index,
  hash_table_var,
  csum_work,         (* The work stacks of record_csum, and sum_par.       *)
  rec,               (* The vectors of the recorder.                       *)
  dep_taddr

vars == <<play, conditional_skip, phase, cursor, tape, cskip_info,
          cskip_info_order, cskip_order_next, cskip_info_index,
          hash_table_var, csum_work, rec, dep_taddr>>

Summation == {"Add", "Sub"}

connect_types == {"not_connected", "yes_connected", "sum_connected",
                  "csum_connected", "cexp_connected"}

(* The address of a variable that is not in the new recording. *)
Invalid == play.num_var_rec

-----------------------------------------------------------------------------

EmptyRecorder ==
  [op_rec_ |-> <<>>, op_arg_rec_ |-> <<>>, par_rec_ |-> <<>>,
   num_var_rec_ |-> 0, first |-> <<>>, last |-> <<>>]

NoWork == [op_stack |-> <<>>, add_stack |-> <<>>, sub_stack |-> <<>>, sum_par |-> Zero]

(* PutArg and PutOp.  As in module Playback, first and last are no part of *)
(* the recorder.                                                           *)
Put(R, code, words) ==
  LET n == R.num_var_rec_ + NumRes(code.op)
  IN  [R EXCEPT !.op_rec_ = Append(@, code), !.op_arg_rec_ = @ \o words,
                !.num_var_rec_ = n, !.first = Append(@, Len(R.op_arg_rec_)),
                !.last = Append(@, n - 1)]

(* PutPar: a parameter that is there is used again.  (Its hash table is    *)
(* the matter of module Recording.)                                        *)
PutPar(R, c) ==
  IF c \in Range(R.par_rec_) THEN R ELSE [R EXCEPT !.par_rec_ = Append(@, c)]

IndexOf(R, c) == (CHOOSE i \in DOMAIN R.par_rec_ : R.par_rec_[i] = c) - 1

Init ==
  /\ play \in Tapes
  /\ conditional_skip \in BOOLEAN
  /\ phase = "reverse"
  /\ cursor = reverse_start(play)
  /\ tape = [a \in Address(play) |->
               [ins |-> Instr(play, forward_start),
                connect_type |-> IF a \in Range(play.dep_taddr_)
                                   THEN "yes_connected" ELSE "not_connected",
                cexp_set |-> {}, new_var |-> Invalid, new_op |-> 0, match |-> FALSE]]
  /\ cskip_info = <<>>
  /\ cskip_info_order = <<>>
  /\ cskip_order_next = 1
  /\ cskip_info_index = 0
  /\ hash_table_var = [h \in HashCode |-> 0]
  /\ csum_work = NoWork
  /\ rec = EmptyRecorder
  /\ dep_taddr = play.dep_taddr_

-----------------------------------------------------------------------------
(* The connections. *)

Behind == reverse_next(play, cursor)

Back(ops) ==
  /\ phase = "reverse"
  /\ OpAt(play, cursor).op # "Begin"
  /\ cursor' = Behind
  /\ Instr(play, Behind).op \in ops
  /\ UNCHANGED <<play, conditional_skip, phase, cskip_info_order,
                 cskip_order_next, cskip_info_index, hash_table_var, csum_work,
                 rec, dep_taddr>>

(* The operator and the arguments of a variable are noted. *)
Noted(tp, ins) ==
  IF NumRes(ins.op) > 0 THEN [tp EXCEPT ![ins.res].ins = ins] ELSE tp

(* Mutant of Used: the outcomes for which an operand is needed are not     *)
(* narrowed.                                                               *)
UsedForEither(v, w, first) ==
  IF w.connect_type = "not_connected" THEN v
  ELSE IF w.connect_type # "cexp_connected"
    THEN [v EXCEPT !.connect_type = IF @ = "not_connected" THEN first ELSE "yes_connected"]
  ELSE IF v.connect_type = "not_connected"
    THEN [v EXCEPT !.connect_type = "cexp_connected", !.cexp_set = w.cexp_set]
  ELSE IF v.connect_type = "cexp_connected" THEN v
  ELSE [v EXCEPT !.connect_type = "yes_connected"]

(* The operand v of an operator whose result is w.  An operand without any *)
(* connection gets the one of its first use; one that is needed for some   *)
(* outcomes only, those that all its uses have in common.                  *)
Used(v, w, first) ==
  IF w.connect_type = "not_connected" THEN v
  ELSE IF w.connect_type # "cexp_connected"
    THEN [v EXCEPT !.connect_type = IF @ = "not_connected" THEN first ELSE "yes_connected"]
  ELSE IF v.connect_type = "not_connected"
    THEN [v EXCEPT !.connect_type = "cexp_connected", !.cexp_set = w.cexp_set]
  ELSE IF v.connect_type = "cexp_connected"
    THEN [v EXCEPT !.cexp_set = @ \intersect w.cexp_set,
                   !.connect_type = IF v.cexp_set \intersect w.cexp_set = {}
                                      THEN "yes_connected" ELSE @]
  ELSE [v EXCEPT !.connect_type = "yes_connected"]

UseOperand(tp, ins, j) ==
  IF j \in DOMAIN ins.arg /\ ins.kind[j] = "v"
    THEN [tp EXCEPT ![ins.arg[j]] =
            Used(@, tp[ins.res],
                 IF ins.op \in Summation THEN "sum_connected" ELSE "yes_connected")]
    ELSE tp

(* A sum that only one operator uses, a sum, is part of that. *)
Gathered(tp, ins) ==
  IF ins.op \in Summation /\ tp[ins.res].connect_type = "sum_connected"
    THEN [tp EXCEPT ![ins.res].connect_type = "csum_connected"] ELSE tp

ReverseArithmetic ==
  /\ Back(Unary \union Binary)
  /\ LET ins == Instr(play, Behind)
     IN  tape' = Gathered(UseOperand(UseOperand(Noted(tape, ins), ins, 1), ins, 2), ins)
  /\ UNCHANGED cskip_info

Needed(tp, ins, j) ==
  IF ins.kind[j] = "v" THEN [tp EXCEPT ![ins.arg[j]].connect_type = "yes_connected"]
                       ELSE tp

(* The j-th operand is needed only for one outcome of the conditional      *)
(* expression with that index, if for nothing else.                        *)
Branch(tp, ins, j, outcome) ==
  LET a == ins.arg[j]
  IN  IF ins.kind[j] = "p" THEN tp
      ELSE IF conditional_skip /\ tp[a].connect_type = "not_connected"
        THEN [tp EXCEPT ![a].connect_type = "cexp_connected",
                        ![a].cexp_set = tp[ins.res].cexp_set \union {outcome}]
      ELSE [tp EXCEPT ![a].connect_type = "yes_connected", ![a].cexp_set = {}]

max_left_right(ins) ==
  Max({0} \union {ins.arg[j] : j \in {k \in 1 .. 2 : ins.kind[k] = "v"}})

ReverseCondExp ==
  /\ Back(CondExp)
  /\ LET ins == Instr(play, Behind)
         tp == Noted(tape, ins)
         index == Len(cskip_info) + 1
     IN  IF tape[ins.res].connect_type = "not_connected"
           THEN tape' = tp /\ UNCHANGED cskip_info
           ELSE /\ tape' = Branch(Branch(Needed(Needed(tp, ins, 1), ins, 2),
                                         ins, 3, <<TRUE, index>>),
                                  ins, 4, <<FALSE, index>>)
                /\ cskip_info' = Append(cskip_info,
                     [cop |-> Arg(play, Behind, 0), flag |-> Arg(play, Behind, 1),
                      left |-> ins.arg[1], right |-> ins.arg[2],
                      max_left_right |-> max_left_right(ins),
                      skip_var_true |-> <<>>, skip_var_false |-> <<>>, i_arg |-> 0])

(* Comparisons are never removed. *)
ReverseCompare ==
  /\ Back(Comparison)
  /\ LET ins == Instr(play, Behind)
     IN  tape' = Needed(Needed(tape, ins, 1), ins, 2)
  /\ UNCHANGED cskip_info

ReverseInv ==
  /\ Back({"Begin", "Inv"})
  /\ LET ins == Instr(play, Behind)
     IN  tape' = [Noted(tape, ins) EXCEPT ![ins.res].connect_type = "yes_connected"]
  /\ UNCHANGED cskip_info

ReversePar ==
  /\ Back({"Par"})
  /\ tape' = Noted(tape, Instr(play, Behind))
  /\ UNCHANGED cskip_info

(* The variables that are not needed for an outcome, in order. *)
Skipped(outcome) ==
  LET S == {a \in Address(play) : /\ tape[a].connect_type = "cexp_connected"
                                  /\ outcome \in tape[a].cexp_set}
  IN  CHOOSE s \in [1 .. Cardinality(S) -> S] :
        \A j, k \in DOMAIN s : j < k => s[j] < s[k]

(* index_sort, by the larger of left and right, be they addresses or       *)
(* indices of parameters.  Equal ones may come in any order.               *)
SortOrders ==
  LET key(i) == Max({cskip_info[i].left, cskip_info[i].right})
  IN  {p \in [DOMAIN cskip_info -> DOMAIN cskip_info] :
         /\ Range(p) = DOMAIN cskip_info
         /\ \A i \in DOMAIN p : i > 1 => key(p[i - 1]) <= key(p[i])}

(* Between the passes; and BeginOp, with its argument, is recorded. *)
Prepare ==
  /\ phase = "reverse"
  /\ OpAt(play, cursor).op = "Begin"
  /\ phase' = "forward"
  /\ cursor' = forward_start
  /\ cskip_info' = [i \in DOMAIN cskip_info |->
       [cskip_info[i] EXCEPT !.skip_var_true = Skipped(<<FALSE, i>>),
                             !.skip_var_false = Skipped(<<TRUE, i>>)]]
  /\ cskip_info_order' \in SortOrders
  /\ cskip_info_index' = Len(cskip_info)
  /\ rec' = Put(rec, [op |-> "Begin", kind |-> <<>>], <<0>>)
  /\ tape' = [tape EXCEPT ![0].new_op = 0, ![0].new_var = 0]
  /\ UNCHANGED <<play, conditional_skip, cskip_order_next, hash_table_var,
                 csum_work, dep_taddr>>

-----------------------------------------------------------------------------
(* The new recording. *)

Ahead == forward_next(play, cursor)

Current == Instr(play, Ahead)

(* The conditional skip that comes next. *)
NextSkip == cskip_info[cskip_info_order[cskip_order_next]]

(* Its operands have been computed. *)
Due ==
  /\ cskip_order_next <= Len(cskip_info)
  /\ Current.op # "Inv"
  /\ \/ NextSkip.max_left_right < Current.res
     \/ NumRes(Current.op) = 0 /\ NextSkip.max_left_right = Current.res

NumSkipped(info) == Len(info.skip_var_true) + Len(info.skip_var_false)

Inserts == Due /\ NumSkipped(NextSkip) > 0

(* ReserveArg: what is skipped is filled in at the end, when all new       *)
(* addresses are known; until then nobody reads it.                        *)
WithSkip ==
  IF Inserts THEN Put(rec, [op |-> "CSkip", kind |-> <<>>],
                      [k \in 1 .. 7 + NumSkipped(NextSkip) |-> 0])
             ELSE rec

Reserved ==
  IF Inserts
    THEN [cskip_info EXCEPT ![cskip_info_order[cskip_order_next]].i_arg =
            Len(rec.op_arg_rec_)]
    ELSE cskip_info

(* Of an operator without results, this is the variable before it. *)
Unmatched == [tape EXCEPT ![Current.res].match = FALSE]

Forward(ops) ==
  /\ phase = "forward"
  /\ Current.op \in ops
  /\ cursor' = Ahead
  /\ cskip_order_next' = IF Due THEN cskip_order_next + 1 ELSE cskip_order_next
  /\ UNCHANGED <<play, conditional_skip, cskip_info_order>>

(* Mutants of Kept: what is not connected is kept, and a sum that is part  *)
(* of another is recorded as well.                                         *)
KeptUnconnected(ins) ==
  ins.op \in Summation => tape[ins.res].connect_type # "csum_connected"

KeptSums(ins) == tape[ins.res].connect_type # "not_connected"

Kept(ins) ==
  /\ tape[ins.res].connect_type # "not_connected"
  /\ ins.op \in Summation => tape[ins.res].connect_type # "csum_connected"

Drop ==
  /\ Forward(Unary \union Binary \union CondExp \union {"Par"})
  /\ ~Kept(Current)
  /\ rec' = WithSkip
  /\ cskip_info' = Reserved
  /\ tape' = Unmatched
  /\ UNCHANGED <<phase, cskip_info_index, hash_table_var, csum_work, dep_taddr>>

-----------------------------------------------------------------------------
(* Operators that compute what an earlier one computes. *)

(* The operands of an instruction, by new addresses. *)
NewOperands(ins) ==
  [j \in DOMAIN ins.arg |->
     IF ins.kind[j] = "v" THEN tape[ins.arg[j]].new_var
                          ELSE play.par_rec_[ins.arg[j] + 1]]

(* The variable last recorded under the hash code of an operator, if it is *)
(* the same operator on the same operands; or 0.                           *)
Candidate(ins, operands) ==
  LET m == hash_table_var[hash_code(ins.op, ins.kind, operands)]
      c == tape[m].ins
  IN  IF c.op = ins.op /\ c.kind = ins.kind /\ NewOperands(c) = operands
        THEN m ELSE 0

(* Mutant of Commutes. *)
CommutesAlways(ins) == ins.kind = <<"v", "v">>

Commutes(ins) == ins.op \in {"Add", "Mul"} /\ ins.kind = <<"v", "v">>

(* unary_match, binary_match *)
Matching(ins) ==
  LET s == NewOperands(ins)
      m == Candidate(ins, s)
  IN  IF m = 0 /\ Commutes(ins) THEN Candidate(ins, <<s[2], s[1]>>) ELSE m

(* An operand is a sum that is part of this one. *)
GathersSum(ins) ==
  /\ ins.op \in Summation
  /\ \E j \in DOMAIN ins.arg :
       ins.kind[j] = "v" /\ tape[ins.arg[j]].connect_type = "csum_connected"

Arithmetic ==
  /\ Forward(Unary \union Binary)
  /\ Kept(Current)
  /\ ~GathersSum(Current)

Merge ==
  /\ Arithmetic
  /\ Matching(Current) > 0
  /\ rec' = WithSkip
  /\ cskip_info' = Reserved
  /\ LET m == Matching(Current)
     IN  tape' = [tape EXCEPT ![Current.res].match = TRUE,
                              ![Current.res].new_var = tape[m].new_var,
                              ![m].match = TRUE]
  /\ UNCHANGED <<phase, cskip_info_index, hash_table_var, csum_work, dep_taddr>>

-----------------------------------------------------------------------------
(* Operators that are recorded again. *)

PutOperand(R, ins, j) ==
  IF j \in DOMAIN ins.arg /\ ins.kind[j] = "p"
    THEN PutPar(R, play.par_rec_[ins.arg[j] + 1]) ELSE R

(* The recorder with the parameters of an instruction. *)
PutOperands(R, ins) ==
  PutOperand(PutOperand(PutOperand(PutOperand(R, ins, 1), ins, 2), ins, 3), ins, 4)

new_arg(R, ins) ==
  [j \in DOMAIN ins.arg |->
     IF ins.kind[j] = "v" THEN tape[ins.arg[j]].new_var
                          ELSE IndexOf(R, play.par_rec_[ins.arg[j] + 1])]

(* What an operator with a comparison in its arguments has before the      *)
(* operands: which comparison, and which operands are variables.           *)
Prefix == IF Current.op \in CondExp THEN <<Arg(play, Ahead, 0), Arg(play, Ahead, 1)>> ELSE <<>>

Rerecorded ==
  LET R == PutOperands(WithSkip, Current)
  IN  Put(R, OpAt(play, Ahead), Prefix \o new_arg(R, Current))

RecordResult ==
  /\ rec' = Rerecorded
  /\ tape' = [Unmatched EXCEPT ![Current.res].new_op = Len(WithSkip.op_rec_),
                               ![Current.res].new_var = rec'.num_var_rec_ - 1]

RecordArithmetic ==
  /\ Arithmetic
  /\ Matching(Current) = 0
  /\ RecordResult
  /\ cskip_info' = Reserved
  /\ hash_table_var' =
       [hash_table_var EXCEPT
          ![hash_code(Current.op, Current.kind, NewOperands(Current))] = Current.res]
  /\ UNCHANGED <<phase, cskip_info_index, csum_work, dep_taddr>>

RecordVariable ==
  /\ Forward({"Inv", "Par"})
  /\ Current.op = "Par" => Kept(Current)
  /\ RecordResult
  /\ cskip_info' = Reserved
  /\ UNCHANGED <<phase, cskip_info_index, hash_table_var, csum_work, dep_taddr>>

(* The operands of the comparison get their new addresses. *)
RecordCondExp ==
  /\ Forward(CondExp)
  /\ Kept(Current)
  /\ RecordResult
  /\ cskip_info_index' = cskip_info_index - 1
  /\ LET arg == new_arg(rec', Current)
     IN  cskip_info' = [Reserved EXCEPT ![cskip_info_index].left = arg[1],
                                        ![cskip_info_index].right = arg[2]]
  /\ UNCHANGED <<phase, hash_table_var, csum_work, dep_taddr>>

RecordCompare ==
  /\ Forward(Comparison)
  /\ rec' = Rerecorded
  /\ tape' = Unmatched
  /\ cskip_info' = Reserved
  /\ UNCHANGED <<phase, cskip_info_index, hash_table_var, csum_work, dep_taddr>>

-----------------------------------------------------------------------------
(* record_csum: a sum with the sums that are part of it.                   *)

StartSum ==
  /\ Forward(Summation)
  /\ Kept(Current)
  /\ GathersSum(Current)
  /\ phase' = "csum"
  /\ rec' = WithSkip
  /\ cskip_info' = Reserved
  /\ tape' = Unmatched
  /\ csum_work' = [csum_work EXCEPT !.op_stack = <<[ins |-> Current, add |-> TRUE]>>]
  /\ UNCHANGED <<cskip_info_index, hash_table_var, dep_taddr>>

(* Operand j of a sum, that is added or subtracted. *)
SumOperand(work, ins, j, add) ==
  LET a == ins.arg[j]
  IN  IF ins.kind[j] = "p"
        THEN [work EXCEPT !.sum_par = IF add THEN @ ++ play.par_rec_[a + 1]
                                             ELSE @ -- play.par_rec_[a + 1]]
      ELSE IF tape[a].connect_type = "csum_connected"
        THEN [work EXCEPT !.op_stack = Append(@, [ins |-> tape[a].ins, add |-> add])]
      ELSE IF add THEN [work EXCEPT !.add_stack = Append(@, a)]
      ELSE [work EXCEPT !.sub_stack = Append(@, a)]

SumOperands(work, ins, add) ==
  SumOperand(SumOperand(work, ins, 1, add), ins, 2, add <=> ins.op = "Add")

SumNext ==
  /\ phase = "csum"
  /\ csum_work.op_stack # <<>>
  /\ LET var == Last(csum_work.op_stack)
     IN  csum_work' = SumOperands([csum_work EXCEPT !.op_stack = Front(@)],
                                  var.ins, var.add)
  /\ UNCHANGED <<play, conditional_skip, phase, cursor, tape, cskip_info,
                 cskip_info_order, cskip_order_next, cskip_info_index,
                 hash_table_var, rec, dep_taddr>>

(* The new addresses on a stack, from its top. *)
Popped(stack) == [i \in DOMAIN stack |-> tape[Reverse(stack)[i]].new_var]

SumEnd ==
  /\ phase = "csum"
  /\ csum_work.op_stack = <<>>
  /\ LET n_add == Len(csum_work.add_stack)
         n_sub == Len(csum_work.sub_stack)
         R == PutPar(rec, csum_work.sum_par)
     IN  /\ rec' = Put(R, [op |-> "CSum", kind |-> <<>>],
                       <<n_add, n_sub, IndexOf(R, csum_work.sum_par)>>
                         \o Popped(csum_work.add_stack)
                         \o Popped(csum_work.sub_stack) \o <<n_add + n_sub>>)
         /\ tape' = [tape EXCEPT ![cursor.var_index_].new_op = Len(rec.op_rec_),
                                 ![cursor.var_index_].new_var = rec'.num_var_rec_ - 1]
  /\ phase' = "forward"
  /\ csum_work' = NoWork
  /\ UNCHANGED <<play, conditional_skip, cursor, cskip_info, cskip_info_order,
                 cskip_order_next, cskip_info_index, hash_table_var, dep_taddr>>

-----------------------------------------------------------------------------
(* EndOp is recorded, the dependent variables get their new addresses, and *)
(* the arguments of the conditional skips are filled in.                   *)

(* Mutant of SkippedOp: the address of a variable is taken for the         *)
(* operator that computed it.                                              *)
SkippedVar(tp, num_op_rec, a) == tp[a].new_var

(* The operator that computed a; if others match it, none: an index that   *)
(* no operator has.                                                        *)
SkippedOp(tp, num_op_rec, a) == IF tp[a].match THEN num_op_rec ELSE tp[a].new_op

SkipWords(tp, num_op_rec, info) ==
  LET ops(s) == [i \in DOMAIN s |-> SkippedOp(tp, num_op_rec, s[i])]
  IN  <<info.cop, info.flag, info.left, info.right,
        Len(info.skip_var_true), Len(info.skip_var_false)>>
        \o ops(info.skip_var_true) \o ops(info.skip_var_false)
        \o <<NumSkipped(info)>>

(* ReplaceArg, for each conditional skip that was put. *)
FilledIn(R, tp, infos) ==
  LET words(i) == SkipWords(tp, Len(R.op_rec_), infos[i])
      at(k) == {i \in DOMAIN infos : /\ infos[i].i_arg > 0
                                     /\ k - infos[i].i_arg \in DOMAIN words(i)}
  IN  [R EXCEPT !.op_arg_rec_ =
         [k \in DOMAIN @ |->
            IF at(k) = {} THEN @[k]
            ELSE LET i == CHOOSE i \in at(k) : TRUE IN words(i)[k - infos[i].i_arg]]]

Finish ==
  /\ Forward({"End"})
  /\ phase' = "done"
  /\ rec' = FilledIn(Put(WithSkip, OpAt(play, Ahead), <<>>), Unmatched, Reserved)
  /\ tape' = Unmatched
  /\ cskip_info' = Reserved
  /\ dep_taddr' = [i \in DOMAIN dep_taddr |-> tape[dep_taddr[i]].new_var]
  /\ UNCHANGED <<cskip_info_index, hash_table_var, csum_work>>

Next ==
  \/ ReverseArithmetic \/ ReverseCondExp \/ ReverseCompare \/ ReverseInv \/ ReversePar
  \/ Prepare
  \/ Drop \/ Merge
  \/ RecordArithmetic \/ RecordVariable \/ RecordCondExp \/ RecordCompare
  \/ StartSum \/ SumNext \/ SumEnd
  \/ Finish

Spec == Init /\ [][Next]_vars

-----------------------------------------------------------------------------
(* The recording that player::get takes from the recorder. *)
NewRecording ==
  LET fromZero(s) == [k \in 0 .. Len(s) - 1 |-> s[k + 1]]
  IN  [n |-> play.n,
       op_rec_ |-> fromZero(rec.op_rec_), num_op_rec |-> Len(rec.op_rec_),
       op_arg_rec_ |-> fromZero(rec.op_arg_rec_), num_op_arg_rec |-> Len(rec.op_arg_rec_),
       par_rec_ |-> rec.par_rec_, num_var_rec |-> rec.num_var_rec_,
       dep_taddr_ |-> dep_taddr,
       first |-> fromZero(rec.first), last |-> fromZero(rec.last)]
-----------------------------------------------------------------------------
(* The state keeps its types. *)
TypeOK ==
  /\ conditional_skip \in BOOLEAN
  /\ phase \in {"reverse", "forward", "csum", "done"}
  /\ cursor.op_index_ \in 0 .. play.num_op_rec - 1
  /\ cursor = At(play, cursor.op_index_)
  /\ DOMAIN tape = Address(play)
  /\ \A a \in Address(play) :
       /\ tape[a].ins \in {Instr(play, At(play, i)) : i \in 0 .. play.num_op_rec - 1}
       /\ tape[a].connect_type \in connect_types
       /\ tape[a].cexp_set \subseteq BOOLEAN \X DOMAIN cskip_info
       /\ tape[a].new_var \in 0 .. Invalid
       /\ tape[a].new_op \in 0 .. Len(rec.op_rec_)
       /\ tape[a].match \in BOOLEAN
  /\ Len(cskip_info_order) \in {0, Len(cskip_info)}
  /\ Range(cskip_info_order) \subseteq DOMAIN cskip_info
  /\ cskip_order_next \in 1 .. Len(cskip_info_order) + 1
  /\ cskip_info_index \in 0 .. Len(cskip_info)
  /\ hash_table_var \in [HashCode -> Address(play)]
  /\ rec.num_var_rec_ \in 0 .. play.num_var_rec
  /\ dep_taddr \in Seq(Address(play))

(***************************************************************************)
(* The assertions of record_pv, record_vp, record_vv, record_csum and of   *)
(* the forward pass (new_arg < i_var): the operands of what is recorded    *)
(* have been recorded, whatever was left out, replaced or made part of a   *)
(* sum on the way to them.                                                 *)
(***************************************************************************)
HasNewVar(a) == tape[a].new_var < rec.num_var_rec_

OperandsRecorded ==
  /\ (/\ phase = "forward"
      /\ Current.op \in Comparison \/ Kept(Current)
      /\ ~GathersSum(Current)) =>
       \A j \in DOMAIN Current.arg : Current.kind[j] = "v" => HasNewVar(Current.arg[j])
  /\ phase = "csum" =>
       /\ \A a \in Range(csum_work.add_stack) \union Range(csum_work.sub_stack) : HasNewVar(a)
       /\ \A var \in Range(csum_work.op_stack) : \A j \in DOMAIN var.ins.arg :
            var.ins.kind[j] = "v" =>
              LET v == tape[var.ins.arg[j]]
              IN  HasNewVar(var.ins.arg[j]) # (v.connect_type = "csum_connected")

(***************************************************************************)
(* Variables that are replaced by the same new one have the same value,    *)
(* wherever the function is computed: hash codes that collide, table       *)
(* entries of other operators and exchanged operands must not identify     *)
(* variables that differ.                                                  *)
(***************************************************************************)
MergedAgree ==
  \A y \in Valuations(play) : \A a, b \in Address(play) :
    tape[a].new_var = tape[b].new_var /\ tape[a].new_var # Invalid => y[a] = y[b]

(* The new recording is one a player can play (module Player). *)
OutputPlayable == phase = "done" => WellFormed(NewRecording)

-----------------------------------------------------------------------------
(* Playing a recording at u, along d: the coefficients of order 0 and 1 of *)
(* all variables, which start as g, and what the comparisons say.  What a  *)
(* conditional skip names is not computed.                                 *)

Compute(t, y, ins) ==
  LET s == Operands(ins, y.order0, t.par_rec_)
      d == Operands(ins, y.order1, [i \in DOMAIN t.par_rec_ |-> Zero])
      z == Order0(ins, s)
      aux == Aux(ins.op, s)
      two == ins.op \in TwoResults
  IN  [y EXCEPT
         !.order0 = [a \in DOMAIN @ |-> IF a = ins.res THEN z
                                        ELSE IF two /\ a = ins.res - 1 THEN aux ELSE @[a]],
         !.order1 = [a \in DOMAIN @ |->
            IF a = ins.res
              THEN Order1(ins, s, d, z, IF two THEN aux ELSE y.order0[ins.res - 1])
            ELSE IF two /\ a = ins.res - 1 THEN Aux1(ins, d, z) ELSE @[a]]]

PlayOperator(t, y, i) ==
  LET ins == Instr(t, At(t, i))
      s == Operands(ins, y.order0, t.par_rec_)
  IN  IF i \in y.skipped \/ ins.op \in {"Begin", "Inv", "End"} THEN y
      ELSE IF ins.op \in Comparison
        THEN [y EXCEPT !.compared = Append(@, Holds(ins.op, s[1], s[2]))]
      ELSE IF ins.op = "CSkip"
        THEN [y EXCEPT !.skipped =
                @ \union IF Holds(ins.test, s[1], s[2]) THEN ins.if_true ELSE ins.if_false]
      ELSE Compute(t, y, ins)

Played(t, u, d, g) ==
  LET start(v) == [a \in Address(t) |-> IF a \in 1 .. t.n THEN v[a] ELSE g]
  IN  FoldLeft(LAMBDA y, i : PlayOperator(t, y, i),
               [order0 |-> start(u), order1 |-> start(d), skipped |-> {}, compared |-> <<>>],
               [i \in 1 .. t.num_op_rec |-> i - 1])

Results(t, u, d, g) ==
  LET y == Played(t, u, d, g)
  IN  <<[i \in DOMAIN t.dep_taddr_ |-> <<y.order0[t.dep_taddr_[i]], y.order1[t.dep_taddr_[i]]>>],
        y.compared>>

(* The new recording computes the same function and derivative values      *)
(* (comment on ADFun::optimize), whatever it skips, and its comparisons    *)
(* say the same.                                                           *)
SameFunction ==
  phase = "done" =>
    \A u, d \in [1 .. play.n -> Num], g \in Num :
      Results(NewRecording, u, d, g) = Results(play, u, d, g)
=============================================================================
