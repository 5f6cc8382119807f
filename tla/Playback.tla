------------------------------ MODULE Playback ------------------------------
(***************************************************************************)
(* Recording and playing together.  Module Recording says which            *)
(* instructions an operation puts on the tape; here PutOp and PutArg write *)
(* them to the flat vectors of the recorder, and Dependent hands those to  *)
(* the player of an ADFun object, player::get.  Nothing in the vectors     *)
(* says where the arguments of an operator start or what it is for: that   *)
(* the player finds in them what the recorder wrote rests on two tables,   *)
(* NumArg and NumRes, and on every operator putting what they say.         *)
(***************************************************************************)
EXTENDS Recording, SequencesExt

Plays == INSTANCE Player WITH Tapes <- {}

VARIABLES
  vec,        (* The vectors of the recorder.  first and last are no part  *)
              (* of it: the offset of the first argument of each operator, *)
              (* and what PutOp returned for it.                           *)
  play        (* The player of the ADFun object f.                         *)

playback == <<recording, object, Rec_, at, f, vec, play>>

-----------------------------------------------------------------------------

EmptyVectors ==
  [op_rec_ |-> <<>>, op_arg_rec_ |-> <<>>, num_var_rec_ |-> 0,
   first |-> <<>>, last |-> <<>>]

(* The op code of an instruction.  There is one for all conditional        *)
(* expressions, whatever they compare and whatever their operands are.     *)
OpCodeOf(ins) ==
  IF ins.op \in CondExp THEN [op |-> "CExp", kind |-> <<>>]
                        ELSE [op |-> ins.op, kind |-> ins.kind]

(* Which operands are variables, as bits. *)
Flags(kind) ==
  LET bit(k) == IF kind[k] = "v" THEN Plays!Flag[k] ELSE 0
  IN  bit(1) + bit(2) + bit(3) + bit(4)

(* Mutant of Number: the enumeration goes the other way. *)
NumberBackwards(cop) == 5 - (CHOOSE k \in 1 .. 5 : Plays!CompareOp[k] = cop)

(* enum CompareOp *)
Number(cop) == (CHOOSE k \in 1 .. 5 : Plays!CompareOp[k] = cop) - 1

(* Mutant of Words: BeginOp is put without its argument. *)
WordsBare(ins) ==
  CASE ins.op = "Begin" -> <<>>
    [] ins.op \in CondExp -> <<Number(ins.op), Flags(ins.kind)>> \o ins.arg
    [] OTHER -> ins.arg

(* What an operator gives PutArg. *)
Words(ins) ==
  CASE ins.op = "Begin" -> <<0>>
    [] ins.op \in CondExp -> <<Number(ins.op), Flags(ins.kind)>> \o ins.arg
    [] OTHER -> ins.arg

PutInstruction(V, ins) ==
  [op_rec_ |-> Append(V.op_rec_, OpCodeOf(ins)),
   op_arg_rec_ |-> V.op_arg_rec_ \o Words(ins),
   num_var_rec_ |-> V.num_var_rec_ + NumRes(ins.op),
   first |-> Append(V.first, Len(V.op_arg_rec_)),
   last |-> Append(V.last, V.num_var_rec_ + NumRes(ins.op) - 1)]

-----------------------------------------------------------------------------

PlaybackInit ==
  /\ Init
  /\ vec = EmptyVectors
  /\ play = NoFun

(* BeginOp with its argument, and an InvOp for each independent variable. *)
Begin ==
  /\ \E x \in Vector : Independent(x)
  /\ vec' = [op_rec_ |-> [i \in 1 .. Dim + 1 |->
                            [op |-> IF i = 1 THEN "Begin" ELSE "Inv", kind |-> <<>>]],
             op_arg_rec_ |-> Words([op |-> "Begin"]),
             num_var_rec_ |-> Dim + 1,
             first |-> [i \in 1 .. Dim + 1 |->
                          IF i = 1 THEN 0 ELSE Len(Words([op |-> "Begin"]))],
             last |-> [i \in 1 .. Dim + 1 |-> i - 1]]
  /\ UNCHANGED play

(* An operation puts its instruction, if it has one. *)
Write ==
  /\ Operate
  /\ vec' = IF Rec_'.tape = Rec_.tape THEN vec
            ELSE PutInstruction(vec, Rec_'.tape[Len(Rec_'.tape)])
  /\ UNCHANGED play

(* The player takes the vectors V. *)
get(V, par_rec_, dep_taddr_) ==
  LET fromZero(s) == [k \in 0 .. Len(s) - 1 |-> s[k + 1]]
  IN  [n |-> Dim,
       op_rec_ |-> fromZero(V.op_rec_), num_op_rec |-> Len(V.op_rec_),
       op_arg_rec_ |-> fromZero(V.op_arg_rec_), num_op_arg_rec |-> Len(V.op_arg_rec_),
       par_rec_ |-> par_rec_, num_var_rec |-> V.num_var_rec_,
       dep_taddr_ |-> <<dep_taddr_>>,
       first |-> fromZero(V.first), last |-> fromZero(V.last)]

(* The vectors with what Dependent adds: ParOp if the dependent variable   *)
(* is a parameter, and EndOp.                                              *)
Complete(V, done, tape) ==
  LET n == Len(tape)
      W == IF n = done + 2 THEN PutInstruction(V, tape[n - 1]) ELSE V
  IN  PutInstruction(W, tape[n])

Take ==
  /\ \E y \in Object : Dependent(y)
  /\ play' = get(Complete(vec, Len(Rec_.tape), f'.tape), f'.par_rec_, f'.dep_taddr_)
  /\ vec' = EmptyVectors

Discard ==
  /\ AbortRecording
  /\ vec' = EmptyVectors
  /\ UNCHANGED play

PlaybackNext == Begin \/ Write \/ Take \/ Discard

PlaybackSpec == PlaybackInit /\ [][PlaybackNext]_playback

-----------------------------------------------------------------------------

(* The player reads the instructions tape. *)
ReadsAs(t, tape) ==
  /\ t.num_op_rec = Len(tape)
  /\ \A i \in 1 .. Len(tape) : Plays!Instr(t, Plays!At(t, i - 1)) = tape[i]

(* What player::get takes over, after any operations, shortcuts and        *)
(* aborted recordings, is what the sweeps rely on: arguments follow each   *)
(* other without a gap when counted with NumArg, results with NumRes, and  *)
(* operands are results of earlier operators, never auxiliary variables.   *)
(* And what is read there is what the program recorded.                    *)
Playable ==
  [][<<f, play>>' # <<f, play>> => Plays!WellFormed(play') /\ ReadsAs(play', f'.tape)]_playback

(* The variables when the player goes through t from the independent      *)
(* values u with forward_next, as order zero forward does.                 *)
Replay(t, u) ==
  LET Compute(var, ins) ==
        LET s == Operands(ins, var, t.par_rec_)
        IN  [a \in DOMAIN var |->
               IF a = ins.res THEN Value(ins.op, s)
               ELSE IF ins.op \in TwoResults /\ a = ins.res - 1 THEN Aux(ins.op, s)
               ELSE var[a]]
      Step(s, i) ==
        LET c == Plays!forward_next(t, s.cursor)
            ins == Plays!Instr(t, c)
        IN  [cursor |-> c,
             var |-> IF ins.op = "Inv" \/ NumRes(ins.op) = 0 THEN s.var
                     ELSE Compute(s.var, ins)]
      start == [cursor |-> Plays!forward_start,
                var |-> [a \in 1 .. t.num_var_rec - 1 |->
                           IF a \in 1 .. Dim THEN u[a] ELSE Zero]]
  IN  FoldLeft(Step, start, [i \in 1 .. t.num_op_rec - 1 |-> i]).var

(* Played from any point, not only the one it was recorded at, a recording *)
(* gives every variable the value of the function the program computed     *)
(* for it.                                                                 *)
PlaysBack ==
  [][<<f, play>>' # <<f, play>> => \A u \in Point : Replay(play', u) = Played(f', u)]_playback
=============================================================================
