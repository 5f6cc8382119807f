-------------------------- MODULE TapeLink_proofs --------------------------
(***************************************************************************)
(* TapeLink for every number of threads, objects and vectors: its          *)
(* invariant, and that tape identifiers implement recording sessions.      *)
(***************************************************************************)
EXTENDS TapeLink, Integers, TLAPS

-----------------------------------------------------------------------------
(***************************************************************************)
(* Arithmetic of the identifiers.  The provers know the remainder only     *)
(* with its quotient, so its uniqueness comes first.                       *)
(***************************************************************************)

(* The quotient and the remainder recompose the number. *)
LEMMA Division ==
  ASSUME NEW n \in Nat \ {0}, NEW a \in Nat
  PROVE  /\ a \div n \in Nat
         /\ a % n \in 0 .. n - 1
         /\ a = n * (a \div n) + (a % n)
  BY SMT

LEMMA ProductBound ==
  ASSUME NEW n \in Nat \ {0}, NEW k \in Int, k >= 1
  PROVE  n * k >= n
  BY SMT

(* Two remainders of the same number are equal. *)
LEMMA RemainderUnique ==
  ASSUME NEW n \in Nat \ {0}, NEW p \in Int, NEW q \in Int,
         NEW r \in 0 .. n - 1, NEW s \in 0 .. n - 1,
         n * p + r = n * q + s
  PROVE  r = s
<1>1. n * (p - q) = s - r /\ n * (q - p) = r - s
  BY SMT
<1>2. CASE p > q
  <2>1. n * (p - q) >= n
    BY <1>2, ProductBound
  <2>2. QED
    BY <2>1, <1>1
<1>3. CASE p < q
  <2>1. n * (q - p) >= n
    BY <1>3, ProductBound
  <2>2. QED
    BY <2>1, <1>1
<1>4. CASE p = q
  BY <1>4
<1>5. QED
  BY <1>2, <1>3, <1>4

LEMMA RemainderOfNext ==
  ASSUME NEW n \in Nat \ {0}, NEW a \in Nat, NEW b \in Nat, b = a + n
  PROVE  b % n = a % n
<1> DEFINE p == a \div n
           q == b \div n
           r == a % n
           s == b % n
<1>1. /\ p \in Nat /\ r \in 0 .. n - 1 /\ a = n * p + r
  BY Division
<1>2. /\ q \in Nat /\ s \in 0 .. n - 1 /\ b = n * q + s
  BY Division
<1> HIDE DEF p, q, r, s
<1>3. n * (p + 1) = n * p + n
  BY <1>1
<1>4. n * (p + 1) + r = n * q + s
  BY <1>1, <1>2, <1>3
<1>5. p + 1 \in Int /\ q \in Int
  BY <1>1, <1>2
<1>6. r = s
  BY <1>1, <1>2, <1>4, <1>5, RemainderUnique
<1>7. QED
  BY <1>6 DEF r, s

(* Every identifier names a thread. *)
LEMMA ThreadOfType ==
  ASSUME NEW id \in Nat
  PROVE  ThreadOf(id) \in Thread
  BY ThreadsAssumption, Division DEF ThreadOf, Thread

(* Renumbering a tape keeps its thread. *)
LEMMA ThreadOfNext ==
  ASSUME NEW id \in Nat
  PROVE  ThreadOf(id + CPPAD_MAX_NUM_THREADS) = ThreadOf(id)
<1>1. id + CPPAD_MAX_NUM_THREADS \in Nat
  BY ThreadsAssumption
<1>2. QED
  BY <1>1, ThreadsAssumption, RemainderOfNext DEF ThreadOf

(* The first identifier of a thread names it. *)
LEMMA ThreadOfFirst ==
  ASSUME NEW t \in Thread
  PROVE  /\ t \in Nat
         /\ ThreadOf(t + CPPAD_MAX_NUM_THREADS) = t
<1>1. t \in Nat /\ t \in 0 .. CPPAD_MAX_NUM_THREADS - 1
  BY ThreadsAssumption DEF Thread
<1>2. t % CPPAD_MAX_NUM_THREADS = t
  BY <1>1, ThreadsAssumption, SMT
<1>3. QED
  BY <1>1, <1>2, ThreadOfNext DEF ThreadOf

-----------------------------------------------------------------------------
(***************************************************************************)
(* The inductive invariant.                                                *)
(***************************************************************************)

(* An object that names no tape is one. *)
LEMMA NoTapeIsAD ==
  /\ [tape_id_ |-> 0, taddr_ |-> 0] \in AD
  /\ \A o \in AD : [o EXCEPT !.tape_id_ = 0] \in AD
  BY BoundsAssumption DEF AD, TapeId

LEMMA InitLinkInv == Init => LinkInv
<1> SUFFICES ASSUME Init
             PROVE  LinkInv
  OBVIOUS
<1>0. 0 \in TapeId
  BY BoundsAssumption DEF TapeId
<1>1. TypeOK
  BY <1>0, NoTapeIsAD DEF Init, TypeOK
<1>2. \A o \in Object : object[o].tape_id_ = 0
  BY DEF Init
<1>3. \A o \in Object : ~Variable(o)
  BY <1>2 DEF Variable
<1>4. QED
  BY <1>1, <1>2, <1>3
     DEF Init, LinkInv, HandleFollowsTable, NoDanglingTape, RecorderEmptyWhenIdle,
         IdsSeparateThreads, IdsAreFresh, VariablesAreLive

(* What the invariant says of a thread that is recording. *)
LEMMA RecordingThread ==
  ASSUME LinkInv, NEW t \in Thread, tape_handle[t]
  PROVE  /\ tape_table[t]
         /\ tape_id_handle[t] = "tape"
         /\ CurrentId(t) = id_[t]
         /\ id_[t] \in Nat \ {0}
         /\ id_[t] >= CPPAD_MAX_NUM_THREADS
         /\ ThreadOf(id_[t]) = t
  BY ThreadsAssumption
     DEF LinkInv, TypeOK, TapeId, HandleFollowsTable, NoDanglingTape,
         IdsSeparateThreads, CurrentId

(* The identifier tape_manage(new) hands out is past every one in use. *)
LEMMA AttachedIdFacts ==
  ASSUME LinkInv, NEW t \in Thread
  PROVE  /\ AttachedId(t) \in TapeId /\ AttachedId(t) \in Nat
         /\ AttachedId(t) >= CPPAD_MAX_NUM_THREADS
         /\ ThreadOf(AttachedId(t)) = t
         /\ tape_id_handle[t] # "null" => AttachedId(t) = CurrentId(t)
<1> USE ThreadsAssumption
        DEF LinkInv, TypeOK, TapeId, HandleFollowsTable, IdsSeparateThreads, CurrentId,
            AttachedId
<1>1. CASE tape_table[t]
  BY <1>1
<1>2. CASE ~tape_table[t] /\ tape_id_handle[t] = "null"
  <2>1. AttachedId(t) = t + CPPAD_MAX_NUM_THREADS
    BY <1>2
  <2>2. t \in 0 .. CPPAD_MAX_NUM_THREADS - 1
    BY DEF Thread
  <2>3. AttachedId(t) \in TapeId
    BY <2>1, <2>2, BoundsAssumption
  <2>4. QED
    BY <1>2, <2>1, <2>3, ThreadOfFirst
<1>3. CASE ~tape_table[t] /\ tape_id_handle[t] = "save"
  BY <1>3
<1>4. QED
  BY <1>1, <1>2, <1>3

(* An object whose identifier is the current one of a recording thread. *)
LEMMA OnTapeIsVariable ==
  ASSUME LinkInv, NEW t \in Thread, NEW o \in Object, OnTape(t, o)
  PROVE  /\ Variable(o)
         /\ ThreadOf(object[o].tape_id_) = t
         /\ object[o].taddr_ \in 1 .. num_var_rec[t] - 1
<1>1. tape_handle[t] /\ object[o].tape_id_ = id_[t]
  BY DEF OnTape
<1>2. ThreadOf(object[o].tape_id_) = t /\ Variable(o)
  BY <1>1, RecordingThread DEF Variable
<1>3. QED
  BY <1>1, <1>2 DEF LinkInv, VariablesAreLive

(* A step that gives the object r the content new, which another object    *)
(* has or which names no tape, keeps the invariant.                        *)
LEMMA SetObjectInv ==
  ASSUME LinkInv, NEW r \in Object, NEW new \in AD,
         SetObject(r, new),
         new.tape_id_ # 0 => \E v \in Object : new = object[v]
  PROVE  LinkInv'
<1>1. TypeOK'
  BY DEF SetObject, tapeVars, LinkInv, TypeOK
<1>2. /\ HandleFollowsTable'
      /\ NoDanglingTape'
      /\ RecorderEmptyWhenIdle'
      /\ IdsSeparateThreads'
  BY DEF SetObject, tapeVars, LinkInv, HandleFollowsTable, NoDanglingTape,
         RecorderEmptyWhenIdle, IdsSeparateThreads, CurrentId
<1>3. \A o \in Object :
        object'[o].tape_id_ # 0 => \E v \in Object : object'[o] = object[v]
  BY DEF SetObject, LinkInv, TypeOK
<1>4. \A t \in Thread : CurrentId(t)' = CurrentId(t)
  BY DEF SetObject, tapeVars, CurrentId
<1>5. \A o \in Object : object[o].tape_id_ \in Nat
  BY DEF LinkInv, TypeOK, AD, TapeId
<1>6. IdsAreFresh'
  BY <1>3, <1>4, <1>5, ThreadOfType
     DEF LinkInv, IdsAreFresh, SetObject, tapeVars
<1>7. VariablesAreLive'
  <2> SUFFICES ASSUME NEW o \in Object, Variable(o)'
               PROVE  LET t == ThreadOf(object'[o].tape_id_)
                      IN  /\ tape_handle'[t]
                          /\ object'[o].taddr_ \in 1 .. num_var_rec'[t] - 1
    BY DEF VariablesAreLive, ThreadOf
  <2>1. PICK v \in Object : object'[o] = object[v]
    BY <1>3 DEF Variable
  <2>2. Variable(v)
    BY <1>4, <1>5, <2>1, ThreadOfType DEF Variable, ThreadOf
  <2>3. QED
    BY <2>1, <2>2 DEF LinkInv, VariablesAreLive, SetObject, tapeVars
<1>8. QED
  BY <1>1, <1>2, <1>6, <1>7 DEF LinkInv

(* A step that records an operator keeps the invariant. *)
LEMMA PutOpInv ==
  ASSUME LinkInv, NEW t \in Thread, NEW r \in Object,
         tape_handle[t], PutOp(t, r)
  PROVE  LinkInv'
<1>0. /\ id_[t] \in Nat \ {0}
      /\ ThreadOf(id_[t]) = t
      /\ CurrentId(t) = id_[t]
      /\ tape_id_handle[t] = "tape"
  BY RecordingThread
<1>1. TypeOK'
  BY <1>0 DEF PutOp, tapeVars, LinkInv, TypeOK, AD
<1>2. /\ HandleFollowsTable'
      /\ NoDanglingTape'
      /\ RecorderEmptyWhenIdle'
      /\ IdsSeparateThreads'
  BY DEF PutOp, tapeVars, LinkInv, HandleFollowsTable, NoDanglingTape,
         RecorderEmptyWhenIdle, IdsSeparateThreads, CurrentId, TypeOK
<1>3. \A u \in Thread : CurrentId(u)' = CurrentId(u)
  BY DEF PutOp, tapeVars, CurrentId
<1>4. /\ object'[r].tape_id_ = id_[t]
      /\ object'[r].taddr_ = num_var_rec[t]
      /\ num_var_rec'[t] = num_var_rec[t] + 1
      /\ num_var_rec[t] \in Nat
      /\ \A u \in Thread \ {t} : num_var_rec'[u] = num_var_rec[u]
      /\ \A o \in Object \ {r} : object'[o] = object[o]
  BY DEF PutOp, LinkInv, TypeOK
<1>5. \A o \in Object : object[o].tape_id_ \in Nat /\ object[o].taddr_ \in Nat
  BY DEF LinkInv, TypeOK, AD, TapeId
<1>6. num_var_rec[t] > 0
  BY <1>4 DEF LinkInv, RecorderEmptyWhenIdle
<1>7. IdsAreFresh'
  BY <1>0, <1>3, <1>4, <1>5, ThreadOfType
     DEF LinkInv, IdsAreFresh, PutOp, tapeVars, ThreadOf
<1>8. VariablesAreLive'
  <2> SUFFICES ASSUME NEW o \in Object, Variable(o)'
               PROVE  /\ tape_handle'[ThreadOf(object'[o].tape_id_)]
                      /\ object'[o].taddr_
                           \in 1 .. num_var_rec'[ThreadOf(object'[o].tape_id_)] - 1
    BY DEF VariablesAreLive, ThreadOf
  <2>1. CASE o = r
    BY <2>1, <1>0, <1>4, <1>6 DEF PutOp, tapeVars
  <2>2. CASE o # r
    <3>1. object'[o] = object[o]
      BY <2>2, <1>4
    <3>2. Variable(o)
      BY <3>1, <1>3, <1>5, ThreadOfType DEF Variable, ThreadOf
    <3>3. PICK u \in Thread : u = ThreadOf(object[o].tape_id_)
      BY <1>5, ThreadOfType
    <3>4. tape_handle[u] /\ object[o].taddr_ \in 1 .. num_var_rec[u] - 1
      BY <3>2, <3>3 DEF LinkInv, VariablesAreLive
    <3>5. num_var_rec'[u] = num_var_rec[u] \/ num_var_rec'[u] = num_var_rec[u] + 1
      BY <1>4
    <3>6. num_var_rec[u] \in Nat
      BY DEF LinkInv, TypeOK
    <3>7. object[o].taddr_ \in 1 .. num_var_rec'[u] - 1
      BY <3>4, <3>5, <3>6
    <3>8. QED
      BY <3>1, <3>3, <3>4, <3>7 DEF PutOp, tapeVars
  <2>3. QED
    BY <2>1, <2>2
<1>9. QED
  BY <1>1, <1>2, <1>7, <1>8 DEF LinkInv

(* Opening a recording keeps the invariant: the identifier it takes is on  *)
(* no object, since every one is below it or belongs to another thread.    *)
LEMMA IndependentInv ==
  ASSUME LinkInv, NEW t \in Thread, NEW x \in Vector, Independent(t, x)
  PROVE  LinkInv'
<1>1. /\ AttachedId(t) \in TapeId /\ AttachedId(t) \in Nat
      /\ AttachedId(t) >= CPPAD_MAX_NUM_THREADS
      /\ ThreadOf(AttachedId(t)) = t
      /\ tape_id_handle[t] # "null" => AttachedId(t) = CurrentId(t)
  BY AttachedIdFacts
<1>2. /\ Len(x) \in Nat \ {0}
      /\ DOMAIN x = 1 .. Len(x)
  BY VectorAssumption
<1>3. ~tape_handle[t] /\ num_var_rec[t] = 0
  BY DEF Independent, TapeManageNew, LinkInv, RecorderEmptyWhenIdle
<1>4. \A o \in Object :
        \/ object'[o] = object[o]
        \/ /\ object'[o].tape_id_ = AttachedId(t)
           /\ object'[o].taddr_ \in 1 .. Len(x)
  BY <1>2 DEF Independent
<1>5. \A o \in Object : object[o].tape_id_ \in Nat /\ object[o].taddr_ \in Nat
  BY DEF LinkInv, TypeOK, AD, TapeId
<1>6. TypeOK'
  <2>1. object' \in [Object -> AD]
    <3>1. \A o \in Object : object[o] \in AD
      BY DEF LinkInv, TypeOK
    <3>2. \A o \in Object, j \in DOMAIN x :
            [tape_id_ |-> AttachedId(t), taddr_ |-> j] \in AD
      BY <1>1, <1>2 DEF AD, TapeId
    <3>3. QED
      BY <3>1, <3>2 DEF Independent
  <2>2. QED
    BY <2>1, <1>1, <1>2
       DEF Independent, TapeManageNew, LinkInv, TypeOK, TapeId
<1>7. /\ tape_handle' = [tape_handle EXCEPT ![t] = TRUE]
      /\ tape_table' = [tape_table EXCEPT ![t] = TRUE]
      /\ id_' = [id_ EXCEPT ![t] = AttachedId(t)]
      /\ tape_id_handle' = [tape_id_handle EXCEPT ![t] = "tape"]
      /\ num_var_rec' = [num_var_rec EXCEPT ![t] = 1 + Len(x)]
      /\ tape_id_save' = tape_id_save
  BY DEF Independent, TapeManageNew
<1>8. /\ HandleFollowsTable'
      /\ NoDanglingTape'
      /\ RecorderEmptyWhenIdle'
  BY <1>2, <1>7
     DEF LinkInv, TypeOK, HandleFollowsTable, NoDanglingTape,
         RecorderEmptyWhenIdle
<1>9. /\ CurrentId(t)' = AttachedId(t)
      /\ \A u \in Thread \ {t} : CurrentId(u)' = CurrentId(u)
  BY <1>7 DEF CurrentId, LinkInv, TypeOK
<1>10. IdsSeparateThreads'
  BY <1>1, <1>7, <1>9
     DEF LinkInv, TypeOK, IdsSeparateThreads, ThreadOf
<1>11. IdsAreFresh'
  <2> SUFFICES ASSUME NEW o \in Object, object'[o].tape_id_ # 0,
                      NEW u \in Thread, u = ThreadOf(object'[o].tape_id_)
               PROVE  /\ tape_id_handle'[u] # "null"
                      /\ object'[o].tape_id_ <= CurrentId(u)'
    BY <1>1, <1>4, <1>5, ThreadOfType DEF IdsAreFresh, ThreadOf
  <2>1. CASE object'[o] = object[o]
    <3>1. tape_id_handle[u] # "null" /\ object[o].tape_id_ <= CurrentId(u)
      BY <2>1 DEF LinkInv, IdsAreFresh
    <3>2. tape_id_handle'[u] # "null" /\ CurrentId(u)' = CurrentId(u)
      BY <3>1, <1>1, <1>7, <1>9 DEF LinkInv, TypeOK
    <3>3. QED
      BY <3>1, <3>2, <2>1
  <2>2. CASE object'[o].tape_id_ = AttachedId(t)
    BY <2>2, <1>1, <1>7, <1>9 DEF LinkInv, TypeOK
  <2>3. QED
    BY <2>1, <2>2, <1>4
<1>12. VariablesAreLive'
  <2> SUFFICES ASSUME NEW o \in Object, Variable(o)'
               PROVE  /\ tape_handle'[ThreadOf(object'[o].tape_id_)]
                      /\ object'[o].taddr_
                           \in 1 .. num_var_rec'[ThreadOf(object'[o].tape_id_)] - 1
    BY DEF VariablesAreLive, ThreadOf
  <2>1. CASE object'[o] = object[o]
    <3>1. PICK u \in Thread : u = ThreadOf(object[o].tape_id_)
      BY <1>5, ThreadOfType
    <3>2. /\ object[o].tape_id_ # 0
          /\ object[o].tape_id_ = CurrentId(u)'
      BY <3>1, <2>1 DEF Variable, ThreadOf
    <3>3. tape_id_handle[u] # "null"
      BY <3>1, <3>2 DEF LinkInv, IdsAreFresh
    <3>4. CurrentId(u)' = CurrentId(u)
      BY <3>3, <1>1, <1>9
    <3>5. Variable(o)
      BY <3>1, <3>2, <3>4 DEF Variable
    <3>6. tape_handle[u] /\ object[o].taddr_ \in 1 .. num_var_rec[u] - 1
      BY <3>1, <3>5 DEF LinkInv, VariablesAreLive
    <3>7. QED
      BY <3>1, <3>6, <2>1, <1>3, <1>7 DEF LinkInv, TypeOK
  <2>2. CASE object'[o].tape_id_ = AttachedId(t) /\ object'[o].taddr_ \in 1 .. Len(x)
    BY <2>2, <1>1, <1>2, <1>7 DEF LinkInv, TypeOK
  <2>3. QED
    BY <2>1, <2>2, <1>4
<1>13. QED
  BY <1>6, <1>8, <1>10, <1>11, <1>12 DEF LinkInv

(* Closing a recording keeps the invariant: no object carries the next     *)
(* identifier.                                                             *)
LEMMA DeleteInv ==
  ASSUME LinkInv, NEW t \in Thread, TapeManageDelete(t),
         UNCHANGED <<in_parallel, ready, object>>
  PROVE  LinkInv'
<1>1. /\ id_[t] \in Nat \ {0}
      /\ id_[t] >= CPPAD_MAX_NUM_THREADS
      /\ ThreadOf(id_[t]) = t
      /\ CurrentId(t) = id_[t]
      /\ tape_id_handle[t] = "tape"
  BY RecordingThread DEF TapeManageDelete
<1> DEFINE next == id_[t] + CPPAD_MAX_NUM_THREADS
<1>2. /\ next \in Nat
      /\ next > id_[t]
      /\ next >= CPPAD_MAX_NUM_THREADS
      /\ ThreadOf(next) = t
  BY <1>1, ThreadOfNext, ThreadsAssumption
<1>3. /\ id_' = [id_ EXCEPT ![t] = next]
      /\ num_var_rec' = [num_var_rec EXCEPT ![t] = 0]
      /\ tape_handle' = [tape_handle EXCEPT ![t] = FALSE]
  BY DEF TapeManageDelete
<1> HIDE DEF next
<1>4. TypeOK'
  BY <1>2, <1>3, BoundsAssumption, ThreadsAssumption DEF next, TapeManageDelete, LinkInv, TypeOK, TapeId
<1>5. /\ HandleFollowsTable'
      /\ NoDanglingTape'
      /\ RecorderEmptyWhenIdle'
  BY <1>3
     DEF TapeManageDelete, LinkInv, TypeOK, HandleFollowsTable, NoDanglingTape,
         RecorderEmptyWhenIdle
<1>6. /\ CurrentId(t)' = next
      /\ \A u \in Thread \ {t} : CurrentId(u)' = CurrentId(u)
  BY <1>1, <1>3 DEF TapeManageDelete, CurrentId, LinkInv, TypeOK
<1>7. IdsSeparateThreads'
  BY <1>2, <1>6
     DEF TapeManageDelete, LinkInv, IdsSeparateThreads, ThreadOf
<1>8. \A o \in Object : object[o].tape_id_ \in Nat
  BY DEF LinkInv, TypeOK, AD, TapeId
<1>9. \A o \in Object, u \in Thread :
        object[o].tape_id_ # 0 /\ u = ThreadOf(object[o].tape_id_) =>
          /\ tape_id_handle[u] # "null"
          /\ object[o].tape_id_ <= CurrentId(u)
          /\ u = t => object[o].tape_id_ < next
  BY <1>1, <1>2, <1>8 DEF LinkInv, IdsAreFresh
<1>10. IdsAreFresh'
  <2> SUFFICES ASSUME NEW o \in Object, object[o].tape_id_ # 0,
                      NEW u \in Thread, u = ThreadOf(object[o].tape_id_)
               PROVE  /\ tape_id_handle'[u] # "null"
                      /\ object[o].tape_id_ <= CurrentId(u)'
    BY <1>8, ThreadOfType DEF IdsAreFresh, ThreadOf
  <2>1. QED
    BY <1>2, <1>6, <1>8, <1>9 DEF TapeManageDelete
<1>11. VariablesAreLive'
  <2> SUFFICES ASSUME NEW o \in Object, Variable(o)',
                      NEW u \in Thread, u = ThreadOf(object[o].tape_id_)
               PROVE  /\ tape_handle'[u]
                      /\ object[o].taddr_ \in 1 .. num_var_rec'[u] - 1
    BY <1>8, ThreadOfType DEF VariablesAreLive, ThreadOf
  <2>1. /\ object[o].tape_id_ # 0
        /\ object[o].tape_id_ = CurrentId(u)'
    BY DEF Variable, ThreadOf
  <2>2. u # t /\ CurrentId(u)' = CurrentId(u)
    <3>1. u = t => object[o].tape_id_ < next
      BY <2>1, <1>9
    <3>2. u = t => object[o].tape_id_ = next
      BY <2>1, <1>6 DEF CurrentId
    <3>3. u # t
      BY <3>1, <3>2, <1>2, <1>8
    <3>4. QED
      BY <3>3, <1>6
  <2>3. Variable(o)
    BY <2>1, <2>2 DEF Variable
  <2>4. QED
    BY <2>2, <2>3, <1>3 DEF LinkInv, VariablesAreLive, TypeOK
<1>12. QED
  BY <1>4, <1>5, <1>7, <1>10, <1>11 DEF LinkInv

(* parallel_ad with every thread idle keeps the invariant: each current    *)
(* identifier only moves from the tape to tape_id_save.                    *)
LEMMA ParallelADInv ==
  ASSUME LinkInv, KeepsRestriction, ParallelAD
  PROVE  LinkInv'
<1>1. \A t \in Thread : ~tape_handle[t] /\ num_var_rec[t] = 0
  BY DEF ParallelAD, LinkInv, RecorderEmptyWhenIdle
<1>2. TypeOK'
  BY DEF ParallelAD, TapeManageClear, LinkInv, TypeOK
<1>3. /\ HandleFollowsTable'
      /\ NoDanglingTape'
      /\ RecorderEmptyWhenIdle'
  BY <1>1
     DEF ParallelAD, TapeManageClear, LinkInv, TypeOK, HandleFollowsTable,
         NoDanglingTape, RecorderEmptyWhenIdle
<1>4. \A t \in Thread : CurrentId(t)' = CurrentId(t)
  BY DEF ParallelAD, TapeManageClear, CurrentId, LinkInv, TypeOK,
         HandleFollowsTable
<1>5. \A t \in Thread : tape_id_handle'[t] = "null" <=> tape_id_handle[t] = "null"
  BY DEF ParallelAD, TapeManageClear, LinkInv, HandleFollowsTable
<1>6. IdsSeparateThreads'
  BY <1>4, <1>5 DEF LinkInv, IdsSeparateThreads, ThreadOf
<1>7. object' = object /\ \A o \in Object : object[o].tape_id_ \in Nat
  BY DEF ParallelAD, LinkInv, TypeOK, AD, TapeId
<1>8. IdsAreFresh'
  BY <1>4, <1>5, <1>7, ThreadOfType DEF LinkInv, IdsAreFresh, ThreadOf
<1>9. \A o \in Object : ~Variable(o)'
  <2> SUFFICES ASSUME NEW o \in Object, Variable(o)'
               PROVE  FALSE
    OBVIOUS
  <2>1. Variable(o)
    BY <1>4, <1>7, ThreadOfType DEF Variable, ThreadOf
  <2>2. QED
    BY <2>1, <1>1, <1>7, ThreadOfType DEF LinkInv, VariablesAreLive
<1>10. QED
  BY <1>2, <1>3, <1>6, <1>8, <1>9 DEF LinkInv, VariablesAreLive

(* Every step keeps the invariant. *)
LEMMA NextLinkInv ==
  ASSUME KeepsRestriction, LinkInv, [Next]_vars
  PROVE  LinkInv'
<1>1. CASE ParallelAD
  BY <1>1, ParallelADInv
<1>2. CASE EnterParallel \/ LeaveParallel \/ UNCHANGED vars
  <2>1. /\ UNCHANGED <<tapeVars, num_var_rec, object>>
        /\ in_parallel' \in BOOLEAN /\ ready' \in BOOLEAN
    BY <1>2 DEF EnterParallel, LeaveParallel, vars, LinkInv, TypeOK
  <2>2. QED
    BY <2>1
       DEF LinkInv, TypeOK, HandleFollowsTable, NoDanglingTape,
           RecorderEmptyWhenIdle, IdsSeparateThreads, IdsAreFresh,
           VariablesAreLive, Variable, CurrentId, tapeVars
<1>3. ASSUME NEW t \in Thread, ThreadStep(t)
      PROVE  LinkInv'
  <2>1. ASSUME NEW x \in Vector, Independent(t, x)
        PROVE  LinkInv'
    BY <2>1, IndependentInv
  <2>2. ASSUME NEW r \in Object, NEW a \in Object, NEW b \in Object,
               BinaryOp(t, r, a, b)
        PROVE  LinkInv'
    <3>1. CASE PutOp(t, r) /\ tape_handle[t]
      BY <3>1, PutOpInv
    <3>2. CASE SetObject(r, [tape_id_ |-> 0, taddr_ |-> 0])
      BY <3>2, SetObjectInv, NoTapeIsAD DEF AD
    <3>3. ASSUME NEW v \in {a, b}, SetObject(r, object[v])
          PROVE  LinkInv'
      BY <3>3, SetObjectInv DEF LinkInv, TypeOK
    <3>4. QED
      BY <2>2, <3>1, <3>2, <3>3 DEF BinaryOp, OnTape
  <2>3. ASSUME NEW a \in Object, NEW b \in Object, AssignmentOp(t, a, b)
        PROVE  LinkInv'
    <3>1. CASE PutOp(t, a) /\ tape_handle[t]
      BY <3>1, PutOpInv
    <3>2. CASE SetObject(a, [object[a] EXCEPT !.tape_id_ = 0])
      BY <3>2, SetObjectInv, NoTapeIsAD DEF AD, LinkInv, TypeOK
    <3>3. CASE SetObject(a, object[b])
      BY <3>3, SetObjectInv DEF LinkInv, TypeOK
    <3>4. QED
      BY <2>3, <3>1, <3>2, <3>3 DEF AssignmentOp, OnTape
  <2>4. ASSUME NEW r \in Object, NEW a \in Object, UnaryOp(t, r, a)
        PROVE  LinkInv'
    <3>1. CASE PutOp(t, r) /\ tape_handle[t]
      BY <3>1, PutOpInv
    <3>2. CASE SetObject(r, [tape_id_ |-> 0, taddr_ |-> 0])
      BY <3>2, SetObjectInv, NoTapeIsAD DEF AD
    <3>3. QED
      BY <2>4, <3>1, <3>2 DEF UnaryOp
  <2>5. ASSUME NEW r \in Object, NEW a \in Object, CopyObject(t, r, a)
        PROVE  LinkInv'
    BY <2>5, SetObjectInv DEF CopyObject, LinkInv, TypeOK
  <2>6. ASSUME NEW r \in Object, AssignBase(t, r)
        PROVE  LinkInv'
    BY <2>6, SetObjectInv, NoTapeIsAD DEF AssignBase, AD, LinkInv, TypeOK
  <2>7. ASSUME NEW x \in Vector, NEW y \in Object, Dependent(t, x, y)
        PROVE  LinkInv'
    BY <2>7, DeleteInv DEF Dependent
  <2>8. CASE AbortRecording(t)
    BY <2>8, DeleteInv DEF AbortRecording
  <2>9. QED
    BY <1>3, <2>1, <2>2, <2>3, <2>4, <2>5, <2>6, <2>7, <2>8 DEF ThreadStep
<1>4. QED
  BY <1>1, <1>2, <1>3 DEF Next

(* A program that keeps the documented restriction on parallel_ad keeps    *)
(* the link between objects and tapes intact.                              *)
THEOREM LinkInvariant == KeepsRestriction => (Spec => []LinkInv)
<1> SUFFICES ASSUME KeepsRestriction
             PROVE  Spec => []LinkInv
  OBVIOUS
<1>1. LinkInv /\ [Next]_vars => LinkInv'
  BY NextLinkInv
<1>2. QED
  BY <1>1, InitLinkInv, PTL DEF Spec

(* Type correctness. *)
THEOREM TypeCorrect == KeepsRestriction => (Spec => []TypeOK)
<1>1. LinkInv => TypeOK
  BY DEF LinkInv
<1>2. QED
  BY <1>1, LinkInvariant, PTL

(* An object that passes for a variable is a variable of a recording that  *)
(* is still open, at an address that recording has handed out.             *)
THEOREM VariablesStayLive == KeepsRestriction => (Spec => []VariablesAreLive)
<1>1. LinkInv => VariablesAreLive
  BY DEF LinkInv
<1>2. QED
  BY <1>1, LinkInvariant, PTL

(* The tapes of two threads never share an identifier. *)
THEOREM IdsKeepThreadsApart == KeepsRestriction => (Spec => []IdsSeparateThreads)
<1>1. LinkInv => IdsSeparateThreads
  BY DEF LinkInv
<1>2. QED
  BY <1>1, LinkInvariant, PTL

(* A recording thread owns its tape: tape_handle never dangles. *)
THEOREM HandlesKeepTapes == KeepsRestriction => (Spec => []NoDanglingTape)
<1>1. LinkInv => NoDanglingTape
  BY DEF LinkInv
<1>2. QED
  BY <1>1, LinkInvariant, PTL

(* A recorder is empty exactly while its thread does not record. *)
THEOREM IdleRecordersEmpty == KeepsRestriction => (Spec => []RecorderEmptyWhenIdle)
<1>1. LinkInv => RecorderEmptyWhenIdle
  BY DEF LinkInv
<1>2. QED
  BY <1>1, LinkInvariant, PTL

(* No object carries an identifier that a thread has yet to hand out. *)
THEOREM IdsStayFresh == KeepsRestriction => (Spec => []IdsAreFresh)
<1>1. LinkInv => IdsAreFresh
  BY DEF LinkInv
<1>2. QED
  BY <1>1, LinkInvariant, PTL

-----------------------------------------------------------------------------
(***************************************************************************)
(* Tape identifiers implement the recording sessions.                      *)
(***************************************************************************)

LEMMA InitSessions == Init => Sessions!Init
<1> SUFFICES ASSUME Init
             PROVE  Sessions!Init
  OBVIOUS
<1>1. \A o \in Object : ~Variable(o)
  BY DEF Init, Variable
<1>2. QED
  BY <1>1 DEF Init, Sessions!Init, Sessions!Constant, SessionVar

(* An object keeps its status while its content and the current identifier *)
(* of the thread it names stay.                                            *)
LEMMA StatusKept ==
  ASSUME LinkInv, NEW o \in Object, object'[o] = object[o],
         \A u \in Thread :
           /\ u = ThreadOf(object[o].tape_id_)
           /\ tape_id_handle[u] # "null"
           => CurrentId(u)' = CurrentId(u)
  PROVE  Variable(o)' <=> Variable(o)
<1>1. object[o].tape_id_ \in Nat
  BY DEF LinkInv, TypeOK, AD, TapeId
<1>2. PICK u \in Thread : u = ThreadOf(object[o].tape_id_)
  BY <1>1, ThreadOfType
<1>3. CASE object[o].tape_id_ = 0
  BY <1>3 DEF Variable
<1>4. CASE object[o].tape_id_ # 0
  <2>1. tape_id_handle[u] # "null"
    BY <1>2, <1>4 DEF LinkInv, IdsAreFresh
  <2>2. CurrentId(u)' = CurrentId(u)
    BY <1>2, <2>1
  <2>3. Variable(o) <=> object[o].tape_id_ = CurrentId(u)
    BY <1>2, <1>4 DEF Variable
  <2>4. Variable(o)' <=> object[o].tape_id_ = CurrentId(u)'
    BY <1>2, <1>4 DEF Variable, ThreadOf
  <2>5. QED
    BY <2>2, <2>3, <2>4
<1>5. QED
  BY <1>3, <1>4

(* Recording an operator. *)
LEMMA PutOpIsRecord ==
  ASSUME LinkInv, NEW t \in Thread, NEW r \in Object,
         tape_handle[t], PutOp(t, r)
  PROVE  Sessions!Record(t, r)
<1>1. /\ CurrentId(t) = id_[t]
      /\ id_[t] # 0
      /\ ThreadOf(id_[t]) = t
  BY RecordingThread
<1>2. \A u \in Thread : CurrentId(u)' = CurrentId(u)
  BY DEF PutOp, tapeVars, CurrentId
<1>3. /\ object'[r].tape_id_ = id_[t]
      /\ object'[r].taddr_ = num_var_rec[t]
      /\ \A o \in Object \ {r} : object'[o] = object[o]
  BY DEF PutOp, LinkInv, TypeOK
<1>4. Variable(r)' /\ ThreadOf(object'[r].tape_id_) = t
  <2>1. CurrentId(t)' = id_[t]
    BY <1>1, <1>2
  <2>2. QED
    BY <2>1, <1>1, <1>3 DEF Variable, ThreadOf
<1>5. \A o \in Object \ {r} : Variable(o)' <=> Variable(o)
  BY <1>2, <1>3, StatusKept
<1>6. SessionVar' = [SessionVar EXCEPT ![r] = <<t, num_var_rec[t]>>]
  BY <1>3, <1>4, <1>5 DEF SessionVar, ThreadOf
<1>7. num_var_rec' = [num_var_rec EXCEPT ![t] = @ + 1]
  BY DEF PutOp
<1>8. QED
  BY <1>6, <1>7 DEF Sessions!Record, PutOp, tapeVars

(* Giving an object the content of another, or none. *)
LEMMA SetObjectIsCopyOrForget ==
  ASSUME LinkInv, NEW r \in Object, NEW new \in AD, SetObject(r, new),
         new.tape_id_ # 0 => \E v \in Object : new = object[v]
  PROVE  \/ \E a \in Object : Sessions!Copy(r, a)
         \/ Sessions!Forget(r)
<1>1. \A u \in Thread : CurrentId(u)' = CurrentId(u)
  BY DEF SetObject, tapeVars, CurrentId
<1>2. /\ object'[r] = new
      /\ \A o \in Object \ {r} : object'[o] = object[o]
  BY DEF SetObject, LinkInv, TypeOK
<1>3. \A o \in Object \ {r} : Variable(o)' <=> Variable(o)
  BY <1>1, <1>2, StatusKept
<1>4. CASE new.tape_id_ = 0
  <2>1. ~Variable(r)'
    BY <1>2, <1>4 DEF Variable
  <2>2. SessionVar' = [SessionVar EXCEPT ![r] = <<>>]
    BY <2>1, <1>2, <1>3 DEF SessionVar, ThreadOf
  <2>3. QED
    BY <2>2 DEF Sessions!Forget, Sessions!Constant, SetObject, tapeVars
<1>5. ASSUME NEW v \in Object, new = object[v]
      PROVE  Sessions!Copy(r, v)
  <2>1. Variable(r)' <=> Variable(v)
    <3>1. PICK u \in Thread : u = ThreadOf(object[v].tape_id_)
      BY ThreadOfType DEF LinkInv, TypeOK, AD, TapeId
    <3>2. CurrentId(u)' = CurrentId(u)
      BY <1>1
    <3>3. Variable(v) <=> object[v].tape_id_ # 0 /\ object[v].tape_id_ = CurrentId(u)
      BY <3>1 DEF Variable
    <3>4. Variable(r)' <=> object[v].tape_id_ # 0 /\ object[v].tape_id_ = CurrentId(u)'
      BY <3>1, <1>2, <1>5 DEF Variable, ThreadOf
    <3>5. QED
      BY <3>2, <3>3, <3>4
  <2>2. SessionVar' = [SessionVar EXCEPT ![r] = SessionVar[v]]
    BY <2>1, <1>2, <1>3, <1>5 DEF SessionVar, ThreadOf
  <2>3. QED
    BY <2>2 DEF Sessions!Copy, SetObject, tapeVars
<1>6. QED
  BY <1>4, <1>5

(* Opening a recording. *)
LEMMA IndependentIsOpen ==
  ASSUME LinkInv, NEW t \in Thread, NEW x \in Vector, Independent(t, x)
  PROVE  Sessions!Open(t, x)
<1>1. /\ AttachedId(t) \in TapeId /\ AttachedId(t) \in Nat
      /\ AttachedId(t) # 0
      /\ ThreadOf(AttachedId(t)) = t
      /\ tape_id_handle[t] # "null" => AttachedId(t) = CurrentId(t)
  BY AttachedIdFacts, ThreadsAssumption DEF TapeId
<1>2. /\ CurrentId(t)' = AttachedId(t)
      /\ \A u \in Thread \ {t} : CurrentId(u)' = CurrentId(u)
  BY DEF Independent, TapeManageNew, CurrentId, LinkInv, TypeOK
<1>3. \A u \in Thread : tape_id_handle[u] # "null" => CurrentId(u)' = CurrentId(u)
  <2>1. tape_id_handle[t] # "null" => CurrentId(t)' = CurrentId(t)
    BY <1>1, <1>2
  <2>2. QED
    BY <2>1, <1>2
<1> DEFINE In(o) == \E j \in DOMAIN x : x[j] = o
<1>4. ASSUME NEW o \in Object, ~In(o)
      PROVE  SessionVar'[o] = SessionVar[o]
  <2>1. object'[o] = object[o]
    BY <1>4 DEF Independent
  <2>2. Variable(o)' <=> Variable(o)
    BY <2>1, <1>3, StatusKept
  <2>3. QED
    BY <2>1, <2>2 DEF SessionVar, ThreadOf
<1>5. ASSUME NEW o \in Object, In(o)
      PROVE  SessionVar'[o] = <<t, CHOOSE j \in DOMAIN x : x[j] = o>>
  <2>1. object'[o] = [tape_id_ |-> AttachedId(t),
                      taddr_   |-> CHOOSE j \in DOMAIN x : x[j] = o]
    BY <1>5 DEF Independent
  <2>2. Variable(o)' /\ ThreadOf(object'[o].tape_id_) = t
    BY <2>1, <1>1, <1>2 DEF Variable, ThreadOf, CurrentId
  <2>3. QED
    BY <2>1, <2>2 DEF SessionVar, ThreadOf
<1>6. SessionVar' = [o \in Object |->
                       IF In(o) THEN <<t, CHOOSE j \in DOMAIN x : x[j] = o>>
                       ELSE SessionVar[o]]
  <2> DEFINE opened == [o \in Object |->
                          IF In(o) THEN <<t, CHOOSE j \in DOMAIN x : x[j] = o>>
                          ELSE SessionVar[o]]
  <2>1. SessionVar' = [o \in Object |-> SessionVar'[o]]
    BY DEF SessionVar
  <2> HIDE DEF In
  <2>2. \A o \in Object : opened[o] = SessionVar'[o]
    BY <1>4, <1>5
  <2>3. opened = [o \in Object |-> opened[o]]
    OBVIOUS
  <2> HIDE DEF opened
  <2>4. opened = SessionVar'
    BY <2>1, <2>2, <2>3
  <2>5. QED
    BY <2>4 DEF opened
<1>7. QED
  BY <1>6 DEF Sessions!Open, Independent, TapeManageNew

(* Ending a recording. *)
LEMMA DeleteIsClose ==
  ASSUME LinkInv, NEW t \in Thread, TapeManageDelete(t), UNCHANGED object
  PROVE  Sessions!Close(t)
<1>1. /\ id_[t] \in Nat
      /\ CurrentId(t) = id_[t]
      /\ tape_id_handle[t] = "tape"
  BY RecordingThread DEF TapeManageDelete
<1>2. /\ CurrentId(t)' = id_[t] + CPPAD_MAX_NUM_THREADS
      /\ \A u \in Thread \ {t} : CurrentId(u)' = CurrentId(u)
  BY <1>1 DEF TapeManageDelete, CurrentId, LinkInv, TypeOK
<1>3. \A o \in Object : object[o].tape_id_ \in Nat
  BY DEF LinkInv, TypeOK, AD, TapeId
<1>4. ASSUME NEW o \in Object, ThreadOf(object[o].tape_id_) = t
      PROVE  ~Variable(o)'
  <2>1. object[o].tape_id_ # 0 => object[o].tape_id_ <= id_[t]
    BY <1>1, <1>4 DEF LinkInv, IdsAreFresh
  <2>2. object[o].tape_id_ # 0 =>
          object[o].tape_id_ # id_[t] + CPPAD_MAX_NUM_THREADS
    BY <2>1, <1>1, <1>3, ThreadsAssumption
  <2>3. QED
    BY <2>2, <1>2, <1>4 DEF Variable, ThreadOf, CurrentId
<1>5. ASSUME NEW o \in Object, ThreadOf(object[o].tape_id_) # t
      PROVE  Variable(o)' <=> Variable(o)
  BY <1>2, <1>5, StatusKept
<1>6. ASSUME NEW o \in Object
      PROVE  SessionVar'[o] = IF Sessions!IsVariableOf(o, t) THEN <<>>
                              ELSE SessionVar[o]
  <2>1. CASE ThreadOf(object[o].tape_id_) = t
    BY <2>1, <1>4
       DEF SessionVar, Sessions!IsVariableOf, Sessions!Constant, ThreadOf
  <2>2. CASE ThreadOf(object[o].tape_id_) # t
    BY <2>2, <1>5
       DEF SessionVar, Sessions!IsVariableOf, Sessions!Constant, ThreadOf
  <2>3. QED
    BY <2>1, <2>2
<1>7. SessionVar' = [o \in Object |-> IF Sessions!IsVariableOf(o, t) THEN <<>>
                                      ELSE SessionVar[o]]
  BY <1>6 DEF SessionVar
<1>8. QED
  BY <1>7 DEF Sessions!Close, Sessions!Constant, TapeManageDelete

(* A step that leaves every object, recorder and current identifier alone  *)
(* is a stutter of the sessions.                                           *)
LEMMA SessionsStutter ==
  ASSUME LinkInv, UNCHANGED <<tape_handle, num_var_rec, object>>,
         \A u \in Thread : CurrentId(u)' = CurrentId(u)
  PROVE  UNCHANGED Sessions!vars
<1>1. \A o \in Object : Variable(o)' <=> Variable(o)
  BY StatusKept
<1>2. SessionVar' = SessionVar
  BY <1>1 DEF SessionVar, ThreadOf
<1>3. QED
  BY <1>2 DEF Sessions!vars

(* Renumbering the idle threads is one. *)
LEMMA ParallelADStutters ==
  ASSUME LinkInv, KeepsRestriction, ParallelAD
  PROVE  UNCHANGED Sessions!vars
<1>1. \A t \in Thread : ~tape_handle[t] /\ num_var_rec[t] = 0
  BY DEF ParallelAD, LinkInv, RecorderEmptyWhenIdle
<1>2. num_var_rec' = num_var_rec
  BY <1>1 DEF ParallelAD, TapeManageClear, LinkInv, TypeOK
<1>3. \A t \in Thread : CurrentId(t)' = CurrentId(t)
  BY DEF ParallelAD, TapeManageClear, CurrentId, LinkInv, TypeOK,
         HandleFollowsTable
<1>4. QED
  BY <1>2, <1>3, SessionsStutter DEF ParallelAD, TapeManageClear

(* Every step is a step of the sessions or a stutter. *)
LEMMA NextIsSession ==
  ASSUME KeepsRestriction, LinkInv, [Next]_vars
  PROVE  [Sessions!Next]_Sessions!vars
<1>1. CASE ParallelAD
  BY <1>1, ParallelADStutters
<1>2. CASE EnterParallel \/ LeaveParallel \/ UNCHANGED vars
  BY <1>2, SessionsStutter
     DEF EnterParallel, LeaveParallel, vars, tapeVars, CurrentId
<1>3. ASSUME NEW t \in Thread, ThreadStep(t)
      PROVE  Sessions!Next
  <2>1. ASSUME NEW x \in Vector, Independent(t, x)
        PROVE  Sessions!Next
    BY <2>1, IndependentIsOpen DEF Sessions!Next
  <2>2. ASSUME NEW r \in Object, PutOp(t, r), tape_handle[t]
        PROVE  Sessions!Next
    BY <2>2, PutOpIsRecord DEF Sessions!Next
  <2>3. ASSUME NEW r \in Object, NEW new \in AD, SetObject(r, new),
               new.tape_id_ # 0 => \E v \in Object : new = object[v]
        PROVE  Sessions!Next
    BY <2>3, SetObjectIsCopyOrForget DEF Sessions!Next
  <2>4. ASSUME TapeManageDelete(t), UNCHANGED object
        PROVE  Sessions!Next
    BY <2>4, DeleteIsClose DEF Sessions!Next
  <2>5. \A o \in Object :
          /\ object[o] \in AD
          /\ [object[o] EXCEPT !.tape_id_ = 0] \in AD
          /\ [object[o] EXCEPT !.tape_id_ = 0].tape_id_ = 0
    BY NoTapeIsAD DEF LinkInv, TypeOK, AD
  <2>6. [tape_id_ |-> 0, taddr_ |-> 0] \in AD
    BY NoTapeIsAD
  <2>7. ASSUME NEW r \in Object, NEW a \in Object, NEW b \in Object,
               BinaryOp(t, r, a, b)
        PROVE  Sessions!Next
    BY <2>2, <2>3, <2>5, <2>6, <2>7 DEF BinaryOp, OnTape
  <2>8. ASSUME NEW a \in Object, NEW b \in Object, AssignmentOp(t, a, b)
        PROVE  Sessions!Next
    BY <2>2, <2>3, <2>5, <2>8 DEF AssignmentOp, OnTape
  <2>9. ASSUME NEW r \in Object, NEW a \in Object, UnaryOp(t, r, a)
        PROVE  Sessions!Next
    BY <2>2, <2>3, <2>6, <2>9 DEF UnaryOp
  <2>10. ASSUME NEW r \in Object, NEW a \in Object,
                CopyObject(t, r, a) \/ AssignBase(t, r)
         PROVE  Sessions!Next
    BY <2>3, <2>5, <2>10 DEF CopyObject, AssignBase
  <2>11. ASSUME NEW x \in Vector, NEW y \in Object, Dependent(t, x, y)
         PROVE  Sessions!Next
    BY <2>4, <2>11 DEF Dependent
  <2>12. CASE AbortRecording(t)
    BY <2>4, <2>12 DEF AbortRecording
  <2>13. QED
    BY <1>3, <2>1, <2>7, <2>8, <2>9, <2>10, <2>11, <2>12 DEF ThreadStep
<1>4. QED
  BY <1>1, <1>2, <1>3 DEF Next

(* Tape identifiers implement the sessions of RecordingSession: whatever   *)
(* recordings, copies, parallel regions and renumberings a program goes    *)
(* through, its objects are variables and constants exactly as there.      *)
THEOREM SessionsImplemented == KeepsRestriction => (Spec => ImplementsSessions)
<1> SUFFICES ASSUME KeepsRestriction
             PROVE  Spec => ImplementsSessions
  OBVIOUS
<1>1. LinkInv /\ [Next]_vars => [Sessions!Next]_Sessions!vars
  BY NextIsSession
<1>2. Spec => []LinkInv
  BY LinkInvariant
<1>3. QED
  BY <1>1, <1>2, InitSessions, PTL DEF Spec, ImplementsSessions, Sessions!Spec
=============================================================================
