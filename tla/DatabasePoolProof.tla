------------------------- MODULE DatabasePoolProof --------------------------
(***************************************************************************)
(* Proofs about DatabasePool, for every set of operations, every number of *)
(* connections and of faults: the pool implements AtomicStore, so its      *)
(* operations are atomic, and no connection is left inside a transaction.  *)
(***************************************************************************)
EXTENDS DatabasePool, TLAPS

(* The proofs of AtomicStore, for the pool's refinement mapping.           *)
StoreProof == INSTANCE AtomicStoreProof WITH
    Length <- [o \in Ops |-> IF Kind[o] \in {"exec", "trans"} THEN Size[o] ELSE 0],
    store  <- committed,
    fresh  <- Ops \ Submitted,
    left   <- Unfinished,
    faulty <- Faulty

(* The first n statements of o.                                            *)
Part(o, n) == [k \in 1..n |-> <<o, k>>]

(* The connection and the server agree about the transaction: what the     *)
(* server holds back is what ExecuteTransaction has sent, and a statement  *)
(* of a transaction that is not held back met a broken connection.         *)
InTrans(c) ==
    task[c].pc \in {"stmt", "commit", "rollback"} /\ Kind[Op(c)] = "trans"
Agree(c) ==
    /\ session[c].trans => InTrans(c)
    /\ ~session[c].trans => session[c] = AutoCommit
    /\ session[c].trans /\ task[c].pc = "stmt" =>
          session[c].writes = Part(Op(c), task[c].pos - 1)
    /\ session[c].trans /\ task[c].pc = "commit" =>
          session[c].writes = Part(Op(c), Size[Op(c)])
    /\ InTrans(c) /\ ~session[c].trans /\ task[c].pc # "rollback" =>
          "lost" \in met[Op(c)]
    /\ ~handle[c] => session[c] = AutoCommit

(* A connection has an operation exactly while it has commands to send,    *)
(* and no attempt is ever repeated.                                        *)
Sound(c) ==
    /\ Op(c) = None <=> task[c].pc \in {"idle", "exited"}
    /\ task[c].tries = 0
    /\ task[c].pc \in {"begin", "commit", "rollback"} => Kind[Op(c)] = "trans"
    /\ task[c].pc = "stmt" => Kind[Op(c)] # "ping"
    /\ task[c].pc = "ping" => Kind[Op(c)] = "ping"
    /\ Agree(c)

(* An operation is in one place: queued once, or on one connection.        *)
Distinct ==
    /\ \A c, d \in Connections : c # d /\ Op(c) # None => Op(c) # Op(d)
    /\ \A c \in Connections : Op(c) \notin ToSet(queue)
    /\ \A i, j \in DOMAIN queue : i # j => queue[i] # queue[j]
    /\ Unfinished \subseteq Submitted

Connected == \A c \in Connections : Sound(c)

IInv == TypeOK /\ Connected /\ Distinct

-----------------------------------------------------------------------------
(* Sequences of statements                                                 *)

(* The first n statements of an operation.                                 *)
LEMMA PartFacts ==
    ASSUME NEW o \in Ops, NEW n \in Nat
    PROVE  /\ Part(o, n) \in Seq(Stmt) /\ Len(Part(o, n)) = n
           /\ \A k \in 1..n : Part(o, n)[k] = <<o, k>>
           /\ Part(o, 0) = <<>>
           /\ Append(Part(o, n), <<o, n + 1>>) = Part(o, n + 1)
           /\ Part(o, 1) = <<<<o, 1>>>>
<1>1. /\ Part(o, n) \in Seq(Stmt) /\ Len(Part(o, n)) = n
      /\ \A k \in 1..n : Part(o, n)[k] = <<o, k>>
  BY DEF Part, Stmt
<1>2. Part(o, 0) = <<>>
  BY DEF Part
<1>3. Part(o, 1) = <<<<o, 1>>>>
  BY DEF Part
<1>4. Append(Part(o, n), <<o, n + 1>>) = Part(o, n + 1)
  BY DEF Part, Stmt
<1> QED BY <1>1, <1>2, <1>3, <1>4

(* The part of an operation that Tear may add: nothing, one statement or   *)
(* all of them.                                                            *)
LEMMA PartSubSeq ==
    ASSUME NEW o \in Ops, NEW n \in Nat, NEW p \in 1..n
    PROVE  /\ SubSeq(Part(o, n), 1, 0) = <<>>
           /\ SubSeq(Part(o, n), 1, n) = Part(o, n)
           /\ SubSeq(Part(o, n), p, p) = <<<<o, p>>>>
<1> DEFINE w == Part(o, n)
<1>1. w \in Seq(Stmt) /\ Len(w) = n /\ \A k \in 1..n : w[k] = <<o, k>>
  BY PartFacts
<1> HIDE DEF w
<1>2. SubSeq(w, 1, 0) = <<>>
  BY <1>1
<1>3. SubSeq(w, 1, n) = w
  BY <1>1
<1>4. SubSeq(w, p, p) = <<<<o, p>>>>
  <2>1. /\ Len(SubSeq(w, p, p)) = 1
        /\ SubSeq(w, p, p) = [k \in 1..1 |-> w[p + k - 1]]
    BY <1>1
  <2>2. SubSeq(w, p, p) = <<w[p]>>
    BY <2>1
  <2> QED BY <1>1, <2>2
<1> QED BY <1>2, <1>3, <1>4 DEF w

-----------------------------------------------------------------------------
(* Where an operation goes on                                              *)

(* The task of connection c as a record.                                   *)
LEMMA TaskRecord ==
    ASSUME TypeOK, NEW c \in Connections
    PROVE  /\ task[c] \in TaskType
           /\ task[c] = [op |-> Op(c), pc |-> task[c].pc, pos |-> task[c].pos,
                         tries |-> task[c].tries]
BY DEF TypeOK, TaskType, Op

(* A connection that is sending has an operation.                          *)
LEMMA BusyHasOp ==
    ASSUME TypeOK, NEW c \in Connections, Sound(c),
           task[c].pc \in Commands \cup {"ping"}
    PROVE  /\ Op(c) \in Ops /\ Op(c) # None
           /\ Size[Op(c)] \in Nat
           /\ task[c].pos \in 1..Size[Op(c)]
           /\ Kind[Op(c)] \in Kinds
BY PoolAssumption DEF PoolAssumption, TypeOK, Sound, Commands, Op, TaskType

(* What Continue gives, command by command.                                *)
LEMMA ContinueCases ==
    ASSUME TypeOK, NEW c \in Connections, Sound(c), task[c].pc \in Commands,
           NEW ok \in BOOLEAN, NEW err
    PROVE  LET n == Continue(c, ok, err)
               At(pc, pos) == [op |-> Op(c), pc |-> pc, pos |-> pos, tries |-> 0]
           IN  /\ task[c].pc = "begin" => n = At("stmt", 1)
               /\ task[c].pc = "commit" => n = Idle
               /\ task[c].pc = "rollback" /\ err # Deadlocked => n = Idle
               /\ task[c].pc = "stmt" /\ Kind[Op(c)] = "exec" => n = Idle
               /\ task[c].pc = "stmt" /\ Reads(Op(c)) =>
                     n = IF task[c].pos < Size[Op(c)]
                         THEN At("stmt", task[c].pos + 1) ELSE Idle
               /\ task[c].pc = "stmt" /\ Kind[Op(c)] = "trans" =>
                     n = IF ~ok THEN At("rollback", task[c].pos)
                         ELSE IF task[c].pos < Size[Op(c)]
                              THEN At("stmt", task[c].pos + 1)
                              ELSE At("commit", task[c].pos)
<1> DEFINE n == Continue(c, ok, err)
           At(pc, pos) == [op |-> Op(c), pc |-> pc, pos |-> pos, tries |-> 0]
<1>1. /\ task[c] = At(task[c].pc, task[c].pos)
      /\ Op(c) = task[c].op
  BY TaskRecord DEF Sound, Op
<1>2. task[c].pc = "begin" => n = At("stmt", 1)
  BY <1>1 DEF Continue
<1>3. task[c].pc = "commit" => n = Idle
  BY <1>1 DEF Continue, TryAgain, Reads, Op
<1>4. task[c].pc = "rollback" /\ err # Deadlocked => n = Idle
  BY <1>1 DEF Continue, TryAgain, Sound
<1>5. task[c].pc = "stmt" /\ Kind[Op(c)] = "exec" => n = Idle
  BY <1>1 DEF Continue, Reads
<1>6. task[c].pc = "stmt" /\ Reads(Op(c)) =>
         n = IF task[c].pos < Size[Op(c)]
             THEN At("stmt", task[c].pos + 1) ELSE Idle
  <2> SUFFICES ASSUME task[c].pc = "stmt", Reads(Op(c))
               PROVE  n = IF task[c].pos < Size[Op(c)]
                          THEN At("stmt", task[c].pos + 1) ELSE Idle
    OBVIOUS
  <2>1. n = AfterQuery(task[c])
    BY <1>1 DEF Continue, Reads
  <2> QED BY <1>1, <2>1 DEF AfterQuery
<1>7. task[c].pc = "stmt" /\ Kind[Op(c)] = "trans" =>
         n = IF ~ok THEN At("rollback", task[c].pos)
             ELSE IF task[c].pos < Size[Op(c)]
                  THEN At("stmt", task[c].pos + 1)
                  ELSE At("commit", task[c].pos)
  <2> SUFFICES ASSUME task[c].pc = "stmt", Kind[Op(c)] = "trans"
               PROVE  n = IF ~ok THEN At("rollback", task[c].pos)
                          ELSE IF task[c].pos < Size[Op(c)]
                               THEN At("stmt", task[c].pos + 1)
                               ELSE At("commit", task[c].pos)
    OBVIOUS
  <2>1. n = AfterStatement(task[c], ok)
    BY DEF Continue, Op, Reads
  <2> QED BY <1>1, <2>1 DEF AfterStatement
<1> QED BY <1>2, <1>3, <1>4, <1>5, <1>6, <1>7

(* What the server does with a command, when nothing goes wrong.           *)
LEMMA ServerCases ==
    ASSUME TypeOK, NEW c \in Connections, Sound(c), task[c].pc \in Commands
    PROVE  LET s == session[c]
               pc == task[c].pc
           IN  /\ pc = "begin" =>
                     /\ SessionAfter(c) = [trans |-> TRUE, writes |-> <<>>]
                     /\ Durable(c) = <<>>
               /\ pc \in {"commit", "rollback"} => SessionAfter(c) = AutoCommit
               /\ pc = "rollback" => Durable(c) = <<>>
               /\ pc = "commit" =>
                     Durable(c) = IF s.trans THEN Part(Op(c), Size[Op(c)]) ELSE <<>>
               /\ pc = "stmt" /\ Kind[Op(c)] # "trans" =>
                     s = AutoCommit /\ SessionAfter(c) = AutoCommit
               /\ pc = "stmt" /\ Reads(Op(c)) => Durable(c) = <<>>
               /\ pc = "stmt" /\ ~Reads(Op(c)) /\ ~s.trans =>
                     /\ SessionAfter(c) = AutoCommit
                     /\ Durable(c) = <<<<Op(c), task[c].pos>>>>
               /\ pc = "stmt" /\ ~Reads(Op(c)) /\ s.trans =>
                     /\ SessionAfter(c) =
                           [trans |-> TRUE, writes |-> Part(Op(c), task[c].pos)]
                     /\ Durable(c) = <<>>
<1> DEFINE s == session[c]
           pc == task[c].pc
<1>1. /\ s \in [trans : BOOLEAN, writes : Seq(Stmt)]
      /\ s = [trans |-> s.trans, writes |-> s.writes]
  BY DEF TypeOK
<1>2. /\ Op(c) \in Ops /\ task[c].pos \in Nat \ {0}
      /\ Kind[Op(c)] \in Kinds /\ Op(c) = task[c].op
  BY BusyHasOp DEF Op
<1>3. pc = "begin" => /\ SessionAfter(c) = [trans |-> TRUE, writes |-> <<>>]
                      /\ Durable(c) = <<>>
  BY <1>1 DEF SessionAfter, Durable, Sound, Agree, AutoCommit, InTrans
<1>4. pc \in {"commit", "rollback"} => SessionAfter(c) = AutoCommit
  BY DEF SessionAfter
<1>5. pc = "rollback" => Durable(c) = <<>>
  BY DEF Durable
<1>6. pc = "commit" =>
         Durable(c) = IF s.trans THEN Part(Op(c), Size[Op(c)]) ELSE <<>>
  <2>1. pc = "commit" => Durable(c) = s.writes
    BY DEF Durable
  <2> QED BY <1>1, <2>1 DEF Sound, Agree, AutoCommit
<1>7. pc = "stmt" /\ Kind[Op(c)] # "trans" =>
         s = AutoCommit /\ SessionAfter(c) = AutoCommit
  <2>1. pc = "stmt" /\ Kind[Op(c)] # "trans" => s = AutoCommit /\ ~s.trans
    BY <1>1 DEF Sound, Agree, InTrans, AutoCommit
  <2> QED BY <1>2, <2>1 DEF SessionAfter
<1>8. pc = "stmt" /\ Reads(Op(c)) => Durable(c) = <<>>
  BY <1>2 DEF Durable
<1>9. pc = "stmt" /\ ~Reads(Op(c)) /\ ~s.trans =>
         /\ SessionAfter(c) = AutoCommit
         /\ Durable(c) = <<<<Op(c), task[c].pos>>>>
  BY <1>1, <1>2 DEF SessionAfter, Durable, Sound, Agree
<1>10. pc = "stmt" /\ ~Reads(Op(c)) /\ s.trans =>
         /\ SessionAfter(c) =
               [trans |-> TRUE, writes |-> Part(Op(c), task[c].pos)]
         /\ Durable(c) = <<>>
  <2> SUFFICES ASSUME pc = "stmt", ~Reads(Op(c)), s.trans
               PROVE  /\ SessionAfter(c) = [trans |-> TRUE,
                             writes |-> Part(Op(c), task[c].pos)]
                      /\ Durable(c) = <<>>
    OBVIOUS
  <2>1. Durable(c) = <<>>
    BY <1>2 DEF Durable
  <2>2. SessionAfter(c) = [s EXCEPT !.writes = Append(@, <<Op(c), task[c].pos>>)]
    BY <1>2 DEF SessionAfter
  <2>3. s.writes = Part(Op(c), task[c].pos - 1)
    BY DEF Sound, Agree
  <2>4. Append(s.writes, <<Op(c), task[c].pos>>) = Part(Op(c), task[c].pos)
    <3>1. task[c].pos - 1 \in Nat /\ (task[c].pos - 1) + 1 = task[c].pos
      BY <1>2
    <3>2. PICK n \in Nat : n = task[c].pos - 1 /\ n + 1 = task[c].pos
      BY <3>1
    <3>3. s.writes = Part(Op(c), n) /\ Op(c) \in Ops
      BY <1>2, <2>3, <3>2
    <3>4. Append(Part(Op(c), n), <<Op(c), n + 1>>) = Part(Op(c), n + 1)
      BY <3>3, PartFacts
    <3> QED BY <3>2, <3>3, <3>4
  <2>5. s.trans = TRUE
    BY <1>1
  <2> QED BY <1>1, <2>1, <2>2, <2>4, <2>5
<1> QED BY <1>3, <1>4, <1>5, <1>6, <1>7, <1>8, <1>9, <1>10

(* What a command puts into effect are statements of its operation: none,  *)
(* one, or all of a transaction.                                           *)
LEMMA DurableType ==
    ASSUME TypeOK, NEW c \in Connections, Sound(c), task[c].pc \in Commands
    PROVE  /\ Durable(c) \in Seq(Stmt)
           /\ SessionAfter(c) \in [trans : BOOLEAN, writes : Seq(Stmt)]
<1>1. /\ Op(c) \in Ops /\ task[c].pos \in Nat /\ Size[Op(c)] \in Nat
      /\ <<Op(c), task[c].pos>> \in Stmt
  BY BusyHasOp DEF Stmt
<1>2. /\ Part(Op(c), Size[Op(c)]) \in Seq(Stmt)
      /\ Part(Op(c), task[c].pos) \in Seq(Stmt)
      /\ <<>> \in Seq(Stmt) /\ <<<<Op(c), task[c].pos>>>> \in Seq(Stmt)
  <2>1. Part(Op(c), Size[Op(c)]) \in Seq(Stmt)
    BY <1>1, PartFacts
  <2>2. Part(Op(c), task[c].pos) \in Seq(Stmt)
    BY <1>1, PartFacts
  <2> QED BY <1>1, <2>1, <2>2
<1>3. /\ Durable(c) \in {<<>>, <<<<Op(c), task[c].pos>>>>, Part(Op(c), Size[Op(c)])}
      /\ SessionAfter(c) \in {AutoCommit, [trans |-> TRUE, writes |-> <<>>],
                             [trans |-> TRUE, writes |-> Part(Op(c), task[c].pos)]}
  <2>1. CASE task[c].pc # "stmt"
    <3>1. task[c].pc \in {"begin", "commit", "rollback"}
      BY <2>1 DEF Commands
    <3> QED BY <3>1, ServerCases
  <2>2. CASE task[c].pc = "stmt"
    <3>1. Kind[Op(c)] # "trans" \/ ~Reads(Op(c))
      BY DEF Reads
    <3> QED BY <2>2, <3>1, ServerCases
  <2> QED BY <2>1, <2>2
<1>4. \A b \in BOOLEAN, w \in Seq(Stmt) :
         [trans |-> b, writes |-> w] \in [trans : BOOLEAN, writes : Seq(Stmt)]
  OBVIOUS
<1>5. Durable(c) \in Seq(Stmt)
  BY <1>2, <1>3
<1>6. SessionAfter(c) \in [trans : BOOLEAN, writes : Seq(Stmt)]
  BY <1>2, <1>3, <1>4 DEF AutoCommit
<1> QED BY <1>5, <1>6

(* The operation stays on its connection or is finished with.              *)
LEMMA ContinueType ==
    ASSUME TypeOK, NEW c \in Connections, Sound(c), task[c].pc \in Commands,
           NEW ok \in BOOLEAN, NEW err,
           task[c].pc = "rollback" => err # Deadlocked
    PROVE  LET n == Continue(c, ok, err)
           IN  /\ n \in TaskType
               /\ n = Idle \/ (n.op = Op(c) /\ n.pc \in Commands)
               /\ n.op # None => n.pos \in 1..Size[n.op]
<1> DEFINE n == Continue(c, ok, err)
           At(pc, pos) == [op |-> Op(c), pc |-> pc, pos |-> pos, tries |-> 0]
<1>1. /\ Op(c) \in Ops /\ Size[Op(c)] \in Nat /\ task[c].pos \in 1..Size[Op(c)]
      /\ Kind[Op(c)] \in Kinds
  BY BusyHasOp
<1>2. Idle \in TaskType /\ Idle.op = None
  BY DEF Idle, TaskType, LoopBreaker
<1>3. \A pc \in Commands, k \in 1..Size[Op(c)] :
         At(pc, k) \in TaskType /\ At(pc, k).op = Op(c) /\ At(pc, k).pos = k
         /\ At(pc, k).pc = pc
  BY <1>1 DEF TaskType, Commands, LoopBreaker
<1>4. n = Idle \/ \E pc \in Commands, k \in 1..Size[Op(c)] : n = At(pc, k)
  <2>0. 1 \in 1..Size[Op(c)]
        /\ (task[c].pos < Size[Op(c)] => task[c].pos + 1 \in 1..Size[Op(c)])
    BY <1>1
  <2>1. CASE task[c].pc \in {"begin", "commit", "rollback"}
    BY <2>0, <2>1, ContinueCases DEF Commands
  <2>2. CASE task[c].pc = "stmt"
    <3>1. Kind[Op(c)] \in {"exec", "trans"} \/ Reads(Op(c))
      BY <1>1, <2>2 DEF Kinds, Reads, Sound
    <3> QED BY <1>1, <2>0, <2>2, <3>1, ContinueCases DEF Commands
  <2> QED BY <2>1, <2>2 DEF Commands
<1> HIDE DEF n, At
<1> QED BY <1>2, <1>3, <1>4 DEF n

(* A query's result is a set of statements.                                *)
LEMMA AnswerType ==
    ASSUME TypeOK, NEW c \in Connections, Sound(c), task[c].pc \in Commands,
           NEW rows \in SUBSET Stmt
    PROVE  Answer(c, rows) \in [Ops -> Seq(SUBSET Stmt)]
<1>1. Op(c) \in Ops /\ answer \in [Ops -> Seq(SUBSET Stmt)]
  BY BusyHasOp DEF TypeOK
<1>2. Append(answer[Op(c)], rows) \in Seq(SUBSET Stmt)
  BY <1>1
<1> QED BY <1>1, <1>2 DEF Answer

-----------------------------------------------------------------------------
(* Steps of one connection                                                 *)

(* A step of another connection keeps this one sound.                      *)
LEMMA OthersSound ==
    ASSUME TypeOK, NEW d \in Connections, Sound(d),
           task'[d] = task[d], session'[d] = session[d],
           handle'[d] = handle[d], \A o \in Ops : met[o] \subseteq met'[o]
    PROVE  Sound(d)'
<1>1. Op(d)' = Op(d) /\ Op(d) \in Ops \cup {None}
  BY DEF Op, TypeOK, TaskType
<1>2. InTrans(d) => Op(d) \in Ops
  BY <1>1 DEF InTrans, Sound
<1>3. InTrans(d)' <=> InTrans(d)
  BY <1>1 DEF InTrans
<1>4. Agree(d)'
  BY <1>1, <1>2, <1>3 DEF Sound, Agree
<1> QED BY <1>1, <1>4 DEF Sound

(* The operation of one connection may only go away.                       *)
LEMMA StaysDistinct ==
    ASSUME TypeOK, Distinct, NEW c \in Connections,
           UNCHANGED <<queue, order, called>>,
           \A d \in Connections \ {c} : task'[d] = task[d],
           task'[c].op \in {Op(c), None}
    PROVE  /\ Distinct' /\ Submitted' = Submitted
           /\ task'[c].op = Op(c) => Unfinished' = Unfinished
           /\ task'[c].op # Op(c) => Unfinished' = Unfinished \ {Op(c)}
<1>1. /\ \A d \in Connections \ {c} : Op(d)' = Op(d)
      /\ Op(c)' = Op(c) \/ Op(c)' = None
      /\ ToSet(queue)' = ToSet(queue) /\ Submitted' = Submitted
      /\ Op(c)' = task'[c].op
  BY DEF Op, ToSet, Submitted
<1>2. None \notin ToSet(queue)
  BY PoolAssumption DEF TypeOK, ToSet, PoolAssumption
<1>3. task'[c].op = Op(c) => Unfinished' = Unfinished
  BY <1>1 DEF Unfinished
<1>4. task'[c].op # Op(c) => Unfinished' = Unfinished \ {Op(c)}
  <2> SUFFICES ASSUME task'[c].op # Op(c) PROVE Unfinished' = Unfinished \ {Op(c)}
    OBVIOUS
  <2>1. Op(c)' = None /\ Op(c) # None
    BY <1>1
  <2>2. Op(c) \notin ToSet(queue) /\ \A d \in Connections \ {c} : Op(d) # Op(c)
    BY <2>1 DEF Distinct
  <2> QED BY <1>1, <1>2, <2>1, <2>2 DEF Unfinished
<1>5. Distinct'
  BY <1>1, <1>2, <1>3, <1>4 DEF Distinct
<1> QED BY <1>1, <1>3, <1>4, <1>5

(* All of a connection's steps: what remains to be shown of each of them   *)
(* is that the connection itself stays sound.                              *)
LEMMA LocalStep ==
    ASSUME IInv, NEW c \in Connections, NEW n \in TaskType,
           n.op \in {Op(c), None}, n.op # None => n.pos \in 1..Size[n.op],
           NEW s \in [trans : BOOLEAN, writes : Seq(Stmt)],
           NEW h \in BOOLEAN, NEW e \in Nat,
           task' = [task EXCEPT ![c] = n],
           session' = [session EXCEPT ![c] = s],
           handle' = [handle EXCEPT ![c] = h],
           errno' = [errno EXCEPT ![c] = e],
           committed' \in Seq(Stmt), answer' \in [Ops -> Seq(SUBSET Stmt)],
           met' \in [Ops -> SUBSET {"sql", "deadlock", "lost"}],
           \A o \in Ops : met[o] \subseteq met'[o],
           faults' \in 0..MaxFaults,
           UNCHANGED <<phase, async, ended, queue, order, called>>,
           Sound(c)'
    PROVE  /\ IInv' /\ Submitted' = Submitted
           /\ n.op = Op(c) => Unfinished' = Unfinished
           /\ n.op # Op(c) => Unfinished' = Unfinished \ {Op(c)}
<1>1. TypeOK /\ Distinct /\ \A d \in Connections : Sound(d)
  BY DEF IInv, Connected
<1>2. /\ task'[c] = n /\ \A d \in Connections \ {c} :
            task'[d] = task[d] /\ session'[d] = session[d] /\ handle'[d] = handle[d]
  BY <1>1 DEF TypeOK
<1>3. TypeOK'
  <2>1. task' \in [Connections -> TaskType]
    BY <1>1 DEF TypeOK
  <2>2. \A d \in Connections :
           task'[d].op # None => task'[d].pos \in 1..Size[task'[d].op]
    BY <1>1, <1>2 DEF TypeOK
  <2> QED BY <1>1, <2>1, <2>2 DEF TypeOK, Connections
<1>4. Connected'
  <2>1. ASSUME NEW d \in Connections \ {c} PROVE Sound(d)'
    BY <1>1, <1>2, <2>1, OthersSound
  <2> QED BY <2>1 DEF Connected, Connections
<1>5. /\ Distinct' /\ Submitted' = Submitted
      /\ n.op = Op(c) => Unfinished' = Unfinished
      /\ n.op # Op(c) => Unfinished' = Unfinished \ {Op(c)}
  BY <1>1, <1>2, StaysDistinct
<1> QED BY <1>3, <1>4, <1>5 DEF IInv

-----------------------------------------------------------------------------
(* The steps of AtomicStore, seen from the pool                            *)

Effect(o) == IF Kind[o] \in {"exec", "trans"} THEN Size[o] ELSE 0

StoreStep == Store!Next \/ UNCHANGED Store!vars

(* What the store writes for an operation is all its statements.           *)
LEMMA WritesArePart ==
    ASSUME NEW o \in Ops
    PROVE  Store!Writes(o) = Part(o, Effect(o))
BY DEF Store!Writes, Part, Effect

(* A step that the store does not see.                                     *)
LEMMA AsStutter ==
    ASSUME Unfinished' = Unfinished, Submitted' = Submitted,
           Faulty' = Faulty, committed' = committed
    PROVE  StoreStep
BY DEF StoreStep, Store!vars

(* A step that hands an operation over is the store's Submit; one with no  *)
(* statement is gone at once.                                              *)
LEMMA AsSubmit ==
    ASSUME NEW o \in Ops, o \notin Submitted,
           Submitted' = Submitted \cup {o},
           \/ Unfinished' = Unfinished \cup {o}
           \/ Unfinished' = Unfinished /\ Effect(o) = 0,
           Faulty' = Faulty, committed' = committed
    PROVE  StoreStep
<1>1. Store!Submit(o)
  BY DEF Store!Submit, Effect
<1> QED BY <1>1 DEF StoreStep, Store!Next

(* A step that loses operations without a trace is the store's Drop.       *)
LEMMA AsDrop ==
    ASSUME NEW S \in SUBSET Unfinished, Unfinished' = Unfinished \ S,
           Submitted' = Submitted, Faulty' = Faulty, committed' = committed
    PROVE  StoreStep
<1>1. Store!Drop(S)
  BY DEF Store!Drop
<1> QED BY <1>1 DEF StoreStep, Store!Next

(* A step that commits all of an operation is the store's Apply.           *)
LEMMA AsApply ==
    ASSUME NEW o \in Ops, o \in Unfinished, Unfinished' = Unfinished \ {o},
           Submitted' = Submitted, Faulty' = Faulty,
           committed' = committed \o Part(o, Effect(o))
    PROVE  StoreStep
<1>1. Store!Apply(o)
  BY WritesArePart DEF Store!Apply
<1> QED BY <1>1 DEF StoreStep, Store!Next

(* A step that commits a part of an operation that a lost connection met   *)
(* is the store's Tear.                                                    *)
LEMMA AsTear ==
    ASSUME TypeOK, NEW o \in Ops, o \in Unfinished,
           Unfinished' \in {Unfinished, Unfinished \ {o}},
           Submitted' = Submitted, Faulty' = Faulty \cup {o},
           \/ committed' = committed
           \/ committed' = committed \o Part(o, Effect(o))
           \/ \E p \in 1..Effect(o) : committed' = committed \o <<<<o, p>>>>
    PROVE  StoreStep
<1>1. Effect(o) \in Nat /\ committed \in Seq(Stmt)
  BY PoolAssumption DEF Effect, PoolAssumption, TypeOK
<1>2. \E i, j \in 1 .. Effect(o) + 1 :
         committed' = committed \o SubSeq(Part(o, Effect(o)), i, j - 1)
  <2>0. /\ 1 \in 1 .. Effect(o) + 1 /\ 1 - 1 = 0
        /\ Effect(o) + 1 \in 1 .. Effect(o) + 1 /\ (Effect(o) + 1) - 1 = Effect(o)
    BY <1>1
  <2>1. CASE committed' = committed
    <3>1. SubSeq(Part(o, Effect(o)), 1, 0) = <<>>
      <4>1. Part(o, Effect(o)) \in Seq(Stmt)
        BY <1>1, PartFacts
      <4> QED BY <4>1
    <3>2. committed \o <<>> = committed
      BY <1>1
    <3>3. committed' = committed \o SubSeq(Part(o, Effect(o)), 1, 1 - 1)
      BY <2>0, <2>1, <3>1, <3>2
    <3> QED BY <2>0, <3>3
  <2>2. CASE committed' = committed \o Part(o, Effect(o))
    <3>1. SubSeq(Part(o, Effect(o)), 1, Effect(o)) = Part(o, Effect(o))
      <4>1. Part(o, Effect(o)) \in Seq(Stmt) /\ Len(Part(o, Effect(o))) = Effect(o)
        BY <1>1, PartFacts
      <4> QED BY <1>1, <4>1
    <3>2. committed' = committed
                         \o SubSeq(Part(o, Effect(o)), 1, (Effect(o) + 1) - 1)
      BY <2>0, <2>2, <3>1
    <3> QED BY <2>0, <3>2
  <2>3. ASSUME NEW p \in 1..Effect(o), committed' = committed \o <<<<o, p>>>>
        PROVE  \E i, j \in 1 .. Effect(o) + 1 :
                  committed' = committed \o SubSeq(Part(o, Effect(o)), i, j - 1)
    <3>1. /\ p \in 1 .. Effect(o) + 1 /\ p + 1 \in 1 .. Effect(o) + 1
          /\ (p + 1) - 1 = p
      BY <1>1
    <3>2. committed' = committed \o SubSeq(Part(o, Effect(o)), p, (p + 1) - 1)
      BY <1>1, <2>3, <3>1, PartSubSeq
    <3> QED BY <3>1, <3>2
  <2> QED BY <2>1, <2>2, <2>3
<1>3. Store!Tear(o)
  BY <1>2, WritesArePart DEF Store!Tear, Effect
<1> QED BY <1>3 DEF StoreStep, Store!Next

-----------------------------------------------------------------------------
(* What every command on a connection starts from.                         *)
LEMMA CommandFacts ==
    ASSUME IInv, NEW c \in Connections, task[c].pc \in Commands
    PROVE  /\ TypeOK /\ Sound(c) /\ Agree(c)
           /\ Op(c) \in Ops /\ Op(c) # None /\ Op(c) \in Unfinished
           /\ Size[Op(c)] \in Nat /\ task[c].pos \in 1..Size[Op(c)]
           /\ Kind[Op(c)] \in {"exec", "query", "holder", "trans"}
           /\ Kind[Op(c)] = "exec" => Size[Op(c)] = 1
           /\ session[c] \in [trans : BOOLEAN, writes : Seq(Stmt)]
           /\ handle = [handle EXCEPT ![c] = handle[c]]
           /\ session = [session EXCEPT ![c] = session[c]]
           /\ errno = [errno EXCEPT ![c] = errno[c]] /\ errno[c] \in Nat
           /\ task = [task EXCEPT ![c] = task[c]]
<1>1. TypeOK /\ Sound(c)
  BY DEF IInv, Connected
<1>2. /\ Op(c) \in Ops /\ Op(c) # None /\ Size[Op(c)] \in Nat
      /\ task[c].pos \in 1..Size[Op(c)] /\ Kind[Op(c)] \in Kinds
  BY <1>1, BusyHasOp
<1>3. Kind[Op(c)] # "ping"
  BY DEF Commands, Sound, IInv, Connected
<1>4. Op(c) \in Unfinished
  BY <1>2 DEF Unfinished
<1>5. /\ session[c] \in [trans : BOOLEAN, writes : Seq(Stmt)]
      /\ handle = [handle EXCEPT ![c] = handle[c]]
      /\ session = [session EXCEPT ![c] = session[c]]
      /\ errno = [errno EXCEPT ![c] = errno[c]] /\ errno[c] \in Nat
      /\ task = [task EXCEPT ![c] = task[c]]
  BY <1>1 DEF TypeOK
<1>6. Kind[Op(c)] = "exec" => Size[Op(c)] = 1
  BY <1>2, PoolAssumption DEF PoolAssumption
<1>7. Kind[Op(c)] \in {"exec", "query", "holder", "trans"}
  BY <1>2, <1>3 DEF Kinds
<1>8. Agree(c)
  BY <1>1 DEF Sound
<1> QED BY <1>1, <1>2, <1>4, <1>5, <1>6, <1>7, <1>8

(* A connection that is done is sound when the server holds nothing back.  *)
LEMMA SoundWhenIdle ==
    ASSUME NEW c \in Connections, task'[c] \in {Idle, Exited},
           session'[c] = AutoCommit
    PROVE  Sound(c)'
<1>1. /\ Op(c)' = None /\ task'[c].pc \in {"idle", "exited"}
      /\ task'[c].tries = 0
  BY DEF Op, Idle, Exited
<1>2. session'[c].trans = FALSE
  BY DEF AutoCommit
<1>3. ~InTrans(c)'
  BY <1>1 DEF InTrans
<1>4. Agree(c)'
  BY <1>2, <1>3 DEF Agree, AutoCommit
<1> QED BY <1>1, <1>4 DEF Sound

(* The same for a connection with a command to send.                       *)
LEMMA SoundWhenBusy ==
    ASSUME NEW c \in Connections, NEW o \in Ops, NEW pc \in Commands, NEW pos,
           task'[c] = [op |-> o, pc |-> pc, pos |-> pos, tries |-> 0],
           pc \in {"begin", "commit", "rollback"} => Kind[o] = "trans",
           pc = "stmt" => Kind[o] # "ping",
           session'[c] \in [trans : BOOLEAN, writes : Seq(Stmt)],
           \/ session'[c] = AutoCommit
           \/ /\ handle'[c] /\ Kind[o] = "trans" /\ pc # "begin"
              /\ session'[c].trans
              /\ pc = "stmt" => session'[c].writes = Part(o, pos - 1)
              /\ pc = "commit" => session'[c].writes = Part(o, Size[o]),
           pc \in {"stmt", "commit"} /\ Kind[o] = "trans" /\ session'[c] = AutoCommit
              => "lost" \in met'[o]
    PROVE  Sound(c)'
<1>1. /\ Op(c)' = o /\ task'[c].pc = pc /\ task'[c].tries = 0
      /\ task'[c].pos = pos
  BY DEF Op
<1>2. InTrans(c)' <=> pc # "begin" /\ Kind[o] = "trans"
  BY <1>1 DEF InTrans, Commands
<1>3. AutoCommit.trans = FALSE
  BY DEF AutoCommit
<1>4. Agree(c)'
  <2>1. CASE session'[c] = AutoCommit
    BY <1>1, <1>2, <1>3, <2>1 DEF Agree, Commands
  <2>2. CASE session'[c] # AutoCommit
    BY <1>1, <1>2, <2>2 DEF Agree
  <2> QED BY <2>1, <2>2
<1>5. o # None
  BY PoolAssumption DEF PoolAssumption
<1> QED BY <1>1, <1>4, <1>5 DEF Sound, Commands

(* mysql_query returned 0.                                                 *)
LEMMA SucceedStep ==
    ASSUME IInv, NEW c \in Connections, Succeed(c)
    PROVE  IInv' /\ StoreStep
<1> DEFINE n == Continue(c, TRUE, 0)
           s == SessionAfter(c)
           o == Op(c)
           At(pc, pos) == [op |-> o, pc |-> pc, pos |-> pos, tries |-> 0]
<1>1. /\ task[c].pc \in Commands /\ handle[c]
      /\ task' = [task EXCEPT ![c] = n] /\ session' = [session EXCEPT ![c] = s]
      /\ committed' = committed \o Durable(c)
      /\ answer' = Answer(c, ToSet(committed))
      /\ errno' = [errno EXCEPT ![c] = 0]
      /\ UNCHANGED <<phase, async, ended, queue, order, called, handle, met,
                     faults>>
  BY DEF Succeed, Busy
<1>2. /\ TypeOK /\ Sound(c) /\ Agree(c) /\ o \in Ops /\ o # None
      /\ o \in Unfinished /\ Size[o] \in Nat /\ task[c].pos \in 1..Size[o]
      /\ Kind[o] \in {"exec", "query", "holder", "trans"}
      /\ Kind[o] = "exec" => Size[o] = 1
      /\ session[c] \in [trans : BOOLEAN, writes : Seq(Stmt)]
      /\ handle = [handle EXCEPT ![c] = handle[c]]
  BY <1>1, CommandFacts
<1>3. /\ n \in TaskType
      /\ n.op # None => n.pos \in 1..Size[n.op]
      /\ n = Idle \/ (n.op = o /\ n.pc \in Commands)
  <2>1. 0 # Deadlocked
    BY DEF Deadlocked
  <2> QED BY <1>1, <1>2, <2>1, ContinueType
<1>4. /\ Durable(c) \in Seq(Stmt)
      /\ s \in [trans : BOOLEAN, writes : Seq(Stmt)]
  BY <1>1, <1>2, DurableType
<1>5. /\ task'[c] = n /\ session'[c] = s /\ handle'[c] = handle[c]
  BY <1>1, <1>2 DEF TypeOK
<1>6. Idle.op = None /\ AutoCommit.trans = FALSE
  BY DEF Idle, AutoCommit
<1>7. Sound(c)'
  <2>1. CASE task[c].pc = "begin"
    <3>1. n = At("stmt", 1) /\ s = [trans |-> TRUE, writes |-> <<>>]
      BY <1>1, <1>2, <2>1, ContinueCases, ServerCases
    <3>2. Kind[o] = "trans" /\ Part(o, 1 - 1) = <<>>
      BY <1>2, <2>1, PartFacts DEF Sound
    <3>3. s # AutoCommit /\ s.trans /\ s.writes = <<>>
      BY <3>1 DEF AutoCommit
    <3>4. /\ task'[c] = At("stmt", 1) /\ handle'[c]
          /\ session'[c] \in [trans : BOOLEAN, writes : Seq(Stmt)]
          /\ session'[c].trans /\ session'[c] # AutoCommit
          /\ session'[c].writes = Part(o, 1 - 1)
          /\ "stmt" \in Commands
      BY <1>1, <1>4, <1>5, <3>1, <3>2, <3>3 DEF Commands
    <3> HIDE DEF At, o
    <3> QED BY <1>2, <3>2, <3>4, SoundWhenBusy DEF At
  <2>2. CASE task[c].pc \in {"commit", "rollback"}
    <3>1. n = Idle /\ s = AutoCommit
      <4>1. n = Idle
        <5>1. 0 # Deadlocked
          BY DEF Deadlocked
        <5> QED BY <1>1, <1>2, <2>2, <5>1, ContinueCases
      <4>2. s = AutoCommit
        BY <1>1, <1>2, <2>2, ServerCases
      <4> QED BY <4>1, <4>2
    <3> QED BY <1>5, <3>1, SoundWhenIdle
  <2>3. CASE task[c].pc = "stmt" /\ Kind[o] # "trans"
    <3>1. s = AutoCommit
      BY <1>1, <1>2, <2>3, ServerCases
    <3>2. n = Idle \/ n = At("stmt", task[c].pos + 1)
      <4>1. Kind[o] = "exec" \/ Reads(o)
        BY <1>2, <2>3 DEF Reads
      <4> QED BY <1>1, <1>2, <2>3, <4>1, ContinueCases
    <3>3. CASE n = Idle
      BY <1>5, <3>1, <3>3, SoundWhenIdle
    <3>4. CASE n = At("stmt", task[c].pos + 1)
      BY <1>2, <1>4, <1>5, <2>3, <3>1, <3>4, SoundWhenBusy DEF Commands
    <3> QED BY <3>2, <3>3, <3>4
  <2>4. CASE task[c].pc = "stmt" /\ Kind[o] = "trans"
    <3>0. ~Reads(o)
      BY <2>4 DEF Reads
    <3>1. n = IF task[c].pos < Size[o] THEN At("stmt", task[c].pos + 1)
              ELSE At("commit", task[c].pos)
      BY <1>1, <1>2, <2>4, ContinueCases
    <3>2. CASE session[c].trans
      <4>1. s = [trans |-> TRUE, writes |-> Part(o, task[c].pos)]
        BY <1>1, <1>2, <2>4, <3>0, <3>2, ServerCases
      <4>2. s # AutoCommit /\ s.trans /\ s.writes = Part(o, task[c].pos)
        BY <4>1 DEF AutoCommit
      <4>3. CASE task[c].pos < Size[o]
        <5>1. PICK k : k = task[c].pos + 1 /\ k - 1 = task[c].pos
          BY <1>2
        <5>2. /\ task'[c] = At("stmt", k) /\ handle'[c]
              /\ session'[c] \in [trans : BOOLEAN, writes : Seq(Stmt)]
              /\ session'[c].trans /\ session'[c] # AutoCommit
              /\ session'[c].writes = Part(o, k - 1)
              /\ "stmt" \in Commands
          BY <1>1, <1>4, <1>5, <3>1, <4>2, <4>3, <5>1 DEF Commands
        <5>3. task'[c] = [op |-> o, pc |-> "stmt", pos |-> k, tries |-> 0]
          BY <5>2
        <5>4. o \in Ops /\ Kind[o] = "trans" /\ Kind[o] # "ping"
          BY <1>2, <2>4
        <5> HIDE DEF At, o
        <5> QED BY <5>2, <5>3, <5>4, SoundWhenBusy
      <4>4. CASE ~(task[c].pos < Size[o])
        <5>1. task[c].pos = Size[o]
          BY <1>2, <4>4
        <5>2. /\ task'[c] = At("commit", task[c].pos) /\ handle'[c]
              /\ session'[c] \in [trans : BOOLEAN, writes : Seq(Stmt)]
              /\ session'[c].trans /\ session'[c] # AutoCommit
              /\ session'[c].writes = Part(o, Size[o])
              /\ "commit" \in Commands
          BY <1>1, <1>4, <1>5, <3>1, <4>2, <4>4, <5>1 DEF Commands
        <5> QED BY <1>2, <2>4, <5>2, SoundWhenBusy
      <4> QED BY <4>3, <4>4
    <3>3. CASE ~session[c].trans
      <4>1. s = AutoCommit
        BY <1>1, <1>2, <2>4, <3>0, <3>3, ServerCases
      <4>2. "lost" \in met'[o]
        BY <1>1, <1>2, <2>4, <3>3 DEF Agree, InTrans
      <4>3. n = At("stmt", task[c].pos + 1) \/ n = At("commit", task[c].pos)
        BY <3>1
      <4> QED BY <1>2, <1>4, <1>5, <2>4, <4>1, <4>2, <4>3, SoundWhenBusy
              DEF Commands
    <3> QED BY <3>2, <3>3
  <2> QED BY <1>1, <2>1, <2>2, <2>3, <2>4 DEF Commands
<1>8. /\ IInv' /\ Submitted' = Submitted
      /\ n.op = o => Unfinished' = Unfinished
      /\ n.op # o => Unfinished' = Unfinished \ {o}
  <2>1. ToSet(committed) \in SUBSET Stmt /\ committed' \in Seq(Stmt)
    <3>1. committed \in Seq(Stmt)
      BY <1>2 DEF TypeOK
    <3> QED BY <1>1, <1>4, <3>1 DEF ToSet
  <2>2. answer' \in [Ops -> Seq(SUBSET Stmt)]
    BY <1>1, <1>2, <2>1, AnswerType
  <2>3. /\ met' \in [Ops -> SUBSET {"sql", "deadlock", "lost"}]
        /\ \A p \in Ops : met[p] \subseteq met'[p]
        /\ faults' \in 0..MaxFaults /\ handle[c] \in BOOLEAN
        /\ handle' = [handle EXCEPT ![c] = handle[c]]
    BY <1>1, <1>2 DEF TypeOK
  <2>4. n.op \in {o, None}
    BY <1>3, <1>6
  <2> QED BY <1>1, <1>3, <1>4, <1>7, <2>1, <2>2, <2>3, <2>4, LocalStep
<1>9. StoreStep
  <2>0. /\ Faulty' = Faulty /\ committed \o <<>> = committed
        /\ {o} \in SUBSET Unfinished
    BY <1>1, <1>2 DEF Faulty, TypeOK
  <2>1. CASE Durable(c) = <<>>
    BY <1>1, <1>8, <2>0, <2>1, AsStutter, AsDrop
  <2>2. CASE Durable(c) # <<>>
    <3>1. CASE task[c].pc = "commit"
      <4>1. Kind[o] = "trans" /\ Durable(c) = Part(o, Size[o]) /\ n = Idle
        BY <1>1, <1>2, <2>2, <3>1, ContinueCases, ServerCases DEF Sound
      <4>2. Effect(o) = Size[o]
        BY <4>1 DEF Effect
      <4> QED BY <1>1, <1>2, <1>6, <1>8, <2>0, <4>1, <4>2, AsApply
    <3>2. CASE task[c].pc = "stmt" /\ Kind[o] = "exec"
      <4>0. ~Reads(o) /\ task[c].pos = 1 /\ Effect(o) = 1 /\ session[c] = AutoCommit
        BY <1>1, <1>2, <3>2, ServerCases DEF Reads, Effect
      <4>1. Durable(c) = Part(o, Effect(o)) /\ n = Idle
        <5>1. n = Idle
          BY <1>1, <1>2, <3>2, <4>0, ContinueCases
        <5>2. Durable(c) = <<<<o, 1>>>>
          BY <1>1, <1>2, <1>6, <3>2, <4>0, ServerCases
        <5>3. Part(o, 1) = <<<<o, 1>>>>
          BY <1>2, PartFacts
        <5> QED BY <4>0, <5>1, <5>2, <5>3
      <4> QED BY <1>1, <1>2, <1>6, <1>8, <2>0, <4>1, AsApply
    <3>3. CASE task[c].pc = "stmt" /\ Kind[o] = "trans"
      <4>0. ~Reads(o) /\ Effect(o) = Size[o]
        BY <3>3 DEF Reads, Effect
      <4>1. ~session[c].trans /\ Durable(c) = <<<<o, task[c].pos>>>>
        BY <1>1, <1>2, <2>2, <3>3, <4>0, ServerCases
      <4>2. "lost" \in met[o]
        BY <1>2, <3>3, <4>1 DEF Agree, InTrans
      <4>3. Faulty' = Faulty \cup {o}
        BY <1>2, <2>0, <4>2 DEF Faulty
      <4>4. Unfinished' \in {Unfinished, Unfinished \ {o}}
        BY <1>8
      <4> QED BY <1>1, <1>2, <1>8, <4>0, <4>1, <4>3, <4>4, AsTear
    <3>4. ~(task[c].pc \in {"begin", "rollback"}) /\ ~(task[c].pc = "stmt" /\ Reads(o))
      BY <1>1, <1>2, <2>2, ServerCases
    <3> QED BY <1>1, <1>2, <3>1, <3>2, <3>3, <3>4 DEF Commands, Reads
  <2> QED BY <2>1, <2>2
<1> QED BY <1>8, <1>9

(* A command that failed: the server holds back what it held back before,  *)
(* or nothing, and then the connection broke unless a statement was        *)
(* refused.                                                                *)
LEMMA SoundAfterFailure ==
    ASSUME IInv, NEW c \in Connections, task[c].pc \in Commands, NEW err,
           task[c].pc = "rollback" => err # Deadlocked,
           task'[c] = Continue(c, FALSE, err),
           \/ session'[c] = AutoCommit
           \/ session'[c] = session[c] /\ handle'[c] = handle[c],
           task[c].pc # "stmt" =>
              session'[c] = AutoCommit /\ "lost" \in met'[Op(c)]
    PROVE  Sound(c)'
<1> DEFINE n == Continue(c, FALSE, err)
           o == Op(c)
           At(pc, pos) == [op |-> o, pc |-> pc, pos |-> pos, tries |-> 0]
<1>1. /\ TypeOK /\ Sound(c) /\ Agree(c) /\ o \in Ops
      /\ Kind[o] \in {"exec", "query", "holder", "trans"}
      /\ session[c] \in [trans : BOOLEAN, writes : Seq(Stmt)]
  BY CommandFacts
<1>2. AutoCommit \in [trans : BOOLEAN, writes : Seq(Stmt)]
  BY DEF AutoCommit
<1>3. session'[c] \in [trans : BOOLEAN, writes : Seq(Stmt)]
  BY <1>1, <1>2
<1>4. CASE task[c].pc = "begin"
  <2>1. task'[c] = At("stmt", 1) /\ Kind[o] = "trans" /\ "stmt" \in Commands
    BY <1>1, <1>4, ContinueCases DEF Sound, Commands
  <2> QED BY <1>1, <1>3, <1>4, <2>1, SoundWhenBusy
<1>5. CASE task[c].pc \in {"commit", "rollback"}
  <2>1. task'[c] = Idle
    BY <1>1, <1>5, ContinueCases
  <2> QED BY <1>5, <2>1, SoundWhenIdle
<1>6. CASE task[c].pc = "stmt" /\ Kind[o] # "trans"
  <2>1. session'[c] = AutoCommit
    BY <1>1, <1>6, ServerCases
  <2>2. task'[c] = Idle \/ task'[c] = At("stmt", task[c].pos + 1)
    <3>1. Kind[o] = "exec" \/ Reads(o)
      BY <1>1, <1>6 DEF Reads
    <3> QED BY <1>1, <1>6, <3>1, ContinueCases
  <2>3. CASE task'[c] = Idle
    BY <2>1, <2>3, SoundWhenIdle
  <2>4. CASE task'[c] = At("stmt", task[c].pos + 1)
    BY <1>1, <1>3, <1>6, <2>1, <2>4, SoundWhenBusy DEF Commands
  <2> QED BY <2>2, <2>3, <2>4
<1>7. CASE task[c].pc = "stmt" /\ Kind[o] = "trans"
  <2>1. task'[c] = At("rollback", task[c].pos) /\ "rollback" \in Commands
    BY <1>1, <1>7, ContinueCases DEF Commands
  <2>2. \/ session'[c] = AutoCommit
        \/ session'[c].trans /\ handle'[c]
    BY <1>1 DEF Agree
  <2> QED BY <1>1, <1>3, <1>7, <2>1, <2>2, SoundWhenBusy
<1> QED BY <1>4, <1>5, <1>6, <1>7 DEF Commands

(* The server refused a statement or rolled the transaction back.          *)
LEMMA RefuseStep ==
    ASSUME IInv, NEW c \in Connections, NEW kind \in {"sql", "deadlock"},
           Refuse(c, kind)
    PROVE  IInv' /\ StoreStep
<1> DEFINE e == IF kind = "deadlock" THEN Deadlocked ELSE 1062
           s == IF kind = "deadlock" THEN AutoCommit ELSE session[c]
           o == Op(c)
<1>1. /\ TypeOK /\ Sound(c) /\ o \in Ops /\ o # None /\ o \in Unfinished
      /\ session[c] \in [trans : BOOLEAN, writes : Seq(Stmt)]
      /\ handle = [handle EXCEPT ![c] = handle[c]]
      /\ session = [session EXCEPT ![c] = session[c]]
  BY CommandFacts DEF Refuse, Busy
<1>2. e \in Nat /\ AutoCommit \in [trans : BOOLEAN, writes : Seq(Stmt)]
  BY DEF Deadlocked, AutoCommit
<1>3. errno' = [errno EXCEPT ![c] = e] /\ errno'[c] = e
  BY <1>1 DEF Refuse, TypeOK
<1> HIDE DEF e
<1> DEFINE n == Continue(c, FALSE, e)
<1>4. /\ task[c].pc \in Commands /\ task[c].pc = "stmt"
      /\ task' = [task EXCEPT ![c] = n] /\ session' = [session EXCEPT ![c] = s]
      /\ answer' = Answer(c, {}) /\ committed' = committed
      /\ met' = [met EXCEPT ![o] = @ \cup {kind}]
      /\ faults' \in 0..MaxFaults
      /\ UNCHANGED <<phase, async, ended, queue, order, called, handle>>
  <2>1. task' = [task EXCEPT ![c] = Continue(c, FALSE, errno'[c])]
    BY DEF Refuse
  <2>2. session' = [session EXCEPT ![c] = s]
    BY <1>1 DEF Refuse
  <2>3. faults' \in 0..MaxFaults
    BY <1>1, PoolAssumption DEF Refuse, TypeOK, PoolAssumption
  <2>4. task' = [task EXCEPT ![c] = n]
    BY <1>3, <2>1
  <2>5. /\ task[c].pc = "stmt" /\ "stmt" \in Commands
        /\ answer' = Answer(c, {}) /\ committed' = committed
        /\ met' = [met EXCEPT ![o] = @ \cup {kind}]
        /\ UNCHANGED <<phase, async, ended, queue, order, called, handle>>
    BY DEF Refuse, Commands
  <2> QED BY <2>2, <2>3, <2>4, <2>5
<1>5. /\ n \in TaskType
      /\ n = Idle \/ (n.op = o /\ n.pc \in Commands)
      /\ n.op # None => n.pos \in 1..Size[n.op]
  BY <1>1, <1>4, ContinueType
<1> HIDE DEF n
<1>6. /\ task'[c] = n /\ session'[c] = s /\ handle'[c] = handle[c]
  BY <1>1, <1>4 DEF TypeOK
<1>7. Sound(c)'
  BY <1>4, <1>6, SoundAfterFailure DEF n
<1>8. /\ met' \in [Ops -> SUBSET {"sql", "deadlock", "lost"}]
      /\ \A p \in Ops : met[p] \subseteq met'[p]
      /\ Faulty' = Faulty
  BY <1>1, <1>4 DEF TypeOK, Faulty
<1>9. answer' \in [Ops -> Seq(SUBSET Stmt)] /\ committed' \in Seq(Stmt)
  BY <1>1, <1>4, AnswerType DEF TypeOK
<1>10. n.op \in {o, None}
  BY <1>5 DEF Idle
<1>11. /\ s \in [trans : BOOLEAN, writes : Seq(Stmt)]
       /\ handle[c] \in BOOLEAN /\ handle' = [handle EXCEPT ![c] = handle[c]]
  BY <1>1, <1>2, <1>4 DEF TypeOK
<1> HIDE DEF s
<1>12. /\ IInv' /\ Submitted' = Submitted
       /\ n.op = o => Unfinished' = Unfinished
       /\ n.op # o => Unfinished' = Unfinished \ {o}
  BY <1>2, <1>3, <1>4, <1>5, <1>7, <1>8, <1>9, <1>10, <1>11, LocalStep
<1>13. {o} \in SUBSET Unfinished
  BY <1>1
<1> QED BY <1>4, <1>8, <1>12, <1>13, AsStutter, AsDrop

(* What a broken connection may leave behind belongs to its operation.     *)
LEMMA BrokenStep ==
    ASSUME IInv, NEW c \in Connections, task[c].pc \in Commands,
           NEW done \in BOOLEAN,
           committed' = IF done THEN committed \o Durable(c) ELSE committed,
           met' = [met EXCEPT ![Op(c)] = @ \cup {"lost"}],
           Submitted' = Submitted,
           Unfinished' \in {Unfinished, Unfinished \ {Op(c)}}
    PROVE  StoreStep
<1> DEFINE o == Op(c)
<1>1. /\ TypeOK /\ Sound(c) /\ o \in Ops /\ o \in Unfinished
      /\ Size[o] \in Nat /\ task[c].pos \in 1..Size[o]
      /\ Kind[o] \in {"exec", "query", "holder", "trans"}
  BY CommandFacts
<1>2. Faulty' = Faulty \cup {o}
  BY <1>1 DEF TypeOK, Faulty
<1>3. committed \o <<>> = committed
  BY <1>1 DEF TypeOK
<1>4. CASE committed' = committed
  BY <1>1, <1>2, <1>4, AsTear
<1>5. CASE committed' # committed
  <2>1. done /\ Durable(c) # <<>> /\ committed' = committed \o Durable(c)
    BY <1>3, <1>5
  <2>2. CASE task[c].pc = "commit"
    <3>1. Kind[o] = "trans" /\ Durable(c) = Part(o, Size[o])
      BY <1>1, <2>1, <2>2, ServerCases DEF Sound
    <3>2. Effect(o) = Size[o]
      BY <3>1 DEF Effect
    <3> QED BY <1>1, <1>2, <2>1, <3>1, <3>2, AsTear
  <2>3. CASE task[c].pc = "stmt" /\ ~Reads(o)
    <3>1. Effect(o) = Size[o]
      BY <1>1, <2>3 DEF Effect, Reads
    <3>2. Durable(c) = <<<<o, task[c].pos>>>>
      BY <1>1, <2>1, <2>3, ServerCases
    <3> QED BY <1>1, <1>2, <2>1, <3>1, <3>2, AsTear
  <2>4. ~(task[c].pc \in {"begin", "rollback"}) /\ ~(task[c].pc = "stmt" /\ Reads(o))
    BY <1>1, <2>1, ServerCases
  <2> QED BY <2>2, <2>3, <2>4 DEF Commands
<1> QED BY <1>4, <1>5

(* The history of a broken connection's operation.                         *)
LEMMA LostMet ==
    ASSUME TypeOK, NEW o \in Ops, met' = [met EXCEPT ![o] = @ \cup {"lost"}]
    PROVE  /\ met' \in [Ops -> SUBSET {"sql", "deadlock", "lost"}]
           /\ \A p \in Ops : met[p] \subseteq met'[p]
           /\ "lost" \in met'[o]
BY DEF TypeOK

(* The connection was opened again and the command is sent once more.      *)
LEMMA ReconnectStep ==
    ASSUME IInv, NEW c \in Connections, NEW done \in BOOLEAN,
           Reconnect(c, done)
    PROVE  IInv' /\ StoreStep
<1> DEFINE o == Op(c)
<1>1. /\ task[c].pc \in Commands /\ handle[c]
      /\ met' = [met EXCEPT ![o] = @ \cup {"lost"}]
      /\ committed' = IF done THEN committed \o Durable(c) ELSE committed
      /\ session' = [session EXCEPT ![c] = AutoCommit]
      /\ errno' = [errno EXCEPT ![c] = 0]
      /\ UNCHANGED <<phase, async, ended, queue, order, called, handle, task,
                     answer>>
  BY DEF Reconnect, Busy
<1>2. /\ TypeOK /\ Sound(c) /\ o \in Ops /\ o # None
      /\ handle = [handle EXCEPT ![c] = handle[c]]
      /\ task = [task EXCEPT ![c] = task[c]]
      /\ task[c].pos \in 1..Size[o]
  BY <1>1, CommandFacts
<1>3. AutoCommit \in [trans : BOOLEAN, writes : Seq(Stmt)]
  BY DEF AutoCommit
<1>4. /\ met' \in [Ops -> SUBSET {"sql", "deadlock", "lost"}]
      /\ \A p \in Ops : met[p] \subseteq met'[p]
      /\ "lost" \in met'[o]
  BY <1>1, <1>2, LostMet
<1>5. Sound(c)'
  <2>1. /\ task'[c] = [op |-> o, pc |-> task[c].pc, pos |-> task[c].pos,
                       tries |-> 0]
        /\ session'[c] = AutoCommit
    BY <1>1, <1>2, TaskRecord DEF Sound, TypeOK
  <2>2. /\ task[c].pc \in {"begin", "commit", "rollback"} => Kind[o] = "trans"
        /\ task[c].pc = "stmt" => Kind[o] # "ping"
    BY <1>2 DEF Sound
  <2>3. task[c].pc \in Commands /\ o \in Ops /\ "lost" \in met'[o]
    BY <1>1, <1>2, <1>4
  <2>4. session'[c] \in [trans : BOOLEAN, writes : Seq(Stmt)]
    BY <1>3, <2>1
  <2> HIDE DEF o
  <2> QED BY <2>1, <2>2, <2>3, <2>4, SoundWhenBusy
<1>6. /\ committed' \in Seq(Stmt) /\ faults' \in 0..MaxFaults
      /\ answer' \in [Ops -> Seq(SUBSET Stmt)]
  <2>1. committed \in Seq(Stmt) /\ Durable(c) \in Seq(Stmt)
    BY <1>1, <1>2, DurableType DEF TypeOK
  <2>2. committed' \in Seq(Stmt)
    BY <1>1, <2>1
  <2>3. faults' \in 0..MaxFaults
    BY <1>2, PoolAssumption DEF Reconnect, TypeOK, PoolAssumption
  <2> QED BY <1>1, <1>2, <2>2, <2>3 DEF TypeOK
<1>7. /\ task[c] \in TaskType /\ task[c].op = o /\ handle[c] \in BOOLEAN
      /\ task' = [task EXCEPT ![c] = task[c]]
      /\ handle' = [handle EXCEPT ![c] = handle[c]]
  BY <1>1, <1>2 DEF TypeOK, Op
<1>8. IInv' /\ Submitted' = Submitted /\ Unfinished' = Unfinished
  BY <1>1, <1>2, <1>3, <1>4, <1>5, <1>6, <1>7, LocalStep
<1> QED BY <1>1, <1>8, BrokenStep

(* The connection could not be opened again, or not prepared.              *)
LEMMA FailToReconnectStep ==
    ASSUME IInv, NEW c \in Connections, NEW done \in BOOLEAN,
           NEW reached \in BOOLEAN, FailToReconnect(c, done, reached)
    PROVE  IInv' /\ StoreStep
<1> DEFINE o == Op(c)
           n == Continue(c, FALSE, 0)
<1>1. /\ task[c].pc \in Commands /\ handle[c]
      /\ met' = [met EXCEPT ![o] = @ \cup {"lost"}]
      /\ committed' = IF done THEN committed \o Durable(c) ELSE committed
      /\ session' = [session EXCEPT ![c] = AutoCommit]
      /\ handle' = [handle EXCEPT ![c] = reached]
      /\ errno' = [errno EXCEPT ![c] = 0]
      /\ answer' = Answer(c, {})
      /\ task' = [task EXCEPT ![c] = n]
      /\ UNCHANGED <<phase, async, ended, queue, order, called>>
  BY DEF FailToReconnect, Busy
<1>2. TypeOK /\ Sound(c) /\ o \in Ops /\ o # None
  BY <1>1, CommandFacts
<1>3. 0 # Deadlocked /\ AutoCommit \in [trans : BOOLEAN, writes : Seq(Stmt)]
  BY DEF AutoCommit, Deadlocked
<1>4. /\ met' \in [Ops -> SUBSET {"sql", "deadlock", "lost"}]
      /\ \A p \in Ops : met[p] \subseteq met'[p]
      /\ "lost" \in met'[o]
  BY <1>1, <1>2, LostMet
<1>5. /\ n \in TaskType
      /\ n = Idle \/ (n.op = o /\ n.pc \in Commands)
      /\ n.op # None => n.pos \in 1..Size[n.op]
  BY <1>1, <1>2, <1>3, ContinueType
<1>6. Sound(c)'
  <2>1. task'[c] = n /\ session'[c] = AutoCommit
    BY <1>1, <1>2 DEF TypeOK
  <2> QED BY <1>1, <1>3, <1>4, <2>1, SoundAfterFailure
<1> HIDE DEF n
<1>7. /\ committed' \in Seq(Stmt) /\ faults' \in 0..MaxFaults
      /\ answer' \in [Ops -> Seq(SUBSET Stmt)]
  <2>1. committed \in Seq(Stmt) /\ Durable(c) \in Seq(Stmt)
    BY <1>1, <1>2, DurableType DEF TypeOK
  <2>2. committed' \in Seq(Stmt)
    BY <1>1, <2>1
  <2>3. faults' \in 0..MaxFaults
    BY <1>2, PoolAssumption DEF FailToReconnect, TypeOK, PoolAssumption
  <2> QED BY <1>1, <1>2, <2>2, <2>3, AnswerType
<1>8. n.op \in {o, None}
  BY <1>5 DEF Idle
<1>9. /\ IInv' /\ Submitted' = Submitted
      /\ Unfinished' \in {Unfinished, Unfinished \ {o}}
  BY <1>1, <1>3, <1>4, <1>5, <1>6, <1>7, <1>8, LocalStep
<1> QED BY <1>1, <1>9, BrokenStep

(* There is no connection any more.                                        *)
LEMMA NoHandleStep ==
    ASSUME IInv, NEW c \in Connections, NoHandle(c)
    PROVE  IInv' /\ StoreStep
<1> DEFINE o == Op(c)
           n == Continue(c, FALSE, 0)
<1>1. /\ task[c].pc \in Commands /\ ~handle[c]
      /\ met' = [met EXCEPT ![o] = @ \cup {"lost"}]
      /\ answer' = Answer(c, {})
      /\ task' = [task EXCEPT ![c] = n]
      /\ UNCHANGED <<phase, async, ended, queue, order, called, handle, errno,
                     session, committed, faults>>
  BY DEF NoHandle, Busy
<1>2. /\ TypeOK /\ Sound(c) /\ Agree(c) /\ o \in Ops /\ o # None
      /\ handle = [handle EXCEPT ![c] = handle[c]]
      /\ session = [session EXCEPT ![c] = session[c]]
      /\ errno = [errno EXCEPT ![c] = errno[c]] /\ errno[c] \in Nat
      /\ session[c] \in [trans : BOOLEAN, writes : Seq(Stmt)]
  BY <1>1, CommandFacts
<1>3. 0 # Deadlocked /\ session[c] = AutoCommit
  BY <1>1, <1>2 DEF Deadlocked, Agree
<1>4. /\ met' \in [Ops -> SUBSET {"sql", "deadlock", "lost"}]
      /\ \A p \in Ops : met[p] \subseteq met'[p]
      /\ "lost" \in met'[o]
  BY <1>1, <1>2, LostMet
<1>5. /\ n \in TaskType
      /\ n = Idle \/ (n.op = o /\ n.pc \in Commands)
      /\ n.op # None => n.pos \in 1..Size[n.op]
  BY <1>1, <1>2, <1>3, ContinueType
<1>6. Sound(c)'
  <2>1. task'[c] = n /\ session'[c] = AutoCommit
    BY <1>1, <1>2, <1>3 DEF TypeOK
  <2> QED BY <1>1, <1>3, <1>4, <2>1, SoundAfterFailure
<1> HIDE DEF n
<1>7. /\ committed' \in Seq(Stmt) /\ faults' \in 0..MaxFaults
      /\ answer' \in [Ops -> Seq(SUBSET Stmt)]
  BY <1>1, <1>2, AnswerType DEF TypeOK
<1>8. n.op \in {o, None}
  BY <1>5 DEF Idle
<1>9. /\ session' = [session EXCEPT ![c] = session[c]]
      /\ handle' = [handle EXCEPT ![c] = handle[c]] /\ handle[c] \in BOOLEAN
      /\ errno' = [errno EXCEPT ![c] = errno[c]]
  BY <1>1, <1>2 DEF TypeOK
<1>10. /\ IInv' /\ Submitted' = Submitted
       /\ Unfinished' \in {Unfinished, Unfinished \ {o}}
  BY <1>1, <1>2, <1>4, <1>5, <1>6, <1>7, <1>8, <1>9, LocalStep
<1> QED BY <1>1, <1>10, BrokenStep

(* The process ends: whatever was not in effect is dropped.                *)
LEMMA CrashStep ==
    ASSUME IInv, Crash, UNCHANGED met, faults' \in 0..MaxFaults
    PROVE  IInv' /\ StoreStep
<1>1. TypeOK
  BY DEF IInv
<1>2. \A c \in Connections : /\ task'[c] = Exited /\ session'[c] = AutoCommit
                             /\ Op(c)' = None
  BY DEF Crash, Op, Exited, Idle
<1>3. queue' = <<>> /\ ToSet(queue)' = {} /\ DOMAIN queue' = {}
  BY DEF Crash, ToSet
<1>4. Exited \in TaskType /\ Exited.op = None
  BY DEF Exited, Idle, TaskType, LoopBreaker
<1>5. AutoCommit \in [trans : BOOLEAN, writes : Seq(Stmt)]
  BY DEF AutoCommit
<1>6. Connections' = Connections
  BY DEF Connections
<1>7. TypeOK'
  BY <1>1, <1>2, <1>3, <1>4, <1>5, <1>6 DEF Crash, TypeOK
<1>8. Connected'
  BY <1>2, <1>6, SoundWhenIdle DEF Connected
<1>9. Unfinished' = {} /\ Submitted' = Submitted /\ Faulty' = Faulty
  BY <1>2, <1>3, <1>6 DEF Unfinished, Submitted, Faulty, ToSet, Crash
<1>10. Distinct'
  BY <1>2, <1>3, <1>6, <1>9 DEF Distinct
<1>11. Unfinished' = Unfinished \ Unfinished /\ Unfinished \in SUBSET Unfinished
  BY <1>9
<1>12. StoreStep
  BY <1>9, <1>11, AsDrop DEF Crash
<1> QED BY <1>7, <1>8, <1>10, <1>12 DEF IInv

-----------------------------------------------------------------------------
(* Taking operations up                                                    *)

(* The task a connection gets: none for an empty transaction.              *)
LEMMA StartCases ==
    ASSUME NEW o \in Ops
    PROVE  /\ Start(o) \in TaskType
           /\ \/ Start(o) = Idle /\ Effect(o) = 0 /\ Kind[o] = "trans"
              \/ /\ Start(o).op = o /\ Start(o).pos = 1 /\ 1 \in 1..Size[o]
                 /\ \/ Start(o) = [op |-> o, pc |-> "begin", pos |-> 1, tries |-> 0]
                       /\ Kind[o] = "trans"
                    \/ Start(o) = [op |-> o, pc |-> "stmt", pos |-> 1, tries |-> 0]
                       /\ Kind[o] \in {"exec", "query", "holder"}
                    \/ Start(o) = [op |-> o, pc |-> "ping", pos |-> 1, tries |-> 0]
                       /\ Kind[o] = "ping"
<1>1. /\ Kind[o] \in Kinds /\ Size[o] \in Nat
      /\ Kind[o] \in {"exec", "query", "ping"} => Size[o] = 1
      /\ Kind[o] = "holder" => Size[o] > 0
  BY PoolAssumption DEF PoolAssumption
<1>2. \A pc \in {"begin", "stmt", "ping"} :
         [op |-> o, pc |-> pc, pos |-> 1, tries |-> 0] \in TaskType
  BY DEF TaskType, LoopBreaker
<1>3. Idle \in TaskType
  BY DEF Idle, TaskType, LoopBreaker
<1>4. CASE Kind[o] = "trans" /\ Size[o] = 0
  BY <1>3, <1>4 DEF Start, Effect
<1>5. CASE Kind[o] = "trans" /\ Size[o] # 0
  BY <1>1, <1>2, <1>5 DEF Start
<1>6. CASE Kind[o] = "ping"
  BY <1>1, <1>2, <1>6 DEF Start
<1>7. CASE Kind[o] \in {"exec", "query", "holder"}
  BY <1>1, <1>2, <1>7 DEF Start
<1> QED BY <1>1, <1>4, <1>5, <1>6, <1>7 DEF Kinds

(* A connection that takes an operation up is sound.                       *)
LEMMA StartSound ==
    ASSUME IInv, NEW c \in Connections, task[c] = Idle, NEW o \in Ops,
           task' = [task EXCEPT ![c] = Start(o)],
           UNCHANGED <<session, handle, met>>
    PROVE  /\ Connected'
           /\ task' \in [Connections -> TaskType]
           /\ \A d \in Connections :
                 task'[d].op # None => task'[d].pos \in 1..Size[task'[d].op]
           /\ \A d \in Connections \ {c} : Op(d)' = Op(d)
           /\ Op(c) = None
           /\ Op(c)' = o \/ (Op(c)' = None /\ Effect(o) = 0)
<1>1. /\ TypeOK /\ \A d \in Connections : Sound(d)
  BY DEF IInv, Connected
<1>2. Op(c) = None /\ Idle.pc = "idle" /\ Idle.op = None
  BY DEF Op, Idle
<1>3. session[c] = AutoCommit
  BY <1>1, <1>2 DEF Sound, Agree, InTrans
<1>4. /\ task'[c] = Start(o) /\ \A d \in Connections \ {c} : task'[d] = task[d]
      /\ Op(c)' = Start(o).op
  BY <1>1 DEF TypeOK, Op
<1>5. Sound(c)'
  <2>0. AutoCommit \in [trans : BOOLEAN, writes : Seq(Stmt)]
    BY DEF AutoCommit
  <2>1. CASE Start(o) = Idle
    BY <1>3, <1>4, <2>1, SoundWhenIdle
  <2>2. CASE Start(o) = [op |-> o, pc |-> "begin", pos |-> 1, tries |-> 0]
             /\ Kind[o] = "trans"
    BY <1>3, <1>4, <2>0, <2>2, SoundWhenBusy DEF Commands
  <2>3. CASE Start(o) = [op |-> o, pc |-> "stmt", pos |-> 1, tries |-> 0]
             /\ Kind[o] \in {"exec", "query", "holder"}
    BY <1>3, <1>4, <2>0, <2>3, SoundWhenBusy DEF Commands
  <2>4. CASE Start(o) = [op |-> o, pc |-> "ping", pos |-> 1, tries |-> 0]
             /\ Kind[o] = "ping"
    <3>1. /\ Op(c)' = o /\ task'[c].pc = "ping" /\ task'[c].tries = 0
      BY <1>4, <2>4
    <3>2. AutoCommit.trans = FALSE /\ o # None
      BY PoolAssumption DEF AutoCommit, PoolAssumption
    <3> QED BY <1>3, <2>4, <3>1, <3>2 DEF Sound, Agree, InTrans
  <2> QED BY <2>1, <2>2, <2>3, <2>4, StartCases
<1>6. Connected'
  <2>1. ASSUME NEW d \in Connections \ {c} PROVE Sound(d)'
    BY <1>1, <1>4, <2>1, OthersSound
  <2> QED BY <1>5, <2>1 DEF Connected, Connections
<1>7. task' \in [Connections -> TaskType]
  BY <1>1, StartCases DEF TypeOK
<1>8. \A d \in Connections :
         task'[d].op # None => task'[d].pos \in 1..Size[task'[d].op]
  <2>1. Start(o).op # None => Start(o).pos \in 1..Size[Start(o).op]
    BY <1>2, StartCases
  <2> QED BY <1>1, <1>4, <2>1 DEF TypeOK
<1>9. Op(c)' = o \/ (Op(c)' = None /\ Effect(o) = 0)
  BY <1>2, <1>4, StartCases
<1> QED BY <1>2, <1>4, <1>6, <1>7, <1>8, <1>9 DEF Op

(* An operation that is appended joins the set.                            *)
LEMMA AppendSet ==
    ASSUME NEW s \in Seq(Ops), NEW o \in Ops
    PROVE  /\ Append(s, o) \in Seq(Ops)
           /\ ToSet(Append(s, o)) = ToSet(s) \cup {o}
<1>1. /\ Append(s, o) \in Seq(Ops) /\ Len(s) \in Nat
      /\ DOMAIN s = 1..Len(s) /\ DOMAIN Append(s, o) = 1 .. Len(s) + 1
      /\ \A k \in 1..Len(s) : Append(s, o)[k] = s[k]
      /\ Append(s, o)[Len(s) + 1] = o
  OBVIOUS
<1>2. \A k \in 1 .. Len(s) + 1 : k \in 1..Len(s) \/ k = Len(s) + 1
  BY <1>1
<1>3. Len(s) + 1 \in 1 .. Len(s) + 1 /\ 1..Len(s) \subseteq 1 .. Len(s) + 1
  BY <1>1
<1> QED BY <1>1, <1>2, <1>3 DEF ToSet

(* An asynchronous operation is queued.                                    *)
LEMMA EnqueueStep ==
    ASSUME IInv, NEW o \in Ops, Enqueue(o)
    PROVE  IInv' /\ StoreStep
<1>1. TypeOK /\ Connected /\ Distinct /\ o \notin Submitted
  BY DEF IInv, Enqueue
<1>2. /\ queue' = Append(queue, o) /\ order' = Append(order, o)
      /\ UNCHANGED <<phase, async, ended, called, task, handle, errno, session,
                     committed, answer, met, faults>>
  BY DEF Enqueue
<1>3. /\ queue' \in Seq(Ops) /\ order' \in Seq(Ops)
      /\ ToSet(queue)' = ToSet(queue) \cup {o}
      /\ ToSet(order)' = ToSet(order) \cup {o}
  <2>1. \A s \in Seq(Ops) : /\ Append(s, o) \in Seq(Ops)
                            /\ ToSet(Append(s, o)) = ToSet(s) \cup {o}
    BY AppendSet
  <2>2. queue \in Seq(Ops) /\ order \in Seq(Ops)
    BY <1>1 DEF TypeOK
  <2>3. ToSet(queue)' = ToSet(queue') /\ ToSet(order)' = ToSet(order')
    BY DEF ToSet
  <2> QED BY <1>2, <2>1, <2>2, <2>3
<1>4. Submitted' = Submitted \cup {o} /\ Faulty' = Faulty
      /\ Unfinished' = Unfinished \cup {o}
  BY <1>2, <1>3, PoolAssumption
  DEF Submitted, Faulty, Unfinished, Op, PoolAssumption, Connections
<1>5. TypeOK'
  BY <1>1, <1>2, <1>3 DEF TypeOK, Connections
<1>6. Connected'
  BY <1>1, <1>2, OthersSound DEF Connected, Connections
<1>7. Distinct'
  <2>1. o \notin Unfinished
    BY <1>1 DEF Distinct
  <2>2. o \notin ToSet(queue) /\ \A c \in Connections : Op(c) # o
    BY <2>1, PoolAssumption DEF Unfinished, PoolAssumption
  <2>3. \A i, j \in DOMAIN queue' : i # j => queue'[i] # queue'[j]
    <3>1. queue \in Seq(Ops) /\ \A k \in DOMAIN queue : queue[k] # o
      BY <1>1, <2>2 DEF TypeOK, ToSet
    <3>2. \A i, j \in DOMAIN queue : i # j => queue[i] # queue[j]
      BY <1>1 DEF Distinct
    <3> QED BY <1>2, <3>1, <3>2
  <2>4. \A c \in Connections' : Op(c)' = Op(c)
    BY <1>2 DEF Op
  <2>5. Connections' = Connections
    BY DEF Connections
  <2> QED BY <1>1, <1>3, <1>4, <2>2, <2>3, <2>4, <2>5 DEF Distinct
<1> QED BY <1>1, <1>2, <1>4, <1>5, <1>6, <1>7, AsSubmit DEF IInv

(* A synchronous caller takes a connection and runs its operation there.   *)
LEMMA GetFreeConnectionStep ==
    ASSUME IInv, NEW o \in Ops, NEW c \in Connections, GetFreeConnection(o, c)
    PROVE  IInv' /\ StoreStep
<1>1. TypeOK /\ Connected /\ Distinct /\ o \notin Submitted /\ task[c] = Idle
  BY DEF IInv, GetFreeConnection
<1>2. /\ task' = [task EXCEPT ![c] = Start(o)] /\ called' = called \cup {o}
      /\ UNCHANGED <<phase, async, ended, queue, order, handle, errno, session,
                     committed, answer, met, faults>>
  BY DEF GetFreeConnection
<1>3. /\ Connected' /\ task' \in [Connections -> TaskType]
      /\ \A d \in Connections :
            task'[d].op # None => task'[d].pos \in 1..Size[task'[d].op]
      /\ \A d \in Connections \ {c} : Op(d)' = Op(d)
      /\ Op(c) = None
      /\ Op(c)' = o \/ (Op(c)' = None /\ Effect(o) = 0)
  BY <1>1, <1>2, StartSound
<1>4. Submitted' = Submitted \cup {o} /\ Faulty' = Faulty
      /\ ToSet(queue)' = ToSet(queue) /\ Connections' = Connections
  BY <1>2 DEF Submitted, Faulty, ToSet, Connections
<1>5. None \notin ToSet(queue) /\ o # None
  BY <1>1, PoolAssumption DEF TypeOK, ToSet, PoolAssumption
<1>6. /\ Op(c)' = o => Unfinished' = Unfinished \cup {o}
      /\ Op(c)' = None => Unfinished' = Unfinished
  BY <1>3, <1>4, <1>5 DEF Unfinished
<1>7. TypeOK'
  BY <1>1, <1>2, <1>3, <1>4 DEF TypeOK
<1>8. Distinct'
  <2>1. o \notin Unfinished
    BY <1>1 DEF Distinct
  <2>2. o \notin ToSet(queue) /\ \A d \in Connections : Op(d) # o
    BY <1>5, <2>1 DEF Unfinished
  <2> QED BY <1>1, <1>2, <1>3, <1>4, <1>5, <1>6, <2>2 DEF Distinct
<1> QED BY <1>1, <1>2, <1>3, <1>4, <1>6, <1>7, <1>8, AsSubmit DEF IInv

(* Taking the first operation off the queue.                               *)
LEMMA TailSet ==
    ASSUME NEW s \in Seq(Ops), s # <<>>,
           \A i, j \in DOMAIN s : i # j => s[i] # s[j]
    PROVE  /\ Tail(s) \in Seq(Ops) /\ Head(s) \in Ops
           /\ Head(s) \in ToSet(s) /\ ToSet(Tail(s)) = ToSet(s) \ {Head(s)}
           /\ \A i, j \in DOMAIN Tail(s) : i # j => Tail(s)[i] # Tail(s)[j]
<1>1. /\ Tail(s) \in Seq(Ops) /\ Len(s) \in Nat \ {0}
      /\ DOMAIN s = 1..Len(s) /\ DOMAIN Tail(s) = 1 .. Len(s) - 1
      /\ \A k \in 1 .. Len(s) - 1 : Tail(s)[k] = s[k + 1]
      /\ Head(s) = s[1] /\ 1 \in 1..Len(s) /\ Head(s) \in Ops
  OBVIOUS
<1>2. \A k \in 1 .. Len(s) - 1 : k + 1 \in 1..Len(s) /\ k + 1 # 1
  BY <1>1
<1>3. \A k \in 1..Len(s) : k = 1 \/ (k - 1 \in 1 .. Len(s) - 1 /\ (k - 1) + 1 = k)
  BY <1>1
<1>4. ToSet(Tail(s)) = ToSet(s) \ {Head(s)}
  <2>1. ASSUME NEW k \in 1 .. Len(s) - 1
        PROVE  Tail(s)[k] \in ToSet(s) \ {Head(s)}
    BY <1>1, <1>2 DEF ToSet
  <2>2. ASSUME NEW k \in 1..Len(s), s[k] # Head(s)
        PROVE  s[k] \in ToSet(Tail(s))
    <3>1. /\ k - 1 \in DOMAIN Tail(s) /\ Tail(s)[k - 1] = s[k]
      BY <1>1, <1>3, <2>2
    <3> QED BY <3>1 DEF ToSet
  <2> QED BY <1>1, <2>1, <2>2 DEF ToSet
<1>5. \A i, j \in DOMAIN Tail(s) : i # j => Tail(s)[i] # Tail(s)[j]
  BY <1>1, <1>2
<1> QED BY <1>1, <1>4, <1>5 DEF ToSet

(* A worker takes the first operation of the queue.                        *)
LEMMA DequeueStep ==
    ASSUME IInv, NEW c \in Connections, Dequeue(c)
    PROVE  IInv' /\ StoreStep
<1> DEFINE o == Head(queue)
<1>1. TypeOK /\ Connected /\ Distinct /\ task[c] = Idle /\ queue # <<>>
  BY DEF IInv, Dequeue
<1>2. /\ task' = [task EXCEPT ![c] = Start(o)] /\ queue' = Tail(queue)
      /\ UNCHANGED <<phase, async, ended, order, called, handle, errno, session,
                     committed, answer, met, faults>>
  BY DEF Dequeue
<1>3. /\ queue' \in Seq(Ops) /\ o \in Ops /\ o \in ToSet(queue)
      /\ ToSet(queue)' = ToSet(queue) \ {o}
      /\ \A i, j \in DOMAIN queue' : i # j => queue'[i] # queue'[j]
  <2>1. queue \in Seq(Ops) /\ \A i, j \in DOMAIN queue : i # j => queue[i] # queue[j]
    BY <1>1 DEF TypeOK, Distinct
  <2>2. ToSet(queue)' = ToSet(queue')
    BY DEF ToSet
  <2> QED BY <1>1, <1>2, <2>1, <2>2, TailSet
<1> HIDE DEF o
<1>4. /\ Connected' /\ task' \in [Connections -> TaskType]
      /\ \A d \in Connections :
            task'[d].op # None => task'[d].pos \in 1..Size[task'[d].op]
      /\ \A d \in Connections \ {c} : Op(d)' = Op(d)
      /\ Op(c) = None
      /\ Op(c)' = o \/ (Op(c)' = None /\ Effect(o) = 0)
  BY <1>1, <1>2, <1>3, StartSound
<1>5. /\ Submitted' = Submitted /\ Faulty' = Faulty
      /\ Connections' = Connections
  BY <1>2 DEF Submitted, Faulty, ToSet, Connections
<1>6. None \notin ToSet(queue) /\ o # None
  BY <1>1, <1>3, PoolAssumption DEF TypeOK, ToSet, PoolAssumption
<1>7. \A d \in Connections : Op(d) # o
  BY <1>1, <1>3 DEF Distinct
<1>8. /\ Op(c)' = o => Unfinished' = Unfinished
      /\ Op(c)' = None => Unfinished' = Unfinished \ {o}
      /\ o \in Unfinished
  BY <1>3, <1>4, <1>5, <1>6, <1>7 DEF Unfinished
<1>9. TypeOK'
  BY <1>1, <1>2, <1>3, <1>4, <1>5 DEF TypeOK
<1>10. Distinct'
  BY <1>1, <1>3, <1>4, <1>5, <1>6, <1>7, <1>8 DEF Distinct
<1>11. {o} \in SUBSET Unfinished
  BY <1>8
<1> QED
  BY <1>2, <1>4, <1>5, <1>8, <1>9, <1>10, <1>11, AsStutter, AsDrop
  DEF IInv

(* A worker that ends or a ping that is over gives nothing up but itself.  *)
LEMMA RestStep ==
    ASSUME IInv, NEW c \in Connections, NEW n \in {Idle, Exited},
           task[c].pc \in {"idle", "ping"},
           task' = [task EXCEPT ![c] = n],
           UNCHANGED <<phase, async, ended, queue, order, called, handle, errno,
                       session, committed, answer, met, faults>>
    PROVE  IInv' /\ StoreStep
<1>1. TypeOK /\ Distinct /\ \A d \in Connections : Sound(d)
  BY DEF IInv, Connected
<1>2. n \in TaskType /\ n.op = None
  BY DEF Idle, Exited, TaskType, LoopBreaker
<1>3. /\ task'[c] = n /\ session'[c] = AutoCommit
      /\ \A d \in Connections \ {c} : task'[d] = task[d]
  BY <1>1 DEF TypeOK, Sound, Agree, InTrans
<1>4. TypeOK'
  BY <1>1, <1>2, <1>3 DEF TypeOK, Connections
<1>5. Connected'
  <2>1. Sound(c)'
    BY <1>3, SoundWhenIdle
  <2>2. ASSUME NEW d \in Connections \ {c} PROVE Sound(d)'
    BY <1>1, <1>3, <2>2, OthersSound
  <2> QED BY <2>1, <2>2 DEF Connected, Connections
<1>6. /\ Distinct' /\ Submitted' = Submitted
      /\ n.op = Op(c) => Unfinished' = Unfinished
      /\ n.op # Op(c) => Unfinished' = Unfinished \ {Op(c)}
  BY <1>1, <1>2, <1>3, StaysDistinct
<1>7. Faulty' = Faulty
  BY DEF Faulty
<1>8. n.op # Op(c) => {Op(c)} \in SUBSET Unfinished
  BY <1>2 DEF Unfinished
<1> QED BY <1>4, <1>5, <1>6, <1>7, <1>8, AsStutter, AsDrop DEF IInv

(* Steps of Close that touch no connection.                                *)
LEMMA CloseStep ==
    ASSUME IInv, phase' \in {"open", "closing", "closed", "crashed"},
           ended' \in 0..async, queue' = <<>> \/ queue' = queue,
           UNCHANGED <<async, order, called, task, handle, errno, session,
                       committed, answer, met, faults>>
    PROVE  IInv' /\ StoreStep
<1>1. TypeOK /\ Connected /\ Distinct /\ Connections' = Connections
  BY DEF IInv, Connections
<1>2. \A c \in Connections : Op(c)' = Op(c)
  BY DEF Op
<1>3. /\ queue' \in Seq(Ops)
      /\ ToSet(queue)' = {} \/ ToSet(queue)' = ToSet(queue)
      /\ \A i, j \in DOMAIN queue' : i # j => queue'[i] # queue'[j]
  <2>1. CASE queue' = queue
    BY <1>1, <2>1 DEF TypeOK, ToSet, Distinct
  <2>2. CASE queue' = <<>>
    <3>1. DOMAIN queue' = {} /\ queue' \in Seq(Ops)
      BY <2>2
    <3> QED BY <3>1 DEF ToSet
  <2> QED BY <2>1, <2>2
<1>4. TypeOK'
  BY <1>1, <1>3 DEF TypeOK
<1>5. Connected'
  BY <1>1, OthersSound DEF Connected
<1>6. Submitted' = Submitted /\ Faulty' = Faulty
  BY DEF Submitted, Faulty, ToSet
<1>7. Unfinished' \subseteq Unfinished
  BY <1>1, <1>2, <1>3 DEF Unfinished
<1>8. Distinct'
  BY <1>1, <1>2, <1>3, <1>6, <1>7 DEF Distinct
<1>9. /\ Unfinished' = Unfinished \ (Unfinished \ Unfinished')
      /\ (Unfinished \ Unfinished') \in SUBSET Unfinished
  BY <1>7
<1>10. StoreStep
  BY <1>6, <1>9, AsDrop
<1> QED BY <1>4, <1>5, <1>8, <1>10 DEF IInv

-----------------------------------------------------------------------------
(* The invariant holds at the start, where the store is the abstract       *)
(* one's.                                                                  *)
LEMMA InitPool == Init => IInv /\ Store!Init
<1> SUFFICES ASSUME Init PROVE IInv /\ Store!Init
  OBVIOUS
<1>1. Idle \in TaskType /\ Idle.op = None
  BY DEF Idle, TaskType, LoopBreaker
<1>2. AutoCommit \in [trans : BOOLEAN, writes : Seq(Stmt)]
  BY DEF AutoCommit
<1>3. \A c \in Connections : /\ task[c] = Idle /\ session[c] = AutoCommit
                             /\ handle[c] = TRUE /\ Op(c) = None
  BY DEF Init, Op, Idle
<1>4. TypeOK
  <2>1. async \in 1..MaxAsync /\ 0 \in 0..async /\ 0 \in 0..MaxFaults
    BY PoolAssumption DEF Init, PoolAssumption
  <2>2. queue \in Seq(Ops) /\ order \in Seq(Ops) /\ committed \in Seq(Stmt)
    BY DEF Init
  <2>3. answer \in [Ops -> Seq(SUBSET Stmt)]
    BY DEF Init
  <2> QED BY <1>1, <1>2, <1>3, <2>1, <2>2, <2>3 DEF Init, TypeOK
<1>5. Connected
  <2>1. Idle.pc = "idle" /\ Idle.tries = 0 /\ AutoCommit.trans = FALSE
    BY DEF Idle, AutoCommit
  <2> QED BY <1>3, <2>1 DEF Connected, Sound, Agree, InTrans
<1>6. ToSet(queue) = {} /\ ToSet(order) = {} /\ DOMAIN queue = {}
  BY DEF Init, ToSet
<1>7. Unfinished = {} /\ Submitted = {} /\ Faulty = {}
  BY <1>3, <1>6 DEF Unfinished, Submitted, Faulty, Init
<1>8. Distinct
  BY <1>3, <1>6, <1>7 DEF Distinct
<1>9. Store!Init
  BY <1>7 DEF Store!Init, Init
<1> QED BY <1>4, <1>5, <1>8, <1>9 DEF IInv

(* Each step of the pool keeps the invariant and is a step of AtomicStore. *)
LEMMA NextPool ==
    ASSUME IInv, [Next]_vars
    PROVE  IInv' /\ StoreStep
<1>0. TypeOK /\ ended \in 0..async /\ phase \in {"open", "closing", "closed", "crashed"}
  BY DEF IInv, TypeOK
<1>1. ASSUME NEW c \in Connections, Process(c) PROVE IInv' /\ StoreStep
  <2>1. CASE Succeed(c) BY <2>1, SucceedStep
  <2>2. ASSUME NEW kind \in {"sql", "deadlock"}, Refuse(c, kind)
        PROVE  IInv' /\ StoreStep
    BY <2>2, RefuseStep
  <2>3. ASSUME NEW done \in BOOLEAN, Reconnect(c, done)
        PROVE  IInv' /\ StoreStep
    BY <2>3, ReconnectStep
  <2>4. ASSUME NEW done \in BOOLEAN, NEW reached \in BOOLEAN,
               FailToReconnect(c, done, reached)
        PROVE  IInv' /\ StoreStep
    BY <2>4, FailToReconnectStep
  <2>5. CASE NoHandle(c) BY <2>5, NoHandleStep
  <2>6. CASE Abort(c)
    <3>1. faults' \in 0..MaxFaults
      BY <1>0, <2>6, PoolAssumption DEF Abort, TypeOK, PoolAssumption
    <3> QED BY <2>6, <3>1, CrashStep DEF Abort
  <2>7. CASE Ping(c)
    <3>1. CASE handle[c]
      BY <2>7, <3>1, RestStep DEF Ping
    <3>2. CASE ~handle[c]
      BY <1>0, <2>7, <3>2, CrashStep DEF Ping, TypeOK
    <3> QED BY <3>1, <3>2
  <2>8. CASE ExitWorker(c)
    <3>1. task[c].pc = "idle"
      BY <2>8 DEF ExitWorker, Idle
    <3> QED BY <2>8, <3>1, RestStep DEF ExitWorker
  <2> QED BY <1>1, <2>1, <2>2, <2>3, <2>4, <2>5, <2>6, <2>7, <2>8 DEF Process
<1>2. CASE Close
  BY <1>0, <1>2, CloseStep DEF Close
<1>3. CASE CloseConnection
  <2>1. CASE handle[ended + 1]
    <3>1. ended' \in 0..async
      BY <1>0, <1>3, <2>1 DEF CloseConnection, TypeOK
    <3> QED BY <1>0, <1>3, <2>1, <3>1, CloseStep DEF CloseConnection
  <2>2. CASE ~handle[ended + 1]
    BY <1>0, <1>3, <2>2, CrashStep DEF CloseConnection, TypeOK
  <2> QED BY <2>1, <2>2
<1>4. CASE CloseSynch
  <2>1. CASE \A c \in Synchronous : handle[c]
    BY <1>0, <1>4, <2>1, CloseStep DEF CloseSynch
  <2>2. CASE ~\A c \in Synchronous : handle[c]
    BY <1>0, <1>4, <2>2, CrashStep DEF CloseSynch, TypeOK
  <2> QED BY <2>1, <2>2
<1>5. CASE UNCHANGED vars
  BY <1>0, <1>5, CloseStep DEF vars
<1> QED BY <1>1, <1>2, <1>3, <1>4, <1>5, EnqueueStep, GetFreeConnectionStep,
           DequeueStep DEF Next

-----------------------------------------------------------------------------
(* The invariant holds in every run.                                       *)
LEMMA PoolInvariant == Spec => []IInv
<1>1. IInv /\ [Next]_vars => IInv'
  BY NextPool
<1> QED BY InitPool, <1>1, PTL DEF Spec

(* The pool's variables keep their types.                                  *)
THEOREM PoolTypeCorrect == Spec => []TypeOK
BY PoolInvariant, PTL DEF IInv

(* No connection takes an operation up, or ends, while the server holds    *)
(* statements of an earlier transaction back.                              *)
THEOREM ConnectionsAreClean == Spec => []ConnectionClean
<1>1. IInv => ConnectionClean
  BY DEF IInv, Connected, Sound, Agree, InTrans, ConnectionClean
<1> QED BY PoolInvariant, <1>1, PTL

(* Whatever is refused, rolled back, lost or aborted, the pool does        *)
(* nothing that AtomicStore does not allow.                                *)
THEOREM PoolImplementsStore == Spec => ImplementsStore
<1>1. IInv /\ [Next]_vars => [Store!Next]_(Store!vars)
  BY NextPool DEF StoreStep
<1> QED
  BY InitPool, <1>1, PoolInvariant, PTL
  DEF Spec, ImplementsStore, Store!Spec

(* A transaction or statement whose connection held is in effect once and  *)
(* whole, without another operation's statement in between, or not at all. *)
THEOREM PoolIsAtomic == Spec => []AllOrNothing
<1>1. [o \in Ops |-> IF Kind[o] \in {"exec", "trans"} THEN Size[o] ELSE 0]
         \in [Ops -> Nat]
  BY PoolAssumption DEF PoolAssumption
<1>2. StoreProof!Spec => []StoreProof!AllOrNothing
  BY <1>1, StoreProof!StoreIsAtomic
<1>3. StoreProof!Spec <=> Store!Spec
  <2>1. StoreProof!Init <=> Store!Init
    BY DEF StoreProof!Init, Store!Init
  <2>2. StoreProof!Next <=> Store!Next
    BY DEF StoreProof!Next, Store!Next, StoreProof!Submit, Store!Submit,
           StoreProof!Apply, Store!Apply, StoreProof!Tear, Store!Tear,
           StoreProof!Drop, Store!Drop, StoreProof!Writes, Store!Writes
  <2>3. [StoreProof!Next]_(StoreProof!vars) <=> [Store!Next]_(Store!vars)
    BY <2>2 DEF StoreProof!vars, Store!vars
  <2> QED BY <2>1, <2>3, PTL DEF StoreProof!Spec, Store!Spec
<1>4. StoreProof!AllOrNothing <=> AllOrNothing
  BY DEF StoreProof!AllOrNothing, AllOrNothing, Store!AllOrNothing,
         StoreProof!Places, Store!Places
<1> QED BY <1>2, <1>3, <1>4, PoolImplementsStore, PTL DEF ImplementsStore

-----------------------------------------------------------------------------
(* One worker thread: the order of Enqueue is the order of effects.        *)

(* The queued operations that were taken up so far, as far as they show.   *)
Past ==
    ({Op(1)} \ {None})
    \cup ({committed[i][1] : i \in DOMAIN committed} \ called)
    \cup {q \in ToSet(order) : answer[q] # <<>>}

(* Who is where: connection 1 has the queued operations, the others have   *)
(* the direct ones, and no operation is handed over twice.                 *)
Sides ==
    /\ \A i, j \in DOMAIN order : i # j => order[i] # order[j]
    /\ ToSet(order) \cap called = {}
    /\ Op(1) \in ToSet(order) \cup {None}
    /\ \A c \in Connections \ {1} : Op(c) \in called \cup {None}
    /\ ToSet(queue) \subseteq ToSet(order)
    /\ \A i \in DOMAIN committed :
          committed[i][1] \in Submitted /\ ~Reads(committed[i][1])
    /\ \A q \in Ops : answer[q] # <<>> => Reads(q) /\ q \in Submitted

(* The queue is in order, and what was taken up came before it; nothing    *)
(* came after the operation on connection 1.                               *)
InOrder ==
    /\ \A j, k \in DOMAIN queue : j < k => Turn(queue[j]) < Turn(queue[k])
    /\ \A p \in Past, o \in ToSet(queue) : Turn(p) < Turn(o)
    /\ Op(1) # None => \A p \in Past : Turn(p) <= Turn(Op(1))

(* The effects are in order, and an answer holds what came before it.      *)
Effects ==
    \A i, j \in DOMAIN committed :
        /\ i < j
        /\ committed[i][1] \notin called /\ committed[j][1] \notin called
        => Turn(committed[i][1]) <= Turn(committed[j][1])
Answers ==
    \A q \in ToSet(order) : \A k \in DOMAIN answer[q] :
        /\ \A s \in answer[q][k] :
              s[1] \in called \/ (s[1] \in ToSet(order) /\ Turn(s[1]) < Turn(q))
        /\ met[q] = {} =>
              \A s \in ToSet(committed) :
                  s[1] \in called \/ s \in answer[q][k] \/ Turn(s[1]) >= Turn(q)

InSequence == Sides /\ InOrder /\ Effects /\ Answers

Ordered == async = 1 => InSequence

(* Turn inverts the sequence of queued operations.                         *)
LEMMA TurnFacts ==
    ASSUME TypeOK, Sides, NEW o \in ToSet(order)
    PROVE  /\ Turn(o) \in DOMAIN order /\ Turn(o) \in Nat
           /\ order[Turn(o)] = o
<1>1. \E k \in DOMAIN order : order[k] = o
  BY DEF ToSet
<1>2. Turn(o) \in DOMAIN order /\ order[Turn(o)] = o
  BY <1>1 DEF Turn
<1> QED BY <1>2 DEF TypeOK

(* With one worker, what it has finished was queued, and what is committed *)
(* was finished or called for.                                             *)
LEMMA PastIsQueued ==
    ASSUME TypeOK, Sides
    PROVE  /\ Past \subseteq ToSet(order)
           /\ \A i \in DOMAIN committed :
                 committed[i][1] \in called \/ committed[i][1] \in Past
           /\ 1 \in Connections
<1>1. 1 \in Connections
  BY PoolAssumption DEF PoolAssumption, Connections
<1> QED BY <1>1 DEF Past, Sides, Submitted

(* A command of connection c, whatever comes of it.                        *)
LEMMA CommandInSequence ==
    ASSUME IInv, InSequence, NEW c \in Connections, Op(c) \in Ops,
           UNCHANGED <<queue, order, called>>,
           \A d \in Connections \ {c} : Op(d)' = Op(d),
           Op(c)' \in {Op(c), None},
           NEW w \in Seq(Stmt), committed' = committed \o w,
           \A k \in DOMAIN w : w[k][1] = Op(c) /\ ~Reads(Op(c)),
           \A o \in Ops : met[o] \subseteq met'[o],
           \/ answer' = answer
           \/ /\ Reads(Op(c))
              /\ \E rows : /\ answer' = [answer EXCEPT ![Op(c)] = Append(@, rows)]
                           /\ \/ rows = ToSet(committed) /\ w = <<>>
                              \/ rows = {} /\ met'[Op(c)] # {}
    PROVE  InSequence'
<1>1. TypeOK /\ Sides /\ InOrder /\ Effects /\ Answers
  BY DEF IInv, InSequence
<1>2. /\ ToSet(order)' = ToSet(order) /\ ToSet(queue)' = ToSet(queue)
      /\ Submitted' = Submitted /\ \A o : Turn(o)' = Turn(o)
      /\ Connections' = Connections
  BY DEF ToSet, Submitted, Turn, Connections
<1>3. /\ Past \subseteq ToSet(order) /\ 1 \in Connections
      /\ \A i \in DOMAIN committed :
            committed[i][1] \in called \/ committed[i][1] \in Past
      /\ \A o \in ToSet(order) : Turn(o) \in Nat /\ order[Turn(o)] = o
  BY <1>1, PastIsQueued, TurnFacts
<1>4. Op(c) \notin called => c = 1 /\ Op(c) \in Past /\ Op(c) \in ToSet(order)
  BY <1>1, PoolAssumption DEF Sides, Past, PoolAssumption
<1>5. Op(c) \in Submitted
  BY <1>1, PoolAssumption DEF Sides, Submitted, PoolAssumption
<1>6. /\ \A i \in DOMAIN committed : i \in DOMAIN committed' /\ committed'[i] = committed[i]
      /\ \A i \in DOMAIN committed' :
            \/ i \in DOMAIN committed /\ committed'[i] = committed[i]
            \/ /\ \A j \in DOMAIN committed : j < i
               /\ committed'[i][1] = Op(c) /\ ~Reads(Op(c))
               /\ \E m \in DOMAIN w : committed'[i] = w[m]
  <2>1. committed \in Seq(Stmt) /\ Len(committed) \in Nat /\ Len(w) \in Nat
    BY <1>1 DEF TypeOK
  <2>2. /\ DOMAIN committed = 1..Len(committed) /\ DOMAIN w = 1..Len(w)
        /\ DOMAIN committed' = 1 .. Len(committed) + Len(w)
        /\ \A k \in 1 .. Len(committed) + Len(w) :
              committed'[k] = IF k <= Len(committed)
                              THEN committed[k] ELSE w[k - Len(committed)]
    BY <2>1
  <2>3. \A k \in 1 .. Len(committed) + Len(w) :
           \/ k \in 1..Len(committed)
           \/ ~(k <= Len(committed)) /\ k - Len(committed) \in 1..Len(w)
    BY <2>1
  <2>4. 1..Len(committed) \subseteq 1 .. Len(committed) + Len(w)
    BY <2>1
  <2> QED BY <2>1, <2>2, <2>3, <2>4
<1>7. /\ \A q \in Ops \ {Op(c)} : answer'[q] = answer[q]
      /\ answer[Op(c)] # answer'[Op(c)] =>
            /\ Reads(Op(c))
            /\ \A k \in DOMAIN answer'[Op(c)] :
                  \/ k \in DOMAIN answer[Op(c)] /\ answer'[Op(c)][k] = answer[Op(c)][k]
                  \/ answer'[Op(c)][k] = ToSet(committed) /\ w = <<>>
                  \/ answer'[Op(c)][k] = {} /\ met'[Op(c)] # {}
  <2>1. CASE answer' = answer
    BY <2>1
  <2>2. ASSUME NEW rows, Reads(Op(c)),
               answer' = [answer EXCEPT ![Op(c)] = Append(@, rows)],
               \/ rows = ToSet(committed) /\ w = <<>>
               \/ rows = {} /\ met'[Op(c)] # {}
        PROVE  /\ \A q \in Ops \ {Op(c)} : answer'[q] = answer[q]
               /\ \A k \in DOMAIN answer'[Op(c)] :
                  \/ k \in DOMAIN answer[Op(c)] /\ answer'[Op(c)][k] = answer[Op(c)][k]
                  \/ answer'[Op(c)][k] = ToSet(committed) /\ w = <<>>
                  \/ answer'[Op(c)][k] = {} /\ met'[Op(c)] # {}
    <3>1. answer[Op(c)] \in Seq(SUBSET Stmt) /\ answer \in [Ops -> Seq(SUBSET Stmt)]
      BY <1>1 DEF TypeOK
    <3>2. answer'[Op(c)] = Append(answer[Op(c)], rows)
      BY <2>2, <3>1
    <3>3. \A k \in DOMAIN Append(answer[Op(c)], rows) :
             \/ k \in DOMAIN answer[Op(c)]
                /\ Append(answer[Op(c)], rows)[k] = answer[Op(c)][k]
             \/ Append(answer[Op(c)], rows)[k] = rows
      BY <3>1
    <3> QED BY <2>2, <3>1, <3>2, <3>3
  <2> QED BY <2>1, <2>2
<1>8. Past' \subseteq Past
  <2>1. ASSUME NEW i \in DOMAIN committed', committed'[i][1] \notin called
        PROVE  committed'[i][1] \in Past
    BY <1>3, <1>4, <1>6, <2>1
  <2>2. ASSUME NEW q \in ToSet(order), answer'[q] # <<>> PROVE q \in Past
    <3>1. q \in Ops
      BY <1>1 DEF TypeOK, ToSet
    <3>2. CASE q = Op(c)
      BY <1>1, <1>4, <3>2 DEF Sides
    <3>3. CASE q # Op(c)
      BY <1>7, <2>2, <3>1, <3>3 DEF Past
    <3> QED BY <3>2, <3>3
  <2>3. Op(1)' \in Past \cup {None}
    BY <1>3 DEF Past
  <2>4. ASSUME NEW p \in Past' PROVE p \in Past
    <3>1. \/ p = Op(1)' /\ p # None
          \/ \E i \in DOMAIN committed' : p = committed'[i][1] /\ p \notin called
          \/ p \in ToSet(order) /\ answer'[p] # <<>>
      BY <1>2, <2>4 DEF Past
    <3> QED BY <2>1, <2>2, <2>3, <3>1
  <2> QED BY <2>4
<1>9. Sides'
  <2>1. Op(1)' \in ToSet(order) \cup {None}
    BY <1>1, <1>3 DEF Sides
  <2>2. \A d \in Connections \ {1} : Op(d)' \in called \cup {None}
    BY <1>1 DEF Sides
  <2>3. \A i \in DOMAIN committed' :
           committed'[i][1] \in Submitted /\ ~Reads(committed'[i][1])
    BY <1>1, <1>5, <1>6 DEF Sides
  <2>4. \A q \in Ops : answer'[q] # <<>> => Reads(q) /\ q \in Submitted
    BY <1>1, <1>5, <1>7 DEF Sides
  <2> QED BY <1>1, <1>2, <2>1, <2>2, <2>3, <2>4 DEF Sides
<1>10. InOrder'
  BY <1>1, <1>2, <1>3, <1>8 DEF InOrder
<1>11. Effects'
  <2> SUFFICES ASSUME NEW i \in DOMAIN committed', NEW j \in DOMAIN committed',
                      i < j, committed'[i][1] \notin called,
                      committed'[j][1] \notin called
               PROVE  Turn(committed'[i][1]) <= Turn(committed'[j][1])
    BY <1>2 DEF Effects
  <2>0. i \in Int /\ j \in Int
    <3>1. committed' \in Seq(Stmt)
      BY <1>1 DEF TypeOK
    <3> QED BY <3>1
  <2>1. CASE j \in DOMAIN committed
    <3>1. i \in DOMAIN committed /\ committed'[i] = committed[i]
      BY <1>6, <2>0, <2>1
    <3> QED BY <1>1, <1>6, <2>1, <3>1 DEF Effects
  <2>2. CASE j \notin DOMAIN committed
    <3>1. committed'[j][1] = Op(c) /\ Op(c) \in ToSet(order) /\ c = 1
      BY <1>4, <1>6, <2>2
    <3>2. committed'[i][1] \in Past
      BY <1>3, <1>4, <1>6
    <3>3. Op(1) # None
      BY <3>1, PoolAssumption DEF PoolAssumption
    <3> QED BY <1>1, <3>1, <3>2, <3>3 DEF InOrder
  <2> QED BY <2>1, <2>2
<1>12. Answers'
  <2>0. \A x \in ToSet(order) : x \in Ops
    BY <1>1 DEF TypeOK, ToSet
  <2> SUFFICES ASSUME NEW q \in ToSet(order), NEW k \in DOMAIN answer'[q]
               PROVE  /\ \A s \in answer'[q][k] :
                            \/ s[1] \in called
                            \/ s[1] \in ToSet(order) /\ Turn(s[1]) < Turn(q)
                      /\ met'[q] = {} =>
                            \A i \in DOMAIN committed' :
                               \/ committed'[i][1] \in called
                               \/ committed'[i] \in answer'[q][k]
                               \/ Turn(committed'[i][1]) >= Turn(q)
    <3>1. ToSet(committed)' = {committed'[i] : i \in DOMAIN committed'}
      BY DEF ToSet
    <3>2. \A q \in ToSet(order) : \A k \in DOMAIN answer'[q] :
             \A s \in answer'[q][k] :
                \/ s[1] \in called
                \/ s[1] \in ToSet(order) /\ Turn(s[1]) < Turn(q)
      OBVIOUS
    <3>3. ASSUME NEW q \in ToSet(order), NEW k \in DOMAIN answer'[q],
                 met'[q] = {}, NEW s \in ToSet(committed)'
          PROVE  s[1] \in called \/ s \in answer'[q][k] \/ Turn(s[1]) >= Turn(q)
      <4>1. PICK i \in DOMAIN committed' : s = committed'[i]
        BY <3>1
      <4> QED BY <3>3, <4>1
    <3> QED BY <1>2, <3>2, <3>3 DEF Answers
  <2>1. q \in Ops
    BY <2>0
  <2>2. CASE k \in DOMAIN answer[q] /\ answer'[q][k] = answer[q][k]
    <3>1. /\ \A s \in answer[q][k] :
                s[1] \in called \/ (s[1] \in ToSet(order) /\ Turn(s[1]) < Turn(q))
          /\ met[q] = {} =>
                \A i \in DOMAIN committed :
                   \/ committed[i][1] \in called
                   \/ committed[i] \in answer[q][k]
                   \/ Turn(committed[i][1]) >= Turn(q)
      BY <1>1, <2>2 DEF Answers, ToSet
    <3>2. met'[q] = {} => met[q] = {}
      BY <2>1
    <3>3. q \in Past
      <4>1. answer[q] # <<>>
        BY <2>2
      <4> QED BY <4>1 DEF Past
    <3>4. Op(c) \in called \/ Turn(Op(c)) >= Turn(q)
      <4>1. Op(c) \notin called => c = 1 /\ Op(1) # None /\ Turn(Op(c)) \in Nat
        BY <1>3, <1>4, PoolAssumption DEF PoolAssumption
      <4>2. Op(c) \notin called => Turn(q) <= Turn(Op(c))
        BY <1>1, <3>3, <4>1 DEF InOrder
      <4>3. Turn(q) \in Nat
        BY <1>3
      <4> QED BY <4>1, <4>2, <4>3
    <3> QED BY <1>6, <2>2, <3>1, <3>2, <3>4
  <2>3. CASE ~(k \in DOMAIN answer[q] /\ answer'[q][k] = answer[q][k])
    <3>1. /\ q = Op(c) /\ Reads(q)
          /\ \/ answer'[q][k] = ToSet(committed) /\ w = <<>>
             \/ answer'[q][k] = {} /\ met'[q] # {}
      BY <1>7, <2>1, <2>3
    <3>2. c = 1 /\ Op(1) # None /\ q = Op(1)
      BY <1>1, <1>4, <3>1, PoolAssumption DEF Sides, PoolAssumption
    <3>3. CASE answer'[q][k] = {} /\ met'[q] # {}
      BY <3>3
    <3>4. CASE answer'[q][k] = ToSet(committed) /\ w = <<>>
      <4>1. committed' = committed
        <5>1. committed \in Seq(Stmt)
          BY <1>1 DEF TypeOK
        <5> QED BY <3>4, <5>1
      <4>2. ASSUME NEW i \in DOMAIN committed, committed[i][1] \notin called
            PROVE  /\ committed[i][1] \in ToSet(order)
                   /\ Turn(committed[i][1]) < Turn(q)
        <5>1. committed[i][1] \in Past /\ ~Reads(committed[i][1])
          BY <1>1, <1>3, <4>2 DEF Sides
        <5>2. /\ Turn(committed[i][1]) <= Turn(q)
              /\ Turn(committed[i][1]) \in Nat
              /\ order[Turn(committed[i][1])] = committed[i][1]
          BY <1>1, <1>3, <3>2, <5>1 DEF InOrder
        <5>3. Turn(q) \in Nat /\ order[Turn(q)] = q
          BY <1>3
        <5>4. Turn(committed[i][1]) # Turn(q)
          BY <3>1, <5>1, <5>2, <5>3
        <5> QED BY <1>3, <5>1, <5>2, <5>3, <5>4
      <4> QED BY <3>4, <4>1, <4>2 DEF ToSet
    <3> QED BY <3>1, <3>3, <3>4
  <2> QED BY <2>2, <2>3
<1> QED BY <1>9, <1>10, <1>11, <1>12 DEF InSequence

(* Operations that leave the queue or a connection without an effect.      *)
LEMMA ShrinkInSequence ==
    ASSUME IInv, InSequence, queue' = <<>> \/ queue' = queue,
           UNCHANGED <<order, called, committed, answer, met>>,
           \A d \in Connections : Op(d)' \in {Op(d), None}
    PROVE  InSequence'
<1>1. TypeOK /\ Sides /\ InOrder /\ Effects /\ Answers
  BY DEF IInv, InSequence
<1>2. /\ ToSet(order)' = ToSet(order) /\ ToSet(queue)' \subseteq ToSet(queue)
      /\ ToSet(committed)' = ToSet(committed)
      /\ Submitted' = Submitted /\ \A o : Turn(o)' = Turn(o)
      /\ Connections' = Connections
  BY DEF ToSet, Submitted, Turn, Connections
<1>3. 1 \in Connections
  BY <1>1, PastIsQueued
<1>4. Past' \subseteq Past
  BY <1>2, <1>3 DEF Past
<1>5. Sides'
  BY <1>1, <1>2, <1>3 DEF Sides
<1>6. InOrder'
  BY <1>1, <1>2, <1>3, <1>4 DEF InOrder
<1>7. Effects' /\ Answers'
  BY <1>1, <1>2 DEF Effects, Answers
<1> QED BY <1>5, <1>6, <1>7 DEF InSequence

(* A newly queued operation comes after all others.                        *)
LEMMA EnqueueInSequence ==
    ASSUME IInv, InSequence, NEW o \in Ops, Enqueue(o)
    PROVE  InSequence'
<1>1. TypeOK /\ Sides /\ InOrder /\ Effects /\ Answers /\ o \notin Submitted
  BY DEF IInv, InSequence, Enqueue
<1>2. /\ queue' = Append(queue, o) /\ order' = Append(order, o)
      /\ UNCHANGED <<called, task, committed, answer, met>>
  BY DEF Enqueue
<1>3. /\ Past \subseteq ToSet(order) /\ 1 \in Connections
      /\ \A i \in DOMAIN committed :
            committed[i][1] \in called \/ committed[i][1] \in Past
      /\ \A p \in ToSet(order) : Turn(p) \in DOMAIN order /\ order[Turn(p)] = p
  BY <1>1, PastIsQueued, TurnFacts
<1>4. /\ ToSet(queue)' = ToSet(queue) \cup {o}
      /\ ToSet(order)' = ToSet(order) \cup {o}
      /\ ToSet(committed)' = ToSet(committed)
      /\ Submitted' = Submitted \cup {o} /\ Connections' = Connections
  <2>1. queue \in Seq(Ops) /\ order \in Seq(Ops)
    BY <1>1 DEF TypeOK
  <2>2. ToSet(queue)' = ToSet(queue') /\ ToSet(order)' = ToSet(order')
    BY DEF ToSet
  <2>3. /\ ToSet(queue)' = ToSet(queue) \cup {o}
        /\ ToSet(order)' = ToSet(order) \cup {o}
    BY <1>2, <2>1, <2>2, AppendSet
  <2> QED BY <1>2, <2>3 DEF Submitted, Connections, ToSet
<1>5. /\ o \notin ToSet(order) /\ o \notin called /\ answer[o] = <<>>
  BY <1>1 DEF Submitted, Sides
<1>6. /\ DOMAIN order = 1..Len(order) /\ Len(order) \in Nat
      /\ DOMAIN order' = 1 .. Len(order) + 1
      /\ \A k \in DOMAIN order : order'[k] = order[k]
      /\ order'[Len(order) + 1] = o
  <2>1. order \in Seq(Ops)
    BY <1>1 DEF TypeOK
  <2> QED BY <1>2, <2>1
<1>7. \A k \in DOMAIN order : order[k] # o
  BY <1>5 DEF ToSet
<1>8. \A i, j \in DOMAIN order' : i # j => order'[i] # order'[j]
  <2>1. \A i \in DOMAIN order' : i \in DOMAIN order \/ i = Len(order) + 1
    BY <1>6
  <2> QED BY <1>1, <1>6, <1>7, <2>1 DEF Sides
<1>9. ASSUME NEW p \in ToSet(order) PROVE Turn(p)' = Turn(p)
  <2>1. Turn(p) \in DOMAIN order' /\ order'[Turn(p)] = p
    BY <1>3, <1>6
  <2>2. Turn(p)' \in DOMAIN order' /\ order'[Turn(p)'] = p
    BY <2>1 DEF Turn
  <2> QED BY <1>8, <2>1, <2>2
<1>10. \A p \in ToSet(order) : Turn(p) < Turn(o)' /\ Turn(p) \in Nat
  <2>1. Len(order) + 1 \in DOMAIN order'
    BY <1>6
  <2>2. Turn(o)' \in DOMAIN order' /\ order'[Turn(o)'] = o
    BY <1>6, <2>1 DEF Turn
  <2>3. Turn(o)' = Len(order) + 1
    BY <1>6, <1>8, <2>1, <2>2
  <2> QED BY <1>3, <1>6, <2>3
<1>11. Past' = Past
  BY <1>2, <1>4, <1>5 DEF Past, Op
<1>12. Sides'
  <2>1. \A d \in Connections : Op(d)' = Op(d)
    BY <1>2 DEF Op
  <2> QED BY <1>1, <1>2, <1>3, <1>4, <1>5, <1>8, <2>1 DEF Sides
<1>13. InOrder'
  <2> DEFINE T(p) == CHOOSE k \in DOMAIN order' : order'[k] = p
  <2>0. \A p \in ToSet(order) : T(p) = Turn(p) /\ T(p) < T(o)
    BY <1>9, <1>10 DEF Turn
  <2>1. ToSet(queue) \subseteq ToSet(order) /\ Op(1)' = Op(1)
        /\ (Op(1) # None => Op(1) \in ToSet(order))
    BY <1>1, <1>2 DEF Sides, Op
  <2>2. ASSUME NEW j \in DOMAIN queue', NEW k \in DOMAIN queue', j < k
        PROVE  T(queue'[j]) < T(queue'[k])
    <3> HIDE DEF T
    <3>1. /\ queue \in Seq(Ops) /\ DOMAIN queue = 1..Len(queue)
          /\ Len(queue) \in Nat /\ DOMAIN queue' = 1 .. Len(queue) + 1
          /\ \A i \in DOMAIN queue : queue'[i] = queue[i] /\ queue[i] \in ToSet(queue)
          /\ queue'[Len(queue) + 1] = o
      <4>1. queue \in Seq(Ops)
        BY <1>1 DEF TypeOK
      <4> QED BY <1>2, <4>1 DEF ToSet
    <3>2. j \in DOMAIN queue
      BY <2>2, <3>1
    <3>3. CASE k \in DOMAIN queue
      <4>1. Turn(queue[j]) < Turn(queue[k])
        BY <1>1, <2>2, <3>2, <3>3 DEF InOrder
      <4> QED BY <2>0, <2>1, <3>1, <3>2, <3>3, <4>1
    <3>4. CASE k = Len(queue) + 1
      BY <2>0, <2>1, <3>1, <3>2, <3>4
    <3> QED BY <3>1, <3>3, <3>4
  <2>3. \A p \in Past, q \in ToSet(queue) \cup {o} : T(p) < T(q)
    <3> HIDE DEF T
    <3> QED BY <1>1, <1>3, <2>0, <2>1 DEF InOrder
  <2>4. Op(1) # None => \A p \in Past : T(p) <= T(Op(1))
    <3> HIDE DEF T
    <3> QED BY <1>1, <1>3, <2>0, <2>1 DEF InOrder
  <2>5. (\A j, k \in DOMAIN queue : j < k => Turn(queue[j]) < Turn(queue[k]))'
    BY <2>2 DEF Turn
  <2>6. (\A p \in Past, q \in ToSet(queue) : Turn(p) < Turn(q))'
    BY <1>4, <1>11, <2>3 DEF Turn
  <2>7. (Op(1) # None => \A p \in Past : Turn(p) <= Turn(Op(1)))'
    BY <1>11, <2>1, <2>4 DEF Turn
  <2> QED BY <2>5, <2>6, <2>7 DEF InOrder
<1>14. Effects'
  <2>1. \A i \in DOMAIN committed :
           committed[i][1] \notin called => committed[i][1] \in ToSet(order)
    BY <1>3
  <2> QED BY <1>1, <1>2, <1>9, <2>1 DEF Effects
<1>15. Answers'
  <2>1. \A s \in ToSet(committed) : s[1] \notin called => s[1] \in ToSet(order)
    BY <1>3 DEF ToSet
  <2>2. DOMAIN answer[o] = {}
    BY <1>5
  <2> QED BY <1>1, <1>2, <1>4, <1>9, <2>1, <2>2 DEF Answers
<1> QED BY <1>12, <1>13, <1>14, <1>15 DEF InSequence

(* A direct operation is on another side.                                  *)
LEMMA GetFreeConnectionInSequence ==
    ASSUME IInv, InSequence, NEW o \in Ops, NEW c \in Connections,
           GetFreeConnection(o, c)
    PROVE  InSequence'
<1>1. /\ TypeOK /\ Sides /\ InOrder /\ Effects /\ Answers
      /\ o \notin Submitted /\ task[c] = Idle
  BY DEF IInv, InSequence, GetFreeConnection
<1>2. /\ task' = [task EXCEPT ![c] = Start(o)] /\ called' = called \cup {o}
      /\ UNCHANGED <<queue, order, handle, session, committed, answer, met>>
  BY DEF GetFreeConnection
<1>3. c # 1
  BY PoolAssumption DEF GetFreeConnection, Synchronous, PoolAssumption
<1>4. /\ \A d \in Connections \ {c} : Op(d)' = Op(d)
      /\ Op(c)' \in {o, None}
  BY <1>1, <1>2, StartSound
<1>5. /\ ToSet(order)' = ToSet(order) /\ ToSet(queue)' = ToSet(queue)
      /\ ToSet(committed)' = ToSet(committed)
      /\ Submitted' = Submitted \cup {o} /\ \A p : Turn(p)' = Turn(p)
      /\ Connections' = Connections
  BY <1>2 DEF ToSet, Submitted, Turn, Connections
<1>6. /\ 1 \in Connections /\ Op(1)' = Op(1) /\ o \notin ToSet(order)
  BY <1>1, <1>3, <1>4, PastIsQueued DEF Submitted
<1>7. Past' \subseteq Past
  BY <1>2, <1>5, <1>6 DEF Past
<1>8. Sides'
  BY <1>1, <1>2, <1>4, <1>5, <1>6 DEF Sides
<1>9. InOrder'
  BY <1>1, <1>2, <1>5, <1>6, <1>7 DEF InOrder
<1>10. Effects' /\ Answers'
  BY <1>1, <1>2, <1>5 DEF Effects, Answers
<1> QED BY <1>8, <1>9, <1>10 DEF InSequence

(* The worker takes the operation up that comes next.                      *)
LEMMA DequeueInSequence ==
    ASSUME IInv, async = 1, InSequence, NEW c \in Connections, Dequeue(c)
    PROVE  InSequence'
<1> DEFINE o == Head(queue)
<1>1. /\ TypeOK /\ Sides /\ InOrder /\ Effects /\ Answers /\ Distinct
      /\ task[c] = Idle /\ queue # <<>> /\ c = 1
  BY DEF IInv, InSequence, Dequeue, Asynchronous
<1>2. /\ task' = [task EXCEPT ![c] = Start(o)] /\ queue' = Tail(queue)
      /\ UNCHANGED <<order, called, handle, session, committed, answer, met>>
  BY DEF Dequeue
<1>3. /\ queue \in Seq(Ops) /\ o \in Ops /\ o \in ToSet(queue)
      /\ ToSet(queue)' = ToSet(queue) \ {o}
  <2>1. queue \in Seq(Ops) /\ \A i, j \in DOMAIN queue : i # j => queue[i] # queue[j]
    BY <1>1 DEF TypeOK, Distinct
  <2>2. ToSet(queue)' = ToSet(queue')
    BY DEF ToSet
  <2> QED BY <1>1, <1>2, <2>1, <2>2, TailSet
<1>4. /\ o = queue[1] /\ 1 \in DOMAIN queue
      /\ \A k \in DOMAIN queue' :
            k + 1 \in DOMAIN queue /\ 1 < k + 1 /\ queue'[k] = queue[k + 1]
      /\ \A j, k \in DOMAIN queue' : j < k => j + 1 < k + 1
  BY <1>1, <1>2, <1>3
<1> HIDE DEF o
<1>5. /\ \A d \in Connections \ {1} : Op(d)' = Op(d)
      /\ Op(1)' \in {o, None} /\ Op(1) = None /\ 1 \in Connections
  BY <1>1, <1>2, <1>3, StartSound, PastIsQueued
<1>6. /\ ToSet(order)' = ToSet(order) /\ ToSet(committed)' = ToSet(committed)
      /\ Submitted' = Submitted /\ \A p : Turn(p)' = Turn(p)
      /\ Connections' = Connections
  BY <1>2 DEF ToSet, Submitted, Turn, Connections
<1>7. /\ Past' \subseteq Past \cup {o} /\ o \in ToSet(order)
      /\ Turn(o) \in Nat /\ \A p \in Past : Turn(p) < Turn(o) /\ Turn(p) \in Nat
  <2>1. o \in ToSet(order) /\ Past \subseteq ToSet(order)
    BY <1>1, <1>3, PastIsQueued DEF Sides
  <2>2. Past' \subseteq Past \cup {o}
    BY <1>2, <1>5, <1>6 DEF Past
  <2> QED BY <1>1, <1>3, <2>1, <2>2, TurnFacts DEF InOrder
<1>8. Sides'
  BY <1>1, <1>2, <1>3, <1>5, <1>6, <1>7 DEF Sides
<1>9. InOrder'
  <2>1. \A j, k \in DOMAIN queue' : j < k => Turn(queue'[j]) < Turn(queue'[k])
    BY <1>1, <1>4 DEF InOrder
  <2>2. \A q \in ToSet(queue)' : Turn(o) < Turn(q)
    <3>1. \A k \in DOMAIN queue' : Turn(o) < Turn(queue'[k])
      BY <1>1, <1>4 DEF InOrder
    <3> QED BY <3>1 DEF ToSet
  <2>3. \A p \in Past', q \in ToSet(queue)' : Turn(p) < Turn(q)
    BY <1>1, <1>3, <1>7, <2>2 DEF InOrder
  <2>4. Op(1)' # None => \A p \in Past' : Turn(p) <= Turn(Op(1)')
    BY <1>5, <1>7
  <2> QED BY <1>6, <2>1, <2>3, <2>4 DEF InOrder
<1>10. Effects' /\ Answers'
  BY <1>1, <1>2, <1>6 DEF Effects, Answers
<1> QED BY <1>8, <1>9, <1>10 DEF InSequence

(* What a command puts into effect is of its own operation, which writes.  *)
LEMMA DurableIsOwn ==
    ASSUME IInv, NEW c \in Connections, task[c].pc \in Commands
    PROVE  /\ Durable(c) \in Seq(Stmt)
           /\ \A k \in DOMAIN Durable(c) :
                 Durable(c)[k][1] = Op(c) /\ ~Reads(Op(c))
           /\ task[c].pc = "stmt" /\ Reads(Op(c)) => Durable(c) = <<>>
<1>1. /\ TypeOK /\ Sound(c) /\ Op(c) \in Ops /\ Size[Op(c)] \in Nat
      /\ task[c].pos \in Nat
  BY CommandFacts
<1>2. /\ Durable(c) \in Seq(Stmt)
      /\ task[c].pc = "stmt" /\ Reads(Op(c)) => Durable(c) = <<>>
  BY <1>1, DurableType, ServerCases
<1>3. \/ Durable(c) = <<>>
      \/ Durable(c) = Part(Op(c), Size[Op(c)]) /\ ~Reads(Op(c))
      \/ Durable(c) = <<<<Op(c), task[c].pos>>>> /\ ~Reads(Op(c))
  <2>1. Kind[Op(c)] = "trans" => ~Reads(Op(c))
    BY DEF Reads
  <2>2. task[c].pc = "commit" => Kind[Op(c)] = "trans"
    BY <1>1 DEF Sound
  <2>3. session[c].trans \in BOOLEAN
    BY <1>1 DEF TypeOK
  <2> QED BY <1>1, <2>1, <2>2, <2>3, ServerCases DEF Commands
<1>4. /\ DOMAIN Part(Op(c), Size[Op(c)]) = 1..Size[Op(c)]
      /\ \A k \in 1..Size[Op(c)] : Part(Op(c), Size[Op(c)])[k][1] = Op(c)
  BY <1>1 DEF Part
<1>5. \A k \in DOMAIN <<<<Op(c), task[c].pos>>>> :
         <<<<Op(c), task[c].pos>>>>[k][1] = Op(c)
  OBVIOUS
<1>6. \A k \in DOMAIN Durable(c) : Durable(c)[k][1] = Op(c) /\ ~Reads(Op(c))
  <2>1. CASE Durable(c) = <<>>
    BY <2>1
  <2>2. CASE Durable(c) = Part(Op(c), Size[Op(c)]) /\ ~Reads(Op(c))
    BY <1>4, <2>2
  <2>3. CASE Durable(c) = <<<<Op(c), task[c].pos>>>> /\ ~Reads(Op(c))
    BY <1>5, <2>3
  <2> QED BY <1>3, <2>1, <2>2, <2>3
<1> QED BY <1>2, <1>6

(* An operation stays on its connection until it ends.                     *)
LEMMA StaysOrEnds ==
    ASSUME IInv, NEW c \in Connections, task[c].pc \in Commands,
           NEW ok \in BOOLEAN, NEW err \in Nat,
           \/ task' = [task EXCEPT ![c] = Continue(c, ok, err)]
           \/ task' = task
    PROVE  /\ Op(c)' \in {Op(c), None}
           /\ \A d \in Connections \ {c} : Op(d)' = Op(d)
<1>1. TypeOK /\ Sound(c) /\ task \in [Connections -> TaskType]
  BY CommandFacts DEF TypeOK
<1>2. Continue(c, ok, err).op \in {Op(c), None}
  BY <1>1, TaskRecord
     DEF Continue, AfterStatement, AfterQuery, Op, Idle, TaskType
<1> QED BY <1>1, <1>2 DEF Op

(* The result of a query is appended to its answer.                        *)
LEMMA AnswerCases ==
    ASSUME NEW c \in Connections, NEW rows, answer' = Answer(c, rows)
    PROVE  \/ answer' = answer
           \/ /\ task[c].pc = "stmt" /\ Reads(Op(c))
              /\ answer' = [answer EXCEPT ![Op(c)] = Append(@, rows)]
BY DEF Answer

(* An error that is noted stays noted.                                     *)
LEMMA MetGrows ==
    ASSUME TypeOK, NEW o \in Ops, NEW e,
           met' = [met EXCEPT ![o] = @ \cup {e}]
    PROVE  met'[o] # {} /\ \A p \in Ops : met[p] \subseteq met'[p]
BY DEF TypeOK

(* Every command that a connection may send, with what may become of it.   *)
LEMMA ProcessInSequence ==
    ASSUME IInv, InSequence, NEW c \in Connections,
           \/ Succeed(c)
           \/ \E kind \in {"sql", "deadlock"} : Refuse(c, kind)
           \/ \E done \in BOOLEAN : Reconnect(c, done)
           \/ \E done, reached \in BOOLEAN : FailToReconnect(c, done, reached)
           \/ NoHandle(c)
    PROVE  InSequence'
<1>1. task[c].pc \in Commands
  BY DEF Succeed, Refuse, Reconnect, FailToReconnect, NoHandle, Busy
<1>2. TypeOK /\ Op(c) \in Ops /\ committed \in Seq(Stmt)
  BY <1>1, CommandFacts DEF TypeOK
<1>3. /\ Durable(c) \in Seq(Stmt)
      /\ \A k \in DOMAIN Durable(c) :
            Durable(c)[k][1] = Op(c) /\ ~Reads(Op(c))
      /\ task[c].pc = "stmt" /\ Reads(Op(c)) => Durable(c) = <<>>
  BY <1>1, DurableIsOwn
<1>4. committed = committed \o <<>> /\ <<>> \in Seq(Stmt)
  BY <1>2
<1>5. DOMAIN <<>> = {}
  OBVIOUS
<1>6. CASE Succeed(c)
  <2>1. /\ UNCHANGED <<queue, order, called, met>>
        /\ committed' = committed \o Durable(c)
        /\ answer' = Answer(c, ToSet(committed))
        /\ task' = [task EXCEPT ![c] = Continue(c, TRUE, 0)]
    BY <1>6 DEF Succeed
  <2>2. Op(c)' \in {Op(c), None} /\ \A d \in Connections \ {c} : Op(d)' = Op(d)
    BY <1>1, <2>1, StaysOrEnds
  <2>3. \/ answer' = answer
        \/ /\ Reads(Op(c)) /\ Durable(c) = <<>>
           /\ answer' = [answer EXCEPT ![Op(c)] = Append(@, ToSet(committed))]
    BY <1>3, <2>1, AnswerCases
  <2>4. \A o \in Ops : met[o] \subseteq met'[o]
    BY <2>1
  <2>5. \/ answer' = answer
        \/ /\ Reads(Op(c))
           /\ \E rows : /\ answer' = [answer EXCEPT ![Op(c)] = Append(@, rows)]
                        /\ \/ rows = ToSet(committed) /\ Durable(c) = <<>>
                           \/ rows = {} /\ met'[Op(c)] # {}
    BY <2>3
  <2> QED BY <1>2, <1>3, <2>1, <2>2, <2>4, <2>5, CommandInSequence
<1>7. ASSUME NEW w \in {Durable(c), <<>>}, committed' = committed \o w,
             UNCHANGED <<queue, order, called>>,
             NEW ok \in BOOLEAN, NEW err \in Nat, NEW e,
             \/ task' = [task EXCEPT ![c] = Continue(c, ok, err)]
             \/ task' = task,
             met' = [met EXCEPT ![Op(c)] = @ \cup {e}],
             answer' = answer \/ answer' = Answer(c, {})
      PROVE  InSequence'
  <2>1. Op(c)' \in {Op(c), None} /\ \A d \in Connections \ {c} : Op(d)' = Op(d)
    BY <1>1, <1>7, StaysOrEnds
  <2>2. met'[Op(c)] # {} /\ \A o \in Ops : met[o] \subseteq met'[o]
    BY <1>2, <1>7, MetGrows
  <2>3. \/ answer' = answer
        \/ /\ Reads(Op(c))
           /\ \E rows : /\ answer' = [answer EXCEPT ![Op(c)] = Append(@, rows)]
                        /\ \/ rows = ToSet(committed) /\ w = <<>>
                           \/ rows = {} /\ met'[Op(c)] # {}
    BY <1>7, <2>2, AnswerCases
  <2>4. w \in Seq(Stmt) /\ \A k \in DOMAIN w : w[k][1] = Op(c) /\ ~Reads(Op(c))
    BY <1>3, <1>4, <1>5
  <2> QED BY <1>2, <1>7, <2>1, <2>2, <2>3, <2>4, CommandInSequence
<1>8. ASSUME NEW kind \in {"sql", "deadlock"}, Refuse(c, kind)
      PROVE  InSequence'
  <2>1. errno'[c] \in Nat
    BY <1>2, <1>8 DEF Refuse, TypeOK, Deadlocked
  <2> QED BY <1>4, <1>7, <1>8, <2>1 DEF Refuse
<1>9. ASSUME NEW done \in BOOLEAN, Reconnect(c, done) PROVE InSequence'
  <2>1. \E w \in {Durable(c), <<>>} : committed' = committed \o w
    BY <1>4, <1>9 DEF Reconnect
  <2> QED BY <1>7, <1>9, <2>1 DEF Reconnect
<1>10. ASSUME NEW done \in BOOLEAN, NEW reached \in BOOLEAN,
              FailToReconnect(c, done, reached)
       PROVE  InSequence'
  <2>1. \E w \in {Durable(c), <<>>} : committed' = committed \o w
    BY <1>4, <1>10 DEF FailToReconnect
  <2> QED BY <1>7, <1>10, <2>1 DEF FailToReconnect
<1>11. CASE NoHandle(c)
  BY <1>4, <1>7, <1>11 DEF NoHandle
<1> QED BY <1>6, <1>8, <1>9, <1>10, <1>11

(* The pool starts in order, and every step keeps it.                      *)
LEMMA InitOrdered == Init => Ordered
<1> SUFFICES ASSUME Init PROVE InSequence
  BY DEF Ordered
<1>1. 1 \in Connections
  BY PoolAssumption DEF PoolAssumption, Connections
<1>2. \A c \in Connections : Op(c) = None
  BY DEF Init, Op, Idle
<1>3. /\ ToSet(queue) = {} /\ ToSet(order) = {} /\ ToSet(committed) = {}
      /\ DOMAIN queue = {} /\ DOMAIN order = {} /\ DOMAIN committed = {}
      /\ \A q \in Ops : answer[q] = <<>>
  BY DEF Init, ToSet
<1> QED
  BY <1>1, <1>2, <1>3
  DEF InSequence, Sides, InOrder, Effects, Answers, Init

(* Every step keeps the effects in the order of the queue.                 *)
LEMMA NextOrdered ==
    ASSUME IInv, Ordered, [Next]_vars
    PROVE  Ordered'
<1>1. async' = async
  BY DEF Next, Enqueue, GetFreeConnection, Dequeue, Process, Succeed, Refuse,
         Reconnect, FailToReconnect, NoHandle, Abort, Ping, ExitWorker, Close,
         CloseConnection, CloseSynch, Crash, vars
<1> SUFFICES ASSUME async = 1 PROVE InSequence'
  BY <1>1 DEF Ordered
<1>2. InSequence
  BY DEF Ordered
<1>3. /\ Idle.op = None /\ Exited.op = None
      /\ \A d \in Connections : task'[d] \in {task[d], Idle, Exited} =>
            Op(d)' \in {Op(d), None}
  BY DEF Op, Idle, Exited
<1>4. ASSUME Crash, UNCHANGED met PROVE InSequence'
  BY <1>2, <1>3, <1>4, ShrinkInSequence DEF Crash
<1>5. ASSUME NEW c \in Connections, Process(c) PROVE InSequence'
  <2>0. task \in [Connections -> TaskType]
    BY DEF IInv, TypeOK
  <2>1. CASE Abort(c) BY <1>4, <2>1 DEF Abort
  <2>2. CASE Ping(c)
    BY <1>2, <1>3, <1>4, <2>0, <2>2, ShrinkInSequence DEF Ping
  <2>3. CASE ExitWorker(c)
    BY <1>2, <1>3, <2>0, <2>3, ShrinkInSequence DEF ExitWorker
  <2> QED BY <1>2, <1>5, <2>1, <2>2, <2>3, ProcessInSequence DEF Process
<1>6. CASE Close \/ CloseConnection \/ CloseSynch \/ UNCHANGED vars
  BY <1>2, <1>3, <1>4, <1>6, ShrinkInSequence
     DEF Close, CloseConnection, CloseSynch, vars
<1> QED BY <1>2, <1>5, <1>6, EnqueueInSequence, GetFreeConnectionInSequence,
           DequeueInSequence DEF Next

(* With one worker thread the statements of queued operations take effect  *)
(* in the order in which the operations were queued, and a queued query    *)
(* that did not fail sees those before it and none of those after it.      *)
THEOREM EffectsFollowTheQueue == Spec => []OneWorkerOrder
<1>1. IInv /\ Ordered /\ [Next]_vars => Ordered'
  BY NextOrdered
<1>2. IInv /\ Ordered => OneWorkerOrder
  <2> SUFFICES ASSUME IInv, Ordered, async = 1 PROVE OneWorkerOrder
    BY DEF OneWorkerOrder
  <2>1. TypeOK /\ Sides /\ Effects /\ Answers
    BY DEF IInv, Ordered, InSequence
  <2>2. ASSUME NEW q \in ToSet(order), NEW s \in ToSet(committed),
               NEW k \in DOMAIN answer[q], met[q] = {}, s[1] \notin called
        PROVE  s \in answer[q][k] <=> Turn(s[1]) < Turn(q)
    <3>1. s[1] \in ToSet(order)
      BY <2>1, <2>2 DEF Sides, ToSet, Submitted
    <3>2. Turn(q) \in Nat /\ Turn(s[1]) \in Nat
      BY <2>1, <3>1, TurnFacts
    <3>3. s \in answer[q][k] => Turn(s[1]) < Turn(q)
      BY <2>1, <2>2 DEF Answers
    <3>4. s \in answer[q][k] \/ Turn(s[1]) >= Turn(q)
      BY <2>1, <2>2 DEF Answers
    <3> QED BY <3>2, <3>3, <3>4
  <2> QED BY <2>1, <2>2 DEF OneWorkerOrder, Effects
<1> QED BY InitOrdered, PoolInvariant, <1>1, <1>2, PTL DEF Spec
=============================================================================
