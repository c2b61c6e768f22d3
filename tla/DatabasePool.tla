---------------------------- MODULE DatabasePool ----------------------------
(***************************************************************************)
(* DatabaseWorkerPool with its connections: operations are queued for the  *)
(* worker threads (CommitTransaction, AsyncQuery, DelayQueryHolder) or run *)
(* in the calling thread on a locked synchronous connection (the Direct    *)
(* and Query methods).  A connection sends one command at a time to the    *)
(* MySQL server; a command succeeds, is refused, is chosen as the victim   *)
(* of a deadlock, or breaks the connection, before or after the server     *)
(* has carried it out.                                                     *)
(*                                                                         *)
(* A statement is a pair <<operation, number>>; the database is the        *)
(* sequence of statements in effect, and a query reads the set of them.    *)
(* Statements are not told apart by their SQL text, nor prepared from      *)
(* ad-hoc ones.                                                            *)
(***************************************************************************)
EXTENDS Integers, Sequences, FiniteSets

CONSTANTS
    Ops,         \* SQLOperation objects and direct calls
    Kind,        \* what an operation is, one of Kinds
    Size,        \* its number of statements
    Direct,      \* operations that may be run in the calling thread
    MaxAsync,    \* largest async_threads
    Synchs,      \* synch_threads
    HighWater,   \* operations at which the activation queue is full
    MaxFaults,   \* bound: faults of the server and of the network
    None

Kinds == {"exec", "query", "holder", "trans", "ping"}

ASSUME PoolAssumption ==
    /\ IsFiniteSet(Ops)
    /\ Kind \in [Ops -> Kinds]
    /\ Size \in [Ops -> Nat]
    /\ \A o \in Ops : Kind[o] \in {"exec", "query", "ping"} => Size[o] = 1
    /\ \A o \in Ops : Kind[o] = "holder" => Size[o] > 0 /\ o \notin Direct
    /\ MaxAsync \in 1..32
    /\ Synchs \in Nat
    /\ HighWater \in Nat \ {0}
    /\ MaxFaults \in Nat
    /\ None \notin Ops

VARIABLES
    phase,       \* of the pool: open, closing, closed; or the process crashed
    async,       \* async_threads: the workers are 1..async
    ended,       \* asynchronous connections already closed by Close
    queue,       \* the activation queue
    order,       \* history: queued operations in the order of Enqueue
    called,      \* history: operations run directly
    task,        \* what each connection is doing
    handle,      \* m_Mysql of each connection is not NULL
    errno,       \* mysql_errno of each connection
    session,     \* the server's side of each connection
    committed,   \* the statements in effect
    answer,      \* results of each query, in order; {} also stands for NULL
    met,         \* history: the errors each operation met
    faults       \* how many faults occurred

vars == <<phase, async, ended, queue, order, called, task, handle, errno,
          session, committed, answer, met, faults>>

Connections == 1 .. MaxAsync + Synchs
Asynchronous == 1..async
Synchronous == MaxAsync + 1 .. MaxAsync + Synchs
Stmt == Ops \X Nat

(* ER_LOCK_DEADLOCK, and the number of times a transaction is tried again. *)
Deadlocked == 1213
LoopBreaker == 5

Reads(o) == Kind[o] \in {"query", "holder"}

(* The server holds the writes of an open transaction back until COMMIT.   *)
AutoCommit == [trans |-> FALSE, writes |-> <<>>]

Idle == [op |-> None, pc |-> "idle", pos |-> 0, tries |-> 0]
Exited == [Idle EXCEPT !.pc = "exited"]

TaskType ==
    [op : Ops \cup {None},
     pc : {"idle", "begin", "stmt", "commit", "rollback", "ping", "exited"},
     pos : Nat, tries : 0..LoopBreaker]

TypeOK ==
    /\ phase \in {"open", "closing", "closed", "crashed"}
    /\ async \in 1..MaxAsync
    /\ ended \in 0..async
    /\ queue \in Seq(Ops)
    /\ order \in Seq(Ops)
    /\ called \subseteq Ops
    /\ task \in [Connections -> TaskType]
    /\ \A c \in Connections :
          task[c].op # None => task[c].pos \in 1..Size[task[c].op]
    /\ handle \in [Connections -> BOOLEAN]
    /\ errno \in [Connections -> Nat]
    /\ session \in [Connections -> [trans : BOOLEAN, writes : Seq(Stmt)]]
    /\ committed \in Seq(Stmt)
    /\ answer \in [Ops -> Seq(SUBSET Stmt)]
    /\ met \in [Ops -> SUBSET {"sql", "deadlock", "lost"}]
    /\ faults \in 0..MaxFaults

ToSet(s) == {s[k] : k \in DOMAIN s}

Submitted == ToSet(order) \cup called

Init ==
    /\ phase = "open"
    /\ async \in 1..MaxAsync
    /\ ended = 0
    /\ queue = <<>>
    /\ order = <<>>
    /\ called = {}
    /\ task = [c \in Connections |-> Idle]
    /\ handle = [c \in Connections |-> TRUE]
    /\ errno = [c \in Connections |-> 0]
    /\ session = [c \in Connections |-> AutoCommit]
    /\ committed = <<>>
    /\ answer = [o \in Ops |-> <<>>]
    /\ met = [o \in Ops |-> {}]
    /\ faults = 0

-----------------------------------------------------------------------------
(* Handing operations over                                                 *)

(* Mutant: a transaction is run without START TRANSACTION.                 *)
Start_NoBegin(o) ==
    IF Size[o] = 0 THEN Idle
    ELSE [op |-> o, pc |-> IF Kind[o] = "ping" THEN "ping" ELSE "stmt", pos |-> 1, tries |-> 0]

(* The first command of an operation.  A transaction without a query ends  *)
(* before it begins.                                                       *)
Start(o) ==
    IF Kind[o] = "trans"
    THEN IF Size[o] = 0 THEN Idle ELSE [op |-> o, pc |-> "begin", pos |-> 1, tries |-> 0]
    ELSE [op |-> o, pc |-> IF Kind[o] = "ping" THEN "ping" ELSE "stmt",
          pos |-> 1, tries |-> 0]

(* Mutant: queries are put in front of the queue.                          *)
Enqueue_Front(o) ==
    /\ phase = "open"
    /\ o \notin Submitted
    /\ Len(queue) < HighWater
    /\ queue' = IF Reads(o) THEN <<o>> \o queue ELSE Append(queue, o)
    /\ order' = Append(order, o)
    /\ UNCHANGED <<phase, async, ended, called, task, handle, errno, session,
                   committed, answer, met, faults>>

(* Enqueue: the caller waits while the queue is at its high water mark.    *)
Enqueue(o) ==
    /\ phase = "open"
    /\ o \notin Submitted
    /\ Len(queue) < HighWater
    /\ queue' = Append(queue, o)
    /\ order' = Append(order, o)
    /\ UNCHANGED <<phase, async, ended, called, task, handle, errno, session,
                   committed, answer, met, faults>>

(* GetFreeConnection takes the first synchronous connection it can lock;   *)
(* Unlock is the end of the operation.                                     *)
GetFreeConnection(o, c) ==
    /\ phase = "open"
    /\ o \in Direct \ Submitted
    /\ c \in Synchronous
    /\ task[c] = Idle
    /\ task' = [task EXCEPT ![c] = Start(o)]
    /\ called' = called \cup {o}
    /\ UNCHANGED <<phase, async, ended, queue, order, handle, errno, session,
                   committed, answer, met, faults>>

(* A worker takes the next operation.                                      *)
Dequeue(c) ==
    /\ phase = "open"
    /\ c \in Asynchronous
    /\ task[c] = Idle
    /\ queue # <<>>
    /\ task' = [task EXCEPT ![c] = Start(Head(queue))]
    /\ queue' = Tail(queue)
    /\ UNCHANGED <<phase, async, ended, order, called, handle, errno, session,
                   committed, answer, met, faults>>

-----------------------------------------------------------------------------
(* One command on a connection                                             *)

Op(c) == task[c].op

(* TransactionTask::Execute and DirectCommitTransaction after an attempt   *)
(* that failed: GetLastError decides about the first one only.             *)
TryAgain(c, err) ==
    IF task[c].tries = 0 THEN err = Deadlocked ELSE task[c].tries < LoopBreaker

(* Mutant: a failed transaction is left without ROLLBACK.                  *)
AfterStatement_NoRollback(t, ok) ==
    IF ~ok THEN Idle
    ELSE IF t.pos < Size[t.op] THEN [t EXCEPT !.pos = @ + 1]
    ELSE [t EXCEPT !.pc = "commit"]

(* Mutant: a statement that fails ends the loop, and what ran is committed.*)
AfterStatement_CommitRest(t, ok) ==
    IF ok /\ t.pos < Size[t.op] THEN [t EXCEPT !.pos = @ + 1]
    ELSE [t EXCEPT !.pc = "commit"]

(* The loop of ExecuteTransaction.                                         *)
AfterStatement(t, ok) ==
    IF ~ok THEN [t EXCEPT !.pc = "rollback"]
    ELSE IF t.pos < Size[t.op] THEN [t EXCEPT !.pos = @ + 1]
    ELSE [t EXCEPT !.pc = "commit"]

(* The loop of SQLQueryHolderTask::Execute goes on whatever a query gave.  *)
AfterQuery(t) == IF t.pos < Size[t.op] THEN [t EXCEPT !.pos = @ + 1] ELSE Idle

(* Where the operation goes on after a command that returned ok, err being *)
(* mysql_errno then.  The results of START TRANSACTION, ROLLBACK and       *)
(* COMMIT are ignored.                                                     *)
Continue(c, ok, err) ==
    LET t == task[c]
    IN  CASE t.pc = "begin" ->
                [op |-> t.op, pc |-> "stmt", pos |-> 1, tries |-> t.tries]
          [] t.pc = "stmt" /\ Kind[t.op] = "trans" -> AfterStatement(t, ok)
          [] t.pc = "stmt" /\ Reads(t.op) -> AfterQuery(t)
          [] t.pc = "rollback" /\ TryAgain(c, err) ->
                [t EXCEPT !.pc = "begin", !.tries = @ + 1]
          [] OTHER -> Idle

(* The server's part: the session after the command, and the statements    *)
(* it puts into effect.  START TRANSACTION commits what was open.          *)
SessionAfter(c) ==
    LET s == session[c]
        t == task[c]
    IN  CASE t.pc = "begin" -> [trans |-> TRUE, writes |-> <<>>]
          [] t.pc \in {"commit", "rollback"} -> AutoCommit
          [] t.pc = "stmt" /\ ~Reads(t.op) /\ s.trans ->
                [s EXCEPT !.writes = Append(@, <<t.op, t.pos>>)]
          [] OTHER -> s

Durable(c) ==
    LET s == session[c]
        t == task[c]
    IN  CASE t.pc \in {"begin", "commit"} -> s.writes
          [] t.pc = "stmt" /\ ~Reads(t.op) /\ ~s.trans -> <<<<t.op, t.pos>>>>
          [] OTHER -> <<>>

(* Mutant: the future is set only when there are rows.                     *)
Answer_RowsOnly(c, rows) ==
    IF task[c].pc = "stmt" /\ Reads(Op(c)) /\ rows # {}
    THEN [answer EXCEPT ![Op(c)] = Append(@, rows)]
    ELSE answer

(* A query's result, NULL when it failed as when there are no rows.        *)
Answer(c, rows) ==
    IF task[c].pc = "stmt" /\ Reads(Op(c))
    THEN [answer EXCEPT ![Op(c)] = Append(@, rows)]
    ELSE answer

Commands == {"begin", "stmt", "commit", "rollback"}

Busy(c) == phase \in {"open", "closing"} /\ task[c].pc \in Commands

(* mysql_query or mysql_stmt_execute returned 0.                           *)
Succeed(c) ==
    /\ Busy(c)
    /\ handle[c]
    /\ session' = [session EXCEPT ![c] = SessionAfter(c)]
    /\ committed' = committed \o Durable(c)
    /\ answer' = Answer(c, ToSet(committed))
    /\ errno' = [errno EXCEPT ![c] = 0]
    /\ task' = [task EXCEPT ![c] = Continue(c, TRUE, 0)]
    /\ UNCHANGED <<phase, async, ended, queue, order, called, handle, met, faults>>

(* The server refuses a statement (a duplicate key, a lock wait timeout)   *)
(* or rolls the whole transaction back because of a deadlock; Execute      *)
(* returns false.                                                          *)
Refuse(c, kind) ==
    /\ Busy(c)
    /\ handle[c]
    /\ task[c].pc = "stmt"
    /\ faults < MaxFaults
    /\ faults' = faults + 1
    /\ errno' = [errno EXCEPT ![c] = IF kind = "deadlock" THEN Deadlocked ELSE 1062]
    /\ met' = [met EXCEPT ![Op(c)] = @ \cup {kind}]
    /\ session' = IF kind = "deadlock" THEN [session EXCEPT ![c] = AutoCommit] ELSE session
    /\ answer' = Answer(c, {})
    /\ task' = [task EXCEPT ![c] = Continue(c, FALSE, errno'[c])]
    /\ UNCHANGED <<phase, async, ended, queue, order, called, handle, committed>>

(* The connection breaks under a command, which the server carried out or  *)
(* not; what was not committed is gone.  _HandleMySQLErrno opens a new     *)
(* connection, and the same command is sent again.                         *)
Reconnect(c, done) ==
    /\ Busy(c)
    /\ handle[c]
    /\ faults < MaxFaults
    /\ faults' = faults + 1
    /\ met' = [met EXCEPT ![Op(c)] = @ \cup {"lost"}]
    /\ committed' = IF done THEN committed \o Durable(c) ELSE committed
    /\ session' = [session EXCEPT ![c] = AutoCommit]
    /\ errno' = [errno EXCEPT ![c] = 0]
    /\ UNCHANGED <<phase, async, ended, queue, order, called, handle, task, answer>>

(* The same, but Open fails: the server cannot be reached and m_Mysql is   *)
(* NULL for ever, or a statement could not be prepared on the new          *)
(* connection.  Neither mysql_errno(NULL) nor that of a new connection is  *)
(* one of the cases that open again, and Execute returns false.            *)
FailToReconnect(c, done, reached) ==
    /\ Busy(c)
    /\ handle[c]
    /\ faults < MaxFaults
    /\ faults' = faults + 1
    /\ met' = [met EXCEPT ![Op(c)] = @ \cup {"lost"}]
    /\ committed' = IF done THEN committed \o Durable(c) ELSE committed
    /\ session' = [session EXCEPT ![c] = AutoCommit]
    /\ handle' = [handle EXCEPT ![c] = reached]
    /\ errno' = [errno EXCEPT ![c] = 0]
    /\ answer' = Answer(c, {})
    /\ task' = [task EXCEPT ![c] = Continue(c, FALSE, 0)]
    /\ UNCHANGED <<phase, async, ended, queue, order, called>>

(* Every command on a connection without a handle fails at once.           *)
NoHandle(c) ==
    /\ Busy(c)
    /\ ~handle[c]
    /\ met' = [met EXCEPT ![Op(c)] = @ \cup {"lost"}]
    /\ answer' = Answer(c, {})
    /\ task' = [task EXCEPT ![c] = Continue(c, FALSE, 0)]
    /\ UNCHANGED <<phase, async, ended, queue, order, called, handle, errno,
                   session, committed, faults>>

(* The end of the process: the queue and all connections are gone.         *)
Crash ==
    /\ phase' = "crashed"
    /\ queue' = <<>>
    /\ task' = [c \in Connections |-> Exited]
    /\ session' = [c \in Connections |-> AutoCommit]
    /\ UNCHANGED <<async, ended, order, called, handle, errno, committed, answer>>

(* A statement that does not fit the tables ends in std::abort.            *)
Abort(c) ==
    /\ Busy(c)
    /\ handle[c]
    /\ task[c].pc = "stmt"
    /\ faults < MaxFaults
    /\ faults' = faults + 1
    /\ UNCHANGED met
    /\ Crash

(* PingOperation, KeepAlive: mysql_ping is called with whatever handle     *)
(* there is; NULL ends the process.                                        *)
Ping(c) ==
    /\ phase \in {"open", "closing"}
    /\ task[c].pc = "ping"
    /\ UNCHANGED <<met, faults>>
    /\ \/ /\ handle[c]
          /\ task' = [task EXCEPT ![c] = Idle]
          /\ UNCHANGED <<phase, async, ended, queue, order, called, handle,
                         errno, session, committed, answer>>
       \/ ~handle[c] /\ Crash

-----------------------------------------------------------------------------
(* Closing the pool                                                        *)

(* Close is called when the other threads have ended.  It deactivates the  *)
(* queue, which also flushes it: operations still queued are not run.      *)
Close ==
    /\ phase = "open"
    /\ \A c \in Synchronous : task[c] = Idle
    /\ phase' = "closing"
    /\ queue' = <<>>
    /\ UNCHANGED <<async, ended, order, called, task, handle, errno, session,
                   committed, answer, met, faults>>

(* Mutant: a worker that waits is not woken by the deactivated queue.      *)
ExitWorker_NotWoken(c) ==
    /\ phase = "closing"
    /\ c \in Asynchronous
    /\ task[c] = Idle
    /\ queue # <<>>
    /\ task' = [task EXCEPT ![c] = Exited]
    /\ UNCHANGED <<phase, async, ended, queue, order, called, handle, errno,
                   session, committed, answer, met, faults>>

(* The dequeue of a worker fails and its thread ends.                      *)
ExitWorker(c) ==
    /\ phase = "closing"
    /\ c \in Asynchronous
    /\ task[c] = Idle
    /\ task' = [task EXCEPT ![c] = Exited]
    /\ UNCHANGED <<phase, async, ended, queue, order, called, handle, errno,
                   session, committed, answer, met, faults>>

(* Close waits for one worker after the other and deletes its connection,  *)
(* whose destructor asserts that there is a handle.                        *)
CloseConnection ==
    /\ phase = "closing"
    /\ ended < async
    /\ task[ended + 1] = Exited
    /\ UNCHANGED <<met, faults>>
    /\ \/ /\ handle[ended + 1]
          /\ ended' = ended + 1
          /\ UNCHANGED <<phase, async, queue, order, called, task, handle,
                         errno, session, committed, answer>>
       \/ ~handle[ended + 1] /\ Crash

(* Then the synchronous connections, and the queue itself is deleted.      *)
CloseSynch ==
    /\ phase = "closing"
    /\ ended = async
    /\ UNCHANGED <<met, faults>>
    /\ \/ /\ \A c \in Synchronous : handle[c]
          /\ phase' = "closed"
          /\ UNCHANGED <<async, ended, queue, order, called, task, handle,
                         errno, session, committed, answer>>
       \/ (\E c \in Synchronous : ~handle[c]) /\ Crash

-----------------------------------------------------------------------------

Process(c) ==
    \/ Succeed(c)
    \/ \E kind \in {"sql", "deadlock"} : Refuse(c, kind)
    \/ \E done \in BOOLEAN : Reconnect(c, done)
    \/ \E done, reached \in BOOLEAN : FailToReconnect(c, done, reached)
    \/ NoHandle(c)
    \/ Abort(c)
    \/ Ping(c)
    \/ ExitWorker(c)

Next ==
    \/ \E o \in Ops : Enqueue(o)
    \/ \E o \in Ops, c \in Connections : GetFreeConnection(o, c)
    \/ \E c \in Connections : Dequeue(c)
    \/ \E c \in Connections : Process(c)
    \/ Close
    \/ CloseConnection
    \/ CloseSynch

Spec == Init /\ [][Next]_vars

(* Worker threads run, the queue wakes one of them when it is not empty,   *)
(* and Close goes on once it has begun.                                    *)
Fairness ==
    /\ \A c \in Connections : WF_vars(Process(c))
    /\ WF_vars(\E c \in Connections : Dequeue(c))
    /\ WF_vars(CloseConnection \/ CloseSynch)

FairSpec == Spec /\ Fairness

-----------------------------------------------------------------------------
(* The pool implements AtomicStore                                         *)

Faulty == {o \in Ops : "lost" \in met[o]}
Unfinished == ToSet(queue) \cup ({Op(c) : c \in Connections} \ {None})

Store == INSTANCE AtomicStore WITH
    Length <- [o \in Ops |-> IF Kind[o] \in {"exec", "trans"} THEN Size[o] ELSE 0],
    store  <- committed,
    fresh  <- Ops \ Submitted,
    left   <- Unfinished,
    faulty <- Faulty

(* Whatever the server refuses, whichever transaction a deadlock rolls     *)
(* back and whenever the process ends, each step of the pool hands an      *)
(* operation over, puts a whole one into effect, drops one, or belongs to  *)
(* one whose connection broke.                                             *)
ImplementsStore == Store!Spec

(* A transaction or statement whose connection held is in effect once and  *)
(* whole, with nothing in between, or not at all.                          *)
AllOrNothing == Store!AllOrNothing

(* A connection that takes its next operation has no transaction open on   *)
(* the server, so no statement becomes part of an earlier transaction that *)
(* failed, and none is lost with it.                                       *)
ConnectionClean ==
    \A c \in Connections :
        task[c].pc \in {"idle", "begin", "ping", "exited"} => session[c] = AutoCommit

(* Where o stands in the order of Enqueue.                                 *)
Turn(o) == CHOOSE k \in DOMAIN order : order[k] = o

(* With one worker thread queued operations take effect in the order in    *)
(* which they were queued: a later save cannot be undone by an earlier one.*)
(* And a queued query that did not fail sees all that queued operations    *)
(* before it did, and nothing of those after it: a character loaded after  *)
(* it was saved is the saved one.                                          *)
OneWorkerOrder ==
    async = 1 =>
        /\ \A i, j \in DOMAIN committed :
              LET a == committed[i][1]
                  b == committed[j][1]
              IN  i < j /\ a \notin called /\ b \notin called => Turn(a) <= Turn(b)
        /\ \A q \in ToSet(order), s \in ToSet(committed) :
              \A k \in DOMAIN answer[q] :
                  met[q] = {} /\ s[1] \notin called =>
                      (s \in answer[q][k] <=> Turn(s[1]) < Turn(q))

(* Every query that was queued has its future set, also when it fails or   *)
(* the connection is gone for good, unless the pool is closed first: no    *)
(* session waits for ever for its characters.                              *)
QueriesAnswered ==
    \A o \in {q \in Ops : Reads(q)} :
        o \in ToSet(order)
            ~> Len(answer[o]) = Size[o] \/ phase # "open"

(* Close comes to its end, or to the assertion of a connection that was    *)
(* lost; it does not wait for ever for a worker.                           *)
CloseEnds == phase = "closing" ~> phase \in {"closed", "crashed"}

(* A transaction is in effect with all its statements or with none,        *)
(* whatever happened to its connection.                                    *)
TransactionsWhole ==
    \A o \in Ops :
        Kind[o] = "trans" =>
            Cardinality({s \in ToSet(committed) : s[1] = o}) \in {0, Size[o]}
=============================================================================
