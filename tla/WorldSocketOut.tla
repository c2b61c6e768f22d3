--------------------------- MODULE WorldSocketOut ---------------------------
(***************************************************************************)
(* The output side of one WorldSocket after open() has registered it.      *)
(* World, map and network threads put packets in one buffer and, when it   *)
(* has no room, in a message queue; one network thread sends them, either  *)
(* because the reactor reports the socket writable or from the Update()    *)
(* that runs after every round of the event loop.                          *)
(*                                                                         *)
(* Bytes are numbered in the order in which SendPacket encrypts them, so a *)
(* piece of output is an interval [from, to): the client can decrypt the   *)
(* stream only if it gets the intervals one after the other.  Whatever is  *)
(* done under m_OutBufferLock is one step.                                 *)
(***************************************************************************)
EXTENDS Integers, Sequences

CONSTANTS
    Threads,     \* threads that send packets
    BufferSize,  \* m_OutBufferSize, Network.OutUBuff
    HighWater,   \* high water mark of the message queue
    MaxPacket,   \* header and payload of the largest packet
    MaxWritten   \* bound: bytes written in the life of the socket

ASSUME SocketAssumption ==
    /\ BufferSize \in Nat \ {0}
    /\ HighWater \in Nat \ {0}
    /\ MaxPacket \in Nat \ {0}
    /\ MaxWritten \in Nat

VARIABLES
    closing_,
    m_OutActive,
    writeMask,    \* the reactor watches the socket for WRITE_MASK
    registered,   \* the reactor has the handler
    inSockets,    \* the socket is in ReactorRunnable::m_Sockets
    m_OutBuffer,  \* an interval
    msg_queue,    \* intervals, with the size of the block they were put in
    cur_bytes,    \* ACE's count of the bytes in the queue
    written,      \* bytes encrypted by SendPacket
    sent,         \* the next byte after those given to the kernel
    refused,      \* history: some SendPacket returned -1, the queue was full
    failed,       \* threads that got -1 and have not called CloseSocket
    net,          \* where the network thread is
    upcall        \* it was called by the reactor, not by svc()

vars == <<closing_, m_OutActive, writeMask, registered, inSockets,
          m_OutBuffer, msg_queue, cur_bytes, written, sent, refused, failed,
          net, upcall>>

reactorVars == <<writeMask, registered, inSockets>>
bufferVars  == <<m_OutBuffer, msg_queue, cur_bytes, sent>>
senderVars  == <<written, refused, failed>>

Interval == [from : Nat, to : Nat]
Block    == [from : Nat, to : Nat, size : Nat]

TypeOK ==
    /\ closing_ \in BOOLEAN
    /\ m_OutActive \in BOOLEAN
    /\ writeMask \in BOOLEAN
    /\ registered \in BOOLEAN
    /\ inSockets \in BOOLEAN
    /\ m_OutBuffer \in Interval
    /\ msg_queue \in Seq(Block)
    /\ cur_bytes \in Int
    /\ written \in Nat
    /\ sent \in Nat
    /\ refused \in BOOLEAN
    /\ failed \subseteq Threads
    /\ net \in {"loop", "output", "schedule", "cancel", "error"}
    /\ upcall \in BOOLEAN

Empty == [from |-> 0, to |-> 0]

(* WorldSocket::open: the connection packet is in the buffer and the       *)
(* handler is registered for reading and writing.                          *)
Init ==
    /\ closing_ = FALSE
    /\ m_OutActive = TRUE
    /\ writeMask = TRUE
    /\ registered = TRUE
    /\ inSockets = TRUE
    /\ m_OutBuffer = [from |-> 0, to |-> 1]
    /\ msg_queue = <<>>
    /\ cur_bytes = 0
    /\ written = 1
    /\ sent = 0
    /\ refused = FALSE
    /\ failed = {}
    /\ net = "loop"
    /\ upcall = FALSE

Length(b) == b.to - b.from

Space == BufferSize - Length(m_OutBuffer)

is_empty == msg_queue = <<>>

(* ACE_Message_Queue::is_full_i                                            *)
IsFull(bytes) == bytes >= HighWater

-----------------------------------------------------------------------------
(* Threads that send                                                       *)

(* The buffer is one interval because its end is the last byte written     *)
(* whenever the queue is empty; InOrder states that.                       *)
PutInBuffer(n) ==
    /\ m_OutBuffer' = [from |-> IF m_OutBuffer = Empty THEN written
                                ELSE m_OutBuffer.from,
                       to   |-> written + n]
    /\ UNCHANGED <<msg_queue, cur_bytes, refused, failed>>

enqueue_tail(n) ==
    /\ msg_queue' = Append(msg_queue,
                           [from |-> written, to |-> written + n, size |-> n])
    /\ cur_bytes' = cur_bytes + n
    /\ UNCHANGED <<m_OutBuffer, refused, failed>>

(* The header has been encrypted when enqueue_tail fails.                  *)
Refuse(t) ==
    /\ refused' = TRUE
    /\ failed' = failed \cup {t}
    /\ UNCHANGED <<m_OutBuffer, msg_queue, cur_bytes>>

(* Mutant: the buffer is used although older packets wait in the queue.    *)
SendPacket_NoQueueCheck(t, n) ==
    /\ t \notin failed
    /\ ~closing_
    /\ written + n <= MaxWritten
    /\ written' = written + n
    /\ \/ Space >= n /\ PutInBuffer(n)
       \/ Space < n /\ ~IsFull(cur_bytes) /\ enqueue_tail(n)
       \/ Space < n /\ IsFull(cur_bytes) /\ Refuse(t)
    /\ UNCHANGED <<closing_, m_OutActive, sent, net, upcall, reactorVars>>

SendPacket(t, n) ==
    /\ t \notin failed
    /\ ~closing_
    /\ written + n <= MaxWritten
    /\ written' = written + n
    /\ \/ Space >= n /\ is_empty /\ PutInBuffer(n)
       \/ ~(Space >= n /\ is_empty) /\ ~IsFull(cur_bytes) /\ enqueue_tail(n)
       \/ ~(Space >= n /\ is_empty) /\ IsFull(cur_bytes) /\ Refuse(t)
    /\ UNCHANGED <<closing_, m_OutActive, sent, net, upcall, reactorVars>>

(* Called after a failed SendPacket or to kick the player.                 *)
CloseSocket(t) ==
    /\ t \in failed \/ ~closing_
    /\ closing_' = TRUE
    /\ failed' = failed \ {t}
    /\ UNCHANGED <<m_OutActive, written, refused, net, upcall, bufferVars,
                   reactorVars>>

-----------------------------------------------------------------------------
(* The network thread: events of the reactor and the loop of svc()         *)

(* The reactor calls handle_output.                                        *)
WriteReady ==
    /\ net = "loop"
    /\ registered
    /\ writeMask
    /\ net' = "output"
    /\ upcall' = TRUE
    /\ UNCHANGED <<closing_, m_OutActive, bufferVars, senderVars, reactorVars>>

(* WorldSocket::Update up to its first handle_output.                      *)
Update(up) ==
    /\ upcall' = up
    /\ net' = IF closing_ THEN "error"
              ELSE IF m_OutActive \/ (m_OutBuffer = Empty /\ is_empty)
                   THEN "loop" ELSE "output"
    /\ UNCHANGED <<closing_, m_OutActive, bufferVars, senderVars, reactorVars>>

(* The reactor calls handle_input; what it reads is not modelled, the      *)
(* packets it answers with are those of SendPacket.                        *)
handle_input ==
    /\ net = "loop"
    /\ registered
    /\ Update(TRUE)

(* handle_input when the peer has gone or sent something malformed.        *)
InputError ==
    /\ net = "loop"
    /\ registered
    /\ net' = "error"
    /\ upcall' = TRUE
    /\ UNCHANGED <<closing_, m_OutActive, bufferVars, senderVars, reactorVars>>

svc ==
    /\ net = "loop"
    /\ inSockets
    /\ Update(FALSE)

(* m_OutBuffer->reset(), after its last byte has gone or when it is empty. *)
ResetBuffer == m_OutBuffer' = Empty

SentBuffer == IF m_OutBuffer = Empty THEN sent ELSE m_OutBuffer.to

(* handle_output and handle_output_queue return -1.  A block taken from    *)
(* the queue is released.                                                  *)
OutputError ==
    /\ net = "output"
    /\ net' = "error"
    /\ \/ UNCHANGED bufferVars
       \/ /\ ~closing_
          /\ ~is_empty
          /\ ResetBuffer
          /\ sent' = SentBuffer
          /\ msg_queue' = Tail(msg_queue)
          /\ cur_bytes' = cur_bytes - Head(msg_queue).size
    /\ UNCHANGED <<closing_, m_OutActive, upcall, senderVars, reactorVars>>

-----------------------------------------------------------------------------
(* The network thread: handle_output                                       *)

(* Mutant: the reactor is not told.                                        *)
schedule_wakeup_output_NoMask ==
    /\ net' = "loop"
    /\ m_OutActive' = TRUE

schedule_wakeup_output ==
    /\ net' = IF m_OutActive THEN "loop" ELSE "schedule"
    /\ m_OutActive' = TRUE

(* Mutant: the flag is not cleared.                                        *)
cancel_wakeup_output_KeepFlag ==
    /\ net' = IF m_OutActive THEN "cancel" ELSE "loop"
    /\ UNCHANGED m_OutActive

cancel_wakeup_output ==
    /\ net' = IF m_OutActive THEN "cancel" ELSE "loop"
    /\ m_OutActive' = FALSE

(* Mutant: the read pointer is moved the wrong way.                        *)
SendPartOfBuffer_Back(k) ==
    /\ k < Length(m_OutBuffer)
    /\ m_OutBuffer' = [m_OutBuffer EXCEPT !.from = @ - k]
    /\ sent' = IF k = 0 THEN sent ELSE m_OutBuffer.from + k
    /\ schedule_wakeup_output
    /\ UNCHANGED <<msg_queue, cur_bytes>>

(* The kernel takes k bytes, not all the buffer holds.                     *)
SendPartOfBuffer(k) ==
    /\ k < Length(m_OutBuffer)
    /\ m_OutBuffer' = [m_OutBuffer EXCEPT !.from = @ + k]
    /\ sent' = IF k = 0 THEN sent ELSE m_OutBuffer.from + k
    /\ schedule_wakeup_output
    /\ UNCHANGED <<msg_queue, cur_bytes>>

SendLastOfBuffer ==
    /\ is_empty
    /\ ResetBuffer
    /\ sent' = SentBuffer
    /\ cancel_wakeup_output
    /\ UNCHANGED <<msg_queue, cur_bytes>>

(* Mutant: the rest of the block is put at the tail.                       *)
SendPartOfBlock_Tail(k) ==
    LET mblk == Head(msg_queue)
        rest == Tail(msg_queue)
    IN  /\ k < Length(mblk)
        /\ ResetBuffer
        /\ sent' = IF k = 0 THEN SentBuffer ELSE mblk.from + k
        /\ msg_queue' = Append(rest, [mblk EXCEPT !.from = @ + k])
        /\ UNCHANGED cur_bytes
        /\ schedule_wakeup_output

(* handle_output_queue with room for k bytes of the first block.  A block  *)
(* that is not sent whole goes back to the head, unless the queue without  *)
(* it is still at its high water mark: then the block is gone, which is an *)
(* error after a partial send and goes unnoticed when nothing was sent.    *)
SendPartOfBlock(k) ==
    LET mblk == Head(msg_queue)
        rest == Tail(msg_queue)
        full == IsFull(cur_bytes - mblk.size)
    IN  /\ k < Length(mblk)
        /\ ResetBuffer
        /\ sent' = IF k = 0 THEN SentBuffer ELSE mblk.from + k
        /\ msg_queue' = IF full THEN rest
                        ELSE <<[mblk EXCEPT !.from = @ + k]>> \o rest
        /\ cur_bytes' = IF full THEN cur_bytes - mblk.size ELSE cur_bytes
        /\ IF full /\ k > 0
           THEN net' = "error" /\ UNCHANGED m_OutActive
           ELSE schedule_wakeup_output

SendBlock ==
    /\ ResetBuffer
    /\ sent' = Head(msg_queue).to
    /\ msg_queue' = Tail(msg_queue)
    /\ cur_bytes' = cur_bytes - Head(msg_queue).size
    /\ IF Tail(msg_queue) = <<>>
       THEN cancel_wakeup_output
       ELSE UNCHANGED <<net, m_OutActive>>

(* One call; k is the room the kernel has for what follows the buffer, or  *)
(* for the buffer itself when it is not sent whole.                        *)
handle_output(k) ==
    /\ net = "output"
    /\ ~closing_
    /\ \/ SendPartOfBuffer(k)
       \/ SendLastOfBuffer
       \/ ~is_empty /\ SendPartOfBlock(k)
       \/ ~is_empty /\ SendBlock
    /\ UNCHANGED <<closing_, upcall, senderVars, reactorVars>>

(* After the lock is released: the reactor, which may refuse.              *)
schedule_wakeup ==
    /\ net = "schedule"
    /\ \/ writeMask' = TRUE /\ net' = "loop"
       \/ UNCHANGED writeMask /\ net' = "error"
    /\ UNCHANGED <<closing_, m_OutActive, registered, inSockets, upcall,
                   bufferVars, senderVars>>

cancel_wakeup ==
    /\ net = "cancel"
    /\ \/ writeMask' = FALSE /\ net' = "loop"
       \/ UNCHANGED writeMask /\ net' = "error"
    /\ UNCHANGED <<closing_, m_OutActive, registered, inSockets, upcall,
                   bufferVars, senderVars>>

-----------------------------------------------------------------------------
(* -1 is returned to the reactor.                                          *)
handle_close ==
    /\ net = "error"
    /\ upcall
    /\ net' = "loop"
    /\ closing_' = TRUE
    /\ registered' = FALSE
    /\ writeMask' = FALSE
    /\ UNCHANGED <<m_OutActive, inSockets, upcall, bufferVars, senderVars>>

(* -1 is returned to svc(): CloseSocket, and the socket leaves m_Sockets.  *)
DropSocket ==
    /\ net = "error"
    /\ ~upcall
    /\ net' = "loop"
    /\ closing_' = TRUE
    /\ inSockets' = FALSE
    /\ UNCHANGED <<m_OutActive, writeMask, registered, upcall, bufferVars,
                   senderVars>>

-----------------------------------------------------------------------------
Sizes == 1..MaxPacket

Output == \E k \in 0..(BufferSize + MaxPacket) : handle_output(k)

Reactor == WriteReady \/ handle_input \/ InputError

Network == \/ Reactor
           \/ svc
           \/ Output
           \/ OutputError
           \/ schedule_wakeup
           \/ cancel_wakeup
           \/ handle_close
           \/ DropSocket

Terminated ==
    /\ closing_
    /\ ~registered
    /\ ~inSockets
    /\ failed = {}
    /\ UNCHANGED vars

Next ==
    \/ \E t \in Threads : (\E n \in Sizes : SendPacket(t, n)) \/ CloseSocket(t)
    \/ Network
    \/ Terminated

Spec == Init /\ [][Next]_vars

(* The network thread runs its loop, the reactor reports the socket when   *)
(* it is writable, the client keeps reading, and a thread whose SendPacket *)
(* failed goes on to its CloseSocket.                                      *)
Progress == \E k \in 1..(BufferSize + MaxPacket) : handle_output(k)

FairSpec ==
    /\ Spec
    /\ WF_vars(Network)
    /\ SF_vars(WriteReady)
    /\ SF_vars(Progress)
    /\ \A t \in Threads : WF_vars(t \in failed /\ CloseSocket(t))

-----------------------------------------------------------------------------
(* Properties                                                              *)

(* What waits is in the order in which it was encrypted and lies after     *)
(* what was sent: buffer, queue and partial sends never repeat or reorder  *)
(* bytes, whichever thread wrote them.                                     *)
InOrder ==
    /\ m_OutBuffer # Empty =>
          /\ sent <= m_OutBuffer.from
          /\ m_OutBuffer.from < m_OutBuffer.to
          /\ is_empty => m_OutBuffer.to = written
    /\ \A i \in DOMAIN msg_queue :
          /\ sent <= msg_queue[i].from
          /\ m_OutBuffer.to <= msg_queue[i].from
          /\ msg_queue[i].from < msg_queue[i].to
          /\ msg_queue[i].to <= written
          /\ \A j \in DOMAIN msg_queue :
                i < j => msg_queue[i].to <= msg_queue[j].from

(* Where the queue starts; w is where the next packet would.               *)
First(q, w) == IF q = <<>> THEN w ELSE q[1].from

(* Every block ends where the next one, or the next packet, starts.        *)
Chained(q, w) ==
    \A i \in DOMAIN q : q[i].to = IF i = Len(q) THEN w ELSE q[i + 1].from

NoGap ==
    /\ m_OutBuffer = Empty => sent = First(msg_queue, written)
    /\ m_OutBuffer # Empty => /\ sent = m_OutBuffer.from
                              /\ m_OutBuffer.to = First(msg_queue, written)
    /\ Chained(msg_queue, written)

(* Unless SendPacket reported a failure, nothing is missing between what   *)
(* was sent and what was written: the client can decrypt every header.     *)
NoSilentLoss == ~closing_ /\ ~refused /\ net # "error" => NoGap

(* As long as the queue stays below its high water mark nothing is lost    *)
(* without SendPacket reporting it: handle_output_queue can always put a   *)
(* block back that the kernel did not take whole.                          *)
LossOnlyAtMark == [](~IsFull(cur_bytes)) => []NoSilentLoss

(* "True if the socket is registered with the reactor for output": when    *)
(* the network thread waits for events the flag and the mask agree, so     *)
(* that waiting output is sent by the reactor or by Update.                *)
WakeupMatches == net = "loop" /\ ~closing_ => (m_OutActive <=> writeMask)

(* What is written is sent, or the socket closes; it does close once a     *)
(* packet could not be queued, whose header has advanced the cipher.       *)
Flushed ==
    /\ (sent < written) ~> (sent = written \/ closing_)
    /\ refused ~> closing_
=============================================================================
