------------------------ MODULE WorldSocketOutProof ------------------------
(***************************************************************************)
(* Proofs about WorldSocketOut, for any number of sending threads and any  *)
(* sizes of buffer, queue and packets.                                     *)
(***************************************************************************)
EXTENDS WorldSocketOut, SequenceTheorems, TLAPS

(* c is the sum of the sizes of the blocks of q, by way of partial sums.   *)
PartialSums(q, f) ==
    f[0] = 0 /\ \A i \in 1..Len(q) : f[i] = f[i - 1] + q[i].size

SumsTo(q, c) ==
    \E f \in [0..Len(q) -> Int] : PartialSums(q, f) /\ c = f[Len(q)]

(* InOrder is inductive once nothing sent lies beyond what was written and *)
(* a full queue is known not to be empty.                                  *)
OrderInv == InOrder /\ sent <= written /\ SumsTo(msg_queue, cur_bytes)

-----------------------------------------------------------------------------
(* Lemmas about the queue                                                  *)

(* The fields of the blocks of a queue.                                    *)
LEMMA BlockFields ==
    ASSUME NEW q \in Seq(Block)
    PROVE  /\ Len(q) \in Nat
           /\ DOMAIN q = 1..Len(q)
           /\ \A i \in DOMAIN q : /\ q[i] \in Block
                                  /\ q[i].from \in Nat
                                  /\ q[i].to \in Nat
                                  /\ q[i].size \in Nat
<1>1. \A i \in DOMAIN q : q[i] \in Block
  OBVIOUS
<1> QED BY <1>1 DEF Block

(* What is left when the first block is taken.                             *)
LEMMA TailBlocks ==
    ASSUME NEW q \in Seq(Block), q # <<>>
    PROVE  /\ Head(q) = q[1]
           /\ Head(q) \in Block
           /\ Tail(q) \in Seq(Block)
           /\ Len(q) \in Nat \ {0}
           /\ 1 \in DOMAIN q
           /\ DOMAIN q = 1..Len(q)
           /\ Len(Tail(q)) = Len(q) - 1
           /\ DOMAIN Tail(q) = 1..(Len(q) - 1)
           /\ \A i \in DOMAIN Tail(q) :
                 i + 1 \in DOMAIN q /\ Tail(q)[i] = q[i + 1]
BY HeadTailProperties

(* The block that is put back replaces the first one.                      *)
LEMMA PutBack ==
    ASSUME NEW q \in Seq(Block), q # <<>>, NEW b \in Block
    PROVE  /\ <<b>> \o Tail(q) \in Seq(Block)
           /\ <<b>> \o Tail(q) # <<>>
           /\ Len(<<b>> \o Tail(q)) = Len(q)
           /\ DOMAIN (<<b>> \o Tail(q)) = DOMAIN q
           /\ (<<b>> \o Tail(q))[1] = b
           /\ \A i \in DOMAIN q : i # 1 => (<<b>> \o Tail(q))[i] = q[i]
<1>1. <<b>> \in Seq(Block) /\ Len(<<b>>) = 1 /\ <<b>>[1] = b
  OBVIOUS
<1>2. /\ Tail(q) \in Seq(Block)
      /\ Len(Tail(q)) = Len(q) - 1
      /\ Len(q) \in Nat \ {0}
      /\ DOMAIN q = 1..Len(q)
      /\ \A i \in 1..(Len(q) - 1) : Tail(q)[i] = q[i + 1]
  BY TailBlocks
<1>3. /\ <<b>> \o Tail(q) \in Seq(Block)
      /\ Len(<<b>> \o Tail(q)) = Len(q)
      /\ \A i \in 1..Len(q) :
            (<<b>> \o Tail(q))[i] = IF i <= 1 THEN <<b>>[i] ELSE Tail(q)[i - 1]
  <2>1. <<b>> \o Tail(q) \in Seq(Block)
    BY <1>1, <1>2, ConcatProperties
  <2>2. Len(<<b>> \o Tail(q)) = 1 + Len(Tail(q))
    BY <1>1, <1>2, ConcatProperties
  <2>3. \A i \in 1..(1 + Len(Tail(q))) :
            (<<b>> \o Tail(q))[i] = IF i <= 1 THEN <<b>>[i] ELSE Tail(q)[i - 1]
    BY <1>1, <1>2, ConcatProperties
  <2> QED BY <1>2, <2>1, <2>2, <2>3
<1>4. \A i \in 1..Len(q) : i # 1 => Tail(q)[i - 1] = q[i]
  BY <1>2
<1>5. DOMAIN (<<b>> \o Tail(q)) = 1..Len(q)
  BY <1>3
<1> QED BY <1>1, <1>2, <1>3, <1>4, <1>5

(* The count of an empty queue is 0.                                       *)
LEMMA SumEmpty ==
    /\ SumsTo(<<>>, 0)
    /\ \A c : SumsTo(<<>>, c) => c = 0
<1>1. SumsTo(<<>>, 0)
  <2>1. [i \in 0..0 |-> 0] \in [0..Len(<<>>) -> Int]
    OBVIOUS
  <2>2. PartialSums(<<>>, [i \in 0..0 |-> 0])
    BY DEF PartialSums
  <2> QED BY <2>1, <2>2 DEF SumsTo
<1>2. ASSUME NEW c, SumsTo(<<>>, c) PROVE c = 0
  BY <1>2 DEF SumsTo, PartialSums
<1> QED BY <1>1, <1>2

(* A block that is enqueued adds its size.                                 *)
LEMMA SumAppend ==
    ASSUME NEW q \in Seq(Block), NEW b \in Block, NEW c, SumsTo(q, c)
    PROVE  SumsTo(Append(q, b), c + b.size)
<1>1. PICK f \in [0..Len(q) -> Int] : PartialSums(q, f) /\ c = f[Len(q)]
  BY DEF SumsTo
<1> DEFINE n == Len(q)
           g == [i \in 0..(n + 1) |-> IF i <= n THEN f[i] ELSE f[n] + b.size]
<1>2. n \in Nat /\ b.size \in Int
  BY DEF Block
<1>3. /\ Len(Append(q, b)) = n + 1
      /\ Append(q, b)[n + 1] = b
      /\ \A i \in 1..n : Append(q, b)[i] = q[i]
  BY <1>2
<1>4. g \in [0..(n + 1) -> Int]
  BY <1>1, <1>2
<1>5. g[0] = 0 /\ g[n + 1] = c + b.size
  BY <1>1, <1>2 DEF PartialSums
<1>6. \A i \in 1..(n + 1) : g[i] = g[i - 1] + Append(q, b)[i].size
  <2> TAKE i \in 1..(n + 1)
  <2>1. CASE i <= n
    <3>1. i \in 1..n /\ g[i] = f[i] /\ g[i - 1] = f[i - 1]
      BY <1>2, <2>1
    <3>2. f[i] = f[i - 1] + q[i].size
      BY <1>1, <3>1 DEF PartialSums
    <3> QED BY <1>3, <3>1, <3>2
  <2>2. CASE i = n + 1
    <3>1. g[i - 1] = f[n] /\ g[i] = f[n] + b.size
      BY <1>2, <2>2
    <3> QED BY <1>3, <2>2, <3>1
  <2> QED BY <1>2, <2>1, <2>2
<1> HIDE DEF g
<1>7. PartialSums(Append(q, b), g)
  BY <1>3, <1>5, <1>6 DEF PartialSums
<1> QED BY <1>3, <1>4, <1>5, <1>7 DEF SumsTo

(* A block that is dequeued takes its size away.                           *)
LEMMA SumTail ==
    ASSUME NEW q \in Seq(Block), q # <<>>, NEW c, SumsTo(q, c)
    PROVE  SumsTo(Tail(q), c - Head(q).size)
<1>1. PICK f \in [0..Len(q) -> Int] : PartialSums(q, f) /\ c = f[Len(q)]
  BY DEF SumsTo
<1> DEFINE n == Len(q) - 1
           g == [i \in 0..n |-> f[i + 1] - f[1]]
<1>2. /\ n \in Nat
      /\ Len(q) = n + 1
      /\ Len(Tail(q)) = n
      /\ Head(q) = q[1]
      /\ \A i \in 1..n : Tail(q)[i] = q[i + 1]
  BY TailBlocks
<1>3. f[0] = 0 /\ f[1] = f[0] + q[1].size /\ f[1] \in Int /\ f[n + 1] \in Int
  BY <1>1, <1>2 DEF PartialSums
<1>4. g \in [0..n -> Int]
  BY <1>1, <1>2, <1>3
<1>5. g[0] = 0 /\ g[n] = c - f[1]
  BY <1>1, <1>2, <1>3
<1>6. \A i \in 1..n : g[i] = g[i - 1] + Tail(q)[i].size
  <2> TAKE i \in 1..n
  <2>1. g[i] = f[i + 1] - f[1] /\ g[i - 1] = f[i] - f[1]
    BY <1>2
  <2>2. i + 1 \in 1..Len(q) /\ (i + 1) - 1 = i
    BY <1>2
  <2>3. f[i + 1] = f[i] + q[i + 1].size
    BY <1>1, <2>2 DEF PartialSums
  <2>4. f[i] \in Int /\ f[i + 1] \in Int /\ q[i + 1].size \in Int
    <3>1. i \in 0..Len(q) /\ i + 1 \in 0..Len(q)
      BY <1>2
    <3>2. q[i + 1].size \in Nat
      BY <2>2, BlockFields
    <3> HIDE DEF n
    <3> QED BY <3>1, <3>2
  <2>5. Tail(q)[i].size = q[i + 1].size
    BY <1>2
  <2> QED BY <1>3, <2>1, <2>3, <2>4, <2>5
<1> HIDE DEF g
<1>7. PartialSums(Tail(q), g)
  BY <1>2, <1>5, <1>6 DEF PartialSums
<1>8. f[1] = Head(q).size
  <2>1. q[1] \in Block
    BY TailBlocks
  <2> QED BY <1>2, <1>3, <2>1 DEF Block
<1> QED BY <1>2, <1>4, <1>5, <1>7, <1>8 DEF SumsTo

(* A block that is put back with its size keeps the sum.                   *)
LEMMA SumPutBack ==
    ASSUME NEW q \in Seq(Block), q # <<>>, NEW b \in Block, NEW c,
           b.size = Head(q).size, SumsTo(q, c)
    PROVE  SumsTo(<<b>> \o Tail(q), c)
<1> DEFINE p == <<b>> \o Tail(q)
<1>1. PICK f \in [0..Len(q) -> Int] : PartialSums(q, f) /\ c = f[Len(q)]
  BY DEF SumsTo
<1>2. Len(p) = Len(q) /\ Len(q) \in Nat
  BY PutBack
<1>3. \A i \in 1..Len(q) : p[i].size = q[i].size
  BY PutBack, TailBlocks
<1> HIDE DEF p
<1>4. PartialSums(p, f)
  BY <1>1, <1>2, <1>3 DEF PartialSums
<1> QED BY <1>1, <1>2, <1>4 DEF SumsTo, p

-----------------------------------------------------------------------------
(* The steps that move bytes keep the types and the order                  *)

(* The fields of the output buffer.                                        *)
LEMMA LengthBounds ==
    ASSUME TypeOK
    PROVE  /\ m_OutBuffer.from \in Nat
           /\ m_OutBuffer.to \in Nat
           /\ m_OutBuffer = [from |-> m_OutBuffer.from, to |-> m_OutBuffer.to]
           /\ Empty \in Interval
           /\ Length(m_OutBuffer) \in Int
BY DEF TypeOK, Interval, Empty, Length

(* A packet goes behind everything that waits.                             *)
LEMMA SendPacketKeeps ==
    ASSUME TypeOK, OrderInv, NEW t \in Threads, NEW n \in Sizes,
           SendPacket(t, n)
    PROVE  TypeOK' /\ OrderInv'
<1>0. n \in Nat \ {0} /\ written \in Nat /\ sent \in Nat
  BY SocketAssumption DEF Sizes, SocketAssumption, TypeOK
<1>1. /\ written' = written + n
      /\ UNCHANGED <<closing_, m_OutActive, sent, net, upcall, writeMask,
                     registered, inSockets>>
  BY DEF SendPacket, reactorVars
<1>2. CASE Space >= n /\ is_empty /\ PutInBuffer(n)
  <2>1. m_OutBuffer' = [from |-> IF m_OutBuffer = Empty THEN written
                                 ELSE m_OutBuffer.from,
                        to   |-> written + n]
    BY <1>2 DEF PutInBuffer
  <2>2. UNCHANGED <<msg_queue, cur_bytes, refused, failed>> /\ msg_queue = <<>>
    BY <1>2 DEF PutInBuffer, is_empty
  <2>3. TypeOK'
    BY <1>0, <1>1, <2>1, <2>2, LengthBounds DEF TypeOK, Interval
  <2>4. m_OutBuffer # Empty =>
           sent <= m_OutBuffer.from /\ m_OutBuffer.from < written
    BY <2>2 DEF OrderInv, InOrder, is_empty
  <2>5. /\ sent <= m_OutBuffer'.from
        /\ m_OutBuffer'.from < m_OutBuffer'.to
        /\ m_OutBuffer'.to = written'
    BY <1>0, <1>1, <2>1, <2>4, LengthBounds DEF OrderInv
  <2>6. SumsTo(msg_queue', cur_bytes') /\ sent' <= written'
    BY <1>0, <1>1, <2>2 DEF OrderInv
  <2> QED BY <1>0, <1>1, <2>2, <2>3, <2>5, <2>6 DEF OrderInv, InOrder, is_empty
<1>3. CASE enqueue_tail(n)
  <2> DEFINE b == [from |-> written, to |-> written + n, size |-> n]
  <2>1. b \in Block
    BY <1>0 DEF Block
  <2>2. /\ msg_queue' = Append(msg_queue, b)
        /\ cur_bytes' = cur_bytes + n
        /\ UNCHANGED <<m_OutBuffer, refused, failed>>
    BY <1>3 DEF enqueue_tail
  <2>3. msg_queue \in Seq(Block)
    BY DEF TypeOK
  <2>4. /\ msg_queue' \in Seq(Block)
        /\ Len(msg_queue) \in Nat
        /\ DOMAIN msg_queue = 1..Len(msg_queue)
        /\ DOMAIN msg_queue' = 1..(Len(msg_queue) + 1)
        /\ \A i \in DOMAIN msg_queue : msg_queue'[i] = msg_queue[i]
        /\ msg_queue'[Len(msg_queue) + 1] = b
        /\ msg_queue' # <<>>
    <3> HIDE DEF b
    <3> QED BY <2>1, <2>2, <2>3
  <2>5. TypeOK'
    BY <1>0, <1>1, <2>2, <2>4 DEF TypeOK
  <2>6. m_OutBuffer.to <= written
    <3>1. CASE m_OutBuffer = Empty
      BY <1>0, <3>1 DEF Empty
    <3>2. CASE m_OutBuffer # Empty /\ is_empty
      BY <1>0, <3>2 DEF OrderInv, InOrder
    <3>3. CASE ~is_empty
      <4>1. 1 \in DOMAIN msg_queue /\ msg_queue[1] \in Block
        BY <2>3, <3>3, TailBlocks DEF is_empty
      <4>2. /\ m_OutBuffer.to <= msg_queue[1].from
            /\ msg_queue[1].from < msg_queue[1].to
            /\ msg_queue[1].to <= written
        BY <4>1 DEF OrderInv, InOrder
      <4> QED BY <1>0, <4>1, <4>2, LengthBounds DEF Block
    <3> QED BY <3>1, <3>2, <3>3
  <2>7. \A i \in DOMAIN msg_queue :
           /\ msg_queue[i] \in Block
           /\ sent <= msg_queue[i].from
           /\ m_OutBuffer.to <= msg_queue[i].from
           /\ msg_queue[i].from < msg_queue[i].to
           /\ msg_queue[i].to <= written
           /\ \A j \in DOMAIN msg_queue :
                 i < j => msg_queue[i].to <= msg_queue[j].from
    BY <2>3 DEF OrderInv, InOrder
  <2>8. \A i \in DOMAIN msg_queue' :
           /\ sent' <= msg_queue'[i].from
           /\ m_OutBuffer'.to <= msg_queue'[i].from
           /\ msg_queue'[i].from < msg_queue'[i].to
           /\ msg_queue'[i].to <= written'
    <3> TAKE i \in DOMAIN msg_queue'
    <3>1. CASE i \in DOMAIN msg_queue
      BY <1>0, <1>1, <2>2, <2>4, <2>7, <3>1 DEF Block
    <3>2. CASE i = Len(msg_queue) + 1
      BY <1>0, <1>1, <2>2, <2>4, <2>6, <3>2 DEF OrderInv
    <3> QED BY <2>4, <3>1, <3>2
  <2>9. \A i, j \in DOMAIN msg_queue' :
           i < j => msg_queue'[i].to <= msg_queue'[j].from
    <3> TAKE i, j \in DOMAIN msg_queue'
    <3> HAVE i < j
    <3>1. i \in DOMAIN msg_queue
      BY <2>4
    <3>2. CASE j \in DOMAIN msg_queue
      BY <2>4, <2>7, <3>1, <3>2
    <3>3. CASE j = Len(msg_queue) + 1
      BY <2>4, <2>7, <3>1, <3>3
    <3> QED BY <2>4, <3>2, <3>3
  <2>10. m_OutBuffer' # Empty =>
            sent' <= m_OutBuffer'.from /\ m_OutBuffer'.from < m_OutBuffer'.to
    BY <1>1, <2>2 DEF OrderInv, InOrder
  <2>11. sent' <= written'
    BY <1>0, <1>1 DEF OrderInv
  <2>12. SumsTo(msg_queue', cur_bytes')
    <3>1. b.size = n
      OBVIOUS
    <3> HIDE DEF b
    <3> QED BY <2>1, <2>2, <2>3, <3>1, SumAppend DEF OrderInv
  <2> QED BY <2>4, <2>5, <2>8, <2>9, <2>10, <2>11, <2>12 DEF OrderInv, InOrder, is_empty
<1>4. CASE IsFull(cur_bytes) /\ Refuse(t)
  <2>1. UNCHANGED <<m_OutBuffer, msg_queue, cur_bytes>>
    BY <1>4 DEF Refuse
  <2>2. refused' = TRUE /\ failed' \subseteq Threads
    BY <1>4 DEF Refuse, TypeOK
  <2>3. TypeOK'
    BY <1>0, <1>1, <2>1, <2>2 DEF TypeOK
  <2>4. msg_queue # <<>>
    <3>1. cur_bytes # 0
      BY <1>4, SocketAssumption DEF IsFull, SocketAssumption
    <3> QED BY <3>1, SumEmpty DEF OrderInv
  <2>5. \A i \in DOMAIN msg_queue : msg_queue[i].to \in Nat
    BY BlockFields DEF TypeOK
  <2>6. /\ SumsTo(msg_queue', cur_bytes')
        /\ sent' <= written'
        /\ written <= written'
    BY <1>0, <1>1, <2>1 DEF OrderInv
  <2>7. InOrder'
    BY <1>0, <1>1, <2>1, <2>4, <2>5, <2>6 DEF OrderInv, InOrder, is_empty
  <2> QED BY <2>3, <2>6, <2>7 DEF OrderInv
<1> QED BY <1>2, <1>3, <1>4 DEF SendPacket

(* What was sent once the buffer is empty lies before the first block.     *)
LEMMA SentBufferBounds ==
    ASSUME TypeOK, OrderInv
    PROVE  /\ SentBuffer \in Nat
           /\ sent <= SentBuffer
           /\ SentBuffer <= written
           /\ ~is_empty => SentBuffer <= msg_queue[1].from
<1>1. sent \in Nat /\ written \in Nat /\ sent <= written
  BY DEF TypeOK, OrderInv
<1>2. CASE is_empty
  BY <1>1, <1>2, LengthBounds DEF SentBuffer, OrderInv, InOrder
<1>3. CASE ~is_empty
  <2>1. 1 \in DOMAIN msg_queue
    BY <1>3, TailBlocks DEF is_empty, TypeOK
  <2>2. msg_queue[1].from \in Nat /\ msg_queue[1].to \in Nat
    BY <2>1, BlockFields DEF TypeOK
  <2>3. /\ sent <= msg_queue[1].from
        /\ m_OutBuffer.to <= msg_queue[1].from
        /\ msg_queue[1].from < msg_queue[1].to
        /\ msg_queue[1].to <= written
    BY <2>1 DEF OrderInv, InOrder
  <2>4. m_OutBuffer # Empty =>
           sent <= m_OutBuffer.from /\ m_OutBuffer.from < m_OutBuffer.to
    BY DEF OrderInv, InOrder
  <2> QED BY <1>1, <2>2, <2>3, <2>4, LengthBounds DEF SentBuffer
<1> QED BY <1>2, <1>3

(* The first block leaves, sent or not.                                    *)
LEMMA TakeHeadKeeps ==
    ASSUME TypeOK, OrderInv, msg_queue # <<>>,
           sent' \in Nat,
           sent' <= msg_queue[1].to,
           m_OutBuffer' = Empty,
           msg_queue' = Tail(msg_queue),
           cur_bytes' = cur_bytes - Head(msg_queue).size,
           written' = written
    PROVE  /\ OrderInv'
           /\ m_OutBuffer' \in Interval
           /\ msg_queue' \in Seq(Block)
           /\ cur_bytes' \in Int
<1>1. msg_queue \in Seq(Block) /\ cur_bytes \in Int /\ written \in Nat
  BY DEF TypeOK
<1>2. /\ 1 \in DOMAIN msg_queue
      /\ Head(msg_queue) = msg_queue[1]
      /\ msg_queue' \in Seq(Block)
      /\ Len(msg_queue) \in Nat
      /\ \A i \in DOMAIN msg_queue' : /\ i \in Nat \ {0}
                                       /\ i + 1 \in DOMAIN msg_queue
                                       /\ msg_queue'[i] = msg_queue[i + 1]
  BY <1>1, TailBlocks
<1>3. \A i \in DOMAIN msg_queue : /\ i \in Nat
                                  /\ msg_queue[i].from \in Nat
                                  /\ msg_queue[i].to \in Nat
                                  /\ msg_queue[i].size \in Nat
  BY <1>1, BlockFields
<1>4. \A i \in DOMAIN msg_queue :
         /\ msg_queue[i].from < msg_queue[i].to
         /\ msg_queue[i].to <= written
         /\ \A j \in DOMAIN msg_queue :
               i < j => msg_queue[i].to <= msg_queue[j].from
  BY DEF OrderInv, InOrder
<1>5. cur_bytes' \in Int
  BY <1>1, <1>2, <1>3
<1>6. SumsTo(msg_queue', cur_bytes')
  BY <1>1, SumTail DEF OrderInv
<1>7. sent' <= written'
  BY <1>1, <1>2, <1>3, <1>4
<1>8. \A i \in DOMAIN msg_queue' :
         /\ sent' <= msg_queue'[i].from
         /\ m_OutBuffer'.to <= msg_queue'[i].from
         /\ msg_queue'[i].from < msg_queue'[i].to
         /\ msg_queue'[i].to <= written'
  <2> TAKE i \in DOMAIN msg_queue'
  <2>1. i + 1 \in DOMAIN msg_queue /\ 1 < i + 1 /\ msg_queue'[i] = msg_queue[i + 1]
    BY <1>2
  <2>2. msg_queue[1].to <= msg_queue[i + 1].from
    BY <1>2, <1>4, <2>1
  <2>3. m_OutBuffer'.to = 0
    BY DEF Empty
  <2> QED BY <1>1, <1>2, <1>3, <1>4, <2>1, <2>2, <2>3
<1>9. \A i, j \in DOMAIN msg_queue' :
         i < j => msg_queue'[i].to <= msg_queue'[j].from
  BY <1>2, <1>4
<1>10. InOrder'
  BY <1>8, <1>9 DEF InOrder, is_empty
<1> QED BY <1>2, <1>5, <1>6, <1>7, <1>10, LengthBounds DEF OrderInv

(* The first block goes back without the bytes that were sent.             *)
LEMMA PutBackKeeps ==
    ASSUME TypeOK, OrderInv, msg_queue # <<>>,
           NEW k \in Nat, NEW h, NEW b \in Block,
           h = Head(msg_queue),
           b.from = h.from + k, b.to = h.to, b.size = h.size,
           k < h.to - h.from,
           sent' = IF k = 0 THEN SentBuffer ELSE h.from + k,
           m_OutBuffer' = Empty,
           msg_queue' = <<b>> \o Tail(msg_queue),
           cur_bytes' = cur_bytes,
           written' = written
    PROVE  /\ OrderInv'
           /\ m_OutBuffer' \in Interval
           /\ msg_queue' \in Seq(Block)
           /\ sent' \in Nat
<1>1. msg_queue \in Seq(Block) /\ written \in Nat
  BY DEF TypeOK
<1>2. 1 \in DOMAIN msg_queue /\ h = msg_queue[1] /\ h \in Block
  BY <1>1, TailBlocks
<1>3. h.from \in Nat /\ h.to \in Nat /\ b.from \in Nat /\ b.from < b.to
  BY <1>2 DEF Block
<1>5. /\ msg_queue' \in Seq(Block)
      /\ msg_queue' # <<>>
      /\ DOMAIN msg_queue' = DOMAIN msg_queue
      /\ msg_queue'[1] = b
      /\ \A i \in DOMAIN msg_queue : i # 1 => msg_queue'[i] = msg_queue[i]
  BY <1>1, PutBack
<1>6. \A i \in DOMAIN msg_queue : /\ i \in Nat \ {0}
                                  /\ msg_queue[i].from \in Nat
                                  /\ msg_queue[i].to \in Nat
  BY <1>1, BlockFields
<1>7. \A i \in DOMAIN msg_queue :
         /\ msg_queue[i].from < msg_queue[i].to
         /\ msg_queue[i].to <= written
         /\ \A j \in DOMAIN msg_queue :
               i < j => msg_queue[i].to <= msg_queue[j].from
  BY DEF OrderInv, InOrder
<1>8. sent' \in Nat /\ sent' <= b.from
  <2>1. SentBuffer \in Nat /\ SentBuffer <= h.from
    BY <1>2, SentBufferBounds DEF is_empty
  <2> QED BY <1>3, <2>1
<1>4. sent' < h.to
  <2>1. b.from \in Nat /\ h.to \in Nat /\ b.from < h.to
    BY <1>3
  <2> QED BY <1>8, <2>1
<1>9. sent' <= written'
  <2>1. h.to <= written
    BY <1>2, <1>7
  <2> QED BY <1>1, <1>3, <1>4, <1>8, <2>1
<1>10. SumsTo(msg_queue', cur_bytes')
  BY <1>1, SumPutBack DEF OrderInv
<1>11. \A i \in DOMAIN msg_queue' :
          /\ sent' <= msg_queue'[i].from
          /\ m_OutBuffer'.to <= msg_queue'[i].from
          /\ msg_queue'[i].from < msg_queue'[i].to
          /\ msg_queue'[i].to <= written'
  <2> TAKE i \in DOMAIN msg_queue'
  <2>1. m_OutBuffer'.to = 0
    BY DEF Empty
  <2>2. CASE i = 1
    <3>1. h.to <= written
      BY <1>2, <1>7
    <3>2. msg_queue'[i] = b
      BY <1>5, <2>2
    <3> QED BY <1>3, <1>8, <2>1, <3>1, <3>2, SMTT(30)
  <2>3. CASE i # 1
    <3>1. i \in DOMAIN msg_queue /\ 1 < i /\ msg_queue'[i] = msg_queue[i]
      BY <1>5, <1>6, <2>3
    <3>2. h.to <= msg_queue[i].from
      BY <1>2, <1>7, <3>1
    <3>3. sent' <= msg_queue[i].from
      <4>1. msg_queue[i].from \in Nat
        BY <1>6, <3>1
      <4>2. sent' \in Nat /\ h.to \in Nat
        BY <1>3, <1>8
      <4> QED BY <1>4, <3>2, <4>1, <4>2
    <3> QED BY <1>6, <1>7, <2>1, <3>1, <3>3
  <2> QED BY <2>2, <2>3
<1>12. \A i, j \in DOMAIN msg_queue' :
          i < j => msg_queue'[i].to <= msg_queue'[j].from
  <2> TAKE i, j \in DOMAIN msg_queue'
  <2> HAVE i < j
  <2>1. i \in DOMAIN msg_queue /\ j \in DOMAIN msg_queue /\ j # 1
    BY <1>5, <1>6
  <2>2. msg_queue'[j] = msg_queue[j] /\ msg_queue[i].to <= msg_queue[j].from
    BY <1>5, <1>7, <2>1
  <2>3. msg_queue'[i].to = msg_queue[i].to
    BY <1>2, <1>3, <1>5, <2>1
  <2> QED BY <2>2, <2>3
<1>13. InOrder'
  BY <1>11, <1>12 DEF InOrder, is_empty
<1> QED BY <1>5, <1>8, <1>9, <1>10, <1>13, LengthBounds DEF OrderInv

(* One call of handle_output, whatever the kernel takes.                   *)
LEMMA HandleOutputKeeps ==
    ASSUME TypeOK, OrderInv, NEW k \in Nat, handle_output(k)
    PROVE  TypeOK' /\ OrderInv'
<1>1. UNCHANGED <<closing_, upcall, written, refused, failed, writeMask,
                  registered, inSockets>>
  BY DEF handle_output, senderVars, reactorVars
<1>2. /\ net \in {"output"}
      /\ (schedule_wakeup_output \/ cancel_wakeup_output) =>
            /\ net' \in {"loop", "schedule", "cancel"}
            /\ m_OutActive' \in BOOLEAN
  BY DEF handle_output, schedule_wakeup_output, cancel_wakeup_output
<1> DEFINE Moved == /\ m_OutBuffer' \in Interval
                    /\ msg_queue' \in Seq(Block)
                    /\ cur_bytes' \in Int
                    /\ sent' \in Nat
                    /\ OrderInv'
           Control == /\ net' \in {"loop", "output", "schedule", "cancel", "error"}
                      /\ m_OutActive' \in BOOLEAN
<1>3. CASE SendPartOfBuffer(k)
  <2>1. /\ m_OutBuffer' = [m_OutBuffer EXCEPT !.from = @ + k]
        /\ k < m_OutBuffer.to - m_OutBuffer.from
        /\ sent' = IF k = 0 THEN sent ELSE m_OutBuffer.from + k
        /\ UNCHANGED <<msg_queue, cur_bytes>>
    BY <1>3 DEF SendPartOfBuffer, Length
  <2>2. /\ m_OutBuffer.from \in Nat /\ m_OutBuffer.to \in Nat
        /\ sent \in Nat /\ written \in Nat
        /\ m_OutBuffer' = [from |-> m_OutBuffer.from + k, to |-> m_OutBuffer.to]
    BY <2>1, LengthBounds DEF TypeOK
  <2>3. m_OutBuffer # Empty
    BY <2>1, <2>2 DEF Empty
  <2>4. /\ sent <= m_OutBuffer.from
        /\ is_empty => m_OutBuffer.to = written
    BY <2>3 DEF OrderInv, InOrder
  <2>5. /\ m_OutBuffer' \in Interval
        /\ m_OutBuffer'.to = m_OutBuffer.to
        /\ sent' \in Nat
        /\ sent' <= m_OutBuffer'.from
        /\ m_OutBuffer'.from < m_OutBuffer'.to
        /\ sent' < m_OutBuffer.to
    <3>1. /\ m_OutBuffer' \in Interval
          /\ m_OutBuffer'.to = m_OutBuffer.to
          /\ m_OutBuffer'.from = m_OutBuffer.from + k
      BY <2>2 DEF Interval
    <3>2. sent' \in Nat /\ sent' <= m_OutBuffer.from + k
      BY <2>1, <2>2, <2>4
    <3> QED BY <2>1, <2>2, <3>1, <3>2
  <2>6. \A i \in DOMAIN msg_queue :
           /\ msg_queue[i].from \in Nat
           /\ msg_queue[i].to \in Nat
           /\ m_OutBuffer.to <= msg_queue[i].from
           /\ msg_queue[i].from < msg_queue[i].to
           /\ msg_queue[i].to <= written
           /\ \A j \in DOMAIN msg_queue :
                 i < j => msg_queue[i].to <= msg_queue[j].from
    BY BlockFields DEF OrderInv, InOrder, TypeOK
  <2>7. sent' <= written'
    <3>1. CASE is_empty
      BY <1>1, <2>2, <2>4, <2>5, <3>1
    <3>2. CASE ~is_empty
      <4>1. 1 \in DOMAIN msg_queue
        BY <3>2, TailBlocks DEF is_empty, TypeOK
      <4> QED BY <1>1, <2>2, <2>5, <2>6, <4>1
    <3> QED BY <3>1, <3>2
  <2>8. \A i \in DOMAIN msg_queue : sent' <= msg_queue[i].from
    BY <2>2, <2>5, <2>6
  <2>9. InOrder'
    BY <1>1, <2>1, <2>4, <2>5, <2>6, <2>8 DEF InOrder, is_empty
  <2>10. SumsTo(msg_queue', cur_bytes')
    BY <2>1 DEF OrderInv
  <2>11. Moved
    BY <2>1, <2>5, <2>7, <2>9, <2>10 DEF OrderInv, TypeOK
  <2>12. Control
    BY <1>2, <1>3 DEF SendPartOfBuffer
  <2> HIDE DEF Moved, Control
  <2> QED BY <1>1, <2>11, <2>12 DEF TypeOK, Moved, Control
<1>4. CASE SendLastOfBuffer
  <2>1. /\ msg_queue = <<>> /\ m_OutBuffer' = Empty /\ sent' = SentBuffer
        /\ UNCHANGED <<msg_queue, cur_bytes>>
    BY <1>4 DEF SendLastOfBuffer, ResetBuffer, is_empty
  <2>2. sent' \in Nat /\ sent' <= written'
    BY <1>1, <2>1, SentBufferBounds
  <2>3. InOrder'
    BY <2>1 DEF InOrder
  <2>4. SumsTo(msg_queue', cur_bytes')
    BY <2>1 DEF OrderInv
  <2>5. Moved
    BY <2>1, <2>2, <2>3, <2>4, LengthBounds DEF OrderInv, TypeOK
  <2>6. Control
    BY <1>2, <1>4 DEF SendLastOfBuffer
  <2> HIDE DEF Moved, Control
  <2> QED BY <1>1, <2>5, <2>6 DEF TypeOK, Moved, Control
<1>5. CASE ~is_empty /\ SendPartOfBlock(k)
  <2> DEFINE h == Head(msg_queue)
             b == [h EXCEPT !.from = @ + k]
             full == IsFull(cur_bytes - h.size)
  <2>1. /\ k < h.to - h.from
        /\ m_OutBuffer' = Empty
        /\ sent' = IF k = 0 THEN SentBuffer ELSE h.from + k
        /\ msg_queue' = IF full THEN Tail(msg_queue) ELSE <<b>> \o Tail(msg_queue)
        /\ cur_bytes' = IF full THEN cur_bytes - h.size ELSE cur_bytes
    BY <1>5 DEF SendPartOfBlock, ResetBuffer, Length
  <2>2. msg_queue # <<>> /\ msg_queue \in Seq(Block) /\ cur_bytes \in Int
    BY <1>5 DEF is_empty, TypeOK
  <2>3. h \in Block /\ h = msg_queue[1]
    BY <2>2, TailBlocks
  <2>4. Control
    BY <1>2, <1>5 DEF SendPartOfBlock, TypeOK
  <2> HIDE DEF h, full, Control
  <2>5. /\ h.from \in Nat /\ h.to \in Nat
        /\ h = [from |-> h.from, to |-> h.to, size |-> h.size]
    BY <2>3 DEF Block
  <2>6. b \in Block /\ b.from = h.from + k /\ b.to = h.to /\ b.size = h.size
    BY <2>3, <2>5 DEF Block
  <2> HIDE DEF b
  <2>7. sent' \in Nat /\ sent' <= h.to
    <3>1. SentBuffer \in Nat /\ SentBuffer <= h.from
      BY <2>2, <2>3, SentBufferBounds DEF is_empty
    <3> QED BY <2>1, <2>5, <3>1
  <2>8. Moved
    <3>1. CASE full
      <4>1. /\ msg_queue' = Tail(msg_queue)
            /\ cur_bytes' = cur_bytes - Head(msg_queue).size
        BY <2>1, <3>1 DEF h
      <4>2. sent' <= msg_queue[1].to
        BY <2>3, <2>7
      <4> QED BY <1>1, <2>1, <2>2, <2>7, <4>1, <4>2, TakeHeadKeeps
    <3>2. CASE ~full
      <4>1. msg_queue' = <<b>> \o Tail(msg_queue) /\ cur_bytes' = cur_bytes
        BY <2>1, <3>2
      <4>2. h = Head(msg_queue)
        BY DEF h
      <4>3. /\ OrderInv'
            /\ m_OutBuffer' \in Interval
            /\ msg_queue' \in Seq(Block)
        BY <1>1, <2>1, <2>2, <2>6, <4>1, <4>2, PutBackKeeps
      <4> QED BY <2>2, <2>7, <4>1, <4>3
    <3> QED BY <3>1, <3>2
  <2> HIDE DEF Moved
  <2> QED BY <1>1, <2>4, <2>8 DEF TypeOK, Moved, Control
<1>6. CASE ~is_empty /\ SendBlock
  <2>1. /\ m_OutBuffer' = Empty
        /\ sent' = Head(msg_queue).to
        /\ msg_queue' = Tail(msg_queue)
        /\ cur_bytes' = cur_bytes - Head(msg_queue).size
    BY <1>6 DEF SendBlock, ResetBuffer
  <2>2. msg_queue # <<>> /\ msg_queue \in Seq(Block)
    BY <1>6 DEF is_empty, TypeOK
  <2>3. sent' \in Nat /\ sent' <= msg_queue[1].to
    BY <2>1, <2>2, TailBlocks DEF Block
  <2>4. Moved
    BY <1>1, <2>1, <2>2, <2>3, TakeHeadKeeps
  <2>5. Control
    BY <1>2, <1>6 DEF SendBlock, TypeOK
  <2> HIDE DEF Moved, Control
  <2> QED BY <1>1, <2>4, <2>5 DEF TypeOK, Moved, Control
<1> QED BY <1>3, <1>4, <1>5, <1>6 DEF handle_output

(* A write that fails keeps types and order.                               *)
LEMMA OutputErrorKeeps ==
    ASSUME TypeOK, OrderInv, OutputError
    PROVE  TypeOK' /\ OrderInv'
<1>1. /\ UNCHANGED <<closing_, m_OutActive, upcall, written, refused, failed,
                     writeMask, registered, inSockets>>
      /\ net' = "error"
  BY DEF OutputError, senderVars, reactorVars
<1>2. CASE UNCHANGED bufferVars
  <2>1. UNCHANGED <<m_OutBuffer, msg_queue, cur_bytes, sent, written>>
    BY <1>1, <1>2 DEF bufferVars
  <2>2. TypeOK'
    BY <1>1, <2>1 DEF TypeOK
  <2>3. OrderInv'
    BY <2>1 DEF OrderInv, InOrder, is_empty
  <2> QED BY <2>2, <2>3
<1>3. CASE /\ ~is_empty
           /\ ResetBuffer
           /\ sent' = SentBuffer
           /\ msg_queue' = Tail(msg_queue)
           /\ cur_bytes' = cur_bytes - Head(msg_queue).size
  <2>1. msg_queue # <<>> /\ msg_queue \in Seq(Block) /\ m_OutBuffer' = Empty
    BY <1>3 DEF is_empty, TypeOK, ResetBuffer
  <2>2. sent' \in Nat /\ sent' <= msg_queue[1].from
    BY <1>3, SentBufferBounds
  <2>3. /\ msg_queue[1].from \in Nat /\ msg_queue[1].to \in Nat
        /\ msg_queue[1].from < msg_queue[1].to
    <3>1. 1 \in DOMAIN msg_queue
      BY <2>1, TailBlocks
    <3> QED BY <2>1, <3>1, BlockFields DEF OrderInv, InOrder
  <2>4. sent' <= msg_queue[1].to
    BY <2>2, <2>3
  <2>5. /\ OrderInv'
        /\ m_OutBuffer' \in Interval
        /\ msg_queue' \in Seq(Block)
        /\ cur_bytes' \in Int
    BY <1>1, <1>3, <2>1, <2>2, <2>4, TakeHeadKeeps
  <2> QED BY <1>1, <2>2, <2>5 DEF TypeOK
<1> QED BY <1>2, <1>3 DEF OutputError

-----------------------------------------------------------------------------
(* The actions that only move control                                      *)

(* The steps that send nothing keep types and order.                       *)
LEMMA ControlKeeps ==
    ASSUME TypeOK, OrderInv,
           \/ \E t \in Threads : CloseSocket(t)
           \/ WriteReady \/ handle_input \/ InputError \/ svc
           \/ schedule_wakeup \/ cancel_wakeup \/ handle_close \/ DropSocket
           \/ UNCHANGED vars
    PROVE  TypeOK' /\ OrderInv'
<1> USE DEF bufferVars, senderVars, reactorVars
<1>1. UNCHANGED <<m_OutBuffer, msg_queue, cur_bytes, sent, written>>
  BY DEF CloseSocket, WriteReady, handle_input, InputError, svc, Update,
         schedule_wakeup, cancel_wakeup, handle_close, DropSocket, vars
<1>2. OrderInv'
  BY <1>1 DEF OrderInv, InOrder, is_empty
<1>3. TypeOK'
  <2>1. CASE \E t \in Threads : CloseSocket(t)
    BY <1>1, <2>1 DEF CloseSocket, TypeOK
  <2>2. CASE WriteReady
    BY <1>1, <2>2 DEF WriteReady, TypeOK
  <2>3. CASE handle_input \/ svc
    <3>1. /\ net' \in {"error", "loop", "output"}
          /\ upcall' \in BOOLEAN
          /\ UNCHANGED <<closing_, m_OutActive, refused, failed, writeMask,
                         registered, inSockets>>
      BY <2>3 DEF handle_input, svc, Update
    <3> QED BY <1>1, <3>1 DEF TypeOK
  <2>4. CASE InputError
    BY <1>1, <2>4 DEF InputError, TypeOK
  <2>5. CASE schedule_wakeup
    BY <1>1, <2>5 DEF schedule_wakeup, TypeOK
  <2>6. CASE cancel_wakeup
    BY <1>1, <2>6 DEF cancel_wakeup, TypeOK
  <2>7. CASE handle_close
    BY <1>1, <2>7 DEF handle_close, TypeOK
  <2>8. CASE DropSocket
    BY <1>1, <2>8 DEF DropSocket, TypeOK
  <2>9. CASE UNCHANGED vars
    BY <2>9 DEF vars, TypeOK
  <2> QED BY <2>1, <2>2, <2>3, <2>4, <2>5, <2>6, <2>7, <2>8, <2>9
<1> QED BY <1>2, <1>3

(* Types and order together are inductive.                                 *)
THEOREM OrderInvariant == Spec => [](TypeOK /\ OrderInv)
<1>1. Init => TypeOK /\ OrderInv
  <2> SUFFICES ASSUME Init PROVE TypeOK /\ OrderInv
    OBVIOUS
  <2>1. TypeOK
    <3>1. <<>> \in Seq(Block) /\ [from |-> 0, to |-> 1] \in Interval
      BY DEF Interval
    <3>2. msg_queue \in Seq(Block) /\ m_OutBuffer \in Interval
      BY <3>1 DEF Init
    <3>3. cur_bytes \in Int /\ written \in Nat /\ sent \in Nat
      BY DEF Init
    <3> QED BY <3>2, <3>3 DEF Init, TypeOK
  <2>2. msg_queue = <<>> /\ cur_bytes = 0 /\ sent <= written
    BY DEF Init
  <2>3. InOrder
    <3>1. DOMAIN msg_queue = {}
      BY <2>2
    <3> QED BY <3>1 DEF Init, InOrder
  <2> QED BY <2>1, <2>2, <2>3, SumEmpty DEF OrderInv
<1>2. TypeOK /\ OrderInv /\ [Next]_vars => TypeOK' /\ OrderInv'
  <2> SUFFICES ASSUME TypeOK, OrderInv, [Next]_vars
               PROVE  TypeOK' /\ OrderInv'
    OBVIOUS
  <2>1. CASE \E t \in Threads : \E n \in Sizes : SendPacket(t, n)
    BY <2>1, SendPacketKeeps
  <2>2. CASE Output
    <3>1. PICK k \in 0..(BufferSize + MaxPacket) : handle_output(k)
      BY <2>2 DEF Output
    <3>2. k \in Nat
      BY SocketAssumption DEF SocketAssumption
    <3> QED BY <3>1, <3>2, HandleOutputKeeps
  <2>3. CASE OutputError
    BY <2>3, OutputErrorKeeps
  <2>4. CASE \/ \E t \in Threads : CloseSocket(t)
             \/ WriteReady \/ handle_input \/ InputError \/ svc
             \/ schedule_wakeup \/ cancel_wakeup \/ handle_close \/ DropSocket
             \/ UNCHANGED vars
    BY <2>4, ControlKeeps
  <2> QED BY <2>1, <2>2, <2>3, <2>4 DEF Next, Network, Reactor, Terminated
<1> QED BY <1>1, <1>2, PTL DEF Spec

(* The variables of a socket's output keep their types.                    *)
THEOREM TypeCorrect == Spec => []TypeOK
BY OrderInvariant, PTL

(* Bytes wait and are sent in the order in which SendPacket encrypted      *)
(* them, for any number of threads and any sizes.                          *)
THEOREM OutputInOrder == Spec => []InOrder
<1>1. TypeOK /\ OrderInv => InOrder
  BY DEF OrderInv
<1> QED BY <1>1, OrderInvariant, PTL

-----------------------------------------------------------------------------
(* The flag of the socket and the mask of the reactor                      *)

WakeInv ==
    /\ ~closing_ /\ net \in {"loop", "output"} => (m_OutActive <=> writeMask)
    /\ ~closing_ /\ net = "schedule" => m_OutActive /\ ~writeMask
    /\ ~closing_ /\ net = "cancel" => ~m_OutActive /\ writeMask

(* m_OutActive says whether the socket is registered for output whenever   *)
(* the network thread waits for events.                                    *)
THEOREM OutActiveMatches == Spec => []WakeupMatches
<1>1. Init => WakeInv
  BY DEF Init, WakeInv
<1>2. WakeInv /\ TypeOK /\ [Next]_vars => WakeInv'
  <2> SUFFICES ASSUME WakeInv, TypeOK, [Next]_vars PROVE WakeInv'
    OBVIOUS
  <2> USE DEF bufferVars, senderVars, reactorVars
  <2>1. CASE \E t \in Threads : \E n \in Sizes : SendPacket(t, n)
    <3>1. UNCHANGED <<closing_, m_OutActive, writeMask, net>>
      BY <2>1 DEF SendPacket
    <3> QED BY <3>1 DEF WakeInv
  <2>2. CASE \E t \in Threads : CloseSocket(t)
    BY <2>2 DEF CloseSocket, WakeInv
  <2>3. CASE WriteReady
    BY <2>3 DEF WriteReady, WakeInv
  <2>4. CASE handle_input \/ svc
    <3>1. /\ net = "loop" /\ net' \in {"error", "loop", "output"}
          /\ UNCHANGED <<closing_, m_OutActive, writeMask>>
      BY <2>4 DEF handle_input, svc, Update
    <3> QED BY <3>1 DEF WakeInv
  <2>5. CASE InputError \/ OutputError
    <3>1. net' = "error"
      BY <2>5 DEF InputError, OutputError
    <3> QED BY <3>1 DEF WakeInv
  <2>6. CASE Output
    <3>1. PICK k \in 0..(BufferSize + MaxPacket) : handle_output(k)
      BY <2>6 DEF Output
    <3>2. net = "output" /\ UNCHANGED <<closing_, writeMask>>
      BY <3>1 DEF handle_output
    <3>3. \/ schedule_wakeup_output
          \/ cancel_wakeup_output
          \/ net' = "error"
          \/ UNCHANGED <<net, m_OutActive>>
      BY <3>1 DEF handle_output, SendPartOfBuffer, SendLastOfBuffer,
                  SendPartOfBlock, SendBlock
    <3>4. CASE schedule_wakeup_output
      BY <3>2, <3>4 DEF schedule_wakeup_output, WakeInv
    <3>5. CASE cancel_wakeup_output
      BY <3>2, <3>5 DEF cancel_wakeup_output, WakeInv
    <3>6. CASE net' = "error"
      BY <3>6 DEF WakeInv
    <3>7. CASE UNCHANGED <<net, m_OutActive>>
      BY <3>2, <3>7 DEF WakeInv
    <3> QED BY <3>3, <3>4, <3>5, <3>6, <3>7
  <2>7. CASE schedule_wakeup
    BY <2>7 DEF schedule_wakeup, WakeInv
  <2>8. CASE cancel_wakeup
    BY <2>8 DEF cancel_wakeup, WakeInv
  <2>9. CASE handle_close
    BY <2>9 DEF handle_close, WakeInv
  <2>10. CASE DropSocket
    BY <2>10 DEF DropSocket, WakeInv
  <2>11. CASE UNCHANGED vars
    BY <2>11 DEF vars, WakeInv
  <2> QED BY <2>1, <2>2, <2>3, <2>4, <2>5, <2>6, <2>7, <2>8, <2>9, <2>10, <2>11
          DEF Next, Network, Reactor, Terminated
<1>3. WakeInv => WakeupMatches
  BY DEF WakeInv, WakeupMatches
<1> QED BY <1>1, <1>2, <1>3, TypeCorrect, PTL DEF Spec

-----------------------------------------------------------------------------
(* No loss below the high water mark                                       *)

(* The steps of handle_output that put a block back do so as long as the   *)
(* queue is below its mark.                                                *)
LEMMA HandleOutputNoGap ==
    ASSUME TypeOK, OrderInv, NoGap, ~IsFull(cur_bytes), NEW k \in Nat,
           handle_output(k)
    PROVE  NoGap'
<1>1. written' = written /\ msg_queue \in Seq(Block)
  BY DEF handle_output, senderVars, TypeOK
<1>2. CASE SendPartOfBuffer(k)
  <2>1. /\ m_OutBuffer' = [m_OutBuffer EXCEPT !.from = @ + k]
        /\ k < m_OutBuffer.to - m_OutBuffer.from
        /\ sent' = IF k = 0 THEN sent ELSE m_OutBuffer.from + k
        /\ UNCHANGED msg_queue
    BY <1>2 DEF SendPartOfBuffer, Length
  <2>2. /\ m_OutBuffer.from \in Nat /\ m_OutBuffer.to \in Nat
        /\ m_OutBuffer' = [from |-> m_OutBuffer.from + k, to |-> m_OutBuffer.to]
    BY <2>1, LengthBounds
  <2>3. m_OutBuffer'.from = m_OutBuffer.from + k /\ m_OutBuffer'.to = m_OutBuffer.to
    BY <2>2
  <2>4. m_OutBuffer # Empty /\ m_OutBuffer' # Empty
    BY <2>1, <2>2, <2>3 DEF Empty
  <2>5. sent' = m_OutBuffer'.from
    BY <2>1, <2>2, <2>3, <2>4 DEF NoGap
  <2> QED BY <1>1, <2>1, <2>3, <2>4, <2>5 DEF NoGap
<1>3. CASE SendLastOfBuffer
  <2>1. /\ m_OutBuffer' = Empty /\ sent' = SentBuffer
        /\ msg_queue = <<>> /\ UNCHANGED msg_queue
    BY <1>3 DEF SendLastOfBuffer, ResetBuffer, is_empty
  <2> QED BY <1>1, <2>1 DEF NoGap, SentBuffer
<1>4. ASSUME ~is_empty PROVE SentBuffer = msg_queue[1].from
  BY <1>4 DEF NoGap, SentBuffer, First, is_empty
<1>5. CASE ~is_empty /\ SendPartOfBlock(k)
  <2> DEFINE h == Head(msg_queue)
             b == [h EXCEPT !.from = @ + k]
             full == IsFull(cur_bytes - h.size)
  <2>1. /\ k < h.to - h.from
        /\ m_OutBuffer' = Empty
        /\ sent' = IF k = 0 THEN SentBuffer ELSE h.from + k
        /\ msg_queue' = IF full THEN Tail(msg_queue) ELSE <<b>> \o Tail(msg_queue)
    BY <1>5 DEF SendPartOfBlock, ResetBuffer, Length
  <2>2. msg_queue # <<>>
    BY <1>5 DEF is_empty
  <2>3. h \in Block /\ h = msg_queue[1]
    BY <1>1, <2>2, TailBlocks
  <2>4. ~full
    <3>1. h.size \in Nat /\ cur_bytes \in Int /\ HighWater \in Nat
      BY <2>3, SocketAssumption DEF Block, TypeOK, SocketAssumption
    <3> HIDE DEF h
    <3> QED BY <3>1 DEF IsFull
  <2> HIDE DEF h, full
  <2>5. /\ h.from \in Nat /\ h.to \in Nat
        /\ h = [from |-> h.from, to |-> h.to, size |-> h.size]
    BY <2>3 DEF Block
  <2>6. b \in Block /\ b.from = h.from + k /\ b.to = h.to
    BY <2>3, <2>5 DEF Block
  <2> HIDE DEF b
  <2>7. msg_queue' = <<b>> \o Tail(msg_queue)
    BY <2>1, <2>4
  <2>8. /\ msg_queue' # <<>>
        /\ Len(msg_queue') = Len(msg_queue)
        /\ DOMAIN msg_queue' = DOMAIN msg_queue
        /\ msg_queue'[1] = b
        /\ \A i \in DOMAIN msg_queue : i # 1 => msg_queue'[i] = msg_queue[i]
    BY <1>1, <2>2, <2>6, <2>7, PutBack
  <2>9. sent' = b.from
    BY <1>4, <1>5, <2>1, <2>3, <2>5, <2>6
  <2>10. Chained(msg_queue', written')
    <3> SUFFICES ASSUME NEW i \in DOMAIN msg_queue
                 PROVE  msg_queue'[i].to = IF i = Len(msg_queue) THEN written
                                           ELSE msg_queue'[i + 1].from
      BY <1>1, <2>8 DEF Chained
    <3>1. msg_queue'[i].to = msg_queue[i].to
      BY <2>3, <2>6, <2>8
    <3>2. msg_queue[i].to = IF i = Len(msg_queue) THEN written
                            ELSE msg_queue[i + 1].from
      BY DEF NoGap, Chained
    <3>3. i # Len(msg_queue) => msg_queue'[i + 1] = msg_queue[i + 1]
      <4>1. i \in 1..Len(msg_queue) /\ Len(msg_queue) \in Nat
        BY <1>1, BlockFields
      <4>2. i # Len(msg_queue) => i + 1 \in 1..Len(msg_queue) /\ i + 1 # 1
        BY <4>1
      <4>3. DOMAIN msg_queue = 1..Len(msg_queue)
        BY <1>1, BlockFields
      <4> QED BY <2>8, <4>2, <4>3
    <3> QED BY <3>1, <3>2, <3>3
  <2> QED BY <2>1, <2>8, <2>9, <2>10 DEF NoGap, First
<1>6. CASE ~is_empty /\ SendBlock
  <2>1. /\ m_OutBuffer' = Empty
        /\ sent' = Head(msg_queue).to
        /\ msg_queue' = Tail(msg_queue)
    BY <1>6 DEF SendBlock, ResetBuffer
  <2>2. msg_queue # <<>>
    BY <1>6 DEF is_empty
  <2>3. /\ Head(msg_queue) = msg_queue[1]
        /\ Len(msg_queue) \in Nat \ {0}
        /\ DOMAIN msg_queue = 1..Len(msg_queue)
        /\ Len(msg_queue') = Len(msg_queue) - 1
        /\ DOMAIN msg_queue' = 1..(Len(msg_queue) - 1)
        /\ \A i \in DOMAIN msg_queue' : msg_queue'[i] = msg_queue[i + 1]
    BY <1>1, <2>1, <2>2, TailBlocks
  <2>4. \A i \in DOMAIN msg_queue :
           msg_queue[i].to = IF i = Len(msg_queue) THEN written
                             ELSE msg_queue[i + 1].from
    BY DEF NoGap, Chained
  <2>5. sent' = First(msg_queue', written')
    <3>1. CASE Len(msg_queue) = 1
      <4>1. msg_queue' = <<>>
        BY <1>1, <2>1, <2>2, <2>3, <3>1
      <4>2. sent' = written
        BY <2>1, <2>3, <2>4, <3>1
      <4> QED BY <1>1, <4>1, <4>2 DEF First
    <3>2. CASE Len(msg_queue) # 1
      <4>1. 1 \in DOMAIN msg_queue' /\ msg_queue' # <<>>
        BY <2>3, <3>2
      <4>2. msg_queue'[1] = msg_queue[2] /\ msg_queue[1].to = msg_queue[2].from
        BY <2>3, <2>4, <3>2, <4>1
      <4> QED BY <2>1, <2>3, <4>1, <4>2 DEF First
    <3> QED BY <3>1, <3>2
  <2>6. Chained(msg_queue', written')
    <3> SUFFICES ASSUME NEW i \in DOMAIN msg_queue'
                 PROVE  msg_queue'[i].to = IF i = Len(msg_queue') THEN written
                                           ELSE msg_queue'[i + 1].from
      BY <1>1 DEF Chained
    <3>1. i + 1 \in DOMAIN msg_queue /\ msg_queue'[i] = msg_queue[i + 1]
      BY <2>3
    <3>2. i + 1 = Len(msg_queue) <=> i = Len(msg_queue')
      BY <2>3
    <3>3. i # Len(msg_queue') =>
             i + 1 \in DOMAIN msg_queue' /\ msg_queue'[i + 1] = msg_queue[(i + 1) + 1]
      BY <2>3
    <3> QED BY <2>4, <3>1, <3>2, <3>3
  <2> QED BY <2>1, <2>5, <2>6 DEF NoGap
<1> QED BY <1>2, <1>3, <1>5, <1>6 DEF handle_output

(* SendPacket leaves no gap unless it refuses the packet.                  *)
LEMMA SendPacketNoGap ==
    ASSUME TypeOK, OrderInv, NoGap, NEW t \in Threads, NEW n \in Sizes,
           SendPacket(t, n), ~refused'
    PROVE  NoGap'
<1>1. n \in Nat \ {0} /\ written \in Nat /\ msg_queue \in Seq(Block)
  BY SocketAssumption DEF Sizes, SocketAssumption, TypeOK
<1>2. written' = written + n /\ sent' = sent
  BY DEF SendPacket
<1>3. CASE is_empty /\ PutInBuffer(n)
  <2>1. /\ msg_queue' = msg_queue /\ msg_queue = <<>>
        /\ m_OutBuffer' = [from |-> IF m_OutBuffer = Empty THEN written
                                    ELSE m_OutBuffer.from,
                           to   |-> written + n]
    BY <1>3 DEF PutInBuffer, is_empty
  <2>2. m_OutBuffer'.to = written' /\ m_OutBuffer' # Empty
    BY <1>1, <1>2, <2>1 DEF Empty
  <2>3. m_OutBuffer'.from = sent
    BY <2>1 DEF NoGap, First
  <2>4. First(msg_queue', written') = written' /\ Chained(msg_queue', written')
    BY <2>1 DEF First, Chained
  <2> QED BY <1>2, <2>2, <2>3, <2>4 DEF NoGap
<1>4. CASE enqueue_tail(n)
  <2> DEFINE b == [from |-> written, to |-> written + n, size |-> n]
  <2>1. b \in Block /\ b.from = written /\ b.to = written + n
    BY <1>1 DEF Block
  <2>2. msg_queue' = Append(msg_queue, b) /\ m_OutBuffer' = m_OutBuffer
    BY <1>4 DEF enqueue_tail
  <2> HIDE DEF b
  <2>3. /\ Len(msg_queue) \in Nat
        /\ Len(msg_queue') = Len(msg_queue) + 1
        /\ DOMAIN msg_queue = 1..Len(msg_queue)
        /\ DOMAIN msg_queue' = 1..(Len(msg_queue) + 1)
        /\ \A i \in 1..Len(msg_queue) : msg_queue'[i] = msg_queue[i]
        /\ msg_queue'[Len(msg_queue) + 1] = b
        /\ msg_queue' # <<>>
    BY <1>1, <2>1, <2>2
  <2>4. First(msg_queue', written') = First(msg_queue, written)
    <3>1. CASE msg_queue = <<>>
      BY <2>1, <2>3, <3>1 DEF First
    <3>2. CASE msg_queue # <<>>
      <4>1. 1 \in 1..Len(msg_queue)
        BY <1>1, <3>2, TailBlocks
      <4> QED BY <2>3, <3>2, <4>1 DEF First
    <3> QED BY <3>1, <3>2
  <2>5. Chained(msg_queue', written')
    <3> SUFFICES ASSUME NEW i \in DOMAIN msg_queue'
                 PROVE  msg_queue'[i].to = IF i = Len(msg_queue') THEN written'
                                           ELSE msg_queue'[i + 1].from
      BY DEF Chained
    <3>1. CASE i = Len(msg_queue) + 1
      BY <1>2, <2>1, <2>3, <3>1
    <3>2. CASE i = Len(msg_queue)
      <4>0. i \in 1..(Len(msg_queue) + 1)
        BY <2>3
      <4>1. i \in DOMAIN msg_queue /\ i # Len(msg_queue')
        <5>1. i \in Nat /\ 1 <= i
          BY <4>0
        <5>2. i \in 1..i /\ i # i + 1
          BY <5>1
        <5>3. DOMAIN msg_queue = 1..i /\ Len(msg_queue') = i + 1
          BY <2>3, <3>2
        <5> QED BY <5>2, <5>3
      <4>2. msg_queue[i].to = written
        BY <3>2, <4>1 DEF NoGap, Chained
      <4> QED BY <2>1, <2>3, <3>2, <4>1, <4>2
    <3>3. CASE i < Len(msg_queue)
      <4>1. i \in 1..Len(msg_queue) /\ i + 1 \in 1..Len(msg_queue)
            /\ i # Len(msg_queue') /\ i # Len(msg_queue)
        BY <2>3, <3>3
      <4>2. msg_queue[i].to = msg_queue[i + 1].from
        BY <2>3, <4>1 DEF NoGap, Chained
      <4> QED BY <2>3, <4>1, <4>2
    <3> QED BY <2>3, <3>1, <3>2, <3>3
  <2> QED BY <1>2, <2>2, <2>4, <2>5 DEF NoGap
<1>5. CASE Refuse(t)
  BY <1>5 DEF Refuse
<1> QED BY <1>3, <1>4, <1>5 DEF SendPacket

(* As long as the queue stays below its high water mark no byte is lost    *)
(* without SendPacket reporting it, so the client can decrypt the stream.  *)
THEOREM NoLossBelowMark == Spec => LossOnlyAtMark
<1>1. Init => NoSilentLoss
  <2> SUFFICES ASSUME Init PROVE NoGap
    BY DEF NoSilentLoss
  <2>1. msg_queue = <<>> /\ written = 1 /\ sent = 0
        /\ m_OutBuffer = [from |-> 0, to |-> 1]
    BY DEF Init
  <2>2. m_OutBuffer # Empty /\ m_OutBuffer.from = 0 /\ m_OutBuffer.to = 1
    BY <2>1 DEF Empty
  <2> QED BY <2>1, <2>2 DEF NoGap, First, Chained
<1>2. /\ TypeOK /\ OrderInv /\ NoSilentLoss /\ ~IsFull(cur_bytes)
      /\ [Next]_vars
      => NoSilentLoss'
  <2> SUFFICES ASSUME TypeOK, OrderInv, NoSilentLoss, ~IsFull(cur_bytes),
                      [Next]_vars, ~closing_', ~refused', net' # "error"
               PROVE  NoGap'
    BY DEF NoSilentLoss
  <2> USE DEF bufferVars, senderVars, reactorVars
  <2>1. CASE \E t \in Threads : \E n \in Sizes : SendPacket(t, n)
    <3>1. PICK t \in Threads, n \in Sizes : SendPacket(t, n)
      BY <2>1
    <3>2. ~closing_ /\ net # "error" /\ ~refused
      BY <3>1 DEF SendPacket, PutInBuffer, enqueue_tail, Refuse
    <3>3. NoGap
      BY <3>2 DEF NoSilentLoss
    <3> QED BY <3>1, <3>3, SendPacketNoGap
  <2>2. CASE Output
    <3>1. PICK k \in 0..(BufferSize + MaxPacket) : handle_output(k)
      BY <2>2 DEF Output
    <3>2. k \in Nat
      BY SocketAssumption DEF SocketAssumption
    <3>3. ~closing_ /\ net = "output" /\ ~refused
      BY <3>1 DEF handle_output
    <3>4. NoGap
      BY <3>3 DEF NoSilentLoss
    <3> QED BY <3>1, <3>2, <3>4, HandleOutputNoGap
  <2>3. CASE OutputError \/ InputError
    BY <2>3 DEF OutputError, InputError
  <2>4. CASE (\E t \in Threads : CloseSocket(t)) \/ handle_close \/ DropSocket
    BY <2>4 DEF CloseSocket, handle_close, DropSocket
  <2>5. CASE \/ WriteReady \/ handle_input \/ svc
             \/ schedule_wakeup \/ cancel_wakeup \/ UNCHANGED vars
    <3>1. /\ UNCHANGED <<m_OutBuffer, msg_queue, sent, written, closing_, refused>>
          /\ net # "error"
      BY <2>5 DEF WriteReady, handle_input, svc, Update, schedule_wakeup,
                  cancel_wakeup, vars
    <3>2. NoGap
      BY <3>1 DEF NoSilentLoss
    <3> QED BY <3>1, <3>2 DEF NoGap
  <2> QED BY <2>1, <2>2, <2>3, <2>4, <2>5 DEF Next, Network, Reactor, Terminated
<1> QED BY <1>1, <1>2, OrderInvariant, PTL DEF Spec, LossOnlyAtMark
=============================================================================
