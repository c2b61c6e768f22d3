------------------------ MODULE WorldSocketLifeProof ------------------------
(***************************************************************************)
(* Proofs about WorldSocketLife for any finite set of sessions: the        *)
(* reference count counts the holders, so the socket is destroyed exactly  *)
(* when nobody can reach it, and the network thread hands packets only to  *)
(* sessions that exist.                                                    *)
(***************************************************************************)
EXTENDS WorldSocketLife, FiniteSetTheorems, TLAPS

Bit(b) == IF b THEN 1 ELSE 0

(* The holders of a reference other than the sessions.                     *)
Threads == Bit(acceptor # "done") + Bit(place \in {"new", "listed"})
           + Bit(registered) + Bit(net \in InUpcall)

(* Every holder has exactly one reference, and only the last one to let go *)
(* destroys the socket.                                                    *)
Counted == /\ refs = Threads + Cardinality(m_Socket)
           /\ freed <=> refs = 0

Clearing == {"kickClear", "deleteClear"}
Processing == {"process", "log", "dispatch", "duplicate", "queue"}

(* Which thread is where, and what it may rely on.                         *)
Placed ==
    /\ m_Socket = {s \in Sessions : life[s] \in {"made", "lost", "queued", "listed"}}
    /\ net \in {"drop", "dropClear", "dropRef"} => place = "listed"
    /\ net \in InUpcall \ {"return"} => registered
    /\ acceptor = "open" => place = "none"
    /\ registered \/ net \in InUpcall \/ m_Socket # {}
          => acceptor \in {"release", "done"}
    /\ net \in {"clear", "remove", "dropClear", "dropRef"} => closing_

(* The world thread closes the socket before it deletes a session.         *)
Closes ==
    /\ world # "idle" => closing_
    /\ world # "idle" =>
          target \in Sessions /\ life[target] \in {"queued", "listed"}
    /\ net = "dropClear" => world \notin Clearing

(* What m_Session points to: as long as the socket is open, its only       *)
(* session; once it is closed, nothing the network thread may still use,   *)
(* except while CloseSocket waits for m_SessionLock.                       *)
Pointer ==
    /\ ~closing_ => \A s \in m_Socket : s = m_Session
    /\ ~closing_ /\ m_Session # None => m_Session \in m_Socket
    /\ world \in Clearing => m_Session \in {None, target}
    /\ world \in Clearing /\ m_Session = None => net = "remove" \/ ~registered
    /\ closing_ /\ net \in Processing => m_Session = None \/ world \in Clearing
    /\ net = "queue" => m_Session # None /\ m_Session \in m_Socket
    /\ net = "auth" => m_Session # None /\ life[m_Session] = "made"
                       /\ world \notin Clearing

IInv == TypeOK /\ Counted /\ Placed /\ Closes /\ Pointer

-----------------------------------------------------------------------------
(* The sessions that hold a reference are finitely many.                   *)
LEMMA Holders ==
    ASSUME TypeOK
    PROVE  /\ IsFiniteSet(m_Socket)
           /\ Cardinality(m_Socket) \in Nat
           /\ \A s : s \in m_Socket =>
                 Cardinality(m_Socket \ {s}) = Cardinality(m_Socket) - 1
           /\ \A s : s \notin m_Socket =>
                 Cardinality(m_Socket \cup {s}) = Cardinality(m_Socket) + 1
<1>1. IsFiniteSet(m_Socket)
  BY LifeAssumption, FS_Subset DEF TypeOK
<1>2. QED
  BY <1>1, FS_CardinalityType, FS_AddElement, FS_RemoveElement

(* A reference is taken from one who has it, or given back.                *)
LEMMA CountUp ==
    ASSUME Counted, AddReference, Threads \in Nat,
           Cardinality(m_Socket) \in Nat, Threads + Cardinality(m_Socket) > 0,
           Threads' + Cardinality(m_Socket') = Threads + Cardinality(m_Socket) + 1
    PROVE  Counted'
<1>1. refs > 0 /\ refs \in Nat /\ ~freed
  BY DEF Counted
<1>2. refs' > 0 /\ ~freed'
  BY <1>1 DEF AddReference
<1>3. refs' = Threads' + Cardinality(m_Socket')
  BY DEF Counted, AddReference
<1>4. QED
  BY <1>2, <1>3, <1>1 DEF Counted, AddReference

(* A reference that is given up with its holder keeps the count right.     *)
LEMMA CountDown ==
    ASSUME Counted, RemoveReference, Threads \in Nat,
           Cardinality(m_Socket) \in Nat, Threads + Cardinality(m_Socket) > 0,
           Threads' + Cardinality(m_Socket') = Threads + Cardinality(m_Socket) - 1
    PROVE  Counted'
<1>1. refs > 0 /\ refs \in Nat /\ ~freed
  BY DEF Counted
<1>2. freed' <=> refs' = 0
  <2>1. CASE refs = 1
    <3>1. refs' = 0
      BY <2>1 DEF RemoveReference
    <3>2. freed'
      BY <2>1 DEF RemoveReference
    <3>3. QED
      BY <3>1, <3>2
  <2>2. CASE refs # 1
    <3>1. refs' # 0
      BY <2>2, <1>1 DEF RemoveReference
    <3>2. ~freed'
      BY <2>2, <1>1 DEF RemoveReference
    <3>3. QED
      BY <3>1, <3>2
  <2>3. QED
    BY <2>1, <2>2
<1>3. refs' = Threads' + Cardinality(m_Socket')
  BY DEF Counted, RemoveReference
<1>4. QED
  BY <1>2, <1>3 DEF Counted

(* Nothing is taken or given back.                                         *)
LEMMA CountSame ==
    ASSUME Counted, UNCHANGED <<refs, freed>>,
           Threads' + Cardinality(m_Socket') = Threads + Cardinality(m_Socket)
    PROVE  Counted'
BY DEF Counted

(* Every step keeps Placed.                                                *)
LEMMA PlacedStep ==
    ASSUME TypeOK, Placed, Closes, Pointer, [Next]_vars
    PROVE  Placed'
<1>. USE LifeAssumption DEF TypeOK, Placed, Closes, Pointer, sessionVars,
      AddReference, RemoveReference, InUpcall, Processing, Clearing
<1>1. CASE AddSocket
  BY <1>1 DEF AddSocket
<1>2. CASE PrepareSocket
  BY <1>2 DEF PrepareSocket
<1>3. CASE RegisterSocket
  BY <1>3 DEF RegisterSocket
<1>4. CASE ReleaseSocket
  BY <1>4 DEF ReleaseSocket
<1>5. CASE OpenFails
  BY <1>5 DEF OpenFails
<1>6. CASE close
  BY <1>6 DEF close
<1>7. CASE AddNewSockets
  BY <1>7 DEF AddNewSockets
<1>8. CASE UpdateFails
  BY <1>8 DEF UpdateFails
<1>9. CASE DropCloses
  BY <1>9 DEF DropCloses
<1>10. CASE DropClears
  BY <1>10 DEF DropClears
<1>11. CASE DropSocket
  BY <1>11 DEF DropSocket
<1>12. CASE Upcall
  BY <1>12 DEF Upcall
<1>13. CASE handle_input
  BY <1>13 DEF handle_input
<1>14. CASE LogPacket
  BY <1>14 DEF LogPacket
<1>15. CASE DuplicateAuth
  BY <1>15 DEF DuplicateAuth
<1>16. CASE ReloadSession
  BY <1>16 DEF ReloadSession
<1>17. CASE LogDone
  BY <1>17 DEF LogDone
<1>18. CASE HandleAuthSession
  BY <1>18 DEF HandleAuthSession
<1>19. CASE AddSession
  BY <1>19 DEF AddSession
<1>20. CASE HandleUnrouted
  BY <1>20 DEF HandleUnrouted
<1>21. CASE LockSession
  BY <1>21 DEF LockSession
<1>22. CASE QueuePacket
  BY <1>22 DEF QueuePacket
<1>23. CASE CloseCloses
  BY <1>23 DEF CloseCloses
<1>24. CASE CloseClears
  BY <1>24 DEF CloseClears
<1>25. CASE RemoveHandler
  BY <1>25 DEF RemoveHandler
<1>26. CASE UpcallReturns
  BY <1>26 DEF UpcallReturns
<1>27. ASSUME NEW s \in Sessions, AddSession_(s) PROVE Placed'
  BY <1>27 DEF AddSession_
<1>28. ASSUME NEW s \in Sessions, KickPlayer(s) PROVE Placed'
  BY <1>28 DEF KickPlayer
<1>29. ASSUME NEW s \in Sessions, UpdateSession(s) PROVE Placed'
  BY <1>29 DEF UpdateSession
<1>30. CASE ClearSession
  BY <1>30 DEF ClearSession
<1>31. CASE DeleteSession
  BY <1>31 DEF DeleteSession
<1>32. CASE UNCHANGED vars
  BY <1>32 DEF vars
<1>q. QED
  BY <1>1, <1>2, <1>3, <1>4, <1>5, <1>6, <1>7, <1>8, <1>9, <1>10, <1>11,
     <1>12, <1>13, <1>14, <1>15, <1>16, <1>17, <1>18, <1>19, <1>20, <1>21,
     <1>22, <1>23, <1>24, <1>25, <1>26, <1>27, <1>28, <1>29, <1>30, <1>31,
     <1>32
     DEF Next, Acceptor, SocketSet, Input, World, Terminated

(* Every step keeps Closes.                                                *)
LEMMA ClosesStep ==
    ASSUME TypeOK, Placed, Closes, Pointer, [Next]_vars
    PROVE  Closes'
<1>. USE LifeAssumption DEF TypeOK, Placed, Closes, Pointer, sessionVars,
      AddReference, RemoveReference, InUpcall, Processing, Clearing
<1>1. CASE AddSocket
  BY <1>1 DEF AddSocket
<1>2. CASE PrepareSocket
  BY <1>2 DEF PrepareSocket
<1>3. CASE RegisterSocket
  BY <1>3 DEF RegisterSocket
<1>4. CASE ReleaseSocket
  BY <1>4 DEF ReleaseSocket
<1>5. CASE OpenFails
  BY <1>5 DEF OpenFails
<1>6. CASE close
  BY <1>6 DEF close
<1>7. CASE AddNewSockets
  BY <1>7 DEF AddNewSockets
<1>8. CASE UpdateFails
  BY <1>8 DEF UpdateFails
<1>9. CASE DropCloses
  BY <1>9 DEF DropCloses
<1>10. CASE DropClears
  BY <1>10 DEF DropClears
<1>11. CASE DropSocket
  BY <1>11 DEF DropSocket
<1>12. CASE Upcall
  BY <1>12 DEF Upcall
<1>13. CASE handle_input
  BY <1>13 DEF handle_input
<1>14. CASE LogPacket
  BY <1>14 DEF LogPacket
<1>15. CASE DuplicateAuth
  BY <1>15 DEF DuplicateAuth
<1>16. CASE ReloadSession
  BY <1>16 DEF ReloadSession
<1>17. CASE LogDone
  BY <1>17 DEF LogDone
<1>18. CASE HandleAuthSession
  BY <1>18 DEF HandleAuthSession
<1>19. CASE AddSession
  BY <1>19 DEF AddSession
<1>20. CASE HandleUnrouted
  BY <1>20 DEF HandleUnrouted
<1>21. CASE LockSession
  BY <1>21 DEF LockSession
<1>22. CASE QueuePacket
  BY <1>22 DEF QueuePacket
<1>23. CASE CloseCloses
  BY <1>23 DEF CloseCloses
<1>24. CASE CloseClears
  BY <1>24 DEF CloseClears
<1>25. CASE RemoveHandler
  BY <1>25 DEF RemoveHandler
<1>26. CASE UpcallReturns
  BY <1>26 DEF UpcallReturns
<1>27. ASSUME NEW s \in Sessions, AddSession_(s) PROVE Closes'
  BY <1>27 DEF AddSession_
<1>28. ASSUME NEW s \in Sessions, KickPlayer(s) PROVE Closes'
  BY <1>28 DEF KickPlayer
<1>29. ASSUME NEW s \in Sessions, UpdateSession(s) PROVE Closes'
  BY <1>29 DEF UpdateSession
<1>30. CASE ClearSession
  BY <1>30 DEF ClearSession
<1>31. CASE DeleteSession
  BY <1>31 DEF DeleteSession
<1>32. CASE UNCHANGED vars
  BY <1>32 DEF vars
<1>q. QED
  BY <1>1, <1>2, <1>3, <1>4, <1>5, <1>6, <1>7, <1>8, <1>9, <1>10, <1>11,
     <1>12, <1>13, <1>14, <1>15, <1>16, <1>17, <1>18, <1>19, <1>20, <1>21,
     <1>22, <1>23, <1>24, <1>25, <1>26, <1>27, <1>28, <1>29, <1>30, <1>31,
     <1>32
     DEF Next, Acceptor, SocketSet, Input, World, Terminated

(* Every step keeps Pointer.                                               *)
LEMMA PointerStep ==
    ASSUME TypeOK, Placed, Closes, Pointer, [Next]_vars
    PROVE  Pointer'
<1>. USE LifeAssumption DEF TypeOK, Placed, Closes, Pointer, sessionVars,
      AddReference, RemoveReference, InUpcall, Processing, Clearing
<1>1. CASE AddSocket
  BY <1>1 DEF AddSocket
<1>2. CASE PrepareSocket
  BY <1>2 DEF PrepareSocket
<1>3. CASE RegisterSocket
  BY <1>3 DEF RegisterSocket
<1>4. CASE ReleaseSocket
  BY <1>4 DEF ReleaseSocket
<1>5. CASE OpenFails
  BY <1>5 DEF OpenFails
<1>6. CASE close
  BY <1>6 DEF close
<1>7. CASE AddNewSockets
  BY <1>7 DEF AddNewSockets
<1>8. CASE UpdateFails
  BY <1>8 DEF UpdateFails
<1>9. CASE DropCloses
  BY <1>9 DEF DropCloses
<1>10. CASE DropClears
  BY <1>10 DEF DropClears
<1>11. CASE DropSocket
  BY <1>11 DEF DropSocket
<1>12. CASE Upcall
  BY <1>12 DEF Upcall
<1>13. CASE handle_input
  BY <1>13 DEF handle_input
<1>14. CASE LogPacket
  BY <1>14 DEF LogPacket
<1>15. CASE DuplicateAuth
  BY <1>15 DEF DuplicateAuth
<1>16. CASE ReloadSession
  BY <1>16 DEF ReloadSession
<1>17. CASE LogDone
  BY <1>17 DEF LogDone
<1>18. CASE HandleAuthSession
  BY <1>18 DEF HandleAuthSession
<1>19. CASE AddSession
  BY <1>19 DEF AddSession
<1>20. CASE HandleUnrouted
  BY <1>20 DEF HandleUnrouted
<1>21. CASE LockSession
  BY <1>21 DEF LockSession
<1>22. CASE QueuePacket
  BY <1>22 DEF QueuePacket
<1>23. CASE CloseCloses
  BY <1>23 DEF CloseCloses
<1>24. CASE CloseClears
  BY <1>24 DEF CloseClears
<1>25. CASE RemoveHandler
  BY <1>25 DEF RemoveHandler
<1>26. CASE UpcallReturns
  BY <1>26 DEF UpcallReturns
<1>27. ASSUME NEW s \in Sessions, AddSession_(s) PROVE Pointer'
  BY <1>27 DEF AddSession_
<1>28. ASSUME NEW s \in Sessions, KickPlayer(s) PROVE Pointer'
  BY <1>28 DEF KickPlayer
<1>29. ASSUME NEW s \in Sessions, UpdateSession(s) PROVE Pointer'
  BY <1>29 DEF UpdateSession
<1>30. CASE ClearSession
  BY <1>30 DEF ClearSession
<1>31. CASE DeleteSession
  BY <1>31 DEF DeleteSession
<1>32. CASE UNCHANGED vars
  BY <1>32 DEF vars
<1>q. QED
  BY <1>1, <1>2, <1>3, <1>4, <1>5, <1>6, <1>7, <1>8, <1>9, <1>10, <1>11,
     <1>12, <1>13, <1>14, <1>15, <1>16, <1>17, <1>18, <1>19, <1>20, <1>21,
     <1>22, <1>23, <1>24, <1>25, <1>26, <1>27, <1>28, <1>29, <1>30, <1>31,
     <1>32
     DEF Next, Acceptor, SocketSet, Input, World, Terminated

(* Every step keeps the count exact.                                       *)
LEMMA CountedStep ==
    ASSUME TypeOK, Counted, Placed, Closes, [Next]_vars
    PROVE  Counted'
<1>1. Threads \in Nat /\ Cardinality(m_Socket) \in Nat
  BY Holders DEF Threads, Bit
<1>2. CASE AddSocket
  <2>1. Threads' = Threads + 1 /\ Threads > 0 /\ UNCHANGED m_Socket
    BY <1>2 DEF AddSocket, TypeOK, Placed, Threads, Bit, InUpcall, sessionVars
  <2>2. AddReference
    BY <1>2 DEF AddSocket
  <2>3. QED
    BY <1>1, <2>1, <2>2, CountUp
<1>3. CASE PrepareSocket
  <2>1. Threads' = Threads /\ UNCHANGED <<refs, freed, m_Socket>>
    BY <1>3 DEF PrepareSocket, TypeOK, Placed, Threads, Bit, InUpcall, sessionVars
  <2>2. QED
    BY <2>1, CountSame
<1>4. CASE RegisterSocket
  <2>1. Threads' = Threads + 1 /\ Threads > 0 /\ UNCHANGED m_Socket
    BY <1>4 DEF RegisterSocket, TypeOK, Placed, Threads, Bit, InUpcall, sessionVars
  <2>2. AddReference
    BY <1>4 DEF RegisterSocket
  <2>3. QED
    BY <1>1, <2>1, <2>2, CountUp
<1>5. CASE ReleaseSocket
  <2>1. Threads' = Threads - 1 /\ Threads > 0 /\ UNCHANGED m_Socket
    BY <1>5 DEF ReleaseSocket, TypeOK, Placed, Threads, Bit, InUpcall, sessionVars
  <2>2. RemoveReference
    BY <1>5 DEF ReleaseSocket
  <2>3. QED
    BY <1>1, <2>1, <2>2, CountDown
<1>6. CASE OpenFails
  <2>1. Threads' = Threads /\ UNCHANGED <<refs, freed, m_Socket>>
    BY <1>6 DEF OpenFails, TypeOK, Placed, Threads, Bit, InUpcall, sessionVars
  <2>2. QED
    BY <2>1, CountSame
<1>7. CASE close
  <2>1. Threads' = Threads - 1 /\ Threads > 0 /\ UNCHANGED m_Socket
    BY <1>7 DEF close, TypeOK, Placed, Threads, Bit, InUpcall, sessionVars
  <2>2. RemoveReference
    BY <1>7 DEF close
  <2>3. QED
    BY <1>1, <2>1, <2>2, CountDown
<1>8. CASE AddNewSockets
  <2>1. CASE closing_
    <3>1. Threads' = Threads - 1 /\ Threads > 0 /\ UNCHANGED m_Socket
      BY <1>8, <2>1 DEF AddNewSockets, TypeOK, Placed, Threads, Bit, InUpcall, sessionVars
    <3>2. RemoveReference
      BY <1>8, <2>1 DEF AddNewSockets
    <3>3. QED
      BY <1>1, <3>1, <3>2, CountDown
  <2>2. CASE ~closing_
    <3>1. Threads' = Threads /\ UNCHANGED <<refs, freed, m_Socket>>
      BY <1>8, <2>2 DEF AddNewSockets, TypeOK, Placed, Threads, Bit, InUpcall, sessionVars
    <3>2. QED
      BY <3>1, CountSame
  <2>3. QED
    BY <2>1, <2>2
<1>9. CASE UpdateFails
  <2>1. Threads' = Threads /\ UNCHANGED <<refs, freed, m_Socket>>
    BY <1>9 DEF UpdateFails, TypeOK, Placed, Threads, Bit, InUpcall, sessionVars
  <2>2. QED
    BY <2>1, CountSame
<1>10. CASE DropCloses
  <2>1. Threads' = Threads /\ UNCHANGED <<refs, freed, m_Socket>>
    BY <1>10 DEF DropCloses, TypeOK, Placed, Threads, Bit, InUpcall, sessionVars
  <2>2. QED
    BY <2>1, CountSame
<1>11. CASE DropClears
  <2>1. Threads' = Threads /\ UNCHANGED <<refs, freed, m_Socket>>
    BY <1>11 DEF DropClears, TypeOK, Placed, Threads, Bit, InUpcall, sessionVars
  <2>2. QED
    BY <2>1, CountSame
<1>12. CASE DropSocket
  <2>1. Threads' = Threads - 1 /\ Threads > 0 /\ UNCHANGED m_Socket
    BY <1>12 DEF DropSocket, TypeOK, Placed, Threads, Bit, InUpcall, sessionVars
  <2>2. RemoveReference
    BY <1>12 DEF DropSocket
  <2>3. QED
    BY <1>1, <2>1, <2>2, CountDown
<1>13. CASE Upcall
  <2>1. Threads' = Threads + 1 /\ Threads > 0 /\ UNCHANGED m_Socket
    BY <1>13 DEF Upcall, TypeOK, Placed, Threads, Bit, InUpcall, sessionVars
  <2>2. AddReference
    BY <1>13 DEF Upcall
  <2>3. QED
    BY <1>1, <2>1, <2>2, CountUp
<1>14. CASE handle_input
  <2>1. Threads' = Threads /\ UNCHANGED <<refs, freed, m_Socket>>
    BY <1>14 DEF handle_input, TypeOK, Placed, Threads, Bit, InUpcall, sessionVars
  <2>2. QED
    BY <2>1, CountSame
<1>15. CASE LogPacket
  <2>1. Threads' = Threads /\ UNCHANGED <<refs, freed, m_Socket>>
    BY <1>15 DEF LogPacket, TypeOK, Placed, Threads, Bit, InUpcall, sessionVars
  <2>2. QED
    BY <2>1, CountSame
<1>16. CASE DuplicateAuth
  <2>1. Threads' = Threads /\ UNCHANGED <<refs, freed, m_Socket>>
    BY <1>16 DEF DuplicateAuth, TypeOK, Placed, Threads, Bit, InUpcall, sessionVars
  <2>2. QED
    BY <2>1, CountSame
<1>17. CASE ReloadSession
  <2>1. Threads' = Threads /\ UNCHANGED <<refs, freed, m_Socket>>
    BY <1>17 DEF ReloadSession, TypeOK, Placed, Threads, Bit, InUpcall, sessionVars
  <2>2. QED
    BY <2>1, CountSame
<1>18. CASE LogDone
  <2>1. Threads' = Threads /\ UNCHANGED <<refs, freed, m_Socket>>
    BY <1>18 DEF LogDone, TypeOK, Placed, Threads, Bit, InUpcall, sessionVars
  <2>2. QED
    BY <2>1, CountSame
<1>19. CASE HandleAuthSession
  <2>1. Threads' = Threads /\ Threads > 0
    BY <1>19 DEF HandleAuthSession, TypeOK, Placed, Threads, Bit, InUpcall, sessionVars
  <2>2. CASE net' = "auth"
    <3>1. PICK s \in Sessions : life[s] = "none" /\ m_Socket' = m_Socket \cup {s}
      BY <1>19, <2>2 DEF HandleAuthSession
    <3>2. AddReference
      BY <1>19, <2>2 DEF HandleAuthSession
    <3>3. s \notin m_Socket
      BY <3>1 DEF Placed
    <3>4. Cardinality(m_Socket') = Cardinality(m_Socket) + 1
      BY <3>1, <3>3, Holders
    <3>5. QED
      BY <1>1, <2>1, <3>2, <3>4, CountUp
  <2>3. CASE net' # "auth"
    <3>1. UNCHANGED <<refs, freed, m_Socket>>
      BY <1>19, <2>3 DEF HandleAuthSession
    <3>2. QED
      BY <2>1, <3>1, CountSame
  <2>4. QED
    BY <2>2, <2>3
<1>20. CASE AddSession
  <2>1. Threads' = Threads /\ UNCHANGED <<refs, freed, m_Socket>>
    BY <1>20 DEF AddSession, TypeOK, Placed, Threads, Bit, InUpcall, sessionVars
  <2>2. QED
    BY <2>1, CountSame
<1>21. CASE HandleUnrouted
  <2>1. Threads' = Threads /\ UNCHANGED <<refs, freed, m_Socket>>
    BY <1>21 DEF HandleUnrouted, TypeOK, Placed, Threads, Bit, InUpcall, sessionVars
  <2>2. QED
    BY <2>1, CountSame
<1>22. CASE LockSession
  <2>1. Threads' = Threads /\ UNCHANGED <<refs, freed, m_Socket>>
    BY <1>22 DEF LockSession, TypeOK, Placed, Threads, Bit, InUpcall, sessionVars
  <2>2. QED
    BY <2>1, CountSame
<1>23. CASE QueuePacket
  <2>1. Threads' = Threads /\ UNCHANGED <<refs, freed, m_Socket>>
    BY <1>23 DEF QueuePacket, TypeOK, Placed, Threads, Bit, InUpcall, sessionVars
  <2>2. QED
    BY <2>1, CountSame
<1>24. CASE CloseCloses
  <2>1. Threads' = Threads /\ UNCHANGED <<refs, freed, m_Socket>>
    BY <1>24 DEF CloseCloses, TypeOK, Placed, Threads, Bit, InUpcall, sessionVars
  <2>2. QED
    BY <2>1, CountSame
<1>25. CASE CloseClears
  <2>1. Threads' = Threads /\ UNCHANGED <<refs, freed, m_Socket>>
    BY <1>25 DEF CloseClears, TypeOK, Placed, Threads, Bit, InUpcall, sessionVars
  <2>2. QED
    BY <2>1, CountSame
<1>26. CASE RemoveHandler
  <2>1. Threads' = Threads - 1 /\ Threads > 0 /\ UNCHANGED m_Socket
    BY <1>26 DEF RemoveHandler, TypeOK, Placed, Threads, Bit, InUpcall, sessionVars
  <2>2. RemoveReference
    BY <1>26 DEF RemoveHandler
  <2>3. QED
    BY <1>1, <2>1, <2>2, CountDown
<1>27. CASE UpcallReturns
  <2>1. Threads' = Threads - 1 /\ Threads > 0 /\ UNCHANGED m_Socket
    BY <1>27 DEF UpcallReturns, TypeOK, Placed, Threads, Bit, InUpcall, sessionVars
  <2>2. RemoveReference
    BY <1>27 DEF UpcallReturns
  <2>3. QED
    BY <1>1, <2>1, <2>2, CountDown
<1>28. ASSUME NEW s \in Sessions, AddSession_(s) PROVE Counted'
  <2>1. Threads' = Threads /\ UNCHANGED <<refs, freed, m_Socket>>
    BY <1>28 DEF AddSession_, TypeOK, Placed, Threads, Bit, InUpcall, sessionVars
  <2>2. QED
    BY <2>1, CountSame
<1>29. ASSUME NEW s \in Sessions, KickPlayer(s) PROVE Counted'
  <2>1. Threads' = Threads /\ UNCHANGED <<refs, freed, m_Socket>>
    BY <1>29 DEF KickPlayer, TypeOK, Placed, Threads, Bit, InUpcall, sessionVars
  <2>2. QED
    BY <2>1, CountSame
<1>30. ASSUME NEW s \in Sessions, UpdateSession(s) PROVE Counted'
  <2>1. Threads' = Threads /\ RemoveReference
    BY <1>30 DEF UpdateSession, Threads
  <2>2. s \in m_Socket /\ m_Socket' = m_Socket \ {s}
    BY <1>30 DEF UpdateSession, Placed, Closes
  <2>3. Cardinality(m_Socket') = Cardinality(m_Socket) - 1
    BY <2>2, Holders
  <2>4. Cardinality(m_Socket) > 0
    BY <2>2, Holders, FS_EmptySet
  <2>5. QED
    BY <1>1, <2>1, <2>3, <2>4, CountDown
<1>31. CASE ClearSession
  <2>1. Threads' = Threads /\ UNCHANGED <<refs, freed, m_Socket>>
    BY <1>31 DEF ClearSession, TypeOK, Placed, Threads, Bit, InUpcall, sessionVars
  <2>2. QED
    BY <2>1, CountSame
<1>32. CASE DeleteSession
  <2>1. Threads' = Threads /\ RemoveReference
    BY <1>32 DEF DeleteSession, Threads
  <2>2. target \in m_Socket /\ m_Socket' = m_Socket \ {target}
    BY <1>32 DEF DeleteSession, Placed, Closes
  <2>3. Cardinality(m_Socket') = Cardinality(m_Socket) - 1
    BY <2>2, Holders
  <2>4. Cardinality(m_Socket) > 0
    BY <2>2, Holders, FS_EmptySet
  <2>5. QED
    BY <1>1, <2>1, <2>3, <2>4, CountDown
<1>33. CASE UNCHANGED vars
  BY <1>33, CountSame DEF vars, Threads
<1>q. QED
  BY <1>2, <1>3, <1>4, <1>5, <1>6, <1>7, <1>8, <1>9, <1>10, <1>11, <1>12,
     <1>13, <1>14, <1>15, <1>16, <1>17, <1>18, <1>19, <1>20, <1>21, <1>22,
     <1>23, <1>24, <1>25, <1>26, <1>27, <1>28, <1>29, <1>30, <1>31, <1>32,
     <1>33
     DEF Next, Acceptor, SocketSet, Input, World, Terminated

(* Every step keeps the types; that the count stays a natural number       *)
(* follows from what it counts.                                            *)
LEMMA TypeStep ==
    ASSUME IInv, [Next]_vars
    PROVE  TypeOK'
<1>1. refs' \in Nat
  <2>1. Counted' /\ Placed'
    BY CountedStep, PlacedStep DEF IInv
  <2>2. m_Socket' \in SUBSET Sessions
    BY <2>1 DEF Placed
  <2>3. Cardinality(m_Socket') \in Nat
    BY <2>2, LifeAssumption, FS_Subset, FS_CardinalityType
  <2>4. Threads' \in Nat
    BY DEF Threads, Bit
  <2>5. QED
    BY <2>1, <2>3, <2>4 DEF Counted
<1>. USE <1>1 DEF IInv, TypeOK, Pointer, Closes, sessionVars, AddReference,
                  RemoveReference, InUpcall
<1>2. CASE AddSocket
  BY <1>2 DEF AddSocket
<1>3. CASE PrepareSocket
  BY <1>3 DEF PrepareSocket
<1>4. CASE RegisterSocket
  BY <1>4 DEF RegisterSocket
<1>5. CASE ReleaseSocket
  BY <1>5 DEF ReleaseSocket
<1>6. CASE OpenFails
  BY <1>6 DEF OpenFails
<1>7. CASE close
  BY <1>7 DEF close
<1>8. CASE AddNewSockets
  BY <1>8 DEF AddNewSockets
<1>9. CASE UpdateFails
  BY <1>9 DEF UpdateFails
<1>10. CASE DropCloses
  BY <1>10 DEF DropCloses
<1>11. CASE DropClears
  BY <1>11 DEF DropClears
<1>12. CASE DropSocket
  BY <1>12 DEF DropSocket
<1>13. CASE Upcall
  BY <1>13 DEF Upcall
<1>14. CASE handle_input
  BY <1>14 DEF handle_input
<1>15. CASE LogPacket
  BY <1>15 DEF LogPacket
<1>16. CASE DuplicateAuth
  BY <1>16 DEF DuplicateAuth
<1>17. CASE ReloadSession
  BY <1>17 DEF ReloadSession
<1>18. CASE LogDone
  BY <1>18 DEF LogDone
<1>19. CASE HandleAuthSession
  BY <1>19 DEF HandleAuthSession
<1>20. CASE AddSession
  BY <1>20 DEF AddSession
<1>21. CASE HandleUnrouted
  BY <1>21 DEF HandleUnrouted
<1>22. CASE LockSession
  BY <1>22 DEF LockSession
<1>23. CASE QueuePacket
  BY <1>23 DEF QueuePacket
<1>24. CASE CloseCloses
  BY <1>24 DEF CloseCloses
<1>25. CASE CloseClears
  BY <1>25 DEF CloseClears
<1>26. CASE RemoveHandler
  BY <1>26 DEF RemoveHandler
<1>27. CASE UpcallReturns
  BY <1>27 DEF UpcallReturns
<1>28. ASSUME NEW s \in Sessions, AddSession_(s) PROVE TypeOK'
  BY <1>28 DEF AddSession_
<1>29. ASSUME NEW s \in Sessions, KickPlayer(s) PROVE TypeOK'
  BY <1>29 DEF KickPlayer
<1>30. ASSUME NEW s \in Sessions, UpdateSession(s) PROVE TypeOK'
  BY <1>30 DEF UpdateSession
<1>31. CASE ClearSession
  BY <1>31 DEF ClearSession
<1>32. CASE DeleteSession
  BY <1>32 DEF DeleteSession
<1>33. CASE UNCHANGED vars
  BY <1>33 DEF vars
<1>q. QED
  BY <1>2, <1>3, <1>4, <1>5, <1>6, <1>7, <1>8, <1>9, <1>10, <1>11, <1>12,
     <1>13, <1>14, <1>15, <1>16, <1>17, <1>18, <1>19, <1>20, <1>21, <1>22,
     <1>23, <1>24, <1>25, <1>26, <1>27, <1>28, <1>29, <1>30, <1>31, <1>32,
     <1>33
     DEF Next, Acceptor, SocketSet, Input, World, Terminated

-----------------------------------------------------------------------------
(* The invariant is inductive.                                             *)
THEOREM LifeInvariant == Spec => []IInv
<1>1. Init => IInv
  <2>1. ASSUME Init PROVE TypeOK /\ Placed /\ Closes /\ Pointer
    BY <2>1, LifeAssumption DEF Init, TypeOK, Placed, Closes, Pointer, InUpcall,
       Clearing, Processing
  <2>2. ASSUME Init PROVE Counted
    <3>1. Threads = 1 /\ Cardinality(m_Socket) = 0 /\ refs = 1 /\ ~freed
      BY <2>2, FS_EmptySet DEF Init, Threads, Bit, InUpcall
    <3>2. QED
      BY <3>1 DEF Counted
  <2>3. QED
    BY <2>1, <2>2 DEF IInv
<1>2. IInv /\ [Next]_vars => IInv'
  <2>. SUFFICES ASSUME IInv, [Next]_vars PROVE IInv'
    OBVIOUS
  <2>2. TypeOK /\ Counted /\ Placed /\ Closes /\ Pointer
    BY DEF IInv
  <2>3. TypeOK'
    BY TypeStep
  <2>4. QED
    BY <2>2, <2>3, CountedStep, PlacedStep, ClosesStep, PointerStep DEF IInv
<1>3. QED
  BY <1>1, <1>2, PTL DEF Spec

(* Type correctness of WorldSocket's reference count and of the states of  *)
(* its threads and sessions, for any finite set of sessions.               *)
THEOREM TypeCorrect == Spec => []TypeOK
<1>1. IInv => TypeOK
  BY DEF IInv
<1>2. QED
  BY <1>1, LifeInvariant, PTL

(* remove_reference destroys the WorldSocket exactly when the acceptor,    *)
(* the network thread's set, the reactor, an upcall and all sessions have  *)
(* let go of it.                                                           *)
THEOREM FreedWhenUnreachable == Spec => []NoUseAfterFree
<1>1. IInv => NoUseAfterFree
  <2>. SUFFICES ASSUME IInv PROVE NoUseAfterFree
    OBVIOUS
  <2>2. TypeOK /\ Counted /\ Placed
    BY DEF IInv
  <2>3. Cardinality(m_Socket) \in Nat
        /\ (Cardinality(m_Socket) = 0 <=> m_Socket = {})
    BY <2>2, Holders, FS_EmptySet
  <2>4. Threads \in Nat
    BY DEF Threads, Bit
  <2>5. freed <=> Threads = 0 /\ m_Socket = {}
    BY <2>2, <2>3, <2>4 DEF Counted
  <2>6. Threads = 0 <=> /\ acceptor = "done"
                        /\ place \in {"none", "gone"}
                        /\ ~registered
                        /\ net \notin InUpcall
    BY <2>2 DEF Threads, Bit, TypeOK
  <2>7. place \in {"none", "gone"} /\ net \notin InUpcall => net = "loop"
    BY <2>2 DEF TypeOK, Placed
  <2>8. net = "loop" => net \notin InUpcall
    BY DEF InUpcall
  <2>9. QED
    BY <2>5, <2>6, <2>7, <2>8 DEF NoUseAfterFree, Unreachable, Released
<1>2. QED
  BY <1>1, LifeInvariant, PTL

(* ProcessIncoming and HandleAuthSession use m_Session, under the lock or  *)
(* before the world knows it, only while the session exists.               *)
THEOREM SessionsAreLive == Spec => []RoutedToLiveSession
<1>1. IInv => RoutedToLiveSession
  BY DEF IInv, Pointer, Placed, RoutedToLiveSession
<1>2. QED
  BY <1>1, LifeInvariant, PTL
=============================================================================
