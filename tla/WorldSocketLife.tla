-------------------------- MODULE WorldSocketLife --------------------------
(***************************************************************************)
(* The life of one WorldSocket and of the sessions made for it.  The       *)
(* socket is reference counted: the acceptor, the network thread's set of  *)
(* sockets, the reactor and every WorldSession hold one reference each.    *)
(* The session is not: the socket points to it until CloseSocket or        *)
(* handle_close clears m_Session, and the world thread deletes it.         *)
(*                                                                         *)
(* A critical section is one step.  The world thread stands for itself and *)
(* for the map threads it waits for in every tick.                         *)
(***************************************************************************)
EXTENDS Integers, FiniteSets

CONSTANTS Sessions, None

ASSUME LifeAssumption == IsFiniteSet(Sessions) /\ None \notin Sessions

VARIABLES
    refs,        \* the reference count
    freed,       \* the socket was destroyed
    closing_,
    m_Session,
    acceptor,    \* where the acceptor is in open() and close()
    place,       \* the socket in ReactorRunnable::m_NewSockets or m_Sockets
    registered,  \* the reactor has the handler
    net,         \* where the network thread is
    loaded,      \* the session pointer it read without m_SessionLock
    world,       \* where the world thread is in CloseSocket or a delete
    target,      \* the session it works on
    life,        \* of each session
    m_Socket     \* sessions whose m_Socket is this socket

vars == <<refs, freed, closing_, m_Session, acceptor, place, registered, net,
          loaded, world, target, life, m_Socket>>

sessionVars == <<m_Session, loaded, world, target, life, m_Socket>>

InUpcall == {"input", "process", "log", "dispatch", "duplicate", "auth",
             "queue", "error", "clear", "remove", "return"}

TypeOK ==
    /\ refs \in Nat
    /\ freed \in BOOLEAN
    /\ closing_ \in BOOLEAN
    /\ m_Session \in Sessions \cup {None}
    /\ acceptor \in {"open", "added", "ready", "release", "failed", "done"}
    /\ place \in {"none", "new", "listed", "gone"}
    /\ registered \in BOOLEAN
    /\ net \in InUpcall \cup {"loop", "drop", "dropClear", "dropRef"}
    /\ loaded \in Sessions \cup {None}
    /\ world \in {"idle", "kickClear", "deleteClear", "delete"}
    /\ target \in Sessions \cup {None}
    /\ life \in [Sessions -> {"none", "made", "lost", "queued", "listed",
                         "deleted"}]
    /\ m_Socket \subseteq Sessions

(* ACE made the handler, with one reference, and calls open().             *)
Init ==
    /\ refs = 1
    /\ freed = FALSE
    /\ closing_ = FALSE
    /\ m_Session = None
    /\ acceptor = "open"
    /\ place = "none"
    /\ registered = FALSE
    /\ net = "loop"
    /\ loaded = None
    /\ world = "idle"
    /\ target = None
    /\ life = [s \in Sessions |-> "none"]
    /\ m_Socket = {}

AddReference == refs' = refs + 1 /\ UNCHANGED freed

RemoveReference ==
    /\ refs' = refs - 1
    /\ freed' = (freed \/ refs = 1)

-----------------------------------------------------------------------------
(* The acceptor: WorldSocket::open                                         *)

(* WorldSocketMgr::OnSocketOpen gives the socket to a network thread.      *)
AddSocket ==
    /\ acceptor = "open"
    /\ acceptor' = "added"
    /\ place' = "new"
    /\ AddReference
    /\ UNCHANGED <<closing_, registered, net, sessionVars>>

(* The buffer is allocated and the first packet put in it.                 *)
PrepareSocket ==
    /\ acceptor = "added"
    /\ ~closing_
    /\ acceptor' = "ready"
    /\ UNCHANGED <<refs, freed, closing_, place, registered, net, sessionVars>>

RegisterSocket ==
    /\ acceptor = "ready"
    /\ acceptor' = "release"
    /\ registered' = TRUE
    /\ AddReference
    /\ UNCHANGED <<closing_, place, net, sessionVars>>

(* An option, an address, a packet or the registration fails.              *)
OpenFails ==
    /\ acceptor \in {"open", "added", "ready"}
    /\ acceptor' = "failed"
    /\ UNCHANGED <<refs, freed, closing_, place, registered, net, sessionVars>>

(* The end of open(): "reactor takes care of the socket from now on".      *)
ReleaseSocket ==
    /\ acceptor = "release"
    /\ acceptor' = "done"
    /\ RemoveReference
    /\ UNCHANGED <<closing_, place, registered, net, sessionVars>>

(* WorldSocket::close, called by ACE when open() failed.                   *)
close ==
    /\ acceptor = "failed"
    /\ acceptor' = "done"
    /\ closing_' = TRUE
    /\ RemoveReference
    /\ UNCHANGED <<place, registered, net, sessionVars>>

-----------------------------------------------------------------------------
(* The network thread: its set of sockets                                  *)

(* Mutant: a socket found closed is skipped and its reference kept.        *)
AddNewSockets_KeepReference ==
    /\ net = "loop"
    /\ place = "new"
    /\ place' = IF closing_ THEN "gone" ELSE "listed"
    /\ UNCHANGED <<refs, freed, closing_, acceptor, registered, net,
                   sessionVars>>

AddNewSockets ==
    /\ net = "loop"
    /\ place = "new"
    /\ IF closing_
       THEN place' = "gone" /\ RemoveReference
       ELSE place' = "listed" /\ UNCHANGED <<refs, freed>>
    /\ UNCHANGED <<closing_, acceptor, registered, net, sessionVars>>

(* WorldSocket::Update returned -1, because the socket is closing or the   *)
(* output failed.                                                          *)
UpdateFails ==
    /\ net = "loop"
    /\ place = "listed"
    /\ closing_ \/ registered
    /\ net' = "drop"
    /\ UNCHANGED <<refs, freed, closing_, acceptor, place, registered,
                   sessionVars>>

(* CloseSocket, first critical section.                                    *)
DropCloses ==
    /\ net = "drop"
    /\ closing_' = TRUE
    /\ net' = IF closing_ THEN "dropRef" ELSE "dropClear"
    /\ UNCHANGED <<refs, freed, acceptor, place, registered, sessionVars>>

(* CloseSocket, second critical section.                                   *)
DropClears ==
    /\ net = "dropClear"
    /\ net' = "dropRef"
    /\ m_Session' = None
    /\ UNCHANGED <<refs, freed, closing_, acceptor, place, registered, loaded,
                   world, target, life, m_Socket>>

DropSocket ==
    /\ net = "dropRef"
    /\ net' = "loop"
    /\ place' = "gone"
    /\ RemoveReference
    /\ UNCHANGED <<closing_, acceptor, registered, sessionVars>>

-----------------------------------------------------------------------------
(* The network thread: input                                               *)

(* The reactor holds a reference while it calls the handler.               *)
Upcall ==
    /\ net = "loop"
    /\ registered
    /\ net' = "input"
    /\ AddReference
    /\ UNCHANGED <<closing_, acceptor, place, registered, sessionVars>>

(* handle_input and handle_output: the socket is closing, the peer has    *)
(* gone or the data are malformed; nothing more is to be done; or a packet *)
(* is complete, and ProcessIncoming looks at closing_ once.                *)
handle_input ==
    /\ net = "input"
    /\ \/ net' = "error"
       \/ ~closing_ /\ net' \in {"return", "process"}
    /\ UNCHANGED <<refs, freed, closing_, acceptor, place, registered,
                   sessionVars>>

(* ProcessIncoming tests m_Session without the lock to log the packet.     *)
LogPacket ==
    /\ net = "process"
    /\ net' = IF m_Session = None THEN "dispatch" ELSE "log"
    /\ loaded' = m_Session
    /\ UNCHANGED <<refs, freed, closing_, m_Session, acceptor, place,
                   registered, world, target, life, m_Socket>>

(* A second CMSG_AUTH_SESSION is refused, and logged without the lock too. *)
DuplicateAuth ==
    /\ net = "dispatch"
    /\ m_Session # None
    /\ net' = "duplicate"
    /\ loaded' = m_Session
    /\ UNCHANGED <<refs, freed, closing_, m_Session, acceptor, place,
                   registered, world, target, life, m_Socket>>

(* The pointer that was tested, or one read again, is used: the race       *)
(* leaves it open which.                                                   *)
ReloadSession ==
    /\ net \in {"log", "duplicate"}
    /\ loaded # m_Session
    /\ loaded' = m_Session
    /\ UNCHANGED <<refs, freed, closing_, m_Session, acceptor, place,
                   registered, net, world, target, life, m_Socket>>

LogDone ==
    /\ net \in {"log", "duplicate"}
    /\ net' = IF net = "log" THEN "dispatch" ELSE "error"
    /\ loaded' = None
    /\ UNCHANGED <<refs, freed, closing_, m_Session, acceptor, place,
                   registered, world, target, life, m_Socket>>

(* Mutant: the constructor of the session takes no reference.              *)
HandleAuthSession_NoReference ==
    /\ net = "dispatch"
    /\ m_Session = None
    /\ \E s \in Sessions :
          /\ life[s] = "none"
          /\ life' = [life EXCEPT ![s] = "made"]
          /\ m_Socket' = m_Socket \cup {s}
          /\ m_Session' = s
    /\ net' = "auth"
    /\ UNCHANGED <<refs, freed, closing_, acceptor, place, registered, loaded,
                   world, target>>

(* HandleAuthSession makes a session, which takes a reference, or refuses. *)
HandleAuthSession ==
    /\ net = "dispatch"
    /\ m_Session = None
    /\ \/ \E s \in Sessions :
             /\ life[s] = "none"
             /\ life' = [life EXCEPT ![s] = "made"]
             /\ m_Socket' = m_Socket \cup {s}
             /\ m_Session' = s
             /\ net' = "auth"
             /\ AddReference
       \/ net' = "error" /\ UNCHANGED <<life, m_Socket, m_Session, refs, freed>>
    /\ UNCHANGED <<closing_, acceptor, place, registered, loaded, world, target>>

(* It fills the session in through m_Session and gives it to the world.    *)
(* When the rest of the packet is too short, an exception ends             *)
(* ProcessIncoming instead: the session is lost, with its reference.       *)
AddSession ==
    /\ net = "auth"
    /\ \/ net' = "input" /\ life' = [life EXCEPT ![m_Session] = "queued"]
       \/ net' = "error" /\ life' = [life EXCEPT ![m_Session] = "lost"]
    /\ UNCHANGED <<refs, freed, closing_, m_Session, acceptor, place,
                   registered, loaded, world, target, m_Socket>>

(* CMSG_LOG_DISCONNECT and the connection string go to no session.         *)
HandleUnrouted ==
    /\ net = "dispatch"
    /\ net' \in {"input", "error"}
    /\ UNCHANGED <<refs, freed, closing_, acceptor, place, registered,
                   sessionVars>>

(* HandlePing and the default case take m_SessionLock.                     *)
LockSession ==
    /\ net = "dispatch"
    /\ net' = IF m_Session = None THEN "error" ELSE "queue"
    /\ UNCHANGED <<refs, freed, closing_, acceptor, place, registered,
                   sessionVars>>

(* The session gets the packet or the latency, or it pings too fast; the   *)
(* lock is released.                                                       *)
QueuePacket ==
    /\ net = "queue"
    /\ net' \in {"input", "error"}
    /\ UNCHANGED <<refs, freed, closing_, acceptor, place, registered,
                   sessionVars>>

(* handle_close, in three steps.                                           *)
CloseCloses ==
    /\ net = "error"
    /\ net' = "clear"
    /\ closing_' = TRUE
    /\ UNCHANGED <<refs, freed, acceptor, place, registered, sessionVars>>

CloseClears ==
    /\ net = "clear"
    /\ net' = "remove"
    /\ m_Session' = None
    /\ UNCHANGED <<refs, freed, closing_, acceptor, place, registered, loaded,
                   world, target, life, m_Socket>>

RemoveHandler ==
    /\ net = "remove"
    /\ net' = "return"
    /\ registered' = FALSE
    /\ RemoveReference
    /\ UNCHANGED <<closing_, acceptor, place, sessionVars>>

UpcallReturns ==
    /\ net = "return"
    /\ net' = "loop"
    /\ RemoveReference
    /\ UNCHANGED <<closing_, acceptor, place, registered, sessionVars>>

-----------------------------------------------------------------------------
(* The world thread                                                        *)

(* AddSession_ accepts the session.                                        *)
AddSession_(s) ==
    /\ world = "idle"
    /\ life[s] = "queued"
    /\ life' = [life EXCEPT ![s] = "listed"]
    /\ UNCHANGED <<refs, freed, closing_, m_Session, acceptor, place,
                   registered, net, loaded, world, target, m_Socket>>

(* KickPlayer: CloseSocket, first critical section.  A session that is     *)
(* refused or replaced is deleted right after the kick.                    *)
KickPlayer(s) ==
    /\ world = "idle"
    /\ life[s] \in {"queued", "listed"}
    /\ target' = s
    /\ \/ life[s] = "listed" /\ world' = IF closing_ THEN "idle" ELSE "kickClear"
       \/ world' = IF closing_ THEN "delete" ELSE "deleteClear"
    /\ closing_' = TRUE
    /\ UNCHANGED <<refs, freed, m_Session, acceptor, place, registered, net,
                   loaded, life, m_Socket>>

(* Mutant: m_Session is cleared without m_SessionLock.                     *)
ClearSession_NoLock ==
    /\ world \in {"kickClear", "deleteClear"}
    /\ m_Session' = None
    /\ world' = IF world = "kickClear" THEN "idle" ELSE "delete"
    /\ UNCHANGED <<refs, freed, closing_, acceptor, place, registered, net,
                   loaded, target, life, m_Socket>>

(* CloseSocket, second critical section: it waits for m_SessionLock.       *)
ClearSession ==
    /\ world \in {"kickClear", "deleteClear"}
    /\ net # "queue"
    /\ m_Session' = None
    /\ world' = IF world = "kickClear" THEN "idle" ELSE "delete"
    /\ UNCHANGED <<refs, freed, closing_, acceptor, place, registered, net,
                   loaded, target, life, m_Socket>>

(* WorldSession::~WorldSession after a kick: its CloseSocket finds the     *)
(* socket closing.                                                         *)
DeleteSession ==
    /\ world = "delete"
    /\ world' = "idle"
    /\ life' = [life EXCEPT ![target] = "deleted"]
    /\ m_Socket' = m_Socket \ {target}
    /\ RemoveReference
    /\ UNCHANGED <<closing_, m_Session, acceptor, place, registered, net,
                   loaded, target>>

(* Mutant: m_Socket is not reset, and the destructor gives the reference   *)
(* back a second time.                                                     *)
UpdateSession_Twice(s) ==
    /\ world = "idle"
    /\ life[s] = "listed"
    /\ closing_
    /\ life' = [life EXCEPT ![s] = "deleted"]
    /\ m_Socket' = m_Socket \ {s}
    /\ refs' = refs - 2
    /\ freed' = (freed \/ refs <= 2)
    /\ UNCHANGED <<closing_, m_Session, acceptor, place, registered, net,
                   loaded, world, target>>

(* WorldSession::Update finds the socket closed, gives its reference back  *)
(* and the session is removed and deleted.                                 *)
UpdateSession(s) ==
    /\ world = "idle"
    /\ life[s] = "listed"
    /\ closing_
    /\ life' = [life EXCEPT ![s] = "deleted"]
    /\ m_Socket' = m_Socket \ {s}
    /\ RemoveReference
    /\ UNCHANGED <<closing_, m_Session, acceptor, place, registered, net,
                   loaded, world, target>>

-----------------------------------------------------------------------------
Acceptor == \/ AddSocket \/ PrepareSocket \/ RegisterSocket \/ ReleaseSocket
            \/ OpenFails \/ close

SocketSet == \/ AddNewSockets \/ UpdateFails \/ DropCloses \/ DropClears
             \/ DropSocket

Input == \/ handle_input \/ LogPacket \/ DuplicateAuth \/ ReloadSession
         \/ LogDone \/ HandleAuthSession \/ AddSession \/ HandleUnrouted
         \/ LockSession \/ QueuePacket \/ CloseCloses \/ CloseClears
         \/ RemoveHandler \/ UpcallReturns

World == \/ \E s \in Sessions : \/ AddSession_(s) \/ KickPlayer(s)
                                \/ UpdateSession(s)
         \/ ClearSession
         \/ DeleteSession

(* The sessions that were made and never given to the world.               *)
Lost == {s \in Sessions : life[s] = "lost"}

(* No thread has the socket any more.                                      *)
Released ==
    /\ acceptor = "done"
    /\ place \in {"none", "gone"}
    /\ ~registered
    /\ net = "loop"

(* Nobody can reach the socket any more.                                   *)
Unreachable == Released /\ m_Socket = {}

Terminated == Released /\ m_Socket = Lost /\ UNCHANGED vars

Next == Acceptor \/ SocketSet \/ Upcall \/ Input \/ World \/ Terminated

Spec == Init /\ [][Next]_vars

(* Every thread goes on, and the reactor reports a closed connection.      *)
FairSpec ==
    /\ Spec
    /\ WF_vars(Acceptor)
    /\ SF_vars(SocketSet)
    /\ SF_vars(Upcall)
    /\ WF_vars(Input)
    /\ WF_vars(ClearSession \/ DeleteSession)
    /\ \A s \in Sessions : WF_vars(AddSession_(s)) /\ WF_vars(UpdateSession(s))

-----------------------------------------------------------------------------
(* Properties                                                              *)

(* Whoever can still reach the socket finds it alive, and it is destroyed  *)
(* when the last one has let go of it.                                     *)
NoUseAfterFree == freed <=> Unreachable

(* A packet is put in the queue of a session that exists, and a session   *)
(* being made is not taken away from HandleAuthSession: m_SessionLock,     *)
(* closing_ and the order of the two sections of CloseSocket together.     *)
RoutedToLiveSession ==
    /\ net = "queue" => m_Session # None /\ life[m_Session] # "deleted"
    /\ net = "auth" => m_Session # None /\ life[m_Session] = "made"

(* "Mutex lock to protect m_Session": every use of the pointer by the      *)
(* network thread is of a session that exists.                             *)
LoggedSessionLives ==
    net \in {"log", "duplicate"} => loaded # None /\ life[loaded] # "deleted"

(* A socket that closes is destroyed, and so are its sessions: no cycle of *)
(* references keeps them (WorldSession::Update, ReactorRunnable::svc,      *)
(* handle_close).  Only a session that was lost before World::AddSession   *)
(* stays, and then its reference is the only one left on the socket.       *)
ClosedIsFreed ==
    closing_ ~> /\ \A s \in Sessions : life[s] \in {"none", "lost", "deleted"}
                /\ refs = Cardinality(Lost)
                /\ freed <=> Lost = {}
=============================================================================
