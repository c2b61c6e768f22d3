---------------------------- MODULE SessionQueue ----------------------------
(***************************************************************************)
(* Admission of sessions to the world: network threads hand authenticated  *)
(* sessions to World::AddSession, the world thread adds them in            *)
(* World::UpdateSessions, puts them in the login queue when the realm is   *)
(* full, replaces the older session of the same account, removes sessions  *)
(* whose socket has closed and lets queued ones in.                        *)
(*                                                                         *)
(* A session is identified with the WorldSession object: it is created by  *)
(* one authentication and deleted once.  The packets sent to clients and   *)
(* the maxima kept for ".server info" are left out.                        *)
(***************************************************************************)
EXTENDS Integers, Sequences, FiniteSets, SequencesExt

CONSTANTS
    Accounts,
    Sessions,    \* WorldSession objects
    AccountOf,   \* the account a session authenticated for
    Skip,        \* sessions that were given RBAC_PERM_SKIP_QUEUE
    Tolerance,   \* DisconnectToleranceInterval is not 0
    Limits,      \* values of PlayerLimit; 0 means no limit
    None

ASSUME QueueAssumption ==
    /\ IsFiniteSet(Accounts)
    /\ AccountOf \in [Sessions -> Accounts]
    /\ Skip \subseteq Sessions
    /\ Tolerance \in BOOLEAN
    /\ Limits \subseteq Nat
    /\ None \notin Sessions

VARIABLES
    phase,          \* where the world thread is in its loop
    stopping,       \* WorldRunnable::run left its loop
    todo,           \* accounts the loop of UpdateSessions has not visited
    addSessQueue,   \* sessions handed over by network threads
    m_sessions,     \* the session of each account, or None
    m_QueuedPlayer, \* the login queue
    m_inQueue,      \* the flag of each session
    m_disconnects,  \* accounts with an entry in World::m_disconnects
    m_playerLimit,
    closed,         \* the session's socket is closed
    stage,          \* how far the session's player is
    life            \* history: where the session object is

vars == <<phase, stopping, todo, addSessQueue, m_sessions, m_QueuedPlayer,
          m_inQueue, m_disconnects, m_playerLimit, closed, stage, life>>

Stages == {"new", "chars", "loading", "world"}

TypeOK ==
    /\ phase \in {"idle", "add", "update", "stopped", "destroyed"}
    /\ stopping \in BOOLEAN
    /\ todo \subseteq Accounts
    /\ addSessQueue \in Seq(Sessions)
    /\ m_sessions \in [Accounts -> Sessions \cup {None}]
    /\ m_QueuedPlayer \in Seq(Sessions)
    /\ m_inQueue \in [Sessions -> BOOLEAN]
    /\ m_disconnects \subseteq Accounts
    /\ m_playerLimit \in Nat
    /\ closed \in [Sessions -> BOOLEAN]
    /\ stage \in [Sessions -> Stages]
    /\ life \in [Sessions -> {"none", "pending", "listed", "deleted"}]

Init ==
    /\ phase = "idle"
    /\ stopping = FALSE
    /\ todo = {}
    /\ addSessQueue = <<>>
    /\ m_sessions = [a \in Accounts |-> None]
    /\ m_QueuedPlayer = <<>>
    /\ m_inQueue = [s \in Sessions |-> FALSE]
    /\ m_disconnects = {}
    /\ m_playerLimit \in Limits
    /\ closed = [s \in Sessions |-> FALSE]
    /\ stage = [s \in Sessions |-> "new"]
    /\ life = [s \in Sessions |-> "none"]

Listed == {a \in Accounts : m_sessions[a] # None}

(* m_sessions.size()                                                       *)
SessionCount == Cardinality(Listed)

(* GetActiveSessionCount, an unsigned difference in the code; QueueSound   *)
(* below shows that it never wraps.                                        *)
GetActiveSessionCount(q) == SessionCount - Len(q)

-----------------------------------------------------------------------------
(* The login queue                                                         *)

GetQueuePos(q, s) ==
    IF s \in ToSet(q) THEN CHOOSE k \in DOMAIN q : q[k] = s ELSE 0

IsQueued(q, s) == GetQueuePos(q, s) # 0

(* Mutant: the flag is cleared but the list keeps its entry.               *)
EraseQueued_Keep(q, s) == q

(* The first loop of RemoveQueuedPlayer.                                   *)
EraseQueued(q, s) == IF IsQueued(q, s) THEN RemoveAt(q, GetQueuePos(q, s)) ELSE q

(* Mutant: a session that leaves the world is still counted.               *)
RemainingSessions_NoDecrease(q, s) == GetActiveSessionCount(q)

(* The sessions that stay active: one that was not queued is leaving.      *)
RemainingSessions(q, s) ==
    IF ~IsQueued(q, s) /\ GetActiveSessionCount(q) # 0
    THEN GetActiveSessionCount(q) - 1
    ELSE GetActiveSessionCount(q)

(* Mutant: <= for <.                                                       *)
HasPlace_OffByOne(n) == m_playerLimit = 0 \/ n <= m_playerLimit

HasPlace(n) == m_playerLimit = 0 \/ n < m_playerLimit

(* Mutant: the last in the queue is let in.                                *)
RemoveQueuedPlayer_Last(q, s) ==
    LET found == IsQueued(q, s)
        rest  == EraseQueued(q, s)
        admit == rest # <<>> /\ HasPlace(RemainingSessions(q, s))
    IN  [queue |-> IF admit THEN Front(rest) ELSE rest,
         found |-> found,
         out   |-> (IF found THEN {s} ELSE {})
                   \cup (IF admit THEN {Last(rest)} ELSE {})]

(* World::RemoveQueuedPlayer on queue q: take s out if it is queued, then  *)
(* let the first one in if there is a place.  The result is the new queue, *)
(* whether s was found, and the sessions whose m_inQueue was cleared.      *)
RemoveQueuedPlayer(q, s) ==
    LET found == IsQueued(q, s)
        rest  == EraseQueued(q, s)
        admit == rest # <<>> /\ HasPlace(RemainingSessions(q, s))
    IN  [queue |-> IF admit THEN Tail(rest) ELSE rest,
         found |-> found,
         out   |-> (IF found THEN {s} ELSE {})
                   \cup (IF admit THEN {Head(rest)} ELSE {})]

(* World::HasRecentlyDisconnected: difftime(entry, now) is never positive, *)
(* hence below any tolerance: an entry never expires.                      *)
HasRecentlyDisconnected(a) == Tolerance /\ a \in m_disconnects

-----------------------------------------------------------------------------
(* Network threads                                                         *)

(* The end of WorldSocket::HandleAuthSession: World::AddSession.           *)
AddSession(s) ==
    /\ life[s] = "none"
    /\ phase \notin {"stopped", "destroyed"}
    /\ life' = [life EXCEPT ![s] = "pending"]
    /\ addSessQueue' = Append(addSessQueue, s)
    /\ UNCHANGED <<phase, stopping, todo, m_sessions, m_QueuedPlayer,
                   m_inQueue, m_disconnects, m_playerLimit, closed, stage>>

(* The socket closes: the client left, the connection idled out or         *)
(* somebody called KickPlayer.                                             *)
CloseSocket(s) ==
    /\ life[s] \in {"pending", "listed"}
    /\ ~closed[s]
    /\ phase \notin {"stopped", "destroyed"}
    /\ closed' = [closed EXCEPT ![s] = TRUE]
    /\ UNCHANGED <<phase, stopping, todo, addSessQueue, m_sessions,
                   m_QueuedPlayer, m_inQueue, m_disconnects, m_playerLimit,
                   stage, life>>

-----------------------------------------------------------------------------
(* The world thread between two calls of UpdateSessions                    *)

BeginUpdateSessions ==
    /\ phase = "idle"
    /\ phase' = "add"
    /\ UNCHANGED <<stopping, todo, addSessQueue, m_sessions, m_QueuedPlayer,
                   m_inQueue, m_disconnects, m_playerLimit, closed, stage,
                   life>>

(* Mutant: the sign of the argument is not looked at.                      *)
SetPlayerAmountLimit_Negative(n) ==
    /\ phase = "idle"
    /\ ~stopping
    /\ m_playerLimit' = -n
    /\ UNCHANGED <<phase, stopping, todo, addSessQueue, m_sessions,
                   m_QueuedPlayer, m_inQueue, m_disconnects, closed, stage,
                   life>>

SetPlayerAmountLimit(n) ==
    /\ phase = "idle"
    /\ ~stopping
    /\ n # m_playerLimit
    /\ m_playerLimit' = n
    /\ UNCHANGED <<phase, stopping, todo, addSessQueue, m_sessions,
                   m_QueuedPlayer, m_inQueue, m_disconnects, closed, stage,
                   life>>

(* Mutant: only sessions with a player are kicked.                         *)
KickAll_PlayersOnly ==
    /\ phase = "idle"
    /\ ~stopping
    /\ stopping' = TRUE
    /\ phase' = "add"
    /\ m_QueuedPlayer' = <<>>
    /\ closed' = [s \in Sessions |->
                     closed[s] \/ (life[s] = "listed" /\ stage[s] = "world")]
    /\ UNCHANGED <<todo, addSessQueue, m_sessions, m_inQueue, m_disconnects,
                   m_playerLimit, stage, life>>

(* The end of WorldRunnable::run: KickAll, then one more UpdateSessions.   *)
KickAll ==
    /\ phase = "idle"
    /\ ~stopping
    /\ stopping' = TRUE
    /\ phase' = "add"
    /\ m_QueuedPlayer' = <<>>
    /\ closed' = [s \in Sessions |-> closed[s] \/ life[s] = "listed"]
    /\ UNCHANGED <<todo, addSessQueue, m_sessions, m_inQueue, m_disconnects,
                   m_playerLimit, stage, life>>

-----------------------------------------------------------------------------
(* World::UpdateSessions, first loop                                       *)

(* AddSession_ when RemoveSession returns false: the older session is      *)
(* loading its player, so the new one is kicked and deleted.               *)
RefuseSession ==
    /\ phase = "add"
    /\ addSessQueue # <<>>
    /\ LET s   == Head(addSessQueue)
           old == m_sessions[AccountOf[s]]
       IN  /\ old # None
           /\ stage[old] = "loading"
           /\ closed' = [closed EXCEPT ![s] = TRUE]
           /\ life' = [life EXCEPT ![s] = "deleted"]
    /\ addSessQueue' = Tail(addSessQueue)
    /\ UNCHANGED <<phase, stopping, todo, m_sessions, m_QueuedPlayer,
                   m_inQueue, m_disconnects, m_playerLimit, stage>>

(* AddSession_ from the kick of an older session of the account to the     *)
(* decision between the world and the queue.                               *)
AddSession_ ==
    /\ phase = "add"
    /\ addSessQueue # <<>>
    /\ LET s     == Head(addSessQueue)
           a     == AccountOf[s]
           old   == m_sessions[a]
           r     == IF old = None
                    THEN [queue |-> m_QueuedPlayer, found |-> FALSE, out |-> {}]
                    ELSE RemoveQueuedPlayer(m_QueuedPlayer, old)
           count == (IF old = None THEN SessionCount + 1 ELSE SessionCount)
                    - (IF r.found THEN 0 ELSE 1)
           wait  == /\ m_playerLimit > 0
                    /\ count >= m_playerLimit
                    /\ s \notin Skip
                    /\ ~HasRecentlyDisconnected(a)
       IN  /\ old # None => stage[old] # "loading"
           /\ m_sessions' = [m_sessions EXCEPT ![a] = s]
           /\ m_QueuedPlayer' = IF wait THEN Append(r.queue, s) ELSE r.queue
           /\ m_inQueue' = [x \in Sessions |->
                               IF x = s THEN wait
                               ELSE m_inQueue[x] /\ x \notin r.out]
           /\ closed' = [x \in Sessions |-> closed[x] \/ x = old]
           /\ life' = [x \in Sessions |-> CASE x = s   -> "listed"
                                            [] x = old -> "deleted"
                                            [] OTHER   -> life[x]]
    /\ addSessQueue' = Tail(addSessQueue)
    /\ UNCHANGED <<phase, stopping, todo, m_disconnects, m_playerLimit, stage>>

(* Mutant: queued sessions are not updated.                                *)
EndAdd_ActiveOnly ==
    /\ phase = "add"
    /\ addSessQueue = <<>>
    /\ phase' = "update"
    /\ todo' = {a \in Listed : ~m_inQueue[m_sessions[a]]}
    /\ UNCHANGED <<stopping, addSessQueue, m_sessions, m_QueuedPlayer,
                   m_inQueue, m_disconnects, m_playerLimit, closed, stage,
                   life>>

(* The second loop starts.                                                 *)
EndAdd ==
    /\ phase = "add"
    /\ addSessQueue = <<>>
    /\ phase' = "update"
    /\ todo' = Listed
    /\ UNCHANGED <<stopping, addSessQueue, m_sessions, m_QueuedPlayer,
                   m_inQueue, m_disconnects, m_playerLimit, closed, stage,
                   life>>

-----------------------------------------------------------------------------
(* World::UpdateSessions, second loop                                      *)

(* What one WorldSession::Update can make of the player: the character     *)
(* list, a login request and its answer from the database, a logout.       *)
(* While the session is queued its requests are dropped.                   *)
NextStages(s) ==
    IF m_inQueue[s] THEN {stage[s]}
    ELSE CASE stage[s] = "new"     -> {"new", "chars"}
           [] stage[s] = "chars"   -> {"chars", "loading", "world"}
           [] stage[s] = "loading" -> {"loading", "world"}
           [] stage[s] = "world"   -> {"world", "chars"}

UpdateSession(a) ==
    /\ phase = "update"
    /\ a \in todo
    /\ ~closed[m_sessions[a]]
    /\ \E st \in NextStages(m_sessions[a]) :
          stage' = [stage EXCEPT ![m_sessions[a]] = st]
    /\ todo' = todo \ {a}
    /\ UNCHANGED <<phase, stopping, addSessQueue, m_sessions, m_QueuedPlayer,
                   m_inQueue, m_disconnects, m_playerLimit, closed, life>>

(* WorldSession::Update returned false: RemoveQueuedPlayer is called       *)
(* twice, both times before the session leaves m_sessions.                 *)
RemoveClosedSession(a) ==
    /\ phase = "update"
    /\ a \in todo
    /\ closed[m_sessions[a]]
    /\ LET s  == m_sessions[a]
           r1 == RemoveQueuedPlayer(m_QueuedPlayer, s)
           r2 == RemoveQueuedPlayer(r1.queue, s)
       IN  /\ m_disconnects' = IF ~r1.found /\ Tolerance
                               THEN m_disconnects \cup {a}
                               ELSE m_disconnects
           /\ m_QueuedPlayer' = r2.queue
           /\ m_inQueue' = [x \in Sessions |->
                               m_inQueue[x] /\ x \notin r1.out \cup r2.out]
           /\ life' = [life EXCEPT ![s] = "deleted"]
    /\ m_sessions' = [m_sessions EXCEPT ![a] = None]
    /\ todo' = todo \ {a}
    /\ UNCHANGED <<phase, stopping, addSessQueue, m_playerLimit, closed, stage>>

EndUpdate ==
    /\ phase = "update"
    /\ todo = {}
    /\ phase' = IF stopping THEN "stopped" ELSE "idle"
    /\ UNCHANGED <<stopping, todo, addSessQueue, m_sessions, m_QueuedPlayer,
                   m_inQueue, m_disconnects, m_playerLimit, closed, stage,
                   life>>

(* World::~World, after StopNetwork: the sessions that are still listed    *)
(* are deleted; the login queue and addSessQueue are left alone.           *)
DestroyWorld ==
    /\ phase = "stopped"
    /\ phase' = "destroyed"
    /\ m_sessions' = [a \in Accounts |-> None]
    /\ life' = [s \in Sessions |->
                   IF life[s] = "listed" THEN "deleted" ELSE life[s]]
    /\ UNCHANGED <<stopping, todo, addSessQueue, m_QueuedPlayer, m_inQueue,
                   m_disconnects, m_playerLimit, closed, stage>>

-----------------------------------------------------------------------------
Network == \E s \in Sessions : AddSession(s) \/ CloseSocket(s)

WorldLoop ==
    \/ BeginUpdateSessions
    \/ RefuseSession
    \/ AddSession_
    \/ EndAdd
    \/ \E a \in Accounts : UpdateSession(a) \/ RemoveClosedSession(a)
    \/ EndUpdate
    \/ DestroyWorld

Command ==
    \/ \E n \in Limits : SetPlayerAmountLimit(n)
    \/ KickAll

Terminated == phase = "destroyed" /\ UNCHANGED vars

Next == Network \/ WorldLoop \/ Command \/ Terminated

Spec == Init /\ [][Next]_vars

(* The world loop calls UpdateSessions until it is stopped.                *)
FairSpec == Spec /\ WF_vars(WorldLoop)

-----------------------------------------------------------------------------
(* Properties                                                              *)

IsActive(a) == m_sessions[a] # None /\ m_sessions[a] \notin ToSet(m_QueuedPlayer)

(* Accounts that neither skip the queue nor bypass it after a disconnect.  *)
Ordinary ==
    {a \in Accounts : m_sessions[a] \notin Skip /\ a \notin m_disconnects}

(* The queue lists each session once, only sessions that are the current   *)
(* one of their account and exist, and m_inQueue says who is in it: no     *)
(* deleted WorldSession is ever reached through m_QueuedPlayer, and        *)
(* GetActiveSessionCount does not wrap below 0.                            *)
QueueSound ==
    phase # "destroyed" =>
    /\ \A j, k \in DOMAIN m_QueuedPlayer :
          m_QueuedPlayer[j] = m_QueuedPlayer[k] => j = k
    /\ \A s \in ToSet(m_QueuedPlayer) :
          m_sessions[AccountOf[s]] = s /\ life[s] = "listed" /\ m_inQueue[s]
    /\ ~stopping => \A s \in Sessions : m_inQueue[s] => s \in ToSet(m_QueuedPlayer)

PlacesFilled ==
    m_QueuedPlayer # <<>> /\ phase # "destroyed" =>
        m_playerLimit > 0 /\ GetActiveSessionCount(m_QueuedPlayer) >= m_playerLimit

(* Unless PlayerLimit itself is changed nobody comes to wait while there   *)
(* is room: whoever leaves, logs in again or is replaced, the freed place  *)
(* is given away in the same step.                                         *)
NoIdlePlace ==
    [][ PlacesFilled /\ m_playerLimit' = m_playerLimit => PlacesFilled' ]_vars

Admitted(s) == /\ life[s] = "pending" \/ (life[s] = "listed" /\ m_inQueue[s])
               /\ life'[s] = "listed" /\ ~m_inQueue'[s]

(* A session without privilege enters the world only when, counted with    *)
(* it, the ordinary active sessions do not exceed PlayerLimit.             *)
AdmitWithinLimit ==
    [][ (m_playerLimit > 0 /\ \E s \in Sessions : Admitted(s) /\ AccountOf[s] \in Ordinary')
        => Cardinality({a \in Ordinary' : IsActive(a)'}) <= m_playerLimit ]_vars

(* First come, first served: the queue keeps its order, and a queued       *)
(* session is let in only when all before it have left the queue.          *)
NoOvertaking ==
    [][ \A j, k \in DOMAIN m_QueuedPlayer :
           LET before == m_QueuedPlayer[j]
               behind == m_QueuedPlayer[k]
           IN  j < k /\ before \in ToSet(m_QueuedPlayer')
               => /\ ~Admitted(behind)
                  /\ behind \in ToSet(m_QueuedPlayer')
                     => GetQueuePos(m_QueuedPlayer', before)
                        < GetQueuePos(m_QueuedPlayer', behind) ]_vars

(* No player where none may be.  A queued session has had no request       *)
(* served: it has no character list and no player.  And "real players      *)
(* unload required UpdateSessions call": after the last UpdateSessions of  *)
(* the shutdown no session holds or loads a player, even those that        *)
(* arrived after KickAll.                                                  *)
NoStrayPlayer ==
    /\ \A s \in ToSet(m_QueuedPlayer) : stage[s] = "new"
    /\ phase = "stopped" =>
          \A a \in Listed : stage[m_sessions[a]] \in {"new", "chars"}

(* A session whose socket closed is eventually deleted, also when it is    *)
(* replaced by a newer one, queued or loading: however sessions come and   *)
(* go, the world gets again and again to a point at which none that is     *)
(* closed is left in m_sessions (UpdateSessions, RemoveSession, ~World).   *)
ClosedIsDeleted ==
    []<>(\A s \in Sessions : closed[s] => life[s] # "listed")

(* PlayerLimit as the configuration file describes it, "Excluding Mods,    *)
(* GMs and Admins": somebody waits only if that many ordinary sessions are *)
(* active.                                                                 *)
LimitExcludesStaff ==
    m_QueuedPlayer # <<>> =>
        Cardinality({a \in Accounts : IsActive(a) /\ m_sessions[a] \notin Skip})
            >= m_playerLimit
=============================================================================
