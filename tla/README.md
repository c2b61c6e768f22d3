# A TLA+ model of the MistyWorld server

MistyWorld is a World of Warcraft server of the TrinityCore family (C++, ACE).
This directory holds TLA+ modules that model the concurrent core of its world
server and the operations on characters and groups that cross it and the
database, the TLC configurations that check them on small instances, and proofs
that TLAPS checks for every value of the constants. `PROJECT.json` lists every
component, run, mutant, source line, hazard, finding and theorem.

Run a configuration with `tlc -config MCSocketOut.cfg MCWorldSocketOut`, check
proofs with `tlapm WorldSocketOutProof.tla`.

## 1. Inventory

The world server is one process. The threads that matter:

| thread | what it does |
|---|---|
| world thread | `WorldRunnable::run`: sessions, maps, timers, commands, once per tick |
| map threads | the `DelayExecutor` pool of `MapUpdater`; run `Map::Update` inside a tick |
| acceptor thread | makes a `WorldSocket` for each connection and calls `open()` |
| network threads | `ReactorRunnable::svc`: an ACE reactor and a set of sockets each |
| database threads | `DatabaseWorker::svc`: take operations off the queue of one of three databases |
| console, RA, SOAP | put commands in the world thread's queue |

| component | state | operations | hard because | correct when |
|---|---|---|---|---|
| map update pool (`jeu/Maps`, `commun/Threading`) | `pending_requests`, request queue, the set of maps | schedule, run, finish, wait, create and destroy instances, stop | requests make requests; instances die inside an update; the wait needs a wakeup | the count is exact, the wait is a barrier, no map is updated by two threads or after deletion, ticks end |
| session admission (`jeu/World`) | `m_sessions`, `m_QueuedPlayer`, `addSessQueue`, `m_disconnects`, the limit | add, replace, queue, let in, remove, kick all, destroy | raw pointers in a list, a second login during every phase, removal during iteration | no deleted session is reachable, first come first served, no place stays idle, nobody is saved too late |
| world socket, output (`jeu/Server`) | buffer, message queue, `m_OutActive`, the reactor's mask | send, output, wakeup, update, close | several writers, two stores, a lock released before the reactor is called, a bounded queue | bytes leave in cipher order, none is lost, waiting output always has somebody who will send it |
| world socket, life (`jeu/Server`) | reference count, `closing_`, `m_Session` | open, register, drop, route a packet, authenticate, kick, delete | three threads drop references; the session is not counted | freed by the last holder and not before; packets go to living sessions |
| database pool (`commun/Database`) | the activation queue, connections, the transaction open on each | enqueue, run, retry, reconnect, ping, close | commands fail or break their connection at any point; synchronous callers run beside the queue | an operation is in effect whole, once, or not at all; every query is answered |
| character screen and login (`jeu/Handlers`) | sessions, chains of callbacks, the tables `characters`, `realmcharacters`, `account` | list, create, delete, load, save, log out, connect again | every handler asks a queue and goes on in a callback, while the session, the character or the account may change | limits and names hold, what is loaded is what was saved, no chain is left open |
| groups (`jeu/Groups`) | slots, invitations, leader, subgroup counters, the links of players, storage identifiers, the tables `groups` and `group_member` | invite, accept, decline, kick, leave, pass the lead, convert, log out and in, restart | both sides of a link are kept by hand; members leave while others are loading or between maps; tables follow later | the two sides agree, a group has a leader in it, a restart rebuilds the groups |
| auth server | the state of one login | challenge, proof, reconnect, realm list | messages out of order | no realm list without proof |
| guilds, channels | members, ranks, owner | invite, join, leave, promote | leader leaves | there is a leader |
| trade, auction, mail, dungeon finder, battlegrounds | offers, auctions, queues, proposals | | the opcodes that would change this state are 0x0000 in `Server/Protocol/Opcodes.cpp`: no client reaches them in this version | see section 8 |
| instance saves, grids | binds, resets, grid states | bind, reset, load, unload | expiry races use | nothing in use is unloaded |
| spells, AI, scripts, loot, conditions, collision, logging, configuration, tools, vendored code | | | data tables, geometry, I/O | out of scope, see section 8 |

How they interact: a network thread authenticates a client, makes a
`WorldSession` and puts it in `addSessQueue`; the world thread takes it from
there, admits or queues it, and in every tick lets it process its packets;
`MapManager::Update` then gives the maps to the pool, whose threads process the
map-bound packets of the same sessions and send packets through the same
sockets; the world thread waits for the pool before it goes on. A connection
ends when the network thread sees an error or any thread calls `CloseSocket`;
the world thread notices in `WorldSession::Update`. Handlers queue statements,
transactions and query holders for the workers of a database and go on; the answers
are futures that `ProcessQueryCallbacks` of the session looks at in every tick.
`SessionQueue` and `WorldSocketLife` model the session from the two sides of that
hand-over, `Characters` and `Groups` what it does afterwards, over queues whose
order and atomicity are what `DatabasePool` shows.

## 2. Modules

| module | models | extends |
|---|---|---|
| `MapUpdater` | `MapManager::Update`/`UnloadAll`, `MapUpdater`, `DelayExecutor`, `MapInstanced` | |
| `MapUpdaterProof` | theorems about it | `MapUpdater` |
| `SessionQueue` | `World::AddSession` ... `UpdateSessions`, `KickAll`, `~World` | |
| `SessionQueueProof` | theorems about it | `SessionQueue` |
| `WorldSocketOut` | the output side of one `WorldSocket` | |
| `WorldSocketOutProof` | theorems about it | `WorldSocketOut` |
| `WorldSocketLife` | references, `m_Session` and sessions of one `WorldSocket` | |
| `WorldSocketLifeProof` | theorems about it | `WorldSocketLife` |
| `AtomicStore` | what the callers of a database pool rely on (abstract) | |
| `AtomicStoreProof` | theorem about it | `AtomicStore` |
| `DatabasePool` | `DatabaseWorkerPool`, `DatabaseWorker`, `MySQLConnection`, `TransactionTask`, query holders | instantiates `AtomicStore` |
| `DatabasePoolProof` | theorems about it, the refinement among them | `DatabasePool`, instantiates `AtomicStoreProof` |
| `Characters` | `CharacterHandler.cpp`, sessions, saving, the online marks and counts | |
| `CharactersProof` | theorems about it | `Characters` |
| `Groups` | `Group`, `GroupMgr`, `GroupHandler.cpp`, `_LoadGroup` | |
| `GroupsProof` | theorems about it | `Groups` |
| `MC*` | constants for TLC | the module they name |

Definitions whose names end in `_Something` right after a comment "Mutant:" are
not part of the model. Each is a wrong version of the definition that follows
it; put in its place it makes TLC report the property it is listed with.

### MapUpdater

State: `wpc` is the world thread's place in `WorldRunnable::run` and
`MapManager::Update`; `queue`, `pending`, `activated` are the pool's; `step`,
`cur`, `left` say what each thread does of a request and which instances the
loop of `MapInstanced::Update` still has to visit; `fate` is history and records
what happened to each map in this tick. Every critical section of
`MapUpdater::m_mutex` is one action. `Wait` is the test of the loop in
`MapUpdater::wait`; the world thread then is "blocked" until `update_finished`
broadcasts, or wakes spuriously. `schedule_update` includes the roll-back when
the ACE queue refuses the request. A `MapInstanced` first updates itself, then
destroys, schedules or updates each instance: `DestroyInstance`, `KeepInstance`
(players are still in it), `ScheduleInstance`, `UpdateInstanceInline`.
`Map::Update` of a map is one opaque step.

### SessionQueue

A session is the C++ object: made by one authentication, deleted once. `life` is
history, `stage` is how far its player is ("new", character list asked for,
loading, in the world), which stands for what `WorldSession::Update` and the
login handlers do. `AddSession_` is the whole function with `RemoveSession`,
`AddQueuedPlayer` and `RemoveQueuedPlayer`; `RefuseSession` is its early return
for an account whose player is loading. The loop of `UpdateSessions` visits the
accounts in any order (`m_sessions` is an unordered map). `KickAll` and `stopping` are
the end of `WorldRunnable::run`, `DestroyWorld` is the destructor.

### WorldSocketOut

Bytes are numbered in the order in which `SendPacket` encrypts their headers, so
a piece of output is an interval and "the client can decrypt" becomes "the
intervals follow each other". `m_OutBuffer` is one interval, `msg_queue` a
sequence of them with the block size ACE counts. `net` is the network thread's
program counter in `svc`, the reactor's upcall, `Update` and `handle_output`;
what is done under `m_OutBufferLock` is one step, and the call of the reactor
after the lock is released is another. `IsFull` is ACE's `is_full_i`.

### WorldSocketLife

`acceptor`, `net` and `world` are program counters of three threads; the world
thread also stands for the map threads, for which it waits in every tick. `refs`
and `freed` are the reference count and the destruction it leads to. A use of
`m_Session` under `m_SessionLock` is the state "queue", during which
`ClearSession` waits; its uses without the lock are the states "log" and
"duplicate", and `ReloadSession` is the second read of the pointer, which the
compiler may or may not make. The decoding of packets is the choice
`handle_input` makes. `HandleAuthSession` constructs the session, which takes its
reference; `AddSession` is the rest of that handler and may fail, since
`ReadAddonsInfo` throws on a packet that is too short (`WorldSocket.cpp:1096`,
caught at `:850`). The session then is "lost": the upcall returns an error, the socket
closes, and no thread will ever delete that session or give its reference back.

### AtomicStore and DatabasePool

`AtomicStore` has four steps: an operation is handed over; it takes effect, all its
statements in a row; operations are dropped as a whole; or one whose connection broke
puts some of its statements into effect, which is all that is promised of it.

In `DatabasePool` each connection runs one command at a time: START TRANSACTION, a
statement, COMMIT, ROLLBACK, a ping. A command ends by `Succeed`, `Refuse` (the errors
that are logged, and a deadlock, after which the server has rolled the transaction
back), `Reconnect` (the connection broke before or after the server had carried the
command out; the same command is sent again on a new one), `FailToReconnect`,
`NoHandle` (the connection was lost for good) or `Abort`. `session` is the server's
side: whether a transaction is open and what it holds back. Workers take operations
from `queue`; `GetFreeConnection` gives a caller a synchronous connection that no one
else has locked. `Close` empties the queue, as ACE does, and then waits for the workers.
`order`, `called` and `met` are history. `Store` is the refinement mapping: what is in
effect is `committed`, what may still take effect is what is queued or being run.

### Characters

A session is a record with the futures it waits for (`enum`, `create`, `login`), the
stage of the creation chain, its parameter (`info`) and the character it has or loads.
The four stages of `HandleCharCreateCallback` are four actions. An answer has the value
its first field gives when it is read as a number and when it is read as a string: stage
1 reads a string, which matters when the answer of another query is in the future. Each
database has a queue and one worker, the default of `WorkerThreads`; an operation there is
a statement, a transaction or a holder, one step, which is `AllOrNothing` and
`OneWorkerOrder` of `DatabasePool`. A character's data is its version. The row of an
account in `realmcharacters` is replaced by one transaction when a character is created
("numchars"), and by two statements of their own when one is deleted ("dropchars", then
"numchars"), between which the process may end. `Restart` is the end of the process at any
point with `ClearOnlineAccounts`, which resets only the accounts with a row in
`realmcharacters`, and `SetHighestGuids` of the next start. `zoning` holds the accounts
whose player `TeleportTo` has taken off one map and `HandleMoveWorldportAckOpcode` has not
put on the next: `InWorld` is a session's player, `FindPlayer` one that is on a map.
`Connect` is what a network thread does: it marks the account and hands the session to the
world, or loses it in between. `HandlePlayerLoginOpcode` has three outcomes: the load is
queued, the client is kicked, or the packet is too short and skipped.

Five things the code allows are taken by the model, remembered in history variables, and
excepted in the properties they break:

- `hasty`: a second creation asked for in the middle of one. It replaces the parameter
  and the future but not the stage, although the comment at `CharacterHandler.cpp:444`
  says the chain starts again;
- `contended`: two creations of one name at a time; the check and the insertion are two
  operations;
- `raced`: a deletion of a character that is being loaded or whose player is between two
  maps;
- `stuck`: an account that is online and that nobody will mark offline: its session was
  lost before the world had it, or it had no row in `realmcharacters` at a start. The end of any later session of the account takes it out again;
- `cut`: a request for a character was too short, so that the session counts as loading
  until it ends.

### Groups

Each method of `Group` and `GroupMgr` is an operator that takes the state and gives the
state it leaves, so that a handler is one action made of the calls it makes: `Leave` is
`RemoveMember`, with `ChangeLeader` or `Disband`, with the statements they queue. A group
object exists before it is created, for the invitations; `id` is its storage identifier.
`link`, `orig` and `invite` are the three pointers of a player. `FindPlayer` sees the
players in the world, not those loading or between two maps. The new leader is any member
that can be found: the code takes the first slot, the model does not keep the order of the slots.
`faults` is history and names what the properties except:

- "own invitation": a client accepts the invitation its player got as leader of a group
  that nobody has joined; he may then be a member of two groups. When one of them is
  disbanded he loses his link and keeps his place in the other, which may then add him
  again: the code's list of slots would hold him twice, which the model's function from
  players to subgroups cannot say, so nothing is claimed of counters and tables after it.
- "self invitation": a client invites its own player. `AddInvite` refuses the leader the
  group already holds, and the group is deleted with `m_groupInvite` still pointing to it
  (`InviteSelf`, finding 5). From there the pointer is `Dangling`. The address may be
  given to the next group (`Address`), which then has an invited player that it does not
  list; or the player accepts, and the freed memory still reads as a group he leads
  (`AcceptFreed`). Any other use of the pointer frees the memory again or follows
  what has taken its place: what comes of it is an end of the process, which `Restart` is.
- "orphan row": a start that finds no group returns before it deletes the members without
  one (`GroupMgr.cpp:130`). The row left behind joins the next group with that
  identifier at the next start, or at the next login of its player, and his own next
  membership cannot be inserted.
- "stale login": the membership was read before a kick or a disbanding, and the group was
  looked up afterwards: the player has a group without a slot for him.
- "leader lost": the process ended between the statement that deletes a leader's
  membership and the one that stores the next leader.
- "no heir": the leader left while every other member was between two maps. `RemoveMember`
  then finds nobody, although its comment says "Pick new leader if necessary", and the
  group goes on with a leader who is not in it and whom nobody can replace.

## 3. Runs

| run | instance | shows |
|---|---|---|
| `map_update` | 2 threads or none, 2 base maps, 2 instances of one of them, a queue of 2, fairness | `PendingExact`, `Barrier`, `LiveTargets`, `OneUpdater`, `TickComplete`, `TickEnds` |
| `session_queue` | 3 accounts, 4 sessions, one of which may skip the queue, limits 0 and 1 changed at run time, disconnect tolerance on, fairness of the world loop | `QueueSound`, `NoStrayPlayer`, `NoIdlePlace`, `AdmitWithinLimit`, `NoOvertaking`, `ClosedIsDeleted` |
| `session_staff` | violation | finding 1 |
| `socket_out` | 2 senders, buffer of 2, mark of 4, 9 bytes, fairness | `InOrder`, `WakeupMatches`, `Flushed`, `LossOnlyAtMark` |
| `socket_loss` | violation | finding 2 |
| `socket_life` | 2 sessions, fairness | `NoUseAfterFree`, `RoutedToLiveSession`, `ClosedIsFreed` |
| `socket_log` | violation | finding 3 |
| `db_pool` | 1 or 2 workers, a synchronous connection, a transaction and a holder of two, a statement, a ping, a queue of 2, one fault, fairness | `AllOrNothing`, `ConnectionClean`, `OneWorkerOrder`, `QueriesAnswered`, `CloseEnds`, and that the pool implements `AtomicStore` (`ImplementsStore`) |
| `db_reconnect` | violation | finding 4 |
| `chars` | 2 accounts, a realm limit of 1, an account limit of 2, 4 requests, one end of the process, fairness | `OnlineAgrees`, `RealmLimit`, `NamesUnique`, `InWorldIsStored`, `LoadedIsLatest`, `RequestsEnd` |
| `groups` | 4 players, 2 groups, parties of 3 and raids of 2 subgroups, 7 requests from no group or 4 from a raid, two ends of the process | `InvitationsMatch`, `MembershipMatches`, `LeaderIsMember`, `SubGroupsCounted`, `StoredAgrees` (with `IdsAgree`) |
| `groups_self` | violation | finding 5 |

Bounds and why they are enough.

- Two pool threads and a queue of two are the least with which a request waits
  while two run and a third is refused; two instances of one map are the least
  with which one is destroyed while the other is queued.
- Two sessions per account are the least for a second login; limit one with three
  accounts makes a queue with a head and a second member, and a place that a
  leaver, a second login or a refusal frees. A third session of an account would
  again replace the one before it. With a second session of the staff account the run has
  4.6 million states and the same result.
- A buffer of two and packets of up to two bytes give partial sends of both
  stores. With a mark of four the queue holds several blocks, fills up and refuses;
  with the mark of three of `socket_loss` it is still full without its head, which is
  what finding 2 needs.
- Two workers and a synchronous connection are the least with which operations of one
  queue overtake each other and a caller runs beside them; a transaction and a holder of
  two have a fault before, between and after their parts. One fault reaches every error
  branch, each also with the transaction half done; the faults of two operations do not
  meet, since connections share only the queue.
- One stored character and a realm limit of one make a second creation the one to refuse;
  four requests are a creation in the middle of a creation with a login or a deletion
  around it, on one account or on both. One name is enough for a collision; three
  identifiers leave room for each account to create. A creation in
  the middle of a creation gives an account two characters, so that a deletion leaves one
  to count and replaces the row in `realmcharacters`, and the process may end in between.
- Parties of three make the second departure a disbanding and the first one not; four
  players are one too many for a party. Seven requests from nothing form a group, let it
  change and let one member leave, log in or zone; the longer histories of a raid start
  from one that is formed and stored. Two ends of the process are the least with
  which a row that one start leaves behind meets the next. Players are interchangeable, so
  the runs of `Groups` use their symmetry; they check no liveness.
- A second session of one socket exists only while the first is being kicked;
  there the two overlap in every way. TLC also finds the invariant of the proof
  true with three.

`MaxWritten` caps the bytes of a run, and sessions are never reused; the operations of
`DatabasePool` are handed over once; `MaxFaults`, `MaxRequests`, `MaxRaidRequests`,
`MaxVersion`, `MaxGuid`, `MaxGroups`, `MaxCrashes` and `MaxRestarts` are bounds of guards.
No state constraint is used. Deadlock is checked in the runs of the first four modules,
whose end states have a `Terminated` step; `DatabasePool`, `Characters` and `Groups` stop
when their operations or requests are used up, so there it is not, and `CloseEnds`,
`QueriesAnswered` and `RequestsEnd` say what must not stop.

## 4. Fairness

- `MapUpdater`: weak fairness of every pool thread and of the world thread once a
  tick has begun. They are operating system threads that only wait for each
  other. Nothing is assumed of what the world does between ticks, nor that
  spurious wakeups happen.
- `SessionQueue`: weak fairness of the world loop, which calls `UpdateSessions`
  until it is stopped. Nothing is assumed of clients.
- `WorldSocketOut`: weak fairness of the network thread, strong fairness of the
  reactor's report of a writable socket and of a send that takes at least a byte
  (the client keeps reading: TCP guarantees no more), and that a thread whose
  `SendPacket` failed goes on to the `CloseSocket` in the next line.
- `WorldSocketLife`: weak fairness of the acceptor, of an upcall that began and of
  the world thread's handling of sessions; strong fairness of the turns of the
  network thread between its set of sockets and the reactor, since one loop serves
  both. For the upcall this says that the reactor reports a socket that was shut
  down: the client closes its side or the connection times out.

- `DatabasePool`: weak fairness of each connection's current command (the server or the
  network gives an answer or an error), of the workers as long as the pool is open, and of
  the thread in `Close`. Nothing is assumed of callers, and no fault has to occur or to end.
- `Characters`: weak fairness of the two workers, of the world thread's callbacks, and of
  its adding and removing of sessions, all of which it does in every tick. Nothing is
  assumed of clients.
- `Groups` has safety properties only.

## 5. Findings

1. `session_staff`: `PlayerLimit` counts staff, although the configuration file
   says "Excluding Mods, GMs and Admins". One game master in the world queues an
   ordinary player of a realm for one.
2. `socket_loss`: `handle_output_queue` ignores the result of `enqueue_head` after
   `EWOULDBLOCK` (`WorldSocket.cpp:405`). When the rest of the queue is at the high
   water mark ACE refuses, the block is lost and the connection goes on; the
   client's header cipher is then out of step. The theorem `NoLossBelowMark` shows
   that this is the only way an open connection loses output.
3. `socket_log`: `ProcessIncoming` uses `m_Session` without `m_SessionLock` to log a
   packet, while the world thread clears the pointer or deletes the session. A
   comment in `World::AddSession_` admits the race; that of the lock denies it.

4. `db_reconnect`: when a connection breaks in the middle of a transaction
   `_HandleMySQLErrno` opens a new one and the statement is run again there
   (`MySQLConnection.cpp:474`), and `ExecuteTransaction` goes on. The server has rolled
   back what came before, so the rest is committed statement by statement without it.
   `AllOrNothing` and `ImplementsStore` show that this is the only way a transaction is
   in effect in part.
5. `groups_self`: a player who invites himself keeps a pointer to a deleted group
   (`GroupHandler.cpp:241`), although the code takes an invitation for that of a group
   that exists (`:199`). The first half of `InvitationsMatch`, proved as
   `InvitationsAreMutual`, shows that this is the only way to such a pointer.

The model takes further steps in which the code does not do what a comment says. Each is
recorded in a history variable that the properties except; without the exception TLC
reports a property violated.

- `HandlePlayerLoginOpcode` sets `m_playerLoading` before it reads the packet
  (`CharacterHandler.cpp:822`); one that is too short is skipped (`WorldSession.cpp:388`)
  and the flag stays (`cut`). The session loads nothing, and as long as it lives
  `AddSession_` refuses every other session of the account, "if player is in loading"
  (`World.cpp:217`). `RequestsEnd` shows that this is the only way a session is left
  loading, and that it ends with its client.
- "can't delete loaded character" says `CharacterHandler.cpp:753`, but `FindPlayer` does
  not see a player between two maps, so the character being played can be deleted
  (`raced`). `WorldIsStored` shows that this and a deletion during the load are the only
  ways a character in the world is not stored.
- A session is lost when `ReadAddonsInfo` throws (`WorldSocket.cpp:1096`): it keeps its
  socket (`Lost` of `WorldSocketLife`) and its account stays online (`stuck`).
- `ClearOnlineAccounts` looks for the accounts "with characters on the current realm"
  (`Master.cpp:484`) in `realmcharacters`, whose row is replaced by a DELETE and an INSERT
  without a transaction (`World.cpp:2780`). An account is not reset after an end of the
  process in between (`stuck`).
- "Delete all rows from group_member or group_instance with no group" says
  `GroupMgr.cpp:164`, but `LoadGroups` has returned before it if the table of groups is
  empty (`:130`): "orphan row". Without the exception `StoredAgrees` fails at once;
  `MembershipMatches` and `SubGroupsCounted` need histories longer than those of the run,
  with a second group of the same identifier, and the proofs, which have no such bound,
  need the exception there too.

## 6. Proofs

All theorems hold for every value of the constants that satisfies the named
assumptions: `UpdaterAssumption`, `QueueAssumption`, `SocketAssumption`,
`LifeAssumption`, `PoolAssumption`, `LimitsAssumption`, `GroupsAssumption` and the
`NullAssumption` of `Characters` and of `Groups`. They say
that the sets which are counted are finite, that "none" values are distinct from
others, that sizes are positive, that a single statement has size one, that a limit
of an account is at least that of a realm, that no account starts with more
characters than the realm allows, that a party has places for two, and that a raid
formed before the start fits its subgroups. None of them restricts what the code may do.

- **MapUpdaterProof.** `PendingExact` is not inductive: `Wait` may only let the
  world thread pass if nothing is pending afterwards either. The invariant adds
  `QuietPool` (the count is 0 in every phase in which the world thread works on
  maps), `InlineOnly` and `InlineQuiet` (the world thread runs maps itself only if
  there is no pool). Lemmas say how the number of busy threads changes.
  `Barrier` follows since a sum of naturals is 0 only if each is. `LiveTargets` and
  `OneUpdater` are inductive only together and with `Ahead` and `Behind` (`Tracked`):
  what a loop has still to visit is neither queued, running nor done, and an instance
  is touched only once the loop of its parent has begun. `TickComplete` needs
  `Accounted`: in a tick every map that exists has had its turn, has it now, or is
  ahead of a loop that will reach it, unless its parent's request was refused.
- **SessionQueueProof.** `QueueSound` needs that handed-over sessions are pending,
  distinct and not queued, and that the session of an account belongs to it and
  lives. The main lemma says what `RemoveQueuedPlayer` leaves in the queue; the two
  long steps are `AddSession_` and `RemoveClosedSession`. `NoStrayPlayer` adds
  `StageSound`, how far the player of a session may be in each phase of the loop.
  `NoOvertaking` rests on lemmas about `SameOrder`: taking one element out of a
  sequence without duplicates, or putting one at its end, keeps the order of the rest.
  `NoIdlePlace` and `AdmitWithinLimit` are arithmetic on the number of sessions and
  the length of the queue; `RemoveClosedCount` says how many elements
  `RemoveClosedSession` takes out and for which reason.
- **WorldSocketOutProof.** `InOrder` needs `sent <= written` and that a full queue is
  not empty, that is, that `cur_bytes` is the sum of the block sizes; the sum is
  stated through a function of partial sums, so no induction is needed.
  `WakeupMatches` is proved from an invariant that says what the flag and the mask
  are between the release of the lock and the call of the reactor.
  `NoLossBelowMark` adds the assumption that the mark is never reached.
- **WorldSocketLifeProof.** `Counted` says that `refs` is the number of holders:
  acceptor, set of sockets, reactor, upcall, sessions, the lost ones among them. It needs
  to know that a thread that gives a reference back has one (`Placed`, `Closes`).
  `RoutedToLiveSession` needs `Pointer`: while the socket is open `m_Session` is its
  only session, and once it is closed the pointer is null for the network thread
  unless `CloseSocket` still waits for the lock.
- **AtomicStoreProof.** `AllOrNothing` of the abstract store is inductive with
  `NotYet`: what was not handed over, or may still take effect, is not in effect,
  unless its connection broke.
- **DatabasePoolProof.** `Sound` says which transaction is open on the server's side
  at each command, and what it holds back: at statement k of a transaction the k - 1
  statements before it, or nothing if the connection was lost on the way. `Distinct`
  says that no operation is queued or run twice. From these every action is shown to
  be a step of `AtomicStore` or none (`StoreStep`, by the lemmas `AsSubmit`,
  `AsApply`, `AsDrop`, `AsTear`, `AsStutter`), which is `PoolImplementsStore`.
  `PoolIsAtomic` is then `StoreIsAtomic` read through the mapping, and
  `ConnectionsAreClean` a conjunct of `Sound`. `EffectsFollowTheQueue` needs
  `InSequence`: with one worker everything that has an effect, an answer or a
  connection was queued before everything that is still queued.
- **CharactersProof.** The actions are first reduced to their effects: `Did(a)` has
  one predicate for each thing a handler or callback can do to the session of `a` and
  to the two queues, `DidCharWork` and `DidLoginWork` one for each operation.
  `NextDid` shows that every step is one of them; all later proofs use the effects
  and not the actions. `Base` is the common invariant: types, `Queued` (what an
  operation in a queue looks like), `Wired` (a future waits exactly for the one queued
  operation that will fill it; `Forget` cuts the link when the future or its session
  goes) and `Paired` (the fields of a session agree). On it rest

  - `OnlineIsRight`: the last mark of an account that is queued, or the table's if
    there is none, is right for the account (`Agrees`), where an account whose session is
    on its way to the world or was lost may be marked without a session (`Due`). The
    statements that replace a row of `realmcharacters` write no mark (`OnlyWrites`);
  - `WorldIsStored`: a load that is behind no deletion finds a character that is kept
    until it is in the world (`StoredInv`), and there only a player between two maps
    escapes the test of a deletion;
  - `ComesAsItLeft`: outside the world the last save of a character that is queued, or
    else its row, has its latest version, and every awaited load is behind its saves
    (`LatestInv`). It needs `IdInv`: an identifier that is given out is new, and what an
    account was listed, loads or plays belongs to it and to no other account;
  - `LimitHolds`: the awaited query is the one of the stage the creation is in
    (`Chain`), and between the answer to the count and the insertion no character of the
    account is added (`LimitInv`);
  - `NamesAreUnique`: of a name that is not contended there is one creation at a time,
    and once it has passed the check nobody has the name (`NameInv`).

  `hasty`, `contended`, `raced` and `stuck` appear in these invariants exactly where the
  properties except them.

- **GroupsProof.** Every method of `Group` is an operator from a world (the record of
  `grp`, `link`, `orig`, `invite`, `store`, `next` and `queue`) to a world. For each there
  is a lemma that says what it changes (`AddInviteParts` ... `TakeOutRemoves`) and one that
  it leaves a well-formed world (`AddInviteWell` ... `RemoveMemberWell`); each handler has a
  step lemma that only composes these. The invariant `GroupsInv` has four parts:

  - `Well`: types; `Formed` (a group has an identifier exactly if it has members, and is a
    party until then); `Numbered` (`GroupDbStore` and the identifiers are inverse to each
    other, and `next` is the *first* free one: with "a free one" alone the next
    `GenerateNewGroupDbStoreId` could not be shown to end in a free one); `Pointed` (every
    link of a player is to a group that exists and, unless "self invitation", an invitation
    to one that lists him). That an identifier is always left is a counting argument: there is one more
    than there are group objects (`NextIdFree`, and `OneNotKept` for a restart);
  - `Invited`: whom a group lists has its invitation and is in the game, and a group
    nobody has joined lists its leader. The second half is what makes the first hold when
    the leader leaves or the last invitation is declined. Unless "own invitation";
  - `Headed`: a created group's leader has a slot, unless one of the three faults. A
    departing leader either finds an heir among the members, or the group is disbanded,
    or the fault is recorded (`DepartsLed`, `OrphanRecorded`);
  - `Rest`: the types of what no method of a group changes.

  `GroupsTypeCorrect`, `InvitationsAreMutual`, `LedByAMember` and `IdsAreUnique` (the
  conjunct `IdsAgree` of `StoredAgrees`) follow.
  None of it depends on what the tables hold: a restart rebuilds a well-formed world from
  any tables, and whether the stored leader is a member is decided when they are read.

  The other three properties do depend on the tables, and are proved from a second
  invariant on top of the first, `TablesInv`. While neither "own invitation" nor "orphan
  row" has happened (`Undisturbed`) it says `Agreed`:

  - `Consistent`: there is a *history* of the tables (`Chain`), one for each statement of
    the queue, that begins with what is stored and whose last one holds exactly what is in
    memory (`Final`). In every one of them each group has no more rows than places
    (`RowsFit`): the process may end at any of them, and the groups a restart then builds
    must fit (`StoredFits`). And a player who is loading has read, or will read at the
    place of his query in the history, the group that has a slot for him (`Awaited`):
    no group can add him meanwhile, since he is not in the world;
  - `Once`: no player has two queries in the queue, and none without waiting for it;
  - `Linked`: a member in the game points to his group, and whoever holds an invitation
    points to none. That is why `AddMember` never gives a second slot, and with it why a
    party with a free place, or a subgroup with one, stays within its size;
  - `Sized`: the counters of a raid are the sizes of its subgroups, and a party and each
    subgroup are within the limit. That a party that was a raid is within it rests on the
    check of `ConvertToGroup`.

  `Placed`, the converse of `Linked`, holds while "stale login" has not happened either.
  For every method there is a lemma that the invariant follows it (`JoinedFollows` ...
  `CreateFollows`): the history grows by the statements it queues, each of which changes
  rows in step with memory. `DatabaseWorker` drops the first table of the history
  (`HeadDone`), and a restart that keeps a group, or finds no row of a member without one,
  begins a new one at the tables it leaves (`QuietAgreed`).
  `MembershipAgrees`, `CountersAreRight` and `TablesFollow` state the three properties as
  the run checks them. `StoredAgrees` is about `Written`, a recursive function over the
  queue; `ChainUnique`, by a least counterexample, and `WrittenChain` show that it is the
  history, so no induction over the queue is needed: the history itself is carried along.

Only model-checked: the liveness properties `TickEnds`, `ClosedIsDeleted`, `Flushed`,
`ClosedIsFreed`, `QueriesAnswered`, `CloseEnds` and `RequestsEnd` (the prover has no rule
for fairness or ENABLED), and the properties of the runs that show the findings. Every safety property of a
passing run is stated by a theorem. No module declares a RECURSIVE operator.

## 7. Plan

The modules are written, and every safety property of the seven modelled components is
proved. What a further step would add:

1. guilds, whose ranks and bank tabs are stored by the pattern `GroupsProof` treats (a
   history of tables carried along the queue);
2. the order of the slots of a group, so that the next leader is the one the code takes
   and a player could have two slots in one group, and roles, which map threads change.

## 8. Not modelled

- The contents of packets, headers and their encryption; SRP6.
- `Map::Update`: combat, spells, movement, AI and scripts are rules over data tables
  and floating point with no protocol among threads.
- `WorldSocketMgr::StopNetwork`: the process ends and what the sets of sockets still
  hold is not released.
- Transports that create base maps from a map thread (see the hazards).
- The entries of `m_disconnects` never expire in the model; in the code the arguments
  of `difftime` (`World.cpp:290`) are in an order that has the same effect.
- Raising the player limit lets nobody in until somebody leaves (`cs_server.cpp:169`);
  `NoIdlePlace` excepts that step, since nothing promises otherwise.
- Trade, mail, bidding, the dungeon finder, battleground queues, renaming and customising
  characters, moving members between subgroups and naming assistants: their opcodes are
  0x0000 in the table of `Server/Protocol/Opcodes.cpp`, so no packet reaches the handlers.
- Groups: roles (changed by map threads without a lock, `Opcodes.cpp:227`), loot rolls,
  markers, instance binds, groups of battlegrounds and of the dungeon finder. Characters are
  not deleted there, so the two statements of `LoadGroups` that look for leaders and members
  who do not exist (`GroupMgr.cpp:122` and `:168`) find nothing. What a use of freed memory
  does beyond `AcceptFreed` is not followed: it counts as an end of the process.
- The count in `realmcharacters` may stay behind: the query of `UpdateRealmCharCount` has
  no row for an account without characters. The model keeps the old number, as the code
  does.
- Settings that open no pool: `SynchThreads = 0` makes `GetFreeConnection` divide by zero.
- Guilds, channels, instance saves, the auth server: sequential handlers over tables, or
  calendar time; nothing of them runs beside another thread that changes their state.
- The share of the repository the map covers is small and will stay so: of 1.35 million
  lines most are the vendored MySQL and ACE, generated tables, scripts and game rules; the
  modules cover the parts in which threads, queues and failures meet.
- Collision, logging, configuration, console, extraction tools, vendored libraries.
