----------------------------- MODULE Characters -----------------------------
(***************************************************************************)
(* The character screen and the way into the world: listing, creating,     *)
(* deleting and loading characters, saving them, and the sessions that do  *)
(* it, over the two databases they write.                                  *)
(*                                                                         *)
(* The world thread runs the packet handlers and the callbacks, one at a   *)
(* time; what a handler asks of a database is queued and answered later by *)
(* that database's worker, and the network threads construct sessions.     *)
(* Each database has one worker thread and runs its queue in order, which  *)
(* is what DatabasePool checks as OneWorkerOrder; a save, a transaction    *)
(* and a query holder are one operation here (AllOrNothing there).         *)
(*                                                                         *)
(* A character's data is its version: the number of changes made to it.    *)
(***************************************************************************)
EXTENDS Naturals, Sequences, FiniteSets, SequencesExt

CONSTANTS
    Accounts,
    Names,
    Owner,          \* Owner[g]: the account of a character stored at the start, or None
    MaxGuid,        \* bound: characters ever created
    MaxVersion,     \* bound: changes to one character
    MaxRequests,    \* bound: requests of clients and connections, all together
    MaxCrashes,     \* bound: ends of the process
    PerAccount,     \* CONFIG_CHARACTERS_PER_ACCOUNT
    PerRealm,       \* CONFIG_CHARACTERS_PER_REALM
    None,           \* NULL
    Waiting         \* a future that has no value yet

Guids == 1 .. MaxGuid

\* LoadConfigSettings raises CharactersPerAccount to CharactersPerRealm.
ASSUME LimitsAssumption ==
    /\ MaxGuid \in Nat /\ MaxVersion \in Nat /\ MaxRequests \in Nat /\ MaxCrashes \in Nat
    /\ PerRealm \in Nat \ {0} /\ PerAccount \in Nat /\ PerAccount >= PerRealm
    /\ Owner \in [Guids -> Accounts \cup {None}]
    /\ \A a \in Accounts : Cardinality({g \in Guids : Owner[g] = a}) <= PerRealm

\* A character, as the table holds it; what a query for a creation and one for a
\* character answer; a session (its fields are those of NewSession below).
Rows == [acct : Accounts, name : Names \cup Guids, ver : Nat]
Answers == [rows : BOOLEAN, num : Nat, str : Nat]
Loads == [{1} -> {None} \cup Rows]
Sessions ==
    [open : BOOLEAN, loading : BOOLEAN, player : {None} \cup Guids, legit : SUBSET Guids,
     stage : 0 .. 3, info : {None} \cup Names, count : Nat, holder : {None} \cup Guids,
     enum : {None, Waiting} \cup SUBSET Guids, create : {None, Waiting} \cup Answers,
     login : {None, Waiting} \cup Loads]

\* Neither NULL nor a future without a value is a value.
ASSUME NullAssumption ==
    /\ None # Waiting
    /\ None \notin Accounts \cup Names \cup Guids \cup Rows \cup Sessions
    /\ \A v \in {None, Waiting} : v \notin Answers /\ v \notin Loads /\ \A S \in SUBSET Guids : v # S

VARIABLES
    sess,       \* m_sessions: the session of an account, or None
    joining,    \* addSessQueue: accounts that have a new session waiting
    charQ,      \* the queue of CharacterDatabase
    loginQ,     \* the queue of LoginDatabase
    row,        \* the table characters
    realm,      \* realmcharacters.numchars, None where the row is missing
    online,     \* account.online
    counts,     \* m_realmCharCallbacks: answered character counts
    version,    \* the version of a character in memory, or the last one it had there
    zoning,     \* accounts whose player has left one map and is not yet on the next
    nextGuid,   \* _hiCharGuid
    left,       \* requests left
    crashes,
    hasty,      \* history: accounts that asked for a creation in the middle of another
    contended,  \* history: names two creations asked for at once
    raced,      \* history: characters deleted while loaded or between two maps
    stuck,      \* history: accounts marked online by nobody who will take it back
    cut         \* history: accounts whose session had a request for a character cut short

database == <<row, realm, online>>
history == <<hasty, contended, raced, stuck, cut>>
vars == <<sess, joining, charQ, loginQ, row, realm, online, counts, version, zoning, nextGuid,
          left, crashes, hasty, contended, raced, stuck, cut>>

\* One queued operation: on account a and character g, with a value n; "to" is
\* the future that its answer fills.
Op(op, a, g, n, to) == [op |-> op, a |-> a, g |-> g, n |-> n, to |-> to]

Nobody == <<None, "none">>

\* A session as the constructor leaves it. info is the CharacterCreateInfo: the
\* name asked for, and CharCount; holder is the character being loaded.
NewSession == [open |-> TRUE, loading |-> FALSE, player |-> None, legit |-> {},
               stage |-> 0, info |-> None, count |-> 0, holder |-> None,
               enum |-> None, create |-> None, login |-> None]

Row(a, n) == [acct |-> a, name |-> n, ver |-> 0]

\* Every account is at its character screen and has its list, and its row in
\* realmcharacters; the characters of the start have no name that a client asks
\* for.
Init ==
    /\ sess = [a \in Accounts |-> [NewSession EXCEPT !.legit = {g \in Guids : Owner[g] = a}]]
    /\ joining = {}
    /\ charQ = <<>> /\ loginQ = <<>>
    /\ row = [g \in Guids |-> IF Owner[g] = None THEN None ELSE Row(Owner[g], g)]
    /\ realm = [a \in Accounts |-> Cardinality({g \in Guids : Owner[g] = a})]
    /\ online = [a \in Accounts |-> TRUE]
    /\ counts = <<>>
    /\ version = [g \in Guids |-> 0]
    /\ zoning = {}
    /\ nextGuid = Max({0} \cup {g \in Guids : Owner[g] # None}) + 1
    /\ left = MaxRequests
    /\ crashes = 0
    /\ hasty = {} /\ contended = {} /\ raced = {} /\ stuck = {} /\ cut = {}

-----------------------------------------------------------------------------
(***************************************************************************)
(* The two databases.                                                      *)
(***************************************************************************)
OfAccount(a) == {g \in Guids : row[g] # None /\ row[g].acct = a}

\* What an operation of CharacterDatabase does to the table. characters.online,
\* which "online" and "offline" write and a save too, is read by nobody here.
RowAfter(o) ==
    CASE o.op = "insert" -> [row EXCEPT ![o.g] = Row(o.a, o.n)]
      [] o.op = "save"   -> [row EXCEPT ![o.g] = IF @ = None THEN None ELSE [@ EXCEPT !.ver = o.n]]
      [] o.op = "delete" -> [row EXCEPT ![o.g] = None]
      [] OTHER -> row

\* An answer to a creation: is there a row, and what its first field gives when
\* it is read as a number and when it is read as a string and converted. A
\* number of the binary protocol, read as a string, converts to 0.
Answer(rows, num, str) == [rows |-> rows, num |-> num, str |-> str]

\* What it answers: the characters of an account, an answer to a creation, the
\* row of a character.
CharAnswer(o) ==
    CASE o.op = "enum"  -> OfAccount(o.a)
      [] o.op = "name"  -> Answer(\E g \in Guids : row[g] # None /\ row[g].name = o.n, 1, 0)
      [] o.op = "count" -> Answer(TRUE, Cardinality(OfAccount(o.a)), 0)
      [] o.op = "info"  -> Answer(OfAccount(o.a) # {}, 0, 0)
      [] o.op = "load"  -> <<row[o.g]>>
      [] OTHER -> None

Fill(o, v) ==
    IF o.to = Nobody THEN sess ELSE [sess EXCEPT ![o.to[1]][o.to[2]] = v]

CharWorker ==
    /\ charQ # <<>>
    /\ LET o == Head(charQ)
       IN  /\ row' = RowAfter(o)
           /\ sess' = Fill(o, CharAnswer(o))
           /\ counts' = IF o.op = "total" THEN Append(counts, [a |-> o.a, n |-> Cardinality(OfAccount(o.a))])
                        ELSE counts
    /\ charQ' = Tail(charQ)
    /\ UNCHANGED <<joining, loginQ, realm, online, version, zoning, nextGuid, left, crashes, history>>

\* What an operation of LoginDatabase does to realmcharacters.
RealmAfter(o) ==
    CASE o.op = "dropchars" -> [realm EXCEPT ![o.a] = None]
      [] o.op = "numchars"  -> [realm EXCEPT ![o.a] = o.n]
      [] OTHER -> realm

\* The sum is over one realm's row, and over none it is NULL and converts to 0.
LoginWorker ==
    /\ loginQ # <<>>
    /\ LET o == Head(loginQ)
       IN  /\ realm' = RealmAfter(o)
           /\ online' = IF o.op = "online" THEN [online EXCEPT ![o.a] = o.n] ELSE online
           /\ sess' = Fill(o, Answer(TRUE, 0, IF realm[o.a] = None THEN 0 ELSE realm[o.a]))
    /\ loginQ' = Tail(loginQ)
    /\ UNCHANGED <<joining, charQ, row, counts, version, zoning, nextGuid, left, crashes, history>>

\* A future that is assigned again, or destroyed, is filled for nobody.
Forget(q, dead) == [i \in DOMAIN q |-> IF q[i].to \in dead THEN [q[i] EXCEPT !.to = Nobody] ELSE q[i]]

Ask(q, o) == Append(Forget(q, {o.to}), o)

-----------------------------------------------------------------------------
(***************************************************************************)
(* Sessions.                                                               *)
(***************************************************************************)
Request == left > 0 /\ left' = left - 1

Active(a) == sess[a] # None /\ sess[a].open

\* Mutant: LogoutPlayer(false): the character is not saved.
LogoutOps_NotSaved(a) ==
    IF sess[a].player = None THEN <<>> ELSE <<Op("offline", a, None, None, Nobody)>>

\* WorldSession::LogoutPlayer(true): what it queues.
LogoutOps(a) ==
    IF sess[a].player = None THEN <<>>
    ELSE <<Op("save", a, sess[a].player, version[sess[a].player], Nobody),
           Op("offline", a, None, None, Nobody)>>

\* A network thread constructs the session, and the account is online, before it
\* has read the rest of the request. When that fails, the session is neither
\* handed to the world nor deleted, and nobody takes the mark back.
Connect(a) ==
    /\ Request
    /\ a \notin joining
    /\ loginQ' = Append(loginQ, Op("online", a, None, TRUE, Nobody))
    /\ \/ joining' = joining \cup {a} /\ UNCHANGED stuck
       \/ stuck' = stuck \cup {a} /\ UNCHANGED joining
    /\ UNCHANGED <<sess, charQ, database, counts, version, zoning, nextGuid, crashes,
                   hasty, contended, raced, cut>>

Futures(a) == {<<a, "enum">>, <<a, "create">>, <<a, "login">>}

\* ~WorldSession: the player is logged out (a journey between two maps is ended
\* first), the account is offline.
DeleteSession(a) ==
    /\ zoning' = zoning \ {a}
    /\ charQ' = Forget(charQ, Futures(a)) \o LogoutOps(a)
    /\ loginQ' = Append(Forget(loginQ, Futures(a)), Op("online", a, None, FALSE, Nobody))

\* AddSession_: an account that is loading a character keeps its session, any
\* other older session is deleted first.
AddSession(a) ==
    /\ a \in joining
    /\ joining' = joining \ {a}
    /\ IF sess[a] # None /\ sess[a].loading
       THEN /\ loginQ' = Append(loginQ, Op("online", a, None, FALSE, Nobody))
            /\ UNCHANGED <<sess, charQ, zoning>>
       ELSE /\ sess' = [sess EXCEPT ![a] = NewSession]
            /\ IF sess[a] = None THEN UNCHANGED <<charQ, loginQ, zoning>> ELSE DeleteSession(a)
    /\ UNCHANGED <<database, counts, version, nextGuid, left, crashes, history>>

\* The client goes away, or is kicked for a reason of the world's own.
Disconnect(a) ==
    /\ Request
    /\ Active(a)
    /\ sess' = [sess EXCEPT ![a].open = FALSE]
    /\ UNCHANGED <<joining, charQ, loginQ, database, counts, version, zoning, nextGuid, crashes, history>>

\* Update returns false, and UpdateSessions deletes the session.
RemoveSession(a) ==
    /\ sess[a] # None /\ ~sess[a].open
    /\ DeleteSession(a)
    /\ sess' = [sess EXCEPT ![a] = None]
    /\ stuck' = stuck \ {a} /\ cut' = cut \ {a}
    /\ UNCHANGED <<joining, database, counts, version, nextGuid, left, crashes, hasty, contended, raced>>

\* HandleLogoutRequestOpcode at an inn, or the end of its twenty seconds. A
\* journey between two maps is ended first.
LogoutPlayer(a) ==
    /\ Request
    /\ Active(a) /\ sess[a].player # None
    /\ charQ' = charQ \o LogoutOps(a)
    /\ sess' = [sess EXCEPT ![a].player = None]
    /\ zoning' = zoning \ {a}
    /\ UNCHANGED <<joining, loginQ, database, counts, version, nextGuid, crashes, history>>

\* TeleportTo another map takes the player from his map and sends the client the
\* new one; HandleMoveWorldportAckOpcode puts him there when the client has it.
Zone(a) ==
    /\ Request
    /\ sess[a] # None /\ sess[a].player # None /\ a \notin zoning
    /\ zoning' = zoning \cup {a}
    /\ UNCHANGED <<sess, joining, charQ, loginQ, database, counts, version, nextGuid, crashes, history>>

Arrive(a) ==
    /\ Active(a) /\ a \in zoning
    /\ zoning' = zoning \ {a}
    /\ UNCHANGED <<sess, joining, charQ, loginQ, database, counts, version, nextGuid, left, crashes, history>>

\* The game changes a character that is in the world.
Play(a) ==
    /\ sess[a] # None /\ sess[a].player # None
    /\ version[sess[a].player] < MaxVersion
    /\ version' = [version EXCEPT ![sess[a].player] = @ + 1]
    /\ UNCHANGED <<sess, joining, charQ, loginQ, database, counts, zoning, nextGuid, left, crashes, history>>

\* Player::Update, which the player's map calls, saves when m_nextSave has run
\* out.
AutoSave(a) ==
    /\ Request
    /\ sess[a] # None /\ sess[a].player # None /\ a \notin zoning
    /\ charQ' = Append(charQ, Op("save", a, sess[a].player, version[sess[a].player], Nobody))
    /\ UNCHANGED <<sess, joining, loginQ, database, counts, version, zoning, nextGuid, crashes, history>>

-----------------------------------------------------------------------------
(***************************************************************************)
(* The list of characters.                                                 *)
(***************************************************************************)
HandleCharEnumOpcode(a) ==
    /\ Request
    /\ Active(a)
    /\ charQ' = Ask(charQ, Op("enum", a, None, None, <<a, "enum">>))
    /\ sess' = [sess EXCEPT ![a].enum = Waiting]
    /\ UNCHANGED <<joining, loginQ, database, counts, version, zoning, nextGuid, crashes, history>>

Ready(f) == f \notin {None, Waiting}

\* An account without characters gets an empty list and keeps the older
\* _legitCharacters.
HandleCharEnum(a) ==
    /\ sess[a] # None /\ Ready(sess[a].enum)
    /\ sess' = [sess EXCEPT ![a].enum = None,
                            ![a].legit = IF sess[a].enum = {} THEN @ ELSE sess[a].enum]
    /\ UNCHANGED <<joining, charQ, loginQ, database, counts, version, zoning, nextGuid, left, crashes, history>>

-----------------------------------------------------------------------------
(***************************************************************************)
(* Creation: a chain of callbacks.                                         *)
(***************************************************************************)
\* Somebody else is creating a character of this name.
BeingCreated(n) ==
    \/ \E a \in Accounts : sess[a] # None /\ sess[a].info = n
    \/ \E i \in DOMAIN charQ : charQ[i].op = "insert" /\ charQ[i].n = n

\* The request replaces the parameter and the future of an earlier one, not the
\* stage.
HandleCharCreateOpcode(a, n) ==
    /\ Request
    /\ Active(a)
    /\ sess' = [sess EXCEPT ![a].info = n, ![a].count = 0, ![a].create = Waiting]
    /\ charQ' = Ask(charQ, Op("name", a, None, n, <<a, "create">>))
    /\ loginQ' = Forget(loginQ, {<<a, "create">>})
    /\ hasty' = IF sess[a].stage # 0 THEN hasty \cup {a} ELSE hasty
    /\ contended' = IF BeingCreated(n) THEN contended \cup {n} ELSE contended
    /\ UNCHANGED <<joining, database, counts, version, zoning, nextGuid, crashes, raced, stuck, cut>>

\* _charCreateCallback.Reset(), after the answer to the client.
Reset(s) == [s EXCEPT !.info = None, !.count = 0, !.create = None, !.stage = 0]

\* The callback in stage i sees result r.
InStage(a, i) == sess[a] # None /\ Ready(sess[a].create) /\ sess[a].stage = i

\* The creation is refused.
EndCreate(a) ==
    /\ sess' = [sess EXCEPT ![a] = Reset(@)]
    /\ UNCHANGED <<charQ, loginQ, nextGuid>>

NextStage(a, i, count) ==
    sess' = [sess EXCEPT ![a].stage = i, ![a].create = Waiting, ![a].count = count]

\* Mutant: a name that is in use does not stop the chain.
CreateStage0_AnyName(a) ==
    /\ InStage(a, 0)
    /\ loginQ' = Ask(loginQ, Op("sum", a, None, None, <<a, "create">>))
    /\ NextStage(a, 1, 0)
    /\ UNCHANGED <<joining, charQ, nextGuid, database, counts, version, zoning, left, crashes, history>>

\* case 0: the name is in use, or the characters of the account are counted.
CreateStage0(a) ==
    /\ InStage(a, 0)
    /\ IF sess[a].create.rows
       THEN EndCreate(a)
       ELSE /\ loginQ' = Ask(loginQ, Op("sum", a, None, None, <<a, "create">>))
            /\ NextStage(a, 1, 0)
            /\ UNCHANGED <<charQ, nextGuid>>
    /\ UNCHANGED <<joining, database, counts, version, zoning, left, crashes, history>>

\* case 1: the sum over the realms, a decimal, is read as a string. A request
\* that came in this stage has the answer of its name check read here.
CreateStage1(a) ==
    /\ InStage(a, 1)
    /\ IF sess[a].create.rows /\ sess[a].create.str >= PerAccount
       THEN EndCreate(a)
       ELSE /\ charQ' = Ask(charQ, Op("count", a, None, None, <<a, "create">>))
            /\ NextStage(a, 2, 0)
            /\ UNCHANGED <<loginQ, nextGuid>>
    /\ UNCHANGED <<joining, database, counts, version, zoning, left, crashes, history>>

\* case 3, the last: the answer about the other characters may refuse the class
\* or the side; Player::Create may fail after the identifier is taken (it does
\* when the bound is reached); else the character is saved and the realm's count
\* replaced.
Create(a, count, asked) ==
    \/ /\ asked
       /\ EndCreate(a)
    \/ /\ nextGuid' = IF nextGuid \in Guids THEN nextGuid + 1 ELSE nextGuid
       /\ sess' = [sess EXCEPT ![a] = Reset(@)]
       /\ UNCHANGED <<charQ, loginQ>>
    \/ /\ nextGuid \in Guids
       /\ nextGuid' = nextGuid + 1
       /\ sess' = [sess EXCEPT ![a] = Reset(@)]
       /\ charQ' = Append(charQ, Op("insert", a, nextGuid, sess[a].info, Nobody))
       /\ loginQ' = Append(loginQ, Op("numchars", a, None, count + 1, Nobody))

CreateStage3(a) ==
    /\ InStage(a, 3)
    /\ Create(a, sess[a].count, TRUE)
    /\ UNCHANGED <<joining, database, counts, version, zoning, left, crashes, history>>

\* Mutant: one character too many.
CreateStage2_OffByOne(a) ==
    /\ InStage(a, 2)
    /\ LET count == IF sess[a].create.rows THEN sess[a].create.num ELSE 0
       IN  \/ /\ count > PerRealm
              /\ EndCreate(a)
           \/ /\ count <= PerRealm
              /\ charQ' = Ask(charQ, Op("info", a, None, None, <<a, "create">>))
              /\ NextStage(a, 3, count)
              /\ UNCHANGED <<loginQ, nextGuid>>
           \/ /\ count <= PerRealm
              /\ Create(a, count, FALSE)
    /\ UNCHANGED <<joining, database, counts, version, zoning, left, crashes, history>>

\* case 2: the characters of the realm are counted; the last stage asks about
\* the other characters when the class, the realm's type or the settings call
\* for it, and follows at once when they do not.
CreateStage2(a) ==
    /\ InStage(a, 2)
    /\ LET count == IF sess[a].create.rows THEN sess[a].create.num ELSE 0
       IN  \/ /\ count >= PerRealm
              /\ EndCreate(a)
           \/ /\ count < PerRealm
              /\ charQ' = Ask(charQ, Op("info", a, None, None, <<a, "create">>))
              /\ NextStage(a, 3, count)
              /\ UNCHANGED <<loginQ, nextGuid>>
           \/ /\ count < PerRealm
              /\ Create(a, count, FALSE)
    /\ UNCHANGED <<joining, database, counts, version, zoning, left, crashes, history>>

HandleCharCreateCallback(a) ==
    CreateStage0(a) \/ CreateStage1(a) \/ CreateStage2(a) \/ CreateStage3(a)

-----------------------------------------------------------------------------
(***************************************************************************)
(* Deletion.                                                               *)
(***************************************************************************)
InWorld(g) == \E a \in Accounts : sess[a] # None /\ sess[a].player = g

BeingLoaded(g) == \E a \in Accounts : sess[a] # None /\ sess[a].loading /\ sess[a].holder = g

\* A player who has left one map and is not yet on the next, and ObjectAccessor's
\* FindPlayer, which finds a player who is on a map.
BetweenMaps(g) == \E a \in zoning : sess[a] # None /\ sess[a].player = g

FindPlayer(g) == \E a \in Accounts \ zoning : sess[a] # None /\ sess[a].player = g

\* Mutant: a character that is in the world can be deleted.
HandleCharDeleteOpcode_Loaded(a, g) ==
    /\ Request
    /\ Active(a)
    /\ g \in OfAccount(a)
    /\ charQ' = charQ \o <<Op("delete", a, g, None, Nobody), Op("total", a, None, None, Nobody)>>
    /\ raced' = IF BeingLoaded(g) \/ BetweenMaps(g) THEN raced \cup {g} ELSE raced
    /\ UNCHANGED <<sess, joining, loginQ, database, counts, version, zoning, nextGuid, crashes,
                   hasty, contended, stuck, cut>>

\* The owner is read on a synchronous connection, beside the queue; the deletion
\* and the new count are queued.
HandleCharDeleteOpcode(a, g) ==
    /\ Request
    /\ Active(a)
    /\ ~FindPlayer(g)
    /\ g \in OfAccount(a)
    /\ charQ' = charQ \o <<Op("delete", a, g, None, Nobody), Op("total", a, None, None, Nobody)>>
    /\ raced' = IF BeingLoaded(g) \/ BetweenMaps(g) THEN raced \cup {g} ELSE raced
    /\ UNCHANGED <<sess, joining, loginQ, database, counts, version, zoning, nextGuid, crashes,
                   hasty, contended, stuck, cut>>

\* _UpdateRealmCharCount: a query that groups by account has no row for an
\* account that has no character. The old row is deleted and the new one inserted
\* by two statements that no transaction holds together.
UpdateRealmCharCount ==
    /\ counts # <<>>
    /\ counts' = Tail(counts)
    /\ LET c == Head(counts)
       IN  loginQ' = IF c.n = 0 THEN loginQ
                     ELSE loginQ \o <<Op("dropchars", c.a, None, None, Nobody),
                                      Op("numchars", c.a, None, c.n, Nobody)>>
    /\ UNCHANGED <<sess, joining, charQ, database, version, zoning, nextGuid, left, crashes, history>>

-----------------------------------------------------------------------------
(***************************************************************************)
(* Entering the world.                                                     *)
(***************************************************************************)
\* m_playerLoading is set before the request is read. It stays set when the
\* client is kicked for a character that is not its own, and when the request is
\* too short: that is an exception, which Update catches and skips.
HandlePlayerLoginOpcode(a, g) ==
    /\ Request
    /\ Active(a)
    /\ ~sess[a].loading /\ sess[a].player = None
    /\ \/ /\ g \in sess[a].legit
          /\ charQ' = Ask(charQ, Op("load", a, g, None, <<a, "login">>))
          /\ sess' = [sess EXCEPT ![a].loading = TRUE, ![a].holder = g, ![a].login = Waiting]
          /\ UNCHANGED cut
       \/ /\ g \notin sess[a].legit
          /\ sess' = [sess EXCEPT ![a].loading = TRUE, ![a].open = FALSE]
          /\ UNCHANGED <<charQ, cut>>
       \/ /\ sess' = [sess EXCEPT ![a].loading = TRUE]
          /\ cut' = cut \cup {a}
          /\ UNCHANGED charQ
    /\ UNCHANGED <<joining, loginQ, database, counts, version, zoning, nextGuid, crashes,
                   hasty, contended, raced, stuck>>

\* LoadFromDB: the row is there and the account is the session's.
Loaded(a) == sess[a].login[1] # None /\ sess[a].login[1].acct = a

\* Mutant: a character that comes in is still being loaded.
HandlePlayerLogin_StillLoading(a) ==
    /\ sess[a] # None /\ Ready(sess[a].login)
    /\ LET g == sess[a].holder
           s == [sess[a] EXCEPT !.holder = None, !.login = None]
       IN  IF Loaded(a)
           THEN /\ sess' = [sess EXCEPT ![a] = [s EXCEPT !.player = g]]
                /\ version' = [version EXCEPT ![g] = sess[a].login[1].ver]
                /\ charQ' = Append(charQ, Op("online", a, g, None, Nobody))
                /\ loginQ' = Append(loginQ, Op("online", a, None, TRUE, Nobody))
           ELSE /\ sess' = [sess EXCEPT ![a] = [s EXCEPT !.open = FALSE]]
                /\ UNCHANGED <<version, charQ, loginQ>>
    /\ UNCHANGED <<joining, database, counts, zoning, nextGuid, left, crashes, history>>

\* Mutant: the account is not marked again when a character comes in.
HandlePlayerLogin_NoMark(a) ==
    /\ sess[a] # None /\ Ready(sess[a].login)
    /\ LET g == sess[a].holder
           s == [sess[a] EXCEPT !.loading = FALSE, !.holder = None, !.login = None]
       IN  IF Loaded(a)
           THEN /\ sess' = [sess EXCEPT ![a] = [s EXCEPT !.player = g]]
                /\ version' = [version EXCEPT ![g] = sess[a].login[1].ver]
                /\ charQ' = Append(charQ, Op("online", a, g, None, Nobody))
                /\ UNCHANGED loginQ
           ELSE /\ sess' = [sess EXCEPT ![a] = [s EXCEPT !.open = FALSE]]
                /\ UNCHANGED <<version, charQ, loginQ>>
    /\ UNCHANGED <<joining, database, counts, zoning, nextGuid, left, crashes, history>>

HandlePlayerLogin(a) ==
    /\ sess[a] # None /\ Ready(sess[a].login)
    /\ LET g == sess[a].holder
           s == [sess[a] EXCEPT !.loading = FALSE, !.holder = None, !.login = None]
       IN  IF Loaded(a)
           THEN /\ sess' = [sess EXCEPT ![a] = [s EXCEPT !.player = g]]
                /\ version' = [version EXCEPT ![g] = sess[a].login[1].ver]
                /\ charQ' = Append(charQ, Op("online", a, g, None, Nobody))
                /\ loginQ' = Append(loginQ, Op("online", a, None, TRUE, Nobody))
           ELSE /\ sess' = [sess EXCEPT ![a] = [s EXCEPT !.open = FALSE]]
                /\ UNCHANGED <<version, charQ, loginQ>>
    /\ UNCHANGED <<joining, database, counts, zoning, nextGuid, left, crashes, history>>

-----------------------------------------------------------------------------
\* The process ends and starts again: what was queued is lost, the accounts with a
\* row in realmcharacters are offline and the identifiers go on from the largest
\* one stored.
Restart ==
    /\ crashes < MaxCrashes
    /\ crashes' = crashes + 1
    /\ sess' = [a \in Accounts |-> None]
    /\ joining' = {}
    /\ charQ' = <<>> /\ loginQ' = <<>> /\ counts' = <<>>
    /\ online' = [a \in Accounts |-> realm[a] = None /\ online[a]]
    /\ version' = [g \in Guids |-> IF row[g] = None THEN 0 ELSE row[g].ver]
    /\ zoning' = {}
    /\ nextGuid' = Max({0} \cup {g \in Guids : row[g] # None}) + 1
    /\ stuck' = {a \in Accounts : realm[a] = None /\ online[a]} /\ cut' = {}
    /\ UNCHANGED <<row, realm, left, hasty, contended, raced>>

Next ==
    \/ CharWorker \/ LoginWorker \/ UpdateRealmCharCount \/ Restart
    \/ \E a \in Accounts :
          \/ Connect(a) \/ AddSession(a) \/ Disconnect(a) \/ RemoveSession(a)
          \/ LogoutPlayer(a) \/ Play(a) \/ AutoSave(a) \/ Zone(a) \/ Arrive(a)
          \/ HandleCharEnumOpcode(a) \/ HandleCharEnum(a) \/ HandleCharCreateCallback(a)
          \/ HandlePlayerLogin(a)
          \/ \E n \in Names : HandleCharCreateOpcode(a, n)
          \/ \E g \in Guids : HandleCharDeleteOpcode(a, g) \/ HandlePlayerLoginOpcode(a, g)

\* The workers run as long as there is work, and the world thread updates every
\* session and looks at its futures in every round.
Fairness ==
    /\ WF_vars(CharWorker) /\ WF_vars(LoginWorker) /\ WF_vars(UpdateRealmCharCount)
    /\ \A a \in Accounts :
          /\ WF_vars(AddSession(a)) /\ WF_vars(RemoveSession(a))
          /\ WF_vars(HandleCharEnum(a)) /\ WF_vars(HandleCharCreateCallback(a))
          /\ WF_vars(HandlePlayerLogin(a))

Spec == Init /\ [][Next]_vars

FairSpec == Spec /\ Fairness

-----------------------------------------------------------------------------
(***************************************************************************)
(* Properties.                                                             *)
(***************************************************************************)
\* Every part of the state has its type (WorldSession.h 986, Callback.h 19-97).
TypeOK ==
    /\ sess \in [Accounts -> {None} \cup Sessions]
    /\ joining \subseteq Accounts
    /\ row \in [Guids -> {None} \cup Rows]
    /\ realm \in [Accounts -> {None} \cup Nat]
    /\ online \in [Accounts -> BOOLEAN]
    /\ counts \in Seq([a : Accounts, n : Nat])
    /\ version \in [Guids -> Nat]
    /\ zoning \subseteq Accounts
    /\ nextGuid \in Nat \ {0}
    /\ left \in Nat /\ crashes \in Nat
    /\ hasty \subseteq Accounts /\ contended \subseteq Names /\ raced \subseteq Guids
    /\ stuck \subseteq Accounts /\ cut \subseteq Accounts

\* The last value written to account.online, queued or stored.
LastOnline(a) ==
    LET writes == {i \in DOMAIN loginQ : loginQ[i].op = "online" /\ loginQ[i].a = a}
    IN  IF writes = {} THEN online[a] ELSE loginQ[Max(writes)].n

\* account.online ends up true for an account that has a character in the world,
\* and false for one without a session, however the writes of the network thread
\* that builds a session and of the world thread that deletes the older one of
\* the account are ordered (WorldSession.cpp 114 and 153). The account stays online
\* in two cases only: a session was built and never handed over, since when no
\* other of the account has ended (WorldSocket.cpp 850 and 1096), or the process
\* ended when the account had no row in realmcharacters (Master.cpp 485).
OnlineAgrees ==
    \A a \in Accounts :
        /\ sess[a] # None /\ sess[a].player # None => LastOnline(a)
        /\ sess[a] = None /\ a \notin joining \cup stuck => ~LastOnline(a)

\* The characters of an account, the ones about to be stored included.
Characters(a) ==
    OfAccount(a) \cup {charQ[i].g : i \in {j \in DOMAIN charQ : charQ[j].op = "insert" /\ charQ[j].a = a}}

\* CharactersPerRealm holds through creations, deletions and relogins at any
\* time, for an account that does not ask for a creation in the middle of another
\* one (HandleCharCreateCallback, stage 2).
RealmLimit == \A a \in Accounts \ hasty : Cardinality(Characters(a)) <= PerRealm

\* Two characters have one name only when their creations overlapped, or were
\* asked for in the middle of another (HandleCharCreateCallback, stage 0: the
\* check and the insertion are two operations and the column is not unique).
NamesUnique ==
    \A g, h \in Guids :
        row[g] # None /\ row[h] # None /\ g # h /\ row[g].name = row[h].name =>
            \/ row[g].name \in contended
            \/ {row[g].acct, row[h].acct} \cap hasty # {}

\* A character in the world is stored and nobody has asked for its deletion,
\* unless that came while it was being loaded or was between two maps
\* (HandleCharDeleteOpcode looks for a player on a map only).
InWorldIsStored ==
    \A g \in Guids \ raced : InWorld(g) =>
        /\ row[g] # None
        /\ \A i \in DOMAIN charQ : charQ[i].g = g => charQ[i].op # "delete"

\* A character comes into the world as it last was there: no relogin, logout,
\* kick or replaced session lets it be loaded from before its last save
\* (HandlePlayerLogin, LogoutPlayer, AddSession_).
LoadedIsLatest ==
    [][\A a \in Accounts :
          /\ sess'[a] # None /\ sess'[a].player # None
          /\ sess[a] = None \/ sess[a].player = None
          => version'[sess'[a].player] = version[sess'[a].player]]_vars

\* No session is left with a character being loaded, which would refuse every
\* new session of its account, or with a request that is never answered: once
\* the clients stop asking, every chain of callbacks has come to its end
\* (HandlePlayerLoginOpcode, HandleCharCreateCallback, ProcessQueryCallbacks).
\* Left out is a session whose own request for a character was cut short, as long
\* as its client stays.
Settled ==
    \A a \in Accounts : sess[a] # None =>
        /\ sess[a].loading => a \in cut /\ sess[a].open
        /\ sess[a].info = None /\ sess[a].stage = 0
        /\ sess[a].enum = None

RequestsEnd == []<>Settled
=============================================================================
