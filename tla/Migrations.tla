----------------------------- MODULE Migrations -----------------------------
(***************************************************************************)
(* server/migrations.go: the KV store migrations, run by OnActivate and    *)
(* again by "/matrix migrate", which resets the version first.  Version 1  *)
(* adds the reverse user and room mappings, version 2 moves the legacy DM  *)
(* mappings to the unified prefixes and deletes them.                      *)
(*                                                                         *)
(* Every loop lists the keys of a prefix page by page and visits them in   *)
(* order.  The page is one of ALL keys of the plugin, of which those       *)
(* without the prefix are dropped afterwards (pluginapi, WithPrefix); the  *)
(* loop takes a page that is not full for the last.  An error on a key is  *)
(* logged and skipped, an error of a listing or of the version write ends  *)
(* the run.  The plugin process may die between any two writes.            *)
(*                                                                         *)
(* The store is a record of functions, one per key prefix; keys of a       *)
(* prefix are numbers in the store's key order.  A run has the plugin to   *)
(* itself: commands and events that write keys meanwhile are not modelled. *)
(***************************************************************************)
EXTENDS Integers, FiniteSets, FiniteSetsExt

CONSTANTS
    MatrixUser, User,      \* keys of matrix_user_ and mattermost_user_
    Channel,               \* keys of channel_mapping_ and dm_mapping_
    RoomID, Alias,         \* room identifiers, the keys of room_mapping_
    RoomOf,                \* RoomOf[a]: the room ID the homeserver gives for a
    BatchSize,             \* MigrationBatchSize (1000)
    LegacyStores,          \* the stores a run may find
    OtherKeys,             \* how many keys of other kinds (ghosts, teams, events,
                           \* the version) may be listed before those of each loop
    MaxRun, MaxFault       \* bounds: runs begun, failed calls and crashes

None == 0
Room == RoomID \cup Alias

ASSUME MigrationsAssumption ==
    /\ MatrixUser \subseteq Nat \ {None} /\ User \subseteq Nat \ {None}
    /\ Channel \subseteq Nat \ {None} /\ Room \subseteq Nat \ {None}
    /\ IsFiniteSet(Channel) /\ IsFiniteSet(RoomID)
    /\ RoomID \cap Alias = {}
    /\ RoomOf \in [Alias -> RoomID]
    /\ BatchSize \in Nat \ {0} /\ MaxRun \in Nat /\ MaxFault \in Nat

Phase == {"users", "channels", "dms", "matrixDms"}

ASSUME OtherKeysAssumption == OtherKeys \subseteq [Phase -> Nat]

Store == [matrixUser : [MatrixUser -> User \cup {None}],
          user       : [User -> MatrixUser \cup {None}],
          channel    : [Channel -> Room \cup {None}],
          room       : [Room -> Channel \cup {None}],
          dm         : [Channel -> RoomID \cup {None}],
          matrixDm   : [RoomID -> Channel \cup {None}]]

ASSUME LegacyStoresAssumption == LegacyStores \subseteq Store

VARIABLES
    kv,        \* the mappings in the store
    others,    \* how many other keys are listed before those of each loop
    version,   \* kv_store_version
    phase,     \* the loop the run is in, "version" after the last, or "idle"
    step,      \* "list", or the next call for the current key
    page,      \* the loop's page
    batch,     \* keys of the page not visited yet; the least is current
    lastPage,  \* fewer keys than BatchSize were listed
    original,  \* history: the store before the first run
    faults,    \* history: failed calls and crashes so far
    clean,     \* history: no call of this run has failed, and it began at 0
    promise,   \* history: the keys that were within reach of the run's loops
    runs       \* history: runs begun

runVars == <<phase, step, page, batch, lastPage>>
\* What a run leaves alone once it has begun.
given == <<others, original, promise, runs>>
vars == <<kv, version, runVars, given, faults, clean>>

TypeOK == /\ kv \in Store
          /\ version \in 0..2
          /\ phase \in Phase \cup {"version", "idle"}
          /\ step \in {"list", "first", "second", "delete"}
          /\ page \in Nat
          /\ batch \subseteq MatrixUser \cup Channel \cup RoomID
          /\ lastPage \in BOOLEAN
          /\ others \in [Phase -> Nat]
          /\ original \in Store
          /\ promise \in [Phase -> SUBSET (MatrixUser \cup Channel \cup RoomID)]
          /\ faults \in 0..MaxFault
          /\ clean \in BOOLEAN
          /\ runs \in 0..MaxRun

Init == /\ kv \in LegacyStores
        /\ version \in 0..1
        /\ phase = "idle" /\ step = "list" /\ page = 0 /\ batch = {}
        /\ lastPage = FALSE
        /\ others \in OtherKeys
        /\ original = kv
        /\ promise = [p \in Phase |-> {}]
        /\ faults = 0 /\ clean = FALSE /\ runs = 0

-----------------------------------------------------------------------------
Keys(f) == {k \in DOMAIN f : f[k] # None}

\* The keys with the prefix of the phase's loop.
PhaseKeys(p) == CASE p = "users"     -> Keys(kv.matrixUser)
                  [] p = "channels"  -> Keys(kv.channel)
                  [] p = "dms"       -> Keys(kv.dm)
                  [] p = "matrixDms" -> Keys(kv.matrixDm)

\* How many keys the store lists before those of the loop: its order is
\* channel_mapping_, dm_mapping_, matrix_dm_mapping_, matrix_user_; the reverse
\* mappings, mattermost_user_ and room_mapping_, come after them all.
Before(p) == LET count(q) == Cardinality(PhaseKeys(q))
             IN  others[p] + CASE p = "channels"  -> 0
                               [] p = "dms"       -> count("channels")
                               [] p = "matrixDms" -> count("channels") + count("dms")
                               [] p = "users"     -> count("channels") + count("dms")
                                                       + count("matrixDms")

Position(p, k) == Before(p) + Cardinality({j \in PhaseKeys(p) : j <= k})

\* ListKeysWithPrefix(n, BatchSize, prefix).
Page(p, n) == {k \in PhaseKeys(p) : /\ n * BatchSize < Position(p, k)
                                    /\ Position(p, k) <= (n + 1) * BatchSize}

\* The keys of a loop that are on the store's first page; and, when nothing is
\* listed before them, all that it does not move while it pages through them.
WithinReach(p) ==
    {k \in PhaseKeys(p) : \/ Position(p, k) <= BatchSize
                          \/ p \in {"users", "channels"} /\ Before(p) = 0}

PhaseAfter(p) == CASE p = "users"     -> "channels"
                   [] p = "channels"  -> "dms"
                   [] p = "dms"       -> "matrixDms"
                   [] p = "matrixDms" -> "version"

Current == Min(batch)

Fault == /\ faults < MaxFault
         /\ faults' = faults + 1
         /\ clean' = FALSE

NoFault == UNCHANGED <<faults, clean>>

\* What else is in the store may have changed since the last run.
Begin(p, fromZero) ==
    /\ UNCHANGED <<kv, original>>
    /\ others' \in OtherKeys
    /\ promise' = [q \in Phase |-> WithinReach(q)']
    /\ phase' = p /\ step' = "list" /\ page' = 0 /\ batch' = {}
    /\ lastPage' = FALSE
    /\ clean' = fromZero
    /\ runs' = runs + 1

\* runKVStoreMigrationsWithResults, called by OnActivate.  A version that
\* cannot be read counts as 0.
Activate ==
    /\ phase = "idle" /\ runs < MaxRun
    /\ \/ version = 0 /\ Begin("users", TRUE) /\ UNCHANGED faults
       \/ version = 1 /\ Begin("dms", FALSE) /\ UNCHANGED faults
       \/ /\ faults < MaxFault
          /\ faults' = faults + 1
          /\ Begin("users", TRUE)
    /\ UNCHANGED version

\* executeMigrateCommand: the version is reset, then everything runs.
MigrateCommand ==
    /\ phase = "idle" /\ runs < MaxRun
    /\ version' = 0
    /\ Begin("users", TRUE)
    /\ UNCHANGED faults

\* A listing that fails ends the run with an error.
ListFails ==
    /\ phase \in Phase /\ step = "list"
    /\ Fault
    /\ phase' = "idle"
    /\ UNCHANGED <<kv, version, step, page, batch, lastPage, given>>

\* The head of a loop; an empty page is the end of it.
List ==
    LET keys == Page(phase, page) IN
    /\ phase \in Phase /\ step = "list"
    /\ IF keys = {}
       THEN /\ phase' = PhaseAfter(phase) /\ page' = 0
            /\ UNCHANGED <<step, batch, lastPage>>
       ELSE /\ batch' = keys /\ step' = "first"
            /\ lastPage' = (Cardinality(keys) < BatchSize)
            /\ UNCHANGED <<phase, page>>
    /\ NoFault
    /\ UNCHANGED <<kv, version, given>>

\* On to the next key; after the page's last one to the next page, or out of
\* the loop when the page was not full.
NextKey ==
    LET rest == batch \ {Current} IN
    /\ batch' = rest
    /\ UNCHANGED lastPage
    /\ IF rest # {}
       THEN step' = "first" /\ UNCHANGED <<phase, page>>
       ELSE /\ step' = "list"
            /\ IF lastPage THEN phase' = PhaseAfter(phase) /\ page' = 0
               ELSE page' = page + 1 /\ UNCHANGED phase

Then(s) == step' = s /\ UNCHANGED <<phase, page, batch, lastPage>>

Loop(p, s) == phase = p /\ step = s

\* A migration that keeps a reverse mapping whatever it says.
UserReverse_KeepExisting ==
    LET m == Current
        u == kv.matrixUser[m]
    IN  /\ Loop("users", "first")
        /\ \/ /\ kv' = IF kv.user[u] # None THEN kv
                       ELSE [kv EXCEPT !.user[u] = m]
              /\ NoFault
           \/ Fault /\ UNCHANGED kv
        /\ NextKey
        /\ UNCHANGED <<version, given>>

\* migrateUserMappings: the reverse mapping is created or corrected.
UserReverse ==
    LET m == Current
        u == kv.matrixUser[m]
    IN  /\ Loop("users", "first")
        /\ \/ kv' = [kv EXCEPT !.user[u] = m] /\ NoFault
           \/ Fault /\ UNCHANGED kv
        /\ NextKey
        /\ UNCHANGED <<version, given>>

\* migrateChannelMappings, the reverse mapping of the stored identifier.  When
\* the key cannot be read it is skipped; when the write fails it is not.
ChannelReverse ==
    LET c == Current
        i == kv.channel[c]
    IN  /\ Loop("channels", "first")
        /\ \/ kv' = [kv EXCEPT !.room[i] = c] /\ NoFault /\ Then("second")
           \/ Fault /\ UNCHANGED kv /\ Then("second")
           \/ Fault /\ UNCHANGED kv /\ NextKey
        /\ UNCHANGED <<version, given>>

\* The mapping of the room ID an alias stands for; the alias may not resolve.
ChannelRoomID ==
    LET c == Current
        i == kv.channel[c]
    IN  /\ Loop("channels", "second")
        /\ \/ i \in Alias /\ kv' = [kv EXCEPT !.room[RoomOf[i]] = c] /\ NoFault
           \/ i \in Alias /\ Fault /\ UNCHANGED kv
           \/ i \notin Alias /\ NoFault /\ UNCHANGED kv
        /\ NextKey
        /\ UNCHANGED <<version, given>>

\* A migration that stores the key's channel instead of the room.
DmUnify_KeyAsValue ==
    LET c == Current
    IN  /\ Loop("dms", "first")
        /\ kv' = IF kv.channel[c] # None THEN kv
                 ELSE [kv EXCEPT !.channel[c] = c]
        /\ NoFault /\ Then("second")
        /\ UNCHANGED <<version, given>>

\* A migration that goes on to delete the key although the write failed.
DmUnify_DeleteAnyway ==
    LET c == Current
        r == kv.dm[c]
    IN  /\ Loop("dms", "first")
        /\ \/ /\ kv' = IF kv.channel[c] # None THEN kv
                       ELSE [kv EXCEPT !.channel[c] = r]
              /\ NoFault /\ Then("second")
           \/ Fault /\ UNCHANGED kv /\ Then("second")
        /\ UNCHANGED <<version, given>>

\* migrateDMMappings, first loop: the unified mapping, unless there is one.  An
\* existing mapping that cannot be read is overwritten.
DmUnify ==
    LET c == Current
        r == kv.dm[c]
    IN  /\ Loop("dms", "first")
        /\ \/ /\ kv' = IF kv.channel[c] # None THEN kv
                       ELSE [kv EXCEPT !.channel[c] = r]
              /\ NoFault /\ Then("second")
           \/ Fault /\ kv' = [kv EXCEPT !.channel[c] = r] /\ Then("second")
           \/ Fault /\ UNCHANGED kv /\ NextKey
        /\ UNCHANGED <<version, given>>

\* The reverse mapping, unless there is one.
DmReverse ==
    LET c == Current
        r == kv.dm[c]
    IN  /\ Loop("dms", "second")
        /\ \/ /\ kv' = IF kv.room[r] # None THEN kv
                       ELSE [kv EXCEPT !.room[r] = c]
              /\ NoFault
           \/ Fault /\ kv' = [kv EXCEPT !.room[r] = c]
           \/ Fault /\ UNCHANGED kv
        /\ Then("delete")
        /\ UNCHANGED <<version, given>>

\* The legacy mapping is deleted.
DmDelete ==
    /\ Loop("dms", "delete")
    /\ \/ kv' = [kv EXCEPT !.dm[Current] = None] /\ NoFault
       \/ Fault /\ UNCHANGED kv
    /\ NextKey
    /\ UNCHANGED <<version, given>>

\* migrateDMMappings, second loop: matrix_dm_mapping_ to room_mapping_.
MatrixDmUnify ==
    LET r == Current
        c == kv.matrixDm[r]
    IN  /\ Loop("matrixDms", "first")
        /\ \/ /\ kv' = IF kv.room[r] # None THEN kv
                       ELSE [kv EXCEPT !.room[r] = c]
              /\ NoFault /\ Then("delete")
           \/ Fault /\ kv' = [kv EXCEPT !.room[r] = c] /\ Then("delete")
           \/ Fault /\ UNCHANGED kv /\ NextKey
        /\ UNCHANGED <<version, given>>

MatrixDmDelete ==
    /\ Loop("matrixDms", "delete")
    /\ \/ kv' = [kv EXCEPT !.matrixDm[Current] = None] /\ NoFault
       \/ Fault /\ UNCHANGED kv
    /\ NextKey
    /\ UNCHANGED <<version, given>>

\* The version is written last; when that fails the run ends with an error.
SetVersion ==
    /\ phase = "version"
    /\ phase' = "idle"
    /\ \/ /\ version' = 2
          /\ NoFault
       \/ Fault /\ UNCHANGED version
    /\ UNCHANGED <<kv, step, page, batch, lastPage, given>>

Crash == /\ phase # "idle"
         /\ phase' = "idle"
         /\ Fault
         /\ UNCHANGED <<kv, version, step, page, batch, lastPage, given>>

KeyStep == \/ UserReverse
           \/ ChannelReverse \/ ChannelRoomID
           \/ DmUnify \/ DmReverse \/ DmDelete
           \/ MatrixDmUnify \/ MatrixDmDelete

Next == \/ Activate \/ MigrateCommand
        \/ List \/ ListFails
        \/ KeyStep
        \/ SetVersion
        \/ Crash

Spec == Init /\ [][Next]_vars

-----------------------------------------------------------------------------
(* Properties *)

\* Whatever fails and wherever the process dies, the room of a DM channel is
\* still known: under the legacy prefix, or under the unified one, which then
\* holds that room or the mapping that was there before.
DmRoomKept ==
    \A c \in Keys(original.dm) :
        \/ kv.dm[c] = original.dm[c]
        \/ kv.channel[c] = original.dm[c]
        \/ kv.channel[c] = original.channel[c] /\ kv.channel[c] # None

\* The channel of a legacy DM room is still known too.
DmChannelKept ==
    \A r \in Keys(original.matrixDm) :
        kv.matrixDm[r] = original.matrixDm[r] \/ kv.room[r] # None

\* A mapping the administrators made is never replaced by a legacy one, unless
\* a call failed.
ChannelMappingsStay ==
    faults = 0 =>
        \A c \in Keys(original.channel) : kv.channel[c] = original.channel[c]

\* No mapping is lost, whichever calls fail.
MappingsKept == DmRoomKept /\ DmChannelKept /\ ChannelMappingsStay

Finished == version = 2 /\ phase = "idle" /\ clean

NamesRoom(c, i) == \/ kv.channel[c] = i
                   \/ kv.channel[c] \in Alias /\ RoomOf[kv.channel[c]] = i

\* After a clean run every reverse mapping within its reach leads back: a
\* user's to a Matrix user mapped to it, a mapped room's to a channel mapped to
\* that room.
RoundTrip ==
    Finished =>
        /\ \A m \in promise["users"] :
             LET u == kv.matrixUser[m] IN
             kv.user[u] # None /\ kv.matrixUser[kv.user[u]] = u
        /\ \A c \in promise["channels"] : \A i \in Room :
             NamesRoom(c, i) => /\ kv.room[i] # None
                                /\ NamesRoom(kv.room[i], i)

\* A clean run moves the legacy DM mappings that were on the store's first page
\* when it began, although what it writes and deletes moves them about.  (Of
\* those beyond it some stay, or all.)
FirstDmsMoved ==
    Finished => /\ promise["dms"] \cap Keys(kv.dm) = {}
                /\ promise["matrixDms"] \cap Keys(kv.matrixDm) = {}

\* What a clean run achieves.
CleanRun == RoundTrip /\ FirstDmsMoved
=============================================================================
