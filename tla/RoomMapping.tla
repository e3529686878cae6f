---------------------------- MODULE RoomMapping ----------------------------
(***************************************************************************)
(* The mapping between Mattermost channels and Matrix rooms: the forward   *)
(* keys channel_mapping_<channel>, the reverse keys room_mapping_<room or  *)
(* alias>, the state event com.mattermost.bridge.channel in the room, and  *)
(* roomMappingCache in front of the forward keys (server/bridge_utils.go,  *)
(* matrix_webhook.go, plugin.go, sync_to_matrix.go, command/command.go).   *)
(*                                                                         *)
(* Readers (hooks, queue workers) look rooms up and create DM rooms;       *)
(* actors map, create, join and unmap.  Each call to the KV store, the cache or  *)
(* the homeserver is a step of its own.  Only the bridge's own DM path     *)
(* writes the cache when it changes a mapping.                             *)
(*                                                                         *)
(* The cache is the forgetful TTL map that LruCache implements.  A key     *)
(* that is not in the KV store reads as an empty value without an error,   *)
(* so a channel without a mapping is cached as such.                       *)
(***************************************************************************)
EXTENDS Integers, FiniteSets

CONSTANTS
    Channel, Dm,        \* channels; those that are direct messages
    RoomID, Alias,      \* room identifiers
    RoomOf,             \* RoomOf[a]: the room ID that alias a stands for
    External,           \* rooms that exist without the bridge
    Stored,             \* forward mappings the plugin may find when it starts
    Reader, Actor,      \* goroutines that look up; that change mappings
    Hook,               \* the goroutine in which the server calls the hook for
                        \* a channel that join has created
    TTL,                \* time to live of roomMappingCache (1 hour)
    None, Absent,       \* no room or channel; no cache entry
    MaxTime, MaxCommand, MaxFault     \* bounds

ASSUME RoomMappingAssumption ==
    /\ Dm \subseteq Channel /\ External \subseteq RoomID
    /\ RoomOf \in [Alias -> RoomID] /\ RoomID \cap Alias = {}
    /\ Stored \subseteq [Channel -> RoomID \cup Alias \cup {None}]
    /\ Hook \notin Actor
    /\ None \notin RoomID \cup Alias \cup Channel
    /\ TTL \in Nat /\ MaxTime \in Nat /\ MaxCommand \in Nat /\ MaxFault \in Nat

Room == RoomID \cup Alias
Changer == Actor \cup {Hook}
RoomIDOf(i) == IF i \in Alias THEN RoomOf[i] ELSE i

VARIABLES
    forward,     \* channel_mapping_: a room identifier or None
    reverse,     \* room_mapping_: a channel or None
    roomState,   \* the channel named in the room's own state, or None
    exists,      \* the rooms that exist on the homeserver
    content, now,          \* roomMappingCache, as in TtlMap
    lookup,      \* lookup[p]: what reader p is doing
    cmd,         \* cmd[x]: what actor x is doing
    gone,        \* history: <<c, i, t>>: forward[c] stopped being i at time t
    shared,      \* history: a channel was given a room that another had, or
                 \* was being given
    dmRooms,     \* history: <<c, r>>: room r was given to DM channel c
    manual,      \* history: a map, create or unmap command has begun
    commands, faults     \* history: commands begun; calls that failed

kvVars    == <<forward, reverse, gone, shared>>
cacheVars == <<content, now>>
histVars  == <<dmRooms, manual>>
vars == <<kvVars, roomState, exists, cacheVars, lookup, cmd, histVars,
          commands, faults>>

\* Answers are kept per reader, in lookup.
Cache == INSTANCE TtlMap WITH Key <- Channel, Value <- Room \cup {None},
                              got <- Absent

NoLookup == [pc |-> "idle", channel |-> None, value |-> None,
             again |-> FALSE]
NoCmd == [pc |-> "idle", kind |-> "none", channel |-> None, room |-> None]

TypeOK ==
    /\ forward \in [Channel -> Room \cup {None}]
    /\ reverse \in [Room -> Channel \cup {None}]
    /\ roomState \in [RoomID -> Channel \cup {None}]
    /\ exists \in SUBSET RoomID
    /\ content \in [Channel -> [value : Room \cup {None}, expiresAt : Nat]
                                 \cup {Absent}]
    /\ now \in Nat
    /\ lookup \in [Reader -> [pc : {"idle", "fill", "answered",
                                    "forward", "cache", "reverse"},
                              channel : Channel \cup {None},
                              value : Room \cup {None},
                              again : BOOLEAN]]
    /\ cmd \in [Changer -> [pc : {"idle", "room", "forward", "reverse", "roomID",
                                "clear", "dropForward", "dropReverse"},
                          kind : {"none", "map", "create", "join", "hook",
                                  "dm", "unmap"},
                          channel : Channel \cup {None},
                          room : Room \cup {None}]]
    /\ gone \subseteq Channel \X (Room \cup {None}) \X Nat
    /\ shared \in BOOLEAN
    /\ dmRooms \subseteq Dm \X RoomID /\ manual \in BOOLEAN
    /\ commands \in Nat /\ faults \in 0..MaxFault

\* The plugin starts, with an empty cache and a store in which the map command
\* has left its mappings: also the room ID of an alias leads back.
Init == /\ forward \in Stored
        /\ reverse = [i \in Room |->
                        LET mapped == {c \in Channel :
                                         /\ forward[c] # None
                                         /\ i \in {forward[c],
                                                  RoomIDOf(forward[c])}}
                        IN  IF mapped = {} THEN None
                            ELSE CHOOSE c \in mapped : TRUE]
        /\ roomState = [r \in RoomID |-> None]
        /\ exists = External \cup {RoomIDOf(forward[c]) :
                                    c \in {d \in Channel : forward[d] # None}}
        /\ content = [c \in Channel |-> Absent] /\ now = 0
        /\ lookup = [p \in Reader |-> NoLookup]
        /\ cmd = [x \in Changer |-> NoCmd]
        /\ gone = {} /\ dmRooms = {}
        /\ shared = \E c, d \in Channel :
                       /\ c # d /\ forward[c] # None /\ forward[d] # None
                       /\ RoomIDOf(forward[c]) = RoomIDOf(forward[d])
        /\ manual = FALSE
        /\ commands = 0 /\ faults = 0

-----------------------------------------------------------------------------
Fails == faults < MaxFault /\ faults' = faults + 1
Works == UNCHANGED faults

SetForward(c, i) ==
    /\ forward' = [forward EXCEPT ![c] = i]
    /\ gone' = IF forward[c] = i THEN gone
               ELSE gone \cup {<<c, forward[c], now>>}
    /\ UNCHANGED <<reverse, shared>>

SetReverse(i, c) ==
    /\ reverse' = [reverse EXCEPT ![i] = c]
    /\ UNCHANGED <<forward, gone, shared>>

\* getChannelIDFromMatrixRoom: the reverse key, or else the room's state.
ChannelFor(r) == IF reverse[r] # None THEN reverse[r] ELSE roomState[r]

At(p, pc) == lookup[p].pc = pc
Goto(p, pc) == lookup' = [lookup EXCEPT ![p].pc = pc]

-----------------------------------------------------------------------------
(* GetMatrixRoomID *)

Answered(p, c, value, again) ==
    lookup' = [lookup EXCEPT ![p] = [pc |-> "answered", channel |-> c,
                                     value |-> value, again |-> again]]

\* The KV store is read, and the cache filled next; or the read fails, which
\* counts as no mapping and is not cached.
ReadStore(p, c, again) ==
    \/ /\ lookup' = [lookup EXCEPT ![p] = [pc |-> "fill", channel |-> c,
                                           value |-> forward[c],
                                           again |-> again]]
       /\ Works
    \/ Answered(p, c, None, again) /\ Fails

\* A read that takes whatever is in the cache, however old.
Read_NoExpiry(p, c, again) ==
    /\ IF content[c] # Absent
       THEN Answered(p, c, content[c].value, again) /\ Works
       ELSE ReadStore(p, c, again)
    /\ UNCHANGED <<kvVars, roomState, exists, cacheVars, cmd, histVars,
                   commands>>

\* The cache answers, or it misses and the store is read.  Both are one step: a
\* reader that misses before another one fills the cache, and reads after it,
\* does what it does when the cache forgets the other's entry.
Read(p, c, again) ==
    /\ Cache!Forget
    /\ \/ Cache!Live(c) /\ Answered(p, c, Cache!Answer(c), again) /\ Works
       \/ ~Cache!Live(c) /\ ReadStore(p, c, again)
    /\ UNCHANGED <<kvVars, roomState, exists, cmd, histVars, commands>>

Lookup(p, c) == At(p, "idle") /\ Read(p, c, FALSE)

\* What was read is cached, even if it has been changed since.
CacheFill(p) ==
    /\ At(p, "fill")
    /\ Cache!Put(lookup[p].channel, lookup[p].value)
    /\ Goto(p, "answered")
    /\ UNCHANGED <<kvVars, roomState, exists, cmd, histVars, commands, faults>>

\* The caller is done with the answer.
LookupEnd(p) ==
    /\ At(p, "answered")
    /\ lookup' = [lookup EXCEPT ![p] = NoLookup]
    /\ UNCHANGED <<kvVars, roomState, exists, cacheVars, cmd, histVars,
                   commands, faults>>

-----------------------------------------------------------------------------
(* SyncPostToMatrix and getOrCreateDMRoom: a DM without a room gets one. *)

Unanswered(p) == /\ At(p, "answered")
                 /\ lookup[p].value = None
                 /\ lookup[p].channel \in Dm

Creating(p) == lookup[p].pc \in {"forward", "cache", "reverse"}

\* getOrCreateDMRoom looks once more.
LookupAgain(p) == /\ Unanswered(p) /\ ~lookup[p].again
                  /\ Read(p, lookup[p].channel, TRUE)

\* CreateDirectRoom.
CreateDirectRoom(p, r) ==
    /\ Unanswered(p) /\ lookup[p].again
    /\ r \in RoomID \ exists
    /\ \A a \in Alias : RoomOf[a] # r
    /\ exists' = exists \cup {r}
    /\ lookup' = [lookup EXCEPT ![p].pc = "forward", ![p].value = r]
    /\ dmRooms' = dmRooms \cup {<<lookup[p].channel, r>>}
    /\ UNCHANGED <<kvVars, roomState, cacheVars, cmd, manual, commands,
                   faults>>

\* setChannelRoomMapping, called with a room ID.  If the forward key cannot be
\* written nothing else is, and the room is used for this post all the same.
DmForward(p) ==
    /\ At(p, "forward")
    /\ \/ /\ SetForward(lookup[p].channel, lookup[p].value)
          /\ Goto(p, "cache") /\ Works
       \/ /\ Fails /\ UNCHANGED kvVars
          /\ lookup' = [lookup EXCEPT ![p] = NoLookup]
    /\ UNCHANGED <<roomState, exists, cacheVars, cmd, histVars, commands>>

DmCache(p) ==
    /\ At(p, "cache")
    /\ Cache!Put(lookup[p].channel, lookup[p].value)
    /\ Goto(p, "reverse")
    /\ UNCHANGED <<kvVars, roomState, exists, cmd, histVars, commands, faults>>

\* A DM room whose reverse key is only written when the forward key still
\* names it.
DmReverse_IfCurrent(p) ==
    /\ At(p, "reverse")
    /\ IF forward[lookup[p].channel] = lookup[p].value
       THEN SetReverse(lookup[p].value, lookup[p].channel)
       ELSE UNCHANGED kvVars
    /\ lookup' = [lookup EXCEPT ![p] = NoLookup]
    /\ UNCHANGED <<roomState, exists, cacheVars, cmd, histVars, commands,
                   faults>>

DmReverse(p) ==
    /\ At(p, "reverse")
    /\ \/ SetReverse(lookup[p].value, lookup[p].channel) /\ Works
       \/ Fails /\ UNCHANGED kvVars
    /\ lookup' = [lookup EXCEPT ![p] = NoLookup]
    /\ UNCHANGED <<roomState, exists, cacheVars, cmd, histVars, commands>>

-----------------------------------------------------------------------------
(* Actors.  The changes of one channel are assumed to be made one at a time, *)
(* but for join and the hook of the channel it creates; no administrator     *)
(* touches a DM or a room that is just being created.                        *)

MayBegin(x, c) ==
    /\ cmd[x].pc = "idle" /\ commands < MaxCommand
    /\ \A y \in Changer : cmd[y].pc # "idle" => cmd[y].channel # c
    /\ commands' = commands + 1

Untouched(c, i) ==
    \A p \in Reader :
        Creating(p) => lookup[p].channel # c /\ lookup[p].value # i

\* Another channel has the room of i, or is being given it.
Taken(c, i) ==
    \/ \E d \in Channel \ {c} :
          forward[d] # None /\ RoomIDOf(forward[d]) = RoomIDOf(i)
    \/ \E y \in Changer :
          /\ cmd[y].channel # c /\ cmd[y].room # None
          /\ RoomIDOf(cmd[y].room) = RoomIDOf(i)

\* Channel c is to get room i.
Give(c, i) == /\ shared' = (shared \/ Taken(c, i))
              /\ UNCHANGED <<forward, reverse, gone>>

Begin(x, k, c, i, pc) ==
    /\ MayBegin(x, c) /\ Give(c, i)
    /\ cmd' = [cmd EXCEPT ![x] = [pc |-> pc, kind |-> k, channel |-> c,
                                  room |-> i]]
    /\ UNCHANGED <<cacheVars, lookup, faults>>

\* executeMapCommand up to the mapping (joining the room may fail or not).
MapCommand(x, c, i) ==
    /\ RoomIDOf(i) \in exists /\ Untouched(c, RoomIDOf(i))
    /\ Begin(x, "map", c, i, "forward")
    /\ manual' = TRUE
    /\ UNCHANGED <<roomState, exists, dmRooms>>

\* CreateRoom, for executeCreateRoomCommand or ChannelHasBeenCreated: the room
\* gets an alias and a state event naming the channel, and the alias is what
\* the callers store.
CreateCommand(x, c, a) ==
    /\ RoomOf[a] \notin exists /\ Untouched(c, RoomOf[a])
    /\ \/ Begin(x, "create", c, a, "forward")
       \/ c \notin Dm /\ forward[c] = None /\ Begin(x, "hook", c, a, "forward")
    /\ exists' = exists \cup {RoomOf[a]}
    /\ roomState' = [roomState EXCEPT ![RoomOf[a]] = c]
    /\ manual' = TRUE
    /\ UNCHANGED dmRooms

Step(x, pc) == cmd' = [cmd EXCEPT ![x].pc = pc]
Done(x) == cmd' = [cmd EXCEPT ![x] = NoCmd]

\* executeJoinCommand with create_channel=true: a channel is created, which an
\* unmapped one stands for, and the server calls ChannelHasBeenCreated for it
\* in a goroutine of its own while the command goes on.  The room is one that
\* the bridge has not made.
JoinCommand(x, c, i) ==
    /\ c \notin Dm /\ forward[c] = None /\ RoomIDOf(i) \in External
    /\ MayBegin(x, c) /\ Give(c, i) /\ cmd[Hook].pc = "idle"
    /\ cmd' = [cmd EXCEPT ![x] = [pc |-> "forward", kind |-> "join", channel |-> c, room |-> i],
                          ![Hook] = [pc |-> "room", kind |-> "hook", channel |-> c, room |-> None]]
    /\ manual' = TRUE
    /\ UNCHANGED <<cacheVars, lookup, faults, roomState, exists, dmRooms>>

\* CreateRoom in that goroutine.
HookRoom(x) ==
    /\ cmd[x].pc = "room"
    /\ \/ \E a \in Alias :
             /\ RoomOf[a] \notin exists
             /\ exists' = exists \cup {RoomOf[a]}
             /\ roomState' = [roomState EXCEPT ![RoomOf[a]] = cmd[x].channel]
             /\ cmd' = [cmd EXCEPT ![x].pc = "forward", ![x].room = a]
             /\ Works
       \/ Fails /\ Done(x) /\ UNCHANGED <<roomState, exists>>
    /\ UNCHANGED <<kvVars, cacheVars, lookup, histVars, commands>>

\* createDMChannelForGhostUser: a member event of a room that belongs to no
\* channel yet.  Its bridge utilities are built without the caches.
MatrixDm(x, c, r) ==
    /\ c \in Dm /\ r \in External /\ ChannelFor(r) = None
    /\ Begin(x, "dm", c, r, "forward")
    /\ dmRooms' = dmRooms \cup {<<c, r>>}
    /\ UNCHANGED <<roomState, exists, manual>>

\* The forward key.  Only the hook and join go on when it cannot be written.
CmdForward(x) ==
    /\ cmd[x].pc = "forward"
    /\ \/ SetForward(cmd[x].channel, cmd[x].room) /\ Step(x, "reverse") /\ Works
       \/ /\ Fails /\ UNCHANGED kvVars
          /\ IF cmd[x].kind \in {"hook", "join"} THEN Step(x, "reverse") ELSE Done(x)
    /\ UNCHANGED <<roomState, exists, cacheVars, lookup, histVars, commands>>

\* The reverse key of the stored identifier; a failure is only logged.
CmdReverse(x) ==
    /\ cmd[x].pc = "reverse"
    /\ \/ SetReverse(cmd[x].room, cmd[x].channel) /\ Works
       \/ Fails /\ UNCHANGED kvVars
    /\ IF cmd[x].kind \in {"map", "join"} /\ cmd[x].room \in Alias
       THEN Step(x, "roomID") ELSE Done(x)
    /\ UNCHANGED <<roomState, exists, cacheVars, lookup, histVars, commands>>

\* A map command that swaps key and value.
CmdRoomID_Swapped(x) ==
    /\ cmd[x].pc = "roomID"
    /\ SetReverse(RoomOf[cmd[x].room], cmd[x].room) /\ Works
    /\ Done(x)
    /\ UNCHANGED <<roomState, exists, cacheVars, lookup, histVars, commands>>

\* A map or join command with an alias: the reverse key of the room ID as well.
CmdRoomID(x) ==
    /\ cmd[x].pc = "roomID"
    /\ \/ SetReverse(RoomOf[cmd[x].room], cmd[x].channel) /\ Works
       \/ Fails /\ UNCHANGED kvVars
    /\ Done(x)
    /\ UNCHANGED <<roomState, exists, cacheVars, lookup, histVars, commands>>

\* executeUnmapCommand reads the forward key.  (For a channel without one it
\* goes on to the homeserver with an empty room, and ends there.)
UnmapCommand(x, c) ==
    /\ forward[c] # None /\ Untouched(c, forward[c])
    /\ MayBegin(x, c)
    /\ cmd' = [cmd EXCEPT ![x] = [pc |-> "clear", kind |-> "unmap",
                                  channel |-> c, room |-> forward[c]]]
    /\ manual' = TRUE
    /\ UNCHANGED <<kvVars, roomState, exists, cacheVars, lookup, dmRooms,
                   faults>>

\* RemoveMattermostChannelID with the stored identifier as it is: there is no
\* room state under an alias, so the homeserver refuses one.  The command ends
\* when the call is refused or fails.
UnmapClear(x) ==
    LET i == cmd[x].room IN
    /\ cmd[x].pc = "clear"
    /\ \/ /\ i \in RoomID /\ roomState' = [roomState EXCEPT ![i] = None]
          /\ Step(x, "dropForward") /\ Works
       \/ i \in Alias /\ Done(x) /\ Works /\ UNCHANGED roomState
       \/ Fails /\ Done(x) /\ UNCHANGED roomState
    /\ UNCHANGED <<kvVars, exists, cacheVars, lookup, histVars, commands>>

UnmapForward(x) ==
    /\ cmd[x].pc = "dropForward"
    /\ \/ SetForward(cmd[x].channel, None) /\ Step(x, "dropReverse") /\ Works
       \/ Fails /\ Done(x) /\ UNCHANGED kvVars
    /\ UNCHANGED <<roomState, exists, cacheVars, lookup, histVars, commands>>

\* The reverse key of the stored identifier, whatever channel it names.
UnmapReverse(x) ==
    /\ cmd[x].pc = "dropReverse"
    /\ \/ SetReverse(cmd[x].room, None) /\ Works
       \/ Fails /\ UNCHANGED kvVars
    /\ Done(x)
    /\ UNCHANGED <<roomState, exists, cacheVars, lookup, dmRooms, manual,
                   commands>>

-----------------------------------------------------------------------------
\* Time passes; a lookup takes no time compared with the hour of the cache.
Tick == /\ now < MaxTime
        /\ \A p \in Reader : At(p, "idle")
        /\ Cache!Age
        /\ gone' = {g \in gone : g[3] + TTL >= now'}
        /\ UNCHANGED <<forward, reverse, shared, roomState, exists, lookup,
                       cmd, histVars, commands, faults>>

ReaderStep(p) == \/ CacheFill(p) \/ LookupEnd(p)
                 \/ LookupAgain(p)
                 \/ DmForward(p) \/ DmCache(p) \/ DmReverse(p)

ActorStep(x) == \/ HookRoom(x) \/ CmdForward(x) \/ CmdReverse(x) \/ CmdRoomID(x)
                \/ UnmapClear(x) \/ UnmapForward(x) \/ UnmapReverse(x)

Next == \/ \E p \in Reader : \/ \E c \in Channel : Lookup(p, c)
                             \/ \E r \in RoomID : CreateDirectRoom(p, r)
                             \/ ReaderStep(p)
        \/ \E x \in Actor, c \in Channel :
                  \/ \E i \in Room : MapCommand(x, c, i) \/ JoinCommand(x, c, i)
                  \/ \E a \in Alias : CreateCommand(x, c, a)
                  \/ \E r \in RoomID : MatrixDm(x, c, r)
                  \/ UnmapCommand(x, c)
        \/ \E x \in Changer : ActorStep(x)
        \/ Tick

Spec == Init /\ [][Next]_vars

-----------------------------------------------------------------------------
(* Properties *)

\* What a lookup answers was the mapping at some time in the last TTL (and
\* never a mapping the channel did not have), however lookups, commands and
\* DM creation interleave and whatever write fails.  (A lookup whose read of
\* the KV store fails answers that there is none.)
BoundedStaleness ==
    \A p \in Reader :
        At(p, "answered") =>
            LET c == lookup[p].channel
                i == lookup[p].value
            IN  \/ forward[c] = i
                \/ \E t \in (now - TTL)..now : <<c, i, t>> \in gone
                \/ i = None /\ faults > 0

\* Two readers, or a reader and a Matrix user, may each open a room for the
\* same DM.  Whatever their order, what is written in any of these rooms comes
\* back to the DM channel once its mapping has been stored, as long as no
\* administrator changes mappings.
DmRoomsLeadBack ==
    (~manual /\ ~shared /\ faults = 0) =>
        \A d \in dmRooms :
            \/ ChannelFor(d[2]) = d[1]
            \/ \E p \in Reader : Creating(p) /\ lookup[p].value = d[2]
            \/ \E x \in Changer : cmd[x].room = d[2]

\* Messages of the room a channel is mapped to come back to that channel, as
\* long as no two channels were given the same room and no call failed.
MappingsAgree ==
    (~shared /\ faults = 0) =>
        \A c \in Channel :
            \/ forward[c] = None
            \/ ChannelFor(RoomIDOf(forward[c])) = c
            \/ \E x \in Changer : cmd[x].channel = c
            \/ \E p \in Reader : Creating(p) /\ lookup[p].channel = c

\* Rooms lead back to their channels, DMs and others.
RoomsLeadBack == DmRoomsLeadBack /\ MappingsAgree
=============================================================================
