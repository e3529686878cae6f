----------------------------- MODULE TeamSpaces -----------------------------
(***************************************************************************)
(* Rooms for channels and spaces for teams: TeamHasBeenCreated,            *)
(* ChannelHasBeenCreated, SyncTeam and SyncChannel of server/plugin.go,    *)
(* /matrix create and /matrix backfill of server/command/command.go, and   *)
(* CreateRoom, CreateSpace and AddSpaceChild of server/matrix/client.go.   *)
(*                                                                         *)
(* Hooks, commands and the backfill are goroutines: a slot holds one of    *)
(* them, and every call to Mattermost, the homeserver or the KV store is a *)
(* step.  The alias a room asks for is made from the names of the team and *)
(* the channel, and is all that keeps two goroutines from making two rooms *)
(* for one channel, or one room for two.  A name is the sequence of its    *)
(* words: spaces, underscores and hyphens between them, and capitals, make *)
(* no difference to an alias.  A room goes by the alias it was made with;  *)
(* a space by its alias too, which stands for its ID.  What CreateRoom     *)
(* returns, and the KV store and the spaces hold, is the room's alias with *)
(* a domain, and the hook and /matrix create take it from different        *)
(* settings: the homeserver, which adds its own name to the alias it is    *)
(* asked for, knows the one only that carries this name.                   *)
(***************************************************************************)
EXTENDS Naturals, Sequences, FiniteSets

CONSTANTS
    Team,      \* teams
    TeamWords, \* the name of each team
    Channel,   \* channels; their order is that of a listing
    Name,      \* names of channels and names given to /matrix create
    Mirror,    \* EnableMirrorMode: aliases of rooms have no prefix
    ServerName,         \* the homeserver's name, the domain of its aliases
    MatrixServerDomain, \* the setting of this name ("" if it is not set)
    UrlHost,            \* the host of the setting MatrixServerURL
    Member,    \* the members of each channel; their order is that of a listing
    PageSize,  \* channels on a page of the backfill (100)
    Limit,     \* members on a page of the member sync (100)
    Slot,      \* goroutines that may be at work at once
    MaxJob,    \* bound: hooks and commands started
    MaxMishap  \* bound: failing calls, crashes, and channels renamed or archived

ASSUME TeamSpacesAssumption ==
    /\ Team # {} /\ IsFiniteSet(Team) /\ TeamWords \in [Team -> Seq(STRING)] /\ Name # {} /\ Name \subseteq Seq(STRING)
    /\ Channel # {} /\ Channel \subseteq Nat \ Team /\ Member \subseteq Nat /\ IsFiniteSet(Channel) /\ IsFiniteSet(Member)
    /\ Mirror \in BOOLEAN /\ {ServerName, MatrixServerDomain, UrlHost} \subseteq STRING
    /\ {PageSize, Limit} \subseteq Nat \ {0} /\ {MaxJob, MaxMishap} \subseteq Nat

VARIABLES
    team,       \* Mattermost: the teams there are
    channel,    \* Mattermost: the channels there are
    rooms,      \* Matrix: rooms and spaces by alias
    children,   \* Matrix: the m.space.child state of the spaces
    guests,     \* Matrix: the channel members joined or invited to each room by a command
    channelKey, \* KV store: channel_mapping_<channel>
    roomKey,    \* KV store: room_mapping_<room>
    teamKey,    \* KV store: team_mapping_<team>
    job,        \* what each slot does
    jobs,       \* history: the number of jobs started
    changes,    \* history: the number of changes
    asked,      \* history: the channels that /matrix create asked for a room for, and whether to publish it
    extra,      \* history: the number of rooms asked for under another name than the channel's own
    promise,    \* history: the channels that a backfill of everything has yet to bridge
    faults      \* history: failing calls and crashes

mattermost == <<team, channel>>
matrix  == <<rooms, children, guests>>
kvstore == <<channelKey, roomKey, teamKey>>
history == <<jobs, changes, asked, extra, promise>>
vars == <<mattermost, matrix, kvstore, job, history, faults>>

None == [none |-> TRUE]  \* no channel, no mapping
Idle == [pc |-> "idle"]
Kinds == {"hook", "create", "backfill"}
\* The words of an alias that a channel's room may ask for: GetTeam may fail.
Words == {p \o n : p \in {TeamWords[t] : t \in Team} \cup {<<>>}, n \in Name}

\* CreateSpace takes the team's name, CreateRoom prefixes its slugs.
SpaceAlias(t) == [prefixed |-> FALSE, words |-> TeamWords[t]]
RoomAlias(w) == [prefixed |-> ~Mirror, words |-> w]
Alias == {SpaceAlias(t) : t \in Team} \cup {RoomAlias(w) : w \in Words}
\* The domain that a job of this kind takes for the homeserver's name: the
\* command looks at the URL only.
Domain(kind) == IF kind = "create" \/ MatrixServerDomain = "" THEN UrlHost ELSE MatrixServerDomain
Identifier == [alias : Alias, domain : {Domain(kind) : kind \in Kinds}]

ChannelRecord == [team : Team, name : Name, private : BOOLEAN, archived : BOOLEAN]
Room == [of : Channel \cup Team, public : BOOLEAN, bot : BOOLEAN, listed : BOOLEAN, tagged : BOOLEAN]
\* A job: where it is (pc), its team and channel, the words of its alias and
\* whether the room is public; the offset of the member sync; and what is left
\* of a backfill: its mode, the teams and channels to do, the page of the listing.
JobRecord == [pc : {"space", "spaceKey", "team", "room", "open", "members", "forward",
                    "reverse", "find", "child", "teams", "eachTeam", "listTeams", "eachList", "page", "eachChannel"},
              kind : Kinds, t : Team, c : Channel, words : Words, public : BOOLEAN, offset : Nat,
              mode : {"teams", "channels", "all"}, teams : SUBSET Team, channels : SUBSET Channel, page : Nat]

TypeOK ==
    /\ team \subseteq Team /\ channel \in [Channel -> ChannelRecord \cup {None}]
    /\ DOMAIN rooms \subseteq Alias /\ \A a \in DOMAIN rooms : rooms[a] \in Room
    /\ \A a \in DOMAIN rooms : rooms[a].listed => rooms[a].public
    /\ children \subseteq Alias \X Identifier /\ guests \subseteq Alias \X Member
    /\ channelKey \in [Channel -> Identifier \cup {None}] /\ teamKey \in [Team -> Alias \cup {None}]
    /\ DOMAIN roomKey \subseteq Identifier /\ \A i \in DOMAIN roomKey : roomKey[i] \in Channel
    /\ job \in [Slot -> JobRecord \cup {Idle}]
    /\ jobs \in 0..MaxJob /\ changes + faults \in 0..MaxMishap
    /\ asked \subseteq Channel \X BOOLEAN /\ extra \in Nat /\ promise \subseteq Channel

Exists(c) == channel[c] # None

\* Teams and public channels may be older than the plugin.
Init == /\ \E old \in SUBSET Channel :
             /\ channel \in [Channel -> ChannelRecord \cup {None}]
             /\ \A c \in Channel : IF c \in old THEN Exists(c) /\ ~channel[c].archived /\ ~channel[c].private ELSE ~Exists(c)
             /\ team \in IF old = {} THEN {{}, Team} ELSE {Team}
        /\ rooms = <<>> /\ children = {} /\ guests = {}
        /\ channelKey = [c \in Channel |-> None] /\ roomKey = <<>> /\ teamKey = [t \in Team |-> None]
        /\ job = [s \in Slot |-> Idle]
        /\ jobs = 0 /\ changes = 0 /\ asked = {} /\ extra = 0 /\ promise = {} /\ faults = 0

-----------------------------------------------------------------------------
(* Mattermost calls hooks; administrators type commands. *)

Live(c) == Exists(c) /\ ~channel[c].archived
NameOf(c) == TeamWords[channel[c].team] \o channel[c].name
\* What a hook or a command does begins at pc.
Begin(s, pc, kind, t, c, words, public, mode) ==
    /\ job[s] = Idle /\ jobs < MaxJob
    /\ jobs' = jobs + 1
    /\ job' = [job EXCEPT ![s] = [pc |-> pc, kind |-> kind, t |-> t, c |-> c, words |-> words, public |-> public,
                                  offset |-> 0, mode |-> mode, teams |-> {}, channels |-> {}, page |-> 0]]
AnyChannel == CHOOSE c \in Channel : TRUE
AnyTeam == CHOOSE t \in Team : TRUE
AnyName == CHOOSE n \in Name : TRUE

CreateTeam(s, t) ==
    /\ t \notin team
    /\ team' = team \cup {t}
    /\ Begin(s, "space", "hook", t, AnyChannel, AnyName, TRUE, "all")
    /\ promise' = {}
    /\ UNCHANGED <<channel, matrix, kvstore, changes, asked, extra, faults>>

CreateChannel(s, c) ==
    /\ ~Exists(c)
    /\ \E t \in team, n \in Name, private \in BOOLEAN :
         /\ channel' = [channel EXCEPT ![c] = [team |-> t, name |-> n, private |-> private, archived |-> FALSE]]
         /\ Begin(s, "team", "hook", t, c, n, ~private, "all")
    /\ promise' = {}
    /\ UNCHANGED <<team, matrix, kvstore, changes, asked, extra, faults>>

\* executeCreateRoomCommand: with the channel's name, unless another is given
\* or the channel cannot be read; published or not, as the command says.
CreateCommand(s, c) ==
    /\ Live(c)
    /\ \E n \in Name, publish \in BOOLEAN :
         /\ Begin(s, "team", "create", channel[c].team, c, n, publish, "all")
         /\ asked' = asked \cup {<<c, publish>>}
         /\ extra' = IF n # channel[c].name THEN extra + 1 ELSE extra
    /\ promise' = {}
    /\ UNCHANGED <<mattermost, matrix, kvstore, changes, faults>>

\* An alias that is free, and that one channel or team only asks for.
Alone(a) ==
    /\ a \notin DOMAIN rooms
    /\ Cardinality({t \in Team : SpaceAlias(t) = a} \cup {c \in Channel : Exists(c) /\ RoomAlias(NameOf(c)) = a}) = 1

\* executeBackfillCommand: one goroutine for all that there is.
BackfillCommand(s) ==
    /\ \E mode \in {"teams", "channels", "all"} :
         /\ Begin(s, IF mode = "channels" THEN "listTeams" ELSE "teams", "backfill", AnyTeam, AnyChannel, AnyName, TRUE, mode)
         /\ promise' = IF mode = "all" /\ \A o \in Slot : job[o] = Idle
                       THEN {c \in Channel :
                               /\ Live(c) /\ ~channel[c].private /\ Alone(RoomAlias(NameOf(c)))
                               /\ LET t == channel[c].team IN teamKey[t] # None \/ Alone(SpaceAlias(t))}
                       ELSE {}
    /\ UNCHANGED <<mattermost, matrix, kvstore, changes, asked, extra, faults>>

Mishap == changes + faults < MaxMishap
\* A channel is renamed or archived, which no hook follows.
Change(c) ==
    /\ Live(c) /\ Mishap
    /\ changes' = changes + 1
    /\ \/ \E n \in Name \ {channel[c].name} : channel' = [channel EXCEPT ![c].name = n]
       \/ channel' = [channel EXCEPT ![c].archived = TRUE]
    /\ promise' = {}
    /\ UNCHANGED <<team, matrix, kvstore, job, jobs, asked, extra, faults>>

-----------------------------------------------------------------------------
Goto(s, pc) == job' = [job EXCEPT ![s].pc = pc]
\* The handler returns; its goroutine ends or the backfill goes on.
Return(s) ==
    LET j == job[s]
    IN  job' = [job EXCEPT ![s] = IF j.kind # "backfill" THEN Idle
                                  ELSE IF j.pc \in {"space", "spaceKey"} THEN [j EXCEPT !.pc = "eachTeam", !.t = AnyTeam]
                                  ELSE [j EXCEPT !.pc = "eachChannel", !.words = AnyName, !.public = TRUE]]
Fault == Mishap /\ faults' = faults + 1 /\ promise' = {}
Fine == UNCHANGED <<faults, promise>>
counts == <<jobs, changes, asked, extra>>
Put(f, x, y) == [z \in DOMAIN f \cup {x} |-> IF z = x THEN y ELSE f[z]]

Crash ==
    /\ Fault
    /\ job' = [s \in Slot |-> Idle]
    /\ UNCHANGED <<mattermost, matrix, kvstore, counts>>

\* A room or space, and what CreateRoom does to it after it is made: JoinRoom,
\* PublishRoomToDirectory and AddRoomAlias.
New(of, public) == [of |-> of, public |-> public, bot |-> FALSE, listed |-> FALSE, tagged |-> FALSE]
Joined(r) == [r EXCEPT !.bot = TRUE]
\* Mutant: every room is published.
Published_Always(r) == [r EXCEPT !.listed = TRUE]
Published(r) == IF r.public THEN [r EXCEPT !.listed = TRUE] ELSE r
\* The homeserver adds no alias with another domain than its own.
Tagged(r, kind) == IF Domain(kind) = ServerName THEN [r EXCEPT !.tagged = TRUE] ELSE r

-----------------------------------------------------------------------------
(* TeamHasBeenCreated. *)

\* CreateSpace: an alias in use is refused; an answer may be lost, and the bot
\* may fail to join.
CreateSpace(s) ==
    LET a == SpaceAlias(job[s].t)
        made == Put(rooms, a, New(job[s].t, TRUE))
        done == Put(rooms, a, Joined(New(job[s].t, TRUE)))
    IN  /\ job[s].pc = "space"
        /\ IF a \in DOMAIN rooms
           THEN Return(s) /\ UNCHANGED rooms /\ Fine
           ELSE \/ Goto(s, "spaceKey") /\ rooms' = done /\ Fine
                \/ Fault /\ Goto(s, "spaceKey") /\ rooms' = made
                \/ Fault /\ Return(s) /\ rooms' \in {rooms, made}
        /\ UNCHANGED <<mattermost, children, guests, kvstore, counts>>

StoreTeam(s) ==
    /\ job[s].pc = "spaceKey"
    /\ \/ teamKey' = [teamKey EXCEPT ![job[s].t] = SpaceAlias(job[s].t)] /\ Fine
       \/ Fault /\ UNCHANGED teamKey
    /\ Return(s)
    /\ UNCHANGED <<mattermost, matrix, channelKey, roomKey, counts>>

-----------------------------------------------------------------------------
(* ChannelHasBeenCreated and /matrix create. *)

\* A team that cannot be read is left out of the alias.
GetTeam(s) ==
    LET j == job[s]
    IN  /\ j.pc = "team"
        /\ \/ job' = [job EXCEPT ![s].words = TeamWords[j.t] \o j.words, ![s].pc = "room"] /\ Fine
           \/ Fault /\ Goto(s, "room")
        /\ UNCHANGED <<mattermost, matrix, kvstore, counts>>

\* Mutant: an alias in use is taken for the room of the channel.
CreateRoom_Adopt(s) ==
    LET a == RoomAlias(job[s].words)
    IN  /\ job[s].pc = "room"
        /\ rooms' = IF a \in DOMAIN rooms THEN rooms ELSE Put(rooms, a, New(job[s].c, job[s].public))
        /\ Goto(s, "open") /\ Fine
        /\ UNCHANGED <<mattermost, children, guests, kvstore, counts>>

\* CreateRoom: as CreateSpace.
CreateRoom(s) ==
    LET j == job[s]
        a == RoomAlias(j.words)
        done == Put(rooms, a, New(j.c, j.public))
    IN  /\ j.pc = "room"
        /\ \/ IF a \in DOMAIN rooms THEN Return(s) /\ UNCHANGED rooms /\ Fine
              ELSE Goto(s, "open") /\ rooms' = done /\ Fine
           \/ Fault /\ Return(s) /\ rooms' \in {rooms, IF a \in DOMAIN rooms THEN rooms ELSE done}
        /\ UNCHANGED <<mattermost, children, guests, kvstore, counts>>

\* One step, as nothing else looks at these; one of the calls may fail.
Open(s) ==
    LET a == RoomAlias(job[s].words)
        r == rooms[a]
        OpenedAs(o) == rooms' = [rooms EXCEPT ![a] = o]
        kind == job[s].kind
    IN  /\ job[s].pc = "open"
        /\ \/ OpenedAs(Tagged(Published(Joined(r)), kind)) /\ Fine
           \/ Fault /\ \E o \in {Tagged(Published(r), kind), Tagged(Joined(r), kind), Published(Joined(r))} : OpenedAs(o)
        /\ Goto(s, IF kind = "create" THEN "members" ELSE "forward")
        /\ UNCHANGED <<mattermost, children, guests, kvstore, counts>>

\* What CreateRoom returned to a job; a room can be had by it, unless its
\* domain is a wrong one.
Returned(j) == [alias |-> RoomAlias(j.words), domain |-> Domain(j.kind)]
Resolves(i) == i.domain = ServerName

\* syncChannelMembersToMatrixRoom: GetChannelMembers takes the number of a
\* page, and is given an offset.
MembersOnPage(p) == {m \in Member : LET i == Cardinality({n \in Member : n < m}) IN i \div Limit = p}
SyncMembers(s) ==
    LET j == job[s]
        found == MembersOnPage(j.offset)
        Brought(members) == guests' = IF Resolves(Returned(j)) THEN guests \cup ({RoomAlias(j.words)} \X members) ELSE guests
    IN  /\ j.pc = "members"
        /\ \/ /\ Brought(found)
              /\ IF found = {} THEN Goto(s, "forward") ELSE job' = [job EXCEPT ![s].offset = @ + Limit]
              /\ Fine
           \/ Fault /\ UNCHANGED guests /\ Goto(s, "forward")
           \/ /\ Fault /\ \E m \in found : Brought(found \ {m})
              /\ job' = [job EXCEPT ![s].offset = @ + Limit]
        /\ UNCHANGED <<mattermost, rooms, children, kvstore, counts>>

\* The command ends if this fails, the hook does not.
StoreForward(s) ==
    LET j == job[s]
    IN  /\ j.pc = "forward"
        /\ \/ /\ channelKey' = [channelKey EXCEPT ![j.c] = Returned(j)]
              /\ Goto(s, "reverse") /\ Fine
           \/ /\ Fault /\ UNCHANGED channelKey
              /\ IF j.kind = "create" THEN Return(s) ELSE Goto(s, "reverse")
        /\ UNCHANGED <<mattermost, matrix, roomKey, teamKey, counts>>

StoreReverse(s) ==
    LET j == job[s]
    IN  /\ j.pc = "reverse"
        /\ \/ roomKey' = Put(roomKey, Returned(j), j.c) /\ Fine
           \/ Fault /\ UNCHANGED roomKey
        /\ IF j.kind = "create" THEN Return(s) ELSE Goto(s, "find")
        /\ UNCHANGED <<mattermost, matrix, channelKey, teamKey, counts>>

\* The team's space is looked up once.
FindSpace(s) ==
    /\ job[s].pc = "find"
    /\ \/ /\ IF teamKey[job[s].t] = None THEN Return(s) ELSE Goto(s, "child")
          /\ Fine
       \/ Fault /\ Return(s)
    /\ UNCHANGED <<mattermost, matrix, kvstore, counts>>

\* AddSpaceChild.
AddSpaceChild(s) ==
    LET j == job[s]
    IN  /\ j.pc = "child"
        /\ \/ children' = children \cup {<<teamKey[j.t], Returned(j)>>} /\ Fine
           \/ Fault /\ UNCHANGED children
        /\ Return(s)
        /\ UNCHANGED <<mattermost, rooms, guests, kvstore, counts>>

-----------------------------------------------------------------------------
(* The backfill. *)

\* backfillTeams, backfillChannels: the teams of this moment.
ListTeams(s) ==
    LET j == job[s]
        next == IF j.pc = "teams" THEN "eachTeam" ELSE "eachList"
    IN  /\ j.pc \in {"teams", "listTeams"}
        /\ \/ job' = [job EXCEPT ![s].teams = team, ![s].pc = next] /\ Fine
           \/ Fault /\ Goto(s, next)
        /\ UNCHANGED <<mattermost, matrix, kvstore, counts>>

\* SyncTeam, for each team in the order of the list.
SyncTeam(s) ==
    LET j == job[s]
    IN  /\ j.pc = "eachTeam"
        /\ IF j.teams = {}
           THEN (IF j.mode = "all" THEN Goto(s, "listTeams") ELSE job' = [job EXCEPT ![s] = Idle]) /\ Fine
           ELSE LET t == CHOOSE u \in j.teams : TRUE IN
                  \/ job' = [job EXCEPT ![s].teams = @ \ {t}, ![s].t = t, ![s].pc = "space"] /\ Fine
                  \/ Fault /\ job' = [job EXCEPT ![s].teams = @ \ {t}]
        /\ UNCHANGED <<mattermost, matrix, kvstore, counts>>

NextTeam(s) ==
    LET j == job[s]
    IN  /\ j.pc = "eachList"
        /\ IF j.teams = {} THEN job' = [job EXCEPT ![s] = Idle]
           ELSE LET t == CHOOSE u \in j.teams : TRUE IN job' = [job EXCEPT ![s].teams = @ \ {t}, ![s].t = t, ![s].page = 0, ![s].pc = "page"]
        /\ UNCHANGED <<mattermost, matrix, kvstore, history, faults>>

\* Mutant: the page is counted before it is read.
ListChannels_PageAhead(s) ==
    LET j == job[s]
        public == {c \in Channel : Live(c) /\ ~channel[c].private /\ channel[c].team = j.t}
        found == {c \in public : Cardinality({d \in public : d < c}) \div PageSize = j.page + 1}
    IN  /\ j.pc = "page"
        /\ job' = [job EXCEPT ![s].channels = found, ![s].page = @ + 1,
                              ![s].pc = IF found = {} THEN "eachList" ELSE "eachChannel"]
        /\ Fine /\ UNCHANGED <<mattermost, matrix, kvstore, counts>>

\* GetPublicChannelsForTeam: the channels that are on the page by now.
ListChannels(s) ==
    LET j == job[s]
        public == {c \in Channel : Live(c) /\ ~channel[c].private /\ channel[c].team = j.t}
        found == {c \in public : Cardinality({d \in public : d < c}) \div PageSize = j.page}
    IN  /\ j.pc = "page"
        /\ \/ /\ job' = [job EXCEPT ![s].channels = found, ![s].page = @ + 1,
                                    ![s].pc = IF found = {} THEN "eachList" ELSE "eachChannel"]
              /\ Fine
           \/ Fault /\ Goto(s, "eachList")
        /\ UNCHANGED <<mattermost, matrix, kvstore, counts>>

\* SyncChannel, for each channel of the page: the channel is read again.
SyncChannel(s) ==
    LET j == job[s]
        Taken(c, pc) == job' = [job EXCEPT ![s].channels = @ \ {c}, ![s].c = c, ![s].pc = pc,
                                           ![s].words = channel[c].name, ![s].public = ~channel[c].private]
    IN  /\ j.pc = "eachChannel"
        /\ IF j.channels = {} THEN Goto(s, "page") /\ Fine
           ELSE \E c \in j.channels : (Taken(c, "team") /\ Fine) \/ (Fault /\ Taken(c, "eachChannel"))
        /\ UNCHANGED <<mattermost, matrix, kvstore, counts>>

-----------------------------------------------------------------------------
Step(s) == \/ CreateSpace(s) \/ StoreTeam(s)
           \/ GetTeam(s) \/ CreateRoom(s) \/ Open(s) \/ SyncMembers(s)
           \/ StoreForward(s) \/ StoreReverse(s) \/ FindSpace(s) \/ AddSpaceChild(s)
           \/ ListTeams(s) \/ SyncTeam(s) \/ NextTeam(s) \/ ListChannels(s) \/ SyncChannel(s)
Next == \/ \E s \in Slot : \/ \E t \in Team : CreateTeam(s, t)
                           \/ \E c \in Channel : CreateChannel(s, c) \/ CreateCommand(s, c)
                           \/ BackfillCommand(s)
                           \/ Step(s)
        \/ \E c \in Channel : Change(c)
        \/ Crash
Spec == Init /\ [][Next]_vars

-----------------------------------------------------------------------------
(* Properties. *)

LeadsTo(i, c) ==
    /\ i.alias \in DOMAIN rooms /\ rooms[i.alias].of = c
    /\ i.domain = Domain("hook") \/ \E publish \in BOOLEAN : <<c, publish>> \in asked

\* What is stored for a channel or a team names a room or a space made for it,
\* and what is stored for a room its channel: however names clash, hooks,
\* commands and backfills overlap and team lookups fail.  Its domain is the
\* hook's, but where a /matrix create asked for a room for the channel: if
\* MatrixServerDomain is right, no other channel's room is stored in vain.
LeadsHome ==
    /\ \A c \in Channel : channelKey[c] # None => LeadsTo(channelKey[c], c)
    /\ \A t \in Team : teamKey[t] # None => teamKey[t] \in DOMAIN rooms /\ rooms[teamKey[t]].of = t
    /\ \A i \in DOMAIN roomKey : LeadsTo(i, roomKey[i])

\* A channel has one room, however often it is created and backfilled, and one
\* more for each renaming, for each room asked for under another name and for
\* each failing lookup.
FewRooms ==
    \A c \in Channel : Cardinality({a \in DOMAIN rooms : rooms[a].of = c}) <= 1 + changes + extra + faults

\* The room of a private channel is public only if a command said so.
PrivateHidden ==
    \A a \in DOMAIN rooms : LET c == rooms[a].of IN
        c \in Channel /\ channel[c].private /\ rooms[a].public => <<c, TRUE>> \in asked

OwnRooms == LeadsHome /\ FewRooms /\ PrivateHidden

AtRest == \A s \in Slot : job[s] = Idle

\* When all is done and no call failed, each room has been stored with its
\* channel and the channel has a room stored, and each space with its team.
NoOrphans ==
    AtRest /\ faults = 0 =>
        \A a \in DOMAIN rooms :
            LET of == rooms[a].of
            IN  IF of \in Team THEN teamKey[of] = a
                ELSE channelKey[of] # None /\ \E i \in DOMAIN roomKey : i.alias = a /\ roomKey[i] = of

\* A backfill of everything that nothing disturbs gives every public channel
\* that had no room, and whose name no other channel or team shares, a room in
\* the space of its team, whatever the pages of the listing; the room goes by
\* the channel's name and the domain that is set.
BackfillCompletes ==
    AtRest => \A c \in promise :
                  /\ channelKey[c] = [alias |-> RoomAlias(NameOf(c)), domain |-> Domain("backfill")]
                  /\ channelKey[c] \in DOMAIN roomKey
                  /\ <<teamKey[channel[c].team], channelKey[c]>> \in children

Settled == NoOrphans /\ BackfillCompletes
=============================================================================
