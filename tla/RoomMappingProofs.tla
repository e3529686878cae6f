------------------------- MODULE RoomMappingProofs -------------------------
(***************************************************************************)
(* Proofs about RoomMapping, for any channels, rooms, aliases, goroutines, *)
(* time to live and bounds: types; what a lookup answers is no staler than *)
(* the cache allows; rooms lead back to their channels.                    *)
(***************************************************************************)
EXTENDS RoomMapping, TLAPS

-----------------------------------------------------------------------------
(* What lookups and commands hold *)

LookupRecord == [pc : {"idle", "fill", "answered", "forward", "cache", "reverse"},
                 channel : Channel \cup {None},
                 value : Room \cup {None},
                 again : BOOLEAN]
CmdRecord == [pc : {"idle", "room", "forward", "reverse", "roomID",
                    "clear", "dropForward", "dropReverse"},
              kind : {"none", "map", "create", "join", "hook", "dm", "unmap"},
              channel : Channel \cup {None},
              room : Room \cup {None}]

Fresh == {"forward", "cache", "reverse"}
Writes == {"forward", "reverse", "roomID"}
Drops == {"dropForward", "dropReverse"}

LookupOK(l) ==
    /\ l.pc = "idle" => l = NoLookup
    /\ l.pc # "idle" => l.channel \in Channel
    /\ l.pc \in Fresh => l.channel \in Dm /\ l.value \in RoomID

CmdOK(m) ==
    /\ m.pc = "idle" => m = NoCmd
    /\ m.pc # "idle" => m.channel \in Channel
    /\ m.pc = "room" => m.kind = "hook" /\ m.room = None
    /\ m.pc \in Writes => m.kind \in {"map", "create", "join", "hook", "dm"} /\ m.room \in Room
    /\ m.pc = "roomID" => m.kind \in {"map", "join"} /\ m.room \in Alias
    /\ m.kind \in {"create", "hook"} => m.room \in Alias \cup {None}
    /\ m.kind = "dm" => m.room \in RoomID
    /\ m.pc \in {"clear"} \cup Drops => m.kind = "unmap" /\ m.room \in Room
    /\ m.pc \in Drops => m.room \in RoomID

\* A channel is changed by one command, or by join and the hook.
Apart == \A x, y \in Changer :
            x # y /\ cmd[x].pc # "idle" /\ cmd[x].channel = cmd[y].channel =>
                {cmd[x].kind, cmd[y].kind} = {"join", "hook"}

Typed == /\ TypeOK
         /\ \A p \in Reader : LookupOK(lookup[p])
         /\ \A x \in Changer : CmdOK(cmd[x])
         /\ Apart

-----------------------------------------------------------------------------
(* The steps, as what they do to the records *)

LEMMA Identifiers ==
    /\ Room = RoomID \cup Alias /\ None \notin Room /\ None \notin Channel
    /\ \A i \in Room : RoomIDOf(i) \in RoomID
    /\ \A a \in Alias : RoomIDOf(a) = RoomOf[a] /\ RoomOf[a] \in RoomID /\ a \notin RoomID
    /\ \A r \in RoomID : RoomIDOf(r) = r /\ r \notin Alias
BY RoomMappingAssumption DEF Room, RoomIDOf

LEMMA Records ==
    /\ \A m \in CmdRecord :
          m = [pc |-> m.pc, kind |-> m.kind, channel |-> m.channel, room |-> m.room]
    /\ \A l \in LookupRecord :
          l = [pc |-> l.pc, channel |-> l.channel, value |-> l.value, again |-> l.again]
    /\ NoCmd \in CmdRecord /\ CmdOK(NoCmd)
    /\ NoLookup \in LookupRecord /\ LookupOK(NoLookup)
BY Identifiers DEF CmdRecord, LookupRecord, NoCmd, NoLookup, CmdOK, LookupOK, Fresh, Writes, Drops

\* Command x is now m, and the others are as they were.
Becomes(x, m) == /\ cmd' \in [Changer -> CmdRecord]
                 /\ cmd'[x] = m
                 /\ \A y \in Changer \ {x} : cmd'[y] = cmd[y]

\* Lookup p is now l, and the others are as they were.
Turns(p, l) == /\ lookup' \in [Reader -> LookupRecord]
               /\ lookup'[p] = l
               /\ \A q \in Reader \ {p} : lookup'[q] = lookup[q]

At_(m, pc) == [pc |-> pc, kind |-> m.kind, channel |-> m.channel, room |-> m.room]

LEMMA CmdSteps ==
    ASSUME Typed, NEW x \in Changer
    PROVE  /\ Done(x) => Becomes(x, NoCmd)
           /\ \A pc \in {"forward", "reverse", "roomID", "dropForward", "dropReverse"} :
                 Step(x, pc) => Becomes(x, At_(cmd[x], pc))
           /\ \A m \in CmdRecord : cmd' = [cmd EXCEPT ![x] = m] => Becomes(x, m)
           /\ \A a \in Room : cmd' = [cmd EXCEPT ![x].pc = "forward", ![x].room = a] =>
                 Becomes(x, [pc |-> "forward", kind |-> cmd[x].kind,
                             channel |-> cmd[x].channel, room |-> a])
<1>1. cmd \in [Changer -> CmdRecord]
  BY DEF Typed, TypeOK, CmdRecord
<1>2. \A m \in CmdRecord : cmd' = [cmd EXCEPT ![x] = m] => Becomes(x, m)
  BY <1>1 DEF Becomes
<1>3. Done(x) => Becomes(x, NoCmd)
  BY <1>2, Records DEF Done
<1>4. cmd[x] \in CmdRecord
  BY <1>1
<1>5. ASSUME NEW pc \in {"forward", "reverse", "roomID", "dropForward", "dropReverse"}, Step(x, pc)
      PROVE  Becomes(x, At_(cmd[x], pc))
  <2>1. At_(cmd[x], pc) \in CmdRecord
    BY <1>4 DEF At_, CmdRecord
  <2>2. [cmd[x] EXCEPT !.pc = pc] = At_(cmd[x], pc)
    BY <1>4 DEF At_, CmdRecord
  <2>3. cmd' = [cmd EXCEPT ![x] = [cmd[x] EXCEPT !.pc = pc]]
    BY <1>5 DEF Step
  <2>. QED  BY <1>2, <2>1, <2>2, <2>3
<1>6. ASSUME NEW a \in Room, cmd' = [cmd EXCEPT ![x].pc = "forward", ![x].room = a]
      PROVE  Becomes(x, [pc |-> "forward", kind |-> cmd[x].kind,
                         channel |-> cmd[x].channel, room |-> a])
  <2>. DEFINE m == [pc |-> "forward", kind |-> cmd[x].kind, channel |-> cmd[x].channel, room |-> a]
  <2>1. m \in CmdRecord
    BY <1>4 DEF CmdRecord
  <2>2. [[cmd[x] EXCEPT !.pc = "forward"] EXCEPT !.room = a] = m
    <3>1. PICK n : n = [cmd[x] EXCEPT !.pc = "forward"]
      OBVIOUS
    <3>2. n = At_(cmd[x], "forward")
      BY <1>4, <3>1 DEF CmdRecord, At_
    <3>3. [n EXCEPT !.room = a] = m
      BY <3>2 DEF At_
    <3>. QED  BY <3>1, <3>3
  <2>3. cmd' = [cmd EXCEPT ![x] = [[cmd[x] EXCEPT !.pc = "forward"] EXCEPT !.room = a]]
    BY <1>1, <1>4, <1>6
  <2>. HIDE DEF m
  <2>. QED  BY <1>2, <2>1, <2>2, <2>3 DEF m
<1>. QED  BY <1>2, <1>3, <1>5, <1>6

LEMMA LookupSteps ==
    ASSUME Typed, NEW p \in Reader
    PROVE  /\ \A l \in LookupRecord : lookup' = [lookup EXCEPT ![p] = l] => Turns(p, l)
           /\ \A pc \in {"answered", "cache", "reverse"} : Goto(p, pc) =>
                 Turns(p, [pc |-> pc, channel |-> lookup[p].channel,
                           value |-> lookup[p].value, again |-> lookup[p].again])
           /\ \A r \in Room : lookup' = [lookup EXCEPT ![p].pc = "forward", ![p].value = r] =>
                 Turns(p, [pc |-> "forward", channel |-> lookup[p].channel,
                           value |-> r, again |-> lookup[p].again])
<1>1. lookup \in [Reader -> LookupRecord]
  BY DEF Typed, TypeOK, LookupRecord
<1>2. \A l \in LookupRecord : lookup' = [lookup EXCEPT ![p] = l] => Turns(p, l)
  BY <1>1 DEF Turns
<1>3. lookup[p] \in LookupRecord
  BY <1>1
<1>4. ASSUME NEW pc \in {"answered", "cache", "reverse"}, Goto(p, pc)
      PROVE  Turns(p, [pc |-> pc, channel |-> lookup[p].channel,
                       value |-> lookup[p].value, again |-> lookup[p].again])
  <2>. DEFINE l == [pc |-> pc, channel |-> lookup[p].channel,
                    value |-> lookup[p].value, again |-> lookup[p].again]
  <2>1. l \in LookupRecord
    BY <1>3 DEF LookupRecord
  <2>2. [lookup[p] EXCEPT !.pc = pc] = l
    BY <1>3 DEF LookupRecord
  <2>3. lookup' = [lookup EXCEPT ![p] = [lookup[p] EXCEPT !.pc = pc]]
    BY <1>4 DEF Goto
  <2>. HIDE DEF l
  <2>. QED  BY <1>2, <2>1, <2>2, <2>3 DEF l
<1>5. ASSUME NEW r \in Room, lookup' = [lookup EXCEPT ![p].pc = "forward", ![p].value = r]
      PROVE  Turns(p, [pc |-> "forward", channel |-> lookup[p].channel,
                       value |-> r, again |-> lookup[p].again])
  <2>. DEFINE l == [pc |-> "forward", channel |-> lookup[p].channel,
                    value |-> r, again |-> lookup[p].again]
  <2>1. l \in LookupRecord
    BY <1>3 DEF LookupRecord
  <2>2. [[lookup[p] EXCEPT !.pc = "forward"] EXCEPT !.value = r] = l
    <3>1. PICK n : n = [lookup[p] EXCEPT !.pc = "forward"]
      OBVIOUS
    <3>2. n = [pc |-> "forward", channel |-> lookup[p].channel,
               value |-> lookup[p].value, again |-> lookup[p].again]
      BY <1>3, <3>1 DEF LookupRecord
    <3>3. [n EXCEPT !.value = r] = l
      BY <3>2
    <3>. QED  BY <3>1, <3>3
  <2>3. lookup' = [lookup EXCEPT ![p] = [[lookup[p] EXCEPT !.pc = "forward"] EXCEPT !.value = r]]
    BY <1>1, <1>3, <1>5
  <2>. HIDE DEF l
  <2>. QED  BY <1>2, <2>1, <2>2, <2>3 DEF l
<1>. QED  BY <1>2, <1>4, <1>5

-----------------------------------------------------------------------------
(* Types *)

EntryRecord == [value : Room \cup {None}, expiresAt : Nat]

StoreOK == /\ forward \in [Channel -> Room \cup {None}]
           /\ reverse \in [Room -> Channel \cup {None}]
           /\ gone \subseteq Channel \X (Room \cup {None}) \X Nat
           /\ shared \in BOOLEAN
CacheOK == content \in [Channel -> EntryRecord \cup {Absent}] /\ now \in Nat
RestOK == /\ roomState \in [RoomID -> Channel \cup {None}] /\ exists \in SUBSET RoomID
          /\ dmRooms \subseteq Dm \X RoomID /\ manual \in BOOLEAN
          /\ commands \in Nat /\ faults \in 0..MaxFault

LEMMA TypeIs ==
    TypeOK <=> /\ StoreOK /\ CacheOK /\ RestOK
               /\ lookup \in [Reader -> LookupRecord] /\ cmd \in [Changer -> CmdRecord]
BY DEF TypeOK, StoreOK, CacheOK, RestOK, EntryRecord, LookupRecord, CmdRecord

LEMMA TypeIsNext ==
    TypeOK' <=> /\ StoreOK' /\ CacheOK' /\ RestOK'
                /\ lookup' \in [Reader -> LookupRecord] /\ cmd' \in [Changer -> CmdRecord]
BY DEF TypeOK, StoreOK, CacheOK, RestOK, EntryRecord, LookupRecord, CmdRecord

\* The command of one goroutine has changed, or none.
LEMMA TypedCmd ==
    ASSUME Typed, NEW x \in Changer, NEW m \in CmdRecord, Becomes(x, m), CmdOK(m),
           \/ m.pc = "idle"
           \/ /\ cmd[x].pc # "idle" /\ m.channel = cmd[x].channel /\ m.kind = cmd[x].kind
           \/ \A y \in Changer : cmd[y].pc # "idle" => cmd[y].channel # m.channel
    PROVE  (\A y \in Changer : CmdOK(cmd[y]))' /\ Apart'
<1>1. \A y \in Changer : CmdOK(cmd'[y])
  BY DEF Typed, Becomes
<1>2. SUFFICES ASSUME NEW y \in Changer, NEW z \in Changer, y # z,
                      cmd'[y].pc # "idle", cmd'[y].channel = cmd'[z].channel
               PROVE  {cmd'[y].kind, cmd'[z].kind} = {"join", "hook"}
  BY <1>1 DEF Apart
<1>3. PICK b, c : b = cmd'[y] /\ c = cmd'[z]
  OBVIOUS
<1>4. /\ CmdOK(cmd[y]) /\ CmdOK(cmd[z]) /\ CmdOK(b) /\ CmdOK(c)
      /\ b.channel = c.channel /\ b.pc # "idle" /\ None \notin Channel
  BY <1>1, <1>2, <1>3, Identifiers DEF Typed
<1>5. c.pc # "idle"
  BY <1>4 DEF CmdOK, NoCmd
<1>6. CASE y # x /\ z # x
  BY <1>2, <1>3, <1>6 DEF Becomes, Typed, Apart
<1>7. CASE y = x
  <2>1. b = m /\ c = cmd[z]
    BY <1>2, <1>3, <1>7 DEF Becomes
  <2>2. CASE cmd[x].pc # "idle" /\ m.channel = cmd[x].channel /\ m.kind = cmd[x].kind
    <3>1. {cmd[x].kind, cmd[z].kind} = {"join", "hook"}
      BY <1>2, <1>4, <1>7, <2>1, <2>2 DEF Typed, Apart
    <3>. QED  BY <1>3, <2>1, <2>2, <3>1
  <2>3. CASE \A w \in Changer : cmd[w].pc # "idle" => cmd[w].channel # m.channel
    BY <1>4, <1>5, <2>1, <2>3
  <2>. QED  BY <1>4, <2>1, <2>2, <2>3
<1>8. CASE z = x
  <2>1. c = m /\ b = cmd[y]
    BY <1>2, <1>3, <1>8 DEF Becomes
  <2>2. CASE cmd[x].pc # "idle" /\ m.channel = cmd[x].channel /\ m.kind = cmd[x].kind
    <3>1. {cmd[y].kind, cmd[x].kind} = {"join", "hook"}
      BY <1>2, <1>4, <1>8, <2>1, <2>2 DEF Typed, Apart
    <3>. QED  BY <1>3, <2>1, <2>2, <3>1
  <2>3. CASE \A w \in Changer : cmd[w].pc # "idle" => cmd[w].channel # m.channel
    BY <1>4, <1>5, <2>1, <2>3
  <2>. QED  BY <1>5, <2>1, <2>2, <2>3
<1>. QED  BY <1>6, <1>7, <1>8

LEMMA TypedLookup ==
    ASSUME Typed, NEW p \in Reader, NEW l \in LookupRecord, Turns(p, l), LookupOK(l)
    PROVE  \A q \in Reader : LookupOK(lookup'[q])
BY DEF Typed, Turns

LEMMA TypedStore ==
    ASSUME TypeOK
    PROVE  /\ \A c \in Channel, i \in Room \cup {None} : SetForward(c, i) => StoreOK'
           /\ \A i \in Room, c \in Channel \cup {None} : SetReverse(i, c) => StoreOK'
           /\ UNCHANGED kvVars => StoreOK'
           /\ \A c \in Channel, i \in Room : Give(c, i) => StoreOK'
<1>1. StoreOK /\ CacheOK
  BY TypeIs
<1>2. ASSUME NEW c \in Channel, NEW i \in Room \cup {None}, SetForward(c, i)  PROVE StoreOK'
  <2>1. <<c, forward[c], now>> \in Channel \X (Room \cup {None}) \X Nat
    BY <1>1 DEF StoreOK, CacheOK
  <2>. QED  BY <1>1, <1>2, <2>1 DEF StoreOK, SetForward
<1>3. ASSUME NEW i \in Room, NEW c \in Channel \cup {None}, SetReverse(i, c)  PROVE StoreOK'
  BY <1>1, <1>3 DEF StoreOK, SetReverse
<1>4. ASSUME UNCHANGED kvVars  PROVE StoreOK'
  BY <1>1, <1>4 DEF StoreOK, kvVars
<1>5. ASSUME NEW c \in Channel, NEW i \in Room, Give(c, i)  PROVE StoreOK'
  <2>1. PICK b : b = Taken(c, i)
    OBVIOUS
  <2>2. b \in BOOLEAN
    BY <2>1 DEF Taken
  <2>. QED  BY <1>1, <1>5, <2>1, <2>2, Zenon DEF StoreOK, Give
<1>. QED  BY <1>2, <1>3, <1>4, <1>5

LEMMA TypedCache ==
    ASSUME TypeOK
    PROVE  /\ \A c \in Channel, i \in Room \cup {None} : Cache!Put(c, i) => CacheOK'
           /\ Cache!Forget => CacheOK'
           /\ UNCHANGED cacheVars => CacheOK'
           /\ Cache!Age => CacheOK'
<1>1. CacheOK /\ TTL \in Nat
  BY TypeIs, RoomMappingAssumption
<1>2. ASSUME NEW c \in Channel, NEW i \in Room \cup {None}, Cache!Put(c, i)  PROVE CacheOK'
  <2>1. [value |-> i, expiresAt |-> now + TTL] \in EntryRecord
    BY <1>1 DEF CacheOK, EntryRecord
  <2>. QED  BY <1>1, <1>2, <2>1 DEF CacheOK, Cache!Put
<1>3. ASSUME Cache!Forget  PROVE CacheOK'
  BY <1>1, <1>3 DEF CacheOK, Cache!Forget
<1>4. ASSUME UNCHANGED cacheVars  PROVE CacheOK'
  BY <1>1, <1>4 DEF CacheOK, cacheVars
<1>5. ASSUME Cache!Age  PROVE CacheOK'
  BY <1>1, <1>5 DEF CacheOK, Cache!Age
<1>. QED  BY <1>2, <1>3, <1>4, <1>5

LEMMA Faults ==
    ASSUME TypeOK, Works \/ Fails
    PROVE  faults' \in 0..MaxFault /\ (Works => faults' = faults) /\ (Fails => faults' # 0)
<1>1. faults \in 0..MaxFault /\ MaxFault \in Nat
  BY RoomMappingAssumption DEF TypeOK
<1>2. CASE Works
  BY <1>1, <1>2 DEF Works, Fails
<1>3. CASE Fails
  BY <1>1, <1>3 DEF Works, Fails
<1>. QED  BY <1>2, <1>3

-----------------------------------------------------------------------------
(* The readers' steps *)

LookupsOK == \A p \in Reader : LookupOK(lookup[p])
CmdsOK == (\A x \in Changer : CmdOK(cmd[x])) /\ Apart

LEMMA TypedIs ==
    /\ Typed <=> TypeOK /\ LookupsOK /\ CmdsOK
    /\ Typed' <=> TypeOK' /\ LookupsOK' /\ CmdsOK'
BY DEF Typed, LookupsOK, CmdsOK

\* Nothing but a lookup and the cache changes.
LEMMA ReaderTyped ==
    ASSUME Typed, NEW p \in Reader, NEW l \in LookupRecord, Turns(p, l), LookupOK(l),
           StoreOK', CacheOK', faults' \in 0..MaxFault,
           UNCHANGED <<roomState, cmd, manual, commands>>, exists' \in SUBSET RoomID,
           dmRooms' \subseteq Dm \X RoomID
    PROVE  Typed'
<1>1. RestOK /\ cmd' \in [Changer -> CmdRecord] /\ CmdsOK
  BY TypeIs, TypedIs
<1>2. RestOK' /\ CmdsOK'
  BY <1>1 DEF RestOK, CmdsOK, Apart
<1>3. LookupsOK'
  BY TypedLookup DEF LookupsOK
<1>4. lookup' \in [Reader -> LookupRecord]
  BY DEF Turns
<1>. QED  BY <1>1, <1>2, <1>3, <1>4, TypeIsNext, TypedIs

\* What a read finds.
Finds(c, l) ==
    /\ l.channel = c
    /\ \/ l.pc = "answered" /\ Cache!Live(c) /\ l.value = content[c].value /\ Works
       \/ l.pc = "fill" /\ l.value = forward[c] /\ Works
       \/ l.pc = "answered" /\ l.value = None /\ Fails

LEMMA Reads ==
    ASSUME Typed, NEW p \in Reader, NEW c \in Channel, NEW again \in BOOLEAN, Read(p, c, again)
    PROVE  \E l \in LookupRecord : Turns(p, l) /\ Finds(c, l)
<1>1. StoreOK /\ CacheOK
  BY TypeIs, TypedIs
<1>2. \A pc \in {"fill", "answered"}, v \in Room \cup {None} :
         [pc |-> pc, channel |-> c, value |-> v, again |-> again] \in LookupRecord
  BY DEF LookupRecord
<1>3. CASE Cache!Live(c) /\ Answered(p, c, Cache!Answer(c), again) /\ Works
  <2>. DEFINE l == [pc |-> "answered", channel |-> c, value |-> content[c].value, again |-> again]
  <2>1. content[c].value \in Room \cup {None}
    BY <1>1, <1>3 DEF CacheOK, EntryRecord, Cache!Live
  <2>2. l \in LookupRecord
    BY <1>2, <2>1
  <2>3. Cache!Answer(c) = content[c].value
    BY <1>3 DEF Cache!Answer
  <2>4. lookup' = [lookup EXCEPT ![p] = l]
    BY <1>3, <2>3 DEF Answered
  <2>5. Finds(c, l)
    BY <1>3 DEF Finds
  <2>. HIDE DEF l
  <2>. QED  BY <2>2, <2>4, <2>5, LookupSteps
<1>4. CASE ReadStore(p, c, again)
  <2>1. CASE /\ lookup' = [lookup EXCEPT ![p] = [pc |-> "fill", channel |-> c,
                                                value |-> forward[c], again |-> again]]
             /\ Works
    <3>. DEFINE l == [pc |-> "fill", channel |-> c, value |-> forward[c], again |-> again]
    <3>1. l \in LookupRecord
      BY <1>1, <1>2 DEF StoreOK
    <3>2. Finds(c, l) /\ lookup' = [lookup EXCEPT ![p] = l]
      BY <2>1 DEF Finds
    <3>. HIDE DEF l
    <3>. QED  BY <3>1, <3>2, LookupSteps
  <2>2. CASE Answered(p, c, None, again) /\ Fails
    <3>. DEFINE l == [pc |-> "answered", channel |-> c, value |-> None, again |-> again]
    <3>1. l \in LookupRecord
      BY <1>2
    <3>2. Finds(c, l) /\ lookup' = [lookup EXCEPT ![p] = l]
      BY <2>2 DEF Finds, Answered
    <3>. HIDE DEF l
    <3>. QED  BY <3>1, <3>2, LookupSteps
  <2>. QED  BY <1>4, <2>1, <2>2 DEF ReadStore
<1>. QED  BY <1>3, <1>4 DEF Read

LEMMA ReadTyped ==
    ASSUME Typed, NEW p \in Reader, NEW c \in Channel, NEW again \in BOOLEAN, Read(p, c, again)
    PROVE  Typed'
<1>1. PICK l \in LookupRecord : Turns(p, l) /\ Finds(c, l)
  BY Reads
<1>2. LookupOK(l)
  BY <1>1 DEF Finds, LookupOK, Fresh
<1>3. /\ UNCHANGED <<kvVars, roomState, exists, cmd, dmRooms, manual, commands>>
      /\ Cache!Forget /\ (Works \/ Fails)
  BY <1>1 DEF Read, histVars, Finds
<1>4. TypeOK /\ RestOK
  BY TypeIs, TypedIs
<1>5. StoreOK' /\ CacheOK' /\ faults' \in 0..MaxFault
  BY <1>3, <1>4, TypedStore, TypedCache, Faults
<1>. QED  BY <1>1, <1>2, <1>3, <1>4, <1>5, ReaderTyped DEF RestOK

\* A lookup in one of its steps.
LEMMA Looking ==
    ASSUME Typed, NEW p \in Reader, ~At(p, "idle")
    PROVE  /\ lookup[p] \in LookupRecord /\ LookupOK(lookup[p])
           /\ lookup[p].channel \in Channel /\ lookup[p].value \in Room \cup {None}
           /\ lookup[p].again \in BOOLEAN
           /\ Creating(p) <=> lookup[p].pc \in Fresh
           /\ Creating(p) => lookup[p].channel \in Dm /\ lookup[p].value \in RoomID
BY TypeIs, TypedIs DEF LookupsOK, LookupOK, LookupRecord, At, Creating, Fresh

GoneTo(l, pc) == [pc |-> pc, channel |-> l.channel, value |-> l.value, again |-> l.again]

LEMMA CacheFillSteps ==
    ASSUME Typed, NEW p \in Reader, CacheFill(p)
    PROVE  /\ At(p, "fill") /\ Turns(p, GoneTo(lookup[p], "answered"))
           /\ Cache!Put(lookup[p].channel, lookup[p].value)
           /\ lookup[p].channel \in Channel /\ lookup[p].value \in Room \cup {None}
           /\ UNCHANGED <<forward, reverse, gone, shared, roomState, exists, cmd, dmRooms,
                          manual, commands, faults>>
           /\ Typed'
<1>1. At(p, "fill") /\ Goto(p, "answered") /\ Cache!Put(lookup[p].channel, lookup[p].value)
      /\ UNCHANGED <<kvVars, roomState, exists, cmd, histVars, commands, faults>>
  BY DEF CacheFill
<1>2. Turns(p, GoneTo(lookup[p], "answered"))
  BY <1>1, LookupSteps DEF GoneTo
<1>3. /\ lookup[p].channel \in Channel /\ lookup[p].value \in Room \cup {None}
      /\ lookup[p].again \in BOOLEAN
  BY <1>1, Looking DEF At
<1>4. GoneTo(lookup[p], "answered") \in LookupRecord /\ LookupOK(GoneTo(lookup[p], "answered"))
  BY <1>3 DEF GoneTo, LookupRecord, LookupOK, Fresh
<1>5. TypeOK /\ RestOK
  BY TypeIs, TypedIs
<1>6. StoreOK' /\ CacheOK' /\ faults' \in 0..MaxFault
  BY <1>1, <1>3, <1>5, TypedStore, TypedCache DEF RestOK
<1>7. UNCHANGED <<forward, reverse, gone, shared, roomState, exists, cmd, dmRooms,
                  manual, commands, faults>>
  BY <1>1 DEF kvVars, histVars
<1>8. Typed'
  BY <1>2, <1>4, <1>5, <1>6, <1>7, ReaderTyped DEF RestOK
<1>. QED  BY <1>1, <1>2, <1>3, <1>7, <1>8

LEMMA LookupEndSteps ==
    ASSUME Typed, NEW p \in Reader, LookupEnd(p)
    PROVE  /\ At(p, "answered") /\ Turns(p, NoLookup)
           /\ UNCHANGED <<forward, reverse, gone, shared, roomState, exists, cmd, dmRooms,
                          manual, commands, faults, content, now>>
           /\ Typed'
<1>1. At(p, "answered") /\ lookup' = [lookup EXCEPT ![p] = NoLookup]
      /\ UNCHANGED <<kvVars, roomState, exists, cacheVars, cmd, histVars, commands, faults>>
  BY DEF LookupEnd
<1>2. Turns(p, NoLookup)
  BY <1>1, LookupSteps, Records
<1>3. TypeOK /\ RestOK
  BY TypeIs, TypedIs
<1>4. StoreOK' /\ CacheOK'
  BY <1>1, <1>3, TypedStore, TypedCache
<1>5. UNCHANGED <<forward, reverse, gone, shared, roomState, exists, cmd, dmRooms,
                  manual, commands, faults, content, now>>
  BY <1>1 DEF kvVars, histVars, cacheVars
<1>6. Typed'
  BY <1>2, <1>3, <1>4, <1>5, Records, ReaderTyped DEF RestOK
<1>. QED  BY <1>1, <1>2, <1>5, <1>6

LEMMA CreateDirectRoomSteps ==
    ASSUME Typed, NEW p \in Reader, NEW r \in RoomID, CreateDirectRoom(p, r)
    PROVE  /\ At(p, "answered") /\ lookup[p].channel \in Dm \cap Channel
           /\ Turns(p, [pc |-> "forward", channel |-> lookup[p].channel,
                        value |-> r, again |-> lookup[p].again])
           /\ r \notin exists /\ (\A a \in Alias : RoomOf[a] # r)
           /\ exists' = exists \cup {r}
           /\ dmRooms' = dmRooms \cup {<<lookup[p].channel, r>>}
           /\ UNCHANGED <<forward, reverse, gone, shared, roomState, cmd,
                          manual, commands, faults, content, now>>
           /\ Typed'
<1>1. /\ At(p, "answered") /\ lookup[p].channel \in Dm /\ r \notin exists
      /\ (\A a \in Alias : RoomOf[a] # r)
      /\ exists' = exists \cup {r} /\ dmRooms' = dmRooms \cup {<<lookup[p].channel, r>>}
      /\ lookup' = [lookup EXCEPT ![p].pc = "forward", ![p].value = r]
      /\ UNCHANGED <<kvVars, roomState, cacheVars, cmd, manual, commands, faults>>
  BY DEF CreateDirectRoom, Unanswered
<1>2. r \in Room
  BY Identifiers
<1>. DEFINE l == [pc |-> "forward", channel |-> lookup[p].channel,
                  value |-> r, again |-> lookup[p].again]
<1>3. Turns(p, l)
  BY <1>1, <1>2, LookupSteps
<1>4. lookup[p].channel \in Channel /\ lookup[p].again \in BOOLEAN
  BY <1>1, Looking DEF At
<1>5. l \in LookupRecord /\ LookupOK(l)
  BY <1>1, <1>2, <1>4 DEF LookupRecord, LookupOK, Fresh
<1>. HIDE DEF l
<1>6. TypeOK /\ RestOK
  BY TypeIs, TypedIs
<1>7. StoreOK' /\ CacheOK'
  BY <1>1, <1>6, TypedStore, TypedCache
<1>8. UNCHANGED <<forward, reverse, gone, shared, roomState, cmd,
                  manual, commands, faults, content, now>>
  BY <1>1 DEF kvVars, cacheVars
<1>9. exists' \in SUBSET RoomID /\ dmRooms' \subseteq Dm \X RoomID
  BY <1>1, <1>6 DEF RestOK
<1>10. Typed'
  BY <1>3, <1>5, <1>6, <1>7, <1>8, <1>9, ReaderTyped DEF RestOK
<1>. QED  BY <1>1, <1>3, <1>4, <1>8, <1>10 DEF l

LEMMA DmForwardSteps ==
    ASSUME Typed, NEW p \in Reader, DmForward(p)
    PROVE  /\ At(p, "forward") /\ lookup[p].channel \in Channel /\ lookup[p].value \in RoomID
           /\ \/ /\ SetForward(lookup[p].channel, lookup[p].value) /\ faults' = faults
                 /\ Turns(p, GoneTo(lookup[p], "cache"))
              \/ /\ faults' # 0 /\ Turns(p, NoLookup)
                 /\ UNCHANGED <<forward, reverse, gone, shared>>
           /\ UNCHANGED <<roomState, exists, cmd, dmRooms, manual, commands, content, now>>
           /\ Typed'
<1>1. /\ At(p, "forward") /\ (Works \/ Fails)
      /\ UNCHANGED <<roomState, exists, cacheVars, cmd, histVars, commands>>
  BY DEF DmForward
<1>2. /\ lookup[p].channel \in Channel \cap Dm /\ lookup[p].value \in RoomID
      /\ lookup[p].again \in BOOLEAN
  BY <1>1, Looking DEF At, Fresh
<1>3. TypeOK /\ RestOK /\ lookup[p].value \in Room
  BY <1>2, TypeIs, TypedIs, Identifiers
<1>4. faults' \in 0..MaxFault /\ CacheOK'
  BY <1>1, <1>3, Faults, TypedCache
<1>5. UNCHANGED <<roomState, exists, cmd, dmRooms, manual, commands, content, now>>
  BY <1>1 DEF histVars, cacheVars
<1>6. CASE SetForward(lookup[p].channel, lookup[p].value) /\ Goto(p, "cache") /\ Works
  <2>1. Turns(p, GoneTo(lookup[p], "cache"))
    BY <1>6, LookupSteps DEF GoneTo
  <2>2. GoneTo(lookup[p], "cache") \in LookupRecord /\ LookupOK(GoneTo(lookup[p], "cache"))
    BY <1>2, <1>3 DEF GoneTo, LookupRecord, LookupOK, Fresh
  <2>3. StoreOK' /\ faults' = faults
    BY <1>2, <1>3, <1>6, TypedStore, Faults
  <2>4. Typed'
    BY <1>3, <1>4, <1>5, <2>1, <2>2, <2>3, ReaderTyped DEF RestOK
  <2>. QED  BY <1>1, <1>2, <1>5, <1>6, <2>1, <2>3, <2>4
<1>7. CASE Fails /\ UNCHANGED kvVars /\ lookup' = [lookup EXCEPT ![p] = NoLookup]
  <2>1. Turns(p, NoLookup)
    BY <1>7, LookupSteps, Records
  <2>2. StoreOK' /\ faults' # 0 /\ UNCHANGED <<forward, reverse, gone, shared>>
    BY <1>3, <1>7, TypedStore, Faults DEF kvVars
  <2>3. Typed'
    BY <1>3, <1>4, <1>5, <2>1, <2>2, Records, ReaderTyped DEF RestOK
  <2>. QED  BY <1>1, <1>2, <1>5, <2>1, <2>2, <2>3
<1>. QED  BY <1>6, <1>7 DEF DmForward

LEMMA DmCacheSteps ==
    ASSUME Typed, NEW p \in Reader, DmCache(p)
    PROVE  /\ At(p, "cache") /\ Turns(p, GoneTo(lookup[p], "reverse"))
           /\ Cache!Put(lookup[p].channel, lookup[p].value)
           /\ lookup[p].channel \in Channel /\ lookup[p].value \in RoomID
           /\ UNCHANGED <<forward, reverse, gone, shared, roomState, exists, cmd, dmRooms,
                          manual, commands, faults>>
           /\ Typed'
<1>1. At(p, "cache") /\ Goto(p, "reverse") /\ Cache!Put(lookup[p].channel, lookup[p].value)
      /\ UNCHANGED <<kvVars, roomState, exists, cmd, histVars, commands, faults>>
  BY DEF DmCache
<1>2. Turns(p, GoneTo(lookup[p], "reverse"))
  BY <1>1, LookupSteps DEF GoneTo
<1>3. /\ lookup[p].channel \in Channel \cap Dm /\ lookup[p].value \in RoomID
      /\ lookup[p].again \in BOOLEAN /\ lookup[p].value \in Room
  BY <1>1, Looking, Identifiers DEF At, Fresh
<1>4. GoneTo(lookup[p], "reverse") \in LookupRecord /\ LookupOK(GoneTo(lookup[p], "reverse"))
  BY <1>3 DEF GoneTo, LookupRecord, LookupOK, Fresh
<1>5. TypeOK /\ RestOK
  BY TypeIs, TypedIs
<1>6. StoreOK' /\ CacheOK' /\ faults' \in 0..MaxFault
  BY <1>1, <1>3, <1>5, TypedStore, TypedCache DEF RestOK
<1>7. UNCHANGED <<forward, reverse, gone, shared, roomState, exists, cmd, dmRooms,
                  manual, commands, faults>>
  BY <1>1 DEF kvVars, histVars
<1>8. Typed'
  BY <1>2, <1>4, <1>5, <1>6, <1>7, ReaderTyped DEF RestOK
<1>. QED  BY <1>1, <1>2, <1>3, <1>7, <1>8

LEMMA DmReverseSteps ==
    ASSUME Typed, NEW p \in Reader, DmReverse(p)
    PROVE  /\ At(p, "reverse") /\ lookup[p].channel \in Channel /\ lookup[p].value \in RoomID
           /\ \/ SetReverse(lookup[p].value, lookup[p].channel) /\ faults' = faults
              \/ faults' # 0 /\ UNCHANGED <<forward, reverse, gone, shared>>
           /\ Turns(p, NoLookup)
           /\ UNCHANGED <<roomState, exists, cmd, dmRooms, manual, commands, content, now>>
           /\ Typed'
<1>1. /\ At(p, "reverse") /\ (Works \/ Fails) /\ lookup' = [lookup EXCEPT ![p] = NoLookup]
      /\ UNCHANGED <<roomState, exists, cacheVars, cmd, histVars, commands>>
  BY DEF DmReverse
<1>2. lookup[p].channel \in Channel \cap Dm /\ lookup[p].value \in RoomID
  BY <1>1, Looking DEF At, Fresh
<1>3. TypeOK /\ RestOK /\ lookup[p].value \in Room
  BY <1>2, TypeIs, TypedIs, Identifiers
<1>4. faults' \in 0..MaxFault /\ CacheOK'
  BY <1>1, <1>3, Faults, TypedCache
<1>5. UNCHANGED <<roomState, exists, cmd, dmRooms, manual, commands, content, now>>
  BY <1>1 DEF histVars, cacheVars
<1>6. Turns(p, NoLookup)
  BY <1>1, LookupSteps, Records
<1>7. \/ SetReverse(lookup[p].value, lookup[p].channel) /\ faults' = faults /\ StoreOK'
      \/ faults' # 0 /\ UNCHANGED <<forward, reverse, gone, shared>> /\ StoreOK'
  <2>1. CASE SetReverse(lookup[p].value, lookup[p].channel) /\ Works
    BY <1>2, <1>3, <2>1, TypedStore, Faults
  <2>2. CASE Fails /\ UNCHANGED kvVars
    BY <1>3, <2>2, TypedStore, Faults DEF kvVars
  <2>. QED  BY <2>1, <2>2 DEF DmReverse
<1>8. Typed'
  BY <1>3, <1>4, <1>5, <1>6, <1>7, Records, ReaderTyped DEF RestOK
<1>. QED  BY <1>1, <1>2, <1>5, <1>6, <1>7, <1>8

-----------------------------------------------------------------------------
(* The commands' steps *)

\* A command may start on channel c.
Free(c) == \A y \in Changer : cmd[y].pc # "idle" => cmd[y].channel # c

LEMMA ActorTyped ==
    ASSUME Typed, NEW x \in Changer, NEW m \in CmdRecord, Becomes(x, m), CmdOK(m),
           \/ m.pc = "idle"
           \/ /\ cmd[x].pc # "idle" /\ m.channel = cmd[x].channel /\ m.kind = cmd[x].kind
           \/ Free(m.channel),
           StoreOK', RestOK', UNCHANGED <<lookup, content, now>>
    PROVE  Typed'
<1>1. CacheOK /\ LookupsOK /\ lookup \in [Reader -> LookupRecord]
  BY TypeIs, TypedIs
<1>2. CacheOK' /\ LookupsOK'
  BY <1>1 DEF CacheOK, LookupsOK
<1>3. CmdsOK'
  BY TypedCmd DEF CmdsOK, Free
<1>4. cmd' \in [Changer -> CmdRecord]
  BY DEF Becomes
<1>. QED  BY <1>1, <1>2, <1>3, <1>4, TypeIsNext, TypedIs

\* A command in one of its steps.
LEMMA Working ==
    ASSUME Typed, NEW x \in Changer, cmd[x].pc # "idle"
    PROVE  /\ cmd[x] \in CmdRecord /\ CmdOK(cmd[x]) /\ cmd[x].channel \in Channel
           /\ cmd[x].pc \in Writes \cup {"clear"} \cup Drops => cmd[x].room \in Room
BY TypeIs, TypedIs DEF CmdsOK, CmdOK, CmdRecord, Writes, Drops

LEMMA RestIs ==
    ASSUME RestOK, faults' \in 0..MaxFault, commands' \in Nat,
           roomState' \in [RoomID -> Channel \cup {None}], exists' \in SUBSET RoomID,
           dmRooms' \subseteq Dm \X RoomID, manual' \in BOOLEAN
    PROVE  RestOK'
BY DEF RestOK

\* How a command starts.
Starts(x, k, c, i, pc) ==
    /\ cmd[x].pc = "idle" /\ Free(c) /\ Give(c, i)
    /\ Becomes(x, [pc |-> pc, kind |-> k, channel |-> c, room |-> i])
    /\ faults' = faults /\ UNCHANGED <<lookup, content, now>>

LEMMA BeginSteps ==
    ASSUME Typed, NEW x \in Changer, NEW k \in {"map", "create", "hook", "dm"},
           NEW c \in Channel, NEW i \in Room, Begin(x, k, c, i, "forward"),
           k \in {"create", "hook"} => i \in Alias, k = "dm" => i \in RoomID,
           roomState' \in [RoomID -> Channel \cup {None}], exists' \in SUBSET RoomID,
           dmRooms' \subseteq Dm \X RoomID, manual' \in BOOLEAN
    PROVE  Starts(x, k, c, i, "forward") /\ Typed'
<1>. DEFINE m == [pc |-> "forward", kind |-> k, channel |-> c, room |-> i]
<1>1. /\ MayBegin(x, c) /\ Give(c, i) /\ cmd' = [cmd EXCEPT ![x] = m]
      /\ UNCHANGED <<lookup, content, now, faults>>
  BY DEF Begin, cacheVars
<1>2. cmd[x].pc = "idle" /\ Free(c) /\ commands' = commands + 1
  BY <1>1 DEF MayBegin, Free
<1>3. m \in CmdRecord /\ CmdOK(m) /\ m.channel = c
  BY Identifiers DEF CmdRecord, CmdOK, Writes, Drops
<1>. HIDE DEF m
<1>4. Becomes(x, m)
  BY <1>1, <1>3, CmdSteps
<1>5. TypeOK /\ RestOK
  BY TypeIs, TypedIs
<1>6. StoreOK'
  BY <1>1, <1>5, TypedStore
<1>7. RestOK'
  BY <1>1, <1>2, <1>5, RestIs DEF RestOK
<1>8. Typed'
  BY <1>1, <1>2, <1>3, <1>4, <1>6, <1>7, ActorTyped
<1>. QED  BY <1>1, <1>2, <1>4, <1>8 DEF Starts, m

LEMMA MapSteps ==
    ASSUME Typed, NEW x \in Changer, NEW c \in Channel, NEW i \in Room, MapCommand(x, c, i)
    PROVE  /\ RoomIDOf(i) \in exists /\ Untouched(c, RoomIDOf(i))
           /\ Starts(x, "map", c, i, "forward") /\ manual'
           /\ UNCHANGED <<roomState, exists, dmRooms>>
           /\ Typed'
<1>1. RestOK
  BY TypeIs, TypedIs
<1>. QED  BY <1>1, BeginSteps DEF MapCommand, RestOK

LEMMA CreateSteps ==
    ASSUME Typed, NEW x \in Changer, NEW c \in Channel, NEW a \in Alias, CreateCommand(x, c, a)
    PROVE  /\ RoomOf[a] \notin exists /\ Untouched(c, RoomOf[a])
           /\ \E k \in {"create", "hook"} : Starts(x, k, c, a, "forward")
           /\ manual' /\ exists' = exists \cup {RoomOf[a]}
           /\ roomState' = [roomState EXCEPT ![RoomOf[a]] = c]
           /\ dmRooms' = dmRooms
           /\ Typed'
<1>1. RestOK /\ a \in Room /\ RoomOf[a] \in RoomID
  BY TypeIs, TypedIs, Identifiers
<1>2. /\ exists' = exists \cup {RoomOf[a]} /\ manual' = TRUE /\ dmRooms' = dmRooms
      /\ roomState' = [roomState EXCEPT ![RoomOf[a]] = c]
      /\ RoomOf[a] \notin exists /\ Untouched(c, RoomOf[a])
      /\ (Begin(x, "create", c, a, "forward") \/ Begin(x, "hook", c, a, "forward"))
  BY DEF CreateCommand
<1>3. exists' \in SUBSET RoomID /\ roomState' \in [RoomID -> Channel \cup {None}]
  BY <1>1, <1>2 DEF RestOK
<1>4. \E k \in {"create", "hook"} : Starts(x, k, c, a, "forward") /\ Typed'
  BY <1>1, <1>2, <1>3, BeginSteps DEF RestOK
<1>. QED  BY <1>2, <1>4

LEMMA MatrixDmSteps ==
    ASSUME Typed, NEW x \in Changer, NEW c \in Channel, NEW r \in RoomID, MatrixDm(x, c, r)
    PROVE  /\ c \in Dm /\ r \in External /\ ChannelFor(r) = None
           /\ Starts(x, "dm", c, r, "forward")
           /\ dmRooms' = dmRooms \cup {<<c, r>>}
           /\ UNCHANGED <<roomState, exists, manual>>
           /\ Typed'
<1>1. RestOK /\ r \in Room
  BY TypeIs, TypedIs, Identifiers
<1>2. dmRooms' \subseteq Dm \X RoomID
  BY <1>1 DEF MatrixDm, RestOK
<1>. QED  BY <1>1, <1>2, BeginSteps DEF MatrixDm, RestOK

LEMMA UnmapSteps ==
    ASSUME Typed, NEW x \in Changer, NEW c \in Channel, UnmapCommand(x, c)
    PROVE  /\ forward[c] # None /\ forward[c] \in Room /\ Untouched(c, forward[c])
           /\ cmd[x].pc = "idle" /\ Free(c)
           /\ Becomes(x, [pc |-> "clear", kind |-> "unmap", channel |-> c, room |-> forward[c]])
           /\ manual'
           /\ UNCHANGED <<forward, reverse, gone, shared, roomState, exists, dmRooms, lookup,
                          content, now, faults>>
           /\ Typed'
<1>. DEFINE m == [pc |-> "clear", kind |-> "unmap", channel |-> c, room |-> forward[c]]
<1>1. /\ forward[c] # None /\ Untouched(c, forward[c]) /\ MayBegin(x, c)
      /\ cmd' = [cmd EXCEPT ![x] = m] /\ manual' = TRUE
      /\ UNCHANGED <<kvVars, roomState, exists, cacheVars, lookup, dmRooms, faults>>
  BY DEF UnmapCommand
<1>2. cmd[x].pc = "idle" /\ Free(c) /\ commands' = commands + 1
  BY <1>1 DEF MayBegin, Free
<1>3. TypeOK /\ RestOK /\ StoreOK
  BY TypeIs, TypedIs
<1>4. forward[c] \in Room
  BY <1>1, <1>3 DEF StoreOK
<1>5. m \in CmdRecord /\ CmdOK(m) /\ m.channel = c
  BY <1>4 DEF CmdRecord, CmdOK, Writes, Drops
<1>. HIDE DEF m
<1>6. Becomes(x, m)
  BY <1>1, <1>5, CmdSteps
<1>7. StoreOK' /\ RestOK'
  BY <1>1, <1>2, <1>3, TypedStore, RestIs DEF RestOK
<1>8. UNCHANGED <<forward, reverse, gone, shared, roomState, exists, dmRooms, lookup,
                  content, now, faults>>
  BY <1>1 DEF kvVars, cacheVars
<1>9. Typed'
  BY <1>2, <1>5, <1>6, <1>7, <1>8, ActorTyped
<1>. QED  BY <1>1, <1>2, <1>4, <1>6, <1>8, <1>9 DEF m

JoinCmd(c, i) == [pc |-> "forward", kind |-> "join", channel |-> c, room |-> i]
HookCmd(c) == [pc |-> "room", kind |-> "hook", channel |-> c, room |-> None]

LEMMA JoinSteps ==
    ASSUME Typed, NEW x \in Actor, NEW c \in Channel, NEW i \in Room, JoinCommand(x, c, i)
    PROVE  /\ forward[c] = None /\ RoomIDOf(i) \in External
           /\ cmd[x].pc = "idle" /\ cmd[Hook].pc = "idle" /\ Free(c) /\ Give(c, i)
           /\ cmd'[x] = JoinCmd(c, i) /\ cmd'[Hook] = HookCmd(c)
           /\ \A y \in Changer \ {x, Hook} : cmd'[y] = cmd[y]
           /\ manual'
           /\ UNCHANGED <<roomState, exists, dmRooms, lookup, content, now, faults>>
           /\ Typed'
<1>1. /\ forward[c] = None /\ RoomIDOf(i) \in External /\ MayBegin(x, c) /\ Give(c, i)
      /\ cmd[Hook].pc = "idle" /\ manual' = TRUE
      /\ cmd' = [cmd EXCEPT ![x] = JoinCmd(c, i), ![Hook] = HookCmd(c)]
      /\ UNCHANGED <<cacheVars, lookup, faults, roomState, exists, dmRooms>>
  BY DEF JoinCommand, JoinCmd, HookCmd
<1>2. cmd[x].pc = "idle" /\ Free(c) /\ commands' = commands + 1
  BY <1>1 DEF MayBegin, Free
<1>3. x \in Changer /\ Hook \in Changer /\ x # Hook
  BY RoomMappingAssumption DEF Changer
<1>4. /\ TypeOK /\ RestOK /\ CacheOK /\ LookupsOK /\ CmdsOK
      /\ cmd \in [Changer -> CmdRecord] /\ lookup \in [Reader -> LookupRecord]
  BY TypeIs, TypedIs
<1>5. /\ JoinCmd(c, i) \in CmdRecord /\ CmdOK(JoinCmd(c, i))
      /\ HookCmd(c) \in CmdRecord /\ CmdOK(HookCmd(c))
      /\ JoinCmd(c, i).kind = "join" /\ HookCmd(c).kind = "hook"
      /\ JoinCmd(c, i).channel = c /\ HookCmd(c).channel = c
  BY Identifiers DEF CmdRecord, CmdOK, Writes, Drops, JoinCmd, HookCmd
<1>6. /\ cmd' \in [Changer -> CmdRecord]
      /\ cmd'[x] = JoinCmd(c, i) /\ cmd'[Hook] = HookCmd(c)
      /\ \A y \in Changer \ {x, Hook} : cmd'[y] = cmd[y]
  BY <1>1, <1>3, <1>4, <1>5
<1>7. StoreOK' /\ RestOK'
  BY <1>1, <1>2, <1>4, TypedStore, RestIs DEF RestOK
<1>8. UNCHANGED <<roomState, exists, dmRooms, lookup, content, now, faults>>
  BY <1>1 DEF cacheVars
<1>9. CacheOK' /\ LookupsOK'
  BY <1>4, <1>8 DEF CacheOK, LookupsOK
<1>10. \A y \in Changer : CmdOK(cmd'[y])
  BY <1>4, <1>5, <1>6 DEF CmdsOK
<1>11. \A y \in Changer \ {x, Hook} : cmd[y].channel # c
  BY <1>2, <1>4, Identifiers DEF Free, CmdsOK, CmdOK, NoCmd
<1>12. Apart'
  <2>1. SUFFICES ASSUME NEW y \in Changer, NEW z \in Changer, y # z,
                        cmd'[y].pc # "idle", cmd'[y].channel = cmd'[z].channel
                 PROVE  {cmd'[y].kind, cmd'[z].kind} = {"join", "hook"}
    BY DEF Apart
  <2>2. CASE y \notin {x, Hook} /\ z \notin {x, Hook}
    <3>1. PICK b, d : b = cmd[y] /\ d = cmd[z] /\ b = cmd'[y] /\ d = cmd'[z]
      BY <1>6, <2>1, <2>2
    <3>2. {b.kind, d.kind} = {"join", "hook"}
      BY <1>4, <2>1, <3>1 DEF CmdsOK, Apart
    <3>. QED  BY <3>1, <3>2
  <2>3. CASE y \in {x, Hook} /\ z \in {x, Hook}
    BY <1>5, <1>6, <2>1, <2>3
  <2>4. CASE y \in {x, Hook} /\ z \notin {x, Hook}
    BY <1>5, <1>6, <1>11, <2>1, <2>4
  <2>5. CASE y \notin {x, Hook} /\ z \in {x, Hook}
    BY <1>5, <1>6, <1>11, <2>1, <2>5
  <2>. QED  BY <2>2, <2>3, <2>4, <2>5
<1>13. Typed'
  BY <1>4, <1>6, <1>7, <1>8, <1>9, <1>10, <1>12, TypeIsNext, TypedIs DEF CmdsOK
<1>. QED  BY <1>1, <1>2, <1>6, <1>8, <1>13

LEMMA HookRoomSteps ==
    ASSUME Typed, NEW x \in Changer, HookRoom(x)
    PROVE  /\ cmd[x].pc = "room" /\ cmd[x].kind = "hook" /\ cmd[x].room = None
           /\ cmd[x].channel \in Channel
           /\ \/ /\ \E a \in Alias :
                      /\ RoomOf[a] \notin exists
                      /\ exists' = exists \cup {RoomOf[a]}
                      /\ roomState' = [roomState EXCEPT ![RoomOf[a]] = cmd[x].channel]
                      /\ Becomes(x, [pc |-> "forward", kind |-> "hook",
                                     channel |-> cmd[x].channel, room |-> a])
                 /\ faults' = faults
              \/ faults' # 0 /\ Becomes(x, NoCmd) /\ UNCHANGED <<roomState, exists>>
           /\ UNCHANGED <<forward, reverse, gone, shared, lookup, content, now, dmRooms, manual>>
           /\ Typed'
<1>1. cmd[x].pc = "room" /\ (Works \/ Fails)
      /\ UNCHANGED <<kvVars, cacheVars, lookup, histVars, commands>>
  BY DEF HookRoom
<1>2. cmd[x].kind = "hook" /\ cmd[x].room = None /\ cmd[x].channel \in Channel
  BY <1>1, Working DEF CmdOK
<1>3. TypeOK /\ RestOK
  BY TypeIs, TypedIs
<1>4. StoreOK' /\ faults' \in 0..MaxFault
  BY <1>1, <1>3, TypedStore, Faults
<1>5. UNCHANGED <<forward, reverse, gone, shared, lookup, content, now, dmRooms, manual, commands>>
  BY <1>1 DEF kvVars, cacheVars, histVars
<1>6. ASSUME NEW a \in Alias, RoomOf[a] \notin exists, exists' = exists \cup {RoomOf[a]},
             roomState' = [roomState EXCEPT ![RoomOf[a]] = cmd[x].channel],
             cmd' = [cmd EXCEPT ![x].pc = "forward", ![x].room = a], Works
      PROVE  /\ Becomes(x, [pc |-> "forward", kind |-> "hook",
                            channel |-> cmd[x].channel, room |-> a])
             /\ faults' = faults /\ Typed'
  <2>. DEFINE m == [pc |-> "forward", kind |-> "hook", channel |-> cmd[x].channel, room |-> a]
  <2>1. a \in Room /\ RoomOf[a] \in RoomID
    BY Identifiers
  <2>2. Becomes(x, m)
    BY <1>2, <1>6, <2>1, CmdSteps
  <2>3. m \in CmdRecord /\ CmdOK(m)
    BY <1>2, <2>1 DEF CmdRecord, CmdOK, Writes, Drops
  <2>4. m.channel = cmd[x].channel /\ m.kind = cmd[x].kind
    BY <1>2
  <2>. HIDE DEF m
  <2>5. RestOK'
    BY <1>2, <1>3, <1>4, <1>5, <1>6, <2>1, RestIs DEF RestOK
  <2>6. Typed'
    BY <1>1, <1>4, <1>5, <2>2, <2>3, <2>4, <2>5, ActorTyped
  <2>. QED  BY <1>3, <1>6, <2>2, <2>6, Faults DEF m
<1>7. ASSUME Fails, Done(x), UNCHANGED <<roomState, exists>>
      PROVE  faults' # 0 /\ Becomes(x, NoCmd) /\ Typed'
  <2>1. Becomes(x, NoCmd) /\ RestOK'
    BY <1>3, <1>4, <1>5, <1>7, CmdSteps, RestIs DEF RestOK
  <2>2. Typed'
    BY <1>4, <1>5, <2>1, Records, ActorTyped DEF NoCmd
  <2>. QED  BY <1>3, <1>7, <2>1, <2>2, Faults
<1>8. CASE \E a \in Alias :
             /\ RoomOf[a] \notin exists
             /\ exists' = exists \cup {RoomOf[a]}
             /\ roomState' = [roomState EXCEPT ![RoomOf[a]] = cmd[x].channel]
             /\ cmd' = [cmd EXCEPT ![x].pc = "forward", ![x].room = a]
             /\ Works
  BY <1>1, <1>2, <1>5, <1>6, <1>8
<1>9. CASE Fails /\ Done(x) /\ UNCHANGED <<roomState, exists>>
  BY <1>1, <1>2, <1>5, <1>7, <1>9
<1>. QED  BY <1>8, <1>9 DEF HookRoom

\* A command that goes on, or ends, after a call that changes the store.
LEMMA Goes ==
    ASSUME Typed, NEW x \in Changer, cmd[x].pc # "idle", NEW m \in CmdRecord, Becomes(x, m),
           \/ m = NoCmd
           \/ CmdOK(m) /\ m.channel = cmd[x].channel /\ m.kind = cmd[x].kind,
           StoreOK', Works \/ Fails, roomState' \in [RoomID -> Channel \cup {None}],
           UNCHANGED <<exists, lookup, content, now, dmRooms, manual, commands>>
    PROVE  Typed'
<1>1. TypeOK /\ RestOK
  BY TypeIs, TypedIs
<1>2. faults' \in 0..MaxFault
  BY <1>1, Faults
<1>3. RestOK'
  BY <1>1, <1>2, RestIs DEF RestOK
<1>4. CmdOK(m) /\ (m = NoCmd => m.pc = "idle")
  BY Records DEF NoCmd
<1>. QED  BY <1>3, <1>4, ActorTyped

Settled == UNCHANGED <<exists, lookup, content, now, dmRooms, manual, commands>>

LEMMA CmdForwardSteps ==
    ASSUME Typed, NEW x \in Changer, CmdForward(x)
    PROVE  /\ cmd[x].pc = "forward" /\ cmd[x].channel \in Channel /\ cmd[x].room \in Room
           /\ \/ /\ SetForward(cmd[x].channel, cmd[x].room) /\ faults' = faults
                 /\ Becomes(x, At_(cmd[x], "reverse"))
              \/ /\ faults' # 0 /\ UNCHANGED <<forward, reverse, gone, shared>>
                 /\ Becomes(x, NoCmd) \/ Becomes(x, At_(cmd[x], "reverse"))
           /\ UNCHANGED roomState /\ Settled
           /\ Typed'
<1>1. cmd[x].pc = "forward" /\ UNCHANGED roomState /\ Settled
  BY DEF CmdForward, Settled, cacheVars, histVars
<1>2. cmd[x] \in CmdRecord /\ CmdOK(cmd[x]) /\ cmd[x].channel \in Channel /\ cmd[x].room \in Room
  BY <1>1, Working DEF Writes
<1>. DEFINE m == At_(cmd[x], "reverse")
<1>3. m \in CmdRecord /\ CmdOK(m) /\ m.channel = cmd[x].channel /\ m.kind = cmd[x].kind
  BY <1>1, <1>2 DEF At_, CmdRecord, CmdOK, Writes, Drops
<1>4. Step(x, "reverse") => Becomes(x, m)
  BY CmdSteps
<1>. HIDE DEF m
<1>5. TypeOK /\ roomState' \in [RoomID -> Channel \cup {None}]
  BY <1>1, TypeIs, TypedIs DEF RestOK
<1>6. CASE SetForward(cmd[x].channel, cmd[x].room) /\ Step(x, "reverse") /\ Works
  <2>1. StoreOK' /\ faults' = faults
    BY <1>2, <1>5, <1>6, TypedStore, Faults
  <2>2. Typed'
    BY <1>1, <1>3, <1>4, <1>5, <1>6, <2>1, Goes DEF Settled
  <2>. QED  BY <1>1, <1>2, <1>4, <1>6, <2>1, <2>2 DEF m
<1>7. CASE Fails /\ UNCHANGED kvVars /\ (Step(x, "reverse") \/ Done(x))
  <2>1. StoreOK' /\ faults' # 0 /\ UNCHANGED <<forward, reverse, gone, shared>>
    BY <1>5, <1>7, TypedStore, Faults DEF kvVars
  <2>2. CASE Step(x, "reverse")
    <3>1. Typed'
      BY <1>1, <1>3, <1>4, <1>5, <1>7, <2>1, <2>2, Goes DEF Settled
    <3>. QED  BY <1>1, <1>2, <1>4, <2>1, <2>2, <3>1 DEF m
  <2>3. CASE Done(x)
    <3>1. Becomes(x, NoCmd) /\ NoCmd \in CmdRecord
      BY <2>3, CmdSteps, Records
    <3>2. Typed'
      BY <1>1, <1>5, <1>7, <2>1, <3>1, Goes DEF Settled
    <3>. QED  BY <1>1, <1>2, <2>1, <3>1, <3>2
  <2>. QED  BY <1>7, <2>2, <2>3
<1>. QED  BY <1>6, <1>7 DEF CmdForward

LEMMA CmdReverseSteps ==
    ASSUME Typed, NEW x \in Changer, CmdReverse(x)
    PROVE  /\ cmd[x].pc = "reverse" /\ cmd[x].channel \in Channel /\ cmd[x].room \in Room
           /\ \/ SetReverse(cmd[x].room, cmd[x].channel) /\ faults' = faults
              \/ faults' # 0 /\ UNCHANGED <<forward, reverse, gone, shared>>
           /\ IF cmd[x].kind \in {"map", "join"} /\ cmd[x].room \in Alias
              THEN Becomes(x, At_(cmd[x], "roomID")) ELSE Becomes(x, NoCmd)
           /\ UNCHANGED roomState /\ Settled
           /\ Typed'
<1>1. cmd[x].pc = "reverse" /\ UNCHANGED roomState /\ Settled /\ (Works \/ Fails)
  BY DEF CmdReverse, Settled, cacheVars, histVars
<1>2. cmd[x] \in CmdRecord /\ CmdOK(cmd[x]) /\ cmd[x].channel \in Channel /\ cmd[x].room \in Room
  BY <1>1, Working DEF Writes
<1>3. TypeOK /\ roomState' \in [RoomID -> Channel \cup {None}]
  BY <1>1, TypeIs, TypedIs DEF RestOK
<1>4. /\ StoreOK'
      /\ \/ SetReverse(cmd[x].room, cmd[x].channel) /\ faults' = faults
         \/ faults' # 0 /\ UNCHANGED <<forward, reverse, gone, shared>>
  <2>1. CASE SetReverse(cmd[x].room, cmd[x].channel) /\ Works
    BY <1>2, <1>3, <2>1, TypedStore, Faults
  <2>2. CASE Fails /\ UNCHANGED kvVars
    BY <1>3, <2>2, TypedStore, Faults DEF kvVars
  <2>. QED  BY <2>1, <2>2 DEF CmdReverse
<1>5. CASE cmd[x].kind \in {"map", "join"} /\ cmd[x].room \in Alias
  <2>. DEFINE m == At_(cmd[x], "roomID")
  <2>1. m \in CmdRecord /\ CmdOK(m) /\ m.channel = cmd[x].channel /\ m.kind = cmd[x].kind
    BY <1>1, <1>2, <1>5, Identifiers DEF At_, CmdRecord, CmdOK, Writes, Drops
  <2>2. Becomes(x, m)
    BY <1>5, CmdSteps DEF CmdReverse
  <2>. HIDE DEF m
  <2>3. Typed'
    BY <1>1, <1>3, <1>4, <2>1, <2>2, Goes DEF Settled
  <2>. QED  BY <1>1, <1>2, <1>4, <1>5, <2>2, <2>3 DEF m
<1>6. CASE ~(cmd[x].kind \in {"map", "join"} /\ cmd[x].room \in Alias)
  <2>1. Becomes(x, NoCmd) /\ NoCmd \in CmdRecord
    BY <1>6, CmdSteps, Records DEF CmdReverse
  <2>2. Typed'
    BY <1>1, <1>3, <1>4, <2>1, Goes DEF Settled
  <2>. QED  BY <1>1, <1>2, <1>4, <1>6, <2>1, <2>2
<1>. QED  BY <1>5, <1>6

LEMMA CmdRoomIDSteps ==
    ASSUME Typed, NEW x \in Changer, CmdRoomID(x)
    PROVE  /\ cmd[x].pc = "roomID" /\ cmd[x].channel \in Channel /\ cmd[x].room \in Alias
           /\ \/ SetReverse(RoomOf[cmd[x].room], cmd[x].channel) /\ faults' = faults
              \/ faults' # 0 /\ UNCHANGED <<forward, reverse, gone, shared>>
           /\ Becomes(x, NoCmd)
           /\ UNCHANGED roomState /\ Settled
           /\ Typed'
<1>1. cmd[x].pc = "roomID" /\ UNCHANGED roomState /\ Settled /\ (Works \/ Fails)
  BY DEF CmdRoomID, Settled, cacheVars, histVars
<1>2. /\ cmd[x].channel \in Channel /\ cmd[x].room \in Alias
      /\ RoomOf[cmd[x].room] \in Room
  BY <1>1, Working, Identifiers DEF CmdOK
<1>3. TypeOK /\ roomState' \in [RoomID -> Channel \cup {None}]
  BY <1>1, TypeIs, TypedIs DEF RestOK
<1>4. /\ StoreOK'
      /\ \/ SetReverse(RoomOf[cmd[x].room], cmd[x].channel) /\ faults' = faults
         \/ faults' # 0 /\ UNCHANGED <<forward, reverse, gone, shared>>
  <2>1. CASE SetReverse(RoomOf[cmd[x].room], cmd[x].channel) /\ Works
    BY <1>2, <1>3, <2>1, TypedStore, Faults
  <2>2. CASE Fails /\ UNCHANGED kvVars
    BY <1>3, <2>2, TypedStore, Faults DEF kvVars
  <2>. QED  BY <2>1, <2>2 DEF CmdRoomID
<1>5. Becomes(x, NoCmd) /\ NoCmd \in CmdRecord
  BY CmdSteps, Records DEF CmdRoomID
<1>6. Typed'
  BY <1>1, <1>3, <1>4, <1>5, Goes DEF Settled
<1>. QED  BY <1>1, <1>2, <1>4, <1>5, <1>6

LEMMA UnmapClearSteps ==
    ASSUME Typed, NEW x \in Changer, UnmapClear(x)
    PROVE  /\ cmd[x].pc = "clear" /\ cmd[x].channel \in Channel /\ cmd[x].room \in Room
           /\ cmd[x].kind = "unmap"
           /\ \/ /\ cmd[x].room \in RoomID /\ roomState' = [roomState EXCEPT ![cmd[x].room] = None]
                 /\ Becomes(x, At_(cmd[x], "dropForward")) /\ faults' = faults
              \/ /\ Becomes(x, NoCmd) /\ UNCHANGED roomState
                 /\ (faults' = faults /\ cmd[x].room \in Alias) \/ faults' # 0
           /\ UNCHANGED <<forward, reverse, gone, shared>> /\ Settled
           /\ Typed'
<1>1. cmd[x].pc = "clear" /\ UNCHANGED <<forward, reverse, gone, shared>> /\ Settled
      /\ (Works \/ Fails) /\ UNCHANGED kvVars
  BY DEF UnmapClear, Settled, cacheVars, histVars, kvVars
<1>2. /\ cmd[x] \in CmdRecord /\ CmdOK(cmd[x]) /\ cmd[x].channel \in Channel
      /\ cmd[x].room \in Room /\ cmd[x].kind = "unmap"
  BY <1>1, Working DEF CmdOK
<1>3. TypeOK /\ RestOK /\ StoreOK'
  BY <1>1, TypeIs, TypedIs, TypedStore
<1>4. CASE /\ cmd[x].room \in RoomID /\ roomState' = [roomState EXCEPT ![cmd[x].room] = None]
           /\ Step(x, "dropForward") /\ Works
  <2>. DEFINE m == At_(cmd[x], "dropForward")
  <2>1. m \in CmdRecord /\ CmdOK(m) /\ m.channel = cmd[x].channel /\ m.kind = cmd[x].kind
    BY <1>1, <1>2, <1>4 DEF At_, CmdRecord, CmdOK, Writes, Drops
  <2>2. Becomes(x, m)
    BY <1>4, CmdSteps
  <2>. HIDE DEF m
  <2>3. roomState' \in [RoomID -> Channel \cup {None}] /\ faults' = faults
    BY <1>3, <1>4, Faults DEF RestOK
  <2>4. Typed'
    BY <1>1, <1>3, <2>1, <2>2, <2>3, Goes DEF Settled
  <2>. QED  BY <1>1, <1>2, <1>4, <2>2, <2>3, <2>4 DEF m
<1>5. CASE /\ Done(x) /\ UNCHANGED roomState
           /\ (cmd[x].room \in Alias /\ Works) \/ Fails
  <2>1. Becomes(x, NoCmd) /\ NoCmd \in CmdRecord
    BY <1>5, CmdSteps, Records
  <2>2. roomState' \in [RoomID -> Channel \cup {None}]
    BY <1>3, <1>5 DEF RestOK
  <2>3. Typed'
    BY <1>1, <1>3, <2>1, <2>2, Goes DEF Settled
  <2>. QED  BY <1>1, <1>2, <1>3, <1>5, <2>1, <2>3, Faults
<1>. QED  BY <1>4, <1>5 DEF UnmapClear

LEMMA UnmapForwardSteps ==
    ASSUME Typed, NEW x \in Changer, UnmapForward(x)
    PROVE  /\ cmd[x].pc = "dropForward" /\ cmd[x].channel \in Channel /\ cmd[x].room \in RoomID
           /\ cmd[x].kind = "unmap"
           /\ \/ /\ SetForward(cmd[x].channel, None) /\ faults' = faults
                 /\ Becomes(x, At_(cmd[x], "dropReverse"))
              \/ /\ faults' # 0 /\ UNCHANGED <<forward, reverse, gone, shared>>
                 /\ Becomes(x, NoCmd)
           /\ UNCHANGED roomState /\ Settled
           /\ Typed'
<1>1. cmd[x].pc = "dropForward" /\ UNCHANGED roomState /\ Settled
  BY DEF UnmapForward, Settled, cacheVars, histVars
<1>2. /\ cmd[x] \in CmdRecord /\ CmdOK(cmd[x]) /\ cmd[x].channel \in Channel
      /\ cmd[x].room \in RoomID /\ cmd[x].kind = "unmap"
  BY <1>1, Working DEF CmdOK, Drops
<1>. DEFINE m == At_(cmd[x], "dropReverse")
<1>3. m \in CmdRecord /\ CmdOK(m) /\ m.channel = cmd[x].channel /\ m.kind = cmd[x].kind
  BY <1>1, <1>2, Identifiers DEF At_, CmdRecord, CmdOK, Writes, Drops
<1>4. Step(x, "dropReverse") => Becomes(x, m)
  BY CmdSteps
<1>. HIDE DEF m
<1>5. TypeOK /\ roomState' \in [RoomID -> Channel \cup {None}]
  BY <1>1, TypeIs, TypedIs DEF RestOK
<1>6. CASE SetForward(cmd[x].channel, None) /\ Step(x, "dropReverse") /\ Works
  <2>1. StoreOK' /\ faults' = faults
    BY <1>2, <1>5, <1>6, TypedStore, Faults
  <2>2. Typed'
    BY <1>1, <1>3, <1>4, <1>5, <1>6, <2>1, Goes DEF Settled
  <2>. QED  BY <1>1, <1>2, <1>4, <1>6, <2>1, <2>2 DEF m
<1>7. CASE Fails /\ UNCHANGED kvVars /\ Done(x)
  <2>1. StoreOK' /\ faults' # 0 /\ UNCHANGED <<forward, reverse, gone, shared>>
    BY <1>5, <1>7, TypedStore, Faults DEF kvVars
  <2>2. Becomes(x, NoCmd) /\ NoCmd \in CmdRecord
    BY <1>7, CmdSteps, Records
  <2>3. Typed'
    BY <1>1, <1>5, <1>7, <2>1, <2>2, Goes DEF Settled
  <2>. QED  BY <1>1, <1>2, <2>1, <2>2, <2>3
<1>. QED  BY <1>6, <1>7 DEF UnmapForward

LEMMA UnmapReverseSteps ==
    ASSUME Typed, NEW x \in Changer, UnmapReverse(x)
    PROVE  /\ cmd[x].pc = "dropReverse" /\ cmd[x].channel \in Channel /\ cmd[x].room \in RoomID
           /\ cmd[x].kind = "unmap"
           /\ \/ SetReverse(cmd[x].room, None) /\ faults' = faults
              \/ faults' # 0 /\ UNCHANGED <<forward, reverse, gone, shared>>
           /\ Becomes(x, NoCmd)
           /\ UNCHANGED roomState /\ Settled
           /\ Typed'
<1>1. cmd[x].pc = "dropReverse" /\ UNCHANGED roomState /\ Settled /\ (Works \/ Fails)
  BY DEF UnmapReverse, Settled, cacheVars
<1>2. /\ cmd[x].channel \in Channel /\ cmd[x].room \in RoomID /\ cmd[x].room \in Room
      /\ cmd[x].kind = "unmap"
  BY <1>1, Working, Identifiers DEF CmdOK, Drops
<1>3. TypeOK /\ roomState' \in [RoomID -> Channel \cup {None}]
  BY <1>1, TypeIs, TypedIs DEF RestOK
<1>4. /\ StoreOK'
      /\ \/ SetReverse(cmd[x].room, None) /\ faults' = faults
         \/ faults' # 0 /\ UNCHANGED <<forward, reverse, gone, shared>>
  <2>1. CASE SetReverse(cmd[x].room, None) /\ Works
    BY <1>2, <1>3, <2>1, TypedStore, Faults
  <2>2. CASE Fails /\ UNCHANGED kvVars
    BY <1>3, <2>2, TypedStore, Faults DEF kvVars
  <2>. QED  BY <2>1, <2>2 DEF UnmapReverse
<1>5. Becomes(x, NoCmd) /\ NoCmd \in CmdRecord
  BY CmdSteps, Records DEF UnmapReverse
<1>6. Typed'
  BY <1>1, <1>3, <1>4, <1>5, Goes DEF Settled
<1>. QED  BY <1>1, <1>2, <1>4, <1>5, <1>6

LEMMA TickSteps ==
    ASSUME Typed, Tick
    PROVE  /\ \A p \in Reader : At(p, "idle")
           /\ now' = now + 1 /\ content' = content
           /\ gone' = {g \in gone : g[3] + TTL >= now'}
           /\ UNCHANGED <<forward, reverse, shared, roomState, exists, lookup,
                          cmd, dmRooms, manual, faults>>
           /\ Typed'
<1>1. /\ \A p \in Reader : At(p, "idle")
      /\ now' = now + 1 /\ content' = content
      /\ gone' = {g \in gone : g[3] + TTL >= now'}
      /\ UNCHANGED <<forward, reverse, shared, roomState, exists, lookup,
                     cmd, dmRooms, manual, commands, faults>>
  BY DEF Tick, Cache!Age, histVars
<1>2. /\ StoreOK /\ CacheOK /\ RestOK /\ LookupsOK /\ CmdsOK
      /\ lookup \in [Reader -> LookupRecord] /\ cmd \in [Changer -> CmdRecord]
  BY TypeIs, TypedIs
<1>3. StoreOK'
  <2>1. gone' \subseteq gone
    BY <1>1
  <2>. QED  BY <1>1, <1>2, <2>1 DEF StoreOK
<1>4. CacheOK'
  BY <1>1, <1>2 DEF CacheOK
<1>5. RestOK'
  BY <1>1, <1>2 DEF RestOK
<1>6. LookupsOK' /\ CmdsOK'
  BY <1>1, <1>2 DEF LookupsOK, CmdsOK, Apart
<1>. QED  BY <1>1, <1>2, <1>3, <1>4, <1>5, <1>6, TypeIsNext, TypedIs

LEMMA InitTyped == Init => Typed
<1>. SUFFICES ASSUME Init  PROVE Typed
  OBVIOUS
<1>1. forward \in [Channel -> Room \cup {None}]
  BY RoomMappingAssumption DEF Init, Room
<1>2. reverse \in [Room -> Channel \cup {None}]
  <2>. DEFINE mapped(i) == {c \in Channel : forward[c] # None /\ i \in {forward[c], RoomIDOf(forward[c])}}
  <2>1. reverse = [i \in Room |-> IF mapped(i) = {} THEN None ELSE CHOOSE c \in mapped(i) : TRUE]
    BY DEF Init
  <2>2. \A i \in Room : (IF mapped(i) = {} THEN None ELSE CHOOSE c \in mapped(i) : TRUE) \in Channel \cup {None}
    OBVIOUS
  <2>. HIDE DEF mapped
  <2>. QED  BY <2>1, <2>2
<1>3. shared \in BOOLEAN
  BY DEF Init
<1>4. StoreOK
  BY <1>1, <1>2, <1>3 DEF StoreOK, Init
<1>5. CacheOK
  BY DEF CacheOK, Init
<1>6. exists \in SUBSET RoomID
  <2>1. \A c \in Channel : forward[c] # None => RoomIDOf(forward[c]) \in RoomID
    BY <1>1, Identifiers
  <2>. QED  BY <2>1, RoomMappingAssumption DEF Init
<1>7. RestOK
  <2>1. roomState \in [RoomID -> Channel \cup {None}]
    BY DEF Init
  <2>2. dmRooms \subseteq Dm \X RoomID /\ manual \in BOOLEAN /\ commands \in Nat
    BY DEF Init
  <2>3. faults \in 0..MaxFault
    BY RoomMappingAssumption DEF Init
  <2>. QED  BY <1>6, <2>1, <2>2, <2>3 DEF RestOK
<1>8. lookup = [p \in Reader |-> NoLookup] /\ cmd = [x \in Changer |-> NoCmd]
  BY DEF Init
<1>9. lookup \in [Reader -> LookupRecord] /\ LookupsOK
  BY <1>8, Records DEF LookupsOK
<1>10. cmd \in [Changer -> CmdRecord] /\ \A x \in Changer : CmdOK(cmd[x])
  BY <1>8, Records
<1>11. Apart
  BY <1>8 DEF Apart, NoCmd
<1>. QED  BY <1>4, <1>5, <1>7, <1>9, <1>10, <1>11, TypeIs, TypedIs DEF CmdsOK

LEMMA TypedNext == Typed /\ [Next]_vars => Typed'
<1>. SUFFICES ASSUME Typed, [Next]_vars  PROVE Typed'
  OBVIOUS
<1>. Actor \subseteq Changer
  BY DEF Changer
<1>1. ASSUME NEW p \in Reader, NEW c \in Channel, Lookup(p, c)  PROVE Typed'
  BY <1>1, ReadTyped DEF Lookup
<1>2. ASSUME NEW p \in Reader, NEW r \in RoomID, CreateDirectRoom(p, r)  PROVE Typed'
  BY <1>2, CreateDirectRoomSteps
<1>3. ASSUME NEW p \in Reader, ReaderStep(p)  PROVE Typed'
  <2>1. CASE CacheFill(p)
    BY <2>1, CacheFillSteps
  <2>2. CASE LookupEnd(p)
    BY <2>2, LookupEndSteps
  <2>3. CASE LookupAgain(p)
    <3>1. lookup[p].channel \in Channel
      BY <2>3, Looking DEF LookupAgain, Unanswered, At
    <3>. QED  BY <2>3, <3>1, ReadTyped DEF LookupAgain
  <2>4. CASE DmForward(p)
    BY <2>4, DmForwardSteps
  <2>5. CASE DmCache(p)
    BY <2>5, DmCacheSteps
  <2>6. CASE DmReverse(p)
    BY <2>6, DmReverseSteps
  <2>. QED  BY <1>3, <2>1, <2>2, <2>3, <2>4, <2>5, <2>6 DEF ReaderStep
<1>4. ASSUME NEW x \in Actor, NEW c \in Channel, NEW i \in Room,
             MapCommand(x, c, i) \/ JoinCommand(x, c, i)
      PROVE  Typed'
  BY <1>4, MapSteps, JoinSteps
<1>5. ASSUME NEW x \in Actor, NEW c \in Channel, NEW a \in Alias, CreateCommand(x, c, a)
      PROVE  Typed'
  BY <1>5, CreateSteps
<1>6. ASSUME NEW x \in Actor, NEW c \in Channel, NEW r \in RoomID, MatrixDm(x, c, r)
      PROVE  Typed'
  BY <1>6, MatrixDmSteps
<1>7. ASSUME NEW x \in Actor, NEW c \in Channel, UnmapCommand(x, c)  PROVE Typed'
  BY <1>7, UnmapSteps
<1>8. ASSUME NEW x \in Changer, ActorStep(x)  PROVE Typed'
  BY <1>8, HookRoomSteps, CmdForwardSteps, CmdReverseSteps, CmdRoomIDSteps,
     UnmapClearSteps, UnmapForwardSteps, UnmapReverseSteps DEF ActorStep
<1>9. CASE Tick
  BY <1>9, TickSteps
<1>10. CASE UNCHANGED vars
  BY <1>10 DEF vars, kvVars, cacheVars, histVars, Typed, TypeOK, Apart
<1>. QED  BY <1>1, <1>2, <1>3, <1>4, <1>5, <1>6, <1>7, <1>8, <1>9, <1>10 DEF Next

\* Keys hold identifiers or channels, entries expire at numbers, and readers and
\* commands are in a step there is, with what that step needs: the mappings of
\* GetMatrixRoomID, setChannelRoomMapping and the commands are never mixed up.
THEOREM RoomMappingTypeOK == Spec => []TypeOK
<1>1. Spec => []Typed
  BY InitTyped, TypedNext, PTL DEF Spec
<1>2. Typed => TypeOK
  BY DEF Typed
<1>. QED  BY <1>1, <1>2, PTL

-----------------------------------------------------------------------------
(* How old an answer can be *)

\* By mappings f and the history h of the former ones, channel c had i at time
\* since, or later.
Held(f, h, c, i, since) ==
    \/ f[c] = i
    \/ \E t \in Nat : <<c, i, t>> \in h /\ since <= t

PastOnly == \A c \in Channel, i \in Room \cup {None}, t \in Nat : <<c, i, t>> \in gone => t <= now

\* A cache entry that has not expired was the mapping when it was made.
EntryOK(f, h, n, c, e) ==
    e # Absent =>
        /\ e.expiresAt <= n + TTL
        /\ n <= e.expiresAt => Held(f, h, c, e.value, e.expiresAt - TTL)

\* What will be cached was the mapping a moment ago; what is answered, in the
\* last TTL.
HoldsRecent(f, h, n, k, l) ==
    /\ l.pc \in {"fill", "cache"} => Held(f, h, l.channel, l.value, n)
    /\ l.pc = "answered" => \/ Held(f, h, l.channel, l.value, n - TTL)
                            \/ l.value = None /\ k # 0

Recent == /\ PastOnly
          /\ \A c \in Channel : EntryOK(forward, gone, now, c, content[c])
          /\ \A p \in Reader : HoldsRecent(forward, gone, now, faults, lookup[p])

\* A mapping that is replaced is remembered.
LEMMA Remembered ==
    ASSUME Typed, PastOnly, now' = now,
           \/ \E c \in Channel, i \in Room \cup {None} : SetForward(c, i)
           \/ UNCHANGED <<forward, gone>>
    PROVE  /\ PastOnly'
           /\ \A d \in Channel, j \in Room \cup {None}, s \in Int :
                 s <= now /\ Held(forward, gone, d, j, s) => Held(forward', gone', d, j, s)
<1>1. StoreOK /\ CacheOK
  BY TypeIs, TypedIs
<1>2. CASE UNCHANGED <<forward, gone>>
  BY <1>2 DEF PastOnly, Held
<1>3. ASSUME NEW c \in Channel, NEW i \in Room \cup {None}, SetForward(c, i)
      PROVE  /\ PastOnly'
             /\ \A d \in Channel, j \in Room \cup {None}, s \in Int :
                   s <= now /\ Held(forward, gone, d, j, s) => Held(forward', gone', d, j, s)
  <2>1. now \in Nat
    BY <1>1 DEF CacheOK
  <2>2. /\ gone \subseteq gone'
        /\ gone' \subseteq gone \cup {<<c, forward[c], now>>}
        /\ forward[c] # i => <<c, forward[c], now>> \in gone'
    BY <1>3 DEF SetForward
  <2>3. \A d \in Channel : forward'[d] = forward[d] \/ (d = c /\ forward'[d] = i)
    BY <1>1, <1>3 DEF StoreOK, SetForward
  <2>4. PastOnly'
    BY <2>1, <2>2 DEF PastOnly
  <2>5. ASSUME NEW d \in Channel, NEW j \in Room \cup {None}, NEW s \in Int,
               s <= now, Held(forward, gone, d, j, s)
        PROVE  Held(forward', gone', d, j, s)
    BY <2>1, <2>2, <2>3, <2>5 DEF Held
  <2>. QED  BY <2>4, <2>5
<1>. QED  BY <1>2, <1>3

\* A step in no time that may replace a mapping, forget entries, make one of
\* what is a mapping now, and end a lookup or let it go on with one.
LEMMA RecentStep ==
    ASSUME Typed, Typed', Recent, now' = now, faults' = faults \/ faults' # 0,
           \/ \E c \in Channel, i \in Room \cup {None} : SetForward(c, i)
           \/ UNCHANGED <<forward, gone>>,
           \A c \in Channel :
              \/ content'[c] \in {content[c], Absent}
              \/ \E i \in Room \cup {None} :
                    /\ content'[c] = [value |-> i, expiresAt |-> now + TTL]
                    /\ Held(forward, gone, c, i, now),
           \A p \in Reader :
              \/ lookup'[p] = lookup[p]
              \/ HoldsRecent(forward', gone', now, faults', lookup'[p])
    PROVE  Recent'
<1>1. /\ StoreOK /\ CacheOK /\ now \in Nat /\ TTL \in Nat /\ RestOK
      /\ lookup \in [Reader -> LookupRecord] /\ LookupsOK
  BY TypeIs, TypedIs, RoomMappingAssumption DEF CacheOK
<1>2. /\ PastOnly'
      /\ \A d \in Channel, j \in Room \cup {None}, s \in Int :
             s <= now /\ Held(forward, gone, d, j, s) => Held(forward', gone', d, j, s)
  BY Remembered DEF Recent
<1>3. ASSUME NEW c \in Channel  PROVE EntryOK(forward', gone', now', c, content'[c])
  <2>1. CASE content'[c] = content[c] /\ content[c] # Absent
    <3>1. PICK e : e = content[c]
      OBVIOUS
    <3>2. e \in EntryRecord /\ e # Absent
      BY <1>1, <2>1, <3>1 DEF CacheOK
    <3>3. e.expiresAt \in Nat /\ e.value \in Room \cup {None} /\ e.expiresAt - TTL \in Int
      BY <1>1, <3>2 DEF EntryRecord
    <3>4. EntryOK(forward, gone, now, c, e)
      BY <3>1 DEF Recent
    <3>5. e.expiresAt <= now + TTL /\ e.expiresAt - TTL <= now
      BY <1>1, <3>2, <3>3, <3>4 DEF EntryOK
    <3>6. now <= e.expiresAt => Held(forward', gone', c, e.value, e.expiresAt - TTL)
      BY <1>2, <3>2, <3>3, <3>4, <3>5 DEF EntryOK
    <3>. QED  BY <2>1, <3>1, <3>5, <3>6 DEF EntryOK
  <2>2. CASE content'[c] = Absent
    BY <2>2 DEF EntryOK
  <2>3. CASE \E i \in Room \cup {None} :
                    /\ content'[c] = [value |-> i, expiresAt |-> now + TTL]
                    /\ Held(forward, gone, c, i, now)
    <3>1. PICK i \in Room \cup {None} :
                    /\ content'[c] = [value |-> i, expiresAt |-> now + TTL]
                    /\ Held(forward, gone, c, i, now)
      BY <2>3
    <3>2. Held(forward', gone', c, i, now) /\ (now + TTL) - TTL = now
      BY <1>1, <1>2, <3>1
    <3>. QED  BY <1>1, <3>1, <3>2 DEF EntryOK
  <2>. QED  BY <2>1, <2>2, <2>3
<1>4. ASSUME NEW p \in Reader  PROVE HoldsRecent(forward', gone', now', faults', lookup'[p])
  <2>1. CASE lookup'[p] = lookup[p]
    <3>1. PICK l : l = lookup[p]
      OBVIOUS
    <3>2. l \in LookupRecord /\ LookupOK(l)
      BY <1>1, <3>1 DEF LookupsOK
    <3>3. l.value \in Room \cup {None} /\ (l.pc # "idle" => l.channel \in Channel)
      BY <3>2 DEF LookupRecord, LookupOK
    <3>4. HoldsRecent(forward, gone, now, faults, l)
      BY <3>1 DEF Recent
    <3>5. l.pc \in {"fill", "cache"} => Held(forward', gone', l.channel, l.value, now)
      BY <1>1, <1>2, <3>3, <3>4 DEF HoldsRecent
    <3>6. now - TTL \in Int /\ now - TTL <= now
      BY <1>1
    <3>7. l.pc = "answered" => \/ Held(forward', gone', l.channel, l.value, now - TTL)
                               \/ l.value = None /\ faults' # 0
      BY <1>2, <3>3, <3>4, <3>6 DEF HoldsRecent
    <3>. QED  BY <2>1, <3>1, <3>5, <3>7 DEF HoldsRecent
  <2>2. CASE HoldsRecent(forward', gone', now, faults', lookup'[p])
    BY <2>2
  <2>. QED  BY <2>1, <2>2
<1>. QED  BY <1>2, <1>3, <1>4 DEF Recent

\* Idle and starting lookups hold nothing that could be out of date.
LEMMA HoldsNothing ==
    /\ \A f, h, n, k : HoldsRecent(f, h, n, k, NoLookup)
    /\ \A f, h, n, k, l : l.pc \in {"forward", "reverse"} => HoldsRecent(f, h, n, k, l)
BY DEF HoldsRecent, NoLookup

\* Commands leave the lookups and the cache alone.
LEMMA RecentCommand ==
    ASSUME Typed, Typed', Recent, faults' = faults \/ faults' # 0,
           UNCHANGED <<lookup, content, now>>,
           \/ \E c \in Channel, i \in Room \cup {None} : SetForward(c, i)
           \/ UNCHANGED <<forward, gone>>
    PROVE  Recent'
BY RecentStep

LEMMA PutEntries ==
    ASSUME Typed, NEW c \in Channel, NEW i \in Room \cup {None}, Cache!Put(c, i)
    PROVE  /\ now' = now
           /\ \A d \in Channel :
                 \/ content'[d] \in {content[d], Absent}
                 \/ d = c /\ content'[d] = [value |-> i, expiresAt |-> now + TTL]
<1>1. CacheOK
  BY TypeIs, TypedIs
<1>. QED  BY <1>1 DEF CacheOK, Cache!Put, Cache!Forgetting

LEMMA RecentRead ==
    ASSUME Typed, Recent, NEW p \in Reader, NEW c \in Channel, NEW again \in BOOLEAN,
           Read(p, c, again)
    PROVE  Recent'
<1>1. PICK l \in LookupRecord : Turns(p, l) /\ Finds(c, l)
  BY Reads
<1>2. /\ Typed' /\ UNCHANGED <<forward, gone, now>>
      /\ \A d \in Channel : content'[d] \in {content[d], Absent}
      /\ faults' = faults \/ faults' # 0
  <2>1. TypeOK /\ UNCHANGED kvVars /\ Cache!Forget /\ (Works \/ Fails)
    BY <1>1, TypedIs DEF Read, Finds
  <2>. QED  BY <2>1, Faults, ReadTyped DEF kvVars, Cache!Forget, Cache!Forgetting
<1>3. StoreOK /\ CacheOK /\ now \in Nat /\ TTL \in Nat /\ TypeOK
  BY TypeIs, TypedIs, RoomMappingAssumption DEF CacheOK
<1>4. HoldsRecent(forward, gone, now, faults', l)
  <2>1. CASE l.channel = c /\ l.pc = "answered" /\ Cache!Live(c) /\ l.value = content[c].value
    <3>1. PICK e : e = content[c]
      OBVIOUS
    <3>2. e # Absent /\ now <= e.expiresAt /\ e \in EntryRecord
      BY <1>3, <2>1, <3>1 DEF Cache!Live, CacheOK
    <3>3. e.expiresAt \in Nat /\ Held(forward, gone, c, e.value, e.expiresAt - TTL)
      BY <3>1, <3>2 DEF EntryRecord, Recent, EntryOK
    <3>4. Held(forward, gone, c, e.value, now - TTL)
      BY <1>3, <3>2, <3>3 DEF Held
    <3>. QED  BY <2>1, <3>1, <3>4 DEF HoldsRecent
  <2>2. CASE l.channel = c /\ l.pc = "fill" /\ l.value = forward[c]
    BY <2>2 DEF HoldsRecent, Held
  <2>3. CASE l.pc = "answered" /\ l.value = None /\ Fails
    BY <1>3, <2>3, Faults DEF HoldsRecent
  <2>. QED  BY <1>1, <2>1, <2>2, <2>3 DEF Finds
<1>5. \A q \in Reader : \/ lookup'[q] = lookup[q]
                        \/ HoldsRecent(forward', gone', now, faults', lookup'[q])
  BY <1>1, <1>2, <1>4 DEF Turns
<1>. QED  BY <1>2, <1>5, RecentStep

LEMMA RecentReader ==
    ASSUME Typed, Recent, NEW p \in Reader, ReaderStep(p)
    PROVE  Recent'
<1>1. now \in Nat /\ TTL \in Nat
  BY TypeIs, TypedIs, RoomMappingAssumption DEF CacheOK
<1>2. CASE CacheFill(p) \/ DmCache(p)
  <2>1. PICK l : l = lookup[p]
    OBVIOUS
  <2>2. PICK pc \in {"answered", "reverse"} : Turns(p, GoneTo(l, pc))
    BY <1>2, <2>1, CacheFillSteps, DmCacheSteps
  <2>3. /\ l.channel \in Channel /\ l.value \in Room \cup {None} /\ Typed'
        /\ l.pc \in {"fill", "cache"} /\ Cache!Put(l.channel, l.value)
        /\ UNCHANGED <<forward, gone, faults>>
    BY <1>2, <2>1, CacheFillSteps, DmCacheSteps, Identifiers DEF At
  <2>4. Held(forward, gone, l.channel, l.value, now)
    BY <2>1, <2>3 DEF Recent, HoldsRecent
  <2>5. now' = now /\ \A c \in Channel :
              \/ content'[c] \in {content[c], Absent}
              \/ /\ content'[c] = [value |-> l.value, expiresAt |-> now + TTL]
                 /\ Held(forward, gone, c, l.value, now)
    BY <2>3, <2>4, PutEntries
  <2>6. Held(forward, gone, l.channel, l.value, now - TTL)
    BY <1>1, <2>4 DEF Held
  <2>7. HoldsRecent(forward, gone, now, faults, GoneTo(l, pc))
    BY <2>6 DEF HoldsRecent, GoneTo
  <2>8. \A q \in Reader : \/ lookup'[q] = lookup[q]
                          \/ HoldsRecent(forward', gone', now, faults', lookup'[q])
    BY <2>2, <2>3, <2>7 DEF Turns
  <2>. QED  BY <2>3, <2>5, <2>8, RecentStep
<1>3. CASE LookupEnd(p)
  <2>1. \A q \in Reader : \/ lookup'[q] = lookup[q]
                          \/ HoldsRecent(forward', gone', now, faults', lookup'[q])
    BY <1>3, LookupEndSteps, HoldsNothing DEF Turns
  <2>2. Typed' /\ UNCHANGED <<forward, gone, content, now, faults>>
    BY <1>3, LookupEndSteps
  <2>. QED  BY <2>1, <2>2, RecentStep
<1>4. CASE LookupAgain(p)
  <2>1. lookup[p].channel \in Channel
    BY <1>4, Looking DEF LookupAgain, Unanswered, At
  <2>. QED  BY <1>4, <2>1, RecentRead DEF LookupAgain
<1>5. CASE DmForward(p)
  <2>1. PICK l : l = lookup[p]
    OBVIOUS
  <2>2. /\ l.channel \in Channel /\ l.value \in Room \cup {None}
        /\ Typed' /\ UNCHANGED <<content, now>>
    BY <1>5, <2>1, DmForwardSteps, Identifiers
  <2>3. CASE SetForward(l.channel, l.value) /\ faults' = faults /\ Turns(p, GoneTo(l, "cache"))
    <3>1. StoreOK
      BY TypeIs, TypedIs
    <3>2. forward'[l.channel] = l.value
      BY <2>2, <2>3, <3>1 DEF StoreOK, SetForward
    <3>3. HoldsRecent(forward', gone', now, faults', GoneTo(l, "cache"))
      BY <3>2 DEF HoldsRecent, GoneTo, Held
    <3>4. \A q \in Reader : \/ lookup'[q] = lookup[q]
                            \/ HoldsRecent(forward', gone', now, faults', lookup'[q])
      BY <2>3, <3>3 DEF Turns
    <3>. QED  BY <2>2, <2>3, <3>4, RecentStep
  <2>4. CASE faults' # 0 /\ Turns(p, NoLookup) /\ UNCHANGED <<forward, reverse, gone, shared>>
    <3>1. \A q \in Reader : \/ lookup'[q] = lookup[q]
                            \/ HoldsRecent(forward', gone', now, faults', lookup'[q])
      BY <2>4, HoldsNothing DEF Turns
    <3>. QED  BY <2>2, <2>4, <3>1, RecentStep
  <2>. QED  BY <1>5, <2>1, <2>3, <2>4, DmForwardSteps
<1>6. CASE DmReverse(p)
  <2>1. \A q \in Reader : \/ lookup'[q] = lookup[q]
                          \/ HoldsRecent(forward', gone', now, faults', lookup'[q])
    BY <1>6, DmReverseSteps, HoldsNothing DEF Turns
  <2>2. Typed' /\ UNCHANGED <<forward, gone, content, now>> /\ (faults' = faults \/ faults' # 0)
    BY <1>6, DmReverseSteps DEF SetReverse
  <2>. QED  BY <2>1, <2>2, RecentStep
<1>. QED  BY <1>2, <1>3, <1>4, <1>5, <1>6 DEF ReaderStep

LEMMA RecentActor ==
    ASSUME Typed, Recent, NEW x \in Changer, ActorStep(x)
    PROVE  Recent'
<1>1. CASE HookRoom(x) \/ UnmapClear(x)
  BY <1>1, HookRoomSteps, UnmapClearSteps, RecentCommand DEF Settled
<1>2. CASE CmdForward(x)
  <2>1. cmd[x].channel \in Channel /\ cmd[x].room \in Room /\ Typed' /\ UNCHANGED <<lookup, content, now>>
    BY <1>2, CmdForwardSteps DEF Settled
  <2>. QED  BY <1>2, <2>1, CmdForwardSteps, RecentCommand
<1>3. CASE UnmapForward(x)
  <2>1. cmd[x].channel \in Channel /\ Typed' /\ UNCHANGED <<lookup, content, now>>
    BY <1>3, UnmapForwardSteps DEF Settled
  <2>. QED  BY <1>3, <2>1, UnmapForwardSteps, RecentCommand
<1>4. CASE CmdReverse(x) \/ CmdRoomID(x) \/ UnmapReverse(x)
  <2>1. /\ Typed' /\ UNCHANGED <<forward, gone, lookup, content, now>>
        /\ faults' = faults \/ faults' # 0
    BY <1>4, CmdReverseSteps, CmdRoomIDSteps, UnmapReverseSteps DEF Settled, SetReverse
  <2>. QED  BY <2>1, RecentCommand
<1>. QED  BY <1>1, <1>2, <1>3, <1>4 DEF ActorStep

LEMMA RecentTick ==
    ASSUME Typed, Recent, Tick
    PROVE  Recent'
<1>1. /\ \A p \in Reader : lookup[p].pc = "idle" /\ lookup'[p] = lookup[p]
      /\ now' = now + 1 /\ content' = content /\ forward' = forward
      /\ gone' = {g \in gone : g[3] + TTL >= now'}
  BY TickSteps DEF At
<1>2. StoreOK /\ CacheOK /\ now \in Nat /\ TTL \in Nat
  BY TypeIs, TypedIs, RoomMappingAssumption DEF CacheOK
<1>3. \A c \in Channel, i \in Room \cup {None}, t \in Nat :
         <<c, i, t>> \in gone' <=> <<c, i, t>> \in gone /\ t + TTL >= now + 1
  BY <1>1
<1>4. PastOnly'
  BY <1>1, <1>2, <1>3 DEF PastOnly, Recent
<1>5. ASSUME NEW c \in Channel, content[c] # Absent
      PROVE  EntryOK(forward', gone', now', c, content'[c])
  <2>1. PICK e : e = content[c]
    OBVIOUS
  <2>2. e \in EntryRecord /\ e # Absent
    BY <1>2, <1>5, <2>1 DEF CacheOK
  <2>3. e.expiresAt \in Nat /\ e.value \in Room \cup {None}
    BY <2>2 DEF EntryRecord
  <2>4. EntryOK(forward, gone, now, c, e)
    BY <2>1 DEF Recent
  <2>5. e.expiresAt <= (now + 1) + TTL
    BY <1>2, <2>2, <2>3, <2>4 DEF EntryOK
  <2>6. ASSUME now + 1 <= e.expiresAt  PROVE Held(forward, gone', c, e.value, e.expiresAt - TTL)
    <3>1. Held(forward, gone, c, e.value, e.expiresAt - TTL)
      BY <1>2, <2>2, <2>3, <2>4, <2>6 DEF EntryOK
    <3>2. ASSUME NEW t \in Nat, <<c, e.value, t>> \in gone, e.expiresAt - TTL <= t
          PROVE  <<c, e.value, t>> \in gone'
      BY <1>2, <1>3, <2>3, <2>6, <3>2
    <3>. QED  BY <3>1, <3>2 DEF Held
  <2>. QED  BY <1>1, <2>1, <2>5, <2>6 DEF EntryOK
<1>6. \A c \in Channel : EntryOK(forward', gone', now', c, content'[c])
  BY <1>1, <1>5 DEF EntryOK
<1>7. \A p \in Reader : HoldsRecent(forward', gone', now', faults', lookup'[p])
  BY <1>1 DEF HoldsRecent
<1>. QED  BY <1>4, <1>6, <1>7 DEF Recent

LEMMA RecentNext == Typed /\ Recent /\ [Next]_vars => Recent'
<1>. SUFFICES ASSUME Typed, Recent, [Next]_vars  PROVE Recent'
  OBVIOUS
<1>. Actor \subseteq Changer
  BY DEF Changer
<1>1. ASSUME NEW p \in Reader, NEW c \in Channel, Lookup(p, c)  PROVE Recent'
  BY <1>1, RecentRead DEF Lookup
<1>2. ASSUME NEW p \in Reader, NEW r \in RoomID, CreateDirectRoom(p, r)  PROVE Recent'
  <2>1. PICK l : Turns(p, l) /\ l.pc = "forward"
    <3>1. PICK l : l = [pc |-> "forward", channel |-> lookup[p].channel,
                        value |-> r, again |-> lookup[p].again]
      OBVIOUS
    <3>. QED  BY <1>2, <3>1, CreateDirectRoomSteps
  <2>2. \A q \in Reader : \/ lookup'[q] = lookup[q]
                          \/ HoldsRecent(forward', gone', now, faults', lookup'[q])
    BY <2>1, HoldsNothing DEF Turns
  <2>3. Typed' /\ UNCHANGED <<forward, gone, content, now, faults>>
    BY <1>2, CreateDirectRoomSteps
  <2>. QED  BY <2>2, <2>3, RecentStep
<1>3. ASSUME NEW x \in Actor, NEW c \in Channel, NEW i \in Room,
             MapCommand(x, c, i) \/ JoinCommand(x, c, i)
      PROVE  Recent'
  <2>1. Typed' /\ UNCHANGED <<forward, gone, lookup, content, now, faults>>
    BY <1>3, MapSteps, JoinSteps DEF Starts, Give
  <2>. QED  BY <2>1, RecentCommand
<1>4. ASSUME NEW x \in Actor, NEW c \in Channel, NEW a \in Alias, CreateCommand(x, c, a)
      PROVE  Recent'
  <2>1. Typed' /\ UNCHANGED <<forward, gone, lookup, content, now, faults>>
    BY <1>4, CreateSteps DEF Starts, Give
  <2>. QED  BY <2>1, RecentCommand
<1>5. ASSUME NEW x \in Actor, NEW c \in Channel, NEW r \in RoomID, MatrixDm(x, c, r)
      PROVE  Recent'
  <2>1. Typed' /\ UNCHANGED <<forward, gone, lookup, content, now, faults>>
    BY <1>5, MatrixDmSteps DEF Starts, Give
  <2>. QED  BY <2>1, RecentCommand
<1>6. ASSUME NEW x \in Actor, NEW c \in Channel, UnmapCommand(x, c)  PROVE Recent'
  BY <1>6, UnmapSteps, RecentCommand
<1>7. CASE UNCHANGED vars
  BY <1>7 DEF vars, kvVars, cacheVars, Recent, PastOnly
<1>. QED  BY <1>1, <1>2, <1>3, <1>4, <1>5, <1>6, <1>7, RecentReader, RecentActor, RecentTick DEF Next

LEMMA InitRecent == Init => Recent
BY DEF Init, Recent, PastOnly, EntryOK, HoldsRecent, NoLookup

LEMMA RecentAnswers == Typed /\ Recent => BoundedStaleness
<1>. SUFFICES ASSUME Typed, Recent, NEW p \in Reader, At(p, "answered"),
                     NEW c, c = lookup[p].channel, NEW i, i = lookup[p].value
              PROVE  \/ forward[c] = i
                     \/ \E t \in (now - TTL)..now : <<c, i, t>> \in gone
                     \/ i = None /\ faults > 0
  BY DEF BoundedStaleness
<1>1. now \in Nat /\ TTL \in Nat /\ faults \in Nat
  BY TypeIs, TypedIs, RoomMappingAssumption DEF CacheOK, RestOK
<1>2. c \in Channel /\ i \in Room \cup {None}
  BY Looking DEF At
<1>3. \/ Held(forward, gone, c, i, now - TTL)
      \/ i = None /\ faults # 0
  BY DEF Recent, HoldsRecent, At
<1>4. ASSUME NEW t \in Nat, <<c, i, t>> \in gone, now - TTL <= t
      PROVE  t \in (now - TTL)..now
  <2>1. t <= now
    BY <1>2, <1>4 DEF Recent, PastOnly
  <2>. QED  BY <1>1, <1>4, <2>1
<1>. QED  BY <1>1, <1>3, <1>4 DEF Held

\* What GetMatrixRoomID answers was the channel's mapping at some time in the
\* last TTL, and never a mapping of another channel, however lookups, fills of
\* the cache, DM creation and the commands interleave and whatever write fails.
THEOREM RoomMappingBoundedStaleness == Spec => []BoundedStaleness
<1>1. Init => Typed /\ Recent
  BY InitTyped, InitRecent
<1>2. Typed /\ Recent /\ [Next]_vars => (Typed /\ Recent)'
  BY TypedNext, RecentNext
<1>3. Typed /\ Recent => BoundedStaleness
  BY RecentAnswers
<1>. QED  BY <1>1, <1>2, <1>3, PTL DEF Spec

-----------------------------------------------------------------------------
(* Who has a room *)

CmdClaims(m, c, r) == m.room # None /\ m.channel = c /\ RoomIDOf(m.room) = r
LookupClaims(l, c, r) == l.pc \in Fresh /\ l.channel = c /\ l.value = r

\* Channel c has room r, or is being given it or losing it.
Claims(c, r) == \/ forward[c] # None /\ RoomIDOf(forward[c]) = r
                \/ \E x \in Changer : CmdClaims(cmd[x], c, r)
                \/ \E p \in Reader : LookupClaims(lookup[p], c, r)

Exclusive == ~shared =>
    \A c, d \in Channel, r \in RoomID : Claims(c, r) /\ Claims(d, r) => c = d

\* Rooms that anything refers to exist: a room just created is nobody's.
Existing ==
    /\ External \subseteq exists
    /\ \A c \in Channel, r \in RoomID : Claims(c, r) => r \in exists
    /\ \A i \in Room : reverse[i] # None => RoomIDOf(i) \in exists
    /\ \A d \in dmRooms : d[2] \in exists

\* No command knows a room that a reader is creating.
Unknown(r) == /\ r \notin External
              /\ \A a \in Alias : RoomOf[a] # r
              /\ \A x \in Changer : cmd[x].room # r
Secluded == \A p \in Reader : lookup[p].pc \in Fresh => Unknown(lookup[p].value)

\* Rooms of DMs, and that there are no others before an administrator comes in.
Recorded ==
    /\ \A p \in Reader : lookup[p].pc \in Fresh =>
                            <<lookup[p].channel, lookup[p].value>> \in dmRooms
    /\ ~manual => \A x \in Changer :
                     /\ cmd[x].kind \in {"none", "dm"}
                     /\ cmd[x].kind = "dm" => <<cmd[x].channel, cmd[x].room>> \in dmRooms
OneDm == ~manual /\ ~shared /\ faults = 0 =>
             \A d, e \in dmRooms : d[2] = e[2] => d[1] = e[1]

\* An unmap takes away the mapping it read, or one that a DM got meanwhile.
Unmaps(f, m) ==
    /\ m.pc \in {"clear", "dropForward"} => f[m.channel] \in {None, m.room} \cup RoomID
    /\ m.pc = "dropReverse" => f[m.channel] \in (RoomID \cup {None}) \ {m.room}
Unmapping == \A x \in Changer : Unmaps(forward, cmd[x])

\* The stored identifier leads back, or somebody is about to see to it.
Leads(c) == \/ forward[c] \in RoomID /\ reverse[forward[c]] = c
            \/ forward[c] \in Alias /\ ChannelFor(RoomOf[forward[c]]) = c
CmdSeesTo(m, c, i) == m.channel = c /\ m.room = i /\ m.pc \in {"reverse", "roomID"}
LookupSeesTo(l, c, i) == l.channel = c /\ l.value = i /\ l.pc \in {"cache", "reverse"}
SeenTo(c, i) == \/ \E x \in Changer : CmdSeesTo(cmd[x], c, i)
                \/ \E p \in Reader : LookupSeesTo(lookup[p], c, i)
LeadsBack(c) == forward[c] = None \/ Leads(c) \/ SeenTo(c, forward[c])

\* A room that the bridge creates names its channel from the start.
Names(m) == m.kind \in {"create", "hook"} /\ m.room # None =>
                ChannelFor(RoomIDOf(m.room)) = m.channel

Agreement == ~shared /\ faults = 0 => /\ \A c \in Channel : LeadsBack(c)
                                      /\ \A x \in Changer : Names(cmd[x])

Ownership == Exclusive /\ Existing /\ Secluded /\ Recorded
Settlement == OneDm /\ Unmapping /\ Agreement /\ DmRoomsLeadBack

-----------------------------------------------------------------------------
(* Steps by which no channel gets a room *)

GoesOn(m, n) == n.kind = m.kind /\ n.channel = m.channel /\ n.room = m.room

Onward ==
    /\ \A c \in Channel : forward'[c] \in {forward[c], None} \/ Claims(c, RoomIDOf(forward'[c]))
    /\ \A i \in Room : \/ reverse'[i] \in {reverse[i], None}
                       \/ \E c \in Channel : Claims(c, RoomIDOf(i))
    /\ \A x \in Changer : cmd'[x] = NoCmd \/ GoesOn(cmd[x], cmd'[x])
    /\ \A p \in Reader : lookup'[p].pc \in Fresh =>
          /\ lookup[p].pc \in Fresh
          /\ lookup'[p].channel = lookup[p].channel /\ lookup'[p].value = lookup[p].value
    /\ UNCHANGED <<exists, dmRooms, manual, shared>>
    /\ faults' = faults \/ faults' # 0

LEMMA Onwards ==
    ASSUME Typed, Ownership, OneDm, Onward
    PROVE  Ownership' /\ OneDm'
<1>1. /\ StoreOK /\ RestOK /\ LookupsOK /\ cmd \in [Changer -> CmdRecord]
  BY TypeIs, TypedIs
<1>2. ASSUME NEW c \in Channel, NEW r \in RoomID, Claims(c, r)'
      PROVE  Claims(c, r)
  <2>1. CASE forward'[c] # None /\ RoomIDOf(forward'[c]) = r
    BY <2>1 DEF Onward, Claims
  <2>2. ASSUME NEW x \in Changer, CmdClaims(cmd'[x], c, r)  PROVE Claims(c, r)
    <3>1. PICK n : n = cmd'[x]
      OBVIOUS
    <3>2. n # NoCmd
      BY <2>2, <3>1 DEF CmdClaims, NoCmd
    <3>3. CmdClaims(cmd[x], c, r)
      BY <2>2, <3>1, <3>2 DEF Onward, GoesOn, CmdClaims
    <3>. QED  BY <3>3 DEF Claims
  <2>3. ASSUME NEW p \in Reader, LookupClaims(lookup'[p], c, r)  PROVE Claims(c, r)
    <3>1. LookupClaims(lookup[p], c, r)
      BY <2>3 DEF Onward, LookupClaims
    <3>. QED  BY <3>1 DEF Claims
  <2>. QED  BY <1>2, <2>1, <2>2, <2>3 DEF Claims
<1>3. Exclusive'
  BY <1>2 DEF Ownership, Exclusive, Onward
<1>4. Existing'
  <2>1. \A c \in Channel, r \in RoomID : Claims(c, r)' => r \in exists'
    BY <1>2 DEF Ownership, Existing, Onward
  <2>2. ASSUME NEW i \in Room, reverse'[i] # None  PROVE RoomIDOf(i) \in exists'
    BY <2>2, Identifiers DEF Ownership, Existing, Onward
  <2>3. External \subseteq exists' /\ \A d \in dmRooms' : d[2] \in exists'
    BY DEF Ownership, Existing, Onward
  <2>. QED  BY <2>1, <2>2, <2>3 DEF Existing
<1>5. Secluded'
  <2>1. SUFFICES ASSUME NEW p \in Reader, lookup'[p].pc \in Fresh  PROVE Unknown(lookup[p].value)'
        /\ lookup'[p].value = lookup[p].value
    BY DEF Secluded, Unknown
  <2>2. PICK r : r = lookup[p].value /\ r = lookup'[p].value
    BY <2>1 DEF Onward
  <2>3. lookup[p].pc \in Fresh
    BY <2>1 DEF Onward
  <2>4. Unknown(r) /\ r \in RoomID
    BY <1>1, <2>2, <2>3 DEF Ownership, Secluded, LookupsOK, LookupOK
  <2>5. \A x \in Changer : cmd'[x].room # r
    BY <2>4, Identifiers DEF Onward, GoesOn, Unknown, NoCmd
  <2>. QED  BY <2>2, <2>4, <2>5 DEF Unknown
<1>6. Recorded'
  <2>1. ASSUME NEW p \in Reader, lookup'[p].pc \in Fresh
        PROVE  <<lookup'[p].channel, lookup'[p].value>> \in dmRooms'
    BY <2>1 DEF Onward, Ownership, Recorded
  <2>2. ASSUME ~manual', NEW x \in Changer
        PROVE  /\ cmd'[x].kind \in {"none", "dm"}
               /\ cmd'[x].kind = "dm" => <<cmd'[x].channel, cmd'[x].room>> \in dmRooms'
    BY <2>2 DEF Onward, Ownership, Recorded, GoesOn, NoCmd
  <2>. QED  BY <2>1, <2>2 DEF Recorded
<1>7. OneDm'
  BY DEF Onward, OneDm
<1>. QED  BY <1>3, <1>4, <1>5, <1>6, <1>7 DEF Ownership

\* A step that fails owes nothing but that unmaps know what they take away.
LEMMA Failed ==
    ASSUME Typed, Ownership, Settlement, Onward, forward' = forward, faults' # 0,
           \A x \in Changer : cmd'[x] = cmd[x] \/ cmd'[x].pc \in {"idle", "reverse", "roomID"}
    PROVE  (Ownership /\ Settlement)'
<1>1. Ownership' /\ OneDm'
  BY Onwards DEF Settlement
<1>2. Agreement' /\ DmRoomsLeadBack'
  BY DEF Agreement, DmRoomsLeadBack
<1>3. Unmapping'
  BY DEF Settlement, Unmapping, Unmaps
<1>. QED  BY <1>1, <1>2, <1>3 DEF Settlement

\* Lookups read, fill the cache, end, or give up a room whose keys they could
\* not write.
Quiet ==
    /\ UNCHANGED <<forward, reverse, shared, roomState, exists, cmd, dmRooms, manual>>
    /\ \A p \in Reader :
          \/ lookup'[p] = lookup[p]
          \/ lookup[p].pc \notin Fresh /\ lookup'[p].pc \notin Fresh
          \/ lookup[p].pc = "cache" /\ lookup'[p] = GoneTo(lookup[p], "reverse")
          \/ faults' # 0 /\ lookup'[p].pc \notin Fresh
    /\ faults' = faults \/ faults' # 0

LEMMA QuietSteps ==
    ASSUME Typed, Ownership, Settlement, Quiet
    PROVE  (Ownership /\ Settlement)'
<1>1. StoreOK /\ cmd \in [Changer -> CmdRecord]
  BY TypeIs, TypedIs
<1>2. Onward
  <2>1. \A c \in Channel : forward'[c] \in {forward[c], None} \/ Claims(c, RoomIDOf(forward'[c]))
    BY DEF Quiet
  <2>2. \A i \in Room : \/ reverse'[i] \in {reverse[i], None}
                        \/ \E c \in Channel : Claims(c, RoomIDOf(i))
    BY DEF Quiet
  <2>3. \A x \in Changer : cmd'[x] = NoCmd \/ GoesOn(cmd[x], cmd'[x])
    BY DEF Quiet, GoesOn
  <2>4. ASSUME NEW p \in Reader, lookup'[p].pc \in Fresh
        PROVE  /\ lookup[p].pc \in Fresh
               /\ lookup'[p].channel = lookup[p].channel /\ lookup'[p].value = lookup[p].value
    <3>1. PICK k, l : k = lookup[p] /\ l = lookup'[p]
      OBVIOUS
    <3>2. l = k \/ (k.pc = "cache" /\ l = GoneTo(k, "reverse"))
      BY <2>4, <3>1 DEF Quiet
    <3>. QED  BY <2>4, <3>1, <3>2 DEF GoneTo, Fresh
  <2>5. UNCHANGED <<exists, dmRooms, manual, shared>> /\ (faults' = faults \/ faults' # 0)
    BY DEF Quiet
  <2>. QED  BY <2>1, <2>2, <2>3, <2>4, <2>5 DEF Onward
<1>3. CASE faults' # 0
  BY <1>2, <1>3, Failed DEF Quiet
<1>4. CASE faults' = 0 /\ faults = 0
  <2>1. Ownership' /\ OneDm'
    BY <1>2, Onwards DEF Settlement
  <2>2. Unmapping'
    BY DEF Settlement, Unmapping, Unmaps, Quiet
  <2>3. ASSUME NEW c \in Channel, LeadsBack(c)  PROVE LeadsBack(c)'
    <3>1. \A i : SeenTo(c, i) => SeenTo(c, i)'
      <4>1. ASSUME NEW i, NEW p \in Reader, LookupSeesTo(lookup[p], c, i)
            PROVE  LookupSeesTo(lookup'[p], c, i)
        <5>1. PICK k, l : k = lookup[p] /\ l = lookup'[p]
          OBVIOUS
        <5>2. k.pc \in Fresh
          BY <4>1, <5>1 DEF LookupSeesTo, Fresh
        <5>3. l = k \/ (k.pc = "cache" /\ l = GoneTo(k, "reverse"))
          BY <1>4, <5>1, <5>2 DEF Quiet
        <5>. QED  BY <4>1, <5>1, <5>3 DEF GoneTo, LookupSeesTo
      <4>. QED  BY <4>1 DEF SeenTo, Quiet
    <3>2. Leads(c) => Leads(c)'
      BY DEF Leads, ChannelFor, Quiet
    <3>. QED  BY <2>3, <3>1, <3>2 DEF LeadsBack, Quiet
  <2>4. \A x \in Changer : Names(cmd[x]) => Names(cmd[x])'
    BY DEF Names, ChannelFor, Quiet
  <2>5. Agreement'
    BY <1>4, <2>3, <2>4 DEF Settlement, Agreement, Quiet
  <2>6. ASSUME NEW p \in Reader, Creating(p)
        PROVE  Creating(p)' /\ lookup'[p].value = lookup[p].value
    <3>1. PICK k, l : k = lookup[p] /\ l = lookup'[p]
      OBVIOUS
    <3>2. k.pc \in Fresh
      BY <2>6, <3>1 DEF Creating, Fresh
    <3>3. l = k \/ (k.pc = "cache" /\ l = GoneTo(k, "reverse"))
      BY <1>4, <3>1, <3>2 DEF Quiet
    <3>. QED  BY <2>6, <3>1, <3>2, <3>3 DEF GoneTo, Creating, Fresh
  <2>7. DmRoomsLeadBack'
    <3>1. \A r : ChannelFor(r)' = ChannelFor(r)
      BY DEF ChannelFor, Quiet
    <3>. QED  BY <1>4, <2>6, <3>1 DEF Settlement, DmRoomsLeadBack, Quiet
  <2>. QED  BY <2>1, <2>2, <2>5, <2>7 DEF Settlement
<1>. QED  BY <1>3, <1>4 DEF Quiet

-----------------------------------------------------------------------------
(* What the steps that go on do to the mappings *)

LEMMA ForwardWritten ==
    ASSUME Typed, NEW c \in Channel, NEW i \in Room \cup {None}, SetForward(c, i)
    PROVE  /\ \A d \in Channel : forward'[d] = IF d = c THEN i ELSE forward[d]
           /\ UNCHANGED <<reverse, shared>>
BY TypeIs, TypedIs DEF StoreOK, SetForward

LEMMA ReverseWritten ==
    ASSUME Typed, NEW i \in Room, NEW c \in Channel \cup {None}, SetReverse(i, c)
    PROVE  /\ \A j \in Room : reverse'[j] = IF j = i THEN c ELSE reverse[j]
           /\ UNCHANGED <<forward, shared>>
BY TypeIs, TypedIs DEF StoreOK, SetReverse

\* A reverse key that a channel may write leads other channels' rooms nowhere else.
LEMMA ReverseKeeps ==
    ASSUME Typed, Exclusive, ~shared, NEW i \in Room, NEW c \in Channel, SetReverse(i, c),
           Claims(c, RoomIDOf(i)), roomState' = roomState
    PROVE  /\ \A d \in Channel, r \in RoomID : Claims(d, r) =>
                 /\ reverse[r] = d => reverse'[r] = d
                 /\ ChannelFor(r) = d => ChannelFor(r)' = d
           /\ \A d \in Channel : Leads(d) => Leads(d)'
           /\ \A x \in Changer, m \in CmdRecord : m = cmd[x] /\ Names(m) => Names(m)'
<1>1. /\ \A j \in Room : reverse'[j] = IF j = i THEN c ELSE reverse[j]
      /\ forward' = forward /\ c # None
  BY ReverseWritten, Identifiers
<1>2. ASSUME NEW d \in Channel, NEW r \in RoomID, Claims(d, r)
      PROVE  /\ reverse[r] = d => reverse'[r] = d
             /\ ChannelFor(r) = d => ChannelFor(r)' = d
  <2>1. r \in Room /\ RoomIDOf(r) = r
    BY Identifiers
  <2>2. r = i => c = d
    BY <1>2, <2>1 DEF Exclusive
  <2>. QED  BY <1>1, <2>1, <2>2 DEF ChannelFor
<1>3. ASSUME NEW d \in Channel, Leads(d)  PROVE Leads(d)'
  <2>1. PICK j : j = forward[d] /\ j = forward'[d]
    BY <1>1
  <2>2. j \in Room /\ j # None
    BY <1>3, <2>1, Identifiers DEF Leads
  <2>3. Claims(d, RoomIDOf(j)) /\ RoomIDOf(j) \in RoomID
    BY <2>1, <2>2, Identifiers DEF Claims
  <2>4. CASE j \in RoomID /\ reverse[j] = d
    BY <1>2, <2>1, <2>3, <2>4, Identifiers DEF Leads
  <2>5. CASE j \in Alias /\ ChannelFor(RoomOf[j]) = d
    BY <1>2, <2>1, <2>3, <2>5, Identifiers DEF Leads
  <2>. QED  BY <1>3, <2>1, <2>4, <2>5 DEF Leads
<1>4. ASSUME NEW x \in Changer, NEW m \in CmdRecord, m = cmd[x], Names(m),
             m.kind \in {"create", "hook"}, m.room # None
      PROVE  ChannelFor(RoomIDOf(m.room))' = m.channel
  <2>1. PICK d, r : d = m.channel /\ r = RoomIDOf(m.room)
    OBVIOUS
  <2>2. m.room \in Room /\ m # NoCmd
    BY <1>4 DEF CmdRecord, NoCmd
  <2>3. d \in Channel /\ r \in RoomID
    BY <1>4, <2>1, <2>2, TypedIs, Identifiers DEF CmdsOK, CmdOK
  <2>4. Claims(d, r)
    BY <1>4, <2>1 DEF Claims, CmdClaims
  <2>5. ChannelFor(r) = d
    BY <1>4, <2>1 DEF Names
  <2>6. ChannelFor(r)' = d
    BY <1>2, <2>3, <2>4, <2>5
  <2>. QED  BY <2>1, <2>6
<1>. QED  BY <1>2, <1>3, <1>4 DEF Names

LEMMA LeadsBackKept ==
    ASSUME NEW c \in Channel, LeadsBack(c), forward'[c] = forward[c],
           Leads(c) => Leads(c)',
           \A x \in Changer : CmdSeesTo(cmd[x], c, forward[c]) =>
              CmdSeesTo(cmd'[x], c, forward[c]) \/ Leads(c)',
           \A p \in Reader : LookupSeesTo(lookup[p], c, forward[c]) =>
              LookupSeesTo(lookup'[p], c, forward[c]) \/ Leads(c)'
    PROVE  LeadsBack(c)'
<1>1. PICK i : i = forward[c] /\ i = forward'[c]
  OBVIOUS
<1>2. SeenTo(c, i) => SeenTo(c, i)' \/ Leads(c)'
  BY <1>1 DEF SeenTo
<1>. QED  BY <1>1, <1>2 DEF LeadsBack

\* The rooms of DMs go on leading back when one of them gets its reverse key.
LEMMA DmKept ==
    ASSUME Typed, OneDm, ~manual, ~shared, faults = 0, NEW c \in Channel, NEW r \in RoomID,
           <<c, r>> \in dmRooms, SetReverse(r, c), roomState' = roomState
    PROVE  \A d \in dmRooms : ChannelFor(d[2]) = d[1] \/ d[2] = r => ChannelFor(d[2])' = d[1]
<1>1. /\ \A j \in Room : reverse'[j] = IF j = r THEN c ELSE reverse[j]
      /\ c # None /\ r \in Room /\ RestOK
  BY ReverseWritten, Identifiers, TypeIs, TypedIs
<1>2. SUFFICES ASSUME NEW d \in dmRooms, ChannelFor(d[2]) = d[1] \/ d[2] = r
               PROVE  ChannelFor(d[2])' = d[1]
  OBVIOUS
<1>3. PICK e, s : d = <<e, s>> /\ s \in RoomID /\ s \in Room
  BY <1>1, Identifiers DEF RestOK
<1>4. CASE s = r
  <2>1. e = c
    BY <1>2, <1>3, <1>4 DEF OneDm
  <2>. QED  BY <1>1, <1>3, <1>4, <2>1 DEF ChannelFor
<1>5. CASE s # r
  <2>1. ChannelFor(s) = e
    BY <1>2, <1>3, <1>5
  <2>. QED  BY <1>1, <1>3, <1>5, <2>1 DEF ChannelFor
<1>. QED  BY <1>4, <1>5

Inv == Ownership /\ Settlement

LEMMA MapDmForward ==
    ASSUME Typed, Inv, NEW p \in Reader, DmForward(p)
    PROVE  Inv'
<1>1. PICK l : l = lookup[p]
  OBVIOUS
<1>2. /\ l.pc = "forward" /\ l.channel \in Channel /\ l.value \in RoomID /\ l.value \in Room
      /\ UNCHANGED <<roomState, exists, cmd, dmRooms, manual>>
  BY <1>1, DmForwardSteps, Identifiers DEF At
<1>3. CASE faults' # 0 /\ Turns(p, NoLookup) /\ UNCHANGED <<forward, reverse, gone, shared>>
  <2>1. \A q \in Reader : lookup'[q] = lookup[q] \/ lookup'[q].pc \notin Fresh
    BY <1>3 DEF Turns, NoLookup, Fresh
  <2>2. Quiet
    BY <1>2, <1>3, <2>1 DEF Quiet
  <2>. QED  BY <2>2, QuietSteps DEF Inv
<1>4. CASE SetForward(l.channel, l.value) /\ faults' = faults /\ Turns(p, GoneTo(l, "cache"))
  <2>1. /\ \A d \in Channel : forward'[d] = IF d = l.channel THEN l.value ELSE forward[d]
        /\ UNCHANGED <<reverse, shared>>
    BY <1>2, <1>4, ForwardWritten
  <2>2. LookupClaims(l, l.channel, l.value)
    BY <1>2 DEF LookupClaims, Fresh
  <2>3. Claims(l.channel, RoomIDOf(l.value))
    BY <1>1, <1>2, <2>2, Identifiers DEF Claims
  <2>4. PICK k : k = GoneTo(l, "cache")
    OBVIOUS
  <2>5. k.pc = "cache" /\ k.channel = l.channel /\ k.value = l.value
    BY <2>4 DEF GoneTo
  <2>6. /\ lookup'[p] = k /\ l = lookup[p]
        /\ \A q \in Reader \ {p} : lookup'[q] = lookup[q]
    BY <1>1, <1>4, <2>4 DEF Turns
  <2>7. Onward
    <3>1. \A c \in Channel : forward'[c] \in {forward[c], None} \/ Claims(c, RoomIDOf(forward'[c]))
      BY <2>1, <2>3
    <3>2. ASSUME NEW q \in Reader, lookup'[q].pc \in Fresh
          PROVE  /\ lookup[q].pc \in Fresh
                 /\ lookup'[q].channel = lookup[q].channel /\ lookup'[q].value = lookup[q].value
      BY <1>2, <2>5, <2>6, <3>2 DEF Fresh
    <3>. QED  BY <1>2, <1>4, <2>1, <3>1, <3>2 DEF Onward, GoesOn
  <2>8. Ownership' /\ OneDm'
    BY <2>7, Onwards DEF Inv, Settlement
  <2>9. Unmapping'
    <3>1. SUFFICES ASSUME NEW x \in Changer, NEW m, m = cmd[x]  PROVE Unmaps(forward', m)
      BY <1>2 DEF Unmapping
    <3>2. Unmaps(forward, m)
      BY <3>1 DEF Inv, Settlement, Unmapping
    <3>3. m.room # l.value
      BY <1>1, <1>2, <3>1 DEF Inv, Ownership, Secluded, Unknown, Fresh
    <3>4. m.pc # "idle" => m.channel \in Channel
      BY <3>1, Working
    <3>. QED  BY <1>2, <2>1, <3>2, <3>3, <3>4 DEF Unmaps
  <2>10. ASSUME NEW d \in Channel, LeadsBack(d)  PROVE LeadsBack(d)'
    <3>1. CASE d = l.channel
      BY <2>1, <2>5, <2>6, <3>1 DEF LeadsBack, SeenTo, LookupSeesTo
    <3>2. CASE d # l.channel
      <4>1. forward'[d] = forward[d] /\ (Leads(d) => Leads(d)')
        BY <1>2, <2>1, <3>2 DEF Leads, ChannelFor
      <4>2. \A i : \A q \in Reader : LookupSeesTo(lookup[q], d, i) => LookupSeesTo(lookup'[q], d, i)
        BY <1>2, <2>6 DEF LookupSeesTo
      <4>. QED  BY <1>2, <2>10, <4>1, <4>2, LeadsBackKept
    <3>. QED  BY <3>1, <3>2
  <2>11. \A x \in Changer : Names(cmd[x]) => Names(cmd[x])'
    BY <1>2, <2>1 DEF Names, ChannelFor
  <2>12. Agreement'
    BY <1>2, <1>4, <2>1, <2>10, <2>11 DEF Inv, Settlement, Agreement
  <2>13. DmRoomsLeadBack'
    <3>1. \A r : ChannelFor(r)' = ChannelFor(r)
      BY <1>2, <2>1 DEF ChannelFor
    <3>2. ASSUME NEW q \in Reader, Creating(q)  PROVE Creating(q)' /\ lookup'[q].value = lookup[q].value
      BY <2>5, <2>6, <3>2 DEF Creating
    <3>. QED  BY <1>2, <1>4, <2>1, <3>1, <3>2 DEF Inv, Settlement, DmRoomsLeadBack
  <2>. QED  BY <2>8, <2>9, <2>12, <2>13 DEF Inv, Settlement
<1>. QED  BY <1>1, <1>3, <1>4, DmForwardSteps

LEMMA MapDmReverse ==
    ASSUME Typed, Inv, NEW p \in Reader, DmReverse(p)
    PROVE  Inv'
<1>1. PICK l : l = lookup[p]
  OBVIOUS
<1>2. /\ l.pc = "reverse" /\ l.channel \in Channel /\ l.value \in RoomID /\ l.value \in Room
      /\ l.channel # None /\ Turns(p, NoLookup)
      /\ UNCHANGED <<roomState, exists, cmd, dmRooms, manual>>
  BY <1>1, DmReverseSteps, Identifiers DEF At
<1>3. /\ lookup'[p] = NoLookup /\ NoLookup.pc = "idle"
      /\ \A q \in Reader \ {p} : lookup'[q] = lookup[q]
  BY <1>2 DEF Turns, NoLookup
<1>4. CASE faults' # 0 /\ UNCHANGED <<forward, reverse, gone, shared>>
  <2>1. \A q \in Reader : lookup'[q] = lookup[q] \/ lookup'[q].pc \notin Fresh
    BY <1>3 DEF Fresh
  <2>2. Quiet
    BY <1>2, <1>4, <2>1 DEF Quiet
  <2>. QED  BY <2>2, QuietSteps DEF Inv
<1>5. CASE SetReverse(l.value, l.channel) /\ faults' = faults
  <2>1. /\ \A j \in Room : reverse'[j] = IF j = l.value THEN l.channel ELSE reverse[j]
        /\ UNCHANGED <<forward, shared>>
    BY <1>2, <1>5, ReverseWritten
  <2>2. LookupClaims(l, l.channel, l.value)
    BY <1>2 DEF LookupClaims, Fresh
  <2>3. Claims(l.channel, RoomIDOf(l.value))
    BY <1>1, <1>2, <2>2, Identifiers DEF Claims
  <2>4. Onward
    <3>1. ASSUME NEW i \in Room
          PROVE  reverse'[i] \in {reverse[i], None} \/ \E c \in Channel : Claims(c, RoomIDOf(i))
      BY <1>2, <2>1, <2>3
    <3>2. ASSUME NEW q \in Reader, lookup'[q].pc \in Fresh
          PROVE  /\ lookup[q].pc \in Fresh
                 /\ lookup'[q].channel = lookup[q].channel /\ lookup'[q].value = lookup[q].value
      BY <1>3, <3>2 DEF Fresh
    <3>. QED  BY <1>2, <1>5, <2>1, <3>1, <3>2 DEF Onward, GoesOn
  <2>5. Ownership' /\ OneDm'
    BY <2>4, Onwards DEF Inv, Settlement
  <2>6. Unmapping'
    BY <1>2, <2>1 DEF Inv, Settlement, Unmapping
  <2>7. ASSUME ~shared, NEW d \in Channel, LeadsBack(d)  PROVE LeadsBack(d)'
    <3>1. Leads(d) => Leads(d)'
      BY <1>2, <1>5, <2>3, <2>7, ReverseKeeps DEF Inv, Ownership
    <3>2. ASSUME NEW q \in Reader, LookupSeesTo(lookup[q], d, forward[d])
          PROVE  LookupSeesTo(lookup'[q], d, forward[d]) \/ Leads(d)'
      <4>1. CASE q = p
        BY <1>1, <1>2, <2>1, <3>2, <4>1 DEF LookupSeesTo, Leads
      <4>. QED  BY <1>3, <3>2, <4>1
    <3>. QED  BY <1>2, <2>1, <2>7, <3>1, <3>2, LeadsBackKept
  <2>8. ASSUME ~shared, NEW x \in Changer, Names(cmd[x])  PROVE Names(cmd[x])'
    <3>1. PICK m : m = cmd[x] /\ m = cmd'[x] /\ m \in CmdRecord
      BY <1>2, TypeIs, TypedIs
    <3>2. Names(m)'
      BY <1>2, <1>5, <2>3, <2>8, <3>1, ReverseKeeps DEF Inv, Ownership
    <3>. QED  BY <3>1, <3>2 DEF Names
  <2>9. Agreement'
    BY <1>2, <1>5, <2>1, <2>7, <2>8 DEF Inv, Settlement, Agreement
  <2>10. DmRoomsLeadBack'
    <3>1. SUFFICES ASSUME ~manual, ~shared, faults = 0, NEW d \in dmRooms
                   PROVE  \/ ChannelFor(d[2])' = d[1]
                          \/ \E q \in Reader : Creating(q)' /\ lookup'[q].value = d[2]
                          \/ \E x \in Changer : cmd'[x].room = d[2]
      BY <1>2, <1>5, <2>1 DEF DmRoomsLeadBack
    <3>2. <<l.channel, l.value>> \in dmRooms
      BY <1>1, <1>2 DEF Inv, Ownership, Recorded, Fresh
    <3>3. ChannelFor(d[2]) = d[1] \/ d[2] = l.value => ChannelFor(d[2])' = d[1]
      BY <1>2, <1>5, <3>1, <3>2, DmKept DEF Inv, Settlement
    <3>4. ASSUME NEW q \in Reader, Creating(q), lookup[q].value # l.value
          PROVE  Creating(q)' /\ lookup'[q].value = lookup[q].value
      BY <1>1, <1>3, <3>4 DEF Creating
    <3>. QED  BY <1>2, <3>1, <3>3, <3>4 DEF Inv, Settlement, DmRoomsLeadBack
  <2>. QED  BY <2>5, <2>6, <2>9, <2>10 DEF Inv, Settlement
<1>. QED  BY <1>1, <1>4, <1>5, DmReverseSteps

\* A command goes on or ends, and may write a key of a room it has.
LEMMA CommandOnward ==
    ASSUME Typed, NEW x \in Changer, NEW n, Becomes(x, n), n = NoCmd \/ GoesOn(cmd[x], n),
           UNCHANGED <<exists, lookup, dmRooms, manual, shared>>, faults' = faults \/ faults' # 0,
           \A c \in Channel : forward'[c] \in {forward[c], None} \/ Claims(c, RoomIDOf(forward'[c])),
           \A i \in Room : \/ reverse'[i] \in {reverse[i], None}
                           \/ \E c \in Channel : Claims(c, RoomIDOf(i))
    PROVE  Onward
<1>1. \A y \in Changer : cmd'[y] = NoCmd \/ GoesOn(cmd[y], cmd'[y])
  BY DEF Becomes, GoesOn
<1>. QED  BY <1>1 DEF Onward

LEMMA CommandFailed ==
    ASSUME Typed, Inv, NEW x \in Changer, NEW n, Becomes(x, n),
           \/ n = NoCmd
           \/ n = At_(cmd[x], "reverse") \/ n = At_(cmd[x], "roomID"),
           UNCHANGED <<forward, reverse, shared, exists, lookup, dmRooms, manual>>, faults' # 0
    PROVE  Inv'
<1>1. PICK m : m = cmd[x]
  OBVIOUS
<1>2. n = NoCmd \/ GoesOn(m, n)
  BY <1>1 DEF At_, GoesOn
<1>3. n.pc \in {"idle", "reverse", "roomID"}
  BY DEF At_, NoCmd
<1>4. Onward
  BY <1>1, <1>2, CommandOnward
<1>5. \A y \in Changer : cmd'[y] = cmd[y] \/ cmd'[y].pc \in {"idle", "reverse", "roomID"}
  BY <1>3 DEF Becomes
<1>. QED  BY <1>4, <1>5, Failed DEF Inv

\* A command that holds a room claims it for its channel.
LEMMA Holding ==
    ASSUME Typed, NEW x \in Changer, NEW m, m = cmd[x], m.room # None
    PROVE  /\ m.pc # "idle" /\ m.room \in Room /\ m.channel \in Channel
           /\ RoomIDOf(m.room) \in RoomID /\ Claims(m.channel, RoomIDOf(m.room))
<1>1. m \in CmdRecord /\ CmdOK(m)
  BY TypeIs, TypedIs DEF CmdsOK
<1>2. m.pc # "idle" /\ m.room \in Room /\ m.channel \in Channel
  BY <1>1 DEF CmdRecord, CmdOK, NoCmd
<1>. QED  BY <1>2, Identifiers DEF Claims, CmdClaims

\* Commands of one channel are join and the hook.
LEMMA Partners ==
    ASSUME Typed, NEW x \in Changer, NEW y \in Changer, x # y, cmd[x].pc # "idle",
           cmd[y].channel = cmd[x].channel
    PROVE  cmd[x].kind \in {"join", "hook"} /\ cmd[y].kind \in {"join", "hook"}
<1>1. {cmd[x].kind, cmd[y].kind} = {"join", "hook"}
  BY DEF Typed, Apart
<1>. QED  BY <1>1

LEMMA MapCmdForward ==
    ASSUME Typed, Inv, NEW x \in Changer, CmdForward(x)
    PROVE  Inv'
<1>1. PICK m : m = cmd[x]
  OBVIOUS
<1>2. /\ m.pc = "forward" /\ m.channel \in Channel /\ m.room \in Room /\ m.room # None
      /\ UNCHANGED <<roomState, exists, lookup, dmRooms, manual>>
  BY <1>1, CmdForwardSteps, Identifiers DEF Settled
<1>3. CASE faults' # 0 /\ UNCHANGED <<forward, reverse, gone, shared>>
           /\ (Becomes(x, NoCmd) \/ Becomes(x, At_(m, "reverse")))
  BY <1>1, <1>2, <1>3, CommandFailed
<1>4. CASE SetForward(m.channel, m.room) /\ faults' = faults /\ Becomes(x, At_(m, "reverse"))
  <2>1. /\ \A d \in Channel : forward'[d] = IF d = m.channel THEN m.room ELSE forward[d]
        /\ UNCHANGED <<reverse, shared>>
    BY <1>2, <1>4, ForwardWritten
  <2>2. PICK n : n = At_(m, "reverse")
    OBVIOUS
  <2>3. /\ n.pc = "reverse" /\ GoesOn(m, n) /\ cmd'[x] = n /\ Becomes(x, n)
        /\ \A y \in Changer \ {x} : cmd'[y] = cmd[y]
    BY <1>4, <2>2 DEF At_, GoesOn, Becomes
  <2>4. Claims(m.channel, RoomIDOf(m.room))
    BY <1>1, <1>2, Holding
  <2>5. Onward
    <3>1. \A c \in Channel : forward'[c] \in {forward[c], None} \/ Claims(c, RoomIDOf(forward'[c]))
      BY <2>1, <2>4
    <3>. QED  BY <1>1, <1>2, <1>4, <2>1, <2>3, <3>1, CommandOnward
  <2>6. Ownership' /\ OneDm'
    BY <2>5, Onwards DEF Inv, Settlement
  <2>7. Unmapping'
    <3>1. SUFFICES ASSUME NEW y \in Changer, y # x, NEW k, k = cmd[y]  PROVE Unmaps(forward', k)
      BY <2>3 DEF Unmapping, Unmaps
    <3>2. Unmaps(forward, k)
      BY <3>1 DEF Inv, Settlement, Unmapping
    <3>3. CASE k.pc \in {"clear"} \cup Drops
      <4>1. k.kind = "unmap" /\ k.channel \in Channel
        BY <3>1, <3>3, Working DEF CmdOK, Drops
      <4>2. k.channel # m.channel
        BY <1>1, <1>2, <3>1, <4>1, Partners
      <4>. QED  BY <2>1, <3>2, <4>1, <4>2 DEF Unmaps
    <3>. QED  BY <3>3 DEF Unmaps, Drops
  <2>8. ASSUME NEW d \in Channel, LeadsBack(d)  PROVE LeadsBack(d)'
    <3>1. CASE d = m.channel
      BY <2>1, <2>3, <3>1 DEF LeadsBack, SeenTo, CmdSeesTo, GoesOn
    <3>2. CASE d # m.channel
      <4>1. forward'[d] = forward[d] /\ (Leads(d) => Leads(d)')
        BY <1>2, <2>1, <3>2 DEF Leads, ChannelFor
      <4>2. \A i : \A y \in Changer : CmdSeesTo(cmd[y], d, i) => CmdSeesTo(cmd'[y], d, i)
        BY <1>1, <1>2, <2>3 DEF CmdSeesTo
      <4>. QED  BY <1>2, <2>8, <4>1, <4>2, LeadsBackKept
    <3>. QED  BY <3>1, <3>2
  <2>9. ASSUME NEW y \in Changer, Names(cmd[y])  PROVE Names(cmd[y])'
    <3>1. PICK k, j : k = cmd[y] /\ j = cmd'[y]
      OBVIOUS
    <3>2. GoesOn(k, j)
      BY <1>1, <2>3, <3>1 DEF GoesOn
    <3>3. \A r : ChannelFor(r)' = ChannelFor(r)
      BY <1>2, <2>1 DEF ChannelFor
    <3>. QED  BY <2>9, <3>1, <3>2, <3>3 DEF Names, GoesOn
  <2>10. Agreement'
    BY <1>4, <2>1, <2>8, <2>9 DEF Inv, Settlement, Agreement
  <2>11. DmRoomsLeadBack'
    <3>1. \A r : ChannelFor(r)' = ChannelFor(r)
      BY <1>2, <2>1 DEF ChannelFor
    <3>2. \A y \in Changer : cmd'[y].room = cmd[y].room
      BY <1>1, <2>3 DEF GoesOn
    <3>. QED  BY <1>2, <1>4, <2>1, <3>1, <3>2 DEF Inv, Settlement, DmRoomsLeadBack, Creating
  <2>. QED  BY <2>6, <2>7, <2>10, <2>11 DEF Inv, Settlement
<1>. QED  BY <1>1, <1>3, <1>4, CmdForwardSteps

\* A reverse key is written, and the command goes on to the next or ends.
LEMMA MapReverse ==
    ASSUME Typed, Inv, NEW x \in Changer, NEW m, m = cmd[x], m.room # None,
           NEW i \in Room, RoomIDOf(i) = RoomIDOf(m.room), SetReverse(i, m.channel),
           NEW n, Becomes(x, n), n = NoCmd \/ n = At_(m, "roomID"),
           faults' = faults, UNCHANGED <<roomState, exists, lookup, dmRooms, manual>>,
           m.pc \in {"reverse", "roomID"},
           n = NoCmd => i \in RoomID \/ m.kind \in {"create", "hook"},
           n # NoCmd => m.kind \in {"map", "join"}
    PROVE  Inv'
<1>1. /\ m.room \in Room /\ m.channel \in Channel /\ m.channel # None
      /\ Claims(m.channel, RoomIDOf(i))
  BY Holding, Identifiers
<1>2. /\ \A j \in Room : reverse'[j] = IF j = i THEN m.channel ELSE reverse[j]
      /\ UNCHANGED <<forward, shared>>
  BY <1>1, ReverseWritten
<1>3. /\ cmd'[x] = n /\ (n = NoCmd \/ GoesOn(m, n)) /\ n.pc \in {"idle", "roomID"}
      /\ \A y \in Changer \ {x} : cmd'[y] = cmd[y]
  BY DEF Becomes, GoesOn, At_, NoCmd
<1>4. Onward
  <2>1. \A j \in Room : \/ reverse'[j] \in {reverse[j], None}
                        \/ \E c \in Channel : Claims(c, RoomIDOf(j))
    BY <1>1, <1>2
  <2>. QED  BY <1>2, <1>3, <2>1, CommandOnward
<1>5. Ownership' /\ OneDm'
  BY <1>4, Onwards DEF Inv, Settlement
<1>6. Unmapping'
  BY <1>2, <1>3 DEF Inv, Settlement, Unmapping, Unmaps
<1>7. ASSUME ~shared, faults = 0, NEW d \in Channel, LeadsBack(d)  PROVE LeadsBack(d)'
  <2>1. Leads(d) => Leads(d)'
    BY <1>1, <1>7, ReverseKeeps DEF Inv, Ownership
  <2>2. ASSUME NEW y \in Changer, CmdSeesTo(cmd[y], d, forward[d])
        PROVE  CmdSeesTo(cmd'[y], d, forward[d]) \/ Leads(d)'
    <3>1. CASE y # x
      BY <1>3, <2>2, <3>1
    <3>2. CASE y = x /\ n = NoCmd
      <4>1. d = m.channel /\ forward[d] = m.room /\ forward'[d] = m.room
        BY <1>2, <2>2, <3>2 DEF CmdSeesTo
      <4>2. CASE m.room \in RoomID
        <5>1. i = m.room
          BY <3>2, <4>2, Identifiers, Working DEF CmdOK
        <5>. QED  BY <1>1, <1>2, <4>1, <4>2, <5>1 DEF Leads
      <4>3. CASE m.room \in Alias /\ i \in RoomID
        <5>1. i = RoomOf[m.room]
          BY <4>3, Identifiers
        <5>. QED  BY <1>1, <1>2, <4>1, <4>3, <5>1 DEF Leads, ChannelFor
      <4>4. CASE m.room \in Alias /\ m.kind \in {"create", "hook"}
        <5>1. ChannelFor(RoomOf[m.room]) = m.channel
          BY <1>7, <4>4, Identifiers DEF Inv, Settlement, Agreement, Names
        <5>2. PICK r \in RoomID : r = RoomOf[m.room] /\ Claims(m.channel, r)
          BY <4>4, Holding, Identifiers
        <5>3. ChannelFor(r)' = m.channel
          BY <1>1, <1>7, <5>1, <5>2, ReverseKeeps DEF Inv, Ownership
        <5>. QED  BY <4>1, <4>4, <5>2, <5>3 DEF Leads
      <4>. QED  BY <1>1, <3>2, <4>2, <4>3, <4>4, Identifiers
    <3>3. CASE y = x /\ n # NoCmd
      BY <1>3, <2>2, <3>3 DEF CmdSeesTo, At_
    <3>. QED  BY <3>1, <3>2, <3>3
  <2>. QED  BY <1>2, <1>7, <2>1, <2>2, LeadsBackKept
<1>8. ASSUME ~shared, NEW y \in Changer, Names(cmd[y])  PROVE Names(cmd[y])'
  <2>1. CASE y = x
    <3>1. n.kind \notin {"create", "hook"}
      BY <1>3 DEF GoesOn, NoCmd
    <3>. QED  BY <1>3, <2>1, <3>1 DEF Names
  <2>2. CASE y # x
    <3>1. PICK k : k = cmd[y] /\ k = cmd'[y] /\ k \in CmdRecord
      BY <1>3, <2>2, TypeIs, TypedIs
    <3>2. Names(k)'
      BY <1>1, <1>8, <3>1, ReverseKeeps DEF Inv, Ownership
    <3>. QED  BY <3>1, <3>2 DEF Names
  <2>. QED  BY <2>1, <2>2
<1>9. Agreement'
  BY <1>2, <1>7, <1>8 DEF Inv, Settlement, Agreement
<1>10. DmRoomsLeadBack'
  <2>1. SUFFICES ASSUME ~manual, ~shared, faults = 0, NEW d \in dmRooms
                 PROVE  \/ ChannelFor(d[2])' = d[1]
                        \/ \E q \in Reader : Creating(q)' /\ lookup'[q].value = d[2]
                        \/ \E y \in Changer : cmd'[y].room = d[2]
    BY <1>2 DEF DmRoomsLeadBack
  <2>2. m.kind = "dm" /\ <<m.channel, m.room>> \in dmRooms
    <3>1. m.kind # "none"
      BY Working DEF CmdOK, Writes
    <3>. QED  BY <2>1, <3>1 DEF Inv, Ownership, Recorded
  <2>3. m.room \in RoomID /\ i = m.room
    <3>1. m.room \in RoomID
      BY <2>2, Working DEF CmdOK
    <3>2. i \in RoomID
      BY <2>2
    <3>. QED  BY <3>1, <3>2, Identifiers
  <2>4. ChannelFor(d[2]) = d[1] \/ d[2] = m.room => ChannelFor(d[2])' = d[1]
    BY <1>1, <2>1, <2>2, <2>3, DmKept DEF Inv, Settlement
  <2>5. \A y \in Changer : cmd[y].room = d[2] => d[2] = m.room \/ cmd'[y].room = d[2]
    BY <1>3
  <2>. QED  BY <2>1, <2>4, <2>5 DEF Inv, Settlement, DmRoomsLeadBack, Creating
<1>. QED  BY <1>5, <1>6, <1>9, <1>10 DEF Inv, Settlement

LEMMA MapCmdReverse ==
    ASSUME Typed, Inv, NEW x \in Changer, CmdReverse(x)
    PROVE  Inv'
<1>1. PICK m : m = cmd[x]
  OBVIOUS
<1>2. /\ m.pc = "reverse" /\ m.channel \in Channel /\ m.room \in Room /\ m.room # None
      /\ UNCHANGED <<roomState, exists, lookup, dmRooms, manual>>
  BY <1>1, CmdReverseSteps, Identifiers DEF Settled
<1>3. PICK n : /\ Becomes(x, n)
               /\ IF m.kind \in {"map", "join"} /\ m.room \in Alias
                  THEN n = At_(m, "roomID") ELSE n = NoCmd
  BY <1>1, CmdReverseSteps
<1>4. CASE faults' # 0 /\ UNCHANGED <<forward, reverse, gone, shared>>
  BY <1>1, <1>2, <1>3, <1>4, CommandFailed
<1>5. CASE SetReverse(m.room, m.channel) /\ faults' = faults
  <2>1. m.kind \in {"map", "create", "join", "hook", "dm"} /\ (m.kind = "dm" => m.room \in RoomID)
    BY <1>1, <1>2, Working DEF CmdOK, Writes
  <2>2. n = NoCmd => m.room \in RoomID \/ m.kind \in {"create", "hook"}
    <3>1. n = NoCmd => ~(m.kind \in {"map", "join"} /\ m.room \in Alias)
      BY <1>3 DEF At_, NoCmd
    <3>. QED  BY <1>2, <2>1, <3>1, Identifiers
  <2>3. n # NoCmd => m.kind \in {"map", "join"}
    BY <1>3
  <2>. QED  BY <1>1, <1>2, <1>3, <1>5, <2>2, <2>3, MapReverse
<1>. QED  BY <1>1, <1>4, <1>5, CmdReverseSteps

LEMMA MapCmdRoomID ==
    ASSUME Typed, Inv, NEW x \in Changer, CmdRoomID(x)
    PROVE  Inv'
<1>1. PICK m : m = cmd[x]
  OBVIOUS
<1>2. /\ m.pc = "roomID" /\ m.channel \in Channel /\ m.room \in Alias /\ m.room # None
      /\ UNCHANGED <<roomState, exists, lookup, dmRooms, manual>> /\ Becomes(x, NoCmd)
  BY <1>1, CmdRoomIDSteps, Identifiers DEF Settled
<1>3. CASE faults' # 0 /\ UNCHANGED <<forward, reverse, gone, shared>>
  BY <1>1, <1>2, <1>3, CommandFailed
<1>4. CASE SetReverse(RoomOf[m.room], m.channel) /\ faults' = faults
  <2>1. PICK i : i = RoomOf[m.room]
    OBVIOUS
  <2>2. i \in RoomID /\ i \in Room /\ RoomIDOf(i) = RoomIDOf(m.room)
    BY <1>2, <2>1, Identifiers
  <2>. QED  BY <1>1, <1>2, <1>4, <2>1, <2>2, MapReverse
<1>. QED  BY <1>1, <1>3, <1>4, CmdRoomIDSteps

\* What an unmap does to room r of channel c is no concern of anybody else's.
LEMMA UnmapApart ==
    ASSUME Typed, Inv, ~shared, faults = 0, NEW x \in Changer, NEW m, m = cmd[x],
           m.kind = "unmap", m.pc \in {"clear"} \cup Drops, m.room \in RoomID
    PROVE  /\ manual
           /\ \A d \in Channel : Leads(d) /\ RoomIDOf(forward[d]) = m.room =>
                 d = m.channel /\ forward[d] \in RoomID /\ m.pc \in {"clear", "dropForward"}
           /\ \A y \in Changer, k \in CmdRecord :
                 k = cmd[y] /\ k.kind \in {"create", "hook"} /\ k.room # None =>
                    RoomIDOf(k.room) # m.room
<1>1. /\ m.room # None /\ m.channel \in Channel /\ RoomIDOf(m.room) = m.room
      /\ Claims(m.channel, m.room) /\ m.pc # "idle"
  BY Holding, Identifiers
<1>2. manual
  BY DEF Inv, Ownership, Recorded
<1>3. ASSUME NEW d \in Channel, Leads(d), RoomIDOf(forward[d]) = m.room
      PROVE  d = m.channel /\ forward[d] \in RoomID /\ m.pc \in {"clear", "dropForward"}
  <2>1. PICK j : j = forward[d]
    OBVIOUS
  <2>2. j \in Room /\ j # None
    BY <1>3, <2>1, Identifiers DEF Leads
  <2>3. Claims(d, m.room)
    BY <1>3, <2>1, <2>2 DEF Claims
  <2>4. d = m.channel
    BY <1>1, <2>3 DEF Inv, Ownership, Exclusive
  <2>5. Unmaps(forward, m)
    BY DEF Inv, Settlement, Unmapping
  <2>6. j \in RoomID
    BY <2>1, <2>2, <2>4, <2>5 DEF Unmaps, Drops
  <2>7. j = m.room
    BY <1>3, <2>1, <2>6, Identifiers
  <2>. QED  BY <2>1, <2>4, <2>5, <2>6, <2>7 DEF Unmaps, Drops
<1>4. ASSUME NEW y \in Changer, NEW k \in CmdRecord, k = cmd[y], k.kind \in {"create", "hook"},
             k.room # None, RoomIDOf(k.room) = m.room
      PROVE  FALSE
  <2>1. Claims(k.channel, m.room) /\ k.channel \in Channel
    BY <1>4, Holding
  <2>2. k.channel = m.channel
    BY <1>1, <2>1 DEF Inv, Ownership, Exclusive
  <2>3. x # y
    BY <1>4
  <2>. QED  BY <1>1, <1>4, <2>2, <2>3, Partners
<1>. QED  BY <1>2, <1>3, <1>4

LEMMA MapUnmapClear ==
    ASSUME Typed, Inv, NEW x \in Changer, UnmapClear(x)
    PROVE  Inv'
<1>1. PICK m : m = cmd[x]
  OBVIOUS
<1>2. /\ m.pc = "clear" /\ m.kind = "unmap" /\ m.room \in Room /\ m.room # None
      /\ UNCHANGED <<forward, reverse, shared, exists, lookup, dmRooms, manual>>
  BY <1>1, UnmapClearSteps, Identifiers DEF Settled
<1>3. CASE Becomes(x, NoCmd) /\ faults' # 0
  BY <1>2, <1>3, CommandFailed
<1>4. ASSUME faults' = faults, NEW n, Becomes(x, n),
             \/ n = NoCmd /\ UNCHANGED roomState
             \/ /\ m.room \in RoomID /\ roomState' = [roomState EXCEPT ![m.room] = None]
                /\ n = At_(m, "dropForward")
      PROVE  Inv'
  <2>1. /\ cmd'[x] = n /\ (n = NoCmd \/ GoesOn(m, n)) /\ n.pc \in {"idle", "dropForward"}
        /\ \A y \in Changer \ {x} : cmd'[y] = cmd[y]
    BY <1>4 DEF Becomes, GoesOn, At_, NoCmd
  <2>2. Onward
    BY <1>1, <1>2, <1>4, <2>1, CommandOnward
  <2>3. Ownership' /\ OneDm'
    BY <2>2, Onwards DEF Inv, Settlement
  <2>4. Unmapping'
    BY <1>1, <1>2, <2>1 DEF Inv, Settlement, Unmapping, Unmaps, GoesOn, NoCmd
  <2>5. manual
    BY <1>1, <1>2 DEF Inv, Ownership, Recorded
  <2>6. ASSUME ~shared, faults = 0, NEW d \in Channel, LeadsBack(d)  PROVE LeadsBack(d)'
    <3>1. ASSUME Leads(d), forward[d] \in Alias  PROVE ChannelFor(RoomOf[forward[d]])' = d
      <4>1. PICK r : r = RoomOf[forward[d]] /\ r \in RoomID /\ r = RoomIDOf(forward[d])
        BY <3>1, Identifiers
      <4>2. ChannelFor(r) = d
        BY <3>1, <4>1, Identifiers DEF Leads
      <4>3. CASE UNCHANGED roomState
        BY <1>2, <4>1, <4>2, <4>3 DEF ChannelFor
      <4>4. CASE m.room \in RoomID /\ roomState' = [roomState EXCEPT ![m.room] = None]
        <5>1. r # m.room
          BY <1>1, <1>2, <2>6, <3>1, <4>1, <4>4, UnmapApart, Identifiers
        <5>2. roomState'[r] = roomState[r]
          BY <4>1, <4>4, <5>1, TypeIs, TypedIs DEF RestOK
        <5>. QED  BY <1>2, <4>1, <4>2, <5>2 DEF ChannelFor
      <4>. QED  BY <1>4, <4>3, <4>4
    <3>2. Leads(d) => Leads(d)'
      BY <1>2, <3>1 DEF Leads
    <3>3. \A i : \A y \in Changer : CmdSeesTo(cmd[y], d, i) => CmdSeesTo(cmd'[y], d, i)
      BY <1>1, <1>2, <2>1 DEF CmdSeesTo
    <3>. QED  BY <1>2, <2>6, <3>2, <3>3, LeadsBackKept
  <2>7. ASSUME ~shared, faults = 0, NEW y \in Changer, Names(cmd[y])  PROVE Names(cmd[y])'
    <3>1. CASE y = x
      BY <1>2, <2>1, <3>1 DEF Names, GoesOn, NoCmd
    <3>2. CASE y # x
      <4>1. PICK k : k = cmd[y] /\ k = cmd'[y] /\ k \in CmdRecord
        BY <2>1, <3>2, TypeIs, TypedIs
      <4>2. ASSUME k.kind \in {"create", "hook"}, k.room # None
            PROVE  ChannelFor(RoomIDOf(k.room))' = k.channel
        <5>1. PICK r \in RoomID : r = RoomIDOf(k.room)
          BY <4>1, <4>2, Holding
        <5>2. ChannelFor(r) = k.channel
          BY <2>7, <4>1, <4>2, <5>1 DEF Names
        <5>3. roomState'[r] = roomState[r]
          <6>1. CASE m.room \in RoomID /\ roomState' = [roomState EXCEPT ![m.room] = None]
            <7>1. r # m.room
              BY <1>1, <1>2, <2>7, <4>1, <4>2, <5>1, <6>1, UnmapApart
            <7>. QED  BY <6>1, <7>1, TypeIs, TypedIs DEF RestOK
          <6>. QED  BY <1>4, <6>1
        <5>4. ChannelFor(r)' = k.channel
          BY <1>2, <5>2, <5>3 DEF ChannelFor
        <5>. QED  BY <5>1, <5>4
      <4>. QED  BY <4>1, <4>2 DEF Names
    <3>. QED  BY <3>1, <3>2
  <2>8. Agreement' /\ DmRoomsLeadBack'
    BY <1>2, <1>4, <2>5, <2>6, <2>7 DEF Inv, Settlement, Agreement, DmRoomsLeadBack
  <2>. QED  BY <2>3, <2>4, <2>8 DEF Inv, Settlement
<1>. QED  BY <1>1, <1>3, <1>4, UnmapClearSteps

LEMMA MapUnmapForward ==
    ASSUME Typed, Inv, NEW x \in Changer, UnmapForward(x)
    PROVE  Inv'
<1>1. PICK m : m = cmd[x]
  OBVIOUS
<1>2. /\ m.pc = "dropForward" /\ m.kind = "unmap" /\ m.room \in RoomID /\ m.channel \in Channel
      /\ UNCHANGED <<roomState, exists, lookup, dmRooms, manual>>
  BY <1>1, UnmapForwardSteps DEF Settled
<1>3. CASE faults' # 0 /\ UNCHANGED <<forward, reverse, gone, shared>> /\ Becomes(x, NoCmd)
  BY <1>2, <1>3, CommandFailed
<1>4. CASE SetForward(m.channel, None) /\ faults' = faults /\ Becomes(x, At_(m, "dropReverse"))
  <2>1. /\ \A d \in Channel : forward'[d] = IF d = m.channel THEN None ELSE forward[d]
        /\ UNCHANGED <<reverse, shared>>
    BY <1>2, <1>4, ForwardWritten
  <2>2. PICK n : n = At_(m, "dropReverse")
    OBVIOUS
  <2>3. /\ n.pc = "dropReverse" /\ GoesOn(m, n) /\ cmd'[x] = n /\ Becomes(x, n)
        /\ \A y \in Changer \ {x} : cmd'[y] = cmd[y]
    BY <1>4, <2>2 DEF At_, GoesOn, Becomes
  <2>4. Onward
    BY <1>1, <1>2, <1>4, <2>1, <2>3, CommandOnward
  <2>5. Ownership' /\ OneDm'
    BY <2>4, Onwards DEF Inv, Settlement
  <2>6. Unmapping'
    <3>1. ASSUME NEW y \in Changer, y # x, NEW k, k = cmd[y]  PROVE Unmaps(forward', k)
      <4>1. Unmaps(forward, k)
        BY <3>1 DEF Inv, Settlement, Unmapping
      <4>2. k.pc # "idle" => k.channel \in Channel /\ (k.channel # m.channel \/ k.kind # "unmap")
        BY <1>1, <1>2, <3>1, Partners, Working
      <4>3. k.pc \in {"clear"} \cup Drops => k.kind = "unmap"
        BY <3>1, Working DEF CmdOK, Drops
      <4>. QED  BY <2>1, <4>1, <4>2, <4>3 DEF Unmaps, Drops
    <3>2. Unmaps(forward', n)
      BY <1>2, <2>1, <2>3, Identifiers DEF Unmaps, GoesOn
    <3>. QED  BY <2>3, <3>1, <3>2 DEF Unmapping
  <2>7. manual
    BY <1>1, <1>2 DEF Inv, Ownership, Recorded
  <2>8. ASSUME NEW d \in Channel, LeadsBack(d)  PROVE LeadsBack(d)'
    <3>1. CASE d = m.channel
      BY <1>2, <2>1, <3>1 DEF LeadsBack
    <3>2. CASE d # m.channel
      <4>1. forward'[d] = forward[d] /\ (Leads(d) => Leads(d)')
        BY <1>2, <2>1, <3>2 DEF Leads, ChannelFor
      <4>2. \A i : \A y \in Changer : CmdSeesTo(cmd[y], d, i) => CmdSeesTo(cmd'[y], d, i)
        BY <1>1, <1>2, <2>3 DEF CmdSeesTo
      <4>. QED  BY <1>2, <2>8, <4>1, <4>2, LeadsBackKept
    <3>. QED  BY <3>1, <3>2
  <2>9. ASSUME NEW y \in Changer, Names(cmd[y])  PROVE Names(cmd[y])'
    <3>1. PICK k, j : k = cmd[y] /\ j = cmd'[y]
      OBVIOUS
    <3>2. GoesOn(k, j)
      BY <1>1, <2>3, <3>1 DEF GoesOn
    <3>3. \A r : ChannelFor(r)' = ChannelFor(r)
      BY <1>2, <2>1 DEF ChannelFor
    <3>. QED  BY <2>9, <3>1, <3>2, <3>3 DEF Names, GoesOn
  <2>10. Agreement' /\ DmRoomsLeadBack'
    BY <1>2, <1>4, <2>1, <2>7, <2>8, <2>9 DEF Inv, Settlement, Agreement, DmRoomsLeadBack
  <2>. QED  BY <2>5, <2>6, <2>10 DEF Inv, Settlement
<1>. QED  BY <1>1, <1>3, <1>4, UnmapForwardSteps

LEMMA MapUnmapReverse ==
    ASSUME Typed, Inv, NEW x \in Changer, UnmapReverse(x)
    PROVE  Inv'
<1>1. PICK m : m = cmd[x]
  OBVIOUS
<1>2. /\ m.pc = "dropReverse" /\ m.kind = "unmap" /\ m.room \in RoomID /\ m.channel \in Channel
      /\ UNCHANGED <<roomState, exists, lookup, dmRooms, manual>> /\ Becomes(x, NoCmd)
      /\ m.room \in Room
  BY <1>1, UnmapReverseSteps, Identifiers DEF Settled
<1>3. CASE faults' # 0 /\ UNCHANGED <<forward, reverse, gone, shared>>
  BY <1>2, <1>3, CommandFailed
<1>4. CASE SetReverse(m.room, None) /\ faults' = faults
  <2>1. /\ \A j \in Room : reverse'[j] = IF j = m.room THEN None ELSE reverse[j]
        /\ UNCHANGED <<forward, shared>>
    BY <1>2, <1>4, ReverseWritten
  <2>2. /\ cmd'[x] = NoCmd /\ NoCmd.pc = "idle"
        /\ \A y \in Changer \ {x} : cmd'[y] = cmd[y]
    BY <1>2 DEF Becomes, NoCmd
  <2>3. Onward
    BY <1>2, <1>4, <2>1, CommandOnward
  <2>4. Ownership' /\ OneDm'
    BY <2>3, Onwards DEF Inv, Settlement
  <2>5. Unmapping'
    BY <2>1, <2>2 DEF Inv, Settlement, Unmapping, Unmaps
  <2>6. manual
    BY <1>1, <1>2 DEF Inv, Ownership, Recorded
  <2>7. \A r \in RoomID : r # m.room => reverse'[r] = reverse[r] /\ ChannelFor(r)' = ChannelFor(r)
    BY <1>2, <2>1, Identifiers DEF ChannelFor
  <2>8. ASSUME ~shared, faults = 0, NEW d \in Channel, LeadsBack(d)  PROVE LeadsBack(d)'
    <3>1. ASSUME Leads(d)  PROVE Leads(d)'
      <4>1. PICK i : i = forward[d] /\ i = forward'[d]
        BY <2>1
      <4>2. RoomIDOf(i) # m.room
        BY <1>1, <1>2, <2>8, <3>1, <4>1, UnmapApart DEF Drops
      <4>. QED  BY <2>7, <3>1, <4>1, <4>2, Identifiers DEF Leads
    <3>2. \A i : \A y \in Changer : CmdSeesTo(cmd[y], d, i) => CmdSeesTo(cmd'[y], d, i)
      BY <1>1, <1>2, <2>2 DEF CmdSeesTo
    <3>. QED  BY <1>2, <2>1, <2>8, <3>1, <3>2, LeadsBackKept
  <2>9. ASSUME ~shared, faults = 0, NEW y \in Changer, Names(cmd[y])  PROVE Names(cmd[y])'
    <3>1. CASE y = x
      BY <2>2, <3>1 DEF Names, NoCmd
    <3>2. CASE y # x
      <4>1. PICK k : k = cmd[y] /\ k = cmd'[y] /\ k \in CmdRecord
        BY <2>2, <3>2, TypeIs, TypedIs
      <4>2. ASSUME k.kind \in {"create", "hook"}, k.room # None
            PROVE  ChannelFor(RoomIDOf(k.room))' = k.channel
        <5>1. PICK r \in RoomID : r = RoomIDOf(k.room)
          BY <4>1, <4>2, Holding
        <5>2. r # m.room
          BY <1>1, <1>2, <2>9, <4>1, <4>2, <5>1, UnmapApart DEF Drops
        <5>3. ChannelFor(r)' = k.channel
          BY <2>7, <2>9, <4>1, <4>2, <5>1, <5>2 DEF Names
        <5>. QED  BY <5>1, <5>3
      <4>. QED  BY <4>1, <4>2 DEF Names
    <3>. QED  BY <3>1, <3>2
  <2>10. Agreement' /\ DmRoomsLeadBack'
    BY <1>2, <1>4, <2>1, <2>6, <2>8, <2>9 DEF Inv, Settlement, Agreement, DmRoomsLeadBack
  <2>. QED  BY <2>4, <2>5, <2>10 DEF Inv, Settlement
<1>. QED  BY <1>1, <1>3, <1>4, UnmapReverseSteps

-----------------------------------------------------------------------------
(* Steps by which a channel is given a room *)

\* Commands that begin on channel c with identifier i, of a room that nobody else
\* has or that becomes shared.
LEMMA Beginning ==
    ASSUME Typed, Inv, NEW c \in Channel, NEW i \in Room,
           UNCHANGED <<forward, reverse, lookup>>, faults' = faults,
           shared => shared',
           shared' \/ \A d \in Channel : Claims(d, RoomIDOf(i)) => d = c,
           \A y \in Changer :
              \/ cmd'[y] = cmd[y]
              \/ /\ cmd[y].pc \in {"idle", "room"} /\ Unmaps(forward, cmd'[y])
                 /\ cmd'[y].channel = c /\ cmd'[y].room \in {i, None}
                 /\ ~shared' => Names(cmd[y])',
           \A p \in Reader : lookup[p].pc \in Fresh => lookup[p].value # RoomIDOf(i),
           exists \subseteq exists', RoomIDOf(i) \in exists',
           \A r \in exists : roomState'[r] = roomState[r],
           \A d \in dmRooms' : d \in dmRooms \/ d[2] = RoomIDOf(i)
    PROVE  (Exclusive /\ Existing /\ Secluded /\ Unmapping /\ Agreement)'
<1>. DEFINE r == RoomIDOf(i)
<1>1. r \in RoomID /\ LookupsOK /\ StoreOK
  BY Identifiers, TypeIs, TypedIs
<1>. HIDE DEF r
<1>2. ASSUME NEW d \in Channel, NEW s \in RoomID, Claims(d, s)'
      PROVE  Claims(d, s) \/ (d = c /\ s = r)
  <2>1. CASE forward'[d] # None /\ RoomIDOf(forward'[d]) = s
    BY <2>1 DEF Claims
  <2>2. ASSUME NEW y \in Changer, CmdClaims(cmd'[y], d, s)
        PROVE  Claims(d, s) \/ (d = c /\ s = r)
    <3>1. CASE cmd'[y] = cmd[y]
      BY <2>2, <3>1 DEF Claims
    <3>2. CASE cmd'[y].channel = c /\ cmd'[y].room \in {i, None}
      BY <2>2, <3>2 DEF CmdClaims, r
    <3>. QED  BY <3>1, <3>2
  <2>3. ASSUME NEW p \in Reader, LookupClaims(lookup'[p], d, s)  PROVE Claims(d, s)
    BY <2>3 DEF Claims
  <2>. QED  BY <1>2, <2>1, <2>2, <2>3 DEF Claims
<1>3. Exclusive'
  <2>1. SUFFICES ASSUME ~shared', NEW d \in Channel, NEW e \in Channel, NEW s \in RoomID,
                        Claims(d, s)', Claims(e, s)'
                 PROVE  d = e
    BY DEF Exclusive
  <2>2. (Claims(d, s) \/ (d = c /\ s = r)) /\ (Claims(e, s) \/ (e = c /\ s = r))
    BY <1>2, <2>1
  <2>3. \A a \in Channel : Claims(a, r) => a = c
    BY <2>1 DEF r
  <2>. QED  BY <2>1, <2>2, <2>3 DEF Inv, Ownership, Exclusive
<1>4. Existing'
  <2>1. \A d \in Channel, s \in RoomID : Claims(d, s)' => s \in exists'
    BY <1>2 DEF Inv, Ownership, Existing, r
  <2>2. \A j \in Room : reverse'[j] # None => RoomIDOf(j) \in exists'
    BY DEF Inv, Ownership, Existing
  <2>3. External \subseteq exists' /\ \A d \in dmRooms' : d[2] \in exists'
    BY DEF Inv, Ownership, Existing
  <2>. QED  BY <2>1, <2>2, <2>3 DEF Existing
<1>5. Secluded'
  <2>1. SUFFICES ASSUME NEW p \in Reader, lookup[p].pc \in Fresh, NEW v, v = lookup[p].value
                 PROVE  Unknown(v)'
    BY DEF Secluded, Unknown
  <2>2. Unknown(v) /\ v \in RoomID /\ v # RoomIDOf(i)
    BY <1>1, <2>1 DEF Inv, Ownership, Secluded, LookupsOK, LookupOK
  <2>3. v # i /\ v # None
    BY <2>2, Identifiers
  <2>. QED  BY <2>2, <2>3 DEF Unknown
<1>6. Unmapping'
  BY DEF Inv, Settlement, Unmapping
<1>7. ASSUME NEW s \in RoomID, s \in exists  PROVE ChannelFor(s)' = ChannelFor(s)
  BY <1>7 DEF ChannelFor
<1>8. ASSUME NEW d \in Channel, LeadsBack(d)  PROVE LeadsBack(d)'
  <2>1. ASSUME Leads(d)  PROVE Leads(d)'
    <3>1. PICK j : j = forward[d] /\ j = forward'[d]
      OBVIOUS
    <3>2. j \in Room /\ j # None
      BY <2>1, <3>1, Identifiers DEF Leads
    <3>3. RoomIDOf(j) \in exists /\ RoomIDOf(j) \in RoomID
      <4>1. Claims(d, RoomIDOf(j))
        BY <3>1, <3>2 DEF Claims
      <4>. QED  BY <3>2, <4>1, Identifiers DEF Inv, Ownership, Existing
    <3>4. ChannelFor(RoomIDOf(j))' = ChannelFor(RoomIDOf(j))
      <4>1. PICK s : s = RoomIDOf(j)
        OBVIOUS
      <4>. QED  BY <1>7, <3>3, <4>1
    <3>. QED  BY <2>1, <3>1, <3>4, Identifiers DEF Leads
  <2>2. \A j : \A y \in Changer : CmdSeesTo(cmd[y], d, j) => CmdSeesTo(cmd'[y], d, j)
    BY DEF CmdSeesTo
  <2>. QED  BY <1>8, <2>1, <2>2, LeadsBackKept
<1>9. ASSUME ~shared', NEW y \in Changer, Names(cmd[y])  PROVE Names(cmd[y])'
  <2>1. CASE cmd'[y] = cmd[y]
    <3>1. PICK k : k = cmd[y] /\ k = cmd'[y]
      BY <2>1
    <3>2. ASSUME k.kind \in {"create", "hook"}, k.room # None
          PROVE  ChannelFor(RoomIDOf(k.room))' = k.channel
      <4>1. PICK s \in RoomID : s = RoomIDOf(k.room) /\ s \in exists
        <5>1. k.channel \in Channel /\ RoomIDOf(k.room) \in RoomID /\ Claims(k.channel, RoomIDOf(k.room))
          BY <3>1, <3>2, Holding
        <5>. QED  BY <5>1 DEF Inv, Ownership, Existing
      <4>. QED  BY <1>7, <1>9, <3>1, <3>2, <4>1 DEF Names
    <3>. QED  BY <3>1, <3>2 DEF Names
  <2>. QED  BY <1>9, <2>1
<1>10. Agreement'
  BY <1>8, <1>9 DEF Inv, Settlement, Agreement
<1>. QED  BY <1>3, <1>4, <1>5, <1>6, <1>10

\* An administrator comes in: what is said of DM rooms is not about him.
LEMMA Administered ==
    ASSUME Typed, Inv, manual', UNCHANGED <<lookup, dmRooms>>
    PROVE  (Recorded /\ OneDm /\ DmRoomsLeadBack)'
BY DEF Inv, Ownership, Recorded, OneDm, DmRoomsLeadBack

\* A room that no other channel has or is being given.
LEMMA Untaken ==
    ASSUME Typed, NEW c \in Channel, NEW i \in Room, ~Taken(c, i),
           \A p \in Reader : lookup[p].pc \in Fresh => lookup[p].value # RoomIDOf(i)
    PROVE  \A d \in Channel : Claims(d, RoomIDOf(i)) => d = c
BY DEF Taken, Claims, CmdClaims, LookupClaims

LEMMA Given ==
    ASSUME NEW c, NEW i, Give(c, i)
    PROVE  /\ shared => shared'
           /\ ~shared' => ~Taken(c, i)
           /\ UNCHANGED <<forward, reverse, gone>>
BY DEF Give

\* The readers that are creating rooms have nothing to do with this one.
LEMMA UntouchedRoom ==
    ASSUME NEW c, NEW r, Untouched(c, r)
    PROVE  \A p \in Reader : lookup[p].pc \in Fresh => lookup[p].value # r
BY DEF Untouched, Creating, Fresh

\* Nor with a room that was there without the bridge.
LEMMA ExternalRoom ==
    ASSUME Inv, NEW r \in External
    PROVE  \A p \in Reader : lookup[p].pc \in Fresh => lookup[p].value # r
BY DEF Inv, Ownership, Secluded, Unknown

LEMMA MapMap ==
    ASSUME Typed, Inv, NEW x \in Changer, NEW c \in Channel, NEW i \in Room, MapCommand(x, c, i)
    PROVE  Inv'
<1>1. /\ RoomIDOf(i) \in exists /\ Untouched(c, RoomIDOf(i))
      /\ Starts(x, "map", c, i, "forward") /\ manual'
      /\ UNCHANGED <<roomState, exists, dmRooms>>
  BY MapSteps
<1>2. Give(c, i) /\ UNCHANGED <<lookup, faults>> /\ cmd[x].pc = "idle"
  BY <1>1 DEF Starts
<1>3. PICK m : m = [pc |-> "forward", kind |-> "map", channel |-> c, room |-> i]
  OBVIOUS
<1>4. cmd'[x] = m /\ \A y \in Changer \ {x} : cmd'[y] = cmd[y]
  BY <1>1, <1>3 DEF Starts, Becomes
<1>5. \A p \in Reader : lookup[p].pc \in Fresh => lookup[p].value # RoomIDOf(i)
  BY <1>1, UntouchedRoom
<1>6. /\ shared => shared'
      /\ shared' \/ \A d \in Channel : Claims(d, RoomIDOf(i)) => d = c
      /\ UNCHANGED <<forward, reverse>>
  BY <1>2, <1>5, Given, Untaken
<1>7. Unmaps(forward, m) /\ Names(m)' /\ m.channel = c /\ m.room = i
  BY <1>3 DEF Unmaps, Names
<1>8. \A y \in Changer :
         \/ cmd'[y] = cmd[y]
         \/ /\ cmd[y].pc \in {"idle", "room"} /\ Unmaps(forward, cmd'[y])
            /\ cmd'[y].channel = c /\ cmd'[y].room \in {i, None}
            /\ ~shared' => Names(cmd[y])'
  BY <1>2, <1>4, <1>7 DEF Names
<1>9. (Exclusive /\ Existing /\ Secluded /\ Unmapping /\ Agreement)'
  BY <1>1, <1>2, <1>5, <1>6, <1>8, Beginning
<1>10. (Recorded /\ OneDm /\ DmRoomsLeadBack)'
  BY <1>1, <1>2, Administered
<1>. QED  BY <1>9, <1>10 DEF Inv, Ownership, Settlement

LEMMA MapJoin ==
    ASSUME Typed, Inv, NEW x \in Actor, NEW c \in Channel, NEW i \in Room, JoinCommand(x, c, i)
    PROVE  Inv'
<1>1. /\ RoomIDOf(i) \in External /\ cmd[x].pc = "idle" /\ cmd[Hook].pc = "idle" /\ Give(c, i)
      /\ cmd'[x] = JoinCmd(c, i) /\ cmd'[Hook] = HookCmd(c)
      /\ \A y \in Changer \ {x, Hook} : cmd'[y] = cmd[y]
      /\ manual' /\ UNCHANGED <<roomState, exists, dmRooms, lookup, faults>>
  BY JoinSteps
<1>2. \A p \in Reader : lookup[p].pc \in Fresh => lookup[p].value # RoomIDOf(i)
  BY <1>1, ExternalRoom
<1>3. /\ shared => shared'
      /\ shared' \/ \A d \in Channel : Claims(d, RoomIDOf(i)) => d = c
      /\ UNCHANGED <<forward, reverse>>
  BY <1>1, <1>2, Given, Untaken
<1>4. ASSUME NEW m, m = JoinCmd(c, i) \/ m = HookCmd(c)
      PROVE  Unmaps(forward, m) /\ Names(m)' /\ m.channel = c /\ m.room \in {i, None}
  BY <1>4 DEF JoinCmd, HookCmd, Unmaps, Names
<1>5. ASSUME NEW y \in Changer
      PROVE  \/ cmd'[y] = cmd[y]
             \/ /\ cmd[y].pc \in {"idle", "room"} /\ Unmaps(forward, cmd'[y])
                /\ cmd'[y].channel = c /\ cmd'[y].room \in {i, None}
                /\ ~shared' => Names(cmd[y])'
  <2>1. CASE y \in {x, Hook}
    <3>1. PICK m : m = cmd'[y] /\ (m = JoinCmd(c, i) \/ m = HookCmd(c))
      BY <1>1, <2>1
    <3>2. Unmaps(forward, m) /\ Names(m)' /\ m.channel = c /\ m.room \in {i, None}
      BY <1>4, <3>1
    <3>3. Names(cmd[y])'
      BY <3>1, <3>2 DEF Names
    <3>. QED  BY <1>1, <2>1, <3>1, <3>2, <3>3
  <2>. QED  BY <1>1, <2>1
<1>6. RoomIDOf(i) \in exists
  BY <1>1 DEF Inv, Ownership, Existing
<1>7. (Exclusive /\ Existing /\ Secluded /\ Unmapping /\ Agreement)'
  BY <1>1, <1>2, <1>3, <1>5, <1>6, Beginning
<1>8. (Recorded /\ OneDm /\ DmRoomsLeadBack)'
  BY <1>1, Administered
<1>. QED  BY <1>7, <1>8 DEF Inv, Ownership, Settlement

\* A room that did not exist is nobody's, and no reverse key leads from it.
LEMMA NewRoom ==
    ASSUME Typed, Inv, NEW r \in RoomID, r \notin exists
    PROVE  /\ \A d \in Channel : ~Claims(d, r)
           /\ reverse[r] = None /\ r \notin External
           /\ \A p \in Reader : lookup[p].pc \in Fresh => lookup[p].value # r
           /\ \A x \in Changer : cmd[x].room # r
           /\ \A d \in dmRooms : d[2] # r
<1>1. \A d \in Channel : ~Claims(d, r)
  BY DEF Inv, Ownership, Existing
<1>2. reverse[r] = None /\ r \notin External /\ \A d \in dmRooms : d[2] # r
  BY Identifiers DEF Inv, Ownership, Existing
<1>3. ASSUME NEW p \in Reader, lookup[p].pc \in Fresh, lookup[p].value = r  PROVE FALSE
  <2>1. lookup[p].channel \in Channel
    BY <1>3, TypedIs DEF LookupsOK, LookupOK, Fresh
  <2>. QED  BY <1>1, <1>3, <2>1 DEF Claims, LookupClaims
<1>4. ASSUME NEW x \in Changer, cmd[x].room = r  PROVE FALSE
  <2>1. PICK m : m = cmd[x]
    OBVIOUS
  <2>2. m.room # None /\ RoomIDOf(m.room) = r
    BY <1>4, <2>1, Identifiers
  <2>. QED  BY <1>1, <2>1, <2>2, Holding
<1>. QED  BY <1>1, <1>2, <1>3, <1>4

\* CreateRoom: the new room names its channel.
LEMMA RoomCreated ==
    ASSUME Typed, Inv, NEW x \in Changer, NEW c \in Channel, NEW a \in Alias,
           NEW k \in {"create", "hook"},
           RoomOf[a] \notin exists, exists' = exists \cup {RoomOf[a]},
           roomState' = [roomState EXCEPT ![RoomOf[a]] = c], cmd[x].pc \in {"idle", "room"},
           Becomes(x, [pc |-> "forward", kind |-> k, channel |-> c, room |-> a]),
           UNCHANGED <<forward, reverse, lookup, dmRooms, faults>>, shared => shared', manual'
    PROVE  Inv'
<1>1. PICK r \in RoomID : r = RoomOf[a] /\ r = RoomIDOf(a) /\ a \in Room
  BY Identifiers
<1>2. PICK m : m = [pc |-> "forward", kind |-> k, channel |-> c, room |-> a]
  OBVIOUS
<1>3. cmd'[x] = m /\ \A y \in Changer \ {x} : cmd'[y] = cmd[y]
  BY <1>2 DEF Becomes
<1>4. /\ \A d \in Channel : ~Claims(d, r)
      /\ reverse[r] = None
      /\ \A p \in Reader : lookup[p].pc \in Fresh => lookup[p].value # r
  BY <1>1, NewRoom
<1>5. /\ roomState'[r] = c
      /\ \A s \in exists : roomState'[s] = roomState[s]
  BY <1>1, TypeIs, TypedIs DEF RestOK
<1>6. ChannelFor(r)' = c
  BY <1>4, <1>5 DEF ChannelFor
<1>7. Unmaps(forward, m) /\ m.channel = c /\ m.room = a
  BY <1>2 DEF Unmaps
<1>8. Names(cmd[x])'
  BY <1>1, <1>3, <1>6, <1>7 DEF Names
<1>9. \A y \in Changer :
         \/ cmd'[y] = cmd[y]
         \/ /\ cmd[y].pc \in {"idle", "room"} /\ Unmaps(forward, cmd'[y])
            /\ cmd'[y].channel = c /\ cmd'[y].room \in {a, None}
            /\ ~shared' => Names(cmd[y])'
  BY <1>3, <1>7, <1>8
<1>10. (Exclusive /\ Existing /\ Secluded /\ Unmapping /\ Agreement)'
  BY <1>1, <1>4, <1>5, <1>9, Beginning
<1>11. (Recorded /\ OneDm /\ DmRoomsLeadBack)'
  BY Administered
<1>. QED  BY <1>10, <1>11 DEF Inv, Ownership, Settlement

LEMMA MapCreate ==
    ASSUME Typed, Inv, NEW x \in Changer, NEW c \in Channel, NEW a \in Alias,
           CreateCommand(x, c, a)
    PROVE  Inv'
<1>1. PICK k \in {"create", "hook"} : Starts(x, k, c, a, "forward")
  BY CreateSteps
<1>2. /\ RoomOf[a] \notin exists /\ exists' = exists \cup {RoomOf[a]}
      /\ roomState' = [roomState EXCEPT ![RoomOf[a]] = c] /\ manual' /\ dmRooms' = dmRooms
  BY CreateSteps
<1>3. /\ cmd[x].pc \in {"idle", "room"} /\ UNCHANGED <<lookup, faults>> /\ Give(c, a)
      /\ Becomes(x, [pc |-> "forward", kind |-> k, channel |-> c, room |-> a])
  BY <1>1 DEF Starts
<1>. QED  BY <1>2, <1>3, Given, RoomCreated

LEMMA MapHookRoom ==
    ASSUME Typed, Inv, NEW x \in Changer, HookRoom(x)
    PROVE  Inv'
<1>1. /\ cmd[x].pc = "room" /\ cmd[x].kind = "hook" /\ cmd[x].channel \in Channel
      /\ UNCHANGED <<forward, reverse, shared, lookup, dmRooms, manual>>
  BY HookRoomSteps
<1>2. manual
  BY <1>1 DEF Inv, Ownership, Recorded
<1>3. CASE faults' # 0 /\ Becomes(x, NoCmd) /\ UNCHANGED <<roomState, exists>>
  BY <1>1, <1>3, CommandFailed
<1>4. ASSUME NEW a \in Alias, RoomOf[a] \notin exists, exists' = exists \cup {RoomOf[a]},
             roomState' = [roomState EXCEPT ![RoomOf[a]] = cmd[x].channel],
             Becomes(x, [pc |-> "forward", kind |-> "hook", channel |-> cmd[x].channel,
                         room |-> a]),
             faults' = faults
      PROVE  Inv'
  <2>1. PICK c \in Channel : c = cmd[x].channel
    BY <1>1
  <2>. QED  BY <1>1, <1>2, <1>4, <2>1, RoomCreated
<1>. QED  BY <1>3, <1>4, HookRoomSteps

LEMMA MapUnmap ==
    ASSUME Typed, Inv, NEW x \in Changer, NEW c \in Channel, UnmapCommand(x, c)
    PROVE  Inv'
<1>1. PICK i : i = forward[c]
  OBVIOUS
<1>2. /\ i # None /\ i \in Room /\ Untouched(c, i) /\ cmd[x].pc = "idle" /\ manual'
      /\ Becomes(x, [pc |-> "clear", kind |-> "unmap", channel |-> c, room |-> i])
      /\ UNCHANGED <<forward, reverse, shared, roomState, exists, dmRooms, lookup, faults>>
  BY <1>1, UnmapSteps
<1>3. PICK m : m = [pc |-> "clear", kind |-> "unmap", channel |-> c, room |-> i]
  OBVIOUS
<1>4. cmd'[x] = m /\ \A y \in Changer \ {x} : cmd'[y] = cmd[y]
  BY <1>2, <1>3 DEF Becomes
<1>5. Claims(c, RoomIDOf(i)) /\ RoomIDOf(i) \in RoomID
  BY <1>1, <1>2, Identifiers DEF Claims
<1>6. RoomIDOf(i) \in exists /\ (shared \/ \A d \in Channel : Claims(d, RoomIDOf(i)) => d = c)
  BY <1>5 DEF Inv, Ownership, Existing, Exclusive
<1>7. ASSUME NEW p \in Reader, lookup[p].pc \in Fresh  PROVE lookup[p].value # RoomIDOf(i)
  <2>1. lookup[p].value # i
    BY <1>2, <1>7, UntouchedRoom
  <2>2. \A a \in Alias : RoomOf[a] # lookup[p].value
    BY <1>7 DEF Inv, Ownership, Secluded, Unknown
  <2>. QED  BY <1>2, <2>1, <2>2, Identifiers
<1>8. Unmaps(forward, m) /\ Names(m)' /\ m.channel = c /\ m.room = i
  BY <1>1, <1>3 DEF Unmaps, Names
<1>9. \A y \in Changer :
         \/ cmd'[y] = cmd[y]
         \/ /\ cmd[y].pc \in {"idle", "room"} /\ Unmaps(forward, cmd'[y])
            /\ cmd'[y].channel = c /\ cmd'[y].room \in {i, None}
            /\ ~shared' => Names(cmd[y])'
  BY <1>2, <1>4, <1>8 DEF Names
<1>10. (Exclusive /\ Existing /\ Secluded /\ Unmapping /\ Agreement)'
  BY <1>2, <1>6, <1>7, <1>9, Beginning
<1>11. (Recorded /\ OneDm /\ DmRoomsLeadBack)'
  BY <1>2, Administered
<1>. QED  BY <1>10, <1>11 DEF Inv, Ownership, Settlement

\* A room whose member event makes a DM channel belongs to no other: the reverse
\* key or a command would name it, and a second room is given away knowingly.
LEMMA MapMatrixDm ==
    ASSUME Typed, Inv, NEW x \in Changer, NEW c \in Channel, NEW r \in RoomID, MatrixDm(x, c, r)
    PROVE  Inv'
<1>1. /\ c \in Dm /\ r \in External /\ ChannelFor(r) = None
      /\ Starts(x, "dm", c, r, "forward")
      /\ dmRooms' = dmRooms \cup {<<c, r>>}
      /\ UNCHANGED <<roomState, exists, manual>>
  BY MatrixDmSteps
<1>2. Give(c, r) /\ UNCHANGED <<lookup, faults>> /\ cmd[x].pc = "idle" /\ Free(c)
  BY <1>1 DEF Starts
<1>3. PICK m : m = [pc |-> "forward", kind |-> "dm", channel |-> c, room |-> r]
  OBVIOUS
<1>4. cmd'[x] = m /\ \A y \in Changer \ {x} : cmd'[y] = cmd[y]
  BY <1>1, <1>3 DEF Starts, Becomes
<1>5. r \in Room /\ RoomIDOf(r) = r /\ r \in exists /\ r # None
  BY <1>1, Identifiers DEF Inv, Ownership, Existing
<1>6. \A p \in Reader : lookup[p].pc \in Fresh => lookup[p].value # r
  BY <1>1, ExternalRoom
<1>7. /\ shared => shared'
      /\ shared' \/ \A d \in Channel : Claims(d, r) => d = c
      /\ ~shared' => ~Taken(c, r)
      /\ UNCHANGED <<forward, reverse>>
  BY <1>2, <1>5, <1>6, Given, Untaken
<1>8. /\ Unmaps(forward, m) /\ Names(m)' /\ m.channel = c /\ m.room = r
      /\ m.kind = "dm"
  BY <1>3 DEF Unmaps, Names
<1>9. \A y \in Changer :
         \/ cmd'[y] = cmd[y]
         \/ /\ cmd[y].pc \in {"idle", "room"} /\ Unmaps(forward, cmd'[y])
            /\ cmd'[y].channel = c /\ cmd'[y].room \in {r, None}
            /\ ~shared' => Names(cmd[y])'
  BY <1>2, <1>4, <1>8 DEF Names
<1>10. (Exclusive /\ Existing /\ Secluded /\ Unmapping /\ Agreement)'
  BY <1>1, <1>2, <1>5, <1>6, <1>7, <1>9, Beginning
<1>11. Recorded'
  BY <1>1, <1>2, <1>4, <1>8 DEF Inv, Ownership, Recorded
<1>12. ASSUME ~manual, ~shared', faults = 0, NEW e \in dmRooms  PROVE e[2] # r
  <2>1. SUFFICES ASSUME e[2] = r  PROVE FALSE
    OBVIOUS
  <2>2. PICK d \in Channel \cup Dm : e = <<d, r>> /\ d \in Dm
    BY <2>1, TypeIs, TypedIs DEF RestOK
  <2>3. d # None
    BY <2>2, RoomMappingAssumption
  <2>4. \E y \in Changer : cmd[y].room = r
    <3>1. \A p \in Reader : Creating(p) => lookup[p].value # r
      BY <1>6 DEF Creating, Fresh
    <3>. QED  BY <1>1, <1>7, <1>12, <2>2, <2>3, <3>1 DEF Inv, Settlement, DmRoomsLeadBack
  <2>5. PICK y \in Changer : cmd[y].room = r
    BY <2>4
  <2>6. PICK k : k = cmd[y] /\ k.room = r
    BY <2>5
  <2>7. k.pc # "idle"
    BY <1>5, <2>6, Holding
  <2>8. k.channel # c
    BY <1>2, <2>6, <2>7 DEF Free
  <2>. QED  BY <1>5, <1>7, <1>12, <2>6, <2>8 DEF Taken
<1>13. OneDm'
  BY <1>1, <1>2, <1>7, <1>12 DEF Inv, Settlement, OneDm
<1>14. DmRoomsLeadBack'
  <2>1. SUFFICES ASSUME ~manual, ~shared, faults = 0, NEW e \in dmRooms \cup {<<c, r>>}
                 PROVE  \/ ChannelFor(e[2]) = e[1]
                        \/ \E p \in Reader : Creating(p) /\ lookup[p].value = e[2]
                        \/ \E y \in Changer : cmd'[y].room = e[2]
    BY <1>1, <1>2, <1>7 DEF DmRoomsLeadBack, Creating, ChannelFor
  <2>2. CASE e = <<c, r>>
    BY <1>4, <1>8, <2>2
  <2>3. CASE e \in dmRooms
    <3>1. cmd[x].room = None /\ \A d \in dmRooms : d[2] # None
      BY <1>2, TypeIs, TypedIs, Identifiers DEF CmdsOK, CmdOK, NoCmd, RestOK
    <3>. QED  BY <1>4, <2>1, <2>3, <3>1 DEF Inv, Settlement, DmRoomsLeadBack
  <2>. QED  BY <2>1, <2>2, <2>3
<1>. QED  BY <1>10, <1>11, <1>13, <1>14 DEF Inv, Ownership, Settlement

LEMMA MapCreateDirectRoom ==
    ASSUME Typed, Inv, NEW p \in Reader, NEW r \in RoomID, CreateDirectRoom(p, r)
    PROVE  Inv'
<1>1. PICK l, c : l = [pc |-> "forward", channel |-> lookup[p].channel,
                       value |-> r, again |-> lookup[p].again] /\ c = lookup[p].channel
  OBVIOUS
<1>2. /\ lookup[p].pc = "answered" /\ c \in Dm /\ c \in Channel
      /\ Turns(p, l)
      /\ r \notin exists /\ (\A a \in Alias : RoomOf[a] # r)
      /\ exists' = exists \cup {r}
      /\ dmRooms' = dmRooms \cup {<<c, r>>}
      /\ UNCHANGED <<forward, reverse, shared, roomState, cmd, manual, faults>>
  BY <1>1, CreateDirectRoomSteps DEF At
<1>3. l.pc = "forward" /\ l.channel = c /\ l.value = r
  BY <1>1
<1>4. lookup'[p] = l /\ \A q \in Reader \ {p} : lookup'[q] = lookup[q]
  BY <1>2 DEF Turns
<1>5. /\ \A d \in Channel : ~Claims(d, r)
      /\ reverse[r] = None /\ r \notin External
      /\ \A q \in Reader : lookup[q].pc \in Fresh => lookup[q].value # r
      /\ \A x \in Changer : cmd[x].room # r
      /\ \A d \in dmRooms : d[2] # r
  BY <1>2, NewRoom
<1>6. ASSUME NEW d \in Channel, NEW s \in RoomID, Claims(d, s)'
      PROVE  Claims(d, s) \/ (d = c /\ s = r)
  <2>1. CASE forward'[d] # None /\ RoomIDOf(forward'[d]) = s
    BY <1>2, <2>1 DEF Claims
  <2>2. ASSUME NEW y \in Changer, CmdClaims(cmd'[y], d, s)  PROVE Claims(d, s)
    BY <1>2, <2>2 DEF Claims
  <2>3. ASSUME NEW q \in Reader, LookupClaims(lookup'[q], d, s)
        PROVE  Claims(d, s) \/ (d = c /\ s = r)
    <3>1. CASE q = p
      BY <1>3, <1>4, <2>3, <3>1 DEF LookupClaims
    <3>2. CASE q # p
      BY <1>4, <2>3, <3>2 DEF Claims
    <3>. QED  BY <3>1, <3>2
  <2>. QED  BY <1>6, <2>1, <2>2, <2>3 DEF Claims
<1>7. Exclusive'
  BY <1>2, <1>5, <1>6 DEF Inv, Ownership, Exclusive
<1>8. Existing'
  <2>1. \A d \in Channel, s \in RoomID : Claims(d, s)' => s \in exists'
    BY <1>2, <1>6 DEF Inv, Ownership, Existing
  <2>2. \A j \in Room : reverse'[j] # None => RoomIDOf(j) \in exists'
    BY <1>2 DEF Inv, Ownership, Existing
  <2>3. External \subseteq exists' /\ \A d \in dmRooms' : d[2] \in exists'
    BY <1>2 DEF Inv, Ownership, Existing
  <2>. QED  BY <2>1, <2>2, <2>3 DEF Existing
<1>9. Secluded'
  <2>1. \A v : Unknown(v) => Unknown(v)'
    BY <1>2 DEF Unknown
  <2>2. Unknown(r)'
    BY <1>2, <1>5 DEF Unknown
  <2>3. ASSUME NEW q \in Reader, lookup'[q].pc \in Fresh, NEW v, v = lookup'[q].value
        PROVE  Unknown(v)'
    BY <1>3, <1>4, <2>1, <2>2, <2>3 DEF Inv, Ownership, Secluded
  <2>. QED  BY <2>3 DEF Secluded, Unknown
<1>10. Recorded'
  BY <1>2, <1>3, <1>4 DEF Inv, Ownership, Recorded
<1>11. OneDm'
  BY <1>2, <1>5 DEF Inv, Settlement, OneDm
<1>12. Unmapping'
  BY <1>2 DEF Inv, Settlement, Unmapping
<1>13. Agreement'
  <2>1. ASSUME NEW d \in Channel, LeadsBack(d)  PROVE LeadsBack(d)'
    <3>1. Leads(d) => Leads(d)'
      BY <1>2 DEF Leads, ChannelFor
    <3>2. \A i : \A q \in Reader : LookupSeesTo(lookup[q], d, i) => LookupSeesTo(lookup'[q], d, i)
      BY <1>2, <1>4 DEF LookupSeesTo
    <3>. QED  BY <1>2, <2>1, <3>1, <3>2, LeadsBackKept
  <2>2. \A x \in Changer : Names(cmd[x]) => Names(cmd[x])'
    BY <1>2 DEF Names, ChannelFor
  <2>. QED  BY <1>2, <2>1, <2>2 DEF Inv, Settlement, Agreement
<1>14. DmRoomsLeadBack'
  <2>1. Creating(p)' /\ lookup'[p].value = r
    BY <1>3, <1>4 DEF Creating
  <2>2. ASSUME NEW q \in Reader, Creating(q)  PROVE Creating(q)' /\ lookup'[q].value = lookup[q].value
    BY <1>2, <1>4, <2>2 DEF Creating
  <2>3. \A s : ChannelFor(s)' = ChannelFor(s)
    BY <1>2 DEF ChannelFor
  <2>4. ASSUME ~manual, ~shared, faults = 0, NEW e \in dmRooms \cup {<<c, r>>}
        PROVE  \/ ChannelFor(e[2])' = e[1]
               \/ \E q \in Reader : Creating(q)' /\ lookup'[q].value = e[2]
               \/ \E x \in Changer : cmd'[x].room = e[2]
    BY <1>2, <2>1, <2>2, <2>3, <2>4 DEF Inv, Settlement, DmRoomsLeadBack
  <2>. QED  BY <1>2, <2>4 DEF DmRoomsLeadBack
<1>. QED  BY <1>7, <1>8, <1>9, <1>10, <1>11, <1>12, <1>13, <1>14 DEF Inv, Ownership, Settlement

\* A lookup that creates no room is none of the mappings' business.
LEMMA NotCreating ==
    ASSUME NEW p \in Reader, NEW l, Turns(p, l), l.pc \notin Fresh, lookup[p].pc \notin Fresh
    PROVE  \A q \in Reader : \/ lookup'[q] = lookup[q]
                             \/ lookup[q].pc \notin Fresh /\ lookup'[q].pc \notin Fresh
<1>. TAKE q \in Reader
<1>1. CASE q = p
  <2>1. lookup'[q] = l
    BY <1>1 DEF Turns
  <2>. QED  BY <1>1, <2>1
<1>2. CASE q # p
  BY <1>2 DEF Turns
<1>. QED  BY <1>1, <1>2

LEMMA MapRead ==
    ASSUME Typed, Inv, NEW p \in Reader, NEW c \in Channel, NEW again \in BOOLEAN,
           Read(p, c, again), lookup[p].pc \notin Fresh
    PROVE  Inv'
<1>1. PICK l \in LookupRecord : Turns(p, l) /\ Finds(c, l)
  BY Reads
<1>2. l.pc \notin Fresh /\ (Works \/ Fails)
  BY <1>1 DEF Finds, Fresh
<1>3. \A q \in Reader : \/ lookup'[q] = lookup[q]
                        \/ lookup[q].pc \notin Fresh /\ lookup'[q].pc \notin Fresh
  BY <1>1, <1>2, NotCreating
<1>4. UNCHANGED <<forward, reverse, shared, roomState, exists, cmd, dmRooms, manual>>
  BY DEF Read, kvVars, histVars
<1>5. faults' = faults \/ faults' # 0
  BY <1>2, Faults, TypedIs
<1>. QED  BY <1>3, <1>4, <1>5, QuietSteps DEF Quiet, Inv

LEMMA MapReader ==
    ASSUME Typed, Inv, NEW p \in Reader, ReaderStep(p)
    PROVE  Inv'
<1>1. CASE CacheFill(p)
  <2>1. PICK l : l = GoneTo(lookup[p], "answered")
    OBVIOUS
  <2>2. l.pc = "answered" /\ Turns(p, l) /\ lookup[p].pc = "fill"
    BY <1>1, <2>1, CacheFillSteps DEF GoneTo, At
  <2>3. \A q \in Reader : \/ lookup'[q] = lookup[q]
                          \/ lookup[q].pc \notin Fresh /\ lookup'[q].pc \notin Fresh
    BY <2>2, NotCreating DEF Fresh
  <2>4. UNCHANGED <<forward, reverse, shared, roomState, exists, cmd, dmRooms, manual, faults>>
    BY <1>1, CacheFillSteps
  <2>. QED  BY <2>3, <2>4, QuietSteps DEF Quiet, Inv
<1>2. CASE LookupEnd(p)
  <2>1. Turns(p, NoLookup) /\ lookup[p].pc = "answered" /\ NoLookup.pc = "idle"
    BY <1>2, LookupEndSteps DEF At, NoLookup
  <2>2. \A q \in Reader : \/ lookup'[q] = lookup[q]
                          \/ lookup[q].pc \notin Fresh /\ lookup'[q].pc \notin Fresh
    BY <2>1, NotCreating DEF Fresh
  <2>3. UNCHANGED <<forward, reverse, shared, roomState, exists, cmd, dmRooms, manual, faults>>
    BY <1>2, LookupEndSteps
  <2>. QED  BY <2>2, <2>3, QuietSteps DEF Quiet, Inv
<1>3. CASE LookupAgain(p)
  <2>1. lookup[p].channel \in Channel /\ lookup[p].pc \notin Fresh
    BY <1>3, Looking DEF LookupAgain, Unanswered, At, Fresh
  <2>. QED  BY <1>3, <2>1, MapRead DEF LookupAgain
<1>4. CASE DmForward(p)
  BY <1>4, MapDmForward
<1>5. CASE DmCache(p)
  <2>1. lookup[p].pc = "cache" /\ Turns(p, GoneTo(lookup[p], "reverse"))
    BY <1>5, DmCacheSteps DEF At
  <2>2. \A q \in Reader : \/ lookup'[q] = lookup[q]
                          \/ lookup[q].pc = "cache" /\ lookup'[q] = GoneTo(lookup[q], "reverse")
    BY <2>1 DEF Turns
  <2>3. UNCHANGED <<forward, reverse, shared, roomState, exists, cmd, dmRooms, manual, faults>>
    BY <1>5, DmCacheSteps
  <2>. QED  BY <2>2, <2>3, QuietSteps DEF Quiet, Inv
<1>6. CASE DmReverse(p)
  BY <1>6, MapDmReverse
<1>. QED  BY <1>1, <1>2, <1>3, <1>4, <1>5, <1>6 DEF ReaderStep

LEMMA MapNext == Typed /\ Inv /\ [Next]_vars => Inv'
<1>. SUFFICES ASSUME Typed, Inv, [Next]_vars  PROVE Inv'
  OBVIOUS
<1>. Actor \subseteq Changer
  BY DEF Changer
<1>1. ASSUME NEW p \in Reader, NEW c \in Channel, Lookup(p, c)  PROVE Inv'
  BY <1>1, MapRead DEF Lookup, At, Fresh
<1>2. ASSUME NEW x \in Changer, ActorStep(x)  PROVE Inv'
  BY <1>2, MapHookRoom, MapCmdForward, MapCmdReverse, MapCmdRoomID, MapUnmapClear,
     MapUnmapForward, MapUnmapReverse DEF ActorStep
<1>3. CASE Tick
  <2>1. Quiet
    BY <1>3, TickSteps DEF Quiet
  <2>. QED  BY <2>1, QuietSteps DEF Inv
<1>4. CASE UNCHANGED vars
  <2>1. Quiet
    BY <1>4 DEF vars, kvVars, histVars, Quiet
  <2>. QED  BY <2>1, QuietSteps DEF Inv
<1>. QED  BY <1>1, <1>2, <1>3, <1>4, MapCreateDirectRoom, MapReader, MapMap, MapJoin, MapCreate,
          MapMatrixDm, MapUnmap DEF Next

\* The map command of an earlier life has left its keys.
LEMMA InitMap == Init => Inv
<1>. SUFFICES ASSUME Init  PROVE Inv
  OBVIOUS
<1>1. Typed /\ StoreOK
  BY InitTyped, TypeIs, TypedIs
<1>2. /\ \A x \in Changer : cmd[x] = NoCmd
      /\ \A p \in Reader : lookup[p] = NoLookup
      /\ NoCmd.pc = "idle" /\ NoCmd.kind = "none" /\ NoCmd.room = None /\ NoLookup.pc = "idle"
      /\ dmRooms = {} /\ faults = 0
  BY DEF Init, NoCmd, NoLookup
<1>3. \A c \in Channel, r \in RoomID :
         Claims(c, r) => forward[c] # None /\ RoomIDOf(forward[c]) = r
  BY <1>2 DEF Claims, CmdClaims, LookupClaims, Fresh
<1>. DEFINE mapped(i) == {c \in Channel : forward[c] # None /\ i \in {forward[c], RoomIDOf(forward[c])}}
<1>4. \A i \in Room : reverse[i] = IF mapped(i) = {} THEN None ELSE CHOOSE c \in mapped(i) : TRUE
  BY DEF Init
<1>5. Exclusive
  <2>1. ~shared => \A c, d \in Channel :
            forward[c] # None /\ forward[d] # None
               /\ RoomIDOf(forward[c]) = RoomIDOf(forward[d]) => c = d
    BY DEF Init
  <2>. QED  BY <1>3, <2>1 DEF Exclusive
<1>6. Existing
  <2>1. exists = External \cup {RoomIDOf(forward[c]) : c \in {d \in Channel : forward[d] # None}}
    BY DEF Init
  <2>2. \A c \in Channel : forward[c] # None => RoomIDOf(forward[c]) \in exists
    BY <2>1
  <2>3. ASSUME NEW i \in Room, reverse[i] # None  PROVE RoomIDOf(i) \in exists
    <3>1. PICK c \in Channel : forward[c] # None /\ i \in {forward[c], RoomIDOf(forward[c])}
      BY <1>4, <2>3
    <3>2. forward[c] \in Room
      BY <1>1, <3>1 DEF StoreOK
    <3>3. RoomIDOf(i) = RoomIDOf(forward[c])
      BY <3>1, <3>2, Identifiers
    <3>. QED  BY <2>2, <3>1, <3>3
  <2>. QED  BY <1>2, <1>3, <2>1, <2>2, <2>3 DEF Existing
<1>7. Secluded /\ Recorded /\ OneDm /\ Unmapping /\ DmRoomsLeadBack
  BY <1>2 DEF Secluded, Recorded, OneDm, Unmapping, Unmaps, DmRoomsLeadBack, Fresh
<1>8. Agreement
  <2>1. ASSUME ~shared, NEW c \in Channel, forward[c] # None  PROVE Leads(c)
    <3>1. PICK i, r : i = forward[c] /\ r = RoomIDOf(i)
      OBVIOUS
    <3>2. i \in Room /\ r \in RoomID /\ r \in Room
      BY <1>1, <2>1, <3>1, Identifiers DEF StoreOK
    <3>3. \A d \in mapped(r) : d = c
      <4>1. SUFFICES ASSUME NEW d \in Channel, forward[d] # None,
                            r \in {forward[d], RoomIDOf(forward[d])}
                     PROVE  d = c
        OBVIOUS
      <4>2. RoomIDOf(forward[d]) = r
        BY <3>2, <4>1, Identifiers
      <4>3. Claims(d, r) /\ Claims(c, r)
        BY <2>1, <3>1, <4>1, <4>2 DEF Claims
      <4>. QED  BY <1>5, <2>1, <3>2, <4>3 DEF Exclusive
    <3>4. c \in mapped(r)
      BY <2>1, <3>1
    <3>. HIDE DEF mapped
    <3>5. reverse[r] = c
      BY <1>4, <3>2, <3>3, <3>4
    <3>6. c # None
      BY Identifiers
    <3>. QED  BY <3>1, <3>2, <3>5, <3>6, Identifiers DEF Leads, ChannelFor
  <2>2. \A x \in Changer : Names(cmd[x])
    BY <1>2 DEF Names
  <2>. QED  BY <2>1, <2>2 DEF Agreement, LeadsBack
<1>. QED  BY <1>5, <1>6, <1>7, <1>8 DEF Inv, Ownership, Settlement

LEMMA InvLeadsBack == Typed /\ Inv => RoomsLeadBack
<1>. SUFFICES ASSUME Typed, Inv, ~shared, faults = 0, NEW c \in Channel, forward[c] # None
              PROVE  \/ ChannelFor(RoomIDOf(forward[c])) = c
                     \/ \E x \in Changer : cmd[x].channel = c
                     \/ \E p \in Reader : Creating(p) /\ lookup[p].channel = c
  BY DEF Inv, Settlement, RoomsLeadBack, MappingsAgree
<1>1. LeadsBack(c)
  BY DEF Inv, Settlement, Agreement
<1>2. CASE Leads(c)
  BY <1>2, Identifiers DEF Leads, ChannelFor
<1>3. CASE SeenTo(c, forward[c])
  BY <1>3 DEF SeenTo, CmdSeesTo, LookupSeesTo, Creating
<1>. QED  BY <1>1, <1>2, <1>3 DEF LeadsBack

\* However lookups, DM creation, the commands and their hooks interleave: as long
\* as no call has failed and no two channels were given one room, what is written
\* in the room of a channel comes back to that channel, but while somebody is at
\* work on it; and what is written in any room that was opened for a DM comes back
\* to the DM, until an administrator changes mappings.
THEOREM RoomMappingRoomsLeadBack == Spec => []RoomsLeadBack
<1>1. Init => Typed /\ Inv
  BY InitTyped, InitMap
<1>2. Typed /\ Inv /\ [Next]_vars => (Typed /\ Inv)'
  BY TypedNext, MapNext
<1>3. Typed /\ Inv => RoomsLeadBack
  BY InvLeadsBack
<1>. QED  BY <1>1, <1>2, <1>3, PTL DEF Spec
=============================================================================
