------------------------- MODULE ModbusConfig_proofs -------------------------
(***************************************************************************)
(* Proofs about the configuration of the Modbus gateway, for any number of *)
(* servers and blocks, any arguments, and builds with and without RTU: the *)
(* routes of a loaded file can be served, deny_ops is enforced as it was   *)
(* written, and neither later blocks nor merging takes a route away.       *)
(***************************************************************************)
EXTENDS ModbusConfig, NumberFacts

-----------------------------------------------------------------------------
(* FindLocation.                                                            *)

\* The block FindLocation takes is the first of its unit.
IsFirst(blocks, id, i) ==
  /\ i \in DOMAIN blocks /\ blocks[i].slave_id = id
  /\ \A j \in DOMAIN blocks : blocks[j].slave_id = id => i <= j

LEMMA FirstExists ==
  ASSUME NEW blocks \in Seq(Locations), NEW id,
         \E i \in DOMAIN blocks : blocks[i].slave_id = id
  PROVE  \E i : IsFirst(blocks, id, i)
<1> DEFINE S == {i \in DOMAIN blocks : blocks[i].slave_id = id}
<1>1. S \subseteq Nat /\ S # {}
  OBVIOUS
<1>2. PICK i \in S : \A j \in S : i <= j
  BY <1>1, LeastNumber
<1> QED
  BY <1>2 DEF IsFirst

LEMMA FirstIsFound ==
  ASSUME NEW blocks \in Seq(Locations), NEW default, NEW id, NEW i, IsFirst(blocks, id, i)
  PROVE  FindLocation(blocks, default, id) = blocks[i]
<1> DEFINE P(k) == /\ blocks[k].slave_id = id
                   /\ \A j \in DOMAIN blocks : blocks[j].slave_id = id => k <= j
           c == CHOOSE k \in DOMAIN blocks : P(k)
<1>1. i \in DOMAIN blocks /\ P(i)
  BY DEF IsFirst
<1>2. c \in DOMAIN blocks /\ P(c)
  BY <1>1
<1>3. c <= i /\ i <= c
  BY <1>1, <1>2
<1>4. c = i
  BY <1>1, <1>2, <1>3
<1>5. FindLocation(blocks, default, id) = blocks[c]
  BY <1>1 DEF FindLocation
<1> QED
  BY <1>4, <1>5

\* Without a block of the unit there is the default.
LEMMA DefaultIsFound ==
  ASSUME NEW blocks, NEW default, NEW id,
         ~ \E i \in DOMAIN blocks : blocks[i].slave_id = id
  PROVE  FindLocation(blocks, default, id) = default
  BY DEF FindLocation

\* A block that is added does not change the route of a unit that has one.
LEMMA AppendedBlocks ==
  ASSUME NEW blocks \in Seq(Locations), NEW loc \in Locations, NEW default, NEW later, NEW id,
         \E i \in DOMAIN blocks : blocks[i].slave_id = id
  PROVE  FindLocation(Append(blocks, loc), later, id) = FindLocation(blocks, default, id)
<1>1. PICK i : IsFirst(blocks, id, i)
  BY FirstExists
<1>2. IsFirst(Append(blocks, loc), id, i)
  BY <1>1 DEF IsFirst
<1>3. Append(blocks, loc) \in Seq(Locations) /\ Append(blocks, loc)[i] = blocks[i]
  BY <1>1 DEF IsFirst
<1>4. FindLocation(blocks, default, id) = blocks[i]
  BY <1>1, FirstIsFound
<1>5. FindLocation(Append(blocks, loc), later, id) = Append(blocks, loc)[i]
  BY <1>2, <1>3, FirstIsFound
<1> QED
  BY <1>3, <1>4, <1>5
-----------------------------------------------------------------------------
(* deny_ops.                                                                *)

\* No two tokens share a bit, whether or not the function code is stripped of
\* the exception bit.
LEMMA TokensHaveTheirBit ==
  ASSUME NEW t \in DOMAIN OpCode, NEW u \in DOMAIN OpCode
  PROVE  /\ OpBit(OpCode[t]) \in 0..WordBits - 1
         /\ OpBit(OpCode[t] % 128) = OpBit(OpCode[u]) <=> t = u
         /\ OpBit((OpCode[t] + 128) % 128) = OpBit(OpCode[u]) <=> t = u
<1>1. /\ OpCode[t] \in 1..16 /\ OpCode[u] \in 1..16
      /\ OpCode[t] = OpCode[u] => t = u
  BY DEF OpCode
<1>2. \A c \in 1..16 : c % 64 = c /\ c % 128 = c /\ (c + 128) % 128 = c
  BY SMT
<1> QED
  BY <1>1, <1>2 DEF OpBit, WordBits

\* What a block lists is what its location denies.
LEMMA DeniesWhatIsListed ==
  ASSUME NEW b, b.ops \in SUBSET DOMAIN OpCode, NEW t \in DOMAIN OpCode
  PROVE  /\ Denies(Location(b), OpCode[t]) <=> t \in b.ops
         /\ Denies(Location(b), OpCode[t] + 128) <=> t \in b.ops
<1>1. Location(b).deny_ops = {OpBit(OpCode[u]) : u \in b.ops}
  BY DEF Location, DenyMask
<1> QED
  BY <1>1, TokensHaveTheirBit DEF Denies
-----------------------------------------------------------------------------
(* The inductive invariant.                                                 *)

\* What a line directive may stand at.
LineSettings(name) == {UNSET, LineDefaults[name]} \cup LineValues[name]
Lines == {l \in [LineNames -> UNION {LineSettings(name) : name \in LineNames}] :
            \A name \in LineNames : l[name] \in LineSettings(name)}

Confs == [blocks : Seq(Locations), default_location : Locations \cup {NULL},
          serial : {UNSET, "device", ""}, line : Lines]

\* A conf whose settings are all known.
IsComplete(c) == c.serial # UNSET /\ \A name \in LineNames : c.line[name] # UNSET

\* The blocks of a server are its accepted declarations, one by one.
BlocksAreDeclared(n) ==
  /\ Len(conf[n].blocks) = Len(declared[n])
  /\ \A i \in DOMAIN declared[n] :
       conf[n].blocks[i] = Location(declared[n][i]) /\ ~BlockError(declared[n][i])

IsDefault(b) == b.id \in {DefaultArg, 0}

\* The default is a copy of the last declaration that may be one.
LastDefault(loc, ds) ==
  \/ loc = NULL /\ \A i \in DOMAIN ds : ~IsDefault(ds[i])
  \/ \E i \in DOMAIN ds :
       /\ IsDefault(ds[i])
       /\ \A j \in DOMAIN ds : IsDefault(ds[j]) => j <= i
       /\ loc = Location(ds[i])

DefaultIsTheLast(n) == LastDefault(conf[n].default_location, declared[n])

\* The servers that merge has completed.
IsMerged(n) == stage = "loaded" \/ (stage = "merging" /\ n < server)

Types ==
  /\ conf \in [Servers -> Confs]
  /\ declared \in [Servers -> Seq(BlockArgs)]
  /\ server \in Servers
  /\ stage \in {"parsing", "merging", "loaded", "rejected"}

Inv ==
  /\ Types
  /\ \A n \in Servers :
       /\ Len(declared[n]) <= MaxBlocks
       /\ BlocksAreDeclared(n) /\ DefaultIsTheLast(n)
       /\ IsMerged(n) => ~MergeError(conf[n]) /\ IsComplete(conf[n])

\* A block that passes the checks is a location.
LEMMA LocationType ==
  ASSUME NEW b \in BlockArgs, ~BlockError(b)
  PROVE  /\ Location(b) \in Locations
         /\ Location(b).slave_id = 0 <=> b.id \in {DefaultArg, 0}
<1>1. /\ b.id \in Nat \cup {DefaultArg} /\ b.mode \in {"tcp", "rtu", "other"}
      /\ b.host \in BOOLEAN /\ b.timeout \in BOOLEAN /\ b.ops \in SUBSET DOMAIN OpCode
  BY ConfigAssumption
<1>2. DenyMask(b.ops) \in SUBSET (0..WordBits - 1)
  BY <1>1, TokensHaveTheirBit DEF DenyMask
<1>3. (IF b.id = DefaultArg THEN 0 ELSE b.id) \in UnitIds
  BY <1>1 DEF BlockError, UnitIds, DefaultArg
<1>4. b.mode \in {"tcp", "rtu"}
  BY DEF BlockError
<1> QED
  BY <1>1, <1>2, <1>3, <1>4 DEF Location, Locations, DefaultArg

\* A line that maps every directive to a setting of its own.
LEMMA LineType ==
  ASSUME NEW l, l = [name \in LineNames |-> l[name]],
         \A name \in LineNames : l[name] \in LineSettings(name)
  PROVE  l \in Lines
<1> DEFINE S == UNION {LineSettings(name) : name \in LineNames}
<1>1. \A name \in LineNames : l[name] \in S
  OBVIOUS
<1>2. l \in [LineNames -> S]
  BY <1>1
<1> QED
  BY <1>2 DEF Lines

\* No default is the sentinel of the directive.
LEMMA DefaultTypes ==
  /\ LineDefaults["parity"] \in Parities
  /\ \A name \in LineNames \ {"parity"} : LineDefaults[name] \in Nat \ {0}
  /\ \A name \in LineNames : LineDefaults[name] # UNSET
<1>1. /\ LineDefaults["parity"] = "none" /\ LineDefaults["baud"] = 9600
      /\ LineDefaults["data_bits"] = 8 /\ LineDefaults["stop_bits"] = 1
      /\ LineDefaults["response_timeout"] = 1000
  BY DEF LineDefaults
<1>2. /\ LineDefaults["parity"] \in Parities
      /\ \A name \in LineNames \ {"parity"} : LineDefaults[name] \in Nat \ {0}
  BY <1>1 DEF LineNames, Parities
<1> QED
  BY <1>2, ConfigAssumption DEF UNSET

LEMMA InitHolds ==
  ASSUME Init
  PROVE  Inv
<1>1. NServers \in Nat \ {0} /\ MaxBlocks \in Nat
  BY ConfigAssumption
<1>2. CreateSrvConf \in Confs
  <2> DEFINE l == [name \in LineNames |-> UNSET]
  <2>1. l = [name \in LineNames |-> l[name]]
    OBVIOUS
  <2>2. \A name \in LineNames : l[name] \in LineSettings(name)
    BY DEF LineSettings
  <2> HIDE DEF l
  <2>3. l \in Lines
    BY <2>1, <2>2, LineType
  <2> QED
    BY <2>3 DEF CreateSrvConf, Confs, l
<1>3. Types
  BY <1>1, <1>2 DEF Init, Types, Servers
<1>4. ASSUME NEW n \in Servers
      PROVE  /\ Len(declared[n]) <= MaxBlocks
             /\ BlocksAreDeclared(n) /\ DefaultIsTheLast(n) /\ ~IsMerged(n)
  BY <1>1 DEF Init, BlocksAreDeclared, DefaultIsTheLast, LastDefault, IsMerged, CreateSrvConf
<1> QED
  BY <1>3, <1>4 DEF Inv

\* What the invariant says of a server depends on its conf and declarations.
LEMMA ServerKept ==
  ASSUME NEW n \in Servers, conf'[n].blocks = conf[n].blocks,
         conf'[n].default_location = conf[n].default_location,
         declared'[n] = declared[n], BlocksAreDeclared(n), DefaultIsTheLast(n)
  PROVE  BlocksAreDeclared(n)' /\ DefaultIsTheLast(n)'
  BY DEF BlocksAreDeclared, DefaultIsTheLast

LEMMA RejectStep ==
  ASSUME Inv, Reject
  PROVE  Inv'
  BY DEF Inv, Reject, Types, BlocksAreDeclared, DefaultIsTheLast, IsMerged

\* A directive that leaves the blocks of the server it is in alone.
LEMMA OtherDirective ==
  ASSUME Inv, stage = "parsing", UNCHANGED <<declared, server, stage>>,
         NEW c \in Confs, conf' = [conf EXCEPT ![server] = c],
         c.blocks = conf[server].blocks,
         c.default_location = conf[server].default_location
  PROVE  Inv'
<1>1. server \in Servers /\ conf \in [Servers -> Confs]
  BY DEF Inv, Types
<1>2. Types'
  BY <1>1 DEF Inv, Types
<1>3. ASSUME NEW n \in Servers
      PROVE  /\ conf'[n].blocks = conf[n].blocks
             /\ conf'[n].default_location = conf[n].default_location
             /\ declared'[n] = declared[n] /\ ~IsMerged(n)'
  BY <1>1 DEF IsMerged
<1> QED
  BY <1>2, <1>3, ServerKept DEF Inv

LEMMA SerialStep ==
  ASSUME Inv, NEW path \in {"device", ""}, Serial(path)
  PROVE  Inv'
<1> DEFINE c == [conf[server] EXCEPT !.serial = path]
<1>1. conf[server] \in Confs
  BY DEF Inv, Types
<1>2. /\ c \in Confs /\ c.blocks = conf[server].blocks
      /\ c.default_location = conf[server].default_location
  BY <1>1 DEF Confs
<1>3. CASE ~Reject
  <2>1. conf' = [conf EXCEPT ![server] = c]
    BY <1>3 DEF Serial
  <2> QED
    BY <1>2, <1>3, <2>1, OtherDirective DEF Serial
<1> QED
  BY <1>3, RejectStep

LEMMA LineParamStep ==
  ASSUME Inv, NEW name \in LineNames, NEW value \in LineValues[name], LineParam(name, value)
  PROVE  Inv'
<1> DEFINE l == [conf[server].line EXCEPT ![name] = value]
           c == [conf[server] EXCEPT !.line = l]
<1>1. conf[server] \in Confs /\ conf[server].line \in Lines
  BY DEF Inv, Types, Confs
<1>2. l \in Lines
  <2>1. value \in LineSettings(name)
    BY DEF LineSettings
  <2> QED
    BY <1>1, <2>1 DEF Lines
<1> HIDE DEF l
<1>3. /\ c \in Confs /\ c.blocks = conf[server].blocks
      /\ c.default_location = conf[server].default_location
  BY <1>1, <1>2 DEF Confs
<1>4. CASE ~Reject
  <2>1. conf' = [conf EXCEPT ![server] = c]
    BY <1>1, <1>4 DEF LineParam, l, Confs
  <2> QED
    BY <1>3, <1>4, <2>1, OtherDirective DEF LineParam
<1> QED
  BY <1>4, RejectStep

\* A new default is the last one so far.
LEMMA DefaultStep ==
  ASSUME NEW ds \in Seq(BlockArgs), NEW loc, LastDefault(loc, ds),
         NEW b \in BlockArgs, ~BlockError(b)
  PROVE  LastDefault(IF Location(b).slave_id = 0 THEN Location(b) ELSE loc, Append(ds, b))
<1> DEFINE L == Len(ds)
           es == Append(ds, b)
<1>1. L \in Nat /\ DOMAIN ds = 1..L
  OBVIOUS
<1>2. /\ DOMAIN es = 1..L + 1 /\ es[L + 1] = b
      /\ \A i \in 1..L : i \in 1..L + 1 /\ es[i] = ds[i]
  OBVIOUS
<1>3. Location(b).slave_id = 0 <=> IsDefault(b)
  BY LocationType DEF IsDefault
<1> HIDE DEF L, es
<1>4. \A i \in 1..L + 1 : i = L + 1 \/ i \in 1..L
  BY <1>1
<1>5. CASE IsDefault(b)
  <2>1. \A j \in DOMAIN es : j <= L + 1
    BY <1>1, <1>2
  <2>2. L + 1 \in DOMAIN es /\ IsDefault(es[L + 1])
    BY <1>1, <1>2, <1>5
  <2>3. LastDefault(Location(b), es)
    BY <1>2, <2>1, <2>2 DEF LastDefault
  <2> QED
    BY <1>3, <1>5, <2>3 DEF es
<1>6. CASE ~IsDefault(b)
  <2>1. LastDefault(loc, es)
    <3>1. CASE loc = NULL /\ \A i \in DOMAIN ds : ~IsDefault(ds[i])
      BY <1>1, <1>2, <1>4, <1>6, <3>1 DEF LastDefault
    <3>2. CASE \E i \in DOMAIN ds :
                 /\ IsDefault(ds[i])
                 /\ \A j \in DOMAIN ds : IsDefault(ds[j]) => j <= i
                 /\ loc = Location(ds[i])
      <4>1. PICK i \in DOMAIN ds : /\ IsDefault(ds[i])
                                   /\ \A j \in DOMAIN ds : IsDefault(ds[j]) => j <= i
                                   /\ loc = Location(ds[i])
        BY <3>2
      <4>2. \A j \in DOMAIN es : IsDefault(es[j]) => j <= i
        BY <1>1, <1>2, <1>4, <1>6, <4>1
      <4> QED
        BY <1>1, <1>2, <4>1, <4>2 DEF LastDefault
    <3> QED
      BY <3>1, <3>2 DEF LastDefault
  <2> QED
    BY <1>3, <1>6, <2>1 DEF es
<1> QED
  BY <1>5, <1>6

LEMMA BlockStep ==
  ASSUME Inv, NEW b \in BlockArgs, Block(b)
  PROVE  Inv'
<1>1. CASE BlockError(b)
  BY <1>1, RejectStep DEF Block
<1>2. CASE ~BlockError(b)
  <2> DEFINE c == [conf[server] EXCEPT
                    !.blocks = Append(@, Location(b)),
                    !.default_location = IF Location(b).slave_id = 0 THEN Location(b) ELSE @]
  <2>1. /\ stage = "parsing" /\ UNCHANGED <<server, stage>>
        /\ Len(conf[server].blocks) < MaxBlocks
        /\ conf' = [conf EXCEPT ![server] = c]
        /\ declared' = [declared EXCEPT ![server] = Append(@, b)]
    BY <1>2 DEF Block
  <2>2. /\ server \in Servers /\ conf \in [Servers -> Confs]
        /\ declared \in [Servers -> Seq(BlockArgs)]
        /\ BlocksAreDeclared(server) /\ Len(declared[server]) <= MaxBlocks
    BY DEF Inv, Types
  <2>3. conf[server] \in Confs /\ declared[server] \in Seq(BlockArgs)
    BY <2>2
  <2>4. Location(b) \in Locations
    BY <1>2, LocationType
  <2>5. /\ c \in Confs
        /\ c.blocks = Append(conf[server].blocks, Location(b))
        /\ c.default_location =
             IF Location(b).slave_id = 0 THEN Location(b) ELSE conf[server].default_location
    <3>0. conf[server].blocks \in Seq(Locations)
      BY <2>3 DEF Confs
    <3>1. Append(conf[server].blocks, Location(b)) \in Seq(Locations)
      BY <2>4, <3>0
    <3>2. (IF Location(b).slave_id = 0 THEN Location(b) ELSE conf[server].default_location)
            \in Locations \cup {NULL}
      BY <2>3, <2>4 DEF Confs
    <3> QED
      BY <2>3, <3>1, <3>2 DEF Confs
  <2> HIDE DEF c
  <2>6. /\ conf'[server] = c
        /\ declared'[server] = Append(declared[server], b)
    BY <2>1, <2>2
  <2>7. Types'
    BY <2>1, <2>2, <2>3, <2>5 DEF Types
  <2>8. ASSUME NEW n \in Servers, n # server
        PROVE  conf'[n] = conf[n] /\ declared'[n] = declared[n]
    BY <2>1, <2>2, <2>8
  <2>9. BlocksAreDeclared(server)' /\ Len(declared'[server]) <= MaxBlocks
    <3> DEFINE bs == conf[server].blocks
               ds == declared[server]
    <3>1. /\ bs \in Seq(Locations) /\ ds \in Seq(BlockArgs) /\ Len(bs) = Len(ds)
          /\ \A i \in DOMAIN ds : bs[i] = Location(ds[i]) /\ ~BlockError(ds[i])
          /\ Len(bs) < MaxBlocks /\ MaxBlocks \in Nat
      BY <2>1, <2>2, <2>3, ConfigAssumption DEF Confs, BlocksAreDeclared
    <3>2. /\ conf'[server].blocks = Append(bs, Location(b))
          /\ declared'[server] = Append(ds, b)
      BY <2>5, <2>6
    <3> HIDE DEF bs, ds
    <3>3. /\ Len(Append(bs, Location(b))) = Len(Append(ds, b))
          /\ Len(Append(ds, b)) <= MaxBlocks
          /\ \A i \in DOMAIN Append(ds, b) :
               /\ Append(bs, Location(b))[i] = Location(Append(ds, b)[i])
               /\ ~BlockError(Append(ds, b)[i])
      BY <1>2, <3>1, <2>4
    <3> QED
      BY <2>1, <3>2, <3>3 DEF BlocksAreDeclared
  <2>10. DefaultIsTheLast(server)'
    <3>1. LastDefault(conf[server].default_location, declared[server])
      BY <2>2 DEF Inv, DefaultIsTheLast
    <3>2. LastDefault(c.default_location, Append(declared[server], b))
      BY <1>2, <2>3, <2>5, <3>1, DefaultStep
    <3> QED
      BY <2>1, <2>6, <3>2 DEF DefaultIsTheLast
  <2>11. ASSUME NEW n \in Servers
         PROVE  /\ Len(declared'[n]) <= MaxBlocks
                /\ BlocksAreDeclared(n)' /\ DefaultIsTheLast(n)' /\ ~IsMerged(n)'
    <3>1. ~IsMerged(n)'
      BY <2>1 DEF IsMerged
    <3>2. CASE n = server
      BY <2>1, <2>9, <2>10, <3>1, <3>2
    <3>3. CASE n # server
      BY <2>8, <3>1, <3>3, ServerKept DEF Inv
    <3> QED
      BY <3>2, <3>3
  <2> QED
    BY <2>7, <2>11 DEF Inv
<1> QED
  BY <1>1, <1>2

LEMMA EndServerStep ==
  ASSUME Inv, EndServer
  PROVE  Inv'
<1>1. server \in Servers /\ NServers \in Nat \ {0}
  BY ConfigAssumption DEF Inv, Types
<1>2. server' \in Servers /\ stage' \in {"parsing", "merging"}
      /\ (stage' = "merging" => server' = 1) /\ UNCHANGED <<conf, declared>>
  BY <1>1 DEF EndServer, Servers
<1>3. Types'
  BY <1>2 DEF Inv, Types
<1>4. ASSUME NEW n \in Servers
      PROVE  ~IsMerged(n)'
  BY <1>2 DEF IsMerged, Servers
<1> QED
  BY <1>2, <1>3, <1>4, ServerKept DEF Inv

\* The stream{} level has nothing to inherit, so that merging only completes
\* the serial device and the line.
LEMMA MergedConf ==
  ASSUME NEW c \in Confs
  PROVE  /\ Merged(CreateSrvConf, c) \in Confs
         /\ Merged(CreateSrvConf, c).blocks = c.blocks
         /\ c.blocks # <<>> =>
              Merged(CreateSrvConf, c).default_location = c.default_location
         /\ c.blocks = <<>> => Merged(CreateSrvConf, c).default_location = NULL
         /\ IsComplete(Merged(CreateSrvConf, c))
<1> DEFINE l == [name \in LineNames |->
                   Setting(c.line[name], UNSET, LineDefaults[name])]
           d == Setting(c.serial, UNSET, "")
           bs == IF c.blocks = <<>> THEN <<>> ELSE c.blocks
           dl == IF c.blocks = <<>> THEN NULL ELSE c.default_location
           m == [blocks |-> bs, default_location |-> dl, serial |-> d, line |-> l]
<1>1. Merged(CreateSrvConf, c) = m
  BY DEF Merged, CreateSrvConf
<1>2. ASSUME NEW name \in LineNames
      PROVE  /\ Setting(c.line[name], UNSET, LineDefaults[name]) \in LineSettings(name)
             /\ Setting(c.line[name], UNSET, LineDefaults[name]) # UNSET
  <2>1. c.line[name] \in LineSettings(name)
    BY DEF Confs, Lines
  <2>2. LineDefaults[name] # UNSET
    BY DefaultTypes
  <2> QED
    BY <2>1, <2>2 DEF Setting, LineSettings
<1>3. l \in Lines /\ \A name \in LineNames : l[name] # UNSET
  <2>1. l = [name \in LineNames |-> l[name]]
    OBVIOUS
  <2>2. \A name \in LineNames : l[name] \in LineSettings(name) /\ l[name] # UNSET
    BY <1>2
  <2> HIDE DEF l
  <2> QED
    BY <2>1, <2>2, LineType
<1>4. d \in {"device", ""} /\ d # UNSET
  BY ConfigAssumption DEF Setting, Confs, UNSET
<1>5. /\ bs = c.blocks
      /\ c.blocks # <<>> => dl = c.default_location
      /\ c.blocks = <<>> => dl = NULL
  OBVIOUS
<1>6. bs \in Seq(Locations) /\ dl \in Locations \cup {NULL}
  BY DEF Confs
<1> HIDE DEF l, d, bs, dl
<1>7. m \in Confs
  BY <1>3, <1>4, <1>6 DEF Confs
<1>8. m.blocks = bs /\ m.default_location = dl /\ m.serial = d /\ m.line = l
  OBVIOUS
<1>9. IsComplete(m)
  BY <1>3, <1>4, <1>8 DEF IsComplete
<1> HIDE DEF m
<1> QED
  BY <1>1, <1>5, <1>7, <1>8, <1>9

LEMMA MergeStep ==
  ASSUME Inv, Merge
  PROVE  Inv'
<1> DEFINE c == Merged(CreateSrvConf, conf[server])
<1>1. CASE MergeError(c)
  BY <1>1, RejectStep DEF Merge
<1>2. CASE ~MergeError(c)
  <2>1. /\ stage = "merging" /\ conf' = [conf EXCEPT ![server] = c]
        /\ server' = IF server < NServers THEN server + 1 ELSE 1
        /\ stage' = IF server < NServers THEN "merging" ELSE "loaded"
        /\ UNCHANGED declared
    BY <1>2 DEF Merge
  <2>2. /\ server \in Servers /\ conf \in [Servers -> Confs]
        /\ NServers \in Nat \ {0}
    BY ConfigAssumption DEF Inv, Types
  <2>3. /\ c \in Confs /\ c.blocks = conf[server].blocks
        /\ c.blocks # <<>> => c.default_location = conf[server].default_location
        /\ c.blocks = <<>> => c.default_location = NULL
        /\ IsComplete(c)
    BY <2>2, MergedConf
  <2> HIDE DEF c
  <2>4. /\ conf'[server] = c
        /\ \A n \in Servers : n # server => conf'[n] = conf[n]
    BY <2>1, <2>2
  <2>5. Types'
    BY <2>1, <2>2, <2>3 DEF Inv, Types, Servers
  <2>6. c.default_location = conf[server].default_location
    <3>1. CASE c.blocks = <<>>
      <4>0. BlocksAreDeclared(server) /\ declared[server] \in Seq(BlockArgs)
        BY <2>2 DEF Inv, Types
      <4>1. Len(declared[server]) = 0 /\ declared[server] \in Seq(BlockArgs)
        BY <2>3, <3>1, <4>0 DEF BlocksAreDeclared
      <4>2. DOMAIN declared[server] = {}
        BY <4>1
      <4>3. DefaultIsTheLast(server)
        BY <2>2 DEF Inv
      <4> QED
        BY <2>3, <3>1, <4>2, <4>3 DEF DefaultIsTheLast, LastDefault
    <3> QED
      BY <2>3, <3>1
  <2>7. ASSUME NEW n \in Servers
        PROVE  IsMerged(n)' => ~MergeError(conf'[n]) /\ IsComplete(conf'[n])
    <3>1. CASE n = server
      BY <1>2, <2>3, <2>4, <3>1
    <3>2. CASE n # server
      <4>1. IsMerged(n)' => n < server
        BY <2>1, <2>2, <3>2 DEF IsMerged, Servers
      <4> QED
        BY <2>1, <2>4, <3>2, <4>1 DEF Inv, IsMerged
    <3> QED
      BY <3>1, <3>2
  <2>8. ASSUME NEW n \in Servers
        PROVE  BlocksAreDeclared(n)' /\ DefaultIsTheLast(n)'
    BY <2>1, <2>3, <2>4, <2>6, ServerKept DEF Inv
  <2>9. \A n \in Servers : /\ MergeError(conf[n])' <=> MergeError(conf'[n])
                           /\ IsComplete(conf[n])' <=> IsComplete(conf'[n])
    BY DEF MergeError, IsComplete
  <2> QED
    BY <2>1, <2>5, <2>7, <2>8, <2>9 DEF Inv
<1> QED
  BY <1>1, <1>2

LEMMA Step ==
  ASSUME Inv, [Next]_vars
  PROVE  Inv'
<1>1. CASE UNCHANGED vars
  <2>1. Types'
    BY <1>1 DEF vars, Inv, Types
  <2>2. ASSUME NEW n \in Servers
        PROVE  /\ Len(declared'[n]) <= MaxBlocks
               /\ BlocksAreDeclared(n)' /\ DefaultIsTheLast(n)'
               /\ IsMerged(n)' => ~MergeError(conf'[n]) /\ IsComplete(conf'[n])
    BY <1>1, ServerKept DEF vars, Inv, IsMerged
  <2>3. \A n \in Servers : /\ MergeError(conf[n])' <=> MergeError(conf'[n])
                           /\ IsComplete(conf[n])' <=> IsComplete(conf'[n])
    BY DEF MergeError, IsComplete
  <2> QED
    BY <1>1, <2>1, <2>2, <2>3 DEF vars, Inv
<1> QED
  BY <1>1, SerialStep, LineParamStep, BlockStep, EndServerStep, MergeStep DEF Next

\* Blocks and default of every server are those of its declarations.
THEOREM ConfigInvariance == Spec => []Inv
<1>1. ASSUME Init PROVE Inv
  BY <1>1, InitHolds
<1>2. ASSUME Inv, [Next]_vars PROVE Inv'
  BY <1>2, Step
<1> QED
  BY <1>1, <1>2, PTL DEF Spec

\* Every variable keeps its type, and no server has more blocks than MaxBlocks.
THEOREM ConfigTypes == Spec => []TypeOK
<1>1. ASSUME Inv PROVE TypeOK
  <2>1. Types
    BY <1>1 DEF Inv
  <2>2. ASSUME NEW n \in Servers
        PROVE  /\ \A i \in DOMAIN conf[n].blocks : conf[n].blocks[i] \in Locations
               /\ conf[n].default_location \in Locations \cup {NULL}
               /\ conf[n].serial \in {UNSET, "device", ""}
               /\ \A name \in LineNames :
                    conf[n].line[name] \in {UNSET, LineDefaults[name]} \cup LineValues[name]
               /\ Len(declared[n]) <= MaxBlocks
    <3>1. conf[n] \in Confs
      BY <2>1 DEF Types
    <3>2. conf[n].blocks \in Seq(Locations)
      BY <3>1 DEF Confs
    <3>3. \A i \in DOMAIN conf[n].blocks : conf[n].blocks[i] \in Locations
      BY <3>2
    <3>4. /\ conf[n].default_location \in Locations \cup {NULL}
          /\ conf[n].serial \in {UNSET, "device", ""}
          /\ \A name \in LineNames :
               conf[n].line[name] \in {UNSET, LineDefaults[name]} \cup LineValues[name]
      BY <3>1 DEF Confs, Lines, LineSettings
    <3>5. Len(declared[n]) <= MaxBlocks
      BY <1>1 DEF Inv
    <3> QED
      BY <3>3, <3>4, <3>5
  <2> QED
    BY <2>1, <2>2 DEF Types, TypeOK
<1> QED
  BY <1>1, ConfigInvariance, PTL
-----------------------------------------------------------------------------
(* Routes.                                                                  *)

\* The blocks of a server are those of its declarations, in their order.
LEMMA ServerOfInv ==
  ASSUME Inv, NEW n \in Servers
  PROVE  /\ conf[n] \in Confs /\ conf[n].blocks \in Seq(Locations)
         /\ declared[n] \in Seq(BlockArgs)
         /\ DOMAIN conf[n].blocks = DOMAIN declared[n]
         /\ \A i \in DOMAIN declared[n] :
              conf[n].blocks[i] = Location(declared[n][i]) /\ ~BlockError(declared[n][i])
         /\ LastDefault(conf[n].default_location, declared[n])
<1>1. /\ conf[n] \in Confs /\ declared[n] \in Seq(BlockArgs)
      /\ BlocksAreDeclared(n) /\ DefaultIsTheLast(n)
  BY DEF Inv, Types
<1>2. conf[n].blocks \in Seq(Locations)
  BY <1>1 DEF Confs
<1> QED
  BY <1>1, <1>2 DEF BlocksAreDeclared, DefaultIsTheLast

\* A route is the location of the declaration an operator expects.
LEMMA RouteIsDeclared ==
  ASSUME Inv, NEW n \in Servers, NEW id \in UnitIds
  PROVE  \/ FirstDeclared(n, id) = 0 /\ Route(conf[n], id) = NULL
         \/ /\ FirstDeclared(n, id) \in DOMAIN declared[n]
            /\ Route(conf[n], id) = Location(declared[n][FirstDeclared(n, id)])
<1> DEFINE bs == conf[n].blocks
           ds == declared[n]
           own == {i \in DOMAIN ds : ds[i].id = id \/ (id = 0 /\ ds[i].id = DefaultArg)}
           dflt == {i \in DOMAIN ds : ds[i].id \in {DefaultArg, 0}}
<1>1. /\ bs \in Seq(Locations) /\ ds \in Seq(BlockArgs) /\ DOMAIN bs = DOMAIN ds
      /\ \A i \in DOMAIN ds : bs[i] = Location(ds[i])
      /\ LastDefault(conf[n].default_location, ds)
  BY ServerOfInv
<1>2. FirstDeclared(n, id) =
        IF own # {} THEN CHOOSE i \in own : \A j \in own : i <= j
        ELSE IF dflt # {} THEN CHOOSE i \in dflt : \A j \in dflt : j <= i
        ELSE 0
  BY DEF FirstDeclared
<1>3. own \subseteq Nat /\ dflt \subseteq Nat
  BY <1>1
<1>4. own = {i \in DOMAIN bs : bs[i].slave_id = id}
  <2>1. id # DefaultArg
    BY DEF UnitIds, DefaultArg
  <2>2. \A i \in DOMAIN ds : Location(ds[i]).slave_id = id
          <=> (ds[i].id = id \/ (id = 0 /\ ds[i].id = DefaultArg))
    BY <2>1 DEF Location
  <2> QED
    BY <1>1, <2>2
<1>5. dflt = {i \in DOMAIN ds : IsDefault(ds[i])} /\ own \cup dflt \subseteq DOMAIN ds
  BY DEF IsDefault
<1> HIDE DEF own, dflt
<1>6. CASE own # {}
  <2>1. PICK i : IsFirst(bs, id, i)
    BY <1>1, <1>4, <1>6, FirstExists
  <2>2. Route(conf[n], id) = bs[i] /\ i \in DOMAIN ds
    <3>1. FindLocation(bs, conf[n].default_location, id) = bs[i]
      BY <1>1, <2>1, FirstIsFound
    <3>2. i \in DOMAIN bs
      BY <2>1 DEF IsFirst
    <3> QED
      BY <1>1, <3>1, <3>2 DEF Route
  <2>3. i \in own /\ \A j \in own : i <= j
    BY <1>4, <2>1 DEF IsFirst
  <2>4. FirstDeclared(n, id) = i
    <3> DEFINE c == CHOOSE k \in own : \A j \in own : k <= j
    <3>1. c \in own /\ \A j \in own : c <= j
      BY <2>3
    <3> HIDE DEF c
    <3>2. c = i
      BY <1>3, <2>3, <3>1
    <3> USE DEF c
    <3> QED
      BY <1>2, <1>6, <3>2
  <2> QED
    BY <1>1, <2>2, <2>4
<1>7. CASE own = {}
  <2>1. Route(conf[n], id) = conf[n].default_location
    BY <1>4, <1>7, DefaultIsFound DEF Route
  <2>2. CASE dflt = {}
    <3>1. conf[n].default_location = NULL
      BY <1>1, <1>5, <2>2 DEF LastDefault
    <3> QED
      BY <1>2, <1>7, <2>1, <2>2, <3>1
  <2>3. CASE dflt # {}
    <3>1. PICK i \in DOMAIN ds : /\ IsDefault(ds[i])
                                 /\ \A j \in DOMAIN ds : IsDefault(ds[j]) => j <= i
                                 /\ conf[n].default_location = Location(ds[i])
      BY <1>1, <1>5, <2>3 DEF LastDefault
    <3>2. i \in dflt /\ \A j \in dflt : j <= i
      BY <1>5, <3>1
    <3> DEFINE c == CHOOSE k \in dflt : \A j \in dflt : j <= k
    <3>3. c \in dflt /\ \A j \in dflt : j <= c
      BY <3>2
    <3> HIDE DEF c
    <3>4. c = i
      BY <1>3, <3>2, <3>3
    <3> USE DEF c
    <3> QED
      BY <1>2, <1>7, <2>1, <2>3, <3>1, <3>4
  <2> QED
    BY <2>2, <2>3
<1> QED
  BY <1>6, <1>7

\* A conf with these values gives libmodbus a line it knows, at the parity declared.
LEMMA DrivenLine ==
  ASSUME NEW c, c.serial = "device", c.line["baud"] \in Nat \ {0},
         c.line["data_bits"] \in {7, 8}, c.line["stop_bits"] \in {1, 2},
         c.line["parity"] \in {"none", "even", "odd"},
         c.line["response_timeout"] \in Nat
  PROVE  /\ RtuOpen(c) \in SerialLines
         /\ c.line["parity"] \in DOMAIN ParityLetter
         /\ RtuOpen(c).parity = ParityLetter[c.line["parity"]]
  BY DEF RtuOpen, SerialLines, ParityLetter

\* What the merge has completed and not refused, libmodbus can be told to drive,
\* if it takes the rate.
LEMMA OpenableLine ==
  ASSUME NEW c \in Confs, IsComplete(c), ~MergeError(c), c.serial # ""
  PROVE  /\ RtuOpen(Rated(c)) \in SerialLines
         /\ Rated(c).line["parity"] \in DOMAIN ParityLetter
         /\ RtuOpen(Rated(c)).parity = ParityLetter[Rated(c).line["parity"]]
<1> DEFINE rate == c.line["baud"]
           time == c.line["response_timeout"]
           r == Rated(c)
<1>1. \A name \in LineNames : /\ c.line[name] \in LineSettings(name)
                              /\ c.line[name] # UNSET
  BY DEF Confs, Lines, IsComplete
<1>2. rate \in Nat /\ time \in Nat
  <2>1. LineValues["baud"] \subseteq Nat /\ LineValues["response_timeout"] \subseteq Nat
    BY ConfigAssumption DEF LineNames
  <2>2. /\ rate \in {LineDefaults["baud"]} \cup LineValues["baud"]
        /\ time \in {LineDefaults["response_timeout"]} \cup LineValues["response_timeout"]
    BY <1>1 DEF LineSettings, LineNames
  <2> QED
    BY <2>1, <2>2, DefaultTypes DEF LineNames
<1>3. /\ c.line["data_bits"] \in {7, 8} /\ c.line["stop_bits"] \in {1, 2}
      /\ c.line["parity"] \in {"none", "even", "odd"}
  BY DEF MergeError
<1>4. c.serial = "device"
  BY DEF Confs, IsComplete
<1>5. /\ r.serial = "device"
      /\ r.line["baud"] \in Nat \ {0}
      /\ r.line["data_bits"] \in {7, 8} /\ r.line["stop_bits"] \in {1, 2}
      /\ r.line["parity"] \in {"none", "even", "odd"}
      /\ r.line["response_timeout"] \in Nat
  <2>1. c.line = [name \in LineNames |-> c.line[name]] /\ "line" \in DOMAIN c
    BY DEF Confs, Lines
  <2>2. r.line = [c.line EXCEPT !["baud"] = IF @ = 0 THEN LineDefaults["baud"] ELSE @]
    BY <2>1 DEF Rated
  <2>3. r.serial = c.serial
    BY DEF Rated, Confs
  <2>4. \A name \in LineNames \ {"baud"} : r.line[name] = c.line[name]
    BY <2>1, <2>2
  <2>5. r.line["baud"] = IF rate = 0 THEN LineDefaults["baud"] ELSE rate
    BY <2>1, <2>2 DEF LineNames
  <2>6. LineDefaults["baud"] \in Nat \ {0}
    BY DefaultTypes DEF LineNames
  <2> QED
    BY <1>2, <1>3, <1>4, <2>3, <2>4, <2>5, <2>6 DEF LineNames
<1> QED
  BY <1>5, DrivenLine

\* The declaration behind a route is an rtu block only where rtu is built in and
\* the merge has found a serial device and a valid format.
LEMMA RouteIsServable ==
  ASSUME Inv, stage = "loaded", NEW n \in Servers, NEW id \in Units,
         Route(conf[n], id) # NULL
  PROVE  Servable(Route(conf[n], id), Rated(conf[n]))
<1>1. id \in UnitIds
  BY ConfigAssumption
<1>2. PICK i \in DOMAIN declared[n] : Route(conf[n], id) = Location(declared[n][i])
  BY <1>1, RouteIsDeclared
<1> DEFINE b == declared[n][i]
<1>3. /\ conf[n].blocks[i] = Location(b) /\ i \in DOMAIN conf[n].blocks
      /\ ~BlockError(b)
  BY <1>2, ServerOfInv
<1>4. conf[n] \in Confs /\ ~MergeError(conf[n]) /\ IsComplete(conf[n])
  BY DEF Inv, Types, IsMerged
<1>5. /\ Route(conf[n], id).mode = b.mode
      /\ Route(conf[n], id).host = b.host
  BY <1>2 DEF Location
<1>6. conf[n].blocks[i].mode = b.mode
  BY <1>3 DEF Location
<1>7. CASE b.mode = "rtu"
  <2>1. conf[n].serial # ""
    BY <1>3, <1>4, <1>6, <1>7 DEF MergeError
  <2> QED
    BY <1>3, <1>4, <1>5, <1>7, <2>1, OpenableLine DEF BlockError, Servable
<1> QED
  BY <1>3, <1>5, <1>7 DEF BlockError, Servable

\* Every route of a loaded file can be served, but for a rate of 0 on its line.
THEOREM RoutesLackRatesOnly == Spec => []OnlyRatesGoUnchecked
<1>1. Inv => OnlyRatesGoUnchecked
  BY RouteIsServable DEF OnlyRatesGoUnchecked
<1> QED
  BY <1>1, ConfigInvariance, PTL

\* Where no rate is 0, every route of a loaded file can be served.
THEOREM RoutesAreServable ==
  ASSUME 0 \notin LineValues["baud"]
  PROVE  Spec => []LoadedRoutesAreServable
<1>1. ASSUME Inv, stage = "loaded", NEW n \in Servers
      PROVE  Rated(conf[n]) = conf[n]
  <2>1. conf[n] \in Confs /\ IsComplete(conf[n])
    BY <1>1 DEF Inv, Types, IsMerged
  <2>2. conf[n].line["baud"] # 0
    <3>1. conf[n].line["baud"] \in {LineDefaults["baud"]} \cup LineValues["baud"]
      BY <2>1 DEF Confs, Lines, IsComplete, LineSettings, LineNames
    <3>2. LineDefaults["baud"] # 0
      BY DEF LineDefaults
    <3> QED
      BY <3>1, <3>2
  <2> QED
    BY <2>1, <2>2 DEF Rated, Confs, Lines
<1>2. Inv => LoadedRoutesAreServable
  BY <1>1, RouteIsServable DEF LoadedRoutesAreServable
<1> QED
  BY <1>2, ConfigInvariance, PTL

\* A route denies what the declaration behind it lists, at any time of the
\* parsing: what an operator reads in the file is what is enforced.
THEOREM DenialsAreDeclared == Spec => []DenialIsAsDeclared
<1>1. ASSUME Inv PROVE DenialIsAsDeclared
  <2> SUFFICES ASSUME NEW n \in Servers, NEW id \in Units, NEW t \in DOMAIN OpCode
               PROVE  LET i == FirstDeclared(n, id)
                          loc == Route(conf[n], id)
                      IN /\ (i = 0) <=> (loc = NULL)
                         /\ i # 0 => /\ loc.mode = declared[n][i].mode
                                     /\ Denies(loc, OpCode[t]) <=> t \in declared[n][i].ops
                                     /\ Denies(loc, OpCode[t] + 128)
                                          <=> t \in declared[n][i].ops
    BY DEF DenialIsAsDeclared
  <2>1. id \in UnitIds
    BY ConfigAssumption
  <2> DEFINE i == FirstDeclared(n, id)
             b == declared[n][i]
  <2>2. CASE i = 0 /\ Route(conf[n], id) = NULL
    BY <2>2
  <2>3. CASE i \in DOMAIN declared[n] /\ Route(conf[n], id) = Location(b)
    <3>1. declared[n] \in Seq(BlockArgs) /\ ~BlockError(b)
      BY <1>1, <2>3, ServerOfInv
    <3>2. b \in BlockArgs /\ i # 0
      BY <2>3, <3>1
    <3>3. b.ops \in SUBSET DOMAIN OpCode
      BY <3>2, ConfigAssumption
    <3> HIDE DEF b, i
    <3>4. Location(b) # NULL
      BY <3>1, <3>2, LocationType, NullAssumption
    <3>5. Location(b).mode = b.mode
      BY DEF Location
    <3>6. /\ Denies(Location(b), OpCode[t]) <=> t \in b.ops
          /\ Denies(Location(b), OpCode[t] + 128) <=> t \in b.ops
      BY <3>3, DeniesWhatIsListed
    <3> QED
      BY <2>3, <3>2, <3>4, <3>5, <3>6 DEF b, i
  <2> QED
    BY <1>1, <2>1, <2>2, <2>3, RouteIsDeclared
<1> QED
  BY <1>1, ConfigInvariance, PTL

\* Blocks are only appended, and merging keeps them: the first block of a unit
\* stays the first, whatever becomes of the default.
THEOREM RoutesStay == Spec => RoutesAreStable
<1> DEFINE Stable == \A n \in Servers, id \in Units :
              (\E i \in DOMAIN conf[n].blocks : conf[n].blocks[i].slave_id = id)
                => Route(conf'[n], id) = Route(conf[n], id)
<1>1. ASSUME Inv, [Next]_vars
      PROVE  [Stable]_vars
  <2> SUFFICES ASSUME NEW n \in Servers, NEW id \in Units,
                      \E i \in DOMAIN conf[n].blocks : conf[n].blocks[i].slave_id = id
               PROVE  Route(conf'[n], id) = Route(conf[n], id)
    OBVIOUS
  <2> DEFINE bs == conf[n].blocks
  <2>1. /\ bs \in Seq(Locations) /\ conf \in [Servers -> Confs]
        /\ conf[n] \in Confs /\ bs # <<>> /\ server \in Servers
    BY <1>1, ServerOfInv DEF Inv, Types
  <2>2. CASE conf'[n].blocks = bs
    <3>1. PICK i : IsFirst(bs, id, i)
      BY <2>1, FirstExists
    <3> QED
      BY <2>1, <2>2, <3>1, FirstIsFound DEF Route
  <2>3. ASSUME NEW b \in BlockArgs, Block(b), ~BlockError(b), n = server
        PROVE  Route(conf'[n], id) = Route(conf[n], id)
    <3>1. conf'[n].blocks = Append(bs, Location(b))
      BY <2>1, <2>3 DEF Block, Confs
    <3>2. Location(b) \in Locations
      BY <2>3, LocationType
    <3> QED
      BY <2>1, <3>1, <3>2, AppendedBlocks DEF Route
  <2>4. CASE \/ \E path \in {"device", ""} : Serial(path)
             \/ \E name \in LineNames : \E value \in LineValues[name] : LineParam(name, value)
             \/ EndServer
             \/ UNCHANGED vars
    <3>1. ASSUME NEW c, c.blocks = conf[server].blocks, conf' = [conf EXCEPT ![server] = c]
          PROVE  conf'[n].blocks = bs
      BY <2>1, <3>1
    <3>2. ASSUME NEW path, Serial(path), conf' # conf
          PROVE  conf'[n].blocks = bs
      <4>1. conf' = [conf EXCEPT ![server] = [conf[server] EXCEPT !.serial = path]]
        BY <3>2 DEF Serial, Reject
      <4>2. [conf[server] EXCEPT !.serial = path].blocks = conf[server].blocks
        BY <2>1 DEF Confs
      <4> QED
        BY <3>1, <4>1, <4>2
    <3>3. ASSUME NEW name, NEW value, LineParam(name, value), conf' # conf
          PROVE  conf'[n].blocks = bs
      <4> DEFINE l == [conf[server].line EXCEPT ![name] = value]
      <4>1. conf' = [conf EXCEPT ![server] = [conf[server] EXCEPT !.line = l]]
        BY <2>1, <3>3 DEF LineParam, Reject, Confs
      <4> HIDE DEF l
      <4>2. [conf[server] EXCEPT !.line = l].blocks = conf[server].blocks
        BY <2>1 DEF Confs
      <4> QED
        BY <3>1, <4>1, <4>2
    <3>4. conf'[n].blocks = bs
      BY <2>4, <3>2, <3>3 DEF EndServer, vars
    <3> QED
      BY <2>2, <3>4
  <2>5. CASE Merge
    <3>1. conf'[n] \in {conf[n], Merged(CreateSrvConf, conf[n])}
      BY <2>1, <2>5 DEF Merge, Reject
    <3>2. conf'[n].blocks = bs
      BY <2>1, <3>1, MergedConf
    <3> QED
      BY <2>2, <3>2
  <2>6. ASSUME NEW b \in BlockArgs, Block(b), BlockError(b) \/ n # server
        PROVE  conf'[n].blocks = bs
    BY <2>1, <2>6 DEF Block, Reject
  <2>7. CASE \E b \in BlockArgs : Block(b)
    BY <2>2, <2>3, <2>6, <2>7
  <2> QED
    BY <1>1, <2>4, <2>5, <2>7 DEF Next
<1> QED
  BY <1>1, ConfigInvariance, PTL DEF Spec, RoutesAreStable
=============================================================================
