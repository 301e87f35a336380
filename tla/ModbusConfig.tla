---------------------------- MODULE ModbusConfig ----------------------------
(***************************************************************************)
(* The configuration of the Modbus gateway, as nginx builds it: the        *)
(* servers are parsed one after the other, directive by directive; then    *)
(* the module's merge function completes and validates each of them.       *)
(*                                                                         *)
(* conf[n] is server n's ngx_stream_modbus_proxy_srv_conf_t.  UNSET is the *)
(* value a setter finds before the directive was seen.  declared[n] keeps, *)
(* for the properties only, the arguments of the blocks server n accepted. *)
(***************************************************************************)
EXTENDS ModbusLocations

CONSTANTS NServers,     \* servers of the configuration file
          MaxBlocks,    \* bound: modbus blocks per server
          BlockArgs,    \* the arguments of a "modbus" block, with its body
          LineValues,   \* the values each line directive may be given
          Units,        \* unit ids whose routes the properties compare
          RtuBuilt      \* NGX_STREAM_MODBUS_RTU: built with libmodbus

DefaultArg == -1   \* the argument "default"

\* The directives of the serial line, of which an operator may give any.
LineNames == {"baud", "data_bits", "parity", "stop_bits", "response_timeout"}

\* The words a parity may be; "evens" stands for one that only starts like even.
Parities == {"none", "even", "odd", "evens", "other"}

ASSUME ConfigAssumption ==
  /\ NServers \in Nat \ {0} /\ MaxBlocks \in Nat
  /\ BlockArgs \subseteq [id : Nat \cup {DefaultArg}, mode : {"tcp", "rtu", "other"},
                         host : BOOLEAN, timeout : BOOLEAN,
                         ops : SUBSET DOMAIN OpCode]
  /\ NULL \notin Nat \cup Parities \cup {"device", ""}
  /\ DOMAIN LineValues = LineNames
  /\ LineValues["parity"] \subseteq Parities
  /\ \A name \in LineNames \ {"parity"} : LineValues[name] \subseteq Nat
  /\ Units \subseteq UnitIds
  /\ RtuBuilt \in BOOLEAN

UNSET == NULL

VARIABLES conf,      \* the srv_conf of every server
          declared,  \* history: the blocks each server declared
          server,    \* the server being parsed or merged
          stage      \* "parsing", "merging", "loaded" or "rejected"

vars == <<conf, declared, server, stage>>

Servers == 1..NServers

\* ngx_stream_modbus_proxy_create_srv_conf, also of the enclosing stream{} level.
CreateSrvConf ==
  [blocks |-> <<>>, default_location |-> NULL, serial |-> UNSET,
   line |-> [name \in LineNames |-> UNSET]]

Init ==
  /\ conf = [n \in Servers |-> CreateSrvConf]
  /\ declared = [n \in Servers |-> <<>>]
  /\ server = 1
  /\ stage = "parsing"

Reject ==
  /\ stage' = "rejected"
  /\ UNCHANGED <<conf, declared, server>>

\* ngx_conf_set_str_slot: any path, also an empty one; a second is "is duplicate".
Serial(path) ==
  /\ stage = "parsing"
  /\ IF conf[server].serial # UNSET
     THEN Reject
     ELSE /\ conf' = [conf EXCEPT ![server].serial = path]
          /\ UNCHANGED <<declared, server, stage>>

\* The setters of the line directives store any value, each of them once.
LineParam(name, value) ==
  /\ stage = "parsing"
  /\ IF conf[server].line[name] # UNSET
     THEN Reject
     ELSE /\ conf' = [conf EXCEPT ![server].line[name] = value]
          /\ UNCHANGED <<declared, server, stage>>

\* Mutant: a unit id is not limited to one byte.
MutBlockErrorNoRange(b) ==
  \/ b.mode \notin {"tcp", "rtu"}
  \/ b.mode = "rtu" /\ ~RtuBuilt
  \/ b.mode # "rtu" /\ ~b.host

BlockError(b) ==
  \/ b.id # DefaultArg /\ b.id > 255
  \/ b.mode \notin {"tcp", "rtu"}
  \/ b.mode = "rtu" /\ ~RtuBuilt
  \/ b.mode # "rtu" /\ ~b.host

Location(b) ==
  [slave_id |-> IF b.id = DefaultArg THEN 0 ELSE b.id, mode |-> b.mode,
   host |-> b.host, timeout |-> b.timeout, deny_ops |-> DenyMask(b.ops)]

\* ngx_stream_modbus_proxy_block: modbus <id> <mode> { host; timeout; deny_ops }
Block(b) ==
  /\ stage = "parsing"
  /\ Len(conf[server].blocks) < MaxBlocks
  /\ IF BlockError(b)
     THEN Reject
     ELSE /\ conf' = [conf EXCEPT
                 ![server].blocks = Append(@, Location(b)),
                 ![server].default_location =
                     IF Location(b).slave_id = 0 THEN Location(b) ELSE @]
          /\ declared' = [declared EXCEPT ![server] = Append(@, b)]
          /\ UNCHANGED <<server, stage>>

\* The closing brace of a server; after the last one the merging starts.
EndServer ==
  /\ stage = "parsing"
  /\ server' = IF server < NServers THEN server + 1 ELSE 1
  /\ stage' = IF server < NServers THEN "parsing" ELSE "merging"
  /\ UNCHANGED <<conf, declared>>
-----------------------------------------------------------------------------
(* ngx_stream_modbus_proxy_merge_srv_conf(prev, conf).  prev is the conf of *)
(* the stream{} level: "modbus" is only allowed inside a server, so prev    *)
(* is always as CreateSrvConf left it.                                      *)

LineDefaults == [baud |-> 9600, data_bits |-> 8, parity |-> "none", stop_bits |-> 1,
                 response_timeout |-> 1000]

\* ngx_conf_merge_*_value: the own value, else the inherited one, else the default.
Setting(own, inherited, default) ==
  IF own # UNSET THEN own ELSE IF inherited # UNSET THEN inherited ELSE default

Merged(prev, c) ==
  [blocks |-> IF c.blocks = <<>> THEN prev.blocks ELSE c.blocks,
   default_location |-> IF c.blocks = <<>> THEN prev.default_location
                        ELSE c.default_location,
   serial |-> Setting(c.serial, prev.serial, ""),
   line |-> [name \in LineNames |->
               Setting(c.line[name], prev.line[name], LineDefaults[name])]]

\* Mutant: of the parity only the first letter is looked at.
MutMergeErrorFirstLetter(c) ==
  \/ c.line["data_bits"] \notin {7, 8}
  \/ c.line["stop_bits"] \notin {1, 2}
  \/ c.line["parity"] \notin Parities \ {"other"}
  \/ c.serial = "" /\ \E i \in DOMAIN c.blocks : c.blocks[i].mode = "rtu"

\* The merge validates every line value but baud and response_timeout.
MergeError(c) ==
  \/ c.line["data_bits"] \notin {7, 8}
  \/ c.line["stop_bits"] \notin {1, 2}
  \/ c.line["parity"] \notin {"none", "even", "odd"}
  \/ c.serial = "" /\ \E i \in DOMAIN c.blocks : c.blocks[i].mode = "rtu"

Merge ==
  /\ stage = "merging"
  /\ LET c == Merged(CreateSrvConf, conf[server])
     IN IF MergeError(c)
        THEN Reject
        ELSE /\ conf' = [conf EXCEPT ![server] = c]
             /\ server' = IF server < NServers THEN server + 1 ELSE 1
             /\ stage' = IF server < NServers THEN "merging" ELSE "loaded"
             /\ UNCHANGED declared

Next ==
  \/ \E path \in {"device", ""} : Serial(path)
  \/ \E name \in LineNames : \E value \in LineValues[name] : LineParam(name, value)
  \/ \E b \in BlockArgs : Block(b)
  \/ EndServer
  \/ Merge

Spec == Init /\ [][Next]_vars
-----------------------------------------------------------------------------
(* What the worker makes of a loaded conf when the first rtu request arrives. *)

\* ngx_stream_modbus_rtu_open: the line that libmodbus is told to drive, the
\* first letter of the parity standing for it.  NULL is the return in line 583:
\* modbus_new_rtu refuses an empty device and a rate of 0.  Rates are such that
\* the cast to int keeps them.  That the device may then fail to connect is the
\* environment of ModbusRtu.
RtuOpen(c) ==
  IF c.serial = "" \/ c.line["baud"] = 0 THEN NULL
  ELSE [serial |-> c.serial, baud |-> c.line["baud"],
        parity |-> CASE c.line["parity"] \in {"even", "evens"} -> "E"
                     [] c.line["parity"] = "odd" -> "O"
                     [] OTHER -> "N",
        data_bits |-> c.line["data_bits"], stop_bits |-> c.line["stop_bits"],
        response_timeout |-> c.line["response_timeout"]]

Route(c, id) == FindLocation(c.blocks, c.default_location, id)

TypeOK ==
  /\ \A n \in Servers :
       /\ \A i \in DOMAIN conf[n].blocks : conf[n].blocks[i] \in Locations
       /\ conf[n].default_location \in Locations \cup {NULL}
       /\ conf[n].serial \in {UNSET, "device", ""}
       /\ \A name \in LineNames :
            conf[n].line[name] \in {UNSET, LineDefaults[name]} \cup LineValues[name]
       /\ Len(declared[n]) <= MaxBlocks
  /\ server \in Servers
  /\ stage \in {"parsing", "merging", "loaded", "rejected"}

\* The formats of a serial line, and the letter libmodbus knows each parity by.
ParityLetter == [none |-> "N", even |-> "E", odd |-> "O"]
SerialLines == [serial : {"device"}, baud : Nat \ {0}, parity : {"N", "E", "O"},
                data_bits : {7, 8}, stop_bits : {1, 2}, response_timeout : Nat]

\* A server with conf c can serve what is routed to loc: a tcp block has a host,
\* an rtu block was built in and libmodbus can open the line, at a valid format
\* and with the parity the file asks for.
Servable(loc, c) ==
  \/ loc.mode = "tcp" /\ loc.host
  \/ /\ loc.mode = "rtu" /\ RtuBuilt
     /\ RtuOpen(c) \in SerialLines
     /\ c.line["parity"] \in DOMAIN ParityLetter
     /\ RtuOpen(c).parity = ParityLetter[c.line["parity"]]

\* The module's README, "Invalid values are rejected at nginx -t": once nginx has
\* loaded the file, whatever unit id a request names, it can be served.
LoadedRoutesAreServable ==
  stage = "loaded" =>
    \A n \in Servers, id \in Units :
      Route(conf[n], id) # NULL => Servable(Route(conf[n], id), conf[n])

\* The conf with the default rate in place of one of 0.
Rated(c) == [c EXCEPT !.line["baud"] = IF @ = 0 THEN LineDefaults["baud"] ELSE @]

\* A rate of 0 is all that keeps a route of a loaded file from being servable.
\* The host is checked when a block is parsed, the device when every block is
\* known, the format after the defaults are filled in, and the default is a
\* second copy of its block; the runtime relies on all of it.
OnlyRatesGoUnchecked ==
  stage = "loaded" =>
    \A n \in Servers, id \in Units :
      Route(conf[n], id) # NULL => Servable(Route(conf[n], id), Rated(conf[n]))

\* The declaration an operator expects to serve a unit: the first of its own, or
\* else the last default; 0 if there is none.
FirstDeclared(n, id) ==
  LET own  == {i \in DOMAIN declared[n] :
                 \/ declared[n][i].id = id
                 \/ id = 0 /\ declared[n][i].id = DefaultArg}
      dflt == {i \in DOMAIN declared[n] : declared[n][i].id \in {DefaultArg, 0}}
  IN IF own # {} THEN CHOOSE i \in own : \A j \in own : i <= j
     ELSE IF dflt # {} THEN CHOOSE i \in dflt : \A j \in dflt : j <= i
     ELSE 0

\* What an operator reads in the file is what is enforced: a function code that
\* has a token is denied for a unit, with or without the exception bit, exactly
\* if the first block declared for the unit (or the last default) lists it.
DenialIsAsDeclared ==
  \A n \in Servers, id \in Units, t \in DOMAIN OpCode :
    LET i == FirstDeclared(n, id)
        loc == Route(conf[n], id)
    IN /\ (i = 0) <=> (loc = NULL)
       /\ i # 0 => /\ loc.mode = declared[n][i].mode
                   /\ Denies(loc, OpCode[t]) <=> t \in declared[n][i].ops
                   /\ Denies(loc, OpCode[t] + 128) <=> t \in declared[n][i].ops

\* A block added later never takes a unit id over from a block that already
\* serves it, and neither does merging: routes of declared ids are stable.
RoutesAreStable ==
  [][\A n \in Servers, id \in Units :
       (\E i \in DOMAIN conf[n].blocks : conf[n].blocks[i].slave_id = id)
         => Route(conf'[n], id) = Route(conf[n], id)]_vars
=============================================================================
