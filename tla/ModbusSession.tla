---------------------------- MODULE ModbusSession ----------------------------
(***************************************************************************)
(* The tcp path of ngx_stream_modbus_proxy_module: the preread handler     *)
(* chooses a backend and arms the session timer, nginx's stream proxy      *)
(* evaluates $proxy_pass, resolves and connects, and the timer, the proxy  *)
(* and the client end the session in any order.                            *)
(*                                                                         *)
(* Handlers of a worker do not block on this path, so each is one action.  *)
(* The timer event is allocated from the connection's pool; a pool cleanup *)
(* takes it out of the event tree.  A session is closed when its pool is   *)
(* destroyed.  The proxy is modelled from nginx 1.25: its own timeouts end *)
(* a session at any time it has an upstream connection.                    *)
(***************************************************************************)
EXTENDS ModbusLocations

CONSTANTS Sessions,
          Blocks, Default,   \* the server's locations
          Requests,          \* [unit, fc] of the first request of a client
          Named,             \* units whose host is a name to be resolved
          Limited            \* sessions of a server with proxy_upload_rate

ASSUME SessionAssumption ==
  /\ Blocks \in Seq(Locations)
  /\ Default \in Locations \cup {NULL}
  /\ Requests \subseteq [unit : UnitIds, fc : Octets]
  /\ Named \subseteq UnitIds

VARIABLES
  request,   \* the first request of each client
  header,    \* how much of it was written: 0, 1 (less than 8 bytes) or 2
  open,      \* the client has not closed
  unread,    \* bytes in the socket since nginx last read it
  phase,     \* "preread", "content" (proxy), "bridge" (rtu) or "closed"
  loc_conf,  \* ctx->loc_conf, NULL while there is no ctx
  armed,     \* the session timer is in the event tree
  resolver,  \* u->resolved->ctx: a query with data = s is under way
  upstream,  \* u->peer.connection: "none", "connecting" or "connected"
  delayed,   \* c->read->delayed: the proxy paces its reading
  rtimer     \* the timer of c->read

clientVars == <<request, header, open>>
proxyVars == <<resolver, upstream>>
vars == <<clientVars, unread, phase, loc_conf, armed, proxyVars, delayed, rtimer>>

Init ==
  /\ request \in [Sessions -> Requests]
  /\ header = [s \in Sessions |-> 0]
  /\ open = [s \in Sessions |-> TRUE]
  /\ unread = [s \in Sessions |-> FALSE]
  /\ phase = [s \in Sessions |-> "preread"]
  /\ loc_conf = [s \in Sessions |-> NULL]
  /\ armed = [s \in Sessions |-> FALSE]
  /\ resolver = [s \in Sessions |-> FALSE]
  /\ upstream = [s \in Sessions |-> "none"]
  /\ delayed = [s \in Sessions |-> FALSE]
  /\ rtimer = [s \in Sessions |-> FALSE]
-----------------------------------------------------------------------------
(* Ends of a session.                                                       *)

\* Mutant: the cleanup handler is not registered.
MutAfterCleanup(s) == armed

\* ngx_stream_modbus_proxy_cleanup_timer, which runs when the pool is destroyed.
AfterCleanup(s) == [armed EXCEPT ![s] = FALSE]

\* ngx_stream_finalize_session: the connection is closed, its events are taken
\* out of the tree, and its pool, with the ctx, is destroyed.  It knows nothing
\* of the proxy.
CloseSession(s) ==
  /\ phase' = [phase EXCEPT ![s] = "closed"]
  /\ loc_conf' = [loc_conf EXCEPT ![s] = NULL]
  /\ armed' = AfterCleanup(s)
  /\ unread' = [unread EXCEPT ![s] = FALSE]
  /\ delayed' = [delayed EXCEPT ![s] = FALSE]
  /\ rtimer' = [rtimer EXCEPT ![s] = FALSE]
  /\ UNCHANGED clientVars

\* ngx_stream_proxy_finalize: first the query and the upstream connection.
ProxyFinalize(s) ==
  /\ resolver' = [resolver EXCEPT ![s] = FALSE]
  /\ upstream' = [upstream EXCEPT ![s] = "none"]
  /\ CloseSession(s)
-----------------------------------------------------------------------------
(* The client.                                                              *)

ClientWrites(s) ==
  /\ open[s] /\ phase[s] # "closed"
  /\ \/ /\ header[s] < 2 /\ \E n \in header[s] + 1..2 : header' = [header EXCEPT ![s] = n]
     \/ /\ header[s] = 2 /\ UNCHANGED header
  /\ unread' = [unread EXCEPT ![s] = TRUE]
  /\ UNCHANGED <<request, open, phase, loc_conf, armed, proxyVars, delayed, rtimer>>

ClientCloses(s) ==
  /\ open[s] /\ phase[s] # "closed"
  /\ open' = [open EXCEPT ![s] = FALSE]
  /\ unread' = [unread EXCEPT ![s] = TRUE]
  /\ UNCHANGED <<request, header, phase, loc_conf, armed, proxyVars, delayed, rtimer>>
-----------------------------------------------------------------------------
(* The preread phase.                                                       *)

\* Mutant: the unit id's byte is there, the function code's not yet.
MutHeaderComplete(s) == header[s] >= 1

\* At least 8 bytes, up to the function code, are in the preread buffer.
HeaderComplete(s) == header[s] = 2

\* The location and the function code the preread handler reads; the byte of a
\* function code that has not arrived is whatever the buffer held.
Located(s) == FindLocation(Blocks, Default, request[s].unit)
FunctionCodes(s) == IF header[s] = 2 THEN {request[s].fc} ELSE {0}

\* $modbus_backend: the host of the chosen block, named by its unit.
Backend(loc) == IF loc = NULL \/ ~loc.host THEN NULL ELSE loc.slave_id

\* Mutant: the timer is armed before the location's timeout is looked at.
MutTimed(loc) == TRUE

\* The session timer is armed if the block has a timeout.
Timed(loc) == loc.timeout

\* The preread handler on its first 8 bytes for a tcp location: it sets the ctx
\* and arms the timer.  The proxy then evaluates $proxy_pass and starts a query or
\* connects; connecting may fail at once.
Proxy(s, loc) ==
  \/ /\ phase' = [phase EXCEPT ![s] = "content"]
     /\ loc_conf' = [loc_conf EXCEPT ![s] = loc]
     /\ armed' = IF Timed(loc) THEN [armed EXCEPT ![s] = TRUE] ELSE armed
     /\ IF Backend(loc) \in Named
        THEN resolver' = [resolver EXCEPT ![s] = TRUE] /\ UNCHANGED upstream
        ELSE upstream' = [upstream EXCEPT ![s] = "connecting"] /\ UNCHANGED resolver
     /\ unread' = [unread EXCEPT ![s] = FALSE]
     /\ rtimer' = [rtimer EXCEPT ![s] = FALSE]
     /\ UNCHANGED <<clientVars, delayed>>
  \/ CloseSession(s) /\ UNCHANGED proxyVars

\* One read event: nginx reads what is there and calls the handler, which waits
\* (NGX_AGAIN, with preread_timeout), closes the session, takes it over for the
\* serial line, or leaves it to the proxy.  A client that closes early is dropped.
Preread(s) ==
  /\ phase[s] = "preread" /\ unread[s]
  /\ \/ /\ ~HeaderComplete(s) /\ open[s]
        /\ unread' = [unread EXCEPT ![s] = FALSE]
        /\ rtimer' = [rtimer EXCEPT ![s] = TRUE]
        /\ UNCHANGED <<clientVars, phase, loc_conf, armed, proxyVars, delayed>>
     \/ /\ ~HeaderComplete(s) /\ ~open[s]
        /\ CloseSession(s) /\ UNCHANGED proxyVars
     \/ /\ HeaderComplete(s)
        /\ \E fc \in FunctionCodes(s) :
             \/ /\ Verdict(Located(s), fc) = "close"
                /\ CloseSession(s) /\ UNCHANGED proxyVars
             \/ /\ Verdict(Located(s), fc) = "bridge"
                /\ phase' = [phase EXCEPT ![s] = "bridge"]
                /\ rtimer' = [rtimer EXCEPT ![s] = FALSE]
                /\ UNCHANGED <<clientVars, unread, loc_conf, armed, proxyVars, delayed>>
             \/ /\ Verdict(Located(s), fc) = "proxy"
                /\ Proxy(s, Located(s))

\* preread_timeout.
PrereadTimeout(s) ==
  /\ phase[s] = "preread" /\ rtimer[s]
  /\ CloseSession(s) /\ UNCHANGED proxyVars
-----------------------------------------------------------------------------
(* The proxy.                                                               *)

\* The resolver's answer: connect, or give up.
Resolved(s) ==
  /\ resolver[s] /\ phase[s] = "content"
  /\ \/ /\ resolver' = [resolver EXCEPT ![s] = FALSE]
        /\ upstream' = [upstream EXCEPT ![s] = "connecting"]
        /\ UNCHANGED <<clientVars, unread, phase, loc_conf, armed, delayed, rtimer>>
     \/ ProxyFinalize(s)

\* The backend accepts, or refuses until no address is left.
Connected(s) ==
  /\ upstream[s] = "connecting"
  /\ \/ /\ upstream' = [upstream EXCEPT ![s] = "connected"]
        /\ UNCHANGED <<clientVars, unread, phase, loc_conf, armed, resolver, delayed, rtimer>>
     \/ ProxyFinalize(s)

\* ngx_stream_proxy_process for bytes of the client: they are read, and with
\* proxy_upload_rate the next read may be delayed.
Process(s) ==
  /\ unread' = [unread EXCEPT ![s] = FALSE]
  /\ \/ UNCHANGED <<delayed, rtimer>>
     \/ /\ s \in Limited
        /\ delayed' = [delayed EXCEPT ![s] = TRUE]
        /\ rtimer' = [rtimer EXCEPT ![s] = TRUE]

\* A read event of the client.
Forward(s) ==
  /\ phase[s] = "content" /\ unread[s] /\ ~delayed[s]
  /\ Process(s)
  /\ UNCHANGED <<clientVars, phase, loc_conf, armed, proxyVars>>

\* One of the two sides has closed, or proxy_timeout has passed without traffic.
ProxyEnds(s) ==
  /\ upstream[s] = "connected"
  /\ ProxyFinalize(s)

\* ngx_stream_proxy_downstream_handler with c->read->timedout set: it takes this
\* for the end of a delay if the reading is delayed, and for a timeout if not.
\* ar and rt are the two timers without the event that fired.
TimedOut(s, ar, rt) ==
  \/ /\ delayed[s] /\ unread[s]
     /\ unread' = [unread EXCEPT ![s] = FALSE]
     /\ armed' = ar
     /\ \/ delayed' = [delayed EXCEPT ![s] = FALSE] /\ rtimer' = rt
        \/ rtimer' = [rtimer EXCEPT ![s] = TRUE] /\ UNCHANGED delayed
     /\ UNCHANGED <<clientVars, phase, loc_conf, proxyVars>>
  \/ /\ delayed[s] /\ ~unread[s]
     /\ delayed' = [delayed EXCEPT ![s] = FALSE]
     /\ armed' = ar /\ rtimer' = rt
     /\ UNCHANGED <<clientVars, unread, phase, loc_conf, proxyVars>>
  \/ ~delayed[s] /\ ProxyFinalize(s)

\* The timer of c->read fires: the delay is over, or, if the session timer has
\* already ended it, a timeout.
DelayEnds(s) ==
  /\ phase[s] = "content" /\ rtimer[s]
  /\ TimedOut(s, armed, [rtimer EXCEPT ![s] = FALSE])

\* Mutant: the event is not marked as timed out before its handler is called.
MutSessionTimeout(s) ==
  /\ armed[s] /\ phase[s] = "content"
  /\ IF upstream[s] # "none"
     THEN /\ armed' = [armed EXCEPT ![s] = FALSE]
          /\ Process(s)
          /\ UNCHANGED <<clientVars, phase, loc_conf, proxyVars>>
     ELSE CloseSession(s) /\ UNCHANGED proxyVars

\* ngx_stream_modbus_proxy_timeout_handler, once the event loop has taken the
\* event out of the tree.
SessionTimeout(s) ==
  /\ armed[s] /\ phase[s] = "content"
  /\ IF upstream[s] # "none"
     THEN TimedOut(s, [armed EXCEPT ![s] = FALSE], rtimer)
     ELSE CloseSession(s) /\ UNCHANGED proxyVars
-----------------------------------------------------------------------------
Next ==
  \E s \in Sessions :
    \/ ClientWrites(s) \/ ClientCloses(s)
    \/ Preread(s) \/ PrereadTimeout(s)
    \/ Resolved(s) \/ Connected(s) \/ Forward(s) \/ ProxyEnds(s)
    \/ DelayEnds(s) \/ SessionTimeout(s)

Spec == Init /\ [][Next]_vars

\* The event loop expires timers on every turn, whatever the sessions do.
Fairness == \A s \in Sessions : WF_vars(SessionTimeout(s)) /\ WF_vars(DelayEnds(s))

FairSpec == Spec /\ Fairness
-----------------------------------------------------------------------------
(* Properties.                                                              *)

\* Types; a ctx is there exactly as long as the proxy has the session, only a
\* session whose block has a timeout is timed, only the proxy delays its reading,
\* and it has no upstream connection before the query for it has ended.
TypeOK ==
  /\ request \in [Sessions -> Requests]
  /\ header \in [Sessions -> 0..2]
  /\ open \in [Sessions -> BOOLEAN]
  /\ unread \in [Sessions -> BOOLEAN]
  /\ phase \in [Sessions -> {"preread", "content", "bridge", "closed"}]
  /\ loc_conf \in [Sessions -> Locations \cup {NULL}]
  /\ armed \in [Sessions -> BOOLEAN]
  /\ resolver \in [Sessions -> BOOLEAN]
  /\ upstream \in [Sessions -> {"none", "connecting", "connected"}]
  /\ delayed \in [Sessions -> BOOLEAN]
  /\ rtimer \in [Sessions -> BOOLEAN]
  /\ \A s \in Sessions :
       /\ loc_conf[s] # NULL <=> phase[s] = "content"
       /\ armed[s] /\ loc_conf[s] # NULL => loc_conf[s].timeout
       /\ delayed[s] => phase[s] = "content" /\ s \in Limited
       /\ ~(resolver[s] /\ upstream[s] # "none")

\* The timed backends of the requests that reach one are given by address.
NoTimedName ==
  \A r \in Requests :
    LET loc == FindLocation(Blocks, Default, r.unit)
    IN  Verdict(loc, r.fc) = "proxy" /\ Timed(loc) => Backend(loc) \notin Named

\* A closed session leaves nothing behind: no timer event in memory that was
\* freed with its pool, no upstream connection, and no query that would hand the
\* freed session to the resolver's callback.  The cleanup handler sees to the
\* first, the timeout handler's call of c->read->handler to the others.
NothingOutlivesTheSession ==
  \A s \in Sessions :
    phase[s] = "closed" => ~armed[s] /\ upstream[s] = "none" /\ ~resolver[s]

\* A session reaches a backend only after its whole header was read, and then
\* the one of the block that serves its unit, if that block is proxied and does
\* not deny the function code.
BackendIsTheRoute ==
  \A s \in Sessions :
    resolver[s] \/ upstream[s] # "none" =>
      /\ header[s] = 2
      /\ loc_conf[s] = Located(s)
      /\ Verdict(loc_conf[s], request[s].fc) = "proxy"

\* The timeout handler, "Fires when a session outlives its backend's configured
\* timeout: close it": the session timer is only gone when the session is.
CapLastsForTheSession ==
  [][\A s \in Sessions : armed[s] /\ ~armed'[s] => phase'[s] = "closed"]_vars

\* The timeout of a block is a cap: a session it is armed for ends, whether it
\* is connecting, busy or idle, unless its reading is paced.
CapEndsTheSession ==
  \A s \in Sessions \ Limited : armed[s] ~> phase[s] = "closed"
=============================================================================
