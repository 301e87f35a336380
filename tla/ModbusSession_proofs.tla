------------------------- MODULE ModbusSession_proofs -------------------------
(***************************************************************************)
(* Proofs about sessions on the tcp path, for every set of sessions, every *)
(* server and every first request, if no timed backend is given by name:   *)
(* nothing outlives a session, and each reaches the backend of its unit    *)
(* only.  The inductive invariant says, of each session by itself, who     *)
(* holds something of it in each phase.                                    *)
(***************************************************************************)
EXTENDS ModbusSession, NumberFacts

Types ==
  /\ request \in [Sessions -> Requests]
  /\ header \in [Sessions -> 0..2]
  /\ phase \in [Sessions -> {"preread", "content", "bridge", "closed"}]
  /\ DOMAIN loc_conf = Sessions /\ loc_conf = [s \in Sessions |-> loc_conf[s]]
  /\ armed \in [Sessions -> BOOLEAN]
  /\ resolver \in [Sessions -> BOOLEAN]
  /\ upstream \in [Sessions -> {"none", "connecting", "connected"}]

\* Only the proxy's sessions have a timer, a query or an upstream connection; a
\* session the timer may end has no query under way.
Held(s) ==
  /\ phase[s] # "content" => ~armed[s] /\ ~resolver[s] /\ upstream[s] = "none"
  /\ ~(armed[s] /\ resolver[s])

\* The proxy has a session whose header was read, with the location of its unit.
Routed(s) ==
  phase[s] = "content" =>
    /\ header[s] = 2
    /\ loc_conf[s] = Located(s)
    /\ Verdict(loc_conf[s], request[s].fc) = "proxy"

Inv == Types /\ \A s \in Sessions : Held(s) /\ Routed(s)

\* What an action on s must not touch of another session.
SameButFor(s) ==
  \A t \in Sessions \ {s} :
    /\ header'[t] = header[t] /\ phase'[t] = phase[t] /\ loc_conf'[t] = loc_conf[t]
    /\ armed'[t] = armed[t] /\ resolver'[t] = resolver[t] /\ upstream'[t] = upstream[t]

\* A step keeps the invariant if it keeps it for the one session it is about.
LEMMA OneSession ==
  ASSUME Inv, NEW s \in Sessions, Types', request' = request, SameButFor(s),
         Held(s)', Routed(s)'
  PROVE  Inv'
<1>1. ASSUME NEW t \in Sessions, t # s
      PROVE  Held(t)' /\ Routed(t)'
  <2>1. Held(t) /\ Routed(t)
    BY DEF Inv
  <2>2. /\ header'[t] = header[t] /\ phase'[t] = phase[t] /\ loc_conf'[t] = loc_conf[t]
        /\ armed'[t] = armed[t] /\ resolver'[t] = resolver[t] /\ upstream'[t] = upstream[t]
    BY <1>1 DEF SameButFor
  <2>3. Located(t)' = Located(t)
    BY DEF Located
  <2> QED
    BY <2>1, <2>2, <2>3 DEF Held, Routed
<1> QED
  BY <1>1 DEF Inv

\* The end of a session that has no query and no connection any more.
LEMMA Closing ==
  ASSUME Inv, NEW s \in Sessions, CloseSession(s),
         resolver' = resolver \/ resolver' = [resolver EXCEPT ![s] = FALSE],
         upstream' = upstream \/ upstream' = [upstream EXCEPT ![s] = "none"],
         ~resolver'[s], upstream'[s] = "none"
  PROVE  Inv'
<1> USE DEF Inv, Types
<1>1. Types' /\ request' = request
  BY DEF CloseSession, clientVars, AfterCleanup
<1>2. SameButFor(s)
  BY DEF CloseSession, clientVars, AfterCleanup, SameButFor
<1>3. Held(s)' /\ Routed(s)'
  BY DEF CloseSession, AfterCleanup, Held, Routed
<1> QED
  BY <1>1, <1>2, <1>3, OneSession

\* The proxy releases what it has first.
LEMMA ProxyClosing ==
  ASSUME Inv, NEW s \in Sessions, ProxyFinalize(s)
  PROVE  Inv'
<1>1. ~resolver'[s] /\ upstream'[s] = "none"
  BY DEF ProxyFinalize, Inv, Types
<1> QED
  BY <1>1, Closing DEF ProxyFinalize

\* A session that is not the proxy's has nothing to release.
LEMMA EarlyClosing ==
  ASSUME Inv, NEW s \in Sessions, phase[s] # "content", CloseSession(s),
         UNCHANGED proxyVars
  PROVE  Inv'
<1>1. ~resolver[s] /\ upstream[s] = "none"
  BY DEF Inv, Held
<1> QED
  BY <1>1, Closing DEF proxyVars

\* A step that leaves a session with whoever has it.
LEMMA Staying ==
  ASSUME Inv, NEW s \in Sessions,
         UNCHANGED <<request, phase, loc_conf, resolver, upstream>>,
         header' = header \/ (phase[s] # "content" /\ header' \in [Sessions -> 0..2]
                              /\ \A t \in Sessions \ {s} : header'[t] = header[t]),
         armed' = armed \/ armed' = [armed EXCEPT ![s] = FALSE]
  PROVE  Inv'
<1>1. Types'
  BY DEF Inv, Types
<1>2. SameButFor(s)
  BY DEF Inv, Types, SameButFor
<1>3. Located(s)' = Located(s)
  BY DEF Located
<1>4. Held(s)' /\ Routed(s)'
  <2>1. Held(s) /\ Routed(s) /\ armed[s] \in BOOLEAN
    BY DEF Inv, Types
  <2>2. armed'[s] => armed[s]
    BY DEF Inv, Types
  <2>3. phase[s] = "content" => header' = header
    OBVIOUS
  <2> QED
    BY <1>3, <2>1, <2>2, <2>3 DEF Held, Routed
<1> QED
  BY <1>1, <1>2, <1>4, OneSession
-----------------------------------------------------------------------------
LEMMA ProxyStep ==
  ASSUME NoTimedName, Inv, NEW s \in Sessions, phase[s] = "preread", header[s] = 2,
         Verdict(Located(s), request[s].fc) = "proxy", Proxy(s, Located(s))
  PROVE  Inv'
<1>1. CASE CloseSession(s) /\ UNCHANGED proxyVars
  BY <1>1, EarlyClosing
<1>2. CASE ~(CloseSession(s) /\ UNCHANGED proxyVars)
  <2> DEFINE loc == Located(s)
  <2>1. /\ phase' = [phase EXCEPT ![s] = "content"]
        /\ loc_conf' = [loc_conf EXCEPT ![s] = loc]
        /\ armed' = IF Timed(loc) THEN [armed EXCEPT ![s] = TRUE] ELSE armed
        /\ \/ /\ Backend(loc) \in Named
              /\ resolver' = [resolver EXCEPT ![s] = TRUE] /\ upstream' = upstream
           \/ /\ Backend(loc) \notin Named
              /\ upstream' = [upstream EXCEPT ![s] = "connecting"] /\ resolver' = resolver
        /\ request' = request /\ header' = header
    BY <1>2 DEF Proxy, clientVars
  <2>2. Located(s)' = loc
    BY <2>1 DEF Located
  <2>3. request[s] \in Requests
    BY DEF Inv, Types
  <2>4. Timed(loc) => Backend(loc) \notin Named
    BY <2>3 DEF NoTimedName, Located
  <2>5. Held(s)
    BY DEF Inv
  <2> HIDE DEF loc
  <2>6. Types'
    BY <2>1 DEF Inv, Types
  <2>7. SameButFor(s)
    BY <2>1 DEF Inv, Types, SameButFor
  <2>8. Held(s)'
    BY <2>1, <2>4, <2>5 DEF Held, Inv, Types
  <2>9. Routed(s)'
    BY <2>1, <2>2 DEF Routed, Inv, Types, loc
  <2> QED
    BY <2>1, <2>6, <2>7, <2>8, <2>9, OneSession
<1> QED
  BY <1>1, <1>2 DEF Proxy

LEMMA PrereadStep ==
  ASSUME NoTimedName, Inv, NEW s \in Sessions, Preread(s)
  PROVE  Inv'
<1>1. phase[s] = "preread"
  BY DEF Preread
<1>2. CASE ~HeaderComplete(s) /\ open[s]
  BY <1>2, Staying DEF Preread, clientVars, proxyVars
<1>3. CASE ~HeaderComplete(s) /\ ~open[s]
  BY <1>1, <1>3, EarlyClosing DEF Preread
<1>4. CASE HeaderComplete(s)
  <2>1. header[s] = 2 /\ FunctionCodes(s) = {request[s].fc}
    BY <1>4 DEF HeaderComplete, FunctionCodes
  <2> DEFINE fc == request[s].fc
  <2>2. \/ CloseSession(s) /\ UNCHANGED proxyVars
        \/ /\ phase' = [phase EXCEPT ![s] = "bridge"]
           /\ UNCHANGED <<clientVars, loc_conf, armed, proxyVars>>
        \/ Verdict(Located(s), fc) = "proxy" /\ Proxy(s, Located(s))
    BY <1>4, <2>1 DEF Preread
  <2>3. CASE CloseSession(s) /\ UNCHANGED proxyVars
    BY <1>1, <2>3, EarlyClosing
  <2>4. CASE /\ phase' = [phase EXCEPT ![s] = "bridge"]
             /\ UNCHANGED <<clientVars, loc_conf, armed, proxyVars>>
    <3> USE <2>4 DEF clientVars, proxyVars, Inv, Types
    <3>1. Types' /\ SameButFor(s)
      BY DEF SameButFor
    <3>2. Held(s)' /\ Routed(s)'
      BY <1>1 DEF Held, Routed
    <3> QED
      BY <3>1, <3>2, OneSession
  <2>5. CASE Verdict(Located(s), fc) = "proxy" /\ Proxy(s, Located(s))
    BY <1>1, <2>1, <2>5, ProxyStep
  <2> QED
    BY <2>2, <2>3, <2>4, <2>5
<1> QED
  BY <1>2, <1>3, <1>4

\* The resolver's answer, and the backend's.
LEMMA ConnectStep ==
  ASSUME Inv, NEW s \in Sessions, Resolved(s) \/ Connected(s)
  PROVE  Inv'
<1>1. CASE ProxyFinalize(s)
  BY <1>1, ProxyClosing
<1>2. CASE ~ProxyFinalize(s)
  <2>1. phase[s] = "content"
    BY DEF Resolved, Connected, Inv, Held
  <2>2. /\ UNCHANGED <<request, header, phase, loc_conf, armed>>
        /\ resolver' = resolver \/ resolver' = [resolver EXCEPT ![s] = FALSE]
        /\ \/ upstream' = [upstream EXCEPT ![s] = "connecting"]
           \/ upstream' = [upstream EXCEPT ![s] = "connected"]
    BY <1>2 DEF Resolved, Connected, clientVars
  <2>3. Types' /\ SameButFor(s)
    BY <2>2 DEF Inv, Types, SameButFor
  <2>4. Located(s)' = Located(s)
    BY <2>2 DEF Located
  <2>5. Held(s) /\ Routed(s) /\ (resolver'[s] => resolver[s])
    BY <2>2 DEF Inv, Types
  <2>6. Held(s)' /\ Routed(s)'
    BY <2>1, <2>2, <2>4, <2>5 DEF Held, Routed
  <2> QED
    BY <2>2, <2>3, <2>6, OneSession
<1> QED
  BY <1>1, <1>2

\* A timer: the handler may find the reading delayed.
LEMMA TimedOutStep ==
  ASSUME Inv, NEW s \in Sessions, NEW rt, NEW ar,
         ar = armed \/ ar = [armed EXCEPT ![s] = FALSE], TimedOut(s, ar, rt)
  PROVE  Inv'
<1>1. CASE ProxyFinalize(s)
  BY <1>1, ProxyClosing
<1>2. CASE ~ProxyFinalize(s)
  <2>1. armed' = ar /\ UNCHANGED <<request, header, phase, loc_conf, resolver, upstream>>
    BY <1>2 DEF TimedOut, clientVars, proxyVars
  <2> QED
    BY <2>1, Staying
<1> QED
  BY <1>1, <1>2

\* The session timer: without an upstream connection there is no query either,
\* because the session is timed.
LEMMA SessionTimeoutStep ==
  ASSUME Inv, NEW s \in Sessions, SessionTimeout(s)
  PROVE  Inv'
<1>1. CASE upstream[s] # "none"
  BY <1>1, TimedOutStep DEF SessionTimeout
<1>2. CASE upstream[s] = "none"
  <2>1. CloseSession(s) /\ UNCHANGED proxyVars
    BY <1>2 DEF SessionTimeout
  <2>2. ~resolver[s]
    BY DEF SessionTimeout, Inv, Held
  <2> QED
    BY <1>2, <2>1, <2>2, Closing DEF proxyVars
<1> QED
  BY <1>1, <1>2

LEMMA ClientStep ==
  ASSUME Inv, NEW s \in Sessions, ClientWrites(s) \/ ClientCloses(s)
  PROVE  Inv'
<1>1. UNCHANGED <<request, phase, loc_conf, armed, resolver, upstream>>
  BY DEF ClientWrites, ClientCloses, proxyVars
<1>2. header' = header \/ (phase[s] # "content" /\ header' \in [Sessions -> 0..2]
                           /\ \A t \in Sessions \ {s} : header'[t] = header[t])
  <2>1. CASE header' = header
    BY <2>1
  <2>2. CASE header' # header
    <3>1. PICK n \in header[s] + 1..2 : header[s] < 2 /\ header' = [header EXCEPT ![s] = n]
      BY <2>2 DEF ClientWrites, ClientCloses
    <3>2. header[s] \in 0..2 /\ header \in [Sessions -> 0..2]
      BY DEF Inv, Types
    <3>3. n \in 0..2 /\ header[s] # 2
      BY <3>1, <3>2
    <3>4. phase[s] # "content"
      BY <3>3 DEF Inv, Routed
    <3> QED
      BY <3>1, <3>2, <3>3, <3>4
  <2> QED
    BY <2>1, <2>2
<1> QED
  BY <1>1, <1>2, Staying
-----------------------------------------------------------------------------
\* Every step keeps the invariant.
LEMMA Step ==
  ASSUME NoTimedName, Inv, [Next]_vars
  PROVE  Inv'
<1>1. CASE UNCHANGED vars
  BY <1>1 DEF vars, clientVars, proxyVars, Inv, Types, Held, Routed, Located
<1>2. CASE Next
  <2>1. PICK s \in Sessions :
          \/ ClientWrites(s) \/ ClientCloses(s)
          \/ Preread(s) \/ PrereadTimeout(s)
          \/ Resolved(s) \/ Connected(s) \/ Forward(s) \/ ProxyEnds(s)
          \/ DelayEnds(s) \/ SessionTimeout(s)
    BY <1>2 DEF Next
  <2>2. CASE ClientWrites(s) \/ ClientCloses(s)
    BY <2>2, ClientStep
  <2>3. CASE Preread(s)
    BY <2>3, PrereadStep
  <2>4. CASE PrereadTimeout(s)
    BY <2>4, EarlyClosing DEF PrereadTimeout
  <2>5. CASE Resolved(s) \/ Connected(s)
    BY <2>5, ConnectStep
  <2>6. CASE Forward(s)
    BY <2>6, Staying DEF Forward, Process, clientVars, proxyVars
  <2>7. CASE ProxyEnds(s)
    BY <2>7, ProxyClosing DEF ProxyEnds
  <2>8. CASE DelayEnds(s)
    BY <2>8, TimedOutStep DEF DelayEnds
  <2>9. CASE SessionTimeout(s)
    BY <2>9, SessionTimeoutStep
  <2> QED
    BY <2>1, <2>2, <2>3, <2>4, <2>5, <2>6, <2>7, <2>8, <2>9
<1> QED
  BY <1>1, <1>2

LEMMA InvHolds ==
  ASSUME NoTimedName
  PROVE  Spec => []Inv
<1>1. Init => Inv
  BY DEF Init, Inv, Types, Held, Routed
<1>2. Inv /\ [Next]_vars => Inv'
  BY Step
<1> QED
  BY <1>1, <1>2, PTL DEF Spec

\* If timed backends are given by address, a closed session has no timer, no
\* upstream connection and no query, in whatever order the proxy, the timers and
\* the client ended it.
THEOREM SessionsLeaveNothing ==
  ASSUME NoTimedName
  PROVE  Spec => []NothingOutlivesTheSession
<1>1. Inv => NothingOutlivesTheSession
  BY DEF Inv, Held, NothingOutlivesTheSession
<1> QED
  BY <1>1, InvHolds, PTL

\* And a session is connected, or its host looked up, only for the block that
\* serves its unit, once its function code was read and found not denied.
THEOREM BackendsAreRoutes ==
  ASSUME NoTimedName
  PROVE  Spec => []BackendIsTheRoute
<1>1. Inv => BackendIsTheRoute
  BY DEF Inv, Held, Routed, BackendIsTheRoute
<1> QED
  BY <1>1, InvHolds, PTL

-----------------------------------------------------------------------------
(* Types do not depend on how backends are named.                           *)

Typed ==
  /\ request \in [Sessions -> Requests]
  /\ header \in [Sessions -> 0..2]
  /\ open \in [Sessions -> BOOLEAN]
  /\ unread \in [Sessions -> BOOLEAN]
  /\ phase \in [Sessions -> {"preread", "content", "bridge", "closed"}]
  /\ loc_conf \in [Sessions -> Locations \cup {NULL}]
  /\ armed \in [Sessions -> BOOLEAN]
  /\ resolver \in [Sessions -> BOOLEAN]
  /\ upstream \in [Sessions -> {"none", "connecting", "connected"}]
  /\ delayed \in [Sessions -> BOOLEAN]
  /\ rtimer \in [Sessions -> BOOLEAN]

\* A ctx comes and goes with the proxy, and a session comes to it with nothing.
Fits(s) ==
  /\ loc_conf[s] # NULL <=> phase[s] = "content"
  /\ armed[s] /\ loc_conf[s] # NULL => loc_conf[s].timeout
  /\ delayed[s] => phase[s] = "content" /\ s \in Limited
  /\ ~(resolver[s] /\ upstream[s] # "none")
  /\ phase[s] = "preread" => ~armed[s] /\ ~resolver[s] /\ upstream[s] = "none"

TypeInv == Typed /\ \A s \in Sessions : Fits(s)

\* A step that changes no other session fits if it does for its own.
LEMMA FitsOne ==
  ASSUME TypeInv, NEW s \in Sessions, Typed', Fits(s)',
         \A t \in Sessions \ {s} :
           /\ phase'[t] = phase[t] /\ loc_conf'[t] = loc_conf[t] /\ armed'[t] = armed[t]
           /\ resolver'[t] = resolver[t] /\ upstream'[t] = upstream[t]
           /\ delayed'[t] = delayed[t]
  PROVE  TypeInv'
BY DEF TypeInv, Fits

\* The blocks' function finds one of them, the default or nothing.
LEMMA LocatedType ==
  ASSUME NEW s \in Sessions
  PROVE  Located(s) \in Locations \cup {NULL}
<1> DEFINE id == request[s].unit
           S == {i \in DOMAIN Blocks : Blocks[i].slave_id = id}
<1>1. DOMAIN Blocks = 1..Len(Blocks) /\ Len(Blocks) \in Nat
      /\ \A i \in DOMAIN Blocks : Blocks[i] \in Locations
  BY SessionAssumption
<1>2. CASE \E i \in DOMAIN Blocks : Blocks[i].slave_id = id
  <2>1. S \subseteq Nat /\ S # {}
    BY <1>1, <1>2
  <2>2. PICK m \in S : \A j \in S : m <= j
    <3> HIDE DEF S
    <3> QED
      BY <2>1, LeastNumber
  <2> DEFINE c == CHOOSE i \in DOMAIN Blocks :
                    /\ Blocks[i].slave_id = id
                    /\ \A j \in DOMAIN Blocks : Blocks[j].slave_id = id => i <= j
  <2>3. c \in DOMAIN Blocks
    BY <2>2
  <2>4. Located(s) = Blocks[c]
    BY <1>2 DEF Located, FindLocation
  <2> QED
    BY <1>1, <2>3, <2>4
<1>3. CASE ~\E i \in DOMAIN Blocks : Blocks[i].slave_id = id
  BY <1>3, SessionAssumption DEF Located, FindLocation
<1> QED
  BY <1>2, <1>3

\* Every end of a session.
LEMMA FitsClosing ==
  ASSUME TypeInv, NEW s \in Sessions, CloseSession(s),
         \/ UNCHANGED proxyVars
         \/ /\ resolver' = [resolver EXCEPT ![s] = FALSE]
            /\ upstream' = [upstream EXCEPT ![s] = "none"]
  PROVE  TypeInv'
<1>1. Typed'
  BY DEF TypeInv, Typed, CloseSession, clientVars, proxyVars, AfterCleanup
<1>2. phase'[s] = "closed" /\ loc_conf'[s] = NULL /\ ~delayed'[s]
      /\ ~(resolver'[s] /\ upstream'[s] # "none")
  BY DEF TypeInv, Typed, Fits, CloseSession, proxyVars
<1>3. Fits(s)'
  BY <1>2 DEF Fits
<1>4. \A t \in Sessions \ {s} :
        /\ phase'[t] = phase[t] /\ loc_conf'[t] = loc_conf[t] /\ armed'[t] = armed[t]
        /\ resolver'[t] = resolver[t] /\ upstream'[t] = upstream[t]
        /\ delayed'[t] = delayed[t]
  BY DEF TypeInv, Typed, CloseSession, proxyVars, AfterCleanup
<1> QED
  BY <1>1, <1>3, <1>4, FitsOne

\* A timer leaves the session with the proxy, or ends it.
LEMMA FitsTimedOut ==
  ASSUME TypeInv, NEW s \in Sessions, phase[s] = "content",
         NEW ar, ar = armed \/ ar = [armed EXCEPT ![s] = FALSE],
         NEW rt \in [Sessions -> BOOLEAN], TimedOut(s, ar, rt)
  PROVE  TypeInv'
<1>1. CASE ProxyFinalize(s)
  BY <1>1, FitsClosing DEF ProxyFinalize
<1>2. CASE ~ProxyFinalize(s)
  <2>1. /\ UNCHANGED <<clientVars, phase, loc_conf, proxyVars>> /\ armed' = ar
        /\ unread' = unread \/ unread' = [unread EXCEPT ![s] = FALSE]
        /\ delayed' = delayed \/ delayed' = [delayed EXCEPT ![s] = FALSE]
        /\ rtimer' = rt \/ rtimer' = [rtimer EXCEPT ![s] = TRUE]
    BY <1>2 DEF TimedOut
  <2>2. Typed'
    BY <2>1 DEF TypeInv, Typed, clientVars, proxyVars
  <2>3. Fits(s)
    BY DEF TypeInv
  <2>4. (armed'[s] => armed[s]) /\ (delayed'[s] => delayed[s])
    BY <2>1 DEF TypeInv, Typed
  <2>5. Fits(s)'
    BY <2>1, <2>3, <2>4 DEF Fits, proxyVars
  <2>6. \A t \in Sessions \ {s} :
          /\ phase'[t] = phase[t] /\ loc_conf'[t] = loc_conf[t] /\ armed'[t] = armed[t]
          /\ resolver'[t] = resolver[t] /\ upstream'[t] = upstream[t]
          /\ delayed'[t] = delayed[t]
    BY <2>1 DEF TypeInv, Typed, proxyVars
  <2> QED
    BY <2>2, <2>5, <2>6, FitsOne
<1> QED
  BY <1>1, <1>2

\* A step that leaves what the proxy and the timer have as it is.
LEMMA FitsStaying ==
  ASSUME TypeInv, NEW s \in Sessions, Typed', phase[s] # "closed",
         UNCHANGED <<loc_conf, armed, resolver, upstream>>,
         \/ phase' = phase
         \/ phase[s] = "preread" /\ phase' = [phase EXCEPT ![s] = "bridge"],
         \/ delayed' = delayed
         \/ /\ delayed' = [delayed EXCEPT ![s] = TRUE]
            /\ phase[s] = "content" /\ s \in Limited
  PROVE  TypeInv'
<1>1. Fits(s)
  BY DEF TypeInv
<1>2. Fits(s)'
  BY <1>1 DEF Fits, TypeInv, Typed
<1> QED
  BY <1>2, FitsOne DEF TypeInv, Typed

LEMMA FitsProxy ==
  ASSUME TypeInv, NEW s \in Sessions, phase[s] = "preread", NEW fc,
         Verdict(Located(s), fc) = "proxy", Proxy(s, Located(s))
  PROVE  TypeInv'
<1>1. CASE CloseSession(s) /\ UNCHANGED proxyVars
  BY <1>1, FitsClosing
<1>2. CASE ~(CloseSession(s) /\ UNCHANGED proxyVars)
  <2> DEFINE loc == Located(s)
  <2>1. loc \in Locations /\ loc # NULL
    BY LocatedType, NullAssumption DEF Verdict
  <2>2. /\ phase' = [phase EXCEPT ![s] = "content"]
        /\ loc_conf' = [loc_conf EXCEPT ![s] = loc]
        /\ armed' = IF loc.timeout THEN [armed EXCEPT ![s] = TRUE] ELSE armed
        /\ \/ resolver' = [resolver EXCEPT ![s] = TRUE] /\ upstream' = upstream
           \/ upstream' = [upstream EXCEPT ![s] = "connecting"] /\ resolver' = resolver
        /\ unread' = [unread EXCEPT ![s] = FALSE]
        /\ rtimer' = [rtimer EXCEPT ![s] = FALSE]
        /\ UNCHANGED <<request, header, open, delayed>>
    BY <1>2 DEF Proxy, Timed, clientVars
  <2> HIDE DEF loc
  <2>3. Typed'
    BY <2>1, <2>2 DEF TypeInv, Typed
  <2>4. Fits(s)
    BY DEF TypeInv
  <2>5. Fits(s)'
    BY <2>1, <2>2, <2>4 DEF Fits, TypeInv, Typed
  <2>6. \A t \in Sessions \ {s} :
          /\ phase'[t] = phase[t] /\ loc_conf'[t] = loc_conf[t] /\ armed'[t] = armed[t]
          /\ resolver'[t] = resolver[t] /\ upstream'[t] = upstream[t]
          /\ delayed'[t] = delayed[t]
    BY <2>2 DEF TypeInv, Typed
  <2> QED
    BY <2>3, <2>5, <2>6, FitsOne
<1> QED
  BY <1>1, <1>2 DEF Proxy

LEMMA FitsPreread ==
  ASSUME TypeInv, NEW s \in Sessions, Preread(s) \/ PrereadTimeout(s)
  PROVE  TypeInv'
<1>1. phase[s] = "preread"
  BY DEF Preread, PrereadTimeout
<1>2. \/ /\ UNCHANGED <<clientVars, phase, loc_conf, armed, proxyVars, delayed>>
         /\ unread' = [unread EXCEPT ![s] = FALSE] /\ rtimer' = [rtimer EXCEPT ![s] = TRUE]
      \/ CloseSession(s) /\ UNCHANGED proxyVars
      \/ /\ phase' = [phase EXCEPT ![s] = "bridge"] /\ rtimer' = [rtimer EXCEPT ![s] = FALSE]
         /\ UNCHANGED <<clientVars, unread, loc_conf, armed, proxyVars, delayed>>
      \/ \E fc : Verdict(Located(s), fc) = "proxy" /\ Proxy(s, Located(s))
  BY DEF Preread, PrereadTimeout
<1>3. CASE /\ UNCHANGED <<clientVars, phase, loc_conf, armed, proxyVars, delayed>>
           /\ unread' = [unread EXCEPT ![s] = FALSE] /\ rtimer' = [rtimer EXCEPT ![s] = TRUE]
  <2>1. Typed'
    BY <1>3 DEF TypeInv, Typed, clientVars, proxyVars
  <2> QED
    BY <1>1, <1>3, <2>1, FitsStaying DEF proxyVars
<1>4. CASE /\ phase' = [phase EXCEPT ![s] = "bridge"] /\ rtimer' = [rtimer EXCEPT ![s] = FALSE]
           /\ UNCHANGED <<clientVars, unread, loc_conf, armed, proxyVars, delayed>>
  <2>1. Typed'
    BY <1>4 DEF TypeInv, Typed, clientVars, proxyVars
  <2> QED
    BY <1>1, <1>4, <2>1, FitsStaying DEF proxyVars
<1> QED
  BY <1>1, <1>2, <1>3, <1>4, FitsClosing, FitsProxy

LEMMA FitsConnect ==
  ASSUME TypeInv, NEW s \in Sessions, Resolved(s) \/ Connected(s)
  PROVE  TypeInv'
<1>1. CASE ProxyFinalize(s)
  BY <1>1, FitsClosing DEF ProxyFinalize
<1>2. CASE ~ProxyFinalize(s)
  <2>1. /\ UNCHANGED <<clientVars, unread, phase, loc_conf, armed, delayed, rtimer>>
        /\ \/ /\ resolver' = [resolver EXCEPT ![s] = FALSE]
              /\ upstream' = [upstream EXCEPT ![s] = "connecting"] /\ phase[s] = "content"
           \/ /\ upstream[s] = "connecting" /\ resolver' = resolver
              /\ upstream' = [upstream EXCEPT ![s] = "connected"]
    BY <1>2 DEF Resolved, Connected
  <2>2. Typed'
    BY <2>1 DEF TypeInv, Typed, clientVars
  <2>3. Fits(s)
    BY DEF TypeInv
  <2>4. Fits(s)'
    BY <2>1, <2>3 DEF Fits, TypeInv, Typed
  <2> QED
    BY <2>1, <2>2, <2>4, FitsOne DEF TypeInv, Typed
<1> QED
  BY <1>1, <1>2

\* The client's steps, and the proxy's reading.
LEMMA FitsOthers ==
  ASSUME TypeInv, NEW s \in Sessions, ClientWrites(s) \/ ClientCloses(s) \/ Forward(s)
  PROVE  TypeInv'
<1>1. /\ UNCHANGED <<phase, loc_conf, armed, resolver, upstream>> /\ phase[s] # "closed"
      /\ \/ delayed' = delayed
         \/ /\ delayed' = [delayed EXCEPT ![s] = TRUE]
            /\ phase[s] = "content" /\ s \in Limited
  BY DEF ClientWrites, ClientCloses, Forward, Process, proxyVars
<1>2. Typed'
  <2>1. CASE ClientWrites(s)
    <3>1. \A n \in header[s] + 1..2 : n \in 0..2
      BY DEF TypeInv, Typed
    <3> QED
      BY <2>1, <3>1 DEF ClientWrites, TypeInv, Typed, proxyVars
  <2>2. CASE ClientCloses(s)
    BY <2>2 DEF ClientCloses, TypeInv, Typed, proxyVars
  <2>3. CASE Forward(s)
    BY <2>3 DEF Forward, Process, TypeInv, Typed, proxyVars, clientVars
  <2> QED
    BY <2>1, <2>2, <2>3
<1> QED
  BY <1>1, <1>2, FitsStaying

\* A ctx is there exactly as long as the proxy has the session, a session whose
\* block has no timeout is never timed, only the proxy delays its reading, and it
\* connects only once the query has ended.
THEOREM SessionTypes == Spec => []TypeOK
<1>1. Init => TypeInv
  BY DEF Init, TypeInv, Typed, Fits
<1>2. TypeInv /\ [Next]_vars => TypeInv'
  <2> SUFFICES ASSUME TypeInv, [Next]_vars
               PROVE  TypeInv'
    OBVIOUS
  <2>1. CASE UNCHANGED vars
    BY <2>1 DEF vars, clientVars, proxyVars, TypeInv, Typed, Fits
  <2>2. ASSUME NEW s \in Sessions,
               \/ ClientWrites(s) \/ ClientCloses(s)
               \/ Preread(s) \/ PrereadTimeout(s)
               \/ Resolved(s) \/ Connected(s) \/ Forward(s) \/ ProxyEnds(s)
               \/ DelayEnds(s) \/ SessionTimeout(s)
        PROVE  TypeInv'
    <3>1. CASE ClientWrites(s) \/ ClientCloses(s) \/ Forward(s)
      BY <3>1, FitsOthers
    <3>2. CASE Preread(s) \/ PrereadTimeout(s)
      BY <3>2, FitsPreread
    <3>3. CASE Resolved(s) \/ Connected(s)
      BY <3>3, FitsConnect
    <3>4. CASE ProxyEnds(s)
      BY <3>4, FitsClosing DEF ProxyEnds, ProxyFinalize
    <3>5. CASE DelayEnds(s)
      <4>1. [rtimer EXCEPT ![s] = FALSE] \in [Sessions -> BOOLEAN]
        BY DEF TypeInv, Typed
      <4> QED
        BY <3>5, <4>1, FitsTimedOut DEF DelayEnds
    <3>6. CASE SessionTimeout(s)
      <4>1. rtimer \in [Sessions -> BOOLEAN]
        BY DEF TypeInv, Typed
      <4> QED
        BY <3>6, <4>1, FitsTimedOut, FitsClosing DEF SessionTimeout
    <3> QED
      BY <2>2, <3>1, <3>2, <3>3, <3>4, <3>5, <3>6
  <2> QED
    BY <2>1, <2>2 DEF Next
<1>3. TypeInv => TypeOK
  BY DEF TypeInv, Typed, Fits, TypeOK
<1> QED
  BY <1>1, <1>2, <1>3, PTL DEF Spec
=============================================================================
