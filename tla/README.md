# Verification of the nginx module collection

TLA+ models of the modules in this repository, TLC configurations that check
them on small instances, and proofs that hold for every instance. The models
are translated from the C sources; where nginx, the kernel, libmodbus, a client
or a slave takes part, it is modelled from how the sources use it.

1. [Inventory](#1-inventory)
2. [Modules](#2-modules-and-how-they-correspond-to-the-code)
3. [Runs](#3-runs-what-is-checked)
4. [Bounds](#4-bounds)
5. [Fairness](#5-fairness)
6. [Proofs](#6-proofs)
7. [Disagreements found](#7-where-the-code-and-its-documentation-disagree)
8. [Not modelled](#8-not-modelled)
9. [Plan](#9-plan)

`tlc -config MCRtuLockstep.cfg MCModbusRtu` runs one configuration; the table in
section 3 names the module of each. `tlapm M.tla` checks the proofs of a module M:
`NumberFacts`, or one of those whose name ends in `_proofs`. Proofs grow with the
module; those of `ModbusLockstep_proofs` and `HttpLocation_proofs` take longest.

## 1. Inventory

The repository is a collection of independent nginx modules. They share no
state with each other; each one interacts with nginx's event loop, phases and
processes. Listed with what makes each one correct:

**Modbus gateway** (`src/contrib/modbus-gateway/`, stream module, by far the
largest part). Three parts of one source file:

- *Locations and configuration.* State: per `server{}` an array of `modbus`
  blocks, a default block (a second copy of one of them), the serial device and
  its line parameters. Operations: the block parser, the directive setters,
  merge and its validation; at run time, `find_location` and the `deny_ops` bit
  test. Hard: directives come in any order and are validated at different
  times. Correct if every route of a loaded file can be served, and what is
  denied is what the file says.
- *RTU bridge.* State: per connection the accumulator `req`, the reply `rsp`
  with what was sent of it; per worker the libmodbus handle `mb`. Operations:
  the preread handler and takeover, `client_read`, `rtu_transaction` (a blocking
  round trip on the serial line), `client_send`, `client_write`, the session
  timeout. Hard: partial reads and writes in any cut, pipelined clients,
  edge-triggered read and write events in any order, clients that close or stop
  reading, slaves that answer late, wrongly, or not at all, several sessions on
  one line. Correct if no buffer is overrun, no request is performed twice or
  unscreened, a reply is the client's own and arrives whole and in order, every
  request is answered and every session ends when it should.
- *TCP path.* State: per session a ctx with the chosen block, its timer and the
  pool cleanup of that timer. The preread handler chooses and arms, nginx's
  stream proxy does the rest with `$modbus_backend`. Hard: the timer firing while
  the proxy resolves, connects, paces its reading or finalizes. Correct if a
  session leaves no timer, query or upstream connection behind, reaches the
  backend of its unit only, and ends when its time is up.

**xbcast** (`src/contrib/xbcast-example/`, stream module). State: an array of
socketpairs shared by all workers, its size, each worker's own number.
Operations: creation in the master, registration in each worker, the broadcast
loop, the read handler. Hard: many processes, full socket buffers, workers that
die in the middle of a broadcast, reloads that leave two generations of workers
on the same sockets. Correct if every other worker wakes up after a packet.

**auth_body** (`src/contrib/auth-module-with-body/`, HTTP access handler). State:
a context per request (`done`, `status`, `subrequest`). Operations: the handler,
which is entered several times, and the subrequest's callback. Hard: the
handler's result is interpreted by nginx's phase engine; the answer's body may
be absent or in several buffers. Correct if a request reaches its content only
after an answer of 2xx, a refusal keeps its status, and the variables set from
the answer are there when the content is served.

**HTTP examples** (`src/examples/01-greetings`, `02-echo-module`,
`03-dump-request-body`). State: the request, its body and reference count.
Operations: the content handler; in 02 and 03 a callback that runs when the body
is there, possibly inside the handler. Hard: callback and handler share one
request and both answer it. Correct if no reference is released twice, the body
is as long as declared, and the request ends.

**Stream echo** (`src/examples/04-stream-echo`). One handler without state
across calls.

**Build scripts** (`src/build_module.sh`, `src/docker/`). They configure and copy;
no protocol.

`PROJECT.json` lists, under "hazards", what in this code is hard to test, each at
its line, with the property that would catch it going wrong or the reason there
is none yet.

## 2. Modules and how they correspond to the code

| module | models | extends / instances |
|---|---|---|
| `ModbusLocations` | `find_location`, the `deny_ops` mask, the verdict of the preread handler | |
| `ModbusConfig` | the life of a configuration: parse, merge, loaded or rejected | `ModbusLocations` |
| `ModbusRtu` | the bridge: clients, kernel, sessions, worker, serial line | `ModbusLocations`, `RequestReply` |
| `RequestReply` | what a gateway promises its clients (abstract) | |
| `ModbusRtu_proofs` | what holds of the bridge for all clients | `ModbusRtu` |
| `ModbusLockstep_proofs` | what it promises clients that wait for each reply, and that it implements `RequestReply` for them | `ModbusRtu_proofs` |
| `Xbcast` | the master, two generations of workers, the socketpairs | `Doorbell` |
| `Doorbell` | what xbcast promises (abstract) | |
| `ModbusSession` | the tcp path: preread handler, timer, cleanup, and nginx's stream proxy as its environment | `ModbusLocations` |
| `ModbusSession_proofs` | lemmas and theorems about `ModbusSession` | `ModbusSession` |
| `HttpRequest` | nginx 1.25's request: header, body, references, finalization (external) | |
| `AuthRequest` | auth_body's configuration, access handler and callback | `HttpRequest` |
| `ContentExamples` | the content handlers of examples 01, 02 and 03 | `HttpRequest` |
| `HttpLocation` | one request through locations that use both | `AuthRequest`, `ContentExamples` |
| `NumberFacts` | least elements, induction and recursion on numbers, for the proofs below | |
| `ModbusConfig_proofs`, `Xbcast_proofs`, `HttpLocation_proofs` | proofs about the module each is named for | that module; `NumberFacts` in the first and last |
| `MCModbusConfig`, `MCModbusRtu`, `MCModbusSession`, `MCXbcast`, `MCHttpLocation` | values for TLC | the module each is named for |

`ModbusLocations` is shared because the code shares it: the preread handler, on
both paths, and every transaction call the same `find_location`. `Verdict` says
what the preread handler does with a request; `ModbusRtu` follows its "bridge",
`ModbusSession` its "proxy".

**ModbusConfig.** `conf[n]` is server n's `srv_conf`; UNSET is what a setter finds
before its directive. Each directive is an action with its "is duplicate" and
validation branches; `Merge` is the merge function and its checks, in the order
nginx runs it, after all parsing. `declared` is a history variable. nginx calls
merge with the `stream{}` level's conf as prev; since `modbus` is only allowed in
a server, prev is always empty. The line directives keep whatever they are given
until `MergeError` looks at data bits, stop bits and parity, and at nothing else.
`RtuOpen` is what the first rtu request makes of the result: the line libmodbus is
told to drive, with the parity as its first letter, or NULL if libmodbus refuses
it, as it does a rate of 0.

**ModbusRtu.** A worker is one thread: `run` is the session whose handler runs and
`pc` the function it is in. Each `recv`, `send` and serial call is one action, so
clients and slaves act in between; no other handler does. `pc = "read"` is the
loop of `client_read` (`ReadBadLength`, `ReadFrame`, `ReadRecv`), `"transact"` and
`"confirm"` are `rtu_transaction` before and after its request was sent,
`"send"` is `client_send` (`SendOk`, `SendAgain`, `SendError`, `SendDone`). `Preread`
holds the preread phase and `Takeover`.

Bytes are counted, not stored. A client's stream is the concatenation of the
frames in `script`; the accumulator is the interval of `req_len` bytes that
starts after `base`, with a gap of `lost` bytes where the takeover cut the
prebuffered data. `Byte` gives the value at a position, so a header field read
at a wrong offset is read wrong in the model as well; that is how the model
tells a frame that a client wrote from one that was put together from two
(`Held` is 0 for the latter). Payload bytes are 0.

Environment: `ready` is epoll's ready list. A connection is registered
edge-triggered: new data, a close, or room after a send that found none put it
on the list; adding the write event makes epoll look again (`SendAgain`). One
report carries every condition that holds, and nginx runs the read handler
before the write handler (`wnext`). libmodbus is modelled by its results: a
flush before each request, an answer from the queue (right, another slave's,
or with a bad CRC) or none, a failed open or send.

**RequestReply.** Three counters per client and the set of open connections. A
request is performed at most once, only while it is the oldest without a reply,
and is answered unless the connection closes. The refinement mapping counts the
frames written in full, the entries of `hist` per frame, the replies sent in
full, and the sessions that are neither closed nor proxied.

**Xbcast.** A process is a pair of a configuration and a worker number. `statics`
holds the two static variables as the process inherited them; the master's own
copy changes on reload. `Packet` is the preread handler up to the start of the
loop, `Signal` one turn of it, `ReadHandler` and `ReadChannel` the receiving side,
so that two broadcasts, a reader and a death interleave at every message.
`Reload` runs `init_module` and forks the next generation; the old one goes on
until `Exit`. What a process finds in an array whose pool was destroyed is a
nondeterministic choice (`Dangling`): the descriptors are still there, or not.

**Doorbell.** `owed` pairs of who has still to ring whom, `pending` the workers
that were rung, `deaths` so that a ring may be called off by a death only. The
mapping ends at the first reload: `on` is `cycle = 1`.

**ModbusSession.** Handlers of the tcp path never block, so each is one action.
`Preread` is one read event in the preread phase; its `Proxy` sets the ctx
(`loc_conf`), arms the timer and enters the proxy, which starts a query
(`resolver`) or a connection (`upstream`). `SessionTimeout` is the timeout handler:
with an upstream connection it marks the client's read event as timed out and
calls its handler, which is `TimedOut`; without one it closes the session.
`CloseSession` is what nginx does to any session, and runs the pool cleanup
(`AfterCleanup`); `ProxyFinalize` ends query and connection first. `delayed` and
`rtimer` are the proxy's rate limit, which uses the same read event and its
`timedout` flag. The branch of the preread handler for a ctx that is already
there is dead on this path: the phase is left in the call that creates the ctx.

**HttpRequest, AuthRequest, ContentExamples.** An HTTP handler runs to its end
inside one event, so what it does is an operator from a request to the set of
requests, or of results with a return code, that it may leave behind; only the
output filter has several outcomes (sent, blocked, failed). `HttpRequest` is
nginx, modelled from how the handlers use it; the other two are the handlers.
`Fate` keeps the order and the conditions of the status tests. Its uninitialized
`sr` is read for every status but 401 and 403: the worker dies there, or finds no
header to copy. A uri is `Empty` after `auth_request off`, and after one of `""`; a
block in which `auth_request_set` names something without a `$` is refused.

A buffer of a body has a size and may be in a temporary file. `DumpLast` uses two
lengths of it, as the code does: `Total`, what `ngx_buf_size` says, for the
declared length, and `Held`, what is between `pos` and `last`, for the text. Its
reply buffer is one octet too small for the line feed, and without a buffer in the
body its text is never set: in both cases the worker may die, now or later, and
without a buffer also answer with 500 or with some text.

**HttpLocation.** The phases of an event are steps of their own: `step` is "access",
"content", or "wait" between events. nginx does not enter the parent's access
phase before its subrequest has ended, so the handler's test of `ctx->done` never
fails in these runs; the model has the branch all the same. The callback is
called whenever the subrequest is finalized, and an error page finalizes it
first with no status: `Answers` holds the sequences. An internal redirect clears
the ctx and keeps the variables.

Definitions named `Mut...` are deliberately wrong variants of the definition that
follows them. They are not used by any specification; putting one in the place
of its original makes the property it is listed with fail.

## 3. Runs: what is checked

| run | module, cfg | states | shows |
|---|---|---|---|
| `config` | MCModbusConfig | 392 000 | every file of up to three blocks and any line directives is rejected, or all its routes can be served but for a rate of 0, on the line it describes (`OnlyRatesGoUnchecked`), and denials are those declared (`DenialIsAsDeclared`, `RoutesAreStable`) |
| `rtu_lockstep` | MCModbusRtu, MCRtuLockstep | 1.2 million | two clients that wait for each reply share the line; replies do not fit the socket buffer. A transaction is finished before the next one begins (`TransactionsAreFinished`), no answer crosses over, nothing is performed twice, blocked replies are woken, resumed, and delivered whole and in order |
| `rtu_hostile` | MCModbusRtu, MCRtuHostile | 203 000 | what needs nothing of the client: the inductive invariant, buffers, screening, wake-ups, and that a session timeout ends every session of its block, also one that is stalled or blocked; over denied, foreign, malformed and limit-size requests, pipelined, cut anywhere, half closed or reset |
| `rtu_serves` | MCModbusRtu, MCRtuServes | 26 000 | for clients that wait, also with slaves that answer late, the bridge implements `RequestReply` with its liveness, and notices every close |
| `xbcast` | MCXbcast | 39 000 | `Xbcast` implements `Doorbell` until a reload, over one death and full buffers; no process, of either generation, uses an index the array does not have |
| `session` | MCModbusSession | 13 700 | whichever of timer, resolver, backend, proxy and client ends a session on the tcp path, nothing refers to it afterwards (`NothingOutlivesTheSession`), it reached only the backend of its unit (`BackendIsTheRoute`), and a timed one ends (`CapEndsTheSession`) |
| `http` | MCHttpLocation | 106 000 | through one or two locations, with the directives absent, in either block, or in both: no refusal but an unmasked 401 lets content through (`OnlyUnmaskedRefusalsPass`), the header's status is that of the first refusal, variables as configured, no reference released twice, lengths as declared, and requests end |
| `rtu_twice` | MCModbusRtu, MCRtuTwice | violation | `RequestsArePerformedOnce`, with a client that writes ahead |
| `xbcast_reload` | MCXbcast, MCXbcastReload | violation | `ReloadKeepsTheChannels` |
| `session_names` | MCModbusSession, MCSessionNames | violation | `NothingOutlivesTheSession`, with a timed block given by name |
| `auth_allowed` | MCHttpLocation, MCAuthAllowed | violation | `AllowedRequestsAreServed` |
| `auth_refused` | MCHttpLocation, MCAuthRefused | violation | `ContentIsAuthorized`, with `auth_request_mask_body off` |

Each violation is a disagreement that section 7 explains. Six more configurations
end with a counterexample in the same way and are kept beside the runs:
MCConfigBaud, MCRtuDeny, MCRtuDiscard, MCRtuPipelined, MCRtuSeed and MCSessionCap.

Why `rtu_lockstep` and `rtu_serves` need clients that wait for each reply (`Window`
= 1): for a client that writes ahead, the properties are false, as `rtu_twice` and
MCRtuPipelined show, and MCRtuDiscard for one that writes in pieces. What holds
for all clients is in `rtu_hostile` and in `ModbusRtu_proofs`; `ModbusLockstep_proofs`
has the promises to clients that wait, with slaves that answer in time or not at
all. `rtu_lockstep` is an instance of its hypothesis, and so is `rtu_serves` but for
late answers, which `RequestReply` does not tell from others.

Deadlock is not checked in any run: configurations end loaded or rejected, and
clients stop after `MaxReq` requests, sessions and requests are served once.

## 4. Bounds

- `SndBuf` stands for the socket's send buffer, in bytes of replies. 9 holds one
  exception reply and not a whole answer of 12 bytes, so that replies are split
  after some bytes, blocked, and woken; a real buffer does the same after more
  replies. 130 in `rtu_hostile` splits the largest reply twice.
- `MaxReq` 2 or 3: the second request is the first one the preread handler does
  not see, and the third is the first after a leftover.
- `Window`: how far a client writes ahead of the replies it has read.
- `MaxRead`: a client stops reading after that many replies. It bounds the
  bridge, which performs a request again and again while a client that reads
  writes on (run `rtu_twice`).
- `Chunks`: 400 writes a frame at once, 10 cuts it after the header and the
  function code; a smaller first piece is what `Preread` waits for.
- `Rets`: the lengths `modbus_receive_confirmation` may return; 256 gives the
  longest reply, 260 bytes.
- Requests: one valid frame per unit, and in `Mixed` the limits 7 and 260 of the
  length check with their neighbours 6 and 261, a denied op, a tcp unit, an
  unknown unit and a protocol id of 1.
- `LateAnswers` is TRUE in `rtu_serves` only: stale answers multiply the states, and
  section 7 says which property they break.
- The preread buffer's size (16 kB) is not reached by `MaxReq` frames.
- `config`: one server and three blocks out of nine, which make every branch of the
  block parser and every kind of duplicate; of each line directive that is
  validated a value that is loaded and one that is not, so that a route on a bad
  line would be seen; and a rate of 0, which nothing validates.
- `Counts` <<2, 3>>, `Cap` 1, `MaxPackets` 2, `MaxCrashes` 1: two broadcasts may come
  from one worker (the second finds the buffer full) or from both at once; the
  reload raises the count, so that a worker without a pair exists.
- `session`: two sessions, one of a server with `proxy_upload_rate` (`Limited`).
  Sessions do not interact but for the events they must not leave behind, so the
  second is there to be disturbed. Requests reach a timed block, an untimed one,
  an rtu block, a denied op and no block. Names are looked up for the untimed
  block (`Named`); `session_names` names the timed one as well.
- `http`: routes of one location with every content handler, or of two joined by
  an internal redirect; each directive absent, in the outer block, in the inner
  one or in both, off, or with an argument that disables it or is refused; bodies
  in no, one or two buffers, in a file, late, or refused; answers of
  every class, from upstream or by an error page (two calls of the callback).
  One request is enough: requests share nothing but the worker.

`rtu_lockstep` uses symmetry: its two connections are interchangeable, and its
properties hold no temporal operator but `[][...]_vars`.

## 5. Fairness

`ModbusRtu!Fairness`: the worker runs. A handler goes on (weak), since its calls
return, the blocking one after `response_timeout` at the latest. The event loop
comes to every ready socket, and the timer to every session, whatever other
sessions do in between: strong, because the worker is busy with others again
and again, and justified because `ngx_process_events_and_timers` handles all
posted events and expired timers in each turn. A client finishes a frame it has
begun and reads what is there, as long as `MaxRead` lets it; a slave that is
going to answer does. Nothing is assumed of `PrereadTimeout`.

`Xbcast!Fairness`: a process takes its next step, and the event loop calls the
read handler of a readable descriptor: xbcast's channel is level-triggered, so
it is reported until it is empty. Between unboundedly many packets this would
be strong fairness; `MaxPackets` makes weak fairness enough.

`ModbusSession!Fairness`: expired timers fire, the session's and the one of the
client's read event. Weak fairness is enough, since a timer stays in the tree
until it fires or its session ends. Nothing is assumed of clients, names,
backends or the proxy: the cap must not need them.

`HttpLocation!Fairness`: an event runs to its end; the authorization service
answers or fails within `proxy_read_timeout`; a blocked response is drained or
given up after `send_timeout`.

The abstract specifications state their liveness with leads-to, not with
fairness, because ENABLED does not survive the refinement mappings.

## 6. Proofs

A theorem below holds for every value of the constants that the named
assumptions of the modules admit: any sets of sessions, servers, workers or
locations, any requests, blocks, directives and answers, any bounds. What a theorem
assumes beyond them is said with it. Every
safety property that a passing run checks is proved, and the safety half of both
refinements; a property of clients that wait is proved for those.

Most properties are not inductive. For each module there is an invariant that
is, and its preservation is proved action by action and part by part; each
property is then a consequence of it (action properties: of it and one step).

### The bridge, for all clients

`ModbusRtu_proofs`, under `NullAssumption` and `RtuAssumption` (types of the
constants; `Rets` at most 256, what libmodbus can return; `MaxReq` at most 255,
since a frame's number is one byte of its transaction id).

| theorem | says |
|---|---|
| `Invariance` | `Spec => []IndInv` |
| `TypeCorrectness` | `Spec => []TypeOK` |
| `BuffersAreNotOverrun` | `Spec => []AccumulatorInBounds`: `recv` and `memcpy` stay inside `req`, `raw` and `rsp` |
| `FirstRequestsAreScreened` | `Spec => []FirstRequestIsScreened`: a connection whose first request is refused never reaches the line |
| `BlockedRepliesAreWoken` | `Spec => []BlockedReplyIsWoken`: no wake-up is lost for a reply sent in part |

`IndInv` is TypeOK and six parts:

- `StreamInv`: no byte was taken that was not written, each written byte lies in
  a frame, and only the last frame may be unfinished. It makes `Byte` defined, so
  that `Need` is a number between 6 and 65541 and the type of the accumulator's
  counters can be kept.
- `AccumulatorInv`: `req_len` at most 260, a transaction holds a whole frame,
  `rsp_sent <= rsp_len <= 260`. `ReadRecv` keeps it because `BadLength` has turned
  away every larger `Need`, `Takeover` because of `Seed`.
- `WakeInv`: a reply that is not fully sent is being sent, or the write event is
  active; and if the socket has room, epoll is about to report it, or has and
  the worker will come to the write handler. What breaks it is room that appears
  between the send that found none and the registration; `SendAgain` keeps it,
  since adding the event makes epoll look again.
- `WorkerInv`: a handler runs exactly when `pc` is not idle, and only for a
  bridged session.
- `LineInv`: while waiting, the link is open and the last entry of `hist` is this
  session's, for the unit in its buffer. Steps of clients do not disturb it since
  bytes once written do not change (`ByteStable`), which rests on `StreamInv`.
- `ScreenInv`: every bridged session, and every session in `hist`, has a first
  request that passed the check. It is established by `Preread` alone and kept
  because the first eight bytes of a stream never change.

Per part and action there is a lemma (`...Type`, `Stream...`, `Accumulator...`),
collected in `TypeStep`, `StreamStep`, `AccumulatorStep`, `WakeStep`, `WorkerStep`,
`LineStep` and `ScreenStep`. `Untouched` says that a step of one session leaves the
variables of the others alone (`Mine`). The run `rtu_hostile` checks `IndInv` itself.

### The bridge, for clients that wait

`ModbusLockstep_proofs`; each theorem assumes `Lockstep` of the constants.

| theorem | says |
|---|---|
| `LockstepInvariance` | `Spec => []LockstepInv` |
| `OneTransactionOnTheLine` | `Spec => []TransactionsAreFinished`: whatever else is on the line, each transaction has its reply before the next one begins |
| `OwnAnswers` | `Spec => []AnswersAreTheClientsOwn`: a client is sent the answer to that very request |
| `OrderedReplies` | `Spec => []RepliesAreInOrder` |
| `RequestsRunOnce` | `Spec => []RequestsArePerformedOnce` |
| `WholeFramesAreSent` | `Spec => []OnlyWrittenFramesArePerformed`: nothing reaches the line that was put together from two frames |
| `RepliesAreFinished` | `Spec => RepliesAreNotRebuilt`: a reply stays as it is until it is sent |
| `BytesAreServed` | `Spec => OnlyServedBytesAreDropped`: the accumulator is reset only after its request was answered |
| `RefinesRequestReply` | `Spec => RR!Safety`: each step is one of `RequestReply` or a stutter |

`Lockstep` is what the code needs of its environment, and there is a
counterexample where a part of it is missing:

- `Window = 1`: with a client that writes ahead, `rtu_twice` performs a request
  again, and MCRtuSeed loses a piece of one.
- `~HalfClose`: the close of a client is a read event too. While a reply is
  blocked it runs `client_read` on the served frame and rebuilds the reply
  (`rtu_lockstep` with `HalfClose` TRUE violates `RepliesAreNotRebuilt`).
- `~LateAnswers`: an answer on the line carries no transaction id (`rtu_lockstep`
  with `LateAnswers` TRUE violates `AnswersAreTheClientsOwn`).
- Either a request arrives in one piece, or the kernel takes every reply whole.
  With neither, `client_write` may find a request read in part and drop it
  (MCRtuDiscard). `rtu_lockstep` is an instance of the first alternative,
  `rtu_serves` (but for its late answers) of the second.

`LockstepInv` ties what the client wrote (`script`, `written`), what the worker
took (`base`, `req_len`), what went over the line (`hist`) and what was sent (`out`)
together by one number, `Current(s)`: the request that is being answered, or the
next one.

- `Contiguous`: frame follows frame, so that a position belongs to one of them.
- `Sending`: replies are numbered, all but the last are complete, and a client is
  at most one request ahead of what it has read.
- `Starting`: before takeover there is nothing anywhere.
- `Bridged`: the accumulator starts where the current request does (`Placed`); a
  request without a reply is the client's last and, when the worker turns away
  from it, not complete (`Reading`); what is performed and answered is that
  request as it was written (`Taken`); while a reply is sent the client does not
  write, so the bridge does not read (`Replying`).
- `Own`, `Performed`: each answer in `out` is the one in `hist` for that frame, and
  each entry of `hist` has its reply or is in progress.
- `Calm`: if the kernel takes any reply whole, no send ever blocks.
- `Awaited`: a slave owes an answer only to the transaction that is waited for.
  This is where sessions meet: the answer `Confirm` takes from the queue belongs
  to the running session because no other can have left one.

`HeldIsCurrent` is the step in which the bytes of the accumulator turn out to be
the current frame. For the refinement, `CountsAgree` replaces the mapping's
cardinalities by numbers the bridge has itself (`Whole`, `Times`, `Answered`); then
`AskStep`, `PerformStep`, `AnswerStep` and `OtherStep` show which steps change which
count.

### Configuration

`ModbusConfig_proofs`, under `NullAssumption` and `ConfigAssumption` (the types of
directive arguments), with and without `RtuBuilt`.

| theorem | says |
|---|---|
| `ConfigInvariance` | `Spec => []Inv` |
| `ConfigTypes` | `Spec => []TypeOK` |
| `RoutesLackRatesOnly` | `Spec => []OnlyRatesGoUnchecked`: each route is tcp with a host, or rtu on a line that libmodbus takes but for a rate of 0, with the parity declared |
| `RoutesAreServable` | if `LineValues` has no rate of 0: `Spec => []LoadedRoutesAreServable` |
| `DenialsAreDeclared` | `Spec => []DenialIsAsDeclared` |
| `RoutesStay` | `Spec => RoutesAreStable` |

`Inv` relates `conf` to the history of declarations: the blocks are the accepted
declarations one by one, the default block is the last one that may be a default
(which is why it may differ from the block that unit 0 finds), and a server that
merge has completed passed its checks. The rate is in none of them, hence the
assumption of `RoutesAreServable`; MCConfigBaud is the counterexample without it.
`FirstIsFound` is about `FindLocation` and
`TokensHaveTheirBit` about the bits of the mask.

### xbcast

`Xbcast_proofs`, under `XbcastAssumption` (at least one configuration, each with at
least one worker, and room for a message).

| theorem | says |
|---|---|
| `BroadcastInvariance` | `Spec => []Inv` |
| `IndexesAreInBounds` | `Spec => []TypeOK`, which bounds the indexes by the size of the array each process inherited |
| `RefinesDoorbell` | `Spec => DB!Init /\ [][DB!Next]_DB!vars` |

`Inv` says that a process has a number only if its own array has a pair for it,
that the loop's index stays within that array's size, and that before a reload
there is one array, of the first configuration's size. That last part is what
the refinement rests on; it is lost with the reload, where `on` ends.

### TCP path

`ModbusSession_proofs`, under `NullAssumption` and `SessionAssumption`. Two theorems
assume `NoTimedName`: no request reaches a block with a timeout whose host is a
name. They need it: `session_names` is the counterexample without it.

| theorem | says |
|---|---|
| `SessionTypes` | `Spec => []TypeOK` |
| `SessionsLeaveNothing` | `NoTimedName` implies `Spec => []NothingOutlivesTheSession` |
| `BackendsAreRoutes` | `NoTimedName` implies `Spec => []BackendIsTheRoute` |

The invariant `Inv` of the last two has two parts per session. `Held` says that
only a session in the proxy has a timer, a query or a connection, and that a
timed one has no query; without the second half the timeout handler's short way
out, which closes the session and leaves the query, would break the first.
`Routed` says that a session in the proxy has read its header and holds the
location of its unit, so that what `Resolved` and `Connected` do later is still
what `Preread` decided. Since every action touches one session, `OneSession` reduces
the preservation of `Inv` to that session; `Closing`, `EarlyClosing`, `ProxyClosing`
and `Staying` are the four ways an action can treat it. `TypeInv`, the invariant of
`SessionTypes`, holds without `NoTimedName`: what a closed session leaves behind
has its type all the same.

### auth_body and the content handlers

`HttpLocation_proofs`, under `HttpAssumption`: the types of routes, bodies and
answers, a redirect is never the last location, NULL is none of the values it
stands for the absence of (a flag, a string, a set of variables, a ctx), the
text of a body's length fits in the 20 octets of an off_t, and `Empty` is a string
other than `"off"`. The empty string is a constant because the provers have no
literal for it; the runs give it its value.

| theorem | says |
|---|---|
| `RequestInvariance` | `Spec => []Inv` |
| `RequestTypes` | `Spec => []TypeOK` |
| `RefusalsThatPass` | `Spec => []OnlyUnmaskedRefusalsPass`: content of a protected location comes after this location's own 2xx, or after an unmasked 401 |
| `MaskedContentIsAuthorized` | if no location of a route unmasks answers: `Spec => []ContentIsAuthorized` |
| `RefusalsReachTheClient` | `Spec => []RefusalsKeepTheirStatus`: the status of the header is that of the first refusal |
| `HandlersFindVariables` | `Spec => []VariablesSurviveRedirects` |
| `ReferencesAreReleasedOnce` | `Spec => []ReleasedOnce` |
| `DeclaredLengthIsSent` | `Spec => []LengthIsAsDeclared`, which for the dump module is about a body in one buffer in memory |

`MaskedContentIsAuthorized` needs its assumption: `auth_refused` is the
counterexample without it.

Handlers are operators, so the proof has two layers. The lemmas of the first say
what each call and each handler makes of a request: `Follows` describes what may
be left of a request after a call that finalizes it, `GoesOn` after one whose
handler goes on with a return code, `Sound` what header and body have to do with
each other. The second shows that the phases
keep `Inv`: `Holds` says who holds a reference at each point (in a phase the request
itself, while the access phase waits the subrequest too), `Asks` that the ctx is
the one of the current location, and `Authorizes`, `SetsVariables` and `Refuses` carry
the three promises from location to location.

Blocks and bodies are evaluated by recursive functions (`Block`, `AuthCalls`,
`Total`). A recursive function is a CHOOSE, and what it computes is only known
once a solution exists. `NumberFacts!Recursion` gives one, for a set V that the
steps stay in, and `NumberFacts!Induction` carries a property along it; both are
stated of sets and functions, so that no operator has to be instantiated. This
is how `Says` ties a merged configuration to the directives of its blocks.

### Only model-checked

- Liveness, which is beyond the proof system: `ClosesAreNoticed`,
  `TimedSessionsEnd`, `CapEndsTheSession`, `RequestsEnd`, and the liveness halves of
  `RequestReply` and `Doorbell`, that is `ImplementsRequestReply` and
  `ImplementsDoorbell` as a whole.
- `RequestReply` for clients outside of `Lockstep`: false for some of them
  (section 7). Where in between the border lies has not been settled; see the plan.

## 7. Where the code and its documentation disagree

Each is a run that TLC ends with a counterexample; PROJECT.json quotes the line
that is contradicted.

- `rtu_twice`: while a reply is blocked, the read handler is still `client_read`
  and the served frame is still in `req`. A read event performs it again and
  rebuilds the reply under its own partial send.
- `xbcast_reload`: the array of descriptors lives in the pool of the first
  configuration, which is destroyed after the next one is loaded.
- `session_names`: while a timed block's host name is looked up there is no
  upstream connection, so the timeout handler finalizes the session without the
  proxy. Nobody cancels the query, and the resolver calls back with the freed
  session.
- `auth_allowed`: a request the service has allowed may not get to its content:
  the access handler tests the header pointer `sr`, which it sets for 401 and 403
  only, for every other status. What it finds on the stack decides whether the
  worker dies.
- `auth_refused`: with `auth_request_mask_body off` the access handler sends a 401
  itself and returns what the output filter returned. NGX_OK lets the request go
  on to its content handler. The client sees the 401; the handler runs all the
  same. `OnlyUnmaskedRefusalsPass` says that this is the only way past a refusal.

Kept as configurations, not among the runs of PROJECT.json; each ends with a
counterexample:

- `MCConfigBaud` (`LoadedRoutesAreServable`): a rate is never checked. A file with a
  rate of 0 is loaded, where the gateway's README says that invalid values are
  rejected at `nginx -t`, and every request on that line is answered by an
  exception.
- `MCRtuDeny` (`DeniedOpsNeverReachTheLine`): `deny_ops` is applied to the first
  request of a connection only.
- `MCRtuDiscard` (`OnlyServedBytesAreDropped`): `client_write` calls `client_send`
  whether or not a reply is pending, and its reset drops a request read in part.
- `MCRtuPipelined` (`RequestsAreAnswered`): `recv` is asked for exactly one frame; a
  second one reported by the same edge-triggered event stays unread until
  something else arrives.
- `MCRtuSeed` (`OnlyWrittenFramesArePerformed`): prebuffered bytes beyond 260 are
  dropped and the cut request is completed from the middle of the stream.
- `MCSessionCap` (`CapLastsForTheSession`): the timeout handler marks the client's read
  event as timed out. With `proxy_upload_rate` the proxy takes this for the end of
  a delay: the session goes on and its timer is gone. (`CapEndsTheSession` is about
  the other sessions.)

Disagreements met while modelling that no run is spent on:

- `deny_ops` is tested with `1UL << fc` for fc up to 127; on the usual machines the
  shift wraps, so that function code 69 is denied with `write_coil` (69 = 5 + 64).
  `OpBit` models it; `DenialIsAsDeclared` is about codes that have a token.
- `modbus 0` and `modbus default` are one setting, but unit 0 finds the first such
  block and unknown units the last.
- The gateway's README says that a server without blocks inherits those of the
  enclosing or previous configuration; `modbus` is only allowed inside a server,
  so there is none to inherit.
- A close that is reported together with a request is not read, and the session
  stays until its timeout (`ClosesAreNoticed` with `HalfClose` TRUE fails).
- RTU answers carry no transaction id: an answer that arrives after the flush of
  the next request to the same slave is taken for its answer
  (`AnswersAreTheClientsOwn` with `LateAnswers` TRUE fails).
- xbcast: a comment says a worker number beyond the size of the array should not
  happen; a reload with more workers makes it happen, and that worker stays
  deaf. The README says worker i is the only reader of its pair; after a reload
  the old and the new worker i both are, until the old one exits.
- A comment in the preread handler speaks of a header of 7 bytes; it waits for 8,
  which it needs to read the function code.
- An unmasked 401 whose output is blocked returns NGX_AGAIN, which leaves the
  request in the access phase, where it hangs if the service answered without
  upstream (`RequestsEnd` excludes it). `WWW-Authenticate` is copied neither for a
  masked nor for an unmasked 401.
- 02 and 03: the callback and the handler both send a last buffer, while a comment
  in each handler (02:123, 03:92) says that there will be no more buffers in the
  request. With a body that is still on its way, the handler's own answer takes
  the read handler, the callback never runs, and its reference is never released.
  A blocked response that holds a second reference leaks as well. `RequestsEnd`
  excludes these.
- 02 and 03 answer a HEAD request with a body from the handler.
- 03 declares the length of the whole body, files included, and sends what its last
  buffer holds in memory: a body that was split between buffers is cut, and of one
  that nginx saved to a file only a line feed is sent (`LengthIsAsDeclared` is about
  one buffer in memory). With no body it sends text it never set. Its reply buffer
  is always one octet too small.
- 04 returns NGX_DONE, which leaves the session to a handler that is not there: it
  stays open.

## 8. Not modelled

- *Several workers on one serial line*: `mb` is per worker, so two workers
  collide on the device. The gateway's README describes a setup with
  `master_process off`, which has one worker, as `ModbusRtu` does.
- *Inside libmodbus*: its calls return. With `MODBUS_ERROR_RECOVERY_LINK` they may
  block for as long as the device is gone.
- *Allocation failures*, except where the code has a distinct reaction to them.
- *xbcast's read error branch*: every process holds both ends of every pair, so
  `recvmsg` finds neither end of file nor an error. Messages are written by one
  `sendmsg` and taken as whole.
- *Inside nginx*: the stream proxy, the resolver, finalization and the phases are
  modelled as far as the modules use them, and marked external in PROJECT.json.
  A header alone is taken not to block: it waits in nginx's buffer for its body.
  `satisfy any` and other access handlers are left out.
- *The body of an authorization answer*: how many buffers of it an unmasked 401
  copies. Its length is not declared, so no property could tell.
- *Stream echo*: one handler without state across calls; its two defects (hazards
  in PROJECT.json) are there on every call.
- *Build scripts*: no state.

## 9. Plan

Done, in the order of importance: `ModbusLocations`, `ModbusConfig`, `ModbusRtu` with
`RequestReply`, `Xbcast` with `Doorbell`, `ModbusSession`, `AuthRequest` and
`ContentExamples` in `HttpLocation`; proofs of every safety property of the passing
runs, and of the safety half of both refinements.

Left:

1. Several workers on one line, as a composition of two bridges with one line.
2. A weaker hypothesis than `Lockstep`: a client may write ahead as long as no reply
   is ever blocked and what is prebuffered fits 260 bytes. MCRtuPipelined, a
   liveness failure, does not contradict the safety theorems there.
3. `LateAnswers` with slaves that are all different: an answer that is late is then
   turned away by its unit, and `OwnAnswers` may hold for one request per slave.
