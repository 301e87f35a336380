------------------------------ MODULE ModbusRtu ------------------------------
(***************************************************************************)
(* The RTU bridge of the Modbus gateway: one nginx worker that serves      *)
(* several client connections and one serial line.                         *)
(*                                                                         *)
(* A client writes Modbus/TCP requests into its connection; the preread    *)
(* handler routes the connection by its first request and, for an rtu      *)
(* unit, takes it over.  From then on client_read accumulates one frame,   *)
(* rtu_transaction performs it on the serial line (a blocking call), and   *)
(* client_send writes the reply.                                           *)
(*                                                                         *)
(* The worker runs one handler at a time, to completion: run is the        *)
(* session whose handler is running and pc the function it is in.  Each    *)
(* recv, send and serial call is a step of its own, so that clients and    *)
(* slaves act between them; no other handler runs until run is NULL again. *)
(*                                                                         *)
(* Bytes are counted, not stored: a client's stream is the concatenation   *)
(* of the frames in its script, and a buffer is an interval of positions   *)
(* in that stream.  Byte gives the value at a position.                    *)
(***************************************************************************)
EXTENDS ModbusLocations, FiniteSets

CONSTANTS
  Sessions,    \* client connections to one server{} of one worker
  Blocks,      \* that server's blocks, in file order
  Default,     \* its default_location, NULL if there is none
  Requests,    \* the frames clients send: [unit, fc, len, proto]
  Chunks,      \* sizes in which a client may write the start of a frame
  Rets,        \* lengths modbus_receive_confirmation returns for an answer
  MaxReq,      \* bound: requests per connection
  Window,      \* requests a client sends ahead of the replies it has read
  MaxRead,     \* bound: replies begun after which a client stops reading
  SndBuf,      \* bytes of replies the kernel queues before send says EAGAIN
  HalfClose,   \* clients may shut down or reset at any time
  LateAnswers  \* a slave may answer after response_timeout

MBAP_LEN == 7    \* NGX_MODBUS_MBAP_LEN
ADU_MAX == 260   \* NGX_MODBUS_ADU_MAX
LENGTH_MAX == 6 + 256 * 256 - 1   \* what the 16-bit length field can announce
RTU_MAX == 256   \* MODBUS_RTU_MAX_ADU_LENGTH, the size of a serial frame

ASSUME RtuAssumption ==
  /\ NULL \notin Sessions
  /\ Blocks \in Seq(Locations) /\ Default \in Locations \cup {NULL}
  /\ Requests \subseteq [unit : Octets, fc : Octets, len : 6..LENGTH_MAX, proto : {0, 1}]
  /\ Chunks \subseteq Nat \ {0}
  /\ Rets \subseteq 3..RTU_MAX
  /\ MaxReq \in Octets    \* transaction ids in their low byte
  /\ MaxRead \in Nat /\ Window \in Nat /\ SndBuf \in Nat \ {0}
  /\ HalfClose \in BOOLEAN /\ LateAnswers \in BOOLEAN

VARIABLES
  \* the client
  script,    \* the frames it has begun to write, each with its position "at"
  written,   \* bytes it has written
  peer,      \* "open", "shut" (it sent FIN) or "reset"
  seen,      \* replies it has read in full
  \* its connection in the kernel
  ready,     \* the socket is on epoll's ready list
  queued,    \* reply bytes it has not read yet
  wactive,   \* the write event was added to epoll
  \* the session
  phase,     \* "preread", "bridge", "proxied" or "closed"
  buffered,  \* bytes in the preread buffer c->buffer
  loc_conf, req_len, req_need, rsp, rsp_len, rsp_sent,   \* the ctx
  base,      \* bytes that were in the accumulator before those it holds now
  lost,      \* bytes of the preread buffer that did not fit in the accumulator
  \* the worker
  run, pc,
  wnext,     \* the write handler runs once the read handler returns
  mb,        \* mgcf->mb: "closed" (NULL) or "open"
  \* the serial line
  hist,      \* the transactions sent on the line, in order
  owed,      \* those a slave is still going to answer
  inq,       \* answers in the input queue of the serial device
  out        \* what send accepted: the replies, with the bytes sent of each

clientVars == <<script, written, peer, seen>>
kernelVars == <<ready, queued, wactive>>
frameVars  == <<loc_conf, base, lost, req_len, req_need>>
replyVars  == <<rsp, rsp_len, rsp_sent>>
workerVars == <<run, pc, wnext>>
lineVars   == <<mb, hist, owed, inq>>
vars == <<clientVars, kernelVars, phase, buffered, frameVars, replyVars,
          workerVars, lineVars, out>>

Least(a, b) == IF a < b THEN a ELSE b

NoReply == [k |-> 0, res |-> 0, ans |-> 0]

Init ==
  /\ script = [s \in Sessions |-> <<>>]
  /\ written = [s \in Sessions |-> 0]
  /\ peer = [s \in Sessions |-> "open"]
  /\ seen = [s \in Sessions |-> 0]
  /\ ready = [s \in Sessions |-> FALSE]
  /\ queued = [s \in Sessions |-> 0]
  /\ wactive = [s \in Sessions |-> FALSE]
  /\ phase = [s \in Sessions |-> "preread"]
  /\ buffered = [s \in Sessions |-> 0]
  /\ loc_conf = [s \in Sessions |-> NULL]
  /\ base = [s \in Sessions |-> 0]
  /\ lost = [s \in Sessions |-> 0]
  /\ req_len = [s \in Sessions |-> 0]
  /\ req_need = [s \in Sessions |-> 0]
  /\ rsp = [s \in Sessions |-> NoReply]
  /\ rsp_len = [s \in Sessions |-> 0]
  /\ rsp_sent = [s \in Sessions |-> 0]
  /\ run = NULL /\ pc = "idle" /\ wnext = FALSE
  /\ mb = "closed" /\ hist = <<>> /\ owed = {} /\ inq = <<>>
  /\ out = [s \in Sessions |-> <<>>]
-----------------------------------------------------------------------------
(* The byte stream.  A frame has at least a whole MBAP header; the length   *)
(* field says len - 6; the transaction id is the number of the request.     *)

FrameBytes(f) == IF f.len < MBAP_LEN THEN MBAP_LEN ELSE f.len

AllWritten(s) ==
  \A k \in DOMAIN script[s] : script[s][k].at + FrameBytes(script[s][k]) <= written[s]

\* The byte at 1-based offset o of the k-th frame f; payload bytes are 0.
FrameByte(k, f, o) ==
  CASE o = 2 -> k
    [] o = 3 -> f.proto
    [] o = 5 -> (f.len - 6) \div 256
    [] o = 6 -> (f.len - 6) % 256
    [] o = 7 -> f.unit
    [] o = 8 -> f.fc
    [] OTHER -> 0

\* The frame that position p is in; there is exactly one if p was written.
FramesAt(s, p) ==
  {k \in DOMAIN script[s] : /\ script[s][k].at < p
                           /\ p <= script[s][k].at + FrameBytes(script[s][k])}

Byte(s, p) ==
  LET k == CHOOSE i \in FramesAt(s, p) : TRUE
  IN FrameByte(k, script[s][k], p - script[s][k].at)

\* Position in the stream of the i-th byte of the accumulator req.
Position(s, i) ==
  LET p == base[s] + i IN IF p <= ADU_MAX THEN p ELSE p + lost[s]

Req(s, i) == Byte(s, Position(s, i))

\* 6 + the length field of the frame in the accumulator.
Need(s) == 6 + Req(s, 5) * 256 + Req(s, 6)

\* The request the accumulator holds byte for byte, 0 if it is not one of them.
Held(s) ==
  LET ks == {k \in DOMAIN script[s] :
               /\ script[s][k].at = Position(s, 1) - 1
               /\ Position(s, req_need[s]) = Position(s, 1) - 1 + script[s][k].len
               /\ req_need[s] = script[s][k].len}
  IN IF ks = {} THEN 0 ELSE CHOOSE k \in ks : TRUE

InSocket(s) == written[s] - (buffered[s] + base[s] + lost[s] + req_len[s])

Readable(s) == InSocket(s) > 0 \/ peer[s] # "open"
Writable(s) == queued[s] < SndBuf
-----------------------------------------------------------------------------
(* Clients.                                                                 *)

\* Begin request f: write all of it, or only its first n bytes.
ClientRequest(s, f, n) ==
  /\ peer[s] = "open" /\ phase[s] \in {"preread", "bridge"}
  /\ AllWritten(s)
  /\ Len(script[s]) < MaxReq
  /\ Len(script[s]) - seen[s] < Window
  /\ script' = [script EXCEPT ![s] =
       Append(@, [at |-> written[s], unit |-> f.unit, fc |-> f.fc,
                  len |-> f.len, proto |-> f.proto])]
  /\ written' = [written EXCEPT ![s] = @ + Least(n, FrameBytes(f))]
  /\ ready' = [ready EXCEPT ![s] = TRUE]
  /\ UNCHANGED <<peer, seen, queued, wactive, phase, buffered, frameVars,
                 replyVars, workerVars, lineVars, out>>

\* Write the rest of the request begun.
ClientWriteRest(s) ==
  /\ peer[s] = "open" /\ ~AllWritten(s)
  /\ LET f == script[s][Len(script[s])]
     IN written' = [written EXCEPT ![s] = f.at + FrameBytes(f)]
  /\ ready' = [ready EXCEPT ![s] = TRUE]
  /\ UNCHANGED <<script, peer, seen, queued, wactive, phase, buffered, frameVars,
                 replyVars, workerVars, lineVars, out>>

CompleteReplies(s) == {i \in DOMAIN out[s] : out[s][i].sent = out[s][i].len}

\* Read everything that was sent.  A send that ran out of room is woken up.
ClientRead(s) ==
  /\ queued[s] > 0 /\ peer[s] # "reset" /\ Len(out[s]) <= MaxRead
  /\ queued' = [queued EXCEPT ![s] = 0]
  /\ seen' = [seen EXCEPT ![s] = Cardinality(CompleteReplies(s))]
  /\ ready' = [ready EXCEPT ![s] = @ \/ (wactive[s] /\ ~Writable(s))]
  /\ UNCHANGED <<script, written, peer, wactive, phase, buffered, frameVars,
                 replyVars, workerVars, lineVars, out>>

\* Close: between requests, or at any time if HalfClose.
ClientClose(s) ==
  /\ peer[s] = "open"
  /\ \E how \in {"shut", "reset"} :
       /\ \/ HalfClose
          \/ how = "shut" /\ AllWritten(s) /\ seen[s] = Len(script[s])
       /\ peer' = [peer EXCEPT ![s] = how]
  /\ ready' = [ready EXCEPT ![s] = TRUE]
  /\ UNCHANGED <<script, written, seen, queued, wactive, phase, buffered, frameVars,
                 replyVars, workerVars, lineVars, out>>
-----------------------------------------------------------------------------
(* The worker.                                                              *)

\* Mutant: handlers of other sessions run during the serial round trip.
MutIdleAlways == TRUE

Idle == run = NULL
Running(s, fn) == run = s /\ pc = fn

\* The handler returns; if epoll reported both events, the write handler is next.
Return ==
  IF wnext
  THEN /\ pc' = "send" /\ wnext' = FALSE /\ UNCHANGED run
  ELSE /\ run' = NULL /\ pc' = "idle" /\ UNCHANGED wnext

\* ngx_stream_finalize_session: the session and its connection are gone, and
\* with them the write event that was still to be handled.
Finalize(s) ==
  /\ phase' = [phase EXCEPT ![s] = "closed"]
  /\ ready' = [ready EXCEPT ![s] = FALSE]
  /\ run' = NULL /\ pc' = "idle" /\ wnext' = FALSE

RtuRouted(id) ==
  LET loc == FindLocation(Blocks, Default, id) IN loc # NULL /\ loc.mode = "rtu"

\* Mutant: the bytes prebuffered are not cut to the size of req.
MutSeedAll(n) == n

\* How many of the n prebuffered bytes go into req.
Seed(n) == Least(n, ADU_MAX)

Takeover(s, n, loc) ==
  /\ loc_conf' = [loc_conf EXCEPT ![s] = loc]
  /\ req_len' = [req_len EXCEPT ![s] = Seed(n)]
  /\ lost' = [lost EXCEPT ![s] = n - Seed(n)]
  /\ buffered' = [buffered EXCEPT ![s] = 0]
  /\ phase' = [phase EXCEPT ![s] = "bridge"]
  /\ run' = s /\ pc' = "read"
  /\ UNCHANGED <<base, req_need, wnext>>

\* The preread phase: nginx fills c->buffer with all that has arrived, then
\* calls ngx_stream_modbus_proxy_preread, which picks the session's fate.
Preread(s) ==
  /\ Idle /\ ready[s] /\ phase[s] = "preread"
  /\ LET n == buffered[s] + InSocket(s)
         loc == FindLocation(Blocks, Default, Byte(s, 7))
         verdict == Verdict(loc, Byte(s, 8))
     IN \/ /\ n < 8 /\ peer[s] = "open"
           /\ buffered' = [buffered EXCEPT ![s] = n]
           /\ ready' = [ready EXCEPT ![s] = FALSE]
           /\ UNCHANGED <<phase, frameVars, workerVars>>
        \/ /\ IF n < 8 THEN peer[s] # "open" ELSE verdict = "close"
           /\ Finalize(s)
           /\ UNCHANGED <<buffered, frameVars>>
        \/ /\ n >= 8 /\ verdict = "proxy"
           /\ phase' = [phase EXCEPT ![s] = "proxied"]
           /\ buffered' = [buffered EXCEPT ![s] = n]
           /\ ready' = [ready EXCEPT ![s] = FALSE]
           /\ loc_conf' = [loc_conf EXCEPT ![s] = loc]
           /\ UNCHANGED <<base, lost, req_len, req_need, workerVars>>
        \/ /\ n >= 8 /\ verdict = "bridge"
           /\ Takeover(s, n, loc)
           /\ ready' = [ready EXCEPT ![s] = FALSE]
  /\ UNCHANGED <<clientVars, queued, wactive, replyVars, lineVars, out>>

\* preread_timeout of nginx: a client that sends no whole header is dropped.
PrereadTimeout(s) ==
  /\ Idle /\ ~ready[s] /\ phase[s] = "preread"
  /\ Finalize(s)
  /\ UNCHANGED <<clientVars, queued, wactive, buffered, frameVars, replyVars,
                 lineVars, out>>

\* epoll is edge-triggered: a socket is reported once per wake-up, with every
\* condition that holds then, and nginx calls the read handler first.
Dispatch(s) ==
  /\ Idle /\ ready[s] /\ phase[s] = "bridge"
  /\ ready' = [ready EXCEPT ![s] = FALSE]
  /\ \/ /\ Readable(s)
        /\ run' = s /\ pc' = "read" /\ wnext' = (wactive[s] /\ Writable(s))
     \/ /\ ~Readable(s) /\ wactive[s] /\ Writable(s)
        /\ run' = s /\ pc' = "send" /\ UNCHANGED wnext
     \/ /\ ~Readable(s) /\ ~(wactive[s] /\ Writable(s))
        /\ UNCHANGED workerVars
  /\ UNCHANGED <<clientVars, queued, wactive, phase, buffered, frameVars,
                 replyVars, lineVars, out>>

\* Mutant: the cap only closes a session that has nothing in progress.
MutSessionTimeoutIdle(s) ==
  /\ Idle /\ phase[s] = "bridge" /\ loc_conf[s].timeout
  /\ req_len[s] = 0
  /\ Finalize(s)
  /\ UNCHANGED <<clientVars, queued, wactive, buffered, frameVars, replyVars,
                 lineVars, out>>

\* ngx_stream_modbus_proxy_timeout_handler: no upstream exists on this path.
SessionTimeout(s) ==
  /\ Idle /\ phase[s] = "bridge" /\ loc_conf[s].timeout
  /\ Finalize(s)
  /\ UNCHANGED <<clientVars, queued, wactive, buffered, frameVars, replyVars,
                 lineVars, out>>
-----------------------------------------------------------------------------
(* ngx_stream_modbus_client_read: one action per turn of its loop.          *)

HeaderRead(s) == req_len[s] >= MBAP_LEN

\* req_need as it is after the loop has looked at the length field.
NeedNow(s) == IF HeaderRead(s) THEN Need(s) ELSE req_need[s]

\* Mutant: no upper limit on the length field.
MutBadLengthShort(n) == n < MBAP_LEN

BadLength(n) == n < MBAP_LEN \/ n > ADU_MAX
FrameRead(s) == HeaderRead(s) /\ req_len[s] >= Need(s)

Want(s) == IF HeaderRead(s) THEN Need(s) - req_len[s] ELSE MBAP_LEN - req_len[s]

ReadBadLength(s) ==
  /\ Running(s, "read") /\ HeaderRead(s) /\ BadLength(Need(s))
  /\ req_need' = [req_need EXCEPT ![s] = Need(s)]
  /\ Finalize(s)
  /\ UNCHANGED <<clientVars, queued, wactive, buffered, loc_conf, base, lost,
                 req_len, replyVars, lineVars, out>>

\* Leave the loop with a full frame; a non-zero protocol id ends the session.
ReadFrame(s) ==
  /\ Running(s, "read") /\ FrameRead(s) /\ ~BadLength(Need(s))
  /\ req_need' = [req_need EXCEPT ![s] = Need(s)]
  /\ IF Req(s, 3) # 0 \/ Req(s, 4) # 0
     THEN Finalize(s)
     ELSE pc' = "transact" /\ UNCHANGED <<run, wnext, phase, ready>>
  /\ UNCHANGED <<clientVars, queued, wactive, buffered, loc_conf, base, lost,
                 req_len, replyVars, lineVars, out>>

\* Mutant: recv returning 0 is taken for NGX_AGAIN.
MutRecvEndsNever(s) == FALSE

\* recv finds the connection closed: it returns 0 or NGX_ERROR.
RecvEnds(s) == peer[s] # "open"

\* c->recv(c, req + req_len, want)
ReadRecv(s) ==
  /\ Running(s, "read") /\ ~FrameRead(s) /\ ~(HeaderRead(s) /\ BadLength(Need(s)))
  /\ req_need' = [req_need EXCEPT ![s] = NeedNow(s)]
  /\ \/ /\ InSocket(s) > 0
        /\ req_len' = [req_len EXCEPT ![s] = @ + Least(Want(s), InSocket(s))]
        /\ UNCHANGED <<phase, ready, workerVars>>
     \/ /\ InSocket(s) = 0 /\ ~RecvEnds(s)      \* NGX_AGAIN
        /\ Return
        /\ UNCHANGED <<req_len, phase, ready>>
     \/ /\ InSocket(s) = 0 /\ RecvEnds(s)
        /\ Finalize(s)
        /\ UNCHANGED req_len
  /\ UNCHANGED <<clientVars, queued, wactive, buffered, loc_conf, base, lost,
                 replyVars, lineVars, out>>
-----------------------------------------------------------------------------
(* ngx_stream_modbus_rtu_transaction.                                       *)

\* Put a reply in rsp and call client_send.
Reply(s, res, ans, len) ==
  /\ rsp' = [rsp EXCEPT ![s] = [k |-> Req(s, 2), res |-> res, ans |-> ans]]
  /\ rsp_len' = [rsp_len EXCEPT ![s] = len]
  /\ rsp_sent' = [rsp_sent EXCEPT ![s] = 0]
  /\ pc' = "send"
  /\ UNCHANGED <<run, wnext>>

GATEWAY_PATH == 10     \* 0x0A
GATEWAY_TARGET == 11   \* 0x0B
Exception(s, exc) == Reply(s, exc, 0, 9)

TransactUnchanged ==
  UNCHANGED <<clientVars, kernelVars, phase, buffered, frameVars, out>>

NoRtuBackend(s) ==
  /\ Running(s, "transact") /\ ~RtuRouted(Req(s, 7))
  /\ Exception(s, GATEWAY_PATH)
  /\ UNCHANGED lineVars
  /\ TransactUnchanged

OpenFails(s) ==
  /\ Running(s, "transact") /\ RtuRouted(Req(s, 7)) /\ mb = "closed"
  /\ Exception(s, GATEWAY_TARGET)
  /\ UNCHANGED lineVars
  /\ TransactUnchanged

\* The link is open, if need be by rtu_open, and the send fails: libmodbus
\* refuses a raw request of one byte, and the device may report an error.
SendFails(s) ==
  /\ Running(s, "transact") /\ RtuRouted(Req(s, 7))
  /\ mb' = "closed" /\ inq' = <<>>
  /\ Exception(s, GATEWAY_TARGET)
  /\ UNCHANGED <<hist, owed>>
  /\ TransactUnchanged

\* mgcf->mb is opened if it is NULL.
LinkOpen == mb' = "open"

\* modbus_flush and modbus_send_raw_request; the slave may be silent.
SendRequest(s) ==
  /\ Running(s, "transact") /\ RtuRouted(Req(s, 7))
  /\ req_need[s] > MBAP_LEN
  /\ LinkOpen /\ inq' = <<>>
  /\ hist' = Append(hist, [s |-> s, k |-> Held(s), unit |-> Req(s, 7), fc |-> Req(s, 8)])
  /\ owed' \in {owed, owed \cup {Len(hist) + 1}}
  /\ pc' = "confirm"
  /\ UNCHANGED <<run, wnext, replyVars>>
  /\ TransactUnchanged

\* modbus_receive_confirmation returns an answer in the device's input queue:
\* the addressed slave's, another's (0 bytes), or one with a bad CRC, after
\* which MODBUS_ERROR_RECOVERY_PROTOCOL flushes the queue.
Confirmed(s) ==
  /\ Running(s, "confirm") /\ inq # <<>> /\ hist[Head(inq)].unit = Req(s, 7)
  /\ \E ret \in Rets : Reply(s, 0, Head(inq), MBAP_LEN + ret - 3)
  /\ inq' = Tail(inq)
  /\ UNCHANGED <<mb, hist, owed>>
  /\ TransactUnchanged

ShortReply(s) ==
  /\ Running(s, "confirm") /\ inq # <<>> /\ hist[Head(inq)].unit # Req(s, 7)
  /\ Exception(s, GATEWAY_TARGET)
  /\ inq' = Tail(inq)
  /\ UNCHANGED <<mb, hist, owed>>
  /\ TransactUnchanged

BadCrc(s) ==
  /\ Running(s, "confirm") /\ inq # <<>>
  /\ Exception(s, GATEWAY_TARGET)
  /\ inq' = <<>>
  /\ UNCHANGED <<mb, hist, owed>>
  /\ TransactUnchanged

\* response_timeout, or another error: the link is closed and freed.
NoConfirmation(s) ==
  /\ Running(s, "confirm") /\ inq = <<>>
  /\ LateAnswers \/ owed = {}
  /\ mb' = "closed"
  /\ Exception(s, GATEWAY_TARGET)
  /\ UNCHANGED <<hist, owed, inq>>
  /\ TransactUnchanged

\* A slave answers; nothing is queued while the device is closed.
SlaveAnswers(x) ==
  /\ x \in owed
  /\ owed' = owed \ {x}
  /\ inq' = IF mb = "open" THEN Append(inq, x) ELSE inq
  /\ UNCHANGED <<clientVars, kernelVars, phase, buffered, frameVars, replyVars,
                 workerVars, mb, hist, out>>
-----------------------------------------------------------------------------
(* ngx_stream_modbus_client_send, also called by client_write.              *)

SendOk(s) ==
  /\ Running(s, "send") /\ rsp_sent[s] < rsp_len[s] /\ peer[s] # "reset" /\ Writable(s)
  /\ LET n == Least(SndBuf - queued[s], rsp_len[s] - rsp_sent[s])
         started == [k |-> rsp[s].k, res |-> rsp[s].res, ans |-> rsp[s].ans,
                     len |-> rsp_len[s], sent |-> n]
     IN /\ queued' = [queued EXCEPT ![s] = @ + n]
        /\ rsp_sent' = [rsp_sent EXCEPT ![s] = @ + n]
        /\ out' = [out EXCEPT ![s] =
             IF rsp_sent[s] = 0 THEN Append(out[s], started)
             ELSE [out[s] EXCEPT ![Len(out[s])].sent = @ + n]]
  /\ UNCHANGED <<clientVars, ready, wactive, phase, buffered, frameVars, rsp,
                 rsp_len, workerVars, lineVars>>

\* Mutant: a blocked reply is sent again from its start.
MutSendAgainRestarts(s) ==
  /\ Running(s, "send") /\ rsp_sent[s] < rsp_len[s] /\ peer[s] # "reset" /\ ~Writable(s)
  /\ wactive' = [wactive EXCEPT ![s] = TRUE]
  /\ ready' = [ready EXCEPT ![s] = @ \/ (~wactive[s] /\ Readable(s))]
  /\ rsp_sent' = [rsp_sent EXCEPT ![s] = 0]
  /\ Return
  /\ UNCHANGED <<clientVars, queued, phase, buffered, frameVars, rsp, rsp_len,
                 lineVars, out>>

\* Mutant: the write event is not asked for.
MutNoWriteEvent(s) == UNCHANGED wactive

\* ngx_handle_write_event
HandleWriteEvent(s) == wactive' = [wactive EXCEPT ![s] = TRUE]

\* NGX_AGAIN: adding the write event makes epoll look at the socket again.
SendAgain(s) ==
  /\ Running(s, "send") /\ rsp_sent[s] < rsp_len[s] /\ peer[s] # "reset" /\ ~Writable(s)
  /\ HandleWriteEvent(s)
  /\ ready' = [ready EXCEPT ![s] = @ \/ (~wactive[s] /\ Readable(s))]
  /\ Return
  /\ UNCHANGED <<clientVars, queued, phase, buffered, frameVars, replyVars,
                 lineVars, out>>

SendError(s) ==
  /\ Running(s, "send") /\ rsp_sent[s] < rsp_len[s] /\ peer[s] = "reset"
  /\ Finalize(s)
  /\ UNCHANGED <<clientVars, queued, wactive, buffered, frameVars, replyVars,
                 lineVars, out>>

\* Mutants: the frame just served stays in the accumulator; one byte of it
\* does.
MutLeftoverAll(s) == req_len[s]
MutLeftoverOneMore(s) == IF req_len[s] >= req_need[s] THEN req_len[s] - req_need[s] + 1 ELSE 0

\* Nothing (more) to send: keep the bytes past the frame and read on.
Leftover(s) == IF req_len[s] > req_need[s] THEN req_len[s] - req_need[s] ELSE 0

SendDone(s) ==
  /\ Running(s, "send") /\ rsp_sent[s] >= rsp_len[s]
  /\ base' = [base EXCEPT ![s] = @ + req_len[s] - Leftover(s)]
  /\ req_len' = [req_len EXCEPT ![s] = Leftover(s)]
  /\ req_need' = [req_need EXCEPT ![s] = 0]
  /\ rsp_len' = [rsp_len EXCEPT ![s] = 0]
  /\ rsp_sent' = [rsp_sent EXCEPT ![s] = 0]
  /\ IF Leftover(s) > 0
     THEN pc' = "read" /\ UNCHANGED <<run, wnext>>
     ELSE Return
  /\ UNCHANGED <<clientVars, kernelVars, phase, buffered, loc_conf, lost, rsp,
                 lineVars, out>>
-----------------------------------------------------------------------------
Client(s) ==
  \/ \E f \in Requests, n \in Chunks : ClientRequest(s, f, n)
  \/ ClientWriteRest(s)
  \/ ClientRead(s)
  \/ ClientClose(s)

EventLoop(s) == Preread(s) \/ Dispatch(s)

Handler(s) ==
  \/ ReadBadLength(s) \/ ReadFrame(s) \/ ReadRecv(s)
  \/ NoRtuBackend(s) \/ OpenFails(s) \/ SendFails(s) \/ SendRequest(s)
  \/ Confirmed(s) \/ ShortReply(s) \/ BadCrc(s) \/ NoConfirmation(s)
  \/ SendOk(s) \/ SendAgain(s) \/ SendError(s) \/ SendDone(s)

Timers(s) == PrereadTimeout(s) \/ SessionTimeout(s)

Next ==
  \/ \E s \in Sessions : Client(s) \/ EventLoop(s) \/ Handler(s) \/ Timers(s)
  \/ \E x \in owed : SlaveAnswers(x)

Spec == Init /\ [][Next]_vars

(***************************************************************************)
(* The worker keeps running: the event loop serves every ready socket      *)
(* (strongly fair, since other sessions make the worker busy in between),  *)
(* and expires timers on every turn.  A handler's calls return, also the   *)
(* blocking one.  A slave that is going to answer does, and a client that  *)
(* has replies to read, or the rest of a request to write, goes on.        *)
(***************************************************************************)
Fairness ==
  /\ \A s \in Sessions :
       /\ SF_vars(EventLoop(s))
       /\ WF_vars(Handler(s))
       /\ SF_vars(SessionTimeout(s))
       /\ WF_vars(ClientWriteRest(s)) /\ WF_vars(ClientRead(s))
  /\ WF_vars(\E x \in owed : SlaveAnswers(x))

FairSpec == Spec /\ Fairness
-----------------------------------------------------------------------------
(* Properties.                                                              *)

\* What looking up a unit id can give.
Routes == {FindLocation(Blocks, Default, id) : id \in Octets} \cup {NULL}

ScriptFrames == [at : Nat, unit : Octets, fc : Octets, len : 6..LENGTH_MAX, proto : {0, 1}]
Replies == [k : Octets, res : {0, GATEWAY_PATH, GATEWAY_TARGET}, ans : Nat]

\* Every variable the program reads keeps its type; the counters of the ctx stay in the widths of
\* the buffers they index.
TypeOK ==
  /\ script \in [Sessions -> Seq(ScriptFrames)] /\ written \in [Sessions -> Nat]
  /\ peer \in [Sessions -> {"open", "shut", "reset"}]
  /\ ready \in [Sessions -> BOOLEAN] /\ wactive \in [Sessions -> BOOLEAN]
  /\ queued \in [Sessions -> 0..SndBuf]
  /\ phase \in [Sessions -> {"preread", "bridge", "proxied", "closed"}]
  /\ buffered \in [Sessions -> Nat]
  /\ loc_conf \in [Sessions -> Routes]
  /\ base \in [Sessions -> Nat] /\ lost \in [Sessions -> Nat]
  /\ req_len \in [Sessions -> Nat] /\ req_need \in [Sessions -> Nat]
  /\ rsp \in [Sessions -> Replies]
  /\ rsp_len \in [Sessions -> Nat] /\ rsp_sent \in [Sessions -> Nat]
  /\ run \in Sessions \cup {NULL}
  /\ pc \in {"idle", "read", "transact", "confirm", "send"}
  /\ wnext \in BOOLEAN
  /\ mb \in {"closed", "open"}
  /\ hist \in Seq([s : Sessions, k : Nat, unit : Octets, fc : Octets])
  /\ owed \subseteq DOMAIN hist
  /\ inq \in Seq(DOMAIN hist)

\* The inductive invariant.  The gateway has taken no byte that was not written,
\* every written byte belongs to a frame, only the last frame may be unfinished,
\* the worker is in a handler of a bridged
\* session or in none, and what the properties below say of req, of the line,
\* of the first request and of a blocked reply holds of every intermediate state
\* of a handler.
StreamInv(s) ==
  /\ Len(script[s]) <= MaxReq
  /\ \A k \in DOMAIN script[s] :
       /\ script[s][k].at <= written[s]
       /\ k < Len(script[s]) => script[s][k].at + FrameBytes(script[s][k]) <= written[s]
  /\ \A p \in 1..written[s] : FramesAt(s, p) # {}
  /\ buffered[s] + base[s] + lost[s] + req_len[s] <= written[s]

AccumulatorInv(s) ==
  /\ req_len[s] <= ADU_MAX
  /\ pc \in {"transact", "confirm"} /\ run = s
       => MBAP_LEN <= req_need[s] /\ req_need[s] <= req_len[s]
  /\ rsp_sent[s] <= rsp_len[s] /\ rsp_len[s] <= ADU_MAX

\* What is left of a reply is being sent, or the write event is active; and if
\* the socket has room, epoll is about to say so or has just done it.
WakeInv(s) ==
  /\ phase[s] = "preread" => rsp_len[s] = 0
  /\ phase[s] = "bridge" /\ rsp_sent[s] < rsp_len[s] /\ ~Running(s, "send")
       => wactive[s] /\ (Writable(s) => ready[s] \/ (run = s /\ wnext))

WorkerInv ==
  /\ run = NULL <=> pc = "idle"
  /\ run # NULL => phase[run] = "bridge"

LineInv ==
  pc = "confirm" =>
    /\ mb = "open"
    /\ hist # <<>> /\ hist[Len(hist)].s = run
    /\ hist[Len(hist)].unit = Req(run, 7)

Screened(s) ==
  LET loc == FindLocation(Blocks, Default, Byte(s, 7))
  IN /\ loc # NULL /\ loc.mode = "rtu"
     /\ ~Denies(loc, Byte(s, 8))

ScreenInv ==
  /\ \A s \in Sessions : phase[s] = "bridge" => written[s] >= 8 /\ Screened(s)
  /\ \A i \in DOMAIN hist :
       /\ written[hist[i].s] >= 8 /\ Screened(hist[i].s)
       /\ RtuRouted(hist[i].unit)

IndInv ==
  /\ TypeOK
  /\ \A s \in Sessions : StreamInv(s) /\ AccumulatorInv(s) /\ WakeInv(s)
  /\ WorkerInv /\ LineInv /\ ScreenInv

\* Whatever clients send, in whatever pieces and however much ahead, recv and
\* memcpy stay inside req, raw and rsp: the accumulator holds at most ADU_MAX
\* bytes and asks recv for no more than the rest of it, a transaction runs only
\* on a whole frame of a legal length, and a reply fits in rsp.
AccumulatorInBounds ==
  \A s \in Sessions :
    /\ req_len[s] <= ADU_MAX
    /\ Running(s, "read") /\ ~FrameRead(s) /\ ~(HeaderRead(s) /\ BadLength(Need(s)))
         => Want(s) > 0 /\ req_len[s] + Want(s) <= ADU_MAX
    /\ pc \in {"transact", "confirm"} /\ run = s
         => MBAP_LEN <= req_need[s] /\ req_need[s] <= req_len[s]
    /\ rsp_sent[s] <= rsp_len[s] /\ rsp_len[s] <= ADU_MAX

\* The preread handler screens the request that opens a bridge: if its function
\* code is denied, or its unit has no rtu block, nothing of the connection ever
\* reaches the line, however its bytes arrive and whatever follows it.
FirstRequestIsScreened ==
  \A i \in DOMAIN hist : Screened(hist[i].s) /\ RtuRouted(hist[i].unit)

\* Its client was sent a reply to request k, or rsp holds one.
HasReply(s, k) ==
  \/ \E i \in DOMAIN out[s] : out[s][i].k = k
  \/ rsp_len[s] > 0 /\ rsp[s].k = k

\* rtu_transaction: "Always leaves a frame in rctx->rsp".  Sessions share the line
\* one transaction at a time: the worker does not turn to another session, nor
\* put another request on the line, before the last one has its reply, be it an
\* answer or an exception.
TransactionsAreFinished ==
  \A i \in DOMAIN hist :
    LET s == hist[i].s
    IN  \/ phase[s] # "bridge"
        \/ HasReply(s, hist[i].k)
        \/ i = Len(hist) /\ Running(s, "confirm")

\* No wake-up is lost for a reply that is not fully sent: whenever the worker is
\* idle, either the socket has no room and the write event is active, so that
\* the client's next read wakes the session, or epoll is about to report it.
BlockedReplyIsWoken ==
  \A s \in Sessions :
    Idle /\ phase[s] = "bridge" /\ rsp_sent[s] < rsp_len[s]
      => wactive[s] /\ (Writable(s) => ready[s])

\* A reply that carries a slave's answer carries the answer to that very
\* request: same session, same transaction id.  RTU has no transaction ids, so
\* this rests on the flush before each request and on closing the link when an
\* answer did not come.
AnswersAreTheClientsOwn ==
  \A s \in Sessions : \A i \in DOMAIN out[s] :
    out[s][i].res = 0 =>
      /\ hist[out[s][i].ans].s = s
      /\ hist[out[s][i].ans].k = out[s][i].k

\* The stream a client reads is one whole reply per request, in order.
RepliesAreInOrder ==
  \A s \in Sessions : \A i \in DOMAIN out[s] :
    /\ out[s][i].k = i
    /\ i < Len(out[s]) => out[s][i].sent = out[s][i].len

\* No request is performed twice on the line: a write would be repeated.
RequestsArePerformedOnce ==
  \A i, j \in DOMAIN hist :
    hist[i].s = hist[j].s /\ hist[i].k = hist[j].k => i = j

\* Only frames that a client wrote, byte for byte, are performed.
OnlyWrittenFramesArePerformed ==
  \A i \in DOMAIN hist : hist[i].k # 0

\* README, deny_ops: each request's function code is checked before forwarding;
\* a denied op never reaches the backend.
DeniedOpsNeverReachTheLine ==
  \A i \in DOMAIN hist :
    ~Denies(FindLocation(Blocks, Default, hist[i].unit), hist[i].fc)

\* Once the first bytes of a reply were sent, client_send goes on with the same
\* reply: no step replaces what is left of it.
RepliesAreNotRebuilt ==
  [][\A s \in Sessions :
       0 < rsp_sent[s] /\ rsp_sent[s] < rsp_len[s] =>
         /\ rsp'[s] = rsp[s] /\ rsp_len'[s] = rsp_len[s]
         /\ rsp_sent'[s] >= rsp_sent[s]]_vars

Written(s, k) ==
  k \in DOMAIN script[s] /\ script[s][k].at + FrameBytes(script[s][k]) <= written[s]
Settled(s, k) == Cardinality(CompleteReplies(s)) >= k \/ phase[s] # "bridge"

\* Bytes leave the accumulator only as a whole request whose reply was sent.
OnlyServedBytesAreDropped ==
  [][\A s \in Sessions :
       base'[s] # base[s] =>
         /\ req_need[s] > 0 /\ base'[s] = base[s] + req_need[s]
         /\ rsp_len[s] > 0 /\ rsp_sent[s] = rsp_len[s]]_vars

\* Persistent connection: once a connection is bridged, every request the
\* client has written is answered, unless the session ends.
RequestsAreAnswered ==
  \A s \in Sessions, k \in 1..MaxReq :
    (phase[s] = "bridge" /\ Written(s, k)) ~> Settled(s, k)

\* A client that closes its connection has its session closed.
ClosesAreNoticed ==
  \A s \in Sessions :
    (phase[s] = "bridge" /\ peer[s] # "open") ~> (phase[s] # "bridge")

\* A timeout on the block that opened the bridge bounds the session, even one
\* that is stalled or blocked on a client that does not read.
TimedSessionsEnd ==
  \A s \in Sessions :
    (phase[s] = "bridge" /\ loc_conf[s].timeout) ~> (phase[s] = "closed")
-----------------------------------------------------------------------------
(* The bridge implements RequestReply.  A request counts as asked when its  *)
(* last byte is written, as performed when it is sent on the line, and as   *)
(* answered when send has accepted the last byte of its reply.              *)
(* A proxied connection leaves the bridge, as a closed one does.            *)

AbstractAsked ==
  [s \in Sessions |-> Cardinality({k \in DOMAIN script[s] : Written(s, k)})]
AbstractPerformed ==
  [s \in Sessions |-> [k \in 0..MaxReq |->
     Cardinality({i \in DOMAIN hist : hist[i].s = s /\ hist[i].k = k})]]
AbstractAnswered == [s \in Sessions |-> Cardinality(CompleteReplies(s))]
AbstractOpen == {s \in Sessions : phase[s] \in {"preread", "bridge"}}

RR == INSTANCE RequestReply
        WITH asked <- AbstractAsked, performed <- AbstractPerformed,
             answered <- AbstractAnswered, open <- AbstractOpen

\* Every step of the bridge is a step of RequestReply or none of its business,
\* and with the worker's fairness every request gets a reply, or the session
\* ends.
ImplementsRequestReply == RR!Spec
=============================================================================
