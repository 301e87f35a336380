--------------------------- MODULE ModbusRtu_proofs ---------------------------
(***************************************************************************)
(* Proofs about the RTU bridge, for every set of sessions, every server    *)
(* configuration and every client: the inductive invariant IndInv, and     *)
(* from it that buffers are not overrun, that the line is held by one      *)
(* session, and that a connection whose first request is refused never     *)
(* reaches the line.                                                       *)
(***************************************************************************)
EXTENDS ModbusRtu, TLAPS

\* The types of the constants that the steps below need.
LEMMA ConstantTypes ==
  /\ MaxReq \in Octets /\ SndBuf \in Nat \ {0}
  /\ Rets \subseteq 3..RTU_MAX
  /\ Requests \subseteq [unit : Octets, fc : Octets, len : 6..LENGTH_MAX, proto : {0, 1}]
  /\ NULL \notin Sessions
  BY RtuAssumption

\* What TypeOK says of one session.
LEMMA SessionTypes ==
  ASSUME TypeOK, NEW s \in Sessions
  PROVE  /\ script[s] \in Seq(ScriptFrames) /\ written[s] \in Nat
         /\ queued[s] \in 0..SndBuf
         /\ buffered[s] \in Nat /\ base[s] \in Nat /\ lost[s] \in Nat
         /\ req_len[s] \in Nat /\ req_need[s] \in Nat
         /\ rsp_len[s] \in Nat /\ rsp_sent[s] \in Nat
         /\ rsp[s] \in Replies
  BY DEF TypeOK

\* A header or payload byte of a frame is an octet.
LEMMA FrameByteType ==
  ASSUME NEW k \in Octets, NEW f \in ScriptFrames, NEW o \in Nat
  PROVE  FrameByte(k, f, o) \in Octets
<1>1. /\ f.proto \in Octets /\ f.unit \in Octets /\ f.fc \in Octets
  BY DEF ScriptFrames, Octets
<1>2. f.len \in Nat /\ 6 <= f.len /\ f.len <= LENGTH_MAX
  BY DEF ScriptFrames
<1>3. (f.len - 6) \div 256 \in Octets /\ (f.len - 6) % 256 \in Octets
  BY SMT, <1>2 DEF Octets, LENGTH_MAX
<1>4. k \in Octets /\ 0 \in Octets
  BY DEF Octets
<1> QED
  BY <1>1, <1>3, <1>4 DEF FrameByte

\* A byte that was written is an octet: reading it is defined.
LEMMA ByteType ==
  ASSUME NEW s \in Sessions, TypeOK, StreamInv(s), NEW p \in 1..written[s]
  PROVE  Byte(s, p) \in Octets
<1> DEFINE k == CHOOSE i \in FramesAt(s, p) : TRUE
<1>1. k \in FramesAt(s, p)
  BY DEF StreamInv
<1>2. k \in DOMAIN script[s] /\ script[s][k].at < p
  BY <1>1 DEF FramesAt
<1>3. k \in Nat /\ script[s][k] \in ScriptFrames /\ k <= Len(script[s])
  BY <1>2, SessionTypes
<1>4. Len(script[s]) <= MaxReq
  BY DEF StreamInv
<1> HIDE DEF k
<1>5. k \in Octets
  <2>1. MaxReq \in Octets
    BY ConstantTypes
  <2>2. Len(script[s]) \in Nat
    BY SessionTypes
  <2> QED
    BY <1>3, <1>4, <2>1, <2>2 DEF Octets
<1>6. script[s][k].at \in Nat /\ p \in Nat
  BY <1>3, SessionTypes DEF ScriptFrames
<1>7. p - script[s][k].at \in Nat
  BY <1>2, <1>6
<1>8. FrameByte(k, script[s][k], p - script[s][k].at) \in Octets
  BY <1>3, <1>5, <1>7, FrameByteType
<1> QED
  BY <1>8 DEF Byte, k

\* So is every byte the accumulator holds.
LEMMA ReqType ==
  ASSUME NEW s \in Sessions, TypeOK, StreamInv(s), NEW i \in Nat,
         1 <= i, i <= req_len[s]
  PROVE  /\ Position(s, i) \in 1..written[s]
         /\ Req(s, i) \in Octets
<1>1. buffered[s] + base[s] + lost[s] + req_len[s] <= written[s]
  BY DEF StreamInv
<1>2. Position(s, i) \in 1..written[s]
  <2>1. /\ written[s] \in Nat /\ buffered[s] \in Nat /\ base[s] \in Nat
        /\ lost[s] \in Nat /\ req_len[s] \in Nat
    BY SessionTypes
  <2>2. ADU_MAX \in Nat
    BY DEF ADU_MAX
  <2> QED
    BY <1>1, <2>1, <2>2 DEF Position
<1> QED
  BY <1>2, ByteType DEF Req

\* And the length of a frame whose header was read is a number.
LEMMA NeedType ==
  ASSUME NEW s \in Sessions, TypeOK, StreamInv(s), HeaderRead(s)
  PROVE  Need(s) \in Nat
<1>1. 7 <= req_len[s]
  BY DEF HeaderRead, MBAP_LEN
<1>2. Req(s, 5) \in Octets /\ Req(s, 6) \in Octets
  BY <1>1, ReqType, SessionTypes
<1>3. \A a, b \in Octets : 6 + a * 256 + b \in Nat
  BY DEF Octets
<1> QED
  BY <1>2, <1>3 DEF Need
-----------------------------------------------------------------------------
(* Type correctness, action by action.  StreamInv is needed where bytes are *)
(* counted or read.                                                         *)

\* The bytes a session may still take are counted by a number.
LEMMA InSocketType ==
  ASSUME NEW s \in Sessions, TypeOK, StreamInv(s)
  PROVE  /\ InSocket(s) \in Nat
         /\ buffered[s] + InSocket(s) \in Nat
         /\ buffered[s] + InSocket(s) + base[s] + lost[s] + req_len[s] = written[s]
<1>1. /\ written[s] \in Nat /\ buffered[s] \in Nat /\ base[s] \in Nat
      /\ lost[s] \in Nat /\ req_len[s] \in Nat
  BY SessionTypes
<1>2. buffered[s] + base[s] + lost[s] + req_len[s] <= written[s]
  BY DEF StreamInv
<1> QED
  BY <1>1, <1>2 DEF InSocket

\* The smaller of two numbers, and how many prebuffered bytes fit in req.
LEMMA LeastType ==
  ASSUME NEW a \in Nat, NEW b \in Nat
  PROVE  Least(a, b) \in Nat /\ Least(a, b) <= a /\ Least(a, b) <= b
  BY DEF Least

LEMMA SeedType ==
  ASSUME NEW n \in Nat
  PROVE  /\ Seed(n) \in Nat /\ Seed(n) <= ADU_MAX /\ Seed(n) <= n
         /\ n - Seed(n) \in Nat
  BY SMT DEF Seed, Least, ADU_MAX

LEMMA FrameBytesType ==
  ASSUME NEW f, f.len \in Nat
  PROVE  FrameBytes(f) \in Nat
  BY DEF FrameBytes, MBAP_LEN

LEMMA ClientRequestType ==
  ASSUME TypeOK, NEW s \in Sessions, NEW f \in Requests, NEW n \in Chunks,
         ClientRequest(s, f, n)
  PROVE  TypeOK'
<1>1. /\ f.unit \in Octets /\ f.fc \in Octets /\ f.len \in 6..LENGTH_MAX
      /\ f.proto \in {0, 1}
  BY ConstantTypes
<1>a. f.len \in Nat
  BY ConstantTypes
<1>2. Least(n, FrameBytes(f)) \in Nat
  BY <1>a, FrameBytesType, LeastType, RtuAssumption
<1>3. [at |-> written[s], unit |-> f.unit, fc |-> f.fc, len |-> f.len, proto |-> f.proto]
        \in ScriptFrames
  BY <1>1, SessionTypes DEF ScriptFrames
<1>4. script' \in [Sessions -> Seq(ScriptFrames)]
  BY <1>3 DEF TypeOK, ClientRequest
<1>5. written' \in [Sessions -> Nat]
  BY <1>2 DEF TypeOK, ClientRequest
<1>6. ready' \in [Sessions -> BOOLEAN]
  BY DEF TypeOK, ClientRequest
<1> QED
  BY <1>4, <1>5, <1>6 DEF TypeOK, ClientRequest, workerVars, lineVars, frameVars, replyVars

\* The last frame of a script, if something of it is still to be written.
LEMMA LastFrame ==
  ASSUME TypeOK, NEW s \in Sessions, StreamInv(s), ~AllWritten(s)
  PROVE  /\ Len(script[s]) \in DOMAIN script[s]
         /\ script[s][Len(script[s])] \in ScriptFrames
         /\ script[s][Len(script[s])].at <= written[s]
         /\ FrameBytes(script[s][Len(script[s])]) \in Nat
         /\ written[s] < script[s][Len(script[s])].at + FrameBytes(script[s][Len(script[s])])
<1>1. PICK k \in DOMAIN script[s] :
        ~ (script[s][k].at + FrameBytes(script[s][k]) <= written[s])
  BY DEF AllWritten
<1>2. script[s] \in Seq(ScriptFrames) /\ written[s] \in Nat
  BY SessionTypes
<1>3. k = Len(script[s])
  BY <1>1, <1>2 DEF StreamInv
<1>4. script[s][k] \in ScriptFrames
  BY <1>1, <1>2
<1>5. script[s][k].at \in Nat /\ FrameBytes(script[s][k]) \in Nat
  BY <1>4, FrameBytesType DEF ScriptFrames
<1> QED
  BY <1>1, <1>2, <1>3, <1>4, <1>5 DEF StreamInv

LEMMA ClientWriteRestType ==
  ASSUME TypeOK, NEW s \in Sessions, StreamInv(s), ClientWriteRest(s)
  PROVE  TypeOK'
<1> DEFINE f == script[s][Len(script[s])]
<1>1. f.at \in Nat /\ FrameBytes(f) \in Nat
  BY LastFrame DEF ClientWriteRest, ScriptFrames
<1>2. written' = [written EXCEPT ![s] = f.at + FrameBytes(f)]
  BY DEF ClientWriteRest
<1> HIDE DEF f
<1>3. written' \in [Sessions -> Nat]
  BY <1>1, <1>2 DEF TypeOK
<1> QED
  BY <1>3 DEF TypeOK, ClientWriteRest, workerVars, lineVars, frameVars, replyVars

LEMMA ClientReadType ==
  ASSUME TypeOK, NEW s \in Sessions, ClientRead(s)
  PROVE  TypeOK'
<1>1. queued' \in [Sessions -> 0..SndBuf]
  BY ConstantTypes DEF TypeOK, ClientRead
<1> QED
  BY <1>1 DEF TypeOK, ClientRead, workerVars, lineVars, frameVars, replyVars

LEMMA ClientCloseType ==
  ASSUME TypeOK, NEW s \in Sessions, ClientClose(s)
  PROVE  TypeOK'
  BY DEF TypeOK, ClientClose, workerVars, lineVars, frameVars, replyVars

\* Finishing a handler, or the session, keeps the types of the worker's state.
LEMMA ReturnType ==
  ASSUME TypeOK, Return
  PROVE  run' \in Sessions \cup {NULL} /\ wnext' \in BOOLEAN
         /\ pc' \in {"idle", "read", "transact", "confirm", "send"}
  BY DEF TypeOK, Return

LEMMA FinalizeType ==
  ASSUME TypeOK, NEW s \in Sessions, Finalize(s)
  PROVE  /\ run' \in Sessions \cup {NULL} /\ wnext' \in BOOLEAN
         /\ pc' \in {"idle", "read", "transact", "confirm", "send"}
         /\ phase' \in [Sessions -> {"preread", "bridge", "proxied", "closed"}]
         /\ ready' \in [Sessions -> BOOLEAN]
  BY DEF TypeOK, Finalize

\* The preread handler has the bytes it looks at.
LEMMA PrereadBytes ==
  ASSUME TypeOK, NEW s \in Sessions, StreamInv(s), buffered[s] + InSocket(s) >= 8
  PROVE  written[s] >= 8 /\ Byte(s, 7) \in Octets /\ Byte(s, 8) \in Octets
<1>1. /\ written[s] \in Nat /\ buffered[s] + InSocket(s) \in Nat
      /\ base[s] \in Nat /\ lost[s] \in Nat /\ req_len[s] \in Nat
      /\ buffered[s] + InSocket(s) + base[s] + lost[s] + req_len[s] = written[s]
  BY InSocketType, SessionTypes
<1>2. written[s] >= 8
  <2> DEFINE n == buffered[s] + InSocket(s)
  <2>1. n >= 8 /\ n \in Nat /\ n + base[s] + lost[s] + req_len[s] = written[s]
    BY <1>1
  <2> HIDE DEF n
  <2> QED
    BY <1>1, <2>1
<1>3. 7 \in 1..written[s] /\ 8 \in 1..written[s]
  BY <1>1, <1>2
<1> QED
  BY <1>2, <1>3, ByteType

\* The four ways the preread handler ends.
PrereadFate(s, n, loc, verdict) ==
  \/ /\ n < 8 /\ peer[s] = "open"
     /\ buffered' = [buffered EXCEPT ![s] = n]
     /\ ready' = [ready EXCEPT ![s] = FALSE]
     /\ UNCHANGED <<phase, frameVars, workerVars>>
  \/ /\ Finalize(s)
     /\ UNCHANGED <<buffered, frameVars>>
  \/ /\ n >= 8
     /\ phase' = [phase EXCEPT ![s] = "proxied"]
     /\ buffered' = [buffered EXCEPT ![s] = n]
     /\ ready' = [ready EXCEPT ![s] = FALSE]
     /\ loc_conf' = [loc_conf EXCEPT ![s] = loc]
     /\ UNCHANGED <<base, lost, req_len, req_need, workerVars>>
  \/ /\ n >= 8 /\ verdict = "bridge"
     /\ Takeover(s, n, loc)
     /\ ready' = [ready EXCEPT ![s] = FALSE]

LEMMA PrereadCases ==
  ASSUME TypeOK, NEW s \in Sessions, StreamInv(s), Preread(s)
  PROVE  \E n \in Nat, loc \in Routes :
           /\ n = buffered[s] + InSocket(s)
           /\ loc = FindLocation(Blocks, Default, Byte(s, 7)) \/ n < 8
           /\ PrereadFate(s, n, loc, Verdict(loc, Byte(s, 8)))
<1> DEFINE n == buffered[s] + InSocket(s)
           found == FindLocation(Blocks, Default, Byte(s, 7))
<1>1. n \in Nat
  BY InSocketType
<1>2. NULL \in Routes
  BY DEF Routes
<1>3. CASE n >= 8
  <2>1. found \in Routes
    BY <1>3, PrereadBytes DEF Routes
  <2>2. PrereadFate(s, n, found, Verdict(found, Byte(s, 8)))
    BY <1>3 DEF Preread, PrereadFate
  <2> HIDE DEF found
  <2> QED
    BY <1>1, <2>1, <2>2 DEF found
<1>4. CASE n < 8
  <2>1. PrereadFate(s, n, NULL, Verdict(NULL, Byte(s, 8)))
    BY <1>4, <1>1 DEF Preread, PrereadFate
  <2> QED
    BY <1>1, <1>2, <1>4, <2>1
<1> QED
  BY <1>1, <1>3, <1>4

LEMMA PrereadType ==
  ASSUME TypeOK, NEW s \in Sessions, StreamInv(s), Preread(s)
  PROVE  TypeOK'
<1> PICK n \in Nat, loc \in Routes : PrereadFate(s, n, loc, Verdict(loc, Byte(s, 8)))
  BY PrereadCases
<1>1. /\ UNCHANGED <<clientVars, queued, wactive, replyVars, lineVars, out>>
  BY DEF Preread
<1>2. /\ ready' \in [Sessions -> BOOLEAN]
      /\ phase' \in [Sessions -> {"preread", "bridge", "proxied", "closed"}]
      /\ run' \in Sessions \cup {NULL} /\ wnext' \in BOOLEAN
      /\ pc' \in {"idle", "read", "transact", "confirm", "send"}
  BY DEF TypeOK, PrereadFate, Finalize, Takeover, workerVars
<1>3. /\ buffered' \in [Sessions -> Nat] /\ loc_conf' \in [Sessions -> Routes]
      /\ req_len' \in [Sessions -> Nat] /\ lost' \in [Sessions -> Nat]
      /\ base' \in [Sessions -> Nat] /\ req_need' \in [Sessions -> Nat]
  <2>1. CASE Takeover(s, n, loc)
    <3>1. Seed(n) \in Nat /\ n - Seed(n) \in Nat
      BY SeedType
    <3>2. /\ loc_conf' = [loc_conf EXCEPT ![s] = loc]
          /\ req_len' = [req_len EXCEPT ![s] = Seed(n)]
          /\ lost' = [lost EXCEPT ![s] = n - Seed(n)]
          /\ buffered' = [buffered EXCEPT ![s] = 0]
          /\ UNCHANGED <<base, req_need>>
      BY <2>1 DEF Takeover
    <3> QED
      BY <3>1, <3>2 DEF TypeOK
  <2>2. CASE ~Takeover(s, n, loc)
    <3>1. /\ UNCHANGED <<base, lost, req_len, req_need>>
          /\ buffered' = [buffered EXCEPT ![s] = n] \/ buffered' = buffered
          /\ loc_conf' = [loc_conf EXCEPT ![s] = loc] \/ loc_conf' = loc_conf
      BY <2>2 DEF PrereadFate, frameVars
    <3>2. buffered \in [Sessions -> Nat] /\ loc_conf \in [Sessions -> Routes]
      BY DEF TypeOK
    <3>3. buffered' \in [Sessions -> Nat]
      BY <3>1, <3>2
    <3>4. loc_conf' \in [Sessions -> Routes]
      BY <3>1, <3>2
    <3> QED
      BY <3>1, <3>3, <3>4 DEF TypeOK
  <2> QED
    BY <2>1, <2>2
<1> QED
  BY <1>1, <1>2, <1>3 DEF TypeOK, clientVars, replyVars, lineVars

LEMMA PrereadTimeoutType ==
  ASSUME TypeOK, NEW s \in Sessions, PrereadTimeout(s)
  PROVE  TypeOK'
  BY FinalizeType DEF TypeOK, PrereadTimeout, clientVars, lineVars, frameVars, replyVars

LEMMA DispatchType ==
  ASSUME TypeOK, NEW s \in Sessions, Dispatch(s)
  PROVE  TypeOK'
  BY DEF TypeOK, Dispatch, workerVars, lineVars, frameVars, replyVars, clientVars

LEMMA SessionTimeoutType ==
  ASSUME TypeOK, NEW s \in Sessions, SessionTimeout(s)
  PROVE  TypeOK'
  BY FinalizeType DEF TypeOK, SessionTimeout, clientVars, lineVars, frameVars, replyVars

LEMMA ReadBadLengthType ==
  ASSUME TypeOK, NEW s \in Sessions, StreamInv(s), ReadBadLength(s)
  PROVE  TypeOK'
<1>1. req_need' \in [Sessions -> Nat]
  BY NeedType DEF TypeOK, ReadBadLength
<1> QED
  BY <1>1, FinalizeType DEF TypeOK, ReadBadLength, clientVars, lineVars, replyVars

LEMMA ReadFrameType ==
  ASSUME TypeOK, NEW s \in Sessions, StreamInv(s), ReadFrame(s)
  PROVE  TypeOK'
<1>1. req_need' \in [Sessions -> Nat]
  BY NeedType DEF TypeOK, ReadFrame, FrameRead
<1>2. /\ run' \in Sessions \cup {NULL} /\ wnext' \in BOOLEAN
      /\ pc' \in {"idle", "read", "transact", "confirm", "send"}
      /\ phase' \in [Sessions -> {"preread", "bridge", "proxied", "closed"}]
      /\ ready' \in [Sessions -> BOOLEAN]
  BY FinalizeType DEF TypeOK, ReadFrame
<1> QED
  BY <1>1, <1>2 DEF TypeOK, ReadFrame, clientVars, lineVars, replyVars

\* What the next recv asks for.
LEMMA WantType ==
  ASSUME TypeOK, NEW s \in Sessions, StreamInv(s), ~FrameRead(s)
  PROVE  Want(s) \in Nat /\ Want(s) > 0
<1>1. req_len[s] \in Nat
  BY SessionTypes
<1>2. CASE HeaderRead(s)
  BY <1>1, <1>2, NeedType DEF Want, FrameRead
<1>3. CASE ~HeaderRead(s)
  BY <1>1, <1>3 DEF Want, HeaderRead, MBAP_LEN
<1> QED
  BY <1>2, <1>3

LEMMA ReadRecvType ==
  ASSUME TypeOK, NEW s \in Sessions, StreamInv(s), ReadRecv(s)
  PROVE  TypeOK'
<1>1. NeedNow(s) \in Nat
  BY NeedType, SessionTypes DEF NeedNow
<1>2. Least(Want(s), InSocket(s)) \in Nat
  BY WantType, InSocketType, LeastType DEF ReadRecv
<1>3. req_need' \in [Sessions -> Nat]
  BY <1>1 DEF TypeOK, ReadRecv
<1>4. req_len' \in [Sessions -> Nat]
  <2>1. CASE req_len' = [req_len EXCEPT ![s] = @ + Least(Want(s), InSocket(s))]
    BY <1>2, <2>1 DEF TypeOK
  <2>2. CASE UNCHANGED req_len
    BY <2>2 DEF TypeOK
  <2> QED
    BY <2>1, <2>2 DEF ReadRecv
<1>5. /\ run' \in Sessions \cup {NULL} /\ wnext' \in BOOLEAN
      /\ pc' \in {"idle", "read", "transact", "confirm", "send"}
      /\ phase' \in [Sessions -> {"preread", "bridge", "proxied", "closed"}]
      /\ ready' \in [Sessions -> BOOLEAN]
  BY FinalizeType, ReturnType DEF TypeOK, ReadRecv, workerVars
<1> QED
  BY <1>3, <1>4, <1>5 DEF TypeOK, ReadRecv, clientVars, lineVars, replyVars

\* A transaction reads its frame's header: the bytes are there.
LEMMA TransactBytes ==
  ASSUME TypeOK, NEW s \in Sessions, StreamInv(s), AccumulatorInv(s),
         Running(s, "transact") \/ Running(s, "confirm")
  PROVE  /\ MBAP_LEN <= req_len[s] /\ 7 <= req_len[s]
         /\ Req(s, 2) \in Octets /\ Req(s, 7) \in Octets
<1>1. /\ req_need[s] \in Nat /\ req_len[s] \in Nat
      /\ MBAP_LEN <= req_need[s] /\ req_need[s] <= req_len[s]
  BY SessionTypes DEF AccumulatorInv, Running
<1>2. MBAP_LEN <= req_len[s] /\ 7 <= req_len[s]
  BY <1>1 DEF MBAP_LEN
<1>3. 2 <= req_len[s]
  BY <1>1, <1>2
<1>4. Req(s, 2) \in Octets /\ Req(s, 7) \in Octets
  BY <1>2, <1>3, ReqType
<1> QED
  BY <1>2, <1>4

\* A reply put in rsp is one of the replies, and fits.
LEMMA ReplyType ==
  ASSUME TypeOK, NEW s \in Sessions, Req(s, 2) \in Octets,
         NEW res \in {0, GATEWAY_PATH, GATEWAY_TARGET}, NEW ans \in Nat, NEW len \in Nat,
         Reply(s, res, ans, len)
  PROVE  /\ rsp' \in [Sessions -> Replies]
         /\ rsp_len' \in [Sessions -> Nat] /\ rsp_sent' \in [Sessions -> Nat]
         /\ run' \in Sessions \cup {NULL} /\ wnext' \in BOOLEAN
         /\ pc' \in {"idle", "read", "transact", "confirm", "send"}
<1>1. [k |-> Req(s, 2), res |-> res, ans |-> ans] \in Replies
  BY DEF Replies
<1> QED
  BY <1>1 DEF TypeOK, Reply

LEMMA ExceptionType ==
  ASSUME TypeOK, NEW s \in Sessions, Req(s, 2) \in Octets,
         NEW exc \in {GATEWAY_PATH, GATEWAY_TARGET}, Exception(s, exc)
  PROVE  /\ rsp' \in [Sessions -> Replies]
         /\ rsp_len' \in [Sessions -> Nat] /\ rsp_sent' \in [Sessions -> Nat]
         /\ run' \in Sessions \cup {NULL} /\ wnext' \in BOOLEAN
         /\ pc' \in {"idle", "read", "transact", "confirm", "send"}
<1>1. Reply(s, exc, 0, 9)
  BY DEF Exception
<1> QED
  BY <1>1, ReplyType

\* The four ways a transaction ends in an exception reply.
LEMMA ExceptionStepType ==
  ASSUME TypeOK, NEW s \in Sessions, StreamInv(s), AccumulatorInv(s),
         NoRtuBackend(s) \/ OpenFails(s) \/ SendFails(s) \/ ShortReply(s)
           \/ BadCrc(s) \/ NoConfirmation(s)
  PROVE  TypeOK'
<1>1. Req(s, 2) \in Octets
  BY TransactBytes DEF NoRtuBackend, OpenFails, SendFails, ShortReply, BadCrc, NoConfirmation
<1>2. Exception(s, GATEWAY_PATH) \/ Exception(s, GATEWAY_TARGET)
  BY DEF NoRtuBackend, OpenFails, SendFails, ShortReply, BadCrc, NoConfirmation
<1>3. /\ rsp' \in [Sessions -> Replies]
      /\ rsp_len' \in [Sessions -> Nat] /\ rsp_sent' \in [Sessions -> Nat]
      /\ run' \in Sessions \cup {NULL} /\ wnext' \in BOOLEAN
      /\ pc' \in {"idle", "read", "transact", "confirm", "send"}
  BY <1>1, <1>2, ExceptionType
<1>4. TransactUnchanged
  BY DEF NoRtuBackend, OpenFails, SendFails, ShortReply, BadCrc, NoConfirmation
<1>5. /\ mb' \in {"closed", "open"} /\ UNCHANGED <<hist, owed>>
      /\ inq' \in Seq(DOMAIN hist)
  <2>1. mb' \in {"closed", "open"} /\ UNCHANGED <<hist, owed>>
    BY DEF TypeOK, lineVars, NoRtuBackend, OpenFails, SendFails, ShortReply, BadCrc,
      NoConfirmation
  <2>2. inq \in Seq(DOMAIN hist) /\ <<>> \in Seq(DOMAIN hist)
    BY DEF TypeOK
  <2>3. inq # <<>> => Tail(inq) \in Seq(DOMAIN hist)
    BY <2>2
  <2>4. \/ inq' = inq \/ inq' = <<>>
        \/ inq # <<>> /\ inq' = Tail(inq)
    BY DEF lineVars, NoRtuBackend, OpenFails, SendFails, ShortReply, BadCrc, NoConfirmation
  <2> QED
    BY <2>1, <2>2, <2>3, <2>4
<1> QED
  BY <1>3, <1>4, <1>5 DEF TypeOK, TransactUnchanged, clientVars, kernelVars, frameVars

\* The request a session has in its accumulator is a number.
LEMMA HeldType ==
  ASSUME TypeOK, NEW s \in Sessions
  PROVE  Held(s) \in Nat
<1> DEFINE ks == {k \in DOMAIN script[s] :
               /\ script[s][k].at = Position(s, 1) - 1
               /\ Position(s, req_need[s]) = Position(s, 1) - 1 + script[s][k].len
               /\ req_need[s] = script[s][k].len}
<1>1. ks \subseteq Nat
  BY SessionTypes
<1> DEFINE held == CHOOSE k \in ks : TRUE
<1>2. Held(s) = IF ks = {} THEN 0 ELSE held
  BY DEF Held
<1>3. ks # {} => held \in ks
  <2> HIDE DEF ks
  <2> QED
    OBVIOUS
<1> HIDE DEF ks, held
<1>4. CASE ks = {}
  BY <1>2, <1>4
<1>5. CASE ks # {}
  BY <1>1, <1>2, <1>3, <1>5
<1> QED
  BY <1>4, <1>5

\* A bridged request is looked at byte for byte: its function code is there.
LEMMA SendRequestBytes ==
  ASSUME TypeOK, NEW s \in Sessions, StreamInv(s), AccumulatorInv(s), SendRequest(s)
  PROVE  Req(s, 8) \in Octets /\ Req(s, 7) \in Octets
<1>1. /\ req_need[s] \in Nat /\ req_len[s] \in Nat
      /\ MBAP_LEN < req_need[s] /\ req_need[s] <= req_len[s]
  BY SessionTypes DEF AccumulatorInv, Running, SendRequest
<1>2. 8 <= req_len[s] /\ 7 <= req_len[s]
  BY <1>1 DEF MBAP_LEN
<1> QED
  BY <1>2, ReqType

LEMMA SendRequestType ==
  ASSUME TypeOK, NEW s \in Sessions, StreamInv(s), AccumulatorInv(s), SendRequest(s)
  PROVE  TypeOK'
<1> DEFINE h == [s |-> s, k |-> Held(s), unit |-> Req(s, 7), fc |-> Req(s, 8)]
           H == [s : Sessions, k : Nat, unit : Octets, fc : Octets]
<1>1. h \in H
  BY HeldType, SendRequestBytes
<1>2. hist \in Seq(H) /\ hist' = Append(hist, h)
  BY DEF TypeOK, SendRequest
<1> HIDE DEF h, H
<1>3. hist' \in Seq(H) /\ Len(hist) + 1 \in DOMAIN hist' /\ DOMAIN hist \subseteq DOMAIN hist'
  BY <1>1, <1>2
<1>4. owed' \subseteq DOMAIN hist'
  BY <1>3 DEF TypeOK, SendRequest
<1>5. inq' \in Seq(DOMAIN hist')
  BY DEF SendRequest
<1>6. mb' \in {"closed", "open"} /\ pc' \in {"idle", "read", "transact", "confirm", "send"}
  BY DEF SendRequest, LinkOpen
<1>7. UNCHANGED <<run, wnext, replyVars>> /\ TransactUnchanged
  BY DEF SendRequest
<1> QED
  BY <1>3, <1>4, <1>5, <1>6, <1>7 DEF TypeOK, H, TransactUnchanged, clientVars, kernelVars,
    frameVars, replyVars

\* The answer at the head of the device's queue is one of the transactions.
LEMMA HeadType ==
  ASSUME TypeOK, inq # <<>>
  PROVE  Head(inq) \in DOMAIN hist /\ Head(inq) \in Nat
<1>1. inq \in Seq(DOMAIN hist)
  BY DEF TypeOK
<1>2. DOMAIN hist \subseteq Nat
  <2>1. hist \in Seq([s : Sessions, k : Nat, unit : Octets, fc : Octets])
    BY DEF TypeOK
  <2> QED
    BY <2>1
<1>3. Head(inq) \in DOMAIN hist
  BY <1>1
<1> QED
  BY <1>2, <1>3

\* The length of a reply to a confirmed request.
LEMMA ConfirmedLength ==
  ASSUME NEW ret \in Rets
  PROVE  /\ MBAP_LEN + ret - 3 \in Nat
         /\ MBAP_LEN + ret - 3 <= ADU_MAX
<1>1. ret \in 3..256
  BY ConstantTypes DEF RTU_MAX
<1> QED
  BY SMT, <1>1 DEF MBAP_LEN, ADU_MAX

LEMMA ConfirmedType ==
  ASSUME TypeOK, NEW s \in Sessions, StreamInv(s), AccumulatorInv(s), Confirmed(s)
  PROVE  TypeOK'
<1>1. PICK ret \in Rets : Reply(s, 0, Head(inq), MBAP_LEN + ret - 3)
  BY DEF Confirmed
<1>2. Req(s, 2) \in Octets
  BY TransactBytes DEF Confirmed
<1>3. Head(inq) \in Nat /\ MBAP_LEN + ret - 3 \in Nat
  BY HeadType, ConfirmedLength DEF Confirmed
<1>4. /\ rsp' \in [Sessions -> Replies]
      /\ rsp_len' \in [Sessions -> Nat] /\ rsp_sent' \in [Sessions -> Nat]
      /\ run' \in Sessions \cup {NULL} /\ wnext' \in BOOLEAN
      /\ pc' \in {"idle", "read", "transact", "confirm", "send"}
  BY <1>1, <1>2, <1>3, ReplyType
<1>5. inq' \in Seq(DOMAIN hist)
  <2>1. inq \in Seq(DOMAIN hist) /\ inq # <<>> /\ inq' = Tail(inq)
    BY DEF TypeOK, Confirmed
  <2> QED
    BY <2>1
<1>6. UNCHANGED <<mb, hist, owed>> /\ TransactUnchanged
  BY DEF Confirmed
<1> QED
  BY <1>4, <1>5, <1>6 DEF TypeOK, TransactUnchanged, clientVars, kernelVars, frameVars

LEMMA SlaveAnswersType ==
  ASSUME TypeOK, NEW x \in owed, SlaveAnswers(x)
  PROVE  TypeOK'
<1>1. x \in DOMAIN hist /\ inq \in Seq(DOMAIN hist)
  BY DEF TypeOK
<1>2. Append(inq, x) \in Seq(DOMAIN hist)
  BY <1>1
<1>3. inq' \in Seq(DOMAIN hist)
  BY <1>1, <1>2 DEF SlaveAnswers
<1> QED
  BY <1>3 DEF TypeOK, SlaveAnswers, clientVars, kernelVars, frameVars, replyVars, workerVars

\* What one send hands to the kernel.
LEMMA SendOkCount ==
  ASSUME TypeOK, NEW s \in Sessions, SendOk(s)
  PROVE  LET n == Least(SndBuf - queued[s], rsp_len[s] - rsp_sent[s])
         IN n \in Nat /\ queued[s] + n \in 0..SndBuf /\ rsp_sent[s] + n <= rsp_len[s]
<1>1. /\ queued[s] \in 0..SndBuf /\ rsp_len[s] \in Nat /\ rsp_sent[s] \in Nat
      /\ SndBuf \in Nat
  BY SessionTypes, ConstantTypes
<1>2. rsp_sent[s] < rsp_len[s]
  BY DEF SendOk
<1> QED
  BY <1>1, <1>2 DEF Least

LEMMA SendOkType ==
  ASSUME TypeOK, NEW s \in Sessions, SendOk(s)
  PROVE  TypeOK'
<1> DEFINE n == Least(SndBuf - queued[s], rsp_len[s] - rsp_sent[s])
<1>1. n \in Nat /\ queued[s] + n \in 0..SndBuf
  BY SendOkCount
<1>2. /\ queued' = [queued EXCEPT ![s] = @ + n]
      /\ rsp_sent' = [rsp_sent EXCEPT ![s] = @ + n]
  BY DEF SendOk
<1> HIDE DEF n
<1>3. queued' \in [Sessions -> 0..SndBuf] /\ rsp_sent' \in [Sessions -> Nat]
  BY <1>1, <1>2 DEF TypeOK
<1>4. UNCHANGED <<clientVars, ready, wactive, phase, buffered, frameVars, rsp,
                  rsp_len, workerVars, lineVars>>
  BY DEF SendOk
<1> QED
  BY <1>3, <1>4 DEF TypeOK, clientVars, frameVars, workerVars, lineVars

LEMMA SendAgainType ==
  ASSUME TypeOK, NEW s \in Sessions, SendAgain(s)
  PROVE  TypeOK'
<1>1. ready' \in [Sessions -> BOOLEAN] /\ wactive' \in [Sessions -> BOOLEAN]
  BY DEF TypeOK, SendAgain, HandleWriteEvent
<1> QED
  BY <1>1, ReturnType DEF TypeOK, SendAgain, clientVars, frameVars, replyVars, lineVars

LEMMA SendErrorType ==
  ASSUME TypeOK, NEW s \in Sessions, SendError(s)
  PROVE  TypeOK'
  BY FinalizeType DEF TypeOK, SendError, clientVars, lineVars, frameVars, replyVars

\* What is left of the accumulator when its frame was served.
LEMMA LeftoverType ==
  ASSUME TypeOK, NEW s \in Sessions
  PROVE  /\ Leftover(s) \in Nat /\ Leftover(s) <= req_len[s]
         /\ base[s] + req_len[s] - Leftover(s) \in Nat
<1>1. req_len[s] \in Nat /\ req_need[s] \in Nat /\ base[s] \in Nat
  BY SessionTypes
<1> QED
  BY <1>1 DEF Leftover

LEMMA SendDoneType ==
  ASSUME TypeOK, NEW s \in Sessions, SendDone(s)
  PROVE  TypeOK'
<1>1. Leftover(s) \in Nat /\ base[s] + req_len[s] - Leftover(s) \in Nat
  BY LeftoverType
<1>2. /\ base' \in [Sessions -> Nat] /\ req_len' \in [Sessions -> Nat]
      /\ req_need' \in [Sessions -> Nat] /\ rsp_len' \in [Sessions -> Nat]
      /\ rsp_sent' \in [Sessions -> Nat]
  BY <1>1 DEF TypeOK, SendDone
<1>3. /\ run' \in Sessions \cup {NULL} /\ wnext' \in BOOLEAN
      /\ pc' \in {"idle", "read", "transact", "confirm", "send"}
  BY ReturnType DEF TypeOK, SendDone
<1> QED
  BY <1>2, <1>3 DEF TypeOK, SendDone, clientVars, kernelVars, lineVars

\* Every step keeps the types.
LEMMA TypeStep ==
  ASSUME IndInv, [Next]_vars
  PROVE  TypeOK'
<1> USE DEF IndInv
<1>1. ASSUME NEW s \in Sessions, Client(s)
      PROVE  TypeOK'
  BY <1>1, ClientRequestType, ClientWriteRestType, ClientReadType, ClientCloseType DEF Client
<1>2. ASSUME NEW s \in Sessions, EventLoop(s)
      PROVE  TypeOK'
  BY <1>2, PrereadType, DispatchType DEF EventLoop
<1>3. ASSUME NEW s \in Sessions, Handler(s)
      PROVE  TypeOK'
  BY <1>3, ReadBadLengthType, ReadFrameType, ReadRecvType, ExceptionStepType,
     SendRequestType, ConfirmedType, SendOkType, SendAgainType, SendErrorType, SendDoneType
     DEF Handler
<1>4. ASSUME NEW s \in Sessions, Timers(s)
      PROVE  TypeOK'
  BY <1>4, PrereadTimeoutType, SessionTimeoutType DEF Timers
<1>5. CASE UNCHANGED vars
  BY <1>5 DEF TypeOK, vars, clientVars, kernelVars, frameVars, replyVars, workerVars, lineVars
<1> QED
  BY <1>1, <1>2, <1>3, <1>4, <1>5, SlaveAnswersType DEF Next
-----------------------------------------------------------------------------
(* The stream: bytes written stay what they are, and the gateway takes none *)
(* that was not written.                                                    *)

\* What a step leaves alone that does not move bytes.
Still == UNCHANGED <<script, written, buffered, base, lost, req_len>>

LEMMA StillSteps ==
  ASSUME [Next]_vars
  PROVE  \/ Still
         \/ \E s \in Sessions :
              \/ \E f \in Requests, n \in Chunks : ClientRequest(s, f, n)
              \/ ClientWriteRest(s) \/ Preread(s) \/ ReadRecv(s) \/ SendDone(s)
<1>1. ASSUME NEW s \in Sessions, ClientRead(s) \/ ClientClose(s) \/ Dispatch(s)
      PROVE  Still
  BY <1>1 DEF Still, ClientRead, ClientClose, Dispatch, clientVars, frameVars
<1>2. ASSUME NEW s \in Sessions, Timers(s)
      PROVE  Still
  BY <1>2 DEF Still, Timers, PrereadTimeout, SessionTimeout, clientVars, frameVars
<1>3. ASSUME NEW s \in Sessions, ReadBadLength(s) \/ ReadFrame(s)
      PROVE  Still
  BY <1>3 DEF Still, ReadBadLength, ReadFrame, clientVars
<1>4. ASSUME NEW s \in Sessions,
             NoRtuBackend(s) \/ OpenFails(s) \/ SendFails(s) \/ SendRequest(s)
               \/ Confirmed(s) \/ ShortReply(s) \/ BadCrc(s) \/ NoConfirmation(s)
      PROVE  Still
  <2>1. TransactUnchanged
    BY <1>4 DEF NoRtuBackend, OpenFails, SendFails, SendRequest, Confirmed, ShortReply,
      BadCrc, NoConfirmation
  <2> QED
    BY <2>1 DEF Still, TransactUnchanged, clientVars, frameVars
<1>5. ASSUME NEW s \in Sessions, SendOk(s) \/ SendAgain(s) \/ SendError(s)
      PROVE  Still
  BY <1>5 DEF Still, SendOk, SendAgain, SendError, clientVars, frameVars
<1>6. ASSUME NEW x \in owed, SlaveAnswers(x)
      PROVE  Still
  BY <1>6 DEF Still, SlaveAnswers, clientVars, frameVars
<1>7. CASE UNCHANGED vars
  BY <1>7 DEF Still, vars, clientVars, frameVars
<1> QED
  BY <1>1, <1>2, <1>3, <1>4, <1>5, <1>6, <1>7 DEF Next, Client, EventLoop, Handler

\* Beginning a request adds a frame behind the bytes there are.
LEMMA AppendedScript ==
  ASSUME TypeOK, NEW s \in Sessions, NEW f \in Requests, NEW n \in Chunks,
         ClientRequest(s, f, n)
  PROVE  /\ \A t \in Sessions : t # s => script'[t] = script[t] /\ written'[t] = written[t]
         /\ Len(script'[s]) = Len(script[s]) + 1
         /\ DOMAIN script'[s] = DOMAIN script[s] \cup {Len(script[s]) + 1}
         /\ \A k \in DOMAIN script[s] : script'[s][k] = script[s][k]
         /\ script'[s][Len(script[s]) + 1].at = written[s]
         /\ script'[s][Len(script[s]) + 1].len = f.len
         /\ written'[s] = written[s] + Least(n, FrameBytes(f))
         /\ FrameBytes(f) \in Nat /\ n \in Nat
<1> DEFINE g == [at |-> written[s], unit |-> f.unit, fc |-> f.fc, len |-> f.len,
                 proto |-> f.proto]
<1>1. script[s] \in Seq(ScriptFrames) /\ written[s] \in Nat
  BY SessionTypes
<1>2. \A t \in Sessions : t # s => script'[t] = script[t] /\ written'[t] = written[t]
  BY DEF TypeOK, ClientRequest
<1>3. script'[s] = Append(script[s], g)
  BY DEF TypeOK, ClientRequest
<1>4. written'[s] = written[s] + Least(n, FrameBytes(f))
  BY DEF TypeOK, ClientRequest
<1>5. g.at = written[s] /\ g.len = f.len
  OBVIOUS
<1>6. f.len \in Nat
  BY ConstantTypes
<1>7. FrameBytes(f) \in Nat /\ n \in Nat
  BY <1>6, FrameBytesType, RtuAssumption
<1> HIDE DEF g
<1>8. /\ Len(script'[s]) = Len(script[s]) + 1
      /\ DOMAIN script'[s] = DOMAIN script[s] \cup {Len(script[s]) + 1}
      /\ \A k \in DOMAIN script[s] : script'[s][k] = script[s][k]
      /\ script'[s][Len(script[s]) + 1] = g
  BY <1>1, <1>3
<1> QED
  BY <1>2, <1>4, <1>5, <1>7, <1>8

\* A byte that was written never changes, and written never decreases.
LEMMA ByteStable ==
  ASSUME IndInv, [Next]_vars, NEW s \in Sessions
  PROVE  /\ written[s] <= written'[s]
         /\ \A p \in 1..written[s] : Byte(s, p)' = Byte(s, p)
<1> USE DEF IndInv
<1>1. written[s] \in Nat
  BY SessionTypes
<1>2. ASSUME script' = script
      PROVE  \A p \in 1..written[s] : Byte(s, p)' = Byte(s, p)
  BY <1>2 DEF Byte, FramesAt, FrameBytes, FrameByte
<1>3. ASSUME NEW a \in Sessions, NEW f \in Requests, NEW n \in Chunks, ClientRequest(a, f, n)
      PROVE  /\ written[s] <= written'[s]
             /\ \A p \in 1..written[s] : Byte(s, p)' = Byte(s, p)
  <2>1. CASE s # a
    <3>1. script'[s] = script[s] /\ written'[s] = written[s]
      BY <1>3, <2>1, AppendedScript
    <3>2. ASSUME NEW p
          PROVE  Byte(s, p)' = Byte(s, p)
      <4>1. FramesAt(s, p)' = FramesAt(s, p)
        BY <3>1 DEF FramesAt, FrameBytes
      <4>2. Byte(s, p)' = LET k == CHOOSE i \in FramesAt(s, p)' : TRUE
                          IN FrameByte(k, script'[s][k], p - script'[s][k].at)
        BY DEF Byte, FrameByte
      <4> QED
        BY <3>1, <4>1, <4>2 DEF Byte
    <3> QED
      BY <1>1, <3>1, <3>2
  <2>2. CASE s = a
    <3>1. written[s] <= written'[s]
      <4> DEFINE m == Least(n, FrameBytes(f))
      <4>1. m \in Nat
        BY <1>3, AppendedScript, LeastType
      <4>2. written'[s] = written[s] + m
        BY <1>3, <2>2, AppendedScript
      <4> HIDE DEF m
      <4> QED
        BY <1>1, <4>1, <4>2
    <3>2. ASSUME NEW p \in 1..written[s]
          PROVE  Byte(s, p)' = Byte(s, p)
      <4>1. FramesAt(s, p)' = FramesAt(s, p)
        BY <1>1, <1>3, <2>2, AppendedScript DEF FramesAt, FrameBytes
      <4> DEFINE k == CHOOSE i \in FramesAt(s, p) : TRUE
      <4>2. k \in DOMAIN script[s]
        <5>1. FramesAt(s, p) # {}
          BY DEF StreamInv
        <5>2. k \in FramesAt(s, p)
          BY <5>1
        <5> QED
          BY <5>2 DEF FramesAt
      <4>3. Byte(s, p) = FrameByte(k, script[s][k], p - script[s][k].at)
        BY DEF Byte
      <4>4. Byte(s, p)' = FrameByte(k, script'[s][k], p - script'[s][k].at)
        BY <4>1 DEF Byte, FrameByte
      <4>5. script'[s][k] = script[s][k]
        <5> HIDE DEF k
        <5> QED
          BY <1>3, <2>2, <4>2, AppendedScript
      <4> QED
        BY <4>3, <4>4, <4>5
    <3> QED
      BY <3>1, <3>2
  <2> QED
    BY <2>1, <2>2
<1>4. ASSUME NEW a \in Sessions, ClientWriteRest(a)
      PROVE  script' = script /\ written[s] <= written'[s]
  <2> DEFINE f == script[a][Len(script[a])]
  <2>1. f.at \in Nat /\ FrameBytes(f) \in Nat /\ written[a] < f.at + FrameBytes(f)
    BY <1>4, LastFrame DEF ClientWriteRest, ScriptFrames
  <2>2. written' = [written EXCEPT ![a] = f.at + FrameBytes(f)] /\ script' = script
    BY <1>4 DEF ClientWriteRest
  <2>3. written \in [Sessions -> Nat]
    BY DEF TypeOK
  <2> HIDE DEF f
  <2> QED
    BY <1>1, <2>1, <2>2, <2>3
<1>5. ASSUME NEW a \in Sessions, Preread(a) \/ ReadRecv(a) \/ SendDone(a)
      PROVE  script' = script /\ written' = written
  BY <1>5 DEF Preread, ReadRecv, SendDone, clientVars
<1>6. CASE Still
  BY <1>1, <1>2, <1>6 DEF Still
<1> QED
  BY <1>1, <1>2, <1>3, <1>4, <1>5, <1>6, StillSteps

\* A step that writes nothing keeps StreamInv if it takes no more than there is.
LEMMA StreamKept ==
  ASSUME NEW s \in Sessions, StreamInv(s), script' = script, written' = written,
         buffered'[s] + base'[s] + lost'[s] + req_len'[s] <= written[s]
  PROVE  StreamInv(s)'
  BY DEF StreamInv, FramesAt, FrameBytes

LEMMA StreamRequest ==
  ASSUME TypeOK, NEW s \in Sessions, StreamInv(s),
         NEW a \in Sessions, NEW f \in Requests, NEW n \in Chunks, ClientRequest(a, f, n)
  PROVE  StreamInv(s)'
<1>1. UNCHANGED <<buffered, base, lost, req_len>>
  BY DEF ClientRequest, frameVars
<1>2. CASE s # a
  <2>1. script'[s] = script[s] /\ written'[s] = written[s]
    BY <1>2, AppendedScript
  <2> QED
    BY <1>1, <2>1 DEF StreamInv, FramesAt, FrameBytes
<1>3. CASE s = a
  <2> DEFINE L == Len(script[s]) + 1
             w == written[s] + Least(n, FrameBytes(f))
  <2>1. /\ Len(script'[s]) = L
        /\ DOMAIN script'[s] = DOMAIN script[s] \cup {L}
        /\ \A k \in DOMAIN script[s] : script'[s][k] = script[s][k]
        /\ script'[s][L].at = written[s] /\ script'[s][L].len = f.len
        /\ written'[s] = w
    BY <1>3, AppendedScript
  <2>2. /\ written[s] \in Nat /\ w \in Nat /\ written[s] <= w
        /\ Len(script[s]) \in Nat /\ L <= MaxReq
        /\ w <= written[s] + FrameBytes(f) /\ FrameBytes(f) \in Nat
    <3>1. Least(n, FrameBytes(f)) \in Nat /\ Least(n, FrameBytes(f)) <= FrameBytes(f)
      BY AppendedScript, LeastType
    <3>2. FrameBytes(f) \in Nat
      BY AppendedScript
    <3>3. Len(script[s]) \in Nat /\ written[s] \in Nat
      BY SessionTypes
    <3>4. Len(script[s]) < MaxReq /\ MaxReq \in Nat
      <4>1. Len(script[s]) < MaxReq
        BY <1>3 DEF ClientRequest
      <4>2. MaxReq \in Nat
        BY ConstantTypes DEF Octets
      <4> QED
        BY <4>1, <4>2
    <3> DEFINE m == Least(n, FrameBytes(f))
    <3>5. w = written[s] + m
      OBVIOUS
    <3> HIDE DEF m, w
    <3> QED
      BY <3>1, <3>2, <3>3, <3>4, <3>5 DEF m
  <2>3. \A k \in DOMAIN script[s] :
          /\ script[s][k].at + FrameBytes(script[s][k]) <= written[s]
          /\ script[s][k].at <= written[s]
          /\ script[s][k].at \in Nat /\ FrameBytes(script[s][k]) \in Nat
    <3>1. \A k \in DOMAIN script[s] : script[s][k] \in ScriptFrames
      BY SessionTypes
    <3>2. \A k \in DOMAIN script[s] :
            script[s][k].at \in Nat /\ FrameBytes(script[s][k]) \in Nat
      BY <3>1, FrameBytesType DEF ScriptFrames
    <3> QED
      BY <1>3, <3>2 DEF ClientRequest, AllWritten, StreamInv
  <2>4. FrameBytes(script'[s][L]) = FrameBytes(f)
    BY <2>1 DEF FrameBytes
  <2> HIDE DEF L, w
  <2>5. \A k \in DOMAIN script'[s] :
          /\ script'[s][k].at <= w
          /\ k < L => script'[s][k].at + FrameBytes(script'[s][k]) <= w
    <3>1. \A k \in DOMAIN script[s] :
            /\ script'[s][k].at <= w
            /\ script'[s][k].at + FrameBytes(script'[s][k]) <= w
      BY <2>1, <2>2, <2>3
    <3>2. script'[s][L].at <= w /\ ~(L < L)
      BY <2>1, <2>2 DEF L
    <3> QED
      BY <2>1, <3>1, <3>2
  <2>6. \A p \in 1..w : FramesAt(s, p)' # {}
    <3> SUFFICES ASSUME NEW p \in 1..w
                 PROVE  FramesAt(s, p)' # {}
      OBVIOUS
    <3>1. CASE p <= written[s]
      <4>1. p \in 1..written[s]
        BY <3>1, <2>2
      <4>2. PICK k \in FramesAt(s, p) : TRUE
        BY <4>1 DEF StreamInv
      <4>3. k \in FramesAt(s, p)'
        BY <4>2, <2>1 DEF FramesAt, FrameBytes
      <4> QED
        BY <4>3
    <3>2. CASE written[s] < p
      <4>1. p <= written[s] + FrameBytes(f)
        BY <2>2
      <4>2. /\ L \in DOMAIN script'[s] /\ script'[s][L].at < p
            /\ p <= script'[s][L].at + FrameBytes(script'[s][L])
        BY <2>1, <2>4, <3>2, <4>1
      <4>3. L \in FramesAt(s, p)'
        BY <4>2 DEF FramesAt, FrameBytes
      <4> QED
        BY <4>3
    <3> QED
      BY <3>1, <3>2, <2>2
  <2>7. buffered'[s] + base'[s] + lost'[s] + req_len'[s] <= w
    <3>1. buffered[s] + base[s] + lost[s] + req_len[s] <= written[s]
      BY DEF StreamInv
    <3>2. /\ buffered[s] \in Nat /\ base[s] \in Nat /\ lost[s] \in Nat /\ req_len[s] \in Nat
      BY SessionTypes
    <3> QED
      BY <1>1, <2>2, <3>1, <3>2
  <2> QED
    BY <2>1, <2>2, <2>5, <2>6, <2>7 DEF StreamInv, FrameBytes
<1> QED
  BY <1>2, <1>3

LEMMA StreamWriteRest ==
  ASSUME TypeOK, NEW s \in Sessions, StreamInv(s), NEW a \in Sessions, StreamInv(a),
         ClientWriteRest(a)
  PROVE  StreamInv(s)'
<1>1. UNCHANGED <<script, buffered, base, lost, req_len>>
  BY DEF ClientWriteRest, frameVars
<1> DEFINE L == Len(script[a])
           f == script[a][L]
           w == f.at + FrameBytes(f)
<1>2. /\ L \in DOMAIN script[a] /\ f.at \in Nat /\ FrameBytes(f) \in Nat
      /\ f.at <= written[a] /\ written[a] < w
  BY LastFrame DEF ClientWriteRest, ScriptFrames
<1>3. written' = [written EXCEPT ![a] = w]
  BY DEF ClientWriteRest
<1>4. written \in [Sessions -> Nat]
  BY DEF TypeOK
<1>5. CASE s # a
  <2>1. written'[s] = written[s]
    BY <1>3, <1>4, <1>5
  <2> QED
    BY <1>1, <2>1 DEF StreamInv, FramesAt, FrameBytes
<1>6. CASE s = a
  <2>1. written'[s] = w /\ w \in Nat /\ written[s] <= w /\ written[s] \in Nat
    <3> HIDE DEF f
    <3> QED
      BY <1>2, <1>3, <1>4, <1>6
  <2>2. \A k \in DOMAIN script[s] :
          /\ script[s][k].at <= w
          /\ k < Len(script[s]) => script[s][k].at + FrameBytes(script[s][k]) <= w
    <3>1. \A k \in DOMAIN script[s] : script[s][k] \in ScriptFrames
      BY SessionTypes
    <3>2. \A k \in DOMAIN script[s] :
            script[s][k].at \in Nat /\ FrameBytes(script[s][k]) \in Nat
      BY <3>1, FrameBytesType DEF ScriptFrames
    <3> HIDE DEF w
    <3> QED
      BY <2>1, <3>2 DEF StreamInv
  <2>3. \A p \in 1..w : FramesAt(s, p) # {}
    <3> SUFFICES ASSUME NEW p \in 1..w
                 PROVE  FramesAt(s, p) # {}
      OBVIOUS
    <3>1. CASE p <= written[s]
      BY <2>1, <3>1 DEF StreamInv
    <3>2. CASE written[s] < p
      <4>1. f.at < p /\ p <= f.at + FrameBytes(f)
        <5> HIDE DEF f
        <5> QED
          BY <1>2, <1>6, <2>1, <3>2
      <4>2. L \in FramesAt(s, p)
        BY <1>2, <1>6, <4>1 DEF FramesAt
      <4> QED
        BY <4>2
    <3> QED
      BY <2>1, <3>1, <3>2
  <2>4. buffered[s] + base[s] + lost[s] + req_len[s] <= w
    <3>1. buffered[s] + base[s] + lost[s] + req_len[s] <= written[s]
      BY DEF StreamInv
    <3>2. /\ buffered[s] \in Nat /\ base[s] \in Nat /\ lost[s] \in Nat /\ req_len[s] \in Nat
      BY SessionTypes
    <3> HIDE DEF w
    <3> QED
      BY <2>1, <3>1, <3>2
  <2> HIDE DEF w
  <2> QED
    BY <1>1, <2>1, <2>2, <2>3, <2>4 DEF StreamInv, FramesAt, FrameBytes
<1> QED
  BY <1>5, <1>6

\* The preread handler takes what is in the socket, no more.
LEMMA StreamPreread ==
  ASSUME TypeOK, NEW s \in Sessions, StreamInv(s), NEW a \in Sessions, StreamInv(a),
         Preread(a)
  PROVE  StreamInv(s)'
<1> PICK n \in Nat, loc \in Routes :
      n = buffered[a] + InSocket(a) /\ PrereadFate(a, n, loc, Verdict(loc, Byte(a, 8)))
  BY PrereadCases
<1>1. script' = script /\ written' = written
  BY DEF Preread, clientVars
<1>2. /\ buffered \in [Sessions -> Nat] /\ lost \in [Sessions -> Nat]
      /\ req_len \in [Sessions -> Nat] /\ base \in [Sessions -> Nat]
      /\ written[s] \in Nat
  BY DEF TypeOK
<1>3. base' = base
  BY DEF PrereadFate, Takeover, frameVars
<1>4. buffered[s] + base[s] + lost[s] + req_len[s] <= written[s]
  BY DEF StreamInv
<1>5. n + base[a] + lost[a] + req_len[a] = written[a]
  BY InSocketType
<1>6. CASE Takeover(a, n, loc)
  <2>1. /\ req_len' = [req_len EXCEPT ![a] = Seed(n)]
        /\ lost' = [lost EXCEPT ![a] = n - Seed(n)]
        /\ buffered' = [buffered EXCEPT ![a] = 0]
    BY <1>6 DEF Takeover
  <2>2. Seed(n) \in Nat /\ n - Seed(n) \in Nat
    BY SeedType
  <2>3. buffered'[s] + base'[s] + lost'[s] + req_len'[s] <= written[s]
    BY <1>2, <1>3, <1>4, <1>5, <2>1, <2>2
  <2> QED
    BY <1>1, <2>3, StreamKept
<1>7. CASE ~Takeover(a, n, loc)
  <2>1. /\ UNCHANGED <<lost, req_len>>
        /\ buffered' = [buffered EXCEPT ![a] = n] \/ buffered' = buffered
    BY <1>7 DEF PrereadFate, frameVars
  <2>2. buffered'[s] + base'[s] + lost'[s] + req_len'[s] <= written[s]
    <3>1. CASE buffered' = [buffered EXCEPT ![a] = n]
      BY <1>2, <1>3, <1>4, <1>5, <2>1, <3>1
    <3>2. CASE buffered' = buffered
      BY <1>2, <1>3, <1>4, <2>1, <3>2
    <3> QED
      BY <2>1, <3>1, <3>2
  <2> QED
    BY <1>1, <2>2, StreamKept
<1> QED
  BY <1>6, <1>7

\* recv returns no more than what is in the socket.
LEMMA StreamRecv ==
  ASSUME TypeOK, NEW s \in Sessions, StreamInv(s), NEW a \in Sessions, StreamInv(a),
         ReadRecv(a)
  PROVE  StreamInv(s)'
<1>1. script' = script /\ written' = written /\ UNCHANGED <<buffered, base, lost>>
  BY DEF ReadRecv, clientVars
<1>2. /\ buffered[s] \in Nat /\ lost[s] \in Nat /\ base[s] \in Nat
      /\ req_len \in [Sessions -> Nat] /\ written[s] \in Nat
  BY DEF TypeOK
<1>3. buffered[s] + base[s] + lost[s] + req_len[s] <= written[s]
  BY DEF StreamInv
<1> DEFINE m == Least(Want(a), InSocket(a))
<1>4. m \in Nat /\ m <= InSocket(a) /\ InSocket(a) \in Nat
  BY WantType, InSocketType, LeastType DEF ReadRecv
<1>5. req_len' = [req_len EXCEPT ![a] = @ + m] \/ req_len' = req_len
  BY DEF ReadRecv
<1>6. InSocket(a) = written[a] - (buffered[a] + base[a] + lost[a] + req_len[a])
  BY DEF InSocket
<1> HIDE DEF m
<1>7. buffered'[s] + base'[s] + lost'[s] + req_len'[s] <= written[s]
  <2>1. CASE req_len' = [req_len EXCEPT ![a] = @ + m] /\ s = a
    BY <1>1, <1>2, <1>4, <1>6, <2>1
  <2>2. CASE req_len'[s] = req_len[s]
    BY <1>1, <1>3, <2>2
  <2> QED
    BY <1>2, <1>5, <2>1, <2>2
<1> QED
  BY <1>1, <1>7, StreamKept

LEMMA StreamSendDone ==
  ASSUME TypeOK, NEW s \in Sessions, StreamInv(s), NEW a \in Sessions, SendDone(a)
  PROVE  StreamInv(s)'
<1>1. script' = script /\ written' = written /\ UNCHANGED <<buffered, lost>>
  BY DEF SendDone, clientVars
<1>2. /\ buffered[s] \in Nat /\ lost[s] \in Nat /\ base \in [Sessions -> Nat]
      /\ req_len \in [Sessions -> Nat] /\ written[s] \in Nat
  BY DEF TypeOK
<1>3. buffered[s] + base[s] + lost[s] + req_len[s] <= written[s]
  BY DEF StreamInv
<1>4. /\ base' = [base EXCEPT ![a] = @ + req_len[a] - Leftover(a)]
      /\ req_len' = [req_len EXCEPT ![a] = Leftover(a)]
      /\ Leftover(a) \in Nat
  BY LeftoverType DEF SendDone
<1>5. buffered'[s] + base'[s] + lost'[s] + req_len'[s] <= written[s]
  BY <1>1, <1>2, <1>3, <1>4
<1> QED
  BY <1>1, <1>5, StreamKept

LEMMA StreamStep ==
  ASSUME IndInv, [Next]_vars, NEW s \in Sessions
  PROVE  StreamInv(s)'
<1> USE DEF IndInv
<1>1. CASE Still
  <2>1. buffered'[s] + base'[s] + lost'[s] + req_len'[s] <= written[s]
    BY <1>1 DEF Still, StreamInv
  <2> QED
    BY <1>1, <2>1, StreamKept DEF Still
<1> QED
  BY <1>1, StillSteps, StreamRequest, StreamWriteRest, StreamPreread, StreamRecv,
     StreamSendDone
-----------------------------------------------------------------------------
(* The accumulator and the reply buffer.                                    *)

\* A step that leaves req and rsp alone and starts no transaction.
Unbuffered(s) ==
  /\ req_len'[s] = req_len[s] /\ req_need'[s] = req_need[s]
  /\ rsp_len'[s] = rsp_len[s] /\ rsp_sent'[s] = rsp_sent[s]
  /\ pc' \in {"transact", "confirm"} /\ run' = s
       => pc \in {"transact", "confirm"} /\ run = s

LEMMA AccumulatorKept ==
  ASSUME NEW s \in Sessions, AccumulatorInv(s), Unbuffered(s)
  PROVE  AccumulatorInv(s)'
  BY DEF AccumulatorInv, Unbuffered

LEMMA UnbufferedSteps ==
  ASSUME NEW s \in Sessions, [Next]_vars
  PROVE  \/ Unbuffered(s)
         \/ \E a \in Sessions :
              \/ Preread(a) \/ ReadBadLength(a) \/ ReadFrame(a) \/ ReadRecv(a)
              \/ NoRtuBackend(a) \/ OpenFails(a) \/ SendFails(a)
              \/ Confirmed(a) \/ ShortReply(a) \/ BadCrc(a) \/ NoConfirmation(a)
              \/ SendOk(a) \/ SendDone(a)
<1>1. ASSUME NEW a \in Sessions, Client(a)
      PROVE  Unbuffered(s)
  BY <1>1 DEF Unbuffered, Client, ClientRequest, ClientWriteRest, ClientRead, ClientClose,
    frameVars, replyVars, workerVars
<1>2. ASSUME NEW a \in Sessions, Dispatch(a)
      PROVE  Unbuffered(s)
  BY <1>2 DEF Unbuffered, Dispatch, frameVars, replyVars, workerVars
<1>3. ASSUME NEW a \in Sessions, Timers(a)
      PROVE  Unbuffered(s)
  BY <1>3 DEF Unbuffered, Timers, PrereadTimeout, SessionTimeout, Finalize, frameVars, replyVars
<1>4. ASSUME NEW a \in Sessions, SendRequest(a)
      PROVE  Unbuffered(s)
  BY <1>4 DEF Unbuffered, SendRequest, TransactUnchanged, Running, frameVars, replyVars
<1>5. ASSUME NEW a \in Sessions, SendAgain(a) \/ SendError(a)
      PROVE  Unbuffered(s)
  BY <1>5 DEF Unbuffered, SendAgain, SendError, Return, Finalize, frameVars, replyVars
<1>6. ASSUME NEW x \in owed, SlaveAnswers(x)
      PROVE  Unbuffered(s)
  BY <1>6 DEF Unbuffered, SlaveAnswers, frameVars, replyVars, workerVars
<1>7. CASE UNCHANGED vars
  BY <1>7 DEF Unbuffered, vars, frameVars, replyVars, workerVars
<1> QED
  BY <1>1, <1>2, <1>3, <1>4, <1>5, <1>6, <1>7 DEF Next, EventLoop, Handler

\* The bridge starts with an accumulator that is not over-full.
LEMMA AccumulatorPreread ==
  ASSUME TypeOK, NEW a \in Sessions, StreamInv(a), NEW s \in Sessions, AccumulatorInv(s),
         Preread(a)
  PROVE  AccumulatorInv(s)'
<1> PICK n \in Nat, loc \in Routes : PrereadFate(a, n, loc, Verdict(loc, Byte(a, 8)))
  BY PrereadCases
<1>2. UNCHANGED <<rsp_len, rsp_sent>>
  BY DEF Preread, replyVars
<1>3. CASE Takeover(a, n, loc)
  <2>1. Seed(n) <= ADU_MAX
    BY SeedType
  <2>2. req_len' = [req_len EXCEPT ![a] = Seed(n)] /\ pc' = "read"
    BY <1>3 DEF Takeover
  <2>3. req_len \in [Sessions -> Nat]
    BY DEF TypeOK
  <2>4. req_len'[s] <= ADU_MAX
    BY <2>1, <2>2, <2>3 DEF AccumulatorInv
  <2> QED
    BY <1>2, <2>2, <2>4 DEF AccumulatorInv
<1>4. CASE ~Takeover(a, n, loc)
  <2>1. Unbuffered(s)
    BY <1>2, <1>4 DEF Unbuffered, PrereadFate, Finalize, frameVars, workerVars
  <2> QED
    BY <2>1, AccumulatorKept
<1> QED
  BY <1>3, <1>4

\* A frame leaves the loop with a legal length, whole.
LEMMA AccumulatorReadFrame ==
  ASSUME TypeOK, NEW a \in Sessions, StreamInv(a), NEW s \in Sessions, AccumulatorInv(s),
         ReadFrame(a) \/ ReadBadLength(a)
  PROVE  AccumulatorInv(s)'
<1>1. UNCHANGED <<req_len, rsp_len, rsp_sent>>
  BY DEF ReadFrame, ReadBadLength, replyVars
<1>2. /\ req_need' = [req_need EXCEPT ![a] = Need(a)]
      /\ req_need \in [Sessions -> Nat]
  BY DEF ReadFrame, ReadBadLength, TypeOK
<1>3. ASSUME pc' \in {"transact", "confirm"}, run' = s
      PROVE  MBAP_LEN <= req_need'[s] /\ req_need'[s] <= req_len'[s]
  <2>1. ReadFrame(a) /\ s = a
    BY <1>3 DEF ReadFrame, ReadBadLength, Finalize, Running
  <2>2. req_len[a] >= Need(a) /\ ~BadLength(Need(a)) /\ Need(a) \in Nat
    BY <2>1, NeedType DEF ReadFrame, FrameRead
  <2>3. MBAP_LEN <= Need(a)
    BY <2>2 DEF BadLength, MBAP_LEN
  <2>4. req_len[a] \in Nat
    BY DEF TypeOK
  <2> QED
    BY <1>1, <1>2, <2>1, <2>2, <2>3, <2>4
<1> QED
  BY <1>1, <1>3 DEF AccumulatorInv

\* recv is asked for no more than the rest of the frame, or of its header.
LEMMA AccumulatorRecv ==
  ASSUME TypeOK, NEW a \in Sessions, StreamInv(a), NEW s \in Sessions, AccumulatorInv(s),
         ReadRecv(a)
  PROVE  AccumulatorInv(s)'
<1>1. UNCHANGED <<rsp_len, rsp_sent>>
  BY DEF ReadRecv, replyVars
<1>2. ~(pc' \in {"transact", "confirm"})
  BY DEF ReadRecv, Running, Return, Finalize, workerVars
<1>3. req_len'[s] <= ADU_MAX
  <2> DEFINE m == Least(Want(a), InSocket(a))
  <2>1. req_len \in [Sessions -> Nat] /\ req_len[s] <= ADU_MAX
    BY DEF TypeOK, AccumulatorInv
  <2>2. m \in Nat /\ m <= Want(a) /\ Want(a) \in Nat
    BY WantType, InSocketType, LeastType DEF ReadRecv
  <2>3. req_len[a] + Want(a) <= ADU_MAX
    <3>1. CASE HeaderRead(a)
      <4>1. Need(a) \in Nat /\ Need(a) <= ADU_MAX
        <5>1. Need(a) \in Nat /\ ~BadLength(Need(a))
          BY <3>1, NeedType DEF ReadRecv
        <5> QED
          BY <5>1 DEF BadLength, ADU_MAX
      <4>2. Want(a) = Need(a) - req_len[a]
        BY <3>1 DEF Want
      <4> QED
        BY <2>1, <4>1, <4>2
    <3>2. CASE ~HeaderRead(a)
      <4>1. Want(a) = MBAP_LEN - req_len[a]
        BY <3>2 DEF Want
      <4>2. MBAP_LEN <= ADU_MAX /\ MBAP_LEN \in Nat
        BY SMT DEF MBAP_LEN, ADU_MAX
      <4> QED
        BY <2>1, <4>1, <4>2
    <3> QED
      BY <3>1, <3>2
  <2>4. req_len' = [req_len EXCEPT ![a] = @ + m] \/ req_len' = req_len
    BY DEF ReadRecv
  <2>5. ADU_MAX \in Nat
    BY DEF ADU_MAX
  <2> HIDE DEF m
  <2>6. CASE req_len' = [req_len EXCEPT ![a] = @ + m]
    BY <2>1, <2>2, <2>3, <2>5, <2>6
  <2> QED
    BY <2>1, <2>4, <2>6
<1> QED
  BY <1>1, <1>2, <1>3 DEF AccumulatorInv

\* Replies fit in rsp.
LEMMA AccumulatorReply ==
  ASSUME TypeOK, NEW a \in Sessions, NEW s \in Sessions, AccumulatorInv(s),
         NoRtuBackend(a) \/ OpenFails(a) \/ SendFails(a) \/ Confirmed(a) \/ ShortReply(a)
           \/ BadCrc(a) \/ NoConfirmation(a)
  PROVE  AccumulatorInv(s)'
<1>1. TransactUnchanged
  BY DEF NoRtuBackend, OpenFails, SendFails, Confirmed, ShortReply, BadCrc, NoConfirmation
<1>2. PICK len \in Nat : len <= ADU_MAX /\ \E res, ans : Reply(a, res, ans, len)
  <2>1. CASE Confirmed(a)
    <3>1. PICK ret \in Rets : Reply(a, 0, Head(inq), MBAP_LEN + ret - 3)
      BY <2>1 DEF Confirmed
    <3> QED
      BY <3>1, ConfirmedLength
  <2>2. CASE ~Confirmed(a)
    <3>1. 9 \in Nat /\ 9 <= ADU_MAX
      BY SMT DEF ADU_MAX
    <3>2. Exception(a, GATEWAY_PATH) \/ Exception(a, GATEWAY_TARGET)
      BY <2>2 DEF NoRtuBackend, OpenFails, SendFails, ShortReply, BadCrc, NoConfirmation
    <3> QED
      BY <3>1, <3>2 DEF Exception
  <2> QED
    BY <2>1, <2>2
<1>3. /\ UNCHANGED <<req_len, req_need>> /\ pc' = "send"
      /\ rsp_len' = [rsp_len EXCEPT ![a] = len]
      /\ rsp_sent' = [rsp_sent EXCEPT ![a] = 0]
  BY <1>1, <1>2 DEF TransactUnchanged, Reply, frameVars
<1>4. rsp_len \in [Sessions -> Nat] /\ rsp_sent \in [Sessions -> Nat]
  BY DEF TypeOK
<1>5. rsp_sent'[s] <= rsp_len'[s] /\ rsp_len'[s] <= ADU_MAX
  BY <1>2, <1>3, <1>4 DEF AccumulatorInv
<1> QED
  BY <1>3, <1>5 DEF AccumulatorInv

LEMMA AccumulatorSendOk ==
  ASSUME TypeOK, NEW a \in Sessions, NEW s \in Sessions, AccumulatorInv(s), SendOk(a)
  PROVE  AccumulatorInv(s)'
<1> DEFINE n == Least(SndBuf - queued[a], rsp_len[a] - rsp_sent[a])
<1>1. n \in Nat /\ rsp_sent[a] + n <= rsp_len[a]
  BY SendOkCount
<1>2. /\ rsp_sent' = [rsp_sent EXCEPT ![a] = @ + n]
      /\ UNCHANGED <<req_len, req_need, rsp_len>> /\ pc' = pc /\ run' = run
  BY DEF SendOk, frameVars, workerVars
<1>3. rsp_len \in [Sessions -> Nat] /\ rsp_sent \in [Sessions -> Nat]
  BY DEF TypeOK
<1> HIDE DEF n
<1>4. rsp_sent'[s] <= rsp_len'[s]
  BY <1>1, <1>2, <1>3 DEF AccumulatorInv
<1> QED
  BY <1>2, <1>4 DEF AccumulatorInv

LEMMA AccumulatorSendDone ==
  ASSUME TypeOK, NEW a \in Sessions, NEW s \in Sessions, AccumulatorInv(s), SendDone(a)
  PROVE  AccumulatorInv(s)'
<1>1. /\ req_len' = [req_len EXCEPT ![a] = Leftover(a)]
      /\ rsp_len' = [rsp_len EXCEPT ![a] = 0]
      /\ rsp_sent' = [rsp_sent EXCEPT ![a] = 0]
      /\ ~(pc' \in {"transact", "confirm"})
  BY DEF SendDone, Return
<1>2. /\ rsp_len \in [Sessions -> Nat] /\ rsp_sent \in [Sessions -> Nat]
      /\ req_len \in [Sessions -> Nat]
  BY DEF TypeOK
<1>3. Leftover(a) \in Nat /\ Leftover(a) <= req_len[a]
  BY LeftoverType
<1>4. ADU_MAX \in Nat
  BY DEF ADU_MAX
<1>5. req_len'[s] <= ADU_MAX
  BY <1>1, <1>2, <1>3, <1>4 DEF AccumulatorInv
<1>6. rsp_sent'[s] <= rsp_len'[s] /\ rsp_len'[s] <= ADU_MAX
  BY <1>1, <1>2, <1>4 DEF AccumulatorInv
<1> QED
  BY <1>1, <1>5, <1>6 DEF AccumulatorInv

LEMMA AccumulatorStep ==
  ASSUME IndInv, [Next]_vars, NEW s \in Sessions
  PROVE  AccumulatorInv(s)'
<1> USE DEF IndInv
<1>1. CASE Unbuffered(s)
  BY <1>1, AccumulatorKept
<1> QED
  BY <1>1, UnbufferedSteps, AccumulatorPreread, AccumulatorReadFrame, AccumulatorRecv,
     AccumulatorReply, AccumulatorSendOk, AccumulatorSendDone
-----------------------------------------------------------------------------
(* The worker and the line.                                                 *)

LEMMA WorkerStep ==
  ASSUME IndInv, [Next]_vars
  PROVE  WorkerInv'
<1> USE DEF IndInv
<1>0. /\ run = NULL <=> pc = "idle"
      /\ run # NULL => phase[run] = "bridge"
      /\ NULL \notin Sessions /\ run \in Sessions \cup {NULL}
      /\ phase \in [Sessions -> {"preread", "bridge", "proxied", "closed"}]
  BY ConstantTypes DEF WorkerInv, TypeOK
<1>1. ASSUME UNCHANGED <<run, phase>>, run # NULL,
             pc' \in {"read", "transact", "confirm", "send"}
      PROVE  WorkerInv'
  BY <1>0, <1>1 DEF WorkerInv
<1>2. ASSUME UNCHANGED <<run, phase, pc>>
      PROVE  WorkerInv'
  BY <1>0, <1>2 DEF WorkerInv
<1>3. ASSUME NEW a \in Sessions, Finalize(a)
      PROVE  WorkerInv'
  BY <1>3 DEF WorkerInv, Finalize
<1>4. ASSUME Return, run # NULL, UNCHANGED phase
      PROVE  WorkerInv'
  BY <1>0, <1>4 DEF WorkerInv, Return
<1>5. ASSUME NEW a \in Sessions, Client(a)
      PROVE  WorkerInv'
  BY <1>2, <1>5 DEF Client, ClientRequest, ClientWriteRest, ClientRead, ClientClose, workerVars
<1>6. ASSUME NEW a \in Sessions, Preread(a)
      PROVE  WorkerInv'
  <2>0. run = NULL /\ pc = "idle" /\ StreamInv(a)
    BY <1>0, <1>6 DEF Preread, Idle
  <2> PICK n \in Nat, loc \in Routes : PrereadFate(a, n, loc, Verdict(loc, Byte(a, 8)))
    BY <1>6, <2>0, PrereadCases
  <2>1. CASE Takeover(a, n, loc)
    BY <1>0, <2>1 DEF WorkerInv, Takeover
  <2>2. CASE UNCHANGED workerVars
    BY <2>0, <2>2 DEF WorkerInv, workerVars
  <2> QED
    BY <1>3, <2>1, <2>2 DEF PrereadFate
<1>7. ASSUME NEW a \in Sessions, Dispatch(a)
      PROVE  WorkerInv'
  <2>1. UNCHANGED phase /\ phase[a] = "bridge"
    BY <1>7 DEF Dispatch
  <2>2. CASE run' = a /\ pc' \in {"read", "send"}
    BY <1>0, <2>1, <2>2 DEF WorkerInv
  <2>3. CASE UNCHANGED workerVars
    BY <1>2, <2>1, <2>3 DEF workerVars
  <2> QED
    BY <1>7, <2>2, <2>3 DEF Dispatch
<1>8. ASSUME NEW a \in Sessions, Timers(a)
      PROVE  WorkerInv'
  BY <1>3, <1>8 DEF Timers, PrereadTimeout, SessionTimeout
<1>9. ASSUME NEW a \in Sessions, Handler(a)
      PROVE  WorkerInv'
  <2>1. run # NULL
    BY <1>0, <1>9 DEF Handler, ReadBadLength, ReadFrame, ReadRecv, NoRtuBackend, OpenFails,
      SendFails, SendRequest, Confirmed, ShortReply, BadCrc, NoConfirmation, SendOk, SendAgain,
      SendError, SendDone, Running
  <2>2. CASE ReadBadLength(a) \/ SendError(a)
    BY <1>3, <2>2 DEF ReadBadLength, SendError
  <2>3. CASE ReadFrame(a)
    BY <1>1, <1>3, <2>1, <2>3 DEF ReadFrame
  <2>4. CASE ReadRecv(a)
    BY <1>2, <1>3, <1>4, <2>1, <2>4 DEF ReadRecv, workerVars
  <2>5. CASE NoRtuBackend(a) \/ OpenFails(a) \/ SendFails(a) \/ Confirmed(a) \/ ShortReply(a)
             \/ BadCrc(a) \/ NoConfirmation(a)
    BY <1>1, <2>1, <2>5 DEF NoRtuBackend, OpenFails, SendFails, Confirmed, ShortReply, BadCrc,
      NoConfirmation, Exception, Reply, TransactUnchanged
  <2>6. CASE SendRequest(a)
    BY <1>1, <2>1, <2>6 DEF SendRequest, TransactUnchanged
  <2>7. CASE SendOk(a)
    BY <1>2, <2>7 DEF SendOk, workerVars
  <2>8. CASE SendAgain(a)
    BY <1>4, <2>1, <2>8 DEF SendAgain
  <2>9. CASE SendDone(a)
    BY <1>1, <1>4, <2>1, <2>9 DEF SendDone
  <2> QED
    BY <1>9, <2>2, <2>3, <2>4, <2>5, <2>6, <2>7, <2>8, <2>9 DEF Handler
<1>10. ASSUME NEW x \in owed, SlaveAnswers(x)
       PROVE  WorkerInv'
  BY <1>2, <1>10 DEF SlaveAnswers, workerVars
<1>11. CASE UNCHANGED vars
  BY <1>2, <1>11 DEF vars, workerVars
<1> QED
  BY <1>5, <1>6, <1>7, <1>8, <1>9, <1>10, <1>11 DEF Next, EventLoop

\* The steps at which the bridge waits for an answer: it has just sent the
\* request, or was waiting and nothing it waits with has moved.
LEMMA ConfirmSteps ==
  ASSUME IndInv, [Next]_vars, pc' = "confirm"
  PROVE  \/ \E s \in Sessions : SendRequest(s)
         \/ /\ pc = "confirm"
            /\ UNCHANGED <<run, mb, hist, base, lost>>
<1> USE DEF IndInv
<1>1. ASSUME NEW a \in Sessions, Client(a)
      PROVE  pc = "confirm" /\ UNCHANGED <<run, mb, hist, base, lost>>
  BY <1>1 DEF Client, ClientRequest, ClientWriteRest, ClientRead, ClientClose, workerVars,
    lineVars, frameVars
<1>2. ASSUME NEW a \in Sessions, Preread(a)
      PROVE  FALSE
  <2>1. pc = "idle" /\ StreamInv(a)
    BY <1>2 DEF Preread, Idle, WorkerInv
  <2> PICK n \in Nat, loc \in Routes : PrereadFate(a, n, loc, Verdict(loc, Byte(a, 8)))
    BY <1>2, <2>1, PrereadCases
  <2> QED
    BY <2>1 DEF PrereadFate, Finalize, Takeover, workerVars
<1>3. ASSUME NEW a \in Sessions, Dispatch(a) \/ Timers(a)
      PROVE  FALSE
  BY <1>3 DEF Dispatch, Timers, PrereadTimeout, SessionTimeout, Finalize, Idle, WorkerInv,
    workerVars
<1>4. ASSUME NEW a \in Sessions, Handler(a), ~SendRequest(a)
      PROVE  FALSE
  BY <1>4 DEF Handler, ReadBadLength, ReadFrame, ReadRecv, NoRtuBackend, OpenFails, SendFails,
    Confirmed, ShortReply, BadCrc, NoConfirmation, SendOk, SendAgain, SendError, SendDone,
    Running, Return, Finalize, Exception, Reply, workerVars
<1>5. ASSUME NEW x \in owed, SlaveAnswers(x)
      PROVE  pc = "confirm" /\ UNCHANGED <<run, mb, hist, base, lost>>
  BY <1>5 DEF SlaveAnswers, workerVars, frameVars
<1>6. CASE UNCHANGED vars
  BY <1>6 DEF vars, workerVars, lineVars, frameVars
<1> QED
  BY <1>1, <1>2, <1>3, <1>4, <1>5, <1>6 DEF Next, EventLoop

\* A byte of the accumulator stays what it is while the accumulator does.
LEMMA ReqStable ==
  ASSUME IndInv, [Next]_vars, NEW s \in Sessions, base'[s] = base[s], lost'[s] = lost[s],
         NEW i \in Nat, 1 <= i, i <= req_len[s]
  PROVE  Req(s, i)' = Req(s, i)
<1> USE DEF IndInv
<1>1. Position(s, i)' = Position(s, i)
  BY DEF Position
<1>2. Position(s, i) \in 1..written[s]
  BY ReqType
<1> PICK p \in 1..written[s] : p = Position(s, i)
  BY <1>2
<1>3. Req(s, i) = Byte(s, p)
  BY DEF Req
<1>4. Req(s, i)' = Byte(s, p)'
  BY <1>1 DEF Req, Byte
<1>5. Byte(s, p)' = Byte(s, p)
  BY ByteStable
<1> QED
  BY <1>3, <1>4, <1>5

LEMMA LineStep ==
  ASSUME IndInv, [Next]_vars
  PROVE  LineInv'
<1> USE DEF IndInv
<1> SUFFICES ASSUME pc' = "confirm"
             PROVE  /\ mb' = "open"
                    /\ hist' # <<>> /\ hist'[Len(hist')].s = run'
                    /\ hist'[Len(hist')].unit = Req(run, 7)'
  BY DEF LineInv
<1>1. ASSUME NEW s \in Sessions, SendRequest(s)
      PROVE  /\ mb' = "open"
             /\ hist' # <<>> /\ hist'[Len(hist')].s = run'
             /\ hist'[Len(hist')].unit = Req(run, 7)'
  <2> DEFINE h == [s |-> s, k |-> Held(s), unit |-> Req(s, 7), fc |-> Req(s, 8)]
  <2>1. /\ mb' = "open" /\ hist' = Append(hist, h) /\ run' = s /\ run = s
        /\ base' = base /\ lost' = lost
    BY <1>1 DEF SendRequest, LinkOpen, Running, TransactUnchanged, frameVars
  <2>2. hist \in Seq([s : Sessions, k : Nat, unit : Octets, fc : Octets])
    BY DEF TypeOK
  <2>3. h.s = s /\ h.unit = Req(s, 7)
    OBVIOUS
  <2>4. Req(s, 7)' = Req(s, 7)
    <3>1. 7 <= req_len[s]
      BY <1>1, TransactBytes DEF SendRequest
    <3> QED
      BY <2>1, <3>1, ReqStable
  <2> HIDE DEF h
  <2>5. hist' # <<>> /\ hist'[Len(hist')] = h
    BY <2>1, <2>2
  <2>6. Req(run, 7)' = Req(s, 7)'
    BY <2>1 DEF Req
  <2> QED
    BY <2>1, <2>3, <2>4, <2>5, <2>6
<1>2. CASE pc = "confirm" /\ UNCHANGED <<run, mb, hist, base, lost>>
  <2>1. run \in Sessions
    BY <1>2 DEF WorkerInv, TypeOK
  <2> PICK r \in Sessions : r = run
    BY <2>1
  <2>2. 7 <= req_len[r]
    BY <1>2, TransactBytes DEF Running
  <2>3. Req(run, 7)' = Req(run, 7)
    <3>1. Req(r, 7)' = Req(r, 7)
      BY <1>2, <2>2, ReqStable
    <3>2. Req(run, 7)' = Req(r, 7)'
      BY <1>2 DEF Req, Position, Byte
    <3> QED
      BY <3>1, <3>2
  <2> QED
    BY <1>2, <2>3 DEF LineInv
<1> QED
  BY <1>1, <1>2, ConfirmSteps
-----------------------------------------------------------------------------
(* Screening.                                                               *)

\* Screened looks at two written bytes, which do not change.
LEMMA ScreenedStable ==
  ASSUME IndInv, [Next]_vars, NEW s \in Sessions, written[s] >= 8, Screened(s)
  PROVE  written'[s] >= 8 /\ Screened(s)'
<1>1. written[s] \in Nat /\ written'[s] \in Nat
  BY TypeStep DEF IndInv, TypeOK
<1>2. written[s] <= written'[s] /\ \A p \in 1..written[s] : Byte(s, p)' = Byte(s, p)
  BY ByteStable
<1>3. 7 \in 1..written[s] /\ 8 \in 1..written[s]
  BY <1>1
<1>4. Byte(s, 7)' = Byte(s, 7) /\ Byte(s, 8)' = Byte(s, 8)
  BY <1>2, <1>3
<1>5. written'[s] >= 8
  BY <1>1, <1>2
<1> QED
  BY <1>4, <1>5 DEF Screened

\* Only the preread handler opens a bridge, for a request it lets through.
LEMMA BridgeOpens ==
  ASSUME IndInv, [Next]_vars, NEW s \in Sessions, phase'[s] = "bridge"
  PROVE  phase[s] = "bridge" \/ (written[s] >= 8 /\ Screened(s))
<1> USE DEF IndInv
<1>0. phase \in [Sessions -> {"preread", "bridge", "proxied", "closed"}]
  BY DEF TypeOK
<1>1. ASSUME UNCHANGED phase
      PROVE  phase[s] = "bridge"
  BY <1>1
<1>2. ASSUME NEW a \in Sessions, Finalize(a)
      PROVE  phase[s] = "bridge"
  BY <1>0, <1>2 DEF Finalize
<1>3. ASSUME NEW a \in Sessions, Client(a)
      PROVE  phase[s] = "bridge"
  BY <1>1, <1>3 DEF Client, ClientRequest, ClientWriteRest, ClientRead, ClientClose
<1>4. ASSUME NEW a \in Sessions, Preread(a)
      PROVE  phase[s] = "bridge" \/ (written[s] >= 8 /\ Screened(s))
  <2>1. PICK n \in Nat, loc \in Routes :
          /\ n = buffered[a] + InSocket(a)
          /\ loc = FindLocation(Blocks, Default, Byte(a, 7)) \/ n < 8
          /\ PrereadFate(a, n, loc, Verdict(loc, Byte(a, 8)))
    BY <1>4, PrereadCases
  <2>2. CASE n >= 8 /\ Verdict(loc, Byte(a, 8)) = "bridge" /\ Takeover(a, n, loc)
    <3>1. written[a] >= 8
      BY <2>1, <2>2, PrereadBytes
    <3>2. loc = FindLocation(Blocks, Default, Byte(a, 7))
      BY <2>1, <2>2
    <3>3. loc # NULL /\ loc.mode = "rtu" /\ ~Denies(loc, Byte(a, 8))
      BY <2>2 DEF Verdict
    <3>4. Screened(a)
      BY <3>2, <3>3 DEF Screened
    <3>5. phase[s] = "bridge" \/ s = a
      BY <1>0, <2>2 DEF Takeover
    <3> QED
      BY <3>1, <3>4, <3>5
  <2>3. CASE Finalize(a) \/ UNCHANGED phase
    BY <1>1, <1>2, <2>3
  <2>4. CASE phase' = [phase EXCEPT ![a] = "proxied"]
    BY <1>0, <2>4
  <2> QED
    BY <2>1, <2>2, <2>3, <2>4 DEF PrereadFate
<1>5. ASSUME NEW a \in Sessions, Dispatch(a)
      PROVE  phase[s] = "bridge"
  BY <1>1, <1>5 DEF Dispatch
<1>6. ASSUME NEW a \in Sessions, Timers(a)
      PROVE  phase[s] = "bridge"
  BY <1>2, <1>6 DEF Timers, PrereadTimeout, SessionTimeout
<1>7. ASSUME NEW a \in Sessions, Handler(a)
      PROVE  phase[s] = "bridge"
  <2>1. CASE ReadBadLength(a) \/ ReadFrame(a) \/ ReadRecv(a) \/ SendError(a)
    BY <1>1, <1>2, <2>1 DEF ReadBadLength, ReadFrame, ReadRecv, SendError
  <2>2. CASE SendOk(a) \/ SendAgain(a) \/ SendDone(a)
    BY <1>1, <2>2 DEF SendOk, SendAgain, SendDone
  <2>3. CASE TransactUnchanged
    BY <1>1, <2>3 DEF TransactUnchanged
  <2> QED
    BY <1>7, <2>1, <2>2, <2>3 DEF Handler, NoRtuBackend, OpenFails, SendFails, SendRequest,
      Confirmed, ShortReply, BadCrc, NoConfirmation
<1>8. ASSUME NEW x \in owed, SlaveAnswers(x)
      PROVE  phase[s] = "bridge"
  BY <1>1, <1>8 DEF SlaveAnswers
<1>9. CASE UNCHANGED vars
  BY <1>1, <1>9 DEF vars
<1> QED
  BY <1>3, <1>4, <1>5, <1>6, <1>7, <1>8, <1>9 DEF Next, EventLoop

\* Only a transaction of a bridged session extends the history of the line.
LEMMA LineIsWrittenBy ==
  ASSUME [Next]_vars
  PROVE  hist' = hist \/ \E s \in Sessions : SendRequest(s)
<1>1. ASSUME NEW a \in Sessions, Client(a) \/ Dispatch(a) \/ Preread(a) \/ Timers(a)
      PROVE  hist' = hist
  BY <1>1 DEF Client, ClientRequest, ClientWriteRest, ClientRead, ClientClose, Dispatch, Preread,
    Timers, PrereadTimeout, SessionTimeout, lineVars
<1>2. ASSUME NEW a \in Sessions, Handler(a), ~SendRequest(a)
      PROVE  hist' = hist
  BY <1>2 DEF Handler, ReadBadLength, ReadFrame, ReadRecv, NoRtuBackend, OpenFails, SendFails,
    Confirmed, ShortReply, BadCrc, NoConfirmation, SendOk, SendAgain, SendError, SendDone,
    lineVars
<1>3. ASSUME NEW x \in owed, SlaveAnswers(x)
      PROVE  hist' = hist
  BY <1>3 DEF SlaveAnswers
<1>4. CASE UNCHANGED vars
  BY <1>4 DEF vars, lineVars
<1> QED
  BY <1>1, <1>2, <1>3, <1>4 DEF Next, EventLoop

LEMMA ScreenStep ==
  ASSUME IndInv, [Next]_vars
  PROVE  ScreenInv'
<1> USE DEF IndInv
<1>1. ASSUME NEW s \in Sessions, phase'[s] = "bridge"
      PROVE  written'[s] >= 8 /\ Screened(s)'
  BY <1>1, BridgeOpens, ScreenedStable DEF ScreenInv
<1>2. ASSUME NEW i \in DOMAIN hist'
      PROVE  /\ written'[hist'[i].s] >= 8 /\ Screened(hist[i].s)'
             /\ RtuRouted(hist'[i].unit)
  <2>1. hist \in Seq([s : Sessions, k : Nat, unit : Octets, fc : Octets])
    BY DEF TypeOK
  <2>2. ASSUME i \in DOMAIN hist, hist'[i] = hist[i]
        PROVE  /\ written'[hist'[i].s] >= 8 /\ Screened(hist[i].s)'
               /\ RtuRouted(hist'[i].unit)
    <3> DEFINE H == [s : Sessions, k : Nat, unit : Octets, fc : Octets]
    <3>0. hist[i] \in H
      <4>1. hist \in Seq(H) /\ i \in DOMAIN hist
        BY <2>1, <2>2
      <4> HIDE DEF H
      <4> QED
        BY <4>1
    <3> PICK t \in Sessions : t = hist[i].s
      BY <3>0
    <3>1. written[t] >= 8 /\ Screened(t) /\ RtuRouted(hist[i].unit)
      BY <2>2 DEF ScreenInv
    <3>2. written'[t] >= 8 /\ Screened(t)'
      BY <3>1, ScreenedStable
    <3>3. Screened(hist[i].s)' = Screened(t)'
      BY <2>2 DEF Screened, Byte, FramesAt
    <3> QED
      BY <2>2, <3>1, <3>2, <3>3
  <2>3. CASE hist' = hist
    BY <1>2, <2>2, <2>3
  <2>4. ASSUME NEW s \in Sessions, SendRequest(s), ~(i \in DOMAIN hist)
        PROVE  /\ written'[hist'[i].s] >= 8 /\ Screened(hist[i].s)'
               /\ RtuRouted(hist'[i].unit)
    <3> DEFINE h == [s |-> s, k |-> Held(s), unit |-> Req(s, 7), fc |-> Req(s, 8)]
    <3>1. hist' = Append(hist, h)
      BY <2>4 DEF SendRequest
    <3>2. h.s = s /\ h.unit = Req(s, 7)
      OBVIOUS
    <3>3. RtuRouted(Req(s, 7))
      BY <2>4 DEF SendRequest
    <3>4. phase[s] = "bridge"
      <4>1. run = s /\ NULL \notin Sessions
        BY <2>4, ConstantTypes DEF SendRequest, Running
      <4> QED
        BY <4>1 DEF WorkerInv
    <3>5. written'[s] >= 8 /\ Screened(s)'
      BY <3>4, ScreenedStable DEF ScreenInv
    <3> HIDE DEF h
    <3>6. hist'[i] = h
      BY <1>2, <2>1, <2>4, <3>1
    <3>7. Screened(hist[i].s)' = Screened(s)'
      BY <3>2, <3>6 DEF Screened, Byte, FramesAt
    <3> QED
      BY <3>2, <3>3, <3>5, <3>6, <3>7
  <2>5. ASSUME NEW s \in Sessions, SendRequest(s), i \in DOMAIN hist
        PROVE  hist'[i] = hist[i]
    BY <2>1, <2>5 DEF SendRequest
  <2> QED
    BY <2>2, <2>3, <2>4, <2>5, LineIsWrittenBy
<1> QED
  BY <1>1, <1>2 DEF ScreenInv, RtuRouted
-----------------------------------------------------------------------------
(* What is left of a reply.                                                 *)

\* What a session s keeps, and the gateway keeps of it, but for out.
Mine(s) ==
  <<script[s], written[s], peer[s], seen[s], ready[s], queued[s], wactive[s], phase[s],
    buffered[s], loc_conf[s], base[s], lost[s], req_len[s], req_need[s],
    rsp[s], rsp_len[s], rsp_sent[s]>>

\* A step of one session leaves every other alone: the worker does not run for
\* two of them, and if it runs for the other, only a's client takes the step.
LEMMA Untouched ==
  ASSUME IndInv, NEW a \in Sessions, NEW s \in Sessions, a # s,
         Client(a) \/ EventLoop(a) \/ Handler(a) \/ Timers(a)
  PROVE  /\ Mine(s)' = Mine(s)
         /\ run' = s <=> run = s
         /\ run = s => UNCHANGED workerVars
<1> USE DEF IndInv
<1>0. NULL # a /\ NULL # s
  BY ConstantTypes
<1>1. CASE Client(a)
  <2>1. CASE ClientRead(a)
    BY <2>1 DEF TypeOK, Mine, ClientRead, frameVars, replyVars, workerVars
  <2>2. CASE ClientWriteRest(a)
    BY <2>2 DEF TypeOK, Mine, ClientWriteRest, frameVars, replyVars, workerVars
  <2>3. CASE ClientClose(a)
    BY <2>3 DEF TypeOK, Mine, ClientClose, frameVars, replyVars, workerVars
  <2>4. ASSUME NEW f \in Requests, NEW n \in Chunks, ClientRequest(a, f, n)
        PROVE  /\ Mine(s)' = Mine(s)
               /\ UNCHANGED workerVars
    <3>1. script'[s] = script[s] /\ written'[s] = written[s]
      BY <2>4, AppendedScript
    <3> QED
      BY <2>4, <3>1 DEF TypeOK, Mine, ClientRequest, frameVars, replyVars, workerVars
  <2> QED
    BY <1>1, <2>1, <2>2, <2>3, <2>4 DEF Client, workerVars
<1>2. CASE Preread(a)
  <2>1. run = NULL /\ UNCHANGED <<clientVars, queued, wactive, replyVars>>
    BY <1>2 DEF Preread, Idle
  <2> PICK n \in Nat, loc \in Routes : PrereadFate(a, n, loc, Verdict(loc, Byte(a, 8)))
    BY <1>2, PrereadCases
  <2> QED
    BY <1>0, <2>1 DEF TypeOK, Mine, PrereadFate, Takeover, Finalize, clientVars, frameVars,
      replyVars, workerVars
<1>3. CASE Dispatch(a) \/ Timers(a)
  BY <1>0, <1>3 DEF TypeOK, Mine, Dispatch, Timers, PrereadTimeout, SessionTimeout, Finalize, Idle,
    clientVars, frameVars, replyVars, workerVars
<1>4. CASE ReadBadLength(a) \/ ReadFrame(a) \/ ReadRecv(a)
  BY <1>0, <1>4 DEF TypeOK, Mine, ReadBadLength, ReadFrame, ReadRecv, Finalize, Return, Running,
    clientVars, frameVars, replyVars, workerVars
<1>5. CASE NoRtuBackend(a) \/ OpenFails(a) \/ SendFails(a) \/ ShortReply(a) \/ BadCrc(a)
           \/ NoConfirmation(a)
  BY <1>0, <1>5 DEF TypeOK, Mine, NoRtuBackend, OpenFails, SendFails, ShortReply, BadCrc,
    NoConfirmation, TransactUnchanged, Exception, Reply, Running, clientVars, kernelVars,
    frameVars
<1>6. CASE SendRequest(a) \/ Confirmed(a)
  BY <1>0, <1>6 DEF TypeOK, Mine, SendRequest, Confirmed, TransactUnchanged, Reply, Running,
    clientVars, kernelVars, frameVars, replyVars
<1>7. CASE SendOk(a) \/ SendAgain(a) \/ SendError(a)
  BY <1>0, <1>7 DEF TypeOK, Mine, SendOk, SendAgain, SendError, HandleWriteEvent, Finalize,
    Return, Running, clientVars, frameVars, replyVars, workerVars
<1>8. CASE SendDone(a)
  BY <1>0, <1>8 DEF TypeOK, Mine, SendDone, Return, Running, clientVars, kernelVars
<1> QED
  BY <1>1, <1>2, <1>3, <1>4, <1>5, <1>6, <1>7, <1>8 DEF EventLoop, Handler

\* No step loses the wake-up of a blocked reply.
LEMMA WakeStep ==
  ASSUME IndInv, [Next]_vars, NEW s \in Sessions
  PROVE  WakeInv(s)'
<1> USE DEF IndInv
<1>0. /\ WakeInv(s) /\ NULL # s
      /\ ready \in [Sessions -> BOOLEAN] /\ wactive \in [Sessions -> BOOLEAN]
      /\ queued \in [Sessions -> 0..SndBuf]
      /\ phase \in [Sessions -> {"preread", "bridge", "proxied", "closed"}]
      /\ rsp_len \in [Sessions -> Nat] /\ rsp_sent \in [Sessions -> Nat]
      /\ wnext \in BOOLEAN /\ SndBuf \in Nat
  BY ConstantTypes DEF TypeOK
<1>1. ASSUME Mine(s)' = Mine(s), run' = s <=> run = s, run = s => UNCHANGED workerVars
      PROVE  WakeInv(s)'
  BY <1>0, <1>1 DEF Mine, WakeInv, Running, Writable, workerVars
<1>2. ASSUME NEW a \in Sessions, a # s, Client(a) \/ EventLoop(a) \/ Handler(a) \/ Timers(a)
      PROVE  WakeInv(s)'
  BY <1>1, <1>2, Untouched
<1>3. CASE Client(s)
  <2>1. CASE ClientRead(s)
    BY <1>0, <2>1 DEF ClientRead, WakeInv, Running, Writable, replyVars, workerVars
  <2>2. CASE ~ClientRead(s)
    BY <1>0, <1>3, <2>2 DEF Client, ClientRequest, ClientWriteRest, ClientClose, WakeInv,
      Running, Writable, replyVars, workerVars
  <2> QED
    BY <2>1, <2>2
<1>4. CASE Preread(s)
  <2>1. UNCHANGED replyVars /\ rsp_len[s] = 0
    BY <1>0, <1>4 DEF Preread, WakeInv
  <2> QED
    BY <1>0, <2>1 DEF WakeInv, replyVars
<1>5. CASE Dispatch(s)
  BY <1>0, <1>5 DEF Dispatch, WakeInv, Running, Idle, Writable, replyVars, workerVars
<1>6. ASSUME Finalize(s)
      PROVE  WakeInv(s)'
  BY <1>0, <1>6 DEF Finalize, WakeInv
<1>7. CASE Timers(s)
  BY <1>6, <1>7 DEF Timers, PrereadTimeout, SessionTimeout
<1>8. CASE Handler(s)
  <2>0. run = s /\ phase[s] = "bridge"
    BY <1>0, <1>8 DEF Handler, ReadBadLength, ReadFrame, ReadRecv, NoRtuBackend, OpenFails,
      SendFails, SendRequest, Confirmed, ShortReply, BadCrc, NoConfirmation, SendOk, SendAgain,
      SendError, SendDone, Running, WorkerInv
  <2>1. CASE ReadBadLength(s) \/ SendError(s)
    BY <1>6, <2>1 DEF ReadBadLength, SendError
  <2>2. CASE ReadFrame(s)
    <3>1. CASE Finalize(s)
      BY <1>6, <3>1
    <3>2. CASE ~Finalize(s)
      BY <1>0, <2>0, <2>2, <3>2 DEF ReadFrame, WakeInv, Running, Writable, replyVars
    <3> QED
      BY <3>1, <3>2
  <2>3. CASE ReadRecv(s)
    <3>1. CASE Finalize(s)
      BY <1>6, <3>1
    <3>2. CASE Return /\ UNCHANGED <<phase, ready>>
      BY <1>0, <2>0, <2>3, <3>2 DEF ReadRecv, Return, WakeInv, Running, Writable, replyVars
    <3>3. CASE UNCHANGED <<phase, ready, workerVars>>
      BY <1>0, <2>0, <2>3, <3>3 DEF ReadRecv, WakeInv, Running, Writable, replyVars, workerVars
    <3> QED
      BY <2>3, <3>1, <3>2, <3>3 DEF ReadRecv
  <2>4. CASE \/ NoRtuBackend(s) \/ OpenFails(s) \/ SendFails(s) \/ Confirmed(s)
             \/ ShortReply(s) \/ BadCrc(s) \/ NoConfirmation(s)
    <3>1. pc' = "send" /\ run' = run /\ UNCHANGED phase
      BY <2>4 DEF NoRtuBackend, OpenFails, SendFails, Confirmed, ShortReply, BadCrc,
        NoConfirmation, Exception, Reply, TransactUnchanged
    <3> QED
      BY <2>0, <3>1 DEF WakeInv, Running
  <2>5. CASE SendRequest(s)
    BY <1>0, <2>0, <2>5 DEF SendRequest, TransactUnchanged, WakeInv, Running, Writable,
      kernelVars, replyVars
  <2>6. CASE SendOk(s)
    BY <1>0, <2>0, <2>6 DEF SendOk, WakeInv, Running, workerVars
  <2>7. CASE SendAgain(s)
    BY <1>0, <2>0, <2>7 DEF SendAgain, HandleWriteEvent, Return, WakeInv, Running, Writable,
      replyVars
  <2>8. CASE SendDone(s)
    BY <1>0, <2>0, <2>8 DEF SendDone, WakeInv
  <2> QED
    BY <1>8, <2>1, <2>2, <2>3, <2>4, <2>5, <2>6, <2>7, <2>8 DEF Handler
<1>9. ASSUME NEW x \in owed, SlaveAnswers(x)
      PROVE  WakeInv(s)'
  BY <1>0, <1>9 DEF SlaveAnswers, WakeInv, Running, Writable, kernelVars, replyVars, workerVars
<1>10. CASE UNCHANGED vars
  BY <1>0, <1>10 DEF vars, WakeInv, Running, Writable, kernelVars, replyVars, workerVars
<1> QED
  BY <1>2, <1>3, <1>4, <1>5, <1>7, <1>8, <1>9, <1>10 DEF Next, EventLoop
-----------------------------------------------------------------------------
(* The theorems.                                                            *)

LEMMA InitHolds ==
  ASSUME Init
  PROVE  IndInv
<1>1. TypeOK
  <2>1. NoReply \in Replies
    BY DEF NoReply, Replies, Octets
  <2>2. NULL \in Routes
    BY DEF Routes
  <2>3. 0 \in 0..SndBuf
    BY ConstantTypes
  <2>4. /\ script \in [Sessions -> Seq(ScriptFrames)]
        /\ rsp \in [Sessions -> Replies] /\ loc_conf \in [Sessions -> Routes]
        /\ queued \in [Sessions -> 0..SndBuf]
    BY <2>1, <2>2, <2>3 DEF Init
  <2>5. /\ hist \in Seq([s : Sessions, k : Nat, unit : Octets, fc : Octets])
        /\ owed \subseteq DOMAIN hist /\ inq \in Seq(DOMAIN hist)
    BY DEF Init
  <2> QED
    BY <2>4, <2>5 DEF Init, TypeOK
<1>2. ASSUME NEW s \in Sessions
      PROVE  StreamInv(s) /\ AccumulatorInv(s) /\ WakeInv(s)
  <2>1. MaxReq \in Nat /\ 0 <= MaxReq
    BY ConstantTypes DEF Octets
  <2>2. 0 <= ADU_MAX
    BY SMT DEF ADU_MAX
  <2> QED
    BY <2>1, <2>2 DEF Init, StreamInv, AccumulatorInv, WakeInv
<1>3. WorkerInv /\ LineInv /\ ScreenInv
  BY DEF Init, WorkerInv, LineInv, ScreenInv
<1> QED
  BY <1>1, <1>2, <1>3 DEF IndInv

\* IndInv holds in every reachable state: what the gateway has taken was
\* written, the buffers hold what their counters say, the worker is where the
\* session it serves is, and every bridged session was screened.
THEOREM Invariance == Spec => []IndInv
<1>1. Init => IndInv
  BY InitHolds
<1>2. IndInv /\ [Next]_vars => IndInv'
  <2> SUFFICES ASSUME IndInv, [Next]_vars
               PROVE  IndInv'
    OBVIOUS
  <2>1. TypeOK' /\ WorkerInv' /\ LineInv' /\ ScreenInv'
    BY TypeStep, WorkerStep, LineStep, ScreenStep
  <2>2. ASSUME NEW s \in Sessions
        PROVE  StreamInv(s)' /\ AccumulatorInv(s)' /\ WakeInv(s)'
    BY StreamStep, AccumulatorStep, WakeStep
  <2> QED
    BY <2>1, <2>2 DEF IndInv
<1> QED
  BY <1>1, <1>2, PTL DEF Spec

\* Type correctness: for any clients and configuration, every variable of the
\* bridge keeps its type, the counters of the ctx among them.
THEOREM TypeCorrectness == Spec => []TypeOK
<1>1. IndInv => TypeOK
  BY DEF IndInv
<1> QED
  BY <1>1, Invariance, PTL

\* recv and memcpy stay inside req, raw and rsp, whatever clients send: the
\* accumulator asks recv for at least one byte and for no more than fits, a
\* transaction has a whole frame of a legal length, and every reply fits in rsp.
THEOREM BuffersAreNotOverrun == Spec => []AccumulatorInBounds
<1>1. IndInv => AccumulatorInBounds
  <2> SUFFICES ASSUME IndInv, NEW s \in Sessions,
                      Running(s, "read"), ~FrameRead(s),
                      ~(HeaderRead(s) /\ BadLength(Need(s)))
               PROVE  Want(s) > 0 /\ req_len[s] + Want(s) <= ADU_MAX
    BY DEF IndInv, AccumulatorInv, AccumulatorInBounds
  <2>1. StreamInv(s) /\ TypeOK
    BY DEF IndInv
  <2>2. Want(s) > 0 /\ Want(s) \in Nat /\ req_len[s] \in Nat
    BY <2>1, WantType, SessionTypes
  <2>3. CASE HeaderRead(s)
    <3>1. Need(s) \in Nat /\ Need(s) <= ADU_MAX
      <4>1. Need(s) \in Nat /\ ~BadLength(Need(s))
        BY <2>1, <2>3, NeedType
      <4> QED
        BY <4>1 DEF BadLength, ADU_MAX
    <3> QED
      BY <2>2, <2>3, <3>1 DEF Want
  <2>4. CASE ~HeaderRead(s)
    <3>1. MBAP_LEN <= ADU_MAX /\ MBAP_LEN \in Nat
      BY SMT DEF MBAP_LEN, ADU_MAX
    <3> QED
      BY <2>2, <2>4, <3>1 DEF Want
  <2> QED
    BY <2>3, <2>4
<1> QED
  BY <1>1, Invariance, PTL

\* Nothing of a connection whose first request the preread handler refuses
\* reaches the line, and nothing for a unit without an rtu block does.
THEOREM FirstRequestsAreScreened == Spec => []FirstRequestIsScreened
<1>1. IndInv => FirstRequestIsScreened
  BY DEF IndInv, ScreenInv, FirstRequestIsScreened
<1> QED
  BY <1>1, Invariance, PTL

\* No wake-up is lost for a reply that is not fully sent: whenever the worker is
\* idle, the write event is active, and if the socket has room again, epoll is
\* about to report it.  This holds of every client, the ones that close or reset
\* their connection or write ahead of the replies included.
THEOREM BlockedRepliesAreWoken == Spec => []BlockedReplyIsWoken
<1>1. IndInv => BlockedReplyIsWoken
  <2> SUFFICES ASSUME IndInv, NEW s \in Sessions, Idle, phase[s] = "bridge",
                      rsp_sent[s] < rsp_len[s]
               PROVE  wactive[s] /\ (Writable(s) => ready[s])
    BY DEF BlockedReplyIsWoken
  <2>1. WakeInv(s) /\ run # s
    BY ConstantTypes DEF IndInv, Idle
  <2> QED
    BY <2>1 DEF WakeInv, Running
<1> QED
  BY <1>1, Invariance, PTL
=============================================================================
