------------------------ MODULE ModbusLockstep_proofs ------------------------
(***************************************************************************)
(* Proofs about the RTU bridge and clients in lockstep: each asks, reads   *)
(* the whole reply, and asks again.  For them the bridge keeps its         *)
(* promises: replies come in order, an answer is the answer to that very   *)
(* request, no request is performed twice, and every step is a step of     *)
(* RequestReply.  MCRtuTwice, MCRtuSeed and MCRtuDiscard show what becomes *)
(* of clients that do otherwise.                                           *)
(***************************************************************************)
EXTENDS ModbusRtu_proofs, FiniteSetTheorems

\* A client waits for its reply, does not close before it, and no slave answers
\* after response_timeout; and either clients write their requests whole, or the
\* kernel takes any reply whole.
Lockstep ==
  /\ Window = 1 /\ ~HalfClose /\ ~LateAnswers
  /\ ADU_MAX <= SndBuf \/ \A n \in Chunks, f \in Requests : FrameBytes(f) <= n
-----------------------------------------------------------------------------
(* The stream of a client: frame after frame.                               *)

Asked(s) == Len(script[s])
End(s, k) == IF k = 0 THEN 0 ELSE script[s][k].at + FrameBytes(script[s][k])

Contiguous(s) ==
  /\ \A k \in DOMAIN script[s] : script[s][k].at = End(s, k - 1)
  /\ \A j, k \in DOMAIN script[s] : j < k => End(s, j) <= script[s][k].at
  /\ written[s] <= End(s, Asked(s))
  /\ Asked(s) > 0 => script[s][Asked(s)].at < written[s]
  /\ (\A n \in Chunks, f \in Requests : FrameBytes(f) <= n) => written[s] = End(s, Asked(s))

\* The numbers of a frame.
LEMMA FrameNumbers ==
  ASSUME TypeOK, NEW s \in Sessions, NEW k \in DOMAIN script[s]
  PROVE  /\ k \in 1..Asked(s) /\ Asked(s) \in Nat
         /\ script[s][k].at \in Nat /\ script[s][k].len \in 6..LENGTH_MAX
         /\ FrameBytes(script[s][k]) \in Nat /\ FrameBytes(script[s][k]) >= 7
         /\ script[s][k].len >= 7 => FrameBytes(script[s][k]) = script[s][k].len
         /\ script[s][k].len < 7 => FrameBytes(script[s][k]) = 7
         /\ End(s, k) = script[s][k].at + FrameBytes(script[s][k])
         /\ End(s, k) \in Nat
<1>1. script[s] \in Seq(ScriptFrames)
  BY SessionTypes
<1>2. script[s][k] \in ScriptFrames /\ k \in 1..Len(script[s]) /\ Len(script[s]) \in Nat
  BY <1>1
<1>3. script[s][k].at \in Nat /\ script[s][k].len \in 6..LENGTH_MAX
  BY <1>2 DEF ScriptFrames
<1>4. /\ FrameBytes(script[s][k]) \in Nat /\ FrameBytes(script[s][k]) >= 7
      /\ script[s][k].len >= 7 => FrameBytes(script[s][k]) = script[s][k].len
      /\ script[s][k].len < 7 => FrameBytes(script[s][k]) = 7
  <2>1. script[s][k].len \in Nat /\ script[s][k].len >= 6
    BY <1>3
  <2> QED
    BY <2>1 DEF FrameBytes, MBAP_LEN
<1>5. k # 0
  BY <1>2
<1> QED
  BY <1>2, <1>3, <1>4, <1>5 DEF End, Asked

\* The end of the last frame is a number, also if there is none.
LEMMA EndNumber ==
  ASSUME TypeOK, NEW s \in Sessions, NEW k \in 0..Asked(s)
  PROVE  End(s, k) \in Nat /\ Asked(s) \in Nat
<1>1. script[s] \in Seq(ScriptFrames)
  BY SessionTypes
<1>2. CASE k = 0
  BY <1>1, <1>2 DEF End, Asked
<1>3. CASE k # 0
  <2>1. k \in DOMAIN script[s]
    BY <1>1, <1>3 DEF Asked
  <2> QED
    BY <2>1, FrameNumbers
<1> QED
  BY <1>2, <1>3

\* A position inside a frame is in that one only.
LEMMA ByteInFrame ==
  ASSUME TypeOK, NEW s \in Sessions, Contiguous(s), NEW k \in DOMAIN script[s], NEW p \in Nat,
         script[s][k].at < p, p <= End(s, k)
  PROVE  Byte(s, p) = FrameByte(k, script[s][k], p - script[s][k].at)
<1>1. k \in FramesAt(s, p)
  BY FrameNumbers DEF FramesAt
<1>2. ASSUME NEW j \in FramesAt(s, p)
      PROVE  j = k
  <2>1. j \in DOMAIN script[s] /\ script[s][j].at < p /\ p <= End(s, j)
    BY <1>2, FrameNumbers DEF FramesAt
  <2>2. /\ j \in Nat /\ k \in Nat
        /\ script[s][j].at \in Nat /\ script[s][k].at \in Nat
        /\ End(s, j) \in Nat /\ End(s, k) \in Nat
    BY <2>1, FrameNumbers
  <2>3. ~(j < k)
    BY <2>1, <2>2 DEF Contiguous
  <2>4. ~(k < j)
    BY <2>1, <2>2 DEF Contiguous
  <2> QED
    BY <2>2, <2>3, <2>4
<1>3. (CHOOSE i \in FramesAt(s, p) : TRUE) = k
  BY <1>1, <1>2
<1> QED
  BY <1>3 DEF Byte

\* Only a client's own writes move its stream.
LEMMA StreamMoves ==
  ASSUME IndInv, [Next]_vars, NEW s \in Sessions
  PROVE  \/ script'[s] = script[s] /\ written'[s] = written[s]
         \/ \E f \in Requests, n \in Chunks : ClientRequest(s, f, n)
         \/ ClientWriteRest(s)
<1> USE DEF IndInv
<1>1. ASSUME NEW a \in Sessions, a # s, NEW f \in Requests, NEW n \in Chunks,
             ClientRequest(a, f, n)
      PROVE  script'[s] = script[s] /\ written'[s] = written[s]
  BY <1>1, AppendedScript
<1>2. ASSUME NEW a \in Sessions, a # s, ClientWriteRest(a)
      PROVE  script'[s] = script[s] /\ written'[s] = written[s]
  BY <1>2 DEF ClientWriteRest, TypeOK
<1>3. ASSUME NEW a \in Sessions, Preread(a) \/ ReadRecv(a) \/ SendDone(a)
      PROVE  script'[s] = script[s] /\ written'[s] = written[s]
  BY <1>3 DEF Preread, ReadRecv, SendDone, clientVars
<1>4. CASE Still
  BY <1>4 DEF Still
<1> QED
  BY <1>1, <1>2, <1>3, <1>4, StillSteps

LEMMA ContiguousRequest ==
  ASSUME IndInv, NEW s \in Sessions, Contiguous(s), NEW f \in Requests, NEW n \in Chunks,
         ClientRequest(s, f, n)
  PROVE  /\ Contiguous(s)'
         /\ Asked(s)' = Asked(s) + 1
         /\ \A k \in 0..Asked(s) : End(s, k)' = End(s, k)
         /\ End(s, Asked(s)) = written[s]
<1> USE DEF IndInv
<1>0. Asked(s) \in Nat
  BY EndNumber, SessionTypes DEF Asked
<1> PICK L \in Nat : L = Asked(s)
  BY <1>0
<1>1. /\ Len(script'[s]) = L + 1
      /\ DOMAIN script'[s] = DOMAIN script[s] \cup {L + 1}
      /\ \A k \in DOMAIN script[s] : script'[s][k] = script[s][k]
      /\ script'[s][L + 1].at = written[s] /\ script'[s][L + 1].len = f.len
      /\ written'[s] = written[s] + Least(n, FrameBytes(f))
      /\ FrameBytes(f) \in Nat /\ n \in Nat
  BY AppendedScript DEF Asked
<1>2. L \in Nat /\ DOMAIN script[s] = 1..L /\ written[s] \in Nat
  BY SessionTypes DEF Asked
<1>3. \A k \in 0..L : End(s, k) \in Nat
  BY EndNumber
<1>4. End(s, L) = written[s]
  <2>1. CASE L = 0
    <3>1. End(s, L) = 0
      BY <2>1 DEF End
    <3>2. written[s] <= 0
      BY <3>1 DEF Contiguous
    <3> QED
      BY <1>2, <3>1, <3>2
  <2>2. CASE L # 0
    <3>1. L \in DOMAIN script[s]
      BY <1>2, <2>2
    <3>2. End(s, L) <= written[s]
      BY <3>1, FrameNumbers DEF ClientRequest, AllWritten
    <3>3. written[s] <= End(s, L)
      BY DEF Contiguous
    <3>4. End(s, L) \in Nat
      BY <1>2, <1>3
    <3> QED
      BY <1>2, <3>2, <3>3, <3>4
  <2> QED
    BY <2>1, <2>2
<1>5. ASSUME NEW k \in 0..L
      PROVE  End(s, k)' = End(s, k)
  <2>1. CASE k = 0
    BY <2>1 DEF End
  <2>2. CASE k # 0
    <3>1. k \in DOMAIN script[s]
      BY <1>2, <2>2
    <3>2. script'[s][k] = script[s][k]
      BY <1>1, <3>1
    <3> QED
      BY <3>2 DEF End, FrameBytes
  <2> QED
    BY <2>1, <2>2
<1>6. FrameBytes(f) >= 7 /\ n > 0
  <2>1. f.len \in Nat /\ n > 0
    BY ConstantTypes, RtuAssumption
  <2> QED
    BY <2>1 DEF FrameBytes, MBAP_LEN
<1>7. End(s, L + 1)' = written[s] + FrameBytes(f)
  <2>1. L + 1 # 0
    BY <1>2
  <2> QED
    BY <1>1, <2>1 DEF End, FrameBytes
<1>8. Asked(s)' = L + 1
  BY <1>1 DEF Asked
<1> DEFINE m == Least(n, FrameBytes(f))
<1>9. m \in Nat /\ m > 0 /\ m <= FrameBytes(f) /\ (FrameBytes(f) <= n => m = FrameBytes(f))
  BY <1>1, <1>6 DEF Least
<1> HIDE DEF m
<1>10. written'[s] = written[s] + m
  BY <1>1 DEF m
<1>11. ASSUME NEW k \in DOMAIN script'[s]
       PROVE  script'[s][k].at = End(s, k - 1)'
  <2>1. CASE k = L + 1
    <3>1. k - 1 = L /\ L \in 0..L
      BY <1>2, <2>1
    <3> QED
      BY <1>1, <1>4, <1>5, <2>1, <3>1
  <2>2. CASE k \in DOMAIN script[s]
    <3>1. script'[s][k] = script[s][k] /\ k - 1 \in 0..L
      BY <1>1, <1>2, <2>2
    <3>2. script[s][k].at = End(s, k - 1)
      BY <2>2 DEF Contiguous
    <3> QED
      BY <1>5, <3>1, <3>2
  <2> QED
    BY <1>1, <2>1, <2>2
<1>12. ASSUME NEW j \in DOMAIN script'[s], NEW k \in DOMAIN script'[s], j < k
       PROVE  End(s, j)' <= script'[s][k].at
  <2>1. j \in DOMAIN script[s] /\ j \in 0..L
    BY <1>1, <1>2, <1>12
  <2>2. End(s, j)' = End(s, j)
    BY <1>5, <2>1
  <2>3. CASE k \in DOMAIN script[s]
    BY <1>1, <1>12, <2>1, <2>2, <2>3 DEF Contiguous
  <2>4. CASE k = L + 1
    <3>1. CASE j = L
      BY <1>1, <1>2, <1>4, <2>2, <2>4, <3>1
    <3>2. CASE j # L
      <4>1. j < L /\ L \in DOMAIN script[s]
        BY <1>2, <2>1, <3>2
      <4>2. End(s, j) <= script[s][L].at
        BY <2>1, <4>1 DEF Contiguous
      <4>3. /\ End(s, L) = script[s][L].at + FrameBytes(script[s][L])
            /\ script[s][L].at \in Nat /\ FrameBytes(script[s][L]) \in Nat
            /\ End(s, j) \in Nat
        BY <2>1, <4>1, FrameNumbers
      <4> QED
        BY <1>1, <1>2, <1>4, <2>2, <2>4, <4>2, <4>3
    <3> QED
      BY <3>1, <3>2
  <2> QED
    BY <1>1, <2>3, <2>4
<1>13. /\ written'[s] <= End(s, L + 1)'
       /\ script'[s][L + 1].at < written'[s]
  BY <1>1, <1>2, <1>7, <1>9, <1>10
<1>14. ASSUME \A n2 \in Chunks, f2 \in Requests : FrameBytes(f2) <= n2
       PROVE  written'[s] = End(s, L + 1)'
  BY <1>7, <1>9, <1>10, <1>14
<1>15. Contiguous(s)'
  BY <1>8, <1>11, <1>12, <1>13, <1>14 DEF Contiguous, FrameBytes
<1> QED
  BY <1>4, <1>5, <1>8, <1>15

LEMMA ContiguousWriteRest ==
  ASSUME IndInv, NEW s \in Sessions, Contiguous(s), ClientWriteRest(s)
  PROVE  Contiguous(s)' /\ script' = script /\ written'[s] = End(s, Asked(s))
<1> USE DEF IndInv
<1>0. Asked(s) \in Nat
  BY SessionTypes DEF Asked
<1> PICK L \in Nat : L = Asked(s)
  BY <1>0
<1>1. /\ L \in DOMAIN script[s] /\ script[s][L].at \in Nat /\ FrameBytes(script[s][L]) \in Nat
      /\ script[s][L].at <= written[s]
      /\ written[s] < script[s][L].at + FrameBytes(script[s][L])
  BY LastFrame DEF ClientWriteRest, ScriptFrames, Asked
<1>2. End(s, L) = script[s][L].at + FrameBytes(script[s][L]) /\ End(s, L) \in Nat
  BY <1>1, FrameNumbers
<1>3. written'[s] = End(s, L) /\ script' = script
  BY <1>2 DEF ClientWriteRest, TypeOK, Asked
<1>4. written[s] \in Nat
  BY SessionTypes
<1>5. Asked(s)' = Asked(s) /\ \A k : End(s, k)' = End(s, k)
  BY <1>3 DEF Asked, End, FrameBytes
<1>6. script[s][L].at < End(s, L)
  BY <1>1, <1>2, <1>4
<1>7. Contiguous(s)'
  BY <1>2, <1>3, <1>5, <1>6 DEF Contiguous, FrameBytes
<1> QED
  BY <1>3, <1>7

LEMMA ContiguousStep ==
  ASSUME IndInv, [Next]_vars, NEW s \in Sessions, Contiguous(s)
  PROVE  Contiguous(s)'
<1>1. ASSUME script'[s] = script[s], written'[s] = written[s]
      PROVE  Contiguous(s)'
  BY <1>1 DEF Contiguous, End, Asked, FrameBytes
<1> QED
  BY <1>1, StreamMoves, ContiguousRequest, ContiguousWriteRest

\* Frames, once begun, stay.
LEMMA FramesStay ==
  ASSUME IndInv, [Next]_vars, NEW s \in Sessions, Contiguous(s)
  PROVE  /\ \A k \in DOMAIN script[s] : k \in DOMAIN script'[s] /\ script'[s][k] = script[s][k]
         /\ \A k \in 0..Asked(s) : End(s, k)' = End(s, k)
         /\ Asked(s)' \in {Asked(s), Asked(s) + 1}
         /\ written[s] <= written'[s]
<1>0. written[s] <= written'[s]
  BY ByteStable
<1>1. ASSUME script'[s] = script[s]
      PROVE  /\ \A k \in DOMAIN script[s] : k \in DOMAIN script'[s] /\ script'[s][k] = script[s][k]
             /\ \A k : End(s, k)' = End(s, k)
             /\ Asked(s)' = Asked(s)
  BY <1>1 DEF End, Asked, FrameBytes
<1>2. ASSUME NEW f \in Requests, NEW n \in Chunks, ClientRequest(s, f, n)
      PROVE  /\ \A k \in DOMAIN script[s] : k \in DOMAIN script'[s] /\ script'[s][k] = script[s][k]
             /\ \A k \in 0..Asked(s) : End(s, k)' = End(s, k)
             /\ Asked(s)' = Asked(s) + 1
  BY <1>2, ContiguousRequest, AppendedScript DEF IndInv
<1>3. ASSUME ClientWriteRest(s)
      PROVE  script'[s] = script[s]
  BY <1>3, ContiguousWriteRest
<1> QED
  BY <1>0, <1>1, <1>2, <1>3, StreamMoves
-----------------------------------------------------------------------------
(* The replies a client is sent.                                            *)

Sent == [k : Octets, res : {0, GATEWAY_PATH, GATEWAY_TARGET}, ans : Nat, len : Nat, sent : Nat]
OutTypes == out \in [Sessions -> Seq(Sent)] /\ seen \in [Sessions -> Nat]

Replied(s) == Len(out[s])

\* Replies sent in full.
Answered(s) ==
  IF Replied(s) > 0 /\ out[s][Replied(s)].sent < out[s][Replied(s)].len
  THEN Replied(s) - 1 ELSE Replied(s)

Sending(s) ==
  /\ \A i \in DOMAIN out[s] :
       /\ out[s][i].k = i
       /\ 0 < out[s][i].sent /\ out[s][i].sent <= out[s][i].len
       /\ i < Replied(s) => out[s][i].sent = out[s][i].len
  /\ rsp_sent[s] > 0 =>
       /\ Replied(s) > 0
       /\ out[s][Replied(s)].sent = rsp_sent[s] /\ out[s][Replied(s)].len = rsp_len[s]
  /\ rsp_sent[s] = 0 => Answered(s) = Replied(s)
  /\ seen[s] <= Answered(s)
  /\ Replied(s) <= Asked(s) /\ Asked(s) <= seen[s] + 1
  /\ peer[s] # "open" => peer[s] = "shut" /\ seen[s] = Asked(s)
  /\ queued[s] > 0 => seen[s] < Replied(s)

\* The numbers of the replies of a session.
LEMMA ReplyNumbers ==
  ASSUME TypeOK, OutTypes, NEW s \in Sessions
  PROVE  /\ Replied(s) \in Nat /\ DOMAIN out[s] = 1..Replied(s) /\ seen[s] \in Nat
         /\ Answered(s) \in Nat /\ Answered(s) <= Replied(s) /\ Replied(s) <= Answered(s) + 1
         /\ \A i \in DOMAIN out[s] : out[s][i] \in Sent /\ out[s][i].len \in Nat /\ out[s][i].sent \in Nat
         /\ Asked(s) \in Nat /\ rsp_sent[s] \in Nat /\ rsp_len[s] \in Nat
<1>1. out[s] \in Seq(Sent) /\ seen[s] \in Nat
  BY DEF OutTypes
<1>2. Replied(s) \in Nat /\ DOMAIN out[s] = 1..Replied(s)
  BY <1>1 DEF Replied
<1>3. \A i \in DOMAIN out[s] : out[s][i] \in Sent
  BY <1>1
<1>4. \A i \in DOMAIN out[s] : out[s][i].len \in Nat /\ out[s][i].sent \in Nat
  BY <1>3 DEF Sent
<1>5. Asked(s) \in Nat /\ rsp_sent[s] \in Nat /\ rsp_len[s] \in Nat
  BY SessionTypes DEF Asked
<1>6. Answered(s) \in Nat /\ Answered(s) <= Replied(s) /\ Replied(s) <= Answered(s) + 1
  BY <1>2 DEF Answered
<1> QED
  BY <1>1, <1>2, <1>3, <1>4, <1>5, <1>6

\* Answered counts the complete replies.
LEMMA AnsweredCounts ==
  ASSUME TypeOK, OutTypes, NEW s \in Sessions, Sending(s)
  PROVE  Cardinality(CompleteReplies(s)) = Answered(s)
<1>1. CompleteReplies(s) = 1..Answered(s)
  <2>1. ASSUME NEW i \in DOMAIN out[s], i < Replied(s)
        PROVE  out[s][i].sent = out[s][i].len
    BY <2>1 DEF Sending
  <2>2. ASSUME Replied(s) > 0, out[s][Replied(s)].sent < out[s][Replied(s)].len
        PROVE  CompleteReplies(s) = 1..(Replied(s) - 1)
    BY <2>1, <2>2, ReplyNumbers DEF CompleteReplies
  <2>3. ASSUME Replied(s) > 0, ~(out[s][Replied(s)].sent < out[s][Replied(s)].len)
        PROVE  out[s][Replied(s)].sent = out[s][Replied(s)].len
    <3>1. Replied(s) \in DOMAIN out[s]
      BY <2>3, ReplyNumbers
    <3>2. out[s][Replied(s)].sent <= out[s][Replied(s)].len
      BY <3>1 DEF Sending
    <3> QED
      BY <2>3, <3>1, <3>2, ReplyNumbers
  <2>4. ASSUME ~(Replied(s) > 0 /\ out[s][Replied(s)].sent < out[s][Replied(s)].len)
        PROVE  CompleteReplies(s) = 1..Replied(s)
    <3>1. \A i \in DOMAIN out[s] : out[s][i].sent = out[s][i].len
      BY <2>1, <2>3, <2>4, ReplyNumbers
    <3> QED
      BY <3>1, ReplyNumbers DEF CompleteReplies
  <2> QED
    BY <2>2, <2>4 DEF Answered
<1>2. Answered(s) \in Nat
  BY ReplyNumbers
<1> QED
  BY <1>1, <1>2, FS_Interval

\* What one send does: it hands over some bytes of the reply, and no more than
\* there are.
LEMMA SendOkEffect ==
  ASSUME TypeOK, NEW s \in Sessions, SendOk(s)
  PROVE  /\ rsp_sent'[s] \in Nat /\ rsp_sent[s] < rsp_sent'[s] /\ rsp_sent'[s] <= rsp_len[s]
         /\ rsp' = rsp /\ rsp_len' = rsp_len
         /\ queued'[s] = queued[s] + (rsp_sent'[s] - rsp_sent[s])
         /\ rsp_sent'[s] - rsp_sent[s] = Least(SndBuf - queued[s], rsp_len[s] - rsp_sent[s])
<1> DEFINE n == Least(SndBuf - queued[s], rsp_len[s] - rsp_sent[s])
<1>1. n \in Nat /\ rsp_sent[s] + n <= rsp_len[s]
  BY SendOkCount
<1>2. n > 0
  <2>1. /\ queued[s] \in 0..SndBuf /\ rsp_len[s] \in Nat /\ rsp_sent[s] \in Nat
        /\ SndBuf \in Nat
    BY SessionTypes, ConstantTypes
  <2> QED
    BY <2>1 DEF SendOk, Writable, Least
<1>3. queued'[s] = queued[s] + n /\ rsp_sent'[s] = rsp_sent[s] + n
  BY DEF SendOk, TypeOK
<1>4. rsp' = rsp /\ rsp_len' = rsp_len
  BY DEF SendOk
<1>5. rsp_sent[s] \in Nat /\ queued[s] \in Nat
  <2>1. queued[s] \in 0..SndBuf /\ SndBuf \in Nat
    BY SessionTypes, ConstantTypes
  <2> QED
    BY <2>1, SessionTypes
<1>6. n = Least(SndBuf - queued[s], rsp_len[s] - rsp_sent[s])
  OBVIOUS
<1> HIDE DEF n
<1> QED
  BY <1>1, <1>2, <1>3, <1>4, <1>5, <1>6

\* The first bytes of a reply begin an entry of out.
LEMMA FirstPart ==
  ASSUME TypeOK, OutTypes, NEW s \in Sessions, SendOk(s), rsp_sent[s] = 0
  PROVE  /\ out'[s] \in Seq(Sent) /\ Len(out'[s]) = Replied(s) + 1
         /\ DOMAIN out'[s] = DOMAIN out[s] \cup {Replied(s) + 1}
         /\ \A i \in DOMAIN out[s] : out'[s][i] = out[s][i]
         /\ out'[s][Replied(s) + 1].k = rsp[s].k
         /\ out'[s][Replied(s) + 1].res = rsp[s].res
         /\ out'[s][Replied(s) + 1].ans = rsp[s].ans
         /\ out'[s][Replied(s) + 1].len = rsp_len[s]
         /\ out'[s][Replied(s) + 1].sent = rsp_sent'[s]
<1> DEFINE started == [k |-> rsp[s].k, res |-> rsp[s].res, ans |-> rsp[s].ans,
                       len |-> rsp_len[s],
                       sent |-> Least(SndBuf - queued[s], rsp_len[s] - rsp_sent[s])]
<1>1. out'[s] = Append(out[s], started)
  BY DEF SendOk, OutTypes
<1>2. Least(SndBuf - queued[s], rsp_len[s] - rsp_sent[s]) \in Nat
  BY SendOkCount
<1>3. rsp[s] \in Replies /\ rsp_len[s] \in Nat
  BY SessionTypes
<1>4. started \in Sent
  BY <1>2, <1>3 DEF Sent, Replies
<1>5. started.sent = rsp_sent'[s]
  <2>1. /\ rsp_sent'[s] - rsp_sent[s] = Least(SndBuf - queued[s], rsp_len[s] - rsp_sent[s])
        /\ rsp_sent'[s] \in Nat
    BY SendOkEffect
  <2> QED
    BY <2>1
<1>6. /\ started.k = rsp[s].k /\ started.res = rsp[s].res /\ started.ans = rsp[s].ans
      /\ started.len = rsp_len[s]
  OBVIOUS
<1>7. out[s] \in Seq(Sent)
  BY DEF OutTypes
<1> HIDE DEF started
<1> QED
  BY <1>1, <1>4, <1>5, <1>6, <1>7 DEF Replied

\* The others go on with it.
LEMMA NextPart ==
  ASSUME TypeOK, OutTypes, NEW s \in Sessions, SendOk(s), rsp_sent[s] > 0, Replied(s) > 0,
         out[s][Replied(s)].sent = rsp_sent[s]
  PROVE  /\ out'[s] \in Seq(Sent) /\ Len(out'[s]) = Replied(s)
         /\ DOMAIN out'[s] = DOMAIN out[s]
         /\ \A i \in DOMAIN out[s] :
              /\ out'[s][i].k = out[s][i].k /\ out'[s][i].res = out[s][i].res
              /\ out'[s][i].ans = out[s][i].ans /\ out'[s][i].len = out[s][i].len
              /\ i # Replied(s) => out'[s][i] = out[s][i]
         /\ out'[s][Replied(s)].sent = rsp_sent'[s]
<1> DEFINE n == Least(SndBuf - queued[s], rsp_len[s] - rsp_sent[s])
           r == Len(out[s])
<1>1. out'[s] = [out[s] EXCEPT ![r].sent = @ + n]
  <2>1. rsp_sent[s] # 0
    BY ReplyNumbers
  <2> QED
    BY <2>1 DEF SendOk, OutTypes
<1>2. n \in Nat /\ rsp_sent[s] + n = rsp_sent'[s]
  BY SendOkCount, SendOkEffect, ReplyNumbers
<1>3. out[s] \in Seq(Sent) /\ r \in DOMAIN out[s] /\ out[s][r] \in Sent
  BY ReplyNumbers DEF OutTypes, Replied
<1> DEFINE e == [out[s][r] EXCEPT !.sent = rsp_sent'[s]]
<1>4. out'[s] = [out[s] EXCEPT ![r] = e]
  BY <1>1, <1>2, <1>3 DEF Replied
<1>5. e \in Sent /\ e.sent = rsp_sent'[s]
  BY <1>3, SendOkEffect DEF Sent
<1>6. /\ e.k = out[s][r].k /\ e.res = out[s][r].res /\ e.ans = out[s][r].ans
      /\ e.len = out[s][r].len
  BY <1>3 DEF Sent
<1> HIDE DEF e, n
<1> QED
  BY <1>3, <1>4, <1>5, <1>6 DEF Replied
-----------------------------------------------------------------------------
(* The inductive invariant.                                                 *)

In(s, functions) == run = s /\ pc \in functions

\* The request a session is on: the one being answered, or the next.
Current(s) == IF rsp_sent[s] > 0 THEN Replied(s) ELSE Replied(s) + 1
CurrentFrame(s) == script[s][Current(s)]

\* Before the bridge opens nothing is in the accumulator or on the line.
Starting(s) ==
  phase[s] = "preread" =>
    /\ base[s] = 0 /\ lost[s] = 0 /\ req_len[s] = 0 /\ req_need[s] = 0
    /\ rsp_sent[s] = 0 /\ out[s] = <<>>
    /\ \A i \in DOMAIN hist : hist[i].s # s

\* The accumulator starts where the current request does, and is empty if that
\* one was not begun.  Bytes are lost only of a first request that is too long.
Placed(s) ==
  /\ buffered[s] = 0
  /\ Current(s) <= Asked(s) + 1
  /\ base[s] = End(s, Current(s) - 1)
  /\ lost[s] > 0 =>
       /\ In(s, {"read"}) /\ req_len[s] = ADU_MAX
       /\ Current(s) = 1 /\ Asked(s) = 1 /\ FrameBytes(script[s][1]) > ADU_MAX
  /\ Current(s) = Asked(s) + 1 =>
       /\ req_len[s] = 0 /\ req_need[s] = 0 /\ rsp_len[s] = 0
       /\ ~In(s, {"transact", "confirm"})

\* A request that has no reply is the client's last; once the worker turns to
\* another session, what it has of the request is not the whole of it.
Reading(s) ==
  Current(s) <= Asked(s) /\ rsp_len[s] = 0 =>
    /\ Current(s) = Asked(s)
    /\ req_len[s] <= FrameBytes(CurrentFrame(s))
    /\ req_len[s] = 0 => req_need[s] = 0
    /\ run # s => req_len[s] < FrameBytes(CurrentFrame(s))
    /\ In(s, {"send"}) => req_len[s] = 0

\* What is performed and answered is the current request, whole.
Taken(s) ==
  rsp_len[s] > 0 \/ In(s, {"transact", "confirm"}) =>
    /\ Current(s) <= Asked(s) /\ lost[s] = 0
    /\ MBAP_LEN <= CurrentFrame(s).len
    /\ req_len[s] = CurrentFrame(s).len /\ req_need[s] = CurrentFrame(s).len

\* While a reply is sent the bridge does not read.
Replying(s) ==
  rsp_len[s] > 0 =>
    /\ rsp[s].k = Current(s)
    /\ ~In(s, {"read", "transact", "confirm"})
    /\ rsp_sent[s] < rsp_len[s] => Asked(s) = Current(s)
    /\ rsp_sent[s] = rsp_len[s] => In(s, {"send"})
    /\ rsp[s].res = 0 =>
         /\ rsp[s].ans \in DOMAIN hist
         /\ hist[rsp[s].ans].s = s /\ hist[rsp[s].ans].k = Current(s)

Bridged(s) ==
  phase[s] = "bridge" => Placed(s) /\ Reading(s) /\ Taken(s) /\ Replying(s)

\* The answers sent are the answers to their requests.
Own(s) ==
  \A i \in DOMAIN out[s] :
    out[s][i].res = 0 =>
      /\ out[s][i].ans \in DOMAIN hist
      /\ hist[out[s][i].ans].s = s /\ hist[out[s][i].ans].k = i

\* What was performed has a reply, or is the request in progress.
Performed(s) ==
  \A i \in DOMAIN hist :
    hist[i].s = s =>
      \/ hist[i].k \in 1..Replied(s)
      \/ /\ hist[i].k = Replied(s) + 1
         /\ \/ phase[s] = "closed"
            \/ rsp_len[s] > 0 /\ rsp_sent[s] = 0
            \/ In(s, {"confirm"})

\* A kernel that takes any reply whole never blocks one.
Calm(s) == ADU_MAX <= SndBuf => ~wactive[s] /\ rsp_sent[s] \in {0, rsp_len[s]}

\* Slaves owe an answer only to the transaction that is waited for.
Awaited ==
  /\ pc # "confirm" => owed = {}
  /\ pc = "confirm" =>
       /\ hist # <<>> /\ owed \subseteq {Len(hist)}
       /\ hist[Len(hist)].s = run /\ hist[Len(hist)].k = Current(run)
       /\ inq # <<>> => Head(inq) = Len(hist) /\ owed = {}
  /\ wnext => run # NULL /\ wactive[run]

SessionInv(s) ==
  /\ Contiguous(s) /\ Sending(s) /\ Starting(s) /\ Bridged(s)
  /\ Own(s) /\ Performed(s) /\ Calm(s)

LockstepInv ==
  /\ OutTypes /\ Awaited
  /\ \A s \in Sessions : SessionInv(s)
  /\ RequestsArePerformedOnce
-----------------------------------------------------------------------------
(* Which step is whose.                                                     *)

\* What a step of another session, or of none, leaves of this one.
Elsewhere(s) ==
  /\ Mine(s)' = Mine(s) /\ out'[s] = out[s]
  /\ run' = s <=> run = s
  /\ run = s => UNCHANGED <<run, pc, wnext>>

LEMMA StepOf ==
  ASSUME IndInv, OutTypes, [Next]_vars, NEW s \in Sessions
  PROVE  Elsewhere(s) \/ Client(s) \/ EventLoop(s) \/ Handler(s) \/ Timers(s)
<1>1. ASSUME NEW a \in Sessions, a # s, Client(a) \/ EventLoop(a) \/ Handler(a) \/ Timers(a)
      PROVE  Elsewhere(s)
  <2>1. out'[s] = out[s]
    <3>1. CASE SendOk(a)
      BY <1>1, <3>1 DEF SendOk, OutTypes
    <3>2. CASE ~SendOk(a)
      <4>1. UNCHANGED out
        BY <1>1, <3>2 DEF Client, ClientRequest, ClientWriteRest, ClientRead, ClientClose,
          EventLoop, Preread, Dispatch, Timers, PrereadTimeout, SessionTimeout, Handler,
          ReadBadLength, ReadFrame, ReadRecv, NoRtuBackend, OpenFails, SendFails, SendRequest,
          Confirmed, ShortReply, BadCrc, NoConfirmation, SendAgain, SendError, SendDone,
          TransactUnchanged
      <4> QED
        BY <4>1
    <3> QED
      BY <3>1, <3>2
  <2> QED
    BY <1>1, <2>1, Untouched DEF Elsewhere, workerVars
<1>2. ASSUME NEW x \in owed, SlaveAnswers(x)
      PROVE  Elsewhere(s)
  BY <1>2 DEF SlaveAnswers, Elsewhere, Mine, clientVars, kernelVars, frameVars, replyVars,
    workerVars
<1>3. CASE UNCHANGED vars
  BY <1>3 DEF vars, Elsewhere, Mine, clientVars, kernelVars, frameVars, replyVars, workerVars
<1> QED
  BY <1>1, <1>2, <1>3 DEF Next

\* The steps that put a reply in rsp.
ReplyStep(s) ==
  \/ NoRtuBackend(s) \/ OpenFails(s) \/ SendFails(s)
  \/ Confirmed(s) \/ ShortReply(s) \/ BadCrc(s) \/ NoConfirmation(s)

\* A step that leaves the client, its stream and its replies alone.
Quiet(s) ==
  /\ script'[s] = script[s] /\ written'[s] = written[s] /\ peer'[s] = peer[s]
  /\ seen'[s] = seen[s] /\ queued'[s] = queued[s] /\ out'[s] = out[s]
  /\ rsp'[s] = rsp[s] /\ rsp_len'[s] = rsp_len[s] /\ rsp_sent'[s] = rsp_sent[s]

LEMMA QuietSteps ==
  ASSUME IndInv, OutTypes, [Next]_vars, NEW s \in Sessions
  PROVE  \/ Quiet(s) \/ Client(s) \/ ReplyStep(s) \/ SendOk(s) \/ SendDone(s)
<1>1. CASE Elsewhere(s)
  BY <1>1 DEF Elsewhere, Mine, Quiet
<1>2. CASE EventLoop(s) \/ Timers(s)
  BY <1>2 DEF EventLoop, Preread, Dispatch, Timers, PrereadTimeout, SessionTimeout, Quiet,
    clientVars, replyVars
<1>3. CASE ReadBadLength(s) \/ ReadFrame(s) \/ ReadRecv(s) \/ SendAgain(s) \/ SendError(s)
  BY <1>3 DEF ReadBadLength, ReadFrame, ReadRecv, SendAgain, SendError, Quiet, clientVars,
    replyVars
<1>4. CASE SendRequest(s)
  BY <1>4 DEF SendRequest, TransactUnchanged, Quiet, clientVars, kernelVars, replyVars
<1> QED
  BY <1>1, <1>2, <1>3, <1>4, StepOf DEF Handler, ReplyStep
-----------------------------------------------------------------------------
(* Replies and reads.                                                       *)

\* A handler runs for a bridged session.
LEMMA RunsBridged ==
  ASSUME IndInv, NEW s \in Sessions, run = s
  PROVE  phase[s] = "bridge"
  BY ConstantTypes DEF IndInv, WorkerInv

\* A reply is put in rsp when rsp is free.
LEMMA ReplyStepStarts ==
  ASSUME IndInv, NEW s \in Sessions, Bridged(s), ReplyStep(s)
  PROVE  /\ run = s /\ pc \in {"transact", "confirm"} /\ phase[s] = "bridge"
         /\ rsp_len[s] = 0 /\ rsp_sent[s] = 0
         /\ rsp_len'[s] \in Nat /\ rsp_len'[s] > 0 /\ rsp_sent'[s] = 0
         /\ rsp'[s].k = Req(s, 2)
         /\ run' = run /\ pc' = "send" /\ wnext' = wnext
         /\ TransactUnchanged
<1>1. run = s /\ pc \in {"transact", "confirm"}
  BY DEF ReplyStep, NoRtuBackend, OpenFails, SendFails, Confirmed, ShortReply, BadCrc,
    NoConfirmation, Running
<1>2. phase[s] = "bridge"
  BY <1>1, RunsBridged
<1>3. rsp_len[s] = 0 /\ rsp_sent[s] = 0
  <2>1. ~(rsp_len[s] > 0)
    BY <1>1, <1>2 DEF Bridged, Replying, In
  <2>2. rsp_len[s] \in Nat /\ rsp_sent[s] \in Nat /\ rsp_sent[s] <= rsp_len[s]
    BY SessionTypes DEF IndInv, AccumulatorInv
  <2> QED
    BY <2>1, <2>2
<1>4. /\ TransactUnchanged
      /\ \/ Exception(s, GATEWAY_PATH) \/ Exception(s, GATEWAY_TARGET)
         \/ \E ret \in Rets : Reply(s, 0, Head(inq), MBAP_LEN + ret - 3)
  BY DEF ReplyStep, NoRtuBackend, OpenFails, SendFails, Confirmed, ShortReply, BadCrc,
    NoConfirmation
<1>5. PICK res, ans, len : Reply(s, res, ans, len) /\ len \in Nat /\ len > 0
  <2>1. \A ret \in Rets : MBAP_LEN + ret - 3 \in Nat /\ MBAP_LEN + ret - 3 > 0
    BY ConstantTypes DEF RTU_MAX, MBAP_LEN
  <2>2. 9 \in Nat /\ 9 > 0
    OBVIOUS
  <2> QED
    BY <1>4, <2>1, <2>2 DEF Exception
<1>6. /\ rsp_len'[s] = len /\ rsp_sent'[s] = 0 /\ rsp'[s].k = Req(s, 2)
      /\ run' = run /\ pc' = "send" /\ wnext' = wnext
  BY <1>5 DEF Reply, IndInv, TypeOK
<1> QED
  BY <1>1, <1>2, <1>3, <1>4, <1>5, <1>6

\* So out and seen keep their types.
LEMMA OutTypesStep ==
  ASSUME IndInv, LockstepInv, [Next]_vars
  PROVE  OutTypes'
<1>1. OutTypes
  BY DEF LockstepInv
<1>2. ASSUME NEW s \in Sessions
      PROVE  out'[s] \in Seq(Sent)
  <2>1. out[s] \in Seq(Sent)
    BY <1>1 DEF OutTypes
  <2>2. CASE SendOk(s)
    <3>1. Sending(s) /\ rsp_sent[s] \in Nat
      BY SessionTypes DEF LockstepInv, SessionInv, IndInv
    <3> QED
      BY <1>1, <2>2, <3>1, FirstPart, NextPart DEF IndInv, Sending
  <2>3. CASE ~SendOk(s)
    <3>1. out'[s] = out[s]
      <4>1. CASE Client(s) \/ ReplyStep(s) \/ SendDone(s)
        BY <4>1 DEF Client, ClientRequest, ClientWriteRest, ClientRead, ClientClose, ReplyStep,
          NoRtuBackend, OpenFails, SendFails, Confirmed, ShortReply, BadCrc, NoConfirmation,
          TransactUnchanged, SendDone
      <4> QED
        BY <1>1, <2>3, <4>1, QuietSteps DEF Quiet
    <3> QED
      BY <2>1, <3>1
  <2> QED
    BY <2>2, <2>3
<1>3. out' = [s \in Sessions |-> out'[s]] /\ seen' \in [Sessions -> Nat]
  <2>1. CASE \E s \in Sessions : SendOk(s)
    BY <1>1, <2>1 DEF SendOk, OutTypes, clientVars
  <2>2. CASE \E s \in Sessions : ClientRead(s)
    <3> PICK s \in Sessions : ClientRead(s)
      BY <2>2
    <3>1. Cardinality(CompleteReplies(s)) \in Nat
      BY <1>1, AnsweredCounts, ReplyNumbers DEF LockstepInv, SessionInv, IndInv
    <3> QED
      BY <1>1, <3>1 DEF ClientRead, OutTypes
  <2>3. CASE ~(\E s \in Sessions : SendOk(s) \/ ClientRead(s))
    <3>1. UNCHANGED <<out, seen>>
      <4>1. ASSUME NEW s \in Sessions, Client(s) \/ EventLoop(s) \/ Timers(s)
            PROVE  UNCHANGED <<out, seen>>
        BY <2>3, <4>1 DEF Client, ClientRequest, ClientWriteRest, ClientClose,
          EventLoop, Preread, Dispatch, Timers, PrereadTimeout, SessionTimeout, clientVars
      <4>2. ASSUME NEW s \in Sessions, Handler(s)
            PROVE  UNCHANGED <<out, seen>>
        BY <2>3, <4>2 DEF Handler,
          ReadBadLength, ReadFrame, ReadRecv, NoRtuBackend, OpenFails, SendFails, SendRequest,
          Confirmed, ShortReply, BadCrc, NoConfirmation, SendAgain, SendError, SendDone,
          TransactUnchanged, clientVars
      <4>3. ASSUME NEW x \in owed, SlaveAnswers(x)
            PROVE  UNCHANGED <<out, seen>>
        BY <4>3 DEF SlaveAnswers, clientVars
      <4>4. CASE UNCHANGED vars
        BY <4>4 DEF vars, clientVars
      <4> QED
        BY <4>1, <4>2, <4>3, <4>4 DEF Next
    <3> QED
      BY <1>1, <3>1 DEF OutTypes
  <2> QED
    BY <2>1, <2>2, <2>3
<1> QED
  BY <1>2, <1>3 DEF OutTypes

LEMMA SendingStep ==
  ASSUME Lockstep, IndInv, LockstepInv, [Next]_vars, NEW s \in Sessions
  PROVE  Sending(s)'
<1>0. /\ TypeOK /\ OutTypes
      /\ Contiguous(s) /\ Sending(s) /\ Bridged(s)
      /\ rsp_sent[s] <= rsp_len[s]
  BY DEF IndInv, LockstepInv, SessionInv, AccumulatorInv
<1>1. CASE Quiet(s)
  BY <1>0, <1>1 DEF Quiet, Sending, Replied, Answered, Asked
<1>2. ASSUME NEW f \in Requests, NEW n \in Chunks, ClientRequest(s, f, n)
      PROVE  Sending(s)'
  <2>1. /\ Asked(s)' = Asked(s) + 1 /\ peer'[s] = "open"
        /\ UNCHANGED <<out, seen, queued, rsp_len, rsp_sent>>
    BY <1>0, <1>2, ContiguousRequest DEF ClientRequest, replyVars
  <2>2. Asked(s) <= seen[s]
    BY <1>0, <1>2, ReplyNumbers DEF ClientRequest, Lockstep, Asked
  <2> QED
    BY <1>0, <2>1, <2>2, ReplyNumbers DEF Sending, Replied, Answered
<1>3. CASE ClientWriteRest(s)
  BY <1>0, <1>3 DEF ClientWriteRest, Sending, Replied, Answered, Asked, replyVars
<1>4. CASE ClientRead(s)
  <2>1. /\ seen'[s] = Answered(s) /\ queued'[s] = 0
        /\ UNCHANGED <<script, peer, out, rsp_len, rsp_sent>>
    BY <1>0, <1>4, AnsweredCounts DEF ClientRead, OutTypes, TypeOK, replyVars
  <2> QED
    BY <1>0, <2>1, ReplyNumbers DEF Sending, Replied, Answered, Asked
<1>5. CASE ClientClose(s)
  <2>1. /\ peer'[s] = "shut" /\ seen[s] = Asked(s)
        /\ UNCHANGED <<script, seen, queued, out, rsp_len, rsp_sent>>
    BY <1>0, <1>5 DEF ClientClose, Lockstep, TypeOK, Asked, replyVars
  <2> QED
    BY <1>0, <2>1, ReplyNumbers DEF Sending, Replied, Answered, Asked
<1>6. CASE ReplyStep(s)
  <2>1. rsp_sent[s] = 0 /\ rsp_sent'[s] = 0 /\ UNCHANGED <<script, peer, seen, queued, out>>
    BY <1>0, <1>6, ReplyStepStarts DEF TransactUnchanged, clientVars, kernelVars
  <2> QED
    BY <1>0, <2>1 DEF Sending, Replied, Answered, Asked
<1>7. CASE SendOk(s)
  <2>1. /\ UNCHANGED <<script, peer, seen>> /\ rsp_len' = rsp_len
        /\ rsp_sent'[s] \in Nat /\ rsp_sent[s] < rsp_sent'[s] /\ rsp_sent'[s] <= rsp_len[s]
    BY <1>0, <1>7, SendOkEffect DEF SendOk, clientVars
  <2>2. phase[s] = "bridge"
    BY <1>7, RunsBridged DEF SendOk, Running
  <2>3. /\ Replied(s) \in Nat /\ DOMAIN out[s] = 1..Replied(s) /\ seen[s] \in Nat
        /\ Answered(s) \in Nat /\ Answered(s) <= Replied(s)
        /\ Asked(s) \in Nat /\ rsp_sent[s] \in Nat /\ rsp_len[s] \in Nat
    BY <1>0, ReplyNumbers
  <2>4. CASE rsp_sent[s] = 0
    <3>1. /\ Len(out'[s]) = Replied(s) + 1
          /\ DOMAIN out'[s] = DOMAIN out[s] \cup {Replied(s) + 1}
          /\ \A i \in DOMAIN out[s] : out'[s][i] = out[s][i]
          /\ out'[s][Replied(s) + 1].k = rsp[s].k
          /\ out'[s][Replied(s) + 1].len = rsp_len[s]
          /\ out'[s][Replied(s) + 1].sent = rsp_sent'[s]
      BY <1>0, <1>7, <2>4, FirstPart
    <3>2. rsp[s].k = Replied(s) + 1 /\ Replied(s) + 1 <= Asked(s)
      <4>1. Current(s) = Replied(s) + 1
        BY <2>4 DEF Current
      <4>2. rsp_len[s] > 0
        BY <2>1, <2>3
      <4> QED
        BY <1>0, <2>2, <4>1, <4>2 DEF Bridged, Taken, Replying
    <3>3. ASSUME NEW i \in DOMAIN out[s]
          PROVE  /\ out[s][i].k = i /\ 0 < out[s][i].sent /\ out[s][i].sent = out[s][i].len
      <4>1. out[s][i].sent = out[s][i].len
        <5>1. CASE i < Replied(s)
          BY <1>0, <5>1 DEF Sending
        <5>2. CASE i = Replied(s)
          <6>1. ~(out[s][i].sent < out[s][i].len)
            BY <1>0, <2>3, <2>4, <5>2 DEF Sending, Answered
          <6>2. out[s][i].sent <= out[s][i].len
            BY <1>0 DEF Sending
          <6> QED
            BY <1>0, <6>1, <6>2, ReplyNumbers
        <5> QED
          BY <2>3, <5>1, <5>2
      <4> QED
        BY <1>0, <4>1 DEF Sending
    <3>4. Replied(s)' = Replied(s) + 1
      BY <3>1 DEF Replied
    <3>5. ASSUME NEW i \in DOMAIN out'[s]
          PROVE  /\ out'[s][i].k = i
                 /\ 0 < out'[s][i].sent /\ out'[s][i].sent <= out'[s][i].len
                 /\ i < Replied(s)' => out'[s][i].sent = out'[s][i].len
      <4>1. CASE i \in DOMAIN out[s]
        <5>1. out[s][i].len \in Nat
          BY <1>0, <4>1, ReplyNumbers
        <5> QED
          BY <3>1, <3>3, <4>1, <5>1
      <4>2. CASE i = Replied(s) + 1
        BY <2>1, <2>3, <3>1, <3>2, <3>4, <4>2
      <4> QED
        BY <3>1, <4>1, <4>2
    <3>6. Answered(s)' >= Replied(s) /\ seen'[s] <= Answered(s)'
      <4>1. Answered(s)' \in {Replied(s), Replied(s) + 1}
        BY <2>3, <3>1, <3>4 DEF Answered
      <4> QED
        BY <1>0, <2>1, <2>3, <4>1 DEF Sending
    <3>7. Asked(s)' = Asked(s)
      BY <2>1 DEF Asked
    <3>8. seen[s] <= Replied(s)
      BY <1>0, <2>3 DEF Sending
    <3>9. /\ Replied(s)' > 0
          /\ out'[s][Replied(s)'].sent = rsp_sent'[s] /\ out'[s][Replied(s)'].len = rsp_len'[s]
      BY <2>1, <2>3, <3>1, <3>4
    <3>10. rsp_sent'[s] # 0
      BY <2>1, <2>3
    <3>11. seen'[s] < Replied(s)' /\ Replied(s)' <= Asked(s)' /\ Asked(s)' <= seen'[s] + 1
      BY <1>0, <2>1, <2>3, <3>2, <3>4, <3>7, <3>8 DEF Sending
    <3>12. peer'[s] # "open" => peer'[s] = "shut" /\ seen'[s] = Asked(s)'
      BY <1>0, <2>1, <3>7 DEF Sending
    <3> QED
      BY <3>5, <3>6, <3>9, <3>10, <3>11, <3>12 DEF Sending
  <2>5. CASE rsp_sent[s] > 0
    <3>0. Replied(s) > 0 /\ out[s][Replied(s)].sent = rsp_sent[s] /\ out[s][Replied(s)].len = rsp_len[s]
      BY <1>0, <2>5 DEF Sending
    <3>1. /\ Len(out'[s]) = Replied(s)
          /\ DOMAIN out'[s] = DOMAIN out[s]
          /\ \A i \in DOMAIN out[s] :
               /\ out'[s][i].k = out[s][i].k /\ out'[s][i].len = out[s][i].len
               /\ i # Replied(s) => out'[s][i] = out[s][i]
          /\ out'[s][Replied(s)].sent = rsp_sent'[s]
      BY <1>0, <1>7, <2>5, <3>0, NextPart
    <3>2. Replied(s)' = Replied(s) /\ Asked(s)' = Asked(s)
      BY <2>1, <3>1 DEF Replied, Asked
    <3>3. ASSUME NEW i \in DOMAIN out'[s]
          PROVE  /\ out'[s][i].k = i
                 /\ 0 < out'[s][i].sent /\ out'[s][i].sent <= out'[s][i].len
                 /\ i < Replied(s)' => out'[s][i].sent = out'[s][i].len
      <4>1. CASE i # Replied(s)
        BY <1>0, <3>1, <3>2, <4>1 DEF Sending
      <4>2. CASE i = Replied(s)
        BY <1>0, <2>1, <2>3, <3>0, <3>1, <3>2, <4>2 DEF Sending
      <4> QED
        BY <4>1, <4>2
    <3>4. Answered(s) = Replied(s) - 1
      BY <1>7, <3>0 DEF SendOk, Answered
    <3>5. seen[s] <= Replied(s) - 1 /\ seen'[s] <= Answered(s)'
      <4>1. Answered(s)' \in {Replied(s) - 1, Replied(s)}
        BY <3>1, <3>2 DEF Answered
      <4>2. seen[s] <= Replied(s) - 1
        BY <1>0, <3>4 DEF Sending
      <4> QED
        BY <2>1, <2>3, <4>1, <4>2
    <3>6. rsp_sent'[s] # 0
      BY <2>1, <2>3
    <3>7. seen'[s] < Replied(s)' /\ Replied(s)' <= Asked(s)' /\ Asked(s)' <= seen'[s] + 1
      BY <1>0, <2>1, <2>3, <3>2, <3>5 DEF Sending
    <3>8. peer'[s] # "open" => peer'[s] = "shut" /\ seen'[s] = Asked(s)'
      BY <1>0, <2>1, <3>2 DEF Sending
    <3>9. /\ Replied(s)' > 0
          /\ out'[s][Replied(s)'].sent = rsp_sent'[s] /\ out'[s][Replied(s)'].len = rsp_len'[s]
      BY <2>1, <3>0, <3>1, <3>2
    <3> QED
      BY <3>3, <3>5, <3>6, <3>7, <3>8, <3>9 DEF Sending
  <2> QED
    BY <2>3, <2>4, <2>5
<1>8. CASE SendDone(s)
  <2>1. /\ rsp_sent'[s] = 0 /\ rsp_sent[s] >= rsp_len[s]
        /\ UNCHANGED <<script, peer, seen, queued, out>>
    BY <1>0, <1>8 DEF SendDone, TypeOK, clientVars, kernelVars
  <2>2. rsp_sent[s] = rsp_len[s] /\ rsp_sent[s] \in Nat
    BY <1>0, <2>1, ReplyNumbers
  <2>3. Answered(s) = Replied(s)
    BY <1>0, <2>2, ReplyNumbers DEF Sending, Answered
  <2>4. Answered(s)' = Answered(s) /\ Replied(s)' = Replied(s) /\ Asked(s)' = Asked(s)
    BY <2>1 DEF Answered, Replied, Asked
  <2> QED
    BY <1>0, <2>1, <2>3, <2>4 DEF Sending
<1> QED
  BY <1>0, <1>1, <1>2, <1>3, <1>4, <1>5, <1>6, <1>7, <1>8, QuietSteps DEF Client
-----------------------------------------------------------------------------
(* The history of the line, sessions that were not taken over, and kernels  *)
(* that take a reply whole.                                                 *)

HistTypes == [s : Sessions, k : Nat, unit : Octets, fc : Octets]

\* The history only grows, by a transaction at its end.
LEMMA HistGrows ==
  ASSUME IndInv, [Next]_vars
  PROVE  /\ \A i \in DOMAIN hist : i \in DOMAIN hist' /\ hist'[i] = hist[i]
         /\ \/ hist' = hist
            \/ \E a \in Sessions :
                 /\ SendRequest(a)
                 /\ Len(hist') = Len(hist) + 1
                 /\ DOMAIN hist' = DOMAIN hist \cup {Len(hist) + 1}
                 /\ hist'[Len(hist) + 1].s = a /\ hist'[Len(hist) + 1].k = Held(a)
<1>1. hist \in Seq(HistTypes)
  BY DEF IndInv, TypeOK, HistTypes
<1>2. ASSUME NEW a \in Sessions, SendRequest(a)
      PROVE  /\ Len(hist') = Len(hist) + 1
             /\ DOMAIN hist' = DOMAIN hist \cup {Len(hist) + 1}
             /\ hist'[Len(hist) + 1].s = a /\ hist'[Len(hist) + 1].k = Held(a)
             /\ \A i \in DOMAIN hist : i \in DOMAIN hist' /\ hist'[i] = hist[i]
  <2> DEFINE h == [s |-> a, k |-> Held(a), unit |-> Req(a, 7), fc |-> Req(a, 8)]
  <2>1. hist' = Append(hist, h) /\ h.s = a /\ h.k = Held(a)
    BY <1>2 DEF SendRequest
  <2> HIDE DEF h
  <2> QED
    BY <1>1, <2>1
<1> QED
  BY <1>2, LineIsWrittenBy

\* An entry of the history belongs to a session.
LEMMA HistEntry ==
  ASSUME IndInv
  PROVE  /\ Len(hist) \in Nat /\ DOMAIN hist = 1..Len(hist)
         /\ \A i \in DOMAIN hist : hist[i].s \in Sessions /\ hist[i].k \in Nat
<1>1. hist \in Seq(HistTypes)
  BY DEF IndInv, TypeOK, HistTypes
<1>2. \A i \in DOMAIN hist : hist[i] \in HistTypes
  BY <1>1
<1> QED
  BY <1>1, <1>2 DEF HistTypes

LEMMA StartingStep ==
  ASSUME IndInv, LockstepInv, [Next]_vars, NEW s \in Sessions
  PROVE  Starting(s)'
<1> SUFFICES ASSUME phase'[s] = "preread"
             PROVE  Starting(s)'
  BY DEF Starting
<1>0. /\ OutTypes /\ Starting(s) /\ TypeOK
      /\ phase \in [Sessions -> {"preread", "bridge", "proxied", "closed"}]
  BY DEF LockstepInv, SessionInv, IndInv, TypeOK
<1>1. ASSUME phase[s] = "preread", base'[s] = base[s], lost'[s] = lost[s],
             req_len'[s] = req_len[s], req_need'[s] = req_need[s],
             rsp_sent'[s] = rsp_sent[s], out'[s] = out[s], ~SendRequest(s)
      PROVE  Starting(s)'
  <2>1. \A i \in DOMAIN hist' : hist'[i].s # s
    <3>1. \A i \in DOMAIN hist : hist[i].s # s
      BY <1>0, <1>1 DEF Starting
    <3>2. CASE hist' = hist
      BY <3>1, <3>2
    <3>3. CASE hist' # hist
      BY <1>1, <3>1, <3>3, HistGrows
    <3> QED
      BY <3>2, <3>3
  <2> QED
    BY <1>0, <1>1, <2>1 DEF Starting
<1>2. CASE Elsewhere(s)
  <2>1. ~SendRequest(s)
    BY <1>2 DEF Elsewhere, SendRequest, Running, Mine
  <2> QED
    BY <1>1, <1>2, <2>1 DEF Elsewhere, Mine
<1>3. CASE Client(s)
  <2>1. ~SendRequest(s)
    BY <1>3 DEF SendRequest, Client, ClientRequest, ClientWriteRest, ClientRead, ClientClose,
      Running, workerVars
  <2> QED
    BY <1>1, <1>3, <2>1 DEF Client, ClientRequest, ClientWriteRest, ClientRead, ClientClose,
      frameVars, replyVars
<1>4. CASE Preread(s)
  <2>0. run = NULL /\ UNCHANGED <<replyVars, out>> /\ phase[s] = "preread"
    BY <1>4 DEF Preread, Idle
  <2>1. ~SendRequest(s)
    BY <2>0, ConstantTypes DEF SendRequest, Running
  <2>2. UNCHANGED frameVars
    BY <1>0, <1>4 DEF Preread, Finalize, Takeover
  <2> QED
    BY <1>1, <2>0, <2>1, <2>2 DEF frameVars, replyVars
<1>5. CASE Dispatch(s)
  BY <1>5 DEF Dispatch
<1>6. CASE Timers(s)
  BY <1>0, <1>6 DEF Timers, PrereadTimeout, SessionTimeout, Finalize
<1>7. CASE Handler(s)
  <2>1. run = s
    BY <1>7 DEF Handler, ReadBadLength, ReadFrame, ReadRecv, NoRtuBackend, OpenFails,
      SendFails, SendRequest, Confirmed, ShortReply, BadCrc, NoConfirmation, SendOk, SendAgain,
      SendError, SendDone, Running
  <2>2. phase[s] = "bridge"
    BY <2>1, RunsBridged
  <2>3. phase'[s] # "preread"
    BY <1>0, <1>7, <2>2 DEF Handler, ReadBadLength, ReadFrame, ReadRecv, NoRtuBackend, OpenFails,
      SendFails, SendRequest, Confirmed, ShortReply, BadCrc, NoConfirmation, SendOk, SendAgain,
      SendError, SendDone, TransactUnchanged, Finalize
  <2> QED
    BY <2>3
<1> QED
  BY <1>0, <1>2, <1>3, <1>4, <1>5, <1>6, <1>7, StepOf DEF EventLoop

\* A reply that was not begun finds the kernel's queue empty: the client has
\* read all there was before it asked.
LEMMA QueueIsEmpty ==
  ASSUME IndInv, LockstepInv, NEW s \in Sessions, phase[s] = "bridge",
         rsp_sent[s] = 0, rsp_len[s] > 0
  PROVE  queued[s] = 0
<1>0. Sending(s) /\ Bridged(s) /\ TypeOK /\ OutTypes
  BY DEF LockstepInv, SessionInv, IndInv
<1>1. Asked(s) = Replied(s) + 1
  BY <1>0 DEF Bridged, Replying, Current
<1>2. ~(seen[s] < Replied(s))
  BY <1>0, <1>1, ReplyNumbers DEF Sending
<1>3. queued[s] \in 0..SndBuf /\ SndBuf \in Nat
  BY <1>0, SessionTypes, ConstantTypes
<1> QED
  BY <1>0, <1>2, <1>3 DEF Sending

LEMMA CalmStep ==
  ASSUME IndInv, LockstepInv, [Next]_vars, NEW s \in Sessions
  PROVE  Calm(s)'
<1> SUFFICES ASSUME ADU_MAX <= SndBuf
             PROVE  ~wactive'[s] /\ rsp_sent'[s] \in {0, rsp_len'[s]}
  BY DEF Calm
<1>0. /\ OutTypes /\ TypeOK /\ Bridged(s)
      /\ ~wactive[s] /\ rsp_sent[s] \in {0, rsp_len[s]}
      /\ rsp_sent[s] \in Nat /\ rsp_len[s] \in Nat /\ rsp_len[s] <= ADU_MAX
  BY SessionTypes DEF LockstepInv, SessionInv, IndInv, Calm, AccumulatorInv
<1>1. queued[s] \in 0..SndBuf /\ SndBuf \in Nat \ {0}
  BY <1>0, SessionTypes, ConstantTypes
<1>2. CASE SendAgain(s)
  <2>1. phase[s] = "bridge" /\ rsp_sent[s] = 0 /\ rsp_len[s] > 0 /\ ~(queued[s] < SndBuf)
    BY <1>0, <1>2, RunsBridged DEF SendAgain, Running, Writable
  <2>2. queued[s] = 0
    BY <2>1, QueueIsEmpty
  <2> QED
    BY <1>1, <2>1, <2>2
<1>3. CASE SendOk(s)
  <2>1. phase[s] = "bridge" /\ rsp_sent[s] = 0 /\ rsp_len[s] > 0
    BY <1>0, <1>3, RunsBridged DEF SendOk, Running
  <2>2. queued[s] = 0
    BY <2>1, QueueIsEmpty
  <2>3. /\ rsp_sent'[s] \in Nat
        /\ rsp_sent'[s] - 0 = Least(SndBuf - 0, rsp_len[s] - 0) /\ rsp_len' = rsp_len
    BY <1>0, <1>3, <2>1, <2>2, SendOkEffect
  <2>4. rsp_sent'[s] = rsp_len[s]
    <3>1. ADU_MAX \in Nat
      BY DEF ADU_MAX
    <3> QED
      BY <1>0, <1>1, <2>3, <3>1 DEF Least
  <2> QED
    BY <1>0, <1>3, <2>3, <2>4 DEF SendOk
<1>4. ASSUME wactive'[s] = wactive[s], rsp_sent'[s] = rsp_sent[s], rsp_len'[s] = rsp_len[s]
      PROVE  ~wactive'[s] /\ rsp_sent'[s] \in {0, rsp_len'[s]}
  BY <1>0, <1>4
<1>5. CASE Elsewhere(s)
  BY <1>4, <1>5 DEF Elsewhere, Mine
<1>6. CASE Client(s) \/ EventLoop(s) \/ Timers(s)
  BY <1>4, <1>6 DEF Client, ClientRequest, ClientWriteRest, ClientRead, ClientClose,
    EventLoop, Preread, Dispatch, Timers, PrereadTimeout, SessionTimeout, kernelVars, replyVars
<1>7. CASE ReplyStep(s)
  <2>1. rsp_sent'[s] = 0 /\ wactive' = wactive
    BY <1>0, <1>7, ReplyStepStarts DEF TransactUnchanged, kernelVars
  <2> QED
    BY <1>0, <2>1
<1>8. CASE SendDone(s)
  BY <1>0, <1>8 DEF SendDone, TypeOK, kernelVars
<1>9. CASE ReadBadLength(s) \/ ReadFrame(s) \/ ReadRecv(s) \/ SendRequest(s) \/ SendError(s)
  BY <1>4, <1>9 DEF ReadBadLength, ReadFrame, ReadRecv, SendRequest, SendError,
    TransactUnchanged, kernelVars, replyVars
<1> QED
  BY <1>0, <1>2, <1>3, <1>5, <1>6, <1>7, <1>8, <1>9, StepOf DEF Handler, ReplyStep
-----------------------------------------------------------------------------
(* What the accumulator holds.                                              *)

\* The numbers of the current request.
LEMMA CurrentNumbers ==
  ASSUME IndInv, OutTypes, NEW s \in Sessions, Sending(s)
  PROVE  /\ Current(s) \in Nat /\ Current(s) >= 1 /\ Asked(s) \in Nat
         /\ Current(s) <= Asked(s) => Current(s) \in DOMAIN script[s]
         /\ Current(s) - 1 \in 0..Asked(s)
<1>1. Current(s) \in Nat /\ Current(s) >= 1 /\ Asked(s) \in Nat
  BY ReplyNumbers DEF IndInv, Sending, Current
<1>2. DOMAIN script[s] = 1..Asked(s)
  BY SessionTypes DEF IndInv, Asked
<1>3. Current(s) <= Asked(s) + 1
  BY ReplyNumbers DEF IndInv, Sending, Current
<1> QED
  BY <1>1, <1>2, <1>3

\* The accumulator begins with the header of the current request.
LEMMA HeaderIsCurrent ==
  ASSUME IndInv, LockstepInv, NEW s \in Sessions, phase[s] = "bridge",
         Current(s) <= Asked(s), NEW i \in 1..7
  PROVE  Req(s, i) = FrameByte(Current(s), CurrentFrame(s), i)
<1>0. /\ TypeOK /\ OutTypes /\ Contiguous(s) /\ Sending(s) /\ Placed(s)
  BY DEF IndInv, LockstepInv, SessionInv, Bridged
<1> PICK c \in DOMAIN script[s] : c = Current(s)
  BY <1>0, CurrentNumbers
<1>1. /\ base[s] \in Nat /\ lost[s] \in Nat
  BY <1>0, SessionTypes
<1>2. base[s] = script[s][c].at
  BY <1>0 DEF Contiguous, Placed
<1>3. Position(s, i) = base[s] + i
  <2>1. CASE lost[s] = 0
    BY <1>1, <2>1 DEF Position
  <2>2. CASE lost[s] > 0
    <3>1. base[s] = 0
      BY <1>0, <2>2 DEF Placed, End
    <3> QED
      BY <3>1 DEF Position, ADU_MAX
  <2> QED
    BY <1>1, <2>1, <2>2
<1>4. /\ script[s][c].at \in Nat
      /\ End(s, c) = script[s][c].at + FrameBytes(script[s][c])
      /\ FrameBytes(script[s][c]) \in Nat /\ FrameBytes(script[s][c]) >= 7
  BY <1>0, FrameNumbers
<1> PICK p \in Nat : p = base[s] + i
  BY <1>1
<1>5. script[s][c].at < p /\ p <= End(s, c) /\ p - script[s][c].at = i
  BY <1>2, <1>4
<1>6. Byte(s, p) = FrameByte(c, script[s][c], p - script[s][c].at)
  BY <1>0, <1>5, ByteInFrame
<1>7. Req(s, i) = Byte(s, p)
  BY <1>3 DEF Req
<1> QED
  BY <1>5, <1>6, <1>7 DEF CurrentFrame

\* Its length field says how long the request is, and the transaction id which
\* it is.
LEMMA NeedIsLength ==
  ASSUME IndInv, LockstepInv, NEW s \in Sessions, phase[s] = "bridge",
         Current(s) <= Asked(s)
  PROVE  Need(s) = CurrentFrame(s).len /\ Req(s, 2) = Current(s)
<1>0. /\ TypeOK /\ OutTypes /\ Sending(s)
  BY DEF IndInv, LockstepInv, SessionInv
<1>1. CurrentFrame(s).len \in 6..LENGTH_MAX
  <2>1. Current(s) \in DOMAIN script[s]
    BY <1>0, CurrentNumbers
  <2> QED
    BY <1>0, <2>1, FrameNumbers DEF CurrentFrame
<1>2. /\ Req(s, 2) = FrameByte(Current(s), CurrentFrame(s), 2)
      /\ Req(s, 5) = FrameByte(Current(s), CurrentFrame(s), 5)
      /\ Req(s, 6) = FrameByte(Current(s), CurrentFrame(s), 6)
  BY HeaderIsCurrent
<1>3. \A k, f : /\ FrameByte(k, f, 2) = k
                /\ FrameByte(k, f, 5) = (f.len - 6) \div 256
                /\ FrameByte(k, f, 6) = (f.len - 6) % 256
  BY DEF FrameByte
<1>4. \A n \in Nat : n >= 6 => 6 + ((n - 6) \div 256) * 256 + ((n - 6) % 256) = n
  OBVIOUS
<1>5. CurrentFrame(s).len \in Nat /\ CurrentFrame(s).len >= 6
  BY <1>1
<1> QED
  BY <1>2, <1>3, <1>4, <1>5 DEF Need

\* A session takes no more than its current request, and there is nothing to
\* take when it was not begun.
LEMMA SocketHolds ==
  ASSUME IndInv, LockstepInv, NEW s \in Sessions, phase[s] = "bridge"
  PROVE  /\ InSocket(s) = written[s] - (base[s] + lost[s] + req_len[s])
         /\ InSocket(s) \in Nat
         /\ Current(s) = Asked(s) + 1 => InSocket(s) = 0
         /\ Current(s) = Asked(s) =>
              req_len[s] + InSocket(s) <= FrameBytes(CurrentFrame(s))
         /\ Current(s) = Asked(s) /\ lost[s] = 0 /\ written[s] = End(s, Asked(s)) =>
              req_len[s] + InSocket(s) = FrameBytes(CurrentFrame(s))
<1>0. /\ TypeOK /\ OutTypes /\ Contiguous(s) /\ Sending(s) /\ Placed(s) /\ StreamInv(s)
  BY DEF IndInv, LockstepInv, SessionInv, Bridged
<1>1. /\ base[s] \in Nat /\ lost[s] \in Nat /\ req_len[s] \in Nat /\ written[s] \in Nat
      /\ buffered[s] = 0
  BY <1>0, SessionTypes DEF Placed
<1>2. InSocket(s) = written[s] - (base[s] + lost[s] + req_len[s]) /\ InSocket(s) \in Nat
  <2>1. InSocket(s) \in Nat
    BY <1>0, InSocketType
  <2> QED
    BY <1>1, <2>1 DEF InSocket
<1>3. written[s] <= End(s, Asked(s)) /\ End(s, Asked(s)) \in Nat /\ Asked(s) \in Nat
  <2>1. Asked(s) \in 0..Asked(s)
    BY <1>0, CurrentNumbers
  <2> QED
    BY <1>0, <2>1, EndNumber DEF Contiguous
<1>4. base[s] = End(s, Current(s) - 1)
  BY <1>0 DEF Placed
<1>5. ASSUME Current(s) = Asked(s) + 1
      PROVE  InSocket(s) = 0
  <2>1. base[s] = End(s, Asked(s))
    BY <1>3, <1>4, <1>5
  <2> QED
    BY <1>1, <1>2, <1>3, <2>1
<1>6. ASSUME Current(s) = Asked(s)
      PROVE  /\ End(s, Asked(s)) = base[s] + FrameBytes(CurrentFrame(s))
             /\ FrameBytes(CurrentFrame(s)) \in Nat
  <2>1. Current(s) \in DOMAIN script[s]
    BY <1>0, <1>6, CurrentNumbers
  <2> QED
    BY <1>0, <1>4, <1>6, <2>1, FrameNumbers DEF Contiguous, CurrentFrame
<1> QED
  BY <1>1, <1>2, <1>3, <1>5, <1>6
-----------------------------------------------------------------------------
(* The bridge, action by action.                                            *)

\* A step that moves nothing of a session keeps what is said of it.
LEMMA BridgedKept ==
  ASSUME IndInv, LockstepInv, [Next]_vars, NEW s \in Sessions, script'[s] = script[s],
         out'[s] = out[s], phase'[s] = phase[s], buffered'[s] = buffered[s],
         base'[s] = base[s], lost'[s] = lost[s], req_len'[s] = req_len[s],
         req_need'[s] = req_need[s], rsp'[s] = rsp[s], rsp_len'[s] = rsp_len[s],
         rsp_sent'[s] = rsp_sent[s], run' = s <=> run = s, run = s => pc' = pc
  PROVE  Bridged(s)'
<1>1. /\ Current(s)' = Current(s) /\ Asked(s)' = Asked(s) /\ CurrentFrame(s)' = CurrentFrame(s)
      /\ \A k : End(s, k)' = End(s, k)
      /\ FrameBytes(CurrentFrame(s))' = FrameBytes(CurrentFrame(s))
      /\ FrameBytes(script[s][1])' = FrameBytes(script[s][1])
  BY DEF Current, Asked, CurrentFrame, End, Replied, FrameBytes
<1>2. \A fns : (run' = s /\ pc' \in fns) <=> (run = s /\ pc \in fns)
  OBVIOUS
<1>3. Bridged(s)
  BY DEF LockstepInv, SessionInv
<1> SUFFICES ASSUME phase'[s] = "bridge"
             PROVE  Placed(s)' /\ Reading(s)' /\ Taken(s)' /\ Replying(s)'
  BY DEF Bridged
<1>4. Placed(s)'
  BY <1>1, <1>2, <1>3 DEF Bridged, Placed, In
<1>5. Reading(s)'
  BY <1>1, <1>2, <1>3 DEF Bridged, Reading, In
<1>6. Taken(s)'
  BY <1>1, <1>2, <1>3 DEF Bridged, Taken, In
<1>7. Replying(s)'
  BY <1>1, <1>2, <1>3, HistGrows DEF Bridged, Replying, In
<1> QED
  BY <1>4, <1>5, <1>6, <1>7

\* A client that asks finds its session between two requests, or about to be.
LEMMA BridgedRequest ==
  ASSUME Lockstep, IndInv, LockstepInv, [Next]_vars, NEW s \in Sessions,
         NEW f \in Requests, NEW n \in Chunks, ClientRequest(s, f, n)
  PROVE  Bridged(s)'
<1> SUFFICES ASSUME phase'[s] = "bridge"
             PROVE  Placed(s)' /\ Reading(s)' /\ Taken(s)' /\ Replying(s)'
  BY DEF Bridged
<1>0. /\ TypeOK /\ OutTypes /\ Contiguous(s) /\ Sending(s) /\ rsp_sent[s] <= rsp_len[s]
  BY DEF IndInv, LockstepInv, SessionInv, AccumulatorInv
<1>1. /\ UNCHANGED <<out, phase, buffered, base, lost, req_len, req_need, rsp, rsp_len,
                     rsp_sent, run, pc, hist>>
  BY DEF ClientRequest, frameVars, replyVars, workerVars, lineVars
<1>2. Placed(s) /\ Reading(s) /\ Taken(s) /\ Replying(s)
  BY <1>1 DEF LockstepInv, SessionInv, Bridged
<1>3. /\ Asked(s) \in Nat /\ Replied(s) \in Nat /\ lost[s] \in Nat
      /\ rsp_sent[s] \in Nat /\ rsp_len[s] \in Nat
  BY <1>0, ReplyNumbers, SessionTypes
<1>4. Asked(s) = Replied(s) /\ Answered(s) = Replied(s)
  <2>1. Asked(s) <= seen[s]
    BY <1>0, ReplyNumbers DEF ClientRequest, Lockstep, Asked
  <2> QED
    BY <1>0, <2>1, ReplyNumbers DEF Sending
<1>5. /\ Asked(s)' = Asked(s) + 1 /\ Current(s)' = Current(s)
      /\ \A k \in 0..Asked(s) : End(s, k)' = End(s, k)
      /\ \A k \in DOMAIN script[s] : k \in DOMAIN script'[s] /\ script'[s][k] = script[s][k]
  BY <1>0, <1>1, ContiguousRequest, FramesStay DEF Current, Replied
<1>6. base'[s] = End(s, Current(s) - 1)'
  <2> PICK c \in 0..Asked(s) : c = Current(s) - 1
    BY <1>0, CurrentNumbers
  <2>1. End(s, c)' = End(s, c)
    BY <1>5
  <2>2. base[s] = End(s, c)
    BY <1>2 DEF Placed
  <2>3. Current(s)' - 1 = c
    BY <1>5
  <2> QED
    BY <1>1, <2>1, <2>2, <2>3
<1>7. CASE rsp_sent[s] = 0
  <2>1. Current(s) = Asked(s) + 1
    BY <1>4, <1>7 DEF Current
  <2>2. req_len[s] = 0 /\ req_need[s] = 0 /\ rsp_len[s] = 0 /\ ~In(s, {"transact", "confirm"})
    BY <1>2, <2>1 DEF Placed
  <2>3. lost[s] = 0
    BY <1>2, <1>3, <2>1 DEF Placed
  <2>4. FrameBytes(CurrentFrame(s))' \in Nat /\ FrameBytes(CurrentFrame(s))' >= 7
    <3> PICK c \in DOMAIN script'[s] : c = Asked(s)'
      <4>1. Asked(s)' \in DOMAIN script'[s]
        BY <1>0, <1>5, AppendedScript DEF Asked
      <4> QED
        BY <4>1
    <3>2. FrameBytes(script[s][c])' \in Nat /\ FrameBytes(script[s][c])' >= 7
      <4>1. script'[s] \in Seq(ScriptFrames)
        BY TypeStep DEF TypeOK
      <4>2. script'[s][c] \in ScriptFrames
        BY <4>1
      <4>3. script'[s][c].len \in Nat
        BY <4>2 DEF ScriptFrames
      <4> QED
        BY <4>3 DEF FrameBytes, MBAP_LEN
    <3>3. Current(s)' = c
      BY <1>5, <2>1
    <3> QED
      BY <3>2, <3>3 DEF CurrentFrame, FrameBytes
  <2>5. Placed(s)'
    BY <1>1, <1>2, <1>3, <1>5, <1>6, <2>1, <2>3 DEF Placed
  <2>6. Reading(s)'
    BY <1>1, <1>5, <2>1, <2>2, <2>4 DEF Reading
  <2>7. Taken(s)' /\ Replying(s)'
    BY <1>1, <2>2 DEF Taken, Replying, In
  <2> QED
    BY <2>5, <2>6, <2>7
<1>8. CASE rsp_sent[s] > 0
  <2>1. Current(s) = Asked(s)
    BY <1>4, <1>8 DEF Current
  <2>2. rsp_sent[s] = rsp_len[s] /\ rsp_len[s] > 0
    BY <1>0, <1>3, <1>4, <1>8 DEF Sending, Answered
  <2>3. lost[s] = 0
    BY <1>2, <2>2 DEF Taken
  <2>4. CurrentFrame(s)' = CurrentFrame(s)
    <3> PICK c \in DOMAIN script[s] : c = Current(s)
      BY <1>0, <2>1, CurrentNumbers
    <3>1. script'[s][c] = script[s][c] /\ Current(s)' = c
      BY <1>5
    <3> QED
      BY <3>1 DEF CurrentFrame
  <2>5. Placed(s)'
    BY <1>1, <1>2, <1>3, <1>5, <1>6, <2>1, <2>3 DEF Placed
  <2>6. Reading(s)'
    BY <1>1, <2>2 DEF Reading
  <2>7. Taken(s)'
    BY <1>1, <1>2, <1>3, <1>5, <2>1, <2>4 DEF Taken, In
  <2>8. Replying(s)'
    BY <1>1, <1>2, <1>3, <1>5, <2>1, <2>2 DEF Replying, In
  <2> QED
    BY <2>5, <2>6, <2>7, <2>8
<1> QED
  BY <1>3, <1>7, <1>8

\* A session that ends promises nothing more.
LEMMA BridgedFinalize ==
  ASSUME TypeOK, NEW s \in Sessions, Finalize(s)
  PROVE  Bridged(s)'
  BY DEF TypeOK, Finalize, Bridged

\* The bridge opens on the client's first request.
LEMMA BridgedPreread ==
  ASSUME Lockstep, IndInv, LockstepInv, [Next]_vars, NEW s \in Sessions, Preread(s)
  PROVE  Bridged(s)'
<1> SUFFICES ASSUME phase'[s] = "bridge"
             PROVE  Placed(s)' /\ Reading(s)' /\ Taken(s)' /\ Replying(s)'
  BY DEF Bridged
<1>0. /\ TypeOK /\ OutTypes /\ Contiguous(s) /\ Sending(s) /\ StreamInv(s)
      /\ phase \in [Sessions -> {"preread", "bridge", "proxied", "closed"}]
      /\ phase[s] = "preread"
  BY DEF IndInv, LockstepInv, SessionInv, Preread, TypeOK
<1>1. /\ UNCHANGED <<script, written, rsp, rsp_len, rsp_sent, out>>
  BY DEF Preread, clientVars, replyVars
<1>2. /\ base[s] = 0 /\ rsp_sent[s] = 0 /\ rsp_len[s] = 0 /\ out[s] = <<>> /\ req_need[s] = 0
  BY <1>0 DEF IndInv, LockstepInv, SessionInv, Starting, WakeInv
<1>3. PICK n \in Nat, loc \in Routes :
        /\ n = buffered[s] + InSocket(s)
        /\ PrereadFate(s, n, loc, Verdict(loc, Byte(s, 8)))
  BY <1>0, PrereadCases
<1>4. n >= 8 /\ Takeover(s, n, loc)
  BY <1>0, <1>3 DEF PrereadFate, Finalize
<1>5. /\ req_len'[s] = Seed(n) /\ lost'[s] = n - Seed(n) /\ buffered'[s] = 0
      /\ UNCHANGED <<base, req_need>> /\ run' = s /\ pc' = "read"
  BY <1>0, <1>4 DEF Takeover, TypeOK
<1>6. n <= written[s]
  <2>1. n + base[s] + lost[s] + req_len[s] = written[s]
    BY <1>0, <1>3, InSocketType
  <2>2. base[s] \in Nat /\ lost[s] \in Nat /\ req_len[s] \in Nat
    BY <1>0, SessionTypes
  <2> QED
    BY <2>1, <2>2
<1>7. Asked(s) = 1 /\ written[s] <= FrameBytes(script[s][1]) /\ FrameBytes(script[s][1]) \in Nat
  <2>1. Asked(s) # 0
    <3>1. ASSUME Asked(s) = 0
          PROVE  FALSE
      <4>1. written[s] <= 0
        BY <1>0, <3>1 DEF Contiguous, End
      <4> QED
        BY <1>0, <1>4, <1>6, <4>1, SessionTypes
    <3> QED
      BY <3>1
  <2>2. Asked(s) = 1
    <3>1. Replied(s) = 0
      BY <1>2 DEF Replied
    <3>2. Asked(s) <= 1
      BY <1>0, <3>1, ReplyNumbers DEF Sending
    <3> QED
      BY <1>0, <2>1, <3>2, CurrentNumbers
  <2>3. 1 \in DOMAIN script[s]
    BY <1>0, <2>2, SessionTypes DEF Asked
  <2>4. script[s][1].at = 0
    BY <2>3 DEF Contiguous, End, LockstepInv, SessionInv
  <2>5. End(s, 1) = FrameBytes(script[s][1]) /\ FrameBytes(script[s][1]) \in Nat
    BY <1>0, <2>3, <2>4, FrameNumbers
  <2> QED
    BY <1>0, <2>2, <2>5 DEF Contiguous
<1>8. Current(s)' = 1 /\ Asked(s)' = 1 /\ End(s, 0)' = 0
      /\ FrameBytes(script[s][1])' = FrameBytes(script[s][1])
  BY <1>1, <1>2, <1>7 DEF Current, Replied, Asked, End, FrameBytes
<1>9. Seed(n) \in Nat /\ Seed(n) <= n /\ (n > Seed(n) => Seed(n) = ADU_MAX /\ n > ADU_MAX)
  BY DEF Seed, Least, ADU_MAX
<1>10. written[s] \in Nat /\ ADU_MAX \in Nat
  BY <1>0, SessionTypes DEF ADU_MAX
<1>11. lost'[s] > 0 => req_len'[s] = ADU_MAX /\ FrameBytes(script[s][1])' > ADU_MAX
  BY <1>5, <1>6, <1>7, <1>8, <1>9, <1>10
<1>12. Placed(s)'
  <2>1. Current(s)' - 1 = 0
    BY <1>8
  <2> QED
    BY <1>2, <1>5, <1>8, <1>11, <2>1 DEF Placed, In
<1>13. Reading(s)'
  <2>1. FrameBytes(CurrentFrame(s))' = FrameBytes(script[s][1])
    BY <1>1, <1>8 DEF CurrentFrame, FrameBytes
  <2>2. req_len'[s] <= FrameBytes(script[s][1])
    BY <1>5, <1>6, <1>7, <1>9, <1>10
  <2> QED
    BY <1>2, <1>5, <1>8, <2>1, <2>2 DEF Reading, In
<1>14. Taken(s)' /\ Replying(s)'
  BY <1>1, <1>2, <1>5 DEF Taken, Replying, In
<1> QED
  BY <1>12, <1>13, <1>14

\* The write event is active only where clients write whole requests.
LEMMA WholeIfWoken ==
  ASSUME Lockstep, LockstepInv, NEW s \in Sessions, wactive[s]
  PROVE  written[s] = End(s, Asked(s))
  BY DEF Lockstep, LockstepInv, SessionInv, Calm, Contiguous

\* While a reply is being sent there is nothing to read: the client waits.
LEMMA PendingIsQuiet ==
  ASSUME IndInv, LockstepInv, NEW s \in Sessions, phase[s] = "bridge",
         rsp_sent[s] < rsp_len[s]
  PROVE  ~Readable(s)
<1>0. /\ TypeOK /\ OutTypes /\ Sending(s) /\ Taken(s) /\ Replying(s)
  BY DEF IndInv, LockstepInv, SessionInv, Bridged
<1>1. rsp_len[s] > 0
  BY <1>0, ReplyNumbers
<1>2. Asked(s) = Current(s) /\ req_len[s] = CurrentFrame(s).len /\ MBAP_LEN <= CurrentFrame(s).len
      /\ lost[s] = 0
  BY <1>0, <1>1 DEF Taken, Replying
<1>3. InSocket(s) = 0
  <2>1. req_len[s] + InSocket(s) <= FrameBytes(CurrentFrame(s)) /\ InSocket(s) \in Nat
    BY <1>2, SocketHolds
  <2>2. FrameBytes(CurrentFrame(s)) = CurrentFrame(s).len /\ req_len[s] \in Nat
    BY <1>0, <1>2, SessionTypes DEF FrameBytes, MBAP_LEN
  <2> QED
    BY <1>2, <2>1, <2>2
<1>4. seen[s] # Asked(s)
  <2>1. CASE rsp_sent[s] > 0
    <3>1. Answered(s) = Replied(s) - 1 /\ Asked(s) = Replied(s)
      BY <1>0, <1>2, <2>1 DEF Sending, Answered, Current
    <3> QED
      BY <1>0, <3>1, ReplyNumbers DEF Sending
  <2>2. CASE ~(rsp_sent[s] > 0)
    <3>1. Asked(s) = Replied(s) + 1
      BY <1>2, <2>2 DEF Current
    <3> QED
      BY <1>0, <3>1, ReplyNumbers DEF Sending
  <2> QED
    BY <2>1, <2>2
<1> QED
  BY <1>0, <1>3, <1>4 DEF Readable, Sending

LEMMA BridgedDispatch ==
  ASSUME Lockstep, IndInv, LockstepInv, [Next]_vars, NEW s \in Sessions, Dispatch(s)
  PROVE  Bridged(s)'
<1>0. /\ TypeOK /\ OutTypes /\ Sending(s) /\ Placed(s) /\ Reading(s) /\ Taken(s) /\ Replying(s)
      /\ rsp_sent[s] <= rsp_len[s] /\ phase[s] = "bridge"
  BY DEF IndInv, LockstepInv, SessionInv, Bridged, Dispatch, AccumulatorInv
<1>1. /\ UNCHANGED <<script, out, phase, buffered, base, lost, req_len, req_need, rsp, rsp_len,
                     rsp_sent, hist>>
      /\ run = NULL /\ run # s
  BY ConstantTypes DEF Dispatch, Idle, clientVars, frameVars, replyVars, lineVars
<1>2. rsp_len[s] \in Nat /\ rsp_sent[s] \in Nat /\ lost[s] \in Nat
  BY <1>0, SessionTypes
<1>3. lost[s] = 0
  BY <1>0, <1>1, <1>2 DEF Placed, In
<1>4. /\ Current(s)' = Current(s) /\ Asked(s)' = Asked(s) /\ CurrentFrame(s)' = CurrentFrame(s)
      /\ \A k : End(s, k)' = End(s, k)
      /\ FrameBytes(CurrentFrame(s))' = FrameBytes(CurrentFrame(s))
  BY <1>1 DEF Current, Asked, CurrentFrame, End, Replied, FrameBytes
<1>5. \/ run' = s /\ pc' = "read" /\ Readable(s)
      \/ run' = s /\ pc' = "send" /\ ~Readable(s) /\ wactive[s]
      \/ run' = NULL
  BY <1>1 DEF Dispatch, workerVars
<1>6. ~In(s, {"transact", "confirm"})'
  BY <1>1, <1>5 DEF In
<1>7. Placed(s)'
  BY <1>0, <1>1, <1>3, <1>4, <1>6 DEF Placed
<1>8. CASE rsp_len[s] > 0
  <2>1. rsp_sent[s] < rsp_len[s]
    BY <1>0, <1>1, <1>2, <1>8 DEF Replying, In
  <2>2. ~Readable(s)
    BY <1>0, <2>1, PendingIsQuiet
  <2>3. ~In(s, {"read", "transact", "confirm"})'
    BY <1>1, <1>5, <2>2 DEF In
  <2>4. Reading(s)'
    BY <1>1, <1>2, <1>8 DEF Reading
  <2>5. Taken(s)'
    BY <1>0, <1>1, <1>4, <1>8 DEF Taken
  <2>6. Replying(s)'
    BY <1>0, <1>1, <1>2, <1>4, <1>8, <2>1, <2>3 DEF Replying
  <2> QED
    BY <1>7, <2>4, <2>5, <2>6 DEF Bridged
<1>9. CASE rsp_len[s] = 0
  <2>1. ASSUME Current(s) <= Asked(s)
        PROVE  /\ Current(s) = Asked(s)
               /\ req_len[s] < FrameBytes(CurrentFrame(s))
               /\ req_len[s] = 0 => req_need[s] = 0
               /\ ~In(s, {"send"})'
    <3>1. /\ Current(s) = Asked(s) /\ req_len[s] < FrameBytes(CurrentFrame(s))
          /\ req_len[s] = 0 => req_need[s] = 0
      BY <1>0, <1>1, <1>9, <2>1 DEF Reading
    <3>2. ASSUME wactive[s], ~Readable(s)
          PROVE  FALSE
      <4>1. req_len[s] + InSocket(s) = FrameBytes(CurrentFrame(s)) /\ InSocket(s) \in Nat
        BY <1>0, <1>3, <3>1, <3>2, SocketHolds, WholeIfWoken
      <4>2. ~(InSocket(s) > 0) /\ req_len[s] \in Nat
        BY <1>0, <3>2, SessionTypes DEF Readable
      <4> QED
        BY <3>1, <4>1, <4>2
    <3>3. ~In(s, {"send"})'
      BY <1>1, <1>5, <3>2 DEF In
    <3> QED
      BY <3>1, <3>3
  <2>2. Reading(s)'
    BY <1>0, <1>1, <1>4, <1>9, <2>1 DEF Reading
  <2>3. Taken(s)' /\ Replying(s)'
    BY <1>1, <1>2, <1>6, <1>9 DEF Taken, Replying
  <2> QED
    BY <1>7, <2>2, <2>3 DEF Bridged
<1> QED
  BY <1>2, <1>8, <1>9

\* The read handler runs between replies.
LEMMA ReadsBetween ==
  ASSUME IndInv, LockstepInv, NEW s \in Sessions, run = s, pc = "read"
  PROVE  /\ phase[s] = "bridge" /\ Placed(s) /\ Reading(s) /\ Taken(s) /\ Replying(s)
         /\ rsp_len[s] = 0 /\ rsp_sent[s] = 0
         /\ Current(s) = Asked(s) + 1 \/ Current(s) = Asked(s)
         /\ Current(s) = Asked(s) + 1 => ~HeaderRead(s)
         /\ HeaderRead(s) => Need(s) = CurrentFrame(s).len
<1>0. phase[s] = "bridge" /\ Bridged(s) /\ rsp_sent[s] <= rsp_len[s] /\ TypeOK /\ OutTypes
  BY RunsBridged DEF IndInv, LockstepInv, SessionInv, AccumulatorInv
<1>1. Placed(s) /\ Reading(s) /\ Taken(s) /\ Replying(s)
  BY <1>0 DEF Bridged
<1>2. rsp_len[s] \in Nat /\ rsp_sent[s] \in Nat
  BY <1>0, SessionTypes
<1>3. rsp_len[s] = 0 /\ rsp_sent[s] = 0
  BY <1>0, <1>1, <1>2 DEF Replying, In
<1>4. Current(s) \in Nat /\ Asked(s) \in Nat
  BY <1>0, CurrentNumbers DEF LockstepInv, SessionInv
<1>5. Current(s) = Asked(s) + 1 \/ Current(s) = Asked(s)
  BY <1>1, <1>3, <1>4 DEF Placed, Reading
<1>6. Current(s) = Asked(s) + 1 => ~HeaderRead(s)
  BY <1>1 DEF Placed, HeaderRead, MBAP_LEN
<1>7. HeaderRead(s) => Need(s) = CurrentFrame(s).len
  BY <1>0, <1>4, <1>5, <1>6, NeedIsLength
<1> QED
  BY <1>0, <1>1, <1>3, <1>5, <1>6, <1>7

\* The numbers of the frame being read.
LEMMA FrameBeingRead ==
  ASSUME IndInv, LockstepInv, NEW s \in Sessions, Current(s) = Asked(s)
  PROVE  /\ FrameBytes(CurrentFrame(s)) \in Nat /\ FrameBytes(CurrentFrame(s)) >= 7
         /\ CurrentFrame(s).len \in Nat /\ CurrentFrame(s).len >= 6
         /\ CurrentFrame(s).len >= 7 => FrameBytes(CurrentFrame(s)) = CurrentFrame(s).len
         /\ CurrentFrame(s).len < 7 => FrameBytes(CurrentFrame(s)) = 7
<1>1. TypeOK /\ OutTypes /\ Sending(s)
  BY DEF IndInv, LockstepInv, SessionInv
<1> PICK c \in DOMAIN script[s] : c = Current(s)
  BY <1>1, CurrentNumbers
<1>2. script[s][c].len \in 6..LENGTH_MAX
  BY <1>1, FrameNumbers
<1>3. script[s][c].len \in Nat /\ script[s][c].len >= 6
  BY <1>2
<1> QED
  BY <1>1, <1>3, FrameNumbers DEF CurrentFrame

\* A frame that leaves the loop is the current request, whole.
LEMMA BridgedReadFrame ==
  ASSUME Lockstep, IndInv, LockstepInv, [Next]_vars, NEW s \in Sessions, ReadFrame(s)
  PROVE  Bridged(s)'
<1>0. run = s /\ pc = "read" /\ TypeOK
  BY DEF ReadFrame, Running, IndInv
<1>1. CASE Finalize(s)
  BY <1>0, <1>1, BridgedFinalize
<1>2. CASE ~Finalize(s)
  <2>1. /\ UNCHANGED <<script, out, phase, buffered, base, lost, req_len, rsp, rsp_len,
                       rsp_sent, hist>>
        /\ req_need'[s] = Need(s) /\ run' = s /\ pc' = "transact"
    BY <1>0, <1>2 DEF ReadFrame, clientVars, replyVars, lineVars, TypeOK
  <2>2. /\ Current(s)' = Current(s) /\ Asked(s)' = Asked(s) /\ CurrentFrame(s)' = CurrentFrame(s)
        /\ \A k : End(s, k)' = End(s, k)
        /\ FrameBytes(CurrentFrame(s))' = FrameBytes(CurrentFrame(s))
        /\ FrameBytes(script[s][1])' = FrameBytes(script[s][1])
    BY <2>1 DEF Current, Asked, CurrentFrame, End, Replied, FrameBytes
  <2>3. /\ Placed(s) /\ Reading(s) /\ rsp_len[s] = 0 /\ rsp_sent[s] = 0
        /\ HeaderRead(s) /\ Need(s) = CurrentFrame(s).len /\ Current(s) = Asked(s)
        /\ req_len[s] >= Need(s) /\ ~BadLength(Need(s))
    BY <1>0, ReadsBetween DEF ReadFrame, FrameRead
  <2>4. CurrentFrame(s).len >= 7 /\ CurrentFrame(s).len \in Nat /\ CurrentFrame(s).len <= 260
    BY <2>3, FrameBeingRead DEF BadLength, MBAP_LEN, ADU_MAX
  <2>5. Current(s) <= Asked(s) /\ Asked(s) # Asked(s) + 1
    <3>1. Asked(s) \in Nat
      BY <1>0, SessionTypes DEF Asked
    <3> QED
      BY <2>3, <3>1
  <2>6. req_len[s] = CurrentFrame(s).len
    <3>1. req_len[s] <= FrameBytes(CurrentFrame(s))
      BY <2>3, <2>5 DEF Reading
    <3>2. req_len[s] \in Nat
      BY <1>0, SessionTypes
    <3> QED
      BY <2>3, <2>4, <3>1, <3>2, FrameBeingRead
  <2>7. lost[s] = 0
    <3>1. CASE lost[s] > 0
      <4>1. FrameBytes(CurrentFrame(s)) > ADU_MAX
        BY <2>3, <3>1 DEF Placed, CurrentFrame
      <4> QED
        BY <2>3, <2>4, <4>1, FrameBeingRead DEF ADU_MAX
    <3>2. lost[s] \in Nat
      BY <1>0, SessionTypes
    <3> QED
      BY <3>1, <3>2
  <2>8. Placed(s)'
    BY <2>1, <2>2, <2>3, <2>5, <2>7 DEF Placed
  <2>9. Reading(s)'
    <3>1. req_len[s] # 0
      BY <2>4, <2>6
    <3> QED
      BY <2>1, <2>2, <2>3, <2>5, <3>1 DEF Reading, In
  <2>10. Taken(s)'
    BY <2>1, <2>2, <2>3, <2>4, <2>5, <2>6, <2>7 DEF Taken, MBAP_LEN
  <2>11. Replying(s)'
    BY <2>1, <2>3 DEF Replying
  <2> QED
    BY <2>8, <2>9, <2>10, <2>11 DEF Bridged
<1> QED
  BY <1>1, <1>2

\* recv adds bytes of the current request, and says NGX_AGAIN only when that is
\* not whole.
LEMMA BridgedRecv ==
  ASSUME Lockstep, IndInv, LockstepInv, [Next]_vars, NEW s \in Sessions, ReadRecv(s)
  PROVE  Bridged(s)'
<1>0. run = s /\ pc = "read" /\ TypeOK
  BY DEF ReadRecv, Running, IndInv
<1>1. CASE Finalize(s)
  BY <1>0, <1>1, BridgedFinalize
<1>2. CASE ~Finalize(s)
  <2>1. /\ UNCHANGED <<script, out, phase, buffered, base, lost, rsp, rsp_len,
                       rsp_sent, hist>>
        /\ req_need'[s] = NeedNow(s)
    BY <1>0, <1>2 DEF ReadRecv, clientVars, replyVars, lineVars, TypeOK
  <2>2. /\ Current(s)' = Current(s) /\ Asked(s)' = Asked(s) /\ CurrentFrame(s)' = CurrentFrame(s)
        /\ \A k : End(s, k)' = End(s, k)
        /\ FrameBytes(CurrentFrame(s))' = FrameBytes(CurrentFrame(s))
    BY <2>1 DEF Current, Asked, CurrentFrame, End, Replied, FrameBytes
  <2>3. /\ phase[s] = "bridge" /\ Placed(s) /\ Reading(s)
        /\ rsp_len[s] = 0 /\ rsp_sent[s] = 0
        /\ Current(s) = Asked(s) + 1 \/ Current(s) = Asked(s)
        /\ Current(s) = Asked(s) + 1 => ~HeaderRead(s)
        /\ HeaderRead(s) => Need(s) = CurrentFrame(s).len
    BY <1>0, ReadsBetween
  <2>4. Asked(s) \in Nat /\ req_len[s] \in Nat /\ lost[s] \in Nat /\ InSocket(s) \in Nat
    BY <1>0, <2>3, SessionTypes, SocketHolds DEF Asked
  <2>5. lost[s] = 0
    <3>1. ASSUME lost[s] > 0
          PROVE  FALSE
      <4>1. /\ Current(s) = Asked(s) /\ req_len[s] = ADU_MAX
            /\ FrameBytes(CurrentFrame(s)) > ADU_MAX
        BY <2>3, <3>1 DEF Placed, CurrentFrame
      <4>2. HeaderRead(s)
        BY <4>1 DEF HeaderRead, ADU_MAX, MBAP_LEN
      <4>3. CurrentFrame(s).len > ADU_MAX
        BY <4>1, FrameBeingRead DEF ADU_MAX
      <4> QED
        BY <2>3, <4>2, <4>3 DEF ReadRecv, BadLength
    <3> QED
      BY <2>4, <3>1
  <2>6. ~In(s, {"transact", "confirm"})'
    BY <1>0, <1>2 DEF ReadRecv, Return, In, workerVars
  <2>7. Taken(s)' /\ Replying(s)'
    BY <2>1, <2>3, <2>6 DEF Taken, Replying
  <2>8. ASSUME InSocket(s) > 0,
               req_len'[s] = req_len[s] + Least(Want(s), InSocket(s)),
               UNCHANGED <<run, pc>>
        PROVE  Placed(s)' /\ Reading(s)'
    <3>1. Current(s) = Asked(s)
      BY <2>3, <2>4, <2>8, SocketHolds
    <3>2. Current(s) # Asked(s) + 1
      BY <2>4, <3>1
    <3>3. Want(s) \in Nat /\ Want(s) > 0
      BY <1>0, WantType DEF ReadRecv, IndInv
    <3>4. req_len'[s] > 0 /\ req_len'[s] <= FrameBytes(CurrentFrame(s))
      <4> DEFINE m == Least(Want(s), InSocket(s))
      <4>1. m \in Nat /\ m > 0 /\ m <= InSocket(s)
        BY <2>4, <2>8, <3>3 DEF Least
      <4>2. req_len[s] + InSocket(s) <= FrameBytes(CurrentFrame(s))
        BY <2>3, <3>1, SocketHolds
      <4>3. FrameBytes(CurrentFrame(s)) \in Nat
        BY <3>1, FrameBeingRead
      <4>4. req_len'[s] = req_len[s] + m
        BY <2>8
      <4> HIDE DEF m
      <4> QED
        BY <2>4, <4>1, <4>2, <4>3, <4>4
    <3>5. Placed(s)'
      BY <2>1, <2>2, <2>3, <2>5, <2>6, <3>2 DEF Placed
    <3>6. Reading(s)'
      BY <1>0, <2>2, <2>8, <3>1, <3>4 DEF Reading, In
    <3> QED
      BY <3>5, <3>6
  <2>9. ASSUME InSocket(s) = 0, Return, req_len'[s] = req_len[s]
        PROVE  Placed(s)' /\ Reading(s)'
    <3>1. CASE Current(s) = Asked(s) + 1
      <4>1. req_need'[s] = req_need[s]
        BY <2>1, <2>3, <3>1 DEF NeedNow
      <4>2. Placed(s)'
        BY <2>1, <2>2, <2>3, <2>5, <2>6, <2>9, <3>1, <4>1 DEF Placed
      <4>3. Reading(s)'
        BY <2>2, <2>4, <3>1 DEF Reading
      <4> QED
        BY <4>2, <4>3
    <3>2. CASE Current(s) = Asked(s)
      <4>0. Current(s) # Asked(s) + 1
        BY <2>4, <3>2
      <4>1. req_len[s] # FrameBytes(CurrentFrame(s))
        <5>1. ASSUME req_len[s] = FrameBytes(CurrentFrame(s))
              PROVE  FALSE
          <6>1. HeaderRead(s)
            BY <3>2, <5>1, FrameBeingRead DEF HeaderRead, MBAP_LEN
          <6>2. Need(s) = CurrentFrame(s).len /\ ~BadLength(Need(s)) /\ ~(req_len[s] >= Need(s))
            BY <2>3, <6>1 DEF ReadRecv, FrameRead
          <6>3. CurrentFrame(s).len >= 7
            BY <3>2, <6>2, FrameBeingRead DEF BadLength, MBAP_LEN
          <6> QED
            BY <3>2, <5>1, <6>2, <6>3, FrameBeingRead
        <5> QED
          BY <5>1
      <4>2. req_len[s] < FrameBytes(CurrentFrame(s))
        <5>1. req_len[s] <= FrameBytes(CurrentFrame(s))
          BY <2>3, <2>4, <3>2 DEF Reading
        <5> QED
          BY <2>4, <3>2, <4>1, <5>1, FrameBeingRead
      <4>3. ~wnext
        <5>1. ASSUME wactive[s]
              PROVE  FALSE
          <6>1. req_len[s] + InSocket(s) = FrameBytes(CurrentFrame(s))
            BY <2>3, <2>5, <3>2, <5>1, SocketHolds, WholeIfWoken
          <6> QED
            BY <2>4, <2>9, <4>1, <6>1
        <5> QED
          BY <1>0, <5>1 DEF LockstepInv, Awaited
      <4>4. run' = NULL /\ run' # s
        BY <2>9, <4>3, ConstantTypes DEF Return
      <4>5. req_len[s] = 0 => req_need'[s] = 0
        <5>1. req_len[s] = 0 => ~HeaderRead(s) /\ req_need[s] = 0
          BY <2>3, <2>4, <3>2 DEF Reading, HeaderRead, MBAP_LEN
        <5> QED
          BY <2>1, <5>1 DEF NeedNow
      <4>6. Placed(s)'
        BY <2>1, <2>2, <2>3, <2>5, <2>6, <4>0 DEF Placed
      <4>7. Reading(s)'
        BY <2>2, <2>4, <2>9, <3>2, <4>2, <4>4, <4>5, FrameBeingRead DEF Reading, In
      <4> QED
        BY <4>6, <4>7
    <3> QED
      BY <2>3, <3>1, <3>2
  <2>10. Placed(s)' /\ Reading(s)'
    BY <1>0, <1>2, <2>8, <2>9 DEF ReadRecv, TypeOK, workerVars
  <2> QED
    BY <2>7, <2>10 DEF Bridged
<1> QED
  BY <1>1, <1>2

\* A transaction begins on the current request.
LEMMA BridgedSendRequest ==
  ASSUME IndInv, LockstepInv, [Next]_vars, NEW s \in Sessions, SendRequest(s)
  PROVE  Bridged(s)'
<1>0. /\ run = s /\ pc = "transact" /\ phase[s] = "bridge"
      /\ Placed(s) /\ Reading(s) /\ Taken(s) /\ Replying(s)
  <2>1. run = s /\ pc = "transact"
    BY DEF SendRequest, Running
  <2> QED
    BY <2>1, RunsBridged DEF LockstepInv, SessionInv, Bridged
<1>1. /\ UNCHANGED <<script, out, phase, buffered, base, lost, req_len, req_need, rsp, rsp_len,
                     rsp_sent>>
      /\ run' = s /\ pc' = "confirm"
  BY <1>0 DEF SendRequest, TransactUnchanged, clientVars, frameVars, replyVars
<1>2. /\ Current(s)' = Current(s) /\ Asked(s)' = Asked(s) /\ CurrentFrame(s)' = CurrentFrame(s)
      /\ \A k : End(s, k)' = End(s, k)
      /\ FrameBytes(CurrentFrame(s))' = FrameBytes(CurrentFrame(s))
  BY <1>1 DEF Current, Asked, CurrentFrame, End, Replied, FrameBytes
<1>3. Current(s) <= Asked(s) /\ lost[s] = 0 /\ Current(s) # Asked(s) + 1
  <2>1. Current(s) <= Asked(s) /\ lost[s] = 0
    BY <1>0 DEF Taken, In
  <2> QED
    BY <2>1, CurrentNumbers DEF LockstepInv, SessionInv
<1>4. ~(rsp_len[s] > 0)
  BY <1>0 DEF Replying, In
<1>5. Placed(s)'
  BY <1>0, <1>1, <1>2, <1>3 DEF Placed
<1>6. Reading(s)'
  BY <1>0, <1>1, <1>2 DEF Reading, In
<1>7. Taken(s)'
  BY <1>0, <1>1, <1>2 DEF Taken, In
<1>8. Replying(s)'
  BY <1>1, <1>4 DEF Replying
<1> QED
  BY <1>5, <1>6, <1>7, <1>8 DEF Bridged

\* An answer put in rsp is the answer to the current request.
LEMMA ConfirmedAnswer ==
  ASSUME IndInv, LockstepInv, NEW s \in Sessions, ReplyStep(s), rsp'[s].res = 0
  PROVE  /\ rsp'[s].ans \in DOMAIN hist
         /\ hist[rsp'[s].ans].s = s /\ hist[rsp'[s].ans].k = Current(s)
<1>1. Confirmed(s)
  <2>1. ASSUME Exception(s, GATEWAY_PATH) \/ Exception(s, GATEWAY_TARGET)
        PROVE  rsp'[s].res # 0
    BY <2>1 DEF Exception, Reply, IndInv, TypeOK, GATEWAY_PATH, GATEWAY_TARGET
  <2> QED
    BY <2>1 DEF ReplyStep, NoRtuBackend, OpenFails, SendFails, ShortReply, BadCrc, NoConfirmation
<1>2. rsp'[s].ans = Head(inq) /\ run = s /\ pc = "confirm" /\ inq # <<>>
  BY <1>1 DEF Confirmed, Running, Reply, IndInv, TypeOK
<1>3. /\ hist # <<>> /\ Head(inq) = Len(hist)
      /\ hist[Len(hist)].s = s /\ hist[Len(hist)].k = Current(s)
  BY <1>2 DEF LockstepInv, Awaited
<1>4. Len(hist) \in DOMAIN hist
  <2>1. hist \in Seq(HistTypes)
    BY DEF IndInv, TypeOK, HistTypes
  <2> QED
    BY <1>3, <2>1
<1> QED
  BY <1>2, <1>3, <1>4

LEMMA BridgedReply ==
  ASSUME IndInv, LockstepInv, [Next]_vars, NEW s \in Sessions, ReplyStep(s)
  PROVE  Bridged(s)'
<1>0. /\ run = s /\ pc \in {"transact", "confirm"} /\ phase[s] = "bridge"
      /\ rsp_len[s] = 0 /\ rsp_sent[s] = 0
      /\ rsp_len'[s] \in Nat /\ rsp_len'[s] > 0 /\ rsp_sent'[s] = 0
      /\ rsp'[s].k = Req(s, 2)
      /\ run' = run /\ pc' = "send"
      /\ TransactUnchanged
  BY ReplyStepStarts DEF LockstepInv, SessionInv
<1>1. UNCHANGED <<script, out, phase, buffered, base, lost, req_len, req_need>>
  BY <1>0 DEF TransactUnchanged, clientVars, frameVars
<1>2. /\ Current(s)' = Current(s) /\ Asked(s)' = Asked(s) /\ CurrentFrame(s)' = CurrentFrame(s)
      /\ \A k : End(s, k)' = End(s, k)
      /\ FrameBytes(CurrentFrame(s))' = FrameBytes(CurrentFrame(s))
  BY <1>0, <1>1 DEF Current, Asked, CurrentFrame, End, Replied, FrameBytes
<1>3. Placed(s) /\ Reading(s) /\ Taken(s)
  BY <1>0 DEF LockstepInv, SessionInv, Bridged
<1>4. /\ Current(s) <= Asked(s) /\ lost[s] = 0 /\ Current(s) # Asked(s) + 1
      /\ MBAP_LEN <= CurrentFrame(s).len
      /\ req_len[s] = CurrentFrame(s).len /\ req_need[s] = CurrentFrame(s).len
      /\ Current(s) = Asked(s)
  <2>1. /\ Current(s) <= Asked(s) /\ lost[s] = 0 /\ MBAP_LEN <= CurrentFrame(s).len
        /\ req_len[s] = CurrentFrame(s).len /\ req_need[s] = CurrentFrame(s).len
    BY <1>0, <1>3 DEF Taken, In
  <2> QED
    BY <1>0, <1>3, <2>1, CurrentNumbers DEF LockstepInv, SessionInv, Reading
<1>5. Placed(s)'
  BY <1>1, <1>2, <1>3, <1>4 DEF Placed
<1>6. Reading(s)'
  BY <1>0 DEF Reading
<1>7. Taken(s)'
  BY <1>1, <1>2, <1>4 DEF Taken
<1>8. rsp'[s].k = Current(s)
  BY <1>0, <1>4, NeedIsLength
<1>9. rsp'[s].res = 0 => /\ rsp'[s].ans \in DOMAIN hist'
                         /\ hist'[rsp'[s].ans].s = s /\ hist'[rsp'[s].ans].k = Current(s)
  BY ConfirmedAnswer, HistGrows
<1>10. Replying(s)'
  BY <1>0, <1>2, <1>4, <1>8, <1>9 DEF Replying, In
<1> QED
  BY <1>5, <1>6, <1>7, <1>10 DEF Bridged

\* What send accepts is part of the reply to the current request.
LEMMA BridgedSendOk ==
  ASSUME IndInv, LockstepInv, [Next]_vars, NEW s \in Sessions, SendOk(s)
  PROVE  Bridged(s)'
<1>0. /\ TypeOK /\ OutTypes /\ Sending(s)
      /\ run = s /\ pc = "send" /\ phase[s] = "bridge"
      /\ Placed(s) /\ Reading(s) /\ Taken(s) /\ Replying(s)
  <2>1. run = s /\ pc = "send"
    BY DEF SendOk, Running
  <2> QED
    BY <2>1, RunsBridged DEF LockstepInv, IndInv, SessionInv, Bridged
<1>1. /\ UNCHANGED <<script, phase, buffered, base, lost, req_len, req_need, rsp, rsp_len,
                     run, pc, hist>>
  BY DEF SendOk, clientVars, frameVars, lineVars, workerVars
<1>2. /\ rsp_sent[s] \in Nat /\ rsp_sent'[s] \in Nat /\ rsp_sent[s] < rsp_sent'[s]
      /\ rsp_sent'[s] <= rsp_len[s] /\ rsp_len[s] \in Nat
  BY <1>0, SendOkEffect, ReplyNumbers
<1>3. rsp_len[s] > 0 /\ rsp_sent'[s] > 0 /\ rsp_sent[s] < rsp_len[s] /\ rsp_sent[s] # rsp_len[s]
  BY <1>2
<1>4. Current(s)' = Current(s)
  <2>1. CASE rsp_sent[s] = 0
    <3>1. Len(out'[s]) = Replied(s) + 1
      BY <1>0, <2>1, FirstPart
    <3> QED
      BY <1>3, <2>1, <3>1 DEF Current, Replied
  <2>2. CASE rsp_sent[s] > 0
    <3>1. Len(out'[s]) = Replied(s)
      BY <1>0, <2>2, NextPart DEF Sending
    <3> QED
      BY <1>3, <2>2, <3>1 DEF Current, Replied
  <2> QED
    BY <1>2, <2>1, <2>2
<1>5. /\ Asked(s)' = Asked(s) /\ CurrentFrame(s)' = CurrentFrame(s)
      /\ \A k : End(s, k)' = End(s, k)
      /\ FrameBytes(CurrentFrame(s))' = FrameBytes(CurrentFrame(s))
      /\ FrameBytes(script[s][1])' = FrameBytes(script[s][1])
  BY <1>1, <1>4 DEF Asked, CurrentFrame, End, FrameBytes
<1>6. Placed(s)'
  BY <1>0, <1>1, <1>4, <1>5 DEF Placed, In
<1>7. Reading(s)'
  BY <1>1, <1>2, <1>3 DEF Reading
<1>8. Taken(s)'
  BY <1>0, <1>1, <1>3, <1>4, <1>5 DEF Taken, In
<1>9. Replying(s)'
  BY <1>0, <1>1, <1>3, <1>4, <1>5 DEF Replying, In
<1> QED
  BY <1>6, <1>7, <1>8, <1>9 DEF Bridged

\* A blocked reply waits in the session.
LEMMA BridgedSendAgain ==
  ASSUME IndInv, LockstepInv, [Next]_vars, NEW s \in Sessions, SendAgain(s)
  PROVE  Bridged(s)'
<1>0. /\ run = s /\ pc = "send" /\ phase[s] = "bridge" /\ rsp_sent[s] < rsp_len[s]
      /\ Placed(s) /\ Reading(s) /\ Taken(s) /\ Replying(s)
  <2>1. run = s /\ pc = "send" /\ rsp_sent[s] < rsp_len[s]
    BY DEF SendAgain, Running
  <2> QED
    BY <2>1, RunsBridged DEF LockstepInv, SessionInv, Bridged
<1>1. /\ UNCHANGED <<script, out, phase, buffered, base, lost, req_len, req_need, rsp, rsp_len,
                     rsp_sent, hist>>
      /\ ~(run' = s /\ pc' \in {"read", "transact", "confirm"})
  BY <1>0, ConstantTypes DEF SendAgain, Return, clientVars, frameVars, replyVars, lineVars
<1>2. /\ Current(s)' = Current(s) /\ Asked(s)' = Asked(s) /\ CurrentFrame(s)' = CurrentFrame(s)
      /\ \A k : End(s, k)' = End(s, k)
      /\ FrameBytes(CurrentFrame(s))' = FrameBytes(CurrentFrame(s))
  BY <1>1 DEF Current, Asked, CurrentFrame, End, Replied, FrameBytes
<1>3. rsp_len[s] > 0 /\ rsp_sent[s] # rsp_len[s] /\ rsp_len[s] # 0
  BY <1>0, SessionTypes DEF IndInv
<1>4. Current(s) <= Asked(s) /\ lost[s] = 0
  BY <1>0, <1>3 DEF Taken
<1>5. ~(lost[s] > 0)
  BY <1>4
<1>6. Placed(s)'
  BY <1>0, <1>1, <1>2, <1>5 DEF Placed, In
<1>7. Reading(s)'
  BY <1>1, <1>3 DEF Reading
<1>8. Taken(s)'
  BY <1>0, <1>1, <1>2, <1>3 DEF Taken
<1>9. Replying(s)'
  BY <1>0, <1>1, <1>2, <1>3 DEF Replying, In
<1> QED
  BY <1>6, <1>7, <1>8, <1>9 DEF Bridged

\* What SendDone does: the accumulator moves on by the request served, if any,
\* and is empty.
LEMMA SendDoneEffect ==
  ASSUME IndInv, LockstepInv, NEW s \in Sessions, SendDone(s)
  PROVE  /\ phase[s] = "bridge" /\ lost[s] = 0
         /\ rsp_sent[s] = rsp_len[s]
         /\ Leftover(s) = 0 /\ base'[s] = base[s] + req_len[s]
         /\ rsp_len[s] = 0 => req_len[s] = 0 /\ req_need[s] = 0
         /\ rsp_len[s] > 0 => /\ req_len[s] = CurrentFrame(s).len /\ req_need[s] = req_len[s]
                              /\ MBAP_LEN <= CurrentFrame(s).len /\ Current(s) <= Asked(s)
<1>0. /\ TypeOK /\ OutTypes /\ Sending(s)
      /\ run = s /\ pc = "send" /\ phase[s] = "bridge" /\ rsp_sent[s] >= rsp_len[s]
      /\ rsp_sent[s] <= rsp_len[s]
      /\ Placed(s) /\ Reading(s) /\ Taken(s)
  <2>1. run = s /\ pc = "send" /\ rsp_sent[s] >= rsp_len[s]
    BY DEF SendDone, Running
  <2> QED
    BY <2>1, RunsBridged DEF LockstepInv, IndInv, SessionInv, Bridged, AccumulatorInv
<1>1. /\ rsp_sent[s] \in Nat /\ rsp_len[s] \in Nat /\ lost[s] \in Nat /\ req_len[s] \in Nat
      /\ req_need[s] \in Nat /\ base[s] \in Nat
  BY <1>0, SessionTypes
<1>2. rsp_sent[s] = rsp_len[s] /\ lost[s] = 0
  BY <1>0, <1>1 DEF Placed, In
<1>3. ASSUME rsp_len[s] = 0
      PROVE  req_len[s] = 0 /\ req_need[s] = 0
  <2>1. Current(s) <= Asked(s) \/ Current(s) = Asked(s) + 1
    BY <1>0, CurrentNumbers DEF Placed
  <2>2. CASE Current(s) <= Asked(s)
    BY <1>0, <1>3, <2>2 DEF Reading, In
  <2>3. CASE Current(s) = Asked(s) + 1
    BY <1>0, <2>3 DEF Placed
  <2> QED
    BY <2>1, <2>2, <2>3
<1>4. ASSUME rsp_len[s] > 0
      PROVE  /\ req_len[s] = CurrentFrame(s).len /\ req_need[s] = req_len[s]
             /\ MBAP_LEN <= CurrentFrame(s).len /\ Current(s) <= Asked(s)
  BY <1>0, <1>4 DEF Taken
<1>5. req_need[s] = req_len[s]
  BY <1>1, <1>3, <1>4
<1>6. Leftover(s) = 0
  BY <1>1, <1>5 DEF Leftover
<1>7. base'[s] = base[s] + req_len[s]
  BY <1>0, <1>1, <1>6 DEF SendDone, TypeOK
<1> QED
  BY <1>0, <1>2, <1>3, <1>4, <1>6, <1>7

\* The session turns to the next request.
LEMMA BridgedSendDone ==
  ASSUME IndInv, LockstepInv, [Next]_vars, NEW s \in Sessions, SendDone(s)
  PROVE  Bridged(s)'
<1>0. /\ TypeOK /\ OutTypes /\ Sending(s) /\ Contiguous(s)
      /\ phase[s] = "bridge" /\ lost[s] = 0 /\ rsp_sent[s] = rsp_len[s]
      /\ Leftover(s) = 0 /\ base'[s] = base[s] + req_len[s]
      /\ Placed(s) /\ Reading(s)
  BY SendDoneEffect DEF LockstepInv, IndInv, SessionInv, Bridged
<1>1. /\ UNCHANGED <<script, out, phase, buffered, lost>>
      /\ req_len'[s] = 0 /\ req_need'[s] = 0 /\ rsp_len'[s] = 0 /\ rsp_sent'[s] = 0
      /\ ~(run' = s /\ pc' \in {"read", "transact", "confirm"})
  BY <1>0, ConstantTypes DEF SendDone, Return, Running, clientVars, TypeOK
<1>2. /\ Asked(s)' = Asked(s) /\ Replied(s)' = Replied(s)
      /\ \A k : End(s, k)' = End(s, k)
      /\ Current(s)' = Replied(s) + 1
  BY <1>1 DEF Current, Asked, End, Replied, FrameBytes
<1>3. /\ Replied(s) \in Nat /\ Asked(s) \in Nat /\ seen[s] \in Nat /\ Answered(s) \in Nat
      /\ Answered(s) <= Replied(s) /\ rsp_sent[s] \in Nat /\ rsp_len[s] \in Nat
  BY <1>0, ReplyNumbers
<1>4. Asked(s) <= Replied(s) + 1 /\ Replied(s) <= Asked(s)
  BY <1>0, <1>3 DEF Sending
<1>5. base'[s] = End(s, Replied(s))
  <2>1. CASE rsp_len[s] = 0
    <3>1. req_len[s] = 0 /\ Current(s) = Replied(s) + 1 /\ base[s] = End(s, Current(s) - 1)
      BY <1>0, <2>1, SendDoneEffect DEF Current, Placed
    <3> QED
      BY <1>0, <1>3, <3>1, SessionTypes
  <2>2. CASE rsp_len[s] > 0
    <3>1. /\ Current(s) = Replied(s) /\ base[s] = End(s, Current(s) - 1)
          /\ req_len[s] = CurrentFrame(s).len
          /\ MBAP_LEN <= CurrentFrame(s).len /\ Current(s) <= Asked(s)
      BY <1>0, <2>2, SendDoneEffect DEF Current, Placed
    <3> PICK c \in DOMAIN script[s] : c = Current(s)
      BY <1>0, <3>1, CurrentNumbers DEF IndInv
    <3>2. script[s][c].at = base[s]
      BY <1>0, <3>1 DEF Contiguous
    <3>3. /\ End(s, c) = script[s][c].at + FrameBytes(script[s][c])
          /\ FrameBytes(script[s][c]) = script[s][c].len
      BY <1>0, <3>1, FrameNumbers DEF CurrentFrame, MBAP_LEN, FrameBytes
    <3> QED
      BY <1>0, <3>1, <3>2, <3>3 DEF CurrentFrame
  <2> QED
    BY <1>3, <2>1, <2>2
<1>6. Placed(s)'
  <2>1. Current(s)' - 1 = Replied(s)
    BY <1>2, <1>3
  <2>2. base'[s] = End(s, Current(s) - 1)'
    BY <1>2, <1>5, <2>1
  <2>3. buffered'[s] = 0 /\ ~(lost'[s] > 0) /\ Current(s)' <= Asked(s)' + 1
    BY <1>0, <1>1, <1>2, <1>3, <1>4 DEF Placed
  <2> QED
    BY <1>1, <2>2, <2>3 DEF Placed, In
<1>7. Reading(s)'
  <2>1. ASSUME Current(s)' <= Asked(s)'
        PROVE  /\ Current(s)' = Asked(s)'
               /\ FrameBytes(CurrentFrame(s))' \in Nat /\ FrameBytes(CurrentFrame(s))' > 0
    <3>1. Replied(s) + 1 = Asked(s)
      BY <1>2, <1>3, <1>4, <2>1
    <3> PICK c \in DOMAIN script[s] : c = Replied(s) + 1
      <4>1. DOMAIN script[s] = 1..Asked(s)
        BY <1>0, SessionTypes DEF Asked
      <4> QED
        BY <1>3, <3>1, <4>1
    <3>2. FrameBytes(script[s][c]) \in Nat /\ FrameBytes(script[s][c]) >= 7
      BY <1>0, FrameNumbers
    <3>3. FrameBytes(CurrentFrame(s))' = FrameBytes(script[s][c])
      BY <1>1, <1>2 DEF CurrentFrame, FrameBytes
    <3> QED
      BY <1>2, <3>1, <3>2, <3>3
  <2> QED
    BY <1>1, <2>1 DEF Reading
<1>8. Taken(s)' /\ Replying(s)'
  BY <1>1 DEF Taken, Replying, In
<1> QED
  BY <1>6, <1>7, <1>8 DEF Bridged

LEMMA BridgedStep ==
  ASSUME Lockstep, IndInv, LockstepInv, [Next]_vars, NEW s \in Sessions
  PROVE  Bridged(s)'
<1>0. TypeOK /\ OutTypes
  BY DEF IndInv, LockstepInv
<1>1. CASE Elsewhere(s)
  BY <1>1, BridgedKept DEF Elsewhere, Mine
<1>2. CASE ClientWriteRest(s) \/ ClientRead(s) \/ ClientClose(s)
  <2>1. script'[s] = script[s]
    BY <1>2 DEF ClientWriteRest, ClientRead, ClientClose
  <2>2. UNCHANGED <<out, phase, buffered, frameVars, replyVars, run, pc>>
    BY <1>2 DEF ClientWriteRest, ClientRead, ClientClose, workerVars
  <2> QED
    BY <2>1, <2>2, BridgedKept DEF frameVars, replyVars
<1>3. CASE Timers(s) \/ ReadBadLength(s) \/ SendError(s)
  <2>1. Finalize(s)
    BY <1>3 DEF Timers, PrereadTimeout, SessionTimeout, ReadBadLength, SendError
  <2> QED
    BY <1>0, <2>1, BridgedFinalize
<1> QED
  BY <1>0, <1>1, <1>2, <1>3, StepOf, BridgedRequest, BridgedPreread, BridgedDispatch,
     BridgedReadFrame, BridgedRecv, BridgedSendRequest, BridgedReply, BridgedSendOk,
     BridgedSendAgain, BridgedSendDone
     DEF Client, EventLoop, Handler, ReplyStep
-----------------------------------------------------------------------------
(* The answers, the line, and the invariant.                                *)

\* The replies a client was sent keep their answers, and a new one has its own.
LEMMA OwnStep ==
  ASSUME IndInv, LockstepInv, [Next]_vars, NEW s \in Sessions
  PROVE  Own(s)'
<1>0. /\ TypeOK /\ OutTypes /\ Sending(s) /\ Own(s) /\ Bridged(s)
  BY DEF IndInv, LockstepInv, SessionInv
<1>1. CASE out'[s] = out[s]
  BY <1>0, <1>1, HistGrows DEF Own
<1>2. CASE SendOk(s) /\ rsp_sent[s] = 0
  <2>1. /\ DOMAIN out'[s] = DOMAIN out[s] \cup {Replied(s) + 1}
        /\ \A i \in DOMAIN out[s] : out'[s][i] = out[s][i]
        /\ out'[s][Replied(s) + 1].res = rsp[s].res
        /\ out'[s][Replied(s) + 1].ans = rsp[s].ans
    BY <1>0, <1>2, FirstPart
  <2>2. rsp[s].res = 0 =>
          /\ rsp[s].ans \in DOMAIN hist
          /\ hist[rsp[s].ans].s = s /\ hist[rsp[s].ans].k = Replied(s) + 1
    <3>1. phase[s] = "bridge"
      BY <1>2, RunsBridged DEF SendOk, Running
    <3>2. rsp_len[s] > 0 /\ Current(s) = Replied(s) + 1
      BY <1>2 DEF SendOk, Current
    <3> QED
      BY <1>0, <3>1, <3>2 DEF Bridged, Replying
  <2> QED
    BY <1>0, <2>1, <2>2, HistGrows DEF Own
<1>3. CASE SendOk(s) /\ rsp_sent[s] # 0
  <2>1. rsp_sent[s] > 0
    BY <1>0, <1>3, SessionTypes
  <2>2. /\ DOMAIN out'[s] = DOMAIN out[s]
        /\ \A i \in DOMAIN out[s] :
             out'[s][i].res = out[s][i].res /\ out'[s][i].ans = out[s][i].ans
    BY <1>0, <1>3, <2>1, NextPart DEF Sending
  <2> QED
    BY <1>0, <2>2, HistGrows DEF Own
<1>4. CASE ~SendOk(s)
  <2>1. CASE Client(s) \/ ReplyStep(s) \/ SendDone(s)
    <3>1. UNCHANGED out
      BY <2>1 DEF Client, ClientRequest, ClientWriteRest, ClientRead, ClientClose, ReplyStep,
        NoRtuBackend, OpenFails, SendFails, Confirmed, ShortReply, BadCrc, NoConfirmation,
        TransactUnchanged, SendDone
    <3> QED
      BY <1>1, <3>1
  <2> QED
    BY <1>0, <1>1, <1>4, <2>1, QuietSteps DEF Quiet
<1> QED
  BY <1>2, <1>3, <1>4

\* What is sent on the line is known by the number of the current request.
LEMMA HeldIsCurrent ==
  ASSUME IndInv, LockstepInv, NEW s \in Sessions, SendRequest(s)
  PROVE  /\ run = s /\ pc = "transact" /\ phase[s] = "bridge"
         /\ rsp_len[s] = 0 /\ rsp_sent[s] = 0
         /\ Held(s) = Current(s) /\ Current(s) = Replied(s) + 1
<1>0. /\ TypeOK /\ OutTypes /\ Sending(s) /\ Contiguous(s) /\ rsp_sent[s] <= rsp_len[s]
      /\ run = s /\ pc = "transact" /\ phase[s] = "bridge"
      /\ Placed(s) /\ Taken(s) /\ Replying(s)
  <2>1. run = s /\ pc = "transact"
    BY DEF SendRequest, Running
  <2> QED
    BY <2>1, RunsBridged DEF LockstepInv, IndInv, SessionInv, Bridged, AccumulatorInv
<1>1. rsp_len[s] = 0 /\ rsp_sent[s] = 0 /\ Current(s) = Replied(s) + 1
  <2>1. ~(rsp_len[s] > 0)
    BY <1>0 DEF Replying, In
  <2>2. rsp_len[s] \in Nat /\ rsp_sent[s] \in Nat
    BY <1>0, SessionTypes
  <2>3. rsp_len[s] = 0 /\ rsp_sent[s] = 0
    BY <1>0, <2>1, <2>2
  <2> QED
    BY <2>3 DEF Current
<1>2. /\ Current(s) <= Asked(s) /\ lost[s] = 0
      /\ req_need[s] = CurrentFrame(s).len
  BY <1>0 DEF Taken, In
<1> PICK c \in DOMAIN script[s] : c = Current(s)
  BY <1>0, <1>2, CurrentNumbers
<1>3. /\ base[s] \in Nat /\ script[s][c].at = base[s] /\ req_need[s] = script[s][c].len
      /\ script[s][c].len \in Nat
  <2>1. script[s][c].len \in 6..LENGTH_MAX /\ base[s] \in Nat
    BY <1>0, FrameNumbers, SessionTypes
  <2> QED
    BY <1>0, <1>2, <2>1 DEF Contiguous, Placed, CurrentFrame
<1>4. \A i \in Nat : Position(s, i) = base[s] + i
  BY <1>2, <1>3 DEF Position
<1>5. Position(s, 1) - 1 = base[s] /\ Position(s, req_need[s]) = base[s] + script[s][c].len
  BY <1>3, <1>4
<1> DEFINE ks == {k \in DOMAIN script[s] :
                    /\ script[s][k].at = Position(s, 1) - 1
                    /\ Position(s, req_need[s]) = Position(s, 1) - 1 + script[s][k].len
                    /\ req_need[s] = script[s][k].len}
<1>6. c \in ks
  BY <1>3, <1>5
<1>7. ASSUME NEW j \in ks
      PROVE  j = c
  <2>1. j \in DOMAIN script[s] /\ script[s][j].at = script[s][c].at
    BY <1>3, <1>5, <1>7
  <2>2. /\ j \in Nat /\ c \in Nat /\ script[s][c].at \in Nat
        /\ End(s, j) > script[s][j].at /\ End(s, c) > script[s][c].at
        /\ End(s, j) \in Nat /\ End(s, c) \in Nat
    BY <1>0, <2>1, FrameNumbers
  <2>3. ~(j < c)
    BY <1>0, <2>1, <2>2 DEF Contiguous
  <2>4. ~(c < j)
    BY <1>0, <2>1, <2>2 DEF Contiguous
  <2> QED
    BY <2>2, <2>3, <2>4
<1>8. Held(s) = IF ks = {} THEN 0 ELSE CHOOSE k \in ks : TRUE
  BY DEF Held
<1> HIDE DEF ks
<1>9. Held(s) = c
  BY <1>6, <1>7, <1>8
<1> QED
  BY <1>0, <1>1, <1>9

\* A transaction has, from its request to its reply, a place among the replies.
LEMMA PerformedStep ==
  ASSUME IndInv, LockstepInv, [Next]_vars, NEW s \in Sessions
  PROVE  Performed(s)'
<1>0. /\ TypeOK /\ OutTypes /\ Sending(s) /\ Starting(s) /\ Performed(s) /\ Bridged(s)
      /\ Replied(s) \in Nat
  BY ReplyNumbers DEF IndInv, LockstepInv, SessionInv
<1>1. CASE SendOk(s)
  <2>1. hist' = hist /\ phase[s] = "bridge" /\ pc = "send"
    BY <1>1, RunsBridged DEF SendOk, Running, lineVars
  <2>2. CASE rsp_sent[s] = 0
    <3>1. Replied(s)' = Replied(s) + 1
      BY <1>0, <1>1, <2>2, FirstPart DEF Replied
    <3>2. \A i \in DOMAIN hist : hist[i].s = s => hist[i].k \in 1..(Replied(s) + 1)
      BY <1>0 DEF Performed
    <3> QED
      BY <2>1, <3>1, <3>2 DEF Performed
  <2>3. CASE rsp_sent[s] # 0
    <3>1. Replied(s)' = Replied(s)
      BY <1>0, <1>1, <2>3, SessionTypes, NextPart DEF Replied, Sending
    <3>2. \A i \in DOMAIN hist : hist[i].s = s => hist[i].k \in 1..Replied(s)
      BY <1>0, <2>1, <2>3 DEF Performed, In
    <3> QED
      BY <2>1, <3>1, <3>2 DEF Performed
  <2> QED
    BY <2>2, <2>3
<1>2. CASE ReplyStep(s)
  <2>1. rsp_len'[s] > 0 /\ rsp_sent'[s] = 0 /\ out' = out
    BY <1>0, <1>2, ReplyStepStarts DEF TransactUnchanged
  <2>2. hist' = hist
    BY <1>2 DEF ReplyStep, NoRtuBackend, OpenFails, SendFails, Confirmed, ShortReply, BadCrc,
      NoConfirmation, lineVars
  <2> QED
    BY <1>0, <2>1, <2>2 DEF Performed, Replied
<1>3. CASE SendRequest(s)
  <2>1. run' = s /\ pc' = "confirm" /\ out' = out
    BY <1>3 DEF SendRequest, Running, TransactUnchanged
  <2>2. /\ DOMAIN hist' = DOMAIN hist \cup {Len(hist) + 1}
        /\ \A i \in DOMAIN hist : hist'[i] = hist[i]
        /\ hist'[Len(hist) + 1].k = Replied(s) + 1
    <3>1. PICK a \in Sessions : /\ SendRequest(a)
                                /\ DOMAIN hist' = DOMAIN hist \cup {Len(hist) + 1}
                                /\ hist'[Len(hist) + 1].k = Held(a)
      <4>1. hist' # hist
        <5>1. hist \in Seq(HistTypes)
          BY <1>0 DEF TypeOK, HistTypes
        <5>2. PICK h : hist' = Append(hist, h)
          BY <1>3 DEF SendRequest
        <5> QED
          BY <5>1, <5>2
      <4> QED
        BY <4>1, HistGrows
    <3>2. a = s
      BY <1>3, <3>1 DEF SendRequest, Running
    <3> QED
      BY <1>3, <3>1, <3>2, HistGrows, HeldIsCurrent
  <2> QED
    BY <1>0, <2>1, <2>2 DEF Performed, Replied, In
<1>4. CASE SendDone(s)
  <2>1. out' = out /\ hist' = hist /\ phase[s] = "bridge" /\ pc = "send" /\ rsp_sent[s] >= rsp_len[s]
    BY <1>4, RunsBridged DEF SendDone, Running, lineVars
  <2>2. \A i \in DOMAIN hist : hist[i].s = s => hist[i].k \in 1..Replied(s)
    <3>1. ~(rsp_len[s] > 0 /\ rsp_sent[s] = 0)
      BY <1>0, <2>1, SessionTypes
    <3> QED
      BY <1>0, <2>1, <3>1 DEF Performed, In
  <2> QED
    BY <2>1, <2>2 DEF Performed, Replied
<1>5. ASSUME Quiet(s) \/ Client(s), ~SendRequest(s),
             phase[s] = "closed" => phase'[s] = "closed",
             In(s, {"confirm"}) => In(s, {"confirm"})'
      PROVE  Performed(s)'
  <2>1. out'[s] = out[s] /\ rsp_len'[s] = rsp_len[s] /\ rsp_sent'[s] = rsp_sent[s]
    BY <1>5 DEF Quiet, Client, ClientRequest, ClientWriteRest, ClientRead, ClientClose, replyVars
  <2>2. \A i \in DOMAIN hist' :
          hist'[i].s = s => i \in DOMAIN hist /\ hist'[i] = hist[i]
    BY <1>5, HistGrows
  <2> QED
    BY <1>0, <1>5, <2>1, <2>2 DEF Performed, Replied
<1>6. CASE Elsewhere(s) \/ Client(s)
  <2>1. (phase[s] = "closed" => phase'[s] = "closed") /\ (In(s, {"confirm"}) => In(s, {"confirm"})')
    BY <1>6 DEF Elsewhere, Mine, Client, ClientRequest, ClientWriteRest, ClientRead, ClientClose,
      workerVars, In
  <2>2. Quiet(s) \/ Client(s)
    BY <1>6 DEF Elsewhere, Mine, Quiet
  <2> QED
    BY <1>3, <1>5, <2>1, <2>2
<1>7. CASE Finalize(s) /\ (EventLoop(s) \/ Timers(s) \/ ReadBadLength(s) \/ ReadFrame(s)
                           \/ ReadRecv(s) \/ SendError(s))
  <2>1. phase'[s] = "closed"
    BY <1>0, <1>7 DEF Finalize, TypeOK
  <2>2. out' = out /\ hist' = hist
    BY <1>7 DEF EventLoop, Preread, Dispatch, Timers, PrereadTimeout, SessionTimeout,
      ReadBadLength, ReadFrame, ReadRecv, SendError, lineVars
  <2> QED
    BY <1>0, <2>1, <2>2 DEF Performed, Replied
<1>8. CASE Preread(s)
  <2>1. out' = out /\ hist' = hist /\ phase[s] = "preread"
    BY <1>8 DEF Preread, lineVars
  <2> QED
    BY <1>0, <2>1 DEF Performed, Starting
<1>9. CASE ~Finalize(s) /\ (Dispatch(s) \/ ReadFrame(s) \/ ReadRecv(s) \/ SendAgain(s))
  <2>1. /\ UNCHANGED <<out, hist, replyVars>>
        /\ phase[s] = "bridge" /\ pc # "confirm"
    <3>1. UNCHANGED <<out, hist, replyVars>>
      BY <1>9 DEF Dispatch, ReadFrame, ReadRecv, SendAgain, lineVars
    <3>2. (run = s /\ pc \in {"read", "send"}) \/ (phase[s] = "bridge" /\ run = NULL)
      BY <1>9 DEF Dispatch, ReadFrame, ReadRecv, SendAgain, Running, Idle
    <3> QED
      BY <3>1, <3>2, RunsBridged DEF IndInv, WorkerInv
  <2> QED
    BY <1>0, <2>1 DEF Performed, Replied, In, replyVars
<1>10. ASSUME Timers(s) \/ ReadBadLength(s) \/ SendError(s)
       PROVE  Finalize(s)
  BY <1>10 DEF Timers, PrereadTimeout, SessionTimeout, ReadBadLength, SendError
<1>11. ASSUME SendAgain(s) \/ Dispatch(s)
       PROVE  ~Finalize(s) \/ phase'[s] = phase[s]
  BY <1>11 DEF SendAgain, Dispatch
<1>12. CASE SendAgain(s) \/ Dispatch(s)
  <2>1. ~Finalize(s)
    <3>1. phase[s] = "bridge"
      BY <1>12, RunsBridged DEF SendAgain, Running, Dispatch
    <3> QED
      BY <1>0, <1>11, <1>12, <3>1 DEF Finalize, TypeOK
  <2> QED
    BY <1>9, <1>12, <2>1
<1> QED
  BY <1>0, <1>1, <1>2, <1>3, <1>4, <1>6, <1>7, <1>8, <1>9, <1>10, <1>12, StepOf
     DEF Handler, ReplyStep, EventLoop

\* The write handler is next only in a session whose write event is active.
LEMMA WakesStep ==
  ASSUME IndInv, LockstepInv, [Next]_vars
  PROVE  wnext' => run' # NULL /\ wactive'[run']
<1>0. /\ TypeOK /\ WorkerInv /\ (wnext => run # NULL /\ wactive[run])
      /\ wactive \in [Sessions -> BOOLEAN] /\ run \in Sessions \cup {NULL}
  BY DEF IndInv, LockstepInv, Awaited, TypeOK
<1> SUFFICES ASSUME wnext'
             PROVE  run' # NULL /\ wactive'[run']
  OBVIOUS
<1>1. ASSUME run' = run, wnext' = wnext, run # NULL => wactive'[run] = wactive[run] \/ wactive'[run]
      PROVE  run' # NULL /\ wactive'[run']
  BY <1>0, <1>1
<1>2. ASSUME NEW s \in Sessions, Client(s)
      PROVE  run' # NULL /\ wactive'[run']
  BY <1>1, <1>2 DEF Client, ClientRequest, ClientWriteRest, ClientRead, ClientClose, workerVars,
    kernelVars
<1>3. ASSUME NEW s \in Sessions, Finalize(s) \/ Return
      PROVE  FALSE
  BY <1>0, <1>3 DEF Finalize, Return
<1>4. ASSUME NEW s \in Sessions, Preread(s)
      PROVE  FALSE
  <2>1. wnext' = wnext \/ Finalize(s)
    BY <1>4 DEF Preread, Takeover, workerVars
  <2> QED
    BY <1>0, <1>3, <1>4, <2>1 DEF Preread, Idle
<1>5. ASSUME NEW s \in Sessions, Dispatch(s)
      PROVE  run' # NULL /\ wactive'[run']
  <2>1. wactive' = wactive /\ run = NULL /\ ~wnext
    BY <1>0, <1>5 DEF Dispatch, Idle
  <2>2. run' = s /\ wactive[s]
    BY <1>5, <2>1 DEF Dispatch, workerVars
  <2> QED
    BY <2>1, <2>2, ConstantTypes
<1>6. ASSUME NEW s \in Sessions, Timers(s) \/ ReadBadLength(s) \/ SendError(s)
      PROVE  FALSE
  BY <1>3, <1>6 DEF Timers, PrereadTimeout, SessionTimeout, ReadBadLength, SendError
<1>7. ASSUME NEW s \in Sessions, ReadFrame(s) \/ ReadRecv(s) \/ SendDone(s)
      PROVE  run' # NULL /\ wactive'[run']
  <2>1. wactive' = wactive
    BY <1>7 DEF ReadFrame, ReadRecv, SendDone, kernelVars
  <2>2. run' = run /\ wnext' = wnext
    BY <1>3, <1>7 DEF ReadFrame, ReadRecv, SendDone, workerVars
  <2> QED
    BY <1>1, <2>1, <2>2
<1>8. ASSUME NEW s \in Sessions, ReplyStep(s) \/ SendRequest(s)
      PROVE  run' # NULL /\ wactive'[run']
  <2>1. wactive' = wactive /\ run' = run /\ wnext' = wnext
    BY <1>8 DEF ReplyStep, NoRtuBackend, OpenFails, SendFails, Confirmed, ShortReply, BadCrc,
      NoConfirmation, SendRequest, TransactUnchanged, kernelVars, Exception, Reply
  <2> QED
    BY <1>1, <2>1
<1>9. ASSUME NEW s \in Sessions, SendOk(s)
      PROVE  run' # NULL /\ wactive'[run']
  BY <1>1, <1>9 DEF SendOk, workerVars
<1>10. ASSUME NEW s \in Sessions, SendAgain(s)
       PROVE  FALSE
  BY <1>3, <1>10 DEF SendAgain
<1>11. ASSUME NEW x \in owed, SlaveAnswers(x)
       PROVE  run' # NULL /\ wactive'[run']
  BY <1>1, <1>11 DEF SlaveAnswers, workerVars, kernelVars
<1>12. CASE UNCHANGED vars
  BY <1>1, <1>12 DEF vars, workerVars, kernelVars
<1> QED
  BY <1>2, <1>4, <1>5, <1>6, <1>7, <1>8, <1>9, <1>10, <1>11, <1>12
     DEF Next, EventLoop, Handler, ReplyStep

\* An answer that is waited for is the next in the queue, whatever has been on
\* the line before.
LEMMA AwaitedStep ==
  ASSUME Lockstep, IndInv, LockstepInv, [Next]_vars
  PROVE  Awaited'
<1>0. /\ TypeOK /\ OutTypes /\ WorkerInv
      /\ pc # "confirm" => owed = {}
      /\ pc = "confirm" =>
           /\ hist # <<>> /\ owed \subseteq {Len(hist)}
           /\ hist[Len(hist)].s = run /\ hist[Len(hist)].k = Current(run)
           /\ inq # <<>> => Head(inq) = Len(hist) /\ owed = {}
      /\ inq \in Seq(DOMAIN hist)
  BY DEF IndInv, LockstepInv, Awaited, TypeOK
<1>1. ASSUME pc' # "confirm", owed' = owed, pc # "confirm"
      PROVE  Awaited'
  BY <1>0, <1>1, WakesStep DEF Awaited
<1>2. ASSUME pc' = pc, owed' = owed, UNCHANGED <<inq, hist, run>>,
             run # NULL => rsp_sent'[run] = rsp_sent[run] /\ out'[run] = out[run]
      PROVE  Awaited'
  <2>1. pc = "confirm" => Current(run)' = Current(run)
    BY <1>0, <1>2 DEF WorkerInv, Current, Replied
  <2> QED
    BY <1>0, <1>2, <2>1, WakesStep DEF Awaited
<1>3. ASSUME NEW s \in Sessions, Client(s)
      PROVE  Awaited'
  BY <1>2, <1>3 DEF Client, ClientRequest, ClientWriteRest, ClientRead, ClientClose, workerVars,
    lineVars, replyVars
<1>4. ASSUME NEW s \in Sessions, EventLoop(s) \/ Timers(s)
      PROVE  Awaited'
  <2>1. pc # "confirm" /\ pc' # "confirm"
    BY <1>0, <1>4 DEF WorkerInv, EventLoop, Timers, Preread, Dispatch, PrereadTimeout,
      SessionTimeout, Idle, Finalize, Takeover, workerVars
  <2>2. owed' = owed
    BY <1>4 DEF EventLoop, Timers, Preread, Dispatch, PrereadTimeout, SessionTimeout, lineVars
  <2> QED
    BY <1>1, <2>1, <2>2
<1>5. ASSUME NEW s \in Sessions,
             \/ ReadBadLength(s) \/ ReadFrame(s) \/ ReadRecv(s)
             \/ SendOk(s) \/ SendAgain(s) \/ SendError(s) \/ SendDone(s)
      PROVE  Awaited'
  <2>1. pc # "confirm" /\ pc' # "confirm"
    BY <1>5 DEF ReadBadLength, ReadFrame, ReadRecv, SendOk, SendAgain, SendError, SendDone,
      Running, Finalize, Return, workerVars
  <2>2. owed' = owed
    BY <1>5 DEF ReadBadLength, ReadFrame, ReadRecv, SendOk, SendAgain, SendError, SendDone,
      lineVars
  <2> QED
    BY <1>1, <2>1, <2>2
<1>6. ASSUME NEW s \in Sessions, ReplyStep(s)
      PROVE  Awaited'
  <2>1. pc' = "send"
    BY <1>6, ReplyStepStarts DEF LockstepInv, SessionInv
  <2>2. owed = {}
    <3>1. CASE pc = "confirm"
      BY <1>0, <1>6, <3>1 DEF ReplyStep, NoRtuBackend, OpenFails, SendFails, Confirmed,
        ShortReply, BadCrc, NoConfirmation, Running, Lockstep
    <3> QED
      BY <1>0, <3>1
  <2>3. owed' = owed
    BY <1>6 DEF ReplyStep, NoRtuBackend, OpenFails, SendFails, Confirmed, ShortReply, BadCrc,
      NoConfirmation, lineVars
  <2> QED
    BY <2>1, <2>2, <2>3, WakesStep DEF Awaited
<1>7. ASSUME NEW s \in Sessions, SendRequest(s)
      PROVE  Awaited'
  <2>1. /\ run = s /\ pc = "transact" /\ Held(s) = Current(s)
    BY <1>7, HeldIsCurrent
  <2>2. /\ pc' = "confirm" /\ run' = s /\ inq' = <<>> /\ UNCHANGED <<out, rsp_sent>>
        /\ owed' \in {owed, owed \cup {Len(hist) + 1}}
    BY <1>7, <2>1 DEF SendRequest, TransactUnchanged, replyVars
  <2>3. owed = {}
    BY <1>0, <2>1
  <2>4. Current(s)' = Current(s)
    BY <2>2 DEF Current, Replied
  <2>5. /\ hist' # <<>> /\ Len(hist') = Len(hist) + 1
        /\ hist'[Len(hist) + 1].s = s /\ hist'[Len(hist) + 1].k = Current(s)
    <3> DEFINE h == [s |-> s, k |-> Held(s), unit |-> Req(s, 7), fc |-> Req(s, 8)]
    <3>1. hist' = Append(hist, h) /\ h.s = s /\ h.k = Current(s)
      BY <1>7, <2>1 DEF SendRequest
    <3>2. hist \in Seq(HistTypes)
      BY <1>0 DEF TypeOK, HistTypes
    <3> HIDE DEF h
    <3> QED
      BY <3>1, <3>2
  <2>6. owed' \subseteq {Len(hist')}
    BY <2>2, <2>3, <2>5
  <2> QED
    BY <2>2, <2>4, <2>5, <2>6, WakesStep DEF Awaited
<1>8. ASSUME NEW x \in owed, SlaveAnswers(x)
      PROVE  Awaited'
  <2>1. /\ pc = "confirm" /\ x = Len(hist) /\ owed = {x} /\ inq = <<>>
    BY <1>0, <1>8
  <2>2. /\ UNCHANGED <<pc, run, hist, rsp_sent, out>> /\ owed' = {}
        /\ inq' = <<>> \/ inq' = Append(inq, x)
    BY <1>8, <2>1 DEF SlaveAnswers, workerVars, replyVars
  <2>3. inq' # <<>> => Head(inq') = x
    BY <2>1, <2>2
  <2>4. Current(run)' = Current(run)
    BY <2>2 DEF Current, Replied
  <2> QED
    BY <1>0, <2>1, <2>2, <2>3, <2>4, WakesStep DEF Awaited
<1>9. CASE UNCHANGED vars
  BY <1>2, <1>9 DEF vars, workerVars, lineVars, replyVars
<1> QED
  BY <1>3, <1>4, <1>5, <1>6, <1>7, <1>8, <1>9 DEF Next, Handler, ReplyStep

\* A new transaction is of a request that had none.
LEMMA OnceStep ==
  ASSUME IndInv, LockstepInv, [Next]_vars
  PROVE  RequestsArePerformedOnce'
<1>0. RequestsArePerformedOnce /\ OutTypes /\ TypeOK
  BY DEF LockstepInv, IndInv
<1>1. CASE hist' = hist
  BY <1>0, <1>1 DEF RequestsArePerformedOnce
<1>2. CASE hist' # hist
  <2> PICK a \in Sessions :
         /\ SendRequest(a)
         /\ DOMAIN hist' = DOMAIN hist \cup {Len(hist) + 1}
         /\ hist'[Len(hist) + 1].s = a /\ hist'[Len(hist) + 1].k = Held(a)
    BY <1>2, HistGrows
  <2>1. \A i \in DOMAIN hist : hist'[i] = hist[i]
    BY HistGrows
  <2>2. /\ run = a /\ pc = "transact" /\ phase[a] = "bridge" /\ rsp_len[a] = 0
        /\ Held(a) = Replied(a) + 1
    BY HeldIsCurrent
  <2>3. \A i \in DOMAIN hist : hist[i].s = a => hist[i].k \in 1..Replied(a)
    BY <2>2 DEF LockstepInv, SessionInv, Performed, In
  <2>4. Replied(a) \in Nat
    BY <1>0, ReplyNumbers
  <2>5. \A i \in DOMAIN hist : hist[i].s = a => hist[i].k # Replied(a) + 1
    BY <2>3, <2>4
  <2> QED
    BY <1>0, <2>1, <2>2, <2>5 DEF RequestsArePerformedOnce
<1> QED
  BY <1>1, <1>2

LEMMA LockstepStep ==
  ASSUME Lockstep, IndInv, LockstepInv, [Next]_vars
  PROVE  LockstepInv'
<1>1. ASSUME NEW s \in Sessions
      PROVE  SessionInv(s)'
  <2>1. Contiguous(s)'
    BY ContiguousStep DEF LockstepInv, SessionInv
  <2> QED
    BY <2>1, SendingStep, StartingStep, BridgedStep, OwnStep, PerformedStep, CalmStep
       DEF SessionInv
<1> QED
  BY <1>1, OutTypesStep, AwaitedStep, OnceStep DEF LockstepInv

LEMMA LockstepInit ==
  Init => LockstepInv
<1> SUFFICES ASSUME Init
             PROVE  LockstepInv
  OBVIOUS
<1>1. OutTypes /\ Awaited /\ RequestsArePerformedOnce
  BY DEF Init, OutTypes, Awaited, RequestsArePerformedOnce
<1>2. ASSUME NEW s \in Sessions
      PROVE  SessionInv(s)
  <2>1. /\ script[s] = <<>> /\ written[s] = 0 /\ peer[s] = "open" /\ seen[s] = 0
        /\ queued[s] = 0 /\ phase[s] = "preread" /\ base[s] = 0 /\ lost[s] = 0
        /\ req_len[s] = 0 /\ req_need[s] = 0 /\ rsp_len[s] = 0 /\ rsp_sent[s] = 0
        /\ hist = <<>> /\ out[s] = <<>> /\ wactive[s] = FALSE
    BY DEF Init
  <2>2. Asked(s) = 0 /\ Replied(s) = 0 /\ Answered(s) = 0 /\ End(s, 0) = 0
    BY <2>1 DEF Asked, Replied, Answered, End
  <2>3. Contiguous(s)
    BY <2>1, <2>2 DEF Contiguous
  <2>4. Sending(s)
    BY <2>1, <2>2 DEF Sending
  <2>5. Starting(s) /\ Bridged(s) /\ Own(s) /\ Performed(s) /\ Calm(s)
    BY <2>1 DEF Starting, Bridged, Own, Performed, Calm
  <2> QED
    BY <2>3, <2>4, <2>5 DEF SessionInv
<1> QED
  BY <1>1, <1>2 DEF LockstepInv

\* For clients in lockstep, what a session has on the way hangs together in
\* every reachable state.
THEOREM LockstepInvariance ==
  ASSUME Lockstep
  PROVE  Spec => []LockstepInv
<1>1. Init => LockstepInv
  BY LockstepInit
<1>2. IndInv /\ LockstepInv /\ [Next]_vars => LockstepInv'
  BY LockstepStep
<1> QED
  BY <1>1, <1>2, Invariance, PTL DEF Spec
-----------------------------------------------------------------------------
(* What the clients may rely on.                                            *)

\* client_send and rtu_transaction: an answer from the line is the answer to
\* the request whose transaction id the reply carries.
THEOREM OwnAnswers ==
  ASSUME Lockstep
  PROVE  Spec => []AnswersAreTheClientsOwn
<1>1. LockstepInv => AnswersAreTheClientsOwn
  BY DEF LockstepInv, SessionInv, Own, Sending, AnswersAreTheClientsOwn
<1> QED
  BY <1>1, LockstepInvariance, PTL

\* The client reads one whole reply per request, in the order it asked.
THEOREM OrderedReplies ==
  ASSUME Lockstep
  PROVE  Spec => []RepliesAreInOrder
<1>1. LockstepInv => RepliesAreInOrder
  BY DEF LockstepInv, SessionInv, Sending, Replied, RepliesAreInOrder
<1> QED
  BY <1>1, LockstepInvariance, PTL

\* rtu_transaction runs once per request, however often the handlers run.
THEOREM RequestsRunOnce ==
  ASSUME Lockstep
  PROVE  Spec => []RequestsArePerformedOnce
<1>1. LockstepInv => RequestsArePerformedOnce
  BY DEF LockstepInv
<1> QED
  BY <1>1, LockstepInvariance, PTL

\* Sessions share the line one transaction at a time: what is on the line has had
\* its reply, or is what the worker waits for.
THEOREM OneTransactionOnTheLine ==
  ASSUME Lockstep
  PROVE  Spec => []TransactionsAreFinished
<1>1. IndInv /\ LockstepInv => TransactionsAreFinished
  <2> SUFFICES ASSUME IndInv, LockstepInv, NEW i \in DOMAIN hist,
                      phase[hist[i].s] = "bridge", ~HasReply(hist[i].s, hist[i].k)
               PROVE  i = Len(hist) /\ Running(hist[i].s, "confirm")
    BY DEF TransactionsAreFinished
  <2> PICK s \in Sessions : s = hist[i].s
    BY HistEntry DEF IndInv
  <2>1. /\ TypeOK /\ OutTypes /\ Sending(s) /\ Performed(s) /\ Bridged(s)
        /\ Replied(s) \in Nat /\ DOMAIN out[s] = 1..Replied(s)
    BY ReplyNumbers DEF IndInv, LockstepInv, SessionInv
  <2>2. ~(hist[i].k \in 1..Replied(s))
    BY <2>1 DEF Sending, HasReply
  <2>3. /\ hist[i].k = Replied(s) + 1
        /\ \/ rsp_len[s] > 0 /\ rsp_sent[s] = 0
           \/ In(s, {"confirm"})
    BY <2>1, <2>2 DEF Performed
  <2>4. ~(rsp_len[s] > 0 /\ rsp_sent[s] = 0)
    <3> SUFFICES ASSUME rsp_len[s] > 0, rsp_sent[s] = 0
                 PROVE  FALSE
      OBVIOUS
    <3>1. rsp[s].k = Current(s) /\ Current(s) = Replied(s) + 1
      BY <2>1 DEF Bridged, Replying, Current
    <3> QED
      BY <2>3, <3>1 DEF HasReply
  <2>5. run = s /\ pc = "confirm" /\ Len(hist) \in DOMAIN hist
        /\ hist[Len(hist)].s = s /\ hist[Len(hist)].k = Current(s)
    BY <2>3, <2>4 DEF In, LockstepInv, Awaited, IndInv, LineInv
  <2>6. rsp_sent[s] = 0
    <3>1. /\ ~(rsp_len[s] > 0) /\ rsp_sent[s] <= rsp_len[s]
          /\ rsp_sent[s] \in Nat /\ rsp_len[s] \in Nat
      BY <2>1, <2>5, SessionTypes DEF Bridged, Replying, In, IndInv, AccumulatorInv
    <3> QED
      BY <3>1
  <2>7. hist[Len(hist)].k = hist[i].k
    BY <2>3, <2>5, <2>6 DEF Current
  <2> QED
    BY <2>5, <2>7 DEF LockstepInv, RequestsArePerformedOnce, Running
<1> QED
  BY <1>1, Invariance, LockstepInvariance, PTL

\* What is sent on the line is a frame as a client wrote it, never one put together
\* of two: such a client does not fill the preread buffer beyond req.
THEOREM WholeFramesAreSent ==
  ASSUME Lockstep
  PROVE  Spec => []OnlyWrittenFramesArePerformed
<1>1. IndInv /\ LockstepInv => OnlyWrittenFramesArePerformed
  <2> SUFFICES ASSUME IndInv, LockstepInv, NEW i \in DOMAIN hist
               PROVE  hist[i].k # 0
    BY DEF OnlyWrittenFramesArePerformed
  <2> PICK s \in Sessions : hist[i].s = s
    BY HistEntry
  <2>1. hist[i].k \in 1..Replied(s) \/ hist[i].k = Replied(s) + 1
    BY DEF LockstepInv, SessionInv, Performed
  <2>2. Replied(s) \in Nat
    BY ReplyNumbers DEF IndInv, LockstepInv
  <2> QED
    BY <2>1, <2>2
<1> QED
  BY <1>1, Invariance, LockstepInvariance, PTL

\* client_send goes on with a reply where it stopped; nothing puts another in
\* rsp before it is sent.
THEOREM RepliesAreFinished ==
  ASSUME Lockstep
  PROVE  Spec => RepliesAreNotRebuilt
<1> DEFINE Goes(s) == 0 < rsp_sent[s] /\ rsp_sent[s] < rsp_len[s] =>
                        /\ rsp'[s] = rsp[s] /\ rsp_len'[s] = rsp_len[s]
                        /\ rsp_sent'[s] >= rsp_sent[s]
<1>1. ASSUME IndInv, LockstepInv, [Next]_vars, NEW s \in Sessions
      PROVE  Goes(s)
  <2>0. TypeOK /\ OutTypes /\ Bridged(s) /\ rsp_sent[s] \in Nat /\ rsp_len[s] \in Nat
    BY <1>1, SessionTypes DEF IndInv, LockstepInv, SessionInv
  <2>1. CASE Quiet(s) \/ Client(s)
    <3>1. rsp'[s] = rsp[s] /\ rsp_len'[s] = rsp_len[s] /\ rsp_sent'[s] = rsp_sent[s]
      BY <2>1 DEF Quiet, Client, ClientRequest, ClientWriteRest, ClientRead, ClientClose, replyVars
    <3> QED
      BY <2>0, <3>1
  <2>2. CASE ReplyStep(s)
    BY <1>1, <2>0, <2>2, ReplyStepStarts
  <2>3. CASE SendOk(s)
    BY <2>0, <2>3, SendOkEffect
  <2>4. CASE SendDone(s)
    <3>1. ~(rsp_sent[s] < rsp_len[s])
      BY <2>0, <2>4 DEF SendDone
    <3> QED
      BY <3>1
  <2> HIDE DEF Goes
  <2> QED
    BY <1>1, <2>0, <2>1, <2>2, <2>3, <2>4, QuietSteps
<1>2. IndInv /\ LockstepInv /\ [Next]_vars =>
        [\A s \in Sessions : Goes(s)]_vars
  BY <1>1
<1> HIDE DEF Goes
<1>3. Spec => [][\A s \in Sessions : Goes(s)]_vars
  BY <1>2, LockstepInvariance, Invariance, PTL DEF Spec
<1> USE DEF Goes
<1> QED
  BY <1>3 DEF RepliesAreNotRebuilt

\* The compaction at the end of client_send drops a whole request, and one whose
\* reply was sent.
THEOREM BytesAreServed ==
  ASSUME Lockstep
  PROVE  Spec => OnlyServedBytesAreDropped
<1> DEFINE Served(s) == base'[s] # base[s] =>
                          /\ req_need[s] > 0 /\ base'[s] = base[s] + req_need[s]
                          /\ rsp_len[s] > 0 /\ rsp_sent[s] = rsp_len[s]
<1>1. ASSUME IndInv, LockstepInv, [Next]_vars, NEW s \in Sessions
      PROVE  Served(s)
  <2>0. /\ OutTypes /\ base[s] \in Nat /\ rsp_len[s] \in Nat /\ req_len[s] \in Nat
        /\ CurrentFrame(s).len >= MBAP_LEN => CurrentFrame(s).len >= 7
    BY <1>1, SessionTypes DEF IndInv, LockstepInv, MBAP_LEN
  <2>1. CASE SendDone(s)
    <3>1. CASE rsp_len[s] = 0
      <4>1. base'[s] = base[s] + 0
        BY <1>1, <2>1, <3>1, SendDoneEffect
      <4> QED
        BY <2>0, <4>1
    <3>2. CASE rsp_len[s] > 0
      <4>1. /\ base'[s] = base[s] + req_len[s] /\ req_need[s] = req_len[s]
            /\ req_len[s] = CurrentFrame(s).len /\ MBAP_LEN <= CurrentFrame(s).len
            /\ rsp_sent[s] = rsp_len[s]
        BY <1>1, <2>1, <3>2, SendDoneEffect
      <4> QED
        BY <2>0, <3>2, <4>1 DEF MBAP_LEN
    <3> QED
      BY <2>0, <3>1, <3>2
  <2>2. CASE ~SendDone(s)
    <3>1. base'[s] = base[s]
      <4>1. CASE Elsewhere(s)
        BY <4>1 DEF Elsewhere, Mine, frameVars
      <4>2. CASE Client(s) \/ EventLoop(s) \/ Timers(s)
        BY <4>2 DEF Client, ClientRequest, ClientWriteRest, ClientRead, ClientClose,
          EventLoop, Preread, Dispatch, Timers, PrereadTimeout, SessionTimeout, frameVars, Takeover
      <4>3. CASE Handler(s)
        BY <2>2, <4>3 DEF Handler, ReadBadLength, ReadFrame, ReadRecv, NoRtuBackend, OpenFails,
          SendFails, SendRequest, Confirmed, ShortReply, BadCrc, NoConfirmation, SendOk, SendAgain,
          SendError, TransactUnchanged, frameVars
      <4> QED
        BY <1>1, <2>0, <4>1, <4>2, <4>3, StepOf
    <3> QED
      BY <3>1
  <2> QED
    BY <2>1, <2>2
<1>2. IndInv /\ LockstepInv /\ [Next]_vars =>
        [\A s \in Sessions : Served(s)]_vars
  BY <1>1
<1> HIDE DEF Served
<1>3. Spec => [][\A s \in Sessions : Served(s)]_vars
  BY <1>2, LockstepInvariance, Invariance, PTL DEF Spec
<1> USE DEF Served
<1> QED
  BY <1>3 DEF OnlyServedBytesAreDropped
-----------------------------------------------------------------------------
(* The bridge implements RequestReply.  The counts of the refinement mapping *)
(* are numbers of the bridge's own.                                          *)

\* Requests that were written in full: all, or all but the last.
Whole(s) == IF written[s] = End(s, Asked(s)) THEN Asked(s) ELSE Asked(s) - 1

\* How often a request was performed.
Times(s, k) == IF \E i \in DOMAIN hist : hist[i].s = s /\ hist[i].k = k THEN 1 ELSE 0

Counted ==
  /\ AbstractAsked = [s \in Sessions |-> Whole(s)]
  /\ AbstractPerformed = [s \in Sessions |-> [k \in 0..MaxReq |-> Times(s, k)]]
  /\ AbstractAnswered = [s \in Sessions |-> Answered(s)]

LEMMA CountsAgree ==
  ASSUME IndInv, LockstepInv
  PROVE  Counted
<1>0. TypeOK /\ OutTypes /\ RequestsArePerformedOnce
  BY DEF IndInv, LockstepInv
<1>1. ASSUME NEW s \in Sessions
      PROVE  Cardinality({k \in DOMAIN script[s] : Written(s, k)}) = Whole(s)
  <2>0. /\ Contiguous(s) /\ DOMAIN script[s] = 1..Asked(s) /\ Asked(s) \in Nat
        /\ End(s, 0) = 0 /\ written[s] \in Nat
    BY <1>0, SessionTypes DEF LockstepInv, SessionInv, Asked, End
  <2>1. \A k \in DOMAIN script[s] : Written(s, k) <=> End(s, k) <= written[s]
    BY <1>0, FrameNumbers DEF Written
  <2>2. ASSUME NEW k \in DOMAIN script[s], k < Asked(s)
        PROVE  Written(s, k)
    <3>1. Asked(s) \in DOMAIN script[s] /\ k \in Nat
      BY <2>0, <2>2
    <3>2. /\ End(s, k) <= script[s][Asked(s)].at /\ script[s][Asked(s)].at < written[s]
      BY <2>0, <2>2, <3>1 DEF Contiguous
    <3> QED
      BY <1>0, <2>0, <2>1, <3>1, <3>2, FrameNumbers
  <2>3. CASE written[s] = End(s, Asked(s))
    <3>1. \A k \in DOMAIN script[s] : Written(s, k)
      <4>1. ASSUME NEW k \in DOMAIN script[s], k = Asked(s)
            PROVE  Written(s, k)
        BY <2>0, <2>1, <2>3, <4>1
      <4> QED
        BY <2>0, <2>2, <4>1
    <3>2. {k \in DOMAIN script[s] : Written(s, k)} = 1..Asked(s)
      BY <2>0, <3>1
    <3>3. Cardinality(1..Asked(s)) = Asked(s)
      BY <2>0, FS_Interval
    <3> QED
      BY <2>3, <3>2, <3>3 DEF Whole
  <2>4. CASE written[s] # End(s, Asked(s))
    <3>1. Asked(s) > 0
      BY <2>0, <2>4 DEF Contiguous
    <3>2. ~Written(s, Asked(s))
      <4>1. Asked(s) \in DOMAIN script[s] /\ written[s] <= End(s, Asked(s))
        BY <2>0, <3>1 DEF Contiguous
      <4> QED
        BY <1>0, <2>0, <2>1, <2>4, <4>1, FrameNumbers
    <3>3. {k \in DOMAIN script[s] : Written(s, k)} = 1..(Asked(s) - 1)
      BY <2>0, <2>2, <3>1, <3>2
    <3>4. Cardinality(1..(Asked(s) - 1)) = Asked(s) - 1
      <4>1. Asked(s) - 1 \in Nat
        BY <2>0, <3>1
      <4> QED
        BY <4>1, FS_Interval
    <3> QED
      BY <2>4, <3>3, <3>4 DEF Whole
  <2> QED
    BY <2>3, <2>4
<1>2. ASSUME NEW s \in Sessions, NEW k \in 0..MaxReq
      PROVE  Cardinality({i \in DOMAIN hist : hist[i].s = s /\ hist[i].k = k}) = Times(s, k)
  <2>1. CASE \E i \in DOMAIN hist : hist[i].s = s /\ hist[i].k = k
    <3> PICK j \in DOMAIN hist : hist[j].s = s /\ hist[j].k = k
      BY <2>1
    <3>1. {i \in DOMAIN hist : hist[i].s = s /\ hist[i].k = k} = {j}
      BY <1>0 DEF RequestsArePerformedOnce
    <3> QED
      BY <2>1, <3>1, FS_Singleton DEF Times
  <2>2. CASE ~(\E i \in DOMAIN hist : hist[i].s = s /\ hist[i].k = k)
    <3>1. {i \in DOMAIN hist : hist[i].s = s /\ hist[i].k = k} = {}
      BY <2>2
    <3> QED
      BY <2>2, <3>1, FS_EmptySet DEF Times
  <2> QED
    BY <2>1, <2>2
<1>3. ASSUME NEW s \in Sessions
      PROVE  Cardinality(CompleteReplies(s)) = Answered(s)
  BY <1>0, AnsweredCounts DEF LockstepInv, SessionInv
<1>4. AbstractAsked = [s \in Sessions |-> Whole(s)]
  BY <1>1 DEF AbstractAsked
<1>5. AbstractPerformed = [s \in Sessions |-> [k \in 0..MaxReq |-> Times(s, k)]]
  BY <1>2 DEF AbstractPerformed
<1>6. AbstractAnswered = [s \in Sessions |-> Answered(s)]
  BY <1>3 DEF AbstractAnswered
<1> QED
  BY <1>4, <1>5, <1>6 DEF Counted

\* The request being served was written in full, and is the oldest without a
\* whole reply.
LEMMA CurrentIsWritten ==
  ASSUME IndInv, LockstepInv, NEW s \in Sessions, phase[s] = "bridge",
         rsp_sent[s] = 0 \/ rsp_sent[s] < rsp_len[s],
         rsp_len[s] > 0 \/ In(s, {"transact", "confirm"})
  PROVE  /\ Answered(s) = Current(s) - 1 /\ Answered(s) < Whole(s)
         /\ Current(s) \in 1..MaxReq /\ Answered(s) \in Nat /\ s \in AbstractOpen
<1>0. /\ TypeOK /\ OutTypes /\ Contiguous(s) /\ Sending(s) /\ StreamInv(s)
      /\ Placed(s) /\ Taken(s)
  BY DEF IndInv, LockstepInv, SessionInv, Bridged
<1>1. /\ Current(s) <= Asked(s) /\ lost[s] = 0 /\ buffered[s] = 0
      /\ MBAP_LEN <= CurrentFrame(s).len /\ req_len[s] = CurrentFrame(s).len
      /\ base[s] = End(s, Current(s) - 1)
  BY <1>0 DEF Taken, Placed
<1> PICK c \in DOMAIN script[s] : c = Current(s)
  BY <1>0, <1>1, CurrentNumbers
<1>2. /\ c \in 1..Asked(s) /\ Asked(s) \in Nat /\ script[s][c].at \in Nat
      /\ End(s, c) = script[s][c].at + script[s][c].len
      /\ script[s][c].at = base[s] /\ script[s][c].len = req_len[s]
  <2>1. script[s][c].len >= 7
    BY <1>0, <1>1, FrameNumbers DEF CurrentFrame, MBAP_LEN
  <2> QED
    BY <1>0, <1>1, <2>1, FrameNumbers DEF Contiguous, CurrentFrame
<1>3. End(s, c) <= written[s] /\ written[s] \in Nat
  <2>1. buffered[s] + base[s] + lost[s] + req_len[s] <= written[s]
    BY <1>0 DEF StreamInv
  <2> QED
    BY <1>0, <1>1, <1>2, <2>1, SessionTypes
<1>4. c <= Whole(s)
  <2>1. CASE c = Asked(s)
    <3>1. written[s] <= End(s, c)
      BY <1>0, <2>1 DEF Contiguous
    <3>2. written[s] = End(s, Asked(s))
      BY <1>0, <1>3, <2>1, <3>1, FrameNumbers
    <3> QED
      BY <1>2, <2>1, <3>2 DEF Whole
  <2>2. CASE c < Asked(s)
    <3>1. c <= Asked(s) - 1 /\ c <= Asked(s)
      BY <1>2, <2>2
    <3> QED
      BY <3>1 DEF Whole
  <2> QED
    BY <1>2, <2>1, <2>2
<1>5. Answered(s) = c - 1 /\ Answered(s) \in Nat
  <2>1. Replied(s) \in Nat /\ Answered(s) \in Nat /\ rsp_sent[s] \in Nat
    BY <1>0, ReplyNumbers
  <2>2. CASE rsp_sent[s] = 0
    BY <1>0, <2>1, <2>2 DEF Sending, Current
  <2>3. CASE rsp_sent[s] # 0
    <3>1. rsp_sent[s] > 0 /\ rsp_sent[s] < rsp_len[s]
      BY <2>1, <2>3
    <3> QED
      BY <1>0, <2>1, <3>1 DEF Sending, Current, Answered
  <2> QED
    BY <2>1, <2>2, <2>3
<1>6. c \in 1..MaxReq
  <2>1. MaxReq \in Nat /\ Asked(s) <= MaxReq
    BY <1>0, ConstantTypes DEF StreamInv, Asked, Octets
  <2> QED
    BY <1>2, <2>1
<1>7. Whole(s) \in Int
  BY <1>2 DEF Whole
<1> QED
  BY <1>2, <1>4, <1>5, <1>6, <1>7 DEF AbstractOpen

\* A client's bytes that complete a request ask it.
LEMMA AskStep ==
  ASSUME IndInv, LockstepInv, Counted, Counted', [Next]_vars, NEW s \in Sessions,
         (\E f \in Requests, n \in Chunks : ClientRequest(s, f, n)) \/ ClientWriteRest(s)
  PROVE  [RR!Next]_RR!vars
<1>0. TypeOK /\ OutTypes /\ Contiguous(s) /\ StreamInv(s)
  BY DEF IndInv, LockstepInv, SessionInv
<1>1. /\ UNCHANGED <<hist, out, phase>>
      /\ \A t \in Sessions \ {s} : script'[t] = script[t] /\ written'[t] = written[t]
  BY <1>0 DEF ClientRequest, ClientWriteRest, lineVars, TypeOK
<1>2. UNCHANGED <<AbstractPerformed, AbstractAnswered, AbstractOpen>>
  BY <1>1 DEF AbstractPerformed, AbstractAnswered, AbstractOpen, CompleteReplies
<1>3. \A t \in Sessions \ {s} : Whole(t)' = Whole(t)
  BY <1>1 DEF Whole, Asked, End, FrameBytes
<1>4. Whole(s)' = Whole(s) \/ (Whole(s)' = Whole(s) + 1 /\ Whole(s) < MaxReq)
  <2>0. /\ Asked(s) \in Nat /\ Asked(s) <= MaxReq /\ MaxReq \in Nat
        /\ Contiguous(s)' /\ Asked(s)' \in Nat
    BY <1>0, ContiguousStep, FramesStay, SessionTypes, ConstantTypes
       DEF StreamInv, Asked, Octets
  <2>1. ASSUME NEW f \in Requests, NEW n \in Chunks, ClientRequest(s, f, n)
        PROVE  Whole(s)' = Whole(s) \/ (Whole(s)' = Whole(s) + 1 /\ Whole(s) < MaxReq)
    <3>1. Asked(s)' = Asked(s) + 1 /\ Asked(s) < MaxReq
      BY <1>0, <2>1, ContiguousRequest DEF ClientRequest, Asked
    <3>2. written[s] = End(s, Asked(s))
      <4>1. CASE Asked(s) = 0
        BY <1>0, <4>1, SessionTypes DEF Contiguous, End
      <4>2. CASE Asked(s) # 0
        <5>1. Asked(s) \in DOMAIN script[s]
          BY <1>0, <2>0, <4>2, SessionTypes DEF Asked
        <5>2. End(s, Asked(s)) <= written[s]
          BY <1>0, <2>1, <5>1, FrameNumbers DEF ClientRequest, AllWritten
        <5> QED
          BY <1>0, <5>1, <5>2, FrameNumbers, SessionTypes DEF Contiguous
      <4> QED
        BY <4>1, <4>2
    <3>3. Whole(s) = Asked(s)
      BY <3>2 DEF Whole
    <3>4. Whole(s)' \in {Asked(s)', Asked(s)' - 1}
      BY DEF Whole
    <3> QED
      BY <2>0, <3>1, <3>3, <3>4
  <2>2. CASE ClientWriteRest(s)
    <3>1. Asked(s)' = Asked(s) /\ written[s] # End(s, Asked(s))
      <4>1. script' = script
        BY <2>2 DEF ClientWriteRest
      <4>2. ASSUME written[s] = End(s, Asked(s))
            PROVE  AllWritten(s)
        <5>1. \A k \in DOMAIN script[s] : End(s, k) <= written[s]
          <6>1. ASSUME NEW k \in DOMAIN script[s]
                PROVE  End(s, k) <= written[s]
            <7>1. k \in 1..Asked(s) /\ Asked(s) \in DOMAIN script[s]
              BY <1>0, <2>0, <6>1, SessionTypes DEF Asked
            <7>2. CASE k = Asked(s)
              BY <1>0, <4>2, <7>1, <7>2, FrameNumbers
            <7>3. CASE k < Asked(s)
              <8>1. /\ End(s, k) <= script[s][Asked(s)].at
                    /\ script[s][Asked(s)].at <= End(s, Asked(s))
                BY <1>0, <7>1, <7>3, FrameNumbers DEF Contiguous
              <8> QED
                BY <1>0, <4>2, <7>1, <8>1, FrameNumbers
            <7> QED
              BY <2>0, <7>1, <7>2, <7>3
          <6> QED
            BY <6>1
        <5> QED
          BY <1>0, <5>1, FrameNumbers DEF AllWritten
      <4> QED
        BY <2>2, <4>1, <4>2 DEF ClientWriteRest, Asked
    <3>2. Whole(s) = Asked(s) - 1
      BY <3>1 DEF Whole
    <3>3. Whole(s)' \in {Asked(s), Asked(s) - 1}
      BY <3>1 DEF Whole
    <3> QED
      BY <2>0, <3>2, <3>3
  <2> QED
    BY <2>1, <2>2
<1>5. /\ AbstractAsked = [t \in Sessions |-> Whole(t)]
      /\ AbstractAsked' = [t \in Sessions |-> Whole(t)']
  BY DEF Counted
<1>6. CASE Whole(s)' = Whole(s)
  <2>1. AbstractAsked' = AbstractAsked
    BY <1>3, <1>5, <1>6
  <2> QED
    BY <1>2, <2>1 DEF RR!vars
<1>7. CASE Whole(s)' = Whole(s) + 1 /\ Whole(s) < MaxReq
  <2>1. /\ AbstractAsked' = [AbstractAsked EXCEPT ![s] = @ + 1]
        /\ AbstractAsked[s] < MaxReq
    BY <1>3, <1>5, <1>7
  <2> QED
    BY <1>2, <2>1 DEF RR!Next, RR!Ask
<1> QED
  BY <1>4, <1>6, <1>7

\* A transaction performs the oldest request that has no reply.
LEMMA PerformStep ==
  ASSUME IndInv, LockstepInv, Counted, Counted', [Next]_vars, NEW s \in Sessions, SendRequest(s)
  PROVE  [RR!Next]_RR!vars
<1>1. UNCHANGED <<script, written, out, phase>>
  BY DEF SendRequest, TransactUnchanged, clientVars
<1>2. UNCHANGED <<AbstractAsked, AbstractAnswered, AbstractOpen>>
  BY <1>1 DEF AbstractAsked, AbstractAnswered, AbstractOpen, CompleteReplies, Written
<1>3. /\ Held(s) = Current(s) /\ Current(s) = Replied(s) + 1 /\ phase[s] = "bridge"
      /\ run = s /\ pc = "transact" /\ rsp_sent[s] = 0 /\ rsp_len[s] = 0
  BY HeldIsCurrent
<1> PICK c : c = Current(s)
  OBVIOUS
<1>4. /\ Answered(s) + 1 = c /\ Answered(s) < Whole(s) /\ c \in 1..MaxReq /\ s \in AbstractOpen
  BY <1>3, CurrentIsWritten DEF In
<1>5. Times(s, c) = 0
  <2>1. \A i \in DOMAIN hist : hist[i].s = s => hist[i].k \in 1..Replied(s)
    BY <1>3 DEF LockstepInv, SessionInv, Performed, In
  <2>2. c \notin 1..Replied(s)
    BY <1>3, ReplyNumbers DEF IndInv, LockstepInv
  <2> QED
    BY <2>1, <2>2 DEF Times
<1>6. /\ DOMAIN hist' = DOMAIN hist \cup {Len(hist) + 1}
      /\ \A i \in DOMAIN hist : hist'[i] = hist[i]
      /\ hist'[Len(hist) + 1].s = s /\ hist'[Len(hist) + 1].k = c
  <2>1. PICK a \in Sessions : /\ SendRequest(a)
                              /\ DOMAIN hist' = DOMAIN hist \cup {Len(hist) + 1}
                              /\ hist'[Len(hist) + 1].s = a /\ hist'[Len(hist) + 1].k = Held(a)
    <3>1. hist' # hist
      <4>1. hist \in Seq(HistTypes)
        BY DEF IndInv, TypeOK, HistTypes
      <4>2. PICK h : hist' = Append(hist, h)
        BY DEF SendRequest
      <4> QED
        BY <4>1, <4>2
    <3> QED
      BY <3>1, HistGrows
  <2>2. a = s
    BY <1>3, <2>1 DEF SendRequest, Running
  <2> QED
    BY <1>3, <2>1, <2>2, HistGrows
<1>7. ASSUME NEW t \in Sessions, NEW k \in 0..MaxReq
      PROVE  Times(t, k)' = IF t = s /\ k = c THEN 1 ELSE Times(t, k)
  BY <1>6 DEF Times
<1>8. /\ AbstractPerformed = [t \in Sessions |-> [k \in 0..MaxReq |-> Times(t, k)]]
      /\ AbstractPerformed' = [t \in Sessions |-> [k \in 0..MaxReq |-> Times(t, k)']]
      /\ AbstractAsked[s] = Whole(s) /\ AbstractAnswered[s] = Answered(s)
  BY DEF Counted
<1>9. AbstractPerformed' = [AbstractPerformed EXCEPT ![s] = [@ EXCEPT ![c] = 1]]
  BY <1>7, <1>8
<1>10. c \in 0..MaxReq
  BY <1>4
<1>11. AbstractPerformed[s][c] = 0
  BY <1>5, <1>8, <1>10
<1>12. RR!Perform(s)
  BY <1>2, <1>4, <1>8, <1>9, <1>11 DEF RR!Perform
<1> QED
  BY <1>12 DEF RR!Next

\* The send that completes a reply answers its request.
LEMMA AnswerStep ==
  ASSUME IndInv, LockstepInv, Counted, Counted', [Next]_vars, NEW s \in Sessions, SendOk(s)
  PROVE  [RR!Next]_RR!vars
<1>0. /\ TypeOK /\ OutTypes /\ Sending(s)
  BY DEF IndInv, LockstepInv, SessionInv
<1>1. /\ UNCHANGED <<script, written, hist, phase>>
      /\ \A t \in Sessions \ {s} : out'[t] = out[t]
  BY <1>0 DEF SendOk, clientVars, lineVars, OutTypes
<1>2. UNCHANGED <<AbstractAsked, AbstractPerformed, AbstractOpen>>
  BY <1>1 DEF AbstractAsked, AbstractPerformed, AbstractOpen, Written
<1>3. \A t \in Sessions \ {s} : Answered(t)' = Answered(t)
  BY <1>1 DEF Answered, Replied
<1>4. phase[s] = "bridge" /\ rsp_sent[s] < rsp_len[s] /\ rsp_len[s] > 0 /\ rsp_sent[s] \in Nat
  <2>1. run = s /\ rsp_sent[s] < rsp_len[s]
    BY DEF SendOk, Running
  <2> QED
    BY <1>0, <2>1, RunsBridged, SessionTypes
<1>5. /\ Answered(s) = Current(s) - 1 /\ Answered(s) < Whole(s) /\ s \in AbstractOpen
      /\ Answered(s) \in Nat /\ Replied(s) \in Nat
  BY <1>0, <1>4, CurrentIsWritten, ReplyNumbers
<1>6. Answered(s)' \in {Answered(s), Answered(s) + 1}
  <2>1. CASE rsp_sent[s] = 0
    <3>1. Replied(s)' = Replied(s) + 1
      BY <1>0, <2>1, FirstPart DEF Replied
    <3>2. Answered(s) = Replied(s)
      BY <1>0, <2>1 DEF Sending
    <3> QED
      BY <1>5, <3>1, <3>2 DEF Answered
  <2>2. CASE rsp_sent[s] # 0
    <3>1. Replied(s)' = Replied(s)
      BY <1>0, <1>4, <2>2, NextPart DEF Replied, Sending
    <3>2. Answered(s) = Replied(s) - 1
      BY <1>4, <1>5, <2>2 DEF Current
    <3> QED
      BY <1>5, <3>1, <3>2 DEF Answered
  <2> QED
    BY <2>1, <2>2
<1>7. /\ AbstractAnswered = [t \in Sessions |-> Answered(t)]
      /\ AbstractAnswered' = [t \in Sessions |-> Answered(t)']
      /\ AbstractAsked[s] = Whole(s)
  BY DEF Counted
<1>8. CASE Answered(s)' = Answered(s)
  <2>1. AbstractAnswered' = AbstractAnswered
    BY <1>3, <1>7, <1>8
  <2> QED
    BY <1>2, <2>1 DEF RR!vars
<1>9. CASE Answered(s)' = Answered(s) + 1
  <2>1. /\ AbstractAnswered' = [AbstractAnswered EXCEPT ![s] = @ + 1]
        /\ AbstractAnswered[s] < AbstractAsked[s]
    BY <1>3, <1>5, <1>7, <1>9
  <2> QED
    BY <1>2, <1>5, <2>1 DEF RR!Next, RR!Answer
<1> QED
  BY <1>6, <1>8, <1>9

\* The other steps count nothing; they may close a connection.
LEMMA OtherStep ==
  ASSUME IndInv, LockstepInv, [Next]_vars,
         \A s \in Sessions : /\ ~SendRequest(s) /\ ~SendOk(s) /\ ~ClientWriteRest(s)
                             /\ \A f \in Requests, n \in Chunks : ~ClientRequest(s, f, n)
  PROVE  [RR!Next]_RR!vars
<1>0. phase \in [Sessions -> {"preread", "bridge", "proxied", "closed"}]
  BY DEF IndInv, TypeOK
<1>1. UNCHANGED <<script, written, hist, out>>
  <2>1. ASSUME NEW s \in Sessions, Client(s) \/ EventLoop(s) \/ Timers(s)
        PROVE  UNCHANGED <<script, written, hist, out>>
    BY <2>1 DEF Client, ClientRead, ClientClose, EventLoop, Preread, Dispatch,
      Timers, PrereadTimeout, SessionTimeout, clientVars, lineVars
  <2>2. ASSUME NEW s \in Sessions, Handler(s)
        PROVE  UNCHANGED <<script, written, hist, out>>
    BY <2>2 DEF Handler, ReadBadLength, ReadFrame, ReadRecv, NoRtuBackend, OpenFails, SendFails,
      Confirmed, ShortReply, BadCrc, NoConfirmation, SendAgain, SendError, SendDone,
      TransactUnchanged, clientVars, lineVars
  <2>3. ASSUME NEW x \in owed, SlaveAnswers(x)
        PROVE  UNCHANGED <<script, written, hist, out>>
    BY <2>3 DEF SlaveAnswers, clientVars
  <2>4. CASE UNCHANGED vars
    BY <2>4 DEF vars, clientVars, lineVars
  <2> QED
    BY <2>1, <2>2, <2>3, <2>4 DEF Next
<1>2. UNCHANGED <<AbstractAsked, AbstractPerformed, AbstractAnswered>>
  BY <1>1 DEF AbstractAsked, AbstractPerformed, AbstractAnswered, Written, CompleteReplies
<1>3. ASSUME phase' = phase
      PROVE  RR!vars' = RR!vars
  BY <1>2, <1>3 DEF RR!vars, AbstractOpen
<1>4. ASSUME NEW s \in Sessions, NEW p, phase' = [phase EXCEPT ![s] = p],
             p \in {"preread", "bridge"} => phase[s] \in {"preread", "bridge"}
      PROVE  [RR!Next]_RR!vars
  <2>1. CASE p \in {"preread", "bridge"} <=> phase[s] \in {"preread", "bridge"}
    <3>1. AbstractOpen' = AbstractOpen
      BY <1>0, <1>4, <2>1 DEF AbstractOpen
    <3> QED
      BY <1>2, <3>1 DEF RR!vars
  <2>2. CASE p \notin {"preread", "bridge"} /\ phase[s] \in {"preread", "bridge"}
    <3>1. s \in AbstractOpen /\ AbstractOpen' = AbstractOpen \ {s}
      BY <1>0, <1>4, <2>2 DEF AbstractOpen
    <3> QED
      BY <1>2, <3>1 DEF RR!Next, RR!Close
  <2> QED
    BY <1>4, <2>1, <2>2
<1>5. ASSUME NEW s \in Sessions, Finalize(s)
      PROVE  [RR!Next]_RR!vars
  <2>1. phase' = [phase EXCEPT ![s] = "closed"]
    BY <1>5 DEF Finalize
  <2> QED
    BY <1>4, <2>1
<1>6. ASSUME NEW s \in Sessions, Preread(s)
      PROVE  [RR!Next]_RR!vars
  <2>1. \/ phase' = phase \/ Finalize(s)
        \/ phase' = [phase EXCEPT ![s] = "proxied"]
        \/ phase' = [phase EXCEPT ![s] = "bridge"]
    BY <1>6 DEF Preread, Takeover
  <2>2. phase[s] \in {"preread", "bridge"}
    BY <1>6 DEF Preread
  <2> QED
    BY <1>3, <1>4, <1>5, <2>1, <2>2
<1>7. ASSUME NEW s \in Sessions, Client(s) \/ Dispatch(s)
      PROVE  [RR!Next]_RR!vars
  <2>1. phase' = phase
    BY <1>7 DEF Client, ClientRequest, ClientWriteRest, ClientRead, ClientClose, Dispatch
  <2> QED
    BY <1>3, <2>1
<1>8. ASSUME NEW s \in Sessions, Handler(s) \/ Timers(s)
      PROVE  [RR!Next]_RR!vars
  <2>1. phase' = phase \/ Finalize(s)
    BY <1>8 DEF Handler, Timers, ReadBadLength, ReadFrame, ReadRecv, NoRtuBackend, OpenFails,
      SendFails, SendRequest, Confirmed, ShortReply, BadCrc, NoConfirmation, SendOk, SendAgain,
      SendError, SendDone, PrereadTimeout, SessionTimeout, TransactUnchanged
  <2> QED
    BY <1>3, <1>5, <1>8, <2>1
<1>9. ASSUME NEW x \in owed, SlaveAnswers(x)
      PROVE  [RR!Next]_RR!vars
  <2>1. phase' = phase
    BY <1>9 DEF SlaveAnswers
  <2> QED
    BY <1>3, <2>1
<1>10. CASE UNCHANGED vars
  <2>1. phase' = phase
    BY <1>10 DEF vars
  <2> QED
    BY <1>3, <2>1
<1> QED
  BY <1>6, <1>7, <1>8, <1>9, <1>10 DEF Next, EventLoop

LEMMA InitialCounts ==
  Init => RR!Init
<1> SUFFICES ASSUME Init
             PROVE  RR!Init
  OBVIOUS
<1>1. ASSUME NEW s \in Sessions
      PROVE  /\ Cardinality({k \in DOMAIN script[s] : Written(s, k)}) = 0
             /\ Cardinality(CompleteReplies(s)) = 0
             /\ phase[s] = "preread"
             /\ \A k : Cardinality({i \in DOMAIN hist : hist[i].s = s /\ hist[i].k = k}) = 0
  <2>1. script[s] = <<>> /\ out[s] = <<>> /\ hist = <<>> /\ phase[s] = "preread"
    BY DEF Init
  <2>2. /\ {k \in DOMAIN script[s] : Written(s, k)} = {} /\ CompleteReplies(s) = {}
        /\ \A k : {i \in DOMAIN hist : hist[i].s = s /\ hist[i].k = k} = {}
    BY <2>1 DEF CompleteReplies
  <2> QED
    BY <2>1, <2>2, FS_EmptySet
<1>2. AbstractAsked = [s \in Sessions |-> 0] /\ AbstractAnswered = [s \in Sessions |-> 0]
  BY <1>1 DEF AbstractAsked, AbstractAnswered
<1>3. AbstractPerformed = [s \in Sessions |-> [k \in 0..MaxReq |-> 0]]
  BY <1>1 DEF AbstractPerformed
<1>4. AbstractOpen = Sessions
  BY <1>1 DEF AbstractOpen
<1> QED
  BY <1>2, <1>3, <1>4 DEF RR!Init

\* Every step of the bridge is a step of RequestReply or none of its business.
THEOREM RefinesRequestReply ==
  ASSUME Lockstep
  PROVE  Spec => RR!Safety
<1>1. Init => RR!Init
  BY InitialCounts
<1>2. IndInv /\ LockstepInv => Counted
  BY CountsAgree
<1>3. IndInv /\ LockstepInv /\ Counted /\ Counted' /\ [Next]_vars => [RR!Next]_RR!vars
  BY AskStep, PerformStep, AnswerStep, OtherStep
<1> QED
  BY <1>1, <1>2, <1>3, Invariance, LockstepInvariance, PTL DEF Spec, RR!Safety
=============================================================================
