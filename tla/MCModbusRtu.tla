----------------------------- MODULE MCModbusRtu -----------------------------
(***************************************************************************)
(* Instances of ModbusRtu.  The server has an rtu unit 1 whose coils may   *)
(* not be written, an rtu unit 2 with a session timeout, and a tcp unit 3; *)
(* other units have no block.                                              *)
(***************************************************************************)
EXTENDS ModbusRtu, TLC

Loc(id, m, t, ops) ==
  [slave_id |-> id, mode |-> m, host |-> m = "tcp", timeout |-> t,
   deny_ops |-> DenyMask(ops)]

MCBlocks == <<Loc(1, "rtu", FALSE, {"write_coil"}), Loc(2, "rtu", TRUE, {}),
              Loc(3, "tcp", FALSE, {})>>

Frame(u, c, n) == [unit |-> u, fc |-> c, len |-> n, proto |-> 0]

Read1 == Frame(1, 3, 12)
Write1 == Frame(1, 5, 12)
Read2 == Frame(2, 3, 12)

\* Two connections are interchangeable.
Symmetry == Permutations(Sessions)

\* Ordinary traffic.
Plain == {Read1, Read2}
One == {Read1}
\* Also what the bridge refuses: a denied op, a tcp unit, an unknown unit.
Others == {Write1, Frame(3, 3, 12), Frame(9, 3, 12)}
Refused == {Read1} \cup Others
\* Frames at the limits of the length field, and a foreign protocol.
Edges == {Frame(1, 3, 7), Frame(1, 16, 260), Frame(1, 16, 261), Frame(1, 3, 6),
          [Read1 EXCEPT !.proto = 1]}
\* Everything, for a bridge with and one without a timeout.
Mixed == {Read2} \cup Others \cup Edges
Big == {Read1, Frame(1, 16, 260)}
=============================================================================
