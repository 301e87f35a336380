--------------------------- MODULE MCModbusSession ---------------------------
(***************************************************************************)
(* Instances of ModbusSession: tcp units 1 (timed), 2 (not timed) and 4,   *)
(* which denies write_coil; rtu unit 3; no block for other units.          *)
(***************************************************************************)
EXTENDS ModbusSession

Loc(id, m, t, ops) ==
  [slave_id |-> id, mode |-> m, host |-> m = "tcp", timeout |-> t,
   deny_ops |-> DenyMask(ops)]

MCBlocks == <<Loc(1, "tcp", TRUE, {}), Loc(2, "tcp", FALSE, {}),
              Loc(3, "rtu", FALSE, {}), Loc(4, "tcp", TRUE, {"write_coil"})>>

Req(u, c) == [unit |-> u, fc |-> c]
MCRequests == {Req(1, 3), Req(2, 3), Req(3, 3), Req(4, 5), Req(9, 3)}
=============================================================================
