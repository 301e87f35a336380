--------------------------- MODULE MCModbusConfig ---------------------------
(* Values for the model checking of ModbusConfig. *)
EXTENDS ModbusConfig

Body(i, m, h, o) == [id |-> i, mode |-> m, host |-> h, timeout |-> FALSE, ops |-> o]
Writes == {"write_coil", "write_multiple_regs"}

\* Every branch of the block parser, unit ids declared twice, both spellings of
\* the default, and a block whose deny_ops differ from its duplicate's.
MCBlockArgs ==
  {Body(DefaultArg, "tcp", TRUE, {}), Body(DefaultArg, "rtu", FALSE, Writes),
   Body(0, "tcp", TRUE, {"read_coils"}), Body(5, "rtu", FALSE, {}),
   Body(5, "tcp", TRUE, Writes), Body(255, "rtu", TRUE, {}),
   Body(5, "tcp", FALSE, {}), Body(256, "tcp", TRUE, {}), Body(5, "other", TRUE, {})}

\* For every validated directive a value that is loaded and one that is not; and
\* a rate that no check of the merge looks at.
MCLineValues ==
  [baud |-> {0, 19200}, data_bits |-> {7, 9}, parity |-> {"even", "evens"},
   stop_bits |-> {2, 3}, response_timeout |-> {0}]
=============================================================================
