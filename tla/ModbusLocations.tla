--------------------------- MODULE ModbusLocations ---------------------------
(***************************************************************************)
(* What one server's modbus blocks say of a request: which block serves a  *)
(* unit id, and whether that block denies a function code.  The module is  *)
(* shared by the configuration, the preread handler and the RTU bridge,    *)
(* which all call the same two pieces of code.                             *)
(*                                                                         *)
(* A location is a record [slave_id, mode, host, timeout, deny_ops]: host  *)
(* and timeout only say whether one is configured, and the bit mask        *)
(* deny_ops is the set of its bits.  NULL is the null pointer.             *)
(***************************************************************************)
EXTENDS Integers, Sequences

CONSTANT NULL

\* Width of ngx_uint_t, the type of deny_ops and of the shift in NGX_MODBUS_OP.
WordBits == 64

UnitIds == 0..255
Octets == 0..255

Locations == [slave_id : UnitIds, mode : {"tcp", "rtu"}, host : BOOLEAN,
              timeout : BOOLEAN, deny_ops : SUBSET (0..WordBits - 1)]

ASSUME NullAssumption == NULL \notin Locations

\* The deny_ops tokens and the function code each stands for.
OpCode == [read_coils |-> 1, read_discrete |-> 2, read_holding |-> 3,
           read_input_reg |-> 4, write_coil |-> 5, write_reg |-> 6,
           write_multiple_bits |-> 15, write_multiple_regs |-> 16]

\* NGX_MODBUS_OP: the bit that 1UL << fc sets.  A shift of WordBits or more is
\* undefined in C; x86-64 and AArch64 shift by the count modulo the width.
OpBit(fc) == fc % WordBits

\* ngx_conf_set_bitmask_slot ORs the bit of each token into deny_ops.
DenyMask(tokens) == {OpBit(OpCode[t]) : t \in tokens}

\* The check of the preread handler: the exception bit 0x80 is stripped first.
Denies(loc, fc) == OpBit(fc % 128) \in loc.deny_ops

\* Mutant: the last block with the unit id wins.
MutFindLast(blocks, default, id) ==
  IF \E i \in DOMAIN blocks : blocks[i].slave_id = id
  THEN blocks[CHOOSE i \in DOMAIN blocks :
                /\ blocks[i].slave_id = id
                /\ \A j \in DOMAIN blocks : blocks[j].slave_id = id => j <= i]
  ELSE default

\* The first block with this unit id, else the default, which may be NULL.
FindLocation(blocks, default, id) ==
  IF \E i \in DOMAIN blocks : blocks[i].slave_id = id
  THEN blocks[CHOOSE i \in DOMAIN blocks :
                /\ blocks[i].slave_id = id
                /\ \A j \in DOMAIN blocks : blocks[j].slave_id = id => i <= j]
  ELSE default

\* Mutant: deny_ops is not looked at.
MutVerdictUnfiltered(loc, fc) ==
  IF loc = NULL THEN "close"
  ELSE IF loc.mode = "rtu" THEN "bridge"
  ELSE IF loc.host THEN "proxy" ELSE "close"

\* What the preread handler does with a connection whose first request names
\* the location loc and the function code fc: close it (BAD_GATEWAY, FORBIDDEN),
\* take it over, or leave it to the proxy module.
Verdict(loc, fc) ==
  IF loc = NULL THEN "close"
  ELSE IF Denies(loc, fc) THEN "close"
  ELSE IF loc.mode = "rtu" THEN "bridge"
  ELSE IF loc.host THEN "proxy" ELSE "close"
=============================================================================
