------------------------ MODULE MCModbusConnection ------------------------
(* A small instance of ModbusConnection: a read and a write. *)
EXTENDS ModbusConnection

CONSTANTS read1, write1
=============================================================================
