------------------------------ MODULE MCModbusIo ------------------------------
(* Two inputs and one or two outputs for TLC, and bytes of four values for  *)
(* the registers they are read from and written to.                         *)
EXTENDS ModbusIo, RegisterConverter, TLC

CONSTANTS i1, i2, p1, p2

\* Everything mapped, or one input and the second output without an address.
MCMaps == {{i1, i2, p1, p2}, {i1, p1}}

MCOutputs == <<p1, p2>>

\* What is written to a device and read back is the value that was written, negative
\* values and the boundaries of every width included; with WordSwap only for one register,
\* since TryToRegisters leaves the bytes of the others as they are. The conversion keeps
\* no state, so it is enough to look at it when the program starts.
RoundTrips ==
  Init =>
    \A n \in RegisterCounts, signed \in BOOLEAN, endianness \in Endianness :
      n = 1 \/ endianness # "WordSwap" => RoundTrip(n, signed, endianness)
=============================================================================
