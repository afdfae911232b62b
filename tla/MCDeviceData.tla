---------------------------- MODULE MCDeviceData ----------------------------
(***************************************************************************)
(* The two halves of the way of a value: a command and its reply as bytes  *)
(* (ModbusFrames), or a control and its registers (DeviceControl).  A      *)
(* behaviour runs one half and leaves the other where it began.            *)
(*                                                                         *)
(* Frames: commands at the limits of their constructors, on both sides of  *)
(* each limit, and commands that are easily taken for one another.  Bursts *)
(* of one bit, of bits on both sides of a byte boundary, and of 16 bits.   *)
(* Control: every model and control of the tables; two commands, and one   *)
(* change by the device.                                                   *)
(***************************************************************************)
EXTENDS ModbusFrames, DeviceControl

VARIABLE half   \* which half runs: "frames" or "control"

ReadFrom(a, n) == [kind |-> "read", address |-> a, quantity |-> n]
WriteTo(a, v) == [kind |-> "write", address |-> a, value |-> v]
WriteMany(a, n, b) == [kind |-> "writeMany", address |-> a, data |-> [i \in 1 .. n |-> b]]

Commands ==
  {ReadFrom(10, 1), ReadFrom(11, 1), ReadFrom(3, 2), ReadFrom(65535, 1), ReadFrom(65536, 1),
   ReadFrom(10, 0), ReadFrom(700, 125), ReadFrom(700, 126), ReadFrom(10, 259),
   WriteTo(10, 1), WriteTo(10, 256), WriteTo(11, 1), WriteTo(3, 65535), WriteTo(3, 65536),
   WriteMany(10, 2, 0), WriteMany(10, 2, 255), WriteMany(10, 4, 1), WriteMany(11, 2, 0),
   WriteMany(10, 3, 1), WriteMany(10, 0, 1), WriteMany(10, 246, 7), WriteMany(10, 248, 7)}

Held(a) == (a * 259 + 3) % 65536
Masks == {<<0, 1>>, <<1, 192>>, <<255, 255>>}

MCSample == {-1, 0, 2, 65536}
MCSensor(address) == (address * 263 + 17) % 65536

DataInit ==
  /\ Init /\ ControlInit
  /\ \/ half = "frames" /\ model = "AC60" /\ control = "total_battery_percent"
     \/ half = "control" /\ command = ReadFrom(10, 1)

DataNext ==
  /\ UNCHANGED half
  /\ \/ half = "frames" /\ Next /\ UNCHANGED controlVars
     \/ half = "control" /\ ControlNext /\ UNCHANGED vars

DataSpec == DataInit /\ [][DataNext]_<<vars, controlVars, half>>
=============================================================================
