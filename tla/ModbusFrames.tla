---------------------------- MODULE ModbusFrames ----------------------------
(***************************************************************************)
(* core/commands.ts and core/crc.ts: how a command becomes a request frame *)
(* and how the bytes a session has gathered become its outcome.  The bytes *)
(* are real ones here, as the properties are about framing and checksums:  *)
(* where DeviceSession says that a frame fits a command or does not, this  *)
(* module computes it.                                                     *)
(*                                                                         *)
(* One command is constructed, the device replies, and the reply arrives   *)
(* in chunks, perhaps damaged on its way.  (Control messages, which are    *)
(* not frames, are left to DeviceSession.)                                 *)
(***************************************************************************)
EXTENDS Integers, Sequences, SequencesExt, FiniteSetsExt

CONSTANTS Command,       \* the constructor calls considered, in range or not
          Register(_),   \* what the device holds in a register
          ExceptionCode, \* the exception codes the device may send
          Damage,        \* pairs of masks a burst of noise puts on two bytes
          DamageAt,      \* where such a burst may begin
          ChunkSize      \* how many bytes a notification may bring

Byte == 0 .. 255
Uint16 == 0 .. 65535

Constructor ==
  [kind : {"read"}, address : Int, quantity : Int]
    \cup [kind : {"write"}, address : Int, value : Int]
    \cup [kind : {"writeMany"}, address : Int, data : Seq(Byte)]

ASSUME FramesAssumption ==
  /\ Command \subseteq Constructor
  /\ ExceptionCode \subseteq Byte
  /\ Damage \subseteq (Byte \X Byte) \ {<<0, 0>>}
  /\ DamageAt \subseteq Nat \ {0}
  /\ ChunkSize \subseteq Nat \ {0}
  /\ \A c \in Command :
       c.kind = "read" => \A i \in 0 .. c.quantity - 1 : Register(c.address + i) \in Uint16

VARIABLES command,   \* the command being performed
          frame,     \* its request frame, empty if there is none
          reply,     \* the frame the device notifies, empty before it does
          origin,    \* history: the command the device replied to, how, and
                     \* whether noise has damaged the reply
          received,  \* how many bytes of it have arrived
          outcome    \* what became of the command

vars == <<command, frame, reply, origin, received, outcome>>
-----------------------------------------------------------------------------
(* crc.ts                                                                  *)

Bit(x, n) == (x \div 2^n) % 2

\* Of two 16-bit numbers, from the highest bit.
Xor(x, y) ==
  LET from[n \in 0 .. 16] ==
        IF n = 0 THEN 0 ELSE 2 * from[n - 1] + ((Bit(x, 16 - n) + Bit(y, 16 - n)) % 2)
  IN  from[16]

Polynomial == 40961   \* 0xa001

\* Fault: the polynomial is not bit-reversed.
ShiftForward(crc) ==
  IF crc % 2 = 1 THEN Xor(crc \div 2, 32773) ELSE crc \div 2

\* One round of the inner loop.
Shift(crc) ==
  IF crc % 2 = 1 THEN Xor(crc \div 2, Polynomial) ELSE crc \div 2

\* One round of the outer loop.
AddByte(crc, byte) ==
  LET shifted[n \in 0 .. 8] == IF n = 0 THEN Xor(crc, byte) ELSE Shift(shifted[n - 1])
  IN  shifted[8]

\* A loop over a sequence, as one over each half of a part of it: round[item][value]
\* is what one round makes of a 16-bit value.
InOrder(round, data, initial) ==
  LET over[part \in [first : DOMAIN data, last : DOMAIN data, value : Uint16]] ==
        LET middle == (part.first + part.last) \div 2
            half == over[[first |-> part.first, last |-> middle, value |-> part.value]]
        IN  IF part.first = part.last
            THEN round[data[part.first]][part.value]
            ELSE over[[first |-> middle + 1, last |-> part.last, value |-> half]]
  IN  over[[first |-> 1, last |-> Len(data), value |-> initial]]

\* The outer loop.
ModbusCrc(data) ==
  InOrder([byte \in Byte |-> [crc \in Uint16 |-> AddByte(crc, byte)]], data, 65535)

AppendCrc(body) ==
  LET crc == ModbusCrc(body) IN body \o <<crc % 256, crc \div 256>>

\* Fault: only the low byte of the checksum is compared.
HasValidLowCrc(bytes) ==
  /\ Len(bytes) >= 3
  /\ bytes[Len(bytes) - 1] = ModbusCrc(SubSeq(bytes, 1, Len(bytes) - 2)) % 256

HasValidCrc(bytes) ==
  /\ Len(bytes) >= 3
  /\ LET expected == ModbusCrc(SubSeq(bytes, 1, Len(bytes) - 2))
     IN  /\ bytes[Len(bytes) - 1] = expected % 256
         /\ bytes[Len(bytes)] = expected \div 256
-----------------------------------------------------------------------------
(* commands.ts: a command is a record of the constructor's arguments.      *)

Uint16Bytes(n) == <<(n \div 256) % 256, n % 256>>

\* The function code of each class.
FunctionCode(c) ==
  CASE c.kind = "read" -> 3 [] c.kind = "write" -> 6 [] c.kind = "writeMany" -> 16

\* The constructor throws otherwise.
InRange(c) ==
  /\ c.address \in Uint16
  /\ c.kind = "read" => c.quantity \in 1 .. 125
  /\ c.kind = "write" => c.value \in Uint16
  /\ c.kind = "writeMany" => Len(c.data) % 2 = 0 /\ Len(c.data) \div 2 \in 1 .. 123

Payload(c) ==
  Uint16Bytes(c.address) \o
    CASE c.kind = "read"  -> Uint16Bytes(c.quantity)
      [] c.kind = "write" -> Uint16Bytes(c.value)
      [] c.kind = "writeMany" ->
           Uint16Bytes(Len(c.data) \div 2) \o <<Len(c.data) % 256>> \o c.data

Frame(c) == AppendCrc(<<1, FunctionCode(c)>> \o Payload(c))

\* Fault: the two bytes of the checksum are not counted.
ResponseSizeShort(c) == IF c.kind = "read" THEN 2 * c.quantity + 3 ELSE 8

ResponseSize(c) == IF c.kind = "read" THEN 2 * c.quantity + 5 ELSE 8

IsExceptionResponse(c, bytes) ==
  /\ Len(bytes) = 5
  /\ bytes[1] = 1
  /\ bytes[2] = FunctionCode(c) + 128
  /\ HasValidCrc(bytes)

\* Fault: a write accepts any acknowledgement of its kind.
IsValidAcknowledgement(c, bytes) ==
  /\ Len(bytes) = ResponseSize(c)
  /\ bytes[1] = 1
  /\ bytes[2] = FunctionCode(c)
  /\ HasValidCrc(bytes)

\* The byte count of a read, or the echo of a write's first six bytes.
IsValidResponse(c, bytes) ==
  /\ Len(bytes) = ResponseSize(c)
  /\ bytes[1] = 1
  /\ bytes[2] = FunctionCode(c)
  /\ HasValidCrc(bytes)
  /\ IF c.kind = "read" THEN bytes[3] = 2 * c.quantity
                        ELSE SubSeq(bytes, 1, 6) = SubSeq(Frame(c), 1, 6)

ParseResponse(c, bytes) ==
  CASE c.kind = "read"  -> SubSeq(bytes, 4, Len(bytes) - 2)
    [] c.kind = "write" -> SubSeq(bytes, 5, 6)
    [] c.kind = "writeMany" -> bytes
-----------------------------------------------------------------------------
(* The device (external), and the way of its reply to handleNotification.  *)

\* The bytes of the registers from a on, n of them.
Registers(a, n) ==
  [i \in 1 .. 2 * n |-> Uint16Bytes(Register(a + (i - 1) \div 2))[((i - 1) % 2) + 1]]

Answer(c) ==
  IF c.kind = "read"
  THEN AppendCrc(<<1, 3, (2 * c.quantity) % 256>> \o Registers(c.address, c.quantity))
  ELSE AppendCrc(SubSeq(Frame(c), 1, 6))

Exception(c, code) == AppendCrc(<<1, FunctionCode(c) + 128, code>>)

NoOrigin == [of |-> command, how |-> "none", damaged |-> FALSE]

Init ==
  /\ command \in Command
  /\ frame = <<>>
  /\ reply = <<>>
  /\ origin = NoOrigin
  /\ received = 0
  /\ outcome = "new"

Construct ==
  /\ outcome = "new"
  /\ IF InRange(command)
     THEN frame' = Frame(command) /\ outcome' = "sent"
     ELSE outcome' = "refused" /\ UNCHANGED frame
  /\ UNCHANGED <<command, reply, origin, received>>

\* The reply may be a late one, to a command that was performed before.
DeviceReplies(c, how, bytes) ==
  /\ outcome = "sent"
  /\ reply = <<>>
  /\ InRange(c)
  /\ reply' = bytes
  /\ origin' = [of |-> c, how |-> how, damaged |-> FALSE]
  /\ UNCHANGED <<command, frame, received, outcome>>

\* A burst of at most 16 bits.
Noise(i, masks) ==
  /\ received = 0
  /\ i < Len(reply)
  /\ ~origin.damaged
  /\ reply' = [reply EXCEPT ![i] = Xor(@, masks[1]), ![i + 1] = Xor(@, masks[2])]
  /\ origin' = [origin EXCEPT !.damaged = TRUE]
  /\ UNCHANGED <<command, frame, received, outcome>>

\* What handleNotification makes of the bytes gathered so far.
OutcomeOf(c, bytes) ==
  CASE IsExceptionResponse(c, bytes) -> "exception"
    [] ~IsExceptionResponse(c, bytes) /\ Len(bytes) = ResponseSize(c) ->
         IF IsValidResponse(c, bytes) THEN "completed" ELSE "malformed"
    [] ~IsExceptionResponse(c, bytes) /\ Len(bytes) > ResponseSize(c) -> "malformed"
    [] OTHER -> "sent"

\* A chunk of the reply is appended to the response buffer.
HandleNotification(size) ==
  /\ outcome = "sent"
  /\ received < Len(reply)
  /\ received' = Min({received + size, Len(reply)})
  /\ outcome' = OutcomeOf(command, SubSeq(reply, 1, received'))
  /\ UNCHANGED <<command, frame, reply, origin>>

Next ==
  \/ Construct
  \/ \E c \in Command :
       \/ InRange(c) /\ DeviceReplies(c, "answer", Answer(c))
       \/ \E code \in ExceptionCode : DeviceReplies(c, "exception", Exception(c, code))
  \/ \E i \in DamageAt, masks \in Damage : Noise(i, masks)
  \/ \E size \in ChunkSize : HandleNotification(size)

Spec == Init /\ [][Next]_vars
-----------------------------------------------------------------------------
\* Reference definition of a sound checksum: the bits in the order in which they
\* are sent, the first 16 complemented, are a multiple of x^16 + x^15 + x^2 + 1.
Bits(bytes) ==
  [n \in 1 .. 8 * Len(bytes) |->
     LET bit == Bit(bytes[((n - 1) \div 8) + 1], (n - 1) % 8)
     IN  IF n <= 16 THEN 1 - bit ELSE bit]

Divide(r, bit) ==
  IF r >= 32768 THEN Xor((2 * r + bit) % 65536, 32773) ELSE 2 * r + bit

Remainder(bits) == InOrder([bit \in {0, 1} |-> [r \in Uint16 |-> Divide(r, bit)]], bits, 0)

IsCodeword(bytes) == Remainder(Bits(bytes)) = 0

\* Whatever a constructor accepts, a device that decodes the frame finds the
\* arguments in it, no field truncated and no length at odds with another; and the
\* loop of modbusCrc, with its reflected polynomial, and the order in which
\* appendModbusCrc adds the bytes make it what MODBUS calls a valid frame.
FrameSaysCommand ==
  LET word(i) == 256 * frame[i] + frame[i + 1]
  IN  frame # <<>> =>
        /\ IsCodeword(frame)
        /\ word(3) = command.address
        /\ CASE command.kind = "read"  -> word(5) = command.quantity /\ 2 * word(5) <= 255
             [] command.kind = "write" -> word(5) = command.value
             [] command.kind = "writeMany" ->
                  /\ 2 * word(5) = frame[7] /\ Len(frame) = frame[7] + 9
                  /\ SubSeq(frame, 8, Len(frame) - 2) = command.data

\* What the device holds or has stored.
Expected(c) ==
  CASE c.kind = "read"  -> Registers(c.address, c.quantity)
    [] c.kind = "write" -> Uint16Bytes(c.value)
    [] c.kind = "writeMany" -> reply

\* handleNotification decides on the intact reply to the command in flight when its
\* last byte arrives and no earlier, however it is split, and rightly; and what
\* parseResponse returns is what the device holds or has stored.
IntactReplyDecidesWhenWhole ==
  origin.how # "none" /\ origin.of = command /\ ~origin.damaged =>
    /\ outcome = IF received < Len(reply) THEN "sent"
                 ELSE IF origin.how = "answer" THEN "completed" ELSE "exception"
    /\ outcome = "completed" => ParseResponse(command, reply) = Expected(command)

\* Noise never passes for a response or an exception (isValidResponse,
\* isExceptionResponse), in this command's reply or in another one's.
NoiseIsRejected == origin.damaged => outcome \in {"sent", "malformed"}

\* What isValidResponse and isExceptionResponse cannot tell apart, and nothing
\* else: reads of one length, multiple writes to the same registers, and the
\* exceptions of one function.  It is why a session that has given up an answer
\* must not take another command.
ConfusesOnlyLookalikes ==
  outcome \in {"completed", "exception"} =>
    /\ origin.of.kind = command.kind
    /\ outcome = "exception" <=> origin.how = "exception"
    /\ outcome = "completed" =>
         CASE command.kind = "read"  -> origin.of.quantity = command.quantity
           [] command.kind = "write" -> origin.of = command
           [] command.kind = "writeMany" ->
                /\ origin.of.address = command.address
                /\ Len(origin.of.data) = Len(command.data)
=============================================================================
