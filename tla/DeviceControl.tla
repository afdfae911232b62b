---------------------------- MODULE DeviceControl ----------------------------
(***************************************************************************)
(* One control of one device as seen over MQTT: a command payload becomes  *)
(* a register write, and the reads of the polling cycle publish what the   *)
(* registers hold (broker/client.ts, app/device-executor.ts, devices/).    *)
(*                                                                         *)
(* The write goes through the device's work queue, so that reads may come  *)
(* in between.  The device, which the repository does not contain, keeps   *)
(* what is written to it and may change any register on its own.           *)
(***************************************************************************)
EXTENDS DeviceModels

CONSTANTS Sample,             \* the integers that are sent as payloads
          Sensor(_),          \* what the registers of the other names hold
          MaxCommands,        \* bound on the commands
          MaxDeviceChanges    \* bound on the registers the device changes itself

ASSUME ControlAssumption ==
  Sample \subseteq Int /\ MaxCommands \in Nat /\ MaxDeviceChanges \in Nat

VARIABLES
  model,      \* the model of the device
  control,    \* the name of the field that is commanded
  known,      \* the bridge has seen a parser message of the device
  registers,  \* the registers of the fields of that name
  queue,      \* the writes that wait in the work queue
  topic,      \* what its state topic shows
  asked,      \* per register, the payload of the last write, unless it changed since
  refused,    \* the last command that was refused, if any
  commands, deviceChanges

controlVars == <<model, control, known, registers, queue, topic, asked, refused, commands, deviceChanges>>

Nothing == Text("")
TheDefinition == Definitions[model]
Struct == TheDefinition.struct

\* The names that some field in a writable range has, and a name's fields.
SetterNames(m) ==
  {field.name : field \in {f \in ToSet(Definitions[m].struct) :
                             IsAddressWritable(Definitions[m], f.address)}}
AddressesOf(m, name) ==
  {field.address : field \in {f \in ToSet(Definitions[m].struct) : f.name = name}}

OptionsOf(field) == IF field.kind = "enum" THEN DOMAIN field.of ELSE {}

\* Payloads: the booleans, integers and the field's own options.
Payloads(field) ==
  {Text("ON"), Text("OFF")} \cup {Digits(<<n>>) : n \in Sample}
    \cup {Text(name) : name \in OptionsOf(field)}

ControlInit ==
  /\ model \in Models
  /\ control \in SetterNames(model) \cup {"total_battery_percent"}
  /\ known = FALSE
  /\ registers = [a \in AddressesOf(model, control) |-> 0]
  /\ queue = <<>>
  /\ topic = Nothing
  /\ asked = [a \in AddressesOf(model, control) |-> Nothing]
  /\ refused = Nothing
  /\ commands = 0
  /\ deviceChanges = 0

\* What the payload of an accepted command looks like when it is read back.
Echo(field, payload) ==
  IF field.kind = "enum" /\ IsNumber(payload) THEN SerializeEnum(field.of, payload[2][1]) ELSE payload

\* handleIncomingCommand: the topic of a device that has not published yet, or of
\* a field without setter, is ignored; a payload that cannot be encoded is refused.
HandleIncomingCommand(payload) ==
  /\ commands < MaxCommands
  /\ commands' = commands + 1
  /\ known
  /\ \E position \in Setters(TheDefinition, control) :
       LET field == Struct[position]
           value == Encode(field, payload)
       IN  /\ \A other \in Setters(TheDefinition, control) : position <= other
           /\ IF IsUint16(value)
              THEN /\ queue' = Append(queue, [address |-> field.address, value |-> value,
                                              asked |-> Echo(field, payload)])
                   /\ UNCHANGED refused
              ELSE refused' = payload /\ UNCHANGED queue
  /\ UNCHANGED <<model, control, known, registers, topic, asked, deviceChanges>>

\* The head of the queue is performed; if that fails, the command is lost.
PerformWrite ==
  /\ queue # <<>>
  /\ queue' = Tail(queue)
  /\ LET write == Head(queue) IN
     \/ /\ registers' = [registers EXCEPT ![write.address] = write.value]
        /\ asked' = [asked EXCEPT ![write.address] = write.asked]
     \/ UNCHANGED <<registers, asked>>
  /\ UNCHANGED <<model, control, known, topic, refused, commands, deviceChanges>>

\* The words of a window.
Words(window) ==
  [i \in 1 .. window[2] |->
     LET a == window[1] + i - 1 IN IF a \in DOMAIN registers THEN registers[a] ELSE Sensor(a)]

\* A read of the polling cycle is performed, decoded and published, each field to
\* the topic of its name, where the last one of a name stays.
Read(window) ==
  LET words == Words(window)
      parsed == Parsed(Struct, window, words)
      shown == {i \in parsed : Struct[i].name = control}
      field == Struct[Max(shown)]
  IN  /\ topic' = IF shown = {} THEN topic ELSE Serialize(field, Slice(window, words, field))
      /\ known' = (known \/ parsed # {})
      /\ UNCHANGED <<model, control, registers, queue, asked, refused, commands, deviceChanges>>

Windows == ToSet(TheDefinition.polling) \cup ToSet(TheDefinition.pack)

DeviceChanges(a) ==
  /\ deviceChanges < MaxDeviceChanges
  /\ deviceChanges' = deviceChanges + 1
  /\ \E value \in {0, 1} \ {registers[a]} : registers' = [registers EXCEPT ![a] = value]
  /\ asked' = [asked EXCEPT ![a] = Nothing]
  /\ UNCHANGED <<model, control, known, queue, topic, refused, commands>>

ControlNext ==
  \/ \E i \in DOMAIN Struct : Struct[i].name = control /\ \E payload \in Payloads(Struct[i]) :
       HandleIncomingCommand(payload)
  \/ PerformWrite
  \/ \E window \in Windows : Read(window)
  \/ \E a \in DOMAIN registers : DeviceChanges(a)

ControlSpec == ControlInit /\ [][ControlNext]_controlVars
-----------------------------------------------------------------------------
\* A write in the queue is one that its command named: it goes to a register that
\* the model lets be written, of a field of that name, with a value it can take.
\* Of an enum's names ("Payload expectations: enum fields: enum name string") only
\* OFF is refused: parseCommandValue has made it a boolean, as for LedMode.OFF.
CommandWritesItsField ==
  /\ \A i \in DOMAIN queue :
       /\ IsAddressWritable(TheDefinition, queue[i].address)
       /\ \E j \in DOMAIN Struct :
            /\ Struct[j].name = control
            /\ Struct[j].address = queue[i].address
            /\ Struct[j].kind = "bool" => queue[i].value \in {0, 1}
  /\ \A j \in DOMAIN Struct :
       Struct[j].name = control /\ refused[1] \in OptionsOf(Struct[j]) => refused = Text("OFF")

\* A read that follows a write, whatever came in between, shows on the state topic
\* what the command's payload said, unless the device has changed it.
StateFollowsCommand ==
  [][\A window \in Windows : Read(window) =>
       \A j \in DOMAIN Struct :
         /\ Struct[j].name = control
         /\ asked[Struct[j].address] # Nothing
         /\ Covers(window, Struct[j])
         => topic' = asked[Struct[j].address]]_controlVars

\* Per model: no window is too long for a read or decodes two fields of one name,
\* every field is in some window that polling or the logger reads (packLogging is
\* declared and read by neither), and the logger's windows, "broader than
\* pollingCommands", show every field that polling shows.
Fits ==
  [m \in Models |->
     LET definition == Definitions[m]
         struct == definition.struct
         polling == ToSet(definition.polling)
         logging == ToSet(definition.logging)
         inUse == polling \cup ToSet(definition.pack) \cup logging
         IsReadBy(windows, field) == \E window \in windows : Covers(window, field)
     IN  /\ \A window \in inUse \cup ToSet(definition.packLogging) :
              /\ window[2] \in 1 .. 125
              /\ \A j, k \in DOMAIN struct :
                   struct[j].name = struct[k].name /\ Covers(window, struct[j]) /\ Covers(window, struct[k])
                     => j = k
         /\ \A j \in DOMAIN struct :
              /\ IsReadBy(inUse, struct[j])
              /\ IsReadBy(polling, struct[j]) => IsReadBy(logging, struct[j])]

\* The tables of the model in use fit together (definition.ts, device-builders.ts).
SchemaFitsWindows == Fits[model]
=============================================================================
