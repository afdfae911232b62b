---------------------------- MODULE DeviceModels ----------------------------
(***************************************************************************)
(* devices/definition.ts, device-builders.ts, enums.ts: the tables of the  *)
(* supported models, and devices/struct.ts, field.ts, device.ts: how a     *)
(* register window is decoded and how a setter is encoded.                 *)
(*                                                                         *)
(* A register is a 16-bit word.  What is printed in MQTT is a pair: a text *)
(* and a number, one of which carries the value.                           *)
(***************************************************************************)
EXTENDS Integers, Sequences, SequencesExt, FiniteSetsExt

Field(kind, name, address, size, of) ==
  [kind |-> kind, name |-> name, address |-> address, size |-> size, of |-> of]

Uint(name, address) == Field("uint", name, address, 1, <<>>)
Bool(name, address) == Field("bool", name, address, 1, <<>>)
Enum(name, address, options) == Field("enum", name, address, 1, options)
Decimal(name, address, scale) == Field("decimal", name, address, 1, <<scale>>)
Ranged(name, address, scale, max) == Field("decimal", name, address, 1, <<scale, max>>)
DecimalArray(name, address, size, scale) == Field("array", name, address, size, <<scale>>)
Ascii(name, address, size) == Field("string", name, address, size, <<>>)
SwapAscii(name, address, size) == Field("swap", name, address, size, <<>>)
Version(name, address) == Field("version", name, address, 2, <<>>)
Serial(name, address) == Field("serial", name, address, 4, <<>>)
-----------------------------------------------------------------------------
OutputMode == [STOP |-> 0, INVERTER_OUTPUT |-> 1, BYPASS_OUTPUT_C |-> 2, BYPASS_OUTPUT_D |-> 3,
               LOAD_MATCHING |-> 4]
BatteryState == [STANDBY |-> 0, CHARGE |-> 1, DISCHARGE |-> 2]
UpsMode == [CUSTOMIZED |-> 1, PV_PRIORITY |-> 2, STANDARD |-> 3, TIME_CONTROL |-> 4]
MachineAddress == [SLAVE |-> 0, MASTER |-> 1]
AutoSleepMode == [THIRTY_SECONDS |-> 2, ONE_MINUTE |-> 3, FIVE_MINUTES |-> 4, NEVER |-> 5]
LedMode == [LOW |-> 1, HIGH |-> 2, SOS |-> 3, OFF |-> 4]
EcoShutdown == [ONE_HOUR |-> 1, TWO_HOURS |-> 2, THREE_HOURS |-> 3, FOUR_HOURS |-> 4]
ChargingMode == [STANDARD |-> 0, SILENT |-> 1, TURBO |-> 2]

(* The fields are grouped by the models that share them; those of one name *)
(* keep the order they have in the code, which is all that lookups see.    *)
Core ==
  << Ascii("device_type", 10, 6), Serial("serial_number", 17), Version("arm_version", 23),
     Version("dsp_version", 25), Uint("dc_input_power", 36), Uint("ac_input_power", 37),
     Uint("ac_output_power", 38), Uint("dc_output_power", 39),
     Uint("total_battery_percent", 43), Bool("ac_output_on", 48), Bool("dc_output_on", 49),
     Uint("pack_num_max", 91) >>

Control ==
  << Enum("ups_mode", 3001, UpsMode), Bool("split_phase_on", 3004),
     Enum("split_phase_machine_mode", 3005, MachineAddress), Uint("pack_num", 3006),
     Bool("ac_output_on", 3007), Bool("dc_output_on", 3008), Bool("grid_charge_on", 3011),
     Bool("time_control_on", 3013), Uint("battery_range_start", 3015),
     Uint("battery_range_end", 3016), Bool("bluetooth_connected", 3036),
     Enum("auto_sleep_mode", 3061, AutoSleepMode) >>

Ac200m == Core \o
  << Decimal("power_generation", 41, 1), Enum("ac_output_mode", 70, OutputMode),
     Uint("internal_ac_voltage", 71), Decimal("internal_current_one", 72, 1),
     Uint("internal_power_one", 73), Decimal("internal_ac_frequency", 74, 1),
     Uint("internal_dc_input_voltage", 86), Decimal("internal_dc_input_power", 87, 1),
     Decimal("internal_dc_input_current", 88, 2), Decimal("total_battery_voltage", 92, 2),
     Uint("pack_num", 96), Decimal("pack_voltage", 98, 2), Uint("pack_battery_percent", 99),
     DecimalArray("cell_voltages", 105, 16, 2), Uint("pack_num", 3006),
     Bool("ac_output_on", 3007), Bool("dc_output_on", 3008), Bool("power_off", 3060),
     Enum("auto_sleep_mode", 3061, AutoSleepMode) >>

\* The inverter's fields that AC300, AC500 and EP500 have alike.
Inverter ==
  << Decimal("power_generation", 41, 1), Enum("ac_output_mode", 70, OutputMode),
     Decimal("internal_ac_voltage", 71, 1), Decimal("internal_current_one", 72, 1),
     Uint("internal_power_one", 73), Decimal("internal_ac_frequency", 74, 2),
     Decimal("internal_current_two", 75, 1), Uint("internal_power_two", 76),
     Decimal("ac_input_voltage", 77, 1), Uint("internal_power_three", 79),
     Decimal("ac_input_frequency", 80, 2), Decimal("internal_dc_input_voltage", 86, 1),
     Uint("internal_dc_input_power", 87), Decimal("total_battery_voltage", 92, 1),
     Uint("pack_num", 96), DecimalArray("cell_voltages", 105, 16, 2) >>

\* Those that AC300 and AC500 have alike.
Modular ==
  << Decimal("aux_dc_voltage", 83, 1), Decimal("aux_dc_current", 84, 1), Uint("aux_dc_power", 85),
     Decimal("total_battery_current", 93, 1), Decimal("pack_voltage", 98, 2),
     Uint("pack_battery_percent", 99), Decimal("dc_input_1_voltage", 163, 1),
     Uint("dc_input_1_power", 165), Decimal("dc_input_2_voltage", 170, 1),
     Uint("dc_input_2_power", 172) >>

Ac300 == Core \o Inverter \o Modular \o
  << Ranged("internal_current_three", 78, 1, 100), Ranged("internal_dc_input_current", 88, 1, 15),
     Enum("pack_status", 97, BatteryState), Version("pack_bms_version", 201) >> \o Control

Ac500 == Core \o Inverter \o Modular \o
  << Decimal("internal_current_three", 78, 1), Decimal("internal_dc_input_current", 88, 1) >>
  \o Control

Ep500 == Core \o Inverter \o
  << Decimal("internal_current_three", 78, 1), Ranged("internal_dc_input_current", 88, 1, 15),
     Decimal("pack_voltage", 92, 1), Uint("pack_battery_percent", 94) >> \o Control

Eb3a == Core \o
  << Decimal("ac_input_voltage", 77, 1), Decimal("internal_dc_input_voltage", 86, 2),
     Bool("ac_output_on", 3007), Bool("dc_output_on", 3008), Enum("led_mode", 3034, LedMode),
     Bool("power_off", 3060), Bool("eco_on", 3063), Enum("eco_shutdown", 3064, EcoShutdown),
     Enum("charging_mode", 3065, ChargingMode), Bool("power_lifting_on", 3066) >>

Ac60 ==
  << Uint("total_battery_percent", 102), SwapAscii("device_type", 110, 6),
     Serial("serial_number", 116), Decimal("power_generation", 154, 1),
     SwapAscii("device_type", 1101, 6), Serial("serial_number", 1107),
     Decimal("power_generation", 1202, 1), SwapAscii("battery_type", 6101, 6),
     Serial("battery_serial_number", 6107), Version("bcu_version", 6175) >>

Ep600 == Ac60 \o
  << Uint("battery_range_start", 2022), Uint("battery_range_end", 2023),
     Uint("max_ac_input_power", 2213), Uint("max_ac_input_current", 2214),
     Uint("max_ac_output_power", 2215), Uint("max_ac_output_current", 2216),
     Version("bmu_version", 6178), Version("safety_module_version", 6181),
     Version("high_voltage_module_version", 6184) >>
-----------------------------------------------------------------------------
(* A window is where a read starts and how many registers it reads.  A     *)
(* writable range is half-open.                                            *)

Definition(struct, packs, polling, pack, logging, packLogging, writable) ==
  [struct |-> struct, packNumMax |-> packs, polling |-> polling, pack |-> pack,
   logging |-> logging, packLogging |-> packLogging, writable |-> writable]

\* Fault: the logger's first window ends before the output switches.
CompactLogsLess(struct, packs) ==
  Definition(struct, packs, << <<10, 40>>, <<70, 21>>, <<3001, 61>> >>, << <<91, 37>> >>,
             << <<10, 30>>, <<70, 21>>, <<3001, 61>> >>, << <<91, 119>> >>, << <<3000, 3062>> >>)

\* What AC200M, EP500 and EP500P declare alike, and AC300 and AC500.
Compact(struct, packs) ==
  Definition(struct, packs, << <<10, 40>>, <<70, 21>>, <<3001, 61>> >>, << <<91, 37>> >>,
             << <<0, 70>>, <<70, 21>>, <<3001, 61>> >>, << <<91, 119>> >>, << <<3000, 3062>> >>)
Split(struct, packs) ==
  Definition(struct, packs, << <<10, 40>>, <<70, 90>>, <<160, 46>>, <<3001, 61>> >>,
             << <<91, 37>> >>, << <<0, 70>>, <<70, 90>>, <<160, 46>>, <<3000, 62>> >>,
             << <<91, 119>> >>, << <<3000, 3062>> >>)

Eb3aDefinition ==
  Definition(Eb3a, 1, << <<10, 40>>, <<70, 21>>, <<3034, 1>>, <<3060, 7>> >>, <<>>,
             << <<10, 53>>, <<70, 66>>, <<136, 74>>, <<3000, 67>> >>, <<>>, << <<3000, 3067>> >>)
Ac60Definition ==
  Definition(Ac60, 1, << <<100, 62>> >>, <<>>,
             << <<100, 62>>, <<1100, 51>>, <<1200, 90>>, <<1300, 31>>, <<1400, 48>>, <<1500, 30>>,
                <<2000, 67>>, <<2200, 29>>, <<6000, 31>>, <<6100, 100>>, <<6300, 52>> >>, <<>>, <<>>)
Ep600Definition ==
  Definition(Ep600, 1, << <<100, 62>>, <<2022, 2>> >>, <<>>,
             << <<100, 62>>, <<1100, 51>>, <<1200, 90>>, <<1300, 31>>, <<1400, 48>>, <<1500, 30>>,
                <<2000, 89>>, <<2200, 41>>, <<2300, 36>>, <<6000, 32>>, <<6100, 100>>,
                <<6300, 100>> >>, <<>>, <<>>)

Definitions ==
  [AC200M |-> Compact(Ac200m, 3), AC300 |-> Split(Ac300, 4), AC500 |-> Split(Ac500, 6),
   AC60 |-> Ac60Definition, EB3A |-> Eb3aDefinition, EP500 |-> Compact(Ep500, 1),
   EP500P |-> Compact(Ep500, 1), EP600 |-> Ep600Definition]

Models == DOMAIN Definitions
-----------------------------------------------------------------------------
(* Decoding.                                                               *)

Covers(window, field) ==
  /\ window[1] <= field.address
  /\ field.address + field.size <= window[1] + window[2]

\* The field's words among those that the window holds.
Slice(window, words, field) ==
  SubSeq(words, field.address - window[1] + 1, field.address - window[1] + field.size)

Bytes(words) ==
  [i \in 1 .. 2 * Len(words) |->
     IF i % 2 = 1 THEN words[(i + 1) \div 2] \div 256 ELSE words[i \div 2] % 256]

\* Up to the first NUL; toString("ascii") drops the eighth bit.
ReadAscii(bytes) ==
  LET nul == SelectInSeq(bytes, LAMBDA b : b = 0)
      end == IF nul = 0 THEN Len(bytes) ELSE nul - 1
  IN  [i \in 1 .. end |-> bytes[i] % 128]

SwapBytePairs(bytes) ==
  [i \in DOMAIN bytes |-> bytes[IF i % 2 = 1 THEN i + 1 ELSE i - 1]]

\* What is printed of a value: a text, digits, or the words behind digits.
Text(text) == <<text, <<>>>>
Digits(words) == <<"digits", words>>

\* Fault: only the register's first byte is looked at.
FirstByteIsOn(word) == IF word \div 256 = 1 THEN Text("ON") ELSE Text("OFF")

SerializeBool(word) == IF word = 1 THEN Text("ON") ELSE Text("OFF")

SerializeEnum(options, word) ==
  IF \E name \in DOMAIN options : options[name] = word
  THEN Text(CHOOSE name \in DOMAIN options : options[name] = word)
  ELSE <<"UNKNOWN_", <<word>>>>

\* parse() of the field and serializeValue() of the result.  Words of a number are
\* listed from the least significant, a scale is the power of ten it is divided by.
Serialize(field, words) ==
  CASE field.kind = "uint" -> Digits(words)
    [] field.kind = "bool" -> SerializeBool(words[1])
    [] field.kind = "enum" -> SerializeEnum(field.of, words[1])
    [] field.kind \in {"decimal", "array"} -> <<"scaled", <<field.of[1]>> \o words>>
    [] field.kind = "string" -> <<"ascii", ReadAscii(Bytes(words))>>
    [] field.kind = "swap" -> <<"ascii", ReadAscii(SwapBytePairs(Bytes(words)))>>
    [] field.kind = "version" -> <<"hundredths", words>>
    [] field.kind = "serial" -> Digits(words)

IsInRange(field, words) ==
  field.kind = "decimal" /\ Len(field.of) = 2 => words[1] <= field.of[2] * 10 ^ field.of[1]

\* DeviceStruct.parse: the positions of the fields that are published from a window.
Parsed(struct, window, words) ==
  {i \in DOMAIN struct :
     Covers(window, struct[i]) /\ IsInRange(struct[i], Slice(window, words, struct[i]))}
-----------------------------------------------------------------------------
(* Setters.                                                                *)

IsAddressWritable(definition, address) ==
  \E i \in DOMAIN definition.writable :
    definition.writable[i][1] <= address /\ address < definition.writable[i][2]

\* Fault: every field of the name, writable or not.
OfName(definition, name) == {i \in DOMAIN definition.struct : definition.struct[i].name = name}

\* The positions of the fields of a name that can be set; a setter writes the first.
Setters(definition, name) ==
  {i \in DOMAIN definition.struct :
     /\ definition.struct[i].name = name
     /\ IsAddressWritable(definition, definition.struct[i].address)}

\* The text ON or OFF is a boolean before anything else, digits are a number.
IsBoolean(payload) == payload \in {Text("ON"), Text("OFF")}
IsNumber(payload) == payload[1] = "digits"

\* What buildSetterCommand encodes, or -1 where it throws.
Encode(field, payload) ==
  IF IsNumber(payload)
  THEN IF field.kind # "bool" THEN payload[2][1] ELSE -1
  ELSE CASE field.kind = "bool" /\ IsBoolean(payload) -> IF payload = Text("ON") THEN 1 ELSE 0
         [] field.kind = "enum" /\ ~IsBoolean(payload) /\ payload[1] \in DOMAIN field.of ->
              field.of[payload[1]]
         [] OTHER -> -1

\* What a register holds.
RegisterValue == 0 .. 65535
IsUint16(value) == value \in RegisterValue
-----------------------------------------------------------------------------
\* What is used of the tables besides how fields and windows fit together: a field
\* that can be set is one register, alike in every field of its name, and an enum's
\* options have distinct register values and are not spelled like other payloads.
AreOptions(options) ==
  /\ \A name \in DOMAIN options : options[name] \in RegisterValue /\ name \notin {"", "ON", "digits"}
  /\ \A name, other \in DOMAIN options : options[name] = options[other] => name = other

IsField(field) ==
  /\ field.address \in Nat /\ field.size \in Nat \ {0}
  /\ field.kind = "enum" => AreOptions(field.of)

IsOneRegister(field) == field.size = 1 /\ field.kind \in {"uint", "bool", "enum"}

IsWindow(window) == window[1] \in Nat /\ window[2] \in Nat

ASSUME TablesAssumption ==
  \A m \in Models :
    /\ \A i \in DOMAIN Definitions[m].struct : i \in Nat /\ IsField(Definitions[m].struct[i])
    /\ \A i \in DOMAIN Definitions[m].struct :
         IsAddressWritable(Definitions[m], Definitions[m].struct[i].address) =>
           /\ IsOneRegister(Definitions[m].struct[i])
           /\ \A j \in DOMAIN Definitions[m].struct :
                Definitions[m].struct[j].name = Definitions[m].struct[i].name =>
                  /\ Definitions[m].struct[j].kind = Definitions[m].struct[i].kind
                  /\ Definitions[m].struct[j].of = Definitions[m].struct[i].of
    /\ \A window \in ToSet(Definitions[m].polling) \cup ToSet(Definitions[m].pack) : IsWindow(window)
=============================================================================
