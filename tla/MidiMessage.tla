----------------------------- MODULE MidiMessage ----------------------------
(***************************************************************************)
(* Midi messages (include/oscit/midi_message.h, src/midi_message.cpp): raw   *)
(* bytes with a type beside them that most operations keep in step with the *)
(* status byte.  The time to wait before a message, which no operation       *)
(* reads, is left out.                                                      *)
(***************************************************************************)
EXTENDS Integers, SequencesExt

CONSTANTS
  DataByte,     \* arguments for keys, values and lengths
  Channel,      \* arguments for channels
  Raw,          \* messages of a device or of a list of numbers
  MidiType      \* types given to set_type

ASSUME MidiAssumption ==
  /\ DataByte \subseteq Int /\ Channel \subseteq Int
  /\ Raw \subseteq Seq(0..255) \ {<<>>}
  /\ \A type \in MidiType : type \in 241..255 \/ (type \in 0..239 /\ type % 16 = 0)

VARIABLES
  midi,         \* [type, data, length]
  misled        \* ghost: a call for channels was made on a message without

midiVars == <<midi, misled>>

NoteOff == 128
NoteOn == 144
CtrlChange == 176
RawMidi == 255

(* Clock, start, stop: messages of the system have no channel. *)
OfSystem(type) == type > 240

AsByte(n) == IF n > 127 THEN 127 ELSE IF n < 0 THEN 0 ELSE n
AsChannel(n) == IF n > 16 THEN 16 ELSE IF n < 1 THEN 1 ELSE n

(* set_type_from_data *)
TypeOf(status) == IF status < 240 THEN (status \div 16) * 16 ELSE status

ChannelOf(m) == IF OfSystem(m.type) THEN 0 ELSE m.data[1] - m.type + 1

-----------------------------------------------------------------------------
(* set_key, set_value, set_length, set_channel *)

WithKey(m, n) == [m EXCEPT !.data[2] = AsByte(n)]
WithValue(m, n) == [m EXCEPT !.data[3] = AsByte(n)]
WithLength(m, n) == [m EXCEPT !.length = IF n < 0 THEN 0 ELSE n]

(* Mutant: the channel is counted from zero. *)
WithChannelZero(m, n) ==
  IF OfSystem(m.type) THEN m ELSE [m EXCEPT !.data[1] = m.type + AsChannel(n)]

WithChannel(m, n) ==
  IF OfSystem(m.type) THEN m ELSE [m EXCEPT !.data[1] = m.type + AsChannel(n) - 1]

(* set_as_note, set_as_ctrl, note_on_to_off, set_type *)
AsNote(m, note, velocity, length, channel) ==
  LET typed == [m EXCEPT !.type = IF velocity # 0 THEN NoteOn ELSE NoteOff]
  IN WithLength(WithValue(WithChannel(WithKey(typed, note), channel), velocity), length)

AsCtrl(m, ctrl, value, channel) ==
  WithValue(WithChannel(WithKey([m EXCEPT !.type = CtrlChange], ctrl), channel), value)

NoteOnToOff(m) ==
  IF m.type = NoteOn
  THEN [m EXCEPT !.data[1] = (@ - 16) % 256, !.type = NoteOff] ELSE m

WithType(m, type) ==
  [m EXCEPT !.data[1] = (IF OfSystem(type) THEN type ELSE type + ChannelOf(m) - 1) % 256,
            !.type = type]

(* set, unpack *)
FromBytes(m, data) == [m EXCEPT !.data = data, !.type = TypeOf(data[1])]
FromNumbers(m, numbers) ==
  [m EXCEPT !.data = [i \in 1..(Len(numbers) - 1) |-> numbers[i] % 256],
            !.type = TypeOf(numbers[1] % 256),
            !.length = Last(numbers)]

-----------------------------------------------------------------------------

BlankMidi == [type |-> RawMidi, data |-> <<0, 0, 0>>, length |-> 0]

MidiInit == midi = AsNote(BlankMidi, 60, 80, 500, 1) /\ misled = FALSE

(* What a device or a list gave may be shorter than three bytes: the callers *)
(* do not ask for a byte that is not there.                                 *)
Whole == Len(midi.data) >= 3
HasStatus == midi.data # <<>>

SetAsNote(note, velocity, length, channel) ==
  Whole /\ midi' = AsNote(midi, note, velocity, length, channel) /\ misled' = FALSE
SetAsCtrl(ctrl, value, channel) ==
  Whole /\ midi' = AsCtrl(midi, ctrl, value, channel) /\ misled' = FALSE
TurnOff == HasStatus /\ midi' = NoteOnToOff(midi) /\ UNCHANGED misled
SetType(type) ==
  /\ HasStatus
  /\ midi' = WithType(midi, type)
  /\ misled' = (IF OfSystem(type) THEN FALSE ELSE misled \/ OfSystem(midi.type))
SetKey_(n) == Whole /\ midi' = WithKey(midi, n) /\ UNCHANGED misled
SetChannel(n) ==
  /\ HasStatus
  /\ midi' = WithChannel(midi, n)
  /\ misled' = (misled \/ midi.type = 240)
SetValue_(n) == Whole /\ midi' = WithValue(midi, n) /\ UNCHANGED misled
SetLength(n) == midi' = WithLength(midi, n) /\ UNCHANGED misled
SetBytes(data) == midi' = FromBytes(midi, data) /\ misled' = FALSE
SetNumbers(numbers) == midi' = FromNumbers(midi, numbers) /\ misled' = FALSE

(* A list that is too short or holds something else than numbers is refused *)
(* after the bytes before that have replaced the data.                      *)
RefuseNumbers(data) == midi' = [midi EXCEPT !.data = data] /\ misled' = TRUE

MidiNext ==
  \/ \E note, velocity \in DataByte, channel \in Channel :
       SetAsNote(note, velocity, 5, channel) \/ SetAsCtrl(note, velocity, channel)
  \/ TurnOff
  \/ \E type \in MidiType : SetType(type)
  \/ \E n \in DataByte : SetKey_(n) \/ SetValue_(n) \/ SetLength(n)
  \/ \E n \in Channel : SetChannel(n)
  \/ \E data \in Raw : SetBytes(data) \/ SetNumbers(Append(data, 7))
  \/ \E data \in Raw \cup {<<>>} : RefuseNumbers(data)

MidiSpec == MidiInit /\ [][MidiNext]_midiVars

-----------------------------------------------------------------------------
(* Properties *)

(* to_json (midi_message.h:359): the bytes and the length. *)
Told(m) == m.data \o <<m.length>>

(* The type stands beside the status byte, and each operation writes both   *)
(* in its own way: after any calls the message that to_json tells, and a    *)
(* device gets, is of the type the message says it is.  A message of the    *)
(* system has no channel; where one is taken from it (set_type to a type    *)
(* with channels), the status byte is another's.                            *)
StatusTellsType ==
  ~misled => FromNumbers(midi, Told(midi)).type = midi.type /\ midi.data[1] \in 0..255

=============================================================================
