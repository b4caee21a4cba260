--------------------------- MODULE MidiGenerator ---------------------------
(***************************************************************************)
(* dsp::MidiGenerator<CHANNELS> (dsp/midi.hpp): turns gates and control     *)
(* voltages into MIDI messages, of which it sends those that change         *)
(* something as far as it remembers.  On the other side is an instrument    *)
(* that does what the messages say: `sounding` and the synth variables.  It *)
(* takes all three bytes of a message, as a USB packet brings them; what    *)
(* getSize() makes of them is a question of its own (SizeAsAsked).          *)
(***************************************************************************)
EXTENDS MidiMessage

CONSTANTS Channels,            \* the polyphony channels, 0 .. CHANNELS - 1
          FirstNote, LastNote, \* bound: the notes played, 0 .. 127 in the code
          Velocities,          \* the velocities set, of 0 .. 127
          Values,              \* the pressures and controller values set, likewise
          Controllers,         \* the controllers used, likewise
          Bends,               \* the positions of the pitch wheel, of 0 .. 16383
          Transports           \* which of clk, start, cont and stop are used

Notes  == FirstNote .. LastNote
Unset  == -1     \* "nothing sent yet", for a value that starts at -1
Centre == 8192   \* 0x2000, the pitch wheel at rest
Position == 0 .. 16383

ASSUME NoteAssumption ==
    /\ FirstNote \in 0 .. 60 /\ LastNote \in 60 .. 127
    /\ Velocities \subseteq DataByte /\ 100 \in Velocities

ASSUME ControlAssumption ==
    /\ Values \subseteq DataByte /\ Controllers \subseteq DataByte
    /\ Bends \subseteq Position /\ Centre \in Bends

VARIABLES
    vels, notes, gates, keyPressures,         \* per channel
    channelPressure, ccs, pw,                 \* the last values sent
    inputs,                                   \* clk, start, stop and cont
    sent,                                     \* the messages of the last call
    sounding, synthPressure, synthCcs, synthBend,   \* the instrument
    orphans     \* notes left sounding when reset() forgot them

voices    == <<vels, notes, gates, keyPressures>>
controls  == <<channelPressure, ccs, pw, inputs>>
synthCtrl == <<synthPressure, synthCcs, synthBend>>
vars      == <<voices, controls, sent, sounding, orphans, synthCtrl>>

-----------------------------------------------------------------------------
\* A message with the size the generator asks of setSize(), 3 if it does not.
Message(m, asked) == [bytes |-> m.bytes, code |-> m.code, asked |-> asked]

NoteOff(note, vel)       == Message(ChannelMessage(8, note, vel), 3)
NoteOn(note, vel)        == Message(ChannelMessage(9, note, vel), 3)
KeyPressure(note, val)   == Message(ChannelMessage(10, note, val), 3)
Controller(id, val)      == Message(ChannelMessage(11, id, val), 3)
ChannelPressure(val)     == Message(ChannelMessage(13, val, 0), 2)

\* Mutated PitchWheel: the high bits are shifted by a whole byte.
PitchWheelByte(w) == Message(ChannelMessage(14, w % 128, w \div 256), 3)

PitchWheel(w)            == Message(ChannelMessage(14, w % 128, w \div 128), 3)
TransportPulse(k)        == Message(RealTime(k), 1)

\* The low four bits of clk, start, cont and stop's messages.
PulseOf == [clk |-> 8, start |-> 10, cont |-> 11, stop |-> 12]

\* What the messages do to the notes of the instrument: the note-offs of a call
\* precede its note-ons, and a note-on of velocity 0 is a note-off.
Status(m)  == m.bytes[1] \div 16
Ending(m)  == Status(m) = 8 \/ (Status(m) = 9 /\ m.bytes[3] = 0)
Sounded(before, msgs) ==
    LET ms == {msgs[k] : k \in DOMAIN msgs} IN
    (before \ {m.bytes[2] : m \in {x \in ms : Ending(x)}})
        \union {m.bytes[2] : m \in {x \in ms : Status(x) = 9 /\ ~Ending(x)}}

-----------------------------------------------------------------------------
Init ==
    /\ vels = [c \in Channels |-> 100] /\ notes = [c \in Channels |-> 60]
    /\ gates = [c \in Channels |-> FALSE]
    /\ keyPressures = [c \in Channels |-> Unset]
    /\ channelPressure = Unset /\ ccs = [id \in Controllers |-> Unset] /\ pw = Centre
    /\ inputs = [k \in Transports |-> FALSE]
    /\ sent = <<>>
    /\ sounding = {} /\ orphans = {} /\ synthPressure = 0
    /\ synthCcs = [id \in Controllers |-> 0] /\ synthBend = Centre

\* reset(): everything as at the start, and nothing sent.
ResetState ==
    /\ vels' = [c \in Channels |-> 100] /\ notes' = [c \in Channels |-> 60]
    /\ gates' = [c \in Channels |-> FALSE]
    /\ keyPressures' = [c \in Channels |-> Unset]
    /\ channelPressure' = Unset /\ ccs' = [id \in Controllers |-> Unset] /\ pw' = Centre
    /\ inputs' = [k \in Transports |-> FALSE]

\* reset() called by itself sends nothing: what sounds goes on sounding.
Reset ==
    /\ ResetState
    /\ sent' = <<>>
    /\ orphans' = sounding
    /\ UNCHANGED <<sounding, synthCtrl>>

\* Mutated Panic: the loop stops short of the last note.
PanicButLast ==
    /\ ResetState
    /\ sent' = [k \in 1 .. LastNote - FirstNote |-> NoteOff(FirstNote + k - 1, 0)]
    /\ sounding' = Sounded(sounding, sent')
    /\ orphans' = {}
    /\ UNCHANGED synthCtrl

\* panic(): reset(), then a note-off for every note there is.
Panic ==
    /\ ResetState
    /\ sent' = [k \in 1 .. LastNote - FirstNote + 1 |-> NoteOff(FirstNote + k - 1, 0)]
    /\ sounding' = Sounded(sounding, sent')
    /\ orphans' = {}
    /\ UNCHANGED synthCtrl

SetVelocity(vel, c) ==
    /\ vels' = [vels EXCEPT ![c] = vel]
    /\ sent' = <<>>
    /\ UNCHANGED <<notes, gates, keyPressures, controls, sounding, orphans, synthCtrl>>

\* Mutated SetNoteGate: the note-off names the new note.
SetNoteGateOffNew(note, gate, c) ==
    LET changedNote  == gate /\ gates[c] /\ note # notes[c]
        enabledGate  == gate /\ ~gates[c]
        disabledGate == ~gate /\ gates[c]
    IN  /\ sent' = (IF changedNote \/ disabledGate THEN <<NoteOff(note, vels[c])>> ELSE <<>>)
                   \o (IF changedNote \/ enabledGate THEN <<NoteOn(note, vels[c])>> ELSE <<>>)
        /\ sounding' = Sounded(sounding, sent')
        /\ orphans' = orphans \cap sounding'
        /\ notes' = [notes EXCEPT ![c] = note]
        /\ gates' = [gates EXCEPT ![c] = gate]
        /\ UNCHANGED <<vels, keyPressures, controls, synthCtrl>>

SetNoteGate(note, gate, c) ==
    LET changedNote  == gate /\ gates[c] /\ note # notes[c]
        enabledGate  == gate /\ ~gates[c]
        disabledGate == ~gate /\ gates[c]
    IN  /\ sent' = (IF changedNote \/ disabledGate THEN <<NoteOff(notes[c], vels[c])>> ELSE <<>>)
                   \o (IF changedNote \/ enabledGate THEN <<NoteOn(note, vels[c])>> ELSE <<>>)
        /\ sounding' = Sounded(sounding, sent')
        /\ orphans' = orphans \cap sounding'
        /\ notes' = [notes EXCEPT ![c] = note]
        /\ gates' = [gates EXCEPT ![c] = gate]
        /\ UNCHANGED <<vels, keyPressures, controls, synthCtrl>>

\* The instrument's pressure per key is not followed.
SetKeyPressure(val, c) ==
    /\ keyPressures[c] # val
    /\ keyPressures' = [keyPressures EXCEPT ![c] = val]
    /\ sent' = <<KeyPressure(notes[c], val)>>
    /\ UNCHANGED <<vels, notes, gates, controls, sounding, orphans, synthCtrl>>

SetChannelPressure(val) ==
    /\ channelPressure # val
    /\ channelPressure' = val
    /\ sent' = <<ChannelPressure(val)>>
    /\ synthPressure' = sent'[1].bytes[2]
    /\ UNCHANGED <<voices, ccs, pw, inputs, sounding, orphans, synthCcs, synthBend>>

SetCc(val, id) ==
    /\ ccs[id] # val
    /\ ccs' = [ccs EXCEPT ![id] = val]
    /\ sent' = <<Controller(id, val)>>
    /\ synthCcs' = [synthCcs EXCEPT ![sent'[1].bytes[2]] = sent'[1].bytes[3]]
    /\ UNCHANGED <<voices, channelPressure, pw, inputs, sounding, orphans, synthPressure, synthBend>>

SetPitchWheel(w) ==
    /\ pw # w
    /\ pw' = w
    /\ sent' = <<PitchWheel(w)>>
    /\ synthBend' = sent'[1].bytes[2] + 128 * sent'[1].bytes[3]
    /\ UNCHANGED <<voices, channelPressure, ccs, inputs, sounding, orphans, synthPressure, synthCcs>>

\* setClock, setStart, setContinue and setStop: a message on the rising edge.
SetTransport(k, on) ==
    /\ inputs[k] # on
    /\ inputs' = [inputs EXCEPT ![k] = on]
    /\ sent' = IF on THEN <<TransportPulse(PulseOf[k])>> ELSE <<>>
    /\ UNCHANGED <<voices, channelPressure, ccs, pw, sounding, orphans, synthCtrl>>

Next ==
    \/ Reset \/ Panic
    \/ \E c \in Channels, v \in Velocities : SetVelocity(v, c)
    \/ \E c \in Channels, n \in Notes, g \in BOOLEAN : SetNoteGate(n, g, c)
    \/ \E c \in Channels, v \in Values : SetKeyPressure(v, c)
    \/ \E v \in Values : SetChannelPressure(v)
    \/ \E v \in Values, id \in Controllers : SetCc(v, id)
    \/ \E w \in Bends : SetPitchWheel(w)
    \/ \E k \in Transports, on \in BOOLEAN : SetTransport(k, on)

Spec == Init /\ [][Next]_vars

-----------------------------------------------------------------------------
(***************************************************************************)
(* Properties.                                                             *)
(***************************************************************************)
TypeOK ==
    /\ vels \in [Channels -> Velocities] /\ notes \in [Channels -> Notes]
    /\ gates \in [Channels -> BOOLEAN]
    /\ keyPressures \in [Channels -> Values \union {Unset}]
    /\ channelPressure \in Values \union {Unset}
    /\ ccs \in [Controllers -> Values \union {Unset}]
    /\ pw \in Bends /\ inputs \in [Transports -> BOOLEAN]
    /\ sounding \subseteq Notes /\ orphans \subseteq Notes
    /\ synthPressure \in DataByte /\ synthCcs \in [Controllers -> DataByte]
    /\ synthBend \in Position

Held == {notes[c] : c \in {d \in Channels : gates[d]}}

\* A note sounds only while a channel holds it with its gate: nothing but a bare
\* reset() leaves a note hanging, and panic() silences those too.
NoStuckNote == sounding \subseteq Held \union orphans

\* A note that sounds ends only with the gate or the note of a channel that held
\* it, when a channel plays it with velocity 0, or by panic().
EndsForAReason ==
    [][\A n \in sounding \ sounding' :
          \/ \E c \in Channels : gates[c] /\ notes[c] = n /\ ~(gates'[c] /\ notes'[c] = n)
          \/ \E c \in Channels : vels[c] = 0 /\ gates'[c] /\ notes'[c] = n
          \/ n \in orphans]_vars

\* What the generator remembers, and will not send again, is what the instrument
\* has; a pitch wheel at rest says nothing, since reset() puts it there unsent.
RemembersTruly ==
    /\ channelPressure # Unset => synthPressure = channelPressure
    /\ \A id \in Controllers : ccs[id] # Unset => synthCcs[id] = ccs[id]
    /\ pw # Centre => synthBend = pw

\* Every message has the size the generator asked for.
SizeAsAsked == \A k \in DOMAIN sent : GetSize(sent[k]) = sent[k].asked
=============================================================================
