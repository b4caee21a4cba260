------------------------- MODULE MidiGeneratorProof -------------------------
(***************************************************************************)
(* Proofs about MidiGenerator: for any channels, controllers and values, no *)
(* note sounds without a reason, none ends without one, and what the        *)
(* generator remembers is what the instrument has.                          *)
(***************************************************************************)
EXTENDS MidiGenerator, SequenceTheorems, TLAPS

\* A message, as the instrument tells them apart.
LEMMA NoteMessages ==
    ASSUME NEW n \in DataByte, NEW v \in DataByte
    PROVE  /\ NoteOff(n, v).bytes[2] = n /\ Ending(NoteOff(n, v)) /\ Status(NoteOff(n, v)) = 8
           /\ NoteOn(n, v).bytes[2] = n /\ Status(NoteOn(n, v)) = 9
           /\ Ending(NoteOn(n, v)) <=> v = 0
<1>1. n % 128 = n /\ v % 128 = v
  BY DEF DataByte
<1>2. (16 * 8) \div 16 = 8 /\ (16 * 9) \div 16 = 9
  OBVIOUS
<1> QED
  BY <1>1, <1>2 DEF NoteOff, NoteOn, Message, ChannelMessage, Ending, Status

\* No message changes no note.
LEMMA SoundedNothing ==
    ASSUME NEW S PROVE Sounded(S, <<>>) = S
<1>1. DOMAIN <<>> = {}
  OBVIOUS
<1> QED
  BY <1>1 DEF Sounded

\* A note-off takes its note away.
LEMMA SoundedOff ==
    ASSUME NEW S, NEW n \in DataByte, NEW v \in DataByte
    PROVE  Sounded(S, <<NoteOff(n, v)>>) = S \ {n}
<1> DEFINE off == NoteOff(n, v)
<1>1. {<<off>>[k] : k \in DOMAIN <<off>>} = {off}
  OBVIOUS
<1>2. off.bytes[2] = n /\ Ending(off)
  BY NoteMessages
<1> HIDE DEF off
<1>3. {x \in {off} : Ending(x)} = {off} /\ {x \in {off} : Status(x) = 9 /\ ~Ending(x)} = {}
  BY <1>2
<1>4. Sounded(S, <<off>>) = S \ {n}
  BY <1>1, <1>2, <1>3 DEF Sounded
<1> QED
  BY <1>4 DEF off

\* A note-on starts its note, unless its velocity is 0: then it ends it.
LEMMA SoundedOn ==
    ASSUME NEW S, NEW n \in DataByte, NEW v \in DataByte
    PROVE  Sounded(S, <<NoteOn(n, v)>>) = IF v = 0 THEN S \ {n} ELSE S \union {n}
<1> DEFINE on == NoteOn(n, v)
<1>1. {<<on>>[k] : k \in DOMAIN <<on>>} = {on}
  OBVIOUS
<1>2. on.bytes[2] = n /\ Status(on) = 9 /\ (Ending(on) <=> v = 0)
  BY NoteMessages
<1> HIDE DEF on
<1>3. CASE v = 0
  <2>1. {x \in {on} : Ending(x)} = {on} /\ {x \in {on} : Status(x) = 9 /\ ~Ending(x)} = {}
    BY <1>2, <1>3
  <2> QED
    BY <1>1, <1>2, <1>3, <2>1 DEF Sounded, on
<1>4. CASE v # 0
  <2>1. {x \in {on} : Ending(x)} = {} /\ {x \in {on} : Status(x) = 9 /\ ~Ending(x)} = {on}
    BY <1>2, <1>4
  <2> QED
    BY <1>1, <1>2, <1>4, <2>1 DEF Sounded, on
<1> QED
  BY <1>3, <1>4

\* Two messages, one after the other.
LEMMA TwoMessages ==
    ASSUME NEW a, NEW b PROVE <<a>> \o <<b>> = <<a, b>>
<1>1. <<a>> \in Seq({a, b}) /\ <<b>> \in Seq({a, b})
  OBVIOUS
<1>2. <<a>> \o <<b>> \in Seq({a, b}) /\ Len(<<a>> \o <<b>>) = 2
  BY <1>1
<1>3. (<<a>> \o <<b>>)[1] = a /\ (<<a>> \o <<b>>)[2] = b
  BY <1>1, ConcatProperties
<1>4. <<a, b>> \in Seq({a, b}) /\ Len(<<a, b>>) = 2
  OBVIOUS
<1>5. \A i \in 1 .. 2 : (<<a>> \o <<b>>)[i] = <<a, b>>[i]
  BY <1>3
<1> QED
  BY <1>2, <1>4, <1>5, SeqEqual

\* A note-off and a note-on.
LEMMA SoundedOffOn ==
    ASSUME NEW S, NEW o \in DataByte, NEW n \in DataByte, NEW v \in DataByte
    PROVE  /\ v = 0 => Sounded(S, <<NoteOff(o, v), NoteOn(n, v)>>) = S \ {o, n}
           /\ v # 0 => Sounded(S, <<NoteOff(o, v), NoteOn(n, v)>>) = (S \ {o}) \union {n}
<1> DEFINE off == NoteOff(o, v)
           on  == NoteOn(n, v)
<1>1. {<<off, on>>[k] : k \in DOMAIN <<off, on>>} = {off, on}
  OBVIOUS
<1>2. /\ off.bytes[2] = o /\ Ending(off) /\ Status(off) = 8
      /\ on.bytes[2] = n /\ Status(on) = 9 /\ (Ending(on) <=> v = 0)
  BY NoteMessages
<1> HIDE DEF off, on
<1>3. CASE v = 0
  <2>1. {x \in {off, on} : Ending(x)} = {off, on}
        /\ {x \in {off, on} : Status(x) = 9 /\ ~Ending(x)} = {}
    BY <1>2, <1>3
  <2> QED
    BY <1>1, <1>2, <1>3, <2>1 DEF Sounded, off, on
<1>4. CASE v # 0
  <2>1. {x \in {off, on} : Ending(x)} = {off}
        /\ {x \in {off, on} : Status(x) = 9 /\ ~Ending(x)} = {on}
    BY <1>2, <1>4
  <2> QED
    BY <1>1, <1>2, <1>4, <2>1 DEF Sounded, off, on
<1> QED
  BY <1>3, <1>4

\* The note-offs of panic() leave nothing sounding.
LEMMA SoundedPanic ==
    ASSUME NEW S, S \subseteq Notes
    PROVE  Sounded(S, [k \in 1 .. LastNote - FirstNote + 1 |-> NoteOff(FirstNote + k - 1, 0)]) = {}
<1> DEFINE msgs == [k \in 1 .. LastNote - FirstNote + 1 |-> NoteOff(FirstNote + k - 1, 0)]
           ms   == {msgs[k] : k \in DOMAIN msgs}
<1> USE NoteAssumption
<1>1. ASSUME NEW k \in DOMAIN msgs
      PROVE  FirstNote + k - 1 \in DataByte /\ msgs[k] = NoteOff(FirstNote + k - 1, 0)
  BY DEF DataByte
<1>2. ASSUME NEW x \in ms PROVE Ending(x)
  <2>1. PICK k \in DOMAIN msgs : x = msgs[k]
    OBVIOUS
  <2>2. FirstNote + k - 1 \in DataByte /\ x = NoteOff(FirstNote + k - 1, 0)
    BY <1>1, <2>1
  <2>3. 0 \in DataByte
    BY DEF DataByte
  <2> QED
    BY <2>2, <2>3, NoteMessages
<1>3. ASSUME NEW n \in Notes PROVE \E x \in ms : Ending(x) /\ x.bytes[2] = n
  <2>1. n - FirstNote + 1 \in DOMAIN msgs /\ FirstNote + (n - FirstNote + 1) - 1 = n
    BY DEF Notes
  <2>2. msgs[n - FirstNote + 1] = NoteOff(n, 0) /\ n \in DataByte
    BY <2>1 DEF Notes, DataByte
  <2>3. NoteOff(n, 0) \in ms
    BY <2>1, <2>2
  <2>4. Ending(NoteOff(n, 0)) /\ NoteOff(n, 0).bytes[2] = n
    <3>1. 0 \in DataByte
      BY DEF DataByte
    <3> QED
      BY <2>2, <3>1, NoteMessages
  <2> HIDE DEF ms
  <2> QED
    BY <2>3, <2>4
<1> HIDE DEF ms, msgs
<1>4. Sounded(S, msgs) = (S \ {m.bytes[2] : m \in {x \in ms : Ending(x)}})
                           \union {m.bytes[2] : m \in {x \in ms : Status(x) = 9 /\ ~Ending(x)}}
  BY DEF Sounded, ms
<1> HIDE NoteAssumption
<1>5. {x \in ms : Status(x) = 9 /\ ~Ending(x)} = {}
  BY <1>2
<1>6. S \subseteq {m.bytes[2] : m \in {x \in ms : Ending(x)}}
  <2>1. ASSUME NEW n \in S PROVE \E m \in {x \in ms : Ending(x)} : n = m.bytes[2]
    BY <1>3
  <2> QED
    BY <2>1
<1>7. Sounded(S, msgs) = {}
  BY <1>4, <1>5, <1>6
<1> QED
  BY <1>7 DEF msgs

-----------------------------------------------------------------------------
\* What sounds after SetNoteGate, case by case: the generator's channel held a
\* note or not, and holds the same, another or none afterwards.
LEMMA NoteGateSounds ==
    ASSUME TypeOK, NEW note \in Notes, NEW gate \in BOOLEAN, NEW c \in Channels,
           SetNoteGate(note, gate, c)
    PROVE  /\ gates[c] /\ gate /\ note # notes[c] =>
                sounding' = IF vels[c] = 0 THEN sounding \ {notes[c], note}
                            ELSE (sounding \ {notes[c]}) \union {note}
           /\ gates[c] /\ gate /\ note = notes[c] => sounding' = sounding
           /\ gates[c] /\ ~gate => sounding' = sounding \ {notes[c]}
           /\ ~gates[c] /\ gate =>
                sounding' = IF vels[c] = 0 THEN sounding \ {note} ELSE sounding \union {note}
           /\ ~gates[c] /\ ~gate => sounding' = sounding
<1> DEFINE changed == gate /\ gates[c] /\ note # notes[c]
           offs == IF changed \/ (~gate /\ gates[c])
                   THEN <<NoteOff(notes[c], vels[c])>> ELSE <<>>
           ons  == IF changed \/ (gate /\ ~gates[c])
                   THEN <<NoteOn(note, vels[c])>> ELSE <<>>
<1>1. note \in DataByte /\ notes[c] \in DataByte /\ vels[c] \in DataByte
  <2>1. note \in Notes /\ notes[c] \in Notes /\ vels[c] \in Velocities
    BY DEF TypeOK
  <2>2. Notes \subseteq DataByte /\ Velocities \subseteq DataByte
    BY NoteAssumption DEF Notes, DataByte
  <2> QED
    BY <2>1, <2>2
<1>2. sounding' = Sounded(sounding, offs \o ons)
  BY DEF SetNoteGate
<1>3. ASSUME changed
      PROVE  offs \o ons = <<NoteOff(notes[c], vels[c]), NoteOn(note, vels[c])>>
  <2>1. offs = <<NoteOff(notes[c], vels[c])>> /\ ons = <<NoteOn(note, vels[c])>>
    BY <1>3
  <2> HIDE DEF offs, ons
  <2> QED
    BY <2>1, TwoMessages, Zenon
<1>4. ASSUME gates[c], gate, note = notes[c]
      PROVE  offs \o ons = <<>>
  <2>1. offs = <<>> /\ ons = <<>>
    BY <1>4
  <2> QED
    BY <2>1
<1>5. ASSUME gates[c], ~gate
      PROVE  offs \o ons = <<NoteOff(notes[c], vels[c])>>
  <2>1. offs = <<NoteOff(notes[c], vels[c])>> /\ ons = <<>>
    BY <1>5
  <2> HIDE DEF offs, ons
  <2> QED
    BY <2>1
<1>6. ASSUME ~gates[c], gate
      PROVE  offs \o ons = <<NoteOn(note, vels[c])>>
  <2>1. offs = <<>> /\ ons = <<NoteOn(note, vels[c])>>
    BY <1>6
  <2> HIDE DEF offs, ons
  <2> QED
    BY <2>1
<1>7. ASSUME ~gates[c], ~gate
      PROVE  offs \o ons = <<>>
  <2>1. offs = <<>> /\ ons = <<>>
    BY <1>7
  <2> QED
    BY <2>1
<1> HIDE DEF offs, ons
<1>8. ASSUME changed
      PROVE  sounding' = IF vels[c] = 0 THEN sounding \ {notes[c], note}
                         ELSE (sounding \ {notes[c]}) \union {note}
  <2>1. sounding' = Sounded(sounding, <<NoteOff(notes[c], vels[c]), NoteOn(note, vels[c])>>)
    BY <1>2, <1>3, <1>8
  <2>2. CASE vels[c] = 0
    BY <1>1, <2>1, <2>2, SoundedOffOn
  <2>3. CASE vels[c] # 0
    <3>1. Sounded(sounding, <<NoteOff(notes[c], vels[c]), NoteOn(note, vels[c])>>)
            = (sounding \ {notes[c]}) \union {note}
      BY <1>1, <2>3, SoundedOffOn
    <3> QED
      BY <2>1, <2>3, <3>1
  <2> QED
    BY <2>2, <2>3
<1>9. ASSUME gates[c], gate, note = notes[c]
      PROVE  sounding' = sounding
  BY <1>2, <1>4, <1>9, SoundedNothing
<1>10. ASSUME gates[c], ~gate
       PROVE  sounding' = sounding \ {notes[c]}
  BY <1>1, <1>2, <1>5, <1>10, SoundedOff
<1>11. ASSUME ~gates[c], gate
       PROVE  sounding' = IF vels[c] = 0 THEN sounding \ {note} ELSE sounding \union {note}
  BY <1>1, <1>2, <1>6, <1>11, SoundedOn
<1>12. ASSUME ~gates[c], ~gate
       PROVE  sounding' = sounding
  BY <1>2, <1>7, <1>12, SoundedNothing
<1> QED
  BY <1>8, <1>9, <1>10, <1>11, <1>12

\* The channels after SetNoteGate.
LEMMA NoteGateChannels ==
    ASSUME TypeOK, NEW note \in Notes, NEW gate \in BOOLEAN, NEW c \in Channels,
           SetNoteGate(note, gate, c)
    PROVE  /\ gates'[c] = gate /\ notes'[c] = note
           /\ \A d \in Channels \ {c} : gates'[d] = gates[d] /\ notes'[d] = notes[d]
<1>1. gates' = [gates EXCEPT ![c] = gate] /\ notes' = [notes EXCEPT ![c] = note]
  BY DEF SetNoteGate
<1>2. c \in DOMAIN gates /\ c \in DOMAIN notes
  BY DEF TypeOK
<1> QED
  BY <1>1, <1>2 DEF TypeOK

-----------------------------------------------------------------------------
(***************************************************************************)
(* The invariant.                                                          *)
(***************************************************************************)
Inv == TypeOK /\ NoStuckNote /\ RemembersTruly

\* It holds at the start.
LEMMA InvInit == Init => Inv
<1> SUFFICES ASSUME Init PROVE Inv
  OBVIOUS
<1>0. 0 \in DataByte /\ Centre \in Position
  BY DEF DataByte, Centre, Position
<1>1. TypeOK
  BY <1>0, NoteAssumption, ControlAssumption DEF Init, TypeOK, Notes
<1>2. NoStuckNote
  BY DEF Init, NoStuckNote
<1>3. RemembersTruly
  BY DEF Init, RemembersTruly
<1> QED
  BY <1>1, <1>2, <1>3 DEF Inv

\* reset() leaves the generator as new.
LEMMA ResetType ==
    ASSUME TypeOK, ResetState, sounding' \subseteq Notes, orphans' \subseteq Notes,
           UNCHANGED synthCtrl
    PROVE  TypeOK' /\ RemembersTruly'
<1>1. 100 \in Velocities /\ 60 \in Notes /\ Centre \in Bends
  BY NoteAssumption, ControlAssumption DEF Notes
<1>2. /\ vels' \in [Channels -> Velocities] /\ notes' \in [Channels -> Notes]
      /\ gates' \in [Channels -> BOOLEAN]
  BY <1>1 DEF ResetState
<1>3. /\ keyPressures' \in [Channels -> Values \union {Unset}]
      /\ channelPressure' \in Values \union {Unset}
      /\ ccs' \in [Controllers -> Values \union {Unset}]
  BY DEF ResetState
<1>4. pw' \in Bends /\ inputs' \in [Transports -> BOOLEAN]
  BY <1>1 DEF ResetState
<1>5. /\ synthPressure' \in DataByte /\ synthCcs' \in [Controllers -> DataByte]
      /\ synthBend' \in Position
  BY DEF TypeOK, synthCtrl
<1>6. TypeOK'
  BY <1>2, <1>3, <1>4, <1>5 DEF TypeOK
<1>7. RemembersTruly'
  BY DEF ResetState, RemembersTruly
<1> QED
  BY <1>6, <1>7

\* A bare reset() makes an orphan of every note that sounds.
LEMMA ResetStep == ASSUME Inv, Reset PROVE Inv'
<1>1. ResetState /\ UNCHANGED sounding /\ UNCHANGED synthCtrl /\ orphans' = sounding
  BY DEF Reset
<1>2. sounding' \subseteq Notes /\ orphans' \subseteq Notes
  BY <1>1 DEF Inv, TypeOK
<1>3. TypeOK' /\ RemembersTruly'
  BY <1>1, <1>2, ResetType DEF Inv
<1>4. NoStuckNote'
  BY <1>1 DEF NoStuckNote
<1> QED
  BY <1>3, <1>4 DEF Inv

\* panic() leaves nothing sounding.
LEMMA PanicStep == ASSUME Inv, Panic PROVE Inv' /\ sounding' = {}
<1>1. sounding' = {}
  BY SoundedPanic DEF Inv, TypeOK, Panic
<1>2. ResetState /\ UNCHANGED synthCtrl /\ orphans' = {}
  BY DEF Panic
<1>3. sounding' \subseteq Notes /\ orphans' \subseteq Notes
  BY <1>1, <1>2
<1>4. TypeOK' /\ RemembersTruly'
  BY <1>2, <1>3, ResetType DEF Inv
<1>5. NoStuckNote'
  BY <1>1 DEF NoStuckNote
<1> QED
  BY <1>1, <1>4, <1>5 DEF Inv

\* setNoteGate()
LEMMA NoteGateStep ==
    ASSUME Inv, NEW note \in Notes, NEW gate \in BOOLEAN, NEW c \in Channels,
           SetNoteGate(note, gate, c)
    PROVE  Inv'
<1> USE DEF Inv
<1>1. gates[c] \in BOOLEAN /\ notes[c] \in Notes
  BY DEF TypeOK
<1>2. sounding' \subseteq Notes
  BY <1>1, NoteGateSounds DEF TypeOK
<1>3. TypeOK'
  <2>1. /\ notes' = [notes EXCEPT ![c] = note] /\ gates' = [gates EXCEPT ![c] = gate]
        /\ orphans' = orphans \cap sounding'
    BY DEF SetNoteGate
  <2>2. notes' \in [Channels -> Notes] /\ gates' \in [Channels -> BOOLEAN]
    BY <2>1 DEF TypeOK
  <2>3. orphans' \subseteq Notes
    BY <2>1 DEF TypeOK
  <2>4. UNCHANGED <<vels, keyPressures, controls, synthCtrl>>
    BY DEF SetNoteGate
  <2> QED
    BY <1>2, <2>2, <2>3, <2>4 DEF TypeOK, controls, synthCtrl
<1>4. NoStuckNote'
  <2> SUFFICES ASSUME NEW n \in sounding' PROVE n \in Held' \/ n \in orphans'
    BY DEF NoStuckNote
  <2>1. CASE gate /\ n = note
    <3>1. gates'[c] /\ notes'[c] = n
      BY <2>1, NoteGateChannels, Zenon
    <3>2. n \in Held'
      BY <3>1, Zenon DEF Held
    <3> QED
      BY <3>2
  <2>2. CASE ~(gate /\ n = note)
    <3>1. n \in sounding /\ ~(gates[c] /\ n = notes[c])
      BY <2>2, <1>1, NoteGateSounds
    <3>2. CASE n \in orphans
      BY <3>2 DEF SetNoteGate
    <3>3. CASE n \in Held
      <4>1. PICK d \in Channels : gates[d] /\ notes[d] = n
        BY <3>3 DEF Held
      <4>2. d # c
        BY <4>1, <3>1
      <4> QED
        BY <4>1, <4>2, NoteGateChannels DEF Held
    <3> QED
      BY <3>1, <3>2, <3>3 DEF NoStuckNote
  <2> QED
    BY <2>1, <2>2
<1>5. RemembersTruly'
  BY DEF RemembersTruly, SetNoteGate, controls, synthCtrl
<1> QED
  BY <1>3, <1>4, <1>5

\* The calls that play no note.
LEMMA OtherStep ==
    ASSUME Inv, UNCHANGED <<notes, gates, sounding, orphans>>
    PROVE  NoStuckNote'
  BY DEF Inv, NoStuckNote, Held

\* setPitchWheel(): the two halves put together are the position.
LEMMA BendHalves ==
    ASSUME NEW w \in Position
    PROVE  /\ PitchWheel(w).bytes[2] = w % 128 /\ PitchWheel(w).bytes[3] = w \div 128
           /\ (w % 128) + 128 * (w \div 128) = w
<1>1. w = 128 * (w \div 128) + (w % 128) /\ w % 128 \in DataByte /\ w \div 128 \in DataByte
  BY DEF Position, DataByte
<1>2. (w % 128) % 128 = w % 128 /\ (w \div 128) % 128 = w \div 128
  BY <1>1 DEF DataByte
<1>3. PitchWheel(w).bytes[2] = w % 128 /\ PitchWheel(w).bytes[3] = w \div 128
  BY <1>2 DEF PitchWheel, Message, ChannelMessage
<1> QED
  BY <1>1, <1>3 DEF Position

\* Every call keeps the invariant.
LEMMA InvStep == Inv /\ [Next]_vars => Inv'
<1> SUFFICES ASSUME Inv, [Next]_vars PROVE Inv'
  OBVIOUS
<1> USE DEF Inv
<1>1. CASE Reset
  BY <1>1, ResetStep
<1>2. CASE Panic
  BY <1>2, PanicStep
<1>3. ASSUME NEW c \in Channels, NEW v \in Velocities, SetVelocity(v, c) PROVE Inv'
  <2>1. TypeOK'
    BY <1>3 DEF TypeOK, SetVelocity, controls, synthCtrl
  <2>2. NoStuckNote' /\ RemembersTruly'
    BY <1>3, OtherStep DEF SetVelocity, RemembersTruly, controls, synthCtrl
  <2> QED
    BY <2>1, <2>2
<1>4. ASSUME NEW c \in Channels, NEW n \in Notes, NEW g \in BOOLEAN, SetNoteGate(n, g, c)
      PROVE  Inv'
  BY <1>4, NoteGateStep
<1>5. ASSUME NEW c \in Channels, NEW v \in Values, SetKeyPressure(v, c) PROVE Inv'
  <2>1. TypeOK'
    BY <1>5 DEF TypeOK, SetKeyPressure, controls, synthCtrl
  <2>2. NoStuckNote' /\ RemembersTruly'
    BY <1>5, OtherStep DEF SetKeyPressure, RemembersTruly, controls, synthCtrl
  <2> QED
    BY <2>1, <2>2
<1>6. ASSUME NEW v \in Values, SetChannelPressure(v) PROVE Inv'
  <2>1. v \in DataByte
    BY ControlAssumption
  <2>2. v \in DataByte /\ v % 128 = v
    BY <2>1 DEF DataByte
  <2>3. synthPressure' = v
    BY <1>6, <2>2 DEF SetChannelPressure, ChannelPressure, Message, ChannelMessage
  <2>4. TypeOK'
    BY <1>6, <2>2, <2>3 DEF TypeOK, SetChannelPressure, voices
  <2>5. NoStuckNote' /\ RemembersTruly'
    BY <1>6, <2>3, OtherStep DEF SetChannelPressure, RemembersTruly, voices
  <2> QED
    BY <2>4, <2>5
<1>7. ASSUME NEW v \in Values, NEW id \in Controllers, SetCc(v, id) PROVE Inv'
  <2>1. v \in DataByte /\ id \in DataByte
    BY ControlAssumption
  <2>2. v % 128 = v /\ id % 128 = id
    BY <2>1 DEF DataByte
  <2>3. synthCcs' = [synthCcs EXCEPT ![id] = v]
    BY <1>7, <2>2 DEF SetCc, Controller, Message, ChannelMessage
  <2>4. /\ ccs' = [ccs EXCEPT ![id] = v]
        /\ UNCHANGED <<vels, notes, gates, keyPressures, channelPressure, pw, inputs>>
        /\ UNCHANGED <<sounding, orphans, synthPressure, synthBend>>
    BY <1>7 DEF SetCc, voices
  <2>5. ccs' \in [Controllers -> Values \union {Unset}] /\ synthCcs' \in [Controllers -> DataByte]
    BY <2>1, <2>3, <2>4 DEF TypeOK
  <2>6. TypeOK'
    BY <2>4, <2>5 DEF TypeOK
  <2>7. RemembersTruly'
    BY <1>7, <2>3 DEF SetCc, RemembersTruly, TypeOK
  <2>8. NoStuckNote'
    BY <1>7, OtherStep DEF SetCc, voices
  <2> QED
    BY <2>6, <2>7, <2>8
<1>8. ASSUME NEW w \in Bends, SetPitchWheel(w) PROVE Inv'
  <2>1. w \in Position
    BY ControlAssumption
  <2>2. pw' = w
    BY <1>8 DEF SetPitchWheel
  <2>3. /\ sent' = <<PitchWheel(w)>>
        /\ synthBend' = sent'[1].bytes[2] + 128 * sent'[1].bytes[3]
    BY <1>8 DEF SetPitchWheel
  <2>4. /\ UNCHANGED <<vels, notes, gates, keyPressures, channelPressure, ccs, inputs>>
        /\ UNCHANGED <<sounding, orphans, synthPressure, synthCcs>>
    BY <1>8 DEF SetPitchWheel, voices
  <2>5. sent'[1] = PitchWheel(w)
    BY <2>3
  <2>6. synthBend' = PitchWheel(w).bytes[2] + 128 * PitchWheel(w).bytes[3]
    BY <2>3, <2>5, Zenon
  <2>7. synthBend' = (w % 128) + 128 * (w \div 128)
    BY <2>1, <2>6, BendHalves
  <2>8. synthBend' = w
    BY <2>1, <2>7, BendHalves
  <2>9. TypeOK'
    <3>1. pw' \in Bends /\ synthBend' \in Position
      BY <2>1, <2>8, <2>2
    <3> QED
      BY <2>4, <3>1 DEF TypeOK
  <2>10. NoStuckNote' /\ RemembersTruly'
    BY <1>8, <2>8, OtherStep DEF SetPitchWheel, RemembersTruly, voices
  <2> QED
    BY <2>9, <2>10
<1>9. ASSUME NEW k \in Transports, NEW on \in BOOLEAN, SetTransport(k, on) PROVE Inv'
  <2>1. inputs' \in [Transports -> BOOLEAN]
    BY <1>9 DEF TypeOK, SetTransport
  <2>2. TypeOK'
    BY <1>9, <2>1 DEF TypeOK, SetTransport, voices, synthCtrl
  <2>3. NoStuckNote' /\ RemembersTruly'
    BY <1>9, OtherStep DEF SetTransport, RemembersTruly, voices, synthCtrl
  <2> QED
    BY <2>2, <2>3
<1>10. CASE UNCHANGED vars
  <2>1. TypeOK'
    BY <1>10 DEF TypeOK, vars, voices, controls, synthCtrl
  <2>2. NoStuckNote' /\ RemembersTruly'
    BY <1>10, OtherStep DEF RemembersTruly, vars, voices, controls, synthCtrl
  <2> QED
    BY <2>1, <2>2
<1> QED
  BY <1>1, <1>2, <1>3, <1>4, <1>5, <1>6, <1>7, <1>8, <1>9, <1>10 DEF Next

-----------------------------------------------------------------------------
(***************************************************************************)
(* The results.                                                            *)
(***************************************************************************)
\* No note sounds that no channel holds, but for those a bare reset() forgot; and
\* what the generator thinks it has sent, the instrument has.
THEOREM Safety == Spec => [](TypeOK /\ NoStuckNote /\ RemembersTruly)
<1>1. Inv => TypeOK /\ NoStuckNote /\ RemembersTruly
  BY DEF Inv
<1> QED
  BY <1>1, InvInit, InvStep, PTL DEF Spec

\* A step ends a note only for one of the reasons named.
LEMMA EndsStep ==
    ASSUME Inv, Next, NEW n \in sounding \ sounding'
    PROVE  \/ \E c \in Channels : gates[c] /\ notes[c] = n /\ ~(gates'[c] /\ notes'[c] = n)
           \/ \E c \in Channels : vels[c] = 0 /\ gates'[c] /\ notes'[c] = n
           \/ n \in orphans
<1>1. CASE Panic
  <2>1. n \in orphans \/ \E c \in Channels : gates[c] /\ notes[c] = n
    BY DEF Inv, NoStuckNote, Held
  <2>2. \A c \in Channels : ~gates'[c]
    BY <1>1 DEF Panic, ResetState
  <2> QED
    BY <2>1, <2>2
<1>2. ASSUME NEW c \in Channels, NEW note \in Notes, NEW gate \in BOOLEAN,
             SetNoteGate(note, gate, c)
      PROVE  \/ gates[c] /\ notes[c] = n /\ ~(gates'[c] /\ notes'[c] = n)
             \/ vels[c] = 0 /\ gates'[c] /\ notes'[c] = n
  <2>1. gates[c] \in BOOLEAN
    BY DEF Inv, TypeOK
  <2>2. \/ gates[c] /\ notes[c] = n /\ ~(gate /\ note = n)
        \/ vels[c] = 0 /\ gate /\ note = n
    BY <1>2, <2>1, NoteGateSounds DEF Inv
  <2> QED
    BY <1>2, <2>2, NoteGateChannels DEF Inv
<1>3. sounding' = sounding \/ Panic \/ \E c \in Channels, note \in Notes, gate \in BOOLEAN :
                                          SetNoteGate(note, gate, c)
  BY DEF Next, Reset, SetVelocity, SetKeyPressure, SetChannelPressure, SetCc, SetPitchWheel,
         SetTransport
<1> QED
  BY <1>1, <1>2, <1>3

\* A note ends only when its channel lets it go, a channel plays it with velocity
\* 0, or panic() is called.
THEOREM EndsOnlyForAReason == Spec => EndsForAReason
<1>1. Inv /\ [Next]_vars =>
        [\A n \in sounding \ sounding' :
          \/ \E c \in Channels : gates[c] /\ notes[c] = n /\ ~(gates'[c] /\ notes'[c] = n)
          \/ \E c \in Channels : vels[c] = 0 /\ gates'[c] /\ notes'[c] = n
          \/ n \in orphans]_vars
  BY EndsStep
<1> QED
  BY <1>1, InvInit, InvStep, PTL DEF Spec, EndsForAReason
=============================================================================
