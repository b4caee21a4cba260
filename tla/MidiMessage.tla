---------------------------- MODULE MidiMessage ----------------------------
(***************************************************************************)
(* rack::midi::Message (midi.hpp): three bytes and a USB code.  The length  *)
(* of a message is not stored: getSize() works it out from the status byte  *)
(* and, for system exclusive data, from the code; setSize() does nothing.   *)
(***************************************************************************)
EXTENDS Integers, Sequences

\* What setNote and setValue leave of a byte: its top bit is clear.
DataByte == 0 .. 127

\* Bytes that a packet of system exclusive data carries, by its USB code.
SizeOfData(code) == CASE code = 5 -> 1 [] code = 6 -> 2 [] OTHER -> 3

\* Mutated SizeOfStart: the code is not looked at.
SizeOfStartWhole(code) == 3

SizeOfStart(code) == CASE code = 5 -> 1 [] code = 6 -> 2 [] OTHER -> 3

\* Message::getSize
GetSize(m) ==
    LET b == m.bytes[1] IN
    CASE b < 128                      -> SizeOfData(m.code)
      [] b \in 128 .. 191             -> 3   \* note off and on, key pressure, controller
      [] b \in 192 .. 223             -> 1   \* program change, channel pressure
      [] b \in 224 .. 239             -> 3   \* pitch bend
      [] b = 240                      -> SizeOfStart(m.code)
      [] b \in {241, 243}             -> 2
      [] b \in {246, 247} \/ b >= 248 -> 1
      [] b \in {242, 244, 245}        -> 3

\* What goes over the wire of it.
Wire(m) == SubSeq(m.bytes, 1, GetSize(m))

-----------------------------------------------------------------------------
\* Mutated ChannelMessage: the two data bytes are swapped.
ChannelMessageSwapped(status, note, value) ==
    [bytes |-> <<16 * status, value % 128, note % 128>>, code |-> 0]

\* setStatus, setNote and setValue on a new message: the data bytes are masked.
ChannelMessage(status, note, value) ==
    [bytes |-> <<16 * status, note % 128, value % 128>>, code |-> 0]

\* setStatus(0xf) and setChannel(k): a real-time message.
RealTime(k) == [bytes |-> <<240 + k, 0, 0>>, code |-> 0]

\* A stream of system exclusive data, packet by packet ...
StartSysEx(x, y)       == [bytes |-> <<240, x, y>>, code |-> 4]
ContinueSysEx(x, y, z) == [bytes |-> <<x, y, z>>,   code |-> 4]

EndSysEx0              == [bytes |-> <<247, 0, 0>>, code |-> 5]
EndSysEx1(x)           == [bytes |-> <<x, 247, 0>>, code |-> 6]
EndSysEx2(x, y)        == [bytes |-> <<x, y, 247>>, code |-> 7]

\* ... or all of it in one.
SysExNoPayload         == [bytes |-> <<240, 247, 0>>, code |-> 6]
SysExSingleByte(x)     == [bytes |-> <<240, x, 247>>, code |-> 7]
=============================================================================
