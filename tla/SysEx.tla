------------------------------- MODULE SysEx -------------------------------
(***************************************************************************)
(* A system exclusive stream sent with the packets of Message (midi.hpp),   *)
(* real-time messages among them, and an instrument that reads the bytes    *)
(* off the wire: a status of F0 opens a stream, F7 closes it, F8 and above  *)
(* may come anywhere and data only within.                                  *)
(***************************************************************************)
EXTENDS MidiMessage

CONSTANTS Data,        \* the data bytes of a payload, below 80 (hex)
          MaxPayload   \* bound: the longest payload tried

ASSUME DataAssumption == Data \subseteq DataByte /\ MaxPayload \in Nat

VARIABLES open, payload,      \* the sender is in a stream; what it has put in it
          listening, heard,   \* the same of the instrument
          stray               \* it met a byte that has no place

sysexVars == <<open, payload, listening, heard, stray>>

SysExInit ==
    /\ open = FALSE /\ payload = <<>>
    /\ listening = FALSE /\ heard = <<>> /\ stray = FALSE

-----------------------------------------------------------------------------
\* The instrument reads byte b: s is its state.
ReadByte(s, b) ==
    CASE b = 240 -> [listening |-> TRUE, heard |-> <<>>, stray |-> s.stray \/ s.listening]
      [] b = 247 -> [s EXCEPT !.listening = FALSE, !.stray = @ \/ ~s.listening]
      [] b >= 248 -> s
      [] OTHER   -> IF s.listening THEN [s EXCEPT !.heard = Append(@, b)]
                    ELSE [s EXCEPT !.stray = TRUE]

\* Its states when it has read the first k of some bytes.
ReadUpTo(s, bytes) ==
    LET after[k \in 0 .. Len(bytes)] ==
            IF k = 0 THEN s ELSE ReadByte(after[k - 1], bytes[k])
    IN  after

Read(s, bytes) == ReadUpTo(s, bytes)[Len(bytes)]

\* onMessage: the packet goes out and is read.
Send(m) ==
    LET s == Read([listening |-> listening, heard |-> heard, stray |-> stray], Wire(m)) IN
    /\ listening' = s.listening /\ heard' = s.heard /\ stray' = s.stray

Room(n) == Len(payload) + n <= MaxPayload

-----------------------------------------------------------------------------
Start(x, y) ==
    /\ ~open /\ 2 <= MaxPayload
    /\ open' = TRUE /\ payload' = <<x, y>>
    /\ Send(StartSysEx(x, y))

Continue(x, y, z) ==
    /\ open /\ Room(3)
    /\ payload' = payload \o <<x, y, z>>
    /\ Send(ContinueSysEx(x, y, z))
    /\ UNCHANGED open

End0 ==
    /\ open
    /\ open' = FALSE /\ UNCHANGED payload
    /\ Send(EndSysEx0)

End1(x) ==
    /\ open /\ Room(1)
    /\ open' = FALSE /\ payload' = Append(payload, x)
    /\ Send(EndSysEx1(x))

End2(x, y) ==
    /\ open /\ Room(2)
    /\ open' = FALSE /\ payload' = payload \o <<x, y>>
    /\ Send(EndSysEx2(x, y))

NoPayload ==
    /\ ~open
    /\ payload' = <<>>
    /\ Send(SysExNoPayload)
    /\ UNCHANGED open

SingleByte(x) ==
    /\ ~open
    /\ payload' = <<x>>
    /\ Send(SysExSingleByte(x))
    /\ UNCHANGED open

\* A clock, start, continue or stop of the transport, in or out of a stream.
Transport(k) ==
    /\ Send(RealTime(k))
    /\ UNCHANGED <<open, payload>>

SysExNext ==
    \/ \E x, y \in Data : Start(x, y) \/ End2(x, y)
    \/ \E x, y, z \in Data : Continue(x, y, z)
    \/ \E x \in Data : End1(x) \/ SingleByte(x)
    \/ End0 \/ NoPayload
    \/ \E k \in {8, 10, 11, 12} : Transport(k)

SysExSpec == SysExInit /\ [][SysExNext]_sysexVars

-----------------------------------------------------------------------------
(***************************************************************************)
(* Properties.                                                             *)
(***************************************************************************)
\* The instrument is in a stream exactly while the sender is, has the payload
\* byte for byte, and meets nothing between streams: every packet's getSize()
\* counts the bytes that mean something and none of the padding.
PayloadArrives == listening = open /\ heard = payload /\ ~stray
=============================================================================
