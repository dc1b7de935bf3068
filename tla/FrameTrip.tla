------------------------------ MODULE FrameTrip ------------------------------
(***************************************************************************)
(* The life of one frame as the users of protocol/rpc.cpp make it: a       *)
(* buffer of GetMessageLength(msg) bytes is filled by Serialize, some of   *)
(* the bytes arrive elsewhere, the length is asked for and the frame       *)
(* parsed.                                                                 *)
(***************************************************************************)
EXTENDS RpcFraming

CONSTANT MaxText    \* longest string tried (bound of the model)

ASSUME FrameTripAssumption == MaxText \in Nat

VARIABLES
  trip,     \* what has been done: new, serialized, measured, parsed
  text,     \* length of the string
  room,     \* size of the buffer
  buf,      \* the buffer
  answer    \* what the last function returned

tripVars == <<trip, text, room, buf, answer>>

TripInit ==
  /\ trip = "new"
  /\ text = 0
  /\ room = 0
  /\ buf = [magic |-> FALSE, length |-> 0, text |-> 0]
  /\ answer = 0

\* write_string: GetMessageLength(msg), malloc, Serialize.
TripSerialize ==
  /\ trip = "new"
  /\ trip' = "serialized"
  /\ \E n \in 0..MaxText :
       LET done == Serialize(buf, n)
       IN  text' = n /\ room' = GetStringLength(n)
           /\ buf' = done.frame /\ answer' = done.length

\* The reader has count bytes of what was sent.
TripMeasure ==
  /\ trip = "serialized" /\ answer > 0
  /\ trip' = "measured"
  /\ \E count \in 0..answer : answer' = GetMessageLength(buf, count)
  /\ UNCHANGED <<text, room, buf>>

\* parse: a frame whose length is known is parsed with that length.
TripParse ==
  /\ trip = "measured" /\ answer # 0
  /\ trip' = "parsed"
  /\ answer' = Parse(buf, answer)
  /\ UNCHANGED <<text, room, buf>>

TripNext == TripSerialize \/ TripMeasure \/ TripParse

TripSpec == TripInit /\ [][TripNext]_tripVars

\* GetMessageLength of the string, Serialize, GetMessageLength of the bytes
\* and Parse agree on one length, in which header, characters and the
\* terminating zero fit exactly: nothing is written beyond the buffer, and a
\* frame that could be written is accepted whatever part of it has arrived
\* (rpc.cpp:8-28,44-74).
FramesAgree ==
  /\ trip = "serialized" /\ answer > 0 => answer = room /\ FrameBytes(text) = room
  /\ trip = "measured" => answer \in {0, room}
  /\ trip = "parsed" => answer = 0 /\ buf.text = text
=============================================================================
