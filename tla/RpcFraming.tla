----------------------------- MODULE RpcFraming -----------------------------
(***************************************************************************)
(* The frames of protocol/rpc.h and rpc.cpp: a magic number, the length of *)
(* the whole frame, a string and its terminating zero.  A buffer is what   *)
(* the functions look at: whether it begins with the magic number, the     *)
(* length in its header, and how long the string behind it is.             *)
(***************************************************************************)
EXTENDS Integers

CONSTANT MaximumPacketLength   \* kMaximumPacketLength, 1024000

\* sizeof(Header), and sizeof(Message), which has a char msg[1] behind it
HeaderSize  == 8
MessageSize == 9

ASSUME RpcFramingAssumption == MaximumPacketLength \in Nat

Buffers == [magic : BOOLEAN, length : Nat, text : Nat]

\* Length of the frame at the beginning of buf, of which count bytes are
\* there: 0 if that cannot be told yet, -1 if it is no frame.
GetMessageLength(buf, count) ==
  IF count < HeaderSize THEN 0
  ELSE IF ~buf.magic \/ buf.length > MaximumPacketLength THEN -1
  ELSE buf.length

\* Length of the frame of a string with text characters before its zero.
GetStringLength(text) == MessageSize + text

\* Parse of the frame in buf: 0, or what the caller's length is too short for.
Parse(buf, length) ==
  IF buf.length > length THEN -1 ELSE IF buf.text > length THEN -2 ELSE 0

SerializeForgetsHeader_mutant(buf, text) ==
  IF text > MaximumPacketLength THEN [frame |-> buf, length |-> 0]
  ELSE [frame  |-> [magic |-> TRUE, length |-> MessageSize + text, text |-> text],
        length |-> MessageSize + text]

\* What Serialize makes of the buffer, and what it returns: 0, and nothing
\* written, for a string that is too long.
Serialize(buf, text) ==
  IF text + MessageSize > MaximumPacketLength THEN [frame |-> buf, length |-> 0]
  ELSE [frame  |-> [magic |-> TRUE, length |-> MessageSize + text, text |-> text],
        length |-> MessageSize + text]

\* The bytes a serialized string takes: header, characters, zero.
FrameBytes(text) == HeaderSize + text + 1
=============================================================================
