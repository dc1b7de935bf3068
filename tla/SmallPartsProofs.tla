-------------------------- MODULE SmallPartsProofs --------------------------
(***************************************************************************)
(* What TLAPS proves of the small parts: frames agree for strings of every *)
(* length and every longest frame, the readers of records find what has    *)
(* arrived, the loops of test_file.cpp lose and repeat no byte of files of *)
(* every size, a daemon is detached, and nothing is freed that a thread    *)
(* still uses.                                                             *)
(***************************************************************************)
EXTENDS FrameTrip, RecordCodec, IoLoops, Daemon, MutexSample, SequenceTheorems,
        FiniteSetTheorems, TLAPS

(***************************************************************************)
(* FrameTrip                                                               *)
(***************************************************************************)
\* A string that fits is serialized to a frame of the length GetMessageLength
\* of the string had stated, which header, characters and zero fill exactly;
\* one that does not leaves the buffer alone (rpc.cpp:23-28,63-74).
LEMMA SerializedLength ==
  ASSUME NEW buffer \in Buffers, NEW n \in Nat
  PROVE  LET done == Serialize(buffer, n)
         IN  /\ done.frame \in Buffers
             /\ done.length \in {0, GetStringLength(n)}
             /\ done.length = 0 => done.frame = buffer
             /\ done.length > 0 =>
                  /\ done.frame.magic
                  /\ done.frame.length = done.length
                  /\ done.frame.length <= MaximumPacketLength
                  /\ done.frame.text = n
                  /\ FrameBytes(n) = done.length
  BY RpcFramingAssumption
     DEF Serialize, Buffers, GetStringLength, MessageSize, FrameBytes, HeaderSize

\* Whatever part of such a frame has arrived, its length is told or awaited,
\* never refused (rpc.cpp:8-21).
LEMMA FrameAccepted ==
  ASSUME NEW buffer \in Buffers, NEW arrived \in Nat,
         buffer.magic, buffer.length <= MaximumPacketLength
  PROVE  GetMessageLength(buffer, arrived) \in {0, buffer.length}
  BY RpcFramingAssumption DEF GetMessageLength, Buffers, HeaderSize

\* A whole frame is parsed (rpc.cpp:44-61).
LEMMA FrameParsed ==
  ASSUME NEW buffer \in Buffers, NEW n \in Nat,
         buffer.length = GetStringLength(n), buffer.text = n
  PROVE  Parse(buffer, buffer.length) = 0
  BY DEF Parse, Buffers, GetStringLength, MessageSize

\* What FramesAgree rests on: the buffer holds the frame of the string, and
\* the answer is that of the last function called.
Framed ==
  /\ buf.magic
  /\ buf.length = room
  /\ buf.text = text
  /\ room = GetStringLength(text)
  /\ room <= MaximumPacketLength

TripInv ==
  /\ trip \in {"new", "serialized", "measured", "parsed"}
  /\ text \in Nat /\ room \in Nat /\ answer \in Int /\ buf \in Buffers
  /\ trip = "serialized" => answer \in {0, room}
  /\ trip = "serialized" /\ answer # 0 => Framed
  /\ trip \in {"measured", "parsed"} => Framed
  /\ trip = "measured" => answer \in {0, room}
  /\ trip = "parsed" => answer = 0

\* TripInv holds at the beginning and every function keeps it.
LEMMA TripInvHolds == TripSpec => []TripInv
<1>1. TripInit => TripInv
  BY DEF TripInit, TripInv, Buffers
<1>2. TripInv /\ [TripNext]_tripVars => TripInv'
  <2> SUFFICES ASSUME TripInv, [TripNext]_tripVars PROVE TripInv'
    OBVIOUS
  <2>1. CASE TripSerialize
    <3>1. PICK n \in 0..MaxText :
            LET done == Serialize(buf, n)
            IN  text' = n /\ room' = GetStringLength(n)
                /\ buf' = done.frame /\ answer' = done.length
      BY <2>1 DEF TripSerialize
    <3>2. n \in Nat /\ trip' = "serialized" /\ buf \in Buffers
      BY <2>1, FrameTripAssumption DEF TripSerialize, TripInv
    <3>3. room' \in Nat
      BY <3>1, <3>2 DEF GetStringLength, MessageSize
    <3> DEFINE done == Serialize(buf, n)
    <3>4. /\ done.frame \in Buffers
          /\ done.length \in {0, GetStringLength(n)}
          /\ done.length > 0 =>
               /\ done.frame.magic
               /\ done.frame.length = done.length
               /\ done.frame.length <= MaximumPacketLength
               /\ done.frame.text = n
      BY <3>2, SerializedLength
    <3>5. text' = n /\ room' = GetStringLength(n) /\ buf' = done.frame
          /\ answer' = done.length
      BY <3>1
    <3>6. answer' # 0 => Framed'
      <4> HIDE DEF done
      <4> QED BY <3>3, <3>4, <3>5 DEF Framed
    <3> HIDE DEF done
    <3> QED BY <3>2, <3>3, <3>4, <3>5, <3>6 DEF TripInv
  <2>2. CASE TripMeasure
    <3>1. PICK arrived \in 0..answer : answer' = GetMessageLength(buf, arrived)
      BY <2>2 DEF TripMeasure
    <3>2. Framed /\ answer = room /\ room \in Nat /\ buf \in Buffers
      BY <2>2 DEF TripMeasure, TripInv
    <3>3. answer' \in {0, room}
      BY <3>1, <3>2, FrameAccepted DEF Framed
    <3>4. Framed'
      BY <2>2, <3>2 DEF TripMeasure, Framed
    <3> QED BY <2>2, <3>2, <3>3, <3>4 DEF TripMeasure, TripInv
  <2>3. CASE TripParse
    <3>1. Framed /\ answer = room /\ buf \in Buffers /\ text \in Nat
      BY <2>3 DEF TripParse, TripInv
    <3>2. answer' = 0
      BY <2>3, <3>1, FrameParsed DEF TripParse, Framed
    <3>3. Framed'
      BY <2>3, <3>1 DEF TripParse, Framed
    <3> QED BY <2>3, <3>1, <3>2, <3>3 DEF TripParse, TripInv
  <2>4. CASE UNCHANGED tripVars
    BY <2>4 DEF tripVars, TripInv, Framed
  <2> QED BY <2>1, <2>2, <2>3, <2>4 DEF TripNext
<1> QED BY <1>1, <1>2, PTL DEF TripSpec

\* The buffer that was allocated by one function's length is filled exactly by
\* the other's, and the frame is accepted and parsed by the rest
\* (rpc.cpp:8-28,44-74).
THEOREM FramesAgreeHolds == TripSpec => []FramesAgree
<1>1. TripInv => FramesAgree
  BY DEF TripInv, Framed, FramesAgree, FrameBytes, GetStringLength, MessageSize, HeaderSize
<1> QED BY <1>1, TripInvHolds, PTL

-----------------------------------------------------------------------------
(***************************************************************************)
(* RecordCodec                                                             *)
(***************************************************************************)
Kinds == {"CHARS", "STRUCTS"}

\* The number of records in a message.
Records(kind) == IF kind = "CHARS" THEN 5 ELSE 10

\* Where the records of a message end, one after the other
\* (server.cpp:157-166).
LEMMA OffsetStep ==
  ASSUME NEW kind \in Kinds, NEW r \in 1..Records(kind)
  PROVE  /\ Lengths(kind)[r] \in Nat /\ Lengths(kind)[r] > 0
         /\ Offset(kind, r - 1) \in Nat /\ Offset(kind, r) \in Nat
         /\ Offset(kind, r) = Offset(kind, r - 1) + IntSize + Lengths(kind)[r]
         /\ Lengths(kind)[r] = IF kind = "CHARS" THEN 9 + r ELSE AddressSize
<1>1. CASE kind = "CHARS"
  <2>1. r \in 1..5 /\ Lengths(kind)[r] = 9 + r
    BY <1>1 DEF Records, Lengths, CharsLengths
  <2>2. r = 1 \/ r = 2 \/ r = 3 \/ r = 4 \/ r = 5
    BY <2>1
  <2>3. /\ Offset(kind, 0) = 0 /\ Offset(kind, 1) = 14 /\ Offset(kind, 2) = 29
        /\ Offset(kind, 3) = 45 /\ Offset(kind, 4) = 62 /\ Offset(kind, 5) = 80
    BY <1>1 DEF Offset, IntSize
  <2> QED BY <1>1, <2>1, <2>2, <2>3 DEF IntSize
<1>2. CASE kind = "STRUCTS"
  <2>1. r \in 1..10 /\ Lengths(kind)[r] = 105 /\ AddressSize = 105
    BY <1>2 DEF Records, Lengths, StructsLengths, AddressSize
  <2>2. /\ Offset(kind, r) = r * 109 /\ Offset(kind, r - 1) = (r - 1) * 109
    BY <1>2, <2>1 DEF Offset, IntSize
  <2> QED BY <1>2, <2>1, <2>2 DEF IntSize
<1> QED BY <1>1, <1>2 DEF Kinds

\* Records do not overlap.
LEMMA OffsetMonotone ==
  ASSUME NEW kind \in Kinds, NEW q \in 0..Records(kind), NEW r \in 0..Records(kind), q <= r
  PROVE  Offset(kind, q) <= Offset(kind, r)
<1>1. CASE kind = "CHARS"
  <2>1. /\ q = 0 \/ q = 1 \/ q = 2 \/ q = 3 \/ q = 4 \/ q = 5
        /\ r = 0 \/ r = 1 \/ r = 2 \/ r = 3 \/ r = 4 \/ r = 5
    BY <1>1 DEF Records
  <2>2. /\ Offset(kind, 0) = 0 /\ Offset(kind, 1) = 14 /\ Offset(kind, 2) = 29
        /\ Offset(kind, 3) = 45 /\ Offset(kind, 4) = 62 /\ Offset(kind, 5) = 80
    BY <1>1 DEF Offset, IntSize
  <2> QED BY <2>1, <2>2
<1>2. CASE kind = "STRUCTS"
  <2>1. Offset(kind, q) = q * 109 /\ Offset(kind, r) = r * 109
    BY <1>2 DEF Offset, IntSize, AddressSize
  <2> QED BY <1>2, <2>1 DEF Records
<1> QED BY <1>1, <1>2 DEF Kinds

\* What the rows hold of the records before the current one: read_chars has
\* each in its row, read_structs the last of them in the first.  A record is
\* whole if all of it had arrived.
RowsKept ==
  /\ reader = "CHARS" /\ message = "CHARS" =>
       \A r \in 1..20 :
         /\ r < record =>
              /\ slots[r - 1].record = r
              /\ Offset(message, r) <= count => slots[r - 1].bytes = Lengths(message)[r]
         /\ r >= record => slots[r - 1] = Nothing
  /\ reader = "STRUCTS" /\ message = "STRUCTS" =>
       /\ record > 1 =>
            /\ slots[0].record = record - 1
            /\ Offset(message, record - 1) <= count => slots[0].bytes = AddressSize
       /\ \A i \in 1..19 : slots[i] = Nothing

\* A reader is at the beginning of a record of which something has arrived,
\* and is done behind the last of those.
CodecInv ==
  /\ codec \in {"read", "decode", "done", "overrun"}
  /\ reader \in Kinds /\ message \in Kinds
  /\ DOMAIN slots = 0..19
  /\ codec = "read" => record = 1 /\ \A i \in 0..19 : slots[i] = Nothing
  /\ codec \in {"decode", "done"} => count \in 1..Total(message)
  /\ codec = "decode" =>
       /\ record \in 1..Records(message)
       /\ remain = count - Offset(message, record - 1) /\ remain > 0
  /\ codec = "done" =>
       /\ record - 1 \in 1..Records(message) /\ record \in Nat
       /\ Offset(message, record - 2) < count /\ count <= Offset(message, record - 1)
  /\ codec \in {"decode", "done"} => RowsKept
  /\ OverrunOnlyByStructs

\* One round of a reader's loop: the record is in the row it was read to, and
\* the reader is at the next one, done, or beyond its row.
LEMMA DecodeStep ==
  ASSUME CodecInv, NEW row \in 0..19, NEW index \in 0..10, Decode(row, index),
         reader = "CHARS" => row = record - 1 /\ index = record,
         reader = "STRUCTS" => row = 0 /\ index = 0
  PROVE  CodecInv'
<1> DEFINE len == Lengths(message)[record]
<1>1. /\ codec = "decode" /\ DOMAIN slots = 0..19
      /\ message \in Kinds /\ reader \in Kinds
      /\ record \in 1..Records(message) /\ record \in Nat
      /\ count \in Nat /\ count <= Total(message)
      /\ remain = count - Offset(message, record - 1) /\ remain > 0
      /\ RowsKept
  <2>1. Total(message) \in Int
    BY DEF Total, Offset, IntSize, AddressSize
  <2> QED BY <2>1 DEF Decode, CodecInv, Records
<1>2. /\ len \in Nat /\ len > 0
      /\ Offset(message, record - 1) \in Nat /\ Offset(message, record) \in Nat
      /\ Offset(message, record) = Offset(message, record - 1) + IntSize + len
      /\ len = IF message = "CHARS" THEN 9 + record ELSE AddressSize
  BY <1>1, OffsetStep
<1>3. /\ slots' = [slots EXCEPT ![row] = [record |-> record, bytes |-> RecordArrived]]
      /\ record' = record + 1 /\ remain' = remain - IntSize - len
      /\ UNCHANGED <<reader, message, count>>
  BY DEF Decode, RecordLength
<1>4. remain' = count - Offset(message, record)
  BY <1>1, <1>2, <1>3 DEF IntSize
<1>5. Offset(message, record) <= count => RecordArrived = len
  <2>1. Offset(message, record) <= count => remain - IntSize >= len /\ remain > IntSize
    BY <1>1, <1>2 DEF IntSize
  <2>2. remain \in Int /\ remain - IntSize \in Int
    BY <1>1, <1>2 DEF IntSize
  <2> QED BY <1>2, <2>1, <2>2 DEF RecordArrived, RecordLength, IntSize
<1>6. Total(message) = Offset(message, Records(message))
  BY DEF Total, Records
<1>7. codec' \in {"decode", "done"} => RowsKept'
  <2>1. CASE reader = "CHARS" /\ message = "CHARS"
    <3>1. row = record - 1 /\ record \in 1..5 /\ len = Lengths(message)[record]
      BY <1>1, <2>1 DEF Records
    <3>2. ASSUME NEW r \in 1..20, r < record'
          PROVE  /\ slots'[r - 1].record = r
                 /\ Offset(message, r) <= count => slots'[r - 1].bytes = Lengths(message)[r]
      <4>1. CASE r = record
        BY <1>1, <1>3, <1>5, <3>1, <4>1
      <4>2. CASE r # record
        <5>1. r < record /\ r - 1 # row /\ r - 1 \in 0..19
          BY <1>1, <1>3, <3>1, <3>2, <4>2
        <5>2. slots'[r - 1] = slots[r - 1]
          BY <1>1, <1>3, <5>1
        <5> QED BY <1>1, <2>1, <5>1, <5>2 DEF RowsKept
      <4> QED BY <4>1, <4>2
    <3>3. ASSUME NEW r \in 1..20, r >= record' PROVE slots'[r - 1] = Nothing
      <4>1. r >= record /\ r - 1 # row /\ r - 1 \in 0..19
        BY <1>1, <1>3, <3>1, <3>3
      <4>2. slots'[r - 1] = slots[r - 1]
        BY <1>1, <1>3, <4>1
      <4> QED BY <1>1, <2>1, <4>1, <4>2 DEF RowsKept
    <3> QED BY <1>3, <2>1, <3>2, <3>3 DEF RowsKept
  <2>2. CASE reader = "STRUCTS" /\ message = "STRUCTS"
    <3>1. row = 0 /\ len = AddressSize /\ record' - 1 = record
      BY <1>1, <1>2, <1>3, <2>2
    <3>2. slots'[0] = [record |-> record, bytes |-> RecordArrived]
      BY <1>1, <1>3, <3>1
    <3>3. \A i \in 1..19 : slots'[i] = slots[i]
      BY <1>1, <1>3, <3>1
    <3>4. \A i \in 1..19 : slots[i] = Nothing
      BY <1>1, <2>2 DEF RowsKept
    <3> QED BY <1>3, <1>5, <2>2, <3>1, <3>2, <3>3, <3>4 DEF RowsKept
  <2> QED BY <1>3, <2>1, <2>2 DEF RowsKept
<1>8. CASE len > RowSize(reader)
  <2>1. codec' = "overrun"
    BY <1>8 DEF Decode, RecordLength
  <2>2. reader = "CHARS" /\ message = "STRUCTS"
    BY <1>1, <1>2, <1>8 DEF RowSize, AddressSize, Kinds, Records
  <2> QED BY <1>1, <1>3, <2>1, <2>2 DEF CodecInv, OverrunOnlyByStructs
<1>9. CASE ~(len > RowSize(reader))
  <2>1. /\ index < Rows(reader) /\ remain' > 0 => codec' = "decode"
        /\ ~(index < Rows(reader) /\ remain' > 0) => codec' = "done"
    BY <1>9 DEF Decode, RecordLength
  <2>2. index < Rows(reader)
    <3>1. CASE reader = "CHARS"
      <4>1. message = "CHARS" /\ index = record
        BY <1>1, <1>2, <1>9, <3>1 DEF RowSize, AddressSize, Kinds
      <4> QED BY <1>1, <3>1, <4>1 DEF Records, Rows
    <3>2. CASE reader = "STRUCTS"
      BY <3>2 DEF Rows
    <3> QED BY <1>1, <3>1, <3>2 DEF Kinds
  <2>3. CASE remain' > 0
    <3>1. codec' = "decode"
      BY <2>1, <2>2, <2>3
    <3>2. record # Records(message)
      BY <1>1, <1>2, <1>4, <1>6, <2>3
    <3>3. record' \in 1..Records(message) /\ record' - 1 = record
      BY <1>1, <1>3, <3>2 DEF Records
    <3>4. remain' = count' - Offset(message', record' - 1)
      BY <1>3, <1>4, <3>3
    <3>5. count' \in 1..Total(message')
      BY <1>3, <3>1 DEF CodecInv, Decode
    <3> QED
      BY <1>1, <1>3, <1>7, <2>3, <3>1, <3>3, <3>4, <3>5 DEF CodecInv, OverrunOnlyByStructs
  <2>4. CASE ~(remain' > 0)
    <3>1. codec' = "done"
      BY <2>1, <2>4
    <3>2. record' - 1 = record /\ record' - 2 = record - 1 /\ record' \in Nat
      BY <1>1, <1>3
    <3>3. Offset(message, record - 1) < count /\ count <= Offset(message, record)
      BY <1>1, <1>2, <1>4, <2>4
    <3>4. count' \in 1..Total(message')
      BY <1>3, <3>1 DEF CodecInv, Decode
    <3> QED
      BY <1>1, <1>3, <1>7, <3>1, <3>2, <3>3, <3>4 DEF CodecInv, OverrunOnlyByStructs
  <2> QED BY <2>3, <2>4
<1> QED BY <1>8, <1>9

\* The readers keep the invariant.
LEMMA CodecInvHolds == CodecSpec => []CodecInv
<1>1. CodecInit => CodecInv
  <2> SUFFICES ASSUME CodecInit PROVE CodecInv
    OBVIOUS
  <2>1. \A i \in 0..19 : slots[i] = Nothing
    BY DEF CodecInit
  <2> QED BY <2>1 DEF CodecInit, CodecInv, Kinds, OverrunOnlyByStructs
<1>2. CodecInv /\ [CodecNext]_codecVars => CodecInv'
  <2> SUFFICES ASSUME CodecInv, [CodecNext]_codecVars PROVE CodecInv'
    OBVIOUS
  <2>1. CASE ReadRecords
    <3>1. /\ codec' = "decode" /\ record' = 1 /\ record' \in Nat
          /\ reader' \in Kinds /\ message' \in Kinds
          /\ count' \in 1..Total(message') /\ remain' = count'
          /\ slots' = slots /\ DOMAIN slots = 0..19
          /\ \A i \in 0..19 : slots'[i] = Nothing
      BY <2>1 DEF ReadRecords, CodecInv, Kinds
    <3>2. Total(message') \in Int /\ Offset(message', 0) = 0
      BY DEF Total, Offset, IntSize, AddressSize
    <3>3. record' \in 1..Records(message')
      BY <3>1 DEF Records
    <3>4. remain' = count' - Offset(message', record' - 1) /\ remain' > 0
      BY <3>1, <3>2
    <3>5. RowsKept'
      BY <3>1 DEF RowsKept
    <3> QED BY <3>1, <3>3, <3>4, <3>5 DEF CodecInv, OverrunOnlyByStructs
  <2>2. CASE DecodeChars
    <3>1. reader = "CHARS" /\ Decode(record - 1, record)
      BY <2>2 DEF DecodeChars
    <3>2. record \in 1..10 /\ record - 1 \in 0..19 /\ record \in 0..10
      BY <3>1 DEF Decode, CodecInv, Records
    <3> QED BY <3>1, <3>2, DecodeStep
  <2>3. CASE DecodeStructs
    <3>1. reader = "STRUCTS" /\ Decode(0, 0)
      BY <2>3 DEF DecodeStructs
    <3> QED BY <3>1, DecodeStep
  <2>4. CASE UNCHANGED codecVars
    BY <2>4 DEF codecVars, CodecInv, RowsKept, OverrunOnlyByStructs
  <2> QED BY <2>1, <2>2, <2>3, <2>4 DEF CodecNext
<1> QED BY <1>1, <1>2, PTL DEF CodecSpec

\* No reader is taken beyond its rows by records of its own kind, however many
\* bytes of the message read() returned (server.cpp:121-131,196-205).
THEOREM OverrunOnlyByStructsHolds == CodecSpec => []OverrunOnlyByStructs
<1>1. CodecInv => OverrunOnlyByStructs
  BY DEF CodecInv
<1> QED BY <1>1, CodecInvHolds, PTL

\* The readers find the records that had begun to arrive and no other, each
\* whole if all of it had, for every beginning of a message
\* (server.cpp:118-131,193-205).
THEOREM RecordsRecoveredHolds == CodecSpec => []RecordsRecovered
<1>1. CodecInv => RecordsRecovered
  <2> SUFFICES ASSUME CodecInv, codec = "done", reader = message PROVE RecordsRecovered
    BY DEF RecordsRecovered
  <2> DEFINE n     == Records(message)
             begun == {r \in DOMAIN Lengths(message) : Offset(message, r - 1) < count}
             whole == {r \in begun : Offset(message, r) <= count}
             last  == record - 1
  <2>1. /\ message \in Kinds /\ last \in 1..n /\ n \in {5, 10} /\ record \in Nat
        /\ Offset(message, last - 1) < count /\ count <= Offset(message, last)
        /\ RowsKept /\ count \in Int
        /\ DOMAIN Lengths(message) = 1..n
    <3>1. count \in 1..Total(message) /\ Total(message) \in Int
      BY DEF CodecInv, Total, Offset, IntSize, AddressSize
    <3>2. record \in Nat => last - 1 = record - 2
      OBVIOUS
    <3>3. /\ message \in Kinds /\ last \in 1..n /\ record \in Nat /\ RowsKept
          /\ Offset(message, record - 2) < count /\ count <= Offset(message, last)
      BY DEF CodecInv
    <3>4. n \in {5, 10} /\ DOMAIN Lengths(message) = 1..n
      BY <3>3 DEF Records, Kinds, Lengths, CharsLengths, StructsLengths
    <3> QED BY <3>1, <3>2, <3>3, <3>4
  <2>2. begun = 1..last
    <3>1. ASSUME NEW r \in 1..n, r <= last PROVE Offset(message, r - 1) < count
      <4>1. Offset(message, r - 1) <= Offset(message, last - 1)
        BY <2>1, <3>1, OffsetMonotone
      <4>2. Offset(message, r - 1) \in Nat /\ Offset(message, last - 1) \in Nat
        BY <2>1, OffsetStep
      <4> QED BY <2>1, <4>1, <4>2
    <3>2. ASSUME NEW r \in 1..n, r > last PROVE ~(Offset(message, r - 1) < count)
      <4>1. Offset(message, last) <= Offset(message, r - 1)
        BY <2>1, <3>2, OffsetMonotone
      <4>2. Offset(message, r - 1) \in Nat /\ Offset(message, last) \in Nat
        BY <2>1, OffsetStep
      <4> QED BY <2>1, <4>1, <4>2
    <3>3. begun \subseteq 1..last
      BY <2>1, <3>2
    <3>4. 1..last \subseteq begun
      BY <2>1, <3>1
    <3> QED BY <3>3, <3>4
  <2>3. Cardinality(begun) = last
    <3>1. last \in Int /\ last >= 1
      BY <2>1
    <3>2. Cardinality(1..last) = last
      BY <3>1, FS_Interval
    <3> QED BY <2>2, <3>2
  <2>4. record = Cardinality(begun) + 1
    BY <2>1, <2>3
  <2>5. CASE reader = "CHARS"
    <3>1. message = "CHARS" /\ n = 5
      BY <2>5 DEF Records
    <3>2. ASSUME NEW r \in DOMAIN Lengths(message)
          PROVE  /\ slots[r - 1].record = (IF r \in begun THEN r ELSE 0)
                 /\ r \in whole => slots[r - 1].bytes = Lengths(message)[r]
      <4>1. r \in 1..20 /\ r \in 1..5
        BY <2>1, <3>1
      <4>2. CASE r \in begun
        <5>1. r < record
          BY <2>1, <2>2, <4>1, <4>2
        <5>2. /\ slots[r - 1].record = r
              /\ Offset(message, r) <= count => slots[r - 1].bytes = Lengths(message)[r]
          BY <2>1, <2>5, <3>1, <4>1, <5>1 DEF RowsKept
        <5> QED BY <4>2, <5>2
      <4>3. CASE r \notin begun
        <5>1. r >= record
          BY <2>1, <2>2, <4>1, <4>3
        <5>2. slots[r - 1] = Nothing
          BY <2>1, <2>5, <3>1, <4>1, <5>1 DEF RowsKept
        <5> QED BY <4>3, <5>2 DEF Nothing
      <4> QED BY <4>2, <4>3
    <3> HIDE DEF begun, whole
    <3> QED BY <2>4, <2>5, <3>2 DEF RecordsRecovered, begun, whole
  <2>6. CASE reader = "STRUCTS"
    <3>1. message = "STRUCTS" /\ record > 1
      BY <2>1, <2>6
    <3>2. /\ slots[0].record = last
          /\ last \in whole => slots[0].bytes = AddressSize
          /\ \A i \in 1..19 : slots[i] = Nothing
      BY <2>1, <2>6, <3>1 DEF RowsKept
    <3>3. reader # "CHARS" /\ last = Cardinality(begun)
      BY <2>3, <2>6
    <3>4. \E i \in 0..19 : /\ slots[i].record = last
                           /\ last \in whole => slots[i].bytes = AddressSize
      <4>1. 0 \in 0..19
        OBVIOUS
      <4> QED BY <3>2, <4>1
    <3>5. \A i \in 0..19 : slots[i].record \in begun \cup {0}
      <4>1. last \in begun
        BY <2>1, <2>2
      <4>2. \A i \in 0..19 : i = 0 \/ i \in 1..19
        OBVIOUS
      <4> HIDE DEF last, begun
      <4> QED BY <3>2, <4>1, <4>2 DEF Nothing
    <3> HIDE DEF begun, whole, last
    <3> QED BY <2>4, <3>3, <3>4, <3>5 DEF RecordsRecovered, begun, whole
  <2>7. reader \in Kinds
    BY DEF CodecInv
  <2> QED BY <2>5, <2>6, <2>7 DEF Kinds
<1> QED BY <1>1, CodecInvHolds, PTL

-----------------------------------------------------------------------------
(***************************************************************************)
(* IoLoops                                                                 *)
(***************************************************************************)
\* A run of bytes is a sequence, and a part of one is a run.
LEMMA BytesIsSeq ==
  ASSUME NEW first \in Int, NEW last \in Int, last >= first - 1
  PROVE  /\ Bytes(first, last) \in Seq(Int)
         /\ Len(Bytes(first, last)) = last - first + 1
         /\ \A i \in 1..last - first + 1 : Bytes(first, last)[i] = first + i - 1
<1> DEFINE n == last - first + 1
<1>1. n \in Nat /\ Bytes(first, last) \in [1..n -> Int]
  BY DEF Bytes
<1>2. Bytes(first, last) \in Seq(Int)
  BY <1>1, SeqDef, Zenon
<1>3. DOMAIN Bytes(first, last) = 1..n
  BY DEF Bytes
<1>4. Len(Bytes(first, last)) = n
  BY <1>1, <1>2, <1>3, LenProperties
<1>5. \A i \in 1..n : Bytes(first, last)[i] = first + i - 1
  BY DEF Bytes
<1> QED BY <1>2, <1>4, <1>5

\* What was in the file before is a sequence, too.
LEMMA OldIsSeq == old \in Nat => Old \in Seq(Int)
<1> SUFFICES ASSUME old \in Nat PROVE Old \in Seq(Int)
  OBVIOUS
<1> DEFINE b == Bytes(-old, -1)
<1>0. -old \in Int /\ -1 \in Int /\ -1 >= -old - 1 /\ -1 - (-old) + 1 = old
  OBVIOUS
<1>1. b \in Seq(Int) /\ Len(b) = old /\ \A i \in 1..old : b[i] \in Int
  <2>1. b \in Seq(Int) /\ Len(b) = -1 - (-old) + 1
    BY <1>0, BytesIsSeq, Zenon
  <2>2. Len(b) = old
    BY <1>0, <2>1, Zenon
  <2> QED BY <2>1, <2>2, ElementOfSeq
<1> HIDE DEF b
<1>2. Reverse(b) \in [1..old -> Int]
  BY <1>1 DEF Reverse
<1>3. Reverse(b) \in Seq(Int)
  BY <1>2, SeqDef, Zenon
<1> QED BY <1>3 DEF Old, b

\* The bytes of vptr are numbered by their places.
LEMMA Counted ==
  ASSUME NEW k \in Nat
  PROVE  Bytes(1, k) \in Seq(Int) /\ Len(Bytes(1, k)) = k /\ \A i \in 1..k : Bytes(1, k)[i] = i
<1>1. 1 \in Int /\ k \in Int /\ k >= 1 - 1 /\ k - 1 + 1 = k
  OBVIOUS
<1>2. Bytes(1, k) \in Seq(Int) /\ Len(Bytes(1, k)) = k - 1 + 1
  BY <1>1, BytesIsSeq, Zenon
<1>3. \A i \in 1..k : Bytes(1, k)[i] = i
  BY <1>1 DEF Bytes
<1> QED BY <1>1, <1>2, <1>3, Zenon

\* The first k of them.
LEMMA PartOfVptr ==
  ASSUME NEW k \in 0..WriteSize
  PROVE  SubSeq(Vptr, 1, k) = Bytes(1, k)
<1>a. WriteSize \in Nat /\ k \in Nat /\ k <= WriteSize
  BY IoAssumption
<1>1. /\ Vptr \in Seq(Int) /\ Len(Vptr) = WriteSize
      /\ \A i \in 1..WriteSize : Vptr[i] = i
  BY <1>a, Counted, Zenon DEF Vptr
<1>2. /\ Bytes(1, k) \in Seq(Int) /\ Len(Bytes(1, k)) = k
      /\ \A i \in 1..k : Bytes(1, k)[i] = i
  BY <1>a, Counted, Zenon
<1>3. /\ SubSeq(Vptr, 1, k) \in Seq(Int) /\ Len(SubSeq(Vptr, 1, k)) = k
      /\ \A i \in 1..k : SubSeq(Vptr, 1, k)[i] = i
  BY <1>a, <1>1, SubSeqProperties
<1> QED BY <1>2, <1>3, SeqEqual

\* What TransferExact rests on: nleft says how much of vptr is in the file, and
\* the position in the file how much of it is in the buffer.
IoTypes ==
  /\ io \in {"open", "writen", "opened", "readn", "done"}
  /\ old \in Nat /\ nleft \in Nat /\ offset \in Nat
  /\ nwrote \in Int /\ nread \in Int
  /\ file \in Seq(Int)
  /\ stopped \in BOOLEAN

\* Some of vptr, or all of it, is in the file behind the old bytes.
PartWritten == \E k \in 0..WriteSize : file = Old \o SubSeq(Vptr, 1, k)
AllWritten  == file = Old \o Vptr

Written ==
  /\ io \in {"open", "writen"} => nwrote = 0 /\ offset = 0
  /\ io = "writen" => /\ nleft <= WriteSize
                      /\ file = Old \o SubSeq(Vptr, 1, WriteSize - nleft)
  /\ io # "open" => PartWritten
  /\ nwrote > 0 => AllWritten

ReadSoFar ==
  /\ offset <= Len(file) /\ data = SubSeq(file, 1, offset)
  /\ io = "opened" => offset = 0
  /\ io = "readn" => nleft <= ReadSize /\ offset = ReadSize - nleft
  /\ io # "done" => ~stopped
  /\ io = "done" /\ nread >= 0 =>
       nread = offset /\ (nread < ReadSize /\ ~stopped => offset = Len(file))

IoInv == IoTypes /\ Written /\ ReadSoFar

\* What one write() adds is the next part of vptr.
LEMMA WrittenGrows ==
  ASSUME NEW before \in Seq(Int), NEW k \in 0..WriteSize, NEW n \in 0..WriteSize - k
  PROVE  /\ (before \o SubSeq(Vptr, 1, k)) \o SubSeq(Vptr, k + 1, k + n)
               = before \o SubSeq(Vptr, 1, k + n)
         /\ before \o SubSeq(Vptr, 1, k + n) \in Seq(Int)
<1>a. WriteSize \in Nat /\ Vptr \in Seq(Int) /\ Len(Vptr) = WriteSize
  BY IoAssumption, Counted DEF Vptr
<1>b. \A i \in 1..WriteSize : Vptr[i] \in Int
  BY <1>a, ElementOfSeq
<1>c. k \in Nat /\ n \in Nat /\ k + n <= WriteSize
  BY <1>a
<1>1. /\ SubSeq(Vptr, 1, k) \in Seq(Int)
      /\ SubSeq(Vptr, k + 1, k + n) \in Seq(Int)
      /\ SubSeq(Vptr, 1, k + n) \in Seq(Int)
  BY <1>a, <1>b, <1>c, SubSeqProperties
<1>2. SubSeq(Vptr, 1, k) \o SubSeq(Vptr, k + 1, k + n) = SubSeq(Vptr, 1, k + n)
  <2>1. 1 \in 1..Len(Vptr) + 1 /\ k \in 1 - 1..Len(Vptr) /\ k + n \in k..Len(Vptr)
    BY <1>a, <1>c
  <2> QED BY <1>a, <2>1, ConcatAdjacentSubSeq, Zenon
<1>3. (before \o SubSeq(Vptr, 1, k)) \o SubSeq(Vptr, k + 1, k + n)
        = before \o (SubSeq(Vptr, 1, k) \o SubSeq(Vptr, k + 1, k + n))
  <2> DEFINE first == SubSeq(Vptr, 1, k)
             next  == SubSeq(Vptr, k + 1, k + n)
  <2>1. first \in Seq(Int) /\ next \in Seq(Int)
    BY <1>1
  <2> HIDE DEF first, next
  <2>2. (before \o first) \o next = before \o (first \o next)
    BY <2>1, ConcatAssociative, SMTT(30)
  <2> QED BY <2>2 DEF first, next
<1>4. before \o SubSeq(Vptr, 1, k + n) \in Seq(Int)
  BY <1>1, ConcatProperties
<1> QED BY <1>2, <1>3, <1>4, Zenon

\* A beginning of a sequence, and what is left of nothing.
LEMMA Beginnings ==
  ASSUME NEW s \in Seq(Int)
  PROVE  /\ SubSeq(s, 1, 0) = <<>>
         /\ s \o <<>> = s
         /\ SubSeq(s, 1, Len(s)) = s
         /\ \A i \in 0..Len(s) : SubSeq(s, 1, i) \in Seq(Int) /\ Len(SubSeq(s, 1, i)) = i
<1>1. SubSeq(s, 1, 0) = <<>>
  BY SubSeqEmpty
<1>2. \A i \in 1..Len(s) : s[i] \in Int
  BY ElementOfSeq
<1>3. Len(s) \in Nat
  BY LenProperties
<1>4. ASSUME NEW i \in 0..Len(s)
      PROVE  SubSeq(s, 1, i) \in Seq(Int) /\ Len(SubSeq(s, 1, i)) = i
  BY <1>2, <1>3, SubSeqProperties
<1> QED BY <1>1, <1>4, ConcatEmptySeq, SubSeqFull

\* Reading on adds the next part of the file.
LEMMA ReadGrows ==
  ASSUME NEW s \in Seq(Int), NEW i \in Nat, NEW n \in Nat, i + n <= Len(s)
  PROVE  SubSeq(s, 1, i) \o SubSeq(s, i + 1, i + n) = SubSeq(s, 1, i + n)
<1>1. Len(s) \in Nat
  BY LenProperties
<1>2. 1 \in 1..Len(s) + 1 /\ i \in 1 - 1..Len(s) /\ i + n \in i..Len(s)
  BY <1>1
<1> QED BY <1>2, ConcatAdjacentSubSeq, Zenon

\* What does not touch the file leaves what was written.
LEMMA FileKept ==
  ASSUME UNCHANGED <<old, file>>
  PROVE  /\ Old' = Old
         /\ PartWritten' = PartWritten /\ AllWritten' = AllWritten
<1>1. Old' = Old
  BY DEF Old
<1> QED BY <1>1 DEF PartWritten, AllWritten

\* The loops keep it.
LEMMA IoInvHolds == IoSpec => []IoInv
<1> USE IoAssumption
<1>1. IoInit => IoInv
  <2> SUFFICES ASSUME IoInit PROVE IoInv
    OBVIOUS
  <2>1. IoTypes /\ Written
    <3>1. file \in Seq(Int) /\ stopped \in BOOLEAN
      BY EmptySeq DEF IoInit
    <3>a. /\ io = "open" /\ old = 0 /\ nleft = 0 /\ offset = 0
          /\ nwrote = 0 /\ nread = 0
      BY DEF IoInit
    <3>2. IoTypes
      BY <3>1, <3>a DEF IoTypes
    <3>3. Written
      BY DEF IoInit, Written
    <3> QED BY <3>2, <3>3
  <2>2. file \in Seq(Int) /\ Len(file) = 0
    BY EmptySeq DEF IoInit
  <2>3. data = SubSeq(file, 1, offset)
    BY <2>2, Beginnings DEF IoInit
  <2>4. ReadSoFar
    BY <2>2, <2>3 DEF IoInit, ReadSoFar
  <2> QED BY <2>1, <2>4 DEF IoInv
<1>2. IoInv /\ [IoNext]_ioVars => IoInv'
  <2> SUFFICES ASSUME IoInv, [IoNext]_ioVars PROVE IoInv'
    OBVIOUS
  <2>a. IoTypes /\ Written /\ ReadSoFar /\ file \in Seq(Int) /\ Len(file) \in Nat
    BY LenProperties DEF IoInv, IoTypes
  <2>b. Old \in Seq(Int)
    BY <2>a, OldIsSeq DEF IoTypes
  <2>1. CASE OpenToWrite
    <3>1. old' \in Nat /\ io = "open" /\ io' = "writen" /\ nleft' = WriteSize
          /\ UNCHANGED <<offset, data, nwrote, nread, stopped>>
      BY <2>1 DEF OpenToWrite
    <3>2. file' = Old' /\ Old' \in Seq(Int)
      <4>1. (OldIsSeq)'
        BY OldIsSeq, PTL
      <4> QED BY <2>1, <3>1, <4>1 DEF OpenToWrite
    <3>3. SubSeq(Vptr, 1, 0) = <<>> /\ file' = Old' \o SubSeq(Vptr, 1, 0)
      BY <3>2, Beginnings, SubSeqEmpty
    <3>4. IoTypes'
      BY <2>a, <3>1, <3>2 DEF IoTypes
    <3>5. Written'
      <4>1. PartWritten'
        BY <3>3 DEF PartWritten
      <4> QED BY <2>a, <3>1, <3>3, <4>1 DEF Written
    <3>6. offset = 0 /\ data = <<>> /\ SubSeq(file', 1, 0) = <<>> /\ Len(file') \in Nat
      BY <2>a, <3>1, <3>2, Beginnings, LenProperties DEF Written, ReadSoFar
    <3>7. ReadSoFar'
      BY <2>a, <3>1, <3>6 DEF ReadSoFar
    <3> QED BY <3>4, <3>5, <3>7 DEF IoInv
  <2>2. CASE WriteSome
    <3>1. PICK n \in 1..nleft :
            /\ file' = file \o SubSeq(Vptr, WriteSize - nleft + 1, WriteSize - nleft + n)
            /\ nleft' = nleft - n
      BY <2>2 DEF WriteSome
    <3>2. /\ io = "writen" /\ io' = "writen"
          /\ UNCHANGED <<old, offset, data, nwrote, nread, stopped>>
      BY <2>2 DEF WriteSome
    <3> DEFINE k == WriteSize - nleft
    <3>3. /\ k \in 0..WriteSize /\ n \in 0..WriteSize - k /\ nleft' \in Nat
          /\ nleft' <= WriteSize /\ WriteSize - nleft' = k + n /\ k + n \in 0..WriteSize
      BY <2>a, <3>1, <3>2 DEF IoTypes, Written
    <3>4. file = Old \o SubSeq(Vptr, 1, k)
          /\ file' = file \o SubSeq(Vptr, k + 1, k + n)
      BY <2>a, <3>1, <3>2 DEF Written
    <3> HIDE DEF k
    <3>5. file' = Old \o SubSeq(Vptr, 1, k + n) /\ file' \in Seq(Int)
      BY <2>b, <3>3, <3>4, WrittenGrows
    <3>6. Old' = Old
      BY <3>2 DEF Old
    <3>7. IoTypes'
      BY <2>a, <3>2, <3>3, <3>5 DEF IoTypes
    <3>8. Written'
      <4>1. PartWritten'
        BY <3>3, <3>5, <3>6 DEF PartWritten
      <4>2. nwrote' = 0 /\ offset' = 0
        BY <2>a, <3>2 DEF Written
      <4>3. file' = Old' \o SubSeq(Vptr, 1, WriteSize - nleft')
        BY <3>3, <3>5, <3>6, Zenon
      <4> QED BY <3>2, <3>3, <4>1, <4>2, <4>3 DEF Written
    <3>9. offset = 0 /\ data = <<>> /\ SubSeq(file', 1, 0) = <<>> /\ Len(file') \in Nat
      BY <2>a, <3>2, <3>5, Beginnings, LenProperties DEF Written, ReadSoFar
    <3>10. ReadSoFar'
      BY <2>a, <3>2, <3>9 DEF ReadSoFar
    <3> QED BY <3>7, <3>8, <3>10 DEF IoInv
  <2>3. CASE WriteReturn
    <3>1. /\ io = "writen" /\ io' = "opened"
          /\ nwrote' = -1 \/ (nleft = 0 /\ nwrote' = WriteSize)
          /\ UNCHANGED <<old, file, nleft, offset, data, nread, stopped>>
      BY <2>3 DEF WriteReturn
    <3>2. Old' = Old /\ PartWritten' = PartWritten /\ AllWritten' = AllWritten
      BY <3>1, FileKept
    <3>3. nleft = 0 => file = Old \o Vptr
      <4>1. Vptr \in Seq(Int) /\ Len(Vptr) = WriteSize
        BY Counted DEF Vptr
      <4>2. SubSeq(Vptr, 1, WriteSize) = Vptr
        BY <4>1, Beginnings
      <4>3. nleft = 0 => WriteSize - nleft = WriteSize
        OBVIOUS
      <4>4. file = Old \o SubSeq(Vptr, 1, WriteSize - nleft)
        BY <2>a, <3>1 DEF Written
      <4> QED BY <4>2, <4>3, <4>4, Zenon
    <3>4. Written'
      <4>1. nwrote' > 0 => AllWritten
        BY <3>1, <3>3 DEF AllWritten
      <4>2. PartWritten
        BY <2>a, <3>1 DEF Written
      <4> QED BY <3>1, <3>2, <4>1, <4>2 DEF Written
    <3>5. IoTypes' /\ ReadSoFar'
      BY <2>a, <3>1 DEF IoTypes, ReadSoFar, Written
    <3> QED BY <3>4, <3>5 DEF IoInv
  <2>4. CASE OpenToRead
    <3>1. /\ io = "opened" /\ io' = "readn" /\ nleft' = ReadSize
          /\ UNCHANGED <<old, file, offset, data, nwrote, nread, stopped>>
      BY <2>4 DEF OpenToRead
    <3>2. Old' = Old /\ PartWritten' = PartWritten /\ AllWritten' = AllWritten
      BY <3>1, FileKept
    <3> QED BY <2>a, <3>1, <3>2 DEF IoInv, IoTypes, Written, ReadSoFar
  <2>5. CASE ReadSome
    <3>1. PICK n \in 1..nleft :
            /\ offset + n <= Len(file)
            /\ data' = data \o SubSeq(file, offset + 1, offset + n)
            /\ offset' = offset + n
            /\ nleft' = nleft - n
      BY <2>5 DEF ReadSome
    <3>2. /\ io = "readn" /\ io' = "readn"
          /\ UNCHANGED <<old, file, nwrote, nread, stopped>>
      BY <2>5 DEF ReadSome
    <3>3. /\ n \in Nat /\ offset \in Nat /\ offset' \in Nat /\ nleft' \in Nat
          /\ nleft' <= ReadSize /\ offset' = ReadSize - nleft'
      BY <2>a, <3>1, <3>2 DEF IoTypes, ReadSoFar
    <3>4. data' = SubSeq(file, 1, offset')
      <4>1. data = SubSeq(file, 1, offset)
        BY <2>a DEF ReadSoFar
      <4>2. SubSeq(file, 1, offset) \o SubSeq(file, offset + 1, offset + n)
              = SubSeq(file, 1, offset + n)
        BY <2>a, <3>1, <3>3, ReadGrows, Zenon
      <4> QED BY <3>1, <4>1, <4>2, Zenon
    <3>5. Old' = Old /\ PartWritten' = PartWritten /\ AllWritten' = AllWritten
      BY <3>2, FileKept
    <3>6. IoTypes' /\ Written'
      BY <2>a, <3>2, <3>3, <3>5 DEF IoTypes, Written
    <3>7. ReadSoFar'
      BY <2>a, <3>1, <3>2, <3>3, <3>4 DEF ReadSoFar
    <3> QED BY <3>6, <3>7 DEF IoInv
  <2>6. CASE ReadReturn \/ ReadStop
    <3>1. /\ io = "readn" /\ io' = "done"
          /\ UNCHANGED <<old, file, nleft, offset, data, nwrote>>
      BY <2>6 DEF ReadReturn, ReadStop
    <3>2. /\ nread' \in {-1, ReadSize - nleft} /\ stopped' \in BOOLEAN
          /\ ~stopped' => nleft = 0 \/ offset = Len(file)
      BY <2>a, <2>6 DEF ReadReturn, ReadStop, IoTypes
    <3>3. Old' = Old /\ PartWritten' = PartWritten /\ AllWritten' = AllWritten
      BY <3>1, FileKept
    <3>4. IoTypes' /\ Written'
      BY <2>a, <3>1, <3>2, <3>3 DEF IoTypes, Written
    <3>5. ReadSoFar'
      BY <2>a, <3>1, <3>2 DEF ReadSoFar, IoTypes
    <3> QED BY <3>4, <3>5 DEF IoInv
  <2>7. CASE UNCHANGED ioVars
    <3>1. Old' = Old /\ PartWritten' = PartWritten /\ AllWritten' = AllWritten
      BY <2>7, FileKept DEF ioVars
    <3> QED BY <2>a, <2>7, <3>1 DEF ioVars, IoInv, IoTypes, Written, ReadSoFar
  <2> QED BY <2>1, <2>2, <2>3, <2>4, <2>5, <2>6, <2>7 DEF IoNext
<1> QED BY <1>1, <1>2, PTL DEF IoSpec

\* Whatever the sizes, and however transfers are cut and interrupted, no byte
\* is lost, repeated or out of place, and a count that is short without an
\* interrupt means the end of the file (test_file.cpp:14-28,52-69).
THEOREM TransferExactHolds == IoSpec => []TransferExact
<1> USE IoAssumption
<1>1. IoInv => TransferExact
  <2> SUFFICES ASSUME IoInv PROVE TransferExact
    OBVIOUS
  <2>a. IoTypes /\ Written /\ ReadSoFar /\ file \in Seq(Int) /\ Len(file) \in Nat
        /\ offset \in 0..Len(file)
    BY LenProperties DEF IoInv, IoTypes, ReadSoFar
  <2>1. io # "open" => \E n \in 0..WriteSize : file = Old \o Bytes(1, n)
    BY <2>a, PartOfVptr DEF Written, PartWritten
  <2>2. Len(data) = offset /\ SubSeq(data, 1, offset) = SubSeq(file, 1, offset)
    <3>1. data \in Seq(Int) /\ Len(data) = offset
      BY <2>a, Beginnings DEF ReadSoFar
    <3>2. SubSeq(data, 1, Len(data)) = data
      BY <3>1, Beginnings
    <3> QED BY <2>a, <3>1, <3>2 DEF ReadSoFar
  <2>3. IsPrefix(data, file)
    BY <2>a, <2>2 DEF IsPrefix
  <2>4. io = "done" /\ nread >= 0 =>
          /\ Len(data) = nread
          /\ nread < ReadSize /\ ~stopped => data = file
    <3>1. SubSeq(file, 1, Len(file)) = file
      BY <2>a, Beginnings
    <3> QED BY <2>a, <2>2, <3>1 DEF ReadSoFar
  <2> QED BY <2>a, <2>1, <2>3, <2>4 DEF TransferExact, Written, AllWritten
<1> QED BY <1>1, IoInvHolds, PTL

-----------------------------------------------------------------------------
(***************************************************************************)
(* Daemon                                                                  *)
(***************************************************************************)
\* The daemon exists once its parent has forked, and has done what its place
\* in deamon() says: its descriptors are those of its parent, none of them
\* /dev/null, until open().
DaemonInv ==
  /\ starter = "fork" => child = "none"
  /\ child \in {"none", "fork"} => daemon = "none"
  /\ daemon \in {"chdir", "open", "dup", "callback"} => session
  /\ daemon \in {"open", "dup", "callback"} => atRoot
  /\ daemon \in {"none", "setsid", "chdir", "open"} => null = {}
  /\ daemon = "dup" => null \in {{}, {0}}
  /\ daemon = "callback" => null \in {{}, {0, 1, 2}}

\* callback() runs detached, whichever calls have failed (deamon.cpp:22-56).
THEOREM DaemonDetachedHolds == DaemonSpec => []DaemonDetached
<1>1. DaemonInit => DaemonInv
  BY DEF DaemonInit, DaemonInv
<1>2. DaemonInv /\ [DaemonNext]_daemonVars => DaemonInv'
  <2> SUFFICES ASSUME DaemonInv, [DaemonNext]_daemonVars PROVE DaemonInv'
    OBVIOUS
  <2>1. CASE StarterFork \/ StarterWait \/ StarterEnd
    BY <2>1 DEF StarterFork, StarterWait, StarterEnd, DaemonInv
  <2>2. CASE ChildFork \/ ChildEnd
    BY <2>2 DEF ChildFork, ChildEnd, DaemonInv
  <2>3. CASE DaemonSetsid \/ DaemonChdir
    BY <2>3 DEF DaemonSetsid, DaemonChdir, DaemonInv
  <2>4. CASE DaemonOpen
    BY <2>4 DEF DaemonOpen, DaemonInv
  <2>5. CASE DaemonDup
    <3>1. null \in {{}, {0}} /\ null' = IF 0 \in null THEN {0, 1, 2} ELSE null
      BY <2>5 DEF DaemonDup, DaemonInv
    <3>2. null' \in {{}, {0, 1, 2}}
      BY <3>1
    <3> QED BY <2>5, <3>2 DEF DaemonDup, DaemonInv
  <2>6. CASE DaemonEnd
    BY <2>6 DEF DaemonEnd, DaemonInv
  <2>7. CASE UNCHANGED daemonVars
    BY <2>7 DEF daemonVars, DaemonInv
  <2> QED BY <2>1, <2>2, <2>3, <2>4, <2>5, <2>6, <2>7 DEF DaemonNext, Short
<1>3. DaemonInv => DaemonDetached
  BY DEF DaemonInv, DaemonDetached
<1> QED BY <1>1, <1>2, <1>3, PTL DEF DaemonSpec

-----------------------------------------------------------------------------
(***************************************************************************)
(* MutexSample                                                             *)
(***************************************************************************)
\* The mutex is held by who is between its lock and its unlock, and main is
\* before its join, with everything there, as long as the thread runs.
MutexInv ==
  /\ owner \in {"nobody", "main", "thread"}
  /\ owner = "main" <=> mainAt = "unlock"
  /\ owner = "thread" <=> threadAt \in {"use", "unlock"}
  /\ threadAt \in {"lock", "use", "unlock"} => mainAt \in {"lock", "unlock", "join"}
  /\ mainAt \in {"init", "create"} => threadAt = "none"
  /\ mainAt \in {"create", "lock", "unlock", "join"} => exists = {"struct", "mutex"}

\* join comes before free and destroy (test_thread.cpp:16-22,41-51).
THEOREM FreedAfterUseHolds == MutexSpec => []FreedAfterUse
<1>1. MutexInit => MutexInv
  BY DEF MutexInit, MutexInv
<1>2. MutexInv /\ [MutexNext]_mutexVars => MutexInv'
  <2> SUFFICES ASSUME MutexInv, [MutexNext]_mutexVars PROVE MutexInv'
    OBVIOUS
  <2>1. CASE MainInit \/ MainCreate
    BY <2>1 DEF MainInit, MainCreate, MainAt, MutexInv
  <2>2. CASE MainLock \/ MainUnlock
    BY <2>2 DEF MainLock, MainUnlock, MainAt, MutexInv
  <2>3. CASE MainJoin \/ MainFree \/ MainDestroy
    BY <2>3 DEF MainJoin, MainFree, MainDestroy, MainAt, MutexInv
  <2>4. CASE ThreadLock \/ ThreadUse \/ ThreadUnlock
    BY <2>4 DEF ThreadLock, ThreadUse, ThreadUnlock, ThreadAt, MutexInv
  <2>5. CASE UNCHANGED mutexVars
    BY <2>5 DEF mutexVars, MutexInv
  <2> QED BY <2>1, <2>2, <2>3, <2>4, <2>5 DEF MutexNext
<1>3. MutexInv => FreedAfterUse
  BY DEF MutexInv, FreedAfterUse
<1> QED BY <1>1, <1>2, <1>3, PTL DEF MutexSpec
=============================================================================
