----------------------------- MODULE RecordCodec -----------------------------
(***************************************************************************)
(* The record messages of socket_basic: write_chars and write_structs put  *)
(* a length of four bytes before each record, read_chars and read_structs  *)
(* follow those lengths through a zeroed buffer.  A single read() may      *)
(* return any beginning of the message.                                    *)
(*                                                                         *)
(* Lengths are below 256, so the first of the four bytes, the lowest one,  *)
(* is the length as long as zeros follow.  A record is its number in the   *)
(* message and how many of its bytes had arrived.                          *)
(***************************************************************************)
EXTENDS Integers, FiniteSets

IntSize == 4

\* The five strings of write_chars, of 10 to 14 characters, and ten times
\* sizeof(common::Address).
AddressSize    == 4 + 100 + 1
CharsLengths   == [i \in 1..5 |-> 9 + i]
StructsLengths == [i \in 1..10 |-> AddressSize]

Lengths(kind) == IF kind = "CHARS" THEN CharsLengths ELSE StructsLengths

\* Bytes up to the end of record r: each string is one longer than the last.
Offset(kind, r) ==
  IF kind = "CHARS" THEN r * (IntSize + 9) + (r * (r + 1)) \div 2
                    ELSE r * (IntSize + AddressSize)
Total(kind) == IF kind = "CHARS" THEN Offset(kind, 5) ELSE Offset(kind, 10)

RowSizeUnpacked_mutant(kind) == IF kind = "CHARS" THEN 100 ELSE 4 + 100

\* What the readers have room for.
Rows(kind)    == IF kind = "CHARS" THEN 10 ELSE 20
RowSize(kind) == IF kind = "CHARS" THEN 100 ELSE AddressSize

Nothing == [record |-> 0, bytes |-> 0]

VARIABLES
  codec,    \* where the reader is: read, decode, done, overrun
  reader,   \* CHARS or STRUCTS: which function reads
  message,  \* CHARS or STRUCTS: what was written
  count,    \* what read() returned
  remain,   \* remain_length
  record,   \* the record at tmp_ptr
  slots     \* what each row of the reader holds

codecVars == <<codec, reader, message, count, remain, record, slots>>

CodecInit ==
  /\ codec = "read" /\ reader = "CHARS" /\ message = "CHARS"
  /\ count = 0 /\ remain = 0 /\ record = 1
  /\ slots = [i \in 0..19 |-> Nothing]

\* read() returns some of the message, which a suite that has fallen out of
\* step may have written for the other function.
ReadRecords ==
  /\ codec = "read"
  /\ codec' = "decode"
  /\ reader' \in {"CHARS", "STRUCTS"} /\ message' \in {"CHARS", "STRUCTS"}
  /\ count' \in 1..Total(message')
  /\ remain' = count'
  /\ UNCHANGED <<record, slots>>

RecordLength  == Lengths(message)[record]
RecordArrived ==
  IF remain <= IntSize THEN 0
  ELSE IF remain - IntSize < RecordLength THEN remain - IntSize ELSE RecordLength

\* One round of a reader's loop, with the row to write to and the index after.
Decode(row, index) ==
  /\ codec = "decode"
  /\ slots' = [slots EXCEPT ![row] = [record |-> record, bytes |-> RecordArrived]]
  /\ record' = record + 1
  /\ remain' = remain - IntSize - RecordLength
  /\ codec' = IF RecordLength > RowSize(reader) THEN "overrun"
              ELSE IF index < Rows(reader) /\ remain' > 0 THEN "decode" ELSE "done"
  /\ UNCHANGED <<reader, message, count>>

DecodeCharsTail_mutant ==
  /\ reader = "CHARS" /\ codec = "decode"
  /\ slots' = [slots EXCEPT ![record - 1] = [record |-> record, bytes |-> RecordArrived]]
  /\ record' = record + 1
  /\ remain' = remain - IntSize - RecordLength
  /\ codec' = IF RecordLength > RowSize(reader) THEN "overrun"
              ELSE IF record < Rows(reader) /\ remain' > IntSize THEN "decode" ELSE "done"
  /\ UNCHANGED <<reader, message, count>>

\* read_chars: every record in a row of its own.
DecodeChars == reader = "CHARS" /\ Decode(record - 1, record)

\* read_structs: index stays 0.
DecodeStructs == reader = "STRUCTS" /\ Decode(0, 0)

CodecNext == ReadRecords \/ DecodeChars \/ DecodeStructs

CodecSpec == CodecInit /\ [][CodecNext]_codecVars

\* However a message was cut, the reader of its kind goes through exactly the
\* records that had begun to arrive, each with the bytes that had.  Afterwards
\* read_chars has all of them in order.  read_structs, whose index stays 0,
\* has at least the last of them, and no row holds a record that had not begun
\* to arrive (server.cpp:118-131,193-205, client.cpp:141-153,176-189).
RecordsRecovered ==
  codec = "done" /\ reader = message =>
    LET begun == {r \in DOMAIN Lengths(message) : Offset(message, r - 1) < count}
        whole == {r \in begun : Offset(message, r) <= count}
        last  == Cardinality(begun)
    IN  /\ record = last + 1
        /\ IF reader = "CHARS"
           THEN \A r \in DOMAIN Lengths(message) :
                  /\ slots[r - 1].record = (IF r \in begun THEN r ELSE 0)
                  /\ r \in whole => slots[r - 1].bytes = Lengths(message)[r]
           ELSE /\ \E i \in 0..19 :
                     /\ slots[i].record = last
                     /\ last \in whole => slots[i].bytes = AddressSize
                /\ \A i \in 0..19 : slots[i].record \in begun \cup {0}

\* The lengths in a message are used unchecked, but no message of its own kind
\* takes a reader beyond its rows, wherever it was cut; nor do the records of
\* write_chars in read_structs.  Those of write_structs are five bytes too long
\* for the rows of read_chars (server.cpp:121-131,196-205).
OverrunOnlyByStructs ==
  codec = "overrun" => reader = "CHARS" /\ message = "STRUCTS"
=============================================================================
