------------------------------- MODULE IoLoops -------------------------------
(***************************************************************************)
(* writen and readn of sample_io/test_file.cpp, in the order of its tests: *)
(* TWriten appends bytes to a file, TReadn reads the file from its         *)
(* beginning.  The file may hold bytes of earlier runs.  Every read() and  *)
(* write() may transfer less than asked for, be interrupted by a signal,   *)
(* or fail.  A byte is its number.                                         *)
(***************************************************************************)
EXTENDS Integers, SequencesExt

CONSTANTS
  WriteSize,   \* bytes TWriten writes, 26
  ReadSize,    \* bytes TReadn asks for, 200
  OldSize      \* most bytes the file may hold before

ASSUME IoAssumption == WriteSize \in Nat /\ ReadSize \in Nat /\ OldSize \in Nat

VARIABLES
  io,       \* where the program is
  old,      \* bytes in the file before
  file,     \* the file, as a sequence of bytes
  nleft,    \* nleft of the loop that runs
  offset,   \* position of the reader in the file
  data,     \* what readn has put into its buffer
  nwrote,   \* result of writen
  nread,    \* result of readn
  stopped   \* an interrupt or an error met readn

ioVars == <<io, old, file, nleft, offset, data, nwrote, nread, stopped>>

\* Old bytes are numbered from -1 downwards, those of vptr from 1 upwards.
Bytes(first, last) == [i \in 1..last - first + 1 |-> first + i - 1]
Old  == Reverse(Bytes(-old, -1))
Vptr == Bytes(1, WriteSize)

IoInit ==
  /\ io = "open" /\ old = 0 /\ file = <<>> /\ nleft = 0 /\ offset = 0
  /\ data = <<>> /\ nwrote = 0 /\ nread = 0 /\ stopped = FALSE

\* open(O_APPEND) and the call of writen.
OpenToWrite ==
  /\ io = "open"
  /\ io' = "writen"
  /\ old' \in 0..OldSize
  /\ file' = Old'
  /\ nleft' = WriteSize
  /\ UNCHANGED <<offset, data, nwrote, nread, stopped>>

WriteFromStart_mutant ==
  /\ io = "writen" /\ nleft > 0
  /\ \E n \in 1..nleft :
       /\ file' = file \o SubSeq(Vptr, 1, n)
       /\ nleft' = nleft - n
  /\ UNCHANGED <<io, old, offset, data, nwrote, nread, stopped>>

\* write() takes some of the bytes at nptr.  One that is interrupted returns
\* -1 without having taken any and is tried again, which changes nothing.
WriteSome ==
  /\ io = "writen" /\ nleft > 0
  /\ \E n \in 1..nleft :
       /\ file' = file \o SubSeq(Vptr, WriteSize - nleft + 1, WriteSize - nleft + n)
       /\ nleft' = nleft - n
  /\ UNCHANGED <<io, old, offset, data, nwrote, nread, stopped>>

\* writen returns, n or, after an error, -1.
WriteReturn ==
  /\ io = "writen"
  /\ \/ nleft = 0 /\ nwrote' = WriteSize
     \/ nleft > 0 /\ nwrote' = -1
  /\ io' = "opened"
  /\ UNCHANGED <<old, file, nleft, offset, data, nread, stopped>>

\* TReadn opens the file and calls readn.
OpenToRead ==
  /\ io = "opened"
  /\ io' = "readn"
  /\ nleft' = ReadSize
  /\ UNCHANGED <<old, file, offset, data, nwrote, nread, stopped>>

ReadSome ==
  /\ io = "readn" /\ nleft > 0
  /\ \E n \in 1..nleft :
       /\ offset + n <= Len(file)
       /\ data' = data \o SubSeq(file, offset + 1, offset + n)
       /\ offset' = offset + n
       /\ nleft' = nleft - n
  /\ UNCHANGED <<io, old, file, nwrote, nread, stopped>>

\* readn returns what it has when the buffer is full or the file at its end.
ReadReturn ==
  /\ io = "readn"
  /\ nleft = 0 \/ offset = Len(file)
  /\ nread' = ReadSize - nleft
  /\ io' = "done"
  /\ UNCHANGED <<old, file, nleft, offset, data, nwrote, stopped>>

\* An interrupt is taken for the end of the file, an error returns -1.
ReadStop ==
  /\ io = "readn" /\ nleft > 0
  /\ nread' \in {-1, ReadSize - nleft}
  /\ stopped' = TRUE
  /\ io' = "done"
  /\ UNCHANGED <<old, file, nleft, offset, data, nwrote>>

IoNext == \/ OpenToWrite \/ WriteSome \/ WriteReturn
          \/ OpenToRead \/ ReadSome \/ ReadReturn \/ ReadStop

IoSpec == IoInit /\ [][IoNext]_ioVars

\* However the transfers are cut and interrupted, the file holds the old bytes
\* and a beginning of the new ones, all of them if writen says so; and readn
\* gives a beginning of the file, as long as it says, and a shorter one than
\* there is only after an interrupt (test_file.cpp:14-28,52-69).
TransferExact ==
  /\ io # "open" => \E n \in 0..WriteSize : file = Old \o Bytes(1, n)
  /\ nwrote > 0 => file = Old \o Vptr
  /\ IsPrefix(data, file)
  /\ io = "done" /\ nread >= 0 =>
       /\ Len(data) = nread
       /\ nread < ReadSize /\ ~stopped => data = file
=============================================================================
