------------------------- MODULE StringSessionProofs -------------------------
(***************************************************************************)
(* What TLAPS proves of StringSession for strings of every length that     *)
(* StringSessionAssumption admits: a frame is read whole or not at all,    *)
(* whatever pieces it arrives in, and one_accept implements ConnService.   *)
(***************************************************************************)
EXTENDS StringSession, TLAPS

\* Both strings fit, so both frames have a header, a string and a zero, and
\* are told by their length (test_server.cpp:232-237, rpc.cpp:63-74).
LEMMA Frames ==
  \A s \in Sides : /\ Size(s) \in Nat /\ Size(s) > HeaderSize
                   /\ Size(s) <= MaximumPacketLength
                   /\ Frame(s).magic /\ Frame(s).length = Size(s)
  BY StringSessionAssumption, RpcFramingAssumption
  DEF Size, Frame, Serialize, Text, Sides, Empty, MessageSize, HeaderSize

\* parse leaves less than a header as it is and takes a frame's length off
\* anything more (test_server.cpp:252-279).
LEMMA ParseLeaves ==
  ASSUME NEW s \in Sides, NEW count \in Nat
  PROVE  ParseCount(Frame(s), count) =
           IF count < HeaderSize THEN count ELSE count - Size(s)
  BY Frames, RpcFramingAssumption DEF ParseCount, GetMessageLength, HeaderSize

-----------------------------------------------------------------------------
(***************************************************************************)
(* The inductive invariant.  A frame is sent once, so what side s can      *)
(* still read of it is what it has not read yet; the end of the stream     *)
(* comes behind the frame, because each side has written before it closes. *)
(***************************************************************************)
Types ==
  /\ again \in {"error", "short", "spin"}
  /\ pc \in [Sides -> {"accept", "new", "write", "wait", "readn", "parse",
                       "close", "closed", "crashed"}]
  /\ pc["server"] \notin {"new", "wait", "crashed"} /\ pc["client"] # "accept"
  /\ away \in [Sides -> Nat] /\ here \in [Sides -> Nat] /\ got \in [Sides -> Nat]
  /\ used \in [Sides -> 0..HeaderSize - 1] /\ total \in [Sides -> Nat]
  /\ parsed \in [Sides -> {0, 1}]
  /\ result \in [Sides -> Int] /\ \A s \in Sides : result[s] >= Unreturned
  /\ end \in [Sides -> {"open", "fin", "rst"}]
  /\ wrote \subseteq Sides /\ failed \in BOOLEAN

\* Bytes of the peer's frame that side s has not parsed, and those that were
\* sent.
Unparsed(s) == away[s] + here[s] + got[s] + used[s]
Sent(s)     == IF Peer(s) \in wrote THEN Size(Peer(s)) ELSE 0

\* No byte is lost before the frame is parsed or the reader gives up.
Streams ==
  \A s \in Sides :
    /\ Unparsed(s) <= Sent(s)
    /\ parsed[s] = 0 /\ pc[s] \notin {"close", "closed", "crashed"} =>
         Unparsed(s) = Sent(s)

\* A stream ends when the other side has closed, behind its frame unless it
\* was reset or heard of a reset.
Ends ==
  /\ \A s \in Sides : end[s] # "open" => IsClosed(Peer(s))
  /\ end["client"] = "fin" => "server" \in wrote
  /\ end["server"] = "fin" => "client" \in wrote \/ IsClosed("server")

\* Who has written when it is where it is; the client goes on when the server
\* has written or is gone.
Progress ==
  /\ pc["server"] \in {"accept", "write"} => "server" \notin wrote
  /\ pc["server"] \in {"readn", "parse", "close"} => "server" \in wrote
  /\ pc["server"] \notin {"accept", "closed"} => pc["client"] # "new"
  /\ "server" \in wrote => pc["client"] # "new"
  /\ pc["client"] \in {"new", "write"} => "client" \notin wrote
  /\ pc["client"] \in {"wait", "readn", "parse", "crashed"} => "client" \in wrote
  /\ pc["client"] \in {"close", "closed"} => "client" \in wrote \/ IsClosed("server")
  /\ pc["client"] \in {"readn", "parse", "close", "closed", "crashed"} =>
       "server" \in wrote \/ IsClosed("server")
  /\ pc["server"] = "closed" => failed \/ "server" \in wrote
  /\ failed => pc["server"] \in {"accept", "closed"}

\* parse is called for the whole frame, or by a readn that returns a part.
Parsing ==
  \A s \in Sides :
    /\ pc[s] = "parse" =>
         /\ got[s] > 0
         /\ (s = "client" /\ again = "short") \/ got[s] + used[s] = Size(Peer(s))
    /\ pc[s] \in {"accept", "new", "write", "wait", "readn", "parse"} =>
         parsed[s] = 0 /\ result[s] = Unreturned
    /\ parsed[s] = 1 => Peer(s) \in wrote

SessionInv == Types /\ Streams /\ Ends /\ Progress /\ Parsing /\ WholeFrameOrError

\* The two sides.
LEMMA TwoSides ==
  /\ Sides = {"server", "client"}
  /\ \A s \in Sides : Peer(s) \in Sides /\ Peer(s) # s /\ Peer(Peer(s)) = s
  /\ Peer("server") = "client" /\ Peer("client") = "server"
  BY DEF Sides, Peer

\* The types and the bytes that are on their way give the type invariant.
LEMMA TypesSuffice == Types /\ Streams => TypeOK
<1> SUFFICES ASSUME Types, Streams PROVE TypeOK
  OBVIOUS
<1>1. ASSUME NEW s \in Sides
      PROVE  /\ away[s] + here[s] + got[s] + used[s] <= Size(Peer(s))
             /\ away[s] \in Nat /\ here[s] \in Nat /\ got[s] \in Nat
             /\ used[s] \in 0..HeaderSize - 1 /\ total[s] \in Nat
             /\ end[s] \in {"open", "fin", "rst"} /\ result[s] >= Unreturned
             /\ parsed[s] \in {0, 1}
  <2>1. Size(Peer(s)) \in Nat
    BY TwoSides, Frames
  <2>2. Unparsed(s) <= Sent(s) /\ Sent(s) \in Nat /\ Sent(s) <= Size(Peer(s))
    BY <2>1 DEF Streams, Sent
  <2>3. /\ away[s] \in Nat /\ here[s] \in Nat /\ got[s] \in Nat
        /\ used[s] \in 0..HeaderSize - 1 /\ total[s] \in Nat
        /\ end[s] \in {"open", "fin", "rst"} /\ result[s] >= Unreturned
        /\ parsed[s] \in {0, 1}
    BY DEF Types
  <2>4. away[s] + here[s] + got[s] + used[s] <= Size(Peer(s))
    BY <2>1, <2>2, <2>3 DEF Unparsed, HeaderSize
  <2> QED BY <2>3, <2>4
<1>2. /\ pc["server"] \in {"accept", "write", "readn", "parse", "close", "closed"}
      /\ pc["client"] \in {"new", "write", "wait", "readn", "parse", "close",
                           "closed", "crashed"}
  BY TwoSides DEF Types
<1> QED BY <1>1, <1>2 DEF TypeOK, Types

\* Nothing has happened: the client has not connected.
LEMMA InitInv == Init => SessionInv
<1> SUFFICES ASSUME Init PROVE SessionInv
  OBVIOUS
<1> USE TwoSides, Frames DEF HeaderSize
<1>2. /\ \A s \in Sides : /\ away[s] = 0 /\ here[s] = 0 /\ got[s] = 0 /\ used[s] = 0
                          /\ parsed[s] = 0 /\ total[s] = 0 /\ result[s] = -2 /\ end[s] = "open"
      /\ pc["server"] = "accept" /\ pc["client"] = "new" /\ wrote = {}
      /\ failed = FALSE /\ again \in {"error", "short", "spin"}
  BY DEF Init, Zero, Unreturned
<1>1. Types
  <2>1. 0 \in 0..HeaderSize - 1
    OBVIOUS
  <2>2. wrote \subseteq Sides /\ failed \in BOOLEAN
    BY <1>2
  <2>3. -2 \in Int /\ -2 >= -2
    OBVIOUS
  <2>4. pc["server"] = "accept" /\ pc["client"] = "new"
    BY <1>2
  <2> HIDE TwoSides, Frames DEF HeaderSize
  <2> QED BY <1>2, <2>1, <2>2, <2>3, <2>4 DEF Init, Types, Zero, Unreturned
<1>3. Streams
  BY <1>2 DEF Streams, Unparsed, Sent
<1>4. Ends /\ Progress /\ Parsing /\ WholeFrameOrError
  BY <1>2 DEF Ends, Progress, Parsing, WholeFrameOrError, Unreturned
<1> QED BY <1>1, <1>3, <1>4 DEF SessionInv

-----------------------------------------------------------------------------
(***************************************************************************)
(* Every step keeps the invariant: first those of the network and of       *)
(* accept(), then those that write, read, parse and close.                 *)
(***************************************************************************)
\* Bytes that arrive are no more or fewer, unless the socket is closed.
LEMMA ArriveInv ==
  ASSUME SessionInv, NEW s \in Sides, Arrive(s)
  PROVE  SessionInv'
<1> USE TwoSides, Frames DEF HeaderSize
<1>a. Types /\ Streams /\ Ends /\ Progress /\ Parsing /\ WholeFrameOrError
  BY DEF SessionInv
<1>1. PICK n \in 1..away[s] :
        /\ away' = [away EXCEPT ![s] = @ - n]
        /\ IF IsClosed(s)
           THEN end' = [end EXCEPT ![Peer(s)] = "rst"] /\ UNCHANGED here
           ELSE here' = [here EXCEPT ![s] = @ + n] /\ UNCHANGED end
  BY DEF Arrive
<1>2. n \in Nat /\ n > 0 /\ n <= away[s]
      /\ UNCHANGED <<again, pc, got, used, total, result, parsed, wrote, failed>>
  BY <1>a DEF Arrive, ReadVars, Types
<1>3. /\ away' \in [Sides -> Nat] /\ here' \in [Sides -> Nat]
      /\ end' \in [Sides -> {"open", "fin", "rst"}]
      /\ \A r \in Sides : away'[r] + here'[r] <= away[r] + here[r]
      /\ \A r \in Sides : ~IsClosed(r) => away'[r] + here'[r] = away[r] + here[r]
      /\ \A r \in Sides : end'[r] # end[r] => IsClosed(Peer(r)) /\ end'[r] = "rst"
  BY <1>a, <1>1, <1>2 DEF Types
<1>4. Types'
  BY <1>a, <1>2, <1>3 DEF Types
<1>5. Streams'
  BY <1>a, <1>2, <1>3 DEF Streams, Unparsed, Sent, IsClosed, Types
<1>6. Ends' /\ Progress' /\ Parsing'
  BY <1>a, <1>2, <1>3 DEF Ends, Progress, Parsing, IsClosed
<1>7. WholeFrameOrError'
  <2>1. \A r \in Sides : /\ away[r] \in Nat /\ here[r] \in Nat
                         /\ away'[r] \in Nat /\ here'[r] \in Nat
    BY <1>a, <1>4 DEF Types
  <2>3. UNCHANGED <<again, pc, result, parsed>>
    BY <1>2
  <2> HIDE TwoSides, Frames DEF HeaderSize
  <2>2. ASSUME NEW r \in Sides, here[r] + away[r] = 0 PROVE here'[r] + away'[r] = 0
    <3>1. away'[r] + here'[r] <= away[r] + here[r]
      BY <1>3
    <3> QED BY <2>1, <2>2, <3>1
  <2>4. \A r \in Sides : result'[r] >= 0 => parsed'[r] = 1 /\ here'[r] + away'[r] = 0
    BY <1>a, <2>2, <2>3 DEF WholeFrameOrError
  <2>5. /\ pc'["client"] = "crashed" => again' = "short"
        /\ result'["server"] = -1 => IsClosed("client")'
    BY <1>a, <2>3 DEF WholeFrameOrError, IsClosed
  <2> QED BY <2>4, <2>5 DEF WholeFrameOrError
<1> QED BY <1>4, <1>5, <1>6, <1>7 DEF SessionInv

\* connect(), accept(), the failure of the latter and the end of the process.
LEMMA AcceptInv ==
  ASSUME SessionInv, Connect \/ Accept \/ AcceptFail \/ ProcessExit \/ EpollWait
  PROVE  SessionInv'
<1> USE TwoSides, Frames DEF HeaderSize
<1>a. Types /\ Streams /\ Ends /\ Progress /\ Parsing /\ WholeFrameOrError
  BY DEF SessionInv
<1>b. UNCHANGED <<again, away, here, got, used, total, result, parsed, wrote>>
  BY DEF Connect, Accept, AcceptFail, ProcessExit, EpollWait, ReadVars
<1>1. CASE Connect
  <2>1. /\ pc["client"] = "new" /\ pc' = [pc EXCEPT !["client"] = "write"]
        /\ ~IsClosed("server") /\ UNCHANGED <<end, failed>>
    BY <1>1 DEF Connect, At
  <2>2. Types' /\ Streams'
    BY <1>a, <1>b, <2>1 DEF Types, Streams, Unparsed, Sent
  <2>3. Ends' /\ Progress'
    BY <1>a, <1>b, <2>1 DEF Types, Ends, Progress, IsClosed
  <2>4. Parsing' /\ WholeFrameOrError'
    BY <1>a, <1>b, <2>1 DEF Types, Parsing, WholeFrameOrError, IsClosed
  <2> QED BY <2>2, <2>3, <2>4 DEF SessionInv
<1>2. CASE Accept
  <2>1. /\ pc["server"] = "accept" /\ pc' = [pc EXCEPT !["server"] = "write"]
        /\ ~failed /\ pc["client"] # "new" /\ UNCHANGED <<end, failed>>
    BY <1>2 DEF Accept, At
  <2>2. Types' /\ Streams'
    BY <1>a, <1>b, <2>1 DEF Types, Streams, Unparsed, Sent
  <2>3. Ends' /\ Progress'
    BY <1>a, <1>b, <2>1 DEF Types, Ends, Progress, IsClosed
  <2>4. Parsing' /\ WholeFrameOrError'
    BY <1>a, <1>b, <2>1 DEF Types, Parsing, WholeFrameOrError, IsClosed
  <2> QED BY <2>2, <2>3, <2>4 DEF SessionInv
<1>3. CASE AcceptFail
  BY <1>a, <1>b, <1>3
  DEF AcceptFail, Types, Streams, Unparsed, Sent, Ends, Progress,
      Parsing, WholeFrameOrError, IsClosed, SessionInv
<1>4. CASE ProcessExit
  BY <1>a, <1>b, <1>4
  DEF ProcessExit, At, Types, Streams, Unparsed, Sent, Ends, Progress,
      Parsing, WholeFrameOrError, IsClosed, SessionInv
<1>5. CASE EpollWait
  <2>1. "server" \in wrote \/ IsClosed("server")
    BY <1>a, <1>5 DEF EpollWait, AtEnd, Types, Streams, Unparsed, Sent, Ends
  <2> QED
    BY <1>a, <1>b, <1>5, <2>1
    DEF EpollWait, At, Types, Streams, Unparsed, Sent, Ends, Progress,
        Parsing, WholeFrameOrError, IsClosed, SessionInv
<1> QED BY <1>1, <1>2, <1>3, <1>4, <1>5

\* write_string puts a frame on its way to a side that has had none.
LEMMA WriteInv ==
  ASSUME SessionInv, NEW s \in Sides, WriteString(s)
  PROVE  SessionInv'
<1> USE TwoSides, Frames DEF HeaderSize
<1>a. Types /\ Streams /\ Ends /\ Progress /\ Parsing /\ WholeFrameOrError
  BY DEF SessionInv
<1>b. pc[s] = "write" /\ s \notin wrote
      /\ UNCHANGED <<again, here, end, got, used, total, result, parsed, failed>>
  BY <1>a DEF WriteString, At, ReadVars, Progress
<1>1. CASE end[s] = "rst"
  <2>1. s = "client" /\ IsClosed("server")
    BY <1>a, <1>b, <1>1 DEF Ends, Progress, IsClosed
  <2>2. pc' = [pc EXCEPT !["client"] = "close"] /\ UNCHANGED <<away, wrote>>
    BY <1>1, <2>1 DEF WriteString, At
  <2>3. Types' /\ Streams'
    BY <1>a, <1>b, <2>1, <2>2 DEF Types, Streams, Unparsed, Sent
  <2>4. Ends' /\ Progress' /\ Parsing' /\ WholeFrameOrError'
    BY <1>a, <1>b, <2>1, <2>2
    DEF Types, Ends, Progress, Parsing, WholeFrameOrError, IsClosed
  <2> QED BY <2>3, <2>4 DEF SessionInv
<1>2. CASE end[s] # "rst"
  <2>1. /\ pc' = [pc EXCEPT ![s] = IF s = "server" THEN "readn" ELSE "wait"]
        /\ away' = [away EXCEPT ![Peer(s)] = @ + Size(s)]
        /\ wrote' = wrote \cup {s}
    BY <1>2 DEF WriteString, At
  <2>2. /\ away[Peer(s)] = 0 /\ here[Peer(s)] = 0 /\ got[Peer(s)] = 0
        /\ used[Peer(s)] = 0 /\ parsed[Peer(s)] = 0
    <3>1. Peer(s) \in Sides /\ Peer(Peer(s)) = s
      OBVIOUS
    <3>2. Unparsed(Peer(s)) <= 0
      BY <1>a, <1>b, <3>1 DEF Streams, Sent
    <3>3. parsed[Peer(s)] = 0
      BY <1>a, <1>b, <3>1 DEF Types, Parsing
    <3>4. /\ away[Peer(s)] \in Nat /\ here[Peer(s)] \in Nat
          /\ got[Peer(s)] \in Nat /\ used[Peer(s)] \in Nat
      BY <1>a, <3>1 DEF Types
    <3>5. away[Peer(s)] + here[Peer(s)] + got[Peer(s)] + used[Peer(s)] <= 0
      BY <3>2 DEF Unparsed
    <3> HIDE TwoSides, Frames
    <3> QED BY <3>3, <3>4, <3>5
  <2>3. Streams'
    <3>1. Unparsed(s)' = Unparsed(s) /\ Sent(s)' = Sent(s)
      BY <1>a, <1>b, <2>1 DEF Types, Unparsed, Sent
    <3>2. Unparsed(Peer(s))' = Size(s) /\ Sent(Peer(s))' = Size(s)
      BY <1>a, <1>b, <2>1, <2>2 DEF Types, Unparsed, Sent
    <3>3. Size(s) \in Nat
      OBVIOUS
    <3>4. pc'[s] \in {"readn", "wait"} /\ pc[s] = "write"
      BY <1>a, <1>b, <2>1 DEF Types
    <3>5. \A r \in Sides : r = s \/ r = Peer(s)
      OBVIOUS
    <3>0. /\ Unparsed(s) <= Sent(s)
          /\ parsed[s] = 0 => Unparsed(s) = Sent(s)
      BY <1>a, <1>b DEF Streams, Unparsed, Sent
    <3>6. /\ Unparsed(s)' <= Sent(s)'
          /\ parsed'[s] = 0 => Unparsed(s)' = Sent(s)'
      BY <1>b, <3>0, <3>1, Zenon
    <3>7. Unparsed(Peer(s))' <= Sent(Peer(s))' /\ Unparsed(Peer(s))' = Sent(Peer(s))'
      BY <3>2, <3>3
    <3> HIDE TwoSides, Frames
    <3> QED BY <3>5, <3>6, <3>7 DEF Streams, Unparsed, Sent
  <2>4. /\ pc' \in [Sides -> {"accept", "new", "write", "wait", "readn", "parse",
                              "close", "closed", "crashed"}]
        /\ pc'[s] = IF s = "server" THEN "readn" ELSE "wait"
        /\ pc'[Peer(s)] = pc[Peer(s)]
        /\ away' \in [Sides -> Nat] /\ away'[s] = away[s]
        /\ away'[Peer(s)] = Size(s)
        /\ \A r \in Sides : r \in wrote' <=> r \in wrote \/ r = s
    BY <1>a, <2>1, <2>2 DEF Types
  <2>5. CASE s = "server"
    <3>1. Types'
      BY <1>a, <1>b, <2>1, <2>2, <2>4, <2>5 DEF Types
    <3>2. Ends' /\ Progress'
      BY <1>a, <1>b, <2>4, <2>5 DEF Ends, Progress, IsClosed
    <3>3. Parsing' /\ WholeFrameOrError'
      BY <1>a, <1>b, <2>2, <2>4, <2>5 DEF Types, Parsing, WholeFrameOrError, IsClosed
    <3> QED BY <2>3, <3>1, <3>2, <3>3 DEF SessionInv
  <2>6. CASE s = "client"
    <3>1. Types'
      BY <1>a, <1>b, <2>1, <2>2, <2>4, <2>6 DEF Types
    <3>2. Ends' /\ Progress'
      BY <1>a, <1>b, <2>4, <2>6 DEF Ends, Progress, IsClosed
    <3>3. Parsing' /\ WholeFrameOrError'
      BY <1>a, <1>b, <2>2, <2>4, <2>6 DEF Types, Parsing, WholeFrameOrError, IsClosed
    <3> QED BY <2>3, <3>1, <3>2, <3>3 DEF SessionInv
  <2> QED BY <2>5, <2>6
<1> QED BY <1>1, <1>2

\* A read() moves bytes from the socket to the buffer.
LEMMA ReadSomeInv ==
  ASSUME SessionInv, NEW s \in Sides, ReadSome(s)
  PROVE  SessionInv'
<1> USE TwoSides, Frames DEF HeaderSize
<1>a. Types /\ Streams /\ Ends /\ Progress /\ Parsing /\ WholeFrameOrError
  BY DEF SessionInv
<1>b. /\ pc[s] = "readn"
      /\ UNCHANGED <<again, pc, away, end, used, total, result, parsed, wrote, failed>>
  BY DEF ReadSome
<1>1. /\ got' \in [Sides -> Nat] /\ here' \in [Sides -> Nat]
      /\ \A r \in Sides : /\ here'[r] + got'[r] = here[r] + got[r]
                          /\ r # s => here'[r] = here[r] /\ got'[r] = got[r]
  BY <1>a DEF ReadSome, Types
<1>2. \A r \in Sides : away[r] + here'[r] + got'[r] + used[r]
                       = away[r] + here[r] + got[r] + used[r]
  BY <1>a, <1>1 DEF Types
<1>3. Types'
  BY <1>a, <1>b, <1>1, <1>2 DEF Types
<1>4. Streams'
  BY <1>a, <1>b, <1>2 DEF Streams, Unparsed, Sent
<1>5. Ends' /\ Progress'
  BY <1>a, <1>b DEF Ends, Progress, IsClosed
<1>6. Parsing' /\ WholeFrameOrError'
  BY <1>a, <1>b, <1>1 DEF Parsing, WholeFrameOrError, IsClosed, Unreturned
<1> QED BY <1>3, <1>4, <1>5, <1>6 DEF SessionInv

\* A readn that ends goes on to parse or makes read_string return -1.  Only
\* the client's is interrupted; behind the frame it is whole.
LEMMA ReadnReturnInv ==
  ASSUME SessionInv, NEW s \in Sides,
         ReadEnd(s) \/ ReadReset(s) \/ (s = "client" /\ ReadAgain)
  PROVE  SessionInv'
<1> USE TwoSides, Frames DEF HeaderSize
<1>a. Types /\ Streams /\ Ends /\ Progress /\ Parsing /\ WholeFrameOrError
  BY DEF SessionInv
<1>b. /\ pc[s] = "readn" /\ parsed[s] = 0
      /\ UNCHANGED <<again, away, here, end, got, used, total, parsed, wrote, failed>>
  BY <1>a DEF ReadEnd, ReadReset, ReadAgain, Parsing
<1>1. ASSUME ReadEnd(s)
      PROVE  got[s] + used[s] = Size(Peer(s)) /\ got[s] > 0
  <2>1. IsClosed(Peer(s)) /\ Peer(s) \in wrote /\ here[s] = 0 /\ away[s] = 0
    BY <1>a, <1>b, <1>1 DEF ReadEnd, AtEnd, Ends, IsClosed
  <2>2. Unparsed(s) = Size(Peer(s))
    BY <1>a, <1>b, <2>1 DEF Streams, Sent
  <2>3. got[s] \in Nat /\ used[s] \in Nat /\ used[s] < HeaderSize
    BY <1>a DEF Types
  <2> QED BY <2>1, <2>2, <2>3 DEF Unparsed
<1>2. CASE pc' = [pc EXCEPT ![s] = "parse"] /\ UNCHANGED result
  <2>1. got[s] > 0 /\ ((s = "client" /\ again = "short") \/ got[s] + used[s] = Size(Peer(s)))
    BY <1>a, <1>1, <1>2 DEF ReadEnd, ReadReset, ReadAgain, Return, Types
  <2>2. Types' /\ Streams'
    BY <1>a, <1>b, <1>2 DEF Types, Streams, Unparsed, Sent
  <2>3. Ends' /\ Progress' /\ Parsing' /\ WholeFrameOrError'
    BY <1>a, <1>b, <1>2, <2>1
    DEF Types, Ends, Progress, Parsing, WholeFrameOrError, IsClosed
  <2> QED BY <2>2, <2>3 DEF SessionInv
<1>3. CASE pc' = [pc EXCEPT ![s] = "close"] /\ result' # result
  <2>1. result' = [result EXCEPT ![s] = -1]
    BY <1>a, <1>1, <1>3 DEF ReadEnd, ReadReset, ReadAgain, Return, Types
  <2>2. s = "server" => IsClosed("client")
    BY <1>a, <1>1, <1>3 DEF ReadEnd, ReadReset, AtEnd, Types, Ends
  <2>3. Types' /\ Streams'
    BY <1>a, <1>b, <1>3, <2>1 DEF Types, Streams, Unparsed, Sent, Unreturned
  <2>4. Ends' /\ Progress' /\ Parsing' /\ WholeFrameOrError'
    BY <1>a, <1>b, <1>3, <2>1, <2>2
    DEF Types, Ends, Progress, Parsing, WholeFrameOrError, IsClosed
  <2> QED BY <2>3, <2>4 DEF SessionInv
<1>4. \/ pc' = [pc EXCEPT ![s] = "parse"] /\ UNCHANGED result
      \/ pc' = [pc EXCEPT ![s] = "close"] /\ result' # result
  BY <1>a, <1>b, <1>1 DEF ReadEnd, ReadReset, ReadAgain, Return, Types, Parsing, Unreturned
<1> QED BY <1>2, <1>3, <1>4

\* parse takes a whole frame; a part of one is kept if it is shorter than the
\* header and runs away otherwise, which needs a readn that returned it.
LEMMA ParseInv ==
  ASSUME SessionInv, NEW s \in Sides, ParseBuffer(s)
  PROVE  SessionInv'
<1> DEFINE count == used[s] + got[s]
<1> USE TwoSides, Frames DEF HeaderSize
<1>a. Types /\ Streams /\ Ends /\ Progress /\ Parsing /\ WholeFrameOrError
  BY DEF SessionInv
<1>b. /\ pc[s] = "parse" /\ got[s] > 0 /\ parsed[s] = 0 /\ result[s] = Unreturned
      /\ (s = "client" /\ again = "short") \/ count = Size(Peer(s))
      /\ got' = [got EXCEPT ![s] = 0]
      /\ UNCHANGED <<again, away, here, wrote, failed>>
  BY <1>a DEF ParseBuffer, Parsing, Types
<1>c. /\ used[s] \in Nat /\ got[s] \in Nat /\ count \in Nat /\ count > 0
      /\ away[s] \in Nat /\ here[s] \in Nat /\ total[s] \in Nat
      /\ Size(Peer(s)) \in Nat /\ Size(Peer(s)) > HeaderSize
  BY <1>a, <1>b DEF Types
<1>d. Unparsed(s) = Sent(s)
  BY <1>a, <1>b DEF Streams, Unparsed, Sent
<1>e. Peer(s) \in wrote /\ away[s] + here[s] + count = Size(Peer(s))
  BY <1>b, <1>c, <1>d DEF Unparsed, Sent
<1>f. ParseCount(Frame(Peer(s)), count) = IF count < HeaderSize THEN count ELSE count - Size(Peer(s))
  BY <1>c, ParseLeaves
<1> HIDE DEF count
<1>1. CASE count < HeaderSize
  <2>1. /\ s = "client" /\ again = "short"
        /\ pc' = [pc EXCEPT ![s] = "readn"]
        /\ used' = [used EXCEPT ![s] = count]
        /\ total' = [total EXCEPT ![s] = @ + count]
        /\ UNCHANGED <<parsed, result, end>>
    BY <1>b, <1>c, <1>f, <1>1 DEF ParseBuffer, count
  <2>2. Types'
    BY <1>a, <1>b, <1>c, <1>e, <1>1, <2>1 DEF Types
  <2>3. Streams'
    BY <1>a, <1>b, <1>c, <1>d, <1>e, <1>1, <2>1 DEF Types, Streams, Unparsed, Sent, count
  <2>4. Ends' /\ Progress' /\ Parsing' /\ WholeFrameOrError'
    BY <1>a, <1>b, <2>1 DEF Types, Ends, Progress, Parsing, WholeFrameOrError, IsClosed
  <2> QED BY <2>2, <2>3, <2>4 DEF SessionInv
<1>2. CASE count = Size(Peer(s))
  <2>1. /\ pc' = [pc EXCEPT ![s] = "close"]
        /\ used' = [used EXCEPT ![s] = 0]
        /\ total' = [total EXCEPT ![s] = @ + 0]
        /\ parsed' = [parsed EXCEPT ![s] = @ + 1]
        /\ result' = [result EXCEPT ![s] = total'[s]]
        /\ UNCHANGED end
    BY <1>b, <1>c, <1>f, <1>2 DEF ParseBuffer, Return, count
  <2>2. away[s] = 0 /\ here[s] = 0
    BY <1>c, <1>e, <1>2
  <2>3. Types'
    <3>1. parsed[s] + 1 \in {0, 1}
      BY <1>a, <1>b DEF Parsing
    <3>2. total[s] + 0 \in Nat /\ total'[s] = total[s] + 0 /\ total[s] + 0 >= Unreturned
      BY <1>a, <1>c, <2>1 DEF Types, Unreturned
    <3>3. 0 \in 0..HeaderSize - 1
      OBVIOUS
    <3> HIDE Frames DEF HeaderSize
    <3>4. /\ used' \in [Sides -> 0..HeaderSize - 1]
          /\ parsed' \in [Sides -> {0, 1}] /\ total' \in [Sides -> Nat]
      BY <1>a, <2>1, <3>1, <3>2, <3>3 DEF Types
    <3>5. result' \in [Sides -> Int] /\ \A r \in Sides : result'[r] >= Unreturned
      BY <1>a, <2>1, <3>2 DEF Types
    <3>6. /\ pc' \in [Sides -> {"accept", "new", "write", "wait", "readn", "parse",
                                "close", "closed", "crashed"}]
          /\ pc'["server"] \notin {"new", "wait", "crashed"} /\ pc'["client"] # "accept"
      BY <1>a, <2>1 DEF Types
    <3>7. got' \in [Sides -> Nat]
      BY <1>a, <1>b DEF Types
    <3>8. UNCHANGED <<again, away, here, end, wrote, failed>>
      BY <1>b, <2>1
    <3> QED BY <1>a, <3>4, <3>5, <3>6, <3>7, <3>8 DEF Types
  <2>4. Streams'
    <3>1. Unparsed(s)' = 0 /\ Sent(s)' = Size(Peer(s)) /\ pc'[s] = "close"
      BY <1>a, <1>b, <1>c, <1>e, <2>1, <2>2 DEF Types, Unparsed, Sent
    <3>2. /\ pc'[Peer(s)] = pc[Peer(s)] /\ parsed'[Peer(s)] = parsed[Peer(s)]
          /\ Unparsed(Peer(s))' = Unparsed(Peer(s)) /\ Sent(Peer(s))' = Sent(Peer(s))
      BY <1>a, <1>b, <2>1 DEF Types, Unparsed, Sent
    <3>3. \A r \in Sides : r = s \/ r = Peer(s)
      OBVIOUS
    <3>4. Unparsed(s)' <= Sent(s)'
      BY <1>c, <3>1
    <3> HIDE TwoSides, Frames DEF HeaderSize
    <3>5. Peer(s) \in Sides
      BY TwoSides
    <3>6. /\ Unparsed(Peer(s))' <= Sent(Peer(s))'
          /\ parsed'[Peer(s)] = 0 /\ pc'[Peer(s)] \notin {"close", "closed", "crashed"} =>
               Unparsed(Peer(s))' = Sent(Peer(s))'
      BY <1>a, <3>2, <3>5, Zenon DEF Streams
    <3> QED BY <3>1, <3>3, <3>4, <3>6, Zenon DEF Streams, Unparsed, Sent
  <2>5. Ends' /\ Progress'
    BY <1>a, <1>b, <1>e, <2>1 DEF Types, Ends, Progress, IsClosed
  <2>6. Parsing' /\ WholeFrameOrError'
    BY <1>a, <1>b, <1>c, <1>e, <2>1, <2>2 DEF Types, Parsing, WholeFrameOrError, IsClosed
  <2> QED BY <2>3, <2>4, <2>5, <2>6 DEF SessionInv
<1>3. CASE count >= HeaderSize /\ count # Size(Peer(s))
  <2>1. /\ s = "client" /\ again = "short"
        /\ pc' = [pc EXCEPT ![s] = "crashed"]
        /\ parsed' = [parsed EXCEPT ![s] = @ + 1]
        /\ CloseSocket(s)
        /\ UNCHANGED <<used, total, result>>
    BY <1>b, <1>c, <1>e, <1>f, <1>3 DEF ParseBuffer, count
  <2>2. end' = [end EXCEPT !["server"] = end'["server"]] /\ end'["server"] \in {"fin", "rst"}
    BY <1>a, <2>1 DEF CloseSocket, Types
  <2>3. Types'
    BY <1>a, <1>b, <1>c, <2>1, <2>2 DEF Types
  <2>4. Streams'
    BY <1>a, <1>b, <1>c, <1>d, <2>1 DEF Types, Streams, Unparsed, Sent
  <2>5. Ends' /\ Progress'
    BY <1>a, <1>b, <1>e, <2>1, <2>2 DEF Types, Ends, Progress, IsClosed
  <2>6. Parsing' /\ WholeFrameOrError'
    BY <1>a, <1>b, <1>c, <1>e, <2>1 DEF Types, Parsing, WholeFrameOrError, IsClosed, Unreturned
  <2> QED BY <2>3, <2>4, <2>5, <2>6 DEF SessionInv
<1> QED BY <1>c, <1>1, <1>2, <1>3

\* close() ends the other side's stream, behind a frame or after a reset.
LEMMA CloseInv ==
  ASSUME SessionInv, NEW s \in Sides, Close(s)
  PROVE  SessionInv'
<1> USE TwoSides, Frames DEF HeaderSize
<1>a. Types /\ Streams /\ Ends /\ Progress /\ Parsing /\ WholeFrameOrError
  BY DEF SessionInv
<1>b. /\ pc[s] = "close" /\ pc' = [pc EXCEPT ![s] = "closed"]
      /\ UNCHANGED <<again, away, here, got, used, total, result, parsed, wrote, failed>>
  BY DEF Close, At, ReadVars
<1>1. end' = [end EXCEPT ![Peer(s)] = end'[Peer(s)]] /\ end'[Peer(s)] \in {"fin", "rst"}
  BY <1>a DEF Close, CloseSocket, Types
<1>2. Types'
  BY <1>a, <1>b, <1>1 DEF Types
<1>3. Streams'
  BY <1>a, <1>b DEF Types, Streams, Unparsed, Sent
<1>4. Ends'
  BY <1>a, <1>b, <1>1 DEF Types, Ends, Progress, IsClosed
<1>5. Progress' /\ Parsing' /\ WholeFrameOrError'
  BY <1>a, <1>b DEF Types, Progress, Parsing, WholeFrameOrError, IsClosed
<1> QED BY <1>2, <1>3, <1>4, <1>5 DEF SessionInv

\* Every step of the two programs and of the network keeps the invariant.
LEMMA NextInv == SessionInv /\ [Next]_vars => SessionInv'
<1> SUFFICES ASSUME SessionInv, [Next]_vars PROVE SessionInv'
  OBVIOUS
<1>1. CASE Connect \/ Accept \/ AcceptFail \/ ProcessExit \/ EpollWait
  BY <1>1, AcceptInv
<1>2. CASE \E s \in Sides : Arrive(s)
  BY <1>2, ArriveInv
<1>3. CASE \E s \in Sides : WriteString(s)
  BY <1>3, WriteInv
<1>4. CASE \E s \in Sides : ReadSome(s)
  BY <1>4, ReadSomeInv
<1>5. CASE \/ \E s \in Sides : ReadEnd(s) \/ ReadReset(s)
           \/ ReadAgain
  BY <1>5, ReadnReturnInv, TwoSides
<1>6. CASE \E s \in Sides : ParseBuffer(s)
  BY <1>6, ParseInv
<1>7. CASE \E s \in Sides : Close(s)
  BY <1>7, CloseInv
<1>8. CASE UNCHANGED vars
  BY <1>8 DEF vars, ReadVars, SessionInv, Types, Streams, Unparsed, Sent,
              Ends, Progress, Parsing, WholeFrameOrError, IsClosed
<1> QED
  BY <1>1, <1>2, <1>3, <1>4, <1>5, <1>6, <1>7, <1>8, TwoSides
  DEF Next, Server, Client, ReadString

\* What is on its way, what has been read and who has closed fit together in
\* every state.
LEMMA SessionInvHolds == Spec => []SessionInv
  BY InitInv, NextInv, PTL DEF Spec

\* Every variable keeps its type; in particular count_used stays below the
\* length of a header and no side reads more than was written to it
\* (test_server.cpp:282-313).
THEOREM TypeCorrect == Spec => []TypeOK
<1>1. SessionInv => TypeOK
  BY TypesSuffice DEF SessionInv
<1> QED BY <1>1, SessionInvHolds, PTL

\* read_string never takes a part of a frame for a frame, in whatever pieces it
\* arrives (test_server.cpp:282-313,
\* test_client.cpp:119-154).
THEOREM WholeFrameOrErrorHolds == Spec => []WholeFrameOrError
<1>1. SessionInv => WholeFrameOrError
  BY DEF SessionInv
<1> QED BY <1>1, SessionInvHolds, PTL

\* If the client's readn waits for the end of the stream as the server's does,
\* each waits for the other's, and neither returns unless accept() failed:
\* why WaitingClientReturnsZero fails (test_server.cpp:290, test_client.cpp:131).
BothWait == again = "spin" /\ ~failed => ~IsClosed("server") /\ ~IsClosed("client")

\* Neither side is past its readn: what BothWait rests on.
BothReading ==
  again = "spin" /\ ~failed =>
    \A s \in Sides : pc[s] \in {"accept", "new", "write", "wait", "readn"}

\* A readn that waits for the end of the stream on both sides deadlocks the two
\* programs, whatever the strings: write_string goes through, every byte is
\* read, and nobody closes (test_server.cpp:290, test_client.cpp:131).
THEOREM BothWaitHolds == Spec => []BothWait
<1>1. Init => BothReading
  BY DEF Init, BothReading, Sides
<1>2. SessionInv /\ BothReading /\ [Next]_vars => BothReading'
  <2> SUFFICES ASSUME SessionInv, BothReading, [Next]_vars, again' = "spin", ~failed'
               PROVE  \A s \in Sides : pc'[s] \in {"accept", "new", "write", "wait", "readn"}
    BY DEF BothReading
  <2> USE TwoSides
  <2>a. Types /\ Ends
    BY DEF SessionInv
  <2>1. again = "spin" /\ ~failed
    BY DEF Next, Server, Client, ReadString, Connect, Accept, WriteString, ReadSome, ReadEnd,
           ReadReset, ParseBuffer, Close, EpollWait, ReadAgain, AcceptFail, ProcessExit,
           Arrive, vars
  <2>2. \A s \in Sides : pc[s] \in {"accept", "new", "write", "wait", "readn"}
    BY <2>1 DEF BothReading
  <2>3. \A s \in Sides : end[s] = "open"
    BY <2>a, <2>2 DEF Ends, IsClosed, Types
  <2>4. \A s \in Sides : ~ReadEnd(s) /\ ~ReadReset(s) /\ ~ParseBuffer(s) /\ ~Close(s)
    BY <2>2, <2>3 DEF ReadEnd, ReadReset, AtEnd, ParseBuffer, Close, At
  <2>5. ~ReadAgain /\ ~ProcessExit /\ ~AcceptFail
    BY <2>1 DEF ReadAgain, ProcessExit, AcceptFail
  <2>6. CASE Connect \/ Accept \/ EpollWait
    BY <2>a, <2>2, <2>6 DEF Connect, Accept, EpollWait, At, Types
  <2>7. CASE \E s \in Sides : WriteString(s)
    BY <2>a, <2>2, <2>3, <2>7 DEF WriteString, At, Types
  <2>8. CASE (\E s \in Sides : ReadSome(s) \/ Arrive(s)) \/ UNCHANGED vars
    BY <2>2, <2>8 DEF ReadSome, Arrive, vars
  <2> QED BY <2>4, <2>5, <2>6, <2>7, <2>8 DEF Next, Server, Client, ReadString
<1>3. BothReading => BothWait
  BY DEF BothReading, BothWait, IsClosed, Sides
<1> QED BY <1>1, <1>2, <1>3, SessionInvHolds, PTL DEF Spec

-----------------------------------------------------------------------------
(***************************************************************************)
(* Refinement.  The connection is serving between one_accept's accept()    *)
(* and its close(); the server has written by then, since nothing resets   *)
(* its connection before.                                                  *)
(***************************************************************************)
LEMMA InitRefines == Init => Service!ServiceInit
  BY DEF Init, Sides, Service!ServiceInit, Service!Conns, servicePhase, serviceReplies,
         serviceTrouble

\* Steps the service does not see.
LEMMA Unseen ==
  ASSUME pc'["client"] = "new" <=> pc["client"] = "new",
         pc'["server"] = "accept" <=> pc["server"] = "accept",
         IsClosed("server")' <=> IsClosed("server"),
         "server" \in wrote' <=> "server" \in wrote,
         failed' = failed
  PROVE  UNCHANGED Service!cvars
<1>1. servicePhase' = servicePhase
  BY DEF servicePhase, IsClosed
<1>2. serviceReplies' = serviceReplies /\ serviceTrouble' = serviceTrouble
  BY DEF serviceReplies, serviceTrouble
<1> QED BY <1>1, <1>2 DEF Service!cvars

\* Every step of the session is one of the service's or none.
LEMMA NextRefines ==
  ASSUME SessionInv, [Next]_vars
  PROVE  Service!ServiceNext \/ UNCHANGED Service!cvars
<1> USE TwoSides
<1>a. Types /\ Ends /\ Progress
  BY DEF SessionInv
<1>c. 1 \in Service!Conns
  BY DEF Service!Conns
<1>1. CASE Connect
  <2>1. /\ pc["client"] = "new" /\ pc' = [pc EXCEPT !["client"] = "write"]
        /\ pc["server"] = "accept" /\ UNCHANGED <<wrote, failed>>
    BY <1>a, <1>1 DEF Connect, At, IsClosed, Progress, Types
  <2>2. /\ servicePhase[1] = "new"
        /\ servicePhase' = [servicePhase EXCEPT ![1] = "pending"]
    BY <1>a, <2>1 DEF servicePhase, Types
  <2>3. UNCHANGED <<serviceReplies, serviceTrouble>>
    BY <2>1 DEF serviceReplies, serviceTrouble
  <2>4. Service!Arrive(1)
    BY <2>2, <2>3 DEF Service!Arrive, Service!Move
  <2> QED BY <1>c, <2>4 DEF Service!ServiceNext
<1>2. CASE Accept
  <2>1. /\ pc["server"] = "accept" /\ pc' = [pc EXCEPT !["server"] = "write"]
        /\ pc["client"] # "new" /\ UNCHANGED <<wrote, failed>>
    BY <1>2 DEF Accept, At
  <2>2. /\ servicePhase[1] = "pending"
        /\ servicePhase' = [servicePhase EXCEPT ![1] = "serving"]
    BY <1>a, <2>1 DEF servicePhase, IsClosed, Types
  <2>3. UNCHANGED <<serviceReplies, serviceTrouble>>
    BY <2>1 DEF serviceReplies, serviceTrouble
  <2>4. \A j \in Service!Conns : ~(j < 1)
    BY DEF Service!Conns
  <2>5. Service!Take(1)
    BY <2>2, <2>3, <2>4 DEF Service!Take, Service!Move
  <2> QED BY <1>c, <2>5 DEF Service!ServiceNext
<1>3. CASE AcceptFail
  <2>1. ~failed /\ failed' /\ UNCHANGED <<pc, wrote>>
    BY <1>3 DEF AcceptFail
  <2>2. UNCHANGED servicePhase
    BY <2>1 DEF servicePhase, IsClosed
  <2>3. UNCHANGED serviceReplies
    BY <2>1 DEF serviceReplies
  <2>4. serviceTrouble = "none" /\ serviceTrouble' = "failed"
    BY <2>1 DEF serviceTrouble
  <2>5. Service!Fail
    BY <2>2, <2>3, <2>4 DEF Service!Fail
  <2> QED BY <2>5 DEF Service!ServiceNext
<1>4. CASE ProcessExit
  <2>1. /\ pc["server"] = "accept" /\ pc' = [pc EXCEPT !["server"] = "closed"]
        /\ failed /\ UNCHANGED <<wrote, failed>>
    BY <1>4 DEF ProcessExit, At
  <2>2. UNCHANGED <<serviceReplies, serviceTrouble>> /\ serviceTrouble = "failed"
    BY <2>1 DEF serviceReplies, serviceTrouble
  <2>3. CASE pc["client"] = "new"
    <3>1. UNCHANGED servicePhase
      BY <1>a, <2>1, <2>3 DEF servicePhase, Types
    <3> QED BY <2>2, <3>1 DEF Service!cvars
  <2>4. CASE pc["client"] # "new"
    <3>1. /\ servicePhase[1] = "pending"
          /\ servicePhase' = [j \in Service!Conns |->
                               IF j \in {1} THEN "closed" ELSE servicePhase[j]]
      BY <1>a, <2>1, <2>4 DEF servicePhase, IsClosed, Types, Service!Conns
    <3>2. {1} \in SUBSET Service!Conns
      BY <1>c
    <3>3. Service!Drop
      BY <2>2, <3>1, <3>2 DEF Service!Drop
    <3> QED BY <3>3 DEF Service!ServiceNext
  <2> QED BY <2>3, <2>4
<1>5. CASE WriteString("server")
  <2>1. /\ pc["server"] = "write" /\ end["server"] # "rst"
        /\ "server" \notin wrote /\ pc["client"] # "new"
    BY <1>a, <1>5 DEF WriteString, At, Ends, Progress, IsClosed, Types
  <2>2. /\ pc' = [pc EXCEPT !["server"] = "readn"]
        /\ wrote' = wrote \cup {"server"} /\ UNCHANGED failed
    BY <1>5, <2>1 DEF WriteString, At
  <2>3. UNCHANGED servicePhase /\ servicePhase[1] = "serving"
    BY <1>a, <2>1, <2>2 DEF servicePhase, IsClosed, Types
  <2>4. /\ serviceReplies[1] = 0
        /\ serviceReplies' = [serviceReplies EXCEPT ![1] = 1]
    BY <2>1, <2>2 DEF serviceReplies
  <2>5. UNCHANGED serviceTrouble
    BY <2>2 DEF serviceTrouble
  <2>6. Service!Reply(1)
    BY <2>3, <2>4, <2>5 DEF Service!Reply
  <2> QED BY <1>c, <2>6 DEF Service!ServiceNext
<1>6. CASE Close("server")
  <2>1. /\ pc["server"] = "close" /\ pc' = [pc EXCEPT !["server"] = "closed"]
        /\ "server" \in wrote /\ pc["client"] # "new" /\ UNCHANGED <<wrote, failed>>
    BY <1>a, <1>6 DEF Close, At, Progress
  <2>2. /\ servicePhase[1] = "serving"
        /\ servicePhase' = [servicePhase EXCEPT ![1] = "closed"]
    BY <1>a, <2>1 DEF servicePhase, IsClosed, Types
  <2>3. serviceReplies[1] = 1 /\ UNCHANGED <<serviceReplies, serviceTrouble>>
    BY <2>1 DEF serviceReplies, serviceTrouble
  <2>4. Service!Finish(1)
    BY <2>2, <2>3 DEF Service!Finish, Service!Move
  <2> QED BY <1>c, <2>4 DEF Service!ServiceNext
<1>7. CASE ReadString("server")
  <2>1. SessionInv'
    BY NextInv
  <2>2. /\ pc["server"] \in {"readn", "parse"} /\ UNCHANGED <<wrote, failed>>
        /\ pc'["server"] \in {"readn", "parse", "close"} /\ pc'["client"] = pc["client"]
    BY <1>a, <1>7, <2>1
    DEF ReadString, ReadSome, ReadEnd, ReadReset, ParseBuffer, Return, Types, SessionInv
  <2> QED BY <2>2, Unseen DEF IsClosed
<1>8. CASE Client \/ (\E s \in Sides : Arrive(s)) \/ UNCHANGED vars
  <2>1. /\ pc'["server"] = pc["server"] /\ UNCHANGED failed
        /\ "server" \in wrote' <=> "server" \in wrote
    BY <1>a, <1>8
    DEF Client, WriteString, EpollWait, ReadString, ReadSome, ReadEnd, ReadReset,
        ParseBuffer, Return, ReadAgain, Close, At, Arrive, vars, ReadVars, Types
  <2>2. pc'["client"] = "new" <=> pc["client"] = "new"
    BY <1>a, <1>8
    DEF Client, WriteString, EpollWait, ReadString, ReadSome, ReadEnd, ReadReset,
        ParseBuffer, Return, ReadAgain, Close, At, Arrive, vars, ReadVars, Types
  <2> QED BY <2>1, <2>2, Unseen DEF IsClosed
<1> QED
  BY <1>1, <1>2, <1>3, <1>4, <1>5, <1>6, <1>7, <1>8 DEF Next, Server

\* one_accept takes its connection, writes one message and closes after it,
\* whatever the client makes of it; the connection is dropped only after
\* accept() has failed (test_server.cpp:340-370).
THEOREM ServiceImplemented == Spec => SessionImplementsService
  BY InitRefines, NextRefines, SessionInvHolds, PTL
  DEF Spec, SessionImplementsService, Service!ServiceSpec
=============================================================================
