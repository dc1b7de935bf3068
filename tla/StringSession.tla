---------------------------- MODULE StringSession ----------------------------
(***************************************************************************)
(* TEST(STRING, ONE) of sample_socket/test_server.cpp against              *)
(* TEST(STRING, EPOLL) of sample_client/test_client.cpp: one_accept and    *)
(* epoll_client exchange one frame of RpcFraming each with write_string    *)
(* and read_string, which are the same in both programs.                   *)
(*                                                                         *)
(* Frames are bytes on their way: they may arrive in pieces of any size.   *)
(* readn and writen belong to the ironman library, which is not in the     *)
(* repository.  They transfer what they are asked to, and readn ends early *)
(* at the end of the stream; what it makes of EAGAIN on the client's       *)
(* nonblocking socket is one of three possibilities.                       *)
(***************************************************************************)
EXTENDS RpcFraming

CONSTANTS
  ServerText,   \* length of "What's wrong?", 13
  ClientText,   \* length of "Hello World.", 12
  BufferLength  \* buffer_length of read_string, 1024

Sides == {"server", "client"}
Peer(s) == IF s = "server" THEN "client" ELSE "server"
Text(s) == IF s = "server" THEN ServerText ELSE ClientText

\* malloc() leaves anything in the buffer Serialize writes to.
Empty    == [magic |-> FALSE, length |-> 0, text |-> 0]
Frame(s) == Serialize(Empty, Text(s)).frame
Size(s)  == Serialize(Empty, Text(s)).length

\* Both frames go through, and read_string has room for more than one.  The
\* strncpy that keeps a part of a header copies nothing behind a zero byte:
\* the frames are those (21 and 22 bytes in the code) whose length has a
\* nonzero lowest byte and no third one, so that only zeros come behind it.
ASSUME StringSessionAssumption ==
  /\ ServerText \in Nat /\ ClientText \in Nat /\ BufferLength \in Nat
  /\ \A s \in Sides : Size(s) > 0 /\ Size(s) < BufferLength
  /\ \A s \in Sides : Size(s) % 256 # 0 /\ Size(s) < 65536

VARIABLES
  again,    \* readn on EAGAIN: returns "error" (-1), returns what it has
            \* ("short", -1 if nothing), or tries again ("spin")
  pc,       \* where each side is
  away,     \* bytes on their way to each side
  here,     \* bytes that have arrived at each side and are unread
  end,      \* what each side finds behind the bytes: open, fin or rst
  got,      \* bytes the current readn of each side has read
  used,     \* count_used of read_string
  total,    \* total_length of read_string
  result,   \* what read_string returned
  parsed,   \* frames each side has parsed
  wrote,    \* sides that have written their frame
  failed    \* accept() has failed

ReadVars == <<got, used, total, result, parsed>>
vars == <<again, pc, away, here, end, wrote, ReadVars, failed>>

\* No result of read_string: it has not returned.
Unreturned == -2

TypeOK ==
  /\ again \in {"error", "short", "spin"}
  /\ pc["server"] \in {"accept", "write", "readn", "parse", "close", "closed"}
  /\ pc["client"] \in {"new", "write", "wait", "readn", "parse", "close",
                       "closed", "crashed"}
  /\ \A s \in Sides : /\ away[s] + here[s] + got[s] + used[s] <= Size(Peer(s))
                      /\ away[s] >= 0 /\ here[s] >= 0 /\ got[s] >= 0
                      /\ used[s] \in 0..HeaderSize - 1
                      /\ total[s] \in Nat
                      /\ end[s] \in {"open", "fin", "rst"}
                      /\ result[s] >= Unreturned
                      /\ parsed[s] \in {0, 1}
  /\ wrote \subseteq Sides
  /\ failed \in BOOLEAN

Zero == [s \in Sides |-> 0]

Init ==
  /\ again \in {"error", "short", "spin"}
  /\ pc = [s \in Sides |-> IF s = "server" THEN "accept" ELSE "new"]
  /\ away = Zero /\ here = Zero /\ got = Zero /\ used = Zero /\ total = Zero
  /\ parsed = Zero
  /\ end = [s \in Sides |-> "open"]
  /\ result = [s \in Sides |-> Unreturned]
  /\ wrote = {}
  /\ failed = FALSE

At(s, from, to) == pc[s] = from /\ pc' = [pc EXCEPT ![s] = to]

\* The socket of side s is closed.
IsClosed(s) == pc[s] \in {"closed", "crashed"}

\* Nothing is between side s and the end of its stream.
AtEnd(s) == here[s] = 0 /\ away[s] = 0 /\ end[s] # "open"

-----------------------------------------------------------------------------
\* Bytes arrive; at a socket that is closed they are answered by a reset.
Arrive(s) ==
  /\ \E n \in 1..away[s] :
       /\ away' = [away EXCEPT ![s] = @ - n]
       /\ IF IsClosed(s)
          THEN end' = [end EXCEPT ![Peer(s)] = "rst"] /\ UNCHANGED here
          ELSE here' = [here EXCEPT ![s] = @ + n] /\ UNCHANGED end
  /\ UNCHANGED <<again, pc, ReadVars, wrote, failed>>

\* Side s closes its socket, by a reset if it has not read everything.
CloseSocket(s) ==
  end' = [end EXCEPT ![Peer(s)] =
            IF here[s] > 0 \/ @ = "rst" THEN "rst" ELSE "fin"]

\* sample_connect: one_accept's only connection.
Connect ==
  /\ At("client", "new", "write")
  /\ ~IsClosed("server")
  /\ UNCHANGED <<again, away, here, end, ReadVars, wrote, failed>>

AcceptCheckInverted_mutant ==
  /\ ~failed /\ pc["client"] # "new"
  /\ At("server", "accept", "close")
  /\ UNCHANGED <<again, away, here, end, ReadVars, wrote, failed>>

Accept ==
  /\ ~failed /\ pc["client"] # "new"
  /\ At("server", "accept", "write")
  /\ UNCHANGED <<again, away, here, end, ReadVars, wrote, failed>>

\* one_accept returns -1 with the listening socket open.
AcceptFail ==
  /\ pc["server"] = "accept" /\ ~failed
  /\ failed' = TRUE
  /\ UNCHANGED <<again, pc, away, here, end, ReadVars, wrote>>

\* The process ends, and a connection in the queue is reset.
ProcessExit ==
  /\ failed
  /\ At("server", "accept", "closed")
  /\ end' = [end EXCEPT !["client"] = "rst"]
  /\ UNCHANGED <<again, away, here, ReadVars, wrote, failed>>

-----------------------------------------------------------------------------
WriteStringRetries_mutant(s) ==
  /\ At(s, "write", IF end[s] = "rst" THEN "close"
                    ELSE IF s \in wrote THEN (IF s = "server" THEN "readn" ELSE "wait")
                    ELSE "write")
  /\ IF end[s] = "rst" THEN UNCHANGED <<away, wrote>>
     ELSE /\ away' = [away EXCEPT ![Peer(s)] = @ + Size(s)]
          /\ wrote' = wrote \cup {s}
  /\ UNCHANGED <<again, here, end, ReadVars, failed>>

\* write_string; epoll_client gives up if it fails, which one_accept's does
\* not: the client does not close before it has heard of the server.
WriteString(s) ==
  /\ At(s, "write", IF end[s] = "rst" THEN "close"
                    ELSE IF s = "server" THEN "readn" ELSE "wait")
  /\ IF end[s] = "rst" THEN UNCHANGED <<away, wrote>>
     ELSE /\ away' = [away EXCEPT ![Peer(s)] = @ + Size(s)]
          /\ wrote' = wrote \cup {s}
  /\ UNCHANGED <<again, here, end, ReadVars, failed>>

\* epoll_wait reports the socket.
EpollWait ==
  /\ here["client"] > 0 \/ AtEnd("client")
  /\ At("client", "wait", "readn")
  /\ UNCHANGED <<again, away, here, end, ReadVars, wrote, failed>>

-----------------------------------------------------------------------------
(***************************************************************************)
(* read_string: readn, then parse.                                         *)
(***************************************************************************)
\* read_string returns r, or goes on with "next".
Return(s, r) ==
  /\ pc' = [pc EXCEPT ![s] = "close"]
  /\ result' = [result EXCEPT ![s] = r]

\* A read() within readn takes what is there.
ReadSome(s) ==
  /\ pc[s] = "readn" /\ here[s] > 0
  /\ got' = [got EXCEPT ![s] = @ + here[s]]
  /\ here' = [here EXCEPT ![s] = 0]
  /\ UNCHANGED <<again, pc, away, end, used, total, result, parsed, wrote, failed>>

\* The end of the stream: with nothing read, read_string is over.
ReadEnd(s) ==
  /\ pc[s] = "readn" /\ AtEnd(s) /\ end[s] = "fin"
  /\ IF got[s] = 0 THEN Return(s, total[s])
     ELSE pc' = [pc EXCEPT ![s] = "parse"] /\ UNCHANGED result
  /\ UNCHANGED <<again, away, here, end, got, used, total, parsed, wrote, failed>>

\* A reset makes readn return -1, whatever it has read.
ReadReset(s) ==
  /\ pc[s] = "readn" /\ AtEnd(s) /\ end[s] = "rst"
  /\ Return(s, -1)
  /\ UNCHANGED <<again, away, here, end, got, used, total, parsed, wrote, failed>>

\* EAGAIN, on the client's socket only, while neither bytes nor the end of the
\* stream are there.  With "spin" this step is the one that changes nothing.
ReadAgain ==
  /\ pc["client"] = "readn" /\ here["client"] = 0 /\ ~AtEnd("client")
  /\ \/ /\ again = "error" \/ (again = "short" /\ got["client"] = 0)
        /\ Return("client", -1)
     \/ /\ again = "short" /\ got["client"] > 0
        /\ pc' = [pc EXCEPT !["client"] = "parse"]
        /\ UNCHANGED result
  /\ UNCHANGED <<again, away, here, end, got, used, total, parsed, wrote, failed>>

\* parse with count bytes of one frame in the buffer: the loop subtracts the
\* length the header states and ends at or below 0, or, if that is 0, keeps
\* what is there.
ParseCount(frame, count) == count - GetMessageLength(frame, count)

ParseReturnsRest_mutant(s) ==
  LET count == used[s] + got[s]
      left  == ParseCount(Frame(Peer(s)), count)
  IN  /\ pc[s] = "parse"
      /\ got' = [got EXCEPT ![s] = 0]
      /\ parsed' = IF left = 0 THEN [parsed EXCEPT ![s] = @ + 1] ELSE parsed
      /\ Return(s, IF left < 0 THEN -1 ELSE left)
      /\ UNCHANGED <<again, away, here, end, used, total, wrote, failed>>

\* parse, strncpy of the count that is left, which is less than a header and
\* is copied as it is (StringSessionAssumption), and the end of the loop.  A
\* negative count, of a frame of which the header but not all has arrived, is
\* a huge length to strncpy, which runs beyond the memory of the process.
ParseBuffer(s) ==
  LET count == used[s] + got[s]
      left  == ParseCount(Frame(Peer(s)), count)
  IN  /\ pc[s] = "parse"
      /\ got' = [got EXCEPT ![s] = 0]
      /\ parsed' = IF count >= HeaderSize THEN [parsed EXCEPT ![s] = @ + 1] ELSE parsed
      /\ IF left < 0
         THEN /\ pc' = [pc EXCEPT ![s] = "crashed"]
              /\ CloseSocket(s)
              /\ UNCHANGED <<used, total, result>>
         ELSE /\ used' = [used EXCEPT ![s] = left]
              /\ total' = [total EXCEPT ![s] = @ + left]
              /\ IF left = 0 THEN Return(s, total'[s])
                 ELSE pc' = [pc EXCEPT ![s] = "readn"] /\ UNCHANGED result
              /\ UNCHANGED end
      /\ UNCHANGED <<again, away, here, wrote, failed>>

CloseWaits_mutant(s) ==
  /\ AtEnd(s)
  /\ At(s, "close", "closed")
  /\ CloseSocket(s)
  /\ UNCHANGED <<again, away, here, ReadVars, wrote, failed>>

\* The close()s of one_accept and epoll_client.
Close(s) ==
  /\ At(s, "close", "closed")
  /\ CloseSocket(s)
  /\ UNCHANGED <<again, away, here, ReadVars, wrote, failed>>

-----------------------------------------------------------------------------
ReadString(s) == ReadSome(s) \/ ReadEnd(s) \/ ReadReset(s) \/ ParseBuffer(s)

Server == Accept \/ WriteString("server") \/ ReadString("server") \/ Close("server")
Client == \/ WriteString("client") \/ EpollWait \/ ReadString("client")
          \/ ReadAgain \/ Close("client")

Next == \/ Connect \/ Server \/ Client \/ AcceptFail \/ ProcessExit
        \/ \E s \in Sides : Arrive(s)

Spec == Init /\ [][Next]_vars

\* Both processes run, and what was sent arrives.
FairSpec == /\ Spec /\ WF_vars(Server) /\ WF_vars(Client) /\ WF_vars(ProcessExit)
            /\ \A s \in Sides : WF_vars(Arrive(s))

-----------------------------------------------------------------------------
(***************************************************************************)
(* Properties                                                              *)
(***************************************************************************)
\* read_string never takes a part of a frame for a frame: if it returns
\* anything but -1 it has parsed the whole of it, and the only way to go wrong
\* inside a frame is a readn that returns a part of it, which it never does
\* on the server's blocking socket (test_server.cpp:282-313,
\* test_client.cpp:119-154).
WholeFrameOrError ==
  /\ \A s \in Sides : result[s] >= 0 => parsed[s] = 1 /\ here[s] + away[s] = 0
  /\ pc["client"] = "crashed" => again = "short"
  /\ result["server"] = -1 => IsClosed("client")

\* one_accept reads until its client closes, and epoll_client closes when it
\* has read: with a readn that does not wait for ever on EAGAIN both return,
\* whatever arrives when; a client whose readn returns a part of the frame may
\* crash instead (test_server.cpp:290,355-369, test_client.cpp:131,212-224).
SessionEnds ==
  /\ again = "error" /\ pc["client"] # "new" ~>
       pc["server"] = "closed" /\ pc["client"] = "closed"
  /\ again = "short" /\ pc["client"] # "new" ~>
       pc["server"] = "closed" /\ IsClosed("client")

\* epoll_client has returned 0, or its connection was never accepted.
ReturnedZero == failed \/ (pc["client"] = "closed" /\ result["client"] >= 0)

\* The test of epoll_client with the STRING protocol expects it to return 0
\* (test_client.cpp:328-329), so also with a readn that tries again on EAGAIN,
\* as the server's blocking one does.
WaitingClientReturnsZero ==
  again = "spin" /\ pc["client"] # "new" ~> ReturnedZero

\* The state of one_accept and its only connection in the terms of ConnService.
serviceTrouble == IF failed THEN "failed" ELSE "none"
serviceReplies == [k \in {1} |-> IF "server" \in wrote THEN 1 ELSE 0]
servicePhase ==
  [k \in {1} |-> IF pc["client"] = "new" THEN "new"
                 ELSE IF pc["server"] = "accept" THEN "pending"
                 ELSE IF IsClosed("server") THEN "closed" ELSE "serving"]

Service == INSTANCE ConnService WITH
  N       <- 1,
  trouble <- serviceTrouble,
  replies <- serviceReplies,
  phase   <- servicePhase

\* one_accept keeps the promise of ConnService: its only connection is
\* accepted, gets one message and is closed after that, unless accept()
\* failed (test_server.cpp:340-370).
SessionImplementsService == Service!ServiceSpec
=============================================================================
