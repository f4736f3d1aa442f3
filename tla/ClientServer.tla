----------------------------- MODULE ClientServer ----------------------------
(***************************************************************************)
(* 16-17_client__server (TCP), 17-05_client__server (a UNIX domain stream) *)
(* and 16-20_client__server (UDP): the child asks until it reads "quit",   *)
(* the parent answers one client, says "quit", and waits for its child.    *)
(*                                                                         *)
(* A side is the sequence of its calls.  The sockets are external code: a  *)
(* TCP stream may be cut anywhere, a UNIX domain send arrives as a whole,  *)
(* datagrams are lost and overtake each other.  A socket that is closed    *)
(* with unread data resets its peer; a stream whose peer is gone first     *)
(* reads as ended, and then kills whoever writes to it (SIGPIPE).  The     *)
(* address is free when a run starts, but a UNIX domain path may be left   *)
(* over from an earlier run.                                               *)
(***************************************************************************)
EXTENDS Integers, Sequences

VARIABLES
    proto,      \* the program: "tcp", "unix" or "udp"
    path,       \* the server's address: "free", "stale" or "bound"
    link,       \* the connection, as the client's end of it is
    up,         \* requests that the server has not read
    down,       \* what the client has not read
    at,         \* at[s]: the number of the next call of side s
    dead,       \* the sides that a signal has ended
    trouble     \* history: a side was killed, a "quit" cut, a datagram lost

sessionVars == <<proto, path, link, up, down, at, dead, trouble>>

Sides == {"client", "server"}
Protos == {"tcp", "unix", "udp"}

TcpClient == <<"connect", "send", "recv", "close">>
UnixClient == <<"connect", "send", "recv", "close">>
UdpClient == <<"send", "recv", "close">>

\* Mutant of TcpServer: the accepted socket is closed on the way out, too.
TcpServerHangup == <<"bind", "listen", "accept", "text", "quit", "hangup", "shut">>

TcpServer == <<"bind", "listen", "accept", "text", "quit", "shut">>

UnixServer == <<"bind", "listen", "accept", "recv", "quit", "hangup", "shut">>
UdpServer == <<"bind", "recv", "text", "quit", "shut">>

TcpMain == TcpServer \o <<"wait">>

\* Mutant of UnixMain: a path of an earlier run is not removed.
UnixMainKeeps == UnixServer \o <<"wait", "unlink">>

UnixMain == <<"unlink">> \o UnixServer \o <<"wait", "unlink">>
UdpMain == UdpServer \o <<"wait">>

Text(s) ==
    IF s = "client"
    THEN [tcp |-> TcpClient, unix |-> UnixClient, udp |-> UdpClient][proto]
    ELSE [tcp |-> TcpMain, unix |-> UnixMain, udp |-> UdpMain][proto]

Gone(s) == s \in dead \/ at[s] > Len(Text(s))
Calls(s, call) == ~Gone(s) /\ Text(s)[at[s]] = call
Passed(s, call) == \E i \in 1..(at[s] - 1) : Text(s)[i] = call
Step(s, k) == at' = [at EXCEPT ![s] = @ + k]

SessionInit ==
    /\ proto \in Protos
    /\ path \in IF proto = "unix" THEN {"free", "stale"} ELSE {"free"}
    /\ link = "none" /\ up = 0 /\ down = <<>>
    /\ at = [s \in Sides |-> 1]
    /\ dead = {} /\ trouble = FALSE
-----------------------------------------------------------------------------
\* The address.

Unlink ==
    /\ Calls("server", "unlink") /\ Step("server", 1)
    /\ path' = "free"
    /\ UNCHANGED <<proto, link, up, down, dead, trouble>>

\* bind fails when the path exists; nobody looks.
Bind ==
    /\ Calls("server", "bind") /\ Step("server", 1)
    /\ path' = IF path = "free" THEN "bound" ELSE path
    /\ UNCHANGED <<proto, link, up, down, dead, trouble>>

\* A UNIX domain socket without an address cannot listen: listen is repeated.
Listen ==
    /\ Calls("server", "listen") /\ Step("server", 1)
    /\ path = "bound"
    /\ UNCHANGED <<proto, path, link, up, down, dead, trouble>>

Listening ==
    /\ path = "bound" /\ "server" \notin dead
    /\ Passed("server", "listen") /\ ~Passed("server", "shut")

\* connect succeeds when the server listens, and is repeated until then.
Connect ==
    /\ Calls("client", "connect") /\ Step("client", 1)
    /\ Listening /\ link' = "open"
    /\ UNCHANGED <<proto, path, up, down, dead, trouble>>

Accept ==
    /\ Calls("server", "accept") /\ Step("server", 1)
    /\ link # "none"
    /\ UNCHANGED <<proto, path, link, up, down, dead, trouble>>
-----------------------------------------------------------------------------
\* Requests.

\* A send to a server that is gone is answered with a reset; the next fails,
\* with SIGPIPE unless the reset has not been reported by a call before.  A
\* datagram to an address that nobody has bound (yet) is lost.
Send ==
    /\ Calls("client", "send") /\ UNCHANGED <<proto, path, down>>
    /\ \/ /\ proto = "udp"
          /\ up' = IF path = "bound" /\ ~Gone("server") /\ ~Passed("server", "shut") THEN up + 1 ELSE up
          /\ trouble' = (trouble \/ path # "bound")
          /\ Step("client", 1) /\ UNCHANGED <<link, dead>>
       \/ /\ link = "open"
          /\ up' = up + 1
          /\ Step("client", 1) /\ UNCHANGED <<link, dead, trouble>>
       \/ /\ link \in {"ended", "reset"}
          /\ link' = IF link = "ended" THEN "reset" ELSE "broken"
          /\ Step("client", 1) /\ UNCHANGED <<up, dead, trouble>>
       \/ /\ link \in {"reset", "broken"}
          /\ dead' = dead \cup {"client"}
          /\ UNCHANGED <<at, link, up, trouble>>

\* recvfrom takes a datagram, and nothing else ends it; a stream's recv also
\* returns when the client is gone, and the server goes on all the same.
RecvRequest ==
    /\ Calls("server", "recv") /\ Step("server", 1)
    /\ \/ up > 0 /\ up' = up - 1
       \/ up = 0 /\ proto # "udp" /\ Gone("client") /\ UNCHANGED up
    /\ UNCHANGED <<proto, path, link, down, dead, trouble>>
-----------------------------------------------------------------------------
\* Replies.

\* A reply to a client that is gone is lost, or SIGPIPE ends the server.
Reply(text) ==
    /\ UNCHANGED <<proto, path, link, up, trouble>>
    /\ \/ /\ ~Gone("client") \/ proto # "unix"
          /\ down' = IF Gone("client") THEN down ELSE down \o text
          /\ Step("server", 1) /\ UNCHANGED dead
       \/ /\ Gone("client") /\ proto # "udp"
          /\ dead' = dead \cup {"server"}
          /\ UNCHANGED <<at, down>>

\* What the first line of uptime says, or nothing when it says nothing.
SendText == Calls("server", "text") /\ \E text \in {<<>>, <<"text">>} : Reply(text)

\* "quit" in a byte stream is more than one byte.
SendQuit == Calls("server", "quit") /\ Reply(IF proto = "tcp" THEN <<"qu", "it">> ELSE <<"quit">>)

\* What one call of the client may read, and what it leaves.
Reads ==
    IF proto = "udp"
    THEN {<< <<down[i]>>, SubSeq(down, 1, i - 1) \o SubSeq(down, i + 1, Len(down))>> : i \in 1..Len(down)}
    ELSE {<<SubSeq(down, 1, i), SubSeq(down, i + 1, Len(down))>> :
             i \in IF proto = "tcp" THEN 1..Len(down) ELSE {Len(down)}}

HasQuit(buf) ==
    \E i \in 1..Len(buf) : \/ buf[i] = "quit"
                           \/ i < Len(buf) /\ buf[i] = "qu" /\ buf[i + 1] = "it"

\* Mutant of RecvReply: the loop ends when the stream does (break for continue).
RecvReplyBreaks ==
    /\ Calls("client", "recv") /\ UNCHANGED <<proto, path, up, dead, trouble>>
    /\ \/ /\ down # <<>> /\ UNCHANGED link
          /\ \E r \in Reads : down' = r[2] /\ Step("client", IF HasQuit(r[1]) THEN 1 ELSE -1)
       \/ /\ down = <<>> /\ link \in {"ended", "reset", "broken"}
          /\ Step("client", 1) /\ UNCHANGED <<link, down>>

\* The client goes on to close when it has read "quit", and else sends again.
RecvReply ==
    /\ Calls("client", "recv") /\ UNCHANGED <<proto, path, up, dead>>
    /\ \/ /\ down # <<>> /\ UNCHANGED link
          /\ \E r \in Reads :
                /\ down' = r[2]
                /\ Step("client", IF HasQuit(r[1]) THEN 1 ELSE -1)
                /\ trouble' = (trouble \/ r[1][Len(r[1])] = "qu")
       \/ /\ down = <<>> /\ link \in {"ended", "reset", "broken"}
          /\ link' = IF link = "reset" THEN "broken" ELSE link
          /\ Step("client", -1) /\ UNCHANGED <<down, trouble>>
-----------------------------------------------------------------------------
\* The end of a connection, of a side, and of a datagram.

\* The server's end of the connection is closed, or reset when it has unread
\* data or was not accepted; a reset may overtake what was sent before.
Hangs(unread) ==
    IF proto = "udp" \/ link # "open" THEN UNCHANGED <<link, down>>
    ELSE IF proto = "unix" THEN link' = "broken" /\ UNCHANGED down
    ELSE IF unread THEN link' = "reset" /\ down' \in {down, <<>>}
    ELSE link' = "ended" /\ UNCHANGED down

Hangup ==
    /\ Calls("server", "hangup") /\ Step("server", 1)
    /\ Hangs(up > 0)
    /\ UNCHANGED <<proto, path, up, dead, trouble>>

Shut ==
    /\ Calls("server", "shut") /\ Step("server", 1)
    /\ UNCHANGED <<proto, path, link, up, down, dead, trouble>>

\* shutdown, close and return.
CloseClient ==
    /\ Calls("client", "close") /\ Step("client", 1)
    /\ UNCHANGED <<proto, path, link, up, down, dead, trouble>>

Wait ==
    /\ Calls("server", "wait") /\ Step("server", 1)
    /\ Gone("client")
    /\ UNCHANGED <<proto, path, link, up, down, dead, trouble>>

KillSide(s) ==
    /\ ~Gone(s) /\ dead' = dead \cup {s} /\ trouble' = TRUE
    /\ IF s = "server" THEN Hangs(up > 0 \/ ~Passed("server", "accept")) ELSE UNCHANGED <<link, down>>
    /\ UNCHANGED <<proto, path, up, at>>

Lose ==
    /\ proto = "udp" /\ trouble' = TRUE
    /\ \/ up > 0 /\ up' = up - 1 /\ UNCHANGED down
       \/ down # <<>> /\ UNCHANGED up /\ \E r \in Reads : down' = r[2]
    /\ UNCHANGED <<proto, path, link, at, dead>>

Client == Connect \/ Send \/ RecvReply \/ CloseClient
Server == Unlink \/ Bind \/ Listen \/ Accept \/ RecvRequest \/ SendText \/ SendQuit \/ Hangup \/ Shut \/ Wait

\* Both have ended, or one waits for ever after a kill, a cut or a loss.
Rest == (trouble \/ \A s \in Sides : Gone(s)) /\ UNCHANGED sessionVars

SessionNext == Client \/ Server \/ (\E s \in Sides : KillSide(s)) \/ Lose \/ Rest

SessionSpec == SessionInit /\ [][SessionNext]_sessionVars

\* Both sides are scheduled.
FairSessionSpec == SessionSpec /\ WF_sessionVars(Client) /\ WF_sessionVars(Server)
-----------------------------------------------------------------------------
\* The client sends once per read, and a server that answers once is read at
\* most three times, so that no more requests than that are ever unread.
SessionTypeOK ==
    /\ proto \in Protos /\ path \in {"free", "stale", "bound"}
    /\ link \in {"none", "open", "ended", "reset", "broken"}
    /\ up \in 0..4
    /\ \A i \in 1..Len(down) : down[i] \in {"text", "qu", "it", "quit"}
    /\ \A s \in Sides : at[s] \in 1..(Len(Text(s)) + 1)
    /\ dead \subseteq Sides /\ trouble \in BOOLEAN

\* l.181-182 of the TCP server leave the accepted socket open with the requests
\* unread until the client has ended: a close would reset the connection, which
\* may take "quit" away from the client and kills it at its next send.  Unless
\* a side is killed, neither dies of SIGPIPE and no connection is reset.
NoBrokenPipe == ~trouble => dead = {} /\ link # "reset"

\* The UNIX domain program leaves its path behind only when it is killed.
PathRemoved == proto = "unix" /\ Gone("server") /\ "server" \notin dead => path = "free"

\* Whatever order the two sides start in, whatever stale path they find and
\* however the replies are cut or reordered, both end, unless one is killed,
\* "quit" itself is cut in two or a datagram is lost.
Finishes == <>(trouble \/ \A s \in Sides : Gone(s))

\* A client whose server has died on it ends, of "quit" or of SIGPIPE.
OrphanEnds == "server" \in dead /\ link # "none" ~> Gone("client")

\* A stream server that has its connection ends without its client.
WidowEnds == "client" \in dead /\ link # "none" ~> Gone("server")

\* The client leaves with what the server has said: no client ends by itself
\* before "quit" was sent.
Session == INSTANCE Handover WITH
    given <- IF Passed("server", "quit") THEN {"quit"} ELSE {},
    taken <- IF Passed("client", "recv") THEN {"quit"} ELSE {}

QuitIsHeard == Session!Spec

\* Neither a signal nor a path is what a session leaves behind, nor a message
\* more than the two sides exchange.
Safety == SessionTypeOK /\ NoBrokenPipe /\ PathRemoved

\* Each side ends: with the other, or without it when the other was killed.
BothEnd == Finishes /\ OrphanEnds /\ WidowEnds
=============================================================================
