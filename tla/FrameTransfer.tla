----------------------------- MODULE FrameTransfer -----------------------------
(***************************************************************************)
(* The client and server commands of the demo on the two ends of TCP:      *)
(* sample_structure.h's send_all, recv_all, socket_send, socket_receive,   *)
(* do_client and do_server.  A frame is a length in network byte order     *)
(* followed by the encoded payload; both ends move it in pieces of any     *)
(* size.  Several clients may aim at the one server, which accepts one     *)
(* connection.  The kernel's side of a connection is external.             *)
(***************************************************************************)
EXTENDS Naturals, Sequences, FiniteSets

CONSTANTS
  Clients,    \* processes running "client HOST PORT" against this server
  NoClient,   \* no connection accepted
  Byte, Zero, \* the values of a byte; the one memset writes
  LenBytes,   \* sizeof(netlen), 8
  MaxBuffer,  \* MAX_BUFFER, 4096
  SendBuf,    \* bytes that the kernel holds unread for one connection
  Backlog,    \* connections that listen() lets wait for accept()
  FirstFd,    \* the lowest free descriptor number when a process starts
  Payload,    \* the encoded bytes that each client is asked to send
  htobe64,    \* a size as the bytes of netlen
  be64toh,    \* and back
  FaultSets   \* which failures the environment may produce together

FaultKinds == {"setup", "send", "recv", "crash", "vanish", "server"}

Sizes == {Len(Payload[c]) : c \in Clients}
LenField == [1..LenBytes -> Byte]

ASSUME ClientsAssumption == NoClient \notin Clients
ASSUME PayloadAssumption == Payload \in [Clients -> Seq(Byte)]
ASSUME ByteAssumption == Zero \in Byte
ASSUME BoundsAssumption ==
  /\ LenBytes \in Nat \ {0} /\ MaxBuffer \in Nat \ {0}
  /\ SendBuf \in Nat \ {0} /\ Backlog \in Nat \ {0} /\ FirstFd \in Nat
ASSUME FaultsAssumption == FaultSets \subseteq SUBSET FaultKinds
\* The two conversions of <endian.h> are inverse on the sizes that are sent.
ASSUME EndianAssumption ==
  /\ htobe64 \in [Sizes -> LenField]
  /\ be64toh \in [LenField -> Nat]
  /\ \A n \in Sizes : be64toh[htobe64[n]] = n

VARIABLES
  \* the client processes
  cliPc, cliRet, sent, cliFds,
  \* the server process and the caller's buffer and size
  srvPc, srvRet, got, netlen, size, buffer, srvFds,
  \* the kernel: connections waiting for accept, the accepted one, the state
  \* of each connection, every byte accepted from each client, how many the
  \* server has taken, and the clients that closed their end
  queue, peer, link, wire, taken, fin,
  faults  \* the failures of this behaviour, which never change

cliVars == <<cliPc, cliRet, sent, cliFds>>
srvVars == <<srvPc, srvRet, got, netlen, size, buffer, srvFds>>
netVars == <<queue, peer, link, wire, taken, fin>>
vars == <<cliVars, srvVars, netVars, faults>>

(***************************************************************************)
(* The descriptors of the two functions and their `if (fd) close(fd)'.     *)
(***************************************************************************)
sock == FirstFd
lsock == FirstFd
csock == FirstFd + 1

CloseFd(fds, fd) == IF fd = 0 THEN fds ELSE fds \ {fd}

Init ==
  /\ faults \in FaultSets
  /\ cliPc = [c \in Clients |-> "start"]
  /\ cliRet = [c \in Clients |-> "none"]
  /\ sent = [c \in Clients |-> 0]
  /\ cliFds = [c \in Clients |-> {}]
  /\ srvPc = "start" /\ srvRet = "none"
  /\ got = 0 /\ size = 0 /\ srvFds = {}
  /\ netlen = [i \in 1..LenBytes |-> Zero]
  /\ buffer = [i \in 1..MaxBuffer |-> Zero]
  /\ queue = {} /\ peer = NoClient /\ taken = 0 /\ fin = {}
  /\ link = [c \in Clients |-> "none"]
  /\ wire = [c \in Clients |-> <<>>]

(***************************************************************************)
(* The client.                                                             *)
(***************************************************************************)
\* Leaving socket_send through cleanup, whatever was reached before; closing
\* the -1 of a socket() that failed changes nothing.
cleanup(c, r) ==
  /\ cliPc' = [cliPc EXCEPT ![c] = "returned"]
  /\ cliRet' = [cliRet EXCEPT ![c] = r]
  /\ cliFds' = [cliFds EXCEPT ![c] = CloseFd(@, sock)]
  /\ fin' = fin \cup {c}
  /\ UNCHANGED <<sent, srvVars, queue, peer, link, wire, taken>>

\* The process ends without returning; the kernel closes what it held.
CliKilled(c) ==
  /\ cliPc' = [cliPc EXCEPT ![c] = "killed"]
  /\ cliRet' = [cliRet EXCEPT ![c] = "killed"]
  /\ cliFds' = [cliFds EXCEPT ![c] = {}]
  /\ UNCHANGED <<sent, srvVars, queue, peer, link, wire, taken>>

\* do_client's size check and socket().
do_client(c) ==
  /\ cliPc[c] = "start"
  /\ \/ /\ Payload[c] = <<>> \/ "setup" \in faults
        /\ cleanup(c, "fail")
     \/ /\ Payload[c] # <<>>
        /\ cliPc' = [cliPc EXCEPT ![c] = "address"]
        /\ cliFds' = [cliFds EXCEPT ![c] = {sock}]
        /\ UNCHANGED <<cliRet, sent, srvVars, netVars>>

\* inet_pton, with the socket open.
inet_pton(c) ==
  /\ cliPc[c] = "address"
  /\ \/ "setup" \in faults /\ cleanup(c, "fail")
     \/ /\ cliPc' = [cliPc EXCEPT ![c] = "connect"]
        /\ UNCHANGED <<cliRet, sent, cliFds, srvVars, netVars>>

\* The server is behind listen().
Listening == srvPc \in {"accept", "recvLen", "recvPayload"}

\* connect() succeeds as soon as the listening socket can queue the
\* connection: accept() may come later or never.
Connect(c) ==
  /\ cliPc[c] = "connect"
  /\ Listening /\ Cardinality(queue) < Backlog
  /\ cliPc' = [cliPc EXCEPT ![c] = "sendLen"]
  /\ queue' = queue \cup {c}
  /\ link' = [link EXCEPT ![c] = "up"]
  /\ UNCHANGED <<cliRet, sent, cliFds, srvVars, peer, wire, taken, fin>>

ConnectFails(c) ==
  /\ cliPc[c] = "connect"
  /\ ~Listening \/ "setup" \in faults
  /\ cleanup(c, "fail")

\* The bytes of the send_all call that c is in.
Outgoing(c) ==
  IF cliPc[c] = "sendLen" THEN htobe64[Len(Payload[c])] ELSE Payload[c]

Unread(c) == Len(wire[c]) - (IF c = peer THEN taken ELSE 0)

Sending(c) == cliPc[c] \in {"sendLen", "sendPayload"}

\* The k bytes at p + sent that one send() takes.
\* _NoOffset: p passed for p + sent, so that the first bytes go out again.
Piece_NoOffset(c, k) == SubSeq(Outgoing(c), 1, k)
Piece(c, k) == SubSeq(Outgoing(c), sent[c] + 1, sent[c] + k)

\* The loop condition of send_all after such a send().
\* _Once: `if' for `while', a short send() being taken for a full one.
Completes_Once(c, k) == TRUE
Completes(c, k) == sent[c] + k = Len(Outgoing(c))

\* One send() of the loop in send_all takes k of the bytes left; when none are
\* left, socket_send goes on to the next call.  A closed connection still
\* takes bytes until the other end's RST arrives.
send_all(c, k) ==
  /\ Sending(c) /\ link[c] \in {"up", "halfClosed", "reset"}
  /\ k <= Len(Outgoing(c)) - sent[c]
  /\ k <= SendBuf - Unread(c)
  /\ wire' = [wire EXCEPT ![c] = @ \o Piece(c, k)]
  /\ IF Completes(c, k)
       THEN /\ sent' = [sent EXCEPT ![c] = 0]
            /\ cliPc' = [cliPc EXCEPT
                 ![c] = IF cliPc[c] = "sendLen" THEN "sendPayload" ELSE "sent"]
       ELSE /\ sent' = [sent EXCEPT ![c] = @ + k]
            /\ UNCHANGED cliPc
  /\ UNCHANGED <<cliRet, cliFds, srvVars, queue, peer, link, taken, fin>>

\* send() returns -1: ECONNRESET, or an error of the local kernel.
\* _Retry: ECONNRESET retried as EINTR is.
SendFails_Retry(c) == Sending(c) /\ "send" \in faults /\ cleanup(c, "fail")
SendFails(c) ==
  /\ Sending(c)
  /\ link[c] = "reset" \/ "send" \in faults
  /\ cleanup(c, "fail")

\* send() on a connection that was closed and then reset raises SIGPIPE, which
\* nothing in the program blocks or handles.
SigPipe(c) ==
  /\ Sending(c) /\ link[c] = "broken"
  /\ fin' = fin \cup {c}
  /\ CliKilled(c)

\* The end of socket_send and of do_client once everything is sent.
\* _NoRet: `ret = 0' forgotten.
socket_send_returns_NoRet(c) == cliPc[c] = "sent" /\ cleanup(c, "fail")
socket_send_returns(c) == cliPc[c] = "sent" /\ cleanup(c, "ok")

\* The client process is killed (the kernel sends FIN), or its host disappears
\* and nothing more is heard from it.
ClientCrash(c) ==
  /\ cliPc[c] \notin {"start", "returned", "killed"}
  /\ \/ "crash" \in faults /\ fin' = fin \cup {c}
     \/ "vanish" \in faults /\ fin' = fin
  /\ CliKilled(c) /\ UNCHANGED faults

(***************************************************************************)
(* The server.                                                             *)
(***************************************************************************)
\* What closing the server's sockets does to the connections, n bytes of the
\* accepted one having been read: RST for data nobody will read and for
\* connections nobody accepted, FIN otherwise.
Hangup(n) ==
  [c \in Clients |->
     IF c \in queue \/ (c = peer /\ n < Len(wire[c])) THEN "reset"
     ELSE IF c = peer THEN "halfClosed" ELSE link[c]]

\* The two labels: from cleanup_all on both sockets are closed, from
\* cleanup_lsock on the listening one, csock having no value yet.
\* _Fall: the second label not reached from the first.
cleanup_lsock(fds) == CloseFd(fds, lsock)
cleanup_all_Fall(fds) == CloseFd(fds, csock)
cleanup_all(fds) == cleanup_lsock(CloseFd(fds, csock))

\* socket_receive returns r with the descriptors fds still open.
Leave(r, fds, n) ==
  /\ srvPc' = "returned" /\ srvRet' = r /\ srvFds' = fds
  /\ link' = Hangup(n)
  /\ queue' = {}

\* socket().
socket_receive ==
  /\ srvPc = "start"
  /\ \/ /\ srvPc' = "bind" /\ srvFds' = {lsock}
        /\ UNCHANGED <<srvRet, queue, link>>
     \/ "setup" \in faults /\ Leave("fail", cleanup_lsock(srvFds), taken)
  /\ UNCHANGED <<cliVars, got, netlen, size, buffer, peer, wire, taken, fin>>

\* What is open after bind() or listen() failed.  _Return: `return ret' for the
\* goto, as in the check of the arguments.
AfterBind_Return == srvFds
AfterBind == cleanup_lsock(srvFds)

\* bind and listen, with the socket open; either may fail.
BindListen ==
  /\ srvPc = "bind"
  /\ \/ srvPc' = "accept" /\ UNCHANGED <<srvRet, srvFds, queue, link>>
     \/ "setup" \in faults /\ Leave("fail", AfterBind, taken)
  /\ UNCHANGED <<cliVars, got, netlen, size, buffer, peer, wire, taken, fin>>

\* accept; its failure leaves through cleanup_all with -1 for csock.
Accept ==
  /\ srvPc = "accept"
  /\ \/ \E c \in queue :
          /\ srvPc' = "recvLen" /\ srvFds' = srvFds \cup {csock}
          /\ peer' = c /\ queue' = queue \ {c}
          /\ UNCHANGED <<srvRet, link>>
     \/ "setup" \in faults /\ Leave("fail", cleanup_all(srvFds), taken) /\ UNCHANGED peer
  /\ UNCHANGED <<cliVars, got, netlen, size, buffer, wire, taken, fin>>

Receiving == srvPc \in {"recvLen", "recvPayload"}

\* What one recv() of recv_all puts at p + got when it returns r bytes.
\* _NoOffset: p passed for p + got.
recv_all_NoOffset(p, r) ==
  [i \in DOMAIN p |-> IF i \in 1..r THEN wire[peer][taken + i] ELSE p[i]]
recv_all(p, r) ==
  [i \in DOMAIN p |->
     IF i \in got + 1 .. got + r THEN wire[peer][taken + i - got] ELSE p[i]]

\* The size checks of socket_receive.
SizeAccepted(n) == n \in 1..MaxBuffer

\* recv_all over netlen; the last piece completes the length, which decides
\* whether there is a payload to wait for.
RecvLen(r) ==
  /\ srvPc = "recvLen"
  /\ r <= LenBytes - got /\ r <= Unread(peer)
  /\ netlen' = recv_all(netlen, r)
  /\ taken' = taken + r
  /\ IF got + r < LenBytes
       THEN got' = got + r /\ UNCHANGED <<srvPc, srvRet, size, srvFds, queue, link>>
       ELSE /\ got' = 0 /\ size' = be64toh[netlen']
            /\ IF SizeAccepted(size')
                 THEN srvPc' = "recvPayload" /\ UNCHANGED <<srvRet, srvFds, queue, link>>
                 ELSE Leave("fail", cleanup_all(srvFds), taken + r)
  /\ UNCHANGED <<cliVars, buffer, peer, wire, fin>>

RecvPayload(r) ==
  /\ srvPc = "recvPayload"
  /\ r <= size - got /\ r <= Unread(peer)
  /\ buffer' = recv_all(buffer, r)
  /\ taken' = taken + r
  /\ got' = got + r
  /\ IF got + r < size
       THEN UNCHANGED <<srvPc, srvRet, srvFds, queue, link>>
       ELSE Leave("ok", cleanup_all(srvFds), taken + r)
  /\ UNCHANGED <<cliVars, netlen, size, peer, wire, fin>>

\* recv() returns 0 at the end of the stream, or -1.
\* _IgnoreEof: 0 taken for an empty piece.
EndOfStream_IgnoreEof == FALSE
EndOfStream == peer \in fin /\ Unread(peer) = 0

RecvFails ==
  /\ Receiving
  /\ EndOfStream \/ "recv" \in faults
  /\ Leave("fail", cleanup_all(srvFds), taken)
  /\ UNCHANGED <<cliVars, got, netlen, size, buffer, peer, wire, taken, fin>>

ServerCrash ==
  /\ "server" \in faults /\ srvPc \notin {"start", "returned", "killed"}
  /\ srvPc' = "killed" /\ srvRet' = "killed" /\ srvFds' = {}
  /\ link' = Hangup(taken) /\ queue' = {}
  /\ UNCHANGED <<cliVars, got, netlen, size, buffer, peer, wire, taken, fin, faults>>

\* The kernel of the server's host answers data for a closed connection.
RstArrives(c) ==
  /\ link[c] = "halfClosed" /\ Unread(c) > 0
  /\ link' = [link EXCEPT ![c] = "broken"]
  /\ UNCHANGED <<cliVars, srvVars, queue, peer, wire, taken, fin, faults>>

(***************************************************************************)
(* The specification.                                                      *)
(***************************************************************************)
Client(c) ==
  /\ UNCHANGED faults
  /\ \/ do_client(c) \/ inet_pton(c) \/ Connect(c) \/ ConnectFails(c)
     \/ \E k \in 1..SendBuf : send_all(c, k)
     \/ SendFails(c) \/ SigPipe(c) \/ socket_send_returns(c)

Server ==
  /\ UNCHANGED faults
  /\ \/ socket_receive \/ BindListen \/ Accept \/ RecvFails
     \/ \E r \in 1..SendBuf : RecvLen(r) \/ RecvPayload(r)

Next ==
  \/ \E c \in Clients : Client(c) \/ RstArrives(c) \/ ClientCrash(c)
  \/ Server \/ ServerCrash

Spec == Init /\ [][Next]_vars

\* Both processes are scheduled, and the network delivers.
Fairness ==
  /\ WF_vars(Server)
  /\ \A c \in Clients : WF_vars(Client(c)) /\ WF_vars(RstArrives(c))

FairSpec == Spec /\ Fairness

(***************************************************************************)
(* Properties.                                                             *)
(***************************************************************************)
Ended == {"returned", "killed"}
Outcomes == {"none", "ok", "fail", "killed"}

\* Type invariant.  The descriptors and counters stay in the ranges of their
\* C variables and every write of recv_all lands inside netlen or buffer.
TypeOK ==
  /\ cliPc \in [Clients -> {"start", "address", "connect", "sendLen", "sendPayload", "sent"} \cup Ended]
  /\ cliRet \in [Clients -> Outcomes]
  /\ sent \in [Clients -> Nat]
  /\ cliFds \in [Clients -> SUBSET {sock}]
  /\ srvPc \in {"start", "bind", "accept", "recvLen", "recvPayload"} \cup Ended
  /\ srvRet \in Outcomes
  /\ got \in 0..LenBytes \cup 0..MaxBuffer
  /\ size \in Nat /\ taken \in Nat
  /\ netlen \in LenField
  /\ buffer \in [1..MaxBuffer -> Byte]
  /\ srvFds \in SUBSET {lsock, csock}
  /\ queue \in SUBSET Clients /\ fin \in SUBSET Clients
  /\ peer \in Clients \cup {NoClient}
  /\ link \in [Clients -> {"none", "up", "halfClosed", "reset", "broken"}]
  /\ wire \in [Clients -> Seq(Byte)]

\* When do_server returns 0, the caller's buffer holds the payload of the one
\* accepted client and the zeros of memset after it, however the bytes were cut
\* into pieces and whatever other clients sent.
PayloadIntact ==
  srvRet = "ok" =>
    /\ size = Len(Payload[peer])
    /\ \A i \in 1..MaxBuffer :
         buffer[i] = IF i <= size THEN Payload[peer][i] ELSE Zero

\* do_client's -1 is reliable: a client that reports failure, or that ended
\* before its last byte was handed over, is never the one that do_server
\* reports success for.
ReportsAgree ==
  srvRet = "ok" =>
    /\ cliRet[peer] # "fail"
    /\ Len(wire[peer]) = LenBytes + Len(Payload[peer])

Total(c) == LenBytes + Len(Payload[c])

\* Byte i of the frame that socket_send builds: the length, then the payload.
FrameByte(c, i) ==
  IF i <= LenBytes THEN htobe64[Len(Payload[c])][i] ELSE Payload[c][i - LenBytes]

\* What a client has handed over is the beginning of its frame, as far as its
\* program counter and its loop variable say; a client that reported failure
\* handed over less than the frame, one that reported success all of it.
Handed(c) ==
  /\ Len(wire[c]) <= Total(c)
  /\ \A i \in 1..Len(wire[c]) : wire[c][i] = FrameByte(c, i)
  /\ cliPc[c] \notin {"start"} \cup Ended => Payload[c] # <<>>
  /\ cliPc[c] \in {"start", "address", "connect"} => wire[c] = <<>> /\ sent[c] = 0
  /\ cliPc[c] = "sendLen" => sent[c] < LenBytes /\ Len(wire[c]) = sent[c]
  /\ cliPc[c] = "sendPayload" =>
       sent[c] < Len(Payload[c]) /\ Len(wire[c]) = LenBytes + sent[c]
  /\ cliPc[c] = "sent" \/ cliRet[c] = "ok" => Len(wire[c]) = Total(c)
  /\ cliRet[c] = "fail" => Len(wire[c]) < Total(c)
  /\ cliRet[c] = "none" <=> cliPc[c] \notin Ended

\* What the server has stored is the beginning of its one client's frame, split
\* at the right byte into netlen and buffer, which is untouched behind it.
Stored(n) ==
  \A i \in 1..MaxBuffer : buffer[i] = IF i <= n THEN Payload[peer][i] ELSE Zero

ReceiverInv ==
  /\ srvPc \in {"start", "bind", "accept"} => taken = 0 /\ got = 0 /\ peer = NoClient
  /\ srvPc \in {"start", "bind", "accept", "recvLen"} => buffer = [i \in 1..MaxBuffer |-> Zero]
  /\ Receiving => peer \in Clients /\ taken <= Len(wire[peer])
  /\ srvPc = "recvLen" =>
       /\ got < LenBytes /\ taken = got
       /\ \A i \in 1..got : netlen[i] = wire[peer][i]
  /\ srvPc = "recvPayload" =>
       /\ size = Len(Payload[peer]) /\ got < size /\ size <= MaxBuffer
       /\ taken = LenBytes + got
       /\ Stored(got)
  /\ srvRet = "ok" =>
       /\ peer \in Clients /\ Len(wire[peer]) = Total(peer)
       /\ size = Len(Payload[peer]) /\ size <= MaxBuffer
       /\ Stored(size)
  /\ srvRet = "none" <=> srvPc \notin Ended

\* The inductive invariant: the two ends agree on every byte in between.
FrameInv == (\A c \in Clients : Handed(c)) /\ ReceiverInv

\* recv_all never writes past the end of the caller's MAX_BUFFER bytes.
WritesInBounds == srvPc = "recvPayload" => size <= MaxBuffer /\ got < size

\* Every path out of socket_send and socket_receive closes what it opened, also one
\* that leaves between socket() and the connection: inet_pton, connect, bind, listen or
\* accept having failed.
DescriptorsClosed ==
  /\ srvPc = "returned" => srvFds = {}
  /\ \A c \in Clients : cliPc[c] = "returned" => cliFds[c] = {}

\* A host of which nothing more is heard: no time limit ends the wait for it.
Vanished(c) == cliPc[c] = "killed" /\ c \notin fin

\* Once a client is accepted the server reaches an answer, and every client that
\* started reaches one too: no end waits for the other for ever, as long as its host is
\* there.
ServerAnswers ==
  (peer # NoClient) ~> (srvPc \in Ended \/ \E d \in Clients : Vanished(d))
ClientsEnd ==
  \A c \in Clients :
    (cliPc[c] = "connect") ~> (cliPc[c] \in Ended \/ \E d \in Clients : Vanished(d))

\* Without faults, an accepted payload that fits the buffer is delivered and both
\* ends report 0.
EndToEnd ==
  \A c \in Clients :
    (faults = {} /\ peer = c /\ Len(Payload[c]) <= MaxBuffer) ~> (srvRet = "ok" /\ cliRet[c] = "ok")

\* The comment on socket_send: "return 0 on success, -1 on failure".
SocketSendReturns == \A c \in Clients : cliRet[c] # "killed"

\* The abstract specification, and what its variables are here.
Submitted == {c \in Clients : Len(wire[c]) = Total(c)}
From == IF srvRet = "ok" THEN peer ELSE NoClient
Received == IF srvRet = "ok" THEN SubSeq(buffer, 1, size) ELSE <<>>

Promise == INSTANCE Delivery WITH
  submitted <- Submitted, report <- cliRet, result <- srvRet,
  from <- From, received <- Received

\* The detailed protocol implements Delivery.
ImplementsDelivery == Promise!DSpec
=================================================================================
