-------------------------- MODULE FrameTransferProofs --------------------------
(***************************************************************************)
(* Proofs about FrameTransfer for any number of clients, any payloads, any *)
(* buffer sizes and any faults.                                            *)
(***************************************************************************)
EXTENDS FrameTransfer, SequenceTheorems, TLAPS

(***************************************************************************)
(* Types.  TypeOK is not inductive alone: that a payload read stays inside *)
(* the buffer needs the size that was checked before it, and what a read   *)
(* delivers are bytes only because there is a peer to read from.           *)
(***************************************************************************)
TypeInv ==
  /\ TypeOK
  /\ WritesInBounds
  /\ Receiving => peer \in Clients

\* The argument of the current send_all is a sequence of bytes.
LEMMA OutgoingType ==
  ASSUME NEW c \in Clients
  PROVE  Outgoing(c) \in Seq(Byte) /\ Payload[c] \in Seq(Byte) /\ Len(Payload[c]) \in Nat
<1>1. Payload[c] \in Seq(Byte) /\ Len(Payload[c]) \in Nat
  BY PayloadAssumption, LenProperties
<1>2. htobe64[Len(Payload[c])] \in Seq(Byte)
  BY EndianAssumption, BoundsAssumption, SeqDef DEF Sizes, LenField
<1>. QED
  BY <1>1, <1>2 DEF Outgoing

\* A piece of a sequence: its length and its elements.
LEMMA PieceOfSeq ==
  ASSUME NEW S, NEW s \in Seq(S), NEW n \in Nat, NEW k \in Nat \ {0},
         n + k <= Len(s)
  PROVE  /\ SubSeq(s, n + 1, n + k) \in Seq(S)
         /\ Len(SubSeq(s, n + 1, n + k)) = k
         /\ \A i \in 1..k : SubSeq(s, n + 1, n + k)[i] = s[n + i]
<1>1. SubSeq(s, n + 1, n + k) \in Seq(S)
  OBVIOUS
<1>2. Len(SubSeq(s, n + 1, n + k)) = k
  OBVIOUS
<1>3. ASSUME NEW i \in 1..k
      PROVE  SubSeq(s, n + 1, n + k)[i] = s[n + i]
  OBVIOUS
<1>. QED
  BY <1>1, <1>2, <1>3

\* Two sequences, one behind the other.
LEMMA BehindEachOther ==
  ASSUME NEW S, NEW s \in Seq(S), NEW t \in Seq(S)
  PROVE  /\ Len(s \o t) = Len(s) + Len(t)
         /\ \A i \in 1..Len(s) : (s \o t)[i] = s[i]
         /\ \A i \in 1..Len(t) : (s \o t)[Len(s) + i] = t[i]
OBVIOUS

\* What one send() appends to the stream are bytes.
LEMMA PieceType ==
  ASSUME TypeOK, NEW c \in Clients, NEW k \in 1..SendBuf,
         k <= Len(Outgoing(c)) - sent[c]
  PROVE  /\ Piece(c, k) \in Seq(Byte)
         /\ wire[c] \o Piece(c, k) \in Seq(Byte)
         /\ Len(Piece(c, k)) = k
         /\ \A i \in 1..k : Piece(c, k)[i] = Outgoing(c)[sent[c] + i]
<1>1. sent[c] \in Nat /\ wire[c] \in Seq(Byte) /\ k \in Nat \ {0}
  BY BoundsAssumption DEF TypeOK
<1>2. Outgoing(c) \in Seq(Byte) /\ Len(Outgoing(c)) \in Nat
  BY OutgoingType, LenProperties
<1>3. sent[c] + k <= Len(Outgoing(c))
  BY <1>1, <1>2
<1>4. /\ Piece(c, k) \in Seq(Byte)
      /\ Len(Piece(c, k)) = k
      /\ \A i \in 1..k : Piece(c, k)[i] = Outgoing(c)[sent[c] + i]
  <2>. DEFINE s == Outgoing(c)
              n == sent[c]
  <2>1. s \in Seq(Byte) /\ n \in Nat /\ n + k <= Len(s)
    BY <1>1, <1>2, <1>3
  <2>. HIDE DEF s, n
  <2>2. /\ SubSeq(s, n + 1, n + k) \in Seq(Byte)
        /\ Len(SubSeq(s, n + 1, n + k)) = k
        /\ \A i \in 1..k : SubSeq(s, n + 1, n + k)[i] = s[n + i]
    BY <1>1, <2>1, PieceOfSeq
  <2>. QED
    BY <2>2 DEF Piece, s, n
<1>. QED
  BY <1>1, <1>4, ConcatProperties

\* What one recv() stores are bytes.
LEMMA RecvType ==
  ASSUME TypeInv, Receiving, NEW n \in Nat, NEW p \in [1..n -> Byte],
         NEW r \in 1..SendBuf, r <= Unread(peer)
  PROVE  /\ recv_all(p, r) \in [1..n -> Byte]
         /\ \A i \in 1..n : recv_all(p, r)[i] =
              IF i \in got + 1 .. got + r THEN wire[peer][taken + i - got] ELSE p[i]
         /\ taken + r \in Nat
         /\ taken + r <= Len(wire[peer])
<1>1. /\ peer \in Clients /\ wire[peer] \in Seq(Byte) /\ Len(wire[peer]) \in Nat
      /\ got \in Nat /\ taken \in Nat /\ r \in Nat
  BY BoundsAssumption, LenProperties DEF TypeInv, TypeOK
<1>2. taken + r <= Len(wire[peer])
  BY <1>1 DEF Unread
<1>3. \A i \in got + 1 .. got + r : wire[peer][taken + i - got] \in Byte
  <2>. TAKE i \in got + 1 .. got + r
  <2>1. taken + i - got \in 1..Len(wire[peer])
    BY <1>1, <1>2
  <2>. QED
    BY <1>1, <2>1, ElementOfSeq
<1>. QED
  BY <1>1, <1>2, <1>3 DEF recv_all

\* Closing the server's sockets keeps the types.
LEMMA CleanupType ==
  ASSUME TypeOK, NEW r \in Outcomes, NEW n,
         NEW fds \in {srvFds, cleanup_lsock(srvFds), cleanup_all(srvFds)},
         Leave(r, fds, n)
  PROVE  /\ srvPc' = "returned" /\ srvRet' \in Outcomes
         /\ srvFds' \in SUBSET {lsock, csock}
         /\ link' \in [Clients -> {"none", "up", "halfClosed", "reset", "broken"}]
         /\ queue' \in SUBSET Clients
BY DEF TypeOK, Leave, cleanup_all, cleanup_lsock, CloseFd, Hangup

\* So does leaving socket_send.
LEMMA CliCleanupType ==
  ASSUME TypeInv, NEW c \in Clients, NEW r \in Outcomes, cleanup(c, r)
  PROVE  TypeInv'
<1>1. cliFds' \in [Clients -> SUBSET {sock}]
  BY DEF TypeInv, TypeOK, cleanup, CloseFd
<1>2. /\ cliPc' \in [Clients -> {"start", "address", "connect", "sendLen", "sendPayload", "sent"} \cup Ended]
      /\ cliRet' \in [Clients -> Outcomes]
      /\ fin' \in SUBSET Clients
  BY DEF TypeInv, TypeOK, cleanup, Ended
<1>3. /\ UNCHANGED <<sent, srvPc, srvRet, got, netlen, size, buffer, srvFds>>
      /\ UNCHANGED <<queue, peer, link, wire, taken>>
  BY DEF cleanup, srvVars
<1>. QED
  BY <1>1, <1>2, <1>3 DEF TypeInv, TypeOK, WritesInBounds, Receiving

LEMMA TypeStep == TypeInv /\ [Next]_vars => TypeInv'
<1>. SUFFICES ASSUME TypeInv, [Next]_vars
              PROVE  TypeInv'
  OBVIOUS
<1>. USE DEF cliVars, srvVars, netVars, Ended, Outcomes
<1>t. TypeOK
  BY DEF TypeInv
<1>1. ASSUME NEW c \in Clients, do_client(c)
      PROVE  TypeInv'
  <2>1. CASE cleanup(c, "fail")
    BY <2>1, CliCleanupType
  <2>2. CASE ~cleanup(c, "fail")
    <3>1. cliFds' = [cliFds EXCEPT ![c] = {sock}]
      BY <1>1, <2>2 DEF do_client
    <3>2. cliFds' \in [Clients -> SUBSET {sock}]
      BY <1>t, <3>1 DEF TypeOK
    <3>. QED
      BY <1>1, <2>2, <3>2 DEF do_client, TypeInv, TypeOK, WritesInBounds, Receiving
  <2>. QED
    BY <2>1, <2>2
<1>1a. ASSUME NEW c \in Clients, inet_pton(c)
       PROVE  TypeInv'
  <2>1. CASE cleanup(c, "fail")
    BY <2>1, CliCleanupType
  <2>2. CASE ~cleanup(c, "fail")
    BY <1>1a, <2>2 DEF inet_pton, TypeInv, TypeOK, WritesInBounds, Receiving
  <2>. QED
    BY <2>1, <2>2
<1>2. ASSUME NEW c \in Clients, Connect(c)
      PROVE  TypeInv'
  BY <1>2 DEF Connect, TypeInv, TypeOK, WritesInBounds, Receiving
<1>3. ASSUME NEW c \in Clients,
             ConnectFails(c) \/ SendFails(c) \/ socket_send_returns(c)
      PROVE  TypeInv'
  BY <1>3, CliCleanupType DEF ConnectFails, SendFails, socket_send_returns
<1>4. ASSUME NEW c \in Clients, NEW k \in 1..SendBuf, send_all(c, k)
      PROVE  TypeInv'
  <2>1. k <= Len(Outgoing(c)) - sent[c] /\ k \in Nat
    BY <1>4, BoundsAssumption DEF send_all
  <2>2. wire[c] \o Piece(c, k) \in Seq(Byte)
    BY <1>t, <2>1, PieceType
  <2>3. wire' = [wire EXCEPT ![c] = wire[c] \o Piece(c, k)]
    BY <1>4 DEF send_all
  <2>4. wire' \in [Clients -> Seq(Byte)]
    BY <1>t, <2>2, <2>3 DEF TypeOK
  <2>5. /\ sent' \in [Clients -> Nat]
        /\ cliPc' \in [Clients -> {"start", "address", "connect", "sendLen", "sendPayload", "sent"} \cup Ended]
    <3>1. CASE Completes(c, k)
      <4>1. /\ sent' = [sent EXCEPT ![c] = 0]
            /\ \E q \in {"sendPayload", "sent"} : cliPc' = [cliPc EXCEPT ![c] = q]
        BY <1>4, <3>1 DEF send_all
      <4>. QED
        BY <1>t, <4>1 DEF TypeOK
    <3>2. CASE ~Completes(c, k)
      BY <1>4, <1>t, <2>1, <3>2 DEF send_all, TypeOK
    <3>. QED
      BY <3>1, <3>2
  <2>6. /\ UNCHANGED <<cliRet, cliFds, srvPc, srvRet, got, netlen, size, buffer, srvFds>>
        /\ UNCHANGED <<queue, peer, link, taken, fin>>
    BY <1>4 DEF send_all
  <2>. QED
    BY <2>4, <2>5, <2>6 DEF TypeInv, TypeOK, WritesInBounds, Receiving
<1>5. ASSUME NEW c \in Clients, SigPipe(c) \/ ClientCrash(c)
      PROVE  TypeInv'
  BY <1>5 DEF SigPipe, ClientCrash, CliKilled, TypeInv, TypeOK, WritesInBounds, Receiving
<1>6. CASE socket_receive
  BY <1>6, <1>t, CleanupType DEF socket_receive, TypeInv, TypeOK, WritesInBounds, Receiving
<1>6a. CASE BindListen
  BY <1>6a, <1>t, CleanupType
     DEF BindListen, AfterBind, TypeInv, TypeOK, WritesInBounds, Receiving
<1>7. CASE Accept
  BY <1>7, <1>t, CleanupType DEF Accept, TypeInv, TypeOK, WritesInBounds, Receiving
<1>8. ASSUME NEW r \in 1..SendBuf, RecvLen(r)
      PROVE  TypeInv'
  <2>1. Receiving /\ srvPc = "recvLen" /\ r <= Unread(peer) /\ r \in Nat \ {0}
    BY <1>8, BoundsAssumption DEF RecvLen, Receiving
  <2>2. netlen \in [1..LenBytes -> Byte] /\ LenBytes \in Nat
    BY <1>t, BoundsAssumption DEF TypeOK, LenField
  <2>3. netlen' \in LenField /\ taken' \in Nat
    BY <1>8, <2>1, <2>2, RecvType DEF RecvLen, LenField
  <2>4. be64toh[netlen'] \in Nat
    BY <2>3, EndianAssumption
  <2>5. CASE got + r < LenBytes
    BY <1>8, <2>1, <2>2, <2>3, <2>5
       DEF RecvLen, TypeInv, TypeOK, WritesInBounds, Receiving
  <2>6. CASE ~(got + r < LenBytes) /\ SizeAccepted(size')
    BY <1>8, <2>1, <2>2, <2>3, <2>4, <2>6
       DEF RecvLen, SizeAccepted, TypeInv, TypeOK, WritesInBounds, Receiving
  <2>7. CASE ~(got + r < LenBytes) /\ ~SizeAccepted(size')
    BY <1>8, <1>t, <2>1, <2>2, <2>3, <2>4, <2>7, CleanupType
       DEF RecvLen, TypeInv, TypeOK, WritesInBounds, Receiving
  <2>. QED
    BY <2>5, <2>6, <2>7
<1>9. ASSUME NEW r \in 1..SendBuf, RecvPayload(r)
      PROVE  TypeInv'
  <2>1. /\ Receiving /\ srvPc = "recvPayload" /\ r <= Unread(peer) /\ r \in Nat \ {0}
        /\ got + r <= size /\ size <= MaxBuffer /\ got + r \in Nat
    BY <1>9, BoundsAssumption DEF RecvPayload, Receiving, TypeInv, TypeOK, WritesInBounds
  <2>2. buffer \in [1..MaxBuffer -> Byte] /\ MaxBuffer \in Nat
    BY <1>t, BoundsAssumption DEF TypeOK
  <2>3. buffer' \in [1..MaxBuffer -> Byte] /\ taken' \in Nat
    BY <1>9, <2>1, <2>2, RecvType DEF RecvPayload
  <2>4. got' \in 0..MaxBuffer
    <3>1. got' = got + r /\ size \in Nat
      BY <1>9, <1>t DEF RecvPayload, TypeOK
    <3>. QED
      BY <2>1, <2>2, <3>1
  <2>5. CASE got + r < size
    BY <1>9, <2>1, <2>3, <2>4, <2>5
       DEF RecvPayload, TypeInv, TypeOK, WritesInBounds, Receiving
  <2>6. CASE ~(got + r < size)
    BY <1>9, <1>t, <2>1, <2>3, <2>4, <2>6, CleanupType
       DEF RecvPayload, TypeInv, TypeOK, WritesInBounds, Receiving
  <2>. QED
    BY <2>5, <2>6
<1>10. CASE RecvFails
  BY <1>10, <1>t, CleanupType DEF RecvFails, TypeInv, TypeOK, WritesInBounds, Receiving
<1>11. CASE ServerCrash
  BY <1>11 DEF ServerCrash, Hangup, TypeInv, TypeOK, WritesInBounds, Receiving
<1>12. ASSUME NEW c \in Clients, RstArrives(c)
       PROVE  TypeInv'
  BY <1>12 DEF RstArrives, TypeInv, TypeOK, WritesInBounds, Receiving
<1>13. CASE UNCHANGED vars
  BY <1>13 DEF vars, TypeInv, TypeOK, WritesInBounds, Receiving
<1>. QED
  BY <1>1, <1>1a, <1>2, <1>3, <1>4, <1>5, <1>6, <1>6a, <1>7, <1>8, <1>9, <1>10, <1>11,
     <1>12, <1>13
     DEF Next, Client, Server

\* The counters and descriptors keep their types, and no read of socket_receive
\* writes outside netlen or the caller's MAX_BUFFER bytes.
THEOREM TypeCorrect == Spec => [](TypeOK /\ WritesInBounds)
<1>1. Init => TypeInv
  BY BoundsAssumption, ByteAssumption
     DEF Init, TypeInv, TypeOK, WritesInBounds, Receiving, Ended, Outcomes, LenField
<1>2. TypeInv => TypeOK /\ WritesInBounds
  BY DEF TypeInv
<1>. QED
  BY <1>1, <1>2, TypeStep, PTL DEF Spec

(***************************************************************************)
(* The stream.  Handed(c) and ReceiverInv tie both ends to the bytes in    *)
(* between; a step of one client disturbs Handed of that client only.      *)
(***************************************************************************)
\* What one client does leaves the others' part of the invariant alone.
LEMMA OtherClients ==
  ASSUME TypeOK, \A d \in Clients : Handed(d),
         NEW c \in Clients,
         \A d \in Clients \ {c} :
           /\ wire'[d] = wire[d] /\ sent'[d] = sent[d]
           /\ cliPc'[d] = cliPc[d] /\ cliRet'[d] = cliRet[d],
         Handed(c)'
  PROVE  \A d \in Clients : Handed(d)'
<1>. SUFFICES ASSUME NEW d \in Clients \ {c} PROVE Handed(d)'
  OBVIOUS
<1>. QED
  BY DEF Handed, Total, FrameByte

\* Leaving socket_send before or after the last byte.
LEMMA CliCleanupHanded ==
  ASSUME TypeOK, \A d \in Clients : Handed(d),
         NEW c \in Clients, NEW r, cleanup(c, r),
         \/ r = "ok" /\ cliPc[c] = "sent"
         \/ r = "fail" /\ cliPc[c] \in {"start", "address", "connect", "sendLen", "sendPayload"}
  PROVE  \A d \in Clients : Handed(d)'
<1>1. /\ cliPc'[c] = "returned" /\ cliRet'[c] = r
      /\ wire' = wire /\ sent' = sent
      /\ \A d \in Clients \ {c} : cliPc'[d] = cliPc[d] /\ cliRet'[d] = cliRet[d]
  BY DEF cleanup, TypeOK
<1>2. r = "ok" => Len(wire[c]) = Total(c)
  BY DEF Handed
<1>3. r = "fail" => Len(wire[c]) < Total(c)
  BY OutgoingType, BoundsAssumption DEF Handed, Total, TypeOK
<1>4. Handed(c)'
  BY <1>1, <1>2, <1>3 DEF Handed, Total, FrameByte, Ended
<1>. QED
  BY <1>1, <1>4, OtherClients

\* So does being killed, at any point.
LEMMA CliKilledHanded ==
  ASSUME TypeOK, \A d \in Clients : Handed(d),
         NEW c \in Clients, CliKilled(c)
  PROVE  \A d \in Clients : Handed(d)'
<1>1. /\ cliPc'[c] = "killed" /\ cliRet'[c] = "killed"
      /\ wire' = wire /\ sent' = sent
      /\ \A d \in Clients \ {c} : cliPc'[d] = cliPc[d] /\ cliRet'[d] = cliRet[d]
  BY DEF CliKilled, TypeOK
<1>2. Handed(c)'
  BY <1>1 DEF Handed, Total, FrameByte, Ended
<1>. QED
  BY <1>1, <1>2, OtherClients

\* The stream grows by the next bytes of the frame.
LEMMA SendHanded ==
  ASSUME TypeOK, \A d \in Clients : Handed(d),
         NEW c \in Clients, NEW k \in 1..SendBuf, send_all(c, k)
  PROVE  /\ \A d \in Clients : Handed(d)'
         /\ Len(wire'[c]) = Len(wire[c]) + k
         /\ \A i \in 1..Len(wire[c]) : wire'[c][i] = wire[c][i]
         /\ \A d \in Clients \ {c} : wire'[d] = wire[d]
<1>1. /\ k \in Nat \ {0} /\ LenBytes \in Nat /\ sent[c] \in Nat
      /\ wire[c] \in Seq(Byte) /\ Len(wire[c]) \in Nat
      /\ Len(Payload[c]) \in Nat
  BY BoundsAssumption, OutgoingType DEF TypeOK
<1>n. LenBytes \in Nat /\ k \in Nat /\ sent[c] \in Nat /\ Len(Payload[c]) \in Nat
  BY <1>1
<1>2. Len(Outgoing(c)) \in Nat /\ k <= Len(Outgoing(c)) - sent[c]
  BY OutgoingType DEF send_all
<1>3. /\ Piece(c, k) \in Seq(Byte) /\ Len(Piece(c, k)) = k
      /\ \A i \in 1..k : Piece(c, k)[i] = Outgoing(c)[sent[c] + i]
  BY <1>2, PieceType
<1>4. wire'[c] = wire[c] \o Piece(c, k) /\ \A d \in Clients \ {c} : wire'[d] = wire[d]
  BY DEF send_all, TypeOK
<1>5. /\ Len(wire'[c]) = Len(wire[c]) + k
      /\ \A i \in 1..Len(wire[c]) : wire'[c][i] = wire[c][i]
      /\ \A i \in 1..k : wire'[c][Len(wire[c]) + i] = Outgoing(c)[sent[c] + i]
  <2>. DEFINE s == wire[c]
              t == Piece(c, k)
  <2>1. s \in Seq(Byte) /\ t \in Seq(Byte) /\ Len(t) = k
    BY <1>1, <1>3
  <2>. HIDE DEF s, t
  <2>s. s \in Seq(Byte) /\ t \in Seq(Byte)
    BY <2>1
  <2>b. /\ Len(s \o t) = Len(s) + Len(t)
        /\ \A i \in 1..Len(s) : (s \o t)[i] = s[i]
        /\ \A i \in 1..Len(t) : (s \o t)[Len(s) + i] = t[i]
    BY <2>s, BehindEachOther
  <2>2. /\ Len(s \o t) = Len(s) + k
        /\ \A i \in 1..Len(s) : (s \o t)[i] = s[i]
        /\ \A i \in 1..k : (s \o t)[Len(s) + i] = t[i]
    BY <2>1, <2>b
  <2>. QED
    BY <1>3, <1>4, <2>2 DEF s, t
<1>6. /\ cliRet' = cliRet /\ cliRet[c] = "none"
      /\ \A d \in Clients \ {c} : cliPc'[d] = cliPc[d] /\ sent'[d] = sent[d]
  BY DEF send_all, Sending, Handed, Ended, TypeOK
<1>a. ASSUME \A j \in 1..k : Outgoing(c)[sent[c] + j] = FrameByte(c, Len(wire[c]) + j)
      PROVE  \A i \in 1..Len(wire'[c]) : wire'[c][i] = FrameByte(c, i)
  <2>1. \A i \in 1..Len(wire[c]) : wire[c][i] = FrameByte(c, i)
    BY DEF Handed
  <2>2. \A i \in 1..Len(wire[c]) : wire'[c][i] = FrameByte(c, i)
    BY <1>5, <2>1
  <2>3. \A j \in 1..k : wire'[c][Len(wire[c]) + j] = FrameByte(c, Len(wire[c]) + j)
    BY <1>5, <1>a
  <2>. SUFFICES ASSUME NEW i \in 1..Len(wire'[c]), i \notin 1..Len(wire[c])
                PROVE  wire'[c][i] = FrameByte(c, i)
    BY <2>2
  <2>. DEFINE n == Len(wire[c])
  <2>4. n \in Nat /\ i \in 1..n + k /\ i \notin 1..n
    BY <1>1, <1>5
  <2>5. PICK j \in 1..k : i = n + j
    <3>. HIDE DEF n
    <3>1. i - n \in 1..k /\ i = n + (i - n)
      BY <1>1, <2>4
    <3>. QED
      BY <3>1
  <2>. QED
    BY <2>3, <2>5
<1>7. CASE cliPc[c] = "sendLen"
  <2>1. /\ Outgoing(c) = htobe64[Len(Payload[c])] /\ Len(Outgoing(c)) = LenBytes
        /\ Len(wire[c]) = sent[c]
    <3>1. htobe64[Len(Payload[c])] \in LenField
      BY EndianAssumption DEF Sizes
    <3>. QED
      BY <1>7, <3>1, <1>1 DEF Outgoing, Handed, LenField
  <2>2. \A i \in 1..Len(wire'[c]) : wire'[c][i] = FrameByte(c, i)
    <3>. SUFFICES ASSUME NEW j \in 1..k
                  PROVE  Outgoing(c)[sent[c] + j] = FrameByte(c, Len(wire[c]) + j)
      BY <1>a
    <3>1. sent[c] + j <= LenBytes
      BY <1>1, <1>2, <2>1
    <3>. QED
      BY <2>1, <3>1 DEF FrameByte
  <2>3. /\ Payload[c] # <<>> /\ Len(Payload[c]) > 0
    BY <1>7, OutgoingType DEF Handed, Ended
  <2>4. CASE Completes(c, k)
    <3>1. cliPc'[c] = "sendPayload" /\ sent'[c] = 0
      BY <1>7, <2>4 DEF send_all, TypeOK
    <3>2. Len(wire'[c]) = LenBytes
      BY <1>1, <1>5, <2>1, <2>4 DEF Completes
    <3>3. Handed(c)'
      BY <1>1, <1>6, <2>2, <2>3, <3>1, <3>2 DEF Handed, Total, FrameByte, Ended
    <3>. QED
      BY <1>4, <1>5, <1>6, <3>3, OtherClients
  <2>5. CASE ~Completes(c, k)
    <3>1. cliPc'[c] = "sendLen" /\ sent'[c] = sent[c] + k
      BY <1>7, <2>5 DEF send_all, TypeOK
    <3>2. Len(wire'[c]) = sent[c] + k /\ sent[c] + k < LenBytes
      BY <1>1, <1>2, <1>5, <2>1, <2>5 DEF Completes
    <3>3. Handed(c)'
      BY <1>1, <1>6, <2>2, <2>3, <3>1, <3>2 DEF Handed, Total, FrameByte, Ended
    <3>. QED
      BY <1>4, <1>5, <1>6, <3>3, OtherClients
  <2>. QED
    BY <2>4, <2>5
<1>8. CASE cliPc[c] = "sendPayload"
  <2>1. Outgoing(c) = Payload[c] /\ Len(wire[c]) = LenBytes + sent[c]
    BY <1>8 DEF Outgoing, Handed
  <2>2. \A i \in 1..Len(wire'[c]) : wire'[c][i] = FrameByte(c, i)
    <3>. SUFFICES ASSUME NEW j \in 1..k
                  PROVE  Outgoing(c)[sent[c] + j] = FrameByte(c, Len(wire[c]) + j)
      BY <1>a
    <3>1. /\ ~(Len(wire[c]) + j <= LenBytes)
          /\ Len(wire[c]) + j - LenBytes = sent[c] + j
      <4>1. LenBytes \in Nat /\ sent[c] \in Nat /\ j \in Nat \ {0}
        BY <1>n
      <4>. QED
        BY <2>1, <4>1
    <3>2. FrameByte(c, Len(wire[c]) + j) = Payload[c][Len(wire[c]) + j - LenBytes]
      BY <1>1, <3>1 DEF FrameByte
    <3>. QED
      BY <2>1, <3>1, <3>2
  <2>3. Payload[c] # <<>>
    BY <1>8 DEF Handed, Ended
  <2>4. CASE Completes(c, k)
    <3>1. cliPc'[c] = "sent" /\ sent'[c] = 0
      BY <1>8, <2>4 DEF send_all, TypeOK
    <3>2. Len(wire'[c]) = Total(c)
      <4>1. sent[c] + k = Len(Payload[c])
        BY <2>1, <2>4 DEF Completes
      <4>2. Len(wire'[c]) = LenBytes + sent[c] + k
        BY <1>5, <2>1
      <4>3. LenBytes + sent[c] + k = LenBytes + Len(Payload[c])
        BY <1>n, <4>1
      <4>. QED
        BY <4>2, <4>3 DEF Total
    <3>3. Handed(c)'
      BY <1>1, <1>6, <2>2, <2>3, <3>1, <3>2 DEF Handed, Total, FrameByte, Ended
    <3>. QED
      BY <1>4, <1>5, <1>6, <3>3, OtherClients
  <2>5. CASE ~Completes(c, k)
    <3>1. cliPc'[c] = "sendPayload" /\ sent'[c] = sent[c] + k
      BY <1>8, <2>5 DEF send_all, TypeOK
    <3>2. Len(wire'[c]) = LenBytes + (sent[c] + k) /\ sent[c] + k < Len(Payload[c])
      <4>1. Len(wire'[c]) = LenBytes + sent[c] + k
        BY <1>5, <2>1
      <4>2. sent[c] + k # Len(Payload[c]) /\ k <= Len(Payload[c]) - sent[c]
        BY <1>2, <2>1, <2>5 DEF Completes
      <4>3. LenBytes + sent[c] + k = LenBytes + (sent[c] + k)
        BY <1>n
      <4>4. sent[c] + k < Len(Payload[c])
        BY <1>n, <4>2
      <4>. QED
        BY <4>1, <4>3, <4>4
    <3>3. Handed(c)'
      BY <1>1, <1>6, <2>2, <2>3, <3>1, <3>2 DEF Handed, Total, FrameByte, Ended
    <3>. QED
      BY <1>4, <1>5, <1>6, <3>3, OtherClients
  <2>. QED
    BY <2>4, <2>5
<1>. QED
  BY <1>4, <1>5, <1>7, <1>8 DEF send_all, Sending

\* The receiver's part survives whatever the clients do: what it has read of its
\* client's stream is still there, and a complete frame does not grow.
LEMMA ReceiverKept ==
  ASSUME TypeInv, ReceiverInv,
         UNCHANGED <<srvPc, srvRet, got, netlen, size, buffer, peer, taken>>,
         \A c \in Clients :
           /\ Len(wire[c]) \in Nat /\ Len(wire'[c]) \in Nat
           /\ Len(wire[c]) <= Len(wire'[c]) /\ Len(wire'[c]) <= Total(c)
           /\ \A i \in 1..Len(wire[c]) : wire'[c][i] = wire[c][i]
  PROVE  ReceiverInv'
<1>1. Receiving => /\ taken <= Len(wire'[peer])
                   /\ peer \in Clients /\ taken \in Nat /\ Len(wire[peer]) \in Nat
                   /\ taken <= Len(wire[peer])
  BY DEF ReceiverInv, TypeInv, TypeOK
<1>2. srvPc = "recvLen" => \A i \in 1..got : netlen[i] = wire'[peer][i]
  <2>. SUFFICES ASSUME srvPc = "recvLen", NEW i \in 1..got
                PROVE  netlen[i] = wire'[peer][i]
    OBVIOUS
  <2>1. peer \in Clients /\ taken = got /\ netlen[i] = wire[peer][i]
    BY DEF ReceiverInv, Receiving
  <2>2. i \in 1..Len(wire[peer])
    BY <1>1, <2>1 DEF Receiving
  <2>. QED
    BY <2>1, <2>2
<1>3. srvRet = "ok" => peer \in Clients /\ Len(wire'[peer]) = Total(peer)
  <2>1. srvRet = "ok" => peer \in Clients /\ Len(wire[peer]) = Total(peer)
    BY DEF ReceiverInv
  <2>. QED
    BY <2>1
<1>. QED
  BY <1>1, <1>2, <1>3 DEF ReceiverInv, Receiving, Stored, Total, Ended

\* ... and leaving socket_receive with -1, or the death of the process.
LEMMA ReceiverGone ==
  ASSUME NEW p \in Ended, NEW r \in Outcomes \ {"none", "ok"},
         srvPc' = p, srvRet' = r
  PROVE  ReceiverInv'
BY DEF ReceiverInv, Receiving, Ended, Outcomes

\* Two byte strings that agree in each place.
LEMMA SameBytes ==
  ASSUME NEW n, NEW f \in [1..n -> Byte], NEW g \in [1..n -> Byte],
         \A i \in 1..n : f[i] = g[i]
  PROVE  f = g
<1>1. f = [i \in 1..n |-> f[i]] /\ g = [i \in 1..n |-> g[i]]
  OBVIOUS
<1>2. [i \in 1..n |-> f[i]] = [i \in 1..n |-> g[i]]
  OBVIOUS
<1>. QED
  BY <1>1, <1>2, Zenon

\* One piece of the length; the last one yields the size that was sent.
LEMMA RecvLenStep ==
  ASSUME TypeInv, TypeInv', \A c \in Clients : Handed(c), ReceiverInv,
         NEW r \in 1..SendBuf, RecvLen(r)
  PROVE  ReceiverInv'
<1>1. /\ srvPc = "recvLen" /\ Receiving /\ peer \in Clients
      /\ got \in Nat /\ r \in Nat \ {0} /\ LenBytes \in Nat /\ taken = got
      /\ got + r <= LenBytes /\ r <= Unread(peer)
      /\ netlen \in [1..LenBytes -> Byte]
  BY BoundsAssumption DEF RecvLen, Receiving, ReceiverInv, TypeInv, TypeOK, LenField
<1>2. /\ taken' = taken + r /\ taken' \in Nat /\ taken' <= Len(wire[peer])
      /\ \A i \in 1..LenBytes : netlen'[i] =
           IF i \in got + 1 .. got + r THEN wire[peer][taken + i - got] ELSE netlen[i]
  <2>1. netlen' = recv_all(netlen, r) /\ taken' = taken + r
    BY DEF RecvLen
  <2>2. /\ taken + r \in Nat /\ taken + r <= Len(wire[peer])
        /\ \A i \in 1..LenBytes : recv_all(netlen, r)[i] =
             IF i \in got + 1 .. got + r THEN wire[peer][taken + i - got] ELSE netlen[i]
    BY <1>1, RecvType
  <2>. QED
    BY <2>1, <2>2
<1>3. wire' = wire /\ peer' = peer /\ buffer' = buffer
      /\ buffer = [i \in 1..MaxBuffer |-> Zero]
  BY <1>1 DEF RecvLen, ReceiverInv
<1>4. \A i \in 1..got + r : netlen'[i] = wire[peer][i]
  <2>. SUFFICES ASSUME NEW i \in 1..got + r PROVE netlen'[i] = wire[peer][i]
    OBVIOUS
  <2>1. i \in 1..LenBytes
    BY <1>1
  <2>2. CASE i \in got + 1 .. got + r
    <3>1. taken + i - got = i
      BY <1>1
    <3>. QED
      BY <1>2, <2>1, <2>2, <3>1
  <2>3. CASE i \notin got + 1 .. got + r
    <3>1. i \in 1..got
      BY <1>1, <2>3
    <3>2. \A j \in 1..got : netlen[j] = wire[peer][j]
      BY <1>1 DEF ReceiverInv
    <3>. QED
      BY <1>2, <2>1, <2>3, <3>1, <3>2
  <2>. QED
    BY <2>2, <2>3
<1>5. CASE got + r < LenBytes
  <2>1. got' = got + r /\ srvPc' = srvPc /\ srvRet' = srvRet
    BY <1>5 DEF RecvLen
  <2>. QED
    BY <1>1, <1>2, <1>3, <1>4, <1>5, <2>1 DEF ReceiverInv, Receiving, Ended
<1>6. CASE ~(got + r < LenBytes)
  <2>1. got + r = LenBytes
    BY <1>1, <1>6
  <2>2. size' = Len(Payload[peer])
    <3>1. \A i \in 1..LenBytes : wire[peer][i] = htobe64[Len(Payload[peer])][i]
      <4>1. LenBytes <= Len(wire[peer]) /\ Len(wire[peer]) \in Nat
        BY <1>1, <1>2, <2>1 DEF TypeInv, TypeOK
      <4>2. \A i \in 1..Len(wire[peer]) : wire[peer][i] = FrameByte(peer, i)
        BY <1>1 DEF Handed
      <4>. QED
        BY <1>1, <4>1, <4>2 DEF FrameByte
    <3>2. netlen' \in LenField /\ htobe64[Len(Payload[peer])] \in LenField
      BY <1>1, EndianAssumption DEF TypeInv, TypeOK, Sizes
    <3>3. netlen' = htobe64[Len(Payload[peer])]
      <4>1. \A i \in 1..LenBytes : netlen'[i] = htobe64[Len(Payload[peer])][i]
        BY <1>4, <2>1, <3>1
      <4>2. /\ netlen' \in [1..LenBytes -> Byte]
            /\ htobe64[Len(Payload[peer])] \in [1..LenBytes -> Byte]
        BY <3>2 DEF LenField
      <4>3. \A f, g \in [1..LenBytes -> Byte] :
              (\A i \in 1..LenBytes : f[i] = g[i]) => f = g
        BY SameBytes
      <4>. QED
        BY <4>1, <4>2, <4>3, Zenon
    <3>4. Len(Payload[peer]) \in Sizes
      BY <1>1 DEF Sizes
    <3>. QED
      BY <1>6, <3>3, <3>4, EndianAssumption DEF RecvLen
  <2>3. CASE SizeAccepted(size')
    <3>1. srvPc' = "recvPayload" /\ srvRet' = srvRet /\ got' = 0
      BY <1>6, <2>3 DEF RecvLen
    <3>2. size' \in Nat /\ 0 < size' /\ size' <= MaxBuffer
      BY <2>3, BoundsAssumption DEF SizeAccepted
    <3>3. Stored(got)'
      BY <1>3, <3>1, BoundsAssumption DEF Stored
    <3>4. taken' = LenBytes + got'
      BY <1>1, <1>2, <2>1, <3>1
    <3>. QED
      BY <1>1, <1>2, <1>3, <2>2, <3>1, <3>2, <3>3, <3>4 DEF ReceiverInv, Receiving, Ended
  <2>4. CASE ~SizeAccepted(size')
    <3>1. srvPc' = "returned" /\ srvRet' = "fail"
      BY <1>6, <2>4 DEF RecvLen, Leave
    <3>. QED
      BY <3>1, ReceiverGone DEF Ended, Outcomes
  <2>. QED
    BY <2>3, <2>4
<1>. QED
  BY <1>5, <1>6

\* One piece of the payload; with the last one the frame is complete.
LEMMA RecvPayloadStep ==
  ASSUME TypeInv, TypeInv', \A c \in Clients : Handed(c), ReceiverInv,
         NEW r \in 1..SendBuf, RecvPayload(r)
  PROVE  ReceiverInv'
<1>1. /\ srvPc = "recvPayload" /\ Receiving /\ peer \in Clients
      /\ got \in Nat /\ r \in Nat \ {0} /\ LenBytes \in Nat /\ taken = LenBytes + got
      /\ size = Len(Payload[peer]) /\ size \in Nat
      /\ got + r <= size /\ size <= MaxBuffer /\ r <= Unread(peer)
      /\ MaxBuffer \in Nat /\ buffer \in [1..MaxBuffer -> Byte]
  BY BoundsAssumption DEF RecvPayload, Receiving, ReceiverInv, TypeInv, TypeOK
<1>2. /\ taken' = taken + r /\ taken' \in Nat /\ taken' <= Len(wire[peer])
      /\ \A i \in 1..MaxBuffer : buffer'[i] =
           IF i \in got + 1 .. got + r THEN wire[peer][taken + i - got] ELSE buffer[i]
  <2>1. buffer' = recv_all(buffer, r) /\ taken' = taken + r
    BY DEF RecvPayload
  <2>2. /\ taken + r \in Nat /\ taken + r <= Len(wire[peer])
        /\ \A i \in 1..MaxBuffer : recv_all(buffer, r)[i] =
             IF i \in got + 1 .. got + r THEN wire[peer][taken + i - got] ELSE buffer[i]
    BY <1>1, RecvType
  <2>. QED
    BY <2>1, <2>2
<1>3. wire' = wire /\ peer' = peer /\ size' = size /\ got' = got + r
  BY DEF RecvPayload
<1>4. \A i \in got + 1 .. got + r : wire[peer][taken + i - got] = Payload[peer][i]
  <2>. SUFFICES ASSUME NEW i \in got + 1 .. got + r
                PROVE  wire[peer][taken + i - got] = Payload[peer][i]
    OBVIOUS
  <2>. DEFINE j == taken + i - got
  <2>1. j = LenBytes + i /\ j \in 1..Len(wire[peer]) /\ ~(j <= LenBytes) /\ j - LenBytes = i
    BY <1>1, <1>2 DEF TypeInv, TypeOK
  <2>2. wire[peer][j] = FrameByte(peer, j)
    BY <1>1, <2>1 DEF Handed
  <2>3. FrameByte(peer, j) = Payload[peer][j - LenBytes]
    <3>. HIDE DEF j
    <3>. QED
      BY <2>1 DEF FrameByte
  <2>. QED
    BY <2>1, <2>2, <2>3
<1>5. Stored(got)'
  <2>. SUFFICES ASSUME NEW i \in 1..MaxBuffer
                PROVE  buffer'[i] = IF i <= got + r THEN Payload[peer][i] ELSE Zero
    BY <1>3 DEF Stored
  <2>1. CASE i \in got + 1 .. got + r
    BY <1>1, <1>2, <1>4, <2>1
  <2>2. CASE i \notin got + 1 .. got + r
    <3>1. buffer'[i] = buffer[i]
      BY <1>2, <2>2
    <3>2. buffer[i] = IF i <= got THEN Payload[peer][i] ELSE Zero
      BY <1>1 DEF ReceiverInv, Stored
    <3>. QED
      BY <1>1, <2>2, <3>1, <3>2
  <2>. QED
    BY <2>1, <2>2
<1>6. CASE got + r < size
  <2>1. srvPc' = srvPc /\ srvRet' = srvRet
    BY <1>6 DEF RecvPayload
  <2>2. taken' = LenBytes + got'
    BY <1>1, <1>2, <1>3
  <2>. QED
    BY <1>1, <1>2, <1>3, <1>5, <1>6, <2>1, <2>2 DEF ReceiverInv, Receiving, Ended
<1>7. CASE ~(got + r < size)
  <2>1. srvPc' = "returned" /\ srvRet' = "ok"
    BY <1>7 DEF RecvPayload, Leave
  <2>2. got' = size'
    BY <1>1, <1>3, <1>7
  <2>3. Len(wire[peer]) = Total(peer)
    <3>1. taken' = LenBytes + size
      <4>1. got + r = size
        BY <1>1, <1>7
      <4>2. taken' = LenBytes + got + r
        BY <1>1, <1>2
      <4>. QED
        BY <1>1, <4>1, <4>2
    <3>2. Len(wire[peer]) <= Total(peer) /\ Len(wire[peer]) \in Nat
      BY <1>1 DEF Handed, TypeInv, TypeOK
    <3>. QED
      BY <1>1, <1>2, <3>1, <3>2 DEF Total
  <2>4. Stored(size)'
    BY <1>5, <2>2 DEF Stored
  <2>5. Total(peer)' = Total(peer)
    BY <1>3 DEF Total
  <2>. QED
    BY <1>1, <1>3, <2>1, <2>3, <2>4, <2>5 DEF ReceiverInv, Receiving, Ended
<1>. QED
  BY <1>6, <1>7

FullInv == TypeInv /\ FrameInv

LEMMA FrameStep == FullInv /\ [Next]_vars => FullInv'
<1>. SUFFICES ASSUME FullInv, [Next]_vars
              PROVE  FrameInv'
  BY TypeStep DEF FullInv
<1>t. TypeInv /\ TypeOK /\ TypeInv'
  BY TypeStep DEF FullInv, TypeInv
<1>h. (\A d \in Clients : Handed(d)) /\ ReceiverInv
  BY DEF FullInv, FrameInv
<1>w. \A d \in Clients : Len(wire[d]) \in Nat /\ Len(wire'[d]) \in Nat
  BY <1>t DEF TypeInv, TypeOK
\* A client's step: its own part is shown by the lemma that ASSUMEs it, and the
\* receiver's follows from the streams only growing.
<1>c. ASSUME \A d \in Clients : Handed(d)', UNCHANGED <<srvVars, peer, taken>>,
             \A d \in Clients :
               /\ Len(wire[d]) <= Len(wire'[d])
               /\ \A i \in 1..Len(wire[d]) : wire'[d][i] = wire[d][i]
      PROVE  FrameInv'
  <2>1. \A d \in Clients : Len(wire'[d]) <= Total(d)
    BY <1>c DEF Handed, Total
  <2>2. ReceiverInv'
    BY <1>t, <1>h, <1>w, <1>c, <2>1, ReceiverKept DEF srvVars
  <2>. QED
    BY <1>c, <2>2 DEF FrameInv
\* A server's step leaves the clients and the streams alone.
<1>s. ASSUME ReceiverInv', UNCHANGED <<cliVars, wire>>
      PROVE  FrameInv'
  BY <1>h, <1>s DEF FrameInv, cliVars, Handed, Total, FrameByte
<1>1. ASSUME NEW c \in Clients, do_client(c) \/ inet_pton(c)
      PROVE  FrameInv'
  <2>1. CASE cleanup(c, "fail")
    <3>1. \A d \in Clients : Handed(d)'
      BY <1>1, <1>t, <1>h, <2>1, CliCleanupHanded DEF do_client, inet_pton
    <3>. QED
      BY <1>c, <1>w, <2>1, <3>1 DEF cleanup
  <2>2. CASE ~cleanup(c, "fail")
    <3>1. /\ Payload[c] # <<>>
          /\ cliPc[c] \in {"start", "address"} /\ cliPc'[c] \in {"address", "connect"}
          /\ \A d \in Clients \ {c} : cliPc'[d] = cliPc[d]
          /\ UNCHANGED <<cliRet, sent, srvVars, peer, taken, wire>>
      BY <1>1, <1>t, <1>h, <2>2 DEF do_client, inet_pton, Handed, TypeOK, netVars, Ended
    <3>2. Handed(c)'
      BY <1>h, <3>1 DEF Handed, Total, FrameByte, Ended
    <3>3. \A d \in Clients : Handed(d)'
      BY <1>t, <1>h, <3>1, <3>2, OtherClients
    <3>. QED
      BY <1>c, <1>w, <3>1, <3>3
  <2>. QED
    BY <2>1, <2>2
<1>2. ASSUME NEW c \in Clients, Connect(c)
      PROVE  FrameInv'
  <2>1. /\ cliPc[c] = "connect" /\ cliPc'[c] = "sendLen"
        /\ \A d \in Clients \ {c} : cliPc'[d] = cliPc[d]
        /\ UNCHANGED <<cliRet, sent, srvVars, peer, taken, wire>>
    BY <1>2, <1>t DEF Connect, TypeOK
  <2>2. wire[c] = <<>> /\ sent[c] = 0 /\ LenBytes > 0
    BY <1>h, <2>1, BoundsAssumption DEF Handed
  <2>3. Handed(c)'
    BY <1>h, <2>1, <2>2 DEF Handed, Total, FrameByte, Ended
  <2>4. \A d \in Clients : Handed(d)'
    BY <1>t, <1>h, <2>1, <2>3, OtherClients
  <2>. QED
    BY <1>c, <1>w, <2>1, <2>4
<1>3. ASSUME NEW c \in Clients, ConnectFails(c) \/ SendFails(c) \/ socket_send_returns(c)
      PROVE  FrameInv'
  <2>1. \E r \in {"ok", "fail"} :
          /\ cleanup(c, r)
          /\ \/ r = "ok" /\ cliPc[c] = "sent"
             \/ r = "fail" /\ cliPc[c] \in {"start", "address", "connect", "sendLen", "sendPayload"}
    BY <1>3 DEF ConnectFails, SendFails, socket_send_returns, Sending
  <2>2. \A d \in Clients : Handed(d)'
    BY <1>t, <1>h, <2>1, CliCleanupHanded
  <2>. QED
    BY <1>c, <1>w, <2>1, <2>2 DEF cleanup
<1>4. ASSUME NEW c \in Clients, NEW k \in 1..SendBuf, send_all(c, k)
      PROVE  FrameInv'
  <2>1. /\ \A d \in Clients : Handed(d)'
        /\ Len(wire'[c]) = Len(wire[c]) + k /\ k \in Nat
        /\ \A i \in 1..Len(wire[c]) : wire'[c][i] = wire[c][i]
        /\ \A d \in Clients \ {c} : wire'[d] = wire[d]
    BY <1>4, <1>t, <1>h, SendHanded, BoundsAssumption
  <2>2. \A d \in Clients :
          /\ Len(wire[d]) <= Len(wire'[d])
          /\ \A i \in 1..Len(wire[d]) : wire'[d][i] = wire[d][i]
    <3>. SUFFICES ASSUME NEW d \in Clients
                  PROVE  /\ Len(wire[d]) <= Len(wire'[d])
                         /\ \A i \in 1..Len(wire[d]) : wire'[d][i] = wire[d][i]
      OBVIOUS
    <3>1. CASE d = c
      BY <1>w, <2>1, <3>1
    <3>2. CASE d # c
      BY <1>w, <2>1, <3>2
    <3>. QED
      BY <3>1, <3>2
  <2>3. UNCHANGED <<srvVars, peer, taken>>
    BY <1>4 DEF send_all
  <2>. QED
    BY <1>c, <2>1, <2>2, <2>3
<1>5. ASSUME NEW c \in Clients, SigPipe(c) \/ ClientCrash(c)
      PROVE  FrameInv'
  <2>1. CliKilled(c)
    BY <1>5 DEF SigPipe, ClientCrash
  <2>2. \A d \in Clients : Handed(d)'
    BY <1>t, <1>h, <2>1, CliKilledHanded
  <2>. QED
    BY <1>c, <1>w, <2>1, <2>2 DEF CliKilled
<1>6. CASE socket_receive \/ BindListen
  <2>1. UNCHANGED <<cliVars, wire>>
    BY <1>6 DEF socket_receive, BindListen
  <2>2. CASE srvPc' \in {"bind", "accept"}
    BY <1>6, <1>h, <1>s, <2>1, <2>2
       DEF socket_receive, BindListen, Leave, ReceiverInv, Receiving, Ended
  <2>3. CASE srvPc' \notin {"bind", "accept"}
    <3>1. srvPc' = "returned" /\ srvRet' = "fail"
      BY <1>6, <2>3 DEF socket_receive, BindListen, Leave
    <3>. QED
      BY <1>s, <2>1, <3>1, ReceiverGone DEF Ended, Outcomes
  <2>. QED
    BY <2>2, <2>3
<1>7. CASE Accept
  <2>1. UNCHANGED <<cliVars, wire>> /\ srvPc = "accept"
    BY <1>7 DEF Accept
  <2>2. CASE srvPc' = "recvLen"
    <3>1. /\ peer' \in Clients
          /\ UNCHANGED <<srvRet, got, netlen, size, buffer, wire, taken>>
      BY <1>7, <1>t, <2>2 DEF Accept, Leave, TypeOK
    <3>2. taken = 0 /\ got = 0 /\ LenBytes > 0 /\ Len(wire[peer']) \in Nat
      BY <1>h, <1>w, <2>1, <3>1, BoundsAssumption DEF ReceiverInv
    <3>3. ReceiverInv'
      BY <1>h, <2>1, <2>2, <3>1, <3>2 DEF ReceiverInv, Receiving, Ended
    <3>. QED
      BY <1>s, <2>1, <3>3
  <2>3. CASE srvPc' # "recvLen"
    <3>1. srvPc' = "returned" /\ srvRet' = "fail"
      BY <1>7, <2>3 DEF Accept, Leave
    <3>. QED
      BY <1>s, <2>1, <3>1, ReceiverGone DEF Ended, Outcomes
  <2>. QED
    BY <2>2, <2>3
<1>8. ASSUME NEW r \in 1..SendBuf, RecvLen(r)
      PROVE  FrameInv'
  <2>1. ReceiverInv'
    BY <1>8, <1>t, <1>h, RecvLenStep
  <2>. QED
    BY <1>8, <1>s, <2>1 DEF RecvLen
<1>9. ASSUME NEW r \in 1..SendBuf, RecvPayload(r)
      PROVE  FrameInv'
  <2>1. ReceiverInv'
    BY <1>9, <1>t, <1>h, RecvPayloadStep
  <2>. QED
    BY <1>9, <1>s, <2>1 DEF RecvPayload
<1>10. CASE RecvFails \/ ServerCrash
  <2>1. /\ UNCHANGED <<cliVars, wire>>
        /\ \/ srvPc' = "returned" /\ srvRet' = "fail"
           \/ srvPc' = "killed" /\ srvRet' = "killed"
    BY <1>10 DEF RecvFails, ServerCrash, Leave
  <2>2. ReceiverInv'
    BY <2>1, ReceiverGone DEF Ended, Outcomes
  <2>. QED
    BY <1>s, <2>1, <2>2
<1>11. CASE (\E c \in Clients : RstArrives(c)) \/ UNCHANGED vars
  <2>1. UNCHANGED <<cliVars, srvVars, peer, wire, taken>>
    BY <1>11 DEF RstArrives, vars, netVars
  <2>. QED
    BY <1>h, <2>1 DEF FrameInv, Handed, Total, FrameByte, ReceiverInv, Receiving, Stored,
                      cliVars, srvVars
<1>. QED
  BY <1>1, <1>2, <1>3, <1>4, <1>5, <1>6, <1>7, <1>8, <1>9, <1>10, <1>11
     DEF Next, Client, Server

LEMMA FullInvariant == Spec => []FullInv
<1>1. Init => TypeInv
  BY BoundsAssumption, ByteAssumption
     DEF Init, TypeInv, TypeOK, WritesInBounds, Receiving, Ended, Outcomes, LenField
<1>2. Init => FrameInv
  <2>. SUFFICES ASSUME Init PROVE FrameInv
    OBVIOUS
  <2>1. ASSUME NEW c \in Clients PROVE Handed(c)
    <3>1. wire[c] = <<>> /\ Len(wire[c]) = 0 /\ Total(c) \in Nat
      BY OutgoingType, BoundsAssumption DEF Init, Total
    <3>2. cliPc[c] = "start" /\ cliRet[c] = "none" /\ sent[c] = 0
      BY DEF Init
    <3>. QED
      BY <3>1, <3>2 DEF Handed, Ended
  <2>2. ReceiverInv
    BY DEF Init, ReceiverInv, Receiving, Ended
  <2>. QED
    BY <2>1, <2>2 DEF FrameInv
<1>. QED
  BY <1>1, <1>2, FrameStep, PTL DEF Spec, FullInv

\* do_server's 0 means that the caller's buffer holds one client's payload, all
\* of it and nothing else, for any payloads, cuts and failures.
THEOREM PayloadIntactAlways == Spec => []PayloadIntact
<1>1. FullInv => PayloadIntact
  BY DEF FullInv, FrameInv, ReceiverInv, Stored, PayloadIntact, TypeInv, TypeOK, Outcomes, Ended
<1>. QED
  BY <1>1, FullInvariant, PTL

\* socket_send's -1 means that no server reports success for that client.
THEOREM ReportsAgreeAlways == Spec => []ReportsAgree
<1>1. FullInv => ReportsAgree
  <2>. SUFFICES ASSUME FullInv, srvRet = "ok" PROVE ReportsAgree
    BY DEF ReportsAgree
  <2>1. peer \in Clients /\ Len(wire[peer]) = Total(peer) /\ Len(wire[peer]) \in Nat
    BY DEF FullInv, FrameInv, ReceiverInv, TypeInv, TypeOK
  <2>2. cliRet[peer] # "fail"
    BY <2>1 DEF FullInv, FrameInv, Handed
  <2>. QED
    BY <2>1, <2>2 DEF ReportsAgree, Total
<1>. QED
  BY <1>1, FullInvariant, PTL

(***************************************************************************)
(* Descriptors.  `if (fd) close(fd)' leaves descriptor 0 open, so the      *)
(* theorem needs a process that starts with its standard input open.  What *)
(* is closed at the end depends on the label: cleanup_lsock leaves csock   *)
(* alone, which is right only because accept() was not reached.            *)
(***************************************************************************)
DescriptorsInv ==
  /\ DescriptorsClosed
  /\ srvPc \in {"start", "bind"} => csock \notin srvFds

LEMMA DescriptorsStep ==
  ASSUME FirstFd # 0, TypeOK, DescriptorsInv, [Next]_vars
  PROVE  DescriptorsInv'
<1>. USE DEF Ended, DescriptorsInv
<1>1. ASSUME NEW c \in Clients, NEW r, cleanup(c, r)
      PROVE  DescriptorsInv'
  BY <1>1 DEF cleanup, CloseFd, sock, srvVars, DescriptorsClosed, TypeOK
<1>2. ASSUME NEW c \in Clients, CliKilled(c)
      PROVE  DescriptorsInv'
  BY <1>2 DEF CliKilled, srvVars, DescriptorsClosed, TypeOK
<1>3. ASSUME NEW r, NEW n, Leave(r, cleanup_all(srvFds), n), UNCHANGED cliVars
      PROVE  DescriptorsInv'
  <2>1. cleanup_all(srvFds) = {}
    BY BoundsAssumption DEF cleanup_all, cleanup_lsock, CloseFd, lsock, csock, TypeOK
  <2>. QED
    BY <1>3, <2>1 DEF Leave, cliVars, DescriptorsClosed
<1>3a. ASSUME NEW r, NEW n, Leave(r, cleanup_lsock(srvFds), n), UNCHANGED cliVars,
              srvPc \in {"start", "bind"}
       PROVE  DescriptorsInv'
  <2>1. cleanup_lsock(srvFds) = {}
    BY <1>3a, BoundsAssumption DEF cleanup_lsock, CloseFd, lsock, csock, TypeOK
  <2>. QED
    BY <1>3a, <2>1 DEF Leave, cliVars, DescriptorsClosed
<1>4. ASSUME NEW c \in Clients, do_client(c) \/ inet_pton(c)
      PROVE  DescriptorsInv'
  BY <1>1, <1>4 DEF do_client, inet_pton, srvVars, DescriptorsClosed, TypeOK
<1>5. ASSUME NEW c \in Clients, Connect(c)
      PROVE  DescriptorsInv'
  BY <1>5 DEF Connect, srvVars, DescriptorsClosed, TypeOK
<1>6. ASSUME NEW c \in Clients, NEW k \in 1..SendBuf, send_all(c, k)
      PROVE  DescriptorsInv'
  <2>1. \A d \in Clients : cliPc'[d] = "returned" => cliPc[d] = "returned"
    BY <1>6 DEF send_all, Sending, TypeOK
  <2>. QED
    BY <1>6, <2>1 DEF send_all, srvVars, DescriptorsClosed
<1>7. ASSUME NEW c \in Clients,
             \/ ConnectFails(c) \/ SendFails(c) \/ socket_send_returns(c)
             \/ SigPipe(c) \/ ClientCrash(c)
      PROVE  DescriptorsInv'
  BY <1>1, <1>2, <1>7
     DEF ConnectFails, SendFails, socket_send_returns, SigPipe, ClientCrash
<1>8. CASE socket_receive \/ BindListen
  <2>1. UNCHANGED cliVars /\ srvPc \in {"start", "bind"}
    BY <1>8 DEF socket_receive, BindListen
  <2>2. CASE srvPc' = "returned"
    BY <1>3a, <1>8, <2>1, <2>2 DEF socket_receive, BindListen, AfterBind
  <2>3. CASE srvPc' # "returned"
    <3>1. srvFds' \in {srvFds, {lsock}}
      BY <1>8, <2>3 DEF socket_receive, BindListen, Leave
    <3>2. lsock # csock
      BY BoundsAssumption DEF lsock, csock
    <3>. QED
      BY <2>1, <2>3, <3>1, <3>2 DEF cliVars, DescriptorsClosed
  <2>. QED
    BY <2>2, <2>3
<1>8a. CASE Accept \/ RecvFails
  BY <1>3, <1>8a DEF Accept, RecvFails, cliVars, DescriptorsClosed
<1>9. ASSUME NEW r \in 1..SendBuf, RecvLen(r) \/ RecvPayload(r)
      PROVE  DescriptorsInv'
  <2>1. UNCHANGED cliVars
    BY <1>9 DEF RecvLen, RecvPayload
  <2>2. CASE UNCHANGED <<srvPc, srvFds>>
    BY <2>1, <2>2 DEF cliVars, DescriptorsClosed
  <2>3. CASE srvPc' = "recvPayload"
    BY <2>1, <2>3 DEF cliVars, DescriptorsClosed
  <2>4. CASE \E q \in Outcomes : Leave(q, cleanup_all(srvFds), taken + r)
    BY <1>3, <2>1, <2>4
  <2>. QED
    BY <1>9, <2>2, <2>3, <2>4 DEF RecvLen, RecvPayload, Outcomes
<1>10. CASE ServerCrash \/ (\E c \in Clients : RstArrives(c)) \/ UNCHANGED vars
  BY <1>10 DEF ServerCrash, RstArrives, vars, cliVars, srvVars, DescriptorsClosed
<1>. QED
  BY <1>4, <1>5, <1>6, <1>7, <1>8, <1>8a, <1>9, <1>10 DEF Next, Client, Server

\* socket_send and socket_receive close every descriptor they opened, on every
\* path, in a process whose descriptor 0 was taken before.
THEOREM DescriptorsClosedAlways == FirstFd # 0 => (Spec => []DescriptorsClosed)
<1>. SUFFICES ASSUME FirstFd # 0 PROVE Spec => []DescriptorsClosed
  OBVIOUS
<1>1. Init => DescriptorsInv
  BY DEF Init, DescriptorsInv, DescriptorsClosed
<1>2. TypeOK /\ DescriptorsInv /\ [Next]_vars => DescriptorsInv'
  BY DescriptorsStep
<1>3. DescriptorsInv => DescriptorsClosed
  BY DEF DescriptorsInv
<1>. QED
  BY <1>1, <1>2, <1>3, TypeCorrect, PTL DEF Spec

(***************************************************************************)
(* FrameTransfer implements Delivery: every step of the two processes and  *)
(* of the kernel is one step of the abstract specification or none.        *)
(***************************************************************************)
\* The first m places of the buffer as a sequence.
LEMMA BufferPrefix ==
  ASSUME NEW n \in Nat, NEW f \in [1..n -> Byte], NEW p \in Seq(Byte),
         Len(p) <= n, \A i \in 1..Len(p) : f[i] = p[i]
  PROVE  SubSeq(f, 1, Len(p)) = p
<1>. DEFINE m == Len(p)
            q == SubSeq(f, 1, m)
<1>1. m \in Nat /\ f \in Seq(Byte) /\ Len(f) = n
  OBVIOUS
<1>2. q \in Seq(Byte) /\ Len(q) = m /\ \A i \in 1..m : q[i] = f[i]
  BY <1>1
<1>. QED
  BY <1>2, SeqEqual

\* Leaving socket_send, in either way, is the client's report.
LEMMA ReportStep ==
  ASSUME FullInv, NEW c \in Clients, NEW r \in Outcomes \ {"none"},
         cliRet' = [cliRet EXCEPT ![c] = r], cliPc[c] \notin Ended,
         r = "ok" => cliPc[c] = "sent",
         r = "fail" => cliPc[c] # "sent",
         UNCHANGED <<srvVars, peer, wire>>
  PROVE  Promise!DNext
<1>1. cliRet[c] = "none" /\ Handed(c)
  BY DEF FullInv, FrameInv, Handed
<1>2. r = "ok" => c \in Submitted
  BY <1>1 DEF Handed, Submitted
<1>3. r = "fail" => c \notin Submitted
  <2>. SUFFICES ASSUME r = "fail" PROVE Len(wire[c]) < Total(c)
    BY OutgoingType, BoundsAssumption DEF Submitted, Total, FullInv, TypeInv, TypeOK
  <2>. QED
    BY <1>1, OutgoingType, BoundsAssumption
       DEF Handed, Total, FullInv, TypeInv, TypeOK, Ended
<1>4. UNCHANGED <<Submitted, srvRet, From, Received>>
  BY DEF Submitted, From, Received, srvVars
<1>5. Promise!Report(c, r)
  BY <1>1, <1>2, <1>3, <1>4 DEF Promise!Report
<1>. QED
  BY <1>5 DEF Promise!DNext, Promise!Reports, Outcomes

\* A send() that completes the frame hands the payload over.
LEMMA SubmitStep ==
  ASSUME FullInv, NEW c \in Clients, NEW k \in 1..SendBuf, send_all(c, k)
  PROVE  Promise!DNext \/ UNCHANGED Promise!dvars
<1>1. /\ Len(wire'[c]) = Len(wire[c]) + k /\ k \in Nat \ {0}
      /\ \A d \in Clients \ {c} : wire'[d] = wire[d]
      /\ Len(wire[c]) \in Nat /\ Total(c) \in Nat
      /\ \A d \in Clients : Handed(d)'
  BY SendHanded, OutgoingType, BoundsAssumption
     DEF FullInv, FrameInv, TypeInv, TypeOK, Total
<1>2. Len(wire'[c]) <= Total(c)
  BY <1>1 DEF Handed, Total
<1>3. c \notin Submitted
  BY <1>1, <1>2 DEF Submitted
<1>4. UNCHANGED <<cliRet, srvRet, From, Received>>
  BY DEF send_all, From, Received, srvVars
<1>5. CASE Len(wire'[c]) = Total(c)
  <2>1. Submitted' = Submitted \cup {c}
    BY <1>1, <1>5 DEF Submitted, Total
  <2>2. cliRet[c] = "none"
    BY DEF FullInv, FrameInv, Handed, send_all, Sending, Ended
  <2>3. Promise!Submit(c)
    BY <1>3, <1>4, <2>1, <2>2 DEF Promise!Submit
  <2>. QED
    BY <2>3 DEF Promise!DNext
<1>6. CASE Len(wire'[c]) # Total(c)
  <2>1. Submitted' = Submitted
    BY <1>1, <1>3, <1>6 DEF Submitted, Total
  <2>. QED
    BY <1>4, <2>1 DEF Promise!dvars
<1>. QED
  BY <1>5, <1>6

\* A step of the server that does not end it is invisible, one that ends it
\* without success gives up, and the last piece of the payload delivers it.
LEMMA ServerStep ==
  ASSUME FullInv, FullInv', UNCHANGED <<cliVars, wire>>, srvPc \notin Ended,
         srvRet' = "ok" => peer' = peer
  PROVE  Promise!DNext \/ UNCHANGED Promise!dvars
<1>1. srvRet = "none" /\ From = NoClient /\ Received = <<>>
  BY DEF FullInv, FrameInv, ReceiverInv, From, Received
<1>2. Submitted' = Submitted /\ cliRet' = cliRet
  BY DEF Submitted, Total, cliVars
<1>3. CASE srvRet' = "none"
  BY <1>1, <1>2, <1>3 DEF From, Received, Promise!dvars
<1>4. CASE srvRet' \in {"fail", "killed"}
  <2>1. Promise!GiveUp(srvRet')
    BY <1>1, <1>2, <1>4 DEF From, Received, Promise!GiveUp
  <2>. QED
    BY <1>4, <2>1 DEF Promise!DNext
<1>5. CASE srvRet' = "ok"
  <2>1. /\ peer \in Clients /\ peer' = peer /\ Len(wire[peer]) = Total(peer)
        /\ size' = Len(Payload[peer]) /\ size' <= MaxBuffer
        /\ Stored(size)'
    BY <1>5 DEF FullInv, FrameInv, ReceiverInv, Total
  <2>2. SubSeq(buffer', 1, size') = Payload[peer]
    <3>1. /\ MaxBuffer \in Nat /\ buffer' \in [1..MaxBuffer -> Byte]
          /\ Payload[peer] \in Seq(Byte) /\ Len(Payload[peer]) \in Nat
      BY <2>1, OutgoingType, BoundsAssumption DEF FullInv, TypeInv, TypeOK
    <3>2. \A i \in 1..Len(Payload[peer]) : buffer'[i] = Payload[peer][i]
      BY <2>1, <3>1 DEF Stored
    <3>. QED
      BY <2>1, <3>1, <3>2, BufferPrefix
  <2>3. From' = peer /\ Received' = Payload[peer]
    BY <1>5, <2>1, <2>2 DEF From, Received
  <2>4. Promise!Deliver(peer)
    BY <1>1, <1>2, <1>5, <2>1, <2>3 DEF Promise!Deliver, Submitted
  <2>. QED
    BY <2>1, <2>4 DEF Promise!DNext
<1>. QED
  BY <1>3, <1>4, <1>5 DEF FullInv, TypeInv, TypeOK, Outcomes

LEMMA StepImplements ==
  ASSUME FullInv, FullInv', [Next]_vars
  PROVE  [Promise!DNext]_Promise!dvars
<1>1. ASSUME NEW c \in Clients, NEW r \in Outcomes, cleanup(c, r),
             \/ r = "ok" /\ cliPc[c] = "sent"
             \/ r = "fail" /\ cliPc[c] \in {"start", "address", "connect", "sendLen", "sendPayload"}
      PROVE  Promise!DNext
  BY <1>1, ReportStep DEF cleanup, Ended, Outcomes
<1>2. ASSUME NEW c \in Clients, CliKilled(c), cliPc[c] \notin Ended
      PROVE  Promise!DNext
  BY <1>2, ReportStep DEF CliKilled, Outcomes
<1>3. ASSUME UNCHANGED <<cliRet, srvVars, peer, wire>>
      PROVE  UNCHANGED Promise!dvars
  BY <1>3 DEF Promise!dvars, Submitted, Total, From, Received, srvVars
<1>4. ASSUME NEW c \in Clients, Client(c)
      PROVE  Promise!DNext \/ UNCHANGED Promise!dvars
  <2>1. CASE do_client(c) \/ inet_pton(c) \/ Connect(c)
    <3>1. CASE cleanup(c, "fail")
      BY <1>1, <2>1, <3>1 DEF do_client, inet_pton, Connect, Outcomes
    <3>2. CASE ~cleanup(c, "fail")
      BY <1>3, <2>1, <3>2 DEF do_client, inet_pton, Connect, netVars
    <3>. QED
      BY <3>1, <3>2
  <2>2. CASE ConnectFails(c) \/ SendFails(c) \/ socket_send_returns(c)
    BY <1>1, <2>2 DEF ConnectFails, SendFails, socket_send_returns, Sending, Outcomes
  <2>3. CASE \E k \in 1..SendBuf : send_all(c, k)
    BY <2>3, SubmitStep
  <2>4. CASE SigPipe(c)
    BY <1>2, <2>4 DEF SigPipe, Sending, Ended
  <2>. QED
    BY <1>4, <2>1, <2>2, <2>3, <2>4 DEF Client
<1>5. CASE \E c \in Clients : RstArrives(c)
  BY <1>3, <1>5 DEF RstArrives, cliVars
<1>6. CASE \E c \in Clients : ClientCrash(c)
  BY <1>2, <1>6 DEF ClientCrash, Ended
<1>7. CASE Server \/ ServerCrash
  <2>1. UNCHANGED <<cliVars, wire>> /\ srvPc \notin Ended
    BY <1>7 DEF Server, ServerCrash, socket_receive, BindListen, Accept, RecvFails, RecvLen, RecvPayload,
                Receiving, Ended
  <2>2. srvRet' = "ok" => peer' = peer
    BY <1>7 DEF Server, ServerCrash, socket_receive, BindListen, Accept, RecvFails, RecvLen, RecvPayload,
                Leave, FullInv, FrameInv, ReceiverInv, Ended
  <2>. QED
    BY <2>1, <2>2, ServerStep
<1>8. CASE UNCHANGED vars
  BY <1>3, <1>8 DEF vars, cliVars, netVars
<1>. QED
  BY <1>4, <1>5, <1>6, <1>7, <1>8 DEF Next

\* The two commands over sockets keep the promise of Delivery: a payload arrives
\* whole and unaltered or not at all, and the reports agree with what happened.
THEOREM Implements == Spec => ImplementsDelivery
<1>1. Init => Promise!DInit
  <2>. SUFFICES ASSUME Init PROVE Promise!DInit
    OBVIOUS
  <2>1. ASSUME NEW c \in Clients PROVE Len(wire[c]) # Total(c)
    BY OutgoingType, BoundsAssumption DEF Init, Total
  <2>. QED
    BY <2>1 DEF Init, Promise!DInit, Submitted, From, Received
<1>. QED
  BY <1>1, FullInvariant, StepImplements, PTL DEF Spec, ImplementsDelivery, Promise!DSpec
=================================================================================
