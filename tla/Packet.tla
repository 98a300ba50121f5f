------------------------------- MODULE Packet -------------------------------
(***************************************************************************)
(* The packet layer of the file transfer (software/filesrv/                *)
(* filesrv_shared.c), compiled into the client on the PC and the server on *)
(* the board: a header of six bytes, its acknowledge, the payload, its     *)
(* acknowledge, on a serial line without timeouts.                         *)
(*                                                                         *)
(* The code between two blocking reads is one action.  A side that is not  *)
(* inside the packet layer is "ready".                                     *)
(***************************************************************************)
EXTENDS Integers, Sequences

CONSTANTS BufLen        \* the receive buffer of both sides (2048 bytes)

ASSUME BufferAssumption == BufLen \in Nat \ {0}

\* The header counts the bytes of a payload in 16 bits.
ASSUME LengthAssumption == BufLen < 65536

Byte == 0..255
Side == {"client", "server"}
Peer(p) == IF p = "client" THEN "server" ELSE "client"

VARIABLES
    line,   \* the bytes on their way to each side
    ep      \* where each side is in the packet layer

\* A side outside of the packet layer, with the error the last call returned.
Ready(head, data, err) == [at |-> "ready", head |-> head, data |-> data, err |-> err]

checksum8(bytes) ==
    LET Add(sum, b) == (sum \div 2 + (sum % 2) * 128 + b) % 256
        after[n \in 0..Len(bytes)] == IF n = 0 THEN 0 ELSE Add(after[n - 1], bytes[n])
    IN  after[Len(bytes)]

\* struct baseheader_t, least significant bytes first.
Cmd(head)        == head[1] + 256 * head[2]
PayloadLen(head) == head[3] + 256 * head[4]
HeadSum(head)    == head[5]
PayloadSum(head) == head[6]

prepare_baseheader(cmd, payload) ==
    LET h == <<cmd % 256, cmd \div 256, Len(payload) % 256, Len(payload) \div 256,
               0, checksum8(payload)>>
    IN  [h EXCEPT ![5] = checksum8(h)]

check_baseheader(h) == HeadSum(h) = checksum8([h EXCEPT ![5] = 0])

NoHead == <<0, 0, 0, 0, 0, 0>>

InitPacket ==
    /\ line = [p \in Side |-> <<>>]
    /\ ep = [p \in Side |-> Ready(NoHead, <<>>, 0)]

\* Side p takes the first n bytes that reached it and puts bytes on the line.
Exchange(p, n, bytes) ==
    line' = [line EXCEPT ![p] = SubSeq(@, n + 1, Len(@)), ![Peer(p)] = @ \o bytes]

Arrived(p, n) == Len(line[p]) >= n
Returns(p, head, data, err) == ep' = [ep EXCEPT ![p] = Ready(head, data, err)]
-----------------------------------------------------------------------------
(* send_packet *)

SendHeader(p, cmd, payload) ==
    LET h == prepare_baseheader(cmd, payload)
    IN  /\ ep[p].at = "ready"
        /\ ep' = [ep EXCEPT ![p] = [at |-> "headAck", head |-> h, data |-> payload, err |-> 0]]
        /\ Exchange(p, 0, h)

\* Mutant of SendPayload: no payload after a bad acknowledge of the header.
SendPayload_StopsOnError(p) ==
    /\ ep[p].at = "headAck" /\ Arrived(p, 1)
    /\ \/ /\ line[p][1] = HeadSum(ep[p].head)
          /\ ep' = [ep EXCEPT ![p].at = "payAck"]
          /\ Exchange(p, 1, ep[p].data)
       \/ /\ line[p][1] # HeadSum(ep[p].head)
          /\ Returns(p, ep[p].head, <<>>, 1)
          /\ Exchange(p, 1, <<>>)

\* The payload follows whatever the acknowledge says.
SendPayload(p) ==
    /\ ep[p].at = "headAck" /\ Arrived(p, 1)
    /\ ep' = [ep EXCEPT ![p].at = "payAck",
                        ![p].err = IF line[p][1] # HeadSum(ep[p].head) THEN 1 ELSE 0]
    /\ Exchange(p, 1, ep[p].data)

EndSend(p) ==
    /\ ep[p].at = "payAck" /\ Arrived(p, 1)
    /\ Returns(p, ep[p].head, <<>>, IF line[p][1] # PayloadSum(ep[p].head) THEN 2 ELSE ep[p].err)
    /\ Exchange(p, 1, <<>>)
-----------------------------------------------------------------------------
(* receive_packet *)

Receive(p) ==
    /\ ep[p].at = "ready"
    /\ ep' = [ep EXCEPT ![p] = [Ready(NoHead, <<>>, 0) EXCEPT !.at = "header"]]
    /\ UNCHANGED line

ReceiveHeader(p) ==
    LET h == SubSeq(line[p], 1, 6)
    IN  /\ ep[p].at = "header" /\ Arrived(p, 6)
        /\ \/ /\ ~check_baseheader(h)           \* nothing is answered
              /\ Returns(p, h, <<>>, 1)
              /\ Exchange(p, 6, <<>>)
           \/ /\ check_baseheader(h) /\ PayloadLen(h) > BufLen
              /\ Returns(p, h, <<>>, 2)
              /\ Exchange(p, 6, <<(HeadSum(h) + 1) % 256>>)
           \/ /\ check_baseheader(h) /\ PayloadLen(h) <= BufLen
              /\ ep' = [ep EXCEPT ![p].at = "payload", ![p].head = h]
              /\ Exchange(p, 6, <<HeadSum(h)>>)

\* The payload as it arrived, and whether it is the one the header announced.
PayloadHere(p) == ep[p].at = "payload" /\ Arrived(p, PayloadLen(ep[p].head))
Payload(p)     == SubSeq(line[p], 1, PayloadLen(ep[p].head))

\* Mutant of Intact: the payload is not checked.
Intact_Always(p) == TRUE

Intact(p) == checksum8(Payload(p)) = PayloadSum(ep[p].head)

\* Mutant of RejectPayload: a bad payload is not answered.
RejectPayload_Silent(p) ==
    /\ PayloadHere(p) /\ ~Intact(p)
    /\ Returns(p, ep[p].head, Payload(p), 3)
    /\ Exchange(p, Len(Payload(p)), <<>>)

\* The acknowledge is the checksum of what arrived.
RejectPayload(p) ==
    /\ PayloadHere(p) /\ ~Intact(p)
    /\ Returns(p, ep[p].head, Payload(p), 3)
    /\ Exchange(p, Len(Payload(p)), <<checksum8(Payload(p))>>)

\* The callback ran and returned error: the acknowledge says so.
AcceptPayload(p, error) ==
    /\ PayloadHere(p) /\ Intact(p)
    /\ Returns(p, ep[p].head, Payload(p), 0)
    /\ Exchange(p, Len(Payload(p)),
                <<(PayloadSum(ep[p].head) + IF error # 0 THEN 1 ELSE 0) % 256>>)
=============================================================================
