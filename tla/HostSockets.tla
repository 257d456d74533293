---------------------------- MODULE HostSockets ----------------------------
(***************************************************************************)
(* The sockets that ExtHost (crates/vmrp-platform/src/lib.rs) keeps for    *)
(* the guest: a flag that the network is up, a map from handles to sockets *)
(* and a counter of handles.  A socket starts as Pending, a note of what   *)
(* the guest asked for, and becomes a stream by mr_connect or a datagram   *)
(* socket by mr_connect, mr_recvfrom or mr_sendto.  Those three take the   *)
(* socket out of the map for the time of the call and put back what has    *)
(* become of it.                                                           *)
(*                                                                         *)
(* A call runs to completion, waiting up to 500 ms for the network, while  *)
(* the guest waits.  What runs beside it are the peers: they send, close   *)
(* and reset between any two calls.  The guest may pass any handle to any  *)
(* call, one that was never given out or is long closed included.          *)
(***************************************************************************)
EXTENDS Integers, Sequences, FiniteSets, SequencesExt

CONSTANTS
  FirstHandle, (* next_socket_handle to start with: 3000                   *)
  MaxHandle,   (* bound: the last handle there is (i32::MAX in the code)   *)
  MaxBytes     (* bound: what a peer sends on one stream                   *)

ASSUME HandleAssumption ==
  /\ FirstHandle \in Nat \ {0} /\ MaxHandle \in Nat /\ FirstHandle <= MaxHandle
  /\ MaxBytes \in Nat

Handles == FirstHandle .. MaxHandle

VARIABLES
  ready,     (* network_ready                                              *)
  next,      (* next_socket_handle                                         *)
  sockets,   (* legacy_sockets                                             *)
  links,     (* the network's end of each endpoint the host ever had       *)
  told,      (* history: what the last call with a handle returned         *)
  got,       (* history: what the guest has read through a handle          *)
  closed     (* history: the handles it has closed, or the network with them *)

vars == <<ready, next, sockets, links, told, got, closed>>

(* What the guest asks for: (0, 0), (1, 1), or any other pair of a type    *)
(* and a protocol.                                                         *)
Types == {"stream", "datagram", "other"}

(* HostSocket: Pending while end is 0, then Tcp or Udp by its type.        *)
Socket == [type : Types, end : Nat, state : {"success", "failed"}]

(* A peer numbers the bytes of a stream; `unread' are those the host has   *)
(* received and the guest has not read, `lost' that some never will be.    *)
Link == [peer : {"open", "closed", "reset"}, sent : Nat,
         unread : Seq(Nat), lost : BOOLEAN]
NewLink == [peer |-> "open", sent |-> 0, unread |-> << >>, lost |-> FALSE]

Live == DOMAIN sockets
IsStream(s) == s.type = "stream" /\ s.end # 0
IsUdp(s) == s.type = "datagram" /\ s.end # 0

-----------------------------------------------------------------------------
Init ==
  /\ ready = FALSE
  /\ next = FirstHandle
  /\ sockets = << >>
  /\ links = << >>
  /\ told = [h \in Handles |-> "nothing"]
  /\ got = [h \in Handles |-> << >>]
  /\ closed = {}

(* mr_initNetwork and mr_connectWAP. *)
InitNetwork ==
  /\ ready' = TRUE
  /\ UNCHANGED <<next, sockets, links, told, got, closed>>

(* mr_closeNetwork, and code 405 of mr_testCom. *)
CloseNetwork ==
  /\ ready' = FALSE
  /\ sockets' = << >>
  /\ closed' = closed \cup Live
  /\ UNCHANGED <<next, links, told, got>>

(* Mutant of NextHandle: the handle of a closed socket is used again. *)
NextHandleLowest == Min({h \in Handles \cup {MaxHandle + 1} : h \notin Live})

NextHandle == next

(* mr_socket.  The counter saturates; the bound keeps it from that. *)
OpenSocket ==
  /\ ready /\ NextHandle \in Handles
  /\ \E type \in Types :
       sockets' = [h \in Live \cup {NextHandle} |->
                     IF h = NextHandle
                     THEN [type |-> type, end |-> 0, state |-> "success"]
                     ELSE sockets[h]]
  /\ next' = NextHandle + 1
  /\ UNCHANGED <<ready, links, told, got, closed>>

-----------------------------------------------------------------------------
(* Calls with a handle.                                                    *)

Found(h) == ready /\ h \in Live

(* The socket of h is s from now on, and the guest reads the answer. *)
Settled(h, s, answer) ==
  /\ sockets' = [sockets EXCEPT ![h] = s]
  /\ told' = [told EXCEPT ![h] = answer]
Settle(h, s, answer) == Settled(h, s, answer) /\ UNCHANGED <<ready, next, links, got, closed>>

Is(s, state) == [s EXCEPT !.state = state]
Failing(h) == Settle(h, Is(sockets[h], "failed"), "failed")

(* Mutant of Succeeding: a read that timed out leaves MR_WAITING behind. *)
SucceedingWaits(h) == Settle(h, Is(sockets[h], "waiting"), "success")

Succeeding(h) == Settle(h, Is(sockets[h], "success"), "success")

(* The handle names no socket or the network is down; or the arguments on  *)
(* the stack or in the buffer cannot be read.                              *)
Refused(h) ==
  /\ told' = [told EXCEPT ![h] = "failed"]
  /\ UNCHANGED <<ready, next, sockets, links, got, closed>>

(* The socket gets an endpoint of its own, with the given outcome. *)
Bind(h, state, answer) ==
  /\ links' = Append(links, NewLink)
  /\ Settled(h, [sockets[h] EXCEPT !.end = Len(links) + 1, !.state = state], answer)
  /\ UNCHANGED <<ready, next, got, closed>>

(* Mutant of Connectable: a stream that has a peer is connected anew. *)
ConnectableAgain(s) == s.type \in {"stream", "datagram"}

Connectable(s) == s.end = 0 /\ s.type \in {"stream", "datagram"}

(* mr_connect: TcpStream::connect_timeout may fail, and so may             *)
(* UdpSocket::bind.  A socket that is connected, or of a type nobody       *)
(* knows, answers with its state.                                          *)
Connect(h) ==
  /\ Found(h)
  /\ \/ Connectable(sockets[h]) /\ (Bind(h, "success", "success") \/ Failing(h))
     \/ ~Connectable(sockets[h]) /\ Settle(h, sockets[h], sockets[h].state)

(* mr_getSocketState. *)
GetSocketState(h) == Found(h) /\ Settle(h, sockets[h], sockets[h].state)

(* mr_closeSocket, which does not ask whether the network is up. *)
CloseSocket(h) ==
  /\ h \in Live
  /\ sockets' = Restrict(sockets, Live \ {h})
  /\ told' = [told EXCEPT ![h] = "success"]
  /\ closed' = closed \cup {h}
  /\ UNCHANGED <<ready, next, links, got>>

-----------------------------------------------------------------------------
(* Reading and writing.                                                    *)

(* Bytes of the stream at endpoint e. *)
From(e, bytes) == [i \in DOMAIN bytes |-> <<e, bytes[i]>>]

(* A read of a stream takes from the front of what has arrived. *)
Take(h, n) ==
  LET e == sockets[h].end IN
  /\ n \in 1 .. Len(links[e].unread)
  /\ Settled(h, Is(sockets[h], "success"), "success")
  /\ got' = [got EXCEPT ![h] = @ \o From(e, SubSeq(links[e].unread, 1, n))]
  /\ links' = [links EXCEPT ![e].unread = SubSeq(@, n + 1, Len(@))]
  /\ UNCHANGED <<ready, next, closed>>

(* What was taken cannot be stored through the guest's pointer. *)
TakeThenFault(h, n) ==
  LET e == sockets[h].end IN
  /\ n \in 1 .. Len(links[e].unread)
  /\ Settled(h, Is(sockets[h], "success"), "failed")
  /\ links' = [links EXCEPT ![e].unread = SubSeq(@, n + 1, Len(@)), ![e].lost = TRUE]
  /\ UNCHANGED <<ready, next, got, closed>>

(* Nothing has arrived, or the guest has no room: the read times out, or   *)
(* the peer has closed.  The guest reads 0 for either.                     *)
TakeNothing(h) == Succeeding(h)

RecvStream(h) ==
  \/ \E n \in 1 .. MaxBytes : Take(h, n) \/ TakeThenFault(h, n)
  \/ TakeNothing(h)
  \/ links[sockets[h].end].peer = "reset" /\ Failing(h)

(* A datagram or a timeout; an error; a datagram that cannot be stored. *)
RecvUdp(h) ==
  \/ Succeeding(h)
  \/ Failing(h)
  \/ Settle(h, Is(sockets[h], "success"), "failed")

(* Mutant of RecvPending: the guest reads 0 where it should read a failure. *)
RecvPendingQuiet(h) == Settle(h, Is(sockets[h], "failed"), "success")

RecvPending(h) == Failing(h)

(* mr_recv. *)
Recv(h) ==
  /\ Found(h)
  /\ \/ IsStream(sockets[h]) /\ RecvStream(h)
     \/ IsUdp(sockets[h]) /\ RecvUdp(h)
     \/ sockets[h].end = 0 /\ RecvPending(h)

(* mr_send.  A write that times out counts as failed. *)
Send(h) ==
  /\ Found(h)
  /\ Failing(h) \/ (sockets[h].end # 0 /\ Succeeding(h))

(* The part mr_recvfrom and mr_sendto share: a datagram socket that has no *)
(* endpoint gets one on the way.                                           *)
WithDatagram(h) ==
  /\ Found(h)
  /\ LET s == sockets[h] IN
     \/ /\ s.type = "datagram" /\ s.end = 0
        /\ Bind(h, "success", "success") \/ Bind(h, "failed", "failed") \/ Failing(h)
     \/ IsUdp(s) /\ (Succeeding(h) \/ Failing(h))
     \/ s.end = 0 /\ s.type # "datagram" /\ Failing(h)
     \/ IsStream(s) /\ Settle(h, s, "failed")

(* Mutant of RecvFrom: the socket of a datagram that came is not put back. *)
RecvFromDrops(h) ==
  \/ WithDatagram(h) /\ ~IsUdp(sockets[h])
  \/ /\ Found(h) /\ IsUdp(sockets[h])
     /\ sockets' = Restrict(sockets, Live \ {h})
     /\ told' = [told EXCEPT ![h] = "success"]
     /\ UNCHANGED <<ready, next, links, got, closed>>

(* mr_recvfrom.  Storing the datagram or its sender may fail. *)
RecvFrom(h) ==
  \/ WithDatagram(h)
  \/ /\ Found(h) /\ sockets[h].type = "datagram"
     /\ \/ sockets[h].end = 0 /\ Bind(h, "success", "failed")
        \/ sockets[h].end # 0 /\ Settle(h, Is(sockets[h], "success"), "failed")

(* mr_sendto. *)
SendTo(h) == WithDatagram(h)

-----------------------------------------------------------------------------
(* The peers of the streams the host has open.                             *)

StreamEnds == {sockets[h].end : h \in {g \in Live : IsStream(sockets[g])}}

PeerSends(e) ==
  /\ links[e].peer = "open" /\ links[e].sent < MaxBytes
  /\ links' = [links EXCEPT ![e].sent = @ + 1,
                            ![e].unread = Append(@, links[e].sent + 1)]
  /\ UNCHANGED <<ready, next, sockets, told, got, closed>>

PeerCloses(e) ==
  /\ links[e].peer = "open"
  /\ links' = [links EXCEPT ![e].peer = "closed"]
  /\ UNCHANGED <<ready, next, sockets, told, got, closed>>

(* A reset drops what was not read. *)
PeerResets(e) ==
  /\ links[e].peer # "reset"
  /\ links' = [links EXCEPT ![e].peer = "reset", ![e].unread = << >>, ![e].lost = TRUE]
  /\ UNCHANGED <<ready, next, sockets, told, got, closed>>

Call(h) ==
  \/ Refused(h) \/ Connect(h) \/ GetSocketState(h) \/ CloseSocket(h)
  \/ Recv(h) \/ Send(h) \/ RecvFrom(h) \/ SendTo(h)

Next ==
  \/ InitNetwork \/ CloseNetwork \/ OpenSocket
  \/ \E h \in Handles : Call(h)
  \/ \E e \in StreamEnds : PeerSends(e) \/ PeerCloses(e) \/ PeerResets(e)

Spec == Init /\ [][Next]_vars

-----------------------------------------------------------------------------
(* Every field keeps its type. *)
TypeOK ==
  /\ ready \in BOOLEAN
  /\ next \in FirstHandle .. MaxHandle + 1
  /\ sockets \in [Live -> Socket] /\ Live \subseteq Handles
  /\ links \in Seq(Link)
  /\ told \in [Handles -> {"nothing", "success", "failed"}]
  /\ got \in [Handles -> Seq((1 .. Len(links)) \X Nat)]

(* With the network down there is no socket, so that none comes back to    *)
(* life when the guest brings the network up again (lib.rs:2612, 3747).    *)
NoSocketWhileDown == ~ready => Live = {}

(* What the guest reads through a handle are the bytes of one stream, from *)
(* the first on, without gap or repetition, whatever calls come between    *)
(* and however the host takes the socket out and puts it back; only bytes  *)
(* read into a bad buffer are missing.                                     *)
ReadsOneStream ==
  \A h \in Live : IsStream(sockets[h]) =>
    LET link == links[sockets[h].end] IN
    ~link.lost => got[h] \o From(sockets[h].end, link.unread)
                    = From(sockets[h].end, [i \in 1 .. link.sent |-> i])

(* A socket is in the failed state only if the guest was told so by the    *)
(* last call it made with the handle.                                      *)
FailureWasTold == \A h \in Live : sockets[h].state = "failed" => told[h] = "failed"

(* The handles given out that name no socket any more are those the guest  *)
(* has closed, itself or with the network: mr_connect, mr_recvfrom and     *)
(* mr_sendto put back what they took out on every path, whether they       *)
(* succeed, time out or fail, over any number of calls (lib.rs:2653-2720,  *)
(* 2918-3029, 3101-3204).                                                  *)
SocketsPutBack ==
  /\ Live \cap closed = {}
  /\ \A h \in Handles : h < next => h \in Live \cup closed

(* The map and the counter, seen as the lives of all handles. *)
LifeOf(h) ==
  CASE h \in Live -> IF sockets[h].end = 0
                     THEN [stage |-> "idle", end |-> 0]
                     ELSE [stage |-> "bound", end |-> sockets[h].end]
    [] h \notin Live /\ h < next -> [stage |-> "gone", end |-> 0]
    [] OTHER -> [stage |-> "unused", end |-> 0]

Lives == INSTANCE SocketLives WITH
  life <- [h \in Handles |-> LifeOf(h)], ends <- Len(links)

(* A handle is never given out twice, not even across mr_closeNetwork; it  *)
(* has at most one endpoint until it is closed, and shares it with none.   *)
HandlesLiveOnce == Lives!Spec

=============================================================================
