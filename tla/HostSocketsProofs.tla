-------------------------- MODULE HostSocketsProofs --------------------------
(***************************************************************************)
(* Proofs about HostSockets, for any number of handles and any traffic.    *)
(***************************************************************************)
EXTENDS HostSockets, SequenceTheorems, TLAPS

-----------------------------------------------------------------------------
(* Sequences. *)

Numbers(k) == [i \in 1 .. k |-> i]

LEMMA FromProperties ==
  ASSUME NEW e, NEW s \in Seq(Nat)
  PROVE  /\ From(e, s) \in Seq({e} \X Nat)
         /\ Len(From(e, s)) = Len(s)
         /\ \A i \in 1 .. Len(s) : From(e, s)[i] = <<e, s[i]>>
<1>1. Len(s) \in Nat /\ DOMAIN s = 1 .. Len(s) /\ \A i \in 1 .. Len(s) : s[i] \in Nat
  BY LenProperties, ElementOfSeq
<1>2. From(e, s) = [i \in 1 .. Len(s) |-> <<e, s[i]>>]
  BY <1>1 DEF From
<1>3. [i \in 1 .. Len(s) |-> <<e, s[i]>>] \in Seq({e} \X Nat)
  BY <1>1
<1> QED BY <1>1, <1>2, <1>3

LEMMA FromEmpty == ASSUME NEW e PROVE From(e, << >>) = << >>
BY DEF From

LEMMA FromConcat ==
  ASSUME NEW e, NEW s \in Seq(Nat), NEW t \in Seq(Nat)
  PROVE  From(e, s \o t) = From(e, s) \o From(e, t)
<1> DEFINE l == From(e, s \o t)
           r == From(e, s) \o From(e, t)
<1>1. /\ s \o t \in Seq(Nat) /\ Len(s \o t) = Len(s) + Len(t)
      /\ \A i \in 1 .. Len(s) + Len(t) :
           (s \o t)[i] = IF i <= Len(s) THEN s[i] ELSE t[i - Len(s)]
  BY ConcatProperties
<1>2. /\ l \in Seq({e} \X Nat) /\ Len(l) = Len(s \o t)
      /\ \A i \in 1 .. Len(s \o t) : l[i] = <<e, (s \o t)[i]>>
  BY <1>1, FromProperties
<1>3. /\ From(e, s) \in Seq({e} \X Nat) /\ Len(From(e, s)) = Len(s)
      /\ \A i \in 1 .. Len(s) : From(e, s)[i] = <<e, s[i]>>
  BY FromProperties
<1>4. /\ From(e, t) \in Seq({e} \X Nat) /\ Len(From(e, t)) = Len(t)
      /\ \A i \in 1 .. Len(t) : From(e, t)[i] = <<e, t[i]>>
  BY FromProperties
<1>5. /\ r \in Seq({e} \X Nat) /\ Len(r) = Len(From(e, s)) + Len(From(e, t))
      /\ \A i \in 1 .. Len(From(e, s)) + Len(From(e, t)) :
           r[i] = IF i <= Len(From(e, s)) THEN From(e, s)[i]
                  ELSE From(e, t)[i - Len(From(e, s))]
  BY <1>3, <1>4, ConcatProperties
<1>6. Len(s) \in Nat /\ Len(t) \in Nat
  BY LenProperties
<1> HIDE DEF l, r
<1>7. \A i \in 1 .. Len(s) + Len(t) : l[i] = r[i]
  <2> SUFFICES ASSUME NEW i \in 1 .. Len(s) + Len(t) PROVE l[i] = r[i]
    OBVIOUS
  <2>1. CASE i <= Len(s)
    <3>1. i \in 1 .. Len(s)
      BY <1>6, <2>1
    <3>2. l[i] = <<e, s[i]>>
      BY <1>1, <1>2, <2>1
    <3>3. r[i] = From(e, s)[i]
      BY <1>3, <1>4, <1>5, <2>1
    <3> QED BY <1>3, <3>1, <3>2, <3>3
  <2>2. CASE ~ (i <= Len(s))
    <3>1. i - Len(s) \in 1 .. Len(t)
      BY <1>6, <2>2
    <3>2. l[i] = <<e, t[i - Len(s)]>>
      BY <1>1, <1>2, <2>2
    <3>3. r[i] = From(e, t)[i - Len(s)]
      BY <1>3, <1>4, <1>5, <2>2
    <3> QED BY <1>4, <3>1, <3>2, <3>3
  <2> QED BY <2>1, <2>2
<1>8. l = r
  BY <1>1, <1>2, <1>3, <1>4, <1>5, <1>7, SeqEqual
<1> QED BY <1>8 DEF l, r

LEMMA Pieces ==
  ASSUME NEW u \in Seq(Nat), NEW n \in 1 .. Len(u)
  PROVE  /\ SubSeq(u, 1, n) \in Seq(Nat) /\ SubSeq(u, n + 1, Len(u)) \in Seq(Nat)
         /\ SubSeq(u, 1, n) \o SubSeq(u, n + 1, Len(u)) = u
<1>1. Len(u) \in Nat /\ \A i \in 1 .. Len(u) : u[i] \in Nat
  BY LenProperties, ElementOfSeq
<1>2. SubSeq(u, 1, n) \in Seq(Nat)
  BY <1>1, SubSeqProperties
<1>3. SubSeq(u, n + 1, Len(u)) \in Seq(Nat)
  BY <1>1, SubSeqProperties
<1>4. SubSeq(u, 1, n) \o SubSeq(u, n + 1, Len(u)) = SubSeq(u, 1, Len(u))
  <2>1. 1 \in 1 .. Len(u) + 1 /\ n \in 1 - 1 .. Len(u) /\ Len(u) \in n .. Len(u)
    BY <1>1
  <2> QED BY <2>1, ConcatAdjacentSubSeq
<1>5. SubSeq(u, 1, Len(u)) = u
  BY SubSeqFull
<1> QED BY <1>2, <1>3, <1>4, <1>5

(* The first n bytes of u, and the rest. *)
Fore(u, n) == SubSeq(u, 1, n)
Rest(u, n) == SubSeq(u, n + 1, Len(u))

(* What was read, g, and after it the bytes u of endpoint e. *)
Then(g, e, u) == g \o From(e, u)

(* S holds all the bytes of endpoint e. *)
Covers(S, e) == {e} \X Nat \subseteq S

(* What was read and what is unread stay together when a read takes the    *)
(* front of the unread bytes ...                                           *)
LEMMA ReadKeepsTogether ==
  ASSUME NEW S, NEW g \in Seq(S), NEW e, NEW u \in Seq(Nat), NEW n \in 1 .. Len(u),
         Covers(S, e)
  PROVE  /\ Then(g, e, Fore(u, n)) \in Seq(S)
         /\ Then(Then(g, e, Fore(u, n)), e, Rest(u, n)) = Then(g, e, u)
<1> DEFINE a == Fore(u, n)
           b == Rest(u, n)
           x == From(e, a)
           y == From(e, b)
<1>1. a \in Seq(Nat) /\ b \in Seq(Nat) /\ a \o b = u
  BY Pieces DEF Fore, Rest
<1> HIDE DEF a, b
<1>2. From(e, u) = x \o y
  BY <1>1, FromConcat
<1>3. x \in Seq(S) /\ y \in Seq(S)
  BY <1>1, FromProperties, SeqMonotonic DEF Covers
<1> HIDE DEF x, y
<1>4. (g \o x) \o y = g \o (x \o y) /\ g \o x \in Seq(S)
  BY <1>3, ConcatAssociative, ConcatProperties, SMTT(30)
<1> QED BY <1>2, <1>4 DEF a, b, x, y, Then

(* ... and when the peer sends one more. *)
LEMMA SendKeepsOrder ==
  ASSUME NEW S, NEW g \in Seq(S), NEW e, NEW u \in Seq(Nat), NEW k \in Nat,
         Covers(S, e), Then(g, e, u) = From(e, Numbers(k))
  PROVE  Then(g, e, Append(u, k + 1)) = From(e, Numbers(k + 1))
<1>1. k + 1 \in Nat /\ <<k + 1>> \in Seq(Nat)
  OBVIOUS
<1>2. Append(u, k + 1) = u \o <<k + 1>>
  BY <1>1, AppendIsConcat
<1>3. Numbers(k) \in Seq(Nat) /\ Numbers(k + 1) \in Seq(Nat)
  BY DEF Numbers
<1>4. Numbers(k + 1) = Numbers(k) \o <<k + 1>>
  <2> DEFINE l == Numbers(k + 1)
             r == Numbers(k) \o <<k + 1>>
  <2>1. /\ r \in Seq(Nat) /\ Len(r) = k + 1
        /\ \A i \in 1 .. k + 1 : r[i] = i
    <3> DEFINE m == Numbers(k)
               o == <<k + 1>>
    <3>1. /\ m \in Seq(Nat) /\ Len(m) = k /\ \A i \in 1 .. k : m[i] = i
          /\ o \in Seq(Nat) /\ Len(o) = 1 /\ o[1] = k + 1
      BY <1>1, <1>3 DEF Numbers
    <3> HIDE DEF m, o
    <3>2. /\ m \o o \in Seq(Nat) /\ Len(m \o o) = Len(m) + Len(o)
          /\ \A i \in 1 .. Len(m) + Len(o) :
               (m \o o)[i] = IF i <= Len(m) THEN m[i] ELSE o[i - Len(m)]
      BY <3>1, ConcatProperties
    <3>3. \A i \in 1 .. k + 1 : (m \o o)[i] = i
      BY <3>1, <3>2
    <3> QED BY <3>1, <3>2, <3>3 DEF m, o
  <2>2. l \in Seq(Nat) /\ Len(l) = k + 1 /\ \A i \in 1 .. k + 1 : l[i] = i
    BY <1>3 DEF Numbers
  <2> HIDE DEF l, r
  <2>3. l = r
    BY <2>1, <2>2, SeqEqual
  <2> QED BY <2>3 DEF l, r
<1>5. From(e, Append(u, k + 1)) = From(e, u) \o From(e, <<k + 1>>)
  BY <1>1, <1>2, FromConcat
<1>6. From(e, Numbers(k + 1)) = From(e, Numbers(k)) \o From(e, <<k + 1>>)
  BY <1>1, <1>3, <1>4, FromConcat
<1>7. From(e, u) \in Seq(S) /\ From(e, <<k + 1>>) \in Seq(S)
  BY <1>1, FromProperties, SeqMonotonic DEF Covers
<1>8. g \o (From(e, u) \o From(e, <<k + 1>>)) = (g \o From(e, u)) \o From(e, <<k + 1>>)
  <2> DEFINE y == From(e, <<k + 1>>)
             x == From(e, u)
  <2>1. g \in Seq(S) /\ x \in Seq(S) /\ y \in Seq(S)
    BY <1>7
  <2> HIDE DEF x, y
  <2>2. g \o (x \o y) = (g \o x) \o y
    BY ONLY <2>1, ConcatAssociative, SMTT(30)
  <2> QED BY <2>2 DEF x, y
<1> QED BY <1>5, <1>6, <1>8 DEF Then

-----------------------------------------------------------------------------
(* The inductive invariant: the properties, and what they rest on.  The    *)
(* handles in use are below the counter; every endpoint in use is known to *)
(* the network and belongs to one socket; nothing was read through a       *)
(* handle that has no endpoint yet.                                        *)

Below == \A h \in Live : h < next
EndsKnown == \A h \in Live : sockets[h].end <= Len(links)
EndsApart ==
  \A g, h \in Live : g # h => sockets[g].end = 0 \/ sockets[g].end # sockets[h].end
Untouched ==
  \A h \in Handles : h >= next \/ (h \in Live /\ sockets[h].end = 0) => got[h] = << >>

SockInv ==
  /\ TypeOK
  /\ NoSocketWhileDown
  /\ FailureWasTold
  /\ ReadsOneStream
  /\ Below
  /\ EndsKnown
  /\ EndsApart
  /\ Untouched

LEMMA EndsInRange ==
  ASSUME TypeOK, EndsKnown
  PROVE  /\ Len(links) \in Nat
         /\ \A g \in Live : sockets[g] \in Socket /\ sockets[g].end \in 0 .. Len(links)
<1>1. Len(links) \in Nat
  BY LenProperties DEF TypeOK
<1>2. \A g \in Live : sockets[g] \in Socket
  BY DEF TypeOK
<1>3. \A g \in Live : sockets[g].end \in Nat
  BY <1>2 DEF Socket
<1>4. \A g \in Live : sockets[g].end <= Len(links)
  BY DEF EndsKnown
<1> QED BY <1>1, <1>2, <1>3, <1>4

InOrder(e, link, g) ==
  ~link.lost => Then(g, e, link.unread) = From(e, Numbers(link.sent))

LEMMA ReadsInOrder ==
  ReadsOneStream <=>
    \A h \in Live : IsStream(sockets[h]) =>
      InOrder(sockets[h].end, links[sockets[h].end], got[h])
BY DEF ReadsOneStream, InOrder, Numbers, Then

LEMMA ReadsInOrderNext ==
  ReadsOneStream' <=>
    \A h \in Live' : IsStream(sockets'[h]) =>
      InOrder(sockets'[h].end, links'[sockets'[h].end], got'[h])
BY DEF ReadsOneStream, InOrder, Numbers, Then, IsStream

LEMMA SocketsInit == Init => SockInv
<1> SUFFICES ASSUME Init PROVE SockInv
  OBVIOUS
<1>1. Live = {} /\ next = FirstHandle /\ links = << >> /\ ready = FALSE
  BY DEF Init, Live
<1>2. TypeOK
  <2>1. sockets \in [Live -> Socket]
    BY <1>1 DEF Init
  <2>2. got \in [Handles -> Seq((1 .. Len(links)) \X Nat)]
    <3>1. << >> \in Seq((1 .. Len(links)) \X Nat)
      BY EmptySeq
    <3> QED BY <3>1 DEF Init
  <2>3. /\ next \in FirstHandle .. MaxHandle + 1
        /\ told \in [Handles -> {"nothing", "success", "failed"}]
        /\ links \in Seq(Link)
    BY <1>1, HandleAssumption DEF Init
  <2> QED BY <1>1, <2>1, <2>2, <2>3 DEF TypeOK
<1>3. Untouched
  BY <1>1 DEF Init, Untouched
<1> QED
  BY <1>1, <1>2, <1>3
     DEF SockInv, NoSocketWhileDown, FailureWasTold, ReadsOneStream, Below, EndsKnown, EndsApart

-----------------------------------------------------------------------------
(* The forms a step takes. *)

(* The call answers, and may change what state the socket is in. *)
Answers(h) ==
  /\ Found(h)
  /\ \E state, answer \in {"success", "failed"} :
       /\ state = "failed" => answer = "failed"
       /\ Settle(h, Is(sockets[h], state), answer)

(* The call gives the socket an endpoint. *)
Binds(h) ==
  /\ Found(h) /\ sockets[h].end = 0
  /\ \E state, answer \in {"success", "failed"} :
       /\ state = "failed" => answer = "failed"
       /\ Bind(h, state, answer)

(* The call reads from a stream. *)
Reads(h) ==
  /\ Found(h) /\ IsStream(sockets[h])
  /\ \E n \in 1 .. MaxBytes : Take(h, n) \/ TakeThenFault(h, n)

PeerActs(e) == PeerSends(e) \/ PeerCloses(e) \/ PeerResets(e)

LEMMA CallForms ==
  ASSUME TypeOK, FailureWasTold, NEW h \in Handles, Call(h)
  PROVE  Refused(h) \/ CloseSocket(h) \/ Answers(h) \/ Binds(h) \/ Reads(h)
<1>1. h \in Live => sockets[h] \in Socket
  BY DEF TypeOK
<1>2. ASSUME Found(h), Failing(h) \/ Succeeding(h) PROVE Answers(h)
  BY <1>2 DEF Answers, Failing, Succeeding
<1>3. ASSUME Found(h), NEW answer \in {"success", "failed"},
             sockets[h].state = "failed" => answer = "failed",
             Settle(h, sockets[h], answer)
      PROVE  Answers(h)
  <2>1. sockets[h].state \in {"success", "failed"}
        /\ Is(sockets[h], sockets[h].state) = sockets[h]
    BY <1>1, <1>3 DEF Is, Socket, Found
  <2> QED BY <1>3, <2>1 DEF Answers
<1>4. ASSUME Found(h), Settle(h, sockets[h], sockets[h].state) PROVE Answers(h)
  <2>1. sockets[h].state \in {"success", "failed"}
    BY <1>1, <1>4 DEF Socket, Found
  <2> QED BY <1>3, <1>4, <2>1
<1>5. ASSUME Found(h), Settle(h, Is(sockets[h], "success"), "failed") PROVE Answers(h)
  BY <1>5 DEF Answers
<1>6. CASE Connect(h)
  BY <1>2, <1>4, <1>6 DEF Connect, Connectable, Binds
<1>7. CASE GetSocketState(h)
  BY <1>4, <1>7 DEF GetSocketState
<1>8. CASE Recv(h)
  BY <1>2, <1>5, <1>8 DEF Recv, RecvStream, RecvUdp, RecvPending, TakeNothing, Reads
<1>9. CASE Send(h)
  BY <1>2, <1>9 DEF Send
<1>10. ASSUME WithDatagram(h) PROVE Answers(h) \/ Binds(h)
  BY <1>2, <1>3, <1>10 DEF WithDatagram, Binds
<1>11. CASE RecvFrom(h)
  BY <1>5, <1>10, <1>11 DEF RecvFrom, Binds
<1> QED BY <1>6, <1>7, <1>8, <1>9, <1>10, <1>11 DEF Call, SendTo

-----------------------------------------------------------------------------
(* Every form keeps the invariant.                                         *)

(* A change of state of one socket, the network's ends and the handles     *)
(* being what they were. *)
LEMMA AnswersInv ==
  ASSUME SockInv, NEW h \in Handles, Answers(h)
  PROVE  SockInv'
<1>1. PICK state, answer \in {"success", "failed"} :
        /\ state = "failed" => answer = "failed"
        /\ Settle(h, Is(sockets[h], state), answer)
  BY DEF Answers
<1>2. ready /\ h \in Live
  BY DEF Answers, Found
<1>3. /\ sockets' = [sockets EXCEPT ![h] = Is(sockets[h], state)]
      /\ told' = [told EXCEPT ![h] = answer]
      /\ UNCHANGED <<ready, next, links, got>>
  BY <1>1 DEF Settle, Settled
<1>4. sockets \in [Live -> Socket] /\ told \in [Handles -> {"nothing", "success", "failed"}]
  BY DEF SockInv, TypeOK
<1>5. Live' = Live
  BY <1>3, <1>4 DEF Live
<1>6. \A g \in Live : /\ sockets'[g] \in Socket
                      /\ sockets'[g].end = sockets[g].end
                      /\ sockets'[g].type = sockets[g].type
                      /\ g # h => sockets'[g] = sockets[g]
  BY <1>1, <1>2, <1>3, <1>4 DEF Is, Socket
<1>7. sockets'[h].state = state
  BY <1>1, <1>2, <1>3, <1>4 DEF Is, Socket
<1>8. TypeOK'
  <2>1. sockets' \in [Live -> Socket]
    BY <1>3, <1>4, <1>6
  <2>2. told' \in [Handles -> {"nothing", "success", "failed"}]
    BY <1>1, <1>3, <1>4
  <2> QED BY <1>3, <1>5, <2>1, <2>2 DEF SockInv, TypeOK
<1>9. FailureWasTold'
  BY <1>1, <1>3, <1>4, <1>5, <1>6, <1>7 DEF SockInv, FailureWasTold, TypeOK
<1>10. ReadsOneStream'
  BY <1>3, <1>5, <1>6, ReadsInOrder, ReadsInOrderNext DEF SockInv, IsStream
<1> QED
  BY <1>2, <1>3, <1>5, <1>6, <1>8, <1>9, <1>10
     DEF SockInv, NoSocketWhileDown, Below, EndsKnown, EndsApart, Untouched

(* A socket gets a fresh endpoint. *)
LEMMA BindsInv ==
  ASSUME SockInv, NEW h \in Handles, Binds(h)
  PROVE  SockInv'
<1> DEFINE e == Len(links) + 1
<1>1. PICK state, answer \in {"success", "failed"} :
        /\ state = "failed" => answer = "failed"
        /\ Bind(h, state, answer)
  BY DEF Binds
<1>2. ready /\ h \in Live /\ sockets[h].end = 0
  BY DEF Binds, Found
<1>3. /\ links' = Append(links, NewLink)
      /\ sockets' = [sockets EXCEPT ![h] = [sockets[h] EXCEPT !.end = e, !.state = state]]
      /\ told' = [told EXCEPT ![h] = answer]
      /\ UNCHANGED <<ready, next, got>>
  BY <1>1 DEF Bind, Settled
<1>4. /\ sockets \in [Live -> Socket] /\ told \in [Handles -> {"nothing", "success", "failed"}]
      /\ links \in Seq(Link) /\ NewLink \in Link /\ Len(links) \in Nat
  <2>1. << >> \in Seq(Nat)
    BY EmptySeq
  <2> QED BY <2>1, LenProperties DEF SockInv, TypeOK, NewLink, Link
<1>5. Live' = Live
  BY <1>3, <1>4 DEF Live
<1>6. /\ links' \in Seq(Link) /\ Len(links') = e /\ links'[e] = NewLink
      /\ \A i \in 1 .. Len(links) : links'[i] = links[i]
  BY <1>3, <1>4, AppendProperties
<1>7. \A g \in Live : g # h => sockets'[g] = sockets[g]
  BY <1>3, <1>4
<1>8. /\ sockets'[h] \in Socket /\ sockets'[h].end = e
      /\ sockets'[h].state = state /\ sockets'[h].type = sockets[h].type
  <2> DEFINE r == [sockets[h] EXCEPT !.end = e, !.state = state]
  <2>1. e \in Nat /\ sockets[h] \in Socket
    BY <1>2, <1>4
  <2> HIDE DEF e
  <2>2. r \in Socket /\ r.end = e /\ r.state = state /\ r.type = sockets[h].type
    BY <2>1 DEF Socket
  <2>3. sockets'[h] = r
    BY <1>2, <1>3, <1>4
  <2> QED BY <2>2, <2>3
<1>9. \A g \in Live : sockets[g] \in Socket /\ sockets[g].end \in 0 .. Len(links)
  BY EndsInRange DEF SockInv
<1>10. TypeOK'
  <2>1. sockets' \in [Live -> Socket]
    BY <1>3, <1>4, <1>7, <1>8
  <2>2. told' \in [Handles -> {"nothing", "success", "failed"}]
    BY <1>1, <1>3, <1>4
  <2>3. got' \in [Handles -> Seq((1 .. Len(links')) \X Nat)]
    <3>1. (1 .. Len(links)) \X Nat \subseteq (1 .. Len(links')) \X Nat
      BY <1>4, <1>6
    <3>2. \A s \in Seq((1 .. Len(links)) \X Nat) : s \in Seq((1 .. Len(links')) \X Nat)
      BY <3>1, SeqMonotonic
    <3>3. got' \in [Handles -> Seq((1 .. Len(links)) \X Nat)]
      BY <1>3 DEF SockInv, TypeOK
    <3> QED BY ONLY <3>2, <3>3
  <2> QED BY <1>3, <1>5, <1>6, <2>1, <2>2, <2>3 DEF SockInv, TypeOK
<1>11. FailureWasTold'
  BY <1>1, <1>3, <1>4, <1>5, <1>7, <1>8 DEF SockInv, FailureWasTold, TypeOK
<1>12. EndsKnown' /\ EndsApart'
  <2>1. \A g \in Live : /\ g # h => sockets'[g].end \in 0 .. Len(links)
                        /\ sockets'[h].end = Len(links) + 1
    BY <1>7, <1>8, <1>9
  <2>2. EndsKnown'
    BY <1>4, <1>5, <1>6, <2>1 DEF EndsKnown
  <2>3. ASSUME NEW g \in Live, NEW f \in Live, g # f
        PROVE  sockets'[g].end = 0 \/ sockets'[g].end # sockets'[f].end
    <3>1. CASE g = h \/ f = h
      BY <1>4, <2>1, <2>3, <3>1
    <3>2. CASE g # h /\ f # h
      BY <1>7, <2>3, <3>2 DEF SockInv, EndsApart
    <3> QED BY <3>1, <3>2
  <2> QED BY <1>5, <2>2, <2>3 DEF EndsApart
<1>13. ReadsOneStream'
  <2> SUFFICES ASSUME NEW g \in Live, IsStream(sockets'[g])
               PROVE  InOrder(sockets'[g].end, links'[sockets'[g].end], got'[g])
    BY <1>5, ReadsInOrderNext
  <2>1. CASE g = h
    <3>1. got'[h] = << >>
      BY <1>2, <1>3 DEF SockInv, Untouched
    <3>2. From(e, << >>) = << >> /\ Numbers(0) = << >> /\ << >> \o << >> = << >>
      BY FromEmpty DEF Numbers
    <3>3. NewLink.unread = << >> /\ NewLink.sent = 0
      BY DEF NewLink
    <3> HIDE DEF e
    <3> QED BY <1>6, <1>8, <2>1, <3>1, <3>2, <3>3 DEF InOrder, Then
  <2>2. CASE g # h
    <3>1. sockets'[g] = sockets[g] /\ IsStream(sockets[g]) /\ sockets[g].end \in 1 .. Len(links)
      BY <1>4, <1>7, <1>9, <2>2 DEF IsStream
    <3>2. links'[sockets[g].end] = links[sockets[g].end] /\ got'[g] = got[g]
      BY <1>3, <1>6, <3>1
    <3> QED BY <3>1, <3>2, ReadsInOrder DEF SockInv
  <2> QED BY <2>1, <2>2
<1> QED
  BY <1>2, <1>3, <1>4, <1>5, <1>7, <1>8, <1>10, <1>11, <1>12, <1>13
     DEF SockInv, NoSocketWhileDown, Below, Untouched

(* The network's end of one stream changes; reading may go on with it. *)
LEMMA LinkInv ==
  ASSUME SockInv, NEW h \in Handles, h \in Live, IsStream(sockets[h]),
         NEW new \in Link, links' = [links EXCEPT ![sockets[h].end] = new],
         sockets' \in [Live -> Socket],
         \A g \in Live : sockets'[g].end = sockets[g].end /\ sockets'[g].type = sockets[g].type,
         told' \in [Handles -> {"nothing", "success", "failed"}],
         \A g \in Live : sockets'[g].state = "failed" => told'[g] = "failed",
         got' \in [Handles -> Seq((1 .. Len(links)) \X Nat)],
         \A g \in Handles : g # h => got'[g] = got[g],
         InOrder(sockets[h].end, new, got'[h]),
         UNCHANGED <<ready, next>>
  PROVE  SockInv'
<1> DEFINE e == sockets[h].end
<1>1. Live' = Live
  BY DEF Live
<1>2. Len(links) \in Nat /\ \A g \in Live : sockets[g] \in Socket /\ sockets[g].end \in 0 .. Len(links)
  BY EndsInRange DEF SockInv
<1>3. e \in 1 .. Len(links)
  BY <1>2 DEF IsStream
<1>4. /\ links' \in Seq(Link) /\ Len(links') = Len(links) /\ links'[e] = new
      /\ \A i \in 1 .. Len(links) : i # e => links'[i] = links[i]
  <2>1. links \in Seq(Link)
    BY DEF SockInv, TypeOK
  <2> QED BY <1>3, <2>1, ExceptSeq
<1>5. TypeOK'
  BY <1>1, <1>4 DEF SockInv, TypeOK
<1>6. FailureWasTold'
  BY <1>1 DEF FailureWasTold
<1>7. ReadsOneStream'
  <2> SUFFICES ASSUME NEW g \in Live, IsStream(sockets'[g])
               PROVE  InOrder(sockets'[g].end, links'[sockets'[g].end], got'[g])
    BY <1>1, ReadsInOrderNext
  <2>1. CASE g = h
    BY <1>4, <2>1
  <2>2. CASE g # h
    <3>1. IsStream(sockets[g]) /\ sockets'[g].end = sockets[g].end
      BY DEF IsStream
    <3>2. sockets[g].end # e /\ sockets[g].end \in 1 .. Len(links)
      BY <1>2, <2>2, <3>1 DEF SockInv, EndsApart, IsStream
    <3>3. links'[sockets[g].end] = links[sockets[g].end]
      BY <1>4, <3>2
    <3>4. got'[g] = got[g]
      BY <2>2 DEF SockInv, TypeOK
    <3> QED BY <3>1, <3>3, <3>4, ReadsInOrder DEF SockInv
  <2> QED BY <2>1, <2>2
<1>8. EndsKnown' /\ EndsApart' /\ Below' /\ NoSocketWhileDown'
  <2>1. EndsKnown'
    BY <1>1, <1>4 DEF SockInv, EndsKnown
  <2>2. EndsApart'
    <3>1. \A g \in Live : sockets'[g].end = sockets[g].end
      OBVIOUS
    <3>2. EndsApart
      BY DEF SockInv
    <3>3. \A g, f \in Live : g # f => sockets'[g].end = 0 \/ sockets'[g].end # sockets'[f].end
      BY ONLY <3>1, <3>2 DEF EndsApart
    <3> QED BY ONLY <1>1, <3>3 DEF EndsApart
  <2>3. Below' /\ NoSocketWhileDown'
    BY <1>1 DEF SockInv, Below, NoSocketWhileDown
  <2> QED BY <2>1, <2>2, <2>3
<1>9. Untouched'
  <2>1. h < next /\ sockets[h].end # 0 /\ next \in Int /\ h \in Int
    BY HandleAssumption DEF SockInv, Below, IsStream, TypeOK, Handles
  <2>2. ~ (h >= next)
    BY <2>1
  <2> QED BY <1>1, <2>1, <2>2 DEF SockInv, Untouched
<1> QED BY <1>5, <1>6, <1>7, <1>8, <1>9 DEF SockInv

(* A read moves bytes from the front of what is unread to what was read,   *)
(* or loses them.                                                          *)
LEMMA ReadsInv ==
  ASSUME SockInv, NEW h \in Handles, Reads(h)
  PROVE  SockInv'
<1> DEFINE e == sockets[h].end
           u == links[e].unread
           S == (1 .. Len(links)) \X Nat
<1>1. PICK n \in 1 .. MaxBytes : Take(h, n) \/ TakeThenFault(h, n)
  BY DEF Reads
<1>2. ready /\ h \in Live /\ IsStream(sockets[h])
  BY DEF Reads, Found
<1>3. Len(links) \in Nat /\ \A g \in Live : sockets[g] \in Socket /\ sockets[g].end \in 0 .. Len(links)
  BY EndsInRange DEF SockInv
<1>4. e \in 1 .. Len(links)
  BY <1>2, <1>3 DEF IsStream
<1>5. links \in Seq(Link) /\ links[e] \in Link
  BY <1>4, ElementOfSeq DEF SockInv, TypeOK
<1>6. u \in Seq(Nat)
  BY <1>5 DEF Link
<1>7. n \in 1 .. Len(u)
  BY <1>1 DEF Take, TakeThenFault
<1> DEFINE a == Fore(u, n)
           b == Rest(u, n)
<1>8. b \in Seq(Nat)
  BY <1>6, <1>7, Pieces DEF Rest
<1>9. got \in [Handles -> Seq(S)] /\ InOrder(e, links[e], got[h])
  BY <1>2, ReadsInOrder DEF SockInv, TypeOK
<1>10. Then(got[h], e, a) \in Seq(S) /\ Then(Then(got[h], e, a), e, b) = Then(got[h], e, u)
  <2>1. Covers(S, e) /\ got[h] \in Seq(S)
    BY <1>4, <1>9 DEF Covers
  <2> HIDE DEF e, u, S
  <2> QED BY <1>6, <1>7, <2>1, ReadKeepsTogether
<1>11. PICK answer \in {"success", "failed"} :
         /\ Settled(h, Is(sockets[h], "success"), answer)
         /\ UNCHANGED <<ready, next>>
  BY <1>1 DEF Take, TakeThenFault
<1>12. /\ sockets' = [sockets EXCEPT ![h] = Is(sockets[h], "success")]
       /\ told' = [told EXCEPT ![h] = answer]
  BY <1>11 DEF Settled
<1>13. /\ sockets' \in [Live -> Socket]
       /\ \A g \in Live : sockets'[g].end = sockets[g].end /\ sockets'[g].type = sockets[g].type
       /\ sockets'[h].state = "success"
       /\ \A g \in Live : g # h => sockets'[g] = sockets[g]
  <2>1. sockets \in [Live -> Socket] /\ Is(sockets[h], "success") \in Socket
        /\ Is(sockets[h], "success").end = sockets[h].end
        /\ Is(sockets[h], "success").type = sockets[h].type
        /\ Is(sockets[h], "success").state = "success"
    BY <1>2 DEF SockInv, TypeOK, Is, Socket
  <2> QED BY <1>2, <1>12, <2>1
<1>14. /\ told' \in [Handles -> {"nothing", "success", "failed"}]
       /\ \A g \in Live : sockets'[g].state = "failed" => told'[g] = "failed"
  BY <1>12, <1>13 DEF SockInv, TypeOK, FailureWasTold
<1>15. CASE Take(h, n)
  <2> DEFINE new == [links[e] EXCEPT !.unread = b]
  <2>1. /\ links' = [links EXCEPT ![e] = new]
        /\ got' = [got EXCEPT ![h] = Then(got[h], e, a)]
    BY <1>15 DEF Take, Then, Fore, Rest
  <2>2. /\ new \in Link /\ new.unread = b /\ new.lost = links[e].lost
        /\ new.sent = links[e].sent
    BY <1>5, <1>8 DEF Link
  <2> HIDE DEF new
  <2>3. got' \in [Handles -> Seq(S)] /\ got'[h] = Then(got[h], e, a)
        /\ \A g \in Handles : g # h => got'[g] = got[g]
    <3> DEFINE r == Then(got[h], e, a)
               T == Seq(S)
    <3>1. r \in T /\ got \in [Handles -> T] /\ got' = [got EXCEPT ![h] = r]
      BY <1>9, <1>10, <2>1
    <3> HIDE DEF r, T
    <3>2. got' \in [Handles -> T] /\ got'[h] = r
          /\ \A g \in Handles : g # h => got'[g] = got[g]
      BY <3>1
    <3> QED BY <3>2 DEF r, T
  <2>4. InOrder(e, new, got'[h])
    BY <1>9, <1>10, <2>2, <2>3 DEF InOrder
  <2> QED BY <1>2, <1>11, <1>13, <1>14, <2>1, <2>2, <2>3, <2>4, LinkInv
<1>16. CASE TakeThenFault(h, n)
  <2> DEFINE new == [links[e] EXCEPT !.unread = b, !.lost = TRUE]
  <2>1. links' = [links EXCEPT ![e] = new] /\ got' = got
    BY <1>5, <1>16 DEF TakeThenFault, Link, Rest
  <2>2. new \in Link /\ new.lost
    BY <1>5, <1>8 DEF Link
  <2> HIDE DEF new
  <2>3. InOrder(e, new, got'[h])
    BY <2>2 DEF InOrder
  <2> QED BY <1>2, <1>9, <1>11, <1>13, <1>14, <2>1, <2>2, <2>3, LinkInv
<1> QED BY <1>1, <1>15, <1>16

(* What the peer does to its end. *)
LEMMA PeersInv ==
  ASSUME SockInv, NEW e \in StreamEnds, PeerActs(e)
  PROVE  SockInv'
<1>1. PICK h \in Live : IsStream(sockets[h]) /\ e = sockets[h].end
  BY DEF StreamEnds
<1>2. Len(links) \in Nat /\ \A g \in Live : sockets[g] \in Socket /\ sockets[g].end \in 0 .. Len(links)
  BY EndsInRange DEF SockInv
<1>3. h \in Handles /\ e \in 1 .. Len(links)
  BY <1>1, <1>2 DEF IsStream, SockInv, TypeOK
<1>4. links[e] \in Link
  BY <1>3, ElementOfSeq DEF SockInv, TypeOK
<1>5. InOrder(e, links[e], got[h])
  BY <1>1, ReadsInOrder DEF SockInv
<1>6. UNCHANGED <<ready, next, sockets, told, got>>
  BY DEF PeerActs, PeerSends, PeerCloses, PeerResets
<1>7. /\ sockets' \in [Live -> Socket]
      /\ \A g \in Live : sockets'[g].end = sockets[g].end /\ sockets'[g].type = sockets[g].type
      /\ told' \in [Handles -> {"nothing", "success", "failed"}]
      /\ \A g \in Live : sockets'[g].state = "failed" => told'[g] = "failed"
      /\ got' \in [Handles -> Seq((1 .. Len(links)) \X Nat)]
      /\ \A g \in Handles : g # h => got'[g] = got[g]
  BY <1>6 DEF SockInv, TypeOK, FailureWasTold
<1>8. PICK new \in Link : links' = [links EXCEPT ![e] = new] /\ InOrder(e, new, got[h])
  <2>1. CASE PeerSends(e)
    <3> DEFINE k == links[e].sent
               u == links[e].unread
               new == [links[e] EXCEPT !.sent = k + 1, !.unread = Append(u, k + 1)]
               S == (1 .. Len(links)) \X Nat
    <3>1. links' = [links EXCEPT ![e] = new]
      BY <1>4, <2>1 DEF PeerSends, Link
    <3>2. k \in Nat /\ u \in Seq(Nat) /\ Append(u, k + 1) \in Seq(Nat)
      BY <1>4 DEF Link
    <3>3. /\ new \in Link /\ new.sent = k + 1 /\ new.unread = Append(u, k + 1)
          /\ new.lost = links[e].lost
      <4>1. \A v \in Seq(Nat), j \in Nat :
              LET l == [links[e] EXCEPT !.sent = j, !.unread = v]
              IN  l \in Link /\ l.sent = j /\ l.unread = v /\ l.lost = links[e].lost
        BY <1>4 DEF Link
      <4>2. k + 1 \in Nat
        BY <3>2
      <4> QED BY <3>2, <4>1, <4>2
    <3>4. InOrder(e, new, got[h])
      <4> SUFFICES ASSUME ~links[e].lost
                   PROVE  Then(got[h], e, Append(u, k + 1)) = From(e, Numbers(k + 1))
        BY <3>3 DEF InOrder
      <4>1. Then(got[h], e, u) = From(e, Numbers(k))
        BY <1>5 DEF InOrder
      <4>2. Covers(S, e) /\ got[h] \in Seq(S)
        BY <1>3 DEF SockInv, TypeOK, Covers
      <4> HIDE DEF k, u, S
      <4> QED BY <3>2, <4>1, <4>2, SendKeepsOrder
    <3> QED BY <3>1, <3>3, <3>4
  <2>2. CASE PeerCloses(e)
    <3> DEFINE new == [links[e] EXCEPT !.peer = "closed"]
    <3>1. links' = [links EXCEPT ![e] = new]
      BY <2>2 DEF PeerCloses
    <3>2. /\ new \in Link /\ new.sent = links[e].sent /\ new.unread = links[e].unread
          /\ new.lost = links[e].lost
      BY <1>4 DEF Link
    <3> QED BY <1>5, <3>1, <3>2 DEF InOrder
  <2>3. CASE PeerResets(e)
    <3> DEFINE new == [links[e] EXCEPT !.peer = "reset", !.unread = << >>, !.lost = TRUE]
    <3>1. links' = [links EXCEPT ![e] = new]
      BY <1>4, <2>3 DEF PeerResets, Link
    <3>2. << >> \in Seq(Nat)
      BY EmptySeq
    <3>3. new \in Link /\ new.lost
      BY <1>4, <3>2 DEF Link
    <3> QED BY <3>1, <3>3 DEF InOrder
  <2> QED BY <2>1, <2>2, <2>3 DEF PeerActs
<1> QED BY <1>1, <1>3, <1>6, <1>7, <1>8, LinkInv

(* Sockets leave the map: one when the guest closes it, all when the       *)
(* network goes down.                                                      *)
LEMMA LeavingInv ==
  ASSUME SockInv, NEW Stay \in SUBSET Live,
         sockets' = [h \in Stay |-> sockets[h]],
         ready' \in BOOLEAN, ~ready' => Stay = {},
         told' \in [Handles -> {"nothing", "success", "failed"}],
         \A h \in Stay : told'[h] = told[h],
         UNCHANGED <<next, links, got>>
  PROVE  SockInv'
<1>1. Live' = Stay /\ \A h \in Stay : h \in Live /\ sockets'[h] = sockets[h]
  BY DEF Live
<1>2. TypeOK'
  <2>1. sockets' \in [Stay -> Socket] /\ Stay \subseteq Handles
    BY <1>1 DEF SockInv, TypeOK
  <2> QED BY <1>1, <2>1 DEF SockInv, TypeOK
<1>3. ReadsOneStream'
  BY <1>1, ReadsInOrder, ReadsInOrderNext DEF SockInv
<1>4. FailureWasTold' /\ NoSocketWhileDown' /\ Below'
  BY <1>1 DEF SockInv, FailureWasTold, NoSocketWhileDown, Below
<1>5. EndsKnown' /\ EndsApart' /\ Untouched'
  BY <1>1 DEF SockInv, EndsKnown, EndsApart, Untouched
<1> QED BY <1>2, <1>3, <1>4, <1>5 DEF SockInv

LEMMA CloseNetworkInv == SockInv /\ CloseNetwork => SockInv'
<1> SUFFICES ASSUME SockInv, CloseNetwork PROVE SockInv'
  OBVIOUS
<1>1. sockets' = [h \in {} |-> sockets[h]]
  BY DEF CloseNetwork
<1> QED BY <1>1, LeavingInv DEF CloseNetwork, SockInv, TypeOK

LEMMA CloseSocketInv ==
  ASSUME SockInv, NEW h \in Handles, CloseSocket(h)
  PROVE  SockInv'
<1>1. sockets' = [g \in Live \ {h} |-> sockets[g]]
  BY DEF CloseSocket, Restrict
<1>2. /\ told' \in [Handles -> {"nothing", "success", "failed"}]
      /\ \A g \in Live \ {h} : told'[g] = told[g]
  BY DEF CloseSocket, SockInv, TypeOK
<1>3. ready' \in BOOLEAN /\ (~ready' => Live \ {h} = {}) /\ UNCHANGED <<next, links, got>>
  BY DEF CloseSocket, SockInv, TypeOK, NoSocketWhileDown
<1>4. Live \ {h} \in SUBSET Live
  OBVIOUS
<1> QED BY <1>1, <1>2, <1>3, <1>4, LeavingInv

(* A refused call changes only what the guest was told. *)
LEMMA RefusedInv ==
  ASSUME SockInv, NEW h \in Handles, Refused(h)
  PROVE  SockInv'
<1>1. /\ told' = [told EXCEPT ![h] = "failed"]
      /\ UNCHANGED <<ready, next, sockets, links, got>>
  BY DEF Refused
<1>2. Live' = Live
  BY <1>1 DEF Live
<1>3. TypeOK'
  BY <1>1, <1>2 DEF SockInv, TypeOK
<1>4. FailureWasTold'
  BY <1>1, <1>2 DEF SockInv, TypeOK, FailureWasTold
<1>5. ReadsOneStream'
  BY <1>1, <1>2, ReadsInOrder, ReadsInOrderNext DEF SockInv
<1> QED
  BY <1>1, <1>2, <1>3, <1>4, <1>5
     DEF SockInv, NoSocketWhileDown, Below, EndsKnown, EndsApart, Untouched

LEMMA InitNetworkInv == SockInv /\ InitNetwork => SockInv'
<1> SUFFICES ASSUME SockInv, InitNetwork PROVE SockInv'
  OBVIOUS
<1>1. ready' /\ UNCHANGED <<next, sockets, links, told, got>>
  BY DEF InitNetwork
<1>2. Live' = Live
  BY <1>1 DEF Live
<1>3. TypeOK'
  BY <1>1, <1>2 DEF SockInv, TypeOK, InitNetwork
<1>4. ReadsOneStream'
  BY <1>1, <1>2, ReadsInOrder, ReadsInOrderNext DEF SockInv
<1> QED
  BY <1>1, <1>2, <1>3, <1>4
     DEF SockInv, NoSocketWhileDown, FailureWasTold, Below, EndsKnown, EndsApart, Untouched

(* The new handle is above all that were given out, so nothing was read    *)
(* through it.                                                             *)
LEMMA OpenSocketInv == SockInv /\ OpenSocket => SockInv'
<1> SUFFICES ASSUME SockInv, OpenSocket PROVE SockInv'
  OBVIOUS
<1>1. PICK type \in Types :
        sockets' = [h \in Live \cup {next} |->
                      IF h = next THEN [type |-> type, end |-> 0, state |-> "success"]
                      ELSE sockets[h]]
  BY DEF OpenSocket, NextHandle
<1> DEFINE s == [type |-> type, end |-> 0, state |-> "success"]
<1>2. /\ ready /\ next \in Handles /\ next' = next + 1
      /\ UNCHANGED <<ready, links, told, got>>
  BY DEF OpenSocket, NextHandle
<1>3. next \in Nat /\ next \in FirstHandle .. MaxHandle /\ Live \subseteq Handles
  BY <1>2, HandleAssumption DEF Handles, SockInv, TypeOK
<1>4. next \notin Live /\ \A h \in Live : h \in Int /\ h < next
  BY <1>3, HandleAssumption DEF SockInv, Below, Handles
<1>5. s \in Socket /\ s.end = 0 /\ s.state = "success" /\ ~IsStream(s)
  BY DEF Socket, IsStream
<1> HIDE DEF s
<1>6. /\ Live' = Live \cup {next} /\ sockets'[next] = s
      /\ \A h \in Live : sockets'[h] = sockets[h]
  BY <1>1, <1>4 DEF Live, s
<1>7. TypeOK'
  <2>1. sockets' \in [Live \cup {next} -> Socket]
    BY <1>1, <1>5, <1>6 DEF SockInv, TypeOK, s
  <2>2. next' \in FirstHandle .. MaxHandle + 1
    BY <1>2, <1>3, HandleAssumption
  <2> QED BY <1>2, <1>3, <1>6, <2>1, <2>2 DEF SockInv, TypeOK
<1>8. ReadsOneStream'
  BY <1>2, <1>5, <1>6, ReadsInOrder, ReadsInOrderNext DEF SockInv
<1>9. FailureWasTold' /\ NoSocketWhileDown'
  BY <1>2, <1>5, <1>6 DEF SockInv, FailureWasTold, NoSocketWhileDown
<1>10. Below'
  BY <1>2, <1>3, <1>4, <1>6 DEF Below
<1>11. EndsKnown' /\ EndsApart'
  <2>1. Len(links) \in Nat
    BY LenProperties DEF SockInv, TypeOK
  <2>2. EndsKnown'
    BY <1>2, <1>5, <1>6, <2>1 DEF SockInv, EndsKnown
  <2>3. EndsApart'
    <3> SUFFICES ASSUME NEW g \in Live \cup {next}, NEW h \in Live \cup {next}, g # h
                 PROVE  sockets'[g].end = 0 \/ sockets'[g].end # sockets'[h].end
      BY <1>6 DEF EndsApart
    <3>1. CASE g = next
      BY <1>5, <1>6, <3>1
    <3>2. CASE g # next /\ h # next
      BY <1>6, <3>2 DEF SockInv, EndsApart
    <3>3. CASE g # next /\ h = next
      BY <1>5, <1>6, <3>3
    <3> QED BY <3>1, <3>2, <3>3
  <2> QED BY <2>2, <2>3
<1>12. Untouched'
  <2> SUFFICES ASSUME NEW h \in Handles, h >= next' \/ (h \in Live' /\ sockets'[h].end = 0)
               PROVE  got'[h] = << >>
    BY DEF Untouched
  <2>1. h \in Int
    BY HandleAssumption DEF Handles
  <2>2. h >= next \/ (h \in Live /\ sockets[h].end = 0)
    BY <1>2, <1>3, <1>6, <2>1
  <2> QED BY <1>2, <2>2 DEF SockInv, Untouched
<1> QED BY <1>7, <1>8, <1>9, <1>10, <1>11, <1>12 DEF SockInv

LEMMA SocketsNext == SockInv /\ [Next]_vars => SockInv'
<1> SUFFICES ASSUME SockInv, [Next]_vars PROVE SockInv'
  OBVIOUS
<1>1. CASE InitNetwork
  BY <1>1, InitNetworkInv
<1>2. CASE CloseNetwork
  BY <1>2, CloseNetworkInv
<1>3. CASE OpenSocket
  BY <1>3, OpenSocketInv
<1>4. CASE \E h \in Handles : Call(h)
  <2>1. PICK h \in Handles : Call(h)
    BY <1>4
  <2>2. Refused(h) \/ CloseSocket(h) \/ Answers(h) \/ Binds(h) \/ Reads(h)
    BY <2>1, CallForms DEF SockInv
  <2> QED BY <2>2, RefusedInv, CloseSocketInv, AnswersInv, BindsInv, ReadsInv
<1>5. CASE \E e \in StreamEnds : PeerActs(e)
  BY <1>5, PeersInv
<1>6. CASE UNCHANGED vars
  <2>1. Live' = Live
    BY <1>6 DEF vars, Live
  <2>2. ReadsOneStream'
    BY <1>6, <2>1, ReadsInOrder, ReadsInOrderNext DEF SockInv, vars
  <2>3. TypeOK'
    BY <1>6, <2>1 DEF SockInv, TypeOK, vars
  <2> QED
    BY <1>6, <2>1, <2>2, <2>3
       DEF SockInv, vars, NoSocketWhileDown, FailureWasTold, Below, EndsKnown, EndsApart, Untouched
<1> QED BY <1>1, <1>2, <1>3, <1>4, <1>5, <1>6 DEF Next, PeerActs

LEMMA SocketsInvariance == Spec => []SockInv
BY SocketsInit, SocketsNext, PTL DEF Spec

-----------------------------------------------------------------------------
(* What follows for every execution. *)

(* Every field of the socket table keeps its type; what the guest has read *)
(* through a handle came from endpoints the host had (lib.rs:2592-3211).   *)
THEOREM SocketTypes == Spec => []TypeOK
<1>1. SockInv => TypeOK
  BY DEF SockInv
<1> QED BY <1>1, SocketsInvariance, PTL

(* While the network is down the table is empty, so no handle from before  *)
(* mr_closeNetwork works again after the next mr_initNetwork               *)
(* (lib.rs:2612-2621).                                                     *)
THEOREM DownMeansEmpty == Spec => []NoSocketWhileDown
<1>1. SockInv => NoSocketWhileDown
  BY DEF SockInv
<1> QED BY <1>1, SocketsInvariance, PTL

(* A socket is failed only if the last call with its handle said so        *)
(* (lib.rs:2646-3211).                                                     *)
THEOREM FailuresAreTold == Spec => []FailureWasTold
<1>1. SockInv => FailureWasTold
  BY DEF SockInv
<1> QED BY <1>1, SocketsInvariance, PTL

(* The guest reads the bytes of one stream in their order, unless some     *)
(* were lost to a bad buffer or a reset (lib.rs:2762-2837).                *)
THEOREM StreamsReadInOrder == Spec => []ReadsOneStream
<1>1. SockInv => ReadsOneStream
  BY DEF SockInv
<1> QED BY <1>1, SocketsInvariance, PTL

(* Handles that name no socket are closed ones, and no closed one is given *)
(* out again.                                                              *)
PutBackInv ==
  /\ SocketsPutBack
  /\ closed \subseteq Handles /\ \A h \in closed : h < next

(* A call other than the two that close leaves each socket it took out of  *)
(* the table in the table, whatever it answers.                            *)
LEMMA CallKeepsLive ==
  ASSUME SockInv, NEW h \in Handles,
         Refused(h) \/ Answers(h) \/ Binds(h) \/ Reads(h)
  PROVE  Live' = Live /\ UNCHANGED <<next, closed>>
<1>1. CASE Refused(h)
  BY <1>1 DEF Refused, Live
<1>2. CASE Answers(h) \/ Binds(h) \/ Reads(h)
  <2>1. PICK s : sockets' = [sockets EXCEPT ![h] = s]
    BY <1>2 DEF Answers, Settle, Binds, Bind, Reads, Take, TakeThenFault, Settled
  <2>2. UNCHANGED <<next, closed>>
    BY <1>2 DEF Answers, Settle, Binds, Bind, Reads, Take, TakeThenFault
  <2> QED BY <2>1, <2>2 DEF Live
<1> QED BY <1>1, <1>2

LEMMA PutBackNext == SockInv /\ PutBackInv /\ [Next]_vars => PutBackInv'
<1> SUFFICES ASSUME SockInv, PutBackInv, [Next]_vars PROVE PutBackInv'
  OBVIOUS
<1>1. /\ Live \subseteq Handles /\ \A h \in Live : h < next
      /\ \A h \in Handles : h \in Int
  BY HandleAssumption DEF SockInv, TypeOK, Below, Handles
<1>2. ASSUME Live' = Live, UNCHANGED <<next, closed>> PROVE PutBackInv'
  BY <1>2 DEF PutBackInv, SocketsPutBack
<1>3. CASE InitNetwork \/ UNCHANGED vars \/ \E e \in StreamEnds : PeerActs(e)
  BY <1>2, <1>3 DEF InitNetwork, vars, PeerActs, PeerSends, PeerCloses, PeerResets, Live
<1>4. CASE CloseNetwork
  <2>1. Live' = {} /\ next' = next /\ closed' = closed \cup Live
    BY <1>4 DEF CloseNetwork, Live
  <2> QED BY <1>1, <2>1 DEF PutBackInv, SocketsPutBack
<1>5. CASE OpenSocket
  <2>1. PICK n : n = next
    OBVIOUS
  <2>2. /\ n \in Handles /\ next' = n + 1 /\ closed' = closed
        /\ Live' = Live \cup {n}
    BY <1>5, <2>1 DEF OpenSocket, NextHandle, Live
  <2>3. \A h \in Handles : h < n + 1 <=> h < n \/ h = n
    BY <1>1, <2>2
  <2>4. n \notin closed
    BY <1>1, <2>1, <2>2 DEF PutBackInv
  <2> QED BY <2>1, <2>2, <2>3, <2>4 DEF PutBackInv, SocketsPutBack
<1>6. CASE \E h \in Handles : Call(h)
  <2>1. PICK h \in Handles : Call(h)
    BY <1>6
  <2>2. CASE CloseSocket(h)
    <3>1. /\ h \in Live /\ Live' = Live \ {h} /\ next' = next
          /\ closed' = closed \cup {h}
      BY <2>2 DEF CloseSocket, Restrict, Live
    <3> QED BY <1>1, <3>1 DEF PutBackInv, SocketsPutBack
  <2>3. CASE Refused(h) \/ Answers(h) \/ Binds(h) \/ Reads(h)
    BY <1>2, <2>3, CallKeepsLive
  <2> QED BY <2>1, <2>2, <2>3, CallForms DEF SockInv
<1> QED BY <1>3, <1>4, <1>5, <1>6 DEF Next, PeerActs

(* The handles that name no socket are exactly the closed ones: no path of *)
(* connect, recvfrom and sendto, and none that answers success either,     *)
(* loses the socket it took out.                                           *)
THEOREM SocketsStay == Spec => []SocketsPutBack
<1>1. Init => PutBackInv
  <2> SUFFICES ASSUME Init PROVE PutBackInv
    OBVIOUS
  <2>1. Live = {} /\ closed = {} /\ next = FirstHandle
    BY DEF Init, Live
  <2>2. \A h \in Handles : ~(h < next)
    BY <2>1, HandleAssumption DEF Handles
  <2> QED BY <2>1, <2>2 DEF PutBackInv, SocketsPutBack
<1>2. SockInv /\ PutBackInv /\ [Next]_vars => PutBackInv'
  BY PutBackNext
<1>3. PutBackInv => SocketsPutBack
  BY DEF PutBackInv
<1> QED BY <1>1, <1>2, <1>3, SocketsInvariance, PTL DEF Spec

-----------------------------------------------------------------------------
(* The table and its counter implement the lives of handles.               *)

LifeMap == [h \in Handles |-> LifeOf(h)]

LEMMA LifeForms ==
  ASSUME NEW h
  PROVE  /\ h \in Live /\ sockets[h].end = 0 => LifeOf(h) = Lives!Stage("idle")
         /\ h \in Live /\ sockets[h].end # 0 => LifeOf(h) = Lives!BoundTo(sockets[h].end)
         /\ h \notin Live /\ h < next => LifeOf(h) = Lives!Stage("gone")
         /\ h \notin Live /\ ~(h < next) => LifeOf(h) = Lives!Stage("unused")
BY DEF LifeOf, Lives!Stage, Lives!BoundTo

LEMMA LifeFormsNext ==
  ASSUME NEW h
  PROVE  /\ h \in Live' /\ sockets'[h].end = 0 => LifeOf(h)' = Lives!Stage("idle")
         /\ h \in Live' /\ sockets'[h].end # 0 => LifeOf(h)' = Lives!BoundTo(sockets'[h].end)
         /\ h \notin Live' /\ h < next' => LifeOf(h)' = Lives!Stage("gone")
         /\ h \notin Live' /\ ~(h < next') => LifeOf(h)' = Lives!Stage("unused")
BY DEF LifeOf, Lives!Stage, Lives!BoundTo

LEMMA InUseIsLive ==
  ASSUME NEW h \in Handles
  PROVE  Lives!InUse(h) <=> h \in Live
<1>1. LifeMap[h] = LifeOf(h)
  BY DEF LifeMap
<1>2. Lives!InUse(h) <=> LifeOf(h).stage \in {"idle", "bound"}
  BY <1>1 DEF Lives!InUse, LifeMap
<1> QED BY <1>2, LifeForms DEF Lives!Stage, Lives!BoundTo

(* No handle's life goes on when the table and the counter keep what it    *)
(* depends on.                                                             *)
LEMMA LivesStutter ==
  ASSUME Live' = Live, \A h \in Live : sockets'[h].end = sockets[h].end,
         next' = next, Len(links') = Len(links)
  PROVE  UNCHANGED <<LifeMap, Len(links)>>
<1>1. \A h \in Handles : LifeOf(h)' = LifeOf(h)
  BY LifeForms, LifeFormsNext
<1> QED BY <1>1 DEF LifeMap

LEMMA LivesInit == Init => Lives!Init
<1> SUFFICES ASSUME Init PROVE Lives!Init
  OBVIOUS
<1>1. Live = {} /\ next = FirstHandle /\ Len(links) = 0
  BY DEF Init, Live
<1>2. \A h \in Handles : h \notin Live /\ ~(h < next)
  BY <1>1, HandleAssumption DEF Handles
<1>3. \A h \in Handles : LifeOf(h) = Lives!Stage("unused")
  BY <1>2, LifeForms
<1> QED BY <1>1, <1>3 DEF Lives!Init

LEMMA LivesBind ==
  ASSUME SockInv, NEW h \in Handles, Binds(h)
  PROVE  Lives!Bind(h)
<1>1. PICK s : sockets' = [sockets EXCEPT ![h] = [sockets[h] EXCEPT !.end = Len(links) + 1, !.state = s]]
  BY DEF Binds, Bind, Settled
<1>2. h \in Live /\ sockets[h].end = 0 /\ sockets[h] \in Socket /\ next' = next
  BY DEF Binds, Found, Bind, SockInv, TypeOK
<1>3. Len(links') = Len(links) + 1 /\ Len(links) \in Nat
  <2>1. links' = Append(links, NewLink) /\ links \in Seq(Link)
    BY DEF Binds, Bind, SockInv, TypeOK
  <2> QED BY <2>1, LenProperties
<1>4. /\ Live' = Live /\ sockets'[h].end = Len(links) + 1
      /\ \A g \in Live : g # h => sockets'[g] = sockets[g]
  BY <1>1, <1>2 DEF Live, Socket
<1>5. LifeOf(h) = Lives!Stage("idle") /\ LifeOf(h)' = Lives!BoundTo(Len(links) + 1)
  BY <1>2, <1>3, <1>4, LifeForms, LifeFormsNext
<1>6. \A g \in Handles : g # h => LifeOf(g)' = LifeOf(g)
  BY <1>2, <1>4, LifeForms, LifeFormsNext
<1>7. LifeMap' = [LifeMap EXCEPT ![h] = Lives!BoundTo(Len(links) + 1)]
  BY <1>5, <1>6 DEF LifeMap
<1> QED BY <1>3, <1>5, <1>7 DEF Lives!Bind, LifeMap

LEMMA LivesClose ==
  ASSUME SockInv, NEW h \in Handles, CloseSocket(h)
  PROVE  Lives!Close(h)
<1>1. /\ h \in Live /\ Live' = Live \ {h} /\ next' = next /\ links' = links
      /\ \A g \in Live \ {h} : sockets'[g] = sockets[g]
  BY DEF CloseSocket, Restrict, Live
<1>2. h < next
  BY <1>1 DEF SockInv, Below
<1>3. LifeOf(h)' = Lives!Stage("gone")
  BY <1>1, <1>2, LifeFormsNext
<1>4. \A g \in Handles : g # h => LifeOf(g)' = LifeOf(g)
  BY <1>1, LifeForms, LifeFormsNext
<1>5. LifeMap' = [LifeMap EXCEPT ![h] = Lives!Stage("gone")]
  BY <1>3, <1>4 DEF LifeMap
<1>6. Lives!InUse(h)
  BY <1>1, InUseIsLive
<1> QED BY <1>1, <1>5, <1>6 DEF Lives!Close, LifeMap

LEMMA LivesCloseAll == SockInv /\ CloseNetwork => Lives!CloseAll
<1> SUFFICES ASSUME SockInv, CloseNetwork PROVE Lives!CloseAll
  OBVIOUS
<1>1. Live' = {} /\ next' = next /\ links' = links
  BY DEF CloseNetwork, Live
<1>2. ASSUME NEW h \in Handles
      PROVE  LifeOf(h)' = IF Lives!InUse(h) THEN Lives!Stage("gone") ELSE LifeOf(h)
  <2>1. CASE h \in Live
    <3>1. h < next
      BY <2>1 DEF SockInv, Below
    <3> QED BY <1>1, <2>1, <3>1, InUseIsLive, LifeFormsNext
  <2>2. CASE h \notin Live
    BY <1>1, <2>2, InUseIsLive, LifeForms, LifeFormsNext
  <2> QED BY <2>1, <2>2
<1>3. LifeMap' = [h \in Handles |-> IF Lives!InUse(h) THEN Lives!Stage("gone") ELSE LifeMap[h]]
  BY <1>2 DEF LifeMap
<1> QED BY <1>1, <1>3 DEF Lives!CloseAll, LifeMap

LEMMA LivesOpen == SockInv /\ OpenSocket => \E h \in Handles : Lives!Open(h)
<1> SUFFICES ASSUME SockInv, OpenSocket PROVE \E h \in Handles : Lives!Open(h)
  OBVIOUS
<1>n. PICK n : n = next
  OBVIOUS
<1>1. PICK s : s.end = 0 /\ sockets' = [h \in Live \cup {next} |-> IF h = next THEN s ELSE sockets[h]]
  <2>1. PICK type \in Types :
          sockets' = [h \in Live \cup {next} |->
                        IF h = next THEN [type |-> type, end |-> 0, state |-> "success"]
                        ELSE sockets[h]]
    BY DEF OpenSocket, NextHandle
  <2>2. [type |-> type, end |-> 0, state |-> "success"].end = 0
    OBVIOUS
  <2> QED BY <2>1, <2>2
<1>2. next \in Handles /\ next' = next + 1 /\ links' = links
  BY DEF OpenSocket, NextHandle
<1>3. n \in Int /\ \A h \in Handles : h \in Int
  BY <1>n, <1>2, HandleAssumption DEF Handles
<1>4. n \notin Live
  BY <1>n, <1>3 DEF SockInv, Below
<1>5. /\ Live' = Live \cup {n} /\ sockets'[n].end = 0
      /\ \A h \in Live : sockets'[h] = sockets[h]
  BY <1>n, <1>1, <1>4 DEF Live
<1>6. LifeOf(n) = Lives!Stage("unused") /\ LifeOf(n)' = Lives!Stage("idle")
  BY <1>n, <1>3, <1>4, <1>5, LifeForms, LifeFormsNext
<1>7. ASSUME NEW h \in Handles, h # n PROVE LifeOf(h)' = LifeOf(h)
  <2>1. h < next' <=> h < next
    BY <1>n, <1>2, <1>3, <1>7
  <2> QED BY <1>n, <1>5, <1>7, <2>1, LifeForms, LifeFormsNext
<1>8. LifeMap' = [LifeMap EXCEPT ![n] = Lives!Stage("idle")]
  BY <1>n, <1>2, <1>6, <1>7 DEF LifeMap
<1> QED BY <1>n, <1>2, <1>6, <1>8 DEF Lives!Open, LifeMap

(* A handle is given out once, has one endpoint until it is closed, and    *)
(* stays closed, across mr_closeNetwork too: the table, its counter and    *)
(* what connect, recvfrom and sendto put back implement the lives of       *)
(* handles (lib.rs:2592-3211).                                             *)
THEOREM HandlesImplementLives == Spec => HandlesLiveOnce
<1>1. SockInv /\ [Next]_vars => [Lives!Next]_<<LifeMap, Len(links)>>
  <2> SUFFICES ASSUME SockInv, [Next]_vars
               PROVE  Lives!Next \/ UNCHANGED <<LifeMap, Len(links)>>
    OBVIOUS
  <2>1. CASE InitNetwork \/ UNCHANGED vars
    BY <2>1, LivesStutter DEF InitNetwork, vars, Live
  <2>2. CASE CloseNetwork
    BY <2>2, LivesCloseAll DEF Lives!Next
  <2>3. CASE OpenSocket
    BY <2>3, LivesOpen DEF Lives!Next
  <2>4. CASE \E h \in Handles : Call(h)
    <3>1. PICK h \in Handles : Call(h)
      BY <2>4
    <3>2. Refused(h) \/ CloseSocket(h) \/ Answers(h) \/ Binds(h) \/ Reads(h)
      BY <3>1, CallForms DEF SockInv
    <3>3. CASE CloseSocket(h)
      BY <3>3, LivesClose DEF Lives!Next
    <3>4. CASE Binds(h)
      BY <3>4, LivesBind DEF Lives!Next
    <3>5. CASE Refused(h)
      BY <3>5, LivesStutter DEF Refused, Live
    <3>6. CASE Answers(h) \/ Reads(h)
      <4>1. PICK state : sockets' = [sockets EXCEPT ![h] = Is(sockets[h], state)]
        BY <3>6 DEF Answers, Settle, Reads, Take, TakeThenFault, Settled
      <4>2. h \in Live /\ sockets[h] \in Socket /\ next' = next
        BY <3>6 DEF Answers, Found, Settle, Reads, Take, TakeThenFault, SockInv, TypeOK
      <4>3. Live' = Live /\ \A g \in Live : sockets'[g].end = sockets[g].end
        BY <4>1, <4>2 DEF Live, Is, Socket
      <4>4. Len(links') = Len(links)
        <5>1. \A f \in Seq(Link) : \A e, l : Len([f EXCEPT ![e] = l]) = Len(f)
          OBVIOUS
        <5>2. links \in Seq(Link)
          BY DEF SockInv, TypeOK
        <5>3. CASE Answers(h)
          BY <5>3 DEF Answers, Settle
        <5>4. ASSUME NEW n, Take(h, n) PROVE Len(links') = Len(links)
          BY <5>1, <5>2, <5>4 DEF Take
        <5>5. ASSUME NEW n, TakeThenFault(h, n) PROVE Len(links') = Len(links)
          BY <5>1, <5>2, <5>5 DEF TakeThenFault
        <5> QED BY <3>6, <5>3, <5>4, <5>5 DEF Reads
      <4> QED BY <4>2, <4>3, <4>4, LivesStutter
    <3> QED BY <3>2, <3>3, <3>4, <3>5, <3>6
  <2>5. CASE \E e \in StreamEnds : PeerActs(e)
    <3>1. UNCHANGED <<next, sockets>>
      BY <2>5 DEF PeerActs, PeerSends, PeerCloses, PeerResets
    <3>2. Len(links') = Len(links)
      <4>1. \A f \in Seq(Link) : \A e, l : Len([f EXCEPT ![e] = l]) = Len(f)
        OBVIOUS
      <4>2. links \in Seq(Link)
        BY DEF SockInv, TypeOK
      <4> QED BY <2>5, <4>1, <4>2 DEF PeerActs, PeerSends, PeerCloses, PeerResets
    <3> QED BY <3>1, <3>2, LivesStutter DEF Live
  <2> QED BY <2>1, <2>2, <2>3, <2>4, <2>5 DEF Next, PeerActs
<1>2. SockInv /\ [Next]_vars => [Lives!Next]_<<[h \in Handles |-> LifeOf(h)], Len(links)>>
  BY <1>1 DEF LifeMap
<1> QED BY <1>2, LivesInit, SocketsInvariance, PTL DEF Spec, HandlesLiveOnce, Lives!Spec

=============================================================================
