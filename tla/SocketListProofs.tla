---------------------------- MODULE SocketListProofs ----------------------------
(***************************************************************************)
(* Proofs about module SocketList, for any clients and any number of slots. *)
(***************************************************************************)
EXTENDS SocketList, SequenceTheorems, FiniteSetTheorems, TLAPS

(* What SendTo and HandleSocket do with the halves of a message. *)

LEMMA Single ==
  ASSUME NEW s \in Seq(Nat), Len(s) = 1
  PROVE  s = <<s[1]>>
<1> DEFINE t == <<s[1]>>
<1>1. s[1] \in Nat
  <2>1. 1 \in 1 .. Len(s) OBVIOUS
  <2> QED BY <2>1, ElementOfSeq
<1>2. t \in Seq(Nat) /\ Len(t) = 1 /\ t[1] = s[1] BY <1>1
<1>3. \A i \in 1 .. Len(s) : s[i] = t[i] BY <1>2
<1> HIDE DEF t
<1>4. s = t BY <1>2, <1>3, SeqEqual
<1> QED BY <1>4 DEF t

LEMMA Pieces2 ==
    /\ SubSeq(<<1, 2>>, 1, 0) = <<>> /\ SubSeq(<<1, 2>>, 1, 1) = <<1>>
    /\ SubSeq(<<1, 2>>, 1, 2) = <<1, 2>>
    /\ SubSeq(<<1, 2>>, 2, 2) = <<2>> /\ SubSeq(<<1, 2>>, 3, 2) = <<>>
<1> DEFINE m == <<1, 2>>
<1>1. m \in Seq(Nat) /\ Len(m) = 2 /\ m[1] = 1 /\ m[2] = 2 OBVIOUS
<1> HIDE DEF m
<1>2. SubSeq(m, 1, 0) = <<>> /\ SubSeq(m, 3, 2) = <<>> BY SubSeqEmpty
<1>3. SubSeq(m, 1, 2) = m BY <1>1, SubSeqFull
<1>4. SubSeq(m, 1, 1) \in Seq(Nat) /\ Len(SubSeq(m, 1, 1)) = 1 /\ SubSeq(m, 1, 1)[1] = 1
  <2>1. \A i \in 1 .. 1 : m[i] \in Nat BY <1>1
  <2> QED BY <1>1, <2>1, SubSeqProperties
<1>5. SubSeq(m, 2, 2) \in Seq(Nat) /\ Len(SubSeq(m, 2, 2)) = 1 /\ SubSeq(m, 2, 2)[1] = 2
  <2>1. \A i \in 2 .. 2 : m[i] \in Nat BY <1>1
  <2> QED BY <1>1, <2>1, SubSeqProperties
<1>6. SubSeq(m, 1, 1) = <<1>> /\ SubSeq(m, 2, 2) = <<2>> BY <1>4, <1>5, Single
<1> QED BY <1>2, <1>3, <1>6 DEF m

LEMMA Pieces1 ==
    /\ SubSeq(<<2>>, 1, 0) = <<>> /\ SubSeq(<<2>>, 1, 1) = <<2>> /\ SubSeq(<<2>>, 2, 1) = <<>>
    /\ SubSeq(<<>>, 1, 0) = <<>>
<1>1. <<2>> \in Seq(Nat) /\ Len(<<2>>) = 1 OBVIOUS
<1>2. SubSeq(<<2>>, 1, Len(<<2>>)) = <<2>> BY <1>1, SubSeqFull
<1> QED BY <1>1, <1>2, SubSeqEmpty

LEMMA Joined ==
    /\ <<>> \o <<>> = <<>> /\ <<>> \o <<1>> = <<1>> /\ <<>> \o <<1, 2>> = <<1, 2>>
    /\ <<1>> \o <<>> = <<1>> /\ <<1>> \o <<2>> = <<1, 2>>
    /\ <<>> # <<1, 2>> /\ <<1>> # <<1, 2>>
<1>1. <<>> \in Seq(Nat) /\ <<1>> \in Seq(Nat) /\ <<1, 2>> \in Seq(Nat) OBVIOUS
<1>2. <<>> \o <<>> = <<>> /\ <<>> \o <<1>> = <<1>> /\ <<>> \o <<1, 2>> = <<1, 2>> /\ <<1>> \o <<>> = <<1>>
  BY <1>1, ConcatEmptySeq
<1>3. <<1>> \o <<2>> = <<1, 2>>
  <2>1. SubSeq(<<1, 2>>, 1, 1) \o SubSeq(<<1, 2>>, 2, 2) = SubSeq(<<1, 2>>, 1, 2)
    <3>1. Len(<<1, 2>>) = 2 OBVIOUS
    <3> QED BY <3>1, <1>1, ConcatAdjacentSubSeq
  <2> QED BY <2>1, Pieces2
<1>4. Len(<<>>) = 0 /\ Len(<<1>>) = 1 /\ Len(<<1, 2>>) = 2 OBVIOUS
<1> QED BY <1>2, <1>3, <1>4

LEMMA RestStep ==
  ASSUME NEW w, NEW b, <<w, b>> \in Rests, NEW k \in 0 .. Len(b)
  PROVE  <<Arrives(w, SubSeq(b, 1, k)), SubSeq(b, k + 1, Len(b))>> \in Rests
<1>1. CASE w = <<>> /\ b = <<>>
  <2>1. k = 0 BY <1>1
  <2> QED BY <1>1, <2>1, Pieces1, Joined DEF Rests, Arrives, Message
<1>2. CASE w = <<>> /\ b = <<1, 2>>
  <2>1. Len(b) = 2 /\ (k = 0 \/ k = 1 \/ k = 2) BY <1>2
  <2>2. CASE k = 0
    <3>1. SubSeq(b, 1, k) = SubSeq(<<1, 2>>, 1, 0) /\ SubSeq(b, k + 1, Len(b)) = SubSeq(<<1, 2>>, 1, 2)
      BY <1>2, <2>1, <2>2
    <3> QED BY <1>2, <3>1, Pieces2, Joined DEF Rests, Arrives, Message
  <2>3. CASE k = 1
    <3>1. SubSeq(b, 1, k) = SubSeq(<<1, 2>>, 1, 1) /\ SubSeq(b, k + 1, Len(b)) = SubSeq(<<1, 2>>, 2, 2)
      BY <1>2, <2>1, <2>3
    <3> QED BY <1>2, <3>1, Pieces2, Joined DEF Rests, Arrives, Message
  <2>4. CASE k = 2
    <3>1. SubSeq(b, 1, k) = SubSeq(<<1, 2>>, 1, 2) /\ SubSeq(b, k + 1, Len(b)) = SubSeq(<<1, 2>>, 3, 2)
      BY <1>2, <2>1, <2>4
    <3> QED BY <1>2, <3>1, Pieces2, Joined DEF Rests, Arrives, Message
  <2> QED BY <2>1, <2>2, <2>3, <2>4
<1>3. CASE w = <<1>> /\ b = <<2>>
  <2>1. Len(b) = 1 /\ (k = 0 \/ k = 1) BY <1>3
  <2>2. CASE k = 0
    <3>1. SubSeq(b, 1, k) = SubSeq(<<2>>, 1, 0) /\ SubSeq(b, k + 1, Len(b)) = SubSeq(<<2>>, 1, 1)
      BY <1>3, <2>1, <2>2
    <3> QED BY <1>3, <3>1, Pieces1, Joined DEF Rests, Arrives, Message
  <2>3. CASE k = 1
    <3>1. SubSeq(b, 1, k) = SubSeq(<<2>>, 1, 1) /\ SubSeq(b, k + 1, Len(b)) = SubSeq(<<2>>, 2, 1)
      BY <1>3, <2>1, <2>3
    <3> QED BY <1>3, <3>1, Pieces1, Joined DEF Rests, Arrives, Message
  <2> QED BY <2>1, <2>2, <2>3
<1> QED BY <1>1, <1>2, <1>3 DEF Rests, Message

LEMMA HalvesType ==
  ASSUME NEW w \in Seq({1, 2}), NEW b \in Seq({1, 2}), NEW k \in 0 .. Len(b)
  PROVE  /\ SubSeq(b, k + 1, Len(b)) \in Seq({1, 2})
         /\ Arrives(w, SubSeq(b, 1, k)) \in Seq({1, 2})
<1>1. Len(b) \in Nat BY LenProperties
<1>2. \A i \in 1 .. Len(b) : b[i] \in {1, 2} BY ElementOfSeq
<1>3. SubSeq(b, 1, k) \in Seq({1, 2}) BY <1>1, <1>2, SubSeqProperties
<1>4. SubSeq(b, k + 1, Len(b)) \in Seq({1, 2}) BY <1>1, <1>2, SubSeqProperties
<1>5. w \o SubSeq(b, 1, k) \in Seq({1, 2}) BY <1>3, ConcatProperties
<1>6. <<>> \in Seq({1, 2}) BY EmptySeq
<1> QED BY <1>4, <1>5, <1>6 DEF Arrives

LEMMA MessageType == Message \in Seq({1, 2}) /\ Len(Message) = 2
BY DEF Message

-----------------------------------------------------------------------------
(* Types. *)

LEMMA InitType == Init => TypeOK
<1> SUFFICES ASSUME Init PROVE TypeOK OBVIOUS
<1> USE ClientsAssumption, SocketsAssumption DEF Init
<1>1. <<>> \in Seq({1, 2}) /\ <<>> \in Seq([slot : Slots, client : Clients, erased : BOOLEAN]) BY EmptySeq
<1>2. \A h \in Clients \cup {Listener, NoClient} : Fresh(h) \in Connection BY <1>1 DEF Fresh, Connection
<1>3. mk_Data \in [Slots -> Connection] BY <1>2
<1>4. mu32_Count \in 1 .. MaxSockets OBVIOUS
<1>5. peer \in [Clients -> [state : PeerStates, sent : Nat, read : Nat, events : SUBSET SocketEvents]]
  BY DEF PeerStates
<1>6. wire \in [Clients -> Seq({1, 2})] BY <1>1
<1>7. 0 \in Slots BY DEF Slots
<1>8. check \in [pc : CheckSteps, slot : Slots, h_Socket : Clients \cup {NoClient},
                  events : SUBSET SocketEvents, memory : {"null", "data", "freed"}, got : Nat]
  BY <1>7 DEF Idle, CheckSteps
<1>9. sender \in [pc : {"next", "send"}, entry : Nat,
                   h_Socket : Clients \cup {Listener, NoClient}, sent : Nat]
  BY DEF Resting
<1> QED BY <1>1, <1>3, <1>4, <1>5, <1>6, <1>8, <1>9 DEF TypeOK

LEMMA ConnectedSlots == TypeOK => Connected \subseteq Slots
BY SocketsAssumption DEF TypeOK, Connected, Slots

\* What SendTo may do.
LEMMA SendToType ==
  ASSUME TypeOK, NEW h, SendTo(h), ListInv
  PROVE  wire' \in [Clients -> Seq({1, 2})] /\ mk_Data' \in [Slots -> Connection]
<1>1. CASE UNCHANGED <<wire, mk_Data>> BY <1>1 DEF TypeOK
<1>2. CASE \E i \in Connected : CanTake(i, h) /\ Deliver(i)
  <2>1. PICK i \in Connected, k \in 0 .. 2 :
           /\ wire' = [wire EXCEPT ![mk_Data[i].h_Socket] = Arrives(@, SubSeq(Message, 1, k))]
           /\ mk_Data' = [mk_Data EXCEPT ![i].s8_SendBuf = SubSeq(Message, k + 1, 2)]
    BY <1>2 DEF Deliver
  <2>2. i \in Slots /\ mk_Data[i].h_Socket \in Clients BY ConnectedSlots DEF ListInv
  <2>3. wire[mk_Data[i].h_Socket] \in Seq({1, 2}) BY <2>2 DEF TypeOK
  <2>4. /\ SubSeq(Message, k + 1, 2) \in Seq({1, 2})
        /\ Arrives(wire[mk_Data[i].h_Socket], SubSeq(Message, 1, k)) \in Seq({1, 2})
    BY <2>3, HalvesType, MessageType
  <2>5. wire' \in [Clients -> Seq({1, 2})] BY <2>1, <2>4 DEF TypeOK
  <2>6. mk_Data[i] \in Connection BY <2>2 DEF TypeOK
  <2>7. [mk_Data[i] EXCEPT !.s8_SendBuf = SubSeq(Message, k + 1, 2)] \in Connection
    BY <2>4, <2>6 DEF Connection
  <2>8. mk_Data' \in [Slots -> Connection] BY <2>1, <2>7 DEF TypeOK
  <2> QED BY <2>5, <2>8
<1> QED BY <1>1, <1>2 DEF SendTo

LEMMA RemoveType ==
  ASSUME TypeOK, ListInv, NEW i \in Connected, Remove(i)
  PROVE  /\ mu32_Count' \in 1 .. MaxSockets
         /\ mk_Data' \in [Slots -> Connection]
         /\ peer' \in [Clients -> [state : PeerStates, sent : Nat, read : Nat, events : SUBSET SocketEvents]]
         /\ wire' \in [Clients -> Seq({1, 2})]
<1> DEFINE last == mu32_Count - 1
<1>1. i \in Slots /\ last \in Slots /\ mu32_Count \in 2 .. MaxSockets
  BY SocketsAssumption, ConnectedSlots DEF TypeOK, Connected, Slots
<1>2. /\ mu32_Count' = last
      /\ mk_Data' = [mk_Data EXCEPT ![i] = mk_Data[last], ![last] = Stale(mk_Data[last])]
      /\ peer' = [peer EXCEPT ![mk_Data[i].h_Socket] = Gone]
  BY DEF Remove
<1>3. mk_Data[last] \in Connection BY <1>1 DEF TypeOK
<1>4. Stale(mk_Data[last]) \in Connection
  <2>1. <<>> \in Seq({1, 2}) BY EmptySeq
  <2> QED BY <1>3, <2>1 DEF Stale, Fresh, Connection
<1>5. mk_Data' \in [Slots -> Connection] BY <1>1, <1>2, <1>3, <1>4 DEF TypeOK
<1>6. peer' \in [Clients -> [state : PeerStates, sent : Nat, read : Nat, events : SUBSET SocketEvents]]
  BY <1>2 DEF TypeOK, Gone, PeerStates
<1>7. mu32_Count' \in 1 .. MaxSockets BY <1>1, <1>2, SocketsAssumption
<1>8. wire' \in [Clients -> Seq({1, 2})]
  <2>1. <<>> \in Seq({1, 2}) BY EmptySeq
  <2> QED BY <2>1 DEF Remove, TypeOK
<1> QED BY <1>5, <1>6, <1>7, <1>8

PeerType == peer \in [Clients -> [state : PeerStates, sent : Nat, read : Nat, events : SUBSET SocketEvents]]

LEMMA ClientType ==
  ASSUME TypeOK, NEW c \in Clients, ClientStep(c)
  PROVE  PeerType' /\ UNCHANGED <<mu32_Count, mk_Data, _WebSocket_Clients, wire, check, sender, late, misfed>>
<1> DEFINE D == [state : PeerStates, sent : Nat, read : Nat, events : SUBSET SocketEvents]
<1>1. peer \in [Clients -> D] /\ peer[c] \in D BY DEF TypeOK
<1>2. CASE Send(c)
  <2>1. peer[c].sent + 1 \in Nat BY <1>1
  <2>2. peer[c].events \cup {"FD_READ"} \in SUBSET SocketEvents BY <1>1 DEF SocketEvents
  <2>3. [peer[c] EXCEPT !.sent = @ + 1, !.events = @ \cup {"FD_READ"}] \in D BY <1>1, <2>1, <2>2
  <2> QED BY <1>1, <1>2, <2>3 DEF Send, PeerType
<1>3. CASE Leave(c)
  <2>1. PICK how \in {"closed", "broken"} :
           peer' = [peer EXCEPT ![c].state = how, ![c].events = @ \cup {"FD_CLOSE"}]
    BY <1>3 DEF Leave
  <2>2. [peer[c] EXCEPT !.state = how, !.events = @ \cup {"FD_CLOSE"}] \in D
    BY <1>1 DEF SocketEvents, PeerStates
  <2> QED BY <1>1, <1>3, <2>1, <2>2 DEF Leave, PeerType
<1>4. CASE AnswerShutdown(c)
  <2>1. [peer[c] EXCEPT !.state = "closed", !.events = @ \cup {"FD_CLOSE"}] \in D
    BY <1>1 DEF SocketEvents, PeerStates
  <2> QED BY <1>1, <1>4, <2>1 DEF AnswerShutdown, PeerType
<1>5. CASE MakeRoom(c)
  <2>1. [peer[c] EXCEPT !.events = @ \cup {"FD_WRITE"}] \in D BY <1>1 DEF SocketEvents
  <2> QED BY <1>1, <1>5, <2>1 DEF MakeRoom, PeerType
<1> QED BY <1>2, <1>3, <1>4, <1>5 DEF ClientStep

CheckType ==
    check \in [pc : CheckSteps, slot : Slots, h_Socket : Clients \cup {NoClient},
               events : SUBSET SocketEvents, memory : {"null", "data", "freed"}, got : Nat]
SenderType ==
    sender \in [pc : {"next", "send"}, entry : Nat,
                h_Socket : Clients \cup {Listener, NoClient}, sent : Nat]
ListType == _WebSocket_Clients \in Seq([slot : Slots, client : Clients, erased : BOOLEAN])

LEMMA IdleType ==
  /\ Idle \in [pc : CheckSteps, slot : Slots, h_Socket : Clients \cup {NoClient},
               events : SUBSET SocketEvents, memory : {"null", "data", "freed"}, got : Nat]
  /\ check' = Idle => CheckType'
<1>1. 0 \in Slots BY SocketsAssumption DEF Slots
<1> QED BY <1>1 DEF Idle, CheckSteps, CheckType

LEMMA ReturnedType ==
  ASSUME TypeOK, ListInv, NEW i \in Connected, NEW memory \in {"null", "data", "freed"}, NEW got \in Nat
  PROVE  Returned(i, memory, got)
            \in [pc : CheckSteps, slot : Slots, h_Socket : Clients \cup {NoClient},
                 events : SUBSET SocketEvents, memory : {"null", "data", "freed"}, got : Nat]
<1>1. i \in Slots /\ mk_Data[i].h_Socket \in Clients BY ConnectedSlots DEF ListInv
<1>2. peer[mk_Data[i].h_Socket].events \subseteq SocketEvents BY <1>1 DEF TypeOK
<1>3. EventsAt(i) \subseteq SocketEvents BY <1>2 DEF EventsAt
<1> QED BY <1>1, <1>3 DEF Returned, CheckSteps

LEMMA SocketType ==
  ASSUME TypeOK, ListInv, NEW i \in Slots, SocketStep(i)
  PROVE  TypeOK'
<1>0. i \in Connected /\ mk_Data[i].h_Socket \in Clients
  BY DEF SocketStep, SocketFails, ReadFails, WriteFails, HandleSocket, Signalled, ListInv
<1>1. CASE SocketFails(i)
  BY <1>0, <1>1, IdleType, RemoveType DEF SocketFails, TypeOK, CheckType
<1>2. CASE ReadFails(i)
  <2>1. Returned(i, "null", 0)
            \in [pc : CheckSteps, slot : Slots, h_Socket : Clients \cup {NoClient},
                 events : SUBSET SocketEvents, memory : {"null", "data", "freed"}, got : Nat]
    BY <1>0, ReturnedType
  <2> QED BY <1>0, <1>2, <2>1, RemoveType DEF ReadFails, TypeOK
<1>3. CASE WriteFails(i)
  <2> DEFINE memory == IF "FD_READ" \in EventsAt(i) THEN "freed" ELSE "null"
  <2>1. memory \in {"null", "data", "freed"} OBVIOUS
  <2> HIDE DEF memory
  <2>2. Returned(i, memory, 0)
            \in [pc : CheckSteps, slot : Slots, h_Socket : Clients \cup {NoClient},
                 events : SUBSET SocketEvents, memory : {"null", "data", "freed"}, got : Nat]
    BY <1>0, <2>1, ReturnedType
  <2>3. check' = Returned(i, memory, 0) BY <1>3 DEF WriteFails, memory
  <2> QED BY <1>0, <1>3, <2>2, <2>3, RemoveType DEF WriteFails, TypeOK
<1>4. CASE HandleSocket(i)
  <2> DEFINE c == mk_Data[i].h_Socket
             buf == mk_Data[i].s8_SendBuf
  <2>1. mk_Data[i] \in Connection /\ buf \in Seq({1, 2}) /\ wire[c] \in Seq({1, 2})
    <3>1. mk_Data[i] \in Connection /\ wire[c] \in Seq({1, 2}) BY <1>0 DEF TypeOK
    <3>2. buf \in Seq({1, 2}) BY <3>1 DEF Connection
    <3> QED BY <3>1, <3>2
  <2>2. peer[c] \in [state : PeerStates, sent : Nat, read : Nat, events : SUBSET SocketEvents]
    BY SMTT(60), <1>0 DEF TypeOK
  <2>3. PICK n \in Pieces(i), k \in SendableNow(i) :
              /\ peer' = [peer EXCEPT
                             ![c].read = @ + n,
                             ![c].events = IF n > 0 /\ peer[c].read + n < peer[c].sent
                                           THEN {"FD_READ"} ELSE {}]
              /\ wire' = [wire EXCEPT ![c] = Arrives(@, SubSeq(buf, 1, k))]
              /\ mk_Data' = [mk_Data EXCEPT
                                ![i].s8_SendBuf = SubSeq(buf, k + 1, Len(buf)),
                                ![i].b_Closed = @ \/ "FD_CLOSE" \in EventsAt(i)]
              /\ check' = Returned(i, IF "FD_READ" \in EventsAt(i) THEN "data" ELSE "null", n)
    BY <1>4 DEF HandleSocket
  <2>4. n \in Nat BY <2>2 DEF Pieces
  <2>5. k \in 0 .. Len(buf)
    <3>1. Len(buf) \in Nat BY <2>1, LenProperties
    <3> QED BY <3>1 DEF SendableNow
  <2>6. SubSeq(buf, k + 1, Len(buf)) \in Seq({1, 2}) /\ Arrives(wire[c], SubSeq(buf, 1, k)) \in Seq({1, 2})
    BY <2>1, <2>5, HalvesType
  <2>7. wire' \in [Clients -> Seq({1, 2})] BY <2>3, <2>6 DEF TypeOK
  <2>8. PeerType'
    <3> DEFINE ev == IF n > 0 /\ peer[c].read + n < peer[c].sent THEN {"FD_READ"} ELSE {}
    <3>1. ev \in SUBSET SocketEvents BY DEF SocketEvents
    <3>2. peer[c].read + n \in Nat BY <2>2, <2>4
    <3>3. peer' = [peer EXCEPT ![c].read = @ + n, ![c].events = ev] BY <2>3
    <3> HIDE DEF ev
    <3>4. [peer[c] EXCEPT !.read = @ + n, !.events = ev]
             \in [state : PeerStates, sent : Nat, read : Nat, events : SUBSET SocketEvents]
      BY <2>2, <3>1, <3>2
    <3> QED BY <3>3, <3>4 DEF PeerType, TypeOK
  <2>9. mk_Data' \in [Slots -> Connection]
    <3> DEFINE b == mk_Data[i].b_Closed \/ "FD_CLOSE" \in EventsAt(i)
               rest == SubSeq(buf, k + 1, Len(buf))
    <3>1. b \in BOOLEAN BY <2>1 DEF Connection
    <3>2. mk_Data' = [mk_Data EXCEPT ![i] = [mk_Data[i] EXCEPT !.s8_SendBuf = rest, !.b_Closed = b]]
      BY <2>3 DEF TypeOK
    <3>3. rest \in Seq({1, 2}) BY <2>6
    <3> HIDE DEF b, rest
    <3>4. [mk_Data[i] EXCEPT !.s8_SendBuf = rest, !.b_Closed = b] \in Connection
      BY <2>1, <3>1, <3>3 DEF Connection
    <3> QED BY <3>2, <3>4 DEF TypeOK
  <2>10. CheckType'
    <3> DEFINE memory == IF "FD_READ" \in EventsAt(i) THEN "data" ELSE "null"
    <3>1. memory \in {"null", "data", "freed"} /\ check' = Returned(i, memory, n) BY <2>3
    <3> HIDE DEF memory
    <3> QED BY <1>0, <2>4, <3>1, ReturnedType DEF CheckType
  <2> QED BY Zenon, <1>4, <2>7, <2>8, <2>9, <2>10 DEF HandleSocket, TypeOK, CheckType, PeerType
<1> QED BY SMTT(60), <1>1, <1>2, <1>3, <1>4 DEF SocketStep

LEMMA RespondType ==
  ASSUME TypeOK, NEW conn, NEW finished, check' = Respond(conn, finished)
  PROVE  CheckType'
<1>1. CASE ~ finished BY <1>1, IdleType DEF Respond
<1>2. CASE finished
  <2>1. check' = [Idle EXCEPT !.pc = IF conn._is_websocket THEN "handshake" ELSE "answer",
                              !.slot = check.slot, !.h_Socket = check.h_Socket]
    BY <1>2 DEF Respond
  <2> QED BY <2>1, IdleType DEF CheckType, CheckSteps, TypeOK, Idle
<1> QED BY <1>1, <1>2

LEMMA HandleEventsType ==
  ASSUME TypeOK, CheckInv, HandleEvents
  PROVE  TypeOK'
<1>1. check.slot \in Slots /\ mk_Data[check.slot] \in Connection /\ check.got \in Nat BY DEF TypeOK
<1>2. ListType'
  <2> DEFINE E == [slot : Slots, client : Clients, erased : BOOLEAN]
             closed == [n \in DOMAIN _WebSocket_Clients |->
                          IF _WebSocket_Clients[n].slot = check.slot
                          THEN [_WebSocket_Clients[n] EXCEPT !.erased = TRUE]
                          ELSE _WebSocket_Clients[n]]
  <2>1. _WebSocket_Clients \in Seq(E) BY SMTT(60) DEF TypeOK
  <2>2. PICK len \in Nat : _WebSocket_Clients \in [1 .. len -> E]
    <3>1. Len(_WebSocket_Clients) \in Nat /\ _WebSocket_Clients \in [1 .. Len(_WebSocket_Clients) -> E]
      BY <2>1, LenProperties
    <3> QED BY <3>1
  <2>3. closed \in [1 .. len -> E] BY <2>2
  <2>4. closed \in Seq(E)
    <3> HIDE DEF closed, E
    <3> QED BY <2>3, SeqDef
  <2> QED BY <2>1, <2>4 DEF HandleEvents, CloseWebSocket, ListType
<1>3. CASE check.memory = "null" /\ check' = Idle /\ UNCHANGED <<mk_Data, misfed>>
  BY <1>2, <1>3, IdleType DEF TypeOK, HandleEvents, ListType, CheckType
<1>4. ASSUME NEW n \in Nat, NEW upgrade, NEW finished,
             Collect([mk_Data[check.slot] EXCEPT !.collected = n, !._is_websocket = @ \/ upgrade], finished)
      PROVE  mk_Data' \in [Slots -> Connection] /\ CheckType'
  <2> DEFINE conn == mk_Data[check.slot]
             flag == conn._is_websocket \/ upgrade
             fed == [conn EXCEPT !.collected = n, !._is_websocket = flag]
  <2>1. flag \in BOOLEAN OBVIOUS
  <2>2. mk_Data' = [mk_Data EXCEPT ![check.slot] = fed] /\ check' = Respond(fed, finished)
    BY <1>4 DEF Collect
  <2> HIDE DEF flag
  <2>3. fed \in Connection BY <1>1, <2>1 DEF Connection
  <2>4. mk_Data' \in [Slots -> Connection] BY <2>2, <2>3 DEF TypeOK
  <2>5. CheckType' BY <2>2, RespondType
  <2> QED BY <2>4, <2>5
<1>5. CASE check.memory = "data"
  <2>1. PICK upgrade, finished :
           Collect([mk_Data[check.slot] EXCEPT !.collected = @ + check.got, !._is_websocket = @ \/ upgrade],
                   finished)
    BY <1>5 DEF HandleEvents
  <2>2. mk_Data[check.slot].collected + check.got \in Nat BY <1>1 DEF Connection
  <2>3. misfed' = misfed BY <1>5 DEF HandleEvents
  <2> QED BY <1>2, <1>4, <2>1, <2>2, <2>3 DEF TypeOK, HandleEvents, ListType, CheckType
<1>6. CASE check.memory = "freed"
  <2>1. PICK upgrade, finished :
           Collect([mk_Data[check.slot] EXCEPT !._is_websocket = @ \/ upgrade], finished)
    BY <1>6 DEF HandleEvents
  <2>2. PICK n \in Nat : n = mk_Data[check.slot].collected BY <1>1 DEF Connection
  <2>3. [mk_Data[check.slot] EXCEPT !._is_websocket = @ \/ upgrade]
           = [mk_Data[check.slot] EXCEPT !.collected = n, !._is_websocket = @ \/ upgrade]
    BY <1>1, <2>2 DEF Connection
  <2>4. mk_Data' \in [Slots -> Connection] /\ CheckType' BY <1>4, <2>1, <2>3
  <2>5. misfed' \subseteq Clients
    <3>1. mk_Data[check.slot].h_Socket \in Clients BY DEF CheckInv, HandleEvents
    <3> QED BY <1>6, <3>1 DEF TypeOK, HandleEvents
  <2> QED BY <1>2, <2>4, <2>5 DEF TypeOK, HandleEvents, ListType, CheckType
<1>7. CASE check.memory = "null" BY <1>3, <1>7 DEF HandleEvents
<1> QED BY <1>5, <1>6, <1>7 DEF TypeOK

LEMMA CheckStepType ==
  ASSUME TypeOK, ListInv, CheckInv, CheckStep
  PROVE  TypeOK'
<1>1. CASE EnterLoop
  <2>1. CheckType' BY <1>1 DEF TypeOK, EnterLoop, CheckType, CheckSteps
  <2> QED BY <1>1, <2>1 DEF TypeOK, EnterLoop, CheckType
<1>2. CASE RemoveClosed
  <2>1. PICK i \in Connected : Remove(i) BY <1>2 DEF RemoveClosed, Closed
  <2> QED BY <1>2, <2>1, RemoveType DEF RemoveClosed, TypeOK
<1>3. CASE WaitEnds BY <1>3, IdleType DEF TypeOK, WaitEnds, CheckType
<1>4. CASE HandleEvents BY <1>4, HandleEventsType
<1>5. CASE SendHandshake \/ SendHello \/ SendAnswer
  <2>1. PICK h : SendTo(h) BY <1>5 DEF SendHandshake, SendHello, SendAnswer
  <2>2. wire' \in [Clients -> Seq({1, 2})] /\ mk_Data' \in [Slots -> Connection] BY <2>1, SendToType
  <2>3. CheckType' BY <1>5 DEF SendHandshake, SendHello, SendAnswer, TypeOK, CheckType, CheckSteps
  <2> QED BY <1>5, <2>2, <2>3 DEF SendHandshake, SendHello, SendAnswer, TypeOK, CheckType
<1>6. CASE Register
  <2> DEFINE E == [slot : Slots, client : Clients, erased : BOOLEAN]
  <2>1. check.slot \in Slots /\ mk_Data[check.slot].h_Socket \in Clients
    BY <1>6 DEF TypeOK, CheckInv, Register
  <2>2. [slot |-> check.slot, client |-> mk_Data[check.slot].h_Socket, erased |-> FALSE] \in E BY <2>1
  <2>3. ListType' BY <1>6, <2>2, AppendProperties DEF TypeOK, ListType, Register
  <2>4. late' \subseteq Clients BY <1>6, <2>1 DEF Register, TypeOK
  <2> QED BY <1>6, <2>3, <2>4, IdleType DEF Register, TypeOK, CheckType, ListType
<1>7. CASE Disconnect
  <2>1. ASSUME NEW i \in Slots
        PROVE  [mk_Data[i] EXCEPT !.b_Shutdown = TRUE] \in Connection
    <3>1. mk_Data[i] \in Connection BY DEF TypeOK
    <3> QED BY <3>1 DEF Connection
  <2>2. mk_Data' \in [Slots -> Connection] BY <1>7, <2>1 DEF Disconnect, DisconnectClient, TypeOK
  <2> QED BY <1>7, <2>2, IdleType DEF Disconnect, TypeOK, CheckType
<1> QED BY <1>1, <1>2, <1>3, <1>4, <1>5, <1>6, <1>7 DEF CheckStep

LEMMA AcceptType ==
  ASSUME TypeOK, NEW c \in Clients, Accept(c)
  PROVE  TypeOK'
<1>1. mu32_Count' = mu32_Count + 1 /\ mu32_Count < MaxSockets BY DEF Accept, Add, AcceptCondition
<1>2. mu32_Count' \in 1 .. MaxSockets BY <1>1, SocketsAssumption DEF TypeOK
<1>3. Fresh(c) \in Connection
  <2>1. <<>> \in Seq({1, 2}) BY EmptySeq
  <2> QED BY <2>1 DEF Fresh, Connection
<1>4. mk_Data' \in [Slots -> Connection] BY <1>3 DEF Accept, Add, TypeOK
<1>5. PeerType'
  <2>1. [peer[c] EXCEPT !.state = "open"]
           \in [state : PeerStates, sent : Nat, read : Nat, events : SUBSET SocketEvents]
    BY DEF TypeOK, PeerStates
  <2>2. peer' = [peer EXCEPT ![c] = [peer[c] EXCEPT !.state = "open"]] BY DEF Accept, TypeOK
  <2> QED BY <2>1, <2>2 DEF PeerType, TypeOK
<1> QED BY <1>2, <1>4, <1>5, IdleType DEF Accept, TypeOK, CheckType, PeerType

LEMMA SenderStepType ==
  ASSUME TypeOK, ListInv, EntriesInv, SenderStep
  PROVE  TypeOK'
<1> DEFINE L == _WebSocket_Clients
<1>1. DOMAIN L \subseteq Nat /\ \A n \in DOMAIN L : L[n].slot \in Slots
  <2>1. Len(L) \in Nat /\ DOMAIN L = 1 .. Len(L) BY LenProperties DEF TypeOK
  <2>2. \A n \in 1 .. Len(L) : L[n] \in [slot : Slots, client : Clients, erased : BOOLEAN]
    BY ElementOfSeq DEF TypeOK
  <2> QED BY <2>1, <2>2
<1>2. \A n : After(n) \subseteq Nat BY <1>1 DEF After, Live, End
<1>3. \A i \in Slots : mk_Data[i].h_Socket \in Clients \cup {Listener, NoClient} BY DEF TypeOK, Connection
<1>4. CASE BeginBundle
  <2>1. PICK n \in Nat : sender' = [sender EXCEPT !.entry = n, !.sent = @ + 1]
    BY <1>2, <1>4 DEF BeginBundle
  <2>2. sender.sent + 1 \in Nat BY DEF TypeOK
  <2>3. SenderType' BY <2>1, <2>2 DEF TypeOK, SenderType
  <2> QED BY <1>4, <2>3 DEF BeginBundle, TypeOK, SenderType
<1>5. CASE ReadEntry
  <2>1. sender.entry \in DOMAIN L BY <1>5 DEF ReadEntry, EntriesInv
  <2>2. PICK i \in Slots : sender' = [sender EXCEPT !.pc = "send", !.h_Socket = mk_Data[i].h_Socket]
    BY <1>1, <1>5, <2>1 DEF ReadEntry
  <2>3. SenderType' BY <1>3, <2>2 DEF TypeOK, SenderType
  <2> QED BY <1>5, <2>3 DEF ReadEntry, TypeOK, SenderType
<1>6. CASE SendEntry
  <2>1. wire' \in [Clients -> Seq({1, 2})] /\ mk_Data' \in [Slots -> Connection]
    BY <1>6, SendToType DEF SendEntry
  <2>2. PICK n \in Nat : sender' = [sender EXCEPT !.pc = "next", !.entry = n, !.h_Socket = NoClient]
    BY <1>1, <1>2, <1>6 DEF SendEntry, Live, End
  <2>3. SenderType' BY <2>2 DEF TypeOK, SenderType
  <2> QED BY <1>6, <2>1, <2>3 DEF SendEntry, TypeOK, SenderType
<1> QED BY <1>4, <1>5, <1>6 DEF SenderStep

-----------------------------------------------------------------------------
(* The invariant.  That requests are handled is part of it: it is what tells that a    *)
(* request becomes complete only once.                                                 *)

Inv == IInv /\ RequestsHandled

LEMMA InitInv == Init => Inv
<1> SUFFICES ASSUME Init PROVE Inv OBVIOUS
<1>1. TypeOK BY InitType
<1>2. Connected = {} BY DEF Init, Connected
<1>3. 0 \in Slots /\ mk_Data = [i \in Slots |-> Fresh(IF i = 0 THEN Listener ELSE NoClient)]
  BY SocketsAssumption DEF Init, Slots
<1>4. \A i \in Slots : mk_Data[i].h_Socket \notin Clients /\ ~ mk_Data[i]._is_websocket
  BY <1>3, ClientsAssumption DEF Fresh
<1>5. ListInv
  <2>1. mk_Data[0].h_Socket = Listener BY <1>3 DEF Fresh
  <2> QED BY <1>2, <2>1 DEF ListInv, InList, Init
<1>6. DataWithOwner BY <1>2 DEF DataWithOwner
<1>7. SlotsInv BY <1>2, <1>4 DEF SlotsInv, Init
<1>8. RestInv BY <1>2 DEF RestInv, Init
<1>9. CheckInv BY DEF CheckInv, Init, Idle
<1>10. EntriesInv BY DEF EntriesInv, Entries, Live, Init, Resting, End
<1>11. RequestsHandled BY <1>2 DEF RequestsHandled
<1> QED BY <1>1, <1>5, <1>6, <1>7, <1>8, <1>9, <1>10, <1>11 DEF Inv, IInv

LEMMA EntriesType ==
  ASSUME TypeOK, NEW e \in Entries
  PROVE  e.slot \in Slots /\ e.client \in Clients
<1> DEFINE L == _WebSocket_Clients
<1>1. Len(L) \in Nat /\ DOMAIN L = 1 .. Len(L) BY LenProperties DEF TypeOK
<1>2. PICK n \in 1 .. Len(L) : e = L[n] BY <1>1 DEF Entries, Live
<1>3. L[n] \in [slot : Slots, client : Clients, erased : BOOLEAN] BY ElementOfSeq DEF TypeOK
<1> QED BY <1>2, <1>3

\* Steps that leave the slots as they are: of the clients, of the sender, and of the loop.
LEMMA QuietStep ==
  ASSUME Inv, TypeOK',
         UNCHANGED <<mu32_Count, mk_Data, _WebSocket_Clients, wire, late, misfed>>,
         \A c \in Clients :
            /\ peer'[c].read = peer[c].read
            /\ \/ peer'[c].state = peer[c].state
               \/ peer[c].state = "open" /\ peer'[c].state \in {"closed", "broken"},
         check' = check \/ (check.pc \in {"check", "sweep"} /\ check'.pc \in {"check", "sweep"}),
         sender'.entry \in DOMAIN _WebSocket_Clients \cup {End}
  PROVE  Inv'
<1>1. Connected' = Connected /\ Connected \subseteq Slots BY ConnectedSlots DEF Connected, Inv, IInv
<1>2. ListInv' BY <1>1 DEF ListInv, InList, Inv, IInv
<1>3. DataWithOwner'
  <2> SUFFICES ASSUME NEW i \in Connected
               PROVE  mk_Data[i].collected + (IF check'.pc = "events" /\ check'.memory = "data" /\ check'.slot = i
                                              THEN check'.got ELSE 0)
                        = peer'[mk_Data[i].h_Socket].read
    BY <1>1 DEF DataWithOwner
  <2>1. mk_Data[i].h_Socket \in Clients BY DEF ListInv, Inv, IInv
  <2> QED BY <2>1 DEF DataWithOwner, Inv, IInv
<1>4. SlotsInv' BY <1>1 DEF SlotsInv, Inv, IInv
<1>5. RestInv' BY <1>1 DEF RestInv, Inv, IInv
<1>6. CheckInv'
  <2>1. CASE check' = check BY <1>1, <2>1 DEF CheckInv, Inv, IInv
  <2>2. CASE check'.pc \in {"check", "sweep"} BY <2>2 DEF CheckInv
  <2> QED BY <2>1, <2>2
<1>7. EntriesInv'
  <2>1. Entries' = Entries BY DEF Entries, Live
  <2>2. \A e : Own(e)' <=> Own(e) BY <1>1 DEF Own
  <2>3. \A e \in Entries : e.client \in Clients
    BY EntriesType DEF Inv, IInv
  <2> QED BY <1>1, <2>1, <2>2, <2>3 DEF EntriesInv, Inv, IInv
<1>8. RequestsHandled'
  <2>1. CASE check' = check BY <1>1, <2>1 DEF RequestsHandled, Inv
  <2>2. CASE check.pc \in {"check", "sweep"} /\ check'.pc \in {"check", "sweep"}
    BY <1>1, <2>2 DEF RequestsHandled, Inv
  <2> QED BY <2>1, <2>2
<1> QED BY <1>2, <1>3, <1>4, <1>5, <1>6, <1>7, <1>8 DEF Inv, IInv

\* SendTo fills only the send buffer of the one slot that holds the socket.
LEMMA SendToFrame ==
  ASSUME TypeOK, NEW h, SendTo(h)
  PROVE  \A j \in Slots :
            /\ mk_Data'[j].h_Socket = mk_Data[j].h_Socket
            /\ mk_Data'[j].b_Shutdown = mk_Data[j].b_Shutdown
            /\ mk_Data'[j].b_Closed = mk_Data[j].b_Closed
            /\ mk_Data'[j].collected = mk_Data[j].collected
            /\ mk_Data'[j]._is_websocket = mk_Data[j]._is_websocket
<1>1. CASE UNCHANGED <<wire, mk_Data>> BY <1>1
<1>2. CASE \E i \in Connected : CanTake(i, h) /\ Deliver(i)
  <2>1. PICK i \in Connected, k \in 0 .. 2 :
           mk_Data' = [mk_Data EXCEPT ![i].s8_SendBuf = SubSeq(Message, k + 1, 2)]
    BY <1>2 DEF Deliver
  <2> DEFINE rest == SubSeq(Message, k + 1, 2)
  <2>2. mk_Data' = [mk_Data EXCEPT ![i].s8_SendBuf = rest] BY <2>1
  <2> HIDE DEF rest
  <2>3. \A j \in Slots : mk_Data[j] \in Connection BY DEF TypeOK
  <2> QED BY SMTT(60), <2>2, <2>3 DEF TypeOK, Connection
<1> QED BY <1>1, <1>2 DEF SendTo

\* What it sends and what is left are one message, wherever the send stops.
LEMMA SendToRest ==
  ASSUME TypeOK, ListInv, RestInv, NEW h, SendTo(h), UNCHANGED <<mu32_Count, peer>>
  PROVE  RestInv'
<1>1. Connected' = Connected /\ Connected \subseteq Slots BY ConnectedSlots DEF Connected
<1>2. CASE UNCHANGED <<wire, mk_Data>> BY <1>1, <1>2 DEF RestInv
<1>3. CASE \E i \in Connected : CanTake(i, h) /\ Deliver(i)
  <2>1. PICK i \in Connected, k \in 0 .. 2 :
           /\ mk_Data[i].s8_SendBuf = <<>>
           /\ wire' = [wire EXCEPT ![mk_Data[i].h_Socket] = Arrives(@, SubSeq(Message, 1, k))]
           /\ mk_Data' = [mk_Data EXCEPT ![i].s8_SendBuf = SubSeq(Message, k + 1, 2)]
    BY <1>3 DEF Deliver, CanTake, Accepts
  <2> DEFINE c == mk_Data[i].h_Socket
             rest == SubSeq(Message, k + 1, 2)
             there == Arrives(wire[c], SubSeq(Message, 1, k))
  <2>2. c \in Clients /\ InList(c) /\ peer[c].state \notin {"away", "gone"} BY DEF ListInv, InList
  <2>3. wire[c] = <<>>
    <3>1. <<wire[c], <<>>>> \in Rests BY <2>1 DEF RestInv
    <3>2. <<>> # <<1, 2>> /\ <<>> # <<2>> BY MessageType
    <3> QED BY <3>1, <3>2 DEF Rests, Message
  <2>4. <<there, rest>> \in Rests
    <3>1. <<wire[c], Message>> \in Rests BY <2>3 DEF Rests
    <3> QED BY <3>1, MessageType, RestStep
  <2>5. wire' = [wire EXCEPT ![c] = there] /\ mk_Data' = [mk_Data EXCEPT ![i].s8_SendBuf = rest] BY <2>1
  <2> HIDE DEF there, rest
  <2>6. ASSUME NEW j \in Connected
        PROVE  <<wire'[mk_Data'[j].h_Socket], mk_Data'[j].s8_SendBuf>> \in Rests
    <3>1. mk_Data'[j].h_Socket = mk_Data[j].h_Socket /\ mk_Data[j].h_Socket \in Clients
      BY <1>1, SendToFrame DEF ListInv
    <3>2. CASE j = i
      <4>1. mk_Data'[j].s8_SendBuf = rest BY <1>1, <2>5, <3>2 DEF TypeOK, Connection
      <4>2. wire'[c] = there BY <2>2, <2>5 DEF TypeOK
      <4> QED BY <2>4, <3>1, <3>2, <4>1, <4>2
    <3>3. CASE j # i
      <4>1. mk_Data'[j].s8_SendBuf = mk_Data[j].s8_SendBuf BY <1>1, <2>5, <3>3 DEF TypeOK
      <4>2. mk_Data[j].h_Socket # c BY <3>3 DEF ListInv
      <4>3. wire'[mk_Data[j].h_Socket] = wire[mk_Data[j].h_Socket] BY <2>5, <3>1, <4>2 DEF TypeOK
      <4> QED BY <3>1, <4>1, <4>3 DEF RestInv
    <3> QED BY <3>2, <3>3
  <2>7. \A d \in Clients : d # c => wire'[d] = wire[d] BY <2>5 DEF TypeOK
  <2> QED BY <1>1, <2>2, <2>6, <2>7 DEF RestInv
<1> QED BY <1>2, <1>3 DEF SendTo

LEMMA SendToStep ==
  ASSUME Inv, TypeOK', NEW h, SendTo(h),
         UNCHANGED <<mu32_Count, _WebSocket_Clients, peer, late, misfed>>,
         \/ check' = check
         \/ check.pc \in {"handshake", "hello"} /\ \E pc \in {"hello", "register"} : check' = [check EXCEPT !.pc = pc]
         \/ check.pc = "answer" /\ check' = [check EXCEPT !.pc = "disconnect"],
         sender'.entry \in DOMAIN _WebSocket_Clients \cup {End}
  PROVE  Inv'
<1> USE DEF Inv, IInv
<1>1. Connected' = Connected /\ Connected \subseteq Slots BY ConnectedSlots DEF Connected
<1>2. \A j \in Slots :
            /\ mk_Data'[j].h_Socket = mk_Data[j].h_Socket
            /\ mk_Data'[j].b_Shutdown = mk_Data[j].b_Shutdown
            /\ mk_Data'[j].b_Closed = mk_Data[j].b_Closed
            /\ mk_Data'[j].collected = mk_Data[j].collected
            /\ mk_Data'[j]._is_websocket = mk_Data[j]._is_websocket
  BY SendToFrame
<1>3. check'.slot = check.slot /\ check'.h_Socket = check.h_Socket /\ check.slot \in Slots BY DEF TypeOK
<1>4. /\ check'.pc = "events" <=> check.pc = "events"
      /\ check.pc = "events" => check' = check
      /\ check'.pc \in {"answer", "disconnect"} <=> check.pc \in {"answer", "disconnect"}
      /\ check'.pc \in {"check", "sweep"} <=> check.pc \in {"check", "sweep"}
  BY DEF TypeOK
<1>5. 0 \in Slots BY SocketsAssumption DEF Slots
<1>6. ListInv' BY <1>1, <1>2, <1>5 DEF ListInv, InList
<1>7. DataWithOwner' BY <1>1, <1>2, <1>4 DEF DataWithOwner
<1>8. SlotsInv' BY <1>1, <1>2 DEF SlotsInv
<1>9. RestInv' BY SendToRest
<1>10. CheckInv' BY <1>1, <1>2, <1>3, <1>4 DEF CheckInv
<1>11. EntriesInv'
  <2>1. Entries' = Entries BY DEF Entries, Live
  <2>2. \A e \in Entries : e.slot \in Slots /\ e.client \in Clients BY EntriesType
  <2>3. \A e \in Entries : Own(e)' <=> Own(e) BY <1>1, <1>2, <2>2 DEF Own
  <2> QED BY <1>1, <1>2, <1>4, <2>1, <2>2, <2>3 DEF EntriesInv
<1>12. RequestsHandled' BY <1>1, <1>2, <1>3, <1>4 DEF RequestsHandled
<1> QED BY <1>6, <1>7, <1>8, <1>9, <1>10, <1>11, <1>12

\* A new client gets the next slot; it has not been named anywhere before.
LEMMA AcceptStep ==
  ASSUME Inv, TypeOK', NEW c \in Clients, Accept(c)
  PROVE  Inv'
<1> USE DEF Inv, IInv
<1> DEFINE n == mu32_Count
<1>1. n \in Slots /\ Connected \subseteq Slots /\ Connected' = Connected \cup {n} /\ n \notin Connected /\ n # 0
  <2>1. mu32_Count \in 1 .. MaxSockets /\ mu32_Count' = mu32_Count + 1 /\ mu32_Count < MaxSockets
    BY DEF Accept, Add, AcceptCondition, TypeOK
  <2> QED BY <2>1, ConnectedSlots, SocketsAssumption DEF Connected, Slots
<1>2. mk_Data'[n] = Fresh(c) /\ \A j \in Slots \ {n} : mk_Data'[j] = mk_Data[j]
  BY <1>1 DEF Accept, Add, TypeOK
<1>3. /\ peer[c].state = "away" /\ peer'[c].state = "open" /\ peer'[c].read = peer[c].read
      /\ \A d \in Clients \ {c} : peer'[d] = peer[d]
  BY DEF Accept, TypeOK
<1>4. UNCHANGED <<_WebSocket_Clients, wire, sender, late, misfed>> /\ check.pc = "sweep" /\ check' = Idle
  BY DEF Accept, Inside
<1>5. check'.pc = "check" BY <1>4 DEF Idle
<1>6. \A j \in Connected : mk_Data[j].h_Socket \in Clients /\ mk_Data[j].h_Socket # c
  BY <1>3 DEF ListInv, InList
<1>7. Fresh(c).h_Socket = c /\ Fresh(c).collected = 0 /\ Fresh(c).s8_SendBuf = <<>>
      /\ ~ Fresh(c)._is_websocket /\ ~ Fresh(c).b_Shutdown
  BY DEF Fresh
<1>8. \A j \in Slots : mk_Data[j].h_Socket # c BY <1>3 DEF SlotsInv
<1>9. ListInv'
  <2>1. mk_Data'[0].h_Socket = Listener
    <3>1. 0 \in Slots BY SocketsAssumption DEF Slots
    <3> QED BY <1>1, <1>2, <3>1 DEF ListInv
  <2>2. \A i, j \in Connected' :
           /\ mk_Data'[i].h_Socket \in Clients
           /\ mk_Data'[i].h_Socket = mk_Data'[j].h_Socket => i = j
    BY <1>1, <1>2, <1>6, <1>7 DEF ListInv
  <2>3. ASSUME NEW d \in Clients
        PROVE  InList(d)' <=> peer'[d].state \in {"open", "closed", "broken"}
    <3>1. CASE d = c BY <1>1, <1>2, <1>3, <1>7, <3>1 DEF InList
    <3>2. CASE d # c
      <4>1. InList(d)' <=> InList(d) BY <1>1, <1>2, <1>7, <3>2 DEF InList
      <4> QED BY <1>3, <3>2, <4>1 DEF ListInv
    <3> QED BY <3>1, <3>2
  <2> QED BY <2>1, <2>2, <2>3 DEF ListInv
<1>10. DataWithOwner'
  <2> SUFFICES ASSUME NEW i \in Connected'
               PROVE  mk_Data'[i].collected = peer'[mk_Data'[i].h_Socket].read
    <3>1. \A i \in Connected' : mk_Data'[i].collected \in Nat BY <1>1 DEF TypeOK, Connection
    <3> QED BY <1>5, <3>1 DEF DataWithOwner
  <2>1. CASE i = n BY <1>2, <1>3, <1>7, <2>1 DEF SlotsInv
  <2>2. CASE i # n
    <3>1. i \in Connected /\ mk_Data'[i] = mk_Data[i] BY <1>1, <1>2, <2>2
    <3>2. mk_Data[i].collected \in Nat BY <1>1, <3>1 DEF TypeOK, Connection
    <3>3. mk_Data[i].collected = peer[mk_Data[i].h_Socket].read BY <1>4, <3>1, <3>2 DEF DataWithOwner
    <3> QED BY <1>3, <1>6, <3>1, <3>3
  <2> QED BY <2>1, <2>2
<1>11. SlotsInv'
  <2>1. ASSUME NEW i \in Slots
        PROVE  /\ mk_Data'[i]._is_websocket => mk_Data'[i].h_Socket \in Upgraders \cup misfed'
               /\ mk_Data'[i].h_Socket \in Clients => peer'[mk_Data'[i].h_Socket].state # "away"
               /\ \A j \in Connected' : mk_Data'[j].h_Socket = mk_Data'[i].h_Socket => j <= i
    <3>1. CASE i = n
      <4>1. \A j \in Connected' : mk_Data'[j].h_Socket = c => j = n BY <1>1, <1>2, <1>6
      <4>2. n <= n BY <1>1 DEF Slots
      <4> QED BY <1>2, <1>3, <1>7, <3>1, <4>1, <4>2
    <3>2. CASE i # n
      <4>1. mk_Data'[i] = mk_Data[i] BY <1>2, <3>2
      <4>2. mk_Data[i].h_Socket # c BY <1>8
      <4> QED BY <1>1, <1>2, <1>3, <1>4, <1>7, <4>1, <4>2 DEF SlotsInv
    <3> QED BY <3>1, <3>2
  <2>2. \A d \in Clients : peer'[d].state = "away" => peer'[d].read = 0 /\ d \notin misfed'
    BY <1>3, <1>4 DEF SlotsInv
  <2> QED BY <2>1, <2>2 DEF SlotsInv
<1>12. RestInv'
  <2>1. <<wire[c], <<>>>> \in Rests BY <1>3 DEF RestInv, Rests
  <2>2. \A i \in Connected' : <<wire[mk_Data'[i].h_Socket], mk_Data'[i].s8_SendBuf>> \in Rests
    BY <1>1, <1>2, <1>7, <2>1 DEF RestInv
  <2> QED BY <1>3, <1>4, <2>2 DEF RestInv
<1>13. CheckInv' BY <1>5 DEF CheckInv
<1>14. EntriesInv'
  <2>1. Entries' = Entries BY <1>4 DEF Entries, Live
  <2>2. ASSUME NEW e \in Entries
        PROVE  /\ peer'[e.client].state # "away"
               /\ \A j \in Connected' : mk_Data'[j].h_Socket = e.client => j <= e.slot
               /\ Own(e)' /\ mk_Data'[e.slot].b_Closed => e.client \in late'
    <3>1. e.slot \in Slots /\ e.client \in Clients /\ e.client # c BY <1>3, EntriesType DEF EntriesInv
    <3>2. Own(e)' => Own(e) /\ e.slot # n BY <1>1, <1>2, <1>7, <3>1 DEF Own
    <3> QED BY <1>1, <1>2, <1>3, <1>4, <1>7, <3>1, <3>2 DEF EntriesInv
  <2> QED BY <1>4, <2>1, <2>2 DEF EntriesInv
<1>15. RequestsHandled'
  <2> SUFFICES ASSUME NEW i \in Connected'
               PROVE  LET conn == mk_Data'[i]
                      IN  /\ conn.b_Shutdown /\ conn.h_Socket \notin misfed' =>
                               conn.h_Socket \notin Upgraders /\ conn.collected >= Needed(conn.h_Socket)
                          /\ conn.h_Socket \notin Upgraders \cup misfed'
                               /\ conn.collected >= Needed(conn.h_Socket) => conn.b_Shutdown
    BY <1>5 DEF RequestsHandled
  <2>1. CASE i = n BY <1>2, <1>7, <2>1, SocketsAssumption DEF Needed
  <2>2. CASE i # n BY <1>1, <1>2, <1>4, <2>2 DEF RequestsHandled
  <2> QED BY <2>1, <2>2
<1> QED BY <1>9, <1>10, <1>11, <1>12, <1>13, <1>14, <1>15

\* Remove: a client is moved down or not at all.
LEMMA RemoveFrame ==
  ASSUME TypeOK, ListInv, NEW i \in Connected, Remove(i)
  PROVE  /\ mu32_Count - 1 \in Connected /\ Connected \subseteq Slots
         /\ Connected' = Connected \ {mu32_Count - 1}
         /\ mk_Data[i].h_Socket \in Clients
         /\ peer'[mk_Data[i].h_Socket] = Gone
         /\ wire'[mk_Data[i].h_Socket] = <<>>
         /\ \A d \in Clients : d # mk_Data[i].h_Socket => peer'[d] = peer[d] /\ wire'[d] = wire[d]
         /\ \A j \in Slots : j # i /\ j # mu32_Count - 1 => mk_Data'[j] = mk_Data[j]
         /\ i # mu32_Count - 1 => mk_Data'[i] = mk_Data[mu32_Count - 1]
         /\ mk_Data'[mu32_Count - 1] = Stale(mk_Data[mu32_Count - 1])
         /\ i <= mu32_Count - 1
<1> DEFINE last == mu32_Count - 1
<1>1. mu32_Count \in 1 .. MaxSockets BY DEF TypeOK
<1>2. /\ mu32_Count' = last
      /\ mk_Data' = [mk_Data EXCEPT ![i] = mk_Data[last], ![last] = Stale(mk_Data[last])]
      /\ peer' = [peer EXCEPT ![mk_Data[i].h_Socket] = Gone]
      /\ wire' = [wire EXCEPT ![mk_Data[i].h_Socket] = <<>>]
  BY DEF Remove
<1>3. last \in Connected /\ Connected \subseteq Slots /\ Connected' = Connected \ {last} /\ i <= last
  BY <1>1, <1>2, ConnectedSlots DEF Connected
<1>4. mk_Data[i].h_Socket \in Clients BY DEF ListInv
<1>5. i \in Slots /\ last \in Slots BY <1>3
<1>6. /\ peer'[mk_Data[i].h_Socket] = Gone /\ wire'[mk_Data[i].h_Socket] = <<>>
      /\ \A d \in Clients : d # mk_Data[i].h_Socket => peer'[d] = peer[d] /\ wire'[d] = wire[d]
  BY <1>2, <1>4 DEF TypeOK
<1> DEFINE stale == Stale(mk_Data[last])
           moved == mk_Data[last]
<1>7. mk_Data' = [mk_Data EXCEPT ![i] = moved, ![last] = stale] BY <1>2
<1> HIDE DEF stale, moved
<1>8. /\ \A j \in Slots : j # i /\ j # last => mk_Data'[j] = mk_Data[j]
      /\ i # last => mk_Data'[i] = moved
      /\ mk_Data'[last] = stale
  BY <1>5, <1>7 DEF TypeOK
<1> QED BY <1>3, <1>4, <1>6, <1>8 DEF stale, moved

LEMMA RemoveStep ==
  ASSUME Inv, TypeOK', NEW i \in Connected, Remove(i), check.pc = "sweep",
         UNCHANGED <<_WebSocket_Clients, sender, late, misfed>>,
         \/ check'.pc \in {"check", "sweep"}
         \/ /\ check'.pc = "events" /\ check'.slot = i /\ check'.h_Socket = mk_Data[i].h_Socket
            /\ check'.memory # "data"
  PROVE  Inv'
<1> USE DEF Inv, IInv
<1> DEFINE last == mu32_Count - 1
           r == mk_Data[i].h_Socket
<1>1. /\ last \in Connected /\ Connected \subseteq Slots /\ Connected' = Connected \ {last}
      /\ r \in Clients /\ peer'[r] = Gone /\ wire'[r] = <<>>
      /\ \A d \in Clients : d # r => peer'[d] = peer[d] /\ wire'[d] = wire[d]
      /\ \A j \in Slots : j # i /\ j # last => mk_Data'[j] = mk_Data[j]
      /\ i # last => mk_Data'[i] = mk_Data[last]
      /\ mk_Data'[last] = Stale(mk_Data[last])
      /\ i <= last
  BY RemoveFrame
<1>2. Gone.state = "gone" /\ Gone.read = 0 BY DEF Gone
<1>3. /\ Stale(mk_Data[last]).h_Socket = mk_Data[last].h_Socket
      /\ Stale(mk_Data[last])._is_websocket = mk_Data[last]._is_websocket
  BY DEF Stale, Fresh
<1>4. \A j \in Connected : j \in Int /\ j # 0 BY DEF Connected
<1>5. \A j \in Connected' : \E k \in Connected :
         /\ mk_Data'[j] = mk_Data[k] /\ (k = j \/ (j = i /\ k = last)) /\ mk_Data[k].h_Socket # r
  <2> SUFFICES ASSUME NEW j \in Connected'
               PROVE \E k \in Connected :
         /\ mk_Data'[j] = mk_Data[k] /\ (k = j \/ (j = i /\ k = last)) /\ mk_Data[k].h_Socket # r
    OBVIOUS
  <2>1. j \in Connected /\ j # last BY <1>1
  <2>2. CASE j = i
    <3>1. mk_Data[last].h_Socket # r BY <1>1, <2>1, <2>2 DEF ListInv
    <3> QED BY <1>1, <2>1, <2>2, <3>1
  <2>3. CASE j # i
    <3>1. mk_Data[j].h_Socket # r BY <1>1, <2>1, <2>3 DEF ListInv
    <3> QED BY <1>1, <2>1, <2>3, <3>1
  <2> QED BY <2>2, <2>3
<1>6. ~ (check'.pc = "events" /\ check'.memory = "data") /\ check'.pc \notin {"answer", "disconnect"}
  OBVIOUS
<1>7. ListInv'
  <2>1. mk_Data'[0].h_Socket = Listener
    <3>1. 0 \in Slots BY SocketsAssumption DEF Slots
    <3> QED BY <1>1, <1>4, <3>1 DEF ListInv
  <2>2. ASSUME NEW j \in Connected'
        PROVE  /\ mk_Data'[j].h_Socket \in Clients
               /\ \A m \in Connected' : mk_Data'[j].h_Socket = mk_Data'[m].h_Socket => j = m
    <3>1. mk_Data'[j].h_Socket \in Clients BY <1>5 DEF ListInv
    <3>2. ASSUME NEW m \in Connected', mk_Data'[j].h_Socket = mk_Data'[m].h_Socket
          PROVE  j = m
      <4>1. PICK k \in Connected : mk_Data'[j] = mk_Data[k] /\ (k = j \/ (j = i /\ k = last)) BY <1>5
      <4>2. PICK l \in Connected : mk_Data'[m] = mk_Data[l] /\ (l = m \/ (m = i /\ l = last)) BY <1>5
      <4>3. k = l BY <3>2, <4>1, <4>2 DEF ListInv
      <4> QED BY <1>1, <4>1, <4>2, <4>3
    <3> QED BY <3>1, <3>2
  <2>3. ASSUME NEW d \in Clients
        PROVE  InList(d)' <=> peer'[d].state \in {"open", "closed", "broken"}
    <3>1. CASE d = r
      <4>1. ~ InList(d)' BY <1>5, <3>1 DEF InList
      <4> QED BY <1>1, <1>2, <3>1, <4>1
    <3>2. CASE d # r
      <4>1. InList(d)' => InList(d) BY <1>5 DEF InList
      <4>2. ASSUME InList(d) PROVE InList(d)'
        <5>1. PICK k \in Connected : mk_Data[k].h_Socket = d BY <4>2 DEF InList
        <5>2. k # i BY <3>2, <5>1
        <5>3. CASE k = last BY <1>1, <5>1, <5>2, <5>3 DEF InList
        <5>4. CASE k # last BY <1>1, <5>1, <5>2, <5>4 DEF InList
        <5> QED BY <5>3, <5>4
      <4> QED BY <1>1, <3>2, <4>1, <4>2 DEF ListInv
    <3> QED BY <3>1, <3>2
  <2> QED BY <2>1, <2>2, <2>3 DEF ListInv
<1>8. DataWithOwner'
  <2> SUFFICES ASSUME NEW j \in Connected'
               PROVE  mk_Data'[j].collected = peer'[mk_Data'[j].h_Socket].read
    <3>1. \A j \in Connected' : mk_Data'[j].collected \in Nat BY <1>1 DEF TypeOK, Connection
    <3> QED BY <1>6, <3>1 DEF DataWithOwner
  <2>1. PICK k \in Connected : mk_Data'[j] = mk_Data[k] /\ mk_Data[k].h_Socket # r BY <1>5
  <2>2. mk_Data[k].collected \in Nat BY <1>1 DEF TypeOK, Connection
  <2>3. mk_Data[k].collected = peer[mk_Data[k].h_Socket].read BY <2>2 DEF DataWithOwner
  <2>4. mk_Data[k].h_Socket \in Clients BY DEF ListInv
  <2> QED BY <1>1, <2>1, <2>3, <2>4
<1>9. SlotsInv'
  <2>1. ASSUME NEW m \in Slots
        PROVE  /\ mk_Data'[m]._is_websocket => mk_Data'[m].h_Socket \in Upgraders \cup misfed'
               /\ mk_Data'[m].h_Socket \in Clients => peer'[mk_Data'[m].h_Socket].state # "away"
               /\ \A j \in Connected' : mk_Data'[j].h_Socket = mk_Data'[m].h_Socket => j <= m
    <3>1. \E k \in Slots : /\ mk_Data'[m].h_Socket = mk_Data[k].h_Socket
                           /\ mk_Data'[m]._is_websocket = mk_Data[k]._is_websocket
                           /\ (m = k \/ (m = i /\ k = last))
      BY <1>1, <1>3
    <3>2. PICK k \in Slots : /\ mk_Data'[m].h_Socket = mk_Data[k].h_Socket
                             /\ mk_Data'[m]._is_websocket = mk_Data[k]._is_websocket
                             /\ (m = k \/ (m = i /\ k = last))
      BY <3>1
    <3>3. mk_Data'[m]._is_websocket => mk_Data'[m].h_Socket \in Upgraders \cup misfed' BY <3>2 DEF SlotsInv
    <3>4. mk_Data'[m].h_Socket \in Clients => peer'[mk_Data'[m].h_Socket].state # "away"
      BY <1>1, <1>2, <3>2 DEF SlotsInv
    <3>5. ASSUME NEW j \in Connected', mk_Data'[j].h_Socket = mk_Data'[m].h_Socket
          PROVE  j <= m
      <4>1. PICK l \in Connected : mk_Data'[j] = mk_Data[l] /\ (l = j \/ (j = i /\ l = last)) BY <1>5
      <4>2. l <= k BY <3>2, <3>5, <4>1 DEF SlotsInv
      <4>3. j \in Int /\ l \in Int /\ k \in Int /\ m \in Int /\ j <= l BY <1>1, <1>4, <4>1 DEF Slots
      <4>4. CASE m = k BY <4>2, <4>3, <4>4
      <4>5. CASE m = i /\ k = last
        <5>1. l = k BY <1>1, <3>2, <3>5, <4>1, <4>5 DEF ListInv
        <5> QED BY <1>1, <4>1, <4>3, <4>5, <5>1
      <4> QED BY <3>2, <4>4, <4>5
    <3> QED BY <3>3, <3>4, <3>5
  <2>2. \A d \in Clients : peer'[d].state = "away" => peer'[d].read = 0 /\ d \notin misfed' BY <1>1, <1>2 DEF SlotsInv
  <2> QED BY <2>1, <2>2 DEF SlotsInv
<1>10. RestInv'
  <2>1. ASSUME NEW j \in Connected'
        PROVE  <<wire'[mk_Data'[j].h_Socket], mk_Data'[j].s8_SendBuf>> \in Rests
    <3>1. PICK k \in Connected : mk_Data'[j] = mk_Data[k] /\ mk_Data[k].h_Socket # r BY <1>5
    <3>2. mk_Data[k].h_Socket \in Clients BY DEF ListInv
    <3> QED BY <1>1, <3>1, <3>2 DEF RestInv
  <2>2. \A d \in Clients : peer'[d].state \in {"away", "gone"} => wire'[d] = <<>> BY <1>1, <1>2 DEF RestInv
  <2> QED BY <2>1, <2>2 DEF RestInv
<1>11. CheckInv'
  <2>1. CASE check'.pc \in {"check", "sweep"} BY <2>1 DEF CheckInv
  <2>2. CASE /\ check'.pc = "events" /\ check'.slot = i /\ check'.h_Socket = r
             /\ check'.memory # "data"
    <3>1. mk_Data'[i].h_Socket \in Clients BY <1>1, <1>3 DEF ListInv
    <3> QED BY <1>1, <1>2, <2>2, <3>1 DEF CheckInv
  <2> QED BY <2>1, <2>2
<1>12. EntriesInv'
  <2>1. Entries' = Entries BY DEF Entries, Live
  <2>2. ASSUME NEW e \in Entries
        PROVE  /\ peer'[e.client].state # "away"
               /\ \A j \in Connected' : mk_Data'[j].h_Socket = e.client => j <= e.slot
               /\ Own(e)' /\ mk_Data'[e.slot].b_Closed => e.client \in late'
    <3>1. e.slot \in Slots /\ e.client \in Clients BY EntriesType
    <3>2. peer'[e.client].state # "away" BY <1>1, <1>2, <3>1 DEF EntriesInv
    <3>3. ASSUME NEW j \in Connected', mk_Data'[j].h_Socket = e.client
          PROVE  j <= e.slot
      <4>1. PICK l \in Connected : mk_Data'[j] = mk_Data[l] /\ (l = j \/ (j = i /\ l = last)) BY <1>5
      <4>2. l <= e.slot BY <3>3, <4>1 DEF EntriesInv
      <4>3. j \in Int /\ l \in Int /\ e.slot \in Int /\ j <= l BY <1>1, <1>4, <3>1, <4>1 DEF Slots
      <4> QED BY <4>2, <4>3
    <3>4. ASSUME Own(e)', mk_Data'[e.slot].b_Closed
          PROVE  e.client \in late'
      <4>1. e.slot \in Connected' /\ mk_Data'[e.slot].h_Socket = e.client BY <3>4 DEF Own
      <4>2. PICK l \in Connected : mk_Data'[e.slot] = mk_Data[l] /\ (l = e.slot \/ (e.slot = i /\ l = last))
        BY <1>5, <4>1
      <4>3. l <= e.slot BY <4>1, <4>2 DEF EntriesInv
      <4>4. l = e.slot BY <1>1, <1>4, <4>2, <4>3
      <4>5. Own(e) /\ mk_Data[e.slot].b_Closed BY <3>4, <4>1, <4>2, <4>4 DEF Own
      <4> QED BY <4>5 DEF EntriesInv
    <3> QED BY <3>2, <3>3, <3>4
  <2> QED BY <2>1, <2>2 DEF EntriesInv
<1>13. RequestsHandled'
  <2> SUFFICES ASSUME NEW j \in Connected'
               PROVE  LET conn == mk_Data'[j]
                      IN  /\ conn.b_Shutdown /\ conn.h_Socket \notin misfed' =>
                               conn.h_Socket \notin Upgraders /\ conn.collected >= Needed(conn.h_Socket)
                          /\ conn.h_Socket \notin Upgraders \cup misfed'
                               /\ conn.collected >= Needed(conn.h_Socket) => conn.b_Shutdown
    BY <1>6 DEF RequestsHandled
  <2>1. PICK k \in Connected : mk_Data'[j] = mk_Data[k] BY <1>5
  <2> QED BY <2>1 DEF RequestsHandled
<1> QED BY <1>7, <1>8, <1>9, <1>10, <1>11, <1>12, <1>13

\* FD_READ, FD_WRITE and FD_CLOSE of one socket.
LEMMA HandleSocketStep ==
  ASSUME Inv, TypeOK', NEW i \in Slots, HandleSocket(i)
  PROVE  Inv'
<1> USE DEF Inv, IInv
<1> DEFINE c == mk_Data[i].h_Socket
           buf == mk_Data[i].s8_SendBuf
<1>1. /\ i \in Connected /\ Closed = {} /\ check.pc = "sweep" /\ Connected' = Connected
      /\ Connected \subseteq Slots
      /\ UNCHANGED <<mu32_Count, _WebSocket_Clients, sender, late, misfed>>
  BY ConnectedSlots DEF HandleSocket, Signalled, Inside, Connected
<1>2. c \in Clients /\ mk_Data[i] \in Connection /\ ~ mk_Data[i].b_Closed
  BY <1>1 DEF ListInv, Closed, TypeOK
<1>3. PICK n \in Pieces(i), k \in SendableNow(i) :
              /\ peer' = [peer EXCEPT
                             ![c].read = @ + n,
                             ![c].events = IF n > 0 /\ peer[c].read + n < peer[c].sent
                                           THEN {"FD_READ"} ELSE {}]
              /\ wire' = [wire EXCEPT ![c] = Arrives(@, SubSeq(buf, 1, k))]
              /\ mk_Data' = [mk_Data EXCEPT
                                ![i].s8_SendBuf = SubSeq(buf, k + 1, Len(buf)),
                                ![i].b_Closed = @ \/ "FD_CLOSE" \in EventsAt(i)]
              /\ check' = Returned(i, IF "FD_READ" \in EventsAt(i) THEN "data" ELSE "null", n)
  BY DEF HandleSocket
<1>4. peer[c] \in [state : PeerStates, sent : Nat, read : Nat, events : SUBSET SocketEvents]
  BY <1>2 DEF TypeOK
<1>5. n \in Nat /\ ("FD_READ" \notin EventsAt(i) => n = 0) BY <1>4 DEF Pieces
<1>6. k \in 0 .. Len(buf)
  <2>1. buf \in Seq({1, 2}) BY <1>2 DEF Connection
  <2>2. Len(buf) \in Nat BY <2>1, LenProperties
  <2> QED BY <2>2 DEF SendableNow
<1>7. /\ peer'[c].state = peer[c].state /\ peer'[c].read = peer[c].read + n
      /\ \A d \in Clients \ {c} : peer'[d] = peer[d]
  <2> DEFINE ev == IF n > 0 /\ peer[c].read + n < peer[c].sent THEN {"FD_READ"} ELSE {}
  <2>1. peer' = [peer EXCEPT ![c].read = @ + n, ![c].events = ev] BY <1>3
  <2> HIDE DEF ev
  <2> QED BY <1>2, <1>4, <2>1 DEF TypeOK
<1> DEFINE there == Arrives(wire[c], SubSeq(buf, 1, k))
           rest == SubSeq(buf, k + 1, Len(buf))
           closed == mk_Data[i].b_Closed \/ "FD_CLOSE" \in EventsAt(i)
<1>8. <<there, rest>> \in Rests
  <2>1. <<wire[c], buf>> \in Rests BY <1>1 DEF RestInv
  <2> QED BY <1>6, <2>1, RestStep
<1>9. /\ wire'[c] = there /\ \A d \in Clients \ {c} : wire'[d] = wire[d]
      /\ mk_Data'[i] = [mk_Data[i] EXCEPT !.s8_SendBuf = rest, !.b_Closed = closed]
      /\ \A j \in Slots \ {i} : mk_Data'[j] = mk_Data[j]
  <2>1. /\ wire' = [wire EXCEPT ![c] = there]
        /\ mk_Data' = [mk_Data EXCEPT ![i].s8_SendBuf = rest, ![i].b_Closed = closed]
    BY <1>3
  <2> HIDE DEF there, rest, closed
  <2> QED BY <1>2, <2>1 DEF TypeOK
<1>10. closed <=> "FD_CLOSE" \in EventsAt(i) BY <1>2
<1> HIDE DEF there, rest, closed
<1>11. /\ mk_Data'[i].h_Socket = c /\ mk_Data'[i].b_Shutdown = mk_Data[i].b_Shutdown
       /\ mk_Data'[i].collected = mk_Data[i].collected /\ mk_Data'[i]._is_websocket = mk_Data[i]._is_websocket
       /\ mk_Data'[i].s8_SendBuf = rest /\ mk_Data'[i].b_Closed = closed
  BY <1>2, <1>9 DEF Connection
<1>12. \A j \in Slots :
       /\ mk_Data'[j].h_Socket = mk_Data[j].h_Socket /\ mk_Data'[j].b_Shutdown = mk_Data[j].b_Shutdown
       /\ mk_Data'[j].collected = mk_Data[j].collected /\ mk_Data'[j]._is_websocket = mk_Data[j]._is_websocket
  BY <1>9, <1>11
<1>13. /\ check'.pc = "events" /\ check'.slot = i /\ check'.h_Socket = c /\ check'.events = EventsAt(i)
       /\ check'.memory = (IF "FD_READ" \in EventsAt(i) THEN "data" ELSE "null") /\ check'.got = n
  BY <1>3 DEF Returned
<1>14. "FD_READ" \in EventsAt(i) => ~ mk_Data[i].b_Shutdown BY DEF EventsAt
<1>15. \A d \in Clients : peer'[d].state = peer[d].state BY <1>7
<1>16. ListInv'
  <2>1. 0 \in Slots BY SocketsAssumption DEF Slots
  <2> QED BY <1>1, <1>12, <1>15, <2>1 DEF ListInv, InList
<1>17. DataWithOwner'
  <2> SUFFICES ASSUME NEW j \in Connected
               PROVE  mk_Data'[j].collected + (IF check'.pc = "events" /\ check'.memory = "data" /\ check'.slot = j
                                               THEN check'.got ELSE 0)
                        = peer'[mk_Data'[j].h_Socket].read
    BY <1>1 DEF DataWithOwner
  <2>1. mk_Data[j].collected \in Nat BY <1>1 DEF TypeOK, Connection
  <2>2. mk_Data[j].collected = peer[mk_Data[j].h_Socket].read BY <1>1, <2>1 DEF DataWithOwner
  <2>3. CASE j = i
    <3>1. mk_Data'[j].collected = mk_Data[i].collected /\ peer'[mk_Data'[j].h_Socket].read = peer[c].read + n
      BY <1>7, <1>11, <2>3
    <3>2. CASE "FD_READ" \in EventsAt(i)
      <4>1. check'.memory = "data" BY <1>13, <3>2
      <4> QED BY <1>13, <2>2, <2>3, <3>1, <4>1
    <3>3. CASE "FD_READ" \notin EventsAt(i)
      <4>1. check'.memory # "data" /\ n = 0 BY <1>5, <1>13, <3>3
      <4> QED BY <2>1, <2>2, <2>3, <3>1, <4>1
    <3> QED BY <3>2, <3>3
  <2>4. CASE j # i
    <3>1. mk_Data[j].h_Socket # c /\ mk_Data[j].h_Socket \in Clients BY <1>1, <2>4 DEF ListInv
    <3>2. mk_Data'[j] = mk_Data[j] BY <1>1, <1>9, <2>4
    <3>3. peer'[mk_Data[j].h_Socket] = peer[mk_Data[j].h_Socket] BY <1>7, <3>1
    <3> QED BY <1>13, <2>1, <2>2, <2>4, <3>2, <3>3
  <2> QED BY <2>3, <2>4
<1>18. SlotsInv'
  <2>1. peer[c].state # "away" BY <1>1, <1>2 DEF SlotsInv
  <2>2. \A d \in Clients : peer'[d].state = "away" => peer'[d].read = 0 /\ d \notin misfed'
    BY <1>1, <1>7, <2>1 DEF SlotsInv
  <2> QED BY <1>1, <1>12, <1>15, <2>2 DEF SlotsInv
<1>19. RestInv'
  <2>1. ASSUME NEW j \in Connected
        PROVE  <<wire'[mk_Data'[j].h_Socket], mk_Data'[j].s8_SendBuf>> \in Rests
    <3>1. CASE j = i BY <1>8, <1>9, <1>11, <3>1
    <3>2. CASE j # i
      <4>1. mk_Data[j].h_Socket # c /\ mk_Data[j].h_Socket \in Clients BY <1>1, <3>2 DEF ListInv
      <4>2. mk_Data'[j] = mk_Data[j] BY <1>1, <1>9, <3>2
      <4>3. wire'[mk_Data[j].h_Socket] = wire[mk_Data[j].h_Socket] BY <1>9, <4>1
      <4> QED BY <4>2, <4>3 DEF RestInv
    <3> QED BY <3>1, <3>2
  <2>2. peer[c].state \notin {"away", "gone"} BY <1>1 DEF ListInv, InList
  <2>3. ASSUME NEW d \in Clients
        PROVE  peer'[d].state \in {"away", "gone"} => wire'[d] = <<>>
    BY <1>9, <1>15, <2>2 DEF RestInv
  <2> QED BY <1>1, <2>1, <2>3 DEF RestInv
<1>20. CheckInv'
  <2>1. check'.memory # "freed" BY <1>13
  <2>2. check'.memory = "data" => ~ mk_Data'[i].b_Shutdown BY <1>11, <1>13, <1>14
  <2> QED BY <1>1, <1>2, <1>11, <1>13, <2>1, <2>2 DEF CheckInv
<1>21. EntriesInv'
  <2>1. Entries' = Entries BY <1>1 DEF Entries, Live
  <2>2. ASSUME NEW e \in Entries
        PROVE  /\ peer'[e.client].state # "away"
               /\ \A j \in Connected' : mk_Data'[j].h_Socket = e.client => j <= e.slot
               /\ Own(e)' /\ mk_Data'[e.slot].b_Closed =>
                     e.client \in late' \/ (check'.pc = "events" /\ check'.slot = e.slot /\ "FD_CLOSE" \in check'.events)
    <3>1. e.slot \in Slots /\ e.client \in Clients BY EntriesType
    <3>2. peer'[e.client].state # "away" BY <1>15, <3>1 DEF EntriesInv
    <3>3. \A j \in Connected' : mk_Data'[j].h_Socket = e.client => j <= e.slot BY <1>1, <1>12 DEF EntriesInv
    <3>4. ASSUME Own(e)', mk_Data'[e.slot].b_Closed
          PROVE  e.client \in late' \/ (check'.pc = "events" /\ check'.slot = e.slot /\ "FD_CLOSE" \in check'.events)
      <4>1. CASE e.slot = i BY <1>10, <1>11, <1>13, <3>4, <4>1
      <4>2. CASE e.slot # i
        <5>1. mk_Data'[e.slot] = mk_Data[e.slot] BY <1>9, <3>1, <4>2
        <5>2. e.slot \in Connected BY <1>1, <3>4 DEF Own
        <5> QED BY <1>1, <3>4, <5>1, <5>2 DEF Closed
      <4> QED BY <4>1, <4>2
    <3> QED BY <3>2, <3>3, <3>4
  <2> QED BY <1>1, <2>1, <2>2 DEF EntriesInv
<1>22. RequestsHandled' BY <1>1, <1>12, <1>13 DEF RequestsHandled
<1> QED BY <1>16, <1>17, <1>18, <1>19, <1>20, <1>21, <1>22

\* The entries that HandleEvents keeps.
LEMMA HandleEventsEntries ==
  ASSUME TypeOK, HandleEvents
  PROVE  /\ DOMAIN _WebSocket_Clients' = DOMAIN _WebSocket_Clients
         /\ \A e \in Entries' : e \in Entries /\ ("FD_CLOSE" \in check.events => e.slot # check.slot)
<1> DEFINE L == _WebSocket_Clients
<1>1. CASE "FD_CLOSE" \in check.events
  <2>1. L' = [n \in DOMAIN L |-> IF L[n].slot = check.slot THEN [L[n] EXCEPT !.erased = TRUE] ELSE L[n]]
    BY <1>1 DEF HandleEvents, CloseWebSocket
  <2>2. DOMAIN L' = DOMAIN L BY <2>1
  <2>3. \A n \in DOMAIN L : L[n] \in [slot : Slots, client : Clients, erased : BOOLEAN]
    <3>1. Len(L) \in Nat /\ DOMAIN L = 1 .. Len(L) BY LenProperties DEF TypeOK
    <3> QED BY <3>1, ElementOfSeq DEF TypeOK
  <2>4. ASSUME NEW n \in DOMAIN L, ~ L'[n].erased
        PROVE  L'[n] = L[n] /\ L[n].slot # check.slot
    <3>1. CASE L[n].slot = check.slot
      <4>1. L'[n] = [L[n] EXCEPT !.erased = TRUE] BY <2>1, <3>1
      <4>2. L'[n].erased BY <2>3, <4>1
      <4> QED BY <2>4, <4>2
    <3>2. CASE L[n].slot # check.slot BY <2>1, <3>2
    <3> QED BY <3>1, <3>2
  <2> QED BY <2>2, <2>4 DEF Entries, Live
<1>2. CASE "FD_CLOSE" \notin check.events
  BY <1>2 DEF HandleEvents, Entries, Live
<1> QED BY <1>1, <1>2

\* HandleEvents writes the data of one slot; the client in it is misfed if it writes without
\* having received anything from it.
LEMMA HandleEventsFrame ==
  ASSUME TypeOK, HandleEvents
  PROVE  \A j \in Slots :
            /\ mk_Data'[j].h_Socket = mk_Data[j].h_Socket
            /\ mk_Data'[j].b_Shutdown = mk_Data[j].b_Shutdown
            /\ mk_Data'[j].b_Closed = mk_Data[j].b_Closed
            /\ mk_Data'[j].s8_SendBuf = mk_Data[j].s8_SendBuf
            /\ mk_Data'[j].collected = IF j = check.slot /\ check.memory = "data"
                                       THEN mk_Data[j].collected + check.got ELSE mk_Data[j].collected
<1>1. check.slot \in Slots /\ mk_Data[check.slot] \in Connection /\ check.got \in Nat BY DEF TypeOK
<1> DEFINE conn == mk_Data[check.slot]
<1>2. CASE check.memory = "null" BY <1>2 DEF HandleEvents
<1>3. CASE check.memory = "data"
  <2>1. PICK upgrade, finished :
           Collect([conn EXCEPT !.collected = @ + check.got, !._is_websocket = @ \/ upgrade], finished)
    BY <1>3 DEF HandleEvents
  <2> DEFINE fed == [conn EXCEPT !.collected = @ + check.got, !._is_websocket = @ \/ upgrade]
  <2>2. mk_Data' = [mk_Data EXCEPT ![check.slot] = fed] BY <2>1 DEF Collect
  <2>3. /\ fed.h_Socket = conn.h_Socket /\ fed.b_Shutdown = conn.b_Shutdown /\ fed.b_Closed = conn.b_Closed
        /\ fed.s8_SendBuf = conn.s8_SendBuf /\ fed.collected = conn.collected + check.got
    BY <1>1 DEF Connection
  <2> HIDE DEF fed
  <2> QED BY <1>1, <1>3, <2>2, <2>3 DEF TypeOK
<1>4. CASE check.memory = "freed"
  <2>1. PICK upgrade, finished : Collect([conn EXCEPT !._is_websocket = @ \/ upgrade], finished)
    BY <1>4 DEF HandleEvents
  <2> DEFINE fed == [conn EXCEPT !._is_websocket = @ \/ upgrade]
  <2>2. mk_Data' = [mk_Data EXCEPT ![check.slot] = fed] BY <2>1 DEF Collect
  <2>3. /\ fed.h_Socket = conn.h_Socket /\ fed.b_Shutdown = conn.b_Shutdown /\ fed.b_Closed = conn.b_Closed
        /\ fed.s8_SendBuf = conn.s8_SendBuf /\ fed.collected = conn.collected
    BY <1>1 DEF Connection
  <2> HIDE DEF fed
  <2> QED BY <1>1, <1>4, <2>2, <2>3 DEF TypeOK
<1> QED BY <1>2, <1>3, <1>4 DEF TypeOK

\* Check counts the data for the connection in the slot, or, after an error, uses memory of
\* a connection that is gone.
LEMMA HandleEventsStep ==
  ASSUME Inv, TypeOK', HandleEvents
  PROVE  Inv'
<1> USE DEF Inv, IInv
<1> DEFINE s == check.slot
           conn == mk_Data[s]
<1>1. /\ check.pc = "events" /\ UNCHANGED <<mu32_Count, peer, wire, sender, late>>
      /\ Connected' = Connected /\ Connected \subseteq Slots
  BY ConnectedSlots DEF HandleEvents, Connected
<1>2. s \in Slots /\ conn \in Connection /\ check.got \in Nat /\ conn.h_Socket \in Clients
  BY <1>1 DEF TypeOK, CheckInv
\* Everything but what is counted, its flag and misfed stays as it is.
<1>3. ASSUME \A j \in Slots :
                /\ mk_Data'[j].h_Socket = mk_Data[j].h_Socket /\ mk_Data'[j].b_Shutdown = mk_Data[j].b_Shutdown
                /\ mk_Data'[j].b_Closed = mk_Data[j].b_Closed /\ mk_Data'[j].s8_SendBuf = mk_Data[j].s8_SendBuf
                /\ mk_Data'[j]._is_websocket =>
                      mk_Data[j]._is_websocket \/ mk_Data[j].h_Socket \in Upgraders \cup misfed'
      PROVE  ListInv' /\ SlotsInv' /\ RestInv' /\ EntriesInv'
  <2>1. 0 \in Slots BY SocketsAssumption DEF Slots
  <2>2. ListInv' BY <1>1, <1>3, <2>1 DEF ListInv, InList
  <2>3. SlotsInv'
    <3>1. misfed' = misfed \/ misfed' = misfed \cup {conn.h_Socket} BY <1>1 DEF HandleEvents
    <3>2. peer[conn.h_Socket].state # "away" BY <1>2 DEF SlotsInv
    <3> QED BY <1>1, <1>3, <3>1, <3>2 DEF SlotsInv
  <2>4. RestInv' BY <1>1, <1>3 DEF RestInv
  <2>5. EntriesInv'
    <3>1. ASSUME NEW e \in Entries'
          PROVE  /\ peer'[e.client].state # "away"
                 /\ \A j \in Connected' : mk_Data'[j].h_Socket = e.client => j <= e.slot
                 /\ Own(e)' /\ mk_Data'[e.slot].b_Closed => e.client \in late'
      <4>1. e \in Entries /\ ("FD_CLOSE" \in check.events => e.slot # s) BY HandleEventsEntries
      <4>2. e.slot \in Slots /\ e.client \in Clients BY <4>1, EntriesType
      <4>3. Own(e)' <=> Own(e) BY <1>1, <1>3, <4>2 DEF Own
      <4> QED BY <1>1, <1>3, <4>1, <4>2, <4>3 DEF EntriesInv
    <3>2. sender'.entry \in DOMAIN _WebSocket_Clients' \cup {End} BY <1>1, HandleEventsEntries DEF EntriesInv
    <3> QED BY <3>1, <3>2 DEF EntriesInv
  <2> QED BY <2>2, <2>3, <2>4, <2>5
<1>4. ASSUME NEW con, NEW finished, check' = Respond(con, finished)
      PROVE  /\ check'.pc \in {"check", "handshake", "answer"}
             /\ finished => check'.slot = s /\ check'.h_Socket = check.h_Socket
             /\ finished /\ con._is_websocket => check'.pc = "handshake"
             /\ finished /\ ~ con._is_websocket => check'.pc = "answer"
             /\ ~ finished => check'.pc = "check"
  BY <1>4 DEF Respond, Idle
<1>5. CASE check.memory = "null" /\ check' = Idle /\ UNCHANGED <<mk_Data, misfed>>
  <2>1. check'.pc = "check" BY <1>5 DEF Idle
  <2>2. ListInv' /\ SlotsInv' /\ RestInv' /\ EntriesInv' BY <1>3, <1>5
  <2>3. DataWithOwner' BY <1>1, <1>5, <2>1 DEF DataWithOwner
  <2>4. CheckInv' BY <2>1 DEF CheckInv
  <2>5. RequestsHandled' BY <1>1, <1>5, <2>1 DEF RequestsHandled
  <2> QED BY <2>2, <2>3, <2>4, <2>5
<1>6. CASE check.memory = "data"
  <2>0. /\ misfed' = misfed
        /\ \E upgrade \in Upgrade(conn, check.got), finished \in Finished(conn, check.got) :
              Collect([conn EXCEPT !.collected = @ + check.got, !._is_websocket = @ \/ upgrade], finished)
    BY <1>1, <1>6 DEF HandleEvents
  <2>1. s \in Connected /\ conn.h_Socket = check.h_Socket /\ ~ conn.b_Shutdown
    BY <1>1, <1>6 DEF CheckInv
  <2>2. PICK upgrade \in Upgrade(conn, check.got), finished \in Finished(conn, check.got) :
           Collect([conn EXCEPT !.collected = @ + check.got, !._is_websocket = @ \/ upgrade], finished)
    BY <2>0
  <2> DEFINE flag == conn._is_websocket \/ upgrade
             fed == [conn EXCEPT !.collected = @ + check.got, !._is_websocket = flag]
  <2>3. mk_Data' = [mk_Data EXCEPT ![s] = fed] /\ check' = Respond(fed, finished) BY <2>2 DEF Collect
  <2>4. flag => conn.h_Socket \in Upgraders \cup misfed BY <1>2 DEF SlotsInv, Upgrade
  <2>5. conn._is_websocket => conn.h_Socket \in Upgraders \cup misfed BY <1>2 DEF SlotsInv
  <2>6. conn.h_Socket \in Upgraders \ misfed /\ check.got > 0 => flag BY DEF Upgrade
  <2>7. flag \in BOOLEAN OBVIOUS
  <2> HIDE DEF flag
  <2>8. /\ fed.h_Socket = conn.h_Socket /\ fed.b_Shutdown = conn.b_Shutdown /\ fed.b_Closed = conn.b_Closed
        /\ fed.s8_SendBuf = conn.s8_SendBuf /\ fed.collected = conn.collected + check.got
        /\ fed._is_websocket = flag
    BY <1>2 DEF Connection
  <2> HIDE DEF fed
  <2>9. mk_Data'[s] = fed /\ \A j \in Slots \ {s} : mk_Data'[j] = mk_Data[j] BY <1>2, <2>3 DEF TypeOK
  <2>10. ListInv' /\ SlotsInv' /\ RestInv' /\ EntriesInv'
    <3>1. ASSUME NEW j \in Slots
          PROVE  /\ mk_Data'[j].h_Socket = mk_Data[j].h_Socket /\ mk_Data'[j].b_Shutdown = mk_Data[j].b_Shutdown
                 /\ mk_Data'[j].b_Closed = mk_Data[j].b_Closed /\ mk_Data'[j].s8_SendBuf = mk_Data[j].s8_SendBuf
                 /\ mk_Data'[j]._is_websocket =>
                      mk_Data[j]._is_websocket \/ mk_Data[j].h_Socket \in Upgraders \cup misfed'
      BY <2>0, <2>4, <2>8, <2>9
    <3> QED BY <1>3, <3>1
  <2>11. check'.pc \in {"check", "handshake", "answer"} BY <1>4, <2>3
  <2>12. DataWithOwner'
    <3> SUFFICES ASSUME NEW j \in Connected
                 PROVE  mk_Data'[j].collected = peer[mk_Data[j].h_Socket].read
      <4>1. \A j \in Connected : mk_Data'[j].collected \in Nat /\ mk_Data'[j].h_Socket = mk_Data[j].h_Socket
        BY <1>1, <2>8, <2>9 DEF TypeOK, Connection
      <4> QED BY <1>1, <2>11, <4>1 DEF DataWithOwner
    <3>1. mk_Data[j].collected \in Nat BY <1>1 DEF TypeOK, Connection
    <3>2. CASE j = s BY <1>1, <1>6, <2>8, <2>9, <3>1, <3>2 DEF DataWithOwner
    <3>3. CASE j # s BY <1>1, <1>6, <2>9, <3>1, <3>3 DEF DataWithOwner
    <3> QED BY <3>2, <3>3
  <2>13. conn.collected \in Nat /\ Needed(conn.h_Socket) \in Nat BY <1>2, SocketsAssumption DEF Connection, Needed
  <2>14. ASSUME finished, ~ flag, conn.h_Socket \notin misfed
         PROVE  conn.collected + check.got >= Needed(conn.h_Socket) /\ conn.h_Socket \notin Upgraders
    <3>1. ~ conn._is_websocket BY <2>14 DEF flag
    <3>2. conn.collected < Needed(conn.h_Socket) /\ conn.collected + check.got >= Needed(conn.h_Socket)
      BY <2>2, <2>14, <3>1 DEF Finished
    <3>3. check.got > 0 BY <1>2, <2>13, <3>2
    <3> QED BY <2>6, <2>14, <3>2, <3>3
  <2>15. CheckInv'
    <3>1. CASE check'.pc = "check" BY <3>1 DEF CheckInv
    <3>2. CASE check'.pc # "check"
      <4>1. finished /\ check'.slot = s /\ check'.h_Socket = check.h_Socket BY <1>4, <2>3, <3>2
      <4>2. check'.pc = "answer" => ~ flag BY <1>4, <2>3, <2>8, <4>1
      <4> QED BY <1>1, <1>2, <2>0, <2>1, <2>8, <2>9, <2>11, <2>14, <4>1, <4>2 DEF CheckInv
    <3> QED BY <3>1, <3>2
  <2>16. RequestsHandled'
    <3>1. ASSUME NEW j \in Connected, j # s
          PROVE  LET con == mk_Data'[j]
                 IN  /\ con.b_Shutdown /\ con.h_Socket \notin misfed =>
                          con.h_Socket \notin Upgraders /\ con.collected >= Needed(con.h_Socket)
                     /\ con.h_Socket \notin Upgraders \cup misfed
                          /\ con.collected >= Needed(con.h_Socket) => con.b_Shutdown
      BY <1>1, <2>9, <3>1 DEF RequestsHandled
    <3>2. check'.pc = "answer" => check'.slot = s BY <1>4, <2>3
    <3>3. check'.pc = "answer" /\ conn.h_Socket \notin misfed =>
             conn.collected + check.got >= Needed(conn.h_Socket)
      <4>1. check'.pc = "answer" => finished /\ ~ flag BY <1>4, <2>3, <2>8
      <4> QED BY <2>14, <4>1
    <3>4. ASSUME conn.h_Socket \notin Upgraders \cup misfed,
                 conn.collected + check.got >= Needed(conn.h_Socket)
          PROVE  check'.pc = "answer"
      <4>1. ~ (conn.collected >= Needed(conn.h_Socket)) BY <1>1, <2>1, <3>4 DEF RequestsHandled
      <4>2. conn.collected < Needed(conn.h_Socket) BY <2>13, <4>1
      <4>3. Finished(conn, check.got) = {TRUE} BY <3>4, <4>1, <4>2 DEF Finished
      <4>4. finished /\ ~ fed._is_websocket BY <2>2, <2>4, <2>8, <3>4, <4>3
      <4> QED BY <1>4, <2>3, <4>4
    <3>5. check'.h_Socket = check.h_Socket \/ check'.pc # "answer" BY <1>4, <2>3
    <3>6. check'.pc # "disconnect" /\ misfed' = misfed BY <2>0, <2>11
    <3>7. mk_Data'[s].h_Socket = conn.h_Socket /\ ~ mk_Data'[s].b_Shutdown
          /\ mk_Data'[s].collected = conn.collected + check.got
      BY <2>1, <2>8, <2>9
    <3>8. ASSUME NEW j \in Connected'
          PROVE  LET con == mk_Data'[j]
                     busy == check'.slot = j /\ check'.pc \in {"answer", "disconnect"}
                 IN  /\ con.b_Shutdown /\ con.h_Socket \notin misfed' =>
                          con.h_Socket \notin Upgraders /\ con.collected >= Needed(con.h_Socket)
                     /\ busy /\ con.h_Socket \notin misfed' =>
                          /\ con.h_Socket = check'.h_Socket
                          /\ ~ con.b_Shutdown
                          /\ con.collected >= Needed(con.h_Socket)
                     /\ ~ busy /\ con.h_Socket \notin Upgraders \cup misfed'
                           /\ con.collected >= Needed(con.h_Socket) => con.b_Shutdown
      <4>1. CASE j = s BY <2>1, <3>2, <3>3, <3>4, <3>5, <3>6, <3>7, <4>1
      <4>2. CASE j # s BY <1>1, <3>1, <3>2, <3>6, <4>2
      <4> QED BY <4>1, <4>2
    <3> QED BY <3>8 DEF RequestsHandled
  <2> QED BY <2>10, <2>12, <2>15, <2>16
<1>7. CASE check.memory = "freed"
  <2>0. /\ misfed' = misfed \cup {conn.h_Socket}
        /\ \E upgrade, finished : Collect([conn EXCEPT !._is_websocket = @ \/ upgrade], finished)
    BY <1>1, <1>7 DEF HandleEvents
  <2>1. PICK upgrade, finished : Collect([conn EXCEPT !._is_websocket = @ \/ upgrade], finished) BY <2>0
  <2> DEFINE flag == conn._is_websocket \/ upgrade
             fed == [conn EXCEPT !._is_websocket = flag]
  <2>2. mk_Data' = [mk_Data EXCEPT ![s] = fed] /\ check' = Respond(fed, finished) BY <2>1 DEF Collect
  <2> HIDE DEF flag
  <2>3. /\ fed.h_Socket = conn.h_Socket /\ fed.b_Shutdown = conn.b_Shutdown /\ fed.b_Closed = conn.b_Closed
        /\ fed.s8_SendBuf = conn.s8_SendBuf /\ fed.collected = conn.collected
    BY <1>2 DEF Connection
  <2> HIDE DEF fed
  <2>4. mk_Data'[s] = fed /\ \A j \in Slots \ {s} : mk_Data'[j] = mk_Data[j] BY <1>2, <2>2 DEF TypeOK
  <2>5. \A j \in Slots :
           /\ mk_Data'[j].h_Socket = mk_Data[j].h_Socket /\ mk_Data'[j].b_Shutdown = mk_Data[j].b_Shutdown
           /\ mk_Data'[j].b_Closed = mk_Data[j].b_Closed /\ mk_Data'[j].s8_SendBuf = mk_Data[j].s8_SendBuf
           /\ mk_Data'[j].collected = mk_Data[j].collected
           /\ j = s => mk_Data[j].h_Socket \in misfed'
           /\ j # s => mk_Data'[j]._is_websocket = mk_Data[j]._is_websocket
    BY <2>0, <2>3, <2>4
  <2>6. check'.pc \in {"check", "handshake", "answer"} BY <1>4, <2>2
  <2>7. ListInv' /\ SlotsInv' /\ RestInv' /\ EntriesInv' BY <1>3, <2>5
  <2>8. DataWithOwner' BY <1>1, <1>7, <2>5, <2>6 DEF DataWithOwner
  <2>9. check.h_Socket \in Clients /\ peer[check.h_Socket].state = "gone" BY <1>1, <1>7 DEF CheckInv
  <2>10. check'.pc # "check" => check'.slot = s /\ check'.h_Socket = check.h_Socket BY <1>4, <2>2
  <2>11. CheckInv' BY <1>1, <1>2, <2>5, <2>6, <2>9, <2>10 DEF CheckInv
  <2>12. RequestsHandled'
    <3>1. check'.pc = "answer" => check'.slot = s BY <2>10
    <3> QED BY <1>1, <2>0, <2>5, <2>6, <3>1 DEF RequestsHandled
  <2> QED BY <2>7, <2>8, <2>11, <2>12
<1>8. CASE check.memory = "null" BY <1>5, <1>8 DEF HandleEvents
<1> QED BY <1>6, <1>7, <1>8 DEF TypeOK

LEMMA RegisterStep ==
  ASSUME Inv, TypeOK', Register
  PROVE  Inv'
<1> USE DEF Inv, IInv
<1> DEFINE s == check.slot
           conn == mk_Data[s]
           L == _WebSocket_Clients
           new == [slot |-> s, client |-> conn.h_Socket, erased |-> FALSE]
<1>1. /\ UNCHANGED <<mu32_Count, mk_Data, peer, wire, sender, misfed>> /\ check' = Idle
      /\ L' = Append(L, new) /\ check.pc = "register"
      /\ late' = IF conn.b_Closed THEN late \cup {conn.h_Socket} ELSE late
      /\ Connected' = Connected /\ Connected \subseteq Slots
  BY ConnectedSlots DEF Register, Connected
<1>2. check'.pc = "check" BY <1>1 DEF Idle
<1>3. s \in Slots /\ conn.h_Socket \in Clients BY <1>1 DEF TypeOK, CheckInv
<1>4. ListInv' BY <1>1 DEF ListInv, InList
<1>5. DataWithOwner' BY <1>1, <1>2 DEF DataWithOwner
<1>6. SlotsInv' BY <1>1 DEF SlotsInv
<1>7. RestInv' BY <1>1 DEF RestInv
<1>8. CheckInv' BY <1>2 DEF CheckInv
<1>9. EntriesInv'
  <2>1. /\ DOMAIN L = 1 .. Len(L) /\ DOMAIN L' = 1 .. Len(L) + 1 /\ L'[Len(L) + 1] = new
        /\ \A n \in 1 .. Len(L) : L'[n] = L[n]
        /\ Len(L) \in Nat
    <3> DEFINE E == [slot : Slots, client : Clients, erased : BOOLEAN]
    <3>1. L \in Seq(E) /\ new \in E BY <1>3 DEF TypeOK
    <3> HIDE DEF new, E
    <3>2. /\ L' \in Seq(E) /\ Len(L') = Len(L) + 1 /\ L'[Len(L) + 1] = new
          /\ \A n \in 1 .. Len(L) : L'[n] = L[n]
      BY <1>1, <3>1, AppendProperties
    <3> QED BY <3>1, <3>2, LenProperties
  <2>2. \A e \in Entries' : e \in Entries \/ e = new BY <2>1 DEF Entries, Live
  <2>3. ASSUME NEW e \in Entries'
        PROVE  /\ peer'[e.client].state # "away"
               /\ \A j \in Connected' : mk_Data'[j].h_Socket = e.client => j <= e.slot
               /\ Own(e)' /\ mk_Data'[e.slot].b_Closed => e.client \in late'
    <3>1. Own(e)' <=> Own(e) BY <1>1 DEF Own
    <3>2. CASE e \in Entries BY <1>1, <3>1, <3>2 DEF EntriesInv
    <3>3. CASE e = new BY <1>1, <1>3, <3>3 DEF SlotsInv
    <3> QED BY <2>2, <3>2, <3>3
  <2>4. sender'.entry \in DOMAIN L' \cup {End} BY <1>1, <2>1 DEF EntriesInv
  <2> QED BY <2>3, <2>4 DEF EntriesInv
<1>10. RequestsHandled' BY <1>1, <1>2 DEF RequestsHandled
<1> QED BY <1>4, <1>5, <1>6, <1>7, <1>8, <1>9, <1>10

LEMMA DisconnectStep ==
  ASSUME Inv, TypeOK', Disconnect
  PROVE  Inv'
<1> USE DEF Inv, IInv
<1> DEFINE s == check.slot
           h == check.h_Socket
<1>1. /\ UNCHANGED <<mu32_Count, _WebSocket_Clients, peer, wire, sender, late, misfed>> /\ check' = Idle
      /\ check.pc = "disconnect" /\ Connected' = Connected /\ Connected \subseteq Slots
  BY ConnectedSlots DEF Disconnect, Connected
<1>2. check'.pc = "check" BY <1>1 DEF Idle
<1>3. s \in Slots BY DEF TypeOK
<1>4. ASSUME NEW j \in Slots
      PROVE  /\ mk_Data'[j].h_Socket = mk_Data[j].h_Socket /\ mk_Data'[j].collected = mk_Data[j].collected
             /\ mk_Data'[j].b_Closed = mk_Data[j].b_Closed /\ mk_Data'[j].s8_SendBuf = mk_Data[j].s8_SendBuf
             /\ mk_Data'[j]._is_websocket = mk_Data[j]._is_websocket
             /\ j \in Connected /\ mk_Data[j].h_Socket = h => mk_Data'[j].b_Shutdown
             /\ ~ (j \in Connected /\ mk_Data[j].h_Socket = h) => mk_Data'[j].b_Shutdown = mk_Data[j].b_Shutdown
  <2>1. mk_Data[j] \in Connection BY DEF TypeOK
  <2>2. mk_Data'[j] = IF j \in Connected /\ mk_Data[j].h_Socket = h
                      THEN [mk_Data[j] EXCEPT !.b_Shutdown = TRUE] ELSE mk_Data[j]
    BY DEF Disconnect, DisconnectClient
  <2>3. CASE j \in Connected /\ mk_Data[j].h_Socket = h BY <2>1, <2>2, <2>3 DEF Connection
  <2>4. CASE ~ (j \in Connected /\ mk_Data[j].h_Socket = h)
    <3>1. mk_Data'[j] = mk_Data[j] BY <2>2, <2>4
    <3> QED BY <2>4, <3>1
  <2> QED BY <2>3, <2>4
<1>5. 0 \in Slots BY SocketsAssumption DEF Slots
<1>6. ListInv' BY <1>1, <1>4, <1>5 DEF ListInv, InList
<1>7. DataWithOwner' BY <1>1, <1>2, <1>4 DEF DataWithOwner
<1>8. SlotsInv' BY <1>1, <1>4 DEF SlotsInv
<1>9. RestInv' BY <1>1, <1>4 DEF RestInv
<1>10. CheckInv' BY <1>2 DEF CheckInv
<1>11. EntriesInv'
  <2>1. Entries' = Entries BY <1>1 DEF Entries, Live
  <2>2. ASSUME NEW e \in Entries
        PROVE  /\ peer'[e.client].state # "away"
               /\ \A j \in Connected' : mk_Data'[j].h_Socket = e.client => j <= e.slot
               /\ Own(e)' /\ mk_Data'[e.slot].b_Closed => e.client \in late'
    <3>1. e.slot \in Slots BY EntriesType
    <3>2. Own(e)' <=> Own(e) BY <1>1, <1>4, <3>1 DEF Own
    <3> QED BY <1>1, <1>4, <3>1, <3>2 DEF EntriesInv
  <2> QED BY <1>1, <2>1, <2>2 DEF EntriesInv
\* Either the connection is still in its slot, or it is gone and no slot holds it.
<1>12. \/ h \in Clients /\ ~ InList(h) /\ mk_Data[s].h_Socket \in misfed
       \/ s \in Connected /\ mk_Data[s].h_Socket = h /\ h \in misfed
       \/ /\ s \in Connected /\ mk_Data[s].h_Socket = h /\ h \notin Upgraders
          /\ mk_Data[s].collected >= Needed(h)
  BY <1>1 DEF CheckInv, ListInv
<1>13. RequestsHandled'
  <2>1. ASSUME NEW j \in Connected
        PROVE  LET con == mk_Data'[j]
               IN  /\ con.b_Shutdown /\ con.h_Socket \notin misfed =>
                        con.h_Socket \notin Upgraders /\ con.collected >= Needed(con.h_Socket)
                   /\ con.h_Socket \notin Upgraders \cup misfed
                        /\ con.collected >= Needed(con.h_Socket) => con.b_Shutdown
    <3>1. CASE mk_Data[j].h_Socket = h
      <4>1. j = s /\ (h \notin misfed => h \notin Upgraders /\ mk_Data[s].collected >= Needed(h))
        BY <1>12, <3>1 DEF InList, ListInv
      <4> QED BY <1>1, <1>4, <3>1, <4>1
    <3>2. CASE mk_Data[j].h_Socket # h
      <4>1. j = s => mk_Data[s].h_Socket \in misfed BY <1>12, <3>2
      <4> QED BY <1>1, <1>4, <3>2, <4>1 DEF RequestsHandled
    <3> QED BY <3>1, <3>2
  <2> QED BY <1>1, <1>2, <2>1 DEF RequestsHandled
<1> QED BY <1>6, <1>7, <1>8, <1>9, <1>10, <1>11, <1>13

LEMMA NextInv ==
  ASSUME Inv, [Next]_vars
  PROVE  Inv'
<1>1. TypeOK /\ ListInv /\ CheckInv /\ EntriesInv BY DEF Inv, IInv
<1>2. CASE CheckStep
  <2>1. TypeOK' BY <1>1, <1>2, CheckStepType
  <2>2. CASE EnterLoop BY <1>1, <2>1, <2>2, QuietStep DEF EnterLoop, EntriesInv
  <2>3. CASE RemoveClosed
    <3>1. PICK i \in Connected : Remove(i) BY <2>3 DEF RemoveClosed, Closed
    <3>2. check.pc = "sweep" /\ UNCHANGED <<_WebSocket_Clients, sender, late, misfed, check>>
      BY <2>3 DEF RemoveClosed, Inside
    <3> QED BY <2>1, <3>1, <3>2, RemoveStep
  <2>4. CASE WaitEnds BY <1>1, <2>1, <2>4, QuietStep DEF WaitEnds, Inside, EntriesInv, Idle
  <2>5. CASE HandleEvents BY <2>1, <2>5, HandleEventsStep
  <2>6. CASE SendHandshake \/ SendHello \/ SendAnswer
    <3>1. PICK h : SendTo(h) BY <2>6 DEF SendHandshake, SendHello, SendAnswer
    <3> QED BY <1>1, <2>1, <2>6, <3>1, SendToStep DEF SendHandshake, SendHello, SendAnswer, EntriesInv
  <2>7. CASE Register BY <2>1, <2>7, RegisterStep
  <2>8. CASE Disconnect BY <2>1, <2>8, DisconnectStep
  <2> QED BY <1>2, <2>2, <2>3, <2>4, <2>5, <2>6, <2>7, <2>8 DEF CheckStep
<1>3. ASSUME NEW i \in Slots, SocketStep(i)
      PROVE  Inv'
  <2>1. TypeOK' BY <1>1, <1>3, SocketType
  <2>2. CASE SocketFails(i)
    BY <2>1, <2>2, RemoveStep DEF SocketFails, Signalled, Inside, Idle
  <2>3. CASE ReadFails(i)
    BY <2>1, <2>3, RemoveStep DEF ReadFails, Signalled, Inside, Returned
  <2>4. CASE WriteFails(i)
    <3>1. /\ check'.pc = "events" /\ check'.slot = i /\ check'.h_Socket = mk_Data[i].h_Socket
          /\ check'.memory # "data"
      BY <2>4 DEF WriteFails, Returned
    <3> QED BY <2>1, <2>4, <3>1, RemoveStep DEF WriteFails, Signalled, Inside
  <2>5. CASE HandleSocket(i) BY <2>1, <2>5, HandleSocketStep
  <2> QED BY <1>3, <2>2, <2>3, <2>4, <2>5 DEF SocketStep
<1>4. ASSUME NEW c \in Clients, Accept(c)
      PROVE  Inv'
  BY <1>1, <1>4, AcceptType, AcceptStep
<1>5. ASSUME NEW c \in Clients, ClientStep(c)
      PROVE  Inv'
  <2>1. UNCHANGED <<mu32_Count, mk_Data, _WebSocket_Clients, wire, check, sender, late, misfed>>
    BY <1>1, <1>5, ClientType
  <2>2. TypeOK' BY <1>1, <1>5, <2>1, ClientType DEF PeerType, TypeOK
  <2>3. \A d \in Clients :
            /\ peer'[d].read = peer[d].read
            /\ \/ peer'[d].state = peer[d].state
               \/ peer[d].state = "open" /\ peer'[d].state \in {"closed", "broken"}
    <3>1. peer[c] \in [state : PeerStates, sent : Nat, read : Nat, events : SUBSET SocketEvents]
      BY <1>1 DEF TypeOK
    <3>2. peer \in [Clients -> [state : PeerStates, sent : Nat, read : Nat, events : SUBSET SocketEvents]]
      BY <1>1 DEF TypeOK
    <3>3. CASE Send(c)
      <4>1. PICK n, ev : peer' = [peer EXCEPT ![c].sent = n, ![c].events = ev] BY <3>3 DEF Send
      <4> QED BY <3>1, <3>2, <4>1
    <3>4. CASE Leave(c)
      <4> DEFINE ev == peer[c].events \cup {"FD_CLOSE"}
      <4>1. PICK how \in {"closed", "broken"} :
                peer' = [peer EXCEPT ![c].state = how, ![c].events = @ \cup {"FD_CLOSE"}]
        BY <3>4 DEF Leave
      <4>2. peer' = [peer EXCEPT ![c].state = how, ![c].events = ev] BY <4>1
      <4>3. peer[c].state = "open" BY <3>4 DEF Leave
      <4> HIDE DEF ev
      <4> QED BY <3>1, <3>2, <4>2, <4>3
    <3>5. CASE AnswerShutdown(c)
      <4>1. PICK ev : peer' = [peer EXCEPT ![c].state = "closed", ![c].events = ev]
        BY <3>5 DEF AnswerShutdown
      <4>2. peer[c].state = "open" BY <3>5 DEF AnswerShutdown
      <4> QED BY <3>1, <3>2, <4>1, <4>2
    <3>6. CASE MakeRoom(c)
      <4>1. PICK ev : peer' = [peer EXCEPT ![c].events = ev] BY <3>6 DEF MakeRoom
      <4> QED BY <3>1, <3>2, <4>1
    <3> QED BY <1>5, <3>3, <3>4, <3>5, <3>6 DEF ClientStep
  <2> QED BY <1>1, <2>1, <2>2, <2>3, QuietStep DEF EntriesInv
<1>6. CASE SenderStep
  <2>1. TypeOK' BY <1>1, <1>6, SenderStepType
  <2>2. \A n : After(n) \subseteq DOMAIN _WebSocket_Clients \cup {End} BY DEF After, Live
  <2>3. sender'.entry \in DOMAIN _WebSocket_Clients \cup {End}
    <3>1. CASE BeginBundle BY <1>1, <2>2, <3>1 DEF BeginBundle, TypeOK
    <3>2. CASE ReadEntry BY <1>1, <3>2 DEF ReadEntry, TypeOK, EntriesInv
    <3>3. CASE SendEntry BY <1>1, <2>2, <3>3 DEF SendEntry, TypeOK, Live
    <3> QED BY <1>6, <3>1, <3>2, <3>3 DEF SenderStep
  <2>4. CASE BeginBundle \/ ReadEntry
    BY <2>1, <2>3, <2>4, QuietStep DEF BeginBundle, ReadEntry
  <2>5. CASE SendEntry BY <2>1, <2>3, <2>5, SendToStep DEF SendEntry
  <2> QED BY <1>6, <2>4, <2>5 DEF SenderStep
<1>7. CASE UNCHANGED vars
  <2>1. TypeOK' BY <1>1, <1>7 DEF vars, TypeOK
  <2> QED BY <1>1, <1>7, <2>1, QuietStep DEF vars, EntriesInv
<1> QED BY <1>2, <1>3, <1>4, <1>5, <1>6, <1>7 DEF Next

-----------------------------------------------------------------------------
(* Theorems. *)

\* The invariant of the socket list holds for any clients and any number of slots: a client is
\* in one slot at most wherever cList::Remove has moved it, and what it has sent, what it has
\* of a message, what Check holds of it and the entries made for it belong together.
THEOREM Invariance == Spec => []IInv
<1>1. Spec => []Inv BY InitInv, NextInv, PTL DEF Spec
<1> QED BY <1>1, PTL DEF Inv

\* A complete request is answered exactly once, by DisconnectClient for the right socket,
\* for any pieces it arrives in.
THEOREM Answered == Spec => []RequestsHandled
<1>1. Spec => []Inv BY InitInv, NextInv, PTL DEF Spec
<1> QED BY <1>1, PTL DEF Inv

\* SendTo and the rest sent by ProcessEvents never mix two messages to a client.
THEOREM InOnePiece == Spec => []MessagesWhole
<1>1. Spec => []Inv BY InitInv, NextInv, PTL DEF Spec
<1>2. ASSUME Inv PROVE MessagesWhole
  <2> SUFFICES ASSUME NEW c \in Clients PROVE wire[c] = <<>> \/ wire[c] = <<1>>
    BY DEF MessagesWhole
  <2>1. CASE InList(c)
    <3>1. PICK i \in Connected : mk_Data[i].h_Socket = c BY <2>1 DEF InList
    <3>2. <<wire[c], mk_Data[i].s8_SendBuf>> \in Rests BY <1>2, <3>1 DEF Inv, IInv, RestInv
    <3> QED BY <3>2 DEF Rests
  <2>2. CASE ~ InList(c)
    <3>1. peer[c].state \in {"away", "gone"} BY <1>2, <2>2 DEF Inv, IInv, TypeOK, ListInv, PeerStates
    <3> QED BY <1>2, <3>1 DEF Inv, IInv, RestInv
  <2> QED BY <2>1, <2>2
<1> QED BY <1>1, <1>2, PTL

\* Only a Remove takes an entry away from its client.
LEMMA StaysOwn ==
  ASSUME Inv, NEW e \in Entries, Own(e), ~ Own(e)', [Next]_vars
  PROVE  \E i \in Connected : Remove(i) /\ check.pc = "sweep"
<1> USE DEF Inv, IInv
<1>1. e.slot \in Slots /\ Connected \subseteq Slots BY EntriesType, ConnectedSlots
<1>2. mk_Data[e.slot].h_Socket = e.client /\ e.slot \in Connected BY DEF Own
<1>3. e.slot \notin Connected' \/ mk_Data'[e.slot].h_Socket # e.client BY DEF Own
<1>4. ASSUME mu32_Count' = mu32_Count, mk_Data'[e.slot].h_Socket = mk_Data[e.slot].h_Socket
      PROVE  FALSE
  <2>1. Connected' = Connected BY <1>4 DEF Connected
  <2> QED BY <1>2, <1>3, <1>4, <2>1
<1>5. CASE CheckStep
  <2>1. CASE RemoveClosed BY <2>1 DEF RemoveClosed, Closed, Inside
  <2>2. CASE EnterLoop \/ WaitEnds \/ Register BY <1>4, <2>2 DEF EnterLoop, WaitEnds, Register
  <2>3. CASE SendHandshake \/ SendHello \/ SendAnswer
    <3>1. PICK h : SendTo(h) BY <2>3 DEF SendHandshake, SendHello, SendAnswer
    <3>2. mk_Data'[e.slot].h_Socket = mk_Data[e.slot].h_Socket BY <1>1, <3>1, SendToFrame
    <3> QED BY <1>4, <2>3, <3>2 DEF SendHandshake, SendHello, SendAnswer
  <2>4. CASE Disconnect
    <3>1. mk_Data[e.slot] \in Connection BY <1>1 DEF TypeOK
    <3>2. \/ mk_Data'[e.slot] = [mk_Data[e.slot] EXCEPT !.b_Shutdown = TRUE]
          \/ mk_Data'[e.slot] = mk_Data[e.slot]
      BY <1>1, <2>4 DEF Disconnect, DisconnectClient
    <3>3. mk_Data'[e.slot].h_Socket = mk_Data[e.slot].h_Socket BY <3>1, <3>2 DEF Connection
    <3> QED BY <1>4, <2>4, <3>3 DEF Disconnect
  <2>5. CASE HandleEvents
    <3>1. mu32_Count' = mu32_Count BY <2>5 DEF HandleEvents
    <3>2. mk_Data'[e.slot].h_Socket = mk_Data[e.slot].h_Socket BY <1>1, <2>5, HandleEventsFrame
    <3> QED BY <1>4, <3>1, <3>2
  <2> QED BY <1>5, <2>1, <2>2, <2>3, <2>4, <2>5 DEF CheckStep
<1>6. ASSUME NEW i \in Slots, SocketStep(i)
      PROVE  \E k \in Connected : Remove(k) /\ check.pc = "sweep"
  <2>1. CASE SocketFails(i) \/ ReadFails(i) \/ WriteFails(i)
    BY <2>1 DEF SocketFails, ReadFails, WriteFails, Signalled, Inside
  <2>2. CASE HandleSocket(i)
    <3>1. mu32_Count' = mu32_Count BY <2>2 DEF HandleSocket
    <3>2. PICK rest, closed : mk_Data' = [mk_Data EXCEPT ![i].s8_SendBuf = rest, ![i].b_Closed = closed]
      BY <2>2 DEF HandleSocket
    <3>3. mk_Data[i] \in Connection BY DEF TypeOK
    <3>4. mk_Data'[e.slot].h_Socket = mk_Data[e.slot].h_Socket BY <1>1, <3>2, <3>3 DEF TypeOK, Connection
    <3> QED BY <1>4, <3>1, <3>4
  <2> QED BY <1>6, <2>1, <2>2 DEF SocketStep
<1>7. ASSUME NEW c \in Clients, Accept(c)
      PROVE  FALSE
  <2>1. mu32_Count \in Nat /\ mu32_Count' = mu32_Count + 1 /\ e.slot \in 1 .. mu32_Count - 1
    BY <1>2, <1>7 DEF Accept, Add, TypeOK, Connected
  <2>2. e.slot \in Connected' /\ e.slot # mu32_Count BY <2>1 DEF Connected
  <2>3. mk_Data'[e.slot] = mk_Data[e.slot] BY <1>1, <1>7, <2>2 DEF Accept, Add, TypeOK
  <2> QED BY <1>2, <1>3, <2>2, <2>3
<1>8. ASSUME NEW c \in Clients, ClientStep(c)
      PROVE  FALSE
  BY <1>4, <1>8, ClientType
<1>9. CASE SenderStep
  <2>1. CASE BeginBundle \/ ReadEntry BY <1>4, <2>1 DEF BeginBundle, ReadEntry
  <2>2. CASE SendEntry
    <3>1. mk_Data'[e.slot].h_Socket = mk_Data[e.slot].h_Socket BY <1>1, <2>2, SendToFrame DEF SendEntry
    <3> QED BY <1>4, <2>2, <3>1 DEF SendEntry
  <2> QED BY <1>9, <2>1, <2>2 DEF SenderStep
<1>10. CASE UNCHANGED vars BY <1>4, <1>10 DEF vars
<1> QED BY <1>5, <1>6, <1>7, <1>8, <1>9, <1>10 DEF Next

\* Every step keeps to the three ways in which an entry of the WebSocket clients may go stale:
\* in particular CloseWebSocket erases all entries of a client that is where they point.
THEOREM EntriesStale == Spec => StaleOnlyByMove
<1>1. Spec => []Inv BY InitInv, NextInv, PTL DEF Spec
<1>2. ASSUME Inv, [Next]_vars, NEW e \in Entries, Own(e), ~ Own(e)'
      PROVE  InList(e.client)' \/ ~ mk_Data[e.slot].b_Closed \/ e.client \in late
  <2> USE DEF Inv, IInv
  <2>1. PICK i \in Connected : Remove(i) /\ check.pc = "sweep" BY <1>2, StaysOwn
  <2>2. /\ mu32_Count - 1 \in Connected /\ Connected' = Connected \ {mu32_Count - 1}
        /\ \A j \in Slots : j # i /\ j # mu32_Count - 1 => mk_Data'[j] = mk_Data[j]
        /\ i # mu32_Count - 1 => mk_Data'[i] = mk_Data[mu32_Count - 1]
        /\ Connected \subseteq Slots
    BY <1>2, <2>1, RemoveFrame
  <2>3. e.slot \in Connected /\ mk_Data[e.slot].h_Socket = e.client BY <1>2 DEF Own
  <2>4. CASE e.slot = i
    \* The entry's own client is removed: after its FD_CLOSE only if it was registered late.
    BY <1>2, <2>1 DEF EntriesInv
  <2>5. CASE e.slot # i /\ e.slot = mu32_Count - 1
    \* The entry's client is moved into the slot of the removed one.
    BY <2>1, <2>2, <2>3, <2>5 DEF InList
  <2>6. CASE e.slot # i /\ e.slot # mu32_Count - 1
    BY <1>2, <2>2, <2>3, <2>6 DEF Own
  <2> QED BY <2>4, <2>5, <2>6
<1>3. Inv /\ [Next]_vars =>
        [\A e \in Entries :
          Own(e) /\ ~ Own(e)' /\ e \in Entries' =>
              \/ InList(e.client)'
              \/ ~ mk_Data[e.slot].b_Closed
              \/ e.client \in late]_vars
  BY <1>2
<1> QED BY <1>1, <1>3, PTL DEF Spec, StaleOnlyByMove

-----------------------------------------------------------------------------
(* The refinement of Connections: what each connection is, field by field. *)

\* A connection by its fields.
Conn(state, sent, collected, spoiled, shut, rest, got) ==
    [state |-> state, sent |-> sent, collected |-> collected, spoiled |-> spoiled, shut |-> shut,
     rest |-> rest, got |-> got]

LEMMA ConnFields ==
  ASSUME NEW s, NEW n, NEW k, NEW m, NEW b, NEW r, NEW g
  PROVE  /\ Conn(s, n, k, m, b, r, g).state = s /\ Conn(s, n, k, m, b, r, g).sent = n
         /\ Conn(s, n, k, m, b, r, g).collected = k /\ Conn(s, n, k, m, b, r, g).shut = b
         /\ Conn(s, n, k, m, b, r, g).spoiled = m /\ Conn(s, n, k, m, b, r, g).rest = r /\ Conn(s, n, k, m, b, r, g).got = g
BY DEF Conn

Sending(v, rest, got) == [v EXCEPT !.rest = rest, !.got = got]

LEMMA TwoFields ==
  ASSUME NEW s, NEW n, NEW k, NEW m, NEW b, NEW r, NEW g, NEW x, NEW y, NEW old, NEW new,
         old = Conn(s, n, k, m, b, r, g), new = Conn(s, n, k, m, b, x, y)
  PROVE  new = Sending(old, x, y)
<1> DEFINE v == [state |-> s, sent |-> n, collected |-> k, spoiled |-> m, shut |-> b, rest |-> r, got |-> g]
           u == [state |-> s, sent |-> n, collected |-> k, spoiled |-> m, shut |-> b, rest |-> x, got |-> g]
<1>1. [v EXCEPT !.rest = x] = u OBVIOUS
<1>2. [u EXCEPT !.got = y] = Conn(s, n, k, m, b, x, y) BY DEF Conn
<1> HIDE DEF u
<1>3. [[v EXCEPT !.rest = x] EXCEPT !.got = y] = Conn(s, n, k, m, b, x, y) BY <1>1, <1>2
<1>4. [v EXCEPT !.rest = x, !.got = y] = [[v EXCEPT !.rest = x] EXCEPT !.got = y] BY Zenon
<1> QED BY <1>3, <1>4 DEF Conn, Sending

No == FALSE
Spoiled(c) == c \in misfed

LEMMA KeepsSpoiled == misfed' = misfed => \A c \in Clients : Spoiled(c)' = Spoiled(c)
BY DEF Spoiled

HeldView(p, conn, w, spoiled) ==
    Conn(IF p.state = "open" THEN "open" ELSE "left", p.sent, conn.collected, spoiled, conn.b_Shutdown,
         conn.s8_SendBuf, w)
OtherView(p, w) == Conn(p.state, 0, 0, No, No, <<>>, w)

\* What the connections are, without CHOOSE.
Seen ==
    /\ \A i \in Connected :
          LET c == mk_Data[i].h_Socket
          IN  ConnectionOf(c) = HeldView(peer[c], mk_Data[i], wire[c], Spoiled(c))
    /\ \A c \in Clients : ~ InList(c) => ConnectionOf(c) = OtherView(peer[c], wire[c])

LEMMA SeenNow == ListInv => Seen
<1> SUFFICES ASSUME ListInv PROVE Seen OBVIOUS
<1>1. ASSUME NEW i \in Connected
      PROVE  LET c == mk_Data[i].h_Socket
             IN  ConnectionOf(c) = HeldView(peer[c], mk_Data[i], wire[c], Spoiled(c))
  <2> DEFINE c == mk_Data[i].h_Socket
  <2>1. \A j \in Connected : mk_Data[j].h_Socket = c <=> j = i BY <1>1 DEF ListInv
  <2>2. SlotOf(c) \in Connected /\ mk_Data[SlotOf(c)].h_Socket = c BY <2>1 DEF SlotOf
  <2>3. SlotOf(c) = i /\ InList(c) BY <2>1, <2>2 DEF InList
  <2> HIDE DEF c
  <2>4. ConnectionOf(c) = HeldView(peer[c], mk_Data[i], wire[c], Spoiled(c)) BY <2>3 DEF ConnectionOf, HeldView, Conn, Spoiled
  <2> QED BY <2>4 DEF c
<1>2. \A c \in Clients : ~ InList(c) => ConnectionOf(c) = OtherView(peer[c], wire[c])
  BY DEF ConnectionOf, OtherView, Conn, No
<1> QED BY <1>1, <1>2 DEF Seen

LEMMA SeenNext == ListInv' => Seen'
BY SeenNow, PTL

Mapped == [c \in Clients |-> ConnectionOf(c)]

\* A connection stays as it is when its fields do, wherever its slot goes.
LEMMA Untouched ==
  ASSUME ListInv, ListInv', NEW c \in Clients,
         peer'[c].state = peer[c].state, wire'[c] = wire[c], Spoiled(c)' = Spoiled(c),
         \/ ~ InList(c) /\ ~ InList(c)'
         \/ /\ peer'[c].sent = peer[c].sent
            /\ \E i \in Connected, j \in Connected' :
                  /\ mk_Data[i].h_Socket = c /\ mk_Data'[j].h_Socket = c
                  /\ mk_Data'[j].collected = mk_Data[i].collected
                  /\ mk_Data'[j].b_Shutdown = mk_Data[i].b_Shutdown
                  /\ mk_Data'[j].s8_SendBuf = mk_Data[i].s8_SendBuf
  PROVE  ConnectionOf(c)' = ConnectionOf(c)
<1>1. Seen /\ Seen' BY SeenNow, SeenNext
<1>2. CASE ~ InList(c) /\ ~ InList(c)' BY <1>1, <1>2 DEF Seen, OtherView
<1>3. CASE /\ peer'[c].sent = peer[c].sent
            /\ \E i \in Connected, j \in Connected' :
                  /\ mk_Data[i].h_Socket = c /\ mk_Data'[j].h_Socket = c
                  /\ mk_Data'[j].collected = mk_Data[i].collected
                  /\ mk_Data'[j].b_Shutdown = mk_Data[i].b_Shutdown
                  /\ mk_Data'[j].s8_SendBuf = mk_Data[i].s8_SendBuf
  BY <1>1, <1>3 DEF Seen, HeldView
<1> QED BY <1>2, <1>3

\* A change of one connection, as a step of Connections writes it.
LEMMA OnlyOne ==
  ASSUME NEW c \in Clients, \A d \in Clients \ {c} : ConnectionOf(d)' = ConnectionOf(d)
  PROVE  Mapped' = [Mapped EXCEPT ![c] = ConnectionOf(c)']
<1>1. Mapped' = [d \in Clients |-> ConnectionOf(d)'] BY DEF Mapped
<1> QED BY <1>1 DEF Mapped

LEMMA OneSteps ==
  ASSUME NEW c \in Clients, \A d \in Clients \ {c} : ConnectionOf(d)' = ConnectionOf(d),
         ConnectionOf(c)' # ConnectionOf(c) => Server!Step(c)
  PROVE  [Server!Next]_Mapped
<1>1. Mapped' = [Mapped EXCEPT ![c] = ConnectionOf(c)'] BY OnlyOne
<1>2. CASE ConnectionOf(c)' = ConnectionOf(c) BY <1>1, <1>2 DEF Mapped
<1>3. CASE ConnectionOf(c)' # ConnectionOf(c)
  <2>1. Mapped[c] = ConnectionOf(c) /\ Mapped'[c] = ConnectionOf(c)' BY <1>1 DEF Mapped
  <2>2. Server!Next BY <1>3, <2>1 DEF Server!Next, Mapped
  <2> QED BY <2>2
<1> QED BY <1>2, <1>3

-----------------------------------------------------------------------------
(* Closed connections. *)

\* FD_CLOSE comes when the client has left, and the slot is marked after it; a client is not
\* read beyond what it has sent.
LeftInv ==
    /\ \A c \in Clients :
          /\ "FD_CLOSE" \in peer[c].events => peer[c].state \in {"closed", "broken"}
          /\ peer[c].read <= peer[c].sent
          /\ peer[c].state = "away" => peer[c].sent = 0
    /\ \A i \in Connected :
          mk_Data[i].b_Closed => peer[mk_Data[i].h_Socket].state \in {"closed", "broken"}

\* What HandleSocket changes, field by field.
LEMMA HandleSocketFrame ==
  ASSUME TypeOK, ListInv, NEW i \in Slots, HandleSocket(i)
  PROVE  /\ i \in Connected /\ mk_Data[i].h_Socket \in Clients
         /\ mu32_Count' = mu32_Count /\ ~ mk_Data[i].b_Closed
         /\ \A d \in Clients \ {mk_Data[i].h_Socket} : peer'[d] = peer[d] /\ wire'[d] = wire[d]
         /\ \A j \in Slots \ {i} : mk_Data'[j] = mk_Data[j]
         /\ \E n \in Pieces(i), k \in SendableNow(i) :
               LET c == mk_Data[i].h_Socket
                   buf == mk_Data[i].s8_SendBuf
               IN  /\ n \in Nat /\ k \in 0 .. Len(buf)
                   /\ peer'[c].state = peer[c].state /\ peer'[c].sent = peer[c].sent
                   /\ peer'[c].read = peer[c].read + n /\ "FD_CLOSE" \notin peer'[c].events
                   /\ wire'[c] = Arrives(wire[c], SubSeq(buf, 1, k))
                   /\ mk_Data'[i] = [mk_Data[i] EXCEPT !.s8_SendBuf = SubSeq(buf, k + 1, Len(buf)),
                                                       !.b_Closed = "FD_CLOSE" \in EventsAt(i)]
<1> DEFINE c == mk_Data[i].h_Socket
           buf == mk_Data[i].s8_SendBuf
<1>1. i \in Connected /\ Closed = {} /\ mu32_Count' = mu32_Count
  BY DEF HandleSocket, Signalled
<1>2. c \in Clients /\ mk_Data[i] \in Connection /\ ~ mk_Data[i].b_Closed
  BY <1>1 DEF ListInv, Closed, TypeOK
<1>3. PICK n \in Pieces(i), k \in SendableNow(i) :
              /\ peer' = [peer EXCEPT
                             ![c].read = @ + n,
                             ![c].events = IF n > 0 /\ peer[c].read + n < peer[c].sent
                                           THEN {"FD_READ"} ELSE {}]
              /\ wire' = [wire EXCEPT ![c] = Arrives(@, SubSeq(buf, 1, k))]
              /\ mk_Data' = [mk_Data EXCEPT
                                ![i].s8_SendBuf = SubSeq(buf, k + 1, Len(buf)),
                                ![i].b_Closed = @ \/ "FD_CLOSE" \in EventsAt(i)]
  BY DEF HandleSocket
<1>4. peer[c] \in [state : PeerStates, sent : Nat, read : Nat, events : SUBSET SocketEvents]
  BY <1>2 DEF TypeOK
<1>5. n \in Nat BY <1>4 DEF Pieces
<1>6. k \in 0 .. Len(buf)
  <2>1. buf \in Seq({1, 2}) BY <1>2 DEF Connection
  <2>2. Len(buf) \in Nat BY <2>1, LenProperties
  <2> QED BY <2>2 DEF SendableNow
<1>7. /\ peer'[c].state = peer[c].state /\ peer'[c].sent = peer[c].sent
      /\ peer'[c].read = peer[c].read + n /\ "FD_CLOSE" \notin peer'[c].events
      /\ \A d \in Clients \ {c} : peer'[d] = peer[d]
  <2> DEFINE ev == IF n > 0 /\ peer[c].read + n < peer[c].sent THEN {"FD_READ"} ELSE {}
  <2>1. peer' = [peer EXCEPT ![c].read = @ + n, ![c].events = ev] BY <1>3
  <2>2. "FD_CLOSE" \notin ev OBVIOUS
  <2> HIDE DEF ev
  <2> QED BY <1>2, <1>4, <2>1, <2>2 DEF TypeOK
<1> DEFINE there == Arrives(wire[c], SubSeq(buf, 1, k))
           rest == SubSeq(buf, k + 1, Len(buf))
           closed == mk_Data[i].b_Closed \/ "FD_CLOSE" \in EventsAt(i)
<1>8. /\ wire'[c] = there /\ \A d \in Clients \ {c} : wire'[d] = wire[d]
      /\ mk_Data'[i] = [mk_Data[i] EXCEPT !.s8_SendBuf = rest, !.b_Closed = closed]
      /\ \A j \in Slots \ {i} : mk_Data'[j] = mk_Data[j]
  <2>1. /\ wire' = [wire EXCEPT ![c] = there]
        /\ mk_Data' = [mk_Data EXCEPT ![i].s8_SendBuf = rest, ![i].b_Closed = closed]
    BY <1>3
  <2> HIDE DEF there, rest, closed
  <2> QED BY <1>2, <2>1 DEF TypeOK
<1>9. closed = ("FD_CLOSE" \in EventsAt(i)) BY <1>2
<1>10. mk_Data'[i] = [mk_Data[i] EXCEPT !.s8_SendBuf = rest, !.b_Closed = "FD_CLOSE" \in EventsAt(i)]
  BY <1>8, <1>9
<1>11. wire'[c] = there /\ \A d \in Clients \ {c} : peer'[d] = peer[d] /\ wire'[d] = wire[d] BY <1>7, <1>8
<1> QED BY <1>1, <1>2, <1>5, <1>6, <1>7, <1>8, <1>10, <1>11

\* What a client or the network changes, field by field.
LEMMA ClientFrame ==
  ASSUME TypeOK, NEW c \in Clients, ClientStep(c)
  PROVE  /\ UNCHANGED <<mu32_Count, mk_Data, wire>>
         /\ \A d \in Clients \ {c} : peer'[d] = peer[d]
         /\ peer'[c].read = peer[c].read
         /\ \/ /\ peer'[c].state = peer[c].state /\ peer'[c].sent = peer[c].sent
               /\ "FD_CLOSE" \in peer'[c].events <=> "FD_CLOSE" \in peer[c].events
            \/ /\ peer[c].state = "open" /\ peer'[c].state = "open" /\ peer'[c].sent = peer[c].sent + 1
               /\ "FD_CLOSE" \in peer'[c].events <=> "FD_CLOSE" \in peer[c].events
            \/ /\ peer[c].state = "open" /\ peer'[c].state \in {"closed", "broken"}
               /\ peer'[c].sent = peer[c].sent
<1>1. peer[c] \in [state : PeerStates, sent : Nat, read : Nat, events : SUBSET SocketEvents]
  BY DEF TypeOK
<1>2. peer \in [Clients -> [state : PeerStates, sent : Nat, read : Nat, events : SUBSET SocketEvents]]
  BY DEF TypeOK
<1>3. UNCHANGED <<mu32_Count, mk_Data, wire>> BY ClientType
<1>4. CASE Send(c)
  <2> DEFINE ev == peer[c].events \cup {"FD_READ"}
  <2>1. peer' = [peer EXCEPT ![c].sent = @ + 1, ![c].events = ev] /\ peer[c].state = "open" BY <1>4 DEF Send
  <2>2. "FD_CLOSE" \in ev <=> "FD_CLOSE" \in peer[c].events OBVIOUS
  <2> HIDE DEF ev
  <2> QED BY <1>1, <1>2, <1>3, <2>1, <2>2
<1>5. CASE Leave(c) \/ AnswerShutdown(c)
  <2> DEFINE ev == peer[c].events \cup {"FD_CLOSE"}
  <2>1. PICK how \in {"closed", "broken"} : peer' = [peer EXCEPT ![c].state = how, ![c].events = ev]
    BY <1>5 DEF Leave, AnswerShutdown
  <2>2. peer[c].state = "open" BY <1>5 DEF Leave, AnswerShutdown
  <2> HIDE DEF ev
  <2> QED BY <1>1, <1>2, <1>3, <2>1, <2>2
<1>6. CASE MakeRoom(c)
  <2> DEFINE ev == peer[c].events \cup {"FD_WRITE"}
  <2>1. peer' = [peer EXCEPT ![c].events = ev] BY <1>6 DEF MakeRoom
  <2>2. "FD_CLOSE" \in ev <=> "FD_CLOSE" \in peer[c].events OBVIOUS
  <2> HIDE DEF ev
  <2> QED BY <1>1, <1>2, <1>3, <2>1, <2>2
<1> QED BY <1>4, <1>5, <1>6 DEF ClientStep

\* All steps of Check and of the main thread but those of the list keep these fields.
LEMMA CheckFrame ==
  ASSUME Inv, (CheckStep /\ ~ RemoveClosed) \/ SenderStep
  PROVE  /\ mu32_Count' = mu32_Count /\ peer' = peer
         /\ \A j \in Slots : /\ mk_Data'[j].h_Socket = mk_Data[j].h_Socket
                             /\ mk_Data'[j].b_Closed = mk_Data[j].b_Closed
<1> USE DEF Inv, IInv
<1>1. CASE UNCHANGED <<mu32_Count, mk_Data, peer>> BY <1>1
<1>2. ASSUME NEW h, SendTo(h), UNCHANGED <<mu32_Count, peer>>
      PROVE  /\ mu32_Count' = mu32_Count /\ peer' = peer
             /\ \A j \in Slots : /\ mk_Data'[j].h_Socket = mk_Data[j].h_Socket
                                 /\ mk_Data'[j].b_Closed = mk_Data[j].b_Closed
  BY <1>2, SendToFrame
<1>3. CASE HandleEvents
  <2>1. mu32_Count' = mu32_Count /\ peer' = peer BY <1>3 DEF HandleEvents
  <2> QED BY <1>3, <2>1, HandleEventsFrame
<1>4. CASE Disconnect
  <2>1. ASSUME NEW j \in Slots
        PROVE  mk_Data'[j].h_Socket = mk_Data[j].h_Socket /\ mk_Data'[j].b_Closed = mk_Data[j].b_Closed
    <3>1. mk_Data[j] \in Connection BY DEF TypeOK
    <3>2. \/ mk_Data'[j] = [mk_Data[j] EXCEPT !.b_Shutdown = TRUE]
          \/ mk_Data'[j] = mk_Data[j]
      BY <1>4 DEF Disconnect, DisconnectClient
    <3> QED BY <3>1, <3>2 DEF Connection
  <2> QED BY <1>4, <2>1 DEF Disconnect
<1>5. CASE SendHandshake \/ SendHello \/ SendAnswer \/ SendEntry
  BY <1>2, <1>5 DEF SendHandshake, SendHello, SendAnswer, SendEntry
<1>6. CASE EnterLoop \/ WaitEnds \/ Register \/ BeginBundle \/ ReadEntry
  BY <1>1, <1>6 DEF EnterLoop, WaitEnds, Register, BeginBundle, ReadEntry
<1> QED BY <1>3, <1>4, <1>5, <1>6 DEF CheckStep, SenderStep

\* Every step that takes a slot out of the list is a Remove of it.
LEMMA NextCases ==
  ASSUME [Next]_vars
  PROVE  \/ (CheckStep /\ ~ RemoveClosed) \/ SenderStep \/ UNCHANGED vars
         \/ \E c \in Clients : Accept(c) \/ ClientStep(c)
         \/ \E i \in Slots : HandleSocket(i)
         \/ \E i \in Connected : /\ Remove(i) /\ UNCHANGED misfed
                                 /\ mk_Data[i].b_Closed \/ peer[mk_Data[i].h_Socket].state = "broken"
<1>1. CASE RemoveClosed BY <1>1 DEF RemoveClosed, Closed
<1>2. ASSUME NEW i \in Slots, SocketFails(i) \/ ReadFails(i) \/ WriteFails(i)
      PROVE  i \in Connected /\ Remove(i) /\ UNCHANGED misfed /\ peer[mk_Data[i].h_Socket].state = "broken"
  BY <1>2 DEF SocketFails, ReadFails, WriteFails, Signalled
<1> QED BY <1>1, <1>2 DEF Next, SocketStep

LEMMA LeftInit == Init => LeftInv
<1> SUFFICES ASSUME Init PROVE LeftInv OBVIOUS
<1>1. Connected = {} BY DEF Init, Connected
<1>2. \A c \in Clients : peer[c].events = {} /\ peer[c].read = 0 /\ peer[c].sent = 0 BY DEF Init
<1> QED BY <1>1, <1>2 DEF LeftInv

LEMMA LeftStep ==
  ASSUME Inv, LeftInv, [Next]_vars
  PROVE  LeftInv'
<1> USE DEF Inv, IInv
<1>1. Connected \subseteq Slots BY ConnectedSlots
<1>2. \A i \in Connected : mk_Data[i].h_Socket \in Clients BY DEF ListInv
<1>3. CASE (CheckStep /\ ~ RemoveClosed) \/ SenderStep
  <2>1. Connected' = Connected BY <1>3, CheckFrame DEF Connected
  <2> QED BY <1>1, <1>3, <2>1, CheckFrame DEF LeftInv
<1>4. CASE UNCHANGED vars BY <1>4 DEF vars, LeftInv, Connected
<1>5. ASSUME NEW c \in Clients, Accept(c)
      PROVE  LeftInv'
  <2> DEFINE n == mu32_Count
  <2>1. n \in Slots /\ Connected' = Connected \cup {n} /\ n \notin Connected
    <3>1. mu32_Count \in 1 .. MaxSockets /\ mu32_Count' = mu32_Count + 1 /\ mu32_Count < MaxSockets
      BY <1>5 DEF Accept, Add, AcceptCondition, TypeOK
    <3> QED BY <3>1, SocketsAssumption DEF Connected, Slots
  <2>2. mk_Data'[n] = Fresh(c) /\ \A j \in Slots \ {n} : mk_Data'[j] = mk_Data[j]
    BY <1>5, <2>1 DEF Accept, Add, TypeOK
  <2>3. /\ peer[c].state = "away" /\ peer'[c] = [peer[c] EXCEPT !.state = "open"]
        /\ \A d \in Clients \ {c} : peer'[d] = peer[d]
    BY <1>5 DEF Accept, TypeOK
  <2>4. ~ Fresh(c).b_Closed BY DEF Fresh
  <2>5. \A j \in Connected : mk_Data[j].h_Socket # c BY <2>3 DEF ListInv, InList
  <2>6. peer[c] \in [state : PeerStates, sent : Nat, read : Nat, events : SUBSET SocketEvents]
    BY DEF TypeOK
  <2>7. /\ peer'[c].events = peer[c].events /\ peer'[c].read = peer[c].read
        /\ peer'[c].sent = peer[c].sent /\ "FD_CLOSE" \notin peer[c].events
        /\ peer'[c].state = "open"
    BY <2>3, <2>6 DEF LeftInv
  <2>8. \A i \in Connected' : mk_Data'[i].b_Closed =>
           i \in Connected /\ mk_Data'[i] = mk_Data[i] /\ mk_Data[i].h_Socket \in Clients \ {c}
    BY <1>1, <1>2, <2>1, <2>2, <2>4, <2>5
  <2>9. \A d \in Clients :
           /\ "FD_CLOSE" \in peer'[d].events => peer'[d].state \in {"closed", "broken"}
           /\ peer'[d].read <= peer'[d].sent
           /\ peer'[d].state = "away" => peer'[d].sent = 0
    <3> SUFFICES ASSUME NEW d \in Clients
                 PROVE  /\ "FD_CLOSE" \in peer'[d].events => peer'[d].state \in {"closed", "broken"}
                        /\ peer'[d].read <= peer'[d].sent
                        /\ peer'[d].state = "away" => peer'[d].sent = 0
      OBVIOUS
    <3>1. CASE d = c BY <2>7, <3>1 DEF LeftInv
    <3>2. CASE d # c BY <2>3, <3>2 DEF LeftInv
    <3> QED BY <3>1, <3>2
  <2>10. \A i \in Connected' :
            mk_Data'[i].b_Closed => peer'[mk_Data'[i].h_Socket].state \in {"closed", "broken"}
    BY <2>3, <2>8 DEF LeftInv
  <2> QED BY <2>9, <2>10 DEF LeftInv
<1>6. ASSUME NEW c \in Clients, ClientStep(c)
      PROVE  LeftInv'
  <2>1. Connected' = Connected BY <1>6, ClientFrame DEF Connected
  <2>2. peer[c] \in [state : PeerStates, sent : Nat, read : Nat, events : SUBSET SocketEvents]
    BY DEF TypeOK
  <2>3. /\ "FD_CLOSE" \in peer'[c].events => peer'[c].state \in {"closed", "broken"}
        /\ peer'[c].read <= peer'[c].sent
        /\ peer'[c].state = "away" => peer'[c].sent = 0
        /\ peer[c].state \in {"closed", "broken"} => peer'[c].state \in {"closed", "broken"}
    BY <1>6, <2>2, ClientFrame DEF LeftInv
  <2> QED BY <1>2, <1>6, <2>1, <2>3, ClientFrame DEF LeftInv
<1>7. ASSUME NEW i \in Slots, HandleSocket(i)
      PROVE  LeftInv'
  <2> DEFINE c == mk_Data[i].h_Socket
  <2>1. Connected' = Connected /\ i \in Connected /\ c \in Clients BY <1>7, HandleSocketFrame DEF Connected
  <2>2. mk_Data[i] \in Connection BY DEF TypeOK
  <2>3. peer[c] \in [state : PeerStates, sent : Nat, read : Nat, events : SUBSET SocketEvents]
    BY <2>1 DEF TypeOK
  <2>4. PICK n \in Pieces(i) : \E rest :
           /\ peer'[c].state = peer[c].state /\ peer'[c].sent = peer[c].sent
           /\ peer'[c].read = peer[c].read + n /\ "FD_CLOSE" \notin peer'[c].events
           /\ mk_Data'[i] = [mk_Data[i] EXCEPT !.s8_SendBuf = rest, !.b_Closed = "FD_CLOSE" \in EventsAt(i)]
    BY <1>7, HandleSocketFrame
  <2>5. peer'[c].read <= peer'[c].sent BY <2>1, <2>3, <2>4 DEF Pieces, LeftInv
  <2>6. mk_Data'[i].h_Socket = c /\ (mk_Data'[i].b_Closed => "FD_CLOSE" \in EventsAt(i))
    BY <2>2, <2>4 DEF Connection
  <2>7. "FD_CLOSE" \in EventsAt(i) => peer[c].state \in {"closed", "broken"}
    BY <2>1 DEF EventsAt, LeftInv
  <2>8. \A j \in Connected \ {i} : mk_Data'[j] = mk_Data[j] /\ mk_Data[j].h_Socket \in Clients \ {c}
    BY <1>1, <1>2, <1>7, <2>1, HandleSocketFrame DEF ListInv
  <2>9. \A d \in Clients \ {c} : peer'[d] = peer[d] BY <1>7, HandleSocketFrame
  <2>10. \A d \in Clients :
            /\ "FD_CLOSE" \in peer'[d].events => peer'[d].state \in {"closed", "broken"}
            /\ peer'[d].read <= peer'[d].sent
            /\ peer'[d].state = "away" => peer'[d].sent = 0
    BY <2>4, <2>5, <2>9 DEF LeftInv
  <2>11. \A j \in Connected :
            mk_Data'[j].b_Closed => peer'[mk_Data'[j].h_Socket].state \in {"closed", "broken"}
    <3> SUFFICES ASSUME NEW j \in Connected, mk_Data'[j].b_Closed
                 PROVE  peer'[mk_Data'[j].h_Socket].state \in {"closed", "broken"}
      OBVIOUS
    <3>1. CASE j = i BY <2>4, <2>6, <2>7, <3>1
    <3>2. CASE j # i BY <2>8, <2>9, <3>2 DEF LeftInv
    <3> QED BY <3>1, <3>2
  <2> QED BY <2>1, <2>10, <2>11 DEF LeftInv
<1>8. ASSUME NEW i \in Connected, Remove(i)
      PROVE  LeftInv'
  <2> DEFINE r == mk_Data[i].h_Socket
  <2>1. \A j \in Connected' : \E k \in Connected : mk_Data'[j] = mk_Data[k] /\ mk_Data[k].h_Socket # r
    <3> SUFFICES ASSUME NEW j \in Connected'
                 PROVE  \E k \in Connected : mk_Data'[j] = mk_Data[k] /\ mk_Data[k].h_Socket # r
      OBVIOUS
    <3>1. j \in Connected /\ j # mu32_Count - 1 BY <1>8, RemoveFrame
    <3>2. CASE j = i
      <4>1. mu32_Count - 1 \in Connected /\ mk_Data'[i] = mk_Data[mu32_Count - 1]
        BY <1>8, <3>1, <3>2, RemoveFrame
      <4> QED BY <3>1, <3>2, <4>1 DEF ListInv
    <3>3. CASE j # i
      <4>1. mk_Data'[j] = mk_Data[j] BY <1>1, <1>8, <3>1, <3>3, RemoveFrame
      <4> QED BY <3>1, <3>3, <4>1 DEF ListInv
    <3> QED BY <3>2, <3>3
  <2>2. r \in Clients /\ peer'[r] = Gone /\ \A d \in Clients : d # r => peer'[d] = peer[d]
    BY <1>8, RemoveFrame
  <2>3. Gone.events = {} /\ Gone.read = 0 /\ Gone.sent = 0 BY DEF Gone
  <2> QED BY <1>2, <2>1, <2>2, <2>3 DEF LeftInv
<1> QED BY <1>3, <1>4, <1>5, <1>6, <1>7, <1>8, NextCases

-----------------------------------------------------------------------------
(* Every step is a step of one connection. *)

\* As many connections as slots but the listening socket's.
LEMMA HeldCount ==
  ASSUME TypeOK, ListInv
  PROVE  Cardinality({c \in Clients : InList(c)}) = mu32_Count - 1
<1> DEFINE n == mu32_Count - 1
           S == {c \in Clients : InList(c)}
           f == [i \in 1 .. n |-> mk_Data[i].h_Socket]
<1>1. n \in Nat /\ Connected = 1 .. n BY DEF TypeOK, Connected
<1>2. f \in [1 .. n -> S] BY <1>1 DEF InList, ListInv
<1>3. \A i, j \in 1 .. n : f[i] = f[j] => i = j BY <1>1 DEF ListInv
<1>4. \A c \in S : \E i \in 1 .. n : f[i] = c BY <1>1 DEF InList
<1> HIDE DEF f, S
<1>5. f \in Bijection(1 .. n, S)
  BY <1>2, <1>3, <1>4 DEF Bijection, Injection, Surjection, IsInjective
<1>6. ExistsBijection(1 .. n, S) BY <1>5 DEF ExistsBijection
<1>7. Cardinality(S) = n BY <1>1, <1>6, FS_CountingElements
<1> QED BY <1>7 DEF S

LEMMA HeldInList ==
  ASSUME TypeOK, ListInv
  PROVE  Server!Held = {c \in Clients : InList(c)}
<1>1. Seen BY SeenNow
<1>2. ASSUME NEW c \in Clients
      PROVE  ConnectionOf(c).state \in {"open", "left"} <=> InList(c)
  <2>1. CASE InList(c)
    <3>1. PICK i \in Connected : mk_Data[i].h_Socket = c BY <2>1 DEF InList
    <3>2. ConnectionOf(c) = HeldView(peer[c], mk_Data[i], wire[c], Spoiled(c)) BY <1>1, <3>1 DEF Seen
    <3> QED BY <2>1, <3>2, ConnFields DEF HeldView
  <2>2. CASE ~ InList(c)
    <3>1. ConnectionOf(c) = OtherView(peer[c], wire[c]) BY <1>1, <2>2 DEF Seen
    <3>2. ConnectionOf(c).state = peer[c].state BY <3>1, ConnFields DEF OtherView
    <3>3. peer[c].state \in PeerStates BY DEF TypeOK
    <3> QED BY <2>2, <3>2, <3>3 DEF ListInv, PeerStates
  <2> QED BY <2>1, <2>2
<1> QED BY <1>2 DEF Server!Held

LEMMA SameCardinality == \A S : Server!Cardinality(S) = Cardinality(S)
BY DEF Server!Cardinality, Cardinality

LEMMA AcceptConnects ==
  ASSUME Inv, Inv', LeftInv, NEW c \in Clients, Accept(c)
  PROVE  [Server!Next]_Mapped
<1> USE DEF Inv, IInv
<1> DEFINE n == mu32_Count
<1>1. n \in Slots /\ Connected' = Connected \cup {n} /\ n \notin Connected /\ n < MaxSockets
  <2>1. mu32_Count \in 1 .. MaxSockets /\ mu32_Count' = mu32_Count + 1 /\ mu32_Count < MaxSockets
    BY DEF Accept, Add, AcceptCondition, TypeOK
  <2> QED BY <2>1, SocketsAssumption DEF Connected, Slots
<1>2. mk_Data'[n] = Fresh(c) /\ \A j \in Slots \ {n} : mk_Data'[j] = mk_Data[j]
  BY <1>1 DEF Accept, Add, TypeOK
<1>3. /\ peer[c].state = "away" /\ peer'[c] = [peer[c] EXCEPT !.state = "open"]
      /\ \A d \in Clients \ {c} : peer'[d] = peer[d]
      /\ wire' = wire /\ misfed' = misfed
  BY DEF Accept, TypeOK
<1>4. \A j \in Connected : mk_Data[j].h_Socket # c /\ j \in Slots /\ j # n
  BY <1>1, <1>3, ConnectedSlots DEF ListInv, InList
<1>5. Fresh(c).h_Socket = c /\ Fresh(c).collected = 0 /\ Fresh(c).s8_SendBuf = <<>> /\ ~ Fresh(c).b_Shutdown
  BY DEF Fresh
<1>6. ASSUME NEW d \in Clients \ {c}
      PROVE  ConnectionOf(d)' = ConnectionOf(d)
  <2>1. CASE InList(d)
    <3>1. PICK i \in Connected : mk_Data[i].h_Socket = d BY <2>1 DEF InList
    <3>2. i \in Connected' /\ mk_Data'[i] = mk_Data[i] BY <1>1, <1>2, <1>4, <3>1
    <3> QED BY <1>3, <3>1, <3>2, KeepsSpoiled, Untouched
  <2>2. CASE ~ InList(d)
    <3>1. ~ InList(d)' BY <1>1, <1>2, <1>4, <1>5, <2>2 DEF InList
    <3> QED BY <1>3, <2>2, <3>1, KeepsSpoiled, Untouched
  <2> QED BY <2>1, <2>2
<1>7. ~ InList(c) /\ InList(c)' BY <1>3, <1>1, <1>2, <1>5 DEF ListInv, InList
<1>8. ConnectionOf(c) = OtherView(peer[c], wire[c]) BY <1>7, SeenNow DEF Seen
<1>9. ConnectionOf(c)' = HeldView(peer'[c], mk_Data'[n], wire'[c], Spoiled(c)')
  BY <1>1, <1>2, <1>5, SeenNext DEF Seen
<1>10. /\ ConnectionOf(c).state = "away"
       /\ ConnectionOf(c)' = [ConnectionOf(c) EXCEPT !.state = "open"]
  <2>1. peer[c].sent = 0 /\ wire[c] = <<>> BY <1>3 DEF LeftInv, RestInv
  <2>2. peer[c] \in [state : PeerStates, sent : Nat, read : Nat, events : SUBSET SocketEvents] BY DEF TypeOK
  <2>3. peer'[c].state = "open" /\ peer'[c].sent = 0 BY <1>3, <2>1, <2>2
  <2>4. ConnectionOf(c) = Conn("away", 0, 0, No, No, <<>>, <<>>) BY <1>3, <1>8, <2>1 DEF OtherView
  <2>5. Fresh(c).b_Shutdown = No BY DEF Fresh, No
  <2>6. ConnectionOf(c)' = Conn("open", 0, 0, No, No, <<>>, <<>>)
    <3>1. Spoiled(c)' = No BY <1>3 DEF SlotsInv, Spoiled, No
    <3> QED BY <1>2, <1>3, <1>5, <1>9, <2>1, <2>3, <2>5, <3>1 DEF HeldView
  <2>7. ConnectionOf(c).state = "away" BY <2>4, ConnFields
  <2>8. [Conn("away", 0, 0, No, No, <<>>, <<>>) EXCEPT !.state = "open"] = Conn("open", 0, 0, No, No, <<>>, <<>>)
    BY DEF Conn
  <2>9. ConnectionOf(c)' = [ConnectionOf(c) EXCEPT !.state = "open"] BY Zenon, <2>4, <2>6, <2>8
  <2> QED BY <2>7, <2>9
<1>11. Server!Cardinality(Server!Held) < MaxSockets - 1
  <2>1. n \in Int /\ MaxSockets \in Int BY SocketsAssumption DEF TypeOK
  <2> QED BY <1>1, <2>1, HeldInList, HeldCount, SameCardinality
<1>12. Server!Connect(c)
  <2>1. Mapped[c].state = "away" BY <1>10 DEF Mapped
  <2>2. Mapped' = [Mapped EXCEPT ![c].state = "open"] BY <1>6, <1>10, OnlyOne DEF Mapped
  <2> QED BY <1>11, <2>1, <2>2 DEF Server!Connect, Mapped
<1> QED BY <1>6, <1>12, OneSteps DEF Server!Step

LEMMA ClientConnection ==
  ASSUME Inv, Inv', NEW c \in Clients, ClientStep(c)
  PROVE  [Server!Next]_Mapped
<1> USE DEF Inv, IInv
<1>0. \A d \in Clients : Spoiled(d)' = Spoiled(d) BY ClientType, KeepsSpoiled
<1>1. /\ Connected' = Connected /\ UNCHANGED <<mk_Data, wire>>
      /\ \A d \in Clients \ {c} : peer'[d] = peer[d]
  BY ClientFrame DEF Connected
<1>2. \A d \in Clients : InList(d)' <=> InList(d) BY <1>1 DEF InList
<1>3. ASSUME NEW d \in Clients, peer'[d].state = peer[d].state, peer'[d].sent = peer[d].sent
      PROVE  ConnectionOf(d)' = ConnectionOf(d)
  <2>1. CASE InList(d) BY <1>0, <1>1, <1>3, <2>1, Untouched DEF InList
  <2>2. CASE ~ InList(d) BY <1>0, <1>1, <1>2, <1>3, <2>2, Untouched
  <2> QED BY <2>1, <2>2
<1>4. \A d \in Clients \ {c} : ConnectionOf(d)' = ConnectionOf(d) BY <1>1, <1>3
<1>5. CASE peer'[c].state = peer[c].state /\ peer'[c].sent = peer[c].sent
  BY <1>3, <1>4, <1>5, OneSteps
<1>6. ASSUME peer[c].state = "open", InList(c) 
      PROVE  \E i \in Connected :
                /\ ConnectionOf(c) = HeldView(peer[c], mk_Data[i], wire[c], Spoiled(c))
                /\ ConnectionOf(c)' = HeldView(peer'[c], mk_Data[i], wire[c], Spoiled(c))
  <2>1. PICK i \in Connected : mk_Data[i].h_Socket = c BY <1>6 DEF InList
  <2>2. Seen /\ Seen' BY SeenNow, SeenNext
  <2> QED BY <1>0, <1>1, <2>1, <2>2 DEF Seen
<1>7. CASE peer[c].state = "open" /\ peer'[c].state = "open" /\ peer'[c].sent = peer[c].sent + 1
  <2>1. InList(c) BY <1>7 DEF ListInv
  <2>2. PICK i \in Connected : /\ ConnectionOf(c) = HeldView(peer[c], mk_Data[i], wire[c], Spoiled(c))
                               /\ ConnectionOf(c)' = HeldView(peer'[c], mk_Data[i], wire[c], Spoiled(c))
    BY <1>6, <1>7, <2>1
  <2>3. ConnectionOf(c).state = "open" /\ ConnectionOf(c)' = [ConnectionOf(c) EXCEPT !.sent = @ + 1]
    BY <1>7, <2>2 DEF HeldView, Conn
  <2>4. Mapped[c].state = "open" /\ Mapped' = [Mapped EXCEPT ![c].sent = @ + 1]
    BY <1>4, <2>3, OnlyOne DEF Mapped
  <2>5. Server!Send(c) BY <2>4 DEF Server!Send, Mapped
  <2> QED BY <1>4, <2>5, OneSteps DEF Server!Step
<1>8. CASE /\ peer[c].state = "open" /\ peer'[c].state \in {"closed", "broken"}
           /\ peer'[c].sent = peer[c].sent
  <2>1. InList(c) BY <1>8 DEF ListInv
  <2>2. PICK i \in Connected : /\ ConnectionOf(c) = HeldView(peer[c], mk_Data[i], wire[c], Spoiled(c))
                               /\ ConnectionOf(c)' = HeldView(peer'[c], mk_Data[i], wire[c], Spoiled(c))
    BY <1>6, <1>8, <2>1
  <2>3. ConnectionOf(c).state = "open" /\ ConnectionOf(c)' = [ConnectionOf(c) EXCEPT !.state = "left"]
    BY <1>8, <2>2 DEF HeldView, Conn
  <2>4. Mapped[c].state = "open" /\ Mapped' = [Mapped EXCEPT ![c].state = "left"]
    BY <1>4, <2>3, OnlyOne DEF Mapped
  <2>5. Server!Leave(c) BY <2>4 DEF Server!Leave, Mapped
  <2> QED BY <1>4, <2>5, OneSteps DEF Server!Step
<1> QED BY <1>5, <1>7, <1>8, ClientFrame

LEMMA RemoveDrops ==
  ASSUME Inv, Inv', LeftInv, NEW i \in Connected, Remove(i), UNCHANGED misfed,
         mk_Data[i].b_Closed \/ peer[mk_Data[i].h_Socket].state = "broken"
  PROVE  [Server!Next]_Mapped
<1> USE DEF Inv, IInv
<1> DEFINE last == mu32_Count - 1
<1>0. PICK r \in Clients : r = mk_Data[i].h_Socket BY DEF ListInv
<1>1. /\ last \in Connected /\ Connected \subseteq Slots /\ Connected' = Connected \ {last}
      /\ r \in Clients /\ peer'[r] = Gone /\ wire'[r] = <<>>
      /\ \A d \in Clients : d # r => peer'[d] = peer[d] /\ wire'[d] = wire[d]
      /\ \A j \in Slots : j # i /\ j # last => mk_Data'[j] = mk_Data[j]
      /\ i # last => mk_Data'[i] = mk_Data[last]
  BY <1>0, RemoveFrame
<1>2. ASSUME NEW d \in Clients \ {r}
      PROVE  ConnectionOf(d)' = ConnectionOf(d)
  <2>1. CASE InList(d)
    <3>1. PICK k \in Connected : mk_Data[k].h_Socket = d BY <2>1 DEF InList
    <3>2. k # i BY <1>0, <3>1
    <3>3. \E j \in Connected' : mk_Data'[j] = mk_Data[k]
      <4>1. CASE k = last BY <1>1, <3>2, <4>1
      <4>2. CASE k # last BY <1>1, <3>1, <3>2, <4>2
      <4> QED BY <4>1, <4>2
    <3> QED BY <1>1, <3>1, <3>3, KeepsSpoiled, Untouched
  <2>2. CASE ~ InList(d)
    <3>1. peer[d].state = peer'[d].state BY <1>1
    <3>2. ~ InList(d)' BY <2>2, <3>1 DEF ListInv
    <3> QED BY <1>1, <2>2, <3>2, KeepsSpoiled, Untouched
  <2> QED BY <2>1, <2>2
<1>3. ConnectionOf(r) = HeldView(peer[r], mk_Data[i], wire[r], Spoiled(r)) BY <1>0, SeenNow DEF Seen
<1>4. ConnectionOf(r)' = OtherView(peer'[r], wire'[r])
  <2>1. peer'[r].state = "gone" BY <1>1 DEF Gone
  <2>2. ~ InList(r)' BY <1>1, <2>1 DEF ListInv
  <2> QED BY <1>1, <2>2, SeenNext DEF Seen
<1>5. ConnectionOf(r).state = "left"
  <2>1. peer[r].state \in {"closed", "broken"} BY <1>0 DEF LeftInv
  <2> QED BY <1>3, <2>1 DEF HeldView, Conn
<1>6. ConnectionOf(r)' = Server!NoConnection("gone")
  <2>1. peer'[r].state = "gone" BY <1>1 DEF Gone
  <2> QED BY <1>1, <1>4, <2>1 DEF OtherView, Conn, No, Server!NoConnection
<1>7. Server!Drop(r)
  <2>1. Mapped[r].state = "left" /\ Mapped' = [Mapped EXCEPT ![r] = Server!NoConnection("gone")]
    BY <1>1, <1>2, <1>5, <1>6, OnlyOne DEF Mapped
  <2> QED BY <2>1 DEF Server!Drop, Mapped
<1> QED BY <1>1, <1>2, <1>7, OneSteps DEF Server!Step

\* A step at one slot touches one connection.
LEMMA AtOneSlot ==
  ASSUME TypeOK, ListInv, ListInv', NEW c \in Clients, NEW i \in Connected,
         mk_Data[i].h_Socket = c, mk_Data'[i].h_Socket = c, mu32_Count' = mu32_Count,
         \A d \in Clients : peer'[d].state = peer[d].state /\ peer'[d].sent = peer[d].sent,
         \A d \in Clients \ {c} : wire'[d] = wire[d] /\ Spoiled(d)' = Spoiled(d),
         \A j \in Slots \ {i} : mk_Data'[j] = mk_Data[j]
  PROVE  /\ \A d \in Clients \ {c} : ConnectionOf(d)' = ConnectionOf(d)
         /\ ConnectionOf(c) = HeldView(peer[c], mk_Data[i], wire[c], Spoiled(c))
         /\ ConnectionOf(c)' = HeldView(peer[c], mk_Data'[i], wire'[c], Spoiled(c)')
         /\ c \in Server!Held
<1>1. Connected' = Connected /\ Connected \subseteq Slots BY ConnectedSlots DEF Connected
<1>2. ASSUME NEW d \in Clients \ {c}
      PROVE  ConnectionOf(d)' = ConnectionOf(d)
  <2>1. CASE InList(d)
    <3>1. PICK k \in Connected : mk_Data[k].h_Socket = d BY <2>1 DEF InList
    <3>2. k \in Connected' /\ mk_Data'[k] = mk_Data[k] BY <1>1, <3>1
    <3> QED BY <3>1, <3>2, Untouched
  <2>2. CASE ~ InList(d)
    <3>1. ~ InList(d)' BY <2>2 DEF ListInv
    <3> QED BY <2>2, <3>1, Untouched
  <2> QED BY <2>1, <2>2
<1>3. ConnectionOf(c) = HeldView(peer[c], mk_Data[i], wire[c], Spoiled(c)) BY SeenNow DEF Seen
<1>4. ConnectionOf(c)' = HeldView(peer'[c], mk_Data'[i], wire'[c], Spoiled(c)') BY <1>1, SeenNext DEF Seen
<1>5. ConnectionOf(c)' = HeldView(peer[c], mk_Data'[i], wire'[c], Spoiled(c)') BY <1>4 DEF HeldView
<1>6. c \in Server!Held BY HeldInList DEF InList
<1> QED BY <1>2, <1>3, <1>5, <1>6

\* A step that changes no field of a connection changes none.
LEMMA NothingSeen ==
  ASSUME TypeOK, ListInv, ListInv', mu32_Count' = mu32_Count,
         \A d \in Clients : peer'[d].state = peer[d].state /\ peer'[d].sent = peer[d].sent /\ wire'[d] = wire[d],
         \A d \in Clients : Spoiled(d)' = Spoiled(d),
         \A j \in Connected : /\ mk_Data'[j].h_Socket = mk_Data[j].h_Socket
                              /\ mk_Data'[j].collected = mk_Data[j].collected
                              /\ mk_Data'[j].b_Shutdown = mk_Data[j].b_Shutdown
                              /\ mk_Data'[j].s8_SendBuf = mk_Data[j].s8_SendBuf
  PROVE  [Server!Next]_Mapped
<1>1. Connected' = Connected BY DEF Connected
<1>2. ASSUME NEW d \in Clients
      PROVE  ConnectionOf(d)' = ConnectionOf(d)
  <2>1. CASE InList(d) BY <1>1, <2>1, Untouched DEF InList
  <2>2. CASE ~ InList(d)
    <3>1. ~ InList(d)' BY <2>2 DEF ListInv
    <3> QED BY <2>2, <3>1, Untouched
  <2> QED BY <2>1, <2>2
<1>3. Mapped' = Mapped BY <1>2 DEF Mapped
<1> QED BY <1>3

LEMMA SendToStarts ==
  ASSUME Inv, Inv', NEW h, SendTo(h), UNCHANGED <<mu32_Count, peer, misfed>>
  PROVE  [Server!Next]_Mapped
<1> USE DEF Inv, IInv
<1>0. \A d \in Clients : Spoiled(d)' = Spoiled(d) BY KeepsSpoiled
<1>1. CASE UNCHANGED <<wire, mk_Data>> BY <1>0, <1>1, NothingSeen
<1>2. CASE \E i \in Connected : CanTake(i, h) /\ Deliver(i)
  <2>1. PICK i \in Connected, k \in 0 .. 2 :
           /\ mk_Data[i].s8_SendBuf = <<>> /\ ~ mk_Data[i].b_Shutdown
           /\ wire' = [wire EXCEPT ![mk_Data[i].h_Socket] = Arrives(@, SubSeq(Message, 1, k))]
           /\ mk_Data' = [mk_Data EXCEPT ![i].s8_SendBuf = SubSeq(Message, k + 1, 2)]
    BY <1>2 DEF Deliver, CanTake, Accepts
  <2>2. PICK c \in Clients : c = mk_Data[i].h_Socket BY DEF ListInv
  <2> DEFINE rest == SubSeq(Message, k + 1, 2)
             there == Arrives(wire[c], SubSeq(Message, 1, k))
             got == IF k = 2 THEN <<>> ELSE SubSeq(Message, 1, k)
  <2>3. there = got
    <3>1. <<wire[c], <<>>>> \in Rests BY <2>1, <2>2 DEF RestInv
    <3>2. wire[c] = <<>>
      <4>1. <<>> # <<1, 2>> /\ <<>> # <<2>> BY MessageType
      <4> QED BY <3>1, <4>1 DEF Rests, Message
    <3>3. k = 0 \/ k = 1 \/ k = 2 OBVIOUS
    <3>4. CASE k = 0
      <4>1. SubSeq(Message, 1, k) = <<>> BY <3>4, Pieces2 DEF Message
      <4> QED BY <3>2, <3>4, <4>1, Joined DEF Arrives, Message
    <3>5. CASE k = 1
      <4>1. SubSeq(Message, 1, k) = <<1>> BY <3>5, Pieces2 DEF Message
      <4> QED BY <3>2, <3>5, <4>1, Joined DEF Arrives, Message
    <3>6. CASE k = 2
      <4>1. SubSeq(Message, 1, k) = <<1, 2>> BY <3>6, Pieces2 DEF Message
      <4> QED BY <3>2, <3>6, <4>1, Joined DEF Arrives, Message
    <3> QED BY <3>3, <3>4, <3>5, <3>6
  <2>4. i \in Slots /\ mk_Data[i] \in Connection BY ConnectedSlots DEF TypeOK
  <2>5. /\ wire'[c] = got /\ \A d \in Clients \ {c} : wire'[d] = wire[d]
        /\ mk_Data'[i] = [mk_Data[i] EXCEPT !.s8_SendBuf = rest]
        /\ \A j \in Slots \ {i} : mk_Data'[j] = mk_Data[j]
    <3>1. wire' = [wire EXCEPT ![c] = got] /\ mk_Data' = [mk_Data EXCEPT ![i].s8_SendBuf = rest]
      BY <2>1, <2>2, <2>3
    <3> HIDE DEF got, rest
    <3> QED BY <2>4, <3>1 DEF TypeOK
  <2> HIDE DEF got, rest
  <2>6. /\ mk_Data'[i].h_Socket = c /\ mk_Data'[i].collected = mk_Data[i].collected
        /\ mk_Data'[i].b_Shutdown = mk_Data[i].b_Shutdown /\ mk_Data'[i].s8_SendBuf = rest
    BY <2>2, <2>4, <2>5 DEF Connection
  <2>7. /\ \A d \in Clients \ {c} : ConnectionOf(d)' = ConnectionOf(d)
        /\ ConnectionOf(c) = HeldView(peer[c], mk_Data[i], wire[c], Spoiled(c))
        /\ ConnectionOf(c)' = HeldView(peer[c], mk_Data'[i], wire'[c], Spoiled(c)')
        /\ c \in Server!Held
    BY <1>0, <2>2, <2>5, <2>6, AtOneSlot
  <2>8. ~ ConnectionOf(c).shut /\ ConnectionOf(c).rest = <<>>
    BY <2>1, <2>7 DEF HeldView, Conn
  <2>9. ConnectionOf(c)' = Sending(ConnectionOf(c), rest, got)
    <3> DEFINE state == IF peer[c].state = "open" THEN "open" ELSE "left"
    <3>1. ConnectionOf(c) = Conn(state, peer[c].sent, mk_Data[i].collected, Spoiled(c), mk_Data[i].b_Shutdown,
                                 mk_Data[i].s8_SendBuf, wire[c])
      BY <2>7 DEF HeldView
    <3>2. ConnectionOf(c)' = Conn(state, peer[c].sent, mk_Data[i].collected, Spoiled(c),
                                  mk_Data[i].b_Shutdown, rest, got)
      BY <1>0, <2>5, <2>6, <2>7 DEF HeldView
    <3> HIDE DEF state
    <3> QED BY <3>1, <3>2, TwoFields
  <2>10. Mapped' = [Mapped EXCEPT ![c].rest = rest, ![c].got = got]
    BY <2>7, <2>9, OnlyOne DEF Mapped, Sending
  <2>11. Server!Start(c) BY <2>7, <2>8, <2>10 DEF Server!Start, Mapped, Server!Message, Message, rest, got
  <2> QED BY <2>7, <2>11, OneSteps DEF Server!Step
<1> QED BY <1>1, <1>2 DEF SendTo

\* The rest of a message, seen from the client.
LEMMA RestContinues ==
  ASSUME NEW w, NEW b, <<w, b>> \in Rests, NEW k \in 0 .. Len(b)
  PROVE  /\ k = 0 => Arrives(w, SubSeq(b, 1, k)) = w /\ SubSeq(b, k + 1, Len(b)) = b
         /\ k > 0 => Arrives(w, SubSeq(b, 1, k)) = IF k = Len(b) THEN <<>> ELSE w \o SubSeq(b, 1, k)
<1>1. CASE w = <<>> /\ b = <<>>
  <2>1. k = 0 BY <1>1
  <2> QED BY <1>1, <2>1, Pieces1, Joined DEF Arrives, Message
<1>2. CASE w = <<>> /\ b = <<1, 2>>
  <2>1. Len(b) = 2 /\ (k = 0 \/ k = 1 \/ k = 2) BY <1>2
  <2>2. CASE k = 0
    <3>1. SubSeq(b, 1, k) = SubSeq(<<1, 2>>, 1, 0) /\ SubSeq(b, k + 1, Len(b)) = SubSeq(<<1, 2>>, 1, 2)
      BY <1>2, <2>1, <2>2
    <3> QED BY <1>2, <2>2, <3>1, Pieces2, Joined DEF Arrives, Message
  <2>3. CASE k = 1
    <3>1. SubSeq(b, 1, k) = SubSeq(<<1, 2>>, 1, 1) BY <1>2, <2>1, <2>3
    <3> QED BY <1>2, <2>1, <2>3, <3>1, Pieces2, Joined DEF Arrives, Message
  <2>4. CASE k = 2
    <3>1. SubSeq(b, 1, k) = SubSeq(<<1, 2>>, 1, 2) BY <1>2, <2>1, <2>4
    <3> QED BY <1>2, <2>1, <2>4, <3>1, Pieces2, Joined DEF Arrives, Message
  <2> QED BY <2>1, <2>2, <2>3, <2>4
<1>3. CASE w = <<1>> /\ b = <<2>>
  <2>1. Len(b) = 1 /\ (k = 0 \/ k = 1) BY <1>3
  <2>2. CASE k = 0
    <3>1. SubSeq(b, 1, k) = SubSeq(<<2>>, 1, 0) /\ SubSeq(b, k + 1, Len(b)) = SubSeq(<<2>>, 1, 1)
      BY <1>3, <2>1, <2>2
    <3> QED BY <1>3, <2>2, <3>1, Pieces1, Joined DEF Arrives, Message
  <2>3. CASE k = 1
    <3>1. SubSeq(b, 1, k) = SubSeq(<<2>>, 1, 1) BY <1>3, <2>1, <2>3
    <3> QED BY <1>3, <2>1, <2>3, <3>1, Pieces1, Joined DEF Arrives, Message
  <2> QED BY <2>1, <2>2, <2>3
<1> QED BY <1>1, <1>2, <1>3 DEF Rests, Message

LEMMA HandleSocketContinues ==
  ASSUME Inv, Inv', NEW i \in Slots, HandleSocket(i)
  PROVE  [Server!Next]_Mapped
<1> USE DEF Inv, IInv
<1>1. i \in Connected /\ mk_Data[i] \in Connection /\ Connected \subseteq Slots
  BY HandleSocketFrame, ConnectedSlots DEF TypeOK
<1>2. PICK c \in Clients : c = mk_Data[i].h_Socket BY <1>1 DEF ListInv
<1> DEFINE buf == mk_Data[i].s8_SendBuf
<1>3. PICK k \in 0 .. Len(buf) :
         /\ wire'[c] = Arrives(wire[c], SubSeq(buf, 1, k))
         /\ \E closed : mk_Data'[i] = [mk_Data[i] EXCEPT !.s8_SendBuf = SubSeq(buf, k + 1, Len(buf)),
                                                         !.b_Closed = closed]
  BY <1>2, HandleSocketFrame
<1>4. /\ mu32_Count' = mu32_Count
      /\ \A d \in Clients \ {c} : peer'[d] = peer[d] /\ wire'[d] = wire[d]
      /\ \A j \in Slots \ {i} : mk_Data'[j] = mk_Data[j]
      /\ peer'[c].state = peer[c].state /\ peer'[c].sent = peer[c].sent
      /\ \A d \in Clients : Spoiled(d)' = Spoiled(d)
  BY <1>2, HandleSocketFrame, KeepsSpoiled DEF HandleSocket
<1> DEFINE rest == SubSeq(buf, k + 1, Len(buf))
           there == Arrives(wire[c], SubSeq(buf, 1, k))
           got == IF k = Len(buf) THEN <<>> ELSE wire[c] \o SubSeq(buf, 1, k)
<1>5. /\ k = 0 => there = wire[c] /\ rest = buf
      /\ k > 0 => there = got
  <2>1. <<wire[c], buf>> \in Rests BY <1>1, <1>2 DEF RestInv
  <2> QED BY <2>1, RestContinues
<1>6. wire'[c] = there /\ \E closed : mk_Data'[i] = [mk_Data[i] EXCEPT !.s8_SendBuf = rest, !.b_Closed = closed]
  BY <1>3
<1> HIDE DEF rest, there, got
<1>7. /\ mk_Data'[i].h_Socket = c /\ mk_Data'[i].collected = mk_Data[i].collected
      /\ mk_Data'[i].b_Shutdown = mk_Data[i].b_Shutdown /\ mk_Data'[i].s8_SendBuf = rest
  BY <1>1, <1>2, <1>6 DEF Connection
<1>8. CASE k = 0
  <2>1. \A d \in Clients : peer'[d].state = peer[d].state /\ peer'[d].sent = peer[d].sent /\ wire'[d] = wire[d]
    BY <1>4, <1>5, <1>6, <1>8
  <2>2. \A j \in Connected : /\ mk_Data'[j].h_Socket = mk_Data[j].h_Socket
                             /\ mk_Data'[j].collected = mk_Data[j].collected
                             /\ mk_Data'[j].b_Shutdown = mk_Data[j].b_Shutdown
                             /\ mk_Data'[j].s8_SendBuf = mk_Data[j].s8_SendBuf
    BY <1>1, <1>2, <1>4, <1>5, <1>7, <1>8
  <2> QED BY <1>4, <2>1, <2>2, NothingSeen
<1>9. CASE k > 0
  <2>1. /\ \A d \in Clients \ {c} : ConnectionOf(d)' = ConnectionOf(d)
        /\ ConnectionOf(c) = HeldView(peer[c], mk_Data[i], wire[c], Spoiled(c))
        /\ ConnectionOf(c)' = HeldView(peer[c], mk_Data'[i], wire'[c], Spoiled(c)')
        /\ c \in Server!Held
    <3>1. \A d \in Clients : peer'[d].state = peer[d].state /\ peer'[d].sent = peer[d].sent BY <1>4
    <3> QED BY <1>1, <1>2, <1>4, <1>7, <3>1, AtOneSlot
  <2>2. ConnectionOf(c).rest = buf /\ ConnectionOf(c).got = wire[c] BY <2>1 DEF HeldView, Conn
  <2>3. ConnectionOf(c)' = Sending(ConnectionOf(c), rest, got)
    <3> DEFINE state == IF peer[c].state = "open" THEN "open" ELSE "left"
    <3>1. ConnectionOf(c) = Conn(state, peer[c].sent, mk_Data[i].collected, Spoiled(c), mk_Data[i].b_Shutdown,
                                 mk_Data[i].s8_SendBuf, wire[c])
      BY <2>1 DEF HeldView
    <3>2. ConnectionOf(c)' = Conn(state, peer[c].sent, mk_Data[i].collected, Spoiled(c),
                                  mk_Data[i].b_Shutdown, rest, got)
      BY <1>4, <1>5, <1>6, <1>7, <1>9, <2>1 DEF HeldView
    <3> HIDE DEF state
    <3> QED BY <3>1, <3>2, TwoFields
  <2>4. Mapped' = [Mapped EXCEPT ![c].rest = rest, ![c].got = got]
    BY <2>1, <2>3, OnlyOne DEF Mapped, Sending
  <2>5. k \in 1 .. Len(buf)
    <3>1. buf \in Seq({1, 2}) BY <1>1 DEF Connection
    <3>2. Len(buf) \in Nat BY <3>1, LenProperties
    <3> QED BY <1>9, <3>2
  <2>6. Mapped[c].rest = buf /\ Mapped[c].got = wire[c] BY <2>2 DEF Mapped
  <2> HIDE DEF buf
  <2>7. Mapped' = [Mapped EXCEPT ![c].rest = SubSeq(buf, k + 1, Len(buf)),
                                 ![c].got = IF k = Len(buf) THEN <<>> ELSE @ \o SubSeq(buf, 1, k)]
    BY <2>4, <2>6 DEF rest, got
  <2>8. Server!Continue(c) BY <2>1, <2>5, <2>6, <2>7 DEF Server!Continue, Mapped
  <2> QED BY <2>1, <2>8, OneSteps DEF Server!Step
<1>10. k = 0 \/ k > 0 OBVIOUS
<1> QED BY <1>8, <1>9, <1>10

\* HandleEvents changes what is collected of one client, or spoils its data.
LEMMA AtOneClient ==
  ASSUME TypeOK, ListInv, ListInv', NEW c \in Clients, UNCHANGED <<mu32_Count, peer, wire>>,
         \A d \in Clients \ {c} : Spoiled(d)' = Spoiled(d),
         \A j \in Connected :
            /\ mk_Data'[j].h_Socket = mk_Data[j].h_Socket
            /\ mk_Data'[j].b_Shutdown = mk_Data[j].b_Shutdown
            /\ mk_Data'[j].s8_SendBuf = mk_Data[j].s8_SendBuf
            /\ mk_Data[j].h_Socket # c => mk_Data'[j].collected = mk_Data[j].collected
  PROVE  /\ \A d \in Clients \ {c} : ConnectionOf(d)' = ConnectionOf(d)
         /\ \A i \in Connected : mk_Data[i].h_Socket = c =>
               /\ ConnectionOf(c) = HeldView(peer[c], mk_Data[i], wire[c], Spoiled(c))
               /\ ConnectionOf(c)' = HeldView(peer[c], mk_Data'[i], wire[c], Spoiled(c)')
               /\ c \in Server!Held
         /\ ~ InList(c) => ConnectionOf(c)' = ConnectionOf(c)
<1>1. Connected' = Connected BY DEF Connected
<1>2. \A d \in Clients : InList(d)' <=> InList(d) BY <1>1 DEF InList
<1>3. ASSUME NEW d \in Clients \ {c}
      PROVE  ConnectionOf(d)' = ConnectionOf(d)
  <2>1. CASE InList(d)
    <3>1. PICK k \in Connected : mk_Data[k].h_Socket = d BY <2>1 DEF InList
    <3> QED BY <1>1, <3>1, Untouched
  <2>2. CASE ~ InList(d) BY <1>2, <2>2, Untouched
  <2> QED BY <2>1, <2>2
<1>4. ASSUME NEW i \in Connected, mk_Data[i].h_Socket = c
      PROVE  /\ ConnectionOf(c) = HeldView(peer[c], mk_Data[i], wire[c], Spoiled(c))
             /\ ConnectionOf(c)' = HeldView(peer[c], mk_Data'[i], wire[c], Spoiled(c)')
             /\ c \in Server!Held
  <2>1. ConnectionOf(c) = HeldView(peer[c], mk_Data[i], wire[c], Spoiled(c)) BY <1>4, SeenNow DEF Seen
  <2>2. ConnectionOf(c)' = HeldView(peer'[c], mk_Data'[i], wire'[c], Spoiled(c)')
    BY <1>1, <1>4, SeenNext DEF Seen
  <2>3. c \in Server!Held BY <1>4, HeldInList DEF InList
  <2> QED BY <2>1, <2>2, <2>3
<1>5. ~ InList(c) => ConnectionOf(c)' = ConnectionOf(c)
  BY <1>2, SeenNow, SeenNext DEF Seen, OtherView
<1> QED BY <1>3, <1>4, <1>5

LEMMA HandleEventsCollects ==
  ASSUME Inv, Inv', LeftInv, HandleEvents
  PROVE  [Server!Next]_Mapped
<1> USE DEF Inv, IInv
<1>1. check.pc = "events" /\ UNCHANGED <<mu32_Count, peer, wire>> /\ Connected \subseteq Slots
  BY ConnectedSlots DEF HandleEvents
<1>2. \A j \in Slots :
         /\ mk_Data'[j].h_Socket = mk_Data[j].h_Socket
         /\ mk_Data'[j].b_Shutdown = mk_Data[j].b_Shutdown
         /\ mk_Data'[j].s8_SendBuf = mk_Data[j].s8_SendBuf
         /\ mk_Data'[j].collected = IF j = check.slot /\ check.memory = "data"
                                    THEN mk_Data[j].collected + check.got ELSE mk_Data[j].collected
  BY HandleEventsFrame
<1>3. PICK i \in Slots : i = check.slot BY DEF TypeOK
<1>4. \A j \in Slots : mk_Data[j] \in Connection /\ mk_Data[j].collected \in Nat /\ check.got \in Nat
  BY DEF TypeOK, Connection
<1>5. CASE check.memory # "data" /\ UNCHANGED misfed BY <1>1, <1>2, <1>5, KeepsSpoiled, NothingSeen
<1>6. CASE check.memory = "data"
  <2>1. i \in Connected /\ ~ mk_Data[i].b_Shutdown BY <1>1, <1>3, <1>6 DEF CheckInv
  <2>2. PICK c \in Clients : c = mk_Data[i].h_Socket BY <2>1 DEF ListInv
  <2>3. \A d \in Clients : Spoiled(d)' = Spoiled(d) BY <1>6, KeepsSpoiled DEF HandleEvents
  <2>4. \A d \in Clients \ {c} : ConnectionOf(d)' = ConnectionOf(d)
    BY <1>1, <1>2, <1>3, <2>1, <2>2, <2>3, AtOneClient
  <2>5. /\ ConnectionOf(c) = HeldView(peer[c], mk_Data[i], wire[c], Spoiled(c))
        /\ ConnectionOf(c)' = HeldView(peer[c], mk_Data'[i], wire[c], Spoiled(c)')
        /\ c \in Server!Held
    BY <1>1, <1>2, <1>3, <2>1, <2>2, <2>3, AtOneClient
  <2>6. CASE check.got = 0
    <3>1. mk_Data'[i].collected = mk_Data[i].collected BY <1>2, <1>4, <2>6
    <3>2. ConnectionOf(c)' = ConnectionOf(c) BY <1>2, <2>3, <2>5, <3>1 DEF HeldView
    <3> QED BY <2>4, <3>2, OneSteps
  <2>7. CASE check.got > 0
    <3>1. /\ ConnectionOf(c).collected = mk_Data[i].collected /\ ConnectionOf(c).sent = peer[c].sent
          /\ ~ ConnectionOf(c).shut
      BY <2>1, <2>5 DEF HeldView, Conn
    <3>2. check.got \in 1 .. peer[c].sent - mk_Data[i].collected
      <4>1. mk_Data[i].collected + check.got = peer[c].read
        BY <1>1, <1>3, <1>6, <2>1, <2>2 DEF DataWithOwner
      <4>2. peer[c] \in [state : PeerStates, sent : Nat, read : Nat, events : SUBSET SocketEvents]
        BY DEF TypeOK
      <4>3. peer[c].read <= peer[c].sent /\ peer[c].read \in Nat /\ peer[c].sent \in Nat BY <4>2 DEF LeftInv
      <4> QED BY <1>4, <2>7, <4>1, <4>3
    <3>3. ConnectionOf(c)' = [ConnectionOf(c) EXCEPT !.collected = @ + check.got]
      <4> DEFINE n == mk_Data[i].collected + check.got
      <4>1. mk_Data'[i].collected = n /\ ConnectionOf(c).collected + check.got = n
        BY <1>2, <1>3, <1>6, <3>1
      <4> HIDE DEF n
      <4>2. ConnectionOf(c)' = [ConnectionOf(c) EXCEPT !.collected = n]
        BY <1>2, <2>3, <2>5, <4>1 DEF HeldView, Conn
      <4> QED BY <4>1, <4>2
    <3>4. Mapped' = [Mapped EXCEPT ![c].collected = @ + check.got] BY <2>4, <3>3, OnlyOne DEF Mapped
    <3>5. /\ ~ Mapped[c].shut /\ Mapped[c].sent = peer[c].sent /\ Mapped[c].collected = mk_Data[i].collected
      BY <3>1 DEF Mapped
    <3>6. Server!Collect(c) BY <2>5, <3>2, <3>4, <3>5 DEF Server!Collect, Mapped
    <3> QED BY <2>4, <3>6, OneSteps DEF Server!Step
  <2> QED BY <1>4, <2>6, <2>7
\* The connection that has been moved into the slot of the removed one.
<1>7. CASE check.memory = "freed"
  <2>1. PICK c \in Clients : c = mk_Data[i].h_Socket BY <1>1, <1>3 DEF CheckInv
  <2>2. misfed' = misfed \cup {c} BY <1>3, <1>7, <2>1 DEF HandleEvents
  <2>3. /\ \A d \in Clients \ {c} : Spoiled(d)' = Spoiled(d)
        /\ Spoiled(c)' = TRUE
    BY <2>2 DEF Spoiled
  <2>4. \A j \in Slots : mk_Data'[j].collected = mk_Data[j].collected BY <1>2, <1>7
  <2>5. /\ \A d \in Clients \ {c} : ConnectionOf(d)' = ConnectionOf(d)
        /\ ~ InList(c) => ConnectionOf(c)' = ConnectionOf(c)
    BY <1>1, <1>2, <2>3, <2>4, AtOneClient
  <2>6. CASE InList(c)
    <3>1. PICK k \in Connected : mk_Data[k].h_Socket = c BY <2>6 DEF InList
    <3>2. /\ ConnectionOf(c) = HeldView(peer[c], mk_Data[k], wire[c], Spoiled(c))
          /\ ConnectionOf(c)' = HeldView(peer[c], mk_Data'[k], wire[c], Spoiled(c)')
          /\ c \in Server!Held
      BY <1>1, <1>2, <2>3, <2>4, <3>1, AtOneClient
    <3>3. ConnectionOf(c)' = [ConnectionOf(c) EXCEPT !.spoiled = TRUE]
      <4> DEFINE yes == TRUE
      <4>1. Spoiled(c)' = yes BY <2>3
      <4>2. k \in Slots BY <1>1, <3>1
      <4> HIDE DEF yes
      <4>3. ConnectionOf(c)' = [ConnectionOf(c) EXCEPT !.spoiled = yes]
        BY <1>2, <2>4, <3>2, <4>1, <4>2 DEF HeldView, Conn
      <4> QED BY <4>3 DEF yes
    <3>4. Mapped' = [Mapped EXCEPT ![c].spoiled = TRUE] BY <2>5, <3>3, OnlyOne DEF Mapped
    <3>5. Server!Spoil(c) BY <3>2, <3>4 DEF Server!Spoil, Mapped
    <3> QED BY <2>5, <3>5, OneSteps DEF Server!Step
  <2>7. CASE ~ InList(c) BY <2>5, <2>7, OneSteps
  <2> QED BY <2>6, <2>7
<1>8. CASE check.memory = "null" BY <1>5, <1>8 DEF HandleEvents
<1> QED BY <1>6, <1>7, <1>8 DEF TypeOK

LEMMA DisconnectShuts ==
  ASSUME Inv, Inv', Disconnect
  PROVE  [Server!Next]_Mapped
<1> USE DEF Inv, IInv
<1>0. \A d \in Clients : Spoiled(d)' = Spoiled(d) BY KeepsSpoiled DEF Disconnect
<1>1. /\ UNCHANGED <<mu32_Count, peer, wire>> /\ check.pc = "disconnect" /\ Connected \subseteq Slots
      /\ mk_Data' = [j \in Slots |-> IF j \in Connected /\ mk_Data[j].h_Socket = check.h_Socket
                                     THEN [mk_Data[j] EXCEPT !.b_Shutdown = TRUE] ELSE mk_Data[j]]
  BY ConnectedSlots DEF Disconnect, DisconnectClient
<1>2. CASE \A j \in Connected : mk_Data[j].h_Socket # check.h_Socket
  <2>1. \A j \in Slots : mk_Data'[j] = mk_Data[j] BY <1>1, <1>2
  <2> QED BY <1>0, <1>1, <2>1, NothingSeen
<1>3. CASE \E j \in Connected : mk_Data[j].h_Socket = check.h_Socket
  <2>1. PICK i \in Connected : mk_Data[i].h_Socket = check.h_Socket BY <1>3
  <2>2. PICK c \in Clients : c = mk_Data[i].h_Socket BY DEF ListInv
  <2>3. /\ Spoiled(c) \/ (c \notin Upgraders /\ mk_Data[i].collected >= Needed(c))
        /\ ~ mk_Data[i].b_Shutdown
    <3>1. peer[c].state # "gone" BY <2>2 DEF ListInv, InList
    <3>2. check.slot \in Connected /\ mk_Data[check.slot].h_Socket = check.h_Socket
      BY <1>1, <2>1, <2>2, <3>1 DEF CheckInv
    <3>3. i = check.slot BY <2>1, <3>2 DEF ListInv
    <3> QED BY <1>1, <2>1, <2>2, <3>1, <3>3 DEF CheckInv, Spoiled
  <2>4. mk_Data[i] \in Connection /\ i \in Slots BY <1>1 DEF TypeOK
  <2>5. mk_Data'[i] = [mk_Data[i] EXCEPT !.b_Shutdown = TRUE] BY <1>1, <2>1, <2>4
  <2>6. /\ mk_Data'[i].h_Socket = c /\ mk_Data'[i].collected = mk_Data[i].collected
        /\ mk_Data'[i].s8_SendBuf = mk_Data[i].s8_SendBuf
    BY <2>2, <2>4, <2>5 DEF Connection
  <2>7. \A j \in Slots \ {i} : mk_Data'[j] = mk_Data[j] BY <1>1, <2>1 DEF ListInv
  <2>8. /\ \A d \in Clients \ {c} : ConnectionOf(d)' = ConnectionOf(d)
        /\ ConnectionOf(c) = HeldView(peer[c], mk_Data[i], wire[c], Spoiled(c))
        /\ ConnectionOf(c)' = HeldView(peer[c], mk_Data'[i], wire'[c], Spoiled(c)')
        /\ c \in Server!Held
    BY <1>0, <1>1, <2>2, <2>6, <2>7, AtOneSlot
  <2>9. /\ ~ ConnectionOf(c).shut
        /\ ConnectionOf(c).collected = mk_Data[i].collected /\ ConnectionOf(c).spoiled = Spoiled(c)
    BY <2>3, <2>8 DEF HeldView, Conn
  <2>10. ConnectionOf(c)' = [ConnectionOf(c) EXCEPT !.shut = TRUE]
    <3> DEFINE yes == TRUE
    <3>1. mk_Data'[i].b_Shutdown = yes BY <2>4, <2>5 DEF Connection
    <3> HIDE DEF yes
    <3> DEFINE state == IF peer[c].state = "open" THEN "open" ELSE "left"
    <3>2. wire'[c] = wire[c] BY <1>1
    <3>3. ConnectionOf(c) = Conn(state, peer[c].sent, mk_Data[i].collected, Spoiled(c), mk_Data[i].b_Shutdown,
                                 mk_Data[i].s8_SendBuf, wire[c])
      BY <2>8 DEF HeldView
    <3>4. ConnectionOf(c)' = Conn(state, peer[c].sent, mk_Data[i].collected, Spoiled(c), yes,
                                  mk_Data[i].s8_SendBuf, wire[c])
      BY <1>0, <2>6, <2>8, <3>1, <3>2 DEF HeldView
    <3> HIDE DEF state
    <3>5. ConnectionOf(c)' = [ConnectionOf(c) EXCEPT !.shut = yes] BY <3>3, <3>4 DEF Conn
    <3> QED BY <3>5 DEF yes
  <2>11. Mapped' = [Mapped EXCEPT ![c].shut = TRUE] BY <2>8, <2>10, OnlyOne DEF Mapped
  <2>12. /\ ~ Mapped[c].shut
         /\ Mapped[c].collected = mk_Data[i].collected /\ Mapped[c].spoiled = Spoiled(c)
    BY <2>9 DEF Mapped
  <2>13. Server!Shut(c)
    <3>1. CASE Spoiled(c) BY <2>8, <2>11, <2>12, <3>1 DEF Server!Shut, Mapped
    <3>2. CASE ~ Spoiled(c) BY <2>2, <2>3, <2>8, <2>11, <2>12, <3>2 DEF Server!Shut, Mapped, Clients
    <3> QED BY <3>1, <3>2
  <2> QED BY <2>8, <2>13, OneSteps DEF Server!Step
<1> QED BY <1>2, <1>3

LEMMA OneConnection ==
  ASSUME Inv, Inv', LeftInv, [Next]_vars
  PROVE  [Server!Next]_Mapped
<1> USE DEF Inv, IInv
<1>1. CASE UNCHANGED <<mu32_Count, peer, mk_Data, wire, misfed>> BY <1>1, KeepsSpoiled, NothingSeen
<1>2. ASSUME NEW h, SendTo(h), UNCHANGED <<mu32_Count, peer, misfed>>
      PROVE  [Server!Next]_Mapped
  BY <1>2, SendToStarts
<1>3. CASE (CheckStep /\ ~ RemoveClosed) \/ SenderStep
  <2>1. CASE HandleEvents BY <2>1, HandleEventsCollects
  <2>2. CASE Disconnect BY <2>2, DisconnectShuts
  <2>3. CASE SendHandshake \/ SendHello \/ SendAnswer \/ SendEntry
    BY <1>2, <2>3 DEF SendHandshake, SendHello, SendAnswer, SendEntry
  <2>4. CASE EnterLoop \/ WaitEnds \/ Register \/ BeginBundle \/ ReadEntry
    BY <1>1, <2>4 DEF EnterLoop, WaitEnds, Register, BeginBundle, ReadEntry
  <2> QED BY <1>3, <2>1, <2>2, <2>3, <2>4 DEF CheckStep, SenderStep
<1>4. CASE UNCHANGED vars BY <1>1, <1>4 DEF vars
<1>5. ASSUME NEW c \in Clients, Accept(c)
      PROVE  [Server!Next]_Mapped
  BY <1>5, AcceptConnects
<1>6. ASSUME NEW c \in Clients, ClientStep(c)
      PROVE  [Server!Next]_Mapped
  BY <1>6, ClientConnection
<1>7. ASSUME NEW i \in Slots, HandleSocket(i)
      PROVE  [Server!Next]_Mapped
  BY <1>7, HandleSocketContinues
<1>8. ASSUME NEW i \in Connected, Remove(i), UNCHANGED misfed,
             mk_Data[i].b_Closed \/ peer[mk_Data[i].h_Socket].state = "broken"
      PROVE  [Server!Next]_Mapped
  BY <1>8, RemoveDrops
<1> QED BY <1>3, <1>4, <1>5, <1>6, <1>7, <1>8, NextCases

\* Each client has a connection of its own, for any clients and any number of slots: every
\* step of cList, Check and SendAllWebSocketClients is a step of one connection of module
\* Connections or of none, wherever Remove has moved the slots.
THEOREM SocketsRefinement == Spec => ImplementsConnections
<1>1. Init => Server!Init
  <2> SUFFICES ASSUME Init PROVE Server!Init OBVIOUS
  <2>1. Connected = {} BY DEF Init, Connected
  <2>2. ASSUME NEW c \in Clients
        PROVE  ConnectionOf(c) = Server!NoConnection("away")
    <3>1. ~ InList(c) BY <2>1 DEF InList
    <3>2. peer[c].state = "away" /\ wire[c] = <<>> BY DEF Init
    <3> QED BY <3>1, <3>2 DEF ConnectionOf, Server!NoConnection
  <2> QED BY <2>2 DEF Server!Init
<1>2. Spec => []LeftInv
  <2>1. Spec => []Inv BY InitInv, NextInv, PTL DEF Spec
  <2> QED BY <2>1, LeftInit, LeftStep, PTL DEF Spec
<1>3. Spec => []Inv BY InitInv, NextInv, PTL DEF Spec
<1>4. ASSUME Inv, Inv', LeftInv, [Next]_vars
      PROVE  [Server!Next]_([c \in Clients |-> ConnectionOf(c)])
  BY <1>4, OneConnection DEF Mapped
<1> QED BY <1>1, <1>2, <1>3, <1>4, PTL DEF Spec, ImplementsConnections, Server!Spec

=============================================================================
