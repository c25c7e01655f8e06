------------------------------ MODULE SocketList ------------------------------
(***************************************************************************)
(* NosuchSocket's list of sockets (cList), what ProcessEvents does with an  *)
(* event, and NosuchHttp::Check on top of it: requests that arrive in       *)
(* pieces, answers and WebSocket messages that may block half-way, the list *)
(* of WebSocket clients, whose entries are addresses of slots of cList.     *)
(*                                                                         *)
(* Two threads: the HTTP thread calls Check in a loop, the main thread      *)
(* sends every bundle to all WebSocket clients.  The lock of the list       *)
(* (module SocketLock) is one guard here: no request of the main thread is  *)
(* served while the HTTP thread is inside ProcessEvents.                    *)
(*                                                                         *)
(* A client connects once, so it also stands for its socket handle.  What   *)
(* it sends is counted in pieces: the header is HeaderPieces of them, the   *)
(* body of a POST one more.  Every message to a client is a half 1 and a     *)
(* half 2, because a send may stop anywhere inside it.                       *)
(*                                                                         *)
(* A connection may be given what deleted memory holds, on top of what its   *)
(* client sends (WriteFails, HandleEvents).  From then on its data is        *)
(* anything: the client is misfed, and its request may end at any time, be   *)
(* taken for another kind, or never end.                                     *)
(***************************************************************************)
EXTENDS Integers, Sequences

CONSTANTS
    Upgraders,      \* clients that ask for a WebSocket
    Getters,        \* clients that make a GET request
    Posters,        \* clients that make a POST request
    Listener,       \* the listening socket, slot 0
    NoClient,       \* no socket
    MaxSockets,     \* slots of mk_Data, WSA_MAXIMUM_WAIT_EVENTS-1
    HeaderPieces,   \* pieces of a header, the empty line is in the last
    MaxExtra,       \* bound on the pieces a WebSocket client sends after its request
    MaxBundles      \* bound on the bundles the main thread sends

Clients == Upgraders \cup Getters \cup Posters

ASSUME ClientsAssumption ==
    /\ Upgraders \cap (Getters \cup Posters) = {}
    /\ Getters \cap Posters = {}
    /\ Listener \notin Clients
    /\ NoClient \notin Clients \cup {Listener}
ASSUME SocketsAssumption == MaxSockets \in Nat \ {0} /\ HeaderPieces \in Nat \ {0}
ASSUME BoundsAssumption == MaxExtra \in Nat /\ MaxBundles \in Nat

VARIABLES
    mu32_Count,         \* slots in use
    mk_Data,            \* the slots; those from mu32_Count on keep what they held.  collected
                        \* counts the pieces of the slot's own client in _buff_sofar and _data
    _WebSocket_Clients, \* entries: a slot, the client it was made for (history), and
                        \* whether it has been erased since
    peer,               \* each client's end of its connection
    wire,               \* what each client has of a message it has not whole
    check,              \* the HTTP thread: where it is and what it holds
    sender,             \* the main thread: where it is and what it holds
    late,               \* history: registered after its FD_CLOSE
    misfed              \* clients whose _buff_sofar or _data has bytes from deleted memory

vars == <<mu32_Count, mk_Data, _WebSocket_Clients, peer, wire, check, sender,
          late, misfed>>

Slots == 0 .. MaxSockets - 1
Connected == 1 .. mu32_Count - 1
Message == <<1, 2>>

\* A client takes the message when both its halves are there, one after the other.
Arrives(w, halves) == IF w \o halves = Message THEN <<>> ELSE w \o halves

\* What Add writes into a slot.
Fresh(h) == [h_Socket |-> h, b_Shutdown |-> FALSE, b_Closed |-> FALSE,
             s8_SendBuf |-> <<>>, collected |-> 0, _is_websocket |-> FALSE]

\* A request is complete with this many pieces.
Needed(c) == IF c \in Posters THEN HeaderPieces + 1 ELSE HeaderPieces

Idle == [pc |-> "check", slot |-> 0, h_Socket |-> NoClient, events |-> {},
         memory |-> "null", got |-> 0]

\* At end() of the list: the main thread rests.
Resting == [pc |-> "next", entry |-> 0, h_Socket |-> NoClient, sent |-> 0]

Init ==
    /\ mu32_Count = 1
    /\ mk_Data = [i \in Slots |-> Fresh(IF i = 0 THEN Listener ELSE NoClient)]
    /\ _WebSocket_Clients = <<>>
    /\ peer = [c \in Clients |-> [state |-> "away", sent |-> 0, read |-> 0, events |-> {}]]
    /\ wire = [c \in Clients |-> <<>>]
    /\ check = Idle
    /\ sender = Resting
    /\ late = {}
    /\ misfed = {}

-----------------------------------------------------------------------------
(* The clients and the network. *)

\* The next piece arrives; FD_READ is signalled.
Send(c) ==
    /\ peer[c].state = "open"
    /\ peer[c].sent < Needed(c) + (IF c \in Upgraders THEN MaxExtra ELSE 0)
    /\ peer' = [peer EXCEPT ![c].sent = @ + 1, ![c].events = @ \cup {"FD_READ"}]
    /\ UNCHANGED <<mu32_Count, mk_Data, _WebSocket_Clients, wire, check, sender, late, misfed>>

\* The client closes, or breaks the connection: what is sent to it then fails.
Leave(c) ==
    /\ peer[c].state = "open"
    /\ \E how \in {"closed", "broken"} :
          peer' = [peer EXCEPT ![c].state = how, ![c].events = @ \cup {"FD_CLOSE"}]
    /\ UNCHANGED <<mu32_Count, mk_Data, _WebSocket_Clients, wire, check, sender, late, misfed>>

\* shutdown() --> FD_CLOSE, for a socket that DisconnectClient has shut down.
AnswerShutdown(c) ==
    /\ peer[c].state = "open"
    /\ \E i \in Connected : mk_Data[i].h_Socket = c /\ mk_Data[i].b_Shutdown
    /\ peer' = [peer EXCEPT ![c].state = "closed", ![c].events = @ \cup {"FD_CLOSE"}]
    /\ UNCHANGED <<mu32_Count, mk_Data, _WebSocket_Clients, wire, check, sender, late, misfed>>

\* A send had blocked, and the client has made room.
MakeRoom(c) ==
    /\ peer[c].state \in {"open", "broken"}
    /\ "FD_WRITE" \notin peer[c].events
    /\ \E i \in Connected : mk_Data[i].h_Socket = c /\ mk_Data[i].s8_SendBuf # <<>>
    /\ peer' = [peer EXCEPT ![c].events = @ \cup {"FD_WRITE"}]
    /\ UNCHANGED <<mu32_Count, mk_Data, _WebSocket_Clients, wire, check, sender, late, misfed>>

-----------------------------------------------------------------------------
(* cList. *)

\* Add; the address of the new slot goes to the caller.
Add(h) ==
    /\ mk_Data' = [mk_Data EXCEPT ![mu32_Count] = Fresh(h)]
    /\ mu32_Count' = mu32_Count + 1

\* A client whose socket the server has closed: a message it has not whole it never will.
Gone == [state |-> "gone", sent |-> 0, read |-> 0, events |-> {}]

\* Bug: the last slot is forgotten, the gap stays.
BugNoCopy(i) ==
    /\ mu32_Count' = mu32_Count - 1
    /\ UNCHANGED mk_Data
    /\ peer' = [peer EXCEPT ![mk_Data[i].h_Socket] = Gone]
    /\ wire' = [wire EXCEPT ![mk_Data[i].h_Socket] = <<>>]

\* Remove: the socket is closed, and the last slot is copied over the removed one.  Of
\* what then stays beyond the end, an old address still leads to the fields kept here.
Stale(conn) == [Fresh(conn.h_Socket) EXCEPT !.b_Closed = conn.b_Closed,
                                            !._is_websocket = conn._is_websocket]
Remove(i) ==
    LET last == mu32_Count - 1
    IN  /\ mu32_Count' = last
        /\ mk_Data' = [mk_Data EXCEPT ![i] = mk_Data[last], ![last] = Stale(mk_Data[last])]
    /\ peer' = [peer EXCEPT ![mk_Data[i].h_Socket] = Gone]
    /\ wire' = [wire EXCEPT ![mk_Data[i].h_Socket] = <<>>]

-----------------------------------------------------------------------------
(* SendTo and DisconnectClient: requests, served while nobody is inside            *)
(* ProcessEvents.                                                                  *)

Inside == check.pc = "sweep"

Accepts(i) ==
    /\ ~ mk_Data[i].b_Shutdown
    /\ ~ mk_Data[i].b_Closed
    /\ mk_Data[i].s8_SendBuf = <<>>

\* The halves that go out at once, and the rest in the slot's buffer.
Deliver(i) ==
    \E k \in 0 .. 2 :
        /\ wire' = [wire EXCEPT ![mk_Data[i].h_Socket] = Arrives(@, SubSeq(Message, 1, k))]
        /\ mk_Data' = [mk_Data EXCEPT ![i].s8_SendBuf = SubSeq(Message, k + 1, 2)]

\* Bug: a send still in progress does not matter.
BugOverwrites(i, h) ==
    /\ mk_Data[i].h_Socket = h
    /\ ~ mk_Data[i].b_Shutdown
    /\ ~ mk_Data[i].b_Closed
    /\ peer[h].state # "broken"

\* SendTo takes the message: the send buffer is empty, and send() does not fail.
CanTake(i, h) ==
    /\ mk_Data[i].h_Socket = h
    /\ Accepts(i)
    /\ peer[h].state # "broken"

\* A message that cannot be taken is lost: no caller looks at what SendTo returns.
SendTo(h) ==
    \/ \E i \in Connected : CanTake(i, h) /\ Deliver(i)
    \/ /\ \A i \in Connected : ~ CanTake(i, h)
       /\ UNCHANGED <<wire, mk_Data>>

\* Bug: the events of the socket are not ignored from here on.
BugNotShutdown(h) == UNCHANGED mk_Data

DisconnectClient(h) ==
    mk_Data' = [i \in Slots |->
                   IF i \in Connected /\ mk_Data[i].h_Socket = h
                   THEN [mk_Data[i] EXCEPT !.b_Shutdown = TRUE]
                   ELSE mk_Data[i]]

-----------------------------------------------------------------------------
(* ProcessEvents. *)

EnterLoop ==
    /\ check.pc = "check"
    /\ check' = [check EXCEPT !.pc = "sweep"]
    /\ UNCHANGED <<mu32_Count, mk_Data, _WebSocket_Clients, peer, wire, sender, late, misfed>>

Closed == {i \in Connected : mk_Data[i].b_Closed}

\* RemoveClosed goes from the last slot to the first.
RemoveClosed ==
    /\ Inside
    /\ \E i \in Closed :
          /\ \A j \in Closed : j <= i
          /\ Remove(i)
    /\ UNCHANGED <<_WebSocket_Clients, check, sender, late, misfed>>

\* The wait for events, with none that belongs to a socket; or a client connects, and
\* AcceptCondition rejects it: for the list it has never been there.
WaitEnds ==
    /\ Inside /\ Closed = {}
    /\ check' = Idle
    /\ UNCHANGED <<mu32_Count, mk_Data, _WebSocket_Clients, peer, wire, sender, late, misfed>>

AcceptCondition == mu32_Count < MaxSockets

\* A client connects: FD_ACCEPT on the listening socket, AcceptCondition agrees.
Accept(c) ==
    /\ Inside /\ Closed = {}
    /\ peer[c].state = "away"
    /\ AcceptCondition
    /\ Add(c)
    /\ peer' = [peer EXCEPT ![c].state = "open"]
    /\ check' = Idle
    /\ UNCHANGED <<_WebSocket_Clients, wire, sender, late, misfed>>

\* Bug: no event at all counts after a shutdown.
BugMaskAll(i) ==
    IF mk_Data[i].b_Shutdown THEN {} ELSE peer[mk_Data[i].h_Socket].events

\* What is left of a socket's events: after a shutdown only FD_CLOSE counts.
EventsAt(i) ==
    LET signalled == peer[mk_Data[i].h_Socket].events
    IN  IF mk_Data[i].b_Shutdown THEN signalled \cap {"FD_CLOSE"} ELSE signalled

Signalled(i) ==
    /\ Inside /\ Closed = {}
    /\ i \in Connected
    /\ peer[mk_Data[i].h_Socket].events # {}

\* What ProcessEvents gives to Check.
Returned(i, memory, got) ==
    [pc |-> "events", slot |-> i, h_Socket |-> mk_Data[i].h_Socket,
     events |-> EventsAt(i), memory |-> memory, got |-> got]

\* The socket itself has failed: nothing is returned.
SocketFails(i) ==
    /\ Signalled(i)
    /\ peer[mk_Data[i].h_Socket].state = "broken"
    /\ Remove(i)
    /\ check' = Idle
    /\ UNCHANGED <<_WebSocket_Clients, sender, late, misfed>>

\* The events are returned all the same, without memory.
ReadFails(i) ==
    /\ Signalled(i)
    /\ "FD_READ" \in EventsAt(i)
    /\ peer[mk_Data[i].h_Socket].state = "broken"
    /\ Remove(i)
    /\ check' = Returned(i, "null", 0)
    /\ UNCHANGED <<_WebSocket_Clients, sender, late, misfed>>

\* The rest of a message cannot be sent.  Data read before that was handed out, in
\* memory that Remove has deleted.
WriteFails(i) ==
    /\ Signalled(i)
    /\ "FD_WRITE" \in EventsAt(i)
    /\ mk_Data[i].s8_SendBuf # <<>>
    /\ peer[mk_Data[i].h_Socket].state = "broken"
    /\ Remove(i)
    /\ check' = Returned(i, IF "FD_READ" \in EventsAt(i) THEN "freed" ELSE "null", 0)
    /\ UNCHANGED <<_WebSocket_Clients, sender, late, misfed>>

\* Pieces that one WSARecv may return; what it leaves is signalled again.
Pieces(i) ==
    LET p == peer[mk_Data[i].h_Socket]
    IN  IF "FD_READ" \in EventsAt(i) /\ p.read < p.sent THEN 1 .. p.sent - p.read ELSE {0}

\* How much of the rest of a message goes out now.
SendableNow(i) ==
    IF "FD_WRITE" \in EventsAt(i) THEN 0 .. Len(mk_Data[i].s8_SendBuf) ELSE {0}

\* FD_READ, FD_WRITE and FD_CLOSE of one socket, in this order.
HandleSocket(i) ==
    LET c == mk_Data[i].h_Socket
        buf == mk_Data[i].s8_SendBuf
    IN  /\ Signalled(i)
        /\ \E n \in Pieces(i), k \in SendableNow(i) :
              /\ k > 0 => peer[c].state # "broken"
              /\ peer' = [peer EXCEPT
                             ![c].read = @ + n,
                             ![c].events = IF n > 0 /\ peer[c].read + n < peer[c].sent
                                           THEN {"FD_READ"} ELSE {}]
              /\ wire' = [wire EXCEPT ![c] = Arrives(@, SubSeq(buf, 1, k))]
              /\ mk_Data' = [mk_Data EXCEPT
                                ![i].s8_SendBuf = SubSeq(buf, k + 1, Len(buf)),
                                ![i].b_Closed = @ \/ "FD_CLOSE" \in EventsAt(i)]
              /\ check' = Returned(i, IF "FD_READ" \in EventsAt(i) THEN "data" ELSE "null", n)
        /\ UNCHANGED <<mu32_Count, _WebSocket_Clients, sender, late, misfed>>

-----------------------------------------------------------------------------
(* NosuchHttp::Check: what the HTTP thread does with the events. *)

\* An iterator of the list is the place of an entry, or end().
End == 0

\* Bug: the newest entry is erased, not all that are equal.
BugCloseLast(slot) ==
    LET last == Len(_WebSocket_Clients)
    IN  IF last > 0 /\ _WebSocket_Clients[last].slot = slot
        THEN _WebSocket_Clients' = [_WebSocket_Clients EXCEPT ![last].erased = TRUE]
        ELSE UNCHANGED _WebSocket_Clients

\* Erased entries keep their places, for an iterator that may stand at one.
CloseWebSocket(slot) ==
    _WebSocket_Clients' = [n \in DOMAIN _WebSocket_Clients |->
                              IF _WebSocket_Clients[n].slot = slot
                              THEN [_WebSocket_Clients[n] EXCEPT !.erased = TRUE]
                              ELSE _WebSocket_Clients[n]]

\* CollectHttpRequest has all of a request.  Nothing is reset after an upgrade, so what
\* a WebSocket client sends may end it again, if it happens to look like an empty line.
\* What deleted memory has left there may end a request or hide its end.
Finished(conn, got) ==
    LET c == conn.h_Socket
    IN  IF c \in misfed
        THEN BOOLEAN
        ELSE IF conn.collected >= Needed(c) /\ conn._is_websocket
        THEN IF got > 0 THEN BOOLEAN ELSE {FALSE}
        ELSE {conn.collected < Needed(c) /\ conn.collected + got >= Needed(c)}

Respond(conn, finished) ==
    IF ~ finished THEN Idle
    ELSE [Idle EXCEPT !.pc = IF conn._is_websocket THEN "handshake" ELSE "answer",
                      !.slot = check.slot, !.h_Socket = check.h_Socket]

\* The Upgrade line is in the first piece; between bytes from deleted memory it may be lost,
\* or be one of them.
Upgrade(conn, got) ==
    IF conn.h_Socket \in misfed THEN BOOLEAN ELSE {got > 0 /\ conn.h_Socket \in Upgraders}

\* CollectHttpRequest leaves the connection as fed.
Collect(fed, finished) ==
    /\ mk_Data' = [mk_Data EXCEPT ![check.slot] = fed]
    /\ check' = Respond(fed, finished)

HandleEvents ==
    /\ check.pc = "events"
    /\ IF "FD_CLOSE" \in check.events
       THEN CloseWebSocket(check.slot)
       ELSE UNCHANGED _WebSocket_Clients
    /\ \/ /\ check.memory = "null"
          /\ check' = Idle
          /\ UNCHANGED <<mk_Data, misfed>>
       \/ /\ check.memory = "data"
          /\ LET conn == mk_Data[check.slot]
             IN  \E upgrade \in Upgrade(conn, check.got), finished \in Finished(conn, check.got) :
                    Collect([conn EXCEPT !.collected = @ + check.got,
                                         !._is_websocket = @ \/ upgrade], finished)
          /\ UNCHANGED misfed
       \* The slot holds another connection, or what is left of the removed one: what the
       \* deleted memory holds is appended to its data.
       \/ /\ check.memory = "freed"
          /\ LET conn == mk_Data[check.slot]
             IN  /\ \E upgrade \in BOOLEAN, finished \in BOOLEAN :
                       Collect([conn EXCEPT !._is_websocket = @ \/ upgrade], finished)
                 /\ misfed' = misfed \cup {conn.h_Socket}
    /\ UNCHANGED <<mu32_Count, peer, wire, sender, late>>

\* InitializeWebSocket: the answer to the upgrade, a greeting, an entry in the list.
SendHandshake ==
    /\ check.pc = "handshake"
    /\ SendTo(mk_Data[check.slot].h_Socket)
    /\ check' = [check EXCEPT !.pc = "hello"]
    /\ UNCHANGED <<mu32_Count, _WebSocket_Clients, peer, sender, late, misfed>>

SendHello ==
    /\ check.pc = "hello"
    /\ SendTo(mk_Data[check.slot].h_Socket)
    /\ check' = [check EXCEPT !.pc = "register"]
    /\ UNCHANGED <<mu32_Count, _WebSocket_Clients, peer, sender, late, misfed>>

Register ==
    LET conn == mk_Data[check.slot]
    IN  /\ check.pc = "register"
        /\ _WebSocket_Clients' = Append(_WebSocket_Clients,
                [slot |-> check.slot, client |-> conn.h_Socket, erased |-> FALSE])
        /\ late' = IF conn.b_Closed THEN late \cup {conn.h_Socket} ELSE late
        /\ check' = Idle
        /\ UNCHANGED <<mu32_Count, mk_Data, peer, wire, sender, misfed>>

\* RespondToGetOrPost sends to the connection, DisconnectClient takes the socket the
\* event was for.
SendAnswer ==
    /\ check.pc = "answer"
    /\ SendTo(mk_Data[check.slot].h_Socket)
    /\ check' = [check EXCEPT !.pc = "disconnect"]
    /\ UNCHANGED <<mu32_Count, _WebSocket_Clients, peer, sender, late, misfed>>

Disconnect ==
    /\ check.pc = "disconnect"
    /\ DisconnectClient(check.h_Socket)
    /\ check' = Idle
    /\ UNCHANGED <<mu32_Count, _WebSocket_Clients, peer, wire, sender, late, misfed>>

CheckStep ==
    EnterLoop \/ RemoveClosed \/ WaitEnds \/ HandleEvents \/ SendHandshake \/ SendHello
        \/ Register \/ SendAnswer \/ Disconnect

SocketStep(i) == SocketFails(i) \/ ReadFails(i) \/ WriteFails(i) \/ HandleSocket(i)

-----------------------------------------------------------------------------
(* SendAllWebSocketClients, in the main thread: it walks through the list without    *)
(* any lock, and waits for the lock of the sockets at every entry.                   *)

Live == {n \in DOMAIN _WebSocket_Clients : ~ _WebSocket_Clients[n].erased}

\* What follows a place.
After(n) ==
    LET rest == {m \in Live : m > n}
    IN  IF rest = {} THEN {End} ELSE {m \in rest : \A k \in rest : m <= k}

\* At an entry that has been erased the iterator is lost.
Lost == _WebSocket_Clients[sender.entry].erased

BeginBundle ==
    /\ sender.pc = "next"
    /\ sender.entry = End
    /\ sender.sent < MaxBundles
    /\ \E n \in After(0) : sender' = [sender EXCEPT !.entry = n, !.sent = @ + 1]
    /\ UNCHANGED <<mu32_Count, mk_Data, _WebSocket_Clients, peer, wire, check, late, misfed>>

\* The handle is taken from the slot.  An erased entry may still hold any address.
ReadEntry ==
    /\ sender.pc = "next"
    /\ sender.entry # End
    /\ \E i \in IF Lost THEN Slots ELSE {_WebSocket_Clients[sender.entry].slot} :
          sender' = [sender EXCEPT !.pc = "send", !.h_Socket = mk_Data[i].h_Socket]
    /\ UNCHANGED <<mu32_Count, mk_Data, _WebSocket_Clients, peer, wire, check, late, misfed>>

\* From an erased entry the walk may go on at any other.
SendEntry ==
    /\ sender.pc = "send"
    /\ ~ Inside
    /\ SendTo(sender.h_Socket)
    /\ \E n \in IF Lost THEN Live \cup {End} ELSE After(sender.entry) :
          sender' = [sender EXCEPT !.pc = "next", !.entry = n, !.h_Socket = NoClient]
    /\ UNCHANGED <<mu32_Count, _WebSocket_Clients, peer, check, late, misfed>>

SenderStep == BeginBundle \/ ReadEntry \/ SendEntry

ClientStep(c) == Send(c) \/ Leave(c) \/ AnswerShutdown(c) \/ MakeRoom(c)

Next ==
    \/ CheckStep
    \/ \E i \in Slots : SocketStep(i)
    \/ \E c \in Clients : Accept(c) \/ ClientStep(c)
    \/ SenderStep

Spec == Init /\ [][Next]_vars

-----------------------------------------------------------------------------
(* Safety. *)

PeerStates == {"away", "open", "closed", "broken", "gone"}
SocketEvents == {"FD_READ", "FD_WRITE", "FD_CLOSE"}
CheckSteps == {"check", "sweep", "events", "handshake", "hello", "register", "answer", "disconnect"}
Connection == [h_Socket : Clients \cup {Listener, NoClient}, b_Shutdown : BOOLEAN,
               b_Closed : BOOLEAN, s8_SendBuf : Seq({1, 2}), collected : Nat,
               _is_websocket : BOOLEAN]

TypeOK ==
    /\ mu32_Count \in 1 .. MaxSockets
    /\ mk_Data \in [Slots -> Connection]
    /\ _WebSocket_Clients \in Seq([slot : Slots, client : Clients, erased : BOOLEAN])
    /\ peer \in [Clients -> [state : PeerStates, sent : Nat, read : Nat, events : SUBSET SocketEvents]]
    /\ wire \in [Clients -> Seq({1, 2})]
    /\ check \in [pc : CheckSteps, slot : Slots, h_Socket : Clients \cup {NoClient},
                  events : SUBSET SocketEvents, memory : {"null", "data", "freed"}, got : Nat]
    /\ sender \in [pc : {"next", "send"}, entry : Nat,
                   h_Socket : Clients \cup {Listener, NoClient}, sent : Nat]
    /\ late \subseteq Clients
    /\ misfed \subseteq Clients

\* A client is in one slot at most, and in one exactly while its connection is there;
\* the listening socket keeps slot 0.
InList(c) == \E i \in Connected : mk_Data[i].h_Socket = c
ListInv ==
    /\ mk_Data[0].h_Socket = Listener
    /\ \A i \in Connected :
          /\ mk_Data[i].h_Socket \in Clients
          /\ \A j \in Connected : mk_Data[i].h_Socket = mk_Data[j].h_Socket => i = j
    /\ \A c \in Clients : InList(c) <=> peer[c].state \in {"open", "closed", "broken"}

\* What a client has sent reaches its own connection, and all of it, wherever Remove
\* has moved the slot to: nothing a client sends is lost or counted for another.  Data that
\* Check still holds is on its way.  Of a misfed connection only the pieces of its own
\* client are counted; the bytes that deleted memory has added lie among them.
DataWithOwner ==
    \A i \in Connected :
        mk_Data[i].collected + (IF check.pc = "events" /\ check.memory = "data" /\ check.slot = i
                                THEN check.got ELSE 0)
            = peer[mk_Data[i].h_Socket].read

\* An old slot keeps the client it last held, but that one has moved down since.  Nobody
\* who has not connected is named anywhere.
SlotsInv ==
    /\ \A i \in Slots :
          LET conn == mk_Data[i]
          IN  /\ conn._is_websocket => conn.h_Socket \in Upgraders \cup misfed
              /\ conn.h_Socket \in Clients => peer[conn.h_Socket].state # "away"
              /\ \A j \in Connected : mk_Data[j].h_Socket = conn.h_Socket => j <= i
    /\ \A c \in Clients : peer[c].state = "away" => peer[c].read = 0 /\ c \notin misfed

\* What a client has of a message, and what is left in its slot, is one message or none.
Rests == {<<<<>>, <<>>>>, <<<<>>, Message>>, <<<<1>>, <<2>>>>}
RestInv ==
    /\ \A i \in Connected : <<wire[mk_Data[i].h_Socket], mk_Data[i].s8_SendBuf>> \in Rests
    /\ \A c \in Clients : peer[c].state \in {"away", "gone"} => wire[c] = <<>>

\* Where the HTTP thread stands: at the connection the event was for, or at what is in the
\* slot of one that WriteFails has removed.
CheckInv ==
    LET conn == mk_Data[check.slot]
        AtOwn == check.slot \in Connected /\ conn.h_Socket = check.h_Socket /\ ~ conn.b_Shutdown
        Removed == check.h_Socket \in Clients /\ peer[check.h_Socket].state = "gone"
    IN  /\ check.pc \notin {"check", "sweep"} => conn.h_Socket \in Clients
        /\ check.pc = "events" /\ check.memory = "data" => AtOwn
        /\ check.pc = "events" /\ check.memory = "freed" => Removed
        /\ check.pc \in {"answer", "disconnect"} =>
              \/ (Removed \/ AtOwn) /\ conn.h_Socket \in misfed
              \/ /\ AtOwn
                 /\ conn.h_Socket \notin Upgraders
                 /\ conn.collected >= Needed(conn.h_Socket)

\* The messages sent to a client arrive one after the other, each of them in one piece:
\* a message that blocked half-way is finished before another begins, whichever
\* thread sends it, and wherever the slot with its rest was moved meanwhile.
MessagesWhole == \A c \in Clients : wire[c] = <<>> \/ wire[c] = <<1>>

\* A GET or POST is answered when all of it has been read, and then at once and only
\* once: whenever the HTTP thread is not busy with it, its connection is being shut down
\* exactly if the request is complete.  And nobody is shut down before.  All three except
\* misfed connections (WriteFails): bytes from deleted memory may end or spoil a request.
RequestsHandled ==
    \A i \in Connected :
        LET conn == mk_Data[i]
            busy == check.slot = i /\ check.pc \in {"answer", "disconnect"}
        IN  /\ conn.b_Shutdown /\ conn.h_Socket \notin misfed =>
                  conn.h_Socket \notin Upgraders /\ conn.collected >= Needed(conn.h_Socket)
            /\ busy /\ conn.h_Socket \notin misfed =>
                  /\ conn.h_Socket = check.h_Socket
                  /\ ~ conn.b_Shutdown
                  /\ conn.collected >= Needed(conn.h_Socket)
            /\ ~ busy /\ conn.h_Socket \notin Upgraders \cup misfed
                  /\ conn.collected >= Needed(conn.h_Socket) => conn.b_Shutdown

\* Entries point at the slot a client had when it was registered, or above the one it has
\* now; a closed client's own entries are about to be erased, or it was registered late.
Own(e) == e.slot \in Connected /\ mk_Data[e.slot].h_Socket = e.client
Entries == {_WebSocket_Clients[n] : n \in Live}
EntriesInv ==
    /\ sender.entry \in DOMAIN _WebSocket_Clients \cup {End}
    /\ \A e \in Entries :
          /\ peer[e.client].state # "away"
          /\ \A j \in Connected : mk_Data[j].h_Socket = e.client => j <= e.slot
          /\ Own(e) /\ mk_Data[e.slot].b_Closed =>
                \/ e.client \in late
                \/ check.pc = "events" /\ check.slot = e.slot /\ "FD_CLOSE" \in check.events

IInv == TypeOK /\ ListInv /\ DataWithOwner /\ SlotsInv /\ RestInv /\ CheckInv /\ EntriesInv

\* An entry of the WebSocket clients goes stale in three ways only: Remove moves its
\* client to another slot, an error removes the client before its FD_CLOSE, or the
\* upgrade was handled together with the FD_CLOSE.  In particular a WebSocket client
\* that closes takes all its entries with it, though Check may have made several, as
\* long as it is still where they point.
StaleOnlyByMove ==
    [][\A e \in Entries :
          Own(e) /\ ~ Own(e)' /\ e \in Entries' =>
              \/ InList(e.client)'
              \/ ~ mk_Data[e.slot].b_Closed
              \/ e.client \in late]_vars

-----------------------------------------------------------------------------
(* What all this is for: a connection of its own for each client. *)

SlotOf(c) == CHOOSE i \in Connected : mk_Data[i].h_Socket = c

ConnectionOf(c) ==
    IF InList(c)
    THEN LET conn == mk_Data[SlotOf(c)]
         IN  [state |-> IF peer[c].state = "open" THEN "open" ELSE "left",
              sent |-> peer[c].sent, collected |-> conn.collected, spoiled |-> c \in misfed,
              shut |-> conn.b_Shutdown, rest |-> conn.s8_SendBuf, got |-> wire[c]]
    ELSE [state |-> peer[c].state, sent |-> 0, collected |-> 0, spoiled |-> FALSE,
          shut |-> FALSE, rest |-> <<>>, got |-> wire[c]]

Server == INSTANCE Connections WITH
    connection <- [c \in Clients |-> ConnectionOf(c)],
    Answerable <- Getters \cup Posters,
    RequestLength <- [c \in Clients |-> Needed(c)],
    Capacity <- MaxSockets - 1

\* Wherever Remove moves a slot to, and whatever the two threads do at the list meanwhile,
\* a step for one client touches another in one way only: deleted memory is read into its
\* data (Spoil).  What a client sends is collected for it alone, a message to it goes on where
\* it has stopped, and its connection is closed for a reason of its own, and shut down for
\* one, unless its data was spoiled.
ImplementsConnections == Server!Spec

-----------------------------------------------------------------------------
(* Liveness. *)

\* The HTTP thread goes on; the wait looks at the sockets in rotation, so a socket that
\* stays signalled gets its turn; a shutdown leads to FD_CLOSE.
Fairness ==
    /\ WF_vars(CheckStep)
    /\ WF_vars(\E c \in Clients : AnswerShutdown(c))
    /\ \A c \in Clients : SF_vars(\E i \in Slots : mk_Data[i].h_Socket = c /\ SocketStep(i))

LiveSpec == Spec /\ Fairness

Leaving(c) ==
    \E i \in Connected :
        /\ mk_Data[i].h_Socket = c
        /\ mk_Data[i].b_Shutdown \/ peer[c].state \in {"closed", "broken"}

\* The slot of a client that has gone, or that has been answered, becomes free: no client is
\* in a slot and leaving for ever.  63 slots are all there are.
SlotsReleased == \A c \in Clients : []<>~ Leaving(c)
=============================================================================
