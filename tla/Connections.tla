----------------------------- MODULE Connections -----------------------------
(***************************************************************************)
(* What the clients of NosuchSocket and NosuchHttp may expect: each has a   *)
(* connection of its own.  There are no slots here and no list of them:     *)
(* what happens to one connection leaves the others as they are, except     *)
(* that bytes which nobody has sent may get into the data of one (Spoil).   *)
(*                                                                         *)
(* A message to a client has two halves.  rest is what the server still has *)
(* to send of it, got what the client has of a message it has not whole.    *)
(***************************************************************************)
EXTENDS Naturals, Sequences, FiniteSets

CONSTANTS
    Clients,
    Answerable,     \* clients whose connection ends with the answer to their request
    RequestLength,  \* the pieces each client's request has
    Capacity        \* connections at a time

VARIABLE connection

Message == <<1, 2>>

Held == {c \in Clients : connection[c].state \in {"open", "left"}}

\* A client without a connection.
NoConnection(state) ==
    [state |-> state, sent |-> 0, collected |-> 0, spoiled |-> FALSE, shut |-> FALSE,
     rest |-> <<>>, got |-> <<>>]

Init == connection = [c \in Clients |-> NoConnection("away")]

Connect(c) ==
    /\ connection[c].state = "away"
    /\ Cardinality(Held) < Capacity
    /\ connection' = [connection EXCEPT ![c].state = "open"]

Send(c) ==
    /\ connection[c].state = "open"
    /\ connection' = [connection EXCEPT ![c].sent = @ + 1]

\* The client closes or breaks the connection, or ends it because the server has.
Leave(c) ==
    /\ connection[c].state = "open"
    /\ connection' = [connection EXCEPT ![c].state = "left"]

\* The server receives more of what the client has sent, until it has shut down.
Collect(c) ==
    /\ c \in Held
    /\ ~ connection[c].shut
    /\ \E n \in 1 .. connection[c].sent - connection[c].collected :
          connection' = [connection EXCEPT ![c].collected = @ + n]

\* A message begins, and may block anywhere; none begins before the last has ended.
Start(c) ==
    /\ c \in Held
    /\ ~ connection[c].shut
    /\ connection[c].rest = <<>>
    /\ \E k \in 0 .. 2 :
          connection' = [connection EXCEPT
                            ![c].rest = SubSeq(Message, k + 1, 2),
                            ![c].got = IF k = 2 THEN <<>> ELSE SubSeq(Message, 1, k)]

\* A message that has blocked goes on.
Continue(c) ==
    LET rest == connection[c].rest
    IN  /\ c \in Held
        /\ \E k \in 1 .. Len(rest) :
              connection' = [connection EXCEPT
                                ![c].rest = SubSeq(rest, k + 1, Len(rest)),
                                ![c].got = IF k = Len(rest) THEN <<>> ELSE @ \o SubSeq(rest, 1, k)]

\* What the server has collected gets mixed with other bytes.
Spoil(c) ==
    /\ c \in Held
    /\ connection' = [connection EXCEPT ![c].spoiled = TRUE]

\* The server shuts a connection down, once and when it has the whole request; with spoiled
\* data, at any time.
Shut(c) ==
    /\ c \in Held
    /\ ~ connection[c].shut
    /\ \/ c \in Answerable /\ connection[c].collected >= RequestLength[c]
       \/ connection[c].spoiled
    /\ connection' = [connection EXCEPT ![c].shut = TRUE]

\* A connection is given up when its client has left, and only then.
Drop(c) ==
    /\ connection[c].state = "left"
    /\ connection' = [connection EXCEPT ![c] = NoConnection("gone")]

Step(c) ==
    \/ Connect(c) \/ Send(c) \/ Leave(c) \/ Collect(c) \/ Start(c) \/ Continue(c)
    \/ Spoil(c) \/ Shut(c) \/ Drop(c)

\* A step is a step of one connection, which it changes.
Next == \E c \in Clients : connection'[c] # connection[c] /\ Step(c)

Spec == Init /\ [][Next]_connection
=============================================================================
