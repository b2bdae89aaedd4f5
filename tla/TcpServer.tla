----------------------------- MODULE TcpServer -----------------------------
(***************************************************************************)
(* answer/network/tcp_server.cxx: poll() waits for events of the listening *)
(* socket, which is level-triggered, and of the connections it accepted,   *)
(* which are edge-triggered; it reads what a connection has and answers.   *)
(* Clients connect, send a message and wait for an answer, as in main().   *)
(*                                                                         *)
(* The kernel is external: epoll keeps a list of what is ready, returns    *)
(* what still is when it is asked, and puts a level-triggered socket back. *)
(* What matters of data is how much there is.                              *)
(***************************************************************************)
EXTENDS Integers, FiniteSets, Sequences, SequencesExt

CONSTANTS Clients, MAX_EVENTS, BUFFER_SIZE,
          Message, \* size of a client's message
          listening_socket

\* One recvmsg() reads a message: the rest of a longer one would wait for the
\* next edge.
TcpServerAssumption ==
  /\ listening_socket \notin Clients
  /\ MAX_EVENTS \in Nat \ {0} /\ BUFFER_SIZE \in Nat /\ Message \in 1..BUFFER_SIZE

VARIABLES cpc,        \* a client: "start", "connected", "sent", "answered"
          transit,    \* bytes sent and not delivered, per connection
          inbox,      \* bytes delivered and not received
          answers,    \* answers sent, per connection, and not received
          backlog,    \* connections to accept
          ready,      \* epoll's list
          registered, \* connections epoll watches
          events,     \* event_list from place i on
          failed      \* an assertion failed

clientVars == <<cpc, transit, answers>>
vars == <<clientVars, inbox, backlog, ready, registered, events, failed>>

Init ==
  /\ cpc = [c \in Clients |-> "start"]
  /\ transit = [c \in Clients |-> 0] /\ inbox = [c \in Clients |-> 0]
  /\ answers = [c \in Clients |-> 0]
  /\ backlog = <<>> /\ ready = <<>> /\ registered = {}
  /\ events = <<>> /\ failed = FALSE

Least(m, n) == IF m < n THEN m ELSE n

\* The kernel puts a socket that becomes readable at the end of its list.
Enqueue(list, fd) == IF Contains(list, fd) THEN list ELSE Append(list, fd)

-----------------------------------------------------------------------------
(* The clients and the network *)

\* Lines 45-47: connect().
Connect(c) ==
  /\ cpc[c] = "start"
  /\ cpc' = [cpc EXCEPT ![c] = "connected"]
  /\ backlog' = Append(backlog, c)
  /\ ready' = Enqueue(ready, listening_socket)
  /\ UNCHANGED <<transit, answers, inbox, registered, events, failed>>

\* Line 206.
Send(c) ==
  /\ cpc[c] = "connected"
  /\ cpc' = [cpc EXCEPT ![c] = "sent"]
  /\ transit' = [transit EXCEPT ![c] = Message]
  /\ UNCHANGED <<answers, inbox, backlog, ready, registered, events, failed>>

\* A message arrives in one piece or in several, each of them an edge.
Deliver(c) ==
  /\ \E n \in 1..transit[c] :
       /\ transit' = [transit EXCEPT ![c] = @ - n]
       /\ inbox' = [inbox EXCEPT ![c] = @ + n]
  /\ ready' = IF c \in registered THEN Enqueue(ready, c) ELSE ready
  /\ UNCHANGED <<cpc, answers, backlog, registered, events, failed>>

\* Line 207.
Receive(c) ==
  /\ cpc[c] = "sent" /\ answers[c] > 0
  /\ cpc' = [cpc EXCEPT ![c] = "answered"]
  /\ answers' = [answers EXCEPT ![c] = 0]
  /\ UNCHANGED <<transit, inbox, backlog, ready, registered, events, failed>>

-----------------------------------------------------------------------------
(* poll(), lines 147-191 *)

Readable(fd) == IF fd = listening_socket THEN backlog # <<>> ELSE inbox[fd] > 0

\* Mutant: the listening socket is edge-triggered, too.
Triggered_Edge == {}

\* Line 164, and line 184 for the others: what is reported although it was.
Triggered == {listening_socket}

\* The members of a list at some of its places, in their order.
Rank(places, i) == Cardinality({j \in places : j <= i})
At(list, places) ==
  [k \in 1..Cardinality(places) |-> list[CHOOSE i \in places : Rank(places, i) = k]]

\* Line 167: the first MAX_EVENTS of those that still are ready.
EpollWait ==
  LET still == {i \in DOMAIN ready : Readable(ready[i])}
      told == {i \in still : Rank(still, i) <= MAX_EVENTS}
      again == {i \in told : ready[i] \in Triggered}
  IN  /\ ~ failed /\ events = <<>> /\ still # {}
      /\ events' = At(ready, told)
      /\ ready' = At(ready, still \ told) \o At(ready, again)
      /\ UNCHANGED <<clientVars, inbox, backlog, registered, failed>>

\* Mutant: a connection is read as soon as it is accepted.
Accept_Read ==
  /\ ~ failed /\ events # <<>> /\ Head(events) = listening_socket /\ backlog # <<>>
  /\ backlog' = Tail(backlog)
  /\ registered' = registered \cup {Head(backlog)}
  /\ events' = <<Head(backlog)>> \o Tail(events)
  /\ UNCHANGED <<clientVars, inbox, ready, failed>>

\* Lines 174-185: accept(), which waits for a connection, and line 154, at
\* which epoll finds what has arrived before.
Accept ==
  /\ ~ failed /\ events # <<>> /\ Head(events) = listening_socket /\ backlog # <<>>
  /\ events' = Tail(events)
  /\ LET c == Head(backlog)
     IN  /\ backlog' = Tail(backlog)
         /\ registered' = registered \cup {c}
         /\ ready' = IF Readable(c) THEN Enqueue(ready, c) ELSE ready
  /\ UNCHANGED <<clientVars, inbox, failed>>

\* Lines 107-127: recvmsg().
Received(c) == Least(inbox[c], BUFFER_SIZE)

\* Lines 127-133 and 187.
HandleRead ==
  /\ ~ failed /\ events # <<>> /\ Head(events) # listening_socket
  /\ events' = Tail(events)
  /\ LET c == Head(events)
         n == Received(c)
     IN  /\ inbox' = [inbox EXCEPT ![c] = @ - n]
         /\ failed' = (n = 0)
         /\ answers' = [answers EXCEPT ![c] = IF n = 0 THEN @ ELSE @ + 1]
  /\ UNCHANGED <<cpc, transit, backlog, ready, registered>>

Client(c) == Connect(c) \/ Send(c) \/ Deliver(c) \/ Receive(c)
Server == EpollWait \/ Accept \/ HandleRead

\* The clients are done and poll() waits: the program goes on for ever.
Quiet ==
  /\ events = <<>> /\ \A c \in Clients : cpc[c] = "answered" /\ transit[c] = 0 /\ inbox[c] = 0
  /\ UNCHANGED vars

Next == (\E c \in Clients : Client(c)) \/ Server \/ Quiet

\* The scheduler keeps running every thread and the network delivers.
Fairness == WF_vars(Server) /\ \A c \in Clients : WF_vars(Client(c))

Spec == Init /\ [][Next]_vars /\ Fairness

-----------------------------------------------------------------------------
\* The assertion of line 128, and accept() never waits: an event that poll()
\* takes out of its list is still true, although it was reported earlier and
\* other events were handled in between.
AssertionsHold == ~ failed
EventsTrue == \A i \in DOMAIN events : Readable(events[i])

\* No edge is lost: a connection with something to read waits in the backlog,
\* in epoll's list or in event_list, and so does the listening socket.
Noticed(fd) == Contains(ready, fd) \/ Contains(events, fd)
NoEdgeLost ==
  /\ \A c \in Clients : inbox[c] > 0 => Contains(backlog, c) \/ Noticed(c)
  /\ backlog # <<>> => Noticed(listening_socket)

\* Every connection is accepted and every message read to its end, whatever
\* arrives while poll() handles other events, also before the connection is
\* registered, and however many sockets are ready at once.
EverythingRead ==
  \A c \in Clients : cpc[c] = "sent" ~> cpc[c] = "answered" /\ transit[c] = 0 /\ inbox[c] = 0
=============================================================================
