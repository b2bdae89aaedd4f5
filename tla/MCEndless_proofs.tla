-------------------------- MODULE MCEndless_proofs --------------------------
(***************************************************************************)
(* What the three endless programs keep.                                   *)
(*                                                                         *)
(* The server, for any connections and any epoll list: what is in          *)
(* event_list is there once and readable, and a socket with something to   *)
(* read is in the backlog, in epoll's list or in event_list.               *)
(*                                                                         *)
(* The tasks, for any clients: the mutex is held by the thread that uses   *)
(* the queue, and the worker holds a task just while it runs it.           *)
(*                                                                         *)
(* The printers, both versions: what a round has printed is what is        *)
(* counted, but for the characters of threads that are to print or count.  *)
(***************************************************************************)
EXTENDS MCEndless, FiniteSetTheorems, FunctionTheorems, SequenceTheorems, TLAPS

-----------------------------------------------------------------------------
(* Lists, by their members *)

Members(list) == {list[i] : i \in 1..Len(list)}
Distinct(list) == \A i, j \in 1..Len(list) : list[i] = list[j] => i = j

LEMMA MembersOf ==
  ASSUME NEW S, NEW list \in Seq(S)
  PROVE  /\ Members(list) \subseteq S
         /\ DOMAIN list = 1..Len(list) /\ Len(list) \in Nat
         /\ Members(list) = {} <=> list = <<>>
         /\ \A e : Server!Contains(list, e) <=> e \in Members(list)
<1>1. Members(list) \subseteq S
  BY ElementOfSeq DEF Members
<1>2. DOMAIN list = 1..Len(list) /\ Len(list) \in Nat
  OBVIOUS
<1>3. Members(list) = {} <=> list = <<>>
  BY EmptySeq DEF Members
<1>4. \A e : Server!Contains(list, e) <=> e \in Members(list)
  BY DEF Server!Contains, Members
<1> QED
  BY <1>1, <1>2, <1>3, <1>4

LEMMA NoMembers == Members(<<>>) = {} /\ Distinct(<<>>)
  BY EmptySeq DEF Members, Distinct

LEMMA AppendMembers ==
  ASSUME NEW S, NEW list \in Seq(S), NEW e \in S
  PROVE  /\ Append(list, e) \in Seq(S)
         /\ Members(Append(list, e)) = Members(list) \cup {e}
         /\ Distinct(list) /\ e \notin Members(list) => Distinct(Append(list, e))
<1> DEFINE n == Len(list)
           more == Append(list, e)
<1>1. /\ more \in Seq(S) /\ n \in Nat /\ Len(more) = n + 1
      /\ \A i \in 1..n : more[i] = list[i]
      /\ more[n + 1] = e
  BY AppendProperties, LenProperties
<1> HIDE DEF n, more
<1>2. 1..n + 1 = 1..n \cup {n + 1}
  BY <1>1
<1>3. Members(more) = {more[i] : i \in 1..n} \cup {e}
  BY <1>1, <1>2 DEF Members
<1>4. Members(more) = Members(list) \cup {e}
  BY <1>1, <1>3 DEF Members, n
<1>5. ASSUME Distinct(list), e \notin Members(list) PROVE Distinct(more)
  BY <1>1, <1>5 DEF Distinct, Members, n
<1> QED
  BY <1>1, <1>4, <1>5 DEF more

LEMMA TailMembers ==
  ASSUME NEW S, NEW list \in Seq(S), list # <<>>
  PROVE  /\ Head(list) \in Members(list) /\ Tail(list) \in Seq(S)
         /\ Members(list) = Members(Tail(list)) \cup {Head(list)}
         /\ Distinct(list) => Distinct(Tail(list)) /\ Head(list) \notin Members(Tail(list))
<1> DEFINE n == Len(list)
           rest == Tail(list)
<1>1. /\ rest \in Seq(S) /\ n \in Nat \ {0} /\ Len(rest) = n - 1
      /\ \A i \in 1..n - 1 : rest[i] = list[i + 1]
      /\ Head(list) = list[1]
  BY HeadTailProperties, EmptySeq
<1> HIDE DEF n, rest
<1>2. Head(list) \in Members(list)
  BY <1>1 DEF Members, n
<1>3. Members(rest) \subseteq Members(list)
  BY <1>1 DEF Members, n
<1>4. ASSUME NEW e \in Members(list), e # Head(list) PROVE e \in Members(rest)
  <2>1. PICK i \in 1..n : e = list[i]
    BY DEF Members, n
  <2>2. i - 1 \in 1..n - 1 /\ rest[i - 1] = list[i]
    BY <1>1, <1>4, <2>1
  <2> QED
    BY <1>1, <2>1, <2>2 DEF Members
<1>5. ASSUME Distinct(list) PROVE Distinct(rest) /\ Head(list) \notin Members(rest)
  BY <1>1, <1>5 DEF Distinct, Members, n
<1> QED
  BY <1>1, <1>2, <1>3, <1>4, <1>5 DEF rest

LEMMA ConcatMembers ==
  ASSUME NEW S, NEW first \in Seq(S), NEW last \in Seq(S)
  PROVE  /\ first \o last \in Seq(S)
         /\ Members(first \o last) = Members(first) \cup Members(last)
         /\ Distinct(first) /\ Distinct(last) /\ Members(first) \cap Members(last) = {}
              => Distinct(first \o last)
<1> DEFINE m == Len(first)
           n == Len(last)
           all == first \o last
<1>1. /\ all \in Seq(S) /\ m \in Nat /\ n \in Nat /\ Len(all) = m + n
      /\ \A i \in 1..m + n : all[i] = IF i <= m THEN first[i] ELSE last[i - m]
  BY ConcatProperties, LenProperties
<1> HIDE DEF m, n, all
<1>2. Members(all) \subseteq Members(first) \cup Members(last)
  <2> SUFFICES ASSUME NEW i \in 1..m + n PROVE all[i] \in Members(first) \cup Members(last)
    BY <1>1 DEF Members
  <2>1. i <= m \/ i - m \in 1..n
    BY <1>1
  <2> QED
    BY <1>1, <2>1 DEF Members, m, n
<1>3. Members(first) \subseteq Members(all)
  BY <1>1 DEF Members, m
<1>4. Members(last) \subseteq Members(all)
  <2> SUFFICES ASSUME NEW i \in 1..n PROVE last[i] \in Members(all)
    BY DEF Members, n
  <2>1. i + m \in 1..m + n /\ all[i + m] = last[i]
    BY <1>1
  <2> QED
    BY <1>1, <2>1 DEF Members
<1>5. ASSUME Distinct(first), Distinct(last), Members(first) \cap Members(last) = {}
      PROVE  Distinct(all)
  <2> SUFFICES ASSUME NEW i \in 1..m + n, NEW j \in 1..m + n, all[i] = all[j] PROVE i = j
    BY <1>1 DEF Distinct
  <2>1. CASE i <= m /\ j <= m
    BY <1>1, <1>5, <2>1 DEF Distinct, m
  <2>2. CASE i > m /\ j > m
    <3>1. i - m \in 1..n /\ j - m \in 1..n /\ last[i - m] = last[j - m]
      BY <1>1, <2>2
    <3>2. i - m = j - m
      BY <1>5, <3>1 DEF Distinct, n
    <3> QED
      BY <1>1, <3>2
  <2>3. CASE i <= m /\ j > m
    <3>1. all[i] \in Members(first) /\ j - m \in 1..n /\ all[j] = last[j - m]
      BY <1>1, <2>3 DEF Members, m
    <3> QED
      BY <1>5, <3>1 DEF Members, n
  <2>4. CASE i > m /\ j <= m
    <3>1. all[j] \in Members(first) /\ i - m \in 1..n /\ all[i] = last[i - m]
      BY <1>1, <2>4 DEF Members, m
    <3> QED
      BY <1>5, <3>1 DEF Members, n
  <2> QED
    BY <1>1, <2>1, <2>2, <2>3, <2>4
<1> QED
  BY <1>1, <1>2, <1>3, <1>4, <1>5 DEF all

\* The places of a set are numbered by their ranks.
LEMMA Ranks ==
  ASSUME NEW places \in SUBSET Nat, IsFiniteSet(places)
  PROVE  /\ Cardinality(places) \in Nat
         /\ \A i \in places : Server!Rank(places, i) \in 1..Cardinality(places)
         /\ \A i, j \in places : Server!Rank(places, i) = Server!Rank(places, j) => i = j
         /\ \A k \in 1..Cardinality(places) : \E i \in places : Server!Rank(places, i) = k
<1> DEFINE upto(i) == {j \in places : j <= i}
           c == Cardinality(places)
<1>0. \A i : Server!Rank(places, i) = Cardinality(upto(i))
  BY DEF Server!Rank, Server!Cardinality, Cardinality
<1>1. \A i : IsFiniteSet(upto(i)) /\ Cardinality(upto(i)) \in Nat
  BY FS_Subset, FS_CardinalityType
<1>2. c \in Nat
  BY FS_CardinalityType
<1>3. ASSUME NEW i \in places PROVE Cardinality(upto(i)) \in 1..c
  <2>1. i \in upto(i)
    OBVIOUS
  <2>2. Cardinality(upto(i)) # 0
    BY <1>1, <2>1, FS_EmptySet
  <2>3. Cardinality(upto(i)) <= c
    BY FS_Subset
  <2> QED
    BY <1>1, <1>2, <2>2, <2>3
<1>4. ASSUME NEW i \in places, NEW j \in places, i < j,
             Cardinality(upto(i)) = Cardinality(upto(j))
      PROVE  FALSE
  <2>0. i \in Nat /\ j \in Nat /\ \A k \in places : k \in Nat
    OBVIOUS
  <2>1. ASSUME NEW k \in upto(i) PROVE k \in upto(j)
    <3>1. k \in places /\ k <= i /\ k \in Nat
      BY <2>0, <2>1
    <3>2. k <= j
      BY <1>4, <2>0, <3>1
    <3> QED
      BY <3>1, <3>2
  <2>2. j \in upto(j) /\ ~ (j <= i)
    BY <1>4, <2>0
  <2>3. upto(i) = upto(j)
    BY <1>1, <1>4, <2>1, FS_Subset
  <2> QED
    BY <2>2, <2>3
<1> HIDE DEF upto
<1> DEFINE f == [i \in places |-> Cardinality(upto(i))]
<1>5. \A i, j \in places : Cardinality(upto(i)) = Cardinality(upto(j)) => i = j
  BY <1>4
<1>6. f \in [places -> 1..c]
  BY <1>3
<1>7. f \in Injection(places, 1..c)
  BY <1>5, <1>6, Fun_IsInj
<1>8. IsFiniteSet(1..c) /\ Cardinality(1..c) = c
  BY <1>2, FS_Interval
<1>9. f \in Surjection(places, 1..c)
  BY <1>7, <1>8, FS_Injection
<1>10. \A k \in 1..c : \E i \in places : f[i] = k
  BY <1>9 DEF Surjection
<1> QED
  BY <1>0, <1>2, <1>3, <1>5, <1>10

LEMMA AtMembers ==
  ASSUME NEW S, NEW list \in Seq(S), NEW places \in SUBSET (1..Len(list))
  PROVE  /\ Server!At(list, places) \in Seq(S)
         /\ Members(Server!At(list, places)) = {list[i] : i \in places}
         /\ Distinct(list) => Distinct(Server!At(list, places))
<1> DEFINE c == Cardinality(places)
           place(k) == CHOOSE i \in places : Server!Rank(places, i) = k
           picked == Server!At(list, places)
<1>1. Len(list) \in Nat
  BY LenProperties
<1>2. IsFiniteSet(places) /\ places \in SUBSET Nat
  <2>1. IsFiniteSet(1..Len(list))
    BY <1>1, FS_Interval
  <2>2. IsFiniteSet(places)
    BY <2>1, FS_Subset
  <2> QED
    BY <1>1, <2>2
<1>3. /\ c \in Nat
      /\ \A i \in places : Server!Rank(places, i) \in 1..c
      /\ \A i, j \in places : Server!Rank(places, i) = Server!Rank(places, j) => i = j
      /\ \A k \in 1..c : \E i \in places : Server!Rank(places, i) = k
  BY <1>2, Ranks
<1>4. \A k \in 1..c : place(k) \in places /\ Server!Rank(places, place(k)) = k
  BY <1>3
<1>5. picked = [k \in 1..c |-> list[place(k)]]
  BY DEF Server!At, Server!Cardinality, Cardinality
<1> HIDE DEF c, place, picked
<1>6. \A k \in 1..c : list[place(k)] \in S
  BY <1>4, ElementOfSeq
<1>7. picked \in Seq(S) /\ Len(picked) = c
  BY <1>3, <1>5, <1>6
<1>8. \A i \in places : place(Server!Rank(places, i)) = i
  BY <1>3, <1>4
<1>9. Members(picked) = {list[i] : i \in places}
  <2>1. Members(picked) \subseteq {list[i] : i \in places}
    BY <1>4, <1>5, <1>7 DEF Members
  <2>2. ASSUME NEW i \in places PROVE list[i] \in Members(picked)
    <3>1. PICK k \in 1..c : place(k) = i
      BY <1>3, <1>8
    <3>2. picked[k] = list[i]
      BY <1>5, <3>1
    <3> QED
      BY <1>7, <3>2 DEF Members
  <2> QED
    BY <2>1, <2>2
<1>10. ASSUME Distinct(list) PROVE Distinct(picked)
  <2> SUFFICES ASSUME NEW k \in 1..c, NEW m \in 1..c, picked[k] = picked[m] PROVE k = m
    BY <1>7 DEF Distinct
  <2>1. list[place(k)] = list[place(m)]
    BY <1>5
  <2>2. place(k) = place(m)
    BY <1>4, <1>10, <2>1 DEF Distinct
  <2> QED
    BY <1>4, <2>2
<1> QED
  BY <1>7, <1>9, <1>10 DEF picked
-----------------------------------------------------------------------------
(* The server *)

Sockets == Clients \cup {listening_socket}

ServerTypes ==
  /\ cpc \in [Clients -> {"start", "connected", "sent", "answered"}]
  /\ transit \in [Clients -> Nat] /\ inbox \in [Clients -> Nat]
  /\ backlog \in Seq(Clients) /\ registered \subseteq Clients
  /\ ready \in Seq(Sockets) /\ events \in Seq(Sockets)

\* A client sends one message, which fits into the buffer, after connect().
Traffic ==
  \A c \in Clients :
    /\ transit[c] + inbox[c] <= Message
    /\ cpc[c] \in {"start", "connected"} => transit[c] = 0 /\ inbox[c] = 0

\* A connection is to be accepted or is watched.
Connected ==
  \A c \in Clients :
    cpc[c] = "connected" \/ transit[c] > 0 \/ inbox[c] > 0
      => c \in Members(backlog) \cup registered

\* epoll lists a socket once, and the listening socket again when it is told.
Lists ==
  /\ Distinct(ready) /\ Distinct(events)
  /\ listening_socket \in Members(events) => listening_socket \in Members(ready)

StillTrue == \A fd \in Members(events) : Server!Readable(fd)

Edges ==
  /\ \A c \in registered : inbox[c] > 0 => c \in Members(ready) \cup Members(events)
  /\ backlog # <<>> => listening_socket \in Members(ready) \cup Members(events)

ServerInv ==
  /\ ServerTypes /\ Traffic /\ Connected /\ Lists /\ StillTrue /\ Edges
  /\ ~ failed

LEMMA ServerConstants ==
  /\ listening_socket \notin Clients
  /\ MAX_EVENTS \in Nat \ {0} /\ BUFFER_SIZE \in Nat /\ Message \in Nat /\ Message <= BUFFER_SIZE
  BY Constants DEF Server!TcpServerAssumption

LEMMA EnqueueMembers ==
  ASSUME NEW S, NEW list \in Seq(S), NEW fd \in S
  PROVE  /\ Server!Enqueue(list, fd) \in Seq(S)
         /\ Members(Server!Enqueue(list, fd)) = Members(list) \cup {fd}
         /\ Distinct(list) => Distinct(Server!Enqueue(list, fd))
<1>1. CASE fd \in Members(list)
  BY <1>1, MembersOf DEF Server!Enqueue
<1>2. CASE fd \notin Members(list)
  BY <1>2, MembersOf, AppendMembers DEF Server!Enqueue
<1> QED
  BY <1>1, <1>2

LEMMA ServerStart == Server!Init \/ NoServer => ServerInv
<1> SUFFICES ASSUME Server!Init \/ NoServer PROVE ServerInv
  OBVIOUS
<1>1. /\ transit = [c \in Clients |-> 0] /\ inbox = [c \in Clients |-> 0]
      /\ cpc \in [Clients -> {"start", "answered"}]
      /\ backlog = <<>> /\ ready = <<>> /\ registered = {} /\ events = <<>> /\ failed = FALSE
  BY DEF Server!Init, NoServer
<1>2. ServerTypes
  BY <1>1, EmptySeq DEF ServerTypes
<1> QED
  BY <1>1, <1>2, NoMembers, ServerConstants
     DEF ServerInv, Traffic, Connected, Lists, StillTrue, Edges

LEMMA ServerConnect ==
  ASSUME ServerInv, NEW c \in Clients, Server!Connect(c)
  PROVE  ServerInv'
<1> USE ServerConstants
<1>1. /\ backlog' \in Seq(Clients) /\ Members(backlog') = Members(backlog) \cup {c}
      /\ backlog' # <<>>
  BY AppendMembers, AppendProperties DEF ServerInv, ServerTypes, Server!Connect
<1>2. /\ ready' \in Seq(Sockets) /\ Members(ready') = Members(ready) \cup {listening_socket}
      /\ Distinct(ready')
  <2>1. listening_socket \in Sockets
    BY DEF Sockets
  <2> QED
    BY <2>1, EnqueueMembers DEF ServerInv, ServerTypes, Lists, Server!Connect
<1>3. ServerTypes'
  BY <1>1, <1>2 DEF ServerInv, ServerTypes, Server!Connect
<1>4. Traffic' /\ Connected'
  BY <1>1 DEF ServerInv, ServerTypes, Traffic, Connected, Server!Connect
<1>5. Lists'
  BY <1>2 DEF ServerInv, Lists, Server!Connect
<1>6. StillTrue'
  BY <1>1 DEF ServerInv, StillTrue, Server!Readable, Server!Connect
<1>7. Edges'
  BY <1>2 DEF ServerInv, Edges, Server!Connect
<1> QED
  BY <1>3, <1>4, <1>5, <1>6, <1>7 DEF ServerInv, Server!Connect

LEMMA ServerSend ==
  ASSUME ServerInv, NEW c \in Clients, Server!Send(c)
  PROVE  ServerInv'
<1> USE ServerConstants
<1>0. /\ cpc' = [cpc EXCEPT ![c] = "sent"] /\ transit' = [transit EXCEPT ![c] = Message]
      /\ cpc[c] = "connected"
      /\ UNCHANGED <<inbox, backlog, ready, registered, events, failed>>
  BY DEF Server!Send
<1>1. ServerTypes'
  BY <1>0 DEF ServerInv, ServerTypes
<1>2. /\ \A d \in Clients \ {c} : cpc'[d] = cpc[d] /\ transit'[d] = transit[d]
      /\ cpc'[c] = "sent" /\ transit'[c] = Message
  BY <1>0 DEF ServerInv, ServerTypes
<1>3. Traffic'
  <2>1. inbox[c] = 0
    BY <1>0 DEF ServerInv, Traffic
  <2> QED
    BY <1>0, <1>2, <2>1 DEF ServerInv, Traffic
<1>4. Connected'
  BY <1>0, <1>2 DEF ServerInv, Connected
<1>5. Lists' /\ StillTrue' /\ Edges' /\ ~ failed'
  BY <1>0 DEF ServerInv, Lists, StillTrue, Edges, Server!Readable
<1> QED
  BY <1>1, <1>3, <1>4, <1>5 DEF ServerInv

LEMMA ServerReceive ==
  ASSUME ServerInv, NEW c \in Clients, Server!Receive(c)
  PROVE  ServerInv'
<1>1. ServerTypes' /\ Traffic' /\ Connected'
  BY DEF ServerInv, ServerTypes, Traffic, Connected, Server!Receive
<1>2. Lists' /\ StillTrue' /\ Edges' /\ ~ failed'
  BY DEF ServerInv, Lists, StillTrue, Edges, Server!Readable, Server!Receive
<1> QED
  BY <1>1, <1>2 DEF ServerInv

\* What has arrived at a registered connection is put on the list.
LEMMA ServerDeliver ==
  ASSUME ServerInv, NEW c \in Clients, Server!Deliver(c)
  PROVE  ServerInv'
<1> USE ServerConstants
<1>1. PICK n \in 1..transit[c] :
        /\ transit' = [transit EXCEPT ![c] = @ - n]
        /\ inbox' = [inbox EXCEPT ![c] = @ + n]
  BY DEF Server!Deliver
<1>2. n \in Nat /\ n > 0 /\ n <= transit[c] /\ transit[c] \in Nat /\ inbox[c] \in Nat
  BY DEF ServerInv, ServerTypes
<1>3. /\ ready' \in Seq(Sockets) /\ Distinct(ready')
      /\ Members(ready') = IF c \in registered THEN Members(ready) \cup {c} ELSE Members(ready)
  <2>1. c \in Sockets
    BY DEF Sockets
  <2>2. ready \in Seq(Sockets) /\ Distinct(ready)
    BY DEF ServerInv, ServerTypes, Lists
  <2>3. /\ Server!Enqueue(ready, c) \in Seq(Sockets) /\ Distinct(Server!Enqueue(ready, c))
        /\ Members(Server!Enqueue(ready, c)) = Members(ready) \cup {c}
    BY <2>1, <2>2, EnqueueMembers
  <2> QED
    BY <2>2, <2>3 DEF Server!Deliver
<1>4. /\ transit' \in [Clients -> Nat] /\ inbox' \in [Clients -> Nat]
      /\ transit'[c] = transit[c] - n /\ inbox'[c] = inbox[c] + n
      /\ \A d \in Clients \ {c} : transit'[d] = transit[d] /\ inbox'[d] = inbox[d]
  BY <1>1, <1>2 DEF ServerInv, ServerTypes
<1>5. ServerTypes'
  BY <1>3, <1>4 DEF ServerInv, ServerTypes, Server!Deliver
<1>6. Traffic'
  <2> SUFFICES ASSUME NEW d \in Clients
               PROVE  /\ transit'[d] + inbox'[d] <= Message
                      /\ cpc[d] \in {"start", "connected"} => transit'[d] = 0 /\ inbox'[d] = 0
    BY DEF Traffic, Server!Deliver
  <2> QED
    BY <1>2, <1>4 DEF ServerInv, Traffic
<1>7. Connected'
  BY <1>2, <1>4 DEF ServerInv, Connected, Server!Deliver
<1>8. Lists'
  BY <1>3 DEF ServerInv, Lists, Server!Deliver
<1>9. StillTrue'
  <2> SUFFICES ASSUME NEW fd \in Members(events) PROVE Server!Readable(fd)'
    BY DEF StillTrue, Server!Deliver
  <2>1. Server!Readable(fd) /\ fd \in Sockets
    BY MembersOf DEF ServerInv, ServerTypes, StillTrue
  <2> QED
    BY <1>2, <1>4, <2>1 DEF Server!Readable, Sockets, Server!Deliver
<1>10. Edges'
  <2>1. \A d \in registered : inbox'[d] > 0 => d \in Members(ready') \cup Members(events)
    BY <1>3, <1>4 DEF ServerInv, ServerTypes, Edges
  <2> QED
    BY <1>3, <2>1 DEF ServerInv, Edges, Server!Deliver
<1> QED
  BY <1>5, <1>6, <1>7, <1>8, <1>9, <1>10 DEF ServerInv, Server!Deliver

\* What is told is true, and what is not told stays on the list.
LEMMA ServerEpollWait ==
  ASSUME ServerInv, Server!EpollWait
  PROVE  ServerInv'
<1> DEFINE still == {i \in DOMAIN ready : Server!Readable(ready[i])}
           told == {i \in still : Server!Rank(still, i) <= MAX_EVENTS}
           again == {i \in told : ready[i] \in Server!Triggered}
           kept == Server!At(ready, still \ told)
           back == Server!At(ready, again)
<1>1. /\ events = <<>> /\ events' = Server!At(ready, told) /\ ready' = kept \o back
      /\ UNCHANGED <<cpc, transit, answers, inbox, backlog, registered, failed>>
  BY DEF Server!EpollWait, Server!clientVars
<1>2. ready \in Seq(Sockets) /\ DOMAIN ready = 1..Len(ready) /\ Distinct(ready)
  BY MembersOf DEF ServerInv, ServerTypes, Lists
<1>3. /\ told \in SUBSET (1..Len(ready)) /\ again \in SUBSET (1..Len(ready))
      /\ still \ told \in SUBSET (1..Len(ready))
  BY <1>2
<1>4. /\ events' \in Seq(Sockets) /\ Distinct(events')
      /\ Members(events') = {ready[i] : i \in told}
  BY <1>1, <1>2, <1>3, AtMembers
<1>5. /\ kept \in Seq(Sockets) /\ Distinct(kept)
      /\ Members(kept) = {ready[i] : i \in still \ told}
  BY <1>2, <1>3, AtMembers
<1>6. /\ back \in Seq(Sockets) /\ Distinct(back)
      /\ Members(back) = {ready[i] : i \in again}
  BY <1>2, <1>3, AtMembers
<1>7. again \subseteq told /\ told \subseteq still /\ still \subseteq 1..Len(ready)
  BY <1>2
<1>8. \A i \in still : Server!Readable(ready[i])
  OBVIOUS
<1>9. \A fd \in Members(ready) : Server!Readable(fd) => fd \in {ready[i] : i \in still}
  BY <1>2 DEF Members
<1>10. \A i \in told : ready[i] = listening_socket => i \in again
  BY DEF Server!Triggered
<1> HIDE DEF still, told, again, kept, back
<1>11. Members(kept) \cap Members(back) = {}
  BY <1>2, <1>5, <1>6, <1>7 DEF Distinct
<1>12. /\ ready' \in Seq(Sockets) /\ Distinct(ready')
       /\ Members(ready') = Members(kept) \cup Members(back)
  BY <1>1, <1>5, <1>6, <1>11, ConcatMembers
<1>13. ServerTypes' /\ Traffic' /\ Connected'
  BY <1>1, <1>4, <1>12 DEF ServerInv, ServerTypes, Traffic, Connected
<1>14. Lists'
  BY <1>4, <1>6, <1>10, <1>12 DEF Lists
<1>15. StillTrue'
  BY <1>1, <1>4, <1>7, <1>8 DEF StillTrue, Server!Readable
<1>16. \A fd \in Members(ready) :
         Server!Readable(fd) => fd \in Members(ready') \cup Members(events')
  BY <1>4, <1>5, <1>9, <1>12
<1>17. Members(events) = {}
  BY <1>1, NoMembers
<1>18. Edges'
  <2>1. ASSUME NEW c \in registered, inbox[c] > 0 PROVE c \in Members(ready') \cup Members(events')
    <3>1. c \in Members(ready) /\ c # listening_socket
      BY <1>17, <2>1, ServerConstants DEF ServerInv, ServerTypes, Edges
    <3> QED
      BY <1>16, <2>1, <3>1 DEF Server!Readable
  <2>2. ASSUME backlog # <<>> PROVE listening_socket \in Members(ready') \cup Members(events')
    BY <1>16, <1>17, <2>2 DEF ServerInv, Edges, Server!Readable
  <2> QED
    BY <1>1, <2>1, <2>2 DEF Edges
<1> QED
  BY <1>1, <1>13, <1>14, <1>15, <1>18 DEF ServerInv

\* An accepted connection that has something to read is put on the list.
LEMMA ServerAccept ==
  ASSUME ServerInv, Server!Accept
  PROVE  ServerInv'
<1> USE ServerConstants
<1>1. PICK c \in Clients : c = Head(backlog)
  BY HeadTailProperties DEF ServerInv, ServerTypes, Server!Accept
<1>2. /\ events # <<>> /\ Head(events) = listening_socket /\ events' = Tail(events)
      /\ backlog # <<>> /\ backlog' = Tail(backlog) /\ registered' = registered \cup {c}
      /\ ready' = IF inbox[c] > 0 THEN Server!Enqueue(ready, c) ELSE ready
      /\ UNCHANGED <<cpc, transit, inbox, failed>>
  BY <1>1 DEF Server!Accept, Server!clientVars, Server!Readable
<1>3. /\ events' \in Seq(Sockets) /\ Distinct(events')
      /\ listening_socket \in Members(events) /\ listening_socket \notin Members(events')
      /\ Members(events) = Members(events') \cup {listening_socket}
  BY <1>2, TailMembers DEF ServerInv, ServerTypes, Lists
<1>4. backlog' \in Seq(Clients) /\ Members(backlog) = Members(backlog') \cup {c}
  BY <1>1, <1>2, TailMembers DEF ServerInv, ServerTypes
<1>5. /\ ready' \in Seq(Sockets) /\ Distinct(ready')
      /\ Members(ready') = IF inbox[c] > 0 THEN Members(ready) \cup {c} ELSE Members(ready)
  <2>1. c \in Sockets
    BY DEF Sockets
  <2>2. ready \in Seq(Sockets) /\ Distinct(ready)
    BY DEF ServerInv, ServerTypes, Lists
  <2>3. /\ Server!Enqueue(ready, c) \in Seq(Sockets) /\ Distinct(Server!Enqueue(ready, c))
        /\ Members(Server!Enqueue(ready, c)) = Members(ready) \cup {c}
    BY <2>1, <2>2, EnqueueMembers
  <2> QED
    BY <1>2, <2>2, <2>3
<1>6. ServerTypes' /\ Traffic'
  BY <1>2, <1>3, <1>4, <1>5 DEF ServerInv, ServerTypes, Traffic
<1>7. Connected'
  BY <1>2, <1>4 DEF ServerInv, Connected
<1>8. Lists'
  BY <1>3, <1>5 DEF Lists
<1>9. StillTrue'
  <2> SUFFICES ASSUME NEW fd \in Members(events') PROVE Server!Readable(fd)'
    BY DEF StillTrue
  <2> QED
    BY <1>2, <1>3 DEF ServerInv, StillTrue, Server!Readable
<1>10. listening_socket \in Members(ready')
  BY <1>3, <1>5 DEF ServerInv, Lists
<1>11. Edges'
  <2> SUFFICES ASSUME NEW d \in registered', inbox[d] > 0
               PROVE  d \in Members(ready') \cup Members(events')
    BY <1>2, <1>10 DEF Edges
  <2>1. CASE d = c
    BY <1>5, <2>1
  <2>2. CASE d # c
    <3>1. d \in Members(ready) \cup Members(events) /\ d # listening_socket
      BY <1>2, <2>2 DEF ServerInv, ServerTypes, Edges
    <3> QED
      BY <1>3, <1>5, <3>1
  <2> QED
    BY <2>1, <2>2
<1> QED
  BY <1>2, <1>6, <1>7, <1>8, <1>9, <1>11 DEF ServerInv

\* A read takes all there is.
LEMMA ServerHandleRead ==
  ASSUME ServerInv, Server!HandleRead
  PROVE  ServerInv'
<1> USE ServerConstants
<1>1. events # <<>> /\ Head(events) # listening_socket /\ events' = Tail(events)
  BY DEF Server!HandleRead
<1>2. /\ events' \in Seq(Sockets) /\ Distinct(events')
      /\ Head(events) \in Members(events) /\ Head(events) \notin Members(events')
      /\ Members(events) = Members(events') \cup {Head(events)}
  BY <1>1, TailMembers DEF ServerInv, ServerTypes, Lists
<1>3. PICK c \in Clients : c = Head(events)
  BY <1>1, <1>2, MembersOf DEF ServerInv, ServerTypes, Sockets
<1>4. inbox[c] \in Nat /\ inbox[c] > 0 /\ inbox[c] <= BUFFER_SIZE
  <2>1. Server!Readable(c)
    BY <1>2, <1>3 DEF ServerInv, StillTrue
  <2>2. inbox[c] \in Nat /\ transit[c] \in Nat /\ transit[c] + inbox[c] <= Message
    BY DEF ServerInv, ServerTypes, Traffic
  <2> QED
    BY <1>1, <1>3, <2>1, <2>2 DEF Server!Readable
<1>5. Server!Received(c) = inbox[c]
  BY <1>4 DEF Server!Received, Server!Least
<1>6. /\ inbox' = [inbox EXCEPT ![c] = 0] /\ failed' = FALSE
      /\ UNCHANGED <<cpc, transit, backlog, ready, registered>>
  <2>1. inbox[c] - inbox[c] = 0 /\ inbox[c] # 0
    BY <1>4
  <2> QED
    BY <1>3, <1>5, <2>1 DEF Server!HandleRead
<1>7. /\ inbox' \in [Clients -> Nat] /\ inbox'[c] = 0
      /\ \A d \in Clients \ {c} : inbox'[d] = inbox[d]
  BY <1>6 DEF ServerInv, ServerTypes
<1>8. ServerTypes'
  BY <1>2, <1>6, <1>7 DEF ServerInv, ServerTypes
<1>9. Traffic'
  <2> SUFFICES ASSUME NEW d \in Clients
               PROVE  /\ transit[d] + inbox'[d] <= Message
                      /\ cpc[d] \in {"start", "connected"} => transit[d] = 0 /\ inbox'[d] = 0
    BY <1>6 DEF Traffic
  <2>1. transit[d] \in Nat /\ inbox[d] \in Nat
    BY DEF ServerInv, ServerTypes
  <2> QED
    BY <1>7, <2>1 DEF ServerInv, Traffic
<1>10. Connected'
  BY <1>6, <1>7 DEF ServerInv, Connected
<1>11. Lists'
  BY <1>2, <1>6 DEF ServerInv, Lists
<1>12. StillTrue'
  <2> SUFFICES ASSUME NEW fd \in Members(events') PROVE Server!Readable(fd)'
    BY DEF StillTrue
  <2>1. Server!Readable(fd) /\ fd \in Sockets /\ fd # c
    BY <1>2, <1>3, MembersOf DEF ServerInv, ServerTypes, StillTrue
  <2> QED
    BY <1>6, <1>7, <2>1 DEF Server!Readable, Sockets
<1>13. Edges'
  <2>1. ASSUME NEW d \in registered, inbox'[d] > 0 PROVE d \in Members(ready) \cup Members(events')
    <3>1. d \in Clients /\ d # c /\ inbox[d] > 0
      BY <1>7, <2>1 DEF ServerInv, ServerTypes
    <3> QED
      BY <1>2, <1>3, <3>1 DEF ServerInv, Edges
  <2>2. backlog # <<>> => listening_socket \in Members(ready) \cup Members(events')
    BY <1>1, <1>2 DEF ServerInv, Edges
  <2> QED
    BY <1>6, <2>1, <2>2 DEF Edges
<1> QED
  BY <1>6, <1>8, <1>9, <1>10, <1>11, <1>12, <1>13 DEF ServerInv

LEMMA ServerInductive == ServerInv /\ [Server!Next]_serverVars => ServerInv'
<1>1. ServerInv /\ UNCHANGED serverVars => ServerInv'
  BY DEF serverVars, ServerInv, ServerTypes, Traffic, Connected, Lists, StillTrue, Edges,
         Server!Readable
<1>2. UNCHANGED Server!vars => UNCHANGED serverVars
  BY DEF Server!vars, Server!clientVars, serverVars
<1> QED
  BY <1>1, <1>2, ServerConnect, ServerSend, ServerDeliver, ServerReceive, ServerEpollWait,
     ServerAccept, ServerHandleRead
     DEF Server!Next, Server!Client, Server!Server, Server!Quiet

LEMMA ServerHolds == ServerInv => ServerEvents
<1> SUFFICES ASSUME ServerInv PROVE ServerEvents
  OBVIOUS
<1>1. /\ backlog \in Seq(Clients) /\ ready \in Seq(Sockets) /\ events \in Seq(Sockets)
      /\ DOMAIN events = 1..Len(events)
  BY MembersOf DEF ServerInv, ServerTypes
<1>2. \A e : /\ Server!Contains(backlog, e) <=> e \in Members(backlog)
             /\ Server!Contains(ready, e) <=> e \in Members(ready)
             /\ Server!Contains(events, e) <=> e \in Members(events)
  BY <1>1, MembersOf
<1>3. Server!EventsTrue
  BY <1>1 DEF ServerInv, StillTrue, Server!EventsTrue, Members
<1>4. Server!NoEdgeLost
  BY <1>2 DEF ServerInv, Connected, Edges, Server!NoEdgeLost, Server!Noticed
<1> QED
  BY <1>3, <1>4 DEF ServerInv, ServerEvents, Server!AssertionsHold
-----------------------------------------------------------------------------
(* The tasks *)

\* Where the worker is with the mutex, and with a task.
WorkPlaces == {"check", "block", "drain", "execute", "lock", "return"}
RunPlaces == {"execute", "lock", "return"}

TaskTypes ==
  /\ t_pc["worker"] \in {"acquire", "sleep", "end"} \cup WorkPlaces
  /\ t_pc \in [Tasks!Threads -> {"acquire", "sleep", "emplace", "notify", "get", "end"}
                                  \cup WorkPlaces]
  /\ holder \in Tasks!Threads \cup {"free"}
  /\ vec \in Seq(Clients) /\ done \in Seq(Clients) /\ order \in Seq(Clients)
  /\ cur \in Seq(Clients)

\* One thread is inside and has the mutex.
Mutex ==
  /\ holder = "worker" <=> t_pc["worker"] \in WorkPlaces
  /\ \A c \in Clients : holder = c <=> t_pc[c] = "emplace"
  /\ \A c \in Clients : t_pc[c] \in {"lock", "emplace", "notify", "get", "end"}

\* The worker holds one task while it runs it, and none otherwise.
Running ==
  /\ cur # <<>> <=> t_pc["worker"] \in RunPlaces
  /\ cur # <<>> => Len(cur) = 1
  /\ t_pc["worker"] = "lock" => cur[1] \in nested

TaskInv == TaskTypes /\ Mutex /\ Running /\ Tasks!RunsInOrder

LEMMA TaskThreads ==
  /\ Tasks!Threads = Clients \cup {"worker"}
  /\ "worker" \notin Clients /\ "free" \notin Clients
  BY Constants DEF Tasks!Threads, Tasks!TypeEraseAssumption

LEMMA Regroup ==
  ASSUME NEW S, NEW a \in Seq(S), NEW b \in Seq(S), NEW c \in Seq(S), NEW d, d = b \o c
  PROVE  a \o b \o c = a \o d
  BY ConcatAssociative

LEMMA TaskStart == Tasks!Init \/ NoTasks => TaskInv
<1> SUFFICES ASSUME Tasks!Init \/ NoTasks PROVE TaskInv
  OBVIOUS
<1>1. /\ vec = <<>> /\ holder = "free" /\ cur = <<>> /\ done = <<>> /\ order = <<>>
      /\ \/ t_pc = [t \in Tasks!Threads |-> IF t = "worker" THEN "acquire" ELSE "lock"]
         \/ t_pc = [t \in Tasks!Threads |-> "end"]
  BY DEF Tasks!Init, NoTasks
<1>2. /\ t_pc["worker"] \in {"acquire", "end"} /\ \A c \in Clients : t_pc[c] \in {"lock", "end"}
      /\ t_pc \in [Tasks!Threads -> {"acquire", "lock", "end"}]
  BY <1>1, TaskThreads
<1>3. Tasks!RunsInOrder
  BY <1>1, ConcatEmptySeq, EmptySeq DEF Tasks!RunsInOrder
<1> QED
  BY <1>1, <1>2, <1>3, TaskThreads, EmptySeq
     DEF TaskInv, TaskTypes, Mutex, Running, WorkPlaces, RunPlaces

\* Submitting puts a task at the end of what has been submitted.
LEMMA TaskEmplace ==
  ASSUME TaskInv, NEW t \in Tasks!Threads, Tasks!Emplace(t)
  PROVE  TaskInv'
<1>1. t \in Clients
  BY TaskThreads DEF TaskInv, TaskTypes, Tasks!Emplace, Tasks!Goto, WorkPlaces
<1>2. /\ vec' \in Seq(Clients) /\ order' \in Seq(Clients)
      /\ vec' = vec \o <<t>> /\ order' = order \o <<t>> /\ <<t>> \in Seq(Clients)
  BY <1>1, AppendProperties DEF TaskInv, TaskTypes, Tasks!Emplace
<1>3. done \o cur \in Seq(Clients)
  BY ConcatProperties DEF TaskInv, TaskTypes
<1>4. (done \o cur) \o (vec \o <<t>>) = ((done \o cur) \o vec) \o <<t>>
  <2>1. vec \in Seq(Clients) /\ <<t>> \in Seq(Clients)
    BY <1>2 DEF TaskInv, TaskTypes
  <2> DEFINE ran == done \o cur
             new == <<t>>
  <2>2. ran \in Seq(Clients) /\ new \in Seq(Clients)
    BY <1>3, <2>1
  <2> HIDE DEF ran, new
  <2>3. ran \o (vec \o new) = (ran \o vec) \o new
    BY <2>1, <2>2, ConcatAssociative
  <2> QED
    BY <2>3 DEF ran, new
<1>5. Tasks!RunsInOrder'
  BY <1>2, <1>4 DEF TaskInv, Tasks!RunsInOrder, Tasks!Emplace
<1>6. /\ t_pc'[t] = "notify" /\ t_pc[t] = "emplace"
      /\ t_pc' = [t_pc EXCEPT ![t] = "notify"]
      /\ \A u \in Tasks!Threads \ {t} : t_pc'[u] = t_pc[u]
      /\ holder' = "free" /\ UNCHANGED <<cur, nested, done>>
  BY DEF TaskInv, TaskTypes, Tasks!Emplace, Tasks!Goto, Tasks!Give
<1>7. holder = t
  BY <1>1, <1>6 DEF TaskInv, Mutex
<1>8. TaskTypes'
  BY <1>1, <1>2, <1>6, TaskThreads DEF TaskInv, TaskTypes
<1>9. Mutex' /\ Running'
  BY <1>1, <1>6, <1>7, TaskThreads DEF TaskInv, Mutex, Running
<1> QED
  BY <1>5, <1>8, <1>9 DEF TaskInv

\* Taking the mutex, and what leaves it alone.
LEMMA TaskControl ==
  ASSUME TaskInv, NEW t \in Tasks!Threads,
         Tasks!Lock(t) \/ Tasks!Notify(t) \/ (t \in Clients /\ Tasks!Get(t))
  PROVE  TaskInv'
<1>1. UNCHANGED <<vec, cur, nested, done, order>>
  BY DEF Tasks!Lock, Tasks!Notify, Tasks!Get
<1>2. Tasks!RunsInOrder'
  BY <1>1 DEF TaskInv, Tasks!RunsInOrder
<1>3. CASE Tasks!Lock(t)
  <2>1. t \in Clients
    BY <1>3, TaskThreads DEF TaskInv, Mutex, WorkPlaces, Tasks!Lock, Tasks!Goto, Tasks!Take
  <2>2. /\ t_pc' = [t_pc EXCEPT ![t] = "emplace"] /\ holder = "free" /\ holder' = t
        /\ t_pc'[t] = "emplace" /\ \A u \in Tasks!Threads \ {t} : t_pc'[u] = t_pc[u]
    BY <1>3 DEF TaskInv, TaskTypes, Tasks!Lock, Tasks!Goto, Tasks!Take
  <2>3. TaskTypes'
    BY <1>1, <2>1, <2>2, TaskThreads DEF TaskInv, TaskTypes
  <2>4. Mutex' /\ Running'
    BY <1>1, <2>1, <2>2, TaskThreads DEF TaskInv, Mutex, Running
  <2> QED
    BY <1>2, <2>3, <2>4 DEF TaskInv
<1>4. CASE Tasks!Notify(t)
  <2>1. t \in Clients
    BY <1>4, TaskThreads DEF TaskInv, TaskTypes, WorkPlaces, Tasks!Notify
  <2>2. /\ t_pc[t] = "notify" /\ t_pc'[t] = "get" /\ UNCHANGED holder
        /\ t_pc'["worker"] = IF t_pc["worker"] = "sleep" THEN "acquire" ELSE t_pc["worker"]
        /\ \A c \in Clients \ {t} : t_pc'[c] = t_pc[c]
        /\ t_pc' \in [Tasks!Threads -> {"acquire", "sleep", "emplace", "notify", "get", "end"}
                                          \cup WorkPlaces]
    BY <1>4, <2>1, TaskThreads DEF TaskInv, TaskTypes, Mutex, Tasks!Notify
  <2>3. TaskTypes'
    BY <1>1, <2>1, <2>2, TaskThreads DEF TaskInv, TaskTypes
  <2>4. Mutex' /\ Running'
    BY <1>1, <2>1, <2>2, TaskThreads DEF TaskInv, Mutex, Running, WorkPlaces, RunPlaces
  <2> QED
    BY <1>2, <2>3, <2>4 DEF TaskInv
<1>5. CASE t \in Clients /\ Tasks!Get(t)
  <2>1. /\ t_pc[t] = "get" /\ t_pc' = [t_pc EXCEPT ![t] = "end"] /\ UNCHANGED holder
        /\ t_pc'[t] = "end" /\ \A u \in Tasks!Threads \ {t} : t_pc'[u] = t_pc[u]
    BY <1>5 DEF TaskInv, TaskTypes, Tasks!Get, Tasks!Goto
  <2>2. TaskTypes'
    BY <1>1, <1>5, <2>1, TaskThreads DEF TaskInv, TaskTypes
  <2>3. Mutex' /\ Running'
    BY <1>1, <1>5, <2>1, TaskThreads DEF TaskInv, Mutex, Running
  <2> QED
    BY <1>2, <2>2, <2>3 DEF TaskInv
<1> QED
  BY <1>3, <1>4, <1>5

LEMMA TaskWorker ==
  ASSUME TaskInv, Tasks!Worker \/ Tasks!WakeSpuriously
  PROVE  TaskInv'
<1> USE DEF Tasks!Work, Tasks!Goto, Tasks!Take, Tasks!Give
<1>1. /\ t_pc' = [t_pc EXCEPT !["worker"] = t_pc'["worker"]]
      /\ \A c \in Clients : t_pc'[c] = t_pc[c]
      /\ UNCHANGED <<nested, order>>
  BY TaskThreads DEF TaskInv, TaskTypes, Tasks!Worker, Tasks!WakeSpuriously, Tasks!Acquire,
     Tasks!Check, Tasks!Block, Tasks!PopFront, Tasks!Execute, Tasks!Return, Tasks!Unlock
<1>2. ASSUME t_pc'["worker"] \in {"acquire", "sleep", "end"} \cup WorkPlaces
      PROVE  t_pc' \in [Tasks!Threads -> {"acquire", "sleep", "emplace", "notify", "get", "end"}
                                            \cup WorkPlaces]
  BY <1>1, <1>2 DEF TaskInv, TaskTypes
<1>3. CASE \/ Tasks!Acquire \/ Tasks!Check \/ Tasks!Block \/ Tasks!Execute \/ Tasks!Unlock
           \/ Tasks!WakeSpuriously
  <2>1. UNCHANGED <<vec, cur, done>>
    BY <1>3 DEF Tasks!Acquire, Tasks!Check, Tasks!Block, Tasks!Execute, Tasks!Unlock,
       Tasks!WakeSpuriously
  <2>2. t_pc'["worker"] \in {"acquire", "sleep", "end"} \cup WorkPlaces
    BY <1>3, TaskThreads DEF TaskInv, TaskTypes, Tasks!Acquire, Tasks!Check, Tasks!Block,
       Tasks!Execute, Tasks!Unlock, Tasks!WakeSpuriously, WorkPlaces
  <2>3. holder' \in Tasks!Threads \cup {"free"}
    BY <1>3, TaskThreads DEF TaskInv, TaskTypes, Tasks!Acquire, Tasks!Check, Tasks!Block,
       Tasks!Execute, Tasks!Unlock, Tasks!WakeSpuriously
  <2>4. TaskTypes'
    BY <1>1, <1>2, <2>1, <2>2, <2>3 DEF TaskInv, TaskTypes
  <2>5. Mutex'
    BY <1>1, <1>3, TaskThreads DEF TaskInv, TaskTypes, Mutex, Tasks!Acquire, Tasks!Check,
       Tasks!Block, Tasks!Execute, Tasks!Unlock, Tasks!WakeSpuriously, WorkPlaces
  <2>6. Running'
    BY <1>1, <1>3, <2>1, TaskThreads DEF TaskInv, TaskTypes, Running, Tasks!Acquire,
       Tasks!Check, Tasks!Block, Tasks!Execute, Tasks!Unlock, Tasks!WakeSpuriously, RunPlaces
  <2> QED
    BY <1>1, <2>1, <2>4, <2>5, <2>6 DEF TaskInv, Tasks!RunsInOrder
<1>4. CASE Tasks!PopFront
  <2>1. /\ t_pc["worker"] = "drain" /\ t_pc'["worker"] = "execute" /\ vec # <<>>
        /\ cur' = <<Head(vec)>> /\ vec' = Tail(vec) /\ UNCHANGED <<holder, done>>
    BY <1>4, TaskThreads DEF TaskInv, TaskTypes, Tasks!PopFront
  <2>2. cur = <<>>
    BY <2>1 DEF TaskInv, Running, RunPlaces
  <2>3. /\ Head(vec) \in Clients /\ vec' \in Seq(Clients) /\ cur' \in Seq(Clients)
        /\ Len(cur') = 1 /\ cur' # <<>> /\ vec = cur' \o vec'
    BY <2>1 DEF TaskInv, TaskTypes
  <2>4. done \o cur' \o vec' = done \o vec
    <3>1. done \in Seq(Clients)
      BY DEF TaskInv, TaskTypes
    <3> QED
      BY <2>3, <3>1, Regroup
  <2>5. done \o cur \o vec = done \o vec
    BY <2>2, ConcatEmptySeq DEF TaskInv, TaskTypes
  <2>6. Tasks!RunsInOrder'
    BY <1>1, <2>1, <2>4, <2>5 DEF TaskInv, Tasks!RunsInOrder
  <2>7. TaskTypes'
    BY <1>1, <1>2, <2>1, <2>3 DEF TaskInv, TaskTypes, WorkPlaces
  <2>8. Mutex' /\ Running'
    BY <1>1, <2>1, <2>3 DEF TaskInv, Mutex, Running, WorkPlaces, RunPlaces
  <2> QED
    BY <2>6, <2>7, <2>8 DEF TaskInv
<1>5. CASE Tasks!Return
  <2>1. /\ t_pc["worker"] = "return" /\ t_pc'["worker"] = "drain"
        /\ cur' = <<>> /\ done' = done \o cur /\ UNCHANGED <<vec, holder>>
    BY <1>5, TaskThreads DEF TaskInv, TaskTypes, Tasks!Return
  <2>2. done' \in Seq(Clients) /\ cur' \in Seq(Clients)
    BY <2>1, ConcatProperties, EmptySeq DEF TaskInv, TaskTypes
  <2>3. done' \o cur' = done'
    BY <2>1, <2>2, ConcatEmptySeq
  <2>4. Tasks!RunsInOrder'
    BY <1>1, <2>1, <2>3 DEF TaskInv, Tasks!RunsInOrder
  <2>5. TaskTypes'
    BY <1>1, <1>2, <2>1, <2>2 DEF TaskInv, TaskTypes, WorkPlaces
  <2>6. Mutex' /\ Running'
    BY <1>1, <2>1 DEF TaskInv, Mutex, Running, WorkPlaces, RunPlaces
  <2> QED
    BY <2>4, <2>5, <2>6 DEF TaskInv
<1> QED
  BY <1>3, <1>4, <1>5 DEF Tasks!Worker

LEMMA TaskInductive == TaskInv /\ [Tasks!Next]_taskVars => TaskInv'
<1>1. TaskInv /\ UNCHANGED taskVars => TaskInv'
  BY DEF taskVars, TaskInv, TaskTypes, Mutex, Running, Tasks!RunsInOrder
<1>2. UNCHANGED Tasks!vars => UNCHANGED taskVars
  BY DEF Tasks!vars, taskVars
<1>3. ASSUME TaskInv, NEW t \in Tasks!Threads, Tasks!Submit(t) PROVE TaskInv'
  BY <1>3, TaskEmplace, TaskControl DEF Tasks!Submit
<1>4. ASSUME TaskInv, NEW c \in Clients, Tasks!Get(c) PROVE TaskInv'
  BY <1>4, TaskControl, TaskThreads
<1>5. TaskInv /\ (Tasks!Worker \/ Tasks!WakeSpuriously) => TaskInv'
  BY TaskWorker
<1> QED
  BY <1>1, <1>2, <1>3, <1>4, <1>5 DEF Tasks!Next, Tasks!Quiet

LEMMA TaskHolds == TaskInv => Tasks!Guarded /\ Tasks!RunsInOrder /\ Tasks!HangsInNested
<1> SUFFICES ASSUME TaskInv PROVE Tasks!Guarded /\ Tasks!HangsInNested
  BY DEF TaskInv
<1>1. Tasks!Guarded
  BY TaskThreads DEF TaskInv, TaskTypes, Mutex, Tasks!Guarded, Tasks!Inside, WorkPlaces
<1>2. Tasks!HangsInNested
  BY DEF TaskInv, Running, RunPlaces, Tasks!HangsInNested, Tasks!Hangs
<1> QED
  BY <1>1, <1>2

\* The worker waits for the mutex that it holds.
LEMMA TaskHangs ==
  TaskInv /\ [Tasks!Next]_taskVars => [Tasks!Hangs => Tasks!Hangs']_(Tasks!vars)
<1> SUFFICES ASSUME TaskInv, Tasks!Next, Tasks!Hangs PROVE Tasks!Hangs'
  BY DEF Tasks!vars, taskVars, Tasks!Hangs
<1>1. t_pc["worker"] = "lock" /\ holder = "worker"
  BY DEF TaskInv, Mutex, WorkPlaces, Tasks!Hangs
<1>2. ASSUME NEW t \in Tasks!Threads, Tasks!Submit(t) PROVE t_pc'["worker"] = "lock"
  BY <1>1, <1>2, TaskThreads DEF TaskInv, TaskTypes, Tasks!Submit, Tasks!Lock, Tasks!Emplace,
     Tasks!Notify, Tasks!Goto, Tasks!Take
<1>3. ASSUME NEW c \in Clients, Tasks!Get(c) PROVE t_pc'["worker"] = "lock"
  BY <1>1, <1>3, TaskThreads DEF TaskInv, TaskTypes, Tasks!Get, Tasks!Goto
<1>4. ~ Tasks!Worker /\ ~ Tasks!WakeSpuriously
  BY <1>1 DEF Tasks!Worker, Tasks!WakeSpuriously, Tasks!Acquire, Tasks!Check, Tasks!Block,
     Tasks!PopFront, Tasks!Execute, Tasks!Return, Tasks!Unlock, Tasks!Work, Tasks!Goto
<1>5. CASE Tasks!Quiet
  BY <1>1, <1>5 DEF Tasks!Quiet, Tasks!vars, Tasks!Hangs
<1> QED
  BY <1>2, <1>3, <1>4, <1>5 DEF Tasks!Next, Tasks!Hangs
-----------------------------------------------------------------------------
(* The printers *)

\* What the round shows after h H and o O: between two rounds nothing, or the
\* whole of the one before.
Between ==
  \/ printed["H"] = 0 /\ printed["O"] = 0
  \/ printed["H"] = 2 /\ printed["O"] = 1

Shows(h, o) ==
  /\ printed \in [Water!Atoms -> 0..2]
  /\ IF h + o \in {0, 3} THEN Between ELSE printed["H"] = h /\ printed["O"] = o

One(test) == IF test THEN 1 ELSE 0

\* condition_variable_ver(): one thread has the mutex, and what is printed is
\* what is counted, but for the character of a thread that is to count it.
MutexPlaces == {"check", "block", "put", "count", "notify"}

CvInv ==
  /\ pc \in [Water!Atoms -> {"lock", "sleep"} \cup MutexPlaces]
  /\ ~ (pc["H"] \in MutexPlaces /\ pc["O"] \in MutexPlaces)
  /\ mtx <=> (pc["H"] \in MutexPlaces \/ pc["O"] \in MutexPlaces)
  /\ cnt \in [Water!Atoms -> 0..2] /\ cnt["O"] <= 1 /\ ~ (cnt["H"] = 2 /\ cnt["O"] = 1)
  /\ \A t \in Water!Atoms : pc[t] \in {"put", "count"} => cnt[t] < Water!Quota[t]
  /\ Shows(cnt["H"] + One(pc["H"] = "count"), cnt["O"] + One(pc["O"] = "count"))

\* atomic_variable_ver(): the word counts those who may print, print_cnt those
\* who have, and a reset finds all three done.
Words == {0, 1, 2, 4, 5, 6}
Pending == {"print", "add"}

HCount == Water!Field("H", word)
OCount == Water!Field("O", word)

AtomicPlaces ==
  /\ pc \in [Water!Atoms -> {"load", "test", "cas", "print", "add", "final", "reset", "release"}]
  /\ pc["H"] \notin {"final", "reset", "release"}

AtomicCounts ==
  /\ word \in Words /\ print_cnt \in Nat
  /\ pc["H"] \in Pending => HCount > 0
  /\ pc["O"] \in Pending => OCount > 0
  /\ IF pc["O"] = "release" THEN word = 6 /\ print_cnt = 0 /\ pc["H"] \notin Pending
     ELSE print_cnt = HCount + OCount - One(pc["H"] \in Pending) - One(pc["O"] \in Pending)
  /\ pc["O"] = "reset" => print_cnt = 3

AtomicShadows ==
  /\ shadow \in [Water!Atoms -> Words]
  /\ \A t \in Water!Atoms : pc[t] = "cas" => Water!Field(t, shadow[t]) < Water!Quota[t]

AtomicInv ==
  /\ AtomicPlaces /\ AtomicCounts /\ AtomicShadows
  /\ Shows(HCount - One(pc["H"] = "print"), OCount - One(pc["O"] = "print"))

IdleInv == pc = [t \in Water!Atoms |-> "none"] /\ Shows(0, 0)

WaterInv ==
  \/ version = "condition_variable" /\ CvInv
  \/ version = "atomic_variable" /\ AtomicInv
  \/ version = "none" /\ IdleInv

LEMMA FieldValues ==
  /\ Water!Field("H", 0) = 0 /\ Water!Field("O", 0) = 0
  /\ Water!Field("H", 1) = 1 /\ Water!Field("O", 1) = 0
  /\ Water!Field("H", 2) = 2 /\ Water!Field("O", 2) = 0
  /\ Water!Field("H", 4) = 0 /\ Water!Field("O", 4) = 1
  /\ Water!Field("H", 5) = 1 /\ Water!Field("O", 5) = 1
  /\ Water!Field("H", 6) = 2 /\ Water!Field("O", 6) = 1
  BY DEF Water!Field

LEMMA Quotas == Water!Quota["H"] = 2 /\ Water!Quota["O"] = 1 /\ Water!Atoms = {"H", "O"}
  BY DEF Water!Quota, Water!Atoms

\* Every word is a pair of counts.
LEMMA WordPairs ==
  ASSUME NEW w \in Words
  PROVE  /\ Water!Field("H", w) \in 0..2 /\ Water!Field("O", w) \in 0..1
         /\ w = Water!Field("H", w) + 4 * Water!Field("O", w)
  BY FieldValues DEF Words

LEMMA PairWords ==
  ASSUME NEW h \in 0..2, NEW o \in 0..1
  PROVE  /\ h + 4 * o \in Words
         /\ Water!Field("H", h + 4 * o) = h /\ Water!Field("O", h + 4 * o) = o
<1>1. h \in {0, 1, 2} /\ o \in {0, 1}
  OBVIOUS
<1>2. CASE o = 0
  BY <1>1, <1>2, FieldValues DEF Words
<1>3. CASE o = 1
  BY <1>1, <1>3, FieldValues DEF Words
<1> QED
  BY <1>1, <1>2, <1>3

\* A thread that may print adds to what is printed of its round.
LEMMA Begun ==
  ASSUME NEW h \in 0..2, NEW o \in 0..1, Shows(h, o), h + o # 3
  PROVE  LET round == IF printed["H"] + printed["O"] = 3 THEN Water!Nothing ELSE printed
         IN  /\ round \in [Water!Atoms -> 0..2]
             /\ round["H"] = h /\ round["O"] = o
BY Quotas DEF Shows, Between, Water!Nothing

LEMMA EmitH ==
  ASSUME NEW h \in 0..1, NEW o \in 0..1, Shows(h, o), Water!Emit("H")
  PROVE  Shows(h + 1, o)'
<1>1. PICK round \in [Water!Atoms -> 0..2] :
        /\ round["H"] = h /\ round["O"] = o
        /\ printed' = [round EXCEPT !["H"] = @ + 1]
  BY Begun DEF Water!Emit
<1>2. printed'["H"] = h + 1 /\ printed'["O"] = o /\ printed' \in [Water!Atoms -> 0..2]
  BY <1>1, Quotas
<1>3. h + 1 + o = 3 => h + 1 = 2 /\ o = 1
  OBVIOUS
<1> QED
  BY <1>2, <1>3 DEF Shows, Between

LEMMA EmitO ==
  ASSUME NEW h \in 0..2, Shows(h, 0), Water!Emit("O")
  PROVE  Shows(h, 1)'
<1>1. PICK round \in [Water!Atoms -> 0..2] :
        /\ round["H"] = h /\ round["O"] = 0
        /\ printed' = [round EXCEPT !["O"] = @ + 1]
  BY Begun DEF Water!Emit
<1>2. printed'["H"] = h /\ printed'["O"] = 1 /\ printed' \in [Water!Atoms -> 0..2]
  BY <1>1, Quotas
<1>3. h + 1 = 3 => h = 2
  OBVIOUS
<1> QED
  BY <1>2, <1>3 DEF Shows, Between

LEMMA WaterStart == Water!Init \/ NoWater => WaterInv
<1> USE Quotas DEF Shows, Between, One, Water!Nothing
<1>1. CASE NoWater
  BY <1>1 DEF NoWater, WaterInv, IdleInv
<1>2. CASE Water!Init /\ version = "condition_variable"
  <2>1. /\ pc = [t \in Water!Atoms |-> "lock"] /\ mtx = FALSE
        /\ cnt = [t \in Water!Atoms |-> 0] /\ printed = [t \in Water!Atoms |-> 0]
    BY <1>2 DEF Water!Init
  <2>2. /\ pc["H"] = "lock" /\ pc["O"] = "lock" /\ cnt["H"] = 0 /\ cnt["O"] = 0
        /\ printed["H"] = 0 /\ printed["O"] = 0
        /\ pc \in [Water!Atoms -> {"lock", "sleep"} \cup MutexPlaces]
        /\ cnt \in [Water!Atoms -> 0..2] /\ printed \in [Water!Atoms -> 0..2]
    BY <2>1
  <2>3. pc["H"] \notin MutexPlaces /\ pc["O"] \notin MutexPlaces
    BY <2>2 DEF MutexPlaces
  <2>4. Shows(cnt["H"] + One(pc["H"] = "count"), cnt["O"] + One(pc["O"] = "count"))
    BY <2>2
  <2>5. \A t \in Water!Atoms : pc[t] \notin {"put", "count"}
    BY <2>2
  <2>6. CvInv
    BY <2>1, <2>2, <2>3, <2>4, <2>5 DEF CvInv
  <2> QED
    BY <1>2, <2>6 DEF WaterInv
<1>3. CASE Water!Init /\ version = "atomic_variable"
  BY <1>3, FieldValues DEF Water!Init, WaterInv, AtomicInv, AtomicPlaces, AtomicCounts,
     AtomicShadows, HCount, OCount, Words, Pending
<1> QED
  BY <1>1, <1>2, <1>3 DEF Water!Init

(* The first version *)

LEMMA CvStep ==
  ASSUME CvInv, NEW t \in Water!Atoms,
         Water!CvThread(t) \/ Water!WakeSpuriously(t)
  PROVE  CvInv'
<1> USE Quotas
<1> DEFINE shown == Shows(cnt["H"] + One(pc["H"] = "count"), cnt["O"] + One(pc["O"] = "count"))
<1>0. ASSUME UNCHANGED <<cnt, printed>>,
             \A u \in Water!Atoms : pc'[u] = "count" <=> pc[u] = "count"
      PROVE  shown'
  BY <1>0 DEF CvInv, Shows, Between, One
<1> HIDE DEF shown
<1> USE DEF MutexPlaces
<1>3. CASE Water!Lock(t)
  <2>1. /\ pc[t] = "lock" /\ pc' = [pc EXCEPT ![t] = "check"]
        /\ ~ mtx /\ mtx' = TRUE /\ UNCHANGED <<cnt, printed>>
    BY <1>3 DEF Water!Lock, Water!Goto, Water!cvVars, Water!atomicVars
  <2>2. shown'
    BY <1>0, <2>1 DEF CvInv
  <2> QED
    BY <2>1, <2>2 DEF CvInv, shown
<1>4. CASE Water!Check(t)
  <2>1. /\ pc[t] = "check" /\ pc' = [pc EXCEPT ![t] =
                             IF cnt[t] < Water!Quota[t] THEN "put" ELSE "block"]
        /\ mtx' = mtx /\ UNCHANGED <<cnt, printed>>
    BY <1>4 DEF Water!Check, Water!Goto, Water!cvVars, Water!atomicVars, Water!MayPrint
  <2>2. shown'
    BY <1>0, <2>1 DEF CvInv
  <2> QED
    BY <2>1, <2>2 DEF CvInv, shown
<1>5. CASE Water!Block(t)
  <2>1. /\ pc[t] = "block" /\ pc' = [pc EXCEPT ![t] = "sleep"]
        /\ mtx' = FALSE /\ UNCHANGED <<cnt, printed>>
    BY <1>5 DEF Water!Block, Water!Goto, Water!cvVars, Water!atomicVars
  <2>2. shown'
    BY <1>0, <2>1 DEF CvInv
  <2> QED
    BY <2>1, <2>2 DEF CvInv, shown
<1>6. CASE Water!WakeSpuriously(t)
  <2>1. /\ pc[t] = "sleep" /\ pc' = [pc EXCEPT ![t] = "lock"]
        /\ mtx' = mtx /\ UNCHANGED <<cnt, printed>>
    BY <1>6 DEF Water!WakeSpuriously, Water!Goto, Water!cvVars, Water!atomicVars
  <2>2. shown'
    BY <1>0, <2>1 DEF CvInv
  <2> QED
    BY <2>1, <2>2 DEF CvInv, shown
<1>7. CASE Water!Notify(t)
  <2>1. /\ pc[t] = "notify" /\ mtx' = FALSE /\ UNCHANGED <<cnt, printed>>
        /\ pc' = [u \in Water!Atoms |-> IF u = t \/ pc[u] = "sleep" THEN "lock" ELSE pc[u]]
    BY <1>7 DEF Water!Notify, Water!atomicVars
  <2>2. shown'
    BY <1>0, <2>1 DEF CvInv
  <2> QED
    BY <2>1, <2>2 DEF CvInv, shown
<1>1. CASE Water!Put(t)
  <2>1. /\ pc[t] = "put" /\ pc' = [pc EXCEPT ![t] = "count"] /\ Water!Emit(t)
        /\ UNCHANGED <<mtx, cnt>>
    BY <1>1 DEF Water!Put, Water!Goto, Water!cvVars
  <2>2. CASE t = "H"
    <3>1. cnt["H"] \in 0..1 /\ cnt["O"] \in 0..1 /\ pc["O"] # "count"
      BY <2>1, <2>2 DEF CvInv, MutexPlaces
    <3>2. Shows(cnt["H"], cnt["O"])
      BY <2>1, <2>2, <3>1 DEF CvInv, One
    <3>3. Shows(cnt["H"] + 1, cnt["O"])'
      BY <2>1, <2>2, <3>1, <3>2, EmitH
    <3> QED
      BY <2>1, <2>2, <3>1, <3>3 DEF CvInv, MutexPlaces, One
  <2>3. CASE t = "O"
    <3>1. cnt["H"] \in 0..2 /\ cnt["O"] = 0 /\ pc["H"] # "count"
      BY <2>1, <2>3 DEF CvInv, MutexPlaces
    <3>2. Shows(cnt["H"], 0)
      BY <2>1, <2>3, <3>1 DEF CvInv, One
    <3>3. Shows(cnt["H"], 1)'
      BY <2>1, <2>3, <3>1, <3>2, EmitO
    <3> QED
      BY <2>1, <2>3, <3>1, <3>3 DEF CvInv, MutexPlaces, One
  <2> QED
    BY <2>2, <2>3
<1>2. CASE Water!Count(t)
  <2>1. /\ pc[t] = "count" /\ pc' = [pc EXCEPT ![t] = "notify"] /\ UNCHANGED <<mtx, printed>>
    BY <1>2 DEF Water!Count, Water!Goto
  <2>2. PICK counted \in [Water!Atoms -> 0..2] :
          /\ counted[t] = cnt[t] + 1 /\ \A u \in Water!Atoms \ {t} : counted[u] = cnt[u]
          /\ cnt' = IF counted = Water!Quota THEN Water!Nothing ELSE counted
    <3>1. [cnt EXCEPT ![t] = @ + 1] \in [Water!Atoms -> 0..2]
      BY <2>1 DEF CvInv
    <3> QED
      BY <1>2, <3>1 DEF Water!Count, CvInv
  <2>3. counted = Water!Quota <=> counted["H"] = 2 /\ counted["O"] = 1
    <3>1. Water!Quota = [u \in Water!Atoms |-> IF u = "H" THEN 2 ELSE 1]
      BY DEF Water!Quota
    <3> QED
      BY <3>1
  <2>4. Shows(counted["H"], counted["O"])
    BY <2>1, <2>2 DEF CvInv, MutexPlaces, One
  <2>5. counted["O"] <= 1
    BY <2>1, <2>2 DEF CvInv
  <2>6. /\ cnt' \in [Water!Atoms -> 0..2] /\ cnt'["O"] <= 1 /\ ~ (cnt'["H"] = 2 /\ cnt'["O"] = 1)
        /\ Shows(cnt'["H"], cnt'["O"])
    <3>1. CASE counted = Water!Quota
      BY <2>2, <2>3, <2>4, <3>1 DEF Shows, Between, Water!Nothing
    <3>2. CASE counted # Water!Quota
      BY <2>2, <2>3, <2>4, <2>5, <3>2
    <3> QED
      BY <3>1, <3>2
  <2>7. \A u \in Water!Atoms : pc'[u] \notin {"put", "count"}
    BY <2>1 DEF CvInv, MutexPlaces
  <2>8. PICK h \in 0..2, o \in 0..2 : h = cnt'["H"] /\ o = cnt'["O"]
    BY <2>6
  <2>9. Shows(h, o)'
    BY <2>1, <2>6, <2>8 DEF Shows, Between
  <2>10. Shows(cnt["H"] + One(pc["H"] = "count"), cnt["O"] + One(pc["O"] = "count"))'
    <3>1. One(pc["H"] = "count")' = 0 /\ One(pc["O"] = "count")' = 0
      BY <2>7 DEF One
    <3>2. /\ (cnt["H"] + One(pc["H"] = "count"))' = h
          /\ (cnt["O"] + One(pc["O"] = "count"))' = o
      BY <2>8, <3>1
    <3> QED
      BY <2>9, <3>2 DEF Shows, Between
  <2>11. /\ pc' \in [Water!Atoms -> {"lock", "sleep"} \cup MutexPlaces]
         /\ ~ (pc'["H"] \in MutexPlaces /\ pc'["O"] \in MutexPlaces)
         /\ mtx' <=> (pc'["H"] \in MutexPlaces \/ pc'["O"] \in MutexPlaces)
    BY <2>1 DEF CvInv, MutexPlaces
  <2> QED
    BY <2>6, <2>7, <2>10, <2>11 DEF CvInv
<1> QED
  BY <1>1, <1>2, <1>3, <1>4, <1>5, <1>6, <1>7 DEF Water!CvThread

(* The second version *)

LEMMA AtomicControl ==
  ASSUME AtomicInv, NEW t \in Water!Atoms, Water!Load(t) \/ Water!Test(t) \/ Water!Final(t)
  PROVE  AtomicInv'
<1> USE Quotas
<1>1. UNCHANGED <<word, print_cnt, printed>>
  BY DEF Water!Load, Water!Test, Water!Final, Water!cvVars, Water!atomicVars
<1>2. UNCHANGED <<HCount, OCount>>
  BY <1>1 DEF HCount, OCount, Water!Field
<1>3. /\ pc[t] \notin Pending \cup {"reset", "release"} /\ pc'[t] \notin Pending \cup {"release"}
      /\ \A u \in Water!Atoms \ {t} : pc'[u] = pc[u]
      /\ pc' \in [Water!Atoms ->
                  {"load", "test", "cas", "print", "add", "final", "reset", "release"}]
      /\ pc'["H"] \notin {"final", "reset", "release"}
      /\ pc'[t] = "reset" => t = "O" /\ print_cnt = 3
  BY DEF Water!Load, Water!Test, Water!Final, Water!Goto, Water!RoundOver, AtomicInv,
     AtomicPlaces, Pending
<1>4. AtomicPlaces'
  BY <1>3 DEF AtomicPlaces
<1>5. AtomicCounts'
  BY <1>1, <1>2, <1>3 DEF AtomicInv, AtomicCounts, AtomicPlaces, One, Pending
<1>6. AtomicShadows'
  <2>1. CASE Water!Load(t)
    BY <1>3, <2>1 DEF Water!Load, Water!Goto, AtomicInv, AtomicPlaces, AtomicCounts, AtomicShadows
  <2>2. CASE Water!Test(t)
    <3>1. /\ shadow' = shadow /\ pc[t] = "test"
          /\ pc'[t] = "cas" => Water!Field(t, shadow[t]) # Water!Quota[t]
      BY <2>2 DEF Water!Test, Water!Goto, Water!atomicVars, AtomicInv, AtomicPlaces
    <3>2. Water!Field(t, shadow[t]) \in 0..Water!Quota[t]
      BY WordPairs DEF AtomicInv, AtomicShadows
    <3> QED
      BY <1>3, <3>1, <3>2 DEF AtomicInv, AtomicShadows
  <2>3. CASE Water!Final(t)
    <3>1. shadow' = shadow /\ pc'[t] # "cas"
      BY <2>3 DEF Water!Final, Water!Goto, Water!atomicVars, AtomicInv, AtomicPlaces
    <3> QED
      BY <1>3, <3>1 DEF AtomicInv, AtomicShadows
  <2> QED
    BY <2>1, <2>2, <2>3
<1>7. Shows(HCount - One(pc["H"] = "print"), OCount - One(pc["O"] = "print"))'
  BY <1>1, <1>2, <1>3 DEF AtomicInv, AtomicPlaces, Shows, Between, One, Pending
<1> QED
  BY <1>4, <1>5, <1>6, <1>7 DEF AtomicInv

\* A thread that may print counts itself, whatever has become of the word in
\* between.
LEMMA AtomicCas ==
  ASSUME AtomicInv, NEW t \in Water!Atoms, Water!Cas(t)
  PROVE  AtomicInv'
<1> USE Quotas
<1>1. /\ word = shadow[t] /\ pc[t] = "cas" /\ pc' = [pc EXCEPT ![t] = "print"]
      /\ word' = IF t = "H" THEN word + 1 ELSE word + 4
      /\ UNCHANGED <<print_cnt, shadow, printed>>
  BY DEF Water!Cas, Water!Goto
<1>2. /\ word \in Words /\ HCount \in 0..2 /\ OCount \in 0..1 /\ word = HCount + 4 * OCount
      /\ Water!Field(t, word) < Water!Quota[t]
  BY <1>1, WordPairs DEF AtomicInv, AtomicCounts, AtomicShadows, HCount, OCount
<1>3. word # 6
  BY <1>2, FieldValues
<1>4. /\ word' \in Words
      /\ HCount' = IF t = "H" THEN HCount + 1 ELSE HCount
      /\ OCount' = IF t = "O" THEN OCount + 1 ELSE OCount
  <2>1. CASE t = "H"
    <3>1. HCount + 1 \in 0..2 /\ word' = (HCount + 1) + 4 * OCount
      BY <1>1, <1>2, <2>1 DEF HCount
    <3>2. /\ (HCount + 1) + 4 * OCount \in Words
          /\ Water!Field("H", (HCount + 1) + 4 * OCount) = HCount + 1
          /\ Water!Field("O", (HCount + 1) + 4 * OCount) = OCount
      BY <1>2, <3>1, PairWords
    <3>3. HCount' = Water!Field("H", word') /\ OCount' = Water!Field("O", word')
      BY DEF HCount, OCount, Water!Field
    <3> QED
      BY <2>1, <3>1, <3>2, <3>3
  <2>2. CASE t = "O"
    <3>1. OCount + 1 \in 0..1 /\ word' = HCount + 4 * (OCount + 1)
      BY <1>1, <1>2, <2>2 DEF OCount
    <3>2. /\ HCount + 4 * (OCount + 1) \in Words
          /\ Water!Field("H", HCount + 4 * (OCount + 1)) = HCount
          /\ Water!Field("O", HCount + 4 * (OCount + 1)) = OCount + 1
      BY <1>2, <3>1, PairWords
    <3>3. HCount' = Water!Field("H", word') /\ OCount' = Water!Field("O", word')
      BY DEF HCount, OCount, Water!Field
    <3> QED
      BY <2>2, <3>1, <3>2, <3>3
  <2> QED
    BY <2>1, <2>2
<1>5. AtomicPlaces' /\ AtomicShadows'
  BY <1>1 DEF AtomicInv, AtomicPlaces, AtomicShadows
<1>6. pc["O"] \notin {"reset", "release"}
  <2>1. pc["O"] = "reset" => print_cnt = 3 /\ print_cnt <= HCount + OCount
    BY <1>2 DEF AtomicInv, AtomicCounts, One
  <2>2. HCount + OCount # 3
    BY <1>2, <1>3
  <2> QED
    BY <1>2, <1>3, <2>1, <2>2 DEF AtomicInv, AtomicCounts
<1>7. AtomicCounts'
  BY <1>1, <1>2, <1>4, <1>6 DEF AtomicInv, AtomicCounts, AtomicPlaces, One, Pending
<1>8. /\ (HCount - One(pc["H"] = "print"))' = HCount - One(pc["H"] = "print")
      /\ (OCount - One(pc["O"] = "print"))' = OCount - One(pc["O"] = "print")
  BY <1>1, <1>2, <1>4 DEF AtomicInv, AtomicPlaces, One
<1>9. Shows(HCount - One(pc["H"] = "print"), OCount - One(pc["O"] = "print"))'
  BY <1>1, <1>8 DEF AtomicInv, Shows, Between
<1> QED
  BY <1>5, <1>7, <1>9 DEF AtomicInv

LEMMA AtomicCout ==
  ASSUME AtomicInv, NEW t \in Water!Atoms, Water!Cout(t)
  PROVE  AtomicInv'
<1> USE Quotas
<1>1. /\ pc[t] = "print" /\ pc' = [pc EXCEPT ![t] = "add"] /\ Water!Emit(t)
      /\ UNCHANGED <<word, print_cnt, shadow>>
  BY DEF Water!Cout, Water!Goto, Water!atomicVars
<1>2. UNCHANGED <<HCount, OCount>> /\ HCount \in 0..2 /\ OCount \in 0..1
  BY <1>1, WordPairs DEF AtomicInv, AtomicCounts, HCount, OCount, Water!Field
<1>3. AtomicPlaces' /\ AtomicCounts' /\ AtomicShadows'
  BY <1>1, <1>2 DEF AtomicInv, AtomicPlaces, AtomicCounts, AtomicShadows, One, Pending
<1>4. PICK h \in 0..2, o \in 0..1 :
        h = HCount - One(pc["H"] = "print") /\ o = OCount - One(pc["O"] = "print")
  BY <1>2 DEF AtomicInv, AtomicCounts, Pending, One
<1>5. Shows(h, o)
  BY <1>4 DEF AtomicInv
<1>6. Shows(HCount - One(pc["H"] = "print"), OCount - One(pc["O"] = "print"))'
  <2>1. CASE t = "H"
    <3>1. /\ h \in 0..1
          /\ (HCount - One(pc["H"] = "print"))' = h + 1
          /\ (OCount - One(pc["O"] = "print"))' = o
      BY <1>1, <1>2, <1>4, <2>1 DEF AtomicInv, AtomicPlaces, One
    <3>2. Shows(h + 1, o)'
      BY <1>1, <1>5, <2>1, <3>1, EmitH
    <3> QED
      BY <3>1, <3>2 DEF Shows, Between
  <2>2. CASE t = "O"
    <3>1. /\ o = 0
          /\ (HCount - One(pc["H"] = "print"))' = h
          /\ (OCount - One(pc["O"] = "print"))' = 1
      BY <1>1, <1>2, <1>4, <2>2 DEF AtomicInv, AtomicPlaces, AtomicCounts, Pending, One
    <3>2. Shows(h, 1)'
      BY <1>1, <1>5, <2>2, <3>1, EmitO
    <3> QED
      BY <3>1, <3>2 DEF Shows, Between
  <2> QED
    BY <2>1, <2>2
<1> QED
  BY <1>3, <1>6 DEF AtomicInv

LEMMA AtomicAdd ==
  ASSUME AtomicInv, NEW t \in Water!Atoms, Water!Add(t)
  PROVE  AtomicInv'
<1> USE Quotas
<1>1. /\ pc[t] = "add" /\ pc' = [pc EXCEPT ![t] = IF t = "H" THEN "load" ELSE "final"]
      /\ print_cnt' = print_cnt + 1
      /\ UNCHANGED <<word, shadow, printed>>
  BY DEF Water!Add, Water!Goto
<1>2. UNCHANGED <<HCount, OCount>> /\ HCount \in 0..2 /\ OCount \in 0..1
  BY <1>1, WordPairs DEF AtomicInv, AtomicCounts, HCount, OCount, Water!Field
<1>3. AtomicPlaces' /\ AtomicShadows'
  BY <1>1 DEF AtomicInv, AtomicPlaces, AtomicShadows
<1>4. pc["O"] \notin {"reset", "release"}
  BY <1>1, <1>2 DEF AtomicInv, AtomicPlaces, AtomicCounts, One, Pending
<1>5. AtomicCounts'
  BY <1>1, <1>2, <1>4 DEF AtomicInv, AtomicPlaces, AtomicCounts, One, Pending
<1>6. Shows(HCount - One(pc["H"] = "print"), OCount - One(pc["O"] = "print"))'
  BY <1>1, <1>2 DEF AtomicInv, AtomicPlaces, Shows, Between, One
<1> QED
  BY <1>3, <1>5, <1>6 DEF AtomicInv

\* The round is over: nobody is between the two counts.
LEMMA AtomicReset ==
  ASSUME AtomicInv, NEW t \in Water!Atoms, Water!ResetCount(t) \/ Water!Release(t)
  PROVE  AtomicInv'
<1> USE Quotas
<1>1. t = "O" /\ pc["O"] \in {"reset", "release"}
  BY DEF Water!ResetCount, Water!Release, Water!Goto, AtomicInv, AtomicPlaces
<1>2. HCount \in 0..2 /\ OCount \in 0..1 /\ word = HCount + 4 * OCount
  BY WordPairs DEF AtomicInv, AtomicCounts, HCount, OCount
<1>3. word = 6 /\ pc["H"] \notin Pending
  BY <1>1, <1>2 DEF AtomicInv, AtomicCounts, One, Pending
<1>4. HCount = 2 /\ OCount = 1
  BY <1>3, FieldValues DEF HCount, OCount
<1>5. printed \in [Water!Atoms -> 0..2] /\ Between
  BY <1>1, <1>3, <1>4 DEF AtomicInv, Shows, Between, One, Pending
<1>6. CASE Water!ResetCount(t)
  <2>1. /\ pc' = [pc EXCEPT !["O"] = "release"] /\ print_cnt' = 0
        /\ UNCHANGED <<word, shadow, printed>>
    BY <1>1, <1>6 DEF Water!ResetCount, Water!Goto
  <2>2. HCount' = 2 /\ OCount' = 1
    BY <1>4, <2>1 DEF HCount, OCount, Water!Field
  <2>3. AtomicPlaces' /\ AtomicShadows'
    BY <2>1 DEF AtomicInv, AtomicPlaces, AtomicShadows
  <2>4. AtomicCounts'
    BY <1>3, <2>1, <2>2 DEF AtomicInv, AtomicPlaces, AtomicCounts, One, Pending
  <2>5. Shows(HCount - One(pc["H"] = "print"), OCount - One(pc["O"] = "print"))'
    BY <1>3, <1>5, <2>1, <2>2 DEF AtomicInv, AtomicPlaces, Shows, Between, One, Pending
  <2> QED
    BY <2>3, <2>4, <2>5 DEF AtomicInv
<1>7. CASE Water!Release(t)
  <2>1. /\ pc["O"] = "release" /\ pc' = [pc EXCEPT !["O"] = "load"] /\ word' = 0
        /\ UNCHANGED <<print_cnt, shadow, printed>>
    BY <1>1, <1>7 DEF Water!Release, Water!Goto
  <2>2. HCount' = 0 /\ OCount' = 0
    <3>1. HCount' = Water!Field("H", word') /\ OCount' = Water!Field("O", word')
      BY DEF HCount, OCount, Water!Field
    <3> QED
      BY <2>1, <3>1, FieldValues
  <2>3. AtomicPlaces' /\ AtomicShadows'
    BY <2>1 DEF AtomicInv, AtomicPlaces, AtomicShadows
  <2>4. AtomicCounts'
    <3>1. print_cnt' = 0 /\ word' = 0 /\ pc'["O"] = "load" /\ pc'["H"] \notin Pending
      BY <1>3, <2>1 DEF AtomicInv, AtomicPlaces, AtomicCounts
    <3>2. One(pc["H"] \in Pending)' = 0 /\ One(pc["O"] \in Pending)' = 0
      BY <3>1 DEF One, Pending
    <3> QED
      BY <2>2, <3>1, <3>2 DEF AtomicCounts, Pending, Words
  <2>5. Shows(HCount - One(pc["H"] = "print"), OCount - One(pc["O"] = "print"))'
    BY <1>3, <1>5, <2>1, <2>2 DEF AtomicInv, AtomicPlaces, Shows, Between, One, Pending
  <2> QED
    BY <2>3, <2>4, <2>5 DEF AtomicInv
<1> QED
  BY <1>6, <1>7

\* A version is where its own steps are enabled, and stays.
LEMMA WaterInductive == WaterInv /\ [Water!Next]_waterVars => WaterInv'
<1>1. WaterInv /\ UNCHANGED waterVars => WaterInv'
  BY DEF waterVars, WaterInv, CvInv, AtomicInv, AtomicPlaces, AtomicCounts, AtomicShadows,
     IdleInv, HCount, OCount, Shows, Between, Water!Field
<1>2. ASSUME NEW t \in Water!Atoms, Water!CvThread(t) \/ Water!WakeSpuriously(t)
      PROVE  /\ version' = version
             /\ pc[t] \in {"lock", "sleep"} \cup MutexPlaces
  BY <1>2 DEF Water!CvThread, Water!Lock, Water!Check, Water!Block, Water!Put, Water!Count,
     Water!Notify, Water!WakeSpuriously, Water!Goto, MutexPlaces
<1>3. ASSUME NEW t \in Water!Atoms, Water!AtomicThread(t)
      PROVE  /\ version' = version
             /\ pc[t] \in {"load", "test", "cas", "print", "add", "final", "reset", "release"}
  BY <1>3 DEF Water!AtomicThread, Water!Load, Water!Test, Water!Cas, Water!Cout, Water!Add,
     Water!Final, Water!ResetCount, Water!Release, Water!Goto
<1>4. ASSUME WaterInv, NEW t \in Water!Atoms, Water!CvThread(t) \/ Water!WakeSpuriously(t)
      PROVE  WaterInv'
  <2>1. CvInv /\ version = "condition_variable"
    BY <1>2, <1>4 DEF WaterInv, AtomicInv, AtomicPlaces, IdleInv, MutexPlaces
  <2>2. CvInv'
    BY <1>4, <2>1, CvStep
  <2> QED
    BY <1>2, <1>4, <2>1, <2>2 DEF WaterInv
<1>5. ASSUME WaterInv, NEW t \in Water!Atoms, Water!AtomicThread(t)
      PROVE  WaterInv'
  <2>1. AtomicInv /\ version = "atomic_variable"
    BY <1>3, <1>5 DEF WaterInv, CvInv, IdleInv, MutexPlaces
  <2>2. AtomicInv'
    BY <1>5, <2>1, AtomicControl, AtomicCas, AtomicCout, AtomicAdd, AtomicReset
       DEF Water!AtomicThread
  <2> QED
    BY <1>3, <1>5, <2>1, <2>2 DEF WaterInv
<1> QED
  BY <1>1, <1>4, <1>5 DEF Water!Next

LEMMA WaterHolds == WaterInv => WaterRounds
<1> USE Quotas
<1>1. CASE CvInv
  <2>1. cnt["H"] + One(pc["H"] = "count") \in 0..2 /\ cnt["O"] + One(pc["O"] = "count") \in 0..1
    BY <1>1 DEF CvInv, One
  <2>2. Water!RoundsOfWater
    BY <1>1, <2>1 DEF CvInv, Shows, Between, Water!RoundsOfWater
  <2> QED
    BY <1>1, <2>2 DEF CvInv, MutexPlaces, WaterRounds, Water!AssertionsHold
<1>2. CASE AtomicInv
  <2>1. HCount \in 0..2 /\ OCount \in 0..1 /\ word = HCount + 4 * OCount
    BY <1>2, WordPairs DEF AtomicInv, AtomicCounts, HCount, OCount
  <2>2. Water!RoundsOfWater
    BY <1>2, <2>1 DEF AtomicInv, AtomicCounts, Pending, Shows, Between, One, Water!RoundsOfWater
  <2>3. Water!AssertionsHold
    BY <1>2, <2>1 DEF AtomicInv, AtomicCounts, AtomicShadows, Pending, One, Water!AssertionsHold
  <2> QED
    BY <2>2, <2>3 DEF WaterRounds
<1>3. CASE IdleInv
  BY <1>3 DEF IdleInv, Shows, Between, WaterRounds, Water!RoundsOfWater, Water!AssertionsHold
<1> QED
  BY <1>1, <1>2, <1>3 DEF WaterInv
-----------------------------------------------------------------------------
LEMMA ProgramSteps ==
  [Next]_vars => [Water!Next]_waterVars /\ [Server!Next]_serverVars /\ [Tasks!Next]_taskVars
  BY DEF Next, WaterStep, ServerStep, TaskStep, vars

LEMMA ProgramStart == Init => WaterInv /\ ServerInv /\ TaskInv
  BY WaterStart, ServerStart, TaskStart DEF Init

LEMMA ProgramInvariance == Spec => [](WaterInv /\ ServerInv /\ TaskInv)
<1>1. WaterInv /\ ServerInv /\ TaskInv /\ [Next]_vars => (WaterInv /\ ServerInv /\ TaskInv)'
  BY ProgramSteps, WaterInductive, ServerInductive, TaskInductive
<1> QED
  BY <1>1, ProgramStart, PTL DEF Spec

\* H2O.cxx, both versions: two H and one O in every three characters, none of
\* them, the third included, one too many; the assertions of lines 59 and 82 hold on words that may be stale and a reset finds everything
\* printed and counted.
THEOREM RoundsCorrect == Spec => []WaterRounds
  BY WaterHolds, ProgramInvariance, PTL

\* tcp_server.cxx, lines 103-190: for any number of connections, a handled
\* event is still true and the edge of a message is never lost.
THEOREM EventsCorrect == Spec => []ServerEvents
  BY ServerHolds, ProgramInvariance, PTL

\* type-erase.cxx, lines 63-96: for any number of clients, the queue is used by
\* one thread at a time, tasks run once and in order, and the worker hangs only
\* in a task that submits, for good.
THEOREM TasksCorrect == Spec => TasksInOrder
  BY TaskHolds, TaskHangs, ProgramInvariance, ProgramSteps, PTL
     DEF Spec, TasksInOrder, Tasks!HangsForGood
=============================================================================
