------------------------- MODULE WorkerPool_proofs -------------------------
(***************************************************************************)
(* What the daemon's loop and its workers keep to, for any number of       *)
(* clients, descriptors and workers and any size of the poll table: a      *)
(* descriptor has one owner, an answer goes to who asked, no thread sleeps *)
(* through its work, and a shutdown leaves nobody behind.                  *)
(***************************************************************************)
EXTENDS WorkerPool, SequenceTheorems, WellFoundedInduction, TLAPS

Entries == [fd : Fds, revents : BOOLEAN]

\* The worker has a client whose connection it has not closed yet.
Holds(w) == state[w] = "BUSY" /\ pc[w] # "idle"

-----------------------------------------------------------------------------
(* The invariant, in parts.                                                *)

\* Where the loop is fits the tables it works on.
LoopInPlace ==
    /\ main.w <= size
    /\ main.pc \in {"assign", "handed"} => main.at > 0
    /\ main.pc = "accept" => Queued # {}
    /\ main.pc = "notifying" => main.w > 0

\* What a thread is doing agrees with its entry of Worker_Table.
Match(w) ==
    /\ w > size <=> pc[w] = "none"
    /\ state[w] = "BUSY" <=> assigned_client[w] # NoRequest
    /\ pc[w] = "none" => state[w] = "IDLE"
    /\ pc[w] \in {"work", "close", "idle"} =>
          state[w] = "BUSY" /\ serving[w] = assigned_client[w]
    /\ pc[w] = "exited" => state[w] = "IDLE" /\ shutdown_requested[w]
    /\ pc[w] = "asleep" =>
          state[w] = "IDLE" /\ (shutdown_requested[w] => main.pc = "notifying" /\ main.w = w)

ThreadsMatch == \A w \in Workers : Match(w)

\* A descriptor is open for one client, whose connection it is.
Connections ==
    /\ \A f \in Fds : open[f] # NoClient => conn[open[f]] = "accepted"
    /\ \A f, g \in Fds : open[f] = open[g] /\ open[f] # NoClient => f = g
    /\ \A c \in Clients : conn[c] = "accepted" => \E f \in Fds : open[f] = c

\* The table has a descriptor once, and open but for the entry just handed over.
TableIsOpen ==
    /\ \A i, j \in 1 .. Len(poll_table) : poll_table[i].fd = poll_table[j].fd => i = j
    /\ \A i \in 1 .. Len(poll_table) :
          open[poll_table[i].fd] # NoClient \/ (main.pc = "handed" /\ i = main.at)

\* What workers hold is open for the client they serve, theirs alone, and out of the
\* table but for the entry just handed over.
WorkersOwn ==
    /\ \A w \in Workers : Holds(w) => open[assigned_client[w].fd] = assigned_client[w].client_input
    /\ \A v, w \in Workers :
          Holds(v) /\ Holds(w) /\ assigned_client[v].fd = assigned_client[w].fd => v = w
    /\ \A w \in Workers, i \in 1 .. Len(poll_table) :
          Holds(w) /\ poll_table[i].fd = assigned_client[w].fd => main.pc = "handed" /\ i = main.at

\* Someone will close what is open, and not the loop when it has handed it over.
HeldByWorker(f) == \E w \in Workers : Holds(w) /\ assigned_client[w].fd = f

NothingLeaks ==
    /\ \A f \in Fds : open[f] # NoClient =>
          HeldByWorker(f) \/ \E i \in 1 .. Len(poll_table) : poll_table[i].fd = f
    /\ main.pc = "handed" =>
          open[poll_table[main.at].fd] = NoClient \/ HeldByWorker(poll_table[main.at].fd)

\* Who has been joined has ended.
Joined ==
    /\ main.pc = "joining" => \A w \in Workers : w <= main.w => pc[w] = "exited"
    /\ main.pc = "stopped" => \A w \in Workers : w <= size => pc[w] = "exited"

-----------------------------------------------------------------------------
(* Data.                                                                   *)

\* A set of numbers has a least one, the one the CHOOSE means.
LEMMA LowestIsLeast ==
    ASSUME NEW S, S \subseteq Nat, S # {}
    PROVE  Lowest(S) \in S
<1> DEFINE R == {p \in Nat \X Nat : p[1] < p[2]}
<1>1. IsWellFoundedOn(R, Nat)
    BY NatLessThanWellFounded, Zenon DEF OpToRel
<1>2. \E m \in S : \A j \in S : <<j, m>> \notin R
    <2> HIDE DEF R
    <2> QED
        BY <1>1, WFMin
<1>3. PICK m \in S : \A j \in S : <<j, m>> \notin R
    BY <1>2
<1>4. \A j \in S : m <= j
    <2> SUFFICES ASSUME NEW j \in S
                 PROVE  m <= j
        OBVIOUS
    <2>1. j \in Nat /\ m \in Nat
        OBVIOUS
    <2>2. j < m => <<j, m>> \in R
        BY <2>1
    <2> QED
        BY <1>3, <2>1, <2>2
<1> QED
    BY <1>4 DEF Lowest

LEMMA NextReadyIsReady ==
    ASSUME TypeOK, Ready # {}
    PROVE  NextReady \in 1 .. Len(poll_table) /\ NextReady \in Nat /\ NextReady > main.at
<1>1. main.at \in Nat
    BY DEF TypeOK
<1>2. Ready \subseteq Nat
    BY <1>1 DEF Ready
<1>3. NextReady \in Ready
    BY <1>2, LowestIsLeast DEF NextReady
<1> QED
    BY <1>1, <1>3 DEF Ready

\* The table without entry i: the last one has its place.
LEMMA SwapRemoveEntries ==
    ASSUME NEW table \in Seq(Entries), NEW i \in 1 .. Len(table)
    PROVE  LET rest == SwapRemove(table, i) IN
           /\ rest \in Seq(Entries)
           /\ Len(rest) = Len(table) - 1
           /\ \A j \in 1 .. Len(table) - 1 :
                 rest[j] = IF j = i THEN table[Len(table)] ELSE table[j]
<1> DEFINE swapped == [table EXCEPT ![i] = table[Len(table)]]
           n == Len(table)
<1>1. n \in Nat /\ table[n] \in Entries /\ n > 0
    OBVIOUS
<1>2. swapped \in Seq(Entries) /\ Len(swapped) = n
    BY <1>1
<1>3. \A j \in 1 .. n : swapped[j] = IF j = i THEN table[n] ELSE table[j]
    BY <1>1
<1> HIDE DEF swapped
<1>4. /\ SubSeq(swapped, 1, n - 1) \in Seq(Entries)
      /\ Len(SubSeq(swapped, 1, n - 1)) = n - 1
      /\ \A j \in 1 .. n - 1 : SubSeq(swapped, 1, n - 1)[j] = swapped[j]
    BY <1>1, <1>2
<1> QED
    BY <1>1, <1>3, <1>4 DEF SwapRemove, swapped

\* Taking out entry i leaves the others, each once.
LEMMA SwapRemoveKeeps ==
    ASSUME NEW table \in Seq(Entries), NEW i \in 1 .. Len(table),
           \A j, k \in 1 .. Len(table) : table[j].fd = table[k].fd => j = k
    PROVE  LET rest == SwapRemove(table, i) IN
           /\ \A j \in 1 .. Len(rest) : \E k \in 1 .. Len(table) : k # i /\ rest[j] = table[k]
           /\ \A k \in 1 .. Len(table) : k # i => \E j \in 1 .. Len(rest) : rest[j] = table[k]
           /\ \A j, k \in 1 .. Len(rest) : rest[j].fd = rest[k].fd => j = k
<1> DEFINE rest == SwapRemove(table, i)
           n == Len(table)
<1>0. n \in Nat /\ n > 0
    OBVIOUS
<1>1. /\ Len(rest) = n - 1
      /\ \A j \in 1 .. n - 1 : rest[j] = IF j = i THEN table[n] ELSE table[j]
    BY SwapRemoveEntries, Zenon
<1> HIDE DEF rest
<1>2. \A j \in 1 .. Len(rest) : \E k \in 1 .. n : k # i /\ rest[j] = table[k]
    <2> TAKE j \in 1 .. Len(rest)
    <2>1. CASE j = i
        BY <1>0, <1>1, <2>1
    <2>2. CASE j # i
        BY <1>0, <1>1, <2>2
    <2> QED
        BY <2>1, <2>2
<1>3. \A k \in 1 .. n : k # i => \E j \in 1 .. Len(rest) : rest[j] = table[k]
    <2> SUFFICES ASSUME NEW k \in 1 .. n, k # i
                 PROVE  \E j \in 1 .. Len(rest) : rest[j] = table[k]
        OBVIOUS
    <2>1. CASE k = n
        <3>1. i \in 1 .. Len(rest) /\ rest[i] = table[k]
            BY <1>0, <1>1, <2>1
        <3> QED
            BY <3>1
    <2>2. CASE k # n
        <3>1. k \in 1 .. Len(rest) /\ rest[k] = table[k]
            BY <1>0, <1>1, <2>2
        <3> QED
            BY <3>1
    <2> QED
        BY <2>1, <2>2
<1>4. \A j, k \in 1 .. Len(rest) : rest[j].fd = rest[k].fd => j = k
    <2> TAKE j, k \in 1 .. Len(rest)
    <2>1. /\ rest[j] = IF j = i THEN table[n] ELSE table[j]
          /\ rest[k] = IF k = i THEN table[n] ELSE table[k]
          /\ j \in 1 .. n - 1 /\ k \in 1 .. n - 1
        BY <1>0, <1>1
    <2> QED
        BY <1>0, <2>1
<1> QED
    BY <1>2, <1>3, <1>4 DEF rest

\* A descriptor handed out by accept was free.
LEMMA LowestFree ==
    ASSUME WorkerPoolAssumption, \E f \in Fds : open[f] = NoClient
    PROVE  LET fd == Lowest({f \in Fds : open[f] = NoClient}) IN
           fd \in Fds /\ open[fd] = NoClient
<1> DEFINE S == {f \in Fds : open[f] = NoClient}
<1>1. S \subseteq Nat /\ S # {}
    BY DEF WorkerPoolAssumption
<1>2. Lowest(S) \in S
    BY <1>1, LowestIsLeast
<1> QED
    BY <1>2

-----------------------------------------------------------------------------
(* The invariant holds at the start.                                       *)

Inv ==
    /\ TypeOK /\ LoopInPlace /\ ThreadsMatch /\ Connections
    /\ TableIsOpen /\ WorkersOwn /\ NothingLeaks /\ Joined

\* No client is called NoClient, and no descriptor is that of NoRequest.
LEMMA NoRequestIsNone ==
    /\ NoClient \notin Clients
    /\ NoRequest.fd = -1 /\ NoRequest.fd \notin Fds
    /\ \A r \in Requests : r # NoRequest => r.fd \in Fds /\ r.client_input \in Clients
BY WorkerPoolAssumption DEF WorkerPoolAssumption, NoRequest, Requests

LEMMA StartsRight == Init => Inv
<1> SUFFICES ASSUME Init
             PROVE  Inv
    OBVIOUS
<1> USE WorkerPoolAssumption
<1>1. TypeOK
    BY DEF Init, WorkerPoolAssumption, TypeOK, MainPCs, PCs, Requests, NoRequest
<1>2. LoopInPlace /\ Joined
    BY DEF Init, LoopInPlace, Joined
<1>3. ThreadsMatch
    BY DEF Init, ThreadsMatch, Match, Workers, WorkerPoolAssumption
<1>4. Connections
    BY DEF Init, Connections
<1>5. TableIsOpen /\ NothingLeaks
    BY DEF Init, TableIsOpen, NothingLeaks
<1>6. WorkersOwn
    BY DEF Init, WorkersOwn, Holds
<1> QED
    BY <1>1, <1>2, <1>3, <1>4, <1>5, <1>6 DEF Inv

-----------------------------------------------------------------------------
(* Every step keeps the types.                                             *)

LEMMA TableTyped ==
    ASSUME TypeOK
    PROVE  /\ poll_table \in Seq(Entries)
           /\ Len(poll_table) \in Nat /\ DOMAIN poll_table = 1 .. Len(poll_table)
           /\ \A i \in 1 .. Len(poll_table) :
                 poll_table[i] \in Entries /\ poll_table[i].fd \in Fds
<1>1. poll_table \in Seq(Entries)
    BY Zenon DEF TypeOK, Entries
<1>2. /\ Len(poll_table) \in Nat /\ DOMAIN poll_table = 1 .. Len(poll_table)
      /\ \A i \in 1 .. Len(poll_table) : poll_table[i] \in Entries
    BY <1>1
<1>3. \A e \in Entries : e.fd \in Fds
    BY DEF Entries
<1> QED
    BY <1>1, <1>2, <1>3

\* The entry the loop looks at is of a connected client, whose descriptor it has.
LEMMA SenderIsConnected ==
    ASSUME TypeOK, TableIsOpen, main.pc = "entry", Ready # {}
    PROVE  /\ NextReady \in 1 .. Len(poll_table) /\ NextReady > main.at
           /\ poll_table[NextReady].fd \in Fds
           /\ Sender = open[poll_table[NextReady].fd]
           /\ Sender \in Clients
<1>1. NextReady \in 1 .. Len(poll_table) /\ NextReady > main.at
    BY NextReadyIsReady
<1>2. PICK i \in 1 .. Len(poll_table) : i = NextReady
    BY <1>1
<1>3. poll_table[i].fd \in Fds /\ open[poll_table[i].fd] # NoClient
    BY <1>2, TableTyped DEF TableIsOpen
<1>4. open[poll_table[i].fd] \in Clients
    BY <1>3 DEF TypeOK
<1> QED
    BY <1>1, <1>2, <1>3, <1>4 DEF Sender

LEMMA PollEffect ==
    ASSUME TypeOK, Poll
    PROVE  /\ poll_table' \in Seq(Entries)
           /\ Len(poll_table') = Len(poll_table)
           /\ \A i \in 1 .. Len(poll_table) : poll_table'[i].fd = poll_table[i].fd
<1> DEFINE n == Len(poll_table)
<1>1. n \in Nat /\ \A i \in 1 .. n : poll_table[i] \in Entries
    BY TableTyped
<1>2. poll_table' = [i \in 1 .. n |->
                        [poll_table[i] EXCEPT !.revents = Readable(poll_table[i].fd)]]
    BY TableTyped DEF Poll
<1>3. ASSUME NEW i \in 1 .. n
      PROVE  /\ [poll_table[i] EXCEPT !.revents = Readable(poll_table[i].fd)] \in Entries
             /\ [poll_table[i] EXCEPT !.revents = Readable(poll_table[i].fd)].fd
                    = poll_table[i].fd
    <2>1. Readable(poll_table[i].fd) \in BOOLEAN
        BY DEF Readable, TypeOK
    <2> HIDE DEF Readable
    <2> QED
        BY <1>1, <2>1, Zenon DEF Entries
<1> HIDE DEF n
<1>4. poll_table' \in [1 .. n -> Entries]
    BY <1>2, <1>3, Zenon
<1>5. poll_table' \in Seq(Entries) /\ Len(poll_table') = n
    BY <1>1, <1>4
<1>6. \A i \in 1 .. n : poll_table'[i].fd = poll_table[i].fd
    BY <1>2, <1>3, Zenon
<1> QED
    BY <1>5, <1>6 DEF n

LEMMA ClosedEffect ==
    ASSUME TypeOK, NEW fd \in Fds, open[fd] \in Clients, closed(fd)
    PROVE  /\ msg' \in [Clients -> {"none", "part", "whole"}]
           /\ left' \in [Clients -> BOOLEAN]
           /\ conn' \in [Clients -> {"new", "queued", "accepted", "closed"}]
           /\ open' \in [Fds -> Clients \cup {NoClient}]
           /\ open'[fd] = NoClient /\ conn'[open[fd]] = "closed"
           /\ \A f \in Fds : f # fd => open'[f] = open[f]
           /\ \A c \in Clients : c # open[fd] => conn'[c] = conn[c]
BY DEF TypeOK, closed

LEMMA AcceptEffect ==
    ASSUME TypeOK, LoopInPlace, Accept
    PROVE  LET fd == Lowest({f \in Fds : open[f] = NoClient})
               c  == CHOOSE d \in Queued : TRUE
           IN  /\ fd \in Fds /\ open[fd] = NoClient
               /\ c \in Clients /\ conn[c] = "queued"
BY LowestFree, WorkerPoolAssumption DEF LoopInPlace, Accept, Queued

LEMMA MainTyped ==
    ASSUME TypeOK
    PROVE  /\ main.pc \in MainPCs
           /\ main.at \in Nat /\ main.at <= Len(poll_table) /\ Len(poll_table) \in Nat
           /\ main.w \in Nat /\ main.w <= MaxWorkers /\ MaxWorkers \in Nat
           /\ size \in Nat /\ size <= MaxWorkers
           /\ main \in [pc : MainPCs, at : Nat, w : Nat]
BY WorkerPoolAssumption DEF TypeOK, WorkerPoolAssumption

\* What the loop hands over is a request of a client it has.
LEMMA RequestTyped ==
    ASSUME TypeOK, LoopInPlace, TableIsOpen, main.pc = "assign"
    PROVE  /\ main.at \in 1 .. Len(poll_table)
           /\ Request.fd = poll_table[main.at].fd /\ Request.fd \in Fds
           /\ Request.client_input = open[Request.fd] /\ Request.client_input \in Clients
           /\ Request \in Requests /\ Request # NoRequest
<1>1. PICK i \in 1 .. Len(poll_table) : i = main.at
    BY MainTyped DEF LoopInPlace
<1>2. poll_table[i].fd \in Fds /\ open[poll_table[i].fd] # NoClient
    BY <1>1, TableTyped DEF TableIsOpen
<1>3. open[poll_table[i].fd] \in Clients
    BY <1>2 DEF TypeOK
<1> QED
    BY <1>1, <1>2, <1>3, NoRequestIsNone DEF Request, HandedFd, Requests, NoRequest

LEMMA WorkersNumbered ==
    \A w \in Workers : w \in Nat /\ w >= 1 /\ w <= MaxWorkers
BY WorkerPoolAssumption DEF Workers, WorkerPoolAssumption

LEMMA MainStep ==
    ASSUME TypeOK, LoopInPlace, TableIsOpen, Main \/ BeginShutdown
    PROVE  /\ main'.pc \in MainPCs
           /\ main'.at \in Nat /\ main'.at <= Len(poll_table')
           /\ main'.w \in Nat /\ main'.w <= MaxWorkers
           /\ main' \in [pc : MainPCs, at : Nat, w : Nat]
<1> USE MainTyped DEF MainPCs
<1> DEFINE Fits ==
        /\ main'.pc \in MainPCs
        /\ main'.at \in Nat /\ main'.at <= Len(poll_table')
        /\ main'.w \in Nat /\ main'.w <= MaxWorkers
        /\ main' \in [pc : MainPCs, at : Nat, w : Nat]
<1>1. CASE Poll
    BY <1>1, PollEffect DEF Poll
<1>2. CASE Accept
    <2>1. Len(poll_table') >= Len(poll_table) /\ Len(poll_table') \in Nat
        BY <1>2, TableTyped DEF Accept
    <2> QED
        BY <1>2, <2>1 DEF Accept
<1>3. CASE ReadRequest
    BY <1>3, SenderIsConnected DEF ReadRequest
<1>4. CASE CloseClient
    <2>1. PICK i \in 1 .. Len(poll_table) : i = NextReady
        BY <1>4, SenderIsConnected DEF CloseClient
    <2>2. Len(poll_table') = Len(poll_table) - 1
        BY <1>4, <2>1, TableTyped, SwapRemoveEntries DEF CloseClient
    <2> QED
        BY <1>4, <2>1, <2>2 DEF CloseClient
<1>5. ASSUME NEW w \in Workers, HandOver(w) \/ PassOver(w) \/ AddWorker(w)
      PROVE  Fits
    BY <1>5, WorkersNumbered DEF HandOver, PassOver, AddWorker
<1>6. CASE ForgetClient
    <2>1. PICK i \in 1 .. Len(poll_table) : i = main.at
        BY <1>6 DEF ForgetClient, LoopInPlace
    <2>2. Len(poll_table') = Len(poll_table) - 1
        BY <1>6, <2>1, TableTyped, SwapRemoveEntries DEF ForgetClient
    <2> QED
        BY <1>6, <2>1, <2>2 DEF ForgetClient
<1>7. ASSUME NEW w \in Workers, RequestShutdown(w)
      PROVE  Fits
    BY <1>7, WorkersNumbered DEF RequestShutdown
<1>8. CASE NotifyShutdown \/ BeginShutdown
    BY <1>8 DEF NotifyShutdown, BeginShutdown
<1>9. CASE Join
    <2>1. CASE main.pc = "stopping"
        <3>1. main' = [main EXCEPT !.pc = "joining", !.w = 0] /\ poll_table' = poll_table
            BY <1>9, <2>1 DEF Join
        <3>2. main'.pc = "joining" /\ main'.at = main.at /\ main'.w = 0
            BY <3>1
        <3>3. main' = [pc |-> "joining", at |-> main.at, w |-> 0]
            BY <3>1
        <3> QED
            BY <3>1, <3>3
    <2>2. CASE main.pc = "joining" /\ main.w < size
        BY <1>9, <2>2 DEF Join
    <2>3. CASE main.pc = "joining" /\ main.w = size
        BY <1>9, <2>3 DEF Join
    <2> QED
        BY <1>9, <2>1, <2>2, <2>3 DEF Join
<1> QED
    BY <1>1, <1>2, <1>3, <1>4, <1>5, <1>6, <1>7, <1>8, <1>9 DEF Main

LEMMA TableStep ==
    ASSUME TypeOK, LoopInPlace, TableIsOpen, Main \/ BeginShutdown
    PROVE  poll_table' \in Seq(Entries) /\ Len(poll_table') + 1 <= MAX_CLIENTS
<1>0. Len(poll_table) + 1 <= MAX_CLIENTS /\ MAX_CLIENTS \in Nat
    BY WorkerPoolAssumption DEF TypeOK, WorkerPoolAssumption
<1>1. CASE Poll
    BY <1>0, <1>1, PollEffect
<1>2. CASE Accept
    <2>1. \A f \in Fds : [fd |-> f, revents |-> FALSE] \in Entries
        BY DEF Entries
    <2> DEFINE entry == [fd |-> Lowest({f \in Fds : open[f] = NoClient}), revents |-> FALSE]
    <2>2. entry \in Entries
        BY <1>2, <2>1, AcceptEffect
    <2> HIDE DEF entry
    <2>3. poll_table' = poll_table \/ (~TableFull /\ poll_table' = Append(poll_table, entry))
        BY <1>2 DEF Accept, entry
    <2> QED
        BY <1>0, <2>2, <2>3, TableTyped DEF TableFull
<1>3. CASE CloseClient \/ ForgetClient
    <2>1. PICK i \in 1 .. Len(poll_table) : poll_table' = SwapRemove(poll_table, i)
        BY <1>3, MainTyped, SenderIsConnected DEF CloseClient, ForgetClient, LoopInPlace
    <2> QED
        BY <1>0, <2>1, TableTyped, SwapRemoveEntries
<1>4. CASE poll_table' = poll_table
    BY <1>0, <1>4, TableTyped
<1> QED
    BY <1>1, <1>2, <1>3, <1>4
       DEF Main, ReadRequest, HandOver, PassOver, AddWorker, RequestShutdown,
           NotifyShutdown, BeginShutdown, Join

\* Who has a client has a descriptor that is its client's.
LEMMA HeldIsOpen ==
    ASSUME TypeOK, ThreadsMatch, WorkersOwn, NEW w \in Workers, Holds(w)
    PROVE  /\ assigned_client[w] \in Requests /\ assigned_client[w] # NoRequest
           /\ assigned_client[w].fd \in Fds
           /\ open[assigned_client[w].fd] = assigned_client[w].client_input
           /\ open[assigned_client[w].fd] \in Clients
<1>1. assigned_client[w] \in Requests
    BY DEF TypeOK
<1>2. assigned_client[w] # NoRequest
    BY DEF ThreadsMatch, Match, Holds
<1> QED
    BY <1>1, <1>2, NoRequestIsNone DEF WorkersOwn

\* A thread at work has the client of its entry.
LEMMA ServingIsHeld ==
    ASSUME TypeOK, ThreadsMatch, WorkersOwn, NEW w \in Workers, pc[w] \in {"work", "close"}
    PROVE  /\ Holds(w) /\ serving[w] = assigned_client[w]
           /\ serving[w].fd \in Fds
           /\ open[serving[w].fd] = serving[w].client_input
           /\ open[serving[w].fd] \in Clients
<1>1. Holds(w) /\ serving[w] = assigned_client[w]
    BY DEF ThreadsMatch, Match, Holds
<1> QED
    BY <1>1, HeldIsOpen

LEMMA ClientsTyped ==
    ASSUME Inv, Next
    PROVE  /\ msg' \in [Clients -> {"none", "part", "whole"}]
           /\ left' \in [Clients -> BOOLEAN]
           /\ conn' \in [Clients -> {"new", "queued", "accepted", "closed"}]
           /\ open' \in [Fds -> Clients \cup {NoClient}]
<1> USE DEF Inv
<1> DEFINE Typed ==
        /\ msg' \in [Clients -> {"none", "part", "whole"}]
        /\ left' \in [Clients -> BOOLEAN]
        /\ conn' \in [Clients -> {"new", "queued", "accepted", "closed"}]
        /\ open' \in [Fds -> Clients \cup {NoClient}]
<1>0. /\ msg \in [Clients -> {"none", "part", "whole"}]
      /\ left \in [Clients -> BOOLEAN]
      /\ conn \in [Clients -> {"new", "queued", "accepted", "closed"}]
      /\ open \in [Fds -> Clients \cup {NoClient}]
    BY DEF TypeOK
<1>1. ASSUME NEW c \in Clients, Connect(c) \/ ClientSend(c) \/ ClientLeave(c)
      PROVE  Typed
    BY <1>0, <1>1 DEF Connect, ClientSend, ClientLeave
<1>2. CASE Accept
    BY <1>0, <1>2, AcceptEffect DEF Accept
<1>3. CASE ReadRequest
    BY <1>0, <1>3, SenderIsConnected DEF ReadRequest
<1>4. ASSUME NEW fd \in Fds, open[fd] \in Clients, closed(fd)
      PROVE  Typed
    BY <1>4, ClosedEffect
<1>5. CASE CloseClient
    <2>1. PICK fd \in Fds : open[fd] \in Clients /\ closed(fd)
        BY <1>5, SenderIsConnected DEF CloseClient
    <2> QED
        BY <1>4, <2>1
<1>6. ASSUME NEW w \in Workers, Close(w)
      PROVE  Typed
    <2>1. PICK fd \in Fds : open[fd] \in Clients /\ closed(fd)
        BY <1>6, ServingIsHeld DEF Close
    <2> QED
        BY <1>4, <2>1
<1>7. CASE UNCHANGED <<clients, open>>
    BY <1>0, <1>7 DEF clients
<1> QED
    BY <1>1, <1>2, <1>3, <1>5, <1>6, <1>7
       DEF Next, Client, Main, Run, Poll, HandOver, PassOver, AddWorker, ForgetClient,
           RequestShutdown, NotifyShutdown, Join, BeginShutdown, Sleep, TakeRequest, Exit,
           Send, GoIdle, SpuriousWakeup, vars

LEMMA WorkersTyped ==
    ASSUME Inv, Next
    PROVE  /\ size' \in 0 .. MaxWorkers
           /\ state' \in [Workers -> {"IDLE", "BUSY"}]
           /\ assigned_client' \in [Workers -> Requests]
           /\ shutdown_requested' \in [Workers -> BOOLEAN]
           /\ pc' \in [Workers -> PCs]
           /\ serving' \in [Workers -> Requests]
<1> USE DEF Inv, PCs
<1> DEFINE Typed ==
        /\ size' \in 0 .. MaxWorkers
        /\ state' \in [Workers -> {"IDLE", "BUSY"}]
        /\ assigned_client' \in [Workers -> Requests]
        /\ shutdown_requested' \in [Workers -> BOOLEAN]
        /\ pc' \in [Workers -> PCs]
        /\ serving' \in [Workers -> Requests]
<1>0. /\ size \in 0 .. MaxWorkers
      /\ state \in [Workers -> {"IDLE", "BUSY"}]
      /\ assigned_client \in [Workers -> Requests]
      /\ shutdown_requested \in [Workers -> BOOLEAN]
      /\ pc \in [Workers -> PCs]
      /\ serving \in [Workers -> Requests]
      /\ NoRequest \in Requests
    BY DEF TypeOK, Requests
<1>1. ASSUME NEW w \in Workers, HandOver(w) \/ AddWorker(w)
      PROVE  Typed
    <2>1. Request \in Requests
        BY <1>1, RequestTyped DEF HandOver, AddWorker
    <2>2. CASE HandOver(w)
        <3>1. pc' \in [Workers -> PCs]
            BY <1>0, <2>2 DEF HandOver, Notified
        <3> QED
            BY <1>0, <2>1, <2>2, <3>1 DEF HandOver
    <2>3. CASE AddWorker(w)
        BY <1>0, <2>1, <2>3, WorkersNumbered, MainTyped DEF AddWorker
    <2> QED
        BY <1>1, <2>2, <2>3
<1>2. ASSUME NEW w \in Workers, RequestShutdown(w)
      PROVE  Typed
    BY <1>0, <1>2 DEF RequestShutdown, threads
<1>3. CASE NotifyShutdown
    BY <1>0, <1>3 DEF NotifyShutdown, Notified, shared
<1>4. ASSUME NEW w \in Workers, Sleep(w) \/ SpuriousWakeup(w) \/ TakeRequest(w) \/ Exit(w)
      PROVE  Typed
    BY <1>0, <1>4 DEF Sleep, SpuriousWakeup, TakeRequest, Exit, shared
<1>5. ASSUME NEW w \in Workers, Send(w) \/ Close(w) \/ GoIdle(w)
      PROVE  Typed
    BY <1>0, <1>5 DEF Send, Close, GoIdle, shared
<1>6. CASE UNCHANGED <<shared, threads>>
    BY <1>0, <1>6 DEF shared, threads
<1> QED
    BY <1>1, <1>2, <1>3, <1>4, <1>5, <1>6
       DEF Next, Client, Main, Run, Connect, ClientSend, ClientLeave, Poll, Accept,
           ReadRequest, CloseClient, PassOver, ForgetClient, Join, BeginShutdown, vars

LEMMA TypeStep ==
    ASSUME Inv, Next
    PROVE  TypeOK'
<1> USE DEF Inv
<1>1. /\ poll_table' \in Seq(Entries) /\ Len(poll_table') + 1 <= MAX_CLIENTS
      /\ main' \in [pc : MainPCs, at : 0 .. Len(poll_table'), w : 0 .. MaxWorkers]
    <2>1. CASE Main \/ BeginShutdown
        <3>1. main'.at \in 0 .. Len(poll_table') /\ main'.w \in 0 .. MaxWorkers
            BY <2>1, MainStep, MainTyped, TableStep
        <3> QED
            BY <2>1, <3>1, MainStep, TableStep
    <2>2. CASE UNCHANGED <<poll_table, main>>
        BY <2>2, TableTyped DEF TypeOK
    <2> QED
        BY <2>1, <2>2
           DEF Next, Client, Run, Connect, ClientSend, ClientLeave, Sleep, TakeRequest, Exit,
               Send, Close, GoIdle, SpuriousWakeup, vars
<1>2. replies' \subseteq Clients \X Clients /\ alive' \in BOOLEAN
    <2>1. ASSUME NEW w \in Workers, Send(w)
          PROVE  replies' \subseteq Clients \X Clients /\ alive' \in BOOLEAN
        <3>1. serving[w].client_input \in Clients /\ Receiver(w) \in Clients
            BY <2>1, ServingIsHeld DEF Send, Receiver
        <3>2. replies' \subseteq Clients \X Clients
            BY <2>1, <3>1 DEF Send, TypeOK
        <3>3. alive' = FALSE \/ alive' = alive
            BY <2>1 DEF Send
        <3> QED
            BY <3>2, <3>3 DEF TypeOK
    <2>2. CASE UNCHANGED <<replies, alive>>
        BY <2>2 DEF TypeOK
    <2> QED
        BY <2>1, <2>2
           DEF Next, Client, Main, Run, Connect, ClientSend, ClientLeave, Poll, Accept,
               ReadRequest, CloseClient, HandOver, PassOver, AddWorker, ForgetClient,
               RequestShutdown, NotifyShutdown, Join, BeginShutdown, Sleep, TakeRequest,
               Exit, Close, GoIdle, SpuriousWakeup, vars
<1> QED
    BY <1>1, <1>2, ClientsTyped, WorkersTyped, Zenon DEF TypeOK, Entries

-----------------------------------------------------------------------------
(* Every step keeps the loop and the threads in place.                     *)

\* A descriptor that is closed was a connected client's.
LEMMA CloseStep ==
    ASSUME Inv, NEW w \in Workers, Close(w)
    PROVE  \E fd \in Fds :
              /\ fd = serving[w].fd /\ fd = assigned_client[w].fd
              /\ closed(fd) /\ open[fd] \in Clients /\ conn[open[fd]] = "accepted"
<1> USE DEF Inv
<1>1. PICK fd \in Fds : fd = serving[w].fd
    BY ServingIsHeld DEF Close
<1>2. fd = assigned_client[w].fd /\ open[fd] \in Clients
    BY <1>1, ServingIsHeld DEF Close
<1>3. conn[open[fd]] = "accepted"
    BY <1>2, NoRequestIsNone DEF Connections
<1> QED
    BY <1>1, <1>2, <1>3 DEF Close

LEMMA LoopStep ==
    ASSUME Inv, Next
    PROVE  LoopInPlace'
<1> USE MainTyped DEF Inv
<1>0. /\ main.w <= size
      /\ main.pc \in {"assign", "handed"} => main.at > 0
      /\ main.pc = "accept" => Queued # {}
      /\ main.pc = "notifying" => main.w > 0
    BY DEF LoopInPlace
<1>1. ASSUME NEW c \in Clients, Connect(c) \/ ClientSend(c) \/ ClientLeave(c)
      PROVE  LoopInPlace'
    BY <1>0, <1>1 DEF Connect, ClientSend, ClientLeave, RoundDone, shared, LoopInPlace, Queued
<1>2. CASE Poll
    BY <1>2 DEF Poll, LoopInPlace, Queued, clients, shared
<1>3. CASE Accept
    BY <1>0, <1>3 DEF Accept, LoopInPlace, shared
<1>4. CASE ReadRequest
    BY <1>0, <1>4, SenderIsConnected DEF ReadRequest, LoopInPlace, shared
<1>5. CASE CloseClient
    BY <1>0, <1>5 DEF CloseClient, LoopInPlace, shared
<1>6. ASSUME NEW w \in Workers, HandOver(w) \/ PassOver(w) \/ AddWorker(w)
      PROVE  LoopInPlace'
    BY <1>0, <1>6, WorkersNumbered DEF HandOver, PassOver, AddWorker, LoopInPlace, shared
<1>7. CASE ForgetClient \/ BeginShutdown
    BY <1>7 DEF ForgetClient, BeginShutdown, LoopInPlace, shared
<1>8. ASSUME NEW w \in Workers, RequestShutdown(w)
      PROVE  LoopInPlace'
    BY <1>8, WorkersNumbered DEF RequestShutdown, LoopInPlace
<1>9. CASE NotifyShutdown
    BY <1>0, <1>9 DEF NotifyShutdown, LoopInPlace, shared
<1>10. CASE Join
    <2>1. CASE main.pc = "stopping"
        <3>1. main' = [main EXCEPT !.pc = "joining", !.w = 0] /\ size' = size
            BY <1>10, <2>1 DEF Join, shared
        <3>2. main'.pc = "joining" /\ main'.w = 0
            BY <3>1
        <3> QED
            BY <3>1, <3>2 DEF LoopInPlace
    <2>2. CASE main.pc = "joining"
        BY <1>0, <1>10, <2>2 DEF Join, LoopInPlace, shared
    <2> QED
        BY <1>10, <2>1, <2>2 DEF Join
<1>11. ASSUME NEW w \in Workers, Close(w)
       PROVE  LoopInPlace'
    <2>1. PICK fd \in Fds : closed(fd) /\ open[fd] \in Clients /\ conn[open[fd]] = "accepted"
        BY <1>11, CloseStep
    <2>2. Queued' = Queued
        BY <2>1, ClosedEffect DEF Queued
    <2> QED
        BY <1>0, <1>11, <2>2 DEF Close, LoopInPlace, shared
<1>12. CASE UNCHANGED <<clients, main, size>>
    BY <1>0, <1>12 DEF LoopInPlace, Queued, clients
<1> QED
    BY <1>1, <1>2, <1>3, <1>4, <1>5, <1>6, <1>7, <1>8, <1>9, <1>10, <1>11, <1>12
       DEF Next, Client, Main, Run, Sleep, TakeRequest, Exit, Send, GoIdle, SpuriousWakeup,
           vars, shared

\* A worker whose thread and entry a step leaves alone still matches.
LEMMA MatchKept ==
    ASSUME NEW w \in Workers, Match(w),
           pc'[w] = pc[w], state'[w] = state[w], assigned_client'[w] = assigned_client[w],
           serving'[w] = serving[w], shutdown_requested'[w] = shutdown_requested[w],
           w > size' <=> w > size,
           main.pc = "notifying" => main' = main
    PROVE  Match(w)'
BY DEF Match

LEMMA ThreadsStep ==
    ASSUME Inv, Next
    PROVE  ThreadsMatch'
<1> SUFFICES ASSUME NEW w \in Workers
             PROVE  Match(w)'
    BY DEF ThreadsMatch
<1> USE DEF Inv
<1>0. /\ Match(w)
      /\ w \in Nat /\ w >= 1 /\ size \in Nat
      /\ pc \in [Workers -> PCs] /\ state \in [Workers -> {"IDLE", "BUSY"}]
      /\ assigned_client \in [Workers -> Requests] /\ serving \in [Workers -> Requests]
      /\ shutdown_requested \in [Workers -> BOOLEAN]
    BY WorkersNumbered, MainTyped DEF ThreadsMatch, TypeOK
<1>1. ASSUME NEW v \in Workers, HandOver(v)
      PROVE  Match(w)'
    <2>1. CASE v # w
        BY <1>0, <1>1, <2>1, MatchKept DEF HandOver, Notified
    <2>2. CASE v = w
        <3>1. /\ state'[w] = "BUSY" /\ assigned_client'[w] = Request /\ Request # NoRequest
              /\ state[w] = "IDLE" /\ ~shutdown_requested[w] /\ w <= size /\ size' = size
            BY <1>0, <1>1, <2>2, RequestTyped DEF HandOver, Available
        <3>2. pc'[w] = IF pc[w] = "asleep" THEN "check" ELSE pc[w]
            BY <1>0, <1>1, <2>2 DEF HandOver, Notified
        <3>3. pc[w] \in {"check", "asleep"}
            BY <1>0, <3>1 DEF Match, PCs
        <3> QED
            BY <1>0, <3>1, <3>2, <3>3 DEF Match
    <2> QED
        BY <2>1, <2>2
<1>2. ASSUME NEW v \in Workers, AddWorker(v)
      PROVE  Match(w)'
    <2>1. CASE v # w
        <3>1. w > size' <=> w > size
            BY <1>0, <1>2, <2>1, WorkersNumbered DEF AddWorker
        <3> QED
            BY <1>0, <1>2, <2>1, <3>1, MatchKept DEF AddWorker
    <2>2. CASE v = w
        BY <1>0, <1>2, <2>2, RequestTyped DEF AddWorker, Match
    <2> QED
        BY <2>1, <2>2
<1>3. ASSUME NEW v \in Workers, RequestShutdown(v)
      PROVE  Match(w)'
    <2>1. CASE v # w
        <3>1. main.pc # "notifying"
            BY <1>3 DEF RequestShutdown
        <3> QED
            BY <1>0, <1>3, <2>1, <3>1, MatchKept DEF RequestShutdown, threads
    <2>2. CASE v = w
        <3>1. /\ shutdown_requested'[w] = TRUE /\ pc'[w] = pc[w] /\ state'[w] = state[w]
              /\ assigned_client'[w] = assigned_client[w] /\ serving'[w] = serving[w]
              /\ size' = size
            BY <1>0, <1>3, <2>2 DEF RequestShutdown, threads
        <3>2. main'.pc = "notifying" /\ main'.w = w
            BY <1>3, <2>2, MainTyped DEF RequestShutdown
        <3> QED
            BY <1>0, <3>1, <3>2 DEF Match
    <2> QED
        BY <2>1, <2>2
<1>4. CASE NotifyShutdown
    <2>1. main.w \in Workers
        BY <1>4, MainTyped DEF NotifyShutdown, LoopInPlace, Workers
    <2>2. CASE w # main.w
        <3>1. /\ pc'[w] = pc[w] /\ state'[w] = state[w] /\ size' = size
              /\ assigned_client'[w] = assigned_client[w] /\ serving'[w] = serving[w]
              /\ shutdown_requested'[w] = shutdown_requested[w]
            BY <1>0, <1>4, <2>1, <2>2 DEF NotifyShutdown, Notified, shared
        <3> QED
            BY <1>0, <2>2, <3>1 DEF Match
    <2>3. CASE w = main.w
        BY <1>0, <1>4, <2>3 DEF NotifyShutdown, Notified, shared, Match
    <2> QED
        BY <2>2, <2>3
<1>5. ASSUME NEW v \in Workers,
             Sleep(v) \/ SpuriousWakeup(v) \/ TakeRequest(v) \/ Exit(v) \/ Send(v)
      PROVE  Match(w)'
    <2>1. CASE v # w
        BY <1>0, <1>5, <2>1, MatchKept DEF Sleep, SpuriousWakeup, TakeRequest, Exit, Send, shared
    <2>2. CASE v = w
        BY <1>0, <1>5, <2>2
           DEF Sleep, SpuriousWakeup, TakeRequest, Exit, Send, shared, Match, MustWake, HasRequest
    <2> QED
        BY <2>1, <2>2
<1>6. ASSUME NEW v \in Workers, Close(v) \/ GoIdle(v)
      PROVE  Match(w)'
    <2>1. CASE v # w
        BY <1>0, <1>6, <2>1, MatchKept DEF Close, GoIdle, shared
    <2>2. CASE v = w
        BY <1>0, <1>6, <2>2 DEF Close, GoIdle, shared, Match
    <2> QED
        BY <2>1, <2>2
<1>7. CASE UNCHANGED <<shared, threads>> /\ (main' = main \/ main.pc # "notifying")
    <2>1. /\ pc'[w] = pc[w] /\ state'[w] = state[w] /\ size' = size
          /\ assigned_client'[w] = assigned_client[w] /\ serving'[w] = serving[w]
          /\ shutdown_requested'[w] = shutdown_requested[w]
        BY <1>7 DEF shared, threads
    <2> QED
        BY <1>0, <1>7, <2>1, MatchKept
<1> QED
    BY <1>1, <1>2, <1>3, <1>4, <1>5, <1>6, <1>7
       DEF Next, Client, Main, Run, Connect, ClientSend, ClientLeave, Poll, Accept,
           ReadRequest, CloseClient, PassOver, ForgetClient, Join, BeginShutdown,
           RoundDone, vars

\* Who has ended stays so, and before a thread is joined it has ended.
LEMMA JoinStep ==
    ASSUME Inv, Next
    PROVE  Joined'
<1> USE DEF Inv
<1>0. /\ pc \in [Workers -> PCs] /\ size \in Nat /\ main.w \in Nat /\ main.w <= size
      /\ \A w \in Workers : w \in Nat /\ w >= 1
    BY WorkersNumbered, MainTyped DEF TypeOK, LoopInPlace
<1>1. ASSUME NEW w \in Workers, pc[w] = "exited"
      PROVE  pc'[w] = "exited"
    <2>1. w <= size
        BY <1>1, WorkersNumbered, MainTyped DEF ThreadsMatch, Match
    <2>2. CASE Main
        <3>1. ASSUME NEW v \in Workers, HandOver(v) \/ AddWorker(v)
              PROVE  pc'[w] = "exited"
            BY <1>0, <1>1, <2>1, <3>1 DEF HandOver, AddWorker, Notified
        <3>2. CASE NotifyShutdown
            BY <1>0, <1>1, <3>2 DEF NotifyShutdown, Notified
        <3> QED
            BY <1>1, <2>2, <3>1, <3>2
               DEF Main, Poll, Accept, ReadRequest, CloseClient, PassOver, ForgetClient,
                   RequestShutdown, Join, threads
    <2>3. ASSUME NEW v \in Workers, Run(v) \/ SpuriousWakeup(v)
          PROVE  pc'[w] = "exited"
        BY <1>0, <1>1, <2>3
           DEF Run, Sleep, TakeRequest, Exit, Send, Close, GoIdle, SpuriousWakeup
    <2> QED
        BY <1>1, <2>2, <2>3
           DEF Next, Client, Connect, ClientSend, ClientLeave, BeginShutdown, threads, vars
<1>2. CASE Join
    <2>1. pc' = pc /\ size' = size
        BY <1>2 DEF Join, threads, shared
    <2>2. CASE main.pc = "stopping"
        <3>1. main' = [main EXCEPT !.pc = "joining", !.w = 0]
            BY <1>2, <2>2 DEF Join
        <3>2. main'.pc = "joining" /\ main'.w = 0
            BY <3>1, MainTyped
        <3> QED
            BY <1>0, <3>2 DEF Joined
    <2>3. CASE main.pc = "joining" /\ main.w < size
        <3>1. main'.pc = "joining" /\ main'.w = main.w + 1 /\ pc[main.w + 1] = "exited"
            BY <1>2, <2>3, MainTyped DEF Join
        <3>2. \A w \in Workers : w <= main.w + 1 => w <= main.w \/ w = main.w + 1
            BY <1>0
        <3> QED
            BY <2>1, <2>3, <3>1, <3>2 DEF Joined
    <2>4. CASE main.pc = "joining" /\ main.w = size
        <3>1. main'.pc = "stopped"
            BY <1>2, <2>4, MainTyped DEF Join
        <3> QED
            BY <2>1, <2>4, <3>1 DEF Joined
    <2> QED
        BY <1>2, <2>2, <2>3, <2>4 DEF Join
<1>3. CASE main' = main /\ size' = size
    BY <1>1, <1>3 DEF Joined
<1>4. CASE main'.pc \notin {"joining", "stopped"}
    BY <1>4 DEF Joined
<1>5. (Main /\ ~Join) \/ BeginShutdown => main'.pc \notin {"joining", "stopped"}
    <2>1. ASSUME NEW w \in Workers, HandOver(w) \/ PassOver(w) \/ AddWorker(w) \/ RequestShutdown(w)
          PROVE  main'.pc \notin {"joining", "stopped"}
        BY <2>1, MainTyped DEF HandOver, PassOver, AddWorker, RequestShutdown
    <2>2. CASE Poll \/ Accept \/ ReadRequest \/ CloseClient
        BY <2>2, MainTyped DEF Poll, Accept, ReadRequest, CloseClient
    <2>3. CASE ForgetClient \/ NotifyShutdown \/ BeginShutdown
        BY <2>3, MainTyped DEF ForgetClient, NotifyShutdown, BeginShutdown
    <2> QED
        BY <2>1, <2>2, <2>3 DEF Main
<1>6. ~Main /\ ~BeginShutdown => main' = main /\ size' = size
    BY DEF Next, Client, Run, Connect, ClientSend, ClientLeave, Sleep, TakeRequest, Exit,
           Send, Close, GoIdle, SpuriousWakeup, shared, vars
<1> QED
    BY <1>2, <1>3, <1>4, <1>5, <1>6

-----------------------------------------------------------------------------
(* Every step keeps the descriptors with their owners.                     *)

LEMMA ConnectionsStep ==
    ASSUME Inv, Next
    PROVE  Connections'
<1> USE DEF Inv
<1>0. /\ conn \in [Clients -> {"new", "queued", "accepted", "closed"}]
      /\ open \in [Fds -> Clients \cup {NoClient}]
      /\ NoClient \notin Clients
    BY WorkerPoolAssumption DEF TypeOK, WorkerPoolAssumption
<1>1. ASSUME NEW c \in Clients, Connect(c)
      PROVE  Connections'
    BY <1>0, <1>1 DEF Connect, Connections
<1>2. CASE Accept
    <2>1. PICK fd \in Fds, c \in Clients :
             /\ open[fd] = NoClient /\ conn[c] = "queued"
             /\ \/ open' = open /\ conn' = [conn EXCEPT ![c] = "closed"]
                \/ /\ open' = [open EXCEPT ![fd] = c]
                   /\ conn' = [conn EXCEPT ![c] = "accepted"]
        BY <1>2, AcceptEffect DEF Accept
    <2>2. CASE open' = open /\ conn' = [conn EXCEPT ![c] = "closed"]
        BY <1>0, <2>1, <2>2 DEF Connections
    <2>3. CASE open' = [open EXCEPT ![fd] = c] /\ conn' = [conn EXCEPT ![c] = "accepted"]
        <3>1. \A f \in Fds : open[f] # c
            BY <1>0, <2>1 DEF Connections
        <3>2. \A f \in Fds : open'[f] = IF f = fd THEN c ELSE open[f]
            BY <1>0, <2>3
        <3>3. \A d \in Clients : conn'[d] = IF d = c THEN "accepted" ELSE conn[d]
            BY <1>0, <2>3
        <3>4. \A f \in Fds : open'[f] # NoClient => conn'[open'[f]] = "accepted"
            BY <1>0, <3>1, <3>2, <3>3 DEF Connections
        <3>5. \A f, g \in Fds : open'[f] = open'[g] /\ open'[f] # NoClient => f = g
            BY <1>0, <3>1, <3>2 DEF Connections
        <3>6. \A d \in Clients : conn'[d] = "accepted" => \E f \in Fds : open'[f] = d
            <4> TAKE d \in Clients
            <4> HAVE conn'[d] = "accepted"
            <4>1. CASE d = c
                BY <3>2, <4>1
            <4>2. CASE d # c
                <5>1. PICK f \in Fds : open[f] = d
                    BY <3>3, <4>2 DEF Connections
                <5> QED
                    BY <1>0, <2>1, <3>2, <5>1
            <4> QED
                BY <4>1, <4>2
        <3> QED
            BY <3>4, <3>5, <3>6 DEF Connections
    <2> QED
        BY <2>1, <2>2, <2>3
<1>3. ASSUME NEW fd \in Fds, closed(fd), open[fd] \in Clients
      PROVE  Connections'
    <2>1. /\ \A f \in Fds : open'[f] = IF f = fd THEN NoClient ELSE open[f]
          /\ \A d \in Clients : conn'[d] = IF d = open[fd] THEN "closed" ELSE conn[d]
        BY <1>3, ClosedEffect
    <2>2. \A f \in Fds : open'[f] # NoClient => conn'[open'[f]] = "accepted"
        BY <1>0, <1>3, <2>1 DEF Connections
    <2>3. \A f, g \in Fds : open'[f] = open'[g] /\ open'[f] # NoClient => f = g
        BY <1>0, <2>1 DEF Connections
    <2>4. \A d \in Clients : conn'[d] = "accepted" => \E f \in Fds : open'[f] = d
        <3> TAKE d \in Clients
        <3> HAVE conn'[d] = "accepted"
        <3>1. conn[d] = "accepted" /\ d # open[fd]
            BY <2>1
        <3>2. PICK f \in Fds : open[f] = d
            BY <3>1 DEF Connections
        <3> QED
            BY <2>1, <3>1, <3>2
    <2> QED
        BY <2>2, <2>3, <2>4 DEF Connections
<1>4. CASE CloseClient
    <2>1. PICK fd \in Fds : closed(fd) /\ open[fd] \in Clients
        BY <1>4, SenderIsConnected DEF CloseClient
    <2> QED
        BY <1>3, <2>1
<1>5. ASSUME NEW w \in Workers, Close(w)
      PROVE  Connections'
    <2>1. PICK fd \in Fds : closed(fd) /\ open[fd] \in Clients
        BY <1>5, CloseStep
    <2> QED
        BY <1>3, <2>1
<1>6. CASE UNCHANGED <<conn, open>>
    BY <1>6 DEF Connections
<1> QED
    BY <1>1, <1>2, <1>4, <1>5, <1>6
       DEF Next, Client, Main, Run, ClientSend, ClientLeave, Poll, ReadRequest, HandOver,
           PassOver, AddWorker, ForgetClient, RequestShutdown, NotifyShutdown, Join,
           BeginShutdown, Sleep, TakeRequest, Exit, Send, GoIdle, SpuriousWakeup, vars,
           clients

\* What is left of the table when entry i is taken out.
LEMMA EntryRemoved ==
    ASSUME TypeOK, TableIsOpen, NEW i \in 1 .. Len(poll_table),
           poll_table' = SwapRemove(poll_table, i)
    PROVE  /\ \A j \in 1 .. Len(poll_table') :
                 \E k \in 1 .. Len(poll_table) : k # i /\ poll_table'[j] = poll_table[k]
           /\ \A k \in 1 .. Len(poll_table) :
                 k # i => \E j \in 1 .. Len(poll_table') : poll_table'[j] = poll_table[k]
           /\ \A j, k \in 1 .. Len(poll_table') :
                 poll_table'[j].fd = poll_table'[k].fd => j = k
<1>1. poll_table \in Seq(Entries)
    BY TableTyped
<1>2. \A j, k \in 1 .. Len(poll_table) : poll_table[j].fd = poll_table[k].fd => j = k
    BY DEF TableIsOpen
<1>3. LET rest == SwapRemove(poll_table, i) IN
      /\ \A j \in 1 .. Len(rest) :
            \E k \in 1 .. Len(poll_table) : k # i /\ rest[j] = poll_table[k]
      /\ \A k \in 1 .. Len(poll_table) :
            k # i => \E j \in 1 .. Len(rest) : rest[j] = poll_table[k]
      /\ \A j, k \in 1 .. Len(rest) : rest[j].fd = rest[k].fd => j = k
    BY <1>1, <1>2, SwapRemoveKeeps, Zenon
<1> QED
    BY <1>3

\* An entry is open unless it has just been handed over, in every step but those that
\* open, close or remove one.
LEMMA TableOpenStep ==
    ASSUME Inv, Next
    PROVE  TableIsOpen'
<1> USE DEF Inv
<1>0. /\ open \in [Fds -> Clients \cup {NoClient}]
      /\ NoClient \notin Clients
      /\ poll_table \in Seq(Entries) /\ Len(poll_table) \in Nat
      /\ \A i \in 1 .. Len(poll_table) : poll_table[i].fd \in Fds
      /\ \A i, j \in 1 .. Len(poll_table) : poll_table[i].fd = poll_table[j].fd => i = j
      /\ main.pc # "handed" =>
            \A i \in 1 .. Len(poll_table) : open[poll_table[i].fd] # NoClient
    BY WorkerPoolAssumption, TableTyped DEF TypeOK, WorkerPoolAssumption, TableIsOpen
<1>1. CASE UNCHANGED <<open, poll_table>> /\ (main' = main \/ main.pc # "handed")
    BY <1>0, <1>1 DEF TableIsOpen
<1>2. CASE Poll
    <2>1. open' = open /\ main.pc # "handed"
        BY <1>2 DEF Poll, RoundDone
    <2>2. /\ Len(poll_table') = Len(poll_table)
          /\ \A i \in 1 .. Len(poll_table) : poll_table'[i].fd = poll_table[i].fd
        BY <1>2, PollEffect
    <2> QED
        BY <1>0, <2>1, <2>2 DEF TableIsOpen
<1>3. CASE Accept
    <2>0. main.pc # "handed"
        BY <1>3 DEF Accept
    <2>1. PICK fd \in Fds, c \in Clients :
             /\ open[fd] = NoClient
             /\ \/ open' = open /\ poll_table' = poll_table
                \/ /\ open' = [open EXCEPT ![fd] = c]
                   /\ poll_table' = Append(poll_table, [fd |-> fd, revents |-> FALSE])
        BY <1>3, AcceptEffect DEF Accept
    <2>2. CASE open' = open /\ poll_table' = poll_table
        BY <1>1, <2>0, <2>2
    <2>3. CASE /\ open' = [open EXCEPT ![fd] = c]
               /\ poll_table' = Append(poll_table, [fd |-> fd, revents |-> FALSE])
        <3> DEFINE n == Len(poll_table)
        <3>1. /\ Len(poll_table') = n + 1
              /\ \A i \in 1 .. n : poll_table'[i] = poll_table[i]
              /\ poll_table'[n + 1] = [fd |-> fd, revents |-> FALSE]
            BY <1>0, <2>3
        <3>2. poll_table'[n + 1].fd = fd
            BY <3>1
        <3>3. \A f \in Fds : open'[f] = IF f = fd THEN c ELSE open[f]
            BY <1>0, <2>3
        <3> HIDE DEF n
        <3>4. n \in Nat /\ \A i \in 1 .. n + 1 : i \in 1 .. n \/ i = n + 1
            BY <1>0 DEF n
        <3>5. \A i \in 1 .. n : poll_table'[i].fd = poll_table[i].fd /\ poll_table[i].fd # fd
            BY <1>0, <2>0, <2>1, <3>1 DEF n
        <3>6. \A i, j \in 1 .. n + 1 : poll_table'[i].fd = poll_table'[j].fd => i = j
            BY <1>0, <3>2, <3>4, <3>5 DEF n
        <3>7. \A i \in 1 .. n + 1 : open'[poll_table'[i].fd] # NoClient
            BY <1>0, <2>0, <3>2, <3>3, <3>4, <3>5 DEF n
        <3> QED
            BY <3>1, <3>6, <3>7 DEF TableIsOpen
    <2> QED
        BY <2>1, <2>2, <2>3
<1>4. CASE CloseClient
    <2>0. main.pc # "handed"
        BY <1>4 DEF CloseClient
    <2>1. PICK i \in 1 .. Len(poll_table) :
             /\ poll_table' = SwapRemove(poll_table, i)
             /\ closed(poll_table[i].fd) /\ open[poll_table[i].fd] \in Clients
        BY <1>4, SenderIsConnected DEF CloseClient
    <2>2. /\ \A j \in 1 .. Len(poll_table') :
                \E k \in 1 .. Len(poll_table) : k # i /\ poll_table'[j] = poll_table[k]
          /\ \A j, k \in 1 .. Len(poll_table') :
                poll_table'[j].fd = poll_table'[k].fd => j = k
        BY <2>1, EntryRemoved
    <2>3. \A f \in Fds : f # poll_table[i].fd => open'[f] = open[f]
        BY <1>0, <2>1, ClosedEffect
    <2>4. ASSUME NEW j \in 1 .. Len(poll_table')
          PROVE  open'[poll_table'[j].fd] # NoClient
        <3>1. PICK k \in 1 .. Len(poll_table) : k # i /\ poll_table'[j] = poll_table[k]
            BY <2>2
        <3>2. poll_table[k].fd # poll_table[i].fd
            BY <1>0, <3>1
        <3> QED
            BY <1>0, <2>0, <2>3, <3>1, <3>2
    <2> QED
        BY <2>2, <2>4 DEF TableIsOpen
<1>5. CASE ForgetClient
    <2>1. PICK i \in 1 .. Len(poll_table) : i = main.at /\ poll_table' = SwapRemove(poll_table, i)
        BY <1>5, MainTyped DEF ForgetClient, LoopInPlace
    <2>2. /\ \A j \in 1 .. Len(poll_table') :
                \E k \in 1 .. Len(poll_table) : k # i /\ poll_table'[j] = poll_table[k]
          /\ \A j, k \in 1 .. Len(poll_table') :
                poll_table'[j].fd = poll_table'[k].fd => j = k
        BY <2>1, EntryRemoved
    <2>3. ASSUME NEW j \in 1 .. Len(poll_table')
          PROVE  open'[poll_table'[j].fd] # NoClient
        <3>1. PICK k \in 1 .. Len(poll_table) : k # i /\ poll_table'[j] = poll_table[k]
            BY <2>2
        <3>2. open[poll_table[k].fd] # NoClient
            BY <2>1, <3>1 DEF TableIsOpen
        <3> QED
            BY <1>5, <3>1, <3>2 DEF ForgetClient
    <2> QED
        BY <2>2, <2>3 DEF TableIsOpen
<1>6. ASSUME NEW w \in Workers, Close(w)
      PROVE  TableIsOpen'
    <2>1. PICK fd \in Fds : closed(fd) /\ open[fd] \in Clients /\ fd = assigned_client[w].fd
        BY <1>6, CloseStep
    <2>2. Holds(w) /\ main' = main /\ poll_table' = poll_table
        BY <1>6, ServingIsHeld DEF Close
    <2>3. \A i \in 1 .. Len(poll_table) :
             poll_table[i].fd = fd => main.pc = "handed" /\ i = main.at
        BY <2>1, <2>2 DEF WorkersOwn
    <2>4. \A f \in Fds : f # fd => open'[f] = open[f]
        BY <2>1, ClosedEffect
    <2>5. ASSUME NEW i \in 1 .. Len(poll_table)
          PROVE  open'[poll_table[i].fd] # NoClient \/ (main.pc = "handed" /\ i = main.at)
        BY <1>0, <2>3, <2>4 DEF TableIsOpen
    <2> QED
        BY <1>0, <2>2, <2>5 DEF TableIsOpen
<1>7. ASSUME NEW c \in Clients, Connect(c) \/ ClientSend(c) \/ ClientLeave(c)
      PROVE  UNCHANGED <<open, poll_table, main>>
    BY <1>7 DEF Connect, ClientSend, ClientLeave
<1>8. ASSUME NEW w \in Workers, SpuriousWakeup(w) \/ (Run(w) /\ ~Close(w))
      PROVE  UNCHANGED <<open, poll_table, main>>
    BY <1>8 DEF Run, Sleep, TakeRequest, Exit, Send, GoIdle, SpuriousWakeup
<1>9. ASSUME NEW w \in Workers, HandOver(w) \/ PassOver(w) \/ AddWorker(w) \/ RequestShutdown(w)
      PROVE  UNCHANGED <<open, poll_table>> /\ main.pc # "handed"
    BY <1>9 DEF HandOver, PassOver, AddWorker, RequestShutdown
<1>10. ReadRequest \/ NotifyShutdown \/ Join \/ BeginShutdown =>
          UNCHANGED <<open, poll_table>> /\ main.pc # "handed"
    BY DEF ReadRequest, NotifyShutdown, Join, BeginShutdown, RoundDone
<1> QED
    BY <1>1, <1>2, <1>3, <1>4, <1>5, <1>6, <1>7, <1>8, <1>9, <1>10 DEF Next, Client, Main, vars

\* Only a hand-over gives a worker a client, and only the close takes it away.
LEMMA HoldsStep ==
    ASSUME Inv, Next, NEW w \in Workers
    PROVE  /\ \/ HandOver(w) \/ AddWorker(w)
              \/ Holds(w)' => Holds(w) /\ assigned_client'[w] = assigned_client[w] /\ ~Close(w)
           /\ Holds(w) /\ ~Close(w) =>
                 Holds(w)' /\ assigned_client'[w] = assigned_client[w]
<1> USE DEF Inv
<1>0. /\ pc \in [Workers -> PCs] /\ state \in [Workers -> {"IDLE", "BUSY"}]
      /\ assigned_client \in [Workers -> Requests]
    BY DEF TypeOK
<1> DEFINE Same == (Holds(w)' <=> Holds(w)) /\ assigned_client'[w] = assigned_client[w]
<1>1. ASSUME NEW v \in Workers, HandOver(v) \/ AddWorker(v), v # w
      PROVE  Same
    BY <1>0, <1>1 DEF HandOver, AddWorker, Notified, Holds
<1>2. ASSUME HandOver(w) \/ AddWorker(w)
      PROVE  ~Holds(w)
    <2>1. CASE HandOver(w)
        BY <2>1 DEF HandOver, Available, Holds
    <2>2. CASE AddWorker(w)
        <3>1. w > size
            BY <2>2, MainTyped DEF AddWorker
        <3> QED
            BY <1>0, <3>1 DEF ThreadsMatch, Match, Holds
    <2> QED
        BY <1>2, <2>1, <2>2
<1>3. ASSUME NotifyShutdown
      PROVE  Same
    <2>1. \A v \in Workers : pc'[v] = "idle" <=> pc[v] = "idle"
        BY <1>0, <1>3 DEF NotifyShutdown, Notified
    <2> QED
        BY <1>3, <2>1 DEF NotifyShutdown, shared, Holds
<1>4. ASSUME NEW v \in Workers, Run(v) \/ SpuriousWakeup(v), v # w
      PROVE  Same
    BY <1>0, <1>4
       DEF Run, Sleep, TakeRequest, Exit, Send, Close, GoIdle, SpuriousWakeup, shared, Holds
<1>5. ASSUME SpuriousWakeup(w) \/ (Run(w) /\ ~Close(w) /\ ~GoIdle(w))
      PROVE  Same
    BY <1>0, <1>5 DEF Run, Sleep, TakeRequest, Exit, Send, SpuriousWakeup, shared, Holds
<1>6. ASSUME Close(w) \/ GoIdle(w)
      PROVE  ~Holds(w)' /\ (GoIdle(w) => ~Holds(w))
    BY <1>0, <1>6 DEF Close, GoIdle, shared, Holds
<1>7. ASSUME UNCHANGED <<state, pc, assigned_client>>
      PROVE  Same
    BY <1>7 DEF Holds
<1>8. CASE Close(w)
    BY <1>6, <1>8
<1>9. CASE ~Close(w)
    <2>1. ASSUME NEW c \in Clients, Connect(c) \/ ClientSend(c) \/ ClientLeave(c)
          PROVE  Same
        BY <1>7, <2>1 DEF Connect, ClientSend, ClientLeave, shared, threads, Holds
    <2>2. CASE Main
        <3>1. CASE \E v \in Workers : HandOver(v) \/ AddWorker(v)
            BY <1>1, <1>2, <1>9, <3>1
        <3>2. CASE ~\E v \in Workers : HandOver(v) \/ AddWorker(v)
            <4>1. NotifyShutdown \/ UNCHANGED <<state, pc, assigned_client>>
                BY <2>2, <3>2
                   DEF Main, Poll, Accept, ReadRequest, CloseClient, PassOver, ForgetClient,
                       RequestShutdown, Join, shared, threads
            <4> QED
                BY <1>3, <1>7, <1>9, <4>1
        <3> QED
            BY <3>1, <3>2
    <2>3. ASSUME NEW v \in Workers, Run(v) \/ SpuriousWakeup(v)
          PROVE  Same \/ GoIdle(w)
        BY <1>4, <1>5, <1>9, <2>3
    <2>4. BeginShutdown \/ UNCHANGED vars => Same
        BY <1>7 DEF BeginShutdown, shared, threads, vars
    <2> QED
        BY <1>6, <1>9, <2>1, <2>2, <2>3, <2>4 DEF Next, Client
<1> QED
    BY <1>8, <1>9

\* Until the worker closes it, what it holds stays its client's...
LEMMA HeldStaysOpen ==
    ASSUME Inv, Next, NEW w \in Workers, Holds(w), ~Close(w)
    PROVE  open'[assigned_client[w].fd] = open[assigned_client[w].fd]
<1> USE DEF Inv
<1>0. /\ open \in [Fds -> Clients \cup {NoClient}] /\ NoClient \notin Clients
    BY WorkerPoolAssumption DEF TypeOK, WorkerPoolAssumption
<1>1. PICK fd \in Fds : fd = assigned_client[w].fd
    BY HeldIsOpen
<1>2. open[fd] \in Clients
    BY <1>1, HeldIsOpen
<1>3. CASE Accept
    <2>1. PICK f \in Fds, c \in Clients :
             open[f] = NoClient /\ (open' = open \/ open' = [open EXCEPT ![f] = c])
        BY <1>3, AcceptEffect DEF Accept
    <2> QED
        BY <1>0, <1>1, <1>2, <2>1
<1>4. CASE CloseClient
    <2>1. PICK i \in 1 .. Len(poll_table) :
             closed(poll_table[i].fd) /\ open[poll_table[i].fd] \in Clients
        BY <1>4, SenderIsConnected DEF CloseClient
    <2>2. poll_table[i].fd # fd
        BY <1>1, <1>4 DEF CloseClient, WorkersOwn
    <2> QED
        BY <1>1, <2>1, <2>2, ClosedEffect, TableTyped
<1>5. ASSUME NEW v \in Workers, Close(v)
      PROVE  open'[fd] = open[fd]
    <2>1. PICK f \in Fds : closed(f) /\ open[f] \in Clients /\ f = assigned_client[v].fd
        BY <1>5, CloseStep
    <2>2. Holds(v)
        BY <1>5, ServingIsHeld DEF Close
    <2>3. f # fd
        BY <1>1, <1>5, <2>1, <2>2 DEF WorkersOwn
    <2> QED
        BY <2>1, <2>3, ClosedEffect
<1>6. CASE open' = open
    BY <1>6
<1> QED
    BY <1>1, <1>3, <1>4, <1>5, <1>6
       DEF Next, Client, Main, Run, Connect, ClientSend, ClientLeave, Poll, ReadRequest,
           HandOver, PassOver, AddWorker, ForgetClient, RequestShutdown, NotifyShutdown,
           Join, BeginShutdown, Sleep, TakeRequest, Exit, Send, GoIdle, SpuriousWakeup, vars

\* ... and no step brings it back into the table.
LEMMA HeldStaysOut ==
    ASSUME Inv, Next, NEW w \in Workers, Holds(w),
           NEW j \in 1 .. Len(poll_table'), poll_table'[j].fd = assigned_client[w].fd
    PROVE  main'.pc = "handed" /\ j = main'.at
<1> USE DEF Inv
<1>0. \A i \in 1 .. Len(poll_table) :
         poll_table[i].fd = assigned_client[w].fd => main.pc = "handed" /\ i = main.at
    BY DEF WorkersOwn
<1>1. CASE Poll
    BY <1>0, <1>1, PollEffect DEF Poll, RoundDone
<1>2. CASE Accept
    <2>1. PICK fd \in Fds :
             /\ open[fd] = NoClient
             /\ \/ poll_table' = poll_table
                \/ poll_table' = Append(poll_table, [fd |-> fd, revents |-> FALSE])
        BY <1>2, AcceptEffect DEF Accept
    <2>2. fd # assigned_client[w].fd
        BY <2>1, HeldIsOpen, WorkerPoolAssumption DEF WorkerPoolAssumption
    <2>3. CASE poll_table' = Append(poll_table, [fd |-> fd, revents |-> FALSE])
        <3>1. CASE j \in 1 .. Len(poll_table)
            <4>1. poll_table'[j] = poll_table[j]
                BY <2>3, <3>1, TableTyped
            <4> QED
                BY <1>0, <1>2, <3>1, <4>1 DEF Accept
        <3>2. CASE j \notin 1 .. Len(poll_table)
            <4>1. poll_table'[j] = [fd |-> fd, revents |-> FALSE]
                BY <2>3, <3>2, TableTyped
            <4> QED
                BY <2>2, <4>1
        <3> QED
            BY <3>1, <3>2
    <2> QED
        BY <1>0, <1>2, <2>1, <2>3 DEF Accept
<1>3. CASE CloseClient \/ ForgetClient
    <2>1. PICK i \in 1 .. Len(poll_table) :
             /\ poll_table' = SwapRemove(poll_table, i)
             /\ main.pc = "handed" => i = main.at
        BY <1>3, MainTyped, SenderIsConnected DEF CloseClient, ForgetClient, LoopInPlace
    <2>2. PICK k \in 1 .. Len(poll_table) : k # i /\ poll_table'[j] = poll_table[k]
        BY <2>1, EntryRemoved
    <2> QED
        BY <1>0, <2>1, <2>2
<1>4. CASE poll_table' = poll_table /\ (main' = main \/ main.pc # "handed")
    BY <1>0, <1>4
<1>5. ASSUME NEW c \in Clients, Connect(c) \/ ClientSend(c) \/ ClientLeave(c)
      PROVE  UNCHANGED <<poll_table, main>>
    BY <1>5 DEF Connect, ClientSend, ClientLeave
<1>6. ASSUME NEW v \in Workers, Run(v) \/ SpuriousWakeup(v)
      PROVE  UNCHANGED <<poll_table, main>>
    BY <1>6 DEF Run, Sleep, TakeRequest, Exit, Send, Close, GoIdle, SpuriousWakeup
<1>7. ASSUME NEW v \in Workers, HandOver(v) \/ PassOver(v) \/ AddWorker(v) \/ RequestShutdown(v)
      PROVE  poll_table' = poll_table /\ main.pc # "handed"
    BY <1>7 DEF HandOver, PassOver, AddWorker, RequestShutdown
<1>8. ReadRequest \/ NotifyShutdown \/ Join \/ BeginShutdown =>
         poll_table' = poll_table /\ main.pc # "handed"
    BY DEF ReadRequest, NotifyShutdown, Join, BeginShutdown, RoundDone
<1> QED
    BY <1>1, <1>2, <1>3, <1>4, <1>5, <1>6, <1>7, <1>8 DEF Next, Client, Main, vars

\* A hand-over gives the worker the entry's descriptor, which nobody else holds.
LEMMA HandOverEffect ==
    ASSUME Inv, NEW w \in Workers, HandOver(w) \/ AddWorker(w)
    PROVE  /\ Holds(w)' /\ assigned_client'[w] = Request
           /\ main'.pc = "handed" /\ main'.at = main.at
           /\ UNCHANGED <<poll_table, open>>
           /\ main.at \in 1 .. Len(poll_table)
           /\ Request.fd = poll_table[main.at].fd
           /\ Request.client_input = open[Request.fd]
           /\ \A v \in Workers : Holds(v) => assigned_client[v].fd # Request.fd
<1> USE DEF Inv
<1>0. /\ pc \in [Workers -> PCs] /\ state \in [Workers -> {"IDLE", "BUSY"}]
      /\ assigned_client \in [Workers -> Requests]
      /\ main.pc = "assign"
    BY DEF TypeOK, HandOver, AddWorker
<1>1. /\ main.at \in 1 .. Len(poll_table)
      /\ Request.fd = poll_table[main.at].fd
      /\ Request.client_input = open[Request.fd]
    BY <1>0, RequestTyped
<1>2. \A v \in Workers : Holds(v) => assigned_client[v].fd # Request.fd
    BY <1>0, <1>1 DEF WorkersOwn
<1>3. main'.pc = "handed" /\ main'.at = main.at
    BY MainTyped DEF HandOver, AddWorker
<1>4. /\ assigned_client'[w] = Request /\ state'[w] = "BUSY"
      /\ UNCHANGED <<poll_table, open>>
    BY <1>0 DEF HandOver, AddWorker
<1>5. pc'[w] # "idle"
    <2>1. CASE HandOver(w)
        BY <1>0, <2>1 DEF HandOver, Available, Notified, ThreadsMatch, Match
    <2>2. CASE AddWorker(w)
        BY <1>0, <2>2 DEF AddWorker
    <2> QED
        BY <2>1, <2>2
<1> QED
    BY <1>1, <1>2, <1>3, <1>4, <1>5 DEF Holds

LEMMA OwnStep ==
    ASSUME Inv, Next
    PROVE  WorkersOwn'
<1> USE DEF Inv
<1> DEFINE Given(w) == HandOver(w) \/ AddWorker(w)
<1>1. ASSUME NEW w \in Workers, Holds(w)', ~Given(w)
      PROVE  /\ Holds(w) /\ assigned_client'[w] = assigned_client[w]
             /\ open'[assigned_client'[w].fd] = assigned_client'[w].client_input
    BY <1>1, HoldsStep, HeldStaysOpen, HeldIsOpen
<1>2. ASSUME NEW w \in Workers, Holds(w)'
      PROVE  open'[assigned_client'[w].fd] = assigned_client'[w].client_input
    BY <1>1, <1>2, HandOverEffect
<1>3. ASSUME NEW v \in Workers, NEW w \in Workers, Holds(v)', Holds(w)',
             assigned_client'[v].fd = assigned_client'[w].fd
      PROVE  v = w
    <2>1. Given(v) /\ Given(w) => v = w
        BY MainTyped, WorkersNumbered DEF HandOver, AddWorker
    <2>2. Given(v) => Given(w)
        BY <1>1, <1>3, HandOverEffect
    <2>3. Given(w) => Given(v)
        BY <1>1, <1>3, HandOverEffect
    <2>4. ~Given(v) /\ ~Given(w) => v = w
        BY <1>1, <1>3 DEF WorkersOwn
    <2> HIDE DEF Given
    <2> QED
        BY <2>1, <2>2, <2>3, <2>4
<1>4. ASSUME NEW w \in Workers, NEW i \in 1 .. Len(poll_table'),
             Holds(w)', poll_table'[i].fd = assigned_client'[w].fd
      PROVE  main'.pc = "handed" /\ i = main'.at
    <2>1. CASE Given(w)
        <3>1. /\ poll_table' = poll_table /\ main.at \in 1 .. Len(poll_table)
              /\ poll_table[i].fd = poll_table[main.at].fd
            BY <1>4, <2>1, HandOverEffect
        <3>2. i = main.at
            BY <3>1 DEF TableIsOpen
        <3> QED
            BY <2>1, <3>2, HandOverEffect
    <2>2. CASE ~Given(w)
        BY <1>1, <1>4, <2>2, HeldStaysOut
    <2> QED
        BY <2>1, <2>2
<1> QED
    BY <1>2, <1>3, <1>4 DEF WorkersOwn

\* A descriptor a worker holds has someone to close it until it is closed.
LEMMA HeldUntilClosed ==
    ASSUME Inv, Next, NEW f \in Fds, HeldByWorker(f)
    PROVE  HeldByWorker(f)' \/ open'[f] = NoClient
<1> USE DEF Inv
<1>1. PICK w \in Workers : Holds(w) /\ assigned_client[w].fd = f
    BY DEF HeldByWorker
<1>2. CASE Close(w)
    BY <1>1, <1>2, CloseStep, ClosedEffect
<1>3. CASE ~Close(w)
    BY <1>1, <1>3, HoldsStep DEF HeldByWorker
<1> QED
    BY <1>2, <1>3

LEMMA OnlyAcceptOpens ==
    ASSUME Inv, Next, ~Accept, NEW f \in Fds, open[f] = NoClient
    PROVE  open'[f] = NoClient
<1> USE DEF Inv
<1>1. ASSUME NEW fd \in Fds, closed(fd), open[fd] \in Clients
      PROVE  open'[f] = NoClient
    BY <1>1, ClosedEffect
<1>2. CASE CloseClient
    BY <1>1, <1>2, SenderIsConnected DEF CloseClient
<1>3. ASSUME NEW w \in Workers, Close(w)
      PROVE  open'[f] = NoClient
    BY <1>1, <1>3, CloseStep
<1>4. CASE open' = open
    BY <1>4
<1> QED
    BY <1>2, <1>3, <1>4
       DEF Next, Client, Main, Run, Connect, ClientSend, ClientLeave, Poll, ReadRequest,
           HandOver, PassOver, AddWorker, ForgetClient, RequestShutdown, NotifyShutdown,
           Join, BeginShutdown, Sleep, TakeRequest, Exit, Send, GoIdle, SpuriousWakeup, vars

LEMMA LeakStep ==
    ASSUME Inv, Next
    PROVE  NothingLeaks'
<1> USE DEF Inv
<1>0. open \in [Fds -> Clients \cup {NoClient}]
    BY DEF TypeOK
<1> DEFINE InTheTable(f) == \E i \in 1 .. Len(poll_table) : poll_table[i].fd = f
<1>1. ASSUME NEW f \in Fds, InTheTable(f), open'[f] # NoClient
      PROVE  HeldByWorker(f)' \/ InTheTable(f)'
    <2>1. PICK k \in 1 .. Len(poll_table) : poll_table[k].fd = f
        BY <1>1
    <2>2. CASE Poll
        BY <2>1, <2>2, PollEffect
    <2>3. CASE Accept
        <3>1. PICK e : poll_table' = poll_table \/ poll_table' = Append(poll_table, e)
            BY <2>3 DEF Accept
        <3>2. k \in 1 .. Len(poll_table') /\ poll_table'[k] = poll_table[k]
            BY <3>1, TableTyped
        <3> QED
            BY <2>1, <3>2
    <2>4. CASE CloseClient \/ ForgetClient
        <3>1. PICK i \in 1 .. Len(poll_table) :
                 /\ poll_table' = SwapRemove(poll_table, i)
                 /\ ForgetClient => i = main.at
                 /\ CloseClient => closed(poll_table[i].fd) /\ open[poll_table[i].fd] \in Clients
            BY <2>4, MainTyped, SenderIsConnected DEF CloseClient, ForgetClient, LoopInPlace
        <3>2. CASE k # i
            BY <2>1, <3>1, <3>2, EntryRemoved
        <3>3. CASE k = i /\ CloseClient
            BY <1>1, <2>1, <3>1, <3>3, ClosedEffect
        <3>4. CASE k = i /\ ForgetClient
            <4>1. open[f] # NoClient
                BY <1>1, <3>4 DEF ForgetClient
            <4>2. HeldByWorker(f)
                BY <2>1, <3>1, <3>4, <4>1 DEF NothingLeaks, ForgetClient
            <4> QED
                BY <1>1, <4>2, HeldUntilClosed
        <3> QED
            BY <2>4, <3>2, <3>3, <3>4
    <2>5. CASE poll_table' = poll_table
        BY <1>1, <2>5
    <2> QED
        BY <2>2, <2>3, <2>4, <2>5
           DEF Next, Client, Main, Run, Connect, ClientSend, ClientLeave, ReadRequest,
               HandOver, PassOver, AddWorker, RequestShutdown, NotifyShutdown, Join,
               BeginShutdown, Sleep, TakeRequest, Exit, Send, Close, GoIdle,
               SpuriousWakeup, vars
<1>2. ASSUME NEW f \in Fds, open[f] = NoClient, open'[f] # NoClient
      PROVE  InTheTable(f)'
    <2>1. Accept
        BY <1>2, OnlyAcceptOpens
    <2>2. PICK fd \in Fds, c \in Clients :
             \/ open' = open
             \/ /\ open' = [open EXCEPT ![fd] = c]
                /\ poll_table' = Append(poll_table, [fd |-> fd, revents |-> FALSE])
        BY <2>1, AcceptEffect DEF Accept
    <2>3. /\ f = fd
          /\ poll_table' = Append(poll_table, [fd |-> fd, revents |-> FALSE])
        BY <1>0, <1>2, <2>2
    <2>4. /\ Len(poll_table) + 1 \in 1 .. Len(poll_table')
          /\ poll_table'[Len(poll_table) + 1] = [fd |-> fd, revents |-> FALSE]
        BY <2>3, TableTyped
    <2> QED
        BY <2>3, <2>4
<1>3. ASSUME NEW f \in Fds, open'[f] # NoClient
      PROVE  (HeldByWorker(f) \/ \E i \in 1 .. Len(poll_table) : poll_table[i].fd = f)'
    <2>1. open[f] # NoClient => HeldByWorker(f) \/ InTheTable(f)
        BY DEF NothingLeaks
    <2>2. CASE InTheTable(f)
        BY <1>1, <1>3, <2>2
    <2>3. CASE HeldByWorker(f)
        BY <1>3, <2>3, HeldUntilClosed
    <2>4. CASE open[f] = NoClient
        BY <1>2, <1>3, <2>4
    <2> QED
        BY <2>1, <2>2, <2>3, <2>4
<1>4. ASSUME main'.pc = "handed"
      PROVE  (open[poll_table[main.at].fd] = NoClient \/ HeldByWorker(poll_table[main.at].fd))'
    <2>1. CASE \E w \in Workers : HandOver(w) \/ AddWorker(w)
        BY <2>1, HandOverEffect DEF HeldByWorker
    <2>2. CASE main' = main /\ poll_table' = poll_table
        <3>1. PICK f \in Fds : f = poll_table[main.at].fd
            BY <1>4, <2>2, MainTyped, TableTyped DEF LoopInPlace
        <3>2. open[f] = NoClient \/ HeldByWorker(f)
            BY <1>4, <2>2, <3>1 DEF NothingLeaks
        <3>3. ~Accept
            BY <1>4, <2>2 DEF Accept
        <3>4. open[f] = NoClient => open'[f] = NoClient
            BY <3>3, OnlyAcceptOpens
        <3> QED
            BY <2>2, <3>1, <3>2, <3>4, HeldUntilClosed DEF HeldByWorker
    <2>3. Main \/ BeginShutdown => \E w \in Workers : HandOver(w) \/ AddWorker(w)
        <3>1. ASSUME NEW w \in Workers, PassOver(w) \/ RequestShutdown(w)
              PROVE  FALSE
            BY <1>4, <3>1, MainTyped DEF PassOver, RequestShutdown
        <3>2. ~Poll /\ ~Accept /\ ~ReadRequest /\ ~CloseClient
            BY <1>4, MainTyped DEF Poll, Accept, ReadRequest, CloseClient
        <3>3. ~ForgetClient /\ ~NotifyShutdown /\ ~BeginShutdown
            BY <1>4, MainTyped DEF ForgetClient, NotifyShutdown, BeginShutdown
        <3>4. ~Join
            BY <1>4, MainTyped DEF Join
        <3> QED
            BY <3>1, <3>2, <3>3, <3>4 DEF Main
    <2> QED
        BY <2>1, <2>2, <2>3
           DEF Next, Client, Run, Connect, ClientSend, ClientLeave, Sleep, TakeRequest,
               Exit, Send, Close, GoIdle, SpuriousWakeup, vars
<1> QED
    BY <1>3, <1>4 DEF NothingLeaks

-----------------------------------------------------------------------------
(* The theorems.                                                           *)

LEMMA InvStep == Inv /\ [Next]_vars => Inv'
<1> SUFFICES ASSUME Inv, [Next]_vars
             PROVE  Inv'
    OBVIOUS
<1>1. CASE Next
    BY <1>1, TypeStep, LoopStep, ThreadsStep, ConnectionsStep, TableOpenStep, OwnStep,
       LeakStep, JoinStep DEF Inv
<1>2. CASE UNCHANGED vars
    <2> USE <1>2 DEF vars, clients, shared, threads
    <2>1. TypeOK'
        BY Zenon DEF Inv, TypeOK
    <2>2. LoopInPlace' /\ ThreadsMatch' /\ Joined'
        BY DEF Inv, LoopInPlace, Queued, ThreadsMatch, Match, Joined
    <2>3. Connections' /\ TableIsOpen'
        BY DEF Inv, Connections, TableIsOpen
    <2>4. WorkersOwn' /\ NothingLeaks'
        BY DEF Inv, WorkersOwn, NothingLeaks, HeldByWorker, Holds
    <2> QED
        BY <2>1, <2>2, <2>3, <2>4 DEF Inv
<1> QED
    BY <1>1, <1>2

LEMMA InvHolds == Spec => []Inv
BY StartsRight, InvStep, PTL DEF Spec

\* Every variable of the daemon's loop and of its workers stays within its type, and
\* the poll table within MAX_CLIENTS.
THEOREM TypeCorrect == Spec => []TypeOK
<1>1. Inv => TypeOK
    BY DEF Inv
<1> QED
    BY <1>1, InvHolds, PTL

\* Whatever the order of connections, hand-overs, closes and swaps of entries, an
\* open descriptor is in the poll table or with one worker, who alone closes it
\* (daemon.cpp's close_client and loop, worker_loop's close).
THEOREM OwnedOnce == Spec => []DescriptorsOwnedOnce
<1>1. Inv => DescriptorsOwnedOnce
    <2> SUFFICES ASSUME Inv
                 PROVE  DescriptorsOwnedOnce
        OBVIOUS
    <2> USE DEF Inv
    <2>1. DOMAIN poll_table = 1 .. Len(poll_table)
        BY TableTyped
    <2>2. ASSUME NEW f \in Fds, NEW w \in WithWorker(f)
          PROVE  w \in Workers /\ Holds(w) /\ assigned_client[w].fd = f
        <3>1. w \in Workers /\ assigned_client[w].fd = f /\ pc[w] \notin {"idle", "none"}
            BY DEF WithWorker
        <3>2. assigned_client[w] # NoRequest
            BY <3>1, NoRequestIsNone
        <3> QED
            BY <3>1, <3>2 DEF ThreadsMatch, Match, Holds
    <2>3. ASSUME NEW f \in Fds, NEW w \in Workers, Holds(w), assigned_client[w].fd = f
          PROVE  w \in WithWorker(f)
        BY <2>3 DEF WithWorker, Holds, ThreadsMatch, Match
    <2>4. \A i, j \in DOMAIN poll_table : poll_table[i].fd = poll_table[j].fd => i = j
        BY <2>1 DEF TableIsOpen
    <2>5. ASSUME NEW fd \in Fds
          PROVE  LET busy == WithWorker(fd)
                     handing == main.pc = "handed" /\ fd = poll_table[main.at].fd
                 IN  /\ \A v, w \in busy : v = w
                     /\ open[fd] # NoClient => fd \in InTable \/ busy # {}
                     /\ busy # {} => open[fd] # NoClient /\ (fd \in InTable => handing)
                     /\ fd \in InTable /\ ~handing => open[fd] # NoClient
        <3>1. \A v, w \in WithWorker(fd) : v = w
            BY <2>2 DEF WorkersOwn
        <3>2. open[fd] # NoClient => fd \in InTable \/ WithWorker(fd) # {}
            BY <2>1, <2>3 DEF NothingLeaks, HeldByWorker, InTable
        <3>3. ASSUME WithWorker(fd) # {}
              PROVE  /\ open[fd] # NoClient
                     /\ fd \in InTable => main.pc = "handed" /\ fd = poll_table[main.at].fd
            <4>1. PICK w \in Workers : Holds(w) /\ assigned_client[w].fd = fd
                BY <2>2, <3>3
            <4>2. open[fd] # NoClient
                BY <4>1, HeldIsOpen, NoRequestIsNone
            <4> QED
                BY <2>1, <4>1, <4>2 DEF WorkersOwn, InTable
        <3>4. ASSUME fd \in InTable, ~(main.pc = "handed" /\ fd = poll_table[main.at].fd)
              PROVE  open[fd] # NoClient
            BY <2>1, <3>4 DEF TableIsOpen, InTable
        <3> QED
            BY <3>1, <3>2, <3>3, <3>4
    <2> QED
        BY <2>4, <2>5 DEF DescriptorsOwnedOnce
<1> QED
    BY <1>1, InvHolds, PTL

\* A worker sends on the descriptor of the client whose request it has, as nobody
\* else can have closed it and the kernel given it out again meanwhile.
THEOREM RepliesRight == Spec => []RepliesReachTheirClient
<1>1. Init => RepliesReachTheirClient
    BY DEF Init, RepliesReachTheirClient
<1>2. Inv /\ RepliesReachTheirClient /\ [Next]_vars => RepliesReachTheirClient'
    <2> SUFFICES ASSUME Inv, RepliesReachTheirClient, [Next]_vars
                 PROVE  RepliesReachTheirClient'
        OBVIOUS
    <2>1. ASSUME NEW w \in Workers, Send(w)
          PROVE  RepliesReachTheirClient'
        <3>1. Receiver(w) = serving[w].client_input
            BY <2>1, ServingIsHeld DEF Inv, Send, Receiver
        <3> QED
            BY <2>1, <3>1 DEF Send, RepliesReachTheirClient
    <2>2. CASE UNCHANGED replies
        BY <2>2 DEF RepliesReachTheirClient
    <2> QED
        BY <2>1, <2>2
           DEF Next, Client, Main, Run, Connect, ClientSend, ClientLeave, Poll, Accept,
               ReadRequest, CloseClient, HandOver, PassOver, AddWorker, ForgetClient,
               RequestShutdown, NotifyShutdown, Join, BeginShutdown, Sleep, TakeRequest,
               Exit, Close, GoIdle, SpuriousWakeup, vars
<1> QED
    BY <1>1, <1>2, InvHolds, PTL DEF Spec

\* No thread sleeps on its condvar with a client assigned or a stop requested and
\* notified (wait_for_request against assign_client and request_shutdown).
THEOREM NoneSleepsThrough == Spec => []NoLostHandOver
<1>1. Inv => NoLostHandOver
    BY DEF Inv, ThreadsMatch, Match, NoLostHandOver
<1> QED
    BY <1>1, InvHolds, PTL

\* "Pending work is drained before shutdown exits": after the joins the only
\* connections left are those the loop had not handed over.
THEOREM Drained == Spec => []DrainedBeforeExit
<1>1. Inv => DrainedBeforeExit
    <2> SUFFICES ASSUME Inv
                 PROVE  DrainedBeforeExit
        OBVIOUS
    <2> USE DEF Inv
    <2>1. \A w \in Workers : pc[w] = "exited" => assigned_client[w] = NoRequest
        BY DEF ThreadsMatch, Match
    <2>2. ASSUME main.pc = "stopped", NEW c \in Clients, conn[c] = "accepted"
          PROVE  \E fd \in InTable : open[fd] = c
        <3>1. PICK f \in Fds : open[f] = c
            BY <2>2 DEF Connections
        <3>2. open[f] # NoClient
            BY <3>1, NoRequestIsNone
        <3>3. \A w \in Workers : w <= size \/ w > size
            BY WorkersNumbered, MainTyped
        <3>4. \A w \in Workers : ~Holds(w)
            BY <2>2, <3>3 DEF Joined, ThreadsMatch, Match, Holds
        <3>5. PICK i \in 1 .. Len(poll_table) : poll_table[i].fd = f
            BY <3>2, <3>4 DEF NothingLeaks, HeldByWorker
        <3> QED
            BY <3>1, <3>5, TableTyped DEF InTable
    <2> QED
        BY <2>1, <2>2 DEF DrainedBeforeExit
<1> QED
    BY <1>1, InvHolds, PTL
=============================================================================
