----------------------------- MODULE WorkerPool -----------------------------
(***************************************************************************)
(* How a client of the daemon is served: the loop of daemon.cpp that polls *)
(* its connections and reads their requests, IterateOrAddWorker, the       *)
(* worker threads, and the shutdown in ~TransactionManager                 *)
(* (src/src/transaction_manager).  A connection is a file descriptor the   *)
(* loop owns until it hands it to a worker, which closes it; the kernel    *)
(* then gives the number out again.                                        *)
(***************************************************************************)
EXTENDS Integers, Sequences

CONSTANTS
    Clients,        \* numbered in the order they connect; each connects once
    Silent,         \* those who never send a request
    NoClient,
    Fds,            \* file descriptors of connections
    MAX_CLIENTS,    \* slots of poll_table, the listener's included: 10 in the code
    MaxWorkers      \* bound: worker threads (one for each client that sends is enough)

ASSUME WorkerPoolAssumption ==
    /\ Clients \subseteq Nat
    /\ Silent \subseteq Clients
    /\ NoClient \notin Clients
    /\ Fds \subseteq Nat
    /\ MAX_CLIENTS \in Nat \ {0}
    /\ MaxWorkers \in Nat

Workers   == 1 .. MaxWorkers
NoRequest == [fd |-> -1, client_input |-> NoClient]     \* std::nullopt

VARIABLES
    msg,                \* what a connected client has sent and nobody has read
    left,               \* whether it has closed its end
    conn,               \* how far the client's connection has come
    open,               \* whose connection a descriptor is
    poll_table,         \* the entries behind the listener's
    main,               \* where the main thread is: its step, entry and worker
    size,               \* workers in Worker_Table
    state, assigned_client, shutdown_requested,     \* members of struct Worker
    pc,                 \* where the worker's thread is
    serving,            \* its copies client_fd and req
    replies,            \* history: <<whose request, whose connection>>
    alive               \* the process runs

clients == <<msg, left, conn>>
shared  == <<size, state, assigned_client, shutdown_requested>>
threads == <<pc, serving>>
vars    == <<clients, open, poll_table, main, shared, threads, replies, alive>>

MainPCs == {"accept", "entry", "assign", "handed",
            "stopping", "notifying", "joining", "stopped"}
PCs     == {"none", "check", "asleep", "work", "close", "idle", "exited"}
Requests == [fd : Fds, client_input : Clients] \cup {NoRequest}

TypeOK ==
    /\ msg \in [Clients -> {"none", "part", "whole"}]
    /\ left \in [Clients -> BOOLEAN]
    /\ conn \in [Clients -> {"new", "queued", "accepted", "closed"}]
    /\ open \in [Fds -> Clients \cup {NoClient}]
    /\ poll_table \in Seq([fd : Fds, revents : BOOLEAN])
    /\ Len(poll_table) + 1 <= MAX_CLIENTS
    /\ main \in [pc : MainPCs, at : 0 .. Len(poll_table), w : 0 .. MaxWorkers]
    /\ size \in 0 .. MaxWorkers
    /\ state \in [Workers -> {"IDLE", "BUSY"}]
    /\ assigned_client \in [Workers -> Requests]
    /\ shutdown_requested \in [Workers -> BOOLEAN]
    /\ pc \in [Workers -> PCs]
    /\ serving \in [Workers -> Requests]
    /\ replies \subseteq Clients \X Clients
    /\ alive \in BOOLEAN

Init ==
    /\ msg = [c \in Clients |-> "none"]
    /\ left = [c \in Clients |-> FALSE]
    /\ conn = [c \in Clients |-> "new"]
    /\ open = [f \in Fds |-> NoClient]
    /\ poll_table = << >>
    /\ main = [pc |-> "entry", at |-> 0, w |-> 0]
    /\ size = 0
    /\ state = [w \in Workers |-> "IDLE"]
    /\ assigned_client = [w \in Workers |-> NoRequest]
    /\ shutdown_requested = [w \in Workers |-> FALSE]
    /\ pc = [w \in Workers |-> "none"]
    /\ serving = [w \in Workers |-> NoRequest]
    /\ replies = {}
    /\ alive = TRUE

-----------------------------------------------------------------------------
Queued       == {c \in Clients : conn[c] = "queued"}
Readable(fd) == msg[open[fd]] # "none" \/ left[open[fd]]
Lowest(fds)  == CHOOSE fd \in fds : \A other \in fds : fd <= other

\* The entries of this round still to be looked at, and the next of them.
Ready     == {i \in main.at + 1 .. Len(poll_table) : poll_table[i].revents}
NextReady == Lowest(Ready)
Sender    == open[poll_table[NextReady].fd]

RoundDone == main.pc = "entry" /\ Ready = {}

-----------------------------------------------------------------------------
(* Clients.                                                                *)

\* The loop accepts one connection a round, in their order, and only poll looks for
\* them: the next may as well come once the round is over.
Connect(c) ==
    /\ RoundDone
    /\ conn[c] = "new"
    /\ Queued = {}
    /\ \A d \in Clients : conn[d] = "new" => c <= d
    /\ conn' = [conn EXCEPT ![c] = "queued"]
    /\ UNCHANGED <<msg, left, open, poll_table, main, shared, threads, replies, alive>>

\* A request arrives whole or in parts; nobody sees it before it is accepted.
ClientSend(c) ==
    /\ c \notin Silent
    /\ conn[c] = "accepted"
    /\ ~left[c]
    /\ \/ msg[c] = "none" /\ msg' = [msg EXCEPT ![c] = "part"]
       \/ msg[c] \in {"none", "part"} /\ msg' = [msg EXCEPT ![c] = "whole"]
    /\ UNCHANGED <<left, conn, open, poll_table, main, shared, threads, replies, alive>>

ClientLeave(c) ==
    /\ conn[c] = "accepted"
    /\ ~left[c]
    /\ left' = [left EXCEPT ![c] = TRUE]
    /\ UNCHANGED <<msg, conn, open, poll_table, main, shared, threads, replies, alive>>

\* close(fd): what the socket held is gone.
closed(fd) ==
    /\ conn' = [conn EXCEPT ![open[fd]] = "closed"]
    /\ msg' = [msg EXCEPT ![open[fd]] = "none"]
    /\ left' = [left EXCEPT ![open[fd]] = FALSE]
    /\ open' = [open EXCEPT ![fd] = NoClient]

-----------------------------------------------------------------------------
(* The main loop.                                                          *)

Poll ==
    LET polled == [i \in DOMAIN poll_table |->
                     [poll_table[i] EXCEPT !.revents = Readable(poll_table[i].fd)]]
    IN
    /\ RoundDone
    /\ Queued # {} \/ \E i \in DOMAIN polled : polled[i].revents
    /\ poll_table' = polled
    /\ main' = [pc |-> IF Queued # {} THEN "accept" ELSE "entry", at |-> 0, w |-> 0]
    /\ UNCHANGED <<clients, open, shared, threads, replies, alive>>

\* mutant: the bound is checked one entry too late
TableFull_late == Len(poll_table) + 1 > MAX_CLIENTS
TableFull == Len(poll_table) + 1 >= MAX_CLIENTS

\* One connection is accepted a round; it is closed at once when the table is full.
Accept ==
    LET fd == Lowest({f \in Fds : open[f] = NoClient})
        c  == CHOOSE d \in Queued : TRUE
    IN
    /\ main.pc = "accept"
    /\ \E f \in Fds : open[f] = NoClient
    /\ IF TableFull
       THEN /\ conn' = [conn EXCEPT ![c] = "closed"]
            /\ UNCHANGED <<open, poll_table>>
       ELSE /\ conn' = [conn EXCEPT ![c] = "accepted"]
            /\ open' = [open EXCEPT ![fd] = c]
            /\ poll_table' = Append(poll_table, [fd |-> fd, revents |-> FALSE])
    /\ main' = [main EXCEPT !.pc = "entry"]
    /\ UNCHANGED <<msg, left, shared, threads, replies, alive>>

\* mutant: the last entry is forgotten, not moved into the place of the removed one
SwapRemove_last(table, i) == SubSeq(table, 1, Len(table) - 1)
SwapRemove(table, i) == SubSeq([table EXCEPT ![i] = table[Len(table)]], 1, Len(table) - 1)

\* recv_all returns when the request is there or its sender gone; with part of a
\* request neither action is enabled, and the loop waits.
ReadRequest ==
    /\ main.pc = "entry"
    /\ Ready # {}
    /\ msg[Sender] = "whole"
    /\ msg' = [msg EXCEPT ![Sender] = "none"]
    /\ main' = [pc |-> "assign", at |-> NextReady, w |-> 0]
    /\ UNCHANGED <<left, conn, open, poll_table, shared, threads, replies, alive>>

\* Its sender is gone, or the request is too long or cannot be parsed.
CloseClient ==
    /\ main.pc = "entry"
    /\ Ready # {}
    /\ left[Sender] \/ msg[Sender] = "whole"
    /\ closed(poll_table[NextReady].fd)
    /\ poll_table' = SwapRemove(poll_table, NextReady)
    /\ main' = [main EXCEPT !.at = NextReady - 1]
    /\ UNCHANGED <<shared, threads, replies, alive>>

-----------------------------------------------------------------------------
(* IterateOrAddWorker, and the rest of the loop's body.                    *)

\* mutant: the client is put together after its entry was overwritten
HandedFd_swapped == poll_table[Len(poll_table)].fd
HandedFd == poll_table[main.at].fd
Request  == [fd |-> HandedFd, client_input |-> open[poll_table[main.at].fd]]

\* mutant: a worker that is given a client is not notified
Notified_never(w) == pc
\* A notified thread wakes and looks at its condition again.
Notified(w) == [pc EXCEPT ![w] = IF @ = "asleep" THEN "check" ELSE @]

\* mutant: a worker is taken whatever its state
Available_any(w) == ~shutdown_requested[w]
Available(w) == state[w] = "IDLE" /\ ~shutdown_requested[w]

HandOver(w) ==
    /\ main.pc = "assign"
    /\ w = main.w + 1
    /\ w <= size
    /\ Available(w)
    /\ state' = [state EXCEPT ![w] = "BUSY"]
    /\ assigned_client' = [assigned_client EXCEPT ![w] = Request]
    /\ pc' = Notified(w)
    /\ main' = [main EXCEPT !.pc = "handed"]
    /\ UNCHANGED <<clients, open, poll_table, size, shutdown_requested, serving, replies, alive>>

PassOver(w) ==
    /\ main.pc = "assign"
    /\ w = main.w + 1
    /\ w <= size
    /\ ~Available(w)
    /\ main' = [main EXCEPT !.w = w]
    /\ UNCHANGED <<clients, open, poll_table, shared, threads, replies, alive>>

AddWorker(w) ==
    /\ main.pc = "assign"
    /\ main.w = size
    /\ w = size + 1
    /\ size' = w
    /\ state' = [state EXCEPT ![w] = "BUSY"]
    /\ assigned_client' = [assigned_client EXCEPT ![w] = Request]
    /\ pc' = [pc EXCEPT ![w] = "check"]
    /\ main' = [main EXCEPT !.pc = "handed"]
    /\ UNCHANGED <<clients, open, poll_table, shutdown_requested, serving, replies, alive>>

ForgetClient ==
    /\ main.pc = "handed"
    /\ poll_table' = SwapRemove(poll_table, main.at)
    /\ main' = [pc |-> "entry", at |-> main.at - 1, w |-> 0]
    /\ UNCHANGED <<clients, open, shared, threads, replies, alive>>

-----------------------------------------------------------------------------
(* ~TransactionManager, run by the thread that owns it between two rounds. *)

BeginShutdown ==
    /\ RoundDone
    /\ main' = [pc |-> "stopping", at |-> 0, w |-> 0]
    /\ UNCHANGED <<clients, open, poll_table, shared, threads, replies, alive>>

\* request_shutdown sets the flag under the worker's mutex and notifies without it.
RequestShutdown(w) ==
    /\ main.pc = "stopping"
    /\ w = main.w + 1
    /\ w <= size
    /\ shutdown_requested' = [shutdown_requested EXCEPT ![w] = TRUE]
    /\ main' = [main EXCEPT !.pc = "notifying", !.w = w]
    /\ UNCHANGED <<clients, open, poll_table, size, state, assigned_client, threads, replies, alive>>

NotifyShutdown ==
    /\ main.pc = "notifying"
    /\ pc' = Notified(main.w)
    /\ main' = [main EXCEPT !.pc = "stopping"]
    /\ UNCHANGED <<clients, open, poll_table, shared, serving, replies, alive>>

\* The destructor joins the workers in the order of the table.
Join ==
    /\ \/ /\ main.pc = "stopping"
          /\ main.w = size
          /\ main' = [main EXCEPT !.pc = "joining", !.w = 0]
       \/ /\ main.pc = "joining"
          /\ main.w < size
          /\ pc[main.w + 1] = "exited"
          /\ main' = [main EXCEPT !.w = @ + 1]
       \/ /\ main.pc = "joining"
          /\ main.w = size
          /\ main' = [main EXCEPT !.pc = "stopped"]
    /\ UNCHANGED <<clients, open, poll_table, shared, threads, replies, alive>>

-----------------------------------------------------------------------------
(* A worker.                                                               *)

\* mutant: the predicate of the wait forgets the shutdown
MustWake_busy(w) == state[w] = "BUSY"
MustWake(w) == shutdown_requested[w] \/ state[w] = "BUSY"

\* mutant: a worker asked to stop has no request
HasRequest_running(w) == ~shutdown_requested[w]
\* What wait_for_request returns.
HasRequest(w) == state[w] = "BUSY"

Sleep(w) ==
    /\ pc[w] = "check"
    /\ ~MustWake(w)
    /\ pc' = [pc EXCEPT ![w] = "asleep"]
    /\ UNCHANGED <<clients, open, poll_table, main, shared, serving, replies, alive>>

SpuriousWakeup(w) ==
    /\ pc[w] = "asleep"
    /\ pc' = [pc EXCEPT ![w] = "check"]
    /\ UNCHANGED <<clients, open, poll_table, main, shared, serving, replies, alive>>

TakeRequest(w) ==
    /\ pc[w] = "check"
    /\ MustWake(w)
    /\ HasRequest(w)
    /\ serving' = [serving EXCEPT ![w] = assigned_client[w]]
    /\ pc' = [pc EXCEPT ![w] = "work"]
    /\ UNCHANGED <<clients, open, poll_table, main, shared, replies, alive>>

Exit(w) ==
    /\ pc[w] = "check"
    /\ MustWake(w)
    /\ ~HasRequest(w)
    /\ pc' = [pc EXCEPT ![w] = "exited"]
    /\ UNCHANGED <<clients, open, poll_table, main, shared, serving, replies, alive>>

Receiver(w) == open[serving[w].fd]

\* DB_Pipeline returns or throws; either way there is a response to send.  send
\* raises SIGPIPE when the peer is gone, and nobody handles it.
Send(w) ==
    /\ pc[w] = "work"
    /\ IF left[Receiver(w)]
       THEN /\ alive' = FALSE
            /\ UNCHANGED <<pc, replies>>
       ELSE /\ replies' = replies \cup {<<serving[w].client_input, Receiver(w)>>}
            /\ pc' = [pc EXCEPT ![w] = "close"]
            /\ UNCHANGED alive
    /\ UNCHANGED <<clients, open, poll_table, main, shared, serving>>

Close(w) ==
    /\ pc[w] = "close"
    /\ closed(serving[w].fd)
    /\ pc' = [pc EXCEPT ![w] = "idle"]
    /\ UNCHANGED <<poll_table, main, shared, serving, replies, alive>>

\* The notify_all that follows finds nobody: only this thread waits on condvar.
GoIdle(w) ==
    /\ pc[w] = "idle"
    /\ assigned_client' = [assigned_client EXCEPT ![w] = NoRequest]
    /\ state' = [state EXCEPT ![w] = "IDLE"]
    /\ serving' = [serving EXCEPT ![w] = NoRequest]
    /\ pc' = [pc EXCEPT ![w] = "check"]
    /\ UNCHANGED <<clients, open, poll_table, main, size, shutdown_requested, replies, alive>>

-----------------------------------------------------------------------------
Client == \E c \in Clients : Connect(c) \/ ClientSend(c) \/ ClientLeave(c)

Main ==
    \/ Poll \/ Accept \/ ReadRequest \/ CloseClient
    \/ \E w \in Workers : HandOver(w) \/ PassOver(w) \/ AddWorker(w)
    \/ ForgetClient
    \/ \E w \in Workers : RequestShutdown(w)
    \/ NotifyShutdown \/ Join

Run(w) ==
    \/ Sleep(w) \/ TakeRequest(w) \/ Exit(w)
    \/ Send(w) \/ Close(w) \/ GoIdle(w)

Next ==
    \/ /\ alive
       /\ \/ Client \/ Main \/ BeginShutdown
          \/ \E w \in Workers : Run(w) \/ SpuriousWakeup(w)
    \/ (~alive \/ main.pc = "stopped") /\ UNCHANGED vars

Spec == Init /\ [][Next]_vars

\* The main thread and every worker that can run do run, and a statement ends.
\* Nothing is assumed of the clients, and nobody has to shut the manager down.
FairSpec ==
    /\ Spec
    /\ WF_vars(alive /\ Main)
    /\ \A w \in Workers : WF_vars(alive /\ Run(w))

-----------------------------------------------------------------------------
(* Properties.                                                             *)

InTable == {poll_table[i].fd : i \in DOMAIN poll_table}
WithWorker(fd) ==
    {w \in Workers : assigned_client[w].fd = fd /\ pc[w] \notin {"idle", "none"}}

\* Every open descriptor has one owner who will close it: an entry of the table or
\* one worker, both only while the main thread is about to remove the entry it has
\* handed over.  So no connection leaks, is polled by the loop while a worker
\* answers on it, or is closed twice and with it the next client that was given the
\* number, whatever entries the swap in close_client moves.
DescriptorsOwnedOnce ==
    /\ \A i, j \in DOMAIN poll_table : poll_table[i].fd = poll_table[j].fd => i = j
    /\ \A fd \in Fds :
         LET busy == WithWorker(fd)
             handing == main.pc = "handed" /\ fd = poll_table[main.at].fd
         IN  /\ \A v, w \in busy : v = w
             /\ open[fd] # NoClient => fd \in InTable \/ busy # {}
             /\ busy # {} => open[fd] # NoClient /\ (fd \in InTable => handing)
             /\ fd \in InTable /\ ~handing => open[fd] # NoClient

\* A response goes to the client whose request it answers.
RepliesReachTheirClient == \A r \in replies : r[1] = r[2]

\* A thread asleep on its condvar has neither a client nor a request to stop, but
\* for the moment between the flag and the notify of request_shutdown.
NoLostHandOver ==
    \A w \in Workers : pc[w] = "asleep" =>
        /\ state[w] = "IDLE"
        /\ shutdown_requested[w] => main.pc = "notifying" /\ main.w = w

\* "Pending work is drained before shutdown exits" (worker_state.hpp:30): a worker
\* that has ended left no client behind, and once the destructor is through every
\* client ever handed over has been answered.
DrainedBeforeExit ==
    /\ \A w \in Workers : pc[w] = "exited" => assigned_client[w] = NoRequest
    /\ main.pc = "stopped" =>
         \A c \in Clients : conn[c] = "accepted" => \E fd \in InTable : open[fd] = c

\* A client whose request the loop has read is answered and its connection closed,
\* whatever the worker it goes to is doing, unless the process dies.
ReadRequestIsServed ==
    \A c \in Clients :
        (main.pc = "assign" /\ open[poll_table[main.at].fd] = c) ~> (conn[c] = "closed" \/ ~alive)

\* The destructor ends: no worker sleeps through its request to stop.
ShutdownEnds == (main.pc = "stopping") ~> (main.pc = "stopped" \/ ~alive)

=============================================================================
