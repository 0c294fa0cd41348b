-------------------------- MODULE RequestPipeline --------------------------
(***************************************************************************)
(* The path of a request through arag: the I/O thread that accepts         *)
(* connections, reads and parses (AragServer.cpp, ClientSession.cpp), the  *)
(* queue of the one processing unit, and the worker thread that takes      *)
(* requests from it and answers them (RequestProcessor.cpp, the frame of   *)
(* Command::executeEndToEnd).                                              *)
(*                                                                         *)
(* A request is the record [client, n]: the n-th request its client sent.  *)
(* What a command does to the data is in the other modules.                *)
(*                                                                         *)
(* Two bounds keep the workload finite: MaxSent requests of each client    *)
(* and MaxInternal requests of the process itself.                         *)
(***************************************************************************)
EXTENDS Naturals, Sequences

CONSTANTS
    Clients,      \* the clients that may connect
    Fake,         \* FAKE_SESSION, the session of internal requests
    MaxSent,      \* bound: requests each client sends
    MaxInternal   \* bound: requests enqueued with FAKE_SESSION

ASSUME FakeAssumption == Fake \notin Clients
ASSUME BoundsAssumption == MaxSent \in Nat /\ MaxInternal \in Nat

VARIABLES
    process,    \* "running", or "down" once the process has exited or crashed
    conn,       \* each client's connection, as the client sees it
    sent,       \* how many requests each client (and Fake) has produced
    wire,       \* what each client has written and the I/O thread has not read
    session,    \* each client's ClientSession: "open" while mSessions holds it
    ioPc,       \* what the I/O thread is doing
    ioClient,   \* the client whose handler the I/O thread is running
    pending,    \* parsed requests the read handler has still to enqueue
    que,        \* ProcessingUnit::que
    wpc,        \* where the worker thread is
    cur,        \* the request the worker took last
    served,     \* history: the requests executed, in order
    replies     \* history: the replies written to each client, in order

ioVars == <<ioPc, ioClient, pending>>
workerVars == <<wpc, cur, served>>
vars == <<process, conn, sent, wire, session, ioVars, que, workerVars, replies>>

Sources == Clients \cup {Fake}
Request == [client : Sources, n : Nat]
\* A request on the wire; ok is FALSE when the parser refuses it, which it also
\* does with the halves of a request that TCP delivers in two reads.
WireItem == [n : Nat, ok : BOOLEAN]
\* A reply names the request it answers.  The worker writes a "result", the I/O
\* thread the "error" of a read it could not parse.
Reply == [n : Nat, kind : {"result", "error"}]

TypeOK ==
    /\ process \in {"running", "down"}
    /\ conn \in [Clients -> {"new", "open", "closed"}]
    /\ sent \in [Sources -> Nat]
    /\ wire \in [Clients -> Seq(WireItem)]
    /\ session \in [Clients -> {"none", "open", "gone"}]
    /\ ioPc \in {"idle", "accepting", "enqueuing"}
    /\ ioClient \in Sources
    /\ pending \in Seq(Request)
    /\ que \in Seq(Request)
    /\ wpc \in {"start", "waiting", "lookup", "exec", "dead"}
    /\ cur \in Request
    /\ served \in Seq(Request)
    /\ replies \in [Clients -> Seq(Reply)]

Init ==
    /\ process = "running"
    /\ conn = [c \in Clients |-> "new"]
    /\ sent = [s \in Sources |-> 0]
    /\ wire = [c \in Clients |-> <<>>]
    /\ session = [c \in Clients |-> "none"]
    /\ ioPc = "idle"
    /\ ioClient = Fake
    /\ pending = <<>>
    /\ que = <<>>
    /\ wpc = "start"
    /\ cur = [client |-> Fake, n |-> 0]
    /\ served = <<>>
    /\ replies = [c \in Clients |-> <<>>]

\* Whether getClientSession finds the session: never for FAKE_SESSION.
InMap(s) == s \in Clients /\ session[s] = "open"

-----------------------------------------------------------------------------
(* The clients.  The kernel completes a connection and buffers what is      *)
(* written to it before the server accepts it.                              *)

Connect(c) ==
    /\ conn[c] = "new"
    /\ conn' = [conn EXCEPT ![c] = "open"]
    /\ UNCHANGED <<process, sent, wire, session, ioVars, que, workerVars, replies>>

Send(c) ==
    /\ conn[c] = "open"
    /\ sent[c] < MaxSent
    /\ sent' = [sent EXCEPT ![c] = @ + 1]
    /\ \E ok \in BOOLEAN :
          wire' = [wire EXCEPT ![c] = Append(@, [n |-> sent[c] + 1, ok |-> ok])]
    /\ UNCHANGED <<process, conn, session, ioVars, que, workerVars, replies>>

Close(c) ==
    /\ conn[c] = "open"
    /\ conn' = [conn EXCEPT ![c] = "closed"]
    /\ UNCHANGED <<process, sent, wire, session, ioVars, que, workerVars, replies>>

-----------------------------------------------------------------------------
(* Operators of the server's threads.                                      *)

\* Mutant of Enqueue: the notification is forgotten.
EnqueueSilently(r) ==
    /\ que' = Append(que, r)
    /\ UNCHANGED wpc

\* enqueueRequest pushes and notifies under the unit's lock: one step.
Enqueue(r) ==
    /\ que' = Append(que, r)
    /\ wpc' = IF wpc = "waiting" THEN "start" ELSE wpc

\* writeResponse: what is written to a closed connection is lost.
Write(c, reply) ==
    replies' = [replies EXCEPT ![c] = IF conn[c] = "open" THEN Append(@, reply) ELSE @]

\* Mutant of Parsed: the requests are enqueued as they came off the wire.
ParsedRaw(c, j) == SubSeq(wire[c], 1, j)

\* The parsed form of the first j requests on c's wire.
Parsed(c, j) == [i \in 1 .. j |-> [client |-> c, n |-> wire[c][i].n]]

-----------------------------------------------------------------------------
(* The I/O thread.  It runs one handler at a time.                         *)

\* The accept handler starts to insert the session into mSessions.  It does
\* not take mSessionMapLock: the insertion is not one step for the worker.
AcceptBegin(c) ==
    /\ process = "running" /\ ioPc = "idle"
    /\ conn[c] # "new" /\ session[c] = "none"
    /\ ioPc' = "accepting"
    /\ ioClient' = c
    /\ UNCHANGED <<process, conn, sent, wire, session, pending, que, workerVars, replies>>

\* The session is in the map, and start() asks the socket for its peer.  When
\* the client has reset the connection by then, remote_endpoint throws out of
\* the handler and of io_service::run, and the process ends.
AcceptEnd(c) ==
    /\ process = "running" /\ ioPc = "accepting" /\ ioClient = c
    /\ session' = [session EXCEPT ![c] = "open"]
    /\ ioPc' = "idle"
    /\ \/ UNCHANGED process
       \/ conn[c] = "closed" /\ process' = "down"
    /\ UNCHANGED <<conn, sent, wire, ioClient, pending, que, workerVars, replies>>

\* A read delivers the first j requests written and all of them parse.
ReadOk(c) ==
    /\ process = "running" /\ ioPc = "idle" /\ session[c] = "open"
    /\ \E j \in 1 .. Len(wire[c]) :
          /\ \A i \in 1 .. j : wire[c][i].ok
          /\ pending' = Parsed(c, j)
          /\ wire' = [wire EXCEPT ![c] = SubSeq(@, j + 1, Len(@))]
    /\ ioPc' = "enqueuing"
    /\ ioClient' = c
    /\ UNCHANGED <<process, conn, sent, session, que, workerVars, replies>>

\* One of them does not: all are dropped and one error is written at once.
ReadBad(c) ==
    /\ process = "running" /\ ioPc = "idle" /\ session[c] = "open"
    /\ \E j \in 1 .. Len(wire[c]) :
          /\ \E i \in 1 .. j : ~wire[c][i].ok
          /\ wire' = [wire EXCEPT ![c] = SubSeq(@, j + 1, Len(@))]
    /\ Write(c, [n |-> wire[c][1].n, kind |-> "error"])
    /\ UNCHANGED <<process, conn, sent, session, ioVars, que, workerVars>>

\* The loop over the parsed commands.
EnqueueNext ==
    /\ process = "running" /\ ioPc = "enqueuing"
    /\ Enqueue(Head(pending))
    /\ pending' = Tail(pending)
    /\ ioPc' = IF Len(pending) = 1 THEN "idle" ELSE ioPc
    /\ UNCHANGED <<process, conn, sent, wire, session, ioClient, cur, served, replies>>

\* The read ends with an error: the session leaves the map, and is destroyed
\* when the handler returns.  What was not read is lost when the client reset
\* the connection.
Disconnect(c) ==
    /\ process = "running" /\ ioPc = "idle" /\ session[c] = "open"
    /\ conn[c] = "closed"
    /\ session' = [session EXCEPT ![c] = "gone"]
    /\ wire' = [wire EXCEPT ![c] = <<>>]
    /\ UNCHANGED <<process, conn, sent, ioVars, que, workerVars, replies>>

\* A request of the process itself: SelfTest's, or the stop of stopThreads.
EnqueueInternal ==
    /\ process = "running"
    /\ sent[Fake] < MaxInternal
    /\ sent' = [sent EXCEPT ![Fake] = @ + 1]
    /\ Enqueue([client |-> Fake, n |-> sent[Fake] + 1])
    /\ UNCHANGED <<process, conn, wire, session, ioVars, cur, served, replies>>

-----------------------------------------------------------------------------
(* The worker thread, processingThread.                                    *)

\* Mutant of Take: back() instead of front().
TakeNewest ==
    /\ process = "running" /\ wpc = "start" /\ que # <<>>
    /\ cur' = que[Len(que)]
    /\ que' = SubSeq(que, 1, Len(que) - 1)
    /\ wpc' = "lookup"
    /\ UNCHANGED <<process, conn, sent, wire, session, ioVars, served, replies>>

\* Mutant of Take: the pop is forgotten.
TakeWithoutPop ==
    /\ process = "running" /\ wpc = "start" /\ que # <<>>
    /\ cur' = Head(que)
    /\ wpc' = "lookup"
    /\ UNCHANGED <<process, conn, sent, wire, session, ioVars, que, served, replies>>

\* The predicate of the wait holds: the oldest request is taken.
Take ==
    /\ process = "running" /\ wpc = "start" /\ que # <<>>
    /\ cur' = Head(que)
    /\ que' = Tail(que)
    /\ wpc' = "lookup"
    /\ UNCHANGED <<process, conn, sent, wire, session, ioVars, served, replies>>

\* It does not: the worker blocks on the condition variable.
Wait ==
    /\ process = "running" /\ wpc = "start" /\ que = <<>>
    /\ wpc' = "waiting"
    /\ UNCHANGED <<process, conn, sent, wire, session, ioVars, que, cur, served, replies>>

SpuriousWakeup ==
    /\ process = "running" /\ wpc = "waiting"
    /\ wpc' = "start"
    /\ UNCHANGED <<process, conn, sent, wire, session, ioVars, que, cur, served, replies>>

\* getClientSession finds the session and returns a reference to it.
LookupHit ==
    /\ process = "running" /\ wpc = "lookup" /\ InMap(cur.client)
    /\ wpc' = "exec"
    /\ UNCHANGED <<process, conn, sent, wire, session, ioVars, que, cur, served, replies>>

\* It throws EWrongSessionID, outside executeEndToEnd's try block, and
\* processingThread breaks out of its loop.  A lookup that races the unlocked
\* insertion of the accept handler may miss a session that is there.
LookupMiss ==
    /\ process = "running" /\ wpc = "lookup"
    /\ ~InMap(cur.client) \/ ioPc = "accepting"
    /\ wpc' = "dead"
    /\ UNCHANGED <<process, conn, sent, wire, session, ioVars, que, cur, served, replies>>

\* The command runs and its reply is written to the session.  The session may
\* have left the map since the lookup; the reference to it still works if its
\* memory has not been reused, and the reply goes nowhere.
Execute ==
    /\ process = "running" /\ wpc = "exec"
    /\ served' = Append(served, cur)
    /\ IF InMap(cur.client)
          THEN Write(cur.client, [n |-> cur.n, kind |-> "result"])
          ELSE UNCHANGED replies
    /\ wpc' = "start"
    /\ UNCHANGED <<process, conn, sent, wire, session, ioVars, que, cur>>

\* The undefined behaviours of the two accesses above crash the process.
Crash ==
    /\ process = "running"
    /\ \/ wpc = "exec" /\ ~InMap(cur.client)
       \/ wpc = "lookup" /\ ioPc = "accepting"
    /\ process' = "down"
    /\ UNCHANGED <<conn, sent, wire, session, ioVars, que, workerVars, replies>>

-----------------------------------------------------------------------------

Client(c) == Connect(c) \/ Send(c) \/ Close(c)

IOThread ==
    \/ \E c \in Clients :
          AcceptBegin(c) \/ AcceptEnd(c) \/ ReadOk(c) \/ ReadBad(c) \/ Disconnect(c)
    \/ EnqueueNext

Worker == Take \/ Wait \/ LookupHit \/ LookupMiss \/ Execute

Next ==
    \/ \E c \in Clients : Client(c)
    \/ IOThread
    \/ EnqueueInternal
    \/ Worker
    \/ SpuriousWakeup
    \/ Crash

\* The operating system schedules both threads.  A ready handler is run: asio
\* takes completed operations in turn, so each client's have fairness of their
\* own.  Nobody owes anything else: clients need not write, nor crashes happen.
Fairness ==
    /\ WF_vars(EnqueueNext)
    /\ \A c \in Clients :
          /\ WF_vars(AcceptBegin(c) \/ AcceptEnd(c))
          /\ WF_vars(ReadOk(c) \/ ReadBad(c) \/ Disconnect(c))
    /\ WF_vars(Worker)

Spec == Init /\ [][Next]_vars

FairSpec == Spec /\ Fairness

-----------------------------------------------------------------------------
(* Properties.                                                             *)

\* The requests the unit was handed and has not served, oldest first.
Cur == IF wpc \in {"lookup", "exec"} THEN <<cur>> ELSE <<>>
Backlog == Cur \o que

\* The requests the server has read and not served.
Pipe == Backlog \o pending

Elements(s) == {s[i] : i \in DOMAIN s}

Alive == process = "running" /\ wpc # "dead"

Abs == INSTANCE FifoService WITH backlog <- Backlog, served <- served, alive <- Alive

\* The queue and the worker together are a FIFO service for both threads that
\* enqueue: whatever the interleaving, requests are served in the order in which
\* they were enqueued, none is skipped or served twice, and one is lost only when
\* the service ends (enqueueRequest, processingThread).
FifoRefinement == Abs!Spec

\* The requests of one client are executed in the order in which it sent them.
ServedInOrder ==
    \A i, j \in DOMAIN served :
        i < j /\ served[i].client = served[j].client => served[i].n < served[j].n

\* The worker never sleeps on a queue with work in it: the wait's predicate and
\* the notification under the same lock leave no room for a lost wakeup.
NoLostWakeup == wpc = "waiting" => que = <<>>

\* No request is answered twice, neither by the worker twice nor once by each
\* thread, and a result goes to the client whose request was executed.
RepliesMatchRequests ==
    \A c \in Clients :
        /\ \A i, j \in DOMAIN replies[c] : i # j => replies[c][i].n # replies[c][j].n
        /\ \A i \in DOMAIN replies[c] :
              (replies[c][i].kind = "result")
                  <=> ([client |-> c, n |-> replies[c][i].n] \in Elements(served))

\* While the service lasts every accepted request is executed in the end.
RequestsAreServed ==
    \A c \in Clients, n \in 1 .. MaxSent :
        LET r == [client |-> c, n |-> n]
        IN  r \in Elements(Pipe) ~> r \in Elements(served) \/ ~Alive

-----------------------------------------------------------------------------
(* Statements of the repository that the code does not keep.               *)

\* ClientSession.h: an instance "keeps waiting for requests from connected
\* client and writes responses back".  A client that stays connected gets a
\* reply to every request the server took from it, unless the process ends.
ConnectedClientsAreAnswered ==
    \A c \in Clients, n \in 1 .. MaxSent :
        [client |-> c, n |-> n] \in Elements(Pipe)
            ~> \/ \E i \in DOMAIN replies[c] : replies[c][i].n = n
               \/ conn[c] = "closed"
               \/ process = "down"

=============================================================================
