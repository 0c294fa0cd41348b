----------------------- MODULE RequestPipelineProofs -----------------------
(***************************************************************************)
(* Theorems about RequestPipeline, for any set of clients and any bounds   *)
(* of the workload: types and the wakeup of the worker, then that the      *)
(* queue and the worker implement FifoService, that the requests of each   *)
(* client are executed in its order, and that each is answered once.       *)
(***************************************************************************)
EXTENDS RequestPipeline, SequenceTheorems, TLAPS

\* writeResponse keeps the histories of replies well typed.
LEMMA WriteType ==
  ASSUME replies \in [Clients -> Seq(Reply)],
         NEW c \in Clients, NEW r \in Reply, Write(c, r)
  PROVE  replies' \in [Clients -> Seq(Reply)]
<1>1. replies[c] \in Seq(Reply)
  OBVIOUS
<1>2. Append(replies[c], r) \in Seq(Reply)
  BY <1>1, AppendProperties
<1> QED
  BY <1>1, <1>2 DEF Write

\* What the read handler has still to enqueue is there exactly while it runs, so
\* the loop of EnqueueNext never takes from an empty sequence.
PendingWhileEnqueuing == ioPc = "enqueuing" <=> pending # <<>>

TypeInv == TypeOK /\ PendingWhileEnqueuing

LEMMA TypeInvInit == Init => TypeInv
BY DEF Init, TypeInv, TypeOK, PendingWhileEnqueuing, Sources, Request

LEMMA TypeInvStep == TypeInv /\ [Next]_vars => TypeInv'
<1> SUFFICES ASSUME TypeInv, [Next]_vars PROVE TypeInv'
  OBVIOUS
<1> USE DEF TypeInv, TypeOK, PendingWhileEnqueuing
<1>1. ASSUME NEW c \in Clients, Connect(c) PROVE TypeInv'
  BY <1>1 DEF Connect, ioVars, workerVars
<1>2. ASSUME NEW c \in Clients, Send(c) PROVE TypeInv'
  <2>1. PICK ok \in BOOLEAN :
          wire' = [wire EXCEPT ![c] = Append(@, [n |-> sent[c] + 1, ok |-> ok])]
    BY <1>2 DEF Send
  <2>2. [n |-> sent[c] + 1, ok |-> ok] \in WireItem
    BY DEF WireItem, Sources
  <2>3. wire[c] \in Seq(WireItem)
    OBVIOUS
  <2>4. Append(wire[c], [n |-> sent[c] + 1, ok |-> ok]) \in Seq(WireItem)
    BY <2>2, <2>3, AppendProperties
  <2>5. wire' \in [Clients -> Seq(WireItem)]
    BY <2>1, <2>4
  <2> QED
    BY <1>2, <2>5 DEF Send, Sources, ioVars, workerVars
<1>3. ASSUME NEW c \in Clients, Close(c) PROVE TypeInv'
  BY <1>3 DEF Close, ioVars, workerVars
<1>4. ASSUME NEW c \in Clients, AcceptBegin(c) PROVE TypeInv'
  BY <1>4 DEF AcceptBegin, Sources, ioVars, workerVars
<1>5. ASSUME NEW c \in Clients, AcceptEnd(c) PROVE TypeInv'
  BY <1>5 DEF AcceptEnd, ioVars, workerVars
<1>6. ASSUME NEW c \in Clients, ReadOk(c) PROVE TypeInv'
  <2>1. PICK j \in 1 .. Len(wire[c]) :
          /\ pending' = Parsed(c, j)
          /\ wire' = [wire EXCEPT ![c] = SubSeq(@, j + 1, Len(@))]
    BY <1>6 DEF ReadOk
  <2>2. wire[c] \in Seq(WireItem) /\ Len(wire[c]) \in Nat /\ j \in Nat
    OBVIOUS
  <2>3. \A i \in 1 .. Len(wire[c]) : wire[c][i] \in WireItem
    BY <2>2, ElementOfSeq
  <2>4. SubSeq(wire[c], j + 1, Len(wire[c])) \in Seq(WireItem)
    BY <2>2, <2>3
  <2>5. wire' \in [Clients -> Seq(WireItem)]
    BY <2>1, <2>4
  <2>6. \A i \in 1 .. j : [client |-> c, n |-> wire[c][i].n] \in Request
    <3> TAKE i \in 1 .. j
    <3>1. i \in 1 .. Len(wire[c])
      BY <2>2
    <3>2. wire[c][i].n \in Nat
      BY <2>3, <3>1 DEF WireItem
    <3> QED
      BY <3>2 DEF Request, Sources
  <2>7. pending' \in Seq(Request)
    BY <2>1, <2>2, <2>6 DEF Parsed
  <2>8. pending' # <<>>
    <3>1. 1 \in DOMAIN pending'
      BY <2>1, <2>2 DEF Parsed
    <3> QED
      BY <3>1
  <2> QED
    BY <1>6, <2>5, <2>7, <2>8 DEF ReadOk, Sources, workerVars
<1>7. ASSUME NEW c \in Clients, ReadBad(c) PROVE TypeInv'
  <2>1. PICK j \in 1 .. Len(wire[c]) :
          wire' = [wire EXCEPT ![c] = SubSeq(@, j + 1, Len(@))]
    BY <1>7 DEF ReadBad
  <2>2. wire[c] \in Seq(WireItem) /\ Len(wire[c]) \in Nat /\ j \in Nat
    OBVIOUS
  <2>3. \A i \in 1 .. Len(wire[c]) : wire[c][i] \in WireItem
    BY <2>2, ElementOfSeq
  <2>4. wire' \in [Clients -> Seq(WireItem)]
    BY <2>1, <2>2, <2>3
  <2>5. [n |-> wire[c][1].n, kind |-> "error"] \in Reply
    BY <2>2, <2>3 DEF Reply, WireItem
  <2>6. replies' \in [Clients -> Seq(Reply)]
    BY <1>7, <2>5, WriteType DEF ReadBad
  <2> QED
    BY <1>7, <2>4, <2>6 DEF ReadBad, ioVars, workerVars
<1>8. ASSUME NEW c \in Clients, Disconnect(c) PROVE TypeInv'
  BY <1>8 DEF Disconnect, ioVars, workerVars
<1>9. CASE EnqueueNext
  <2>1. Head(pending) \in Request /\ Tail(pending) \in Seq(Request)
    BY <1>9, HeadTailProperties DEF EnqueueNext
  <2>2. Len(pending) = 1 <=> Tail(pending) = <<>>
    <3>1. pending \in Seq(Request) /\ pending # <<>>
      BY <1>9 DEF EnqueueNext
    <3>2. Len(Tail(pending)) = Len(pending) - 1 /\ Len(pending) \in Nat
      BY <3>1, HeadTailProperties, LenProperties
    <3>3. Len(Tail(pending)) = 0 <=> Tail(pending) = <<>>
      BY <2>1, EmptySeq
    <3> QED
      BY <3>2, <3>3
  <2>3. que' \in Seq(Request)
    BY <1>9, <2>1, AppendProperties DEF EnqueueNext, Enqueue
  <2> QED
    BY <1>9, <2>1, <2>2, <2>3 DEF EnqueueNext, Enqueue
<1>10. CASE EnqueueInternal
  <2>1. [client |-> Fake, n |-> sent[Fake] + 1] \in Request
    BY DEF Request, Sources
  <2> QED
    BY <1>10, <2>1 DEF EnqueueInternal, Enqueue, Sources, ioVars
<1>11. CASE Take
  BY <1>11, HeadTailProperties DEF Take, ioVars
<1>12. CASE Wait
  BY <1>12 DEF Wait, ioVars
<1>13. CASE LookupHit
  BY <1>13 DEF LookupHit, ioVars
<1>14. CASE LookupMiss
  BY <1>14 DEF LookupMiss, ioVars
<1>15. CASE Execute
  <2>1. InMap(cur.client) => [n |-> cur.n, kind |-> "result"] \in Reply
    BY DEF Reply, Request
  <2>2. replies' \in [Clients -> Seq(Reply)]
    <3>1. CASE InMap(cur.client)
      BY <1>15, <2>1, <3>1, WriteType DEF Execute, InMap
    <3>2. CASE ~InMap(cur.client)
      BY <1>15, <3>2 DEF Execute
    <3> QED
      BY <3>1, <3>2
  <2>3. served' \in Seq(Request)
    BY <1>15 DEF Execute
  <2> QED
    BY <1>15, <2>2, <2>3 DEF Execute, ioVars
<1>16. CASE SpuriousWakeup
  BY <1>16 DEF SpuriousWakeup, ioVars
<1>17. CASE Crash
  BY <1>17 DEF Crash, ioVars, workerVars
<1>18. CASE UNCHANGED vars
  BY <1>18 DEF vars, ioVars, workerVars
<1> QED
  BY <1>1, <1>2, <1>3, <1>4, <1>5, <1>6, <1>7, <1>8, <1>9, <1>10, <1>11, <1>12,
     <1>13, <1>14, <1>15, <1>16, <1>17, <1>18 DEF Next, Client, IOThread, Worker

\* Every step keeps every variable within its type: no queue, wire or history
\* ever holds anything but requests, and a reply goes to a client only.
THEOREM TypeCorrect == Spec => []TypeOK
<1>1. TypeInv => TypeOK
  BY DEF TypeInv
<1> QED
  BY <1>1, TypeInvInit, TypeInvStep, PTL DEF Spec

\* The worker never sleeps while its queue has a request: enqueueRequest's
\* notification wakes it, and it goes to sleep on an empty queue only.
THEOREM WorkerNeverOversleeps == Spec => []NoLostWakeup
<1>1. Init => NoLostWakeup
  BY DEF Init, NoLostWakeup
<1>2. NoLostWakeup /\ [Next]_vars => NoLostWakeup'
  <2> SUFFICES ASSUME NoLostWakeup, [Next]_vars PROVE NoLostWakeup'
    OBVIOUS
  <2> USE DEF NoLostWakeup
  <2>1. ASSUME NEW c \in Clients, Client(c) PROVE NoLostWakeup'
    BY <2>1 DEF Client, Connect, Send, Close, workerVars
  <2>2. CASE IOThread
    BY <2>2 DEF IOThread, AcceptBegin, AcceptEnd, ReadOk, ReadBad, Disconnect,
                EnqueueNext, Enqueue, workerVars
  <2>3. CASE EnqueueInternal
    BY <2>3 DEF EnqueueInternal, Enqueue
  <2>4. CASE Worker
    BY <2>4 DEF Worker, Take, Wait, LookupHit, LookupMiss, Execute
  <2>5. CASE SpuriousWakeup
    BY <2>5 DEF SpuriousWakeup
  <2>6. CASE Crash
    BY <2>6 DEF Crash, workerVars
  <2>7. CASE UNCHANGED vars
    BY <2>7 DEF vars, workerVars
  <2> QED
    BY <2>1, <2>2, <2>3, <2>4, <2>5, <2>6, <2>7 DEF Next
<1> QED
  BY <1>1, <1>2, PTL DEF Spec

-----------------------------------------------------------------------------
(* Facts about sequences of requests.                                      *)

\* A request at the end of the last part is one at the end of the whole.
LEMMA AppendToLast ==
  ASSUME NEW S, NEW s \in Seq(S), NEW t \in Seq(S), NEW e \in S
  PROVE  s \o Append(t, e) = Append(s \o t, e)
<1>1. Append(t, e) = t \o <<e>> /\ <<e>> \in Seq(S)
  BY AppendIsConcat
<1>2. s \o t \in Seq(S)
  BY ConcatProperties
<1>3. Append(s \o t, e) = (s \o t) \o <<e>>
  BY <1>2, AppendIsConcat
<1> QED
  BY <1>1, <1>3, ConcatAssociative

\* The head in front of the tail is the sequence.
LEMMA HeadThenTail ==
  ASSUME NEW S, NEW s \in Seq(S), s # <<>>
  PROVE  /\ Head(s) \in S /\ Tail(s) \in Seq(S)
         /\ <<Head(s)>> \o Tail(s) = s
<1>1. Len(s) \in Nat \ {0}
  BY EmptySeq
<1>2. Head(s) \in S /\ Tail(s) \in Seq(S)
  BY HeadTailProperties
<1>3. SubSeq(s, 1, Len(s)) = <<s[1]>> \o SubSeq(s, 2, Len(s))
  BY <1>1, SubSeqRecursiveFirst
<1>4. SubSeq(s, 1, Len(s)) = s
  BY SubSeqFull
<1>5. SubSeq(s, 2, Len(s)) = Tail(s)
  BY TailIsSubSeq
<1>6. s[1] = Head(s)
  OBVIOUS
<1> QED
  BY <1>2, <1>3, <1>4, <1>5, <1>6

-----------------------------------------------------------------------------
(* The queue and the worker implement FifoService.                         *)

\* A request handed to the unit joins the end of the backlog.
LEMMA EnqueueAccepts ==
  ASSUME TypeOK, NEW r \in Request, Enqueue(r), UNCHANGED <<process, cur, served>>
  PROVE  Abs!Accept
<1>1. Cur' = Cur /\ Alive' = Alive
  BY DEF TypeOK, Enqueue, Cur, Alive
<1>2. que \in Seq(Request) /\ Cur \in Seq(Request)
  BY DEF TypeOK, Cur
<1>3. Backlog' = Append(Backlog, r)
  BY <1>1, <1>2, AppendToLast DEF Enqueue, Backlog
<1>4. Backlog \in Seq(Request)
  BY <1>2, ConcatProperties DEF Backlog
<1>5. /\ Append(Backlog, r) # <<>>
      /\ Append(Backlog, r)[Len(Append(Backlog, r))] = r
  BY <1>4, AppendProperties
<1> QED
  BY <1>1, <1>3, <1>5 DEF Abs!Accept

\* Taking a request leaves the backlog as it is.
LEMMA TakeStutters ==
  ASSUME TypeOK, Take
  PROVE  UNCHANGED <<Backlog, served, Alive>>
<1>1. que \in Seq(Request) /\ que # <<>>
  BY DEF TypeOK, Take
<1>2. Cur = <<>> /\ Cur' = <<Head(que)>> /\ que' = Tail(que)
  BY DEF Take, Cur
<1>3. <<Head(que)>> \o Tail(que) = que /\ <<>> \o que = que
  BY <1>1, HeadThenTail, ConcatEmptySeq
<1>4. Backlog' = Backlog
  BY <1>2, <1>3 DEF Backlog
<1> QED
  BY <1>4 DEF Take, Alive

\* While the worker holds a request, that is the head of the backlog.
LEMMA HoldingHead ==
  ASSUME TypeOK, wpc \in {"lookup", "exec"}
  PROVE  Backlog # <<>> /\ Head(Backlog) = cur /\ Tail(Backlog) = que
<1>1. cur \in Request /\ que \in Seq(Request)
  BY DEF TypeOK
<1>2. Backlog = <<cur>> \o que
  BY DEF Backlog, Cur
<1>3. <<cur>> \in Seq(Request)
  BY <1>1
<1> QED
  BY <1>1, <1>2, <1>3, ConcatProperties

\* Every step of the pipeline is a step of FifoService or leaves it unchanged.
LEMMA FifoStep ==
  ASSUME TypeInv, [Next]_vars
  PROVE  [Abs!Next]_(Abs!vars)
<1> USE DEF TypeInv
<1>1. ASSUME NEW c \in Clients,
             \/ Client(c) \/ AcceptBegin(c) \/ ReadOk(c) \/ ReadBad(c) \/ Disconnect(c)
      PROVE  UNCHANGED Abs!vars
  BY <1>1 DEF Client, Connect, Send, Close, AcceptBegin, ReadOk, ReadBad, Disconnect,
              workerVars, Abs!vars, Backlog, Cur, Alive
<1>2. ASSUME NEW c \in Clients, AcceptEnd(c) PROVE [Abs!Next]_(Abs!vars)
  BY <1>2 DEF AcceptEnd, workerVars, Abs!vars, Abs!Next, Abs!End, Backlog, Cur, Alive
<1>3. CASE EnqueueNext
  <2>1. pending \in Seq(Request) /\ pending # <<>>
    BY <1>3 DEF EnqueueNext, PendingWhileEnqueuing, TypeOK
  <2>2. Head(pending) \in Request
    BY <2>1, HeadTailProperties
  <2> QED
    BY <1>3, <2>2, EnqueueAccepts DEF EnqueueNext, Abs!Next
<1>4. CASE EnqueueInternal
  <2>1. [client |-> Fake, n |-> sent[Fake] + 1] \in Request
    BY DEF TypeOK, Request, Sources
  <2> QED
    BY <1>4, <2>1, EnqueueAccepts DEF EnqueueInternal, Abs!Next
<1>5. CASE Take
  BY <1>5, TakeStutters DEF Abs!vars
<1>6. CASE Wait \/ SpuriousWakeup \/ LookupHit
  BY <1>6 DEF Wait, SpuriousWakeup, LookupHit, Abs!vars, Backlog, Cur, Alive
<1>7. CASE LookupMiss
  <2>1. Backlog # <<>> /\ Tail(Backlog) = que
    BY <1>7, HoldingHead DEF LookupMiss
  <2>2. Backlog' = que
    <3>1. Backlog' = <<>> \o que
      BY <1>7 DEF LookupMiss, Backlog, Cur
    <3> QED
      BY <3>1, ConcatEmptySeq DEF TypeOK
  <2>3. Alive /\ Alive' = FALSE /\ served' = served
    BY <1>7 DEF LookupMiss, Alive
  <2> QED
    BY <2>1, <2>2, <2>3 DEF Abs!Next, Abs!End
<1>8. CASE Execute
  <2>1. Backlog # <<>> /\ Tail(Backlog) = que /\ Head(Backlog) = cur
    BY <1>8, HoldingHead DEF Execute
  <2>2. Backlog' = que
    <3>1. Backlog' = <<>> \o que
      BY <1>8 DEF Execute, Backlog, Cur
    <3> QED
      BY <3>1, ConcatEmptySeq DEF TypeOK
  <2>3. Alive /\ Alive' = Alive /\ served' = Append(served, cur)
    BY <1>8 DEF Execute, Alive
  <2> QED
    BY <2>1, <2>2, <2>3 DEF Abs!Next, Abs!Serve
<1>9. CASE Crash
  BY <1>9 DEF Crash, workerVars, Abs!Next, Abs!End, Backlog, Cur, Alive
<1>10. CASE UNCHANGED vars
  BY <1>10 DEF vars, workerVars, Abs!vars, Backlog, Cur, Alive
<1> QED
  BY <1>1, <1>2, <1>3, <1>4, <1>5, <1>6, <1>7, <1>8, <1>9, <1>10
     DEF Next, IOThread, Worker

\* The queue and the worker are a FIFO service for any clients and any load:
\* requests are served in the order of enqueueRequest's calls, each at most once,
\* and one is lost only when the worker or the process ends.
THEOREM PipelineIsFifo == Spec => FifoRefinement
<1>1. Init => Abs!Init
  BY ConcatEmptySeq DEF Init, Abs!Init, Backlog, Cur, Alive
<1>2. TypeInv /\ [Next]_vars => [Abs!Next]_(Abs!vars)
  BY FifoStep
<1> QED
  BY <1>1, <1>2, TypeInvInit, TypeInvStep, PTL DEF Spec, Abs!Spec, FifoRefinement

-----------------------------------------------------------------------------
(* The requests of a client are executed in order.                         *)

\* The requests that have reached the queue, oldest first: executed, in the
\* worker's hands or waiting.  A lookup that misses leaves its request here.
Taken == IF wpc \in {"lookup", "exec", "dead"} THEN <<cur>> ELSE <<>>
Line == (served \o Taken) \o que

Before(r, s) == r.client = s.client => r.n < s.n
Ordered(q) == \A i, j \in 1 .. Len(q) : i < j => Before(q[i], q[j])

\* A request that was read has left its client, and all that is still on the
\* wire was sent after it.
BehindWire(r) ==
    /\ r.n <= sent[r.client]
    /\ r.client \in Clients =>
          \A i \in 1 .. Len(wire[r.client]) : r.n < wire[r.client][i].n

WireOrdered(c) ==
    /\ \A i \in 1 .. Len(wire[c]) : wire[c][i].n <= sent[c]
    /\ \A i, j \in 1 .. Len(wire[c]) : i < j => wire[c][i].n < wire[c][j].n

\* On its way from the wire over pending and the queue to the worker no request
\* overtakes another of the same client.
LineInv ==
    /\ Ordered(Line)
    /\ \A i \in 1 .. Len(Line) : BehindWire(Line[i])

PendingInv ==
    /\ Ordered(pending)
    /\ \A i \in 1 .. Len(pending) : pending[i].client \in Clients /\ BehindWire(pending[i])
    /\ \A i \in 1 .. Len(Line), j \in 1 .. Len(pending) : Before(Line[i], pending[j])

OrderInv ==
    /\ TypeInv
    /\ LineInv
    /\ PendingInv
    /\ \A c \in Clients : WireOrdered(c)

LEMMA LineType ==
  ASSUME TypeOK
  PROVE  /\ Line \in Seq(Request) /\ Taken \in Seq(Request)
         /\ served \o Taken \in Seq(Request)
         /\ que \in Seq(Request) /\ served \in Seq(Request)
<1>1. served \in Seq(Request) /\ Taken \in Seq(Request) /\ que \in Seq(Request)
  BY DEF TypeOK, Taken
<1>2. served \o Taken \in Seq(Request)
  BY <1>1, ConcatProperties
<1> QED
  BY <1>1, <1>2, ConcatProperties DEF Line

\* A request handed to the unit joins the end of the line.
LEMMA EnqueueLine ==
  ASSUME TypeOK, NEW r \in Request, Enqueue(r), UNCHANGED <<cur, served>>
  PROVE  Line' = Append(Line, r)
<1>1. Taken' = Taken
  BY DEF TypeOK, Enqueue, Taken
<1>2. que' = Append(que, r) /\ served' = served
  BY DEF Enqueue
<1>3. (served \o Taken) \o Append(que, r) = Append((served \o Taken) \o que, r)
  <2>1. served \o Taken \in Seq(Request) /\ que \in Seq(Request)
    BY LineType, Zenon
  <2> QED
    BY <2>1, AppendToLast
<1> QED
  BY <1>1, <1>2, <1>3, Zenon DEF Line

\* The worker's steps leave the line as it is.
LEMMA WorkerLine ==
  ASSUME TypeOK, Worker
  PROVE  Line' = Line
<1>1. CASE Take
  <2>1. que # <<>> /\ Taken = <<>> /\ Taken' = <<Head(que)>> /\ que' = Tail(que)
        /\ served' = served
    BY <1>1 DEF Take, Taken
  <2>2. <<Head(que)>> \o Tail(que) = que /\ Tail(que) \in Seq(Request)
        /\ <<Head(que)>> \in Seq(Request)
    BY <2>1, LineType, HeadThenTail
  <2>3. (served \o <<Head(que)>>) \o Tail(que) = served \o que
    <3>1. served \in Seq(Request)
      BY LineType, Zenon
    <3>2. (served \o <<Head(que)>>) \o Tail(que) = served \o (<<Head(que)>> \o Tail(que))
      BY <2>2, <3>1, ConcatAssociative
    <3> QED
      BY <2>2, <3>2, Zenon
  <2>4. served \o <<>> = served
    BY LineType, ConcatEmptySeq
  <2>5. Line = served \o que
    <3>1. Line = (served \o <<>>) \o que
      BY <2>1, Zenon DEF Line
    <3> QED
      BY <2>4, <3>1, Zenon
  <2>6. Line' = (served \o <<Head(que)>>) \o Tail(que)
    BY <2>1, Zenon DEF Line
  <2> QED
    BY <2>3, <2>5, <2>6, Zenon
<1>2. CASE Execute
  <2>1. cur \in Request
    BY DEF TypeOK
  <2>2. Taken = <<cur>> /\ Taken' = <<>> /\ served' = Append(served, cur) /\ que' = que
    BY <1>2 DEF Execute, Taken
  <2>3. Append(served, cur) = served \o <<cur>> /\ Append(served, cur) \in Seq(Request)
    BY <2>1, LineType, AppendIsConcat, AppendProperties
  <2>4. Append(served, cur) \o <<>> = Append(served, cur)
    BY <2>3, ConcatEmptySeq
  <2> QED
    BY <2>2, <2>3, <2>4 DEF Line
<1>3. CASE Wait \/ LookupHit \/ LookupMiss
  BY <1>3 DEF Wait, LookupHit, LookupMiss, Line, Taken
<1> QED
  BY <1>1, <1>2, <1>3 DEF Worker

\* What is left of a wire after a read keeps its order and stays behind every
\* request that was read before.
LEMMA WireSuffix ==
  ASSUME TypeOK, NEW c \in Clients, NEW j \in 0 .. Len(wire[c]),
         wire' = [wire EXCEPT ![c] = SubSeq(@, j + 1, Len(@))],
         sent' = sent
  PROVE  /\ \A d \in Clients : WireOrdered(d) => WireOrdered(d)'
         /\ \A r \in Request : BehindWire(r) => BehindWire(r)'
<1>1. wire[c] \in Seq(WireItem) /\ Len(wire[c]) \in Nat /\ j \in Nat
  BY DEF TypeOK
<1>2. \A i \in 1 .. Len(wire[c]) : wire[c][i] \in WireItem
  BY <1>1, ElementOfSeq
<1>3. /\ Len(SubSeq(wire[c], j + 1, Len(wire[c]))) = Len(wire[c]) - j
      /\ \A i \in 1 .. Len(wire[c]) - j :
            SubSeq(wire[c], j + 1, Len(wire[c]))[i] = wire[c][i + j]
  BY <1>1, <1>2
<1>4. /\ Len(wire'[c]) = Len(wire[c]) - j
      /\ \A i \in 1 .. Len(wire'[c]) : wire'[c][i] = wire[c][i + j]
      /\ \A i \in 1 .. Len(wire'[c]) : i \in Nat /\ i + j \in 1 .. Len(wire[c])
      /\ \A d \in Clients : d # c => wire'[d] = wire[d]
  BY <1>1, <1>3 DEF TypeOK
<1>5. ASSUME NEW d \in Clients, WireOrdered(d) PROVE WireOrdered(d)'
  <2>1. CASE d = c
    <3>1. ASSUME NEW i \in 1 .. Len(wire'[c]) PROVE wire'[c][i].n <= sent'[c]
      BY <1>4, <1>5, <2>1, <3>1 DEF WireOrdered
    <3>2. ASSUME NEW i \in 1 .. Len(wire'[c]), NEW k \in 1 .. Len(wire'[c]), i < k
          PROVE  wire'[c][i].n < wire'[c][k].n
      <4>1. i + j < k + j /\ i + j \in 1 .. Len(wire[c]) /\ k + j \in 1 .. Len(wire[c])
        BY <1>1, <1>4, <3>2
      <4> QED
        BY <1>4, <1>5, <2>1, <4>1 DEF WireOrdered
    <3> QED
      BY <2>1, <3>1, <3>2 DEF WireOrdered
  <2>2. CASE d # c
    BY <1>4, <1>5, <2>2 DEF WireOrdered
  <2> QED
    BY <2>1, <2>2
<1>6. ASSUME NEW r \in Request, BehindWire(r) PROVE BehindWire(r)'
  <2>1. CASE r.client = c
    <3>1. ASSUME NEW i \in 1 .. Len(wire'[c]) PROVE r.n < wire'[c][i].n
      BY <1>4, <1>6, <2>1, <3>1 DEF BehindWire
    <3> QED
      BY <1>6, <2>1, <3>1 DEF BehindWire
  <2>2. CASE r.client # c
    BY <1>4, <1>6, <2>2 DEF BehindWire
  <2> QED
    BY <2>1, <2>2
<1> QED
  BY <1>5, <1>6

\* A step that changes no request, no wire and no counter keeps the order.
LEMMA OrderUnchanged ==
  ASSUME OrderInv, TypeInv', UNCHANGED <<Line, pending, wire, sent>>
  PROVE  OrderInv'
BY DEF OrderInv, LineInv, PendingInv, WireOrdered, BehindWire, Ordered

\* Appending a request that comes after all the others keeps the order.
LEMMA AppendOrdered ==
  ASSUME NEW q \in Seq(Request), NEW r \in Request, Ordered(q),
         \A i \in 1 .. Len(q) : Before(q[i], r)
  PROVE  Ordered(Append(q, r))
<1>1. /\ Len(Append(q, r)) = Len(q) + 1 /\ Len(q) \in Nat
      /\ \A i \in 1 .. Len(q) : Append(q, r)[i] = q[i]
      /\ Append(q, r)[Len(q) + 1] = r
  BY AppendProperties, LenProperties
<1>2. ASSUME NEW i \in 1 .. Len(q) + 1, NEW j \in 1 .. Len(q) + 1, i < j
      PROVE  Before(Append(q, r)[i], Append(q, r)[j])
  <2>1. i \in 1 .. Len(q)
    BY <1>1, <1>2
  <2>2. CASE j \in 1 .. Len(q)
    BY <1>1, <1>2, <2>1, <2>2 DEF Ordered
  <2>3. CASE j = Len(q) + 1
    BY <1>1, <2>1, <2>3
  <2> QED
    BY <1>1, <2>2, <2>3
<1> QED
  BY <1>1, <1>2 DEF Ordered

\* The line grows by a request that was produced and is ahead of the wire.
LEMMA LineGrows ==
  ASSUME OrderInv, NEW r \in Request, Line' = Append(Line, r), wire' = wire,
         \A s \in Request : BehindWire(s) => BehindWire(s)',
         BehindWire(r)',
         \A i \in 1 .. Len(Line) : Before(Line[i], r)
  PROVE  LineInv'
<1>1. Line \in Seq(Request)
  BY LineType DEF OrderInv, TypeInv
<1>2. Ordered(Line')
  BY <1>1, AppendOrdered DEF OrderInv, LineInv
<1>3. /\ Len(Line') = Len(Line) + 1 /\ Len(Line) \in Nat
      /\ \A i \in 1 .. Len(Line) : Line'[i] = Line[i] /\ Line[i] \in Request
      /\ Line'[Len(Line) + 1] = r
  BY <1>1, AppendProperties, LenProperties, ElementOfSeq
<1>4. \A i \in 1 .. Len(Line') : BehindWire(Line[i])' 
  <2> TAKE i \in 1 .. Len(Line')
  <2>1. ASSUME NEW s \in Request, Line'[i] = s, BehindWire(s)' PROVE BehindWire(Line[i])'
    BY <2>1 DEF BehindWire
  <2>2. CASE i \in 1 .. Len(Line)
    <3>1. Line[i] \in Request /\ BehindWire(Line[i]) /\ Line'[i] = Line[i]
      BY <1>3, <2>2 DEF OrderInv, LineInv
    <3> QED
      BY <2>1, <3>1
  <2>3. CASE i = Len(Line) + 1
    BY <1>3, <2>1, <2>3
  <2> QED
    BY <1>3, <2>2, <2>3
<1> QED
  BY <1>2, <1>4 DEF LineInv, Ordered

\* What was read stays behind the wire when more is sent.
LEMMA SendBehind ==
  ASSUME TypeOK, NEW c \in Clients, Send(c), NEW r \in Request, BehindWire(r)
  PROVE  BehindWire(r)'
<1>1. PICK w \in WireItem :
        /\ w.n = sent[c] + 1
        /\ wire' = [wire EXCEPT ![c] = Append(@, w)]
        /\ sent' = [sent EXCEPT ![c] = sent[c] + 1]
  <2>1. PICK ok \in BOOLEAN : wire' = [wire EXCEPT ![c] = Append(@, [n |-> sent[c] + 1, ok |-> ok])]
    BY DEF Send
  <2>2. sent[c] + 1 \in Nat
    BY DEF TypeOK, Sources
  <2>3. [n |-> sent[c] + 1, ok |-> ok] \in WireItem
    BY <2>2 DEF WireItem
  <2> QED
    BY <2>1, <2>3 DEF Send
<1>2. wire[c] \in Seq(WireItem) /\ sent[c] \in Nat /\ c \in Sources
  BY DEF TypeOK, Sources
<1>3. /\ Len(wire'[c]) = Len(wire[c]) + 1 /\ Len(wire[c]) \in Nat
      /\ \A i \in 1 .. Len(wire[c]) : wire'[c][i] = wire[c][i] /\ wire[c][i] \in WireItem
      /\ wire'[c][Len(wire[c]) + 1] = w
      /\ \A d \in Clients : d # c => wire'[d] = wire[d]
      /\ \A d \in Sources : d # c => sent'[d] = sent[d]
      /\ sent'[c] = sent[c] + 1
  BY <1>1, <1>2, AppendProperties, LenProperties, ElementOfSeq DEF TypeOK, Sources
<1>4. r.n \in Nat /\ r.client \in Sources
  BY DEF Request
<1>5. CASE r.client = c
  <2>1. r.n <= sent'[c]
    BY <1>2, <1>3, <1>4, <1>5 DEF BehindWire
  <2>2. ASSUME NEW i \in 1 .. Len(wire'[c]) PROVE r.n < wire'[c][i].n
    BY <1>1, <1>2, <1>3, <1>4, <1>5 DEF BehindWire
  <2> QED
    BY <1>5, <2>1, <2>2 DEF BehindWire
<1>6. CASE r.client # c
  BY <1>3, <1>4, <1>6 DEF BehindWire
<1> QED
  BY <1>5, <1>6

\* A client writes behind everything it wrote before.
LEMMA SendKeepsOrder ==
  ASSUME OrderInv, TypeInv', NEW c \in Clients, Send(c)
  PROVE  OrderInv'
<1> USE DEF OrderInv, TypeInv
<1>1. PICK w \in WireItem :
        /\ w.n = sent[c] + 1
        /\ wire' = [wire EXCEPT ![c] = Append(@, w)]
        /\ sent' = [sent EXCEPT ![c] = sent[c] + 1]
  BY DEF Send, WireItem, TypeOK, Sources
<1>2. wire[c] \in Seq(WireItem) /\ sent[c] \in Nat /\ c \in Sources
  BY DEF TypeOK, Sources
<1>3. /\ Len(wire'[c]) = Len(wire[c]) + 1 /\ Len(wire[c]) \in Nat
      /\ \A i \in 1 .. Len(wire[c]) : wire'[c][i] = wire[c][i] /\ wire[c][i] \in WireItem
      /\ wire'[c][Len(wire[c]) + 1] = w
      /\ \A d \in Clients : d # c => wire'[d] = wire[d] /\ sent'[d] = sent[d]
      /\ sent'[c] = sent[c] + 1
  BY <1>1, <1>2, AppendProperties, LenProperties, ElementOfSeq DEF TypeOK, Sources
<1>4. \A d \in Clients : WireOrdered(d)'
  <2> TAKE d \in Clients
  <2>1. CASE d = c
    <3>1. ASSUME NEW i \in 1 .. Len(wire'[c]) PROVE wire'[c][i].n <= sent'[c]
      BY <1>1, <1>2, <1>3 DEF WireOrdered, WireItem
    <3>2. ASSUME NEW i \in 1 .. Len(wire'[c]), NEW j \in 1 .. Len(wire'[c]), i < j
          PROVE  wire'[c][i].n < wire'[c][j].n
      <4>1. i \in 1 .. Len(wire[c])
        BY <1>3, <3>2
      <4>2. wire'[c][i].n <= sent[c] /\ wire'[c][i].n \in Nat
        BY <1>3, <4>1 DEF WireOrdered, WireItem
      <4>3. CASE j \in 1 .. Len(wire[c])
        BY <1>3, <3>2, <4>1, <4>3 DEF WireOrdered
      <4>4. CASE j = Len(wire[c]) + 1
        BY <1>1, <1>2, <1>3, <4>2, <4>4
      <4> QED
        BY <1>3, <4>3, <4>4
    <3> QED
      BY <2>1, <3>1, <3>2 DEF WireOrdered
  <2>2. CASE d # c
    BY <1>3, <2>2 DEF WireOrdered
  <2> QED
    BY <2>1, <2>2
<1>5. \A r \in Request : BehindWire(r) => BehindWire(r)'
  BY SendBehind
<1>6. Line' = Line /\ pending' = pending
  BY DEF Send, Line, Taken, ioVars, workerVars
<1>7. /\ \A i \in 1 .. Len(Line) : Line[i] \in Request
      /\ \A i \in 1 .. Len(pending) : pending[i] \in Request
  BY LineType, ElementOfSeq DEF TypeOK
<1>8. \A i \in 1 .. Len(Line) : BehindWire(Line[i])'
  BY <1>5, <1>6, <1>7 DEF LineInv, BehindWire
<1>9. \A i \in 1 .. Len(pending) : BehindWire(pending[i])'
  BY <1>5, <1>6, <1>7 DEF PendingInv, BehindWire
<1> QED
  BY <1>4, <1>6, <1>8, <1>9 DEF LineInv, PendingInv, Ordered

\* The line keeps its order while requests it holds stay behind the wires.
LEMMA LineKept ==
  ASSUME OrderInv, Line' = Line,
         \A r \in Request : BehindWire(r) => BehindWire(r)'
  PROVE  LineInv'
<1>1. \A i \in 1 .. Len(Line) : Line[i] \in Request
  BY LineType, ElementOfSeq DEF OrderInv, TypeInv
<1>2. \A i \in 1 .. Len(Line) : BehindWire(Line[i])'
  BY <1>1 DEF OrderInv, LineInv, BehindWire
<1> QED
  BY <1>2 DEF OrderInv, LineInv, Ordered

\* A read that parses moves the first requests of a wire to pending.
LEMMA ReadOkKeepsOrder ==
  ASSUME OrderInv, TypeInv', NEW c \in Clients, ReadOk(c)
  PROVE  OrderInv'
<1> USE DEF OrderInv, TypeInv
<1>1. PICK j \in 1 .. Len(wire[c]) :
        /\ pending' = [i \in 1 .. j |-> [client |-> c, n |-> wire[c][i].n]]
        /\ wire' = [wire EXCEPT ![c] = SubSeq(@, j + 1, Len(@))]
  BY DEF ReadOk, Parsed
<1>2. wire[c] \in Seq(WireItem) /\ Len(wire[c]) \in Nat /\ j \in 0 .. Len(wire[c])
  BY DEF TypeOK
<1>3. sent' = sent /\ Line' = Line
  BY DEF ReadOk, Line, Taken, workerVars
<1>4. /\ \A d \in Clients : WireOrdered(d)'
      /\ \A r \in Request : BehindWire(r) => BehindWire(r)'
  BY <1>1, <1>2, <1>3, WireSuffix
<1>5. LineInv'
  BY <1>3, <1>4, LineKept
<1>6. /\ Len(pending') = j
      /\ \A i \in 1 .. j : /\ i \in 1 .. Len(wire[c])
                           /\ pending'[i] = [client |-> c, n |-> wire[c][i].n]
  BY <1>1, <1>2 
<1>7. Ordered(pending)'
  BY <1>6 DEF Ordered, Before, WireOrdered
<1>8. \A i \in 1 .. Len(pending') : pending'[i].client \in Clients /\ BehindWire(pending[i])'
  <2> SUFFICES ASSUME NEW i \in 1 .. j
               PROVE  pending'[i].client \in Clients /\ BehindWire(pending[i])'
    BY <1>6
  <2>1. pending'[i].client = c /\ pending'[i].n = wire[c][i].n
    BY <1>6
  <2>2. wire[c][i].n <= sent'[c]
    BY <1>3, <1>6 DEF WireOrdered
  <2>3. ASSUME NEW k \in 1 .. Len(wire'[c]) PROVE wire[c][i].n < wire'[c][k].n
    <3>1. /\ Len(SubSeq(wire[c], j + 1, Len(wire[c]))) = Len(wire[c]) - j
          /\ \A m \in 1 .. Len(wire[c]) - j :
                SubSeq(wire[c], j + 1, Len(wire[c]))[m] = wire[c][m + j]
      <4>1. \A m \in 1 .. Len(wire[c]) : wire[c][m] \in WireItem
        BY <1>2, ElementOfSeq
      <4> QED
        BY <1>2, <4>1
    <3>2. wire'[c] = SubSeq(wire[c], j + 1, Len(wire[c]))
      BY <1>1 DEF TypeOK
    <3>3. wire'[c][k] = wire[c][k + j] /\ k + j \in 1 .. Len(wire[c]) /\ i < k + j
      BY <1>2, <2>3, <3>1, <3>2
    <3> QED
      BY <1>6, <3>3 DEF WireOrdered
  <2> QED
    BY <2>1, <2>2, <2>3 DEF BehindWire
<1>9. \A i \in 1 .. Len(Line), k \in 1 .. Len(pending') : Before(Line[i], pending[k])'
  BY <1>3, <1>6 DEF LineInv, BehindWire, Before
<1> QED
  BY <1>3, <1>4, <1>5, <1>7, <1>8, <1>9 DEF PendingInv

\* What a read drops, and what is lost with a connection, keeps the order too.
LEMMA DropKeepsOrder ==
  ASSUME OrderInv, TypeInv', NEW c \in Clients, ReadBad(c) \/ Disconnect(c)
  PROVE  OrderInv'
<1> USE DEF OrderInv, TypeInv
<1>1. wire[c] \in Seq(WireItem) /\ Len(wire[c]) \in Nat
  BY DEF TypeOK
<1>2. \E j \in 0 .. Len(wire[c]) : wire' = [wire EXCEPT ![c] = SubSeq(@, j + 1, Len(@))]
  <2>1. CASE ReadBad(c)
    <3>1. PICK j \in 1 .. Len(wire[c]) : wire' = [wire EXCEPT ![c] = SubSeq(@, j + 1, Len(@))]
      BY <2>1 DEF ReadBad
    <3>2. j \in 0 .. Len(wire[c])
      BY <1>1
    <3> QED
      BY <3>1, <3>2
  <2>2. CASE Disconnect(c)
    <3>1. SubSeq(wire[c], Len(wire[c]) + 1, Len(wire[c])) = <<>>
      BY <1>1, SubSeqEmpty
    <3>2. wire' = [wire EXCEPT ![c] = SubSeq(@, Len(wire[c]) + 1, Len(@))]
      BY <2>2, <3>1 DEF Disconnect
    <3>3. Len(wire[c]) \in 0 .. Len(wire[c])
      BY <1>1
    <3> QED
      BY <3>2, <3>3
  <2> QED
    BY <2>1, <2>2
<1>3. sent' = sent /\ Line' = Line /\ pending' = pending
  BY DEF ReadBad, Disconnect, Line, Taken, workerVars, ioVars
<1>4. /\ \A d \in Clients : WireOrdered(d)'
      /\ \A r \in Request : BehindWire(r) => BehindWire(r)'
  BY <1>2, <1>3, WireSuffix
<1>5. LineInv'
  BY <1>3, <1>4, LineKept
<1>6. \A i \in 1 .. Len(pending) : pending[i] \in Request
  BY ElementOfSeq DEF TypeOK
<1>7. \A i \in 1 .. Len(pending) : BehindWire(pending[i])'
  BY <1>3, <1>4, <1>6 DEF PendingInv, BehindWire
<1> QED
  BY <1>3, <1>4, <1>5, <1>7 DEF PendingInv, Ordered

\* The read handler hands its oldest request to the unit.
LEMMA EnqueueNextKeepsOrder ==
  ASSUME OrderInv, TypeInv', EnqueueNext
  PROVE  OrderInv'
<1> USE DEF OrderInv, TypeInv
<1> DEFINE r == Head(pending)
<1>1. pending \in Seq(Request) /\ pending # <<>>
  BY DEF EnqueueNext, PendingWhileEnqueuing, TypeOK
<1>2. /\ r \in Request /\ r = pending[1]
      /\ Len(pending) \in Nat \ {0}
      /\ Len(Tail(pending)) = Len(pending) - 1
      /\ \A i \in 1 .. Len(pending) - 1 : Tail(pending)[i] = pending[i + 1]
  BY <1>1, HeadTailProperties, EmptySeq
<1>3. pending' = Tail(pending) /\ wire' = wire /\ sent' = sent
  BY DEF EnqueueNext
<1>4. Line' = Append(Line, r)
  BY <1>2, EnqueueLine DEF EnqueueNext
<1>5. \A s \in Request : BehindWire(s) <=> BehindWire(s)'
  BY <1>3 DEF BehindWire
<1>6. BehindWire(r)
  BY <1>2 DEF PendingInv
<1>7. \A i \in 1 .. Len(Line) : Before(Line[i], r)
  BY <1>2 DEF PendingInv
<1>9. LineInv'
  <2> HIDE DEF r
  <2>1. ASSUME NEW s \in Request, s = r PROVE BehindWire(s)'
    BY <1>5, <1>6, <2>1
  <2>2. PICK s \in Request : s = r
    BY <1>2
  <2>3. BehindWire(s)' /\ Line' = Append(Line, s)
        /\ \A i \in 1 .. Len(Line) : Before(Line[i], s)
    BY <1>4, <1>7, <2>1, <2>2
  <2> QED
    BY <1>3, <1>5, <2>3, LineGrows
<1>10. /\ Len(Line') = Len(Line) + 1 /\ Len(Line) \in Nat
       /\ \A i \in 1 .. Len(Line) : Line'[i] = Line[i]
       /\ Line'[Len(Line) + 1] = r
  BY <1>2, <1>4, LineType, AppendProperties, LenProperties
<1>11. \A i \in 1 .. Len(pending') : i + 1 \in 1 .. Len(pending) /\ pending'[i] = pending[i + 1]
  BY <1>2, <1>3
<1>12. Ordered(pending)'
  <2> SUFFICES ASSUME NEW i \in 1 .. Len(pending'), NEW j \in 1 .. Len(pending'), i < j
               PROVE  Before(pending'[i], pending'[j])
    BY DEF Ordered, Before
  <2>1. i + 1 < j + 1 /\ i + 1 \in 1 .. Len(pending) /\ j + 1 \in 1 .. Len(pending)
    BY <1>11
  <2> QED
    BY <1>11, <2>1 DEF PendingInv, Ordered
<1>13. \A i \in 1 .. Len(pending') : pending'[i].client \in Clients /\ BehindWire(pending[i])'
  BY <1>3, <1>11 DEF PendingInv, BehindWire
<1>14. ASSUME NEW i \in 1 .. Len(Line'), NEW j \in 1 .. Len(pending')
       PROVE  Before(Line'[i], pending'[j])
  <2>1. j + 1 \in 1 .. Len(pending) /\ pending'[j] = pending[j + 1] /\ 1 < j + 1
    BY <1>11
  <2>2. CASE i \in 1 .. Len(Line)
    BY <1>10, <2>1, <2>2 DEF PendingInv
  <2>3. CASE i = Len(Line) + 1
    <3>1. 1 \in 1 .. Len(pending) /\ Line'[i] = pending[1]
      BY <1>2, <1>10, <2>3
    <3> QED
      BY <2>1, <3>1 DEF PendingInv, Ordered
  <2> QED
    BY <1>10, <2>2, <2>3
<1>15. \A d \in Clients : WireOrdered(d)'
  BY <1>3 DEF WireOrdered
<1> QED
  BY <1>9, <1>12, <1>13, <1>14, <1>15 DEF PendingInv, Before

\* A request of the process itself comes after the earlier ones; pending holds none.
LEMMA EnqueueInternalKeepsOrder ==
  ASSUME OrderInv, TypeInv', EnqueueInternal
  PROVE  OrderInv'
<1> USE DEF OrderInv, TypeInv
<1> DEFINE r == [client |-> Fake, n |-> sent[Fake] + 1]
<1>1. Fake \in Sources /\ sent[Fake] \in Nat /\ Fake \notin Clients
  BY FakeAssumption DEF TypeOK, Sources
<1>2. r \in Request /\ r.client = Fake /\ r.n = sent[Fake] + 1
  BY <1>1 DEF Request
<1>3. /\ sent'[Fake] = sent[Fake] + 1 /\ wire' = wire /\ pending' = pending
      /\ \A s \in Sources : s # Fake => sent'[s] = sent[s]
  BY <1>1 DEF EnqueueInternal, TypeOK, ioVars
<1>4. Line' = Append(Line, r)
  BY <1>2, EnqueueLine DEF EnqueueInternal
<1>5. ASSUME NEW s \in Request, BehindWire(s) PROVE BehindWire(s)'
  <2>1. s.n \in Nat /\ s.client \in Sources
    BY DEF Request
  <2>2. s.n <= sent'[s.client]
    BY <1>1, <1>3, <1>5, <2>1 DEF BehindWire
  <2> QED
    BY <1>3, <1>5, <2>2 DEF BehindWire
<1>6. \A i \in 1 .. Len(Line) : Line[i] \in Request
  BY LineType, ElementOfSeq
<1>7. \A i \in 1 .. Len(Line) : Before(Line[i], r)
  <2> SUFFICES ASSUME NEW i \in 1 .. Len(Line), Line[i].client = Fake
               PROVE  Line[i].n < sent[Fake] + 1
    BY <1>2 DEF Before
  <2>1. Line[i].n \in Nat
    BY <1>6 DEF Request
  <2> QED
    BY <1>1, <2>1 DEF LineInv, BehindWire
<1>8. ASSUME NEW s \in Request, s = r PROVE BehindWire(s)'
  BY <1>1, <1>2, <1>3, <1>8 DEF BehindWire
<1>9. LineInv'
  <2> HIDE DEF r
  <2>1. PICK s \in Request : s = r
    BY <1>2
  <2>2. BehindWire(s)' /\ Line' = Append(Line, s)
        /\ \A i \in 1 .. Len(Line) : Before(Line[i], s)
    BY <1>4, <1>7, <1>8, <2>1
  <2> QED
    BY <1>3, <1>5, <2>2, LineGrows
<1>10. /\ Len(Line') = Len(Line) + 1 /\ Len(Line) \in Nat
       /\ \A i \in 1 .. Len(Line) : Line'[i] = Line[i]
       /\ Line'[Len(Line) + 1] = r
  BY <1>2, <1>4, LineType, AppendProperties, LenProperties
<1>11. \A i \in 1 .. Len(Line'), j \in 1 .. Len(pending) : Before(Line'[i], pending[j])
  <2> TAKE i \in 1 .. Len(Line'), j \in 1 .. Len(pending)
  <2>1. CASE i \in 1 .. Len(Line)
    BY <1>10, <2>1 DEF PendingInv
  <2>2. CASE i = Len(Line) + 1
    <3>1. pending[j].client \in Clients /\ Line'[i].client = Fake
      BY <1>2, <1>10, <2>2 DEF PendingInv
    <3> QED
      BY <1>1, <3>1 DEF Before
  <2> QED
    BY <1>10, <2>1, <2>2
<1>12. \A i \in 1 .. Len(pending) : pending[i] \in Request
  BY ElementOfSeq DEF TypeOK
<1>13. \A i \in 1 .. Len(pending) : BehindWire(pending[i])'
  BY <1>3, <1>5, <1>12 DEF PendingInv, BehindWire
<1>14. \A d \in Clients : WireOrdered(d)'
  BY <1>1, <1>3 DEF WireOrdered, Sources
<1> QED
  BY <1>3, <1>9, <1>11, <1>13, <1>14 DEF PendingInv, Ordered, Before

LEMMA OrderInvStep ==
  ASSUME OrderInv, [Next]_vars
  PROVE  OrderInv'
<1>1. TypeInv /\ TypeOK /\ TypeInv'
  BY TypeInvStep DEF OrderInv, TypeInv
<1>2. ASSUME NEW c \in Clients, Client(c) PROVE OrderInv'
  <2>1. CASE Send(c)
    BY <1>1, <2>1, SendKeepsOrder
  <2>2. CASE Connect(c) \/ Close(c)
    BY <1>1, <2>2, OrderUnchanged DEF Connect, Close, Line, Taken, ioVars, workerVars
  <2> QED
    BY <1>2, <2>1, <2>2 DEF Client
<1>3. ASSUME NEW c \in Clients,
             AcceptBegin(c) \/ AcceptEnd(c) \/ ReadOk(c) \/ ReadBad(c) \/ Disconnect(c)
      PROVE  OrderInv'
  <2>1. CASE ReadOk(c)
    BY <1>1, <2>1, ReadOkKeepsOrder
  <2>2. CASE ReadBad(c) \/ Disconnect(c)
    BY <1>1, <2>2, DropKeepsOrder
  <2>3. CASE AcceptBegin(c) \/ AcceptEnd(c)
    BY <1>1, <2>3, OrderUnchanged DEF AcceptBegin, AcceptEnd, Line, Taken, workerVars
  <2> QED
    BY <1>3, <2>1, <2>2, <2>3
<1>4. CASE EnqueueNext
  BY <1>1, <1>4, EnqueueNextKeepsOrder
<1>5. CASE EnqueueInternal
  BY <1>1, <1>5, EnqueueInternalKeepsOrder
<1>6. CASE Worker
  <2>1. UNCHANGED <<pending, wire, sent>>
    BY <1>6 DEF Worker, Take, Wait, LookupHit, LookupMiss, Execute, ioVars
  <2> QED
    BY <1>1, <1>6, <2>1, WorkerLine, OrderUnchanged
<1>7. CASE SpuriousWakeup
  BY <1>1, <1>7, OrderUnchanged DEF SpuriousWakeup, Line, Taken, ioVars
<1>8. CASE Crash
  BY <1>1, <1>8, OrderUnchanged DEF Crash, Line, Taken, ioVars, workerVars
<1>9. CASE UNCHANGED vars
  BY <1>1, <1>9, OrderUnchanged DEF vars, Line, Taken, ioVars, workerVars
<1> QED
  BY <1>2, <1>3, <1>4, <1>5, <1>6, <1>7, <1>8, <1>9 DEF Next, IOThread

LEMMA OrderInvInit == Init => OrderInv
<1> SUFFICES ASSUME Init PROVE OrderInv
  OBVIOUS
<1>1. Line = <<>>
  BY ConcatEmptySeq DEF Init, Line, Taken
<1> QED
  BY <1>1, TypeInvInit DEF Init, OrderInv, LineInv, PendingInv, WireOrdered, Ordered

\* Requests of one client are executed in the order in which it sent them, and
\* none twice: neither the read handler's loop nor the queue nor an internal
\* request lets one overtake another.
THEOREM RequestsKeepTheirOrder == Spec => []ServedInOrder
<1>1. Init => OrderInv
  BY OrderInvInit
<1>2. OrderInv /\ [Next]_vars => OrderInv'
  BY OrderInvStep
<1>3. OrderInv => ServedInOrder
  <2> SUFFICES ASSUME OrderInv PROVE ServedInOrder
    OBVIOUS
  <2>1. served \in Seq(Request) /\ served \o Taken \in Seq(Request) /\ que \in Seq(Request)
    BY LineType DEF OrderInv, TypeInv
  <2>2. Taken \in Seq(Request) /\ Len(served) \in Nat /\ Len(Taken) \in Nat /\ Len(que) \in Nat
    BY <2>1, LineType, LenProperties DEF OrderInv, TypeInv
  <2>3. /\ Len(served \o Taken) = Len(served) + Len(Taken)
        /\ \A i \in 1 .. Len(served) : (served \o Taken)[i] = served[i]
    BY <2>1, <2>2, ConcatProperties
  <2>4. /\ Len(Line) = Len(served) + Len(Taken) + Len(que)
        /\ \A i \in 1 .. Len(served) : Line[i] = served[i]
    BY <2>1, <2>2, <2>3, ConcatProperties DEF Line
  <2>5. \A i \in 1 .. Len(served) : i \in 1 .. Len(Line)
    BY <2>2, <2>4
  <2>6. DOMAIN served = 1 .. Len(served)
    BY <2>1, LenProperties
  <2> QED
    BY <2>4, <2>5, <2>6 DEF OrderInv, LineInv, Ordered, Before, ServedInOrder
<1> QED
  BY <1>1, <1>2, <1>3, PTL DEF Spec

-----------------------------------------------------------------------------
(* Replies.                                                                *)

InLine(r) == \E i \in 1 .. Len(Line) : Line[i] = r
InPending(r) == \E i \in 1 .. Len(pending) : pending[i] = r

\* Where the line has the requests that were executed and the worker's.
LEMMA LineParts ==
  ASSUME TypeOK
  PROVE  /\ DOMAIN served = 1 .. Len(served) /\ Len(served) \in Nat /\ Len(Line) \in Nat
         /\ \A i \in 1 .. Len(served) : i \in 1 .. Len(Line) /\ Line[i] = served[i]
         /\ Taken = <<cur>> => Len(served) + 1 \in 1 .. Len(Line) /\ Line[Len(served) + 1] = cur
<1>1. served \in Seq(Request) /\ served \o Taken \in Seq(Request) /\ que \in Seq(Request)
      /\ Taken \in Seq(Request)
  BY LineType
<1>2. Len(served) \in Nat /\ Len(Taken) \in Nat /\ Len(que) \in Nat
  BY <1>1, LenProperties
<1>3. /\ Len(served \o Taken) = Len(served) + Len(Taken)
      /\ \A i \in 1 .. Len(served) : (served \o Taken)[i] = served[i]
      /\ Taken = <<cur>> => Len(Taken) = 1 /\ (served \o Taken)[Len(served) + 1] = cur
  <2>1. Taken = <<cur>> => Len(Taken) = 1 /\ Taken[1] = cur
    OBVIOUS
  <2> QED
    BY <1>1, <1>2, <2>1, ConcatProperties
<1>4. /\ Len(Line) = Len(served) + Len(Taken) + Len(que)
      /\ \A i \in 1 .. Len(served) + Len(Taken) : Line[i] = (served \o Taken)[i]
  BY <1>1, <1>2, <1>3, ConcatProperties DEF Line
<1>5. DOMAIN served = 1 .. Len(served)
  BY <1>1, LenProperties
<1>6. Taken = <<cur>> => /\ Len(served) + 1 \in 1 .. Len(served) + Len(Taken)
                         /\ Len(served) + 1 \in 1 .. Len(Line)
  BY <1>2, <1>3, <1>4
<1>7. Len(Line) \in Nat /\ \A i \in 1 .. Len(served) :
         i \in 1 .. Len(Line) /\ i \in 1 .. Len(served) + Len(Taken)
  BY <1>2, <1>4
<1>8. \A i \in 1 .. Len(served) : i \in 1 .. Len(Line) /\ Line[i] = served[i]
  BY <1>3, <1>4, <1>7
<1>9. Taken = <<cur>> => Len(served) + 1 \in 1 .. Len(Line) /\ Line[Len(served) + 1] = cur
  BY <1>3, <1>4, <1>6
<1> QED
  BY <1>2, <1>5, <1>7, <1>8, <1>9

\* A request gets into the line from pending, and into pending from a wire.
LEMMA Moves ==
  ASSUME OrderInv, [Next]_vars, NEW r \in Request, r.client # Fake, BehindWire(r)
  PROVE  /\ BehindWire(r)'
         /\ InLine(r)' => InLine(r) \/ InPending(r)
         /\ InPending(r)' => InPending(r)
<1>1. TypeOK /\ PendingWhileEnqueuing
  BY DEF OrderInv, TypeInv
<1>2. CASE UNCHANGED <<Line, pending, wire, sent>>
  BY <1>2 DEF BehindWire, InLine, InPending
<1>3. ASSUME NEW c \in Clients, Send(c)
      PROVE  BehindWire(r)' /\ UNCHANGED <<Line, pending>>
  BY <1>1, <1>3, SendBehind DEF Send, Line, Taken, ioVars, workerVars
<1>4. ASSUME NEW c \in Clients, NEW j \in 0 .. Len(wire[c]),
             wire' = [wire EXCEPT ![c] = SubSeq(@, j + 1, Len(@))], sent' = sent
      PROVE  BehindWire(r)'
  BY <1>1, <1>4, WireSuffix
<1>5. ASSUME NEW c \in Clients, ReadOk(c)
      PROVE  BehindWire(r)' /\ Line' = Line /\ ~InPending(r)'
  <2>1. PICK j \in 1 .. Len(wire[c]) :
          /\ pending' = [i \in 1 .. j |-> [client |-> c, n |-> wire[c][i].n]]
          /\ wire' = [wire EXCEPT ![c] = SubSeq(@, j + 1, Len(@))]
    BY <1>5 DEF ReadOk, Parsed
  <2>2. wire[c] \in Seq(WireItem) /\ Len(wire[c]) \in Nat /\ j \in 0 .. Len(wire[c])
    BY <1>1 DEF TypeOK
  <2>3. BehindWire(r)'
    BY <1>4, <1>5, <2>1, <2>2 DEF ReadOk
  <2>4. ASSUME NEW i \in 1 .. Len(pending'), pending'[i] = r PROVE FALSE
    <3>1. i \in 1 .. j /\ r = [client |-> c, n |-> wire[c][i].n]
      BY <2>1, <2>2, <2>4
    <3>2. i \in 1 .. Len(wire[c]) /\ r.n < wire[c][i].n
      BY <2>2, <3>1 DEF BehindWire
    <3>3. wire[c][i] \in WireItem
      BY <2>2, <3>2, ElementOfSeq
    <3> QED
      BY <3>1, <3>2, <3>3 DEF WireItem
  <2>5. Line' = Line
    BY <1>5 DEF ReadOk, Line, Taken, workerVars
  <2> QED
    BY <2>3, <2>4, <2>5 DEF InPending
<1>6. ASSUME NEW c \in Clients, ReadBad(c) \/ Disconnect(c)
      PROVE  BehindWire(r)' /\ UNCHANGED <<Line, pending>>
  <2>1. wire[c] \in Seq(WireItem) /\ Len(wire[c]) \in Nat
    BY <1>1 DEF TypeOK
  <2>2. \E j \in 0 .. Len(wire[c]) : wire' = [wire EXCEPT ![c] = SubSeq(@, j + 1, Len(@))]
    <3>1. CASE ReadBad(c)
      <4>1. PICK j \in 1 .. Len(wire[c]) : wire' = [wire EXCEPT ![c] = SubSeq(@, j + 1, Len(@))]
        BY <3>1 DEF ReadBad
      <4>2. j \in 0 .. Len(wire[c])
        BY <2>1
      <4> QED
        BY <4>1, <4>2
    <3>2. CASE Disconnect(c)
      <4>1. SubSeq(wire[c], Len(wire[c]) + 1, Len(wire[c])) = <<>>
        BY <2>1, SubSeqEmpty
      <4>2. wire' = [wire EXCEPT ![c] = SubSeq(@, Len(wire[c]) + 1, Len(@))]
        BY <3>2, <4>1 DEF Disconnect
      <4>3. Len(wire[c]) \in 0 .. Len(wire[c])
        BY <2>1
      <4> QED
        BY <4>2, <4>3
    <3> QED
      BY <1>6, <3>1, <3>2
  <2>3. UNCHANGED <<sent, Line, pending>>
    BY <1>6 DEF ReadBad, Disconnect, Line, Taken, workerVars, ioVars
  <2> QED
    BY <1>4, <2>2, <2>3
<1>7. ASSUME NEW s \in Request, Line' = Append(Line, s), InLine(r)'
      PROVE  InLine(r) \/ r = s
  <2>1. PICK i \in 1 .. Len(Line') : Line'[i] = r
    BY <1>7 DEF InLine
  <2>2. /\ Len(Line') = Len(Line) + 1 /\ Len(Line) \in Nat
        /\ \A k \in 1 .. Len(Line) : Line'[k] = Line[k]
        /\ Line'[Len(Line) + 1] = s
    BY <1>1, <1>7, LineType, AppendProperties, LenProperties
  <2>3. i \in 1 .. Len(Line) \/ i = Len(Line) + 1
    BY <2>2
  <2> QED
    BY <2>1, <2>2, <2>3 DEF InLine
<1>8. ASSUME EnqueueNext
      PROVE  /\ BehindWire(r)'
             /\ InLine(r)' => InLine(r) \/ InPending(r)
             /\ InPending(r)' => InPending(r)
  <2>1. pending \in Seq(Request) /\ pending # <<>>
    BY <1>1, <1>8 DEF EnqueueNext, PendingWhileEnqueuing, TypeOK
  <2>2. /\ Head(pending) \in Request /\ Head(pending) = pending[1]
        /\ Len(pending) \in Nat \ {0}
        /\ Len(Tail(pending)) = Len(pending) - 1
        /\ \A i \in 1 .. Len(pending) - 1 : Tail(pending)[i] = pending[i + 1]
    BY <2>1, HeadTailProperties, EmptySeq
  <2>3. pending' = Tail(pending) /\ wire' = wire /\ sent' = sent
    BY <1>8 DEF EnqueueNext
  <2>4. Line' = Append(Line, Head(pending))
    BY <1>1, <1>8, <2>2, EnqueueLine DEF EnqueueNext
  <2>5. Head(pending) = r => InPending(r)
    BY <2>2 DEF InPending
  <2>6. InPending(r)' => InPending(r)
    <3> SUFFICES ASSUME NEW i \in 1 .. Len(pending'), pending'[i] = r PROVE InPending(r)
      BY DEF InPending
    <3>1. i + 1 \in 1 .. Len(pending) /\ pending[i + 1] = r
      BY <2>2, <2>3
    <3> QED
      BY <3>1 DEF InPending
  <2> QED
    BY <1>7, <2>2, <2>3, <2>4, <2>5, <2>6 DEF BehindWire
<1>9. ASSUME EnqueueInternal
      PROVE  BehindWire(r)' /\ (InLine(r)' => InLine(r)) /\ pending' = pending
  <2> DEFINE s == [client |-> Fake, n |-> sent[Fake] + 1]
  <2>1. Fake \in Sources /\ sent[Fake] \in Nat /\ Fake \notin Clients
    BY <1>1, FakeAssumption DEF TypeOK, Sources
  <2>2. s \in Request /\ s # r
    BY <2>1 DEF Request
  <2>3. Line' = Append(Line, s)
    BY <1>1, <1>9, <2>2, EnqueueLine DEF EnqueueInternal
  <2>4. /\ wire' = wire /\ pending' = pending
        /\ \A d \in Sources : d # Fake => sent'[d] = sent[d]
    BY <1>1, <1>9, <2>1 DEF EnqueueInternal, TypeOK, ioVars
  <2>5. r.client \in Sources
    BY DEF Request
  <2> HIDE DEF s
  <2> QED
    BY <1>7, <2>2, <2>3, <2>4, <2>5 DEF BehindWire
<1>10. CASE Worker
  <2>1. UNCHANGED <<pending, wire, sent>>
    BY <1>10 DEF Worker, Take, Wait, LookupHit, LookupMiss, Execute, ioVars
  <2> QED
    BY <1>1, <1>2, <1>10, <2>1, WorkerLine
<1>11. ASSUME NEW c \in Clients, Connect(c) \/ Close(c) \/ AcceptBegin(c) \/ AcceptEnd(c)
       PROVE  UNCHANGED <<Line, pending, wire, sent>>
  BY <1>11 DEF Connect, Close, AcceptBegin, AcceptEnd, Line, Taken, ioVars, workerVars
<1>12. CASE SpuriousWakeup \/ Crash \/ UNCHANGED vars
  <2>1. UNCHANGED <<Line, pending, wire, sent>>
    BY <1>12 DEF SpuriousWakeup, Crash, vars, Line, Taken, ioVars, workerVars
  <2> QED
    BY <1>2, <2>1
<1> QED
  BY <1>2, <1>3, <1>5, <1>6, <1>8, <1>9, <1>10, <1>11, <1>12
     DEF Next, Client, IOThread, InLine, InPending

\* What is known of a request that has been answered: it has left its wire, a
\* result was executed, and what was refused is nowhere else.
Answered(c, p) == [client |-> c, n |-> p.n]

Settled(c, p) ==
    /\ BehindWire(Answered(c, p))
    /\ p.kind = "result" => Answered(c, p) \in Elements(served)
    /\ p.kind = "error" => ~InLine(Answered(c, p)) /\ ~InPending(Answered(c, p))

RepliesInv ==
    \A c \in Clients :
       /\ \A i \in 1 .. Len(replies[c]) : Settled(c, replies[c][i])
       /\ \A i, j \in 1 .. Len(replies[c]) : i # j => replies[c][i].n # replies[c][j].n

LEMMA ServedGrows ==
  ASSUME TypeOK, [Next]_vars
  PROVE  Elements(served) \subseteq Elements(served')
<1>1. served' = served \/ served' = Append(served, cur)
  BY DEF Next, Client, IOThread, Worker, Connect, Send, Close, AcceptBegin, AcceptEnd, ReadOk,
         ReadBad, Disconnect, EnqueueNext, EnqueueInternal, Take, Wait, LookupHit, LookupMiss,
         Execute, SpuriousWakeup, Crash, vars, workerVars
<1>2. CASE served' = Append(served, cur)
  <2>1. served \in Seq(Request) /\ cur \in Request
    BY DEF TypeOK
  <2>2. \A i \in DOMAIN served : i \in DOMAIN served' /\ served'[i] = served[i]
    BY <1>2, <2>1
  <2> QED
    BY <2>2 DEF Elements
<1> QED
  BY <1>1, <1>2

LEMMA SettledStep ==
  ASSUME OrderInv, [Next]_vars, NEW c \in Clients, NEW p \in Reply, Settled(c, p)
  PROVE  Settled(c, p)'
<1> DEFINE r == Answered(c, p)
<1>1. r \in Request /\ r.client # Fake
  BY FakeAssumption DEF Answered, Request, Reply, Sources
<1>2. BehindWire(r) /\ TypeOK
  BY DEF Settled, OrderInv, TypeInv
<1> HIDE DEF r
<1>3. /\ BehindWire(r)'
      /\ InLine(r)' => InLine(r) \/ InPending(r)
      /\ InPending(r)' => InPending(r)
  BY <1>1, <1>2, Moves
<1>4. r \in Elements(served) => r \in Elements(served')
  BY <1>2, ServedGrows
<1>5. Settled(c, p)' <=> /\ BehindWire(r)'
                         /\ p.kind = "result" => r \in Elements(served')
                         /\ p.kind = "error" => ~InLine(r)' /\ ~InPending(r)'
  BY DEF Settled, Elements, r
<1> QED
  BY <1>3, <1>4, <1>5 DEF Settled, r

LEMMA NothingWritten ==
  ASSUME OrderInv, RepliesInv, [Next]_vars, replies' = replies
  PROVE  RepliesInv'
<1> SUFFICES ASSUME NEW c \in Clients, NEW i \in 1 .. Len(replies[c]) PROVE Settled(c, replies[c][i])'
  BY DEF RepliesInv, Settled, Answered
<1>1. PICK p \in Reply : p = replies[c][i]
  BY ElementOfSeq DEF OrderInv, TypeInv, TypeOK
<1>2. Settled(c, p)'
  BY <1>1, SettledStep DEF RepliesInv
<1> QED
  BY <1>1, <1>2 DEF Settled, Answered

\* A reply to a request that none has been written to.
LEMMA OneWritten ==
  ASSUME OrderInv, RepliesInv, [Next]_vars, NEW c \in Clients, NEW p \in Reply, Write(c, p),
         Settled(c, p)', \A i \in 1 .. Len(replies[c]) : replies[c][i].n # p.n
  PROVE  RepliesInv'
<1>1. \A d \in Clients : /\ replies[d] \in Seq(Reply) /\ Len(replies[d]) \in Nat
                         /\ \A i \in 1 .. Len(replies[d]) : replies[d][i] \in Reply
  BY ElementOfSeq, LenProperties DEF OrderInv, TypeInv, TypeOK
<1>2. CASE replies' = replies
  BY <1>2, NothingWritten
<1>3. CASE replies' = [replies EXCEPT ![c] = Append(@, p)]
  <2>1. /\ \A d \in Clients \ {c} : replies'[d] = replies[d]
        /\ Len(replies'[c]) = Len(replies[c]) + 1
        /\ \A i \in 1 .. Len(replies[c]) : replies'[c][i] = replies[c][i]
        /\ replies'[c][Len(replies[c]) + 1] = p
    BY <1>1, <1>3, AppendProperties DEF OrderInv, TypeInv, TypeOK
  <2>2. ASSUME NEW d \in Clients, NEW i \in 1 .. Len(replies'[d])
        PROVE  \/ d = c /\ i = Len(replies[c]) + 1
               \/ i \in 1 .. Len(replies[d]) /\ replies'[d][i] = replies[d][i]
    <3>1. CASE d = c
      BY <1>1, <2>1, <3>1
    <3>2. CASE d # c
      BY <2>1, <3>2
    <3> QED
      BY <3>1, <3>2
  <2>3. ASSUME NEW d \in Clients, NEW i \in 1 .. Len(replies'[d])
        PROVE  Settled(d, replies[d][i])'
    <3>1. CASE d = c /\ i = Len(replies[c]) + 1
      BY <2>1, <3>1 DEF Settled, Answered
    <3>2. CASE i \in 1 .. Len(replies[d]) /\ replies'[d][i] = replies[d][i]
      <4>1. PICK q \in Reply : q = replies[d][i]
        BY <1>1, <3>2
      <4>2. Settled(d, q)'
        BY <3>2, <4>1, SettledStep DEF RepliesInv
      <4> QED
        BY <3>2, <4>1, <4>2 DEF Settled, Answered
    <3> QED
      BY <2>2, <3>1, <3>2
  <2>4. ASSUME NEW d \in Clients, NEW i \in 1 .. Len(replies'[d]), NEW j \in 1 .. Len(replies'[d]), i # j
        PROVE  replies'[d][i].n # replies'[d][j].n
    <3>1. CASE i \in 1 .. Len(replies[d]) /\ j \in 1 .. Len(replies[d])
      <4>1. replies[d][i].n # replies[d][j].n
        BY <2>4, <3>1 DEF RepliesInv
      <4>2. replies'[d][i] = replies[d][i] /\ replies'[d][j] = replies[d][j]
        BY <2>1, <3>1
      <4> QED
        BY <4>1, <4>2
    <3>2. CASE d = c /\ i = Len(replies[c]) + 1 /\ j \in 1 .. Len(replies[c])
      BY <2>1, <3>2
    <3>3. CASE d = c /\ j = Len(replies[c]) + 1 /\ i \in 1 .. Len(replies[c])
      BY <2>1, <3>3
    <3> QED
      BY <2>2, <2>4, <3>1, <3>2, <3>3
  <2> QED
    BY <2>3, <2>4 DEF RepliesInv
<1> QED
  BY <1>2, <1>3 DEF Write, OrderInv, TypeInv, TypeOK

\* The error of a read that was dropped.
LEMMA ReadBadReplies ==
  ASSUME OrderInv, OrderInv', RepliesInv, [Next]_vars, NEW c \in Clients, ReadBad(c)
  PROVE  RepliesInv'
<1>1. PICK j \in 1 .. Len(wire[c]) : wire' = [wire EXCEPT ![c] = SubSeq(@, j + 1, Len(@))]
  BY DEF ReadBad
<1>2. /\ wire[c] \in Seq(WireItem) /\ Len(wire[c]) \in Nat /\ j \in Nat
      /\ 1 \in 1 .. Len(wire[c]) /\ j \in 1 .. Len(wire[c])
  <2>1. wire[c] \in Seq(WireItem)
    BY DEF OrderInv, TypeInv, TypeOK
  <2>2. Len(wire[c]) \in Nat
    BY <2>1, LenProperties
  <2> QED
    BY <2>1, <2>2
<1>3. \A i \in 1 .. Len(wire[c]) : wire[c][i] \in WireItem /\ wire[c][i].n \in Nat
  <2> SUFFICES ASSUME NEW i \in 1 .. Len(wire[c]) PROVE wire[c][i] \in WireItem /\ wire[c][i].n \in Nat
    OBVIOUS
  <2>1. wire[c][i] \in WireItem
    BY <1>2, ElementOfSeq
  <2> QED
    BY <2>1 DEF WireItem
<1>4. PICK p \in Reply : p = [n |-> wire[c][1].n, kind |-> "error"]
  BY <1>2, <1>3 DEF Reply
<1>5. p.n = wire[c][1].n /\ p.n \in Nat /\ p.kind = "error"
  BY <1>2, <1>3, <1>4
<1>6. \A s \in Request : s.client = c /\ BehindWire(s) => s.n # p.n
  BY <1>2, <1>3, <1>5 DEF BehindWire, Request
<1>7. \A i \in 1 .. Len(replies[c]) : replies[c][i].n # p.n
  <2> SUFFICES ASSUME NEW i \in 1 .. Len(replies[c]) PROVE replies[c][i].n # p.n
    OBVIOUS
  <2>1. replies[c][i] \in Reply /\ Settled(c, replies[c][i])
    BY ElementOfSeq DEF RepliesInv, OrderInv, TypeInv, TypeOK
  <2>2. BehindWire(Answered(c, replies[c][i])) /\ Answered(c, replies[c][i]) \in Request
    BY <2>1 DEF Settled, Answered, Request, Reply, Sources
  <2> QED
    BY <1>6, <2>2 DEF Answered
<1>8. UNCHANGED <<Line, pending, sent>>
  BY DEF ReadBad, Line, Taken, workerVars, ioVars
<1>9. ~InLine(Answered(c, p)) /\ ~InPending(Answered(c, p))
  <2>1. /\ \A i \in 1 .. Len(Line) : Line[i] \in Request /\ BehindWire(Line[i])
        /\ \A i \in 1 .. Len(pending) : pending[i] \in Request /\ BehindWire(pending[i])
    BY LineType, ElementOfSeq DEF OrderInv, TypeInv, TypeOK, LineInv, PendingInv
  <2>2. Answered(c, p).client = c /\ Answered(c, p).n = p.n
    BY DEF Answered
  <2> QED
    BY <1>6, <2>1, <2>2 DEF InLine, InPending
<1>10. BehindWire(Answered(c, p))'
  <2>1. p.n <= sent[c]
    BY <1>2, <1>5 DEF OrderInv, WireOrdered
  <2>2. ASSUME NEW i \in 1 .. Len(wire'[c]) PROVE p.n < wire'[c][i].n
    <3>1. /\ Len(SubSeq(wire[c], j + 1, Len(wire[c]))) = Len(wire[c]) - j
          /\ \A m \in 1 .. Len(wire[c]) - j :
                SubSeq(wire[c], j + 1, Len(wire[c]))[m] = wire[c][m + j]
      BY <1>2, <1>3
    <3>2. wire'[c] = SubSeq(wire[c], j + 1, Len(wire[c]))
      BY <1>1 DEF OrderInv, TypeInv, TypeOK
    <3>3. i \in 1 .. Len(wire[c]) - j
      BY <2>2, <3>1, <3>2
    <3>4. wire'[c][i] = wire[c][i + j]
      BY <3>1, <3>2, <3>3
    <3>5. i + j \in 1 .. Len(wire[c]) /\ 1 < i + j
      BY <1>2, <3>3
    <3> QED
      BY <1>2, <1>5, <3>4, <3>5 DEF OrderInv, WireOrdered
  <2> QED
    BY <1>8, <2>1, <2>2 DEF BehindWire, Answered
<1>11. Settled(c, p)'
  <2>1. ~InLine(Answered(c, p))' /\ ~InPending(Answered(c, p))'
    BY <1>8, <1>9 DEF InLine, InPending
  <2> QED
    BY <1>5, <1>10, <2>1 DEF Settled
<1>12. Write(c, p)
  BY <1>4 DEF ReadBad
<1> QED
  BY <1>7, <1>11, <1>12, OneWritten

\* The result of what the worker executed.
LEMMA ExecuteReplies ==
  ASSUME OrderInv, OrderInv', RepliesInv, [Next]_vars, Execute
  PROVE  RepliesInv'
<1>1. TypeOK /\ cur \in Request /\ served \in Seq(Request)
  BY DEF OrderInv, TypeInv, TypeOK
<1>2. CASE ~InMap(cur.client)
  BY <1>2, NothingWritten DEF Execute
<1>3. CASE InMap(cur.client)
  <2>1. PICK c \in Clients : c = cur.client
    BY <1>3 DEF InMap
  <2>2. PICK p \in Reply : p = [n |-> cur.n, kind |-> "result"]
    BY <1>1 DEF Reply, Request
  <2>3. Write(c, p)
    BY <1>3, <2>1, <2>2 DEF Execute
  <2>4. cur = Answered(c, p)
    BY <1>1, <2>1, <2>2 DEF Answered, Request
  <2>5. /\ Len(served) + 1 \in 1 .. Len(Line) /\ Line[Len(served) + 1] = cur
        /\ \A i \in 1 .. Len(served) : i \in 1 .. Len(Line) /\ Line[i] = served[i]
        /\ DOMAIN served = 1 .. Len(served) /\ Len(served) \in Nat
    BY <1>1, LineParts DEF Execute, Taken
  <2>6. cur \notin Elements(served)
    <3> SUFFICES ASSUME NEW i \in 1 .. Len(served), served[i] = cur PROVE FALSE
      BY <2>5 DEF Elements
    <3>1. Before(Line[i], Line[Len(served) + 1])
      BY <2>5 DEF OrderInv, LineInv, Ordered
    <3> QED
      BY <1>1, <2>5, <3>1 DEF Before, Request
  <2>7. InLine(cur) /\ BehindWire(cur)
    BY <2>5 DEF InLine, OrderInv, LineInv
  <2>8. ASSUME NEW i \in 1 .. Len(replies[c]) PROVE replies[c][i].n # p.n
    <3>1. replies[c][i] \in Reply /\ Settled(c, replies[c][i])
      BY ElementOfSeq, <1>1 DEF RepliesInv, TypeOK
    <3>2. Answered(c, replies[c][i]) # cur
      BY <2>6, <2>7, <3>1 DEF Settled, Reply
    <3> QED
      BY <2>4, <3>2 DEF Answered
  <2>9. Settled(c, p)'
    <3>1. BehindWire(Answered(c, p))'
      <4>1. Answered(c, p) \in Request /\ c # Fake
        BY <1>1, <2>4, FakeAssumption
      <4> QED
        BY <2>4, <2>7, <4>1, Moves DEF Answered
    <3>2. cur \in Elements(served')
      <4>1. served' = Append(served, cur)
        BY DEF Execute
      <4>2. Len(served) + 1 \in DOMAIN served' /\ served'[Len(served) + 1] = cur
        BY <1>1, <4>1
      <4> QED
        BY <4>2 DEF Elements
    <3>3. Answered(c, p) \in Elements(served')
      BY <2>4, <3>2
    <3>4. p.kind = "result"
      BY <2>2
    <3> QED
      BY <3>1, <3>3, <3>4 DEF Settled, Elements
  <2> QED
    BY <2>3, <2>8, <2>9, OneWritten
<1> QED
  BY <1>2, <1>3

LEMMA RepliesStep ==
  ASSUME OrderInv, OrderInv', RepliesInv, [Next]_vars
  PROVE  RepliesInv'
<1>1. CASE Execute
  BY <1>1, ExecuteReplies
<1>2. CASE \E c \in Clients : ReadBad(c)
  BY <1>2, ReadBadReplies
<1>3. CASE ~Execute /\ ~ \E c \in Clients : ReadBad(c)
  <2>1. replies' = replies
    BY <1>3 DEF Next, Client, IOThread, Worker, Connect, Send, Close, AcceptBegin, AcceptEnd,
           ReadOk, Disconnect, EnqueueNext, EnqueueInternal, Take, Wait, LookupHit,
           LookupMiss, SpuriousWakeup, Crash, vars
  <2> QED
    BY <2>1, NothingWritten
<1> QED
  BY <1>1, <1>2, <1>3

\* No request is answered twice, by one thread or by both, and it is a result
\* exactly when the worker has executed it (writeResponse, the parser's error).
THEOREM RepliesAreMatched == Spec => []RepliesMatchRequests
<1>1. Init => OrderInv /\ RepliesInv
  <2>1. ASSUME Init, NEW c \in Clients PROVE replies[c] = <<>> /\ 1 .. Len(replies[c]) = {}
    <3>1. replies[c] = <<>>
      BY <2>1 DEF Init
    <3>2. Len(replies[c]) = 0
      BY <3>1, EmptySeq
    <3> QED
      BY <3>1, <3>2
  <2>2. Init => RepliesInv
    BY <2>1 DEF RepliesInv
  <2> QED
    BY <2>2, OrderInvInit
<1>2. OrderInv /\ RepliesInv /\ [Next]_vars => (OrderInv /\ RepliesInv)'
  <2> SUFFICES ASSUME OrderInv, RepliesInv, [Next]_vars PROVE OrderInv' /\ RepliesInv'
    OBVIOUS
  <2>1. OrderInv'
    BY OrderInvStep
  <2> QED
    BY <2>1, RepliesStep
<1>3. OrderInv /\ RepliesInv => RepliesMatchRequests
  <2> SUFFICES ASSUME OrderInv, RepliesInv, NEW c \in Clients
               PROVE  /\ \A i, j \in DOMAIN replies[c] : i # j => replies[c][i].n # replies[c][j].n
                      /\ \A i \in DOMAIN replies[c] :
                            (replies[c][i].kind = "result")
                               <=> ([client |-> c, n |-> replies[c][i].n] \in Elements(served))
    BY DEF RepliesMatchRequests
  <2>1. TypeOK /\ replies[c] \in Seq(Reply) /\ DOMAIN replies[c] = 1 .. Len(replies[c])
    BY LenProperties DEF OrderInv, TypeInv, TypeOK
  <2>2. ASSUME NEW i \in 1 .. Len(replies[c])
        PROVE  (replies[c][i].kind = "result")
                  <=> (Answered(c, replies[c][i]) \in Elements(served))
    <3>1. replies[c][i] \in Reply /\ Settled(c, replies[c][i])
      BY <2>1, ElementOfSeq DEF RepliesInv
    <3>2. ASSUME NEW r \in Elements(served) PROVE InLine(r)
      BY <2>1, LineParts DEF Elements, InLine
    <3>3. replies[c][i].kind \in {"result", "error"}
      BY <3>1 DEF Reply
    <3> QED
      BY <3>1, <3>2, <3>3 DEF Settled
  <2> QED
    BY <2>1, <2>2 DEF RepliesInv, Answered
<1> QED
  BY <1>1, <1>2, <1>3, PTL DEF Spec

=============================================================================
