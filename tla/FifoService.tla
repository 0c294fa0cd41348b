---------------------------- MODULE FifoService ----------------------------
(***************************************************************************)
(* What RequestProcessor promises to the sessions that hand it requests    *)
(* (RequestProcessor.h:14-17, "responsible for processing Redis            *)
(* requests"): requests are taken in the order in which they were          *)
(* accepted, each at most once, and the only way to lose one is that the   *)
(* service ends.  RequestPipeline implements it.                           *)
(***************************************************************************)
EXTENDS Naturals, Sequences

VARIABLES
    backlog,  \* the accepted requests that have not been served, oldest first
    served,   \* the requests served so far, in order
    alive     \* FALSE once the service has ended

vars == <<backlog, served, alive>>

Init ==
    /\ backlog = <<>>
    /\ served = <<>>
    /\ alive = TRUE

\* A request joins the backlog behind all the others.  It may do so even when
\* the service has ended: nobody tells the producers.
Accept ==
    /\ backlog' # <<>>
    /\ backlog' = Append(backlog, backlog'[Len(backlog')])
    /\ UNCHANGED <<served, alive>>

\* The oldest request is served.
Serve ==
    /\ alive
    /\ backlog # <<>>
    /\ served' = Append(served, Head(backlog))
    /\ backlog' = Tail(backlog)
    /\ UNCHANGED alive

\* The service ends; the request it was working on, if any, is lost.
End ==
    /\ alive
    /\ alive' = FALSE
    /\ \/ UNCHANGED backlog
       \/ backlog # <<>> /\ backlog' = Tail(backlog)
    /\ UNCHANGED served

Next == Accept \/ Serve \/ End

Spec == Init /\ [][Next]_vars
=============================================================================
