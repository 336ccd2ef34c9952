------------------------------- MODULE HttpConn -------------------------------
(***************************************************************************)
(* HTTP connections (SrsHttpConn inside of SrsResponseOnlyHttpConn,        *)
(* trunk/src/app/srs_app_http_conn.cpp): their coroutines, the requests    *)
(* they serve, and how they are given up and deleted by the resource       *)
(* manager (declared in srs_app_conn.hpp, its code is not in the           *)
(* repository).                                                            *)
(*                                                                         *)
(* Co is the set of connections; the coroutine of a connection is the one  *)
(* of Lifecycle, which FastCoroutine implements, and every step that uses  *)
(* it takes a step of Lifecycle.  A step of a connection goes from one I/O *)
(* call to the next one: in between no other coroutine runs.  An I/O call  *)
(* may succeed without blocking, so an interrupt can go unnoticed there.   *)
(***************************************************************************)
EXTENDS Lifecycle, Integers

CONSTANTS
    NoConn,      \* "no connection"
    Https,       \* the connections that begin with an SSL handshake
    MaxReads     \* bound: how many reads a body with a content length takes

ASSUME ConnAssumption == NoConn \notin Co /\ Https \subseteq Co /\ MaxReads \in Nat

VARIABLES
    pc,          \* where the connection is: the I/O call it is in
    body,        \* reads of the request's body that are left; -1 if it is chunked
    late,        \* requests taken from the socket since the connection was interrupted
    zombies,     \* SrsResourceManager::zombies_
    deleting     \* the connection whose destructor the manager's coroutine is in

connVars == <<pc, body, late, zombies, deleting>>
vars == <<lvars, connVars>>

Working == {"ready", "handshake", "parse", "body", "serve", "stream"}

Init ==
    /\ LInit
    /\ pc = [c \in Co |-> "idle"]
    /\ body = [c \in Co |-> 0]
    /\ late = [c \in Co |-> 0]
    /\ zombies = {}
    /\ deleting = NoConn

-----------------------------------------------------------------------------
(* The resource manager *)

\* remove(): ignored for what waits to be deleted, or is being deleted.
Removed(c) == zombies' = IF deleting = c THEN zombies ELSE zombies \cup {c}

\* Whoever knows the connection has it removed, once or more often.
Remove(c) ==
    /\ pc[c] # "idle" /\ ~gone[c]
    /\ Removed(c)
    /\ UNCHANGED <<lvars, pc, body, late, deleting>>

\* Faulty variant: the destructor does not interrupt the coroutine.
CloseSilently(c) ==
    /\ ~closed[c]
    /\ closed' = [closed EXCEPT ![c] = TRUE]
    /\ UNCHANGED <<phase, alert, gone>>

\* ~SrsHttpConn up to the wait in stop(): interrupt, then delete the coroutine.
CloseConn(c) == Close(c) /\ alert' = IF phase[c] = "live"
                                     THEN [alert EXCEPT ![c] = TRUE] ELSE alert

\* The manager's coroutine calls the destructor of a zombie.
DeleteBegin(c) ==
    /\ deleting = NoConn /\ c \in zombies
    /\ zombies' = zombies \ {c}
    /\ deleting' = c
    /\ CloseConn(c)
    /\ UNCHANGED <<pc, body, late>>

\* Faulty variant: the rest is freed without waiting for the coroutine.
DeleteEndEarly(c) ==
    /\ deleting = c
    /\ deleting' = NoConn
    /\ gone' = [gone EXCEPT ![c] = TRUE]
    /\ UNCHANGED <<phase, alert, closed, pc, body, late, zombies>>

\* The wait is over, or there was nothing to wait for; the rest is freed.
DeleteEnd(c) ==
    /\ deleting = c
    /\ deleting' = NoConn
    /\ Join(c) \/ Free(c)
    /\ gone' = [gone EXCEPT ![c] = TRUE]
    /\ UNCHANGED <<pc, body, late, zombies>>

-----------------------------------------------------------------------------
(* What the server calls *)

\* start(): the CORS setup or the socket fails, or the coroutine, whose pull()
\* then reports it.  Nobody but the server can have the connection removed.
StartFails(c) ==
    /\ pc[c] = "idle"
    /\ pc' = [pc EXCEPT ![c] = "over"]
    /\ UNCHANGED lvars \/ Raise(c)
    /\ UNCHANGED <<body, late, zombies, deleting>>

Start(c) ==
    /\ pc[c] = "idle"
    /\ pc' = [pc EXCEPT ![c] = "ready"]
    /\ Launch(c)
    /\ UNCHANGED <<body, late, zombies, deleting>>

\* expire(): interrupt() does nothing unless the coroutine is alive.
Expire(c) ==
    /\ phase[c] = "live" /\ Raise(c)
    /\ UNCHANGED connVars

-----------------------------------------------------------------------------
(* The connection's coroutine *)

\* Faulty variant: on_conn_done() does not have the connection removed.
EndForgotten(c) ==
    /\ pc' = [pc EXCEPT ![c] = "over"]
    /\ Finish(c) /\ alert' = alert
    /\ UNCHANGED <<body, late, zombies, deleting>>

\* do_cycle() returns to cycle(): on_conn_done() has the connection removed, and
\* cycle() turns every error into success, so that pull() does not change.
End(c) ==
    /\ pc' = [pc EXCEPT ![c] = "over"]
    /\ Removed(c)
    /\ Finish(c) /\ alert' = alert
    /\ UNCHANGED <<body, late, deleting>>

Goto(c, call) ==
    /\ pc' = [pc EXCEPT ![c] = call]
    /\ UNCHANGED <<lvars, late, zombies, deleting>>

\* Faulty variant: process_requests() does not ask pull().
ContinueDeaf(c) == Goto(c, "parse") /\ UNCHANGED body

\* The head of the loop in process_requests().
Continue(c) ==
    IF alert[c] THEN End(c) ELSE Goto(c, "parse") /\ UNCHANGED body

\* The coroutine runs for the first time: the parser, on_start().
Run(c) ==
    /\ pc[c] = "ready"
    /\ \/ End(c)
       \/ c \in Https /\ Goto(c, "handshake") /\ UNCHANGED body
       \/ c \notin Https /\ Continue(c)

Handshake(c) ==
    /\ pc[c] = "handshake"
    /\ End(c) \/ Continue(c)

\* A request arrives, of whatever length; its body is to be dropped.
Request(c, n) ==
    /\ pc' = [pc EXCEPT ![c] = IF n > 0 THEN "body" ELSE "serve"]
    /\ body' = [body EXCEPT ![c] = n]
    /\ late' = IF alert[c] THEN [late EXCEPT ![c] = @ + 1] ELSE late
    /\ UNCHANGED <<lvars, zombies, deleting>>

\* parse_message(): a request, an error, or the receive timeout.
Parse(c) ==
    /\ pc[c] = "parse"
    /\ End(c) \/ \E n \in -1 .. MaxReads : Request(c, n)

\* Faulty variant: one read is enough.
DropOnce(c) ==
    /\ pc[c] = "body"
    /\ \/ End(c)
       \/ /\ body' = [body EXCEPT ![c] = @ - 1]
          /\ Goto(c, "serve")

\* on_http_message(): one read of the body.
Drop(c) ==
    /\ pc[c] = "body"
    /\ \/ End(c)
       \/ /\ body' = [body EXCEPT ![c] = @ - 1]
          /\ Goto(c, IF body[c] > 1 THEN "body" ELSE "serve")

\* process_request(): the handler answers, or begins to stream.  Then the next
\* request if the client keeps the connection alive.
Serve(c) ==
    /\ pc[c] = "serve"
    /\ \/ End(c)
       \/ Continue(c)
       \/ Goto(c, "stream") /\ UNCHANGED body

\* Faulty variant: pop_message() does not ask pull() after a timeout, and the
\* client keeps the connection open.
PopMessageDeaf(c) == pc[c] = "stream" /\ UNCHANGED vars

\* pop_message(), in the receiver of a stream: after every timeout, and every
\* piece of data, it asks the connection's pull(); an error ends the stream.
PopMessage(c) ==
    /\ pc[c] = "stream"
    /\ UNCHANGED body
    /\ \/ Goto(c, "serve")
       \/ ~alert[c] /\ Goto(c, "stream")

Step(c) == Run(c) \/ Handshake(c) \/ Parse(c) \/ Drop(c) \/ Serve(c)

Next ==
    \E c \in Co :
        \/ Start(c) \/ StartFails(c) \/ Expire(c) \/ Remove(c)
        \/ Step(c) \/ PopMessage(c)
        \/ DeleteBegin(c) \/ DeleteEnd(c)

Spec == Init /\ [][Next]_vars

\* An I/O call ends: reading has a timeout (set_recv_timeout), and the handlers
\* return.  A client may keep a stream open for ever, but the receiver's timeout
\* makes it ask pull(); a handler does not begin one stream after the other.  The
\* manager deletes a batch of zombies in order, so it comes to every one.
Fairness ==
    \A c \in Co :
        /\ WF_vars(Step(c)) /\ WF_vars(alert[c] /\ PopMessage(c))
        /\ SF_vars(pc[c] = "serve" /\ (End(c) \/ Continue(c)))
        /\ SF_vars(DeleteBegin(c)) /\ WF_vars(DeleteEnd(c))

FairSpec == Spec /\ Fairness

-----------------------------------------------------------------------------
\* Every variable has its type.
TypeOK ==
    /\ phase \in [Co -> Phases]
    /\ alert \in [Co -> BOOLEAN] /\ closed \in [Co -> BOOLEAN] /\ gone \in [Co -> BOOLEAN]
    /\ pc \in [Co -> Working \cup {"idle", "over"}]
    /\ body \in [Co -> -1 .. MaxReads]
    /\ late \in [Co -> Nat]
    /\ zombies \subseteq Co
    /\ deleting \in Co \cup {NoConn}

\* A connection that is deleted is not used any more, neither by its own
\* coroutine nor by the manager, which does not delete it twice, even though the
\* coroutine calls remove() on its way out of a destructor that waits for it.
DeletedIsUnused ==
    \A c \in Co : gone[c] => pc[c] = "over" /\ c \notin zombies /\ deleting # c

\* A connection whose coroutine has ended is not forgotten, whatever ended it: it
\* is deleted or the manager knows of it.
NotForgotten ==
    \A c \in Co : phase[c] = "ended" => deleting = c \/ c \in zombies

\* An interrupted connection takes no more than the one request it may have been
\* waiting for, however many the client has already sent.
OneLateRequest == \A c \in Co : late[c] <= 1

\* expire(), and everything else that interrupts a connection, leads to its
\* deletion, also in a stream and while the client goes on sending requests.
ExpireEnds == \A c \in Co : alert[c] /\ phase[c] = "live" ~> gone[c]

\* remove() leads to the deletion; the manager is not blocked for ever by a
\* connection that does not end.
RemoveDeletes == \A c \in Co : c \in zombies ~> gone[c]

\* The comment "Drop all request body" in on_http_message(): the next request of a
\* connection does not begin inside of the body of the last one, however many reads
\* that takes and whatever the handler does.  (A chunked body has no length, and
\* is not dropped.)
BodyDropped == \A c \in Co : pc[c] = "parse" => body[c] <= 0
=============================================================================
