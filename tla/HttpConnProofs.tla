---------------------------- MODULE HttpConnProofs ----------------------------
(***************************************************************************)
(* The safety properties of HttpConn for any number of connections.        *)
(***************************************************************************)
EXTENDS HttpConn, TLAPS

\* One connection: where it is agrees with the state of its coroutine, of its
\* destructor and of the manager.
ConnOK(c) ==
    /\ pc[c] = "idle" => phase[c] = "new" /\ ~closed[c]
    /\ phase[c] = "live" <=> pc[c] \in Working
    /\ closed[c] <=> deleting = c \/ gone[c]
    /\ gone[c] => phase[c] \in {"new", "joined"} /\ deleting # c
    /\ phase[c] = "joined" => gone[c]
    /\ phase[c] = "ended" => deleting = c \/ c \in zombies
    /\ c \in zombies => pc[c] # "idle" /\ ~closed[c]
    /\ pc[c] # "over" => (body[c] > 0 <=> pc[c] = "body")

\* The requests that an interrupted connection has taken: with one, it does not
\* come back to the socket.
LateOK(c) ==
    /\ late[c] <= 1
    /\ late[c] > 0 => alert[c] /\ pc[c] \notin {"idle", "ready", "handshake", "parse"}

\* The inductive invariant.
IInv == TypeOK /\ \A c \in Co : ConnOK(c) /\ LateOK(c)

\* Expanding LateOK in a step is easiest in this form.
LEMMA LateTake ==
    ASSUME TypeOK, NEW c \in Co, LateOK(c), pc[c] = "parse"
    PROVE  late[c] = 0
BY DEF TypeOK, LateOK

LEMMA ConnInit == Init => IInv
BY ConnAssumption
   DEF Init, LInit, IInv, TypeOK, ConnOK, LateOK, Phases, Working

\* The end of a destructor.
LEMMA DeleteEndStep ==
    ASSUME IInv, NEW c \in Co, DeleteEnd(c)
    PROVE  IInv'
<1>1. /\ deleting = c /\ deleting' = NoConn /\ gone' = [gone EXCEPT ![c] = TRUE]
      /\ UNCHANGED <<pc, body, late, zombies, closed>>
  BY DEF DeleteEnd, Join, Free
<1>2. /\ phase' = phase \/ phase' = [phase EXCEPT ![c] = "joined"]
      /\ phase[c] = "ended" => phase'[c] = "joined"
      /\ phase[c] \in {"new", "ended", "joined"} /\ closed[c]
      /\ alert' = alert \/ alert' = [alert EXCEPT ![c] = TRUE]
  BY DEF DeleteEnd, Join, Free, IInv, TypeOK
<1>3. TypeOK'
  <2>1. phase' \in [Co -> Phases]
    BY <1>2 DEF IInv, TypeOK, Phases
  <2>2. alert' \in [Co -> BOOLEAN] /\ gone' \in [Co -> BOOLEAN]
    BY <1>1, <1>2 DEF IInv, TypeOK
  <2> QED
    BY <1>1, <2>1, <2>2 DEF IInv, TypeOK
<1>4. ASSUME NEW d \in Co PROVE ConnOK(d)'
  <2>1. CASE d = c
    <3>1. phase'[c] \in {"new", "joined"} /\ gone'[c]
      BY <1>1, <1>2 DEF IInv, TypeOK
    <3>2. pc[c] # "idle" => pc[c] \notin Working
      BY <1>2 DEF IInv, ConnOK
    <3> QED
      BY <2>1, <1>1, <1>2, <3>1, <3>2, ConnAssumption DEF IInv, ConnOK, Working
  <2>2. CASE d # c
    <3>1. phase'[d] = phase[d] /\ gone'[d] = gone[d]
      BY <2>2, <1>1, <1>2 DEF IInv, TypeOK
    <3>2. deleting # d /\ deleting' # d
      BY <2>2, <1>1, ConnAssumption
    <3> QED
      BY <1>1, <3>1, <3>2 DEF IInv, ConnOK
  <2> QED
    BY <2>1, <2>2
<1>5. ASSUME NEW d \in Co PROVE LateOK(d)'
  <2>1. alert[d] => alert'[d]
    BY <1>2 DEF IInv, TypeOK
  <2> QED
    BY <1>1, <2>1 DEF IInv, LateOK
<1> QED
  BY <1>3, <1>4, <1>5 DEF IInv

\* The steps of the manager and of the server.
LEMMA OutsideStep ==
    ASSUME IInv, NEW c \in Co,
           Start(c) \/ StartFails(c) \/ Expire(c) \/ Remove(c)
           \/ DeleteBegin(c) \/ DeleteEnd(c)
    PROVE  IInv'
<1> USE ConnAssumption DEF IInv, TypeOK, ConnOK, LateOK, Working, Phases, lvars, connVars
<1>1. CASE Start(c)
  BY <1>1 DEF Start, Launch
<1>2. CASE StartFails(c)
  <2>1. CASE UNCHANGED lvars
    BY <1>2, <2>1 DEF StartFails
  <2>2. CASE Raise(c)
    BY <1>2, <2>2 DEF StartFails, Raise
  <2> QED
    BY <1>2, <2>2 DEF StartFails
<1>3. CASE Expire(c)
  BY <1>3 DEF Expire, Raise
<1>4. CASE Remove(c)
  BY <1>4 DEF Remove, Removed
<1>5. CASE DeleteBegin(c)
  BY <1>5 DEF DeleteBegin, CloseConn, Close
<1>6. CASE DeleteEnd(c)
  BY <1>6, DeleteEndStep
<1> QED
  BY <1>1, <1>2, <1>3, <1>4, <1>5, <1>6

\* The end of a connection's coroutine, wherever it was.
LEMMA EndStep ==
    ASSUME IInv, NEW c \in Co, pc[c] \in Working, End(c)
    PROVE  IInv'
BY DEF IInv, TypeOK, ConnOK, LateOK, Working, Phases, End, Removed, Finish

\* A step to another I/O call, but not back to the socket with a late request.
LEMMA GotoStep ==
    ASSUME IInv, NEW c \in Co, NEW call \in Working, pc[c] \in Working, Goto(c, call),
           body' \in [Co -> -1 .. MaxReads],
           body'[c] > 0 <=> call = "body", \A d \in Co \ {c} : body'[d] = body[d],
           late[c] > 0 => call \notin {"ready", "handshake", "parse"}
    PROVE  IInv'
BY DEF IInv, TypeOK, ConnOK, LateOK, Working, lvars, Goto

LEMMA ContinueStep ==
    ASSUME IInv, NEW c \in Co, pc[c] \in Working \ {"body"}, Continue(c)
    PROVE  IInv'
<1>1. CASE alert[c]
  BY <1>1, EndStep DEF Continue
<1>2. CASE ~alert[c]
  <2>1. Goto(c, "parse") /\ body' = body
    BY <1>2 DEF Continue
  <2>2. ~(late[c] > 0) /\ body' \in [Co -> -1 .. MaxReads] /\ ~(body'[c] > 0)
    BY <1>2, <2>1 DEF IInv, ConnOK, LateOK, TypeOK, Working
  <2>3. "parse" \in Working
    BY DEF Working
  <2> QED
    BY <2>1, <2>2, <2>3, GotoStep
<1> QED
  BY <1>1, <1>2

LEMMA RequestStep ==
    ASSUME IInv, NEW c \in Co, pc[c] = "parse", NEW n \in -1 .. MaxReads, Request(c, n)
    PROVE  IInv'
<1>1. late[c] = 0
  BY LateTake DEF IInv
<1>2. late' \in [Co -> Nat] /\ late'[c] <= 1 /\ (late'[c] > 0 => alert[c])
      /\ \A d \in Co \ {c} : late'[d] = late[d]
  BY <1>1 DEF IInv, TypeOK, Request
<1>3. /\ pc' \in [Co -> Working \cup {"idle", "over"}]
      /\ pc'[c] \in {"body", "serve"} /\ \A d \in Co \ {c} : pc'[d] = pc[d]
      /\ body' \in [Co -> -1 .. MaxReads]
      /\ body'[c] > 0 <=> pc'[c] = "body"
      /\ \A d \in Co \ {c} : body'[d] = body[d]
      /\ UNCHANGED <<phase, alert, closed, gone, zombies, deleting>>
  BY DEF IInv, TypeOK, Request, Working, lvars
<1>4. ASSUME NEW d \in Co PROVE LateOK(d)'
  BY <1>2, <1>3 DEF IInv, LateOK
<1>5. ASSUME NEW d \in Co PROVE ConnOK(d)'
  BY <1>3 DEF IInv, ConnOK, Working
<1>6. TypeOK'
  BY <1>2, <1>3 DEF IInv, TypeOK
<1> QED
  BY <1>4, <1>5, <1>6 DEF IInv

\* The steps of a connection's own coroutine.
LEMMA OwnStep ==
    ASSUME IInv, NEW c \in Co, Step(c) \/ PopMessage(c)
    PROVE  IInv'
<1>0. body \in [Co -> -1 .. MaxReads]
      /\ \A call \in {"handshake", "parse", "body", "serve", "stream"} : call \in Working
  BY DEF IInv, TypeOK, Working
<1>1. pc[c] \in Working
  BY DEF Step, Run, Handshake, Parse, Drop, Serve, PopMessage, Working
<1>2. CASE End(c) \/ (pc[c] # "body" /\ Continue(c))
  BY <1>1, <1>2, EndStep, ContinueStep
<1>3. CASE pc[c] = "ready" /\ Goto(c, "handshake") /\ UNCHANGED body
  BY <1>0, <1>1, <1>3, GotoStep DEF IInv, ConnOK, LateOK
<1>4. ASSUME pc[c] = "parse", NEW n \in -1 .. MaxReads, Request(c, n) PROVE IInv'
  BY <1>4, RequestStep
<1>5. CASE /\ pc[c] = "body"
           /\ body' = [body EXCEPT ![c] = @ - 1]
           /\ Goto(c, IF body[c] > 1 THEN "body" ELSE "serve")
  <2>1. body[c] \in 1 .. MaxReads
    BY <1>0, <1>5 DEF IInv, ConnOK
  <2>2. /\ body' \in [Co -> -1 .. MaxReads]
        /\ body'[c] > 0 <=> body[c] > 1
        /\ \A d \in Co \ {c} : body'[d] = body[d]
    BY <1>0, <1>5, <2>1, ConnAssumption
  <2>3. CASE body[c] > 1
    BY <1>1, <1>5, <2>2, <2>3, GotoStep
  <2>4. CASE ~(body[c] > 1)
    BY <1>0, <1>5, <2>2, GotoStep
  <2> QED
    BY <2>3, <2>4
<1>6. CASE /\ pc[c] \in {"serve", "stream"}
           /\ (Goto(c, "stream") \/ Goto(c, "serve")) /\ UNCHANGED body
  BY <1>0, <1>6, GotoStep DEF IInv, ConnOK
<1> QED
  BY <1>2, <1>3, <1>4, <1>5, <1>6
     DEF Step, Run, Handshake, Parse, Drop, Serve, PopMessage

\* The invariant the other theorems rest on.
THEOREM ConnInductive == Spec => []IInv
<1>1. IInv /\ [Next]_vars => IInv'
  <2> SUFFICES ASSUME IInv, [Next]_vars PROVE IInv'
    OBVIOUS
  <2>1. CASE UNCHANGED vars
    BY <2>1 DEF vars, lvars, connVars, IInv, TypeOK, ConnOK, LateOK
  <2>2. ASSUME NEW c \in Co,
               Start(c) \/ StartFails(c) \/ Expire(c) \/ Remove(c)
               \/ DeleteBegin(c) \/ DeleteEnd(c)
        PROVE  IInv'
    BY <2>2, OutsideStep
  <2>3. ASSUME NEW c \in Co, Step(c) \/ PopMessage(c)
        PROVE  IInv'
    BY <2>3, OwnStep
  <2> QED
    BY <2>1, <2>2, <2>3 DEF Next
<1> QED
  BY ConnInit, <1>1, PTL DEF Spec

\* Type correctness (SrsHttpConn, SrsResponseOnlyHttpConn).
THEOREM ConnTypeCorrect == Spec => []TypeOK
BY ConnInductive, PTL DEF IInv

\* A deleted connection is not used any more (~SrsHttpConn, on_conn_done).
THEOREM DeletedTheorem == Spec => []DeletedIsUnused
<1>1. IInv => DeletedIsUnused
  BY DEF IInv, TypeOK, ConnOK, DeletedIsUnused
<1> QED
  BY ConnInductive, <1>1, PTL

\* A connection that has ended is not forgotten (on_conn_done).
THEOREM ForgottenTheorem == Spec => []NotForgotten
<1>1. IInv => NotForgotten
  BY DEF IInv, ConnOK, NotForgotten
<1> QED
  BY ConnInductive, <1>1, PTL

\* An interrupted connection takes at most one more request (process_requests).
THEOREM LateTheorem == Spec => []OneLateRequest
<1>1. IInv => OneLateRequest
  <2> SUFFICES ASSUME IInv, NEW c \in Co PROVE late[c] <= 1
    BY DEF OneLateRequest
  <2>1. LateOK(c)
    BY DEF IInv
  <2> QED
    BY <2>1 DEF LateOK
<1> QED
  BY ConnInductive, <1>1, PTL

\* A body with a length is read to its end before the next request (on_http_message).
THEOREM BodyTheorem == Spec => []BodyDropped
<1>1. IInv => BodyDropped
  BY DEF IInv, ConnOK, BodyDropped, TypeOK
<1> QED
  BY ConnInductive, <1>1, PTL

\* A connection drives its coroutine as Lifecycle allows it, and so as a
\* SrsSTCoroutine can be driven: start(), interrupt(), stop() and the destructor
\* (SrsHttpConn::start, expire, cycle, ~SrsHttpConn).
THEOREM ConnUsesLifecycle == Spec => LSpec
<1>1. Init => LInit
  BY DEF Init
<1>2. ASSUME NEW c \in Co,
             Start(c) \/ StartFails(c) \/ Expire(c) \/ Remove(c) \/ DeleteBegin(c) \/ DeleteEnd(c)
      PROVE  [LNext]_lvars
  <2>1. CASE Start(c)
    BY <2>1 DEF Start, LNext
  <2>2. CASE StartFails(c)
    BY <2>2 DEF StartFails, LNext
  <2>3. CASE Expire(c)
    BY <2>3 DEF Expire, LNext
  <2>4. CASE Remove(c)
    BY <2>4 DEF Remove
  <2>5. CASE DeleteBegin(c)
    BY <2>5 DEF DeleteBegin, CloseConn, LNext
  <2>6. CASE DeleteEnd(c)
    BY <2>6 DEF DeleteEnd, LNext
  <2> QED
    BY <1>2, <2>1, <2>2, <2>3, <2>4, <2>5, <2>6
<1>3. ASSUME NEW c \in Co, End(c) PROVE [LNext]_lvars
  BY <1>3 DEF End, LNext
<1>4. ASSUME NEW c \in Co, NEW call, Goto(c, call) PROVE UNCHANGED lvars
  BY <1>4 DEF Goto
<1>5. ASSUME NEW c \in Co, Continue(c) PROVE [LNext]_lvars
  BY <1>3, <1>4, <1>5 DEF Continue
<1>6. ASSUME NEW c \in Co, Step(c) PROVE [LNext]_lvars
  BY <1>3, <1>4, <1>5, <1>6 DEF Step, Run, Handshake, Parse, Request, Drop, Serve
<1>7. ASSUME NEW c \in Co, PopMessage(c) PROVE [LNext]_lvars
  BY <1>4, <1>7 DEF PopMessage
<1>8. UNCHANGED vars => UNCHANGED lvars
  BY DEF vars
<1>9. [Next]_vars => [LNext]_lvars
  BY <1>2, <1>6, <1>7, <1>8 DEF Next
<1> QED
  BY <1>1, <1>9, PTL DEF Spec, LSpec
=============================================================================
