-------------------------- MODULE LifecycleProofs --------------------------
(***************************************************************************)
(* Theorems about CollectLifecycle, for every set of processes, requests   *)
(* and servers.                                                            *)
(***************************************************************************)
EXTENDS CollectLifecycle, TLAPS

\* A request in flight has a process that serves or drains.
HandlersHaveAProcess ==
  \A r \in Requests :
    request[r].stage \in InFlight =>
      main[request[r].by] \in {"serving"} \cup Draining

\* Only a process that failed has cut a request off.
CutByFailure ==
  \A r \in Requests :
    request[r].stage = "cut" => main[request[r].by] = "failed"

\* Once GracefulStop has begun no HTTP request is in flight.
HTTPIsDrained ==
  \A p \in Processes :
    main[p] = "drainGRPC" => HandledBy(p) \cap Over("http") = {}

StopInv == TypeOK /\ HandlersHaveAProcess /\ CutByFailure /\ HTTPIsDrained

\* What the pieces of the state are.
LEMMA RequestType ==
  ASSUME TypeOK, NEW r \in Requests
  PROVE  \/ request[r].stage = "unsent"
         \/ /\ request[r].stage \in InFlight \cup {"answered", "cut"}
            /\ request[r].by \in Processes
            /\ request[r].over \in {"http", "grpc"}
<1>1. request[r] \in {Unsent} \cup Sent  BY DEF TypeOK
<1>2. CASE request[r] = Unsent  BY <1>2 DEF Unsent
<1>3. CASE request[r] \in Sent
  BY <1>3, LifecycleAssumption DEF Sent
<1>4. QED  BY <1>1, <1>2, <1>3

LEMMA InFlightBy ==
  ASSUME TypeOK, NEW r \in Requests, request[r].stage \in InFlight
  PROVE  request[r].by \in Processes
BY RequestType DEF InFlight

\* Advancing a request that is in flight.
LEMMA AdvanceKeepsTypes ==
  ASSUME TypeOK, NEW r \in Requests, request[r].stage \in InFlight,
         NEW stage \in InFlight \cup {"answered"}, Advance(r, stage)
  PROVE  /\ request' \in [Requests -> {Unsent} \cup Sent]
         /\ request'[r].stage = stage /\ request'[r].by = request[r].by
         /\ request'[r].over = request[r].over
         /\ \A q \in Requests \ {r} : request'[q] = request[q]
<1>1. request \in [Requests -> {Unsent} \cup Sent]  BY DEF TypeOK
<1>2. request[r] \in Sent
  <2>1. request[r] # Unsent  BY DEF Unsent, InFlight
  <2> QED  BY <1>1, <2>1
<1>3. request' = [request EXCEPT ![r].stage = stage]  BY DEF Advance
<1>4. request' = [request EXCEPT ![r] = [request[r] EXCEPT !.stage = stage]]
  BY <1>3
<1> DEFINE new == [request[r] EXCEPT !.stage = stage]
<1>5. /\ new \in Sent /\ new.stage = stage
      /\ new.by = request[r].by /\ new.over = request[r].over
  BY <1>2 DEF Sent
<1>6. request' = [request EXCEPT ![r] = new]  BY <1>4
<1> HIDE DEF new
<1>7. QED  BY <1>1, <1>5, <1>6

\* Exit cuts off what the process handles and nothing else.
LEMMA ExitEffects ==
  ASSUME TypeOK, NEW p \in Processes, NEW outcome \in Ended, Exit(p, outcome)
  PROVE  /\ request' \in [Requests -> {Unsent} \cup Sent]
         /\ port' \in [Transports -> Processes \cup {Nobody}]
         /\ main' = [main EXCEPT ![p] = outcome]
         /\ \A r \in HandledBy(p) : /\ request'[r].stage = "cut"
                                    /\ request'[r].by = p
         /\ \A r \in Requests \ HandledBy(p) : request'[r] = request[r]
<1>1. request \in [Requests -> {Unsent} \cup Sent]  BY DEF TypeOK
<1>2. request' = [r \in Requests |->
                   IF r \in HandledBy(p)
                   THEN [request[r] EXCEPT !.stage = "cut"] ELSE request[r]]
  BY DEF Exit
<1>3. ASSUME NEW r \in HandledBy(p)
      PROVE  /\ request'[r] \in Sent /\ request'[r].stage = "cut"
             /\ request'[r].by = p
  <2>1. r \in Requests /\ request[r].by = p /\ request[r].stage \in InFlight
    BY DEF HandledBy
  <2>2. request[r] \in Sent
    <3>1. request[r] # Unsent  BY <2>1 DEF Unsent, InFlight
    <3> QED  BY <1>1, <2>1, <3>1
  <2>3. request'[r] = [request[r] EXCEPT !.stage = "cut"]  BY <1>2, <2>1
  <2> QED  BY <2>1, <2>2, <2>3 DEF Sent
<1>4. \A r \in Requests \ HandledBy(p) : request'[r] = request[r]
  BY <1>2
<1>5. request' \in [Requests -> {Unsent} \cup Sent]
  <2>1. ASSUME NEW r \in Requests PROVE request'[r] \in {Unsent} \cup Sent
    <3>1. CASE r \in HandledBy(p)  BY <3>1, <1>3
    <3>2. CASE r \notin HandledBy(p)  BY <3>2, <1>1, <1>4
    <3> QED  BY <3>1, <3>2
  <2>2. request' = [r \in Requests |-> request'[r]]  BY <1>2
  <2> QED  BY <2>1, <2>2
<1>6. port' \in [Transports -> Processes \cup {Nobody}]
  BY DEF Exit, TypeOK
<1>7. main' = [main EXCEPT ![p] = outcome]  BY DEF Exit, Move
<1>8. QED  BY <1>3, <1>4, <1>5, <1>6, <1>7

\* A process that is alive ends: by a failure, or with nothing in flight.
LEMMA ExitKeeps ==
  ASSUME StopInv, NEW p \in Processes, Alive(p), NEW outcome \in Ended,
         Exit(p, outcome), outcome = "failed" \/ HandledBy(p) = {}
  PROVE  HandlersHaveAProcess' /\ CutByFailure' /\ HTTPIsDrained'
<1>1. /\ TypeOK
      /\ DOMAIN main = Processes
  BY DEF StopInv, TypeOK
<1>2. /\ main' = [main EXCEPT ![p] = outcome]
      /\ \A r \in HandledBy(p) : request'[r].stage = "cut" /\ request'[r].by = p
      /\ \A r \in Requests \ HandledBy(p) : request'[r] = request[r]
  BY ExitEffects DEF StopInv
<1>3. main'[p] = outcome /\ \A q \in Processes \ {p} : main'[q] = main[q]
  BY <1>1, <1>2
<1>4. ASSUME NEW r \in Requests, request'[r].stage \in InFlight
      PROVE  /\ request'[r] = request[r] /\ request[r].by \in Processes \ {p}
  <2>1. r \notin HandledBy(p)  BY <1>2, <1>4 DEF InFlight
  <2>2. request'[r] = request[r]  BY <1>2, <2>1
  <2> QED  BY <1>1, <1>4, <2>1, <2>2, InFlightBy DEF HandledBy
<1>5. HandlersHaveAProcess'
  BY <1>3, <1>4 DEF StopInv, HandlersHaveAProcess
<1>6. ASSUME NEW r \in Requests, request'[r].stage = "cut"
      PROVE  main'[request'[r].by] = "failed"
  <2>1. CASE r \in HandledBy(p)  BY <2>1, <1>2, <1>3
  <2>2. CASE r \notin HandledBy(p)
    <3>1. request'[r] = request[r]  BY <2>2, <1>2
    <3>2. main[request[r].by] = "failed" /\ request[r].by \in Processes
      BY <1>1, <1>6, <3>1, RequestType DEF StopInv, CutByFailure
    <3>3. request[r].by # p  BY <3>2 DEF Alive, Ended
    <3> QED  BY <1>3, <3>1, <3>2, <3>3
  <2> QED  BY <2>1, <2>2
<1>7. HTTPIsDrained'
  <2>1. ASSUME NEW q \in Processes, main'[q] = "drainGRPC", NEW r \in Requests,
               r \in HandledBy(q)', r \in Over("http")'
        PROVE  FALSE
    <3>1. q # p /\ main[q] = "drainGRPC"  BY <1>3, <2>1 DEF Ended
    <3>2. request'[r] = request[r]  BY <1>4, <2>1 DEF HandledBy
    <3>3. r \in HandledBy(q) /\ r \in Over("http")
      BY <2>1, <3>2 DEF HandledBy, Over
    <3> QED  BY <3>1, <3>3 DEF StopInv, HTTPIsDrained
  <2> QED  BY <2>1 DEF HTTPIsDrained, HandledBy
<1>8. QED  BY <1>5, <1>6, <1>7 DEF CutByFailure

\* A process moves on: out of serving only into the shutdown, and to the second
\* server only when the first has drained.
LEMMA MoveKeeps ==
  ASSUME StopInv, NEW p \in Processes, NEW stage, Move(p, stage),
         UNCHANGED request, main[p] # "failed",
         main[p] \in {"serving"} \cup Draining => stage \in {"serving"} \cup Draining,
         stage = "drainGRPC" => HandledBy(p) \cap Over("http") = {}
  PROVE  HandlersHaveAProcess' /\ CutByFailure' /\ HTTPIsDrained'
<1>1. TypeOK /\ DOMAIN main = Processes  BY DEF StopInv, TypeOK
<1>2. main'[p] = stage /\ \A q \in Processes \ {p} : main'[q] = main[q]
  BY <1>1 DEF Move
<1>3. HandlersHaveAProcess'
  <2>1. ASSUME NEW r \in Requests, request[r].stage \in InFlight
        PROVE  main'[request[r].by] \in {"serving"} \cup Draining
    <3>1. /\ request[r].by \in Processes
          /\ main[request[r].by] \in {"serving"} \cup Draining
      BY <1>1, <2>1, InFlightBy DEF StopInv, HandlersHaveAProcess
    <3> QED  BY <1>2, <3>1
  <2> QED  BY <2>1 DEF HandlersHaveAProcess
<1>4. CutByFailure'
  <2>1. ASSUME NEW r \in Requests, request[r].stage = "cut"
        PROVE  main'[request[r].by] = "failed"
    <3>1. request[r].by \in Processes /\ main[request[r].by] = "failed"
      BY <1>1, <2>1, RequestType DEF StopInv, CutByFailure
    <3> QED  BY <1>2, <3>1
  <2> QED  BY <2>1 DEF CutByFailure
<1>5. HTTPIsDrained'
  <2>1. \A q \in Processes : HandledBy(q)' = HandledBy(q)  BY DEF HandledBy
  <2>2. Over("http")' = Over("http")  BY DEF Over
  <2> QED  BY <1>2, <2>1, <2>2 DEF StopInv, HTTPIsDrained
<1>6. QED  BY <1>3, <1>4, <1>5

\* A handler goes on.
LEMMA AdvanceKeeps ==
  ASSUME StopInv, NEW r \in Requests, request[r].stage \in InFlight,
         NEW stage \in InFlight \cup {"answered"}, Advance(r, stage),
         UNCHANGED main
  PROVE  HandlersHaveAProcess' /\ CutByFailure' /\ HTTPIsDrained'
<1>1. /\ request'[r].stage = stage /\ request'[r].by = request[r].by
      /\ request'[r].over = request[r].over
      /\ \A q \in Requests \ {r} : request'[q] = request[q]
  BY AdvanceKeepsTypes DEF StopInv
<1>2. stage # "cut"  BY DEF InFlight
<1>3. HandlersHaveAProcess'
  BY <1>1 DEF StopInv, HandlersHaveAProcess
<1>4. CutByFailure'
  BY <1>1, <1>2 DEF StopInv, CutByFailure
<1>5. HTTPIsDrained'
  <2>1. ASSUME NEW p \in Processes, main[p] = "drainGRPC", NEW q \in Requests,
               q \in HandledBy(p)', q \in Over("http")'
        PROVE  FALSE
    <3>1. q \in HandledBy(p) /\ q \in Over("http")
      BY <1>1, <2>1 DEF HandledBy, Over
    <3> QED  BY <2>1, <3>1 DEF StopInv, HTTPIsDrained
  <2> QED  BY <2>1 DEF HTTPIsDrained, HandledBy
<1>6. QED  BY <1>3, <1>4, <1>5

\* A request arrives at a server that listens.
LEMMA ArriveKeeps ==
  ASSUME StopInv, NEW p \in Processes, NEW t \in Transports, NEW r \in Requests,
         Arrive(p, t, r)
  PROVE  /\ request' \in [Requests -> {Unsent} \cup Sent]
         /\ HandlersHaveAProcess' /\ CutByFailure' /\ HTTPIsDrained'
<1> DEFINE new == [stage |-> "open", by |-> p, over |-> t]
<1>1. request \in [Requests -> {Unsent} \cup Sent]  BY DEF StopInv, TypeOK
<1>2. /\ request' = [request EXCEPT ![r] = new] /\ main' = main
      /\ main[p] \in {"serving", "drainHTTP"}
  BY DEF Arrive
<1>3. new \in Sent  BY DEF Sent, InFlight
<1>4. /\ request'[r].stage = "open" /\ request'[r].by = p
      /\ \A q \in Requests \ {r} : request'[q] = request[q]
  BY <1>1, <1>2
<1>5. request' \in [Requests -> {Unsent} \cup Sent]
  <2> HIDE DEF new
  <2> QED  BY <1>1, <1>2, <1>3
<1>6. HandlersHaveAProcess'
  BY <1>2, <1>4 DEF StopInv, HandlersHaveAProcess, Draining
<1>7. CutByFailure'  BY <1>2, <1>4 DEF StopInv, CutByFailure
<1>8. HTTPIsDrained'
  <2>1. ASSUME NEW o \in Processes, main[o] = "drainGRPC", NEW q \in Requests,
               q \in HandledBy(o)', q \in Over("http")'
        PROVE  FALSE
    <3>1. o # p  BY <1>2, <2>1
    <3>2. q # r  BY <1>4, <2>1, <3>1 DEF HandledBy
    <3>3. q \in HandledBy(o) /\ q \in Over("http")
      BY <1>4, <2>1, <3>2 DEF HandledBy, Over
    <3> QED  BY <2>1, <3>3 DEF StopInv, HTTPIsDrained
  <2> QED  BY <1>2, <2>1 DEF HTTPIsDrained, HandledBy
<1>9. QED  BY <1>5, <1>6, <1>7, <1>8

-----------------------------------------------------------------------------
(***************************************************************************)
(* Every step keeps the invariant.                                         *)
(***************************************************************************)
LEMMA InitStop == Init => StopInv
<1> SUFFICES ASSUME Init PROVE StopInv
  OBVIOUS
<1>1. \A r \in Requests : request[r].stage = "unsent"  BY DEF Init, Unsent
<1>2. TypeOK  BY DEF Init, TypeOK
<1>3. HandlersHaveAProcess /\ CutByFailure /\ HTTPIsDrained
  BY <1>1
  DEF Init, HandlersHaveAProcess, CutByFailure, HTTPIsDrained, InFlight
<1>4. QED  BY <1>2, <1>3 DEF StopInv

LEMMA NewStop ==
  ASSUME StopInv, NEW p \in Processes, New(p)
  PROVE  StopInv'
<1>1. /\ Move(p, "created") /\ UNCHANGED request /\ main[p] = "absent"
      /\ memory' = [memory EXCEPT ![p] = file]
      /\ UNCHANGED <<signalled, expired, errors, port, file>>
  BY DEF New
<1>2. HandlersHaveAProcess' /\ CutByFailure' /\ HTTPIsDrained'
  BY <1>1, MoveKeeps DEF Draining
<1>3. TypeOK'
  BY <1>1 DEF StopInv, TypeOK, Move
<1>4. QED  BY <1>2, <1>3 DEF StopInv

\* A step of the process that ends it keeps the types.
LEMMA ExitStop ==
  ASSUME StopInv, NEW p \in Processes, Alive(p), NEW outcome \in Ended,
         Exit(p, outcome), outcome = "failed" \/ HandledBy(p) = {},
         signalled' \subseteq Processes, expired' \subseteq Processes,
         UNCHANGED <<errors, memory, file>>
  PROVE  StopInv'
<1>1. HandlersHaveAProcess' /\ CutByFailure' /\ HTTPIsDrained'
  BY ExitKeeps
<1>2. /\ request' \in [Requests -> {Unsent} \cup Sent]
      /\ port' \in [Transports -> Processes \cup {Nobody}]
      /\ main' = [main EXCEPT ![p] = outcome]
  BY ExitEffects DEF StopInv
<1>3. TypeOK'  BY <1>2 DEF StopInv, TypeOK, Ended
<1>4. QED  BY <1>1, <1>3 DEF StopInv

LEMMA ListenStop ==
  ASSUME StopInv, NEW p \in Processes,
         NEW t \in {"http", "grpc"}, NEW before, NEW after,
         \/ before = "created" /\ after = "listening"
         \/ before = "listening" /\ after = "serving",
         Listen(p, t, before, after)
  PROVE  StopInv'
<1>1. /\ main[p] = before /\ UNCHANGED <<signalled, expired, errors, memory, file>>
      /\ before \notin {"failed", "serving"} \cup Draining
  BY DEF Listen, Draining
<1>2. CASE Exit(p, "failed")
  <2>1. Alive(p) /\ "failed" \in Ended  BY <1>1 DEF Alive, Ended
  <2>2. signalled' \subseteq Processes /\ expired' \subseteq Processes
    BY <1>1 DEF StopInv, TypeOK
  <2> QED  BY <1>1, <1>2, <2>1, <2>2, ExitStop
<1>3. CASE /\ Move(p, after) /\ UNCHANGED request
           /\ port' = port \/ (t \in Transports /\ port' = [port EXCEPT ![t] = p])
  <2>1. HandlersHaveAProcess' /\ CutByFailure' /\ HTTPIsDrained'
    BY <1>1, <1>3, MoveKeeps
  <2>2. port' \in [Transports -> Processes \cup {Nobody}]
    BY <1>3 DEF StopInv, TypeOK
  <2>3. TypeOK'
    BY <1>1, <1>3, <2>2 DEF StopInv, TypeOK, Move
  <2> QED  BY <2>1, <2>3 DEF StopInv
<1>4. QED  BY <1>2, <1>3 DEF Listen

LEMMA SignalStop ==
  ASSUME StopInv, NEW p \in Processes, Signal(p)
  PROVE  StopInv'
<1>1. /\ Alive(p) /\ signalled' = signalled \cup {p}
      /\ UNCHANGED <<expired, errors, memory, file>>
  BY DEF Signal
<1>2. signalled' \subseteq Processes /\ expired' \subseteq Processes
  BY <1>1 DEF StopInv, TypeOK
<1>3. CASE Exit(p, "failed")
  BY <1>1, <1>2, <1>3, ExitStop DEF Ended
<1>4. CASE UNCHANGED <<main, port, request>>
  <2>1. HandlersHaveAProcess' /\ CutByFailure' /\ HTTPIsDrained'
    BY <1>4
    DEF StopInv, HandlersHaveAProcess, CutByFailure, HTTPIsDrained, HandledBy, Over
  <2>2. TypeOK'  BY <1>1, <1>2, <1>4 DEF StopInv, TypeOK
  <2> QED  BY <2>1, <2>2 DEF StopInv
<1>5. QED  BY <1>3, <1>4 DEF Signal

\* What changes neither main nor the requests.
LEMMA QuietStop ==
  ASSUME StopInv, UNCHANGED <<main, request>>, TypeOK'
  PROVE  StopInv'
BY DEF StopInv, HandlersHaveAProcess, CutByFailure, HTTPIsDrained, HandledBy, Over

LEMMA HandlerStop ==
  ASSUME StopInv, NEW r \in Requests, Merge(r) \/ Persist(r) \/ Answer(r)
  PROVE  StopInv'
<1>1. PICK stage \in InFlight \cup {"answered"} :
        /\ request[r].stage \in InFlight /\ Advance(r, stage)
        /\ UNCHANGED <<main, signalled, expired, errors, port>>
  BY DEF Merge, Persist, Answer, InFlight
<1>2. HandlersHaveAProcess' /\ CutByFailure' /\ HTTPIsDrained'
  BY <1>1, AdvanceKeeps
<1>3. request' \in [Requests -> {Unsent} \cup Sent]
  BY <1>1, AdvanceKeepsTypes DEF StopInv
<1>4. request[r].by \in Processes  BY <1>1, InFlightBy DEF StopInv
<1>5. /\ memory' \in [Processes -> SUBSET Requests]
      /\ file' \subseteq Requests
  BY <1>4 DEF StopInv, TypeOK, Merge, Persist, Answer
<1>6. TypeOK'  BY <1>1, <1>3, <1>5 DEF StopInv, TypeOK
<1>7. QED  BY <1>2, <1>6 DEF StopInv

\* A step into the shutdown, or on in it.
LEMMA CloseStop ==
  ASSUME StopInv, NEW p \in Processes, NEW t, NEW stage \in Draining,
         main[p] \in {"serving"} \cup Draining, Move(p, stage), Close(p, t),
         stage = "drainGRPC" => HandledBy(p) \cap Over("http") = {},
         UNCHANGED <<signalled, expired, errors, memory, file, request>>
  PROVE  StopInv'
<1>1. HandlersHaveAProcess' /\ CutByFailure' /\ HTTPIsDrained'
  BY MoveKeeps DEF Draining
<1>2. port' \in [Transports -> Processes \cup {Nobody}]
  BY DEF StopInv, TypeOK, Close
<1>3. TypeOK'  BY <1>2 DEF StopInv, TypeOK, Move
<1>4. QED  BY <1>1, <1>3 DEF StopInv

LEMMA NextStop == StopInv /\ [Next]_vars => StopInv'
<1> SUFFICES ASSUME StopInv, [Next]_vars PROVE StopInv'
  OBVIOUS
<1>1. TypeOK  BY DEF StopInv
<1>2. ASSUME NEW p \in Processes, New(p) PROVE StopInv'
  BY <1>2, NewStop
<1>3. ASSUME NEW p \in Processes, Signal(p) PROVE StopInv'
  BY <1>3, SignalStop
<1>4. ASSUME NEW p \in Processes, ListenHTTP(p) PROVE StopInv'
  BY <1>4, ListenStop DEF ListenHTTP
<1>5. ASSUME NEW p \in Processes, ListenGRPC(p) PROVE StopInv'
  BY <1>5, ListenStop DEF ListenGRPC
<1>6. ASSUME NEW p \in Processes, TakeError(p) PROVE StopInv'
  <2>1. Alive(p) /\ "failed" \in Ended  BY <1>6 DEF TakeError, Alive, Ended
  <2>2. signalled' \subseteq Processes /\ expired' \subseteq Processes
    BY <1>1, <1>6 DEF TakeError, TypeOK
  <2> QED  BY <1>6, <2>1, <2>2, ExitStop DEF TakeError
<1>7. ASSUME NEW p \in Processes, TakeSignal(p) PROVE StopInv'
  BY <1>7, CloseStop DEF TakeSignal, Draining
<1>8. ASSUME NEW p \in Processes, HTTPDrained(p) PROVE StopInv'
  BY <1>8, CloseStop DEF HTTPDrained, Draining
<1>9. ASSUME NEW p \in Processes, GRPCDrained(p) PROVE StopInv'
  <2>1. main[p] = "drainGRPC" /\ HandledBy(p) \cap Over("grpc") = {}
    BY <1>9 DEF GRPCDrained
  <2>2. HandledBy(p) \cap Over("http") = {}
    BY <2>1 DEF StopInv, HTTPIsDrained
  <2>3. ASSUME NEW r \in HandledBy(p) PROVE FALSE
    <3>1. r \in Requests /\ request[r].over \in {"http", "grpc"}
      BY <1>1, RequestType DEF HandledBy, InFlight
    <3> QED  BY <2>1, <2>2, <3>1 DEF Over
  <2>4. Alive(p) /\ "stopped" \in Ended  BY <2>1 DEF Alive, Ended
  <2>5. signalled' \subseteq Processes /\ expired' \subseteq Processes
    BY <1>1, <1>9 DEF GRPCDrained, TypeOK
  <2>6. HandledBy(p) = {}  BY <2>3
  <2> QED  BY <1>9, <2>4, <2>5, <2>6, ExitStop DEF GRPCDrained
<1>10. ASSUME NEW p \in Processes, Expire(p) PROVE StopInv'
  <2>1. TypeOK'  BY <1>1, <1>10 DEF Expire, TypeOK
  <2> QED  BY <1>10, <2>1, QuietStop DEF Expire
<1>11. ASSUME NEW p \in Processes, GiveUp(p) PROVE StopInv'
  <2>1. Alive(p) /\ "failed" \in Ended
    BY <1>11 DEF GiveUp, Alive, Ended, Draining
  <2>2. signalled' \subseteq Processes /\ expired' \subseteq Processes
    BY <1>1, <1>11 DEF GiveUp, TypeOK
  <2> QED  BY <1>11, <2>1, <2>2, ExitStop DEF GiveUp
<1>12. ASSUME NEW p \in Processes, NEW t \in Transports, ServeFails(p, t)
       PROVE  StopInv'
  <2>1. TypeOK'  BY <1>1, <1>12 DEF ServeFails, TypeOK
  <2> QED  BY <1>12, <2>1, QuietStop DEF ServeFails
<1>13. ASSUME NEW p \in Processes, NEW t \in Transports, NEW r \in Requests,
              Arrive(p, t, r)
       PROVE  StopInv'
  <2>1. TypeOK'  BY <1>1, <1>13, ArriveKeeps DEF Arrive, TypeOK
  <2> QED  BY <1>13, <2>1, ArriveKeeps DEF StopInv
<1>14. ASSUME NEW r \in Requests, Merge(r) \/ Persist(r) \/ Answer(r)
       PROVE  StopInv'
  BY <1>14, HandlerStop
<1>15. CASE UNCHANGED vars
  <2>1. TypeOK'  BY <1>1, <1>15 DEF vars, TypeOK
  <2> QED  BY <1>15, <2>1, QuietStop DEF vars
<1>16. QED
  BY <1>2, <1>3, <1>4, <1>5, <1>6, <1>7, <1>8, <1>9, <1>10, <1>11, <1>12, <1>13,
     <1>14, <1>15
  DEF Next, Run

\* Every variable keeps its type.
THEOREM LifecycleTypeCorrect == Spec => []TypeOK
<1>1. StopInv => TypeOK  BY DEF StopInv
<1>2. QED  BY InitStop, NextStop, <1>1, PTL DEF Spec

\* A process that ends without an error has answered every request it let in,
\* whichever server took it and whenever.
THEOREM StopsAfterAnswering == Spec => []OrderlyStopAnswersAll
<1>1. StopInv => OrderlyStopAnswersAll
  <2> SUFFICES ASSUME StopInv, NEW p \in Processes, NEW r \in Requests,
                      main[p] = "stopped", request[r].by = p
               PROVE  request[r].stage = "answered"
    BY DEF OrderlyStopAnswersAll
  <2>1. request[r].stage \notin InFlight
    BY DEF StopInv, HandlersHaveAProcess, Draining
  <2>2. request[r].stage # "cut"  BY DEF StopInv, CutByFailure
  <2>3. request[r] # Unsent  BY LifecycleAssumption DEF Unsent
  <2>4. request[r] \in Sent  BY <2>3 DEF StopInv, TypeOK
  <2>5. request[r].stage \in InFlight \cup {"answered", "cut"}
    BY <2>4 DEF Sent
  <2> QED  BY <2>1, <2>2, <2>5
<1>2. QED  BY InitStop, NextStop, <1>1, PTL DEF Spec

-----------------------------------------------------------------------------
(***************************************************************************)
(* Processes that do not overlap keep what was acknowledged.               *)
(***************************************************************************)
OneAlive == \A p, q \in Processes : Alive(p) /\ Alive(q) => p = q

\* What is in the file is in the memory of whoever will write it next.
MemoryHasFile == \A p \in Processes : Alive(p) => file \subseteq memory[p]

MergedIsInMemory ==
  \A r \in Requests :
    request[r].stage = "merged" => r \in memory[request[r].by]

WrittenIsInFile ==
  \A r \in Requests : request[r].stage \in {"written", "answered"} => r \in file

KeepInv == OneAlive /\ MemoryHasFile /\ MergedIsInMemory /\ WrittenIsInFile

LEMMA InitKeep == Init => KeepInv
BY DEF Init, KeepInv, OneAlive, MemoryHasFile, MergedIsInMemory, WrittenIsInFile,
       Alive, Unsent

\* A step after which nobody is alive who was not before, and which merges and
\* writes nothing.
LEMMA QuietKeep ==
  ASSUME StopInv, KeepInv, UNCHANGED <<memory, file>>,
         \A p \in Processes : Alive(p)' => Alive(p),
         \A r \in Requests : \/ request'[r] = request[r]
                             \/ request'[r].stage \in {"open", "cut"}
  PROVE  KeepInv'
<1>1. OneAlive' /\ MemoryHasFile'  BY DEF KeepInv, OneAlive, MemoryHasFile
<1>2. MergedIsInMemory'  BY DEF KeepInv, MergedIsInMemory
<1>3. WrittenIsInFile'  BY DEF KeepInv, WrittenIsInFile
<1>4. QED  BY <1>1, <1>2, <1>3 DEF KeepInv

LEMMA ExitKeep ==
  ASSUME StopInv, KeepInv, NEW p \in Processes, NEW outcome \in Ended,
         Exit(p, outcome), UNCHANGED <<memory, file>>
  PROVE  KeepInv'
<1>1. /\ main' = [main EXCEPT ![p] = outcome]
      /\ \A r \in HandledBy(p) : request'[r].stage = "cut"
      /\ \A r \in Requests \ HandledBy(p) : request'[r] = request[r]
  BY ExitEffects DEF StopInv
<1>2. DOMAIN main = Processes  BY DEF StopInv, TypeOK
<1>3. \A q \in Processes : Alive(q)' => Alive(q)
  BY <1>1, <1>2 DEF Alive
<1>4. \A r \in Requests : \/ request'[r] = request[r]
                          \/ request'[r].stage \in {"open", "cut"}
  BY <1>1
<1>5. QED  BY <1>3, <1>4, QuietKeep

\* A process that is alive moves on.
LEMMA MoveKeep ==
  ASSUME StopInv, KeepInv, NEW p \in Processes, NEW stage, Move(p, stage),
         Alive(p), UNCHANGED <<memory, file, request>>
  PROVE  KeepInv'
<1>1. DOMAIN main = Processes  BY DEF StopInv, TypeOK
<1>2. \A q \in Processes : Alive(q)' => Alive(q)
  BY <1>1 DEF Move, Alive
<1>3. QED  BY <1>2, QuietKeep

LEMMA NewKeep ==
  ASSUME ~Overlap, StopInv, KeepInv, NEW p \in Processes, New(p)
  PROVE  KeepInv'
<1>1. /\ \A q \in Processes : ~Alive(q)
      /\ main' = [main EXCEPT ![p] = "created"]
      /\ memory' = [memory EXCEPT ![p] = file]
      /\ file' = file /\ request' = request
  BY DEF New, Move
<1>2. DOMAIN main = Processes /\ DOMAIN memory = Processes
  BY DEF StopInv, TypeOK
<1>3. \A q \in Processes : Alive(q)' => q = p  BY <1>1, <1>2 DEF Alive
<1>4. OneAlive'  BY <1>3 DEF OneAlive
<1>5. MemoryHasFile'  BY <1>1, <1>2, <1>3 DEF MemoryHasFile
<1>6. MergedIsInMemory'
  <2>1. ASSUME NEW r \in Requests, request[r].stage = "merged" PROVE FALSE
    <3>1. request[r].stage \in InFlight  BY <2>1 DEF InFlight
    <3>2. request[r].by \in Processes  BY <3>1, InFlightBy DEF StopInv
    <3>3. main[request[r].by] \in {"serving"} \cup Draining
      BY <3>1 DEF StopInv, HandlersHaveAProcess
    <3> QED  BY <1>1, <3>2, <3>3 DEF Alive, Ended, Draining
  <2> QED  BY <1>1, <2>1 DEF MergedIsInMemory
<1>7. WrittenIsInFile'  BY <1>1 DEF KeepInv, WrittenIsInFile
<1>8. QED  BY <1>4, <1>5, <1>6, <1>7 DEF KeepInv

\* The three steps of a handler.
LEMMA HandlerKeep ==
  ASSUME StopInv, KeepInv, NEW r \in Requests, Merge(r) \/ Persist(r) \/ Answer(r)
  PROVE  KeepInv'
<1> DEFINE p == request[r].by
<1>1. PICK stage \in InFlight \cup {"answered"} :
        /\ request[r].stage \in InFlight /\ Advance(r, stage)
        /\ UNCHANGED main
  BY DEF Merge, Persist, Answer, InFlight
<1>2. /\ request'[r].stage = stage /\ request'[r].by = p
      /\ \A q \in Requests \ {r} : request'[q] = request[q]
  BY <1>1, AdvanceKeepsTypes DEF StopInv
<1>3. p \in Processes /\ Alive(p)
  BY <1>1, InFlightBy
  DEF StopInv, HandlersHaveAProcess, Alive, Ended, Draining
<1>4. \A q \in Processes : Alive(q)' <=> Alive(q)  BY <1>1 DEF Alive
<1>5. OneAlive'  BY <1>4 DEF KeepInv, OneAlive
<1>6. DOMAIN memory = Processes /\ DOMAIN request = Requests
  BY DEF StopInv, TypeOK
<1>7. CASE Merge(r)
  <2>1. /\ memory' = [memory EXCEPT ![p] = memory[p] \cup {r}] /\ file' = file
        /\ request'[r].stage = "merged"
    BY <1>6, <1>7 DEF Merge, Advance
  <2>2. /\ r \in memory'[p]
        /\ \A q \in Processes : memory[q] \subseteq memory'[q]
    BY <1>3, <1>6, <2>1
  <2>3. MemoryHasFile'  BY <1>4, <2>1, <2>2 DEF KeepInv, MemoryHasFile
  <2>4. MergedIsInMemory'
    <3>1. ASSUME NEW q \in Requests \ {r}, request'[q].stage = "merged"
          PROVE  q \in memory'[request'[q].by]
      <4>1. request'[q] = request[q]  BY <1>2
      <4>2. q \in memory[request[q].by]
        BY <3>1, <4>1 DEF KeepInv, MergedIsInMemory
      <4>3. request[q].by \in Processes
        BY <3>1, <4>1, InFlightBy DEF InFlight, StopInv
      <4> QED  BY <2>2, <4>1, <4>2, <4>3
    <3> QED  BY <1>2, <2>2, <3>1 DEF MergedIsInMemory
  <2>5. WrittenIsInFile'  BY <1>2, <2>1 DEF KeepInv, WrittenIsInFile
  <2> QED  BY <1>5, <2>3, <2>4, <2>5 DEF KeepInv
<1>8. CASE Persist(r)
  <2>1. /\ request[r].stage = "merged" /\ file' = memory[p] /\ memory' = memory
        /\ request'[r].stage = "written"
    BY <1>6, <1>8 DEF Persist, Advance
  <2>2. file \subseteq memory[p]  BY <1>3 DEF KeepInv, MemoryHasFile
  <2>3. MemoryHasFile'
    BY <1>3, <1>4, <2>1 DEF KeepInv, MemoryHasFile, OneAlive
  <2>4. MergedIsInMemory'  BY <1>2, <2>1 DEF KeepInv, MergedIsInMemory
  <2>5. WrittenIsInFile'
    BY <1>2, <2>1, <2>2 DEF KeepInv, WrittenIsInFile, MergedIsInMemory
  <2> QED  BY <1>5, <2>3, <2>4, <2>5 DEF KeepInv
<1>9. CASE Answer(r)
  <2>1. /\ request[r].stage = "written" /\ file' = file /\ memory' = memory
        /\ request'[r].stage = "answered"
    BY <1>6, <1>9 DEF Answer, Advance
  <2>2. MemoryHasFile'  BY <1>4, <2>1 DEF KeepInv, MemoryHasFile
  <2>3. MergedIsInMemory'  BY <1>2, <2>1 DEF KeepInv, MergedIsInMemory
  <2>4. WrittenIsInFile'  BY <1>2, <2>1 DEF KeepInv, WrittenIsInFile
  <2> QED  BY <1>5, <2>2, <2>3, <2>4 DEF KeepInv
<1>10. QED  BY <1>7, <1>8, <1>9

LEMMA ListenKeep ==
  ASSUME StopInv, KeepInv, NEW p \in Processes, NEW t,
         NEW before \in {"created", "listening"}, NEW after,
         Listen(p, t, before, after)
  PROVE  KeepInv'
<1>1. UNCHANGED <<memory, file>> /\ Alive(p)
  BY DEF Listen, Alive, Ended
<1>2. CASE Exit(p, "failed")  BY <1>1, <1>2, ExitKeep DEF Ended
<1>3. CASE Move(p, after) /\ UNCHANGED request
  BY <1>1, <1>3, MoveKeep
<1>4. QED  BY <1>2, <1>3 DEF Listen

LEMMA NextKeep ==
  ASSUME ~Overlap
  PROVE  StopInv /\ KeepInv /\ [Next]_vars => KeepInv'
<1> SUFFICES ASSUME StopInv, KeepInv, [Next]_vars PROVE KeepInv'
  OBVIOUS
<1>1. ASSUME NEW p \in Processes, New(p) PROVE KeepInv'
  BY <1>1, NewKeep
<1>2. ASSUME NEW p \in Processes, Signal(p) PROVE KeepInv'
  <2>1. UNCHANGED <<memory, file>>  BY <1>2 DEF Signal
  <2>2. CASE Exit(p, "failed")  BY <2>1, <2>2, ExitKeep DEF Ended
  <2>3. CASE UNCHANGED <<main, request>>
    BY <2>1, <2>3, QuietKeep DEF Alive
  <2> QED  BY <1>2, <2>2, <2>3 DEF Signal
<1>3. ASSUME NEW p \in Processes, ListenHTTP(p) \/ ListenGRPC(p) PROVE KeepInv'
  BY <1>3, ListenKeep DEF ListenHTTP, ListenGRPC
<1>4. ASSUME NEW p \in Processes, TakeError(p) \/ GRPCDrained(p) \/ GiveUp(p)
      PROVE  KeepInv'
  BY <1>4, ExitKeep DEF TakeError, GRPCDrained, GiveUp, Ended
<1>5. ASSUME NEW p \in Processes, TakeSignal(p) \/ HTTPDrained(p) PROVE KeepInv'
  <2>1. Alive(p)  BY <1>5 DEF TakeSignal, HTTPDrained, Alive, Ended
  <2> QED  BY <1>5, <2>1, MoveKeep DEF TakeSignal, HTTPDrained
<1>6. ASSUME NEW p \in Processes, Expire(p) PROVE KeepInv'
  <2>1. UNCHANGED <<main, request, memory, file>>  BY <1>6 DEF Expire
  <2> QED  BY <2>1, QuietKeep DEF Alive
<1>7. ASSUME NEW p \in Processes, NEW t \in Transports, ServeFails(p, t)
      PROVE  KeepInv'
  <2>1. UNCHANGED <<main, request, memory, file>>  BY <1>7 DEF ServeFails
  <2> QED  BY <2>1, QuietKeep DEF Alive
<1>8. ASSUME NEW p \in Processes, NEW t \in Transports, NEW r \in Requests,
             Arrive(p, t, r)
      PROVE  KeepInv'
  <2>1. UNCHANGED <<main, memory, file>>  BY <1>8 DEF Arrive
  <2>2. \A q \in Requests : \/ request'[q] = request[q]
                            \/ request'[q].stage \in {"open", "cut"}
    BY <1>8 DEF Arrive, StopInv, TypeOK
  <2> QED  BY <2>1, <2>2, QuietKeep DEF Alive
<1>9. ASSUME NEW r \in Requests, Merge(r) \/ Persist(r) \/ Answer(r)
      PROVE  KeepInv'
  BY <1>9, HandlerKeep
<1>10. CASE UNCHANGED vars
  BY <1>10, QuietKeep DEF vars, Alive
<1>11. QED
  BY <1>1, <1>2, <1>3, <1>4, <1>5, <1>6, <1>7, <1>8, <1>9, <1>10 DEF Next, Run

\* As long as a process is started only when the one before it has ended, evidence
\* that was acknowledged stays in the graph file.
THEOREM HistoryContinuesInTurn ==
  ASSUME ~Overlap
  PROVE  Spec => []HistoryContinues
<1>1. Init => StopInv /\ KeepInv  BY InitStop, InitKeep
<1>2. StopInv /\ KeepInv /\ [Next]_vars => (StopInv /\ KeepInv)'
  BY NextStop, NextKeep
<1>3. KeepInv => HistoryContinues
  BY DEF KeepInv, WrittenIsInFile, HistoryContinues
<1>4. QED  BY <1>1, <1>2, <1>3, PTL DEF Spec
=============================================================================
