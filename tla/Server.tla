------------------------------- MODULE Server -------------------------------
(***************************************************************************)
(* The socket server and its clients (qc_server.c, qc_client.c and the     *)
(* loops of test_sock.c) over a table of named queues.                     *)
(*                                                                         *)
(* A connection carries one request at a time: the client sends it and     *)
(* waits; the connection's worker thread receives it, finds the queue by   *)
(* its name, puts or gets with the client's timeout, and sends the reply   *)
(* and, after a successful get, the message.  Bytes arrive in order or not *)
(* at all.  A client may close or die at any point: what it had sent may   *)
(* still arrive, up to some point; what was sent to it is lost; and sending*)
(* to it may fail or may seem to succeed.  A worker whose send fails puts  *)
(* its message back; one that waits in a queue notices nothing.            *)
(*                                                                         *)
(* A queue is what qc_queue.c promises of it, its known deviations         *)
(* included (see QcQueue): a bounded FIFO - every message the server puts  *)
(* has priority 1, whatever the client's had - where a put that reports a  *)
(* timeout may have left its message, and a put may give its message to a  *)
(* getter that has just timed out, in whose tempList it stays.  Deadlines  *)
(* that are rejected, which may abort the process, are left to QcQueue.    *)
(***************************************************************************)
EXTENDS QueueSystem

CONSTANTS Producers, Consumers,       \* clients that put, that get
          JavaClients,                \* those that use QcClient.java
          Messages,                   \* each is put at most once
          Empty,                      \* the messages of length 0
          Limit,                      \* of every queue
          Asked,                      \* the names clients ask for
          Waits,                      \* the waits a client asks for
          Deployments                 \* bound: the tables the server may be
                                      \*   started with

Clients == Producers \cup Consumers

ASSUME ServerAssumption ==
    /\ JavaClients \subseteq Clients
    /\ Limit \in Nat \ {0}
    /\ Asked \subseteq Names
    /\ Empty \subseteq Messages
    /\ Waits \in [Clients -> SUBSET {"forever", "timed"}]
    /\ None \notin Messages \cup Clients
    /\ IsFiniteSet(Clients)

VARIABLES
    running,      \* is_running: the accept thread is there
    queue, temp,  \* each queue's chain and tempList
    pc,           \* where a client is in its loop
    open,         \* whether a client still has its socket
    toServer,     \* each connection's bytes, one element per send call
    toClient,
    worker,       \* each connection's worker thread
    sent,         \* history: messages a client has begun to put,
    accepted,     \*   whose qc_queue_msgput returned 0 (not counting re-puts),
    delivered     \*   a client's msgget has returned

systemVars  == <<tableVars, running>>
queueVars   == <<queue, temp>>
clientVars  == <<pc, open>>
historyVars == <<sent, accepted, delivered>>
vars == <<systemVars, queueVars, clientVars, toServer, toClient, worker, historyVars>>

(* What one send call sends: a QcPrtclHead, a request's body, a QcPrtclReply*)
(* with its msg_len (0 or more), a message's bytes (the message itself).  A*)
(* reply also names the message it alone delivers, one of length 0.        *)
Head_    == [frame |-> "head"]
Requests == [type : {"put", "get"}, qname : Names, msg : Messages \cup {None}, wait : {"forever", "timed"}]
Results  == {"succ", "failed", "timeout"}
Replies  == [result : Results, msg_len : {0, 1}, msg : Empty \cup {None}]

ASSUME FramesAssumption == Messages \cap (Replies \cup {Head_}) = {}

NoWorker == [at |-> "none", req |-> None, queue |-> None, msg |-> None, result |-> None]

Init == /\ TableInit
        /\ running = FALSE
        /\ queue = [q \in Queues |-> <<>>]
        /\ temp = [q \in Queues |-> <<>>]
        /\ pc = [c \in Clients |-> "new"]
        /\ open = [c \in Clients |-> FALSE]
        /\ toServer = [c \in Clients |-> <<>>]
        /\ toClient = [c \in Clients |-> <<>>]
        /\ worker = [c \in Clients |-> NoWorker]
        /\ sent = {} /\ accepted = {} /\ delivered = {}

-----------------------------------------------------------------------------
(* The application: names its queues, then starts the server.  No caller   *)
(* in the repository changes the table of a running server.                *)

NamesQueues ==
    /\ ~running
    /\ TableNext
    /\ UNCHANGED <<running, queueVars, clientVars, toServer, toClient, worker, historyVars>>

(* qc_queuesrv_start.  A running server is never stopped: qc_queuesrv_stop *)
(* returns at once when is_running is set, also where a synchronous start  *)
(* calls it to wait for the server's end.                                  *)
Start ==
    /\ ~running /\ enum = None
    /\ table \in Deployments
    /\ running' = TRUE
    /\ UNCHANGED <<tableVars, queueVars, clientVars, toServer, toClient, worker, historyVars>>

-----------------------------------------------------------------------------
(* The client: qc_client.c as the loops of test_sock.c call it. *)

ConnectionOf(c, where) == /\ pc' = [pc EXCEPT ![c] = where]
                          /\ open' = [open EXCEPT ![c] = where # "closed"]

(* qc_client_connect succeeds once the server listens. *)
Connects(c) ==
    /\ running /\ pc[c] = "new"
    /\ ConnectionOf(c, "idle")
    /\ UNCHANGED <<systemVars, queueVars, toServer, toClient, worker, historyVars>>

(* The request's head and its body; a put's body is two sends. *)
Requested(c, request) ==
    /\ ConnectionOf(c, request.type)
    /\ toServer' = [toServer EXCEPT ![c] = <<Head_, request>>]
    /\ UNCHANGED <<systemVars, queueVars, toClient, worker, accepted, delivered>>

SendsPut(c, m, n, w) ==
    /\ c \in Producers \ JavaClients /\ pc[c] = "idle"
    /\ m \notin sent
    /\ Requested(c, [type |-> "put", qname |-> n, msg |-> m, wait |-> w])
    /\ sent' = sent \cup {m}

(* messagePut refuses a message of length 0. *)
JavaSendsPut(c, m, n, w) ==
    /\ c \in Producers \cap JavaClients /\ pc[c] = "idle"
    /\ m \notin sent \cup Empty
    /\ Requested(c, [type |-> "put", qname |-> n, msg |-> m, wait |-> w])
    /\ sent' = sent \cup {m}

SendsGet(c, n, w) ==
    /\ c \in Consumers /\ pc[c] = "idle"
    /\ Requested(c, [type |-> "get", qname |-> n, msg |-> None, wait |-> w])
    /\ UNCHANGED sent

(* Where the loops go when the reply has come: after a timeout they try    *)
(* again, after any other failure they disconnect.                         *)
AfterPut(reply) == IF reply.result = "failed" THEN "closed" ELSE "idle"

(* A message of length 0 makes the C client fail: qc_tcp_recvall of no     *)
(* bytes returns 0, as for a closed connection.  (The Mutants go on without*)
(* the message, or wait for its bytes.)                                    *)
AfterGetGoesOnMutant(reply) ==
    IF reply.result = "failed" THEN "closed"
    ELSE IF reply.result = "succ" /\ reply.msg_len > 0 THEN "data" ELSE "idle"
AfterGetReadsMutant(reply) ==
    CASE reply.result = "timeout" -> "idle"
      [] reply.result = "failed"  -> "closed"
      [] reply.result = "succ"    -> "data"
AfterGet(reply) ==
    CASE reply.result = "timeout" -> "idle"
      [] reply.result = "failed"  -> "closed"
      [] reply.result = "succ"    -> IF reply.msg_len = 0 THEN "closed" ELSE "data"

(* messageGet reads no bytes without complaint. *)
AfterJavaGet(reply) ==
    CASE reply.result = "timeout" -> "idle"
      [] reply.result = "failed"  -> "closed"
      [] reply.result = "succ"    -> IF reply.msg_len = 0 THEN "idle" ELSE "data"

(* A head and a reply have come. *)
ReceivesReply(c) ==
    LET reply == toClient[c][2]
        where == IF pc[c] = "put" THEN AfterPut(reply)
                 ELSE IF c \in JavaClients THEN AfterJavaGet(reply) ELSE AfterGet(reply)
    IN  /\ pc[c] \in {"put", "get"}
        /\ Len(toClient[c]) >= 2
        /\ ConnectionOf(c, where)
        /\ delivered' = IF c \in JavaClients /\ reply.msg # None
                        THEN delivered \cup {reply.msg} ELSE delivered
        /\ toClient' = [toClient EXCEPT ![c] = SubSeq(@, 3, Len(@))]
        /\ UNCHANGED <<systemVars, queueVars, toServer, worker, sent, accepted>>

ReceivesData(c) ==
    /\ pc[c] = "data"
    /\ toClient[c] # <<>>
    /\ ConnectionOf(c, "idle")
    /\ delivered' = delivered \cup {Head(toClient[c])}
    /\ toClient' = [toClient EXCEPT ![c] = Tail(@)]
    /\ UNCHANGED <<systemVars, queueVars, toServer, worker, sent, accepted>>

(* The client disconnects, dies, or is cut off. *)
Closes(c) ==
    /\ open[c]
    /\ ConnectionOf(c, "closed")
    /\ \E sentBytes \in 0..Len(toServer[c]) :
          toServer' = [toServer EXCEPT ![c] = SubSeq(@, 1, sentBytes)]
    /\ toClient' = [toClient EXCEPT ![c] = <<>>]
    /\ UNCHANGED <<systemVars, queueVars, worker, historyVars>>

-----------------------------------------------------------------------------
(* The server: accept_thread_routine and one work_thread_routine per       *)
(* connection, with qc_proc_msgput and qc_proc_msgget.                     *)

At(c, where) == worker[c].at = where

Set(c, w) == worker' = [worker EXCEPT ![c] = w]

Accepts(c) ==
    /\ At(c, "none") /\ pc[c] # "new"
    /\ Set(c, [NoWorker EXCEPT !.at = "receive"])
    /\ UNCHANGED <<systemVars, queueVars, clientVars, toServer, toClient, historyVars>>

(* A whole request has come: find its queue; without one the request fails.*)
Receives(c) ==
    /\ At(c, "receive")
    /\ Len(toServer[c]) >= 2
    /\ LET request == toServer[c][2]
           q == Found(table, request.qname)
       IN  Set(c, [at |-> IF q = None THEN "reply" ELSE request.type,
                   req |-> request, queue |-> q,
                   msg |-> IF q = None THEN None ELSE request.msg, result |-> "failed"])
    /\ toServer' = [toServer EXCEPT ![c] = SubSeq(@, 3, Len(@))]
    /\ UNCHANGED <<systemVars, queueVars, clientVars, toClient, historyVars>>

(* The connection ends before a whole request has come.  The socket is not *)
(* closed, which its client, being gone, does not notice.                  *)
ReceiveFails(c) ==
    /\ At(c, "receive")
    /\ ~open[c] /\ Len(toServer[c]) < 2
    /\ Set(c, [NoWorker EXCEPT !.at = "ended"])
    /\ toServer' = [toServer EXCEPT ![c] = <<>>]
    /\ UNCHANGED <<systemVars, queueVars, clientVars, toClient, historyVars>>

(* A request's put and the put of a message that could not be sent, which  *)
(* waits for 1000 msec, ignores its result and ends the worker.  (The      *)
(* Mutants never time a request out, and try again when the message could  *)
(* not be put back.)                                                       *)
Putting(c) == At(c, "put") \/ At(c, "reput")
MayExpireMutant(c) == At(c, "reput")
MayExpire(c) == At(c, "reput") \/ worker[c].req.wait = "timed"

Answered(w, result, m) == [w EXCEPT !.at = "reply", !.result = result, !.msg = m]

PutEndedMutant(w, result) ==
    IF w.at # "reput" THEN Answered(w, result, None)
    ELSE IF result = "timeout" THEN w ELSE [NoWorker EXCEPT !.at = "ended"]
PutEnded(w, result) ==
    IF w.at = "reput" THEN [NoWorker EXCEPT !.at = "ended"] ELSE Answered(w, result, None)

Accepted(c) == accepted' = IF At(c, "put") THEN accepted \cup {worker[c].msg} ELSE accepted

PutQueues(c) ==
    LET q == worker[c].queue
    IN  /\ Putting(c)
        /\ Len(queue[q]) < Limit
        /\ queue' = [queue EXCEPT ![q] = Append(@, worker[c].msg)]
        /\ Accepted(c)
        /\ Set(c, PutEnded(worker[c], "succ"))
        /\ UNCHANGED <<systemVars, temp, clientVars, toServer, toClient, sent, delivered>>

PutTimesOut(c) ==
    /\ Putting(c) /\ MayExpire(c)
    /\ Len(queue[worker[c].queue]) = Limit
    /\ Set(c, PutEnded(worker[c], "timeout"))
    /\ UNCHANGED <<systemVars, queueVars, clientVars, toServer, toClient, historyVars>>

GetPops(c) ==
    LET q == worker[c].queue
    IN  /\ At(c, "get")
        /\ queue[q] # <<>>
        /\ queue' = [queue EXCEPT ![q] = Tail(@)]
        /\ Set(c, Answered(worker[c], "succ", Head(queue[q])))
        /\ UNCHANGED <<systemVars, temp, clientVars, toServer, toClient, historyVars>>

GetTimesOut(c) ==
    /\ At(c, "get") /\ MayExpire(c)
    /\ queue[worker[c].queue] = <<>>
    /\ Set(c, Answered(worker[c], "timeout", None))
    /\ UNCHANGED <<systemVars, queueVars, clientVars, toServer, toClient, historyVars>>

(* The get that makes room admits a putter whose deadline has passed: the  *)
(* message is queued and its put reports a timeout.                        *)
GetAdmitsExpired(c, d) ==
    LET q == worker[c].queue
    IN  /\ At(c, "get") /\ Putting(d) /\ MayExpire(d) /\ worker[d].queue = q
        /\ Len(queue[q]) = Limit
        /\ queue' = [queue EXCEPT ![q] = Append(Tail(@), worker[d].msg)]
        /\ worker' = [worker EXCEPT ![c] = Answered(@, "succ", Head(queue[q])),
                                    ![d] = PutEnded(@, "timeout")]
        /\ UNCHANGED <<systemVars, temp, clientVars, toServer, toClient, historyVars>>

(* The put gives its message to a waiting getter through the tempList: one *)
(* that still waits takes the oldest message there, one whose deadline has *)
(* passed takes none.                                                      *)
PutHandsOver(c, d) ==
    LET q == worker[c].queue
        given == Append(temp[q], worker[c].msg)
    IN  /\ Putting(c) /\ At(d, "get") /\ worker[d].queue = q
        /\ queue[q] = <<>>
        /\ \/ /\ temp' = [temp EXCEPT ![q] = Tail(given)]
              /\ worker' = [worker EXCEPT ![c] = PutEnded(@, "succ"),
                                          ![d] = Answered(@, "succ", Head(given))]
           \/ /\ MayExpire(d)
              /\ temp' = [temp EXCEPT ![q] = given]
              /\ worker' = [worker EXCEPT ![c] = PutEnded(@, "succ"),
                                          ![d] = Answered(@, "timeout", None)]
        /\ Accepted(c)
        /\ UNCHANGED <<systemVars, queue, clientVars, toServer, toClient, sent, delivered>>

MsgLen(w) == IF w.msg \in Messages \ Empty THEN 1 ELSE 0

(* What follows a send: a closed connection takes bytes without delivering *)
(* them, or fails, and then a message in hand is put back.                 *)
SendFailed(w) ==
    IF w.msg = None THEN [NoWorker EXCEPT !.at = "ended"] ELSE [w EXCEPT !.at = "reput"]
Delivered(c, frames) ==
    toClient' = IF open[c] THEN [toClient EXCEPT ![c] = @ \o frames] ELSE toClient

SendsReply(c) ==
    LET w == worker[c]
    IN  /\ At(c, "reply")
        /\ \/ /\ Set(c, IF MsgLen(w) > 0 THEN [w EXCEPT !.at = "data"]
                                         ELSE [NoWorker EXCEPT !.at = "receive"])
              /\ Delivered(c, <<Head_, [result |-> w.result, msg_len |-> MsgLen(w),
                                        msg |-> IF w.msg \in Empty THEN w.msg ELSE None]>>)
           \/ /\ ~open[c]
              /\ Set(c, SendFailed(w))
              /\ UNCHANGED toClient
        /\ UNCHANGED <<systemVars, queueVars, clientVars, toServer, historyVars>>

SendsData(c) ==
    /\ At(c, "data")
    /\ \/ /\ Set(c, [NoWorker EXCEPT !.at = "receive"])
          /\ Delivered(c, <<worker[c].msg>>)
       \/ /\ ~open[c]
          /\ Set(c, SendFailed(worker[c]))
          /\ UNCHANGED toClient
    /\ UNCHANGED <<systemVars, queueVars, clientVars, toServer, historyVars>>

-----------------------------------------------------------------------------
ClientStep(c) == ReceivesReply(c) \/ ReceivesData(c)

ClientCall(c) ==
    \/ Connects(c) \/ Closes(c)
    \/ \E n \in Asked, w \in Waits[c] : 
          \/ SendsGet(c, n, w)
          \/ \E m \in Messages : SendsPut(c, m, n, w) \/ JavaSendsPut(c, m, n, w)

WorkerStep(c) ==
    \/ Accepts(c) \/ Receives(c) \/ ReceiveFails(c)
    \/ PutQueues(c) \/ PutTimesOut(c) \/ GetPops(c) \/ GetTimesOut(c)
    \/ \E d \in Clients \ {c} : GetAdmitsExpired(c, d) \/ PutHandsOver(c, d)
    \/ SendsReply(c) \/ SendsData(c)

Next == \/ NamesQueues \/ Start
        \/ \E c \in Clients : ClientStep(c) \/ ClientCall(c) \/ WorkerStep(c)

Spec == Init /\ [][Next]_vars

(* Threads of the server keep running, timed waits end, and a client that  *)
(* waits for an answer takes it.  Nobody has to connect, call or close.    *)
FairSpec == Spec /\ \A c \in Clients : WF_vars(WorkerStep(c)) /\ WF_vars(ClientStep(c))

-----------------------------------------------------------------------------
WorkerPlaces == {"none", "receive", "put", "get", "reply", "data", "reput", "ended"}

TypeOK ==
    /\ running \in BOOLEAN
    /\ queue \in [Queues -> Seq(Messages)] /\ temp \in [Queues -> Seq(Messages)]
    /\ pc \in [Clients -> {"new", "idle", "put", "get", "data", "closed"}]
    /\ open \in [Clients -> BOOLEAN]
    /\ toServer \in [Clients -> Seq({Head_} \cup Requests)]
    /\ toClient \in [Clients -> Seq({Head_} \cup Replies \cup Messages)]
    /\ worker \in [Clients -> [at : WorkerPlaces, req : Requests \cup {None},
                               queue : Queues \cup {None}, msg : Messages \cup {None},
                               result : Results \cup {None}]]
    /\ sent \in SUBSET Messages /\ accepted \in SUBSET Messages
    /\ delivered \in SUBSET Messages

(* Where a message can be: in a queue, its tempList, the hand of a worker  *)
(* that got it, on the way to a client, or with one.                       *)
PlacesIn(f, m) == UNION {{q} \X {i \in DOMAIN f[q] : f[q][i] = m} : q \in Queues}
InHand(m) == {c \in Clients : worker[c].msg = m /\ worker[c].at \in {"reply", "data", "reput"}}
OnTheWay(m) == {c \in Clients : \E i \in DOMAIN toClient[c] :
                   \/ toClient[c][i] = m
                   \/ toClient[c][i] \in Replies /\ toClient[c][i].msg = m}
Copies(m) == Cardinality(PlacesIn(queue, m)) + Cardinality(PlacesIn(temp, m))
             + Cardinality(InHand(m)) + Cardinality(OnTheWay(m))
             + (IF m \in delivered THEN 1 ELSE 0)

(* Whatever closes, fails to be sent and is put back, no message is in two *)
(* places, and none is delivered twice.                                    *)
AtMostOnce == \A m \in Messages : Copies(m) <= 1

(* A client that goes away takes at most the one message it was being sent *)
(* with it; nothing else that was accepted is ever lost.                   *)
Lost == {m \in accepted : Copies(m) = 0}
LossBounded == Cardinality(Lost) <= Cardinality({c \in Consumers : pc[c] = "closed"})

(* Client and worker keep in step on a connection: a request is on its way *)
(* to the server, being worked on, or answered, and the bytes on the way   *)
(* are those the receiver expects next.                                    *)
Quiet(c) == worker[c].at \in {"none", "receive"}
InStep(c) ==
    CASE pc[c] \in {"new", "idle"} -> Quiet(c) /\ toServer[c] = <<>> /\ toClient[c] = <<>>
      [] pc[c] \in {"put", "get"}  ->
            \/ Quiet(c) /\ Len(toServer[c]) = 2 /\ toClient[c] = <<>>
            \/ worker[c].at \in {"put", "get", "reply"} /\ toServer[c] = <<>> /\ toClient[c] = <<>>
            \/ /\ toServer[c] = <<>>
               /\ toClient[c][1] = Head_ /\ toClient[c][2] \in Replies
               /\ (toClient[c][2].msg_len > 0) =
                     (worker[c].at = "data" \/ Len(toClient[c]) = 3)
      [] pc[c] = "data" -> \/ worker[c].at = "data" /\ toClient[c] = <<>>
                           \/ worker[c].at = "receive" /\ \E m \in Messages : toClient[c] = <<m>>
      [] pc[c] = "closed" -> toClient[c] = <<>>
StreamsInStep == TypeOK /\ \A c \in Clients : InStep(c)

(* A request with a timeout is answered, unless its client goes away.      *)
TimedRequest(c) ==
    /\ pc[c] \in {"put", "get"}
    /\ \/ Len(toServer[c]) = 2 /\ toServer[c][2].wait = "timed"
       \/ worker[c].at \in {"put", "get"} /\ worker[c].req.wait = "timed"
TimedRequestAnswered == \A c \in Clients : TimedRequest(c) ~> pc[c] \notin {"put", "get"}

(* The worker of a client that is gone ends, its message put back or       *)
(* dropped, unless it is to wait in a queue for ever.                      *)
WaitsForever(c) == worker[c].at \in {"put", "get"} /\ worker[c].req.wait = "forever"
WorkerEnds == \A c \in Clients : pc[c] = "closed" ~> At(c, "ended") \/ WaitsForever(c)
=============================================================================
