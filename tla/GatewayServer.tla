---------------------------- MODULE GatewayServer ----------------------------
(***************************************************************************)
(* The HTTP side of the gateway: _GatewayServer, which gives every         *)
(* connection a capacity permit and a thread or answers 503, and           *)
(* _GatewayHandler, which serves the requests of one keep-alive connection *)
(* one after the other and keeps the body of an admission in a temporary   *)
(* file while it is verified.                                              *)
(*                                                                         *)
(* Ledger.execute appears as the status it leads to; PostgresLedger and    *)
(* SQLiteLedger say how.                                                   *)
(***************************************************************************)
EXTENDS Integers, FiniteSets

CONSTANTS
  Connections,  \* the connections clients open
  Capacity,     \* maximum_concurrent_requests
  DiskUnits,    \* how many packages of the largest size the temporary disk holds
  Faults        \* what may go wrong in the process or on the wire

ASSUME GatewayAssumption ==
  /\ IsFiniteSet(Connections)
  /\ Capacity \in 1 .. 64
  /\ DiskUnits \in Nat
  /\ Faults \subseteq {"thread", "send", "exception", "crash"}

VARIABLES
  state,     \* where each connection and its thread are
  permits,   \* the value of the semaphore "capacity"
  temp,      \* the connections with a package file on disk
  stale,     \* the files left by processes that died
  unread,    \* a body was left in the stream, or a part of one
  broken,    \* nothing more comes out of the stream: it ended, or timed out once
  client,    \* what the client has seen of its last request
  slipped,   \* history: connections on which a request was answered without its
             \* body being read, or answered again after an answer that broke off
  reply      \* the answer being sent

wire == <<unread, broken, client, slipped, reply>>
vars == <<state, permits, temp, stale, wire>>

States == {"outside", "backlog", "waiting", "receiving", "executing", "answering",
           "closing", "leaving", "unstarted", "gone"}

\* "store": the answer sets Cache-Control: no-store.  "close": the connection
\* ends after it.  "again": an OSError while it is sent is caught in _admit.
Replies == [status : {0, 200, 400, 409, 422, 500, 501}, store : BOOLEAN,
            close : BOOLEAN, again : BOOLEAN]

\* "clear": an answer to each of its requests; "asked": none to the last one;
\* "part": the beginning of one; "crossed": an answer too many.
Sights == {"clear", "asked", "part", "crossed"}

NoReply == [status |-> 0, store |-> TRUE, close |-> FALSE, again |-> FALSE]

\* _respond, and the answers of BaseHTTPRequestHandler.send_error.
Respond(status, close, again) ==
  [status |-> status, store |-> TRUE, close |-> close, again |-> again]

SendError(status) ==
  [status |-> status, store |-> FALSE, close |-> TRUE, again |-> FALSE]

Goto(c, s) == state' = [state EXCEPT ![c] = s]

Answer(c, r) ==
  /\ Goto(c, "answering")
  /\ reply' = [reply EXCEPT ![c] = r]

\* What is known of a connection goes with its socket.
Forget(S) ==
  /\ unread' = [c \in Connections |-> c \notin S /\ unread[c]]
  /\ broken' = [c \in Connections |-> c \notin S /\ broken[c]]
  /\ client' = [c \in Connections |-> IF c \in S THEN "clear" ELSE client[c]]
  /\ slipped' = slipped \ S
  /\ reply' = [c \in Connections |-> IF c \in S THEN NoReply ELSE reply[c]]

Init ==
  /\ state = [c \in Connections |-> "outside"]
  /\ permits = Capacity
  /\ temp = {}
  /\ stale = 0
  /\ unread = [c \in Connections |-> FALSE]
  /\ broken = [c \in Connections |-> FALSE]
  /\ client = [c \in Connections |-> "clear"]
  /\ slipped = {}
  /\ reply = [c \in Connections |-> NoReply]

-----------------------------------------------------------------------------
(* The accept loop: process_request.                                       *)

Arrive(c) ==
  /\ state[c] = "outside"
  /\ Goto(c, "backlog")
  /\ UNCHANGED <<permits, temp, stale, wire>>

\* A permit and a thread.
Accept(c) ==
  /\ state[c] = "backlog"
  /\ permits > 0
  /\ permits' = permits - 1
  /\ Goto(c, "waiting")
  /\ UNCHANGED <<temp, stale, wire>>

\* Thread.start raises: socketserver closes the connection, and the permit
\* acquired for it is not given back.
StartFails(c) ==
  /\ "thread" \in Faults
  /\ state[c] = "backlog"
  /\ permits > 0
  /\ permits' = permits - 1
  /\ Goto(c, "unstarted")
  /\ UNCHANGED <<temp, stale, wire>>

\* Mutant: the permit is released where a socket is shut down.
RefuseReleases(c) ==
  /\ state[c] = "backlog"
  /\ permits = 0
  /\ permits' = permits + 1
  /\ Goto(c, "gone")
  /\ UNCHANGED <<temp, stale, wire>>

\* No permit: 503 from the accept loop itself, whoever holds the permits.
Refuse(c) ==
  /\ state[c] = "backlog"
  /\ permits = 0
  /\ Goto(c, "gone")
  /\ UNCHANGED <<permits, temp, stale, wire>>

-----------------------------------------------------------------------------
(* The handler thread: handle_one_request until the connection closes.     *)

\* The client gets a whole answer.
Answered(c) ==
  client' = [client EXCEPT ![c] = IF @ = "asked" THEN "clear" ELSE "crossed"]

\* A request line and headers are read.  They are the client's, or what is left
\* of an earlier body begins with them and nobody has asked.
Ask(c) ==
  /\ state[c] = "waiting"
  /\ ~broken[c]
  /\ \/ client' = [client EXCEPT ![c] = IF @ = "clear" THEN "asked" ELSE "crossed"]
     \/ unread[c] /\ UNCHANGED client

\* The request is answered, and its body, if it has one, is left in the stream.
Leave(c, left) ==
  /\ unread' = [unread EXCEPT ![c] = @ \/ left]
  /\ slipped' = IF left THEN slipped \cup {c} ELSE slipped

\* do_GET, or do_POST elsewhere; neither reads a body.
AskSimple(c) ==
  /\ Ask(c)
  /\ \E close, left \in BOOLEAN : Answer(c, Respond(200, close, FALSE)) /\ Leave(c, left)
  /\ UNCHANGED <<permits, temp, stale, broken>>

\* A method without a do_ function, or a request that does not parse.
AskUnsupported(c) ==
  /\ Ask(c)
  /\ Answer(c, SendError(501))
  /\ UNCHANGED <<permits, temp, stale, unread, broken, slipped>>

\* A POST refused for its headers before its body is read.
AskRefused(c) ==
  /\ Ask(c)
  /\ \E close, left \in BOOLEAN : Answer(c, Respond(400, close, FALSE)) /\ Leave(c, left)
  /\ UNCHANGED <<permits, temp, stale, broken>>

\* A POST whose headers pass: mkstemp.
AskAdmission(c) ==
  /\ Ask(c)
  /\ Goto(c, "receiving")
  /\ temp' = temp \cup {c}
  /\ UNCHANGED <<permits, stale, unread, broken, slipped, reply>>

\* mkstemp raises OSError.
NoTempFile(c) ==
  /\ Ask(c)
  /\ \E close \in BOOLEAN : Answer(c, Respond(500, close, FALSE))
  /\ Leave(c, TRUE)
  /\ UNCHANGED <<permits, temp, stale, broken>>

\* The client closes.
ClientCloses(c) ==
  /\ state[c] = "waiting"
  /\ Goto(c, "closing")
  /\ UNCHANGED <<permits, temp, stale, wire>>

\* Mutant: the connection has no timeout, only a stream that failed ends it.
OnlyBroken(c) ==
  /\ state[c] = "waiting"
  /\ broken[c]
  /\ Goto(c, "closing")
  /\ UNCHANGED <<permits, temp, stale, wire>>

\* A recv outlasts settimeout, or the stream refuses to be read after one did.
IdleTimeout(c) ==
  /\ state[c] = "waiting"
  /\ Goto(c, "closing")
  /\ UNCHANGED <<permits, temp, stale, wire>>

\* Every way out of the try block of _admit passes its finally: unlink.
Unlink(c) == temp' = temp \ {c}

DiskUsed == Cardinality(temp) + stale

\* The disk has no room for the rest of the body: OSError.
DiskFull(c) ==
  /\ state[c] = "receiving"
  /\ DiskUsed > DiskUnits
  /\ Unlink(c)
  /\ \E close, left \in BOOLEAN : Answer(c, Respond(500, close, FALSE)) /\ Leave(c, left)
  /\ UNCHANGED <<permits, stale, broken, client>>

\* The whole body is on disk, and its digest is or is not the one expected.
BodyArrives(c) ==
  /\ state[c] = "receiving"
  /\ DiskUsed <= DiskUnits
  /\ \/ Goto(c, "executing") /\ UNCHANGED <<temp, reply>>
     \/ Unlink(c) /\ \E close \in BOOLEAN : Answer(c, Respond(422, close, FALSE))
  /\ UNCHANGED <<permits, stale, unread, broken, client, slipped>>

\* The body is cut short and answered with status; nothing more is read.
BodyEnds(c, status) ==
  /\ state[c] = "receiving"
  /\ Unlink(c)
  /\ \E close \in BOOLEAN : Answer(c, Respond(status, close, FALSE))
  /\ broken' = [broken EXCEPT ![c] = TRUE]
  /\ UNCHANGED <<permits, stale, client, slipped>>

\* The client closes its side before the whole body was sent.
BodyTruncated(c) == BodyEnds(c, 400) /\ UNCHANGED unread

\* Mutant: after a timeout the stream is read on.
ReadOnAfterTimeout(c) ==
  /\ state[c] = "receiving"
  /\ Unlink(c)
  /\ Answer(c, Respond(500, FALSE, FALSE))
  /\ unread' = [unread EXCEPT ![c] = TRUE]
  /\ UNCHANGED <<permits, stale, broken, client, slipped>>

\* A recv of the body times out: TimeoutError is an OSError.  The rest of the
\* body may yet come, but a stream that timed out once refuses to be read.
BodyTimesOut(c) ==
  /\ BodyEnds(c, 500)
  /\ unread' = [unread EXCEPT ![c] = TRUE]

\* Ledger.execute returns (200, 409) or raises what _admit maps to a status.
Executed(c) ==
  /\ state[c] = "executing"
  /\ Unlink(c)
  /\ \E close \in BOOLEAN :
       \/ \E s \in {200, 409} : Answer(c, Respond(s, close, TRUE))
       \/ \E s \in {409, 422, 500} : Answer(c, Respond(s, close, FALSE))
  /\ UNCHANGED <<permits, stale, unread, broken, client, slipped>>

\* Mutant: the unlink is no finally clause.
RaiseKeepsFile(c) ==
  /\ "exception" \in Faults
  /\ state[c] = "executing"
  /\ Goto(c, "closing")
  /\ UNCHANGED <<permits, temp, stale, wire>>

\* Mutant: the release of the permit is no finally clause.
RaiseKeepsPermit(c) ==
  /\ "exception" \in Faults
  /\ state[c] = "executing"
  /\ Unlink(c)
  /\ Goto(c, "gone")
  /\ UNCHANGED <<permits, stale, wire>>

\* It raises something _admit does not catch: the thread ends without answer.
ExecuteRaises(c) ==
  /\ "exception" \in Faults
  /\ state[c] = "executing"
  /\ Unlink(c)
  /\ Goto(c, "closing")
  /\ UNCHANGED <<permits, stale, wire>>

Send(c) ==
  /\ state[c] = "answering"
  /\ Answered(c)
  /\ reply' = [reply EXCEPT ![c] = NoReply]
  /\ Goto(c, IF reply[c].close THEN "closing" ELSE "waiting")
  /\ UNCHANGED <<permits, temp, stale, unread, broken, slipped>>

\* Sending raises OSError: in the try block of _admit a 500 follows what got
\* through, anywhere else the connection ends.  If it was the headers that did
\* not get through they are still in the buffer, and go out before the 500.
SendFails(c) ==
  /\ "send" \in Faults
  /\ state[c] = "answering"
  /\ IF reply[c].again
       THEN /\ Answer(c, Respond(500, reply[c].close, FALSE))
            /\ client' = [client EXCEPT ![c] = "part"]
            /\ slipped' = slipped \cup {c}
       ELSE Goto(c, "closing") /\ UNCHANGED <<reply, client, slipped>>
  /\ UNCHANGED <<permits, temp, stale, unread, broken>>

\* process_request_thread: shutdown_request, then capacity.release().
CloseSocket(c) ==
  /\ state[c] = "closing"
  /\ Goto(c, "leaving")
  /\ Forget({c})
  /\ UNCHANGED <<permits, temp, stale>>

Release(c) ==
  /\ state[c] = "leaving"
  /\ permits' = permits + 1
  /\ Goto(c, "gone")
  /\ UNCHANGED <<temp, stale, wire>>

\* The process dies, its daemon threads with it, and is started again; the
\* temporary file system stays.
Crash ==
  /\ "crash" \in Faults
  /\ \E c \in Connections : state[c] \notin {"outside", "gone"}
  /\ state' = [c \in Connections |-> IF state[c] = "outside" THEN "outside" ELSE "gone"]
  /\ permits' = Capacity
  /\ temp' = {}
  /\ stale' = stale + Cardinality(temp)
  /\ Forget(Connections)

-----------------------------------------------------------------------------
Client(c) ==
  \/ Arrive(c)
  \/ AskSimple(c)
  \/ AskUnsupported(c)
  \/ AskRefused(c)
  \/ AskAdmission(c)
  \/ NoTempFile(c)
  \/ ClientCloses(c)

\* What the process does by itself: the accept loop, the timeouts and the rest.
Server(c) ==
  \/ Accept(c)
  \/ StartFails(c)
  \/ Refuse(c)
  \/ IdleTimeout(c)
  \/ DiskFull(c)
  \/ BodyArrives(c)
  \/ BodyTruncated(c)
  \/ BodyTimesOut(c)
  \/ Executed(c)
  \/ ExecuteRaises(c)
  \/ Send(c)
  \/ SendFails(c)
  \/ CloseSocket(c)
  \/ Release(c)

Ended(c) == state[c] \in {"unstarted", "gone"}

Finished == (\A c \in Connections : Ended(c)) /\ UNCHANGED vars

Next ==
  \/ \E c \in Connections : Client(c) \/ Server(c)
  \/ Crash
  \/ Finished

Spec == Init /\ [][Next]_vars

\* Clients owe nothing; the threads of the process run and every recv ends,
\* with data or with a timeout.
FairSpec == Spec /\ \A c \in Connections : WF_vars(Server(c))

-----------------------------------------------------------------------------
\* Every variable holds what the comment beside its declaration says.
TypeOK ==
  /\ state \in [Connections -> States]
  /\ permits \in 0 .. Capacity
  /\ temp \in SUBSET Connections
  /\ stale \in Nat
  /\ unread \in [Connections -> BOOLEAN]
  /\ broken \in [Connections -> BOOLEAN]
  /\ client \in [Connections -> Sights]
  /\ slipped \in SUBSET Connections
  /\ reply \in [Connections -> Replies]

Served == {c \in Connections :
             state[c] \in {"waiting", "receiving", "executing", "answering",
                           "closing", "leaving"}}

Unstarted == {c \in Connections : state[c] = "unstarted"}

\* Permits are neither lost nor made on any way out of a handler thread: a
\* permit is free, held by a thread, or gone with a thread that never started.
PermitsAccounted == permits + Cardinality(Served \cup Unstarted) = Capacity

\* A package file exists while its request is read and verified and not when
\* the request is answered, and no file of a process that lives is forgotten.
TempFilesOwned ==
  temp = {c \in Connections : state[c] \in {"receiving", "executing"}}

\* Answers fall out of step with requests in two ways only: what is left of a
\* body that was answered unread is taken for a request, and an admission whose
\* answer broke off is answered again.  On every other connection, through
\* bodies cut short, timeouts and a full disk, a thread that waits has answered
\* each request once, and it executes no admission that nobody asked for
\* (gateway.py 888-971).
AnswersInStep ==
  \A c \in Connections \ slipped :
    /\ state[c] = "waiting" => client[c] = "clear"
    /\ state[c] \in {"receiving", "executing"} => client[c] = "asked"

\* No thread is stuck: whatever its client does or fails to do, it comes back
\* again and again to answer a request, or ends and returns its permit.
NoThreadStuck ==
  \A c \in Connections : []<>(state[c] \in {"outside", "answering"} \/ Ended(c))

\* docs/gateway-deployment.md: the gateway accepts four concurrent requests;
\* with fewer connections than that in hand it has a permit for the next.
AcceptsCapacityRequests == Cardinality(Served) < Capacity => permits > 0

\* docs/admission-gateway.md: every response sets Cache-Control: no-store.
EveryResponseNoStore ==
  \A c \in Connections : state[c] = "answering" => reply[c].store
=============================================================================
