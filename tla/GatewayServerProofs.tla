------------------------- MODULE GatewayServerProofs -------------------------
(***************************************************************************)
(* Theorems of GatewayServer for any finite set of connections, any        *)
(* capacity, any disk and any faults.                                      *)
(***************************************************************************)
EXTENDS GatewayServer, FiniteSetTheorems, TLAPS

\* Those who hold a permit, or took one with them.
Holding == {"waiting", "receiving", "executing", "answering", "closing", "leaving", "unstarted"}

Holders == {c \in Connections : state[c] \in Holding}

\* The semaphore counts what is not held.
PermitInv == permits + Cardinality(Holders) = Capacity

\* On a connection that has not slipped nothing is left of a body that can still
\* be read, and what the client has seen follows from where the thread is.
WireInv ==
  \A c \in Connections \ slipped :
    /\ ~unread[c] \/ broken[c]
    /\ state[c] \in {"outside", "backlog", "waiting"} => client[c] = "clear"
    /\ state[c] \in {"receiving", "executing", "answering"} => client[c] = "asked"

ServerInv == TypeOK /\ PermitInv /\ TempFilesOwned /\ WireInv

\* The variables but the number of permits keep their types, which their count bounds.
Typed ==
  /\ state \in [Connections -> States]
  /\ permits \in Int
  /\ temp \in SUBSET Connections
  /\ stale \in Nat
  /\ unread \in [Connections -> BOOLEAN]
  /\ broken \in [Connections -> BOOLEAN]
  /\ client \in [Connections -> Sights]
  /\ slipped \in SUBSET Connections
  /\ reply \in [Connections -> Replies]

\* The permits that are left after a step are between none and all.
LEMMA PermitsInRange ==
  ASSUME Typed', PermitInv', permits' >= 0
  PROVE  TypeOK'
<1>1. IsFiniteSet(Holders')
  BY GatewayAssumption, FS_Subset DEF Holders
<1>2. Cardinality(Holders') \in Nat
  BY <1>1, FS_CardinalityType
<1> QED  BY <1>2, GatewayAssumption DEF Typed, PermitInv, TypeOK

\* The answers of the handler.
LEMMA RepliesTyped ==
  /\ \A s \in {200, 400, 409, 422, 500}, close, again \in BOOLEAN :
       Respond(s, close, again) \in Replies
  /\ \A s \in {400, 501} : SendError(s) \in Replies
  /\ NoReply \in Replies
BY DEF Respond, SendError, NoReply, Replies

\* A permit that is taken or given back moves one connection in or out.
LEMMA OneMoves ==
  ASSUME TypeOK, NEW c \in Connections, NEW s \in States, state' = [state EXCEPT ![c] = s]
  PROVE  /\ Cardinality(Holders) \in Nat
         /\ state[c] \in Holding <=> s \in Holding => Holders' = Holders
         /\ state[c] \notin Holding /\ s \in Holding =>
              Cardinality(Holders') = Cardinality(Holders) + 1
         /\ state[c] \in Holding /\ s \notin Holding =>
              Cardinality(Holders') = Cardinality(Holders) - 1
<1>1. IsFiniteSet(Holders) /\ Cardinality(Holders) \in Nat
  BY GatewayAssumption, FS_Subset, FS_CardinalityType DEF Holders
<1>2. state' \in [Connections -> States] /\ state'[c] = s
      /\ \A d \in Connections \ {c} : state'[d] = state[d]
  BY DEF TypeOK
<1>3. (state[c] \in Holding <=> s \in Holding) => Holders' = Holders
  BY <1>2 DEF Holders
<1>4. ASSUME state[c] \notin Holding, s \in Holding
      PROVE  Cardinality(Holders') = Cardinality(Holders) + 1
  <2>1. Holders' = Holders \cup {c} /\ c \notin Holders
    BY <1>2, <1>4 DEF Holders
  <2> QED  BY <1>1, <2>1, FS_AddElement
<1>5. ASSUME state[c] \in Holding, s \notin Holding
      PROVE  Cardinality(Holders') = Cardinality(Holders) - 1
  <2>1. Holders' = Holders \ {c} /\ c \in Holders
    BY <1>2, <1>5 DEF Holders
  <2> QED  BY <1>1, <2>1, FS_RemoveElement
<1> QED  BY <1>1, <1>3, <1>4, <1>5

\* The invariant holds at first.
LEMMA InitServer ==
  ASSUME Init
  PROVE  ServerInv
<1>1. Holders = {}
  BY DEF Init, Holders, Holding
<1>2. PermitInv
  BY <1>1, FS_EmptySet, GatewayAssumption DEF Init, PermitInv
<1>3. TypeOK
  BY GatewayAssumption DEF Init, TypeOK, States, Replies, NoReply, Sights
<1>4. TempFilesOwned /\ WireInv
  BY DEF Init, TempFilesOwned, WireInv
<1> QED  BY <1>2, <1>3, <1>4 DEF ServerInv

\* A process that died holds nothing.
LEMMA CrashStep ==
  ASSUME ServerInv, Crash
  PROVE  ServerInv'
<1> USE DEF ServerInv, TypeOK
<1>1. Holders' = {}
  BY DEF Crash, Holders, Holding
<1>2. PermitInv'
  BY <1>1, FS_EmptySet, GatewayAssumption DEF Crash, PermitInv
<1>3. Cardinality(temp) \in Nat
  BY GatewayAssumption, FS_Subset, FS_CardinalityType
<1>4. TypeOK'
  BY <1>3, GatewayAssumption DEF Crash, Forget, States, Replies, NoReply, Sights
<1>5. TempFilesOwned' /\ WireInv'
  BY DEF Crash, Forget, TempFilesOwned, WireInv
<1> QED  BY <1>2, <1>4, <1>5

\* Every action keeps every variable in its type.
LEMMA TypedStep ==
  ASSUME ServerInv, NEW c \in Connections, Client(c) \/ Server(c)
  PROVE  Typed' /\ permits' >= 0
<1> USE DEF ServerInv, TypeOK
<1> DEFINE Talks == state' \in [Connections -> States] /\ reply' \in [Connections -> Replies]
<1>1. ASSUME NEW r \in Replies, Answer(c, r)
      PROVE  Talks
  BY <1>1 DEF Answer, Goto, States
<1>2. ASSUME NEW s \in {400, 501}, Answer(c, SendError(s))
      PROVE  Talks
  BY <1>1, <1>2, RepliesTyped
<1>3. ASSUME NEW s \in States, Goto(c, s)
      PROVE  state' \in [Connections -> States]
  BY <1>3 DEF Goto
<1>4. permits \in Int /\ permits >= 0
  BY GatewayAssumption
<1>5. CASE Arrive(c) \/ Accept(c) \/ StartFails(c) \/ Refuse(c) \/ ClientCloses(c) \/ IdleTimeout(c)
  BY <1>4, <1>5 DEF Arrive, Accept, StartFails, Refuse, ClientCloses, IdleTimeout, Goto, States,
                    Typed, wire
<1>6. CASE Ask(c) /\ (AskSimple(c) \/ AskUnsupported(c) \/ AskRefused(c) \/ NoTempFile(c))
  <2>1. client' \in [Connections -> Sights]
    BY <1>6 DEF Ask, Sights
  <2>2. Talks
    <3>1. CASE AskSimple(c)
      <4>1. PICK close \in BOOLEAN : Answer(c, Respond(200, close, FALSE))
        BY <3>1 DEF AskSimple
      <4>2. Respond(200, close, FALSE) \in Replies
        BY DEF Respond, Replies
      <4> QED  BY <1>1, <4>1, <4>2
    <3>2. CASE AskRefused(c)
      <4>1. PICK close \in BOOLEAN : Answer(c, Respond(400, close, FALSE))
        BY <3>2 DEF AskRefused
      <4>2. Respond(400, close, FALSE) \in Replies
        BY DEF Respond, Replies
      <4> QED  BY <1>1, <4>1, <4>2
    <3>3. CASE NoTempFile(c)
      <4>1. PICK close \in BOOLEAN : Answer(c, Respond(500, close, FALSE))
        BY <3>3 DEF NoTempFile
      <4>2. Respond(500, close, FALSE) \in Replies
        BY DEF Respond, Replies
      <4> QED  BY <1>1, <4>1, <4>2
    <3>4. CASE AskUnsupported(c)
      BY <1>2, <3>4 DEF AskUnsupported
    <3> QED  BY <1>6, <3>1, <3>2, <3>3, <3>4
  <2>3. /\ unread' \in [Connections -> BOOLEAN] /\ slipped' \in SUBSET Connections
        /\ UNCHANGED <<permits, temp, stale, broken>>
    BY <1>6 DEF AskSimple, AskUnsupported, AskRefused, NoTempFile, Leave
  <2> QED  BY <1>4, <2>1, <2>2, <2>3 DEF Typed
<1>7. CASE AskAdmission(c)
  BY <1>3, <1>4, <1>7 DEF AskAdmission, Ask, Sights, States, Typed
<1>8. CASE DiskFull(c) \/ BodyArrives(c) \/ BodyTruncated(c) \/ BodyTimesOut(c)
  <2>1. Talks
    <3>1. CASE DiskFull(c)
      <4>1. PICK close \in BOOLEAN : Answer(c, Respond(500, close, FALSE))
        BY <3>1, ZenonT(60) DEF DiskFull
      <4>2. Respond(500, close, FALSE) \in Replies
        BY DEF Respond, Replies
      <4> QED  BY <1>1, <4>1, <4>2, Zenon
    <3>2. CASE BodyArrives(c)
      <4>1. CASE \E close \in BOOLEAN : Answer(c, Respond(422, close, FALSE))
        <5>1. PICK close \in BOOLEAN : Answer(c, Respond(422, close, FALSE))
          BY <4>1
        <5>2. Respond(422, close, FALSE) \in Replies
          BY DEF Respond, Replies
        <5> QED  BY <1>1, <5>1, <5>2
      <4> QED  BY <1>3, <3>2, <4>1 DEF BodyArrives, States
    <3>3. CASE BodyTruncated(c)
      <4>1. PICK close \in BOOLEAN : Answer(c, Respond(400, close, FALSE))
        BY <3>3 DEF BodyTruncated, BodyEnds
      <4>2. Respond(400, close, FALSE) \in Replies
        BY DEF Respond, Replies
      <4> QED  BY <1>1, <4>1, <4>2
    <3>4. CASE BodyTimesOut(c)
      <4>1. PICK close \in BOOLEAN : Answer(c, Respond(500, close, FALSE))
        BY <3>4 DEF BodyTimesOut, BodyEnds
      <4>2. Respond(500, close, FALSE) \in Replies
        BY DEF Respond, Replies
      <4> QED  BY <1>1, <4>1, <4>2
    <3> QED  BY <1>8, <3>1, <3>2, <3>3, <3>4
  <2>2. /\ temp' \in SUBSET Connections /\ unread' \in [Connections -> BOOLEAN]
        /\ broken' \in [Connections -> BOOLEAN] /\ slipped' \in SUBSET Connections
        /\ UNCHANGED <<permits, stale, client>>
    BY <1>8 DEF DiskFull, BodyArrives, BodyTruncated, BodyTimesOut, BodyEnds, Unlink, Leave
  <2> QED  BY <1>4, <2>1, <2>2 DEF Typed
<1>9. CASE Executed(c) \/ ExecuteRaises(c)
  <2>1. Talks
    <3>1. CASE Executed(c)
      <4>1. PICK close \in BOOLEAN :
              \/ \E s \in {200, 409} : Answer(c, Respond(s, close, TRUE))
              \/ \E s \in {409, 422, 500} : Answer(c, Respond(s, close, FALSE))
        BY <3>1 DEF Executed
      <4>2. CASE \E s \in {200, 409} : Answer(c, Respond(s, close, TRUE))
        <5>1. PICK s \in {200, 409} : Answer(c, Respond(s, close, TRUE))
          BY <4>2
        <5>2. Respond(s, close, TRUE) \in Replies
          BY DEF Respond, Replies
        <5> QED  BY <1>1, <5>1, <5>2
      <4>3. CASE \E s \in {409, 422, 500} : Answer(c, Respond(s, close, FALSE))
        <5>1. PICK s \in {409, 422, 500} : Answer(c, Respond(s, close, FALSE))
          BY <4>3
        <5>2. Respond(s, close, FALSE) \in Replies
          BY DEF Respond, Replies
        <5> QED  BY <1>1, <5>1, <5>2, Zenon
      <4> QED  BY <4>1, <4>2, <4>3
    <3>2. CASE ExecuteRaises(c)
      BY <1>3, <3>2 DEF ExecuteRaises, States, wire
    <3> QED  BY <1>9, <3>1, <3>2
  <2>2. temp' \in SUBSET Connections
    BY <1>9 DEF Executed, ExecuteRaises, Unlink
  <2> QED  BY <1>4, <1>9, <2>1, <2>2 DEF Executed, ExecuteRaises, Typed, wire
<1>10. CASE Send(c)
  <2>1. client' \in [Connections -> Sights]
    BY <1>10 DEF Send, Answered, Sights
  <2>2. Talks
    BY <1>3, <1>10, RepliesTyped DEF Send, States
  <2> QED  BY <1>4, <1>10, <2>1, <2>2 DEF Send, Typed
<1>11. CASE SendFails(c)
  <2>1. reply[c].close \in BOOLEAN
    BY DEF Replies
  <2>2. Talks
    <3>1. \/ reply' = [reply EXCEPT ![c] = [status |-> 500, store |-> TRUE,
                                           close |-> reply[c].close, again |-> FALSE]]
          \/ reply' = reply
      BY <1>11 DEF SendFails, Answer, Respond
    <3>2. [status |-> 500, store |-> TRUE, close |-> reply[c].close, again |-> FALSE] \in Replies
      BY <2>1 DEF Replies
    <3>3. reply' \in [Connections -> Replies]
      <4> DEFINE next == [status |-> 500, store |-> TRUE, close |-> reply[c].close, again |-> FALSE]
      <4>1. next \in Replies /\ (reply' = [reply EXCEPT ![c] = next] \/ reply' = reply)
        BY <3>1, <3>2
      <4> HIDE DEF next
      <4> QED  BY <4>1
    <3>4. state' = [state EXCEPT ![c] = "answering"] \/ state' = [state EXCEPT ![c] = "closing"]
      BY <1>11, Zenon DEF SendFails, Answer, Goto
    <3>5. state' \in [Connections -> States]
      BY <3>4 DEF States
    <3> QED  BY <3>3, <3>5
  <2>3. client' \in [Connections -> Sights] /\ slipped' \in SUBSET Connections
    BY <1>11 DEF SendFails, Sights
  <2> QED  BY <1>4, <1>11, <2>2, <2>3 DEF SendFails, Typed
<1>12. CASE CloseSocket(c)
  BY <1>3, <1>4, <1>12, RepliesTyped DEF CloseSocket, Forget, States, Typed, Sights
<1>13. CASE Release(c)
  BY <1>3, <1>4, <1>13 DEF Release, States, Typed, wire
<1> QED  BY <1>5, <1>6, <1>7, <1>8, <1>9, <1>10, <1>11, <1>12, <1>13
         DEF Client, Server, AskSimple, AskUnsupported, AskRefused, NoTempFile

\* Every action takes or gives back the permit it says.
LEMMA PermitStep ==
  ASSUME ServerInv, NEW c \in Connections, Client(c) \/ Server(c)
  PROVE  PermitInv'
<1> USE DEF ServerInv
<1>1. permits \in Int /\ Capacity \in Int
  BY GatewayAssumption DEF TypeOK
<1>2. ASSUME NEW s \in States, state' = [state EXCEPT ![c] = s], permits' = permits,
             state[c] \in Holding <=> s \in Holding
      PROVE  PermitInv'
  BY <1>2, OneMoves DEF PermitInv
<1>3. CASE Accept(c) \/ StartFails(c)
  <2>1. PICK s \in {"waiting", "unstarted"} : /\ state' = [state EXCEPT ![c] = s]
                                              /\ permits' = permits - 1
                                              /\ state[c] = "backlog"
    BY <1>3 DEF Accept, StartFails, Goto
  <2>2. s \in States /\ s \in Holding /\ state[c] \notin Holding
    BY <2>1 DEF States, Holding
  <2>3. Cardinality(Holders) \in Nat /\ Cardinality(Holders') = Cardinality(Holders) + 1
    BY <2>1, <2>2, OneMoves
  <2> QED  BY <1>1, <2>1, <2>3 DEF PermitInv
<1>4. CASE Release(c)
  <2>1. /\ state' = [state EXCEPT ![c] = "gone"] /\ permits' = permits + 1
        /\ state[c] = "leaving"
    BY <1>4 DEF Release, Goto
  <2>2. "gone" \in States /\ "gone" \notin Holding /\ state[c] \in Holding
    BY <2>1 DEF States, Holding
  <2>3. Cardinality(Holders) \in Nat /\ Cardinality(Holders') = Cardinality(Holders) - 1
    BY <2>1, <2>2, OneMoves
  <2> QED  BY <1>1, <2>1, <2>3 DEF PermitInv
<1> USE DEF Goto, Answer, Ask, States, Holding, wire
<1>5. CASE Arrive(c) \/ Refuse(c) \/ ClientCloses(c) \/ IdleTimeout(c)
  BY <1>2, <1>5 DEF Arrive, Refuse, ClientCloses, IdleTimeout
<1>6. CASE \/ AskSimple(c) \/ AskUnsupported(c) \/ AskRefused(c) \/ AskAdmission(c)
           \/ NoTempFile(c)
  BY <1>2, <1>6, ZenonT(60) DEF AskSimple, AskUnsupported, AskRefused, AskAdmission, NoTempFile
<1>7. CASE DiskFull(c) \/ BodyArrives(c) \/ BodyTruncated(c) \/ BodyTimesOut(c)
  BY <1>2, <1>7 DEF DiskFull, BodyArrives, BodyTruncated, BodyTimesOut, BodyEnds
<1>8. CASE Executed(c) \/ ExecuteRaises(c) \/ SendFails(c) \/ CloseSocket(c)
  BY <1>2, <1>8, ZenonT(60) DEF Executed, ExecuteRaises, SendFails, CloseSocket
<1>9. CASE Send(c)
  BY <1>2, <1>9 DEF Send
<1> QED  BY <1>3, <1>4, <1>5, <1>6, <1>7, <1>8, <1>9 DEF Client, Server

\* Every action makes and removes the package file of its own connection.
LEMMA TempStep ==
  ASSUME ServerInv, NEW c \in Connections, Client(c) \/ Server(c)
  PROVE  TempFilesOwned'
<1> USE DEF ServerInv, TypeOK, TempFilesOwned, Goto, Answer, Ask, Unlink, wire
<1>1. CASE Arrive(c) \/ Accept(c) \/ StartFails(c) \/ Refuse(c) \/ ClientCloses(c) \/ IdleTimeout(c)
  <2>1. PICK s \in {"backlog", "waiting", "unstarted", "gone", "closing"} :
          state' = [state EXCEPT ![c] = s]
    BY <1>1 DEF Arrive, Accept, StartFails, Refuse, ClientCloses, IdleTimeout
  <2>2. temp' = temp /\ state[c] \in {"outside", "backlog", "waiting"}
    BY <1>1 DEF Arrive, Accept, StartFails, Refuse, ClientCloses, IdleTimeout
  <2> QED  BY <2>1, <2>2
<1>2. CASE AskSimple(c) \/ AskUnsupported(c) \/ AskRefused(c) \/ AskAdmission(c) \/ NoTempFile(c)
  <2>1. \/ state' = [state EXCEPT ![c] = "answering"] /\ temp' = temp
        \/ state' = [state EXCEPT ![c] = "receiving"] /\ temp' = temp \cup {c}
    BY <1>2 DEF AskSimple, AskUnsupported, AskRefused, AskAdmission, NoTempFile
  <2>2. state[c] = "waiting"
    BY <1>2 DEF AskSimple, AskUnsupported, AskRefused, AskAdmission, NoTempFile
  <2> QED  BY <2>1, <2>2
<1>3. CASE DiskFull(c) \/ BodyArrives(c) \/ BodyTruncated(c) \/ BodyTimesOut(c)
  <2>1. \/ state' = [state EXCEPT ![c] = "executing"] /\ temp' = temp
        \/ state' = [state EXCEPT ![c] = "answering"] /\ temp' = temp \ {c}
    BY <1>3 DEF DiskFull, BodyArrives, BodyTruncated, BodyTimesOut, BodyEnds
  <2>2. state[c] = "receiving"
    BY <1>3 DEF DiskFull, BodyArrives, BodyTruncated, BodyTimesOut, BodyEnds
  <2> QED  BY <2>1, <2>2
<1>4. CASE Executed(c) \/ ExecuteRaises(c)
  <2>1. PICK s \in {"answering", "closing"} : state' = [state EXCEPT ![c] = s]
    BY <1>4, ZenonT(60) DEF Executed, ExecuteRaises
  <2>2. temp' = temp \ {c}
    BY <1>4 DEF Executed, ExecuteRaises
  <2> QED  BY <2>1, <2>2
<1>5. CASE Send(c) \/ SendFails(c) \/ CloseSocket(c) \/ Release(c)
  <2>1. PICK s \in {"waiting", "answering", "closing", "leaving", "gone"} :
          state' = [state EXCEPT ![c] = s]
    BY <1>5 DEF Send, SendFails, CloseSocket, Release
  <2>2. temp' = temp /\ state[c] \in {"answering", "closing", "leaving"}
    BY <1>5 DEF Send, SendFails, CloseSocket, Release
  <2> QED  BY <2>1, <2>2
<1> QED  BY <1>1, <1>2, <1>3, <1>4, <1>5 DEF Client, Server

\* Every action keeps requests and answers in step, or lets the connection slip.
LEMMA WireStep ==
  ASSUME ServerInv, NEW c \in Connections, Client(c) \/ Server(c)
  PROVE  WireInv'
<1> USE DEF ServerInv, TypeOK, WireInv, Goto, Answer, wire
<1>1. CASE Arrive(c) \/ Accept(c) \/ StartFails(c) \/ Refuse(c) \/ ClientCloses(c) \/ IdleTimeout(c)
  BY <1>1 DEF Arrive, Accept, StartFails, Refuse, ClientCloses, IdleTimeout
<1>2. CASE AskSimple(c) \/ AskUnsupported(c) \/ AskRefused(c) \/ AskAdmission(c) \/ NoTempFile(c)
  <2>1. c \notin slipped => client' = [client EXCEPT ![c] = "asked"]
    BY <1>2 DEF AskSimple, AskUnsupported, AskRefused, AskAdmission, NoTempFile, Ask
  <2>2. /\ \A d \in Connections \ {c} : state'[d] = state[d] /\ client'[d] = client[d]
        /\ state'[c] \in {"receiving", "answering"} /\ broken' = broken
    <3> USE DEF Ask
    <3>1. CASE AskSimple(c)
      BY <3>1 DEF AskSimple
    <3>2. CASE AskUnsupported(c)
      BY <3>2 DEF AskUnsupported
    <3>3. CASE AskRefused(c)
      BY <3>3 DEF AskRefused
    <3>4. CASE AskAdmission(c)
      BY <3>4 DEF AskAdmission
    <3>5. CASE NoTempFile(c)
      BY <3>5 DEF NoTempFile
    <3> QED  BY <1>2, <3>1, <3>2, <3>3, <3>4, <3>5
  <2>3. \A d \in Connections \ slipped' : d \notin slipped /\ unread'[d] = unread[d]
    <3>1. CASE AskSimple(c) \/ AskRefused(c) \/ NoTempFile(c)
      <4>1. PICK left \in BOOLEAN : Leave(c, left)
        BY <3>1, Zenon DEF AskSimple, AskRefused, NoTempFile
      <4> QED  BY <4>1 DEF Leave
    <3>2. CASE AskUnsupported(c) \/ AskAdmission(c)
      BY <3>2, Zenon DEF AskUnsupported, AskAdmission
    <3> QED  BY <1>2, <3>1, <3>2
  <2> QED  BY <2>1, <2>2, <2>3
<1>3. CASE DiskFull(c)
  BY <1>3 DEF DiskFull, Leave
<1>4. CASE BodyArrives(c)
  <2>1. PICK s \in {"executing", "answering"} : state' = [state EXCEPT ![c] = s]
    BY <1>4 DEF BodyArrives
  <2> QED  BY <1>4, <2>1 DEF BodyArrives
<1>5. CASE BodyTruncated(c) \/ BodyTimesOut(c)
  <2>1. /\ state[c] = "receiving" /\ UNCHANGED <<client, slipped>>
        /\ state' = [state EXCEPT ![c] = "answering"]
        /\ broken' = [broken EXCEPT ![c] = TRUE]
    BY <1>5 DEF BodyTruncated, BodyTimesOut, BodyEnds
  <2>2. \A d \in Connections \ {c} : unread'[d] = unread[d]
    BY <1>5 DEF BodyTruncated, BodyTimesOut
  <2>3. /\ \A d \in Connections \ {c} : state'[d] = state[d] /\ broken'[d] = broken[d]
        /\ state'[c] = "answering" /\ broken'[c]
    BY <2>1
  <2> QED  BY <2>1, <2>2, <2>3
<1>9. CASE Executed(c) \/ ExecuteRaises(c)
  <2>1. /\ \A d \in Connections \ {c} : state'[d] = state[d]
        /\ state'[c] \in {"answering", "closing"}
    <3>1. PICK s \in {"answering", "closing"} : state' = [state EXCEPT ![c] = s]
      BY <1>9, ZenonT(60) DEF Executed, ExecuteRaises
    <3> QED  BY <3>1
  <2>2. state[c] = "executing" /\ UNCHANGED <<client, slipped, unread, broken>>
    BY <1>9 DEF Executed, ExecuteRaises
  <2> QED  BY <2>1, <2>2
<1>6. CASE Send(c)
  BY <1>6, SMTT(30) DEF Send, Answered
<1>7. CASE SendFails(c)
  BY <1>7, ZenonT(60) DEF SendFails
<1>8. CASE CloseSocket(c) \/ Release(c)
  BY <1>8 DEF CloseSocket, Release, Forget
<1> QED  BY <1>1, <1>2, <1>3, <1>4, <1>5, <1>6, <1>7, <1>8, <1>9 DEF Client, Server

\* Types, permits, files and answers in step hold of every behaviour.
THEOREM ServerInvariant == Spec => []ServerInv
<1>1. ASSUME ServerInv, [Next]_vars  PROVE ServerInv'
  <2>1. ASSUME NEW c \in Connections, Client(c) \/ Server(c)
        PROVE  ServerInv'
    <3>1. Typed' /\ permits' >= 0 /\ PermitInv'
      BY <1>1, <2>1, TypedStep, PermitStep
    <3>2. TypeOK'
      BY <3>1, PermitsInRange
    <3> QED  BY <1>1, <2>1, <3>1, <3>2, TempStep, WireStep DEF ServerInv
  <2>2. CASE UNCHANGED vars
    BY <1>1, <2>2 DEF ServerInv, TypeOK, PermitInv, Holders, TempFilesOwned, WireInv, vars, wire
  <2> QED  BY <1>1, <2>1, <2>2, CrashStep DEF Next, Finished
<1> QED  BY <1>1, InitServer, PTL DEF Spec

\* The server's variables keep their types.
THEOREM TypeCorrect == Spec => []TypeOK
<1>1. ServerInv => TypeOK
  BY DEF ServerInv
<1> QED  BY <1>1, ServerInvariant, PTL

\* No way out of a handler thread loses a permit or makes one.
THEOREM PermitsKept == Spec => []PermitsAccounted
<1>1. ServerInv => PermitsAccounted
  <2>1. Served \cup Unstarted = Holders
    BY DEF Served, Unstarted, Holders, Holding
  <2> QED  BY <2>1 DEF ServerInv, PermitInv, PermitsAccounted
<1> QED  BY <1>1, ServerInvariant, PTL

\* Package files exist while their requests are read and verified, and no longer.
THEOREM TempFilesKept == Spec => []TempFilesOwned
<1>1. ServerInv => TempFilesOwned
  BY DEF ServerInv
<1> QED  BY <1>1, ServerInvariant, PTL

\* Unless a body was left unread or an answer broke off, a connection in use has
\* answered every earlier request once and executes only what was asked.
THEOREM AnswersKeptInStep == Spec => []AnswersInStep
<1>1. ServerInv => AnswersInStep
  BY DEF ServerInv, WireInv, AnswersInStep
<1> QED  BY <1>1, ServerInvariant, PTL
=============================================================================
