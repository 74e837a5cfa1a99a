--------------------------- MODULE MqttLinkProofs ---------------------------
(***************************************************************************)
(* Proofs about MqttLink, for any number of vehicles, any limit of         *)
(* reconnections and any lead of the library over the UI thread: a         *)
(* connection that is up is known, a swallowed request is forgotten, and   *)
(* the back-off never grows.                                               *)
(***************************************************************************)
EXTENDS MqttLink, TLAPS

(* A loss is posted by a client that had posted its connection.            *)
LossAfterConnection ==
  \A i \in 2 .. Len(calls) : calls[i].what = "lost" => calls[i - 1].what = "connected"

(* The last call posted tells the state of the present client, unless it   *)
(* has posted none; and without one the UI thread is up to date.           *)
LastCallTells ==
  /\ calls # <<>> =>
       /\ client = "up" => calls[Len(calls)] = [what |-> "connected", current |-> TRUE]
       /\ client = "down" => calls[Len(calls)].what = "lost"
  /\ calls = <<>> =>
       /\ client = "up" => isConnected /\ reconnectAttempts = 0
       /\ client = "down" => ~isConnected

(* A loss is the first news after a connection, which reset the count.     *)
LossFindsNoAttempts ==
  calls # <<>> /\ calls[1].what = "lost" => reconnectAttempts = 0

LinkInv ==
  /\ MqttTypeOK
  /\ pending => ~isConnected
  /\ LossAfterConnection /\ LastCallTells /\ LossFindsNoAttempts
  /\ BackoffNeverGrows
  /\ LostRequestIsForgotten

LEMMA LinkInit == MqttInit => LinkInv
<1> SUFFICES ASSUME MqttInit PROVE LinkInv
  OBVIOUS
<1>1. calls = <<>> /\ calls \in Seq(Calls) /\ Len(calls) = 0
  BY DEF MqttInit
<1>2. 0 \in 0 .. MaxReconnectAttempts /\ 0 <= MaxCalls
  BY MqttAssumption
<1>3. MqttTypeOK
  BY <1>1, <1>2 DEF MqttInit, MqttTypeOK
<1>4. LossAfterConnection
  BY <1>1 DEF LossAfterConnection
<1>5. LastCallTells /\ LossFindsNoAttempts /\ LostRequestIsForgotten
  BY <1>1 DEF MqttInit, LastCallTells, LossFindsNoAttempts, LostRequestIsForgotten
<1>6. BackoffNeverGrows /\ ~pending
  BY DEF MqttInit, BackoffNeverGrows
<1> QED BY <1>3, <1>4, <1>5, <1>6 DEF LinkInv

-----------------------------------------------------------------------------
(* What the library, an attempt and the UI thread do to the posted calls.  *)

LEMMA PostMeans ==
  ASSUME calls \in Seq(Calls), NEW what \in {"connected", "lost"}, Post(what)
  PROVE  /\ calls' \in Seq(Calls) /\ Len(calls') = Len(calls) + 1 /\ calls' # <<>>
         /\ \A i \in 1 .. Len(calls) : calls'[i] = calls[i]
         /\ calls'[Len(calls) + 1] = [what |-> what, current |-> TRUE]
<1>1. [what |-> what, current |-> TRUE] \in Calls
  BY DEF Calls
<1> QED BY <1>1 DEF Post

LEMMA ConnectMeans ==
  ASSUME MqttTypeOK, ConnectToBroker
  PROVE  \/ /\ Skipped /\ UNCHANGED <<inFlight, watched, client, calls>>
         \/ /\ ~Skipped /\ inFlight' = TRUE /\ watched' = TRUE /\ client' = "connecting"
            /\ calls' \in Seq(Calls) /\ Len(calls') = Len(calls)
            /\ \A i \in 1 .. Len(calls) : calls'[i].what = calls[i].what
<1>1. \A c \in Calls : [c EXCEPT !.current = FALSE] \in Calls
                       /\ [c EXCEPT !.current = FALSE].what = c.what
  BY DEF Calls
<1>2. CASE Skipped /\ UNCHANGED <<inFlight, watched, client, calls>>
  BY <1>2
<1>3. CASE ~Skipped /\ Attempt
  <2>1. calls \in Seq(Calls) /\ DOMAIN calls = 1 .. Len(calls) /\ Len(calls) \in Nat
    BY DEF MqttTypeOK
  <2>2. calls' = [i \in 1 .. Len(calls) |-> [calls[i] EXCEPT !.current = FALSE]]
    BY <1>3, <2>1 DEF Attempt
  <2>3. \A i \in 1 .. Len(calls) : calls[i] \in Calls
    BY <2>1
  <2>4. calls' \in [1 .. Len(calls) -> Calls]
    BY <1>1, <2>2, <2>3
  <2>5. calls' \in Seq(Calls) /\ Len(calls') = Len(calls)
    BY <2>1, <2>4
  <2>6. \A i \in 1 .. Len(calls) : calls'[i].what = calls[i].what
    BY <1>1, <2>2, <2>3
  <2> QED BY <1>3, <2>5, <2>6 DEF Attempt
<1> QED BY <1>2, <1>3 DEF ConnectToBroker

LEMMA CallMeans ==
  ASSUME calls \in Seq(Calls), NEW what, NextCallIs(what)
  PROVE  /\ Len(calls) > 0 /\ calls[1].what = what
         /\ calls' \in Seq(Calls) /\ Len(calls') = Len(calls) - 1
         /\ calls' = <<>> <=> Len(calls) = 1
         /\ \A i \in 1 .. Len(calls) - 1 : calls'[i] = calls[i + 1]
<1>1. calls # <<>> /\ Head(calls).what = what /\ calls' = Tail(calls)
  BY DEF NextCallIs
<1>2. Len(calls) \in Nat /\ Len(calls) > 0 /\ Head(calls) = calls[1]
  BY <1>1
<1>3. /\ calls' \in Seq(Calls) /\ Len(calls') = Len(calls) - 1
      /\ \A i \in 1 .. Len(calls) - 1 : calls'[i] = calls[i + 1]
  BY <1>1, <1>2
<1>4. calls' = <<>> <=> Len(calls) = 1
  BY <1>2, <1>3
<1> QED BY <1>1, <1>2, <1>3, <1>4

-----------------------------------------------------------------------------
(* Steps that leave the calls and the client alone.                        *)
LEMMA SameCallsStep ==
  ASSUME LinkInv, MqttTypeOK', UNCHANGED <<calls, client, isConnected, reconnectAttempts>>,
         pending' => ~isConnected, LostRequestIsForgotten'
  PROVE  LinkInv'
BY DEF LinkInv, LossAfterConnection, LastCallTells, LossFindsNoAttempts, BackoffNeverGrows

(* An attempt starts a client that has posted nothing.                     *)
LEMMA ConnectStep ==
  ASSUME LinkInv, ConnectToBroker, MqttTypeOK', UNCHANGED <<isConnected, reconnectAttempts>>,
         UNCHANGED <<requestedVin, found>>, pending' => ~isConnected
  PROVE  LinkInv'
<1>1. MqttTypeOK
  BY DEF LinkInv
<1>2. CASE UNCHANGED <<client, calls>>
  BY <1>2, SameCallsStep DEF LinkInv, LostRequestIsForgotten, LossPosted
<1>3. CASE /\ ~Skipped /\ client' = "connecting"
           /\ calls' \in Seq(Calls) /\ Len(calls') = Len(calls)
           /\ \A i \in 1 .. Len(calls) : calls'[i].what = calls[i].what
  <2>1. calls \in Seq(Calls) /\ Len(calls) \in Nat /\ DOMAIN calls = 1 .. Len(calls)
        /\ DOMAIN calls' = 1 .. Len(calls)
    BY <1>1, <1>3 DEF MqttTypeOK
  <2>2. LossAfterConnection' /\ LossFindsNoAttempts'
    BY <1>3, <2>1 DEF LinkInv, LossAfterConnection, LossFindsNoAttempts
  <2>3. LastCallTells' /\ BackoffNeverGrows'
    BY <1>3 DEF LinkInv, LastCallTells, BackoffNeverGrows
  <2>4. LostRequestIsForgotten'
    BY <1>3, <2>1 DEF LinkInv, LostRequestIsForgotten, LossPosted
  <2> QED BY <2>2, <2>3, <2>4 DEF LinkInv
<1> QED BY <1>1, <1>2, <1>3, ConnectMeans

LEMMA ConnectTypes ==
  ASSUME MqttTypeOK, ConnectToBroker
  PROVE  /\ inFlight' \in BOOLEAN /\ watched' \in BOOLEAN
         /\ client' \in {"none", "connecting", "up", "down"}
         /\ calls' \in Seq(Calls) /\ Len(calls') <= MaxCalls
         /\ inFlight' => watched'
         /\ watched => watched'
         /\ ~isConnected => watched'
<1>1. CASE Skipped /\ UNCHANGED <<inFlight, watched, client, calls>>
  <2>1. ~isConnected => watched
    BY <1>1 DEF MqttTypeOK, Skipped
  <2> QED BY <1>1, <2>1 DEF MqttTypeOK
<1>2. CASE /\ inFlight' = TRUE /\ watched' = TRUE /\ client' = "connecting"
           /\ calls' \in Seq(Calls) /\ Len(calls') = Len(calls)
  BY <1>2 DEF MqttTypeOK
<1> QED BY <1>1, <1>2, ConnectMeans

LEMMA LibraryKeeps ==
  ASSUME LinkInv, BrokerAccepts \/ ConnectionLost
  PROVE  LinkInv'
<1>1. PICK what \in {"connected", "lost"} :
        /\ Post(what) /\ Len(calls) < MaxCalls
        /\ what = "connected" => client \in {"connecting", "down"} /\ client' = "up"
        /\ what = "lost" => client = "up" /\ client' = "down"
        /\ UNCHANGED <<connection, currentVin, request, pending>>
  BY DEF BrokerAccepts, ConnectionLost
<1>2. calls \in Seq(Calls) /\ Len(calls) \in Nat
  BY DEF LinkInv, MqttTypeOK
<1>3. /\ calls' \in Seq(Calls) /\ Len(calls') = Len(calls) + 1 /\ calls' # <<>>
      /\ \A i \in 1 .. Len(calls) : calls'[i] = calls[i]
      /\ calls'[Len(calls) + 1] = [what |-> what, current |-> TRUE]
  BY <1>1, <1>2, PostMeans
<1>4. MqttTypeOK'
  BY <1>1, <1>2, <1>3, MqttAssumption DEF LinkInv, MqttTypeOK, connection, request
<1>5. LastCallTells'
  <2>1. calls'[Len(calls')] = [what |-> what, current |-> TRUE]
        /\ calls'[Len(calls')].what = what
    BY <1>3
  <2>2. CASE what = "connected"
    BY <1>1, <1>3, <2>1, <2>2 DEF LastCallTells
  <2>3. CASE what = "lost"
    BY <1>1, <1>3, <2>1, <2>3 DEF LastCallTells
  <2> QED BY <2>2, <2>3
<1>6. what = "lost" => calls = <<>> \/ calls[Len(calls)].what = "connected"
  BY <1>1 DEF LinkInv, LastCallTells
<1>7. LossAfterConnection'
  <2> SUFFICES ASSUME NEW i \in 2 .. Len(calls) + 1, calls'[i].what = "lost"
               PROVE  calls'[i - 1].what = "connected"
    BY <1>3 DEF LossAfterConnection
  <2>1. CASE i \in 2 .. Len(calls)
    BY <1>2, <1>3, <2>1 DEF LinkInv, LossAfterConnection
  <2>2. CASE i = Len(calls) + 1
    BY <1>2, <1>3, <1>6, <2>2
  <2> QED BY <1>2, <2>1, <2>2
<1>8. LossFindsNoAttempts'
  <2>1. CASE calls = <<>>
    BY <1>1, <1>3, <2>1 DEF LinkInv, LastCallTells, LossFindsNoAttempts, connection
  <2>2. CASE calls # <<>>
    BY <1>1, <1>2, <1>3, <2>2 DEF LinkInv, LossFindsNoAttempts, connection
  <2> QED BY <2>1, <2>2
<1>9. LostRequestIsForgotten'
  BY <1>1, <1>2, <1>3 DEF LinkInv, LostRequestIsForgotten, LossPosted, request
<1>10. (pending => ~isConnected)' /\ BackoffNeverGrows'
  BY <1>1 DEF LinkInv, BackoffNeverGrows, connection
<1> QED BY <1>4, <1>5, <1>7, <1>8, <1>9, <1>10 DEF LinkInv

(* A request finds the client down only while the loss is still posted.    *)
LEMMA RequestFindsLoss ==
  ASSUME LinkInv, isConnected, client = "down"
  PROVE  calls # <<>> /\ calls[Len(calls)].what = "lost" /\ LossPosted
<1>1. calls # <<>> /\ calls[Len(calls)].what = "lost"
  BY DEF LinkInv, LastCallTells
<1>2. Len(calls) \in DOMAIN calls
  BY <1>1 DEF LinkInv, MqttTypeOK
<1> QED BY <1>1, <1>2 DEF LossPosted

LEMMA OperationsKeep ==
  ASSUME LinkInv,
         \/ \E vin \in Vins : OpenSession(vin)
         \/ OnReconnectTimer \/ WatchdogFires
         \/ ConnectVideo \/ RequestStreamStop \/ RequestGrowsOld
  PROVE  LinkInv'
<1>0. MqttTypeOK /\ (pending => ~isConnected)
  BY DEF LinkInv
<1>1. ASSUME NEW vin \in Vins, OpenSession(vin) PROVE LinkInv'
  <2>1. MqttTypeOK'
    BY <1>0, <1>1, ConnectTypes DEF MqttTypeOK, OpenSession, request
  <2> QED BY <1>0, <1>1, <2>1, ConnectStep DEF OpenSession, request
<1>2. CASE OnReconnectTimer
  <2>1. MqttTypeOK'
    BY <1>0, <1>2, ConnectTypes DEF MqttTypeOK, OnReconnectTimer, request
  <2> QED BY <1>0, <1>2, <2>1, ConnectStep DEF OnReconnectTimer, request
<1>3. CASE WatchdogFires
  <2>1. MqttTypeOK'
    BY <1>0, <1>3 DEF MqttTypeOK, WatchdogFires, request
  <2> QED
    BY <1>0, <1>3, <2>1, SameCallsStep
       DEF WatchdogFires, request, LinkInv, LostRequestIsForgotten, LossPosted
<1>4. CASE ConnectVideo /\ isConnected
  <2>1. /\ RequestStreamStart
        /\ UNCHANGED <<connection, currentVin, client, calls, pending>>
    BY <1>4 DEF ConnectVideo, connection
  <2>2. MqttTypeOK'
    BY <1>0, <2>1 DEF MqttTypeOK, RequestStreamStart, connection, request
  <2>3. LostRequestIsForgotten'
    <3>1. CASE UNCHANGED request
      BY <2>1, <3>1 DEF LinkInv, LostRequestIsForgotten, LossPosted, request
    <3>2. CASE found' = client
      BY <1>4, <2>1, <3>2, RequestFindsLoss DEF LostRequestIsForgotten, LossPosted
    <3> QED BY <2>1, <3>1, <3>2 DEF RequestStreamStart
  <2> QED BY <1>0, <2>1, <2>2, <2>3, SameCallsStep DEF connection
<1>5. CASE ConnectVideo /\ ~isConnected
  <2>1. /\ ConnectToBroker /\ pending' = TRUE
        /\ UNCHANGED <<isConnected, timer, reconnectScheduled, reconnectAttempts,
                       currentVin, request>>
    BY <1>5 DEF ConnectVideo
  <2>2. MqttTypeOK'
    BY <1>0, <1>5, <2>1, ConnectTypes DEF MqttTypeOK, request
  <2> QED BY <1>5, <2>1, <2>2, ConnectStep DEF request
<1>6. CASE RequestStreamStop
  <2>1. MqttTypeOK'
    BY <1>0, <1>6 DEF MqttTypeOK, RequestStreamStop, connection
  <2> QED
    BY <1>0, <1>6, <2>1, SameCallsStep
       DEF RequestStreamStop, connection, LostRequestIsForgotten
<1>7. CASE RequestGrowsOld
  <2>1. MqttTypeOK'
    BY <1>0, <1>7 DEF MqttTypeOK, RequestGrowsOld, connection
  <2> QED
    BY <1>0, <1>7, <2>1, SameCallsStep
       DEF RequestGrowsOld, connection, LinkInv, LostRequestIsForgotten, LossPosted
<1> QED BY <1>1, <1>2, <1>3, <1>4, <1>5, <1>6, <1>7

-----------------------------------------------------------------------------
(* The posted calls, one by one.                                           *)

LEMMA CallKeeps ==
  ASSUME LinkInv, NEW what \in {"connected", "lost"}, NextCallIs(what)
  PROVE  /\ LossAfterConnection'
         /\ client' = client /\ calls' # <<>> =>
              /\ client = "up" =>
                   calls'[Len(calls')] = [what |-> "connected", current |-> TRUE]
              /\ client = "down" => calls'[Len(calls')].what = "lost"
         /\ calls' = <<>> /\ client = "up" => what = "connected"
         /\ calls' = <<>> /\ client = "down" => what = "lost"
         /\ what = "lost" => reconnectAttempts = 0
         /\ what = "lost" /\ calls' # <<>> => calls'[1].what = "connected"
<1>1. calls \in Seq(Calls) /\ Len(calls) \in Nat
  BY DEF LinkInv, MqttTypeOK
<1>2. /\ Len(calls) > 0 /\ calls[1].what = what
      /\ calls' \in Seq(Calls) /\ Len(calls') = Len(calls) - 1
      /\ calls' = <<>> <=> Len(calls) = 1
      /\ \A i \in 1 .. Len(calls) - 1 : calls'[i] = calls[i + 1]
  BY <1>1, CallMeans
<1>3. LossAfterConnection'
  <2> SUFFICES ASSUME NEW i \in 2 .. Len(calls) - 1, calls'[i].what = "lost"
               PROVE  calls'[i - 1].what = "connected"
    BY <1>2 DEF LossAfterConnection
  <2>1. calls'[i] = calls[i + 1] /\ calls'[i - 1] = calls[i]
    BY <1>1, <1>2
  <2>2. i + 1 \in 2 .. Len(calls) /\ (i + 1) - 1 = i
    BY <1>1
  <2> QED BY <2>1, <2>2 DEF LinkInv, LossAfterConnection
<1>4. calls' # <<>> => calls'[Len(calls')] = calls[Len(calls)]
  BY <1>1, <1>2
<1>5. calls # <<>>
  BY <1>2
<1>6. calls' = <<>> => calls[Len(calls)].what = what
  BY <1>2
<1>7. what = "lost" => reconnectAttempts = 0
  BY <1>2, <1>5 DEF LinkInv, LossFindsNoAttempts
<1>8. what = "lost" /\ calls' # <<>> => calls'[1].what = "connected"
  <2>1. calls' # <<>> => 2 \in 2 .. Len(calls) /\ calls'[1] = calls[2]
    BY <1>1, <1>2
  <2>2. calls' # <<>> => calls[2] \in Calls
    BY <1>1, <2>1
  <2>3. calls' # <<>> /\ calls[2].what = "lost" => calls[1].what = "connected"
    BY <2>1 DEF LinkInv, LossAfterConnection
  <2> QED BY <1>2, <2>1, <2>2, <2>3 DEF Calls
<1> QED BY <1>3, <1>4, <1>5, <1>6, <1>7, <1>8 DEF LinkInv, LastCallTells

LEMMA OnConnectedKeeps ==
  ASSUME LinkInv, OnConnected
  PROVE  LinkInv'
<1>1. /\ NextCallIs("connected") /\ isConnected' = TRUE
      /\ watched' = FALSE /\ inFlight' = FALSE
      /\ reconnectAttempts' = 0 /\ reconnectScheduled' = FALSE
      /\ UNCHANGED <<timer, currentVin, client>>
      /\ IF ~isConnected /\ pending
           THEN RequestStreamStart /\ pending' = FALSE
           ELSE UNCHANGED <<request, pending>>
  BY DEF OnConnected
<1>2. MqttTypeOK /\ calls \in Seq(Calls) /\ Len(calls) \in Nat
  BY DEF LinkInv, MqttTypeOK
<1>3. /\ Len(calls) > 0 /\ calls[1].what = "connected"
      /\ calls' \in Seq(Calls) /\ Len(calls') = Len(calls) - 1
      /\ calls' = <<>> <=> Len(calls) = 1
      /\ \A i \in 1 .. Len(calls) - 1 : calls'[i] = calls[i + 1]
  BY <1>1, <1>2, CallMeans
<1>4. /\ LossAfterConnection'
      /\ calls' # <<>> =>
           /\ client = "up" => calls'[Len(calls')] = [what |-> "connected", current |-> TRUE]
           /\ client = "down" => calls'[Len(calls')].what = "lost"
      /\ calls' = <<>> => client # "down"
  BY <1>1, CallKeeps
<1>5. pending' = FALSE
  BY <1>1 DEF LinkInv, MqttTypeOK
<1>6. /\ requestedVin' \in Vins \cup {None} /\ recent' \in BOOLEAN
      /\ found' \in {"none", "connecting", "up", "down"}
  BY <1>1, <1>2 DEF RequestStreamStart, request, MqttTypeOK
<1>7. Len(calls') <= MaxCalls
  BY <1>2, <1>3, MqttAssumption DEF MqttTypeOK
<1>8. MqttTypeOK'
  <2>1. reconnectAttempts' \in 0 .. MaxReconnectAttempts
    BY <1>1, MqttAssumption
  <2> QED BY <1>1, <1>2, <1>3, <1>5, <1>6, <1>7, <2>1 DEF MqttTypeOK
<1>9. LastCallTells' /\ LossFindsNoAttempts' /\ BackoffNeverGrows'
  BY <1>1, <1>4 DEF LastCallTells, LossFindsNoAttempts, BackoffNeverGrows
<1>10. LossPosted => LossPosted'
  <2> SUFFICES ASSUME NEW i \in 1 .. Len(calls), calls[i].what = "lost" PROVE LossPosted'
    BY <1>2 DEF LossPosted
  <2>1. i # 1
    BY <1>3
  <2>2. i - 1 \in 1 .. Len(calls) - 1 /\ (i - 1) + 1 = i
    BY <1>2, <2>1
  <2>3. calls'[i - 1] = calls[i] /\ i - 1 \in DOMAIN calls'
    BY <1>3, <2>2
  <2> QED BY <2>3 DEF LossPosted
<1>11. LostRequestIsForgotten'
  <2>1. CASE UNCHANGED request
    BY <1>10, <2>1 DEF LinkInv, LostRequestIsForgotten, request
  <2>2. CASE found' = client
    <3> SUFFICES ASSUME client = "down" PROVE LossPosted'
      BY <2>2 DEF LostRequestIsForgotten
    <3>1. calls' # <<>> /\ calls'[Len(calls')].what = "lost"
      BY <1>4
    <3>2. Len(calls') \in DOMAIN calls'
      BY <1>3, <3>1
    <3> QED BY <3>1, <3>2 DEF LossPosted
  <2> QED BY <1>1, <2>1, <2>2 DEF RequestStreamStart, request
<1> QED BY <1>4, <1>5, <1>8, <1>9, <1>11 DEF LinkInv

LEMMA OnDisconnectedKeeps ==
  ASSUME LinkInv, OnDisconnected
  PROVE  LinkInv'
<1>1. /\ NextCallIs("lost") /\ isConnected' = FALSE /\ inFlight' = FALSE
      /\ requestedVin' = None /\ ScheduleReconnect
      /\ UNCHANGED <<watched, currentVin, recent, found, pending, client>>
  BY DEF OnDisconnected
<1>2. MqttTypeOK /\ calls \in Seq(Calls) /\ Len(calls) \in Nat
  BY DEF LinkInv, MqttTypeOK
<1>3. /\ calls' \in Seq(Calls) /\ Len(calls') = Len(calls) - 1
  BY <1>1, <1>2, CallMeans
<1>4. /\ LossAfterConnection'
      /\ calls' # <<>> =>
           /\ client = "up" => calls'[Len(calls')] = [what |-> "connected", current |-> TRUE]
           /\ client = "down" => calls'[Len(calls')].what = "lost"
           /\ calls'[1].what = "connected"
      /\ calls' = <<>> => client # "up"
      /\ reconnectAttempts = 0
  BY <1>1, CallKeeps
<1>5. /\ reconnectAttempts' \in {0, 1}
      /\ timer' \in BOOLEAN /\ reconnectScheduled' \in BOOLEAN
      /\ reconnectScheduled' => timer'
  BY <1>1, <1>2, <1>4 DEF ScheduleReconnect, MqttTypeOK
<1>6. Len(calls') <= MaxCalls
  BY <1>2, <1>3, MqttAssumption DEF MqttTypeOK
<1>7. MqttTypeOK'
  <2>1. reconnectAttempts' \in 0 .. MaxReconnectAttempts
    BY <1>5, MqttAssumption
  <2> QED BY <1>1, <1>2, <1>3, <1>5, <1>6, <2>1 DEF MqttTypeOK
<1>8. LastCallTells' /\ LossFindsNoAttempts' /\ BackoffNeverGrows'
  BY <1>1, <1>4, <1>5 DEF LastCallTells, LossFindsNoAttempts, BackoffNeverGrows
<1>9. LostRequestIsForgotten' /\ (pending => ~isConnected)'
  BY <1>1 DEF LostRequestIsForgotten
<1> QED BY <1>4, <1>7, <1>8, <1>9 DEF LinkInv

-----------------------------------------------------------------------------
LEMMA LinkStep == LinkInv /\ [MqttNext]_vars => LinkInv'
<1> SUFFICES ASSUME LinkInv, [MqttNext]_vars PROVE LinkInv'
  OBVIOUS
<1>1. CASE MqttNext
  BY <1>1, LibraryKeeps, OperationsKeep, OnConnectedKeeps, OnDisconnectedKeeps
     DEF MqttNext, OnCall
<1>2. CASE UNCHANGED vars
  BY <1>2 DEF vars, LinkInv, MqttTypeOK, LossAfterConnection, LastCallTells,
              LossFindsNoAttempts, BackoffNeverGrows, LostRequestIsForgotten, LossPosted
<1> QED BY <1>1, <1>2

LEMMA AlwaysLink == MqttSpec => []LinkInv
<1> QED BY LinkInit, LinkStep, PTL DEF MqttSpec

(* Every variable of the controller keeps its type; in particular an       *)
(* attempt in flight, or a UI that waits for one, has its watchdog armed   *)
(* (mqttcontroller.cpp:201), and a scheduled reconnection its timer.       *)
THEOREM LinkTypes == MqttSpec => []MqttTypeOK
<1>1. LinkInv => MqttTypeOK
  BY DEF LinkInv
<1> QED BY <1>1, AlwaysLink, PTL

(* While the library's client is up, the UI thread holds itself to be      *)
(* connected or has the news of this very client among its posted calls    *)
(* (mqttcontroller.cpp:232), although those do not say whose they are.     *)
THEOREM UpBecomesKnown == MqttSpec => []UpIsKnown
<1>1. LinkInv => UpIsKnown
  <2> SUFFICES ASSUME LinkInv, client = "up", ~isConnected
               PROVE  \E i \in DOMAIN calls :
                        calls[i] = [what |-> "connected", current |-> TRUE]
    BY DEF UpIsKnown
  <2>1. calls # <<>> /\ calls[Len(calls)] = [what |-> "connected", current |-> TRUE]
    BY DEF LinkInv, LastCallTells
  <2>2. Len(calls) \in DOMAIN calls
    BY <2>1 DEF LinkInv, MqttTypeOK
  <2> QED BY <2>1, <2>2
<1> QED BY <1>1, AlwaysLink, PTL

(* A stream request that the library swallowed is remembered only as long  *)
(* as the news of the loss that swallowed it is still to come: then        *)
(* onDisconnected (mqttcontroller.cpp) lifts it.                           *)
THEOREM SwallowedIsForgotten == MqttSpec => []LostRequestIsForgotten
<1>1. LinkInv => LostRequestIsForgotten
  BY DEF LinkInv
<1> QED BY <1>1, AlwaysLink, PTL

(* The reconnection delay of scheduleReconnect stays at its first value,   *)
(* whatever the limit of attempts.                                         *)
THEOREM BackoffStaysFirst == MqttSpec => []BackoffNeverGrows
<1>1. LinkInv => BackoffNeverGrows
  BY DEF LinkInv
<1> QED BY <1>1, AlwaysLink, PTL
=============================================================================
