------------------------------ MODULE MqttLink ------------------------------
(***************************************************************************)
(* The client's connection to the broker: MqttController, built with Paho, *)
(* and the button that connects the video.                                 *)
(*                                                                         *)
(* Everything here runs on the UI thread but the library, which connects,  *)
(* loses the connection and connects again on threads of its own and posts *)
(* a call of onConnected or onDisconnected to the UI thread each time.  A  *)
(* posted call does not say which connection it is about, and it survives  *)
(* the library's client that posted it.                                    *)
(*                                                                         *)
(* Time is left out: the watchdog (15 s), the reconnection delay (1 to     *)
(* 30 s) and the 13 s of a stream request pass whenever they may.          *)
(***************************************************************************)
EXTENDS Naturals, Sequences

CONSTANTS
  Vins,
  MaxReconnectAttempts,  \* 10 in the code
  MaxCalls,              \* bound: how far the library runs ahead of the UI
  None

VARIABLES
  isConnected,           \* m_isConnected
  inFlight,              \* m_brokerConnectInFlight
  watched,               \* the watchdog of the current generation is armed
                         \* (those of older ones do nothing when they fire)
  timer,                 \* m_reconnectTimer is running
  reconnectScheduled,
  reconnectAttempts,
  currentVin,
  requestedVin,          \* m_startStreamRequestedVin
  recent,                \* less than 13 s since the last request
  pending,               \* the UI waits for the connection to ask for video
  client,                \* the library's client: its view of the connection
  calls,                 \* the calls posted (current: by the present client)
  found                  \* what the last request found client to be: it was
                         \* published only by one that is up

connection == <<isConnected, inFlight, watched, timer, reconnectScheduled,
                reconnectAttempts>>
request == <<requestedVin, recent, found>>
vars == <<isConnected, inFlight, watched, timer, reconnectScheduled,
          reconnectAttempts, currentVin, requestedVin, recent, pending, client,
          calls, found>>

ASSUME MqttAssumption ==
  /\ MaxReconnectAttempts \in Nat \ {0} /\ MaxCalls \in Nat
  /\ None \notin Vins

Calls == [what : {"connected", "lost"}, current : BOOLEAN]

MqttTypeOK ==
  /\ isConnected \in BOOLEAN /\ inFlight \in BOOLEAN /\ watched \in BOOLEAN
  /\ timer \in BOOLEAN /\ reconnectScheduled \in BOOLEAN
  /\ reconnectAttempts \in 0 .. MaxReconnectAttempts
  /\ currentVin \in Vins \cup {None} /\ requestedVin \in Vins \cup {None}
  /\ recent \in BOOLEAN /\ pending \in BOOLEAN
  /\ {client, found} \subseteq {"none", "connecting", "up", "down"}
  /\ calls \in Seq(Calls)
  /\ Len(calls) <= MaxCalls
  /\ inFlight \/ pending => watched
  /\ reconnectScheduled => timer

MqttInit ==
  /\ isConnected = FALSE /\ inFlight = FALSE /\ watched = FALSE
  /\ timer = FALSE /\ reconnectScheduled = FALSE /\ reconnectAttempts = 0
  /\ currentVin = None /\ requestedVin = None
  /\ recent = FALSE /\ pending = FALSE
  /\ client = "none" /\ calls = <<>>
  /\ found = "none"

-----------------------------------------------------------------------------
(* The library.                                                            *)

Post(what) == calls' = Append(calls, [what |-> what, current |-> TRUE])

(* The first connection, or one the library makes by itself after a loss.  *)
BrokerAccepts ==
  /\ client \in {"connecting", "down"}
  /\ Len(calls) < MaxCalls
  /\ client' = "up" /\ Post("connected")
  /\ UNCHANGED <<connection, currentVin, request, pending>>

ConnectionLost ==
  /\ client = "up"
  /\ Len(calls) < MaxCalls
  /\ client' = "down" /\ Post("lost")
  /\ UNCHANGED <<connection, currentVin, request, pending>>

-----------------------------------------------------------------------------
(* connectToBroker: a new client of the library takes the place of the old *)
(* one, whose posted calls stay where they are.                            *)

Skipped == isConnected \/ inFlight

Attempt ==
  /\ inFlight' = TRUE /\ watched' = TRUE
  /\ client' = "connecting"
  /\ calls' = [i \in DOMAIN calls |-> [calls[i] EXCEPT !.current = FALSE]]

ConnectToBroker ==
  \/ Skipped /\ UNCHANGED <<inFlight, watched, client, calls>>
  \/ ~Skipped /\ Attempt

(* A session has begun, or its vehicle changes.                            *)
OpenSession(vin) ==
  /\ currentVin' = vin
  /\ ConnectToBroker
  /\ UNCHANGED <<isConnected, timer, reconnectScheduled, reconnectAttempts, request,
                 pending>>

(* scheduleReconnect: at most one at a time, and a limited number in a row.*)
ScheduleReconnect ==
  LET go == ~reconnectScheduled /\ reconnectAttempts < MaxReconnectAttempts IN
  /\ reconnectScheduled' = (reconnectScheduled \/ go)
  /\ timer' = (timer \/ go)
  /\ reconnectAttempts' = reconnectAttempts + (IF go THEN 1 ELSE 0)

(* Mutant: the mark of the last schedule is never taken away.              *)
OnReconnectTimer_KeepsMark ==
  /\ timer /\ timer' = FALSE
  /\ ConnectToBroker
  /\ UNCHANGED <<isConnected, reconnectScheduled, reconnectAttempts,
                 currentVin, request, pending>>

OnReconnectTimer ==
  /\ timer /\ timer' = FALSE
  /\ reconnectScheduled' = FALSE
  /\ ConnectToBroker
  /\ UNCHANGED <<isConnected, reconnectAttempts, currentVin, request, pending>>

(* Mutant: the timeout is not reported to the UI.                          *)
WatchdogFires_Quietly ==
  /\ watched /\ watched' = FALSE
  /\ inFlight' = FALSE
  /\ UNCHANGED <<isConnected, timer, reconnectScheduled, reconnectAttempts,
                 currentVin, request, pending, client, calls>>

(* The attempt is given up; the UI stops waiting for it, and nothing is    *)
(* scheduled.  The library's client is left alone and may still connect.   *)
WatchdogFires ==
  /\ watched /\ watched' = FALSE
  /\ inFlight' = FALSE
  /\ pending' = (pending /\ isConnected)
  /\ UNCHANGED <<isConnected, timer, reconnectScheduled, reconnectAttempts,
                 currentVin, request, client, calls>>

-----------------------------------------------------------------------------
(* Stream requests.                                                        *)

(* One for the same vehicle is held back for 13 s.  It is remembered as    *)
(* made even if the library finds itself without a connection.             *)
HeldBack == requestedVin = currentVin /\ recent

RequestStreamStart ==
  IF currentVin = None \/ HeldBack
    THEN UNCHANGED request
    ELSE requestedVin' = currentVin /\ recent' = TRUE
           /\ found' = client

(* The connect button: ask at once, or connect first.                      *)
ConnectVideo ==
  /\ currentVin # None
  /\ \/ /\ isConnected
        /\ RequestStreamStart
        /\ UNCHANGED <<inFlight, watched, client, calls, pending>>
     \/ /\ ~isConnected
        /\ pending' = TRUE
        /\ ConnectToBroker
        /\ UNCHANGED request
  /\ UNCHANGED <<isConnected, timer, reconnectScheduled, reconnectAttempts,
                 currentVin>>

RequestStreamStop ==
  /\ isConnected /\ currentVin # None
  /\ requestedVin' = None
  /\ UNCHANGED <<connection, currentVin, recent, found, pending, client,
                 calls>>

RequestGrowsOld ==
  /\ recent /\ recent' = FALSE
  /\ UNCHANGED <<connection, currentVin, requestedVin, found, pending,
                 client, calls>>

-----------------------------------------------------------------------------
(* The posted calls.                                                       *)

NextCallIs(what) ==
  /\ calls # <<>> /\ Head(calls).what = what
  /\ calls' = Tail(calls)

(* Mutant: only a connection that was asked for is taken note of.          *)
OnConnected_OnlyInFlight ==
  /\ NextCallIs("connected")
  /\ isConnected' = (isConnected \/ inFlight)
  /\ watched' = FALSE /\ inFlight' = FALSE
  /\ reconnectAttempts' = 0 /\ reconnectScheduled' = FALSE
  /\ IF ~isConnected /\ isConnected' /\ pending
       THEN RequestStreamStart /\ pending' = FALSE
       ELSE UNCHANGED <<request, pending>>
  /\ UNCHANGED <<timer, currentVin, client>>

(* Mutant: the count of reconnections goes on.                             *)
OnConnected_CountsOn ==
  /\ NextCallIs("connected")
  /\ isConnected' = TRUE
  /\ watched' = FALSE /\ inFlight' = FALSE
  /\ reconnectScheduled' = FALSE
  /\ IF ~isConnected /\ pending
       THEN RequestStreamStart /\ pending' = FALSE
       ELSE UNCHANGED <<request, pending>>
  /\ UNCHANGED <<timer, reconnectAttempts, currentVin, client>>

(* The timer of a scheduled reconnection is left running.                  *)
OnConnected ==
  /\ NextCallIs("connected")
  /\ isConnected' = TRUE
  /\ watched' = FALSE /\ inFlight' = FALSE
  /\ reconnectAttempts' = 0 /\ reconnectScheduled' = FALSE
  /\ IF ~isConnected /\ pending
       THEN RequestStreamStart /\ pending' = FALSE
       ELSE UNCHANGED <<request, pending>>
  /\ UNCHANGED <<timer, currentVin, client>>

(* Mutant: what was asked for on the lost connection is remembered.        *)
OnDisconnected_RemembersRequest ==
  /\ NextCallIs("lost")
  /\ isConnected' = FALSE /\ inFlight' = FALSE
  /\ ScheduleReconnect
  /\ UNCHANGED <<watched, currentVin, request, pending, client>>

(* The watchdog of an attempt under way stays armed.                       *)
OnDisconnected ==
  /\ NextCallIs("lost")
  /\ isConnected' = FALSE /\ inFlight' = FALSE
  /\ requestedVin' = None
  /\ ScheduleReconnect
  /\ UNCHANGED <<watched, currentVin, recent, found, pending, client>>

OnCall == OnConnected \/ OnDisconnected

MqttNext ==
  \/ BrokerAccepts \/ ConnectionLost
  \/ \E vin \in Vins : OpenSession(vin)
  \/ OnReconnectTimer \/ WatchdogFires
  \/ ConnectVideo \/ RequestStreamStop \/ RequestGrowsOld
  \/ OnCall

(* The UI thread's event loop runs, and its timers fire.                   *)
MqttFairness ==
  /\ WF_vars(OnCall) /\ WF_vars(OnReconnectTimer) /\ WF_vars(WatchdogFires)

MqttSpec == MqttInit /\ [][MqttNext]_vars /\ MqttFairness

-----------------------------------------------------------------------------
(* What the UI thread holds to be connected follows the library: while its *)
(* client is up, the UI thread knows or is about to, although calls of     *)
(* older clients come between.                                             *)
UpIsKnown ==
  client = "up" =>
    \/ isConnected
    \/ \E i \in DOMAIN calls : calls[i] = [what |-> "connected", current |-> TRUE]

LossPosted == \E i \in DOMAIN calls : calls[i].what = "lost"

(* A stream request that a lost connection swallowed does not hold the     *)
(* next ones back: the news of that loss is under way and lifts it.  While *)
(* a client is still connecting they are held back, for 13 seconds.        *)
LostRequestIsForgotten ==
  requestedVin # None /\ found = "down" => LossPosted

(* The back-off never gets anywhere: a reconnection that fails schedules no *)
(* other one, and the next loss comes after a connection that resets the   *)
(* count, so every reconnection is the first and waits 1 s.                *)
BackoffNeverGrows == reconnectAttempts <= 1

(* The UI does not wait for ever: it is connected, or told of the failure. *)
PendingEnds == pending ~> ~pending
=============================================================================
