------------------------------ MODULE VideoLink ------------------------------
(***************************************************************************)
(* The client's video: a WebRtcClient for each camera stream, and the      *)
(* WebRtcStreamManager that starts and stops them together.                *)
(*                                                                         *)
(* Both live on the UI thread.  The WebRTC library works on threads of its *)
(* own, and what it reports (the local offer, a change of state) is posted *)
(* to the UI thread without the connection it is about, so that a report   *)
(* may be handled when that connection has been replaced.                  *)
(*                                                                         *)
(* Time is left out: a timer that runs may fire.  The media itself, the    *)
(* text of offers and answers, and the status texts are left out too.      *)
(***************************************************************************)
EXTENDS Naturals, Sequences

CONSTANTS
  Streams,        \* the camera streams; four in the code
  MaxRetries,     \* attempts at a stream the server does not have yet: 12
  MaxReconnects,  \* attempts after a drop before the long rest: 5
  MaxPosts,       \* bound: how far the library runs ahead of the UI thread
  MaxLate         \* bound: single-shot retries pending at a time

VARIABLES
  link,        \* what the WebRtcClient of each stream holds
  polling,     \* m_zlmReadyTimer is running
  asked,       \* a poll of the media server is under way
  dispatched   \* m_streamsConnectedVin is set

vars == <<link, polling, asked, dispatched>>
manager == <<polling, asked, dispatched>>

ASSUME VideoAssumption ==
  {MaxRetries, MaxReconnects, MaxPosts, MaxLate} \subseteq Nat

Reports == {"Offer", "Connected", "Disconnected", "Failed", "Closed"}
Posts == [what : Reports, current : BOOLEAN]

(* pc: the peer connection.  "new" has no local offer yet, "answered" has  *)
(* been given the answer to its own offer and "mismatched" another one.    *)
PcStates == {"none", "new", "offered", "answered", "mismatched", "up", "down",
             "failed", "closed"}

Links ==
  [wanted : BOOLEAN,        \* the last word of the user
   manual : BOOLEAN,        \* m_manualDisconnect
   connecting : BOOLEAN,    \* m_connecting
   shown : BOOLEAN,         \* m_isConnected
   timer : {"off", "retry", "rest"},     \* m_reconnectTimer
   scheduled : BOOLEAN,     \* m_reconnectScheduled
   reconnects : 0 .. MaxReconnects,      \* m_reconnectCount
   resets : BOOLEAN,        \* the next time-out also resets reconnects
   retries : 0 .. MaxRetries,            \* m_retryCount
   late : 0 .. MaxLate,     \* single-shot timers of 3 s
   offerSent : BOOLEAN,     \* m_offerSent
   sdpCurrent : BOOLEAN,    \* m_localSdp is the offer of the present pc
   reply : {"none", "old", "current"},   \* m_currentReply, by its offer
   pc : PcStates,
   posts : Seq(Posts)]

VideoTypeOK ==
  /\ link \in [Streams -> Links]
  /\ {polling, asked, dispatched} \subseteq BOOLEAN
  /\ \A s \in Streams :
       /\ Len(link[s].posts) <= MaxPosts
       /\ link[s].scheduled => link[s].timer = "retry"
       /\ link[s].manual => link[s].timer = "off"

VideoInit ==
  /\ link = [s \in Streams |->
       [wanted |-> FALSE, manual |-> FALSE, connecting |-> FALSE,
        shown |-> FALSE, timer |-> "off", scheduled |-> FALSE,
        reconnects |-> 0, resets |-> FALSE, retries |-> 0, late |-> 0,
        offerSent |-> FALSE, sdpCurrent |-> FALSE, reply |-> "none",
        pc |-> "none", posts |-> <<>>]]
  /\ polling = FALSE /\ asked = FALSE /\ dispatched = FALSE

-----------------------------------------------------------------------------
(* What the methods of a WebRtcClient make of its state; a set of outcomes *)
(* where the library may or may not report.                                *)

Closing == [what |-> "Closed", current |-> FALSE]

(* What was posted or requested before is now about an old connection.     *)
Aged(l) ==
  [l EXCEPT !.posts = [i \in DOMAIN @ |-> [@[i] EXCEPT !.current = FALSE]],
            !.sdpCurrent = FALSE,
            !.reply = IF @ = "none" THEN "none" ELSE "old"]

(* teardownMediaPipeline: closing a connection may still post its Closed.  *)
Teardown(l) ==
  LET gone == [Aged(l) EXCEPT !.pc = "none"] IN
  {gone} \cup
    (IF l.pc \notin {"none", "closed"} /\ Len(l.posts) < MaxPosts
       THEN {[gone EXCEPT !.posts = Append(@, Closing)]} ELSE {})

(* A request under way and a single-shot retry are left alone.             *)
DoConnect(l) ==
  {[t EXCEPT !.offerSent = FALSE, !.shown = FALSE, !.pc = "new"] :
     t \in Teardown(l)}

(* Mutant: the user's disconnection is not marked as such.                 *)
Disconnect_NotManual(l) ==
  IF l.manual /\ ~l.shown /\ l.reply = "none"
    THEN {[l EXCEPT !.wanted = FALSE]}
    ELSE Teardown([l EXCEPT !.wanted = FALSE, !.shown = FALSE,
                     !.timer = "off", !.scheduled = FALSE, !.reconnects = 0,
                     !.reply = "none"])

Disconnect(l) ==
  IF l.manual /\ ~l.shown /\ l.reply = "none"
    THEN {[l EXCEPT !.wanted = FALSE]}
    ELSE Teardown([l EXCEPT !.wanted = FALSE, !.manual = TRUE, !.shown = FALSE,
                     !.timer = "off", !.scheduled = FALSE, !.reconnects = 0,
                     !.reply = "none"])

ConnectToStream(l) ==
  UNION {DoConnect([t EXCEPT !.wanted = TRUE, !.manual = FALSE,
                      !.connecting = TRUE, !.timer = "off",
                      !.scheduled = FALSE, !.reconnects = 0, !.retries = 0,
                      !.reply = "none"]) : t \in Teardown(l)}

(* Mutant: after the last attempt nothing is started.                      *)
ScheduleAutoReconnect_NoRest(l) ==
  IF l.manual \/ l.connecting \/ l.scheduled \/ l.reconnects = MaxReconnects
    THEN l
    ELSE [l EXCEPT !.scheduled = TRUE, !.timer = "retry", !.reconnects = @ + 1]

(* scheduleAutoReconnectIfNeeded: at the limit the timer is set to 60 s,   *)
(* after which the count starts again.                                     *)
ScheduleAutoReconnect(l) ==
  IF l.manual \/ l.connecting \/ l.scheduled THEN l
  ELSE IF l.reconnects = MaxReconnects
    THEN [l EXCEPT !.timer = "rest", !.resets = TRUE]
    ELSE [l EXCEPT !.scheduled = TRUE, !.timer = "retry", !.reconnects = @ + 1]

-----------------------------------------------------------------------------
(* The library.                                                            *)

Post(s, state, what) ==
  /\ Len(link[s].posts) < MaxPosts
  /\ link' = [link EXCEPT ![s].pc = state,
       ![s].posts = Append(@, [what |-> what, current |-> TRUE])]
  /\ UNCHANGED manager

(* The offer is stored by the library's thread, and sent by the UI thread. *)
OfferMade(s) ==
  /\ link[s].pc = "new"
  /\ Len(link[s].posts) < MaxPosts
  /\ link' = [link EXCEPT ![s].pc = "offered", ![s].sdpCurrent = TRUE,
       ![s].posts = Append(@, [what |-> "Offer", current |-> TRUE])]
  /\ UNCHANGED manager

PcUp(s) == link[s].pc \in {"answered", "down"} /\ Post(s, "up", "Connected")
PcDown(s) == link[s].pc = "up" /\ Post(s, "down", "Disconnected")
PcFails(s) ==
  link[s].pc \in {"answered", "mismatched", "down"} /\ Post(s, "failed", "Failed")
PcCloses(s) == link[s].pc \in {"up", "down"} /\ Post(s, "closed", "Closed")

Library(s) == OfferMade(s) \/ PcUp(s) \/ PcDown(s) \/ PcFails(s) \/ PcCloses(s)

-----------------------------------------------------------------------------
(* The posted reports.                                                     *)

Next1(s) == [link[s] EXCEPT !.posts = Tail(@)]
Reported(s, what) == link[s].posts # <<>> /\ Head(link[s].posts).what = what

(* sendOfferToServer: once for each doConnect, and whatever offer is       *)
(* stored by then.                                                         *)
SendOffer(s) ==
  /\ Reported(s, "Offer")
  /\ link' = [link EXCEPT ![s] =
       IF link[s].offerSent THEN Next1(s)
       ELSE [Next1(s) EXCEPT !.offerSent = TRUE,
              !.reply = IF link[s].sdpCurrent THEN "current" ELSE "old"]]
  /\ UNCHANGED manager

(* Mutant: a connection nobody wants any more is not shown.                *)
OnConnected_NotIfManual(s) ==
  /\ Reported(s, "Connected")
  /\ link' = [link EXCEPT ![s] =
       [Next1(s) EXCEPT !.scheduled = FALSE, !.connecting = FALSE,
          !.shown = ~link[s].manual, !.reconnects = 0]]
  /\ UNCHANGED manager

(* The mark of a scheduled reconnection goes, its timer keeps running.     *)
OnConnected(s) ==
  /\ Reported(s, "Connected")
  /\ link' = [link EXCEPT ![s] =
       [Next1(s) EXCEPT !.scheduled = FALSE, !.connecting = FALSE,
          !.shown = TRUE, !.reconnects = 0]]
  /\ UNCHANGED manager

OnDisconnected(s) ==
  /\ Reported(s, "Disconnected")
  /\ link' = [link EXCEPT ![s] = [Next1(s) EXCEPT !.shown = FALSE]]
  /\ UNCHANGED manager

OnFailedOrClosed(s) ==
  /\ Reported(s, "Failed") \/ Reported(s, "Closed")
  /\ link' = [link EXCEPT ![s] =
       ScheduleAutoReconnect([Next1(s) EXCEPT !.shown = FALSE])]
  /\ UNCHANGED manager

OnReport(s) ==
  SendOffer(s) \/ OnConnected(s) \/ OnDisconnected(s) \/ OnFailedOrClosed(s)

-----------------------------------------------------------------------------
(* The media server's answers, and the timers.                             *)

Answered(s) == link[s].reply # "none"
NoReply(s) == [link[s] EXCEPT !.reply = "none"]
Refused(s) == [NoReply(s) EXCEPT !.shown = FALSE]

(* An answer is given to the present connection, if there is one.          *)
AnswerSdp(s) ==
  /\ Answered(s)
  /\ link' = [link EXCEPT ![s] =
       [NoReply(s) EXCEPT !.retries = 0,
          !.pc = IF @ \notin {"new", "offered"} THEN @
                 ELSE IF link[s].reply = "current" THEN "answered"
                 ELSE "mismatched"]]
  /\ UNCHANGED manager

AnswerNoStream(s) ==
  /\ Answered(s)
  /\ IF link[s].retries = MaxRetries
       THEN link' = [link EXCEPT ![s] = [Refused(s) EXCEPT !.retries = 0]]
       ELSE /\ link[s].late < MaxLate
            /\ link' = [link EXCEPT ![s] =
                 [Refused(s) EXCEPT !.retries = @ + 1, !.late = @ + 1]]
  /\ UNCHANGED manager

(* An HTTP error, another error code, or a response without sense: nothing *)
(* is tried again.                                                         *)
AnswerFails(s) ==
  /\ Answered(s)
  /\ link' = [link EXCEPT ![s] = Refused(s)]
  /\ UNCHANGED manager

(* The single-shot retry looks at nothing but the stream's name.           *)
LateRetry(s) ==
  /\ link[s].late > 0
  /\ \E l \in DoConnect([link[s] EXCEPT !.late = @ - 1]) :
       link' = [link EXCEPT ![s] = l]
  /\ UNCHANGED manager

(* Mutant: the reconnection that fires stays marked as scheduled.          *)
TimerFires_KeepsMark(s) ==
  LET fired == [link[s] EXCEPT !.timer = "off"] IN
  /\ link[s].timer # "off"
  /\ \E l \in IF fired.manual THEN {fired} ELSE DoConnect(fired) :
       link' = [link EXCEPT ![s] = l]
  /\ UNCHANGED manager

TimerFires(s) ==
  LET fired == [link[s] EXCEPT !.timer = "off", !.scheduled = FALSE,
                  !.resets = FALSE,
                  !.reconnects = IF link[s].resets THEN 0 ELSE @] IN
  /\ link[s].timer # "off"
  /\ \E l \in IF fired.manual THEN {fired} ELSE DoConnect(fired) :
       link' = [link EXCEPT ![s] = l]
  /\ UNCHANGED manager

-----------------------------------------------------------------------------
(* The manager.                                                            *)

AnyShown == \E s \in Streams : link[s].shown

(* Every stream by itself, to one of the outcomes.                         *)
Each(Outcomes(_)) ==
  link' \in {f \in [Streams -> UNION {Outcomes(link[s]) : s \in Streams}] :
               \A s \in Streams : f[s] \in Outcomes(link[s])}

(* disconnectAll                                                           *)
DisconnectAll ==
  /\ Each(Disconnect)
  /\ polling' = FALSE /\ asked' = FALSE /\ dispatched' = FALSE

Restart(l) == UNION {ConnectToStream(d) : d \in Disconnect(l)}

(* connectFourStreams.  same: neither the server nor the vehicle changes.  *)
(* Streams that are up are then left alone; otherwise all of them are cut  *)
(* off, the polling with them, and started again.                          *)
Kept(same) == same /\ dispatched /\ AnyShown
Restarted(same) ==
  /\ ~Kept(same)
  /\ Each(Restart) /\ polling' = FALSE /\ asked' = FALSE /\ dispatched' = TRUE

(* A session is opened or another vehicle chosen: the streams are started  *)
(* at once, or when the media server has them all.                         *)
Watch == \E same \in BOOLEAN : Restarted(same) \/ (Kept(same) /\ UNCHANGED vars)
ScheduleWhenReady ==
  /\ polling' = TRUE /\ asked' = TRUE
  /\ UNCHANGED <<link, dispatched>>

PollAgain == polling /\ ~asked /\ asked' = TRUE /\ UNCHANGED <<link, polling, dispatched>>
PollNotReady == asked /\ asked' = FALSE /\ UNCHANGED <<link, polling, dispatched>>
PollReady ==
  /\ asked
  /\ \E same \in BOOLEAN :
       \/ Restarted(same)
       \/ Kept(same) /\ polling' = FALSE /\ asked' = FALSE /\ UNCHANGED <<link, dispatched>>

(* The deadline of the polling has come, or the vehicle reports its stream *)
(* as ready (setStreamingReady).                                           *)
StartAnyway ==
  /\ polling
  /\ \E same \in BOOLEAN :
       \/ Restarted(same)
       \/ Kept(same) /\ polling' = FALSE /\ UNCHANGED <<link, asked, dispatched>>

Room == \A s \in Streams : Len(link[s].posts) < MaxPosts

Manager ==
  \/ Room /\ (Watch \/ StartAnyway \/ PollReady)
  \/ Room /\ DisconnectAll
  \/ ScheduleWhenReady \/ PollAgain \/ PollNotReady

VideoNext ==
  \/ \E s \in Streams :
       \/ Library(s) \/ OnReport(s)
       \/ AnswerSdp(s) \/ AnswerNoStream(s) \/ AnswerFails(s)
       \/ LateRetry(s) \/ TimerFires(s)
  \/ Manager

(* The UI thread's event loop runs, and its timers fire.                   *)
VideoFairness ==
  \A s \in Streams : WF_vars(OnReport(s)) /\ WF_vars(TimerFires(s))

VideoSpec == VideoInit /\ [][VideoNext]_vars /\ VideoFairness

-----------------------------------------------------------------------------
(* A video that is up is shown as connected, or will be: no report about   *)
(* an older connection hides it.                                           *)
UpIsShown ==
  \A s \in Streams :
    link[s].pc = "up" =>
      \/ link[s].shown
      \/ \E i \in DOMAIN link[s].posts :
           link[s].posts[i] = [what |-> "Connected", current |-> TRUE]

(* Nothing but a single-shot retry opens a connection the user has closed: *)
(* no report and no timer of the old connection does.                      *)
OnlyLateRetryRevives ==
  [][\A s \in Streams :
       ~link[s].wanted /\ ~link'[s].wanted
         /\ link[s].pc = "none" /\ link'[s].pc # "none" => LateRetry(s)]_vars

(* A connection that was up once and is lost is tried again for as long as *)
(* the user wants it, through every rest.                                  *)
DropIsRetried ==
  \A s \in Streams :
    link[s].wanted /\ ~link[s].connecting /\ link[s].pc \in {"failed", "closed"}
      ~> link[s].pc \notin {"failed", "closed"}
=============================================================================
