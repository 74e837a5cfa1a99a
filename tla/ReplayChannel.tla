--------------------------- MODULE ReplayChannel ---------------------------
(***************************************************************************)
(* The numbered driving commands on their way from the operator's client   *)
(* to the vehicle, and what the replay check of the vehicle makes of them. *)
(*                                                                         *)
(* Two threads of the client number commands from one counter, the control *)
(* worker and the UI thread, and each stamps a command by the client's     *)
(* clock some time after it took the number.  A number that is taken may   *)
(* never be sent: the worker passes only ten commands a second on to the   *)
(* broker, and none without a session.                                     *)
(*                                                                         *)
(* In between lies a channel that keeps nothing in order: any command sent *)
(* so far may arrive now, for the first time or again.                     *)
(***************************************************************************)
EXTENDS ReplayFilter

CONSTANTS
  Threads,     \* of the client that number commands: the worker and the UI
  NoNumber,    \* a thread has taken no number yet
  Lead,        \* how far the client's clock is ahead of the vehicle's
  MaxTime,     \* bound: the vehicle's clock
  MaxNumber,   \* bound: the last number a thread takes for a command
  MaxRestarts  \* bound: restarts of the client

ASSUME ChannelAssumption ==
  /\ NoNumber \notin Nat
  /\ Lead \in Int
  /\ MaxTime \in Nat /\ MaxTime < -NoStamp - Distance(Lead)
  /\ MaxNumber \in Nat
  /\ MaxRestarts \in Nat

VARIABLES
  now,        \* the vehicle's clock
  client,     \* restarts of the client so far
  nextSeq,    \* MqttController::m_seq
  held,       \* the number each thread has taken last, until it is stamped
  sent,       \* the commands sent so far
  lastSeq,    \* VehicleController::m_lastSeq
  lastStamp,  \* VehicleController::m_lastCmdTimestamp
  stamped,    \* m_lastCmdTimestamp != 0
  accepted    \* the numbered commands this vehicle process has executed

clientVars  == <<client, nextSeq, held>>
vehicleVars == <<lastSeq, lastStamp, stamped, accepted>>
channelVars == <<now, client, nextSeq, held, sent, lastSeq, lastStamp, stamped, accepted>>

Numbered == [client : Nat, seq : Nat, stamp : Int]

ChannelTypeOK ==
  /\ now \in Nat
  /\ client \in Nat
  /\ nextSeq \in Nat
  /\ held \in [Threads -> Nat \cup {NoNumber}]
  /\ sent \subseteq Numbered
  /\ lastSeq \in Nat
  /\ lastStamp \in Int
  /\ stamped \in BOOLEAN
  /\ accepted \subseteq Numbered

ChannelInit ==
  /\ now = 0
  /\ client = 0
  /\ nextSeq = 0
  /\ held = [t \in Threads |-> NoNumber]
  /\ sent = {}
  /\ lastSeq = 0 /\ lastStamp = 0 /\ stamped = FALSE
  /\ accepted = {}

LastAge == IF stamped THEN now - lastStamp ELSE NoStamp

(* The filter would let the vehicle execute this command now.              *)
Admissible(m) == Accepts(m.seq, now - m.stamp, lastSeq, LastAge)

-----------------------------------------------------------------------------
Tick ==
  /\ now < MaxTime
  /\ now' = now + 1
  /\ UNCHANGED <<clientVars, sent, vehicleVars>>

(* Mutant: the number before the counter's.                                *)
TakeNumber_OneLess(t) ==
  /\ nextSeq <= MaxNumber
  /\ nextSeq' = nextSeq + 1
  /\ held' = [held EXCEPT ![t] = nextSeq - 1]
  /\ UNCHANGED <<now, client, sent, vehicleVars>>

(* fetch_add, so that no two commands share a number; the first is zero.   *)
(* The number taken before is lost if its command was not sent.            *)
TakeNumber(t) ==
  /\ nextSeq <= MaxNumber
  /\ nextSeq' = nextSeq + 1
  /\ held' = [held EXCEPT ![t] = nextSeq]
  /\ UNCHANGED <<now, client, sent, vehicleVars>>

(* sendControlCommand takes one more number, for the case that the command *)
(* brings none, and stamps the command: the other thread may have numbered *)
(* and stamped any number of commands since this one took its number.      *)
StampAndSend(t) ==
  /\ held[t] # NoNumber
  /\ sent' = sent \cup {[client |-> client, seq |-> held[t], stamp |-> now + Lead]}
  /\ held' = [held EXCEPT ![t] = NoNumber]
  /\ nextSeq' = nextSeq + 1
  /\ UNCHANGED <<now, client, vehicleVars>>

ClientRestart ==
  /\ client < MaxRestarts
  /\ client' = client + 1
  /\ nextSeq' = 0
  /\ held' = [t \in Threads |-> NoNumber]
  /\ UNCHANGED <<now, sent, vehicleVars>>

Accept(m) ==
  /\ Admissible(m)
  /\ IF m.seq = 0
       THEN UNCHANGED vehicleVars
       ELSE /\ lastSeq' = m.seq
            /\ lastStamp' = m.stamp
            /\ stamped' = TRUE
            /\ accepted' = accepted \cup {m}
  /\ UNCHANGED <<now, clientVars, sent>>

Reject(m) ==
  /\ ~Admissible(m)
  /\ lastSeq' = MarkAfterReject(m.seq, lastSeq, LastAge)
  /\ UNCHANGED <<now, clientVars, sent, lastStamp, stamped, accepted>>

(* The vehicle process starts again and remembers no command.              *)
VehicleRestart ==
  /\ lastSeq' = 0 /\ lastStamp' = 0 /\ stamped' = FALSE
  /\ accepted' = {}
  /\ UNCHANGED <<now, clientVars, sent>>

ChannelNext ==
  \/ Tick
  \/ \E t \in Threads : TakeNumber(t) \/ StampAndSend(t)
  \/ ClientRestart
  \/ \E m \in sent : Accept(m) \/ Reject(m)
  \/ VehicleRestart

ChannelSpec == ChannelInit /\ [][ChannelNext]_channelVars

-----------------------------------------------------------------------------
(* Properties.                                                             *)

(* The numbers and the stamps of two executed commands disagree: one that  *)
(* was numbered after m was stamped before it, by the other thread or by   *)
(* the client before a restart.                                            *)
Inverted(m) == \E n \in accepted : n.seq > m.seq /\ n.stamp < m.stamp

(* project_spec.md:335, "seq <= last_seq: drop", and "protection against   *)
(* replay" (vehicle_controller.cpp:123): a copy of an executed command is  *)
(* not let through again, however the channel orders, delays and repeats   *)
(* the commands, although a rejected command can lower the mark the next   *)
(* one is compared with, and through restarts of the client.  The one      *)
(* exception is a command whose number and stamp disagree with another's:  *)
(* the older stamp is then the last, and leaves the window before this one.*)
AtMostOnceUnlessInverted == \A m \in accepted : Admissible(m) => Inverted(m)

(* "Checking the order" (the same comment): no command is executed after   *)
(* one that was numbered no earlier and stamped no earlier, apart from the *)
(* same exception.                                                         *)
InOrderUnlessInverted ==
  [][\A m \in sent, n \in accepted :
       m.seq > 0 /\ Accept(m) =>
         n.seq < m.seq \/ n.stamp < m.stamp \/ Inverted(n)]_channelVars

(* "Allow a reset, as after a restart" (vehicle_controller.cpp:130): once  *)
(* the last command of the clients before it has left the window, a client *)
(* that numbers from zero again is heard, whatever delayed commands of the *)
(* earlier clients raised the mark in between.                             *)
RestartedClientIsHeard ==
  \A m \in sent :
    /\ m.client = client
    /\ ~Expired(now - m.stamp)
    /\ \A n \in accepted : n.client = client => n.seq < m.seq
    /\ \A n \in sent : n.client < client => now - n.stamp > StampWindow
    => Admissible(m)

=============================================================================
