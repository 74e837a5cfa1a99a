------------------------ MODULE ReplayChannelProofs ------------------------
(***************************************************************************)
(* The replay check keeps its promise for every window, every run of the   *)
(* clock, every channel, any number of numbering threads and any number of *)
(* restarts, as long as the client's clock is not ahead by more than the   *)
(* window.                                                                 *)
(***************************************************************************)
EXTENDS ReplayChannel, TLAPS

CloseClocks == Lead <= StampWindow

(* An executed command is out of the window for good, or inverted with     *)
(* another, or the mark and the last stamp are at least its own.  A lowered*)
(* mark takes a last stamp out of the window, and with it every stamp that *)
(* is no later.                                                            *)
Covered(m) ==
  \/ now - m.stamp > StampWindow
  \/ Inverted(m)
  \/ m.seq <= lastSeq /\ m.stamp <= lastStamp

MarkCovers ==
  /\ \A m \in sent : m.stamp <= now + Lead
  /\ accepted \subseteq sent
  /\ \A m \in accepted : stamped /\ m.seq > 0 /\ Covered(m)
  /\ stamped => lastStamp <= now + Lead

(* Clock readings stay clear of the zero that stands for no stamp.         *)
ClockInRange ==
  /\ now <= MaxTime
  /\ stamped => lastStamp >= Lead /\ lastStamp <= MaxTime + Lead
  /\ \A m \in sent : m.stamp >= Lead /\ m.stamp <= MaxTime + Lead

IInv == ChannelTypeOK /\ MarkCovers /\ ClockInRange

-----------------------------------------------------------------------------
(* A command whose stamp has left the window on the far side is refused.   *)
LEMMA OldIsRefused ==
  ASSUME NEW seq \in Nat, NEW age \in Int, NEW mark \in Nat, NEW lastAge \in Int,
         seq # 0, lastAge # NoStamp, age > StampWindow
  PROVE  ~Accepts(seq, age, mark, lastAge)
BY StampWindowAssumption DEF Accepts, OutOfWindow, Expired, Distance, NoStamp

(* While the last stamp is in the window, only a higher number is let      *)
(* through.                                                                *)
LEMMA LowIsRefused ==
  ASSUME NEW seq \in Nat, NEW age \in Int, NEW mark \in Nat, NEW lastAge \in Int,
         seq # 0, lastAge # NoStamp, Distance(lastAge) <= StampWindow, seq <= mark
  PROVE  ~Accepts(seq, age, mark, lastAge)
BY StampWindowAssumption DEF Accepts, Replayed, Expired, Distance, NoStamp

(* What is let through after a stamped command is in the window itself, and*)
(* above the mark unless the last stamp has left the window.               *)
LEMMA AcceptedMeans ==
  ASSUME NEW seq \in Nat, NEW age \in Int, NEW mark \in Nat, NEW lastAge \in Int,
         seq # 0, lastAge # NoStamp, Accepts(seq, age, mark, lastAge)
  PROVE  /\ age <= StampWindow /\ -age <= StampWindow
         /\ seq > mark \/ lastAge > StampWindow \/ -lastAge > StampWindow
BY StampWindowAssumption
   DEF Accepts, Replayed, OutOfWindow, Expired, Distance, NoStamp

LEMMA MarkLowers ==
  ASSUME NEW seq \in Nat, NEW mark \in Nat, NEW lastAge \in Int
  PROVE  /\ MarkAfterReject(seq, mark, lastAge) \in Nat
         /\ MarkAfterReject(seq, mark, lastAge) <= mark
         /\ MarkAfterReject(seq, mark, lastAge) # mark
              => lastAge # NoStamp /\ (lastAge > StampWindow \/ -lastAge > StampWindow)
BY StampWindowAssumption
   DEF MarkAfterReject, Replayed, Expired, Distance, NoStamp

-----------------------------------------------------------------------------
LEMMA InitHolds == ChannelInit => IInv
<1> SUFFICES ASSUME ChannelInit PROVE IInv
  OBVIOUS
<1>1. MaxTime \in Nat
  BY ChannelAssumption
<1>2. ChannelTypeOK
  <2>1. stamped \in BOOLEAN /\ held \in [Threads -> Nat \cup {NoNumber}]
    BY Zenon DEF ChannelInit
  <2> QED  BY <2>1 DEF ChannelInit, ChannelTypeOK
<1>3. MarkCovers /\ ClockInRange
  BY <1>1 DEF ChannelInit, MarkCovers, ClockInRange
<1> QED  BY <1>2, <1>3 DEF IInv

LEMMA AgesInRange ==
  ASSUME IInv, CloseClocks
  PROVE  /\ LastAge \in Int
         /\ stamped => LastAge = now - lastStamp /\ LastAge # NoStamp
                       /\ -LastAge <= StampWindow
         /\ \A m \in sent : /\ m \in Numbered /\ m.seq \in Nat /\ m.stamp \in Int
                            /\ now - m.stamp \in Int
<1>1. now \in Nat /\ lastStamp \in Int /\ StampWindow \in Nat /\ Lead \in Int
      /\ MaxTime \in Nat /\ Lead <= StampWindow
  BY ChannelAssumption, StampWindowAssumption DEF IInv, ChannelTypeOK, CloseClocks
<1>2. stamped => now - lastStamp > NoStamp /\ -(now - lastStamp) <= StampWindow
  BY <1>1, ChannelAssumption
     DEF IInv, ClockInRange, MarkCovers, Distance, NoStamp
<1>3. \A m \in sent : m \in Numbered /\ m.seq \in Nat /\ m.stamp \in Int
  BY DEF IInv, ChannelTypeOK, Numbered
<1> QED  BY <1>1, <1>2, <1>3 DEF LastAge, NoStamp

(* An executed command that is not inverted was numbered or stamped before *)
(* whatever is let through now, and unless it has left the window it was   *)
(* numbered before it and the last stamp is no earlier than its own.       *)
LEMMA AcceptedIsLater ==
  ASSUME IInv, CloseClocks, NEW m \in sent, m.seq # 0, Admissible(m),
         NEW n \in accepted, ~Inverted(n)
  PROVE  /\ n.seq < m.seq \/ n.stamp < m.stamp
         /\ \/ now - n.stamp > StampWindow
            \/ n.seq < m.seq /\ n.stamp <= lastStamp
<1>1. n \in sent /\ stamped /\ Covered(n)
  BY DEF IInv, MarkCovers
<1>2. /\ m.seq \in Nat /\ m.stamp \in Int /\ n.seq \in Nat /\ n.stamp \in Int
      /\ now \in Nat /\ lastSeq \in Nat /\ lastStamp \in Int /\ StampWindow \in Nat
      /\ now - m.stamp \in Int
  BY <1>1, AgesInRange, StampWindowAssumption DEF IInv, ChannelTypeOK
<1>3. LastAge \in Int /\ LastAge = now - lastStamp /\ LastAge # NoStamp
      /\ -LastAge <= StampWindow
  BY <1>1, AgesInRange
<1>4. /\ now - m.stamp <= StampWindow
      /\ m.seq > lastSeq \/ LastAge > StampWindow \/ -LastAge > StampWindow
  BY <1>2, <1>3, AcceptedMeans DEF Admissible
<1>5. \/ now - n.stamp > StampWindow
      \/ n.seq <= lastSeq /\ n.stamp <= lastStamp
  BY <1>1 DEF Covered
<1> QED  BY <1>2, <1>3, <1>4, <1>5

-----------------------------------------------------------------------------
(* Covering survives a step that executes no command and lowers the mark,  *)
(* if at all, only when the last stamp has left the window.                *)
LEMMA CoveredKeeps ==
  ASSUME IInv, NEW n \in accepted, now' \in Nat, now <= now',
         UNCHANGED <<accepted, lastStamp>>,
         lastSeq' = lastSeq \/ now - lastStamp > StampWindow
  PROVE  Covered(n)'
<1>1. n.stamp \in Int /\ now \in Nat /\ lastStamp \in Int /\ StampWindow \in Nat
      /\ Covered(n)
  BY StampWindowAssumption DEF IInv, MarkCovers, ChannelTypeOK, Numbered
<1>2. Inverted(n) => Inverted(n)'
  BY DEF Inverted
<1> QED  BY <1>1, <1>2 DEF Covered

LEMMA TickKeeps ==
  ASSUME IInv, CloseClocks, Tick
  PROVE  IInv'
<1>1. /\ now' = now + 1 /\ now < MaxTime /\ now \in Nat /\ MaxTime \in Nat /\ Lead \in Int
      /\ UNCHANGED <<client, nextSeq, held, sent, lastSeq, lastStamp, stamped, accepted>>
  BY ChannelAssumption DEF Tick, clientVars, vehicleVars, IInv, ChannelTypeOK
<1>2. ChannelTypeOK' /\ ClockInRange'
  BY <1>1 DEF IInv, ChannelTypeOK, ClockInRange
<1>3. \A n \in accepted : Covered(n)'
  BY <1>1, CoveredKeeps
<1>4. \A m \in sent : m.stamp \in Int
  BY DEF IInv, ChannelTypeOK, Numbered
<1>5. MarkCovers'
  BY <1>1, <1>3, <1>4 DEF IInv, MarkCovers, ChannelTypeOK
<1> QED  BY <1>2, <1>5 DEF IInv

LEMMA TakeNumberKeeps ==
  ASSUME IInv, NEW t \in Threads, TakeNumber(t)
  PROVE  IInv'
<1>1. /\ nextSeq' = nextSeq + 1 /\ held' = [held EXCEPT ![t] = nextSeq]
      /\ UNCHANGED <<now, client, sent, lastSeq, lastStamp, stamped, accepted>>
  BY DEF TakeNumber, vehicleVars
<1>2. ChannelTypeOK'
  BY <1>1 DEF IInv, ChannelTypeOK
<1>3. MarkCovers' /\ ClockInRange'
  BY <1>1 DEF IInv, MarkCovers, ClockInRange, Covered, Inverted
<1> QED  BY <1>2, <1>3 DEF IInv

LEMMA StampAndSendKeeps ==
  ASSUME IInv, NEW t \in Threads, StampAndSend(t)
  PROVE  IInv'
<1> DEFINE new == [client |-> client, seq |-> held[t], stamp |-> now + Lead]
<1>1. /\ held[t] \in Nat /\ nextSeq \in Nat /\ now \in Nat /\ client \in Nat
      /\ Lead \in Int /\ MaxTime \in Nat
  BY ChannelAssumption DEF IInv, ChannelTypeOK, StampAndSend
<1>2. new \in Numbered /\ new.stamp = now + Lead
  BY <1>1 DEF Numbered
<1>3. /\ sent' = sent \cup {new} /\ nextSeq' = nextSeq + 1
      /\ held' = [held EXCEPT ![t] = NoNumber]
      /\ UNCHANGED <<now, client, lastSeq, lastStamp, stamped, accepted>>
  BY DEF StampAndSend, vehicleVars
<1> HIDE DEF new
<1>4. ChannelTypeOK'
  BY <1>1, <1>2, <1>3 DEF IInv, ChannelTypeOK
<1>5. MarkCovers'
  BY <1>1, <1>2, <1>3 DEF IInv, MarkCovers, Covered, Inverted
<1>6. ClockInRange'
  BY <1>1, <1>2, <1>3 DEF IInv, ClockInRange
<1> QED  BY <1>4, <1>5, <1>6 DEF IInv

LEMMA ClientRestartKeeps ==
  ASSUME IInv, ClientRestart
  PROVE  IInv'
<1>1. /\ client' = client + 1 /\ nextSeq' = 0
      /\ UNCHANGED <<now, sent, lastSeq, lastStamp, stamped, accepted>>
  BY DEF ClientRestart, vehicleVars
<1>2. held' \in [Threads -> Nat \cup {NoNumber}]
  BY Zenon DEF ClientRestart
<1>3. ChannelTypeOK'
  BY <1>1, <1>2 DEF IInv, ChannelTypeOK
<1>4. MarkCovers' /\ ClockInRange'
  BY <1>1 DEF IInv, MarkCovers, ClockInRange, Covered, Inverted
<1> QED  BY <1>3, <1>4 DEF IInv

LEMMA AcceptKeeps ==
  ASSUME IInv, CloseClocks, NEW m \in sent, Accept(m)
  PROVE  IInv'
<1>1. CASE m.seq = 0
  <2>1. UNCHANGED channelVars
    BY <1>1 DEF Accept, vehicleVars, clientVars, channelVars
  <2> QED  BY <2>1 DEF channelVars, IInv, ChannelTypeOK, MarkCovers, ClockInRange,
                       Covered, Inverted
<1>2. CASE m.seq # 0
  <2>1. /\ lastSeq' = m.seq /\ lastStamp' = m.stamp /\ stamped' = TRUE
        /\ accepted' = accepted \cup {m}
        /\ UNCHANGED <<now, client, nextSeq, held, sent>>
    BY <1>2 DEF Accept, clientVars
  <2>2. m \in Numbered /\ m.seq \in Nat /\ m.stamp \in Int
    BY AgesInRange
  <2>3. ChannelTypeOK'
    BY <2>1, <2>2 DEF IInv, ChannelTypeOK
  <2>4. ClockInRange'
    BY <2>1 DEF IInv, ClockInRange
  <2>5. ASSUME NEW n \in accepted' PROVE n.seq > 0 /\ Covered(n)'
    <3>1. CASE n = m
      BY <1>2, <2>1, <2>2, <3>1 DEF Covered
    <3>2. CASE n \in accepted /\ Inverted(n)
      BY <2>1, <3>2 DEF IInv, MarkCovers, Covered, Inverted
    <3>3. CASE n \in accepted /\ ~Inverted(n)
      <4>1. \/ now - n.stamp > StampWindow
            \/ n.seq < m.seq /\ n.stamp <= lastStamp
        BY <1>2, <3>3, AcceptedIsLater DEF Accept
      <4>2. n.seq \in Nat /\ n.stamp \in Int /\ n.seq > 0
        BY <3>3 DEF IInv, MarkCovers, ChannelTypeOK, Numbered
      <4>3. n.seq < m.seq /\ ~(n.stamp <= m.stamp) => Inverted(n)'
        BY <2>1, <2>2, <4>2 DEF Inverted
      <4> QED  BY <2>1, <2>2, <4>1, <4>2, <4>3 DEF Covered
    <3> QED  BY <2>1, <3>1, <3>2, <3>3
  <2>6. MarkCovers'
    BY <2>1, <2>5 DEF IInv, MarkCovers
  <2> QED  BY <2>3, <2>4, <2>6 DEF IInv
<1> QED  BY <1>1, <1>2

LEMMA RejectKeeps ==
  ASSUME IInv, CloseClocks, NEW m \in sent, Reject(m)
  PROVE  IInv'
<1>1. /\ lastSeq' = MarkAfterReject(m.seq, lastSeq, LastAge)
      /\ UNCHANGED <<now, client, nextSeq, held, sent, lastStamp, stamped, accepted>>
  BY DEF Reject, clientVars
<1>2. /\ m.seq \in Nat /\ lastSeq \in Nat /\ LastAge \in Int /\ now \in Nat
      /\ stamped => LastAge = now - lastStamp /\ -LastAge <= StampWindow
  BY AgesInRange DEF IInv, ChannelTypeOK
<1>3. /\ lastSeq' \in Nat
      /\ lastSeq' # lastSeq => LastAge # NoStamp
           /\ (LastAge > StampWindow \/ -LastAge > StampWindow)
  BY <1>1, <1>2, MarkLowers
<1>4. ChannelTypeOK' /\ ClockInRange'
  BY <1>1, <1>3 DEF IInv, ChannelTypeOK, ClockInRange
<1>5. ASSUME NEW n \in accepted PROVE Covered(n)'
  <2>1. stamped /\ StampWindow \in Nat
    BY StampWindowAssumption DEF IInv, MarkCovers
  <2>2. lastSeq' = lastSeq \/ now - lastStamp > StampWindow
    BY <1>2, <1>3, <2>1
  <2> QED  BY <1>1, <1>2, <2>2, CoveredKeeps
<1>6. MarkCovers'
  BY <1>1, <1>5 DEF IInv, MarkCovers
<1> QED  BY <1>4, <1>6 DEF IInv

LEMMA RestartKeeps ==
  ASSUME IInv, VehicleRestart
  PROVE  IInv'
<1>1. /\ lastSeq' = 0 /\ lastStamp' = 0 /\ stamped' = FALSE /\ accepted' = {}
      /\ UNCHANGED <<now, client, nextSeq, held, sent>>
  BY DEF VehicleRestart, clientVars
<1>2. ChannelTypeOK'
  <2>1. stamped' \in BOOLEAN
    BY <1>1, Zenon
  <2> QED  BY <1>1, <2>1 DEF IInv, ChannelTypeOK
<1>3. MarkCovers' /\ ClockInRange'
  BY <1>1 DEF IInv, MarkCovers, ClockInRange
<1> QED  BY <1>2, <1>3 DEF IInv

LEMMA StepHolds ==
  ASSUME IInv, CloseClocks, [ChannelNext]_channelVars
  PROVE  IInv'
<1>1. CASE Tick  BY <1>1, TickKeeps
<1>2. ASSUME NEW t \in Threads, TakeNumber(t) PROVE IInv'
  BY <1>2, TakeNumberKeeps
<1>3. ASSUME NEW t \in Threads, StampAndSend(t) PROVE IInv'
  BY <1>3, StampAndSendKeeps
<1>4. CASE ClientRestart  BY <1>4, ClientRestartKeeps
<1>5. ASSUME NEW m \in sent, Accept(m) PROVE IInv'
  BY <1>5, AcceptKeeps
<1>6. ASSUME NEW m \in sent, Reject(m) PROVE IInv'
  BY <1>6, RejectKeeps
<1>7. CASE VehicleRestart  BY <1>7, RestartKeeps
<1>8. CASE UNCHANGED channelVars
  BY <1>8 DEF channelVars, IInv, ChannelTypeOK, MarkCovers, ClockInRange, Covered, Inverted
<1> QED  BY <1>1, <1>2, <1>3, <1>4, <1>5, <1>6, <1>7, <1>8 DEF ChannelNext

(* A copy of an executed command is let through only if its number and     *)
(* stamp are inverted with another's, and none is executed after one both  *)
(* numbered and stamped later, with the same exception: the replay check   *)
(* at the head of processCommand, for any threads, channel and restarts.   *)
THEOREM ReplayProtection ==
  ASSUME CloseClocks
  PROVE  ChannelSpec => []AtMostOnceUnlessInverted /\ InOrderUnlessInverted
<1>1. IInv => AtMostOnceUnlessInverted
  <2> SUFFICES ASSUME IInv, NEW m \in accepted, Admissible(m), ~Inverted(m) PROVE FALSE
    BY DEF AtMostOnceUnlessInverted
  <2>1. m \in sent /\ m.seq > 0
    BY DEF IInv, MarkCovers
  <2>2. m.seq < m.seq \/ m.stamp < m.stamp
    BY <2>1, AgesInRange, AcceptedIsLater
  <2> QED  BY <2>1, <2>2, AgesInRange
<1>2. IInv /\ [ChannelNext]_channelVars =>
        [\A m \in sent, n \in accepted :
           m.seq > 0 /\ Accept(m) =>
             n.seq < m.seq \/ n.stamp < m.stamp \/ Inverted(n)]_channelVars
  <2> SUFFICES ASSUME IInv, NEW m \in sent, NEW n \in accepted, m.seq > 0, Accept(m),
                      ~Inverted(n)
               PROVE  n.seq < m.seq \/ n.stamp < m.stamp
    OBVIOUS
  <2>1. m.seq # 0 /\ Admissible(m)
    BY AgesInRange DEF Accept
  <2> QED  BY <2>1, AcceptedIsLater
<1> QED  BY <1>1, <1>2, InitHolds, StepHolds, PTL DEF ChannelSpec, InOrderUnlessInverted

(* Types are kept in every run, however far the clocks are apart.          *)
LEMMA TypeHolds ==
  ASSUME ChannelTypeOK, [ChannelNext]_channelVars
  PROVE  ChannelTypeOK'
<1> USE ChannelAssumption, StampWindowAssumption
<1> USE DEF ChannelTypeOK, clientVars, vehicleVars
<1>1. CASE Tick  BY <1>1 DEF Tick
<1>2. ASSUME NEW t \in Threads, TakeNumber(t) PROVE ChannelTypeOK'
  BY <1>2 DEF TakeNumber
<1>3. ASSUME NEW t \in Threads, StampAndSend(t) PROVE ChannelTypeOK'
  <2>1. [client |-> client, seq |-> held[t], stamp |-> now + Lead] \in Numbered
    BY <1>3 DEF Numbered, StampAndSend
  <2> QED  BY <1>3, <2>1 DEF StampAndSend
<1>4. CASE ClientRestart
  <2>1. held' \in [Threads -> Nat \cup {NoNumber}]
    BY <1>4, Zenon DEF ClientRestart
  <2> QED  BY <1>4, <2>1 DEF ClientRestart
<1>5. ASSUME NEW m \in sent, Accept(m) PROVE ChannelTypeOK'
  <2>1. m \in Numbered /\ m.seq \in Nat /\ m.stamp \in Int
    BY DEF Numbered
  <2>2. CASE m.seq = 0  BY <1>5, <2>2 DEF Accept
  <2>3. CASE m.seq # 0  BY <1>5, <2>1, <2>3 DEF Accept
  <2> QED  BY <2>2, <2>3
<1>6. ASSUME NEW m \in sent, Reject(m) PROVE ChannelTypeOK'
  <2>1. m.seq \in Nat /\ LastAge \in Int
    BY DEF Numbered, LastAge, NoStamp
  <2>2. MarkAfterReject(m.seq, lastSeq, LastAge) \in Nat
    BY <2>1, MarkLowers
  <2> QED  BY <1>6, <2>2 DEF Reject
<1>7. CASE VehicleRestart
  <2>1. stamped' \in BOOLEAN
    BY <1>7, Zenon DEF VehicleRestart
  <2> QED  BY <1>7, <2>1 DEF VehicleRestart
<1>8. CASE UNCHANGED channelVars  BY <1>8 DEF channelVars
<1> QED  BY <1>1, <1>2, <1>3, <1>4, <1>5, <1>6, <1>7, <1>8 DEF ChannelNext

(* The clock, the numbers and the stamps keep their types through every    *)
(* restart of either side.                                                 *)
THEOREM ChannelTypes == ChannelSpec => []ChannelTypeOK
<1>1. ChannelInit => ChannelTypeOK
  <2>1. ChannelInit => stamped \in BOOLEAN /\ held \in [Threads -> Nat \cup {NoNumber}]
    BY Zenon DEF ChannelInit
  <2> QED  BY <2>1 DEF ChannelInit, ChannelTypeOK
<1>2. ChannelTypeOK /\ [ChannelNext]_channelVars => ChannelTypeOK'
  BY TypeHolds
<1> QED  BY <1>1, <1>2, PTL DEF ChannelSpec

-----------------------------------------------------------------------------
(* What a client that was restarted has to do with: the last stamp is that *)
(* of an executed command, and the mark is no higher than its number.      *)
LastIsKept ==
  /\ accepted \subseteq sent
  /\ \A n \in sent : n.client <= client
  /\ ~stamped => lastSeq = 0
  /\ stamped => \E n \in accepted : n.stamp = lastStamp /\ lastSeq <= n.seq

LEMMA LastIsKeptAlways ==
  ASSUME ChannelTypeOK, LastIsKept, [ChannelNext]_channelVars
  PROVE  LastIsKept'
<1>0. /\ lastSeq \in Nat /\ client \in Nat /\ LastAge \in Int /\ NoStamp \in Int
      /\ \A n \in sent : n.seq \in Nat /\ n.client \in Nat
      /\ \A n \in accepted : n.seq \in Nat
  BY DEF ChannelTypeOK, Numbered, LastAge, NoStamp
<1>1. CASE Tick \/ UNCHANGED channelVars
  BY <1>1 DEF Tick, channelVars, clientVars, vehicleVars, LastIsKept
<1>2. ASSUME NEW t \in Threads, TakeNumber(t) \/ StampAndSend(t) PROVE LastIsKept'
  BY <1>0, <1>2 DEF TakeNumber, StampAndSend, vehicleVars, LastIsKept
<1>3. CASE ClientRestart
  BY <1>0, <1>3 DEF ClientRestart, vehicleVars, LastIsKept
<1>4. ASSUME NEW m \in sent, Accept(m) PROVE LastIsKept'
  <2>1. CASE m.seq = 0
    BY <1>4, <2>1 DEF Accept, clientVars, vehicleVars, LastIsKept
  <2>2. CASE m.seq # 0
    <3>1. /\ m \in accepted' /\ accepted' = accepted \cup {m} /\ stamped' = TRUE
          /\ lastStamp' = m.stamp /\ lastSeq' = m.seq /\ UNCHANGED <<client, sent>>
      BY <1>4, <2>2 DEF Accept, clientVars
    <3> QED  BY <1>0, <3>1 DEF LastIsKept
  <2> QED  BY <2>1, <2>2
<1>5. ASSUME NEW m \in sent, Reject(m) PROVE LastIsKept'
  <2>1. /\ lastSeq' = MarkAfterReject(m.seq, lastSeq, LastAge)
        /\ UNCHANGED <<client, sent, lastStamp, stamped, accepted>>
    BY <1>5 DEF Reject, clientVars
  <2>2. lastSeq' \in Nat /\ lastSeq' <= lastSeq /\ (lastSeq' # lastSeq => LastAge # NoStamp)
    BY <1>0, <2>1, MarkLowers
  <2>3. ~stamped => LastAge = NoStamp
    BY DEF LastAge
  <2> QED  BY <1>0, <2>1, <2>2, <2>3 DEF LastIsKept
<1>6. CASE VehicleRestart
  BY <1>6 DEF VehicleRestart, clientVars, LastIsKept
<1> QED  BY <1>1, <1>2, <1>3, <1>4, <1>5, <1>6 DEF ChannelNext

(* A client that was restarted and numbers from zero again is heard once   *)
(* the commands of its earlier runs have left the window, whatever order   *)
(* the channel brings them in and however far its clock is ahead.          *)
THEOREM RestartIsHeard == ChannelSpec => []RestartedClientIsHeard
<1>1. ChannelInit => ChannelTypeOK /\ LastIsKept
  <2>1. ChannelInit => stamped \in BOOLEAN /\ held \in [Threads -> Nat \cup {NoNumber}]
    BY Zenon DEF ChannelInit
  <2> QED  BY <2>1 DEF ChannelInit, ChannelTypeOK, LastIsKept
<1>2. ChannelTypeOK /\ LastIsKept /\ [ChannelNext]_channelVars
        => (ChannelTypeOK /\ LastIsKept)'
  BY TypeHolds, LastIsKeptAlways
<1>3. ChannelTypeOK /\ LastIsKept => RestartedClientIsHeard
  <2> SUFFICES ASSUME ChannelTypeOK, LastIsKept, NEW m \in sent,
                      m.client = client, ~Expired(now - m.stamp), m.seq # 0,
                      \A n \in accepted : n.client = client => n.seq < m.seq,
                      \A n \in sent : n.client < client => now - n.stamp > StampWindow
               PROVE  Admissible(m)
    BY DEF RestartedClientIsHeard, Admissible, Accepts
  <2>1. ~OutOfWindow(now - m.stamp, LastAge)
    BY DEF OutOfWindow
  <2>2. m.seq \in Nat /\ lastSeq \in Nat /\ StampWindow \in Nat
    BY StampWindowAssumption DEF ChannelTypeOK, Numbered
  <2>3. CASE ~stamped
    BY <2>1, <2>2, <2>3 DEF LastIsKept, Admissible, Accepts, Replayed
  <2>4. CASE stamped
    <3>1. PICK n \in accepted : n.stamp = lastStamp /\ lastSeq <= n.seq
      BY <2>4 DEF LastIsKept
    <3>2. /\ n \in sent /\ n.client \in Nat /\ client \in Nat /\ n.client <= client
          /\ n.seq \in Nat /\ now - n.stamp \in Int
      BY <3>1 DEF LastIsKept, ChannelTypeOK, Numbered
    <3>3. CASE n.client = client
      BY <2>1, <2>2, <3>1, <3>2, <3>3 DEF Admissible, Accepts, Replayed
    <3>4. CASE n.client < client
      <4>1. LastAge = now - n.stamp /\ LastAge > StampWindow
        BY <2>4, <3>1, <3>2, <3>4 DEF LastAge
      <4>2. Expired(LastAge) /\ LastAge # NoStamp
        BY <2>2, <3>2, <4>1 DEF Expired, Distance, NoStamp
      <4> QED  BY <2>1, <4>2 DEF Admissible, Accepts, Replayed
    <3> QED  BY <3>2, <3>3, <3>4
  <2> QED  BY <2>3, <2>4
<1> QED  BY <1>1, <1>2, <1>3, PTL DEF ChannelSpec
=============================================================================
