------------------------- MODULE PacketQueueProofs -------------------------
(***************************************************************************)
(* Proofs about PacketQueue, for a ring of any size, packets of any sizes  *)
(* and drains of any length: the drain is posted just when the flag says   *)
(* so, the ring that two threads share without a lock is a queue, and the   *)
(* budget counts just the bytes that are in the ring or in hand.           *)
(***************************************************************************)
EXTENDS PacketQueue, SequenceTheorems, WellFoundedInduction, TLAPS

(* What is known between any two steps.  The media thread finds the place  *)
(* it writes free, and the packet it publishes there; the decode thread    *)
(* finds the packet it takes still in the ring; and the UI thread finds    *)
(* the other two out of a pipeline that is torn down.                      *)
RoomToWrite == at \in {"write", "publish"} => ~Full
Written == at = "publish" => buf[tail] = pkt
PacketInHand == at # "idle" => pkt \in Sizes
PacketToTake == dat \in {"move", "store"} => head # tail
BatchGoesOn == dat \in {"move", "store", "slot", "sum"} => pulled < Batch
MediaIsOut == ui \in {"down", "discarding"} => at = "idle"
DecoderIsOut == ui = "down" => drain \in {"none", "finished"}

QueueInv ==
  /\ QueueTypeOK
  /\ RoomToWrite /\ Written /\ PacketInHand
  /\ PacketToTake /\ BatchGoesOn
  /\ MediaIsOut /\ DecoderIsOut

(* A place is followed by a place, and no two are followed by the same.    *)
LEMMA AfterIsPlace == \A i \in Places : After(i) \in Places
BY QueueAssumption DEF Places, After

LEMMA AfterDiffers == \A i, j \in Places : After(i) = After(j) => i = j
BY QueueAssumption DEF Places, After

LEMMA QueueInitHolds == QueueInit => QueueInv
<1> SUFFICES ASSUME QueueInit PROVE QueueInv
  OBVIOUS
<1>1. head \in Places /\ tail \in Places /\ buf \in [Places -> Sizes \cup {0}]
  BY QueueAssumption DEF QueueInit, Places
<1>2. pulled \in 0 .. Batch /\ dat = "out" /\ drain = "none" /\ posted = FALSE
  BY QueueAssumption DEF QueueInit
<1>3. at = "idle" /\ pkt = 0 /\ out = 0 /\ more = FALSE /\ ui = "down"
  BY DEF QueueInit
<1> QED
  BY <1>1, <1>2, <1>3
     DEF QueueInv, QueueTypeOK, FlagIsDrain, RoomToWrite, Written, PacketInHand,
         PacketToTake, BatchGoesOn, MediaIsOut, DecoderIsOut

-----------------------------------------------------------------------------
(* One lemma for each thread. *)

LEMMA MediaPreserves ==
  QueueInv /\ (MediaStep \/ \E p \in Sizes : Arrive(p)) => QueueInv'
<1> SUFFICES ASSUME QueueInv, MediaStep \/ \E p \in Sizes : Arrive(p)
             PROVE  QueueInv'
  OBVIOUS
<1> USE DEF QueueInv, Go
(* Steps that only move the media thread among the places without a        *)
(* promise.                                                                *)
<1>1. ASSUME UNCHANGED <<buf, head, tail, posted, decoder, ui>>,
             at' \in {"idle", "total", "local", "cas", "add", "look", "back", "backTotal"},
             pkt' \in Sizes \cup {0}, at' # "idle" => pkt' \in Sizes, at # "idle" \/ Active
      PROVE  QueueInv'
  <2>1. at' = "idle" \/ ui' \notin {"down", "discarding"}
    BY <1>1 DEF MediaIsOut, Active, decoder
  <2> QED
    BY <1>1, <2>1
       DEF QueueTypeOK, FlagIsDrain, RoomToWrite, Written, PacketInHand, PacketToTake,
           BatchGoesOn, MediaIsOut, DecoderIsOut, decoder
<1>2. ASSUME NEW p \in Sizes, Arrive(p) PROVE QueueInv'
  BY <1>1, <1>2 DEF Arrive, ring
<1>3. CASE ReadTotal
  BY <1>1, <1>3 DEF ReadTotal, Return, ring, PacketInHand
<1>4. CASE ReadLocal
  BY <1>1, <1>4 DEF ReadLocal, Return, ring, PacketInHand
<1>5. CASE TakeTotal
  BY <1>1, <1>5 DEF TakeTotal, ring, PacketInHand
<1>6. CASE TryAgain
  BY <1>1, <1>6 DEF TryAgain, ring, PacketInHand
<1>7. CASE TakeSlot
  BY <1>1, <1>7 DEF TakeSlot, ring, PacketInHand
<1>8. CASE LookFull
  <2>1. CASE Full
    BY <1>1, <1>8, <2>1 DEF LookFull, ring, PacketInHand
  <2>2. CASE ~Full
    BY <1>8, <2>2
       DEF LookFull, ring, decoder, QueueTypeOK, FlagIsDrain, RoomToWrite, Written,
           PacketInHand, PacketToTake, BatchGoesOn, MediaIsOut, DecoderIsOut, Full
  <2> QED BY <2>1, <2>2
<1>9. CASE Write
  <2>1. buf' = [buf EXCEPT ![tail] = pkt] /\ pkt \in Sizes /\ tail \in Places
    BY <1>9 DEF Write, PacketInHand, QueueTypeOK
  <2>2. buf' \in [Places -> Sizes \cup {0}] /\ buf'[tail] = pkt
    BY <2>1 DEF QueueTypeOK
  <2> QED
    BY <1>9, <2>2
       DEF Write, decoder, QueueTypeOK, FlagIsDrain, RoomToWrite, Written,
           PacketInHand, PacketToTake, BatchGoesOn, MediaIsOut, DecoderIsOut, Full
<1>10. CASE Publish
  <2>1. tail' = After(tail) /\ tail' \in Places /\ tail' # head
    BY <1>10, AfterIsPlace DEF Publish, QueueTypeOK, RoomToWrite, Full
  <2> QED
    BY <1>10, <2>1
       DEF Publish, decoder, QueueTypeOK, FlagIsDrain, RoomToWrite, Written,
           PacketInHand, PacketToTake, BatchGoesOn, MediaIsOut, DecoderIsOut
<1>11. CASE GiveBackSlot
  BY <1>1, <1>11 DEF GiveBackSlot, ring, PacketInHand
<1>12. CASE GiveBackTotal
  BY <1>1, <1>12 DEF GiveBackTotal, Return, ring
<1>13. CASE Schedule
  <2>1. UNCHANGED <<buf, head, tail, dat, pulled, out, more, ui>> /\ at' = "idle" /\ pkt' = 0
    BY <1>13 DEF Schedule, Return, ring
  <2>2. CASE Active /\ ~posted
    <3>1. posted' = TRUE /\ drain' = "posted"
      BY <1>13, <2>2 DEF Schedule, PostDrain
    <3>2. drain = "none" /\ dat = "out"
      BY <2>2 DEF Active, QueueTypeOK, FlagIsDrain
    <3> QED
      BY <2>1, <2>2, <3>1, <3>2
         DEF Active, QueueTypeOK, FlagIsDrain, RoomToWrite, Written, PacketInHand,
             PacketToTake, BatchGoesOn, MediaIsOut, DecoderIsOut
  <2>3. CASE ~(Active /\ ~posted)
    <3>1. UNCHANGED <<posted, drain>>
      BY <1>13, <2>3 DEF Schedule, PostDrain
    <3> QED
      BY <2>1, <3>1
         DEF QueueTypeOK, FlagIsDrain, RoomToWrite, Written, PacketInHand,
             PacketToTake, BatchGoesOn, MediaIsOut, DecoderIsOut
  <2> QED BY <2>2, <2>3
<1> QED
  BY <1>2, <1>3, <1>4, <1>5, <1>6, <1>7, <1>8, <1>9, <1>10, <1>11, <1>12, <1>13
     DEF MediaStep

LEMMA DecodePreserves == QueueInv /\ DecodeStep => QueueInv'
<1> SUFFICES ASSUME QueueInv, DecodeStep
             PROVE  QueueInv'
  OBVIOUS
<1> USE DEF QueueInv
<1>0. Batch \in Nat /\ 0 \in 0 .. Batch
  BY QueueAssumption
<1>1. CASE BeginDrain
  BY <1>1
     DEF BeginDrain, ring, media, QueueTypeOK, FlagIsDrain, RoomToWrite, Written, Full,
         PacketInHand, PacketToTake, BatchGoesOn, MediaIsOut, DecoderIsOut
<1>2. CASE Pull
  <2>1. pulled < Batch
    BY <1>2 DEF Pull
  <2> QED
    BY <1>2, <2>1
       DEF Pull, ring, media, QueueTypeOK, FlagIsDrain, RoomToWrite, Written, Full,
           PacketInHand, PacketToTake, BatchGoesOn, MediaIsOut, DecoderIsOut
<1>3. CASE Move
  <2>1. head # tail /\ head \in Places /\ tail \in Places
    BY <1>3 DEF Move, PacketToTake, QueueTypeOK
  <2>2. /\ buf' \in [Places -> Sizes \cup {0}] /\ buf'[tail] = buf[tail]
        /\ out' \in Sizes \cup {0}
    BY <1>3, <2>1 DEF Move, QueueTypeOK
  <2>3. UNCHANGED <<head, tail, media, posted, drain, pulled, more, ui>>
        /\ dat = "move" /\ dat' = "store"
    BY <1>3 DEF Move
  <2> QED
    BY <2>1, <2>2, <2>3
       DEF media, QueueTypeOK, FlagIsDrain, RoomToWrite, Written, Full,
           PacketInHand, PacketToTake, BatchGoesOn, MediaIsOut, DecoderIsOut
<1>4. CASE StoreHead
  <2>1. head # tail /\ head \in Places /\ tail \in Places
    BY <1>4 DEF StoreHead, PacketToTake, QueueTypeOK
  <2>2. head' = After(head) /\ head' \in Places /\ After(tail) # head'
    BY <1>4, <2>1, AfterIsPlace, AfterDiffers DEF StoreHead
  <2>3. UNCHANGED <<buf, tail, media, posted, drain, pulled, out, more, ui>>
        /\ dat = "store" /\ dat' = "slot"
    BY <1>4 DEF StoreHead
  <2> QED
    BY <2>1, <2>2, <2>3
       DEF media, QueueTypeOK, FlagIsDrain, RoomToWrite, Written, Full, After,
           PacketInHand, PacketToTake, BatchGoesOn, MediaIsOut, DecoderIsOut
<1>5. CASE ReleaseSlot
  BY <1>5
     DEF ReleaseSlot, ring, media, QueueTypeOK, FlagIsDrain, RoomToWrite, Written, Full,
         PacketInHand, PacketToTake, BatchGoesOn, MediaIsOut, DecoderIsOut
<1>6. CASE ReleaseTotal
  <2>1. pulled' \in 0 .. Batch
    BY <1>6, <1>0 DEF ReleaseTotal, BatchGoesOn, QueueTypeOK
  <2>2. UNCHANGED <<ring, media, posted, drain, more, ui>> /\ out' = 0
        /\ dat = "sum" /\ dat' = "pull"
    BY <1>6 DEF ReleaseTotal
  <2> QED
    BY <2>1, <2>2
       DEF ring, media, QueueTypeOK, FlagIsDrain, RoomToWrite, Written, Full,
           PacketInHand, PacketToTake, BatchGoesOn, MediaIsOut, DecoderIsOut
<1>7. CASE StopPulling
  BY <1>7
     DEF StopPulling, ring, media, QueueTypeOK, FlagIsDrain, RoomToWrite, Written, Full,
         PacketInHand, PacketToTake, BatchGoesOn, MediaIsOut, DecoderIsOut
<1>8. CASE EndDrain
  <2>1. UNCHANGED <<ring, media, posted, out, ui>> /\ dat = "report" /\ dat' = "out"
        /\ drain' = "finished" /\ pulled' \in 0 .. Batch /\ more' \in BOOLEAN
    BY <1>8, <1>0 DEF EndDrain
  <2> QED
    BY <2>1
       DEF ring, media, QueueTypeOK, FlagIsDrain, RoomToWrite, Written, Full,
           PacketInHand, PacketToTake, BatchGoesOn, MediaIsOut, DecoderIsOut
<1> QED
  BY <1>1, <1>2, <1>3, <1>4, <1>5, <1>6, <1>7, <1>8 DEF DecodeStep

LEMMA UiPreserves == QueueInv /\ (UiStep \/ SetUp \/ TearDown) => QueueInv'
<1> SUFFICES ASSUME QueueInv, UiStep \/ SetUp \/ TearDown
             PROVE  QueueInv'
  OBVIOUS
<1> USE DEF QueueInv
<1>1. CASE OnIngressDrainFinished
  <2>1. UNCHANGED <<ring, media, dat, pulled, out>>
        /\ drain = "finished" /\ drain' = "none" /\ posted' = FALSE /\ more' = FALSE
        /\ (ui' = ui \/ ui' = "reporting")
    BY <1>1 DEF OnIngressDrainFinished
  <2> QED
    BY <2>1
       DEF ring, media, QueueTypeOK, FlagIsDrain, RoomToWrite, Written, Full,
           PacketInHand, PacketToTake, BatchGoesOn, MediaIsOut, DecoderIsOut
<1>2. CASE DrainTheRest
  <2>1. UNCHANGED <<ring, media, dat, pulled, out, more>> /\ ui = "reporting" /\ ui' = "up"
    BY <1>2 DEF DrainTheRest
  <2>2. CASE posted
    <3>1. UNCHANGED <<posted, drain>>
      BY <1>2, <2>2 DEF DrainTheRest, PostDrain
    <3> QED
      BY <2>1, <3>1
         DEF ring, media, QueueTypeOK, FlagIsDrain, RoomToWrite, Written, Full,
             PacketInHand, PacketToTake, BatchGoesOn, MediaIsOut, DecoderIsOut
  <2>3. CASE ~posted
    <3>1. posted' = TRUE /\ drain' = "posted"
      BY <1>2, <2>3 DEF DrainTheRest, PostDrain
    <3>2. drain = "none" /\ dat = "out"
      BY <2>1, <2>3 DEF QueueTypeOK, FlagIsDrain
    <3> QED
      BY <2>1, <3>1, <3>2
         DEF ring, media, QueueTypeOK, FlagIsDrain, RoomToWrite, Written, Full,
             PacketInHand, PacketToTake, BatchGoesOn, MediaIsOut, DecoderIsOut
  <2> QED BY <2>2, <2>3
<1>3. CASE CallbackGone
  BY <1>3
     DEF CallbackGone, ring, media, decoder, QueueTypeOK, FlagIsDrain, RoomToWrite, Written,
         Full, PacketInHand, PacketToTake, BatchGoesOn, MediaIsOut, DecoderIsOut
<1>4. CASE Discard
  <2>1. UNCHANGED <<buf, tail, media, decoder>> /\ head' = tail /\ posted' = FALSE
        /\ ui = "discarding" /\ ui' = "down" /\ drain \notin {"posted", "running"}
    BY <1>4 DEF Discard
  <2>2. at = "idle" /\ dat = "out"
    BY <2>1 DEF MediaIsOut, QueueTypeOK
  <2> QED
    BY <2>1, <2>2
       DEF media, decoder, QueueTypeOK, FlagIsDrain, RoomToWrite, Written, Full,
           PacketInHand, PacketToTake, BatchGoesOn, MediaIsOut, DecoderIsOut
<1>5. CASE SetUp
  <2>1. UNCHANGED <<buf, media, decoder>> /\ head' = 0 /\ tail' = 0 /\ posted' = FALSE
        /\ ui = "down" /\ ui' = "up" /\ drain = "none"
    BY <1>5 DEF SetUp
  <2>2. at = "idle" /\ dat = "out" /\ 0 \in Places
    BY <2>1, QueueAssumption DEF MediaIsOut, QueueTypeOK, Places
  <2> QED
    BY <2>1, <2>2
       DEF media, decoder, QueueTypeOK, FlagIsDrain, RoomToWrite, Written, Full,
           PacketInHand, PacketToTake, BatchGoesOn, MediaIsOut, DecoderIsOut
<1>6. CASE TearDown
  BY <1>6
     DEF TearDown, ring, media, decoder, QueueTypeOK, FlagIsDrain, RoomToWrite, Written,
         Full, PacketInHand, PacketToTake, BatchGoesOn, MediaIsOut, DecoderIsOut
<1> QED
  BY <1>1, <1>2, <1>3, <1>4, <1>5, <1>6 DEF UiStep

(* Neither do the other streams, which see the total alone, nor a stutter. *)
LEMMA OthersPreserve ==
  QueueInv /\ UNCHANGED <<ring, media, posted, decoder, ui>> => QueueInv'
BY DEF ring, media, decoder, QueueInv, QueueTypeOK, FlagIsDrain, RoomToWrite, Written,
       Full, PacketInHand, PacketToTake, BatchGoesOn, MediaIsOut, DecoderIsOut

LEMMA QueueInvKept == QueueInv /\ [QueueNext]_vars => QueueInv'
<1> SUFFICES ASSUME QueueInv, [QueueNext]_vars
             PROVE  QueueInv'
  OBVIOUS
<1>1. CASE UNCHANGED vars
  BY <1>1, OthersPreserve DEF vars, media
<1>2. ASSUME NEW p \in Sizes, OthersTake(p) \/ OthersGive(p) PROVE QueueInv'
  BY <1>2, OthersPreserve DEF OthersTake, OthersGive, media
<1> QED
  BY <1>1, <1>2, MediaPreserves, DecodePreserves, UiPreserves DEF QueueNext

(* Correctness of the flag and of the types, for any ring: the drain is    *)
(* posted, running or finished just while m_ingressDrainPosted is set.     *)
LEMMA QueueInvAlways == QueueSpec => []QueueInv
BY QueueInitHolds, QueueInvKept, PTL DEF QueueSpec

THEOREM DrainIsFlagged == QueueSpec => []QueueTypeOK
<1>1. QueueInv => QueueTypeOK
  BY DEF QueueInv
<1> QED BY <1>1, QueueInvAlways, PTL

-----------------------------------------------------------------------------
(* The bytes of a sequence of packets.                                     *)

(* Induction on the natural numbers, for a set of them. *)
LEMMA SmallestNat ==
  ASSUME NEW T, T \subseteq Nat, T # {}
  PROVE  \E n \in T : \A m \in T : n <= m
<1>1. \E n \in T : \A m \in T : ~(<<m, n>> \in OpToRel(<, Nat))
  BY NatLessThanWellFounded, WFMin
<1>2. \A m, n \in Nat : m < n => <<m, n>> \in OpToRel(<, Nat)
  BY DEF OpToRel
<1>3. \A m, n \in Nat : ~(m < n) => n <= m
  OBVIOUS
<1> HIDE DEF OpToRel
<1>4. PICK n \in T : \A m \in T : ~(<<m, n>> \in OpToRel(<, Nat))
  BY <1>1
<1>5. \A m \in T : ~(m < n)
  BY <1>2, <1>4
<1> QED BY <1>3, <1>5

LEMMA NatInduct ==
  ASSUME NEW S, 0 \in S, \A n \in Nat : n \in S => n + 1 \in S
  PROVE  Nat \subseteq S
<1> DEFINE T == Nat \ S
<1> SUFFICES ASSUME T # {} PROVE FALSE
  OBVIOUS
<1>1. PICK n \in T : \A m \in T : n <= m
  BY SmallestNat
<1>2. n # 0 /\ n - 1 \in Nat
  BY <1>1
<1>3. n - 1 \in S
  BY <1>1, <1>2
<1>4. (n - 1) + 1 = n
  BY <1>1
<1> QED BY <1>1, <1>2, <1>3, <1>4

(* The sums of the first numbers of a sequence. *)
Sums(g, s) ==
  /\ g \in [0 .. Len(s) -> Nat]
  /\ g[0] = 0
  /\ \A i \in 1 .. Len(s) : g[i] = g[i - 1] + s[i]

LEMMA SumsExist == \A s \in Seq(Nat) : \E g : Sums(g, s)
<1> DEFINE S == {n \in Nat : \A s \in Seq(Nat) : Len(s) = n => \E g : Sums(g, s)}
<1>1. 0 \in S
  <2> SUFFICES ASSUME NEW s \in Seq(Nat), Len(s) = 0
               PROVE  \E g : Sums(g, s)
    OBVIOUS
  <2> DEFINE g == [i \in 0 .. 0 |-> 0]
  <2>1. Sums(g, s)
    BY DEF Sums
  <2> QED BY <2>1
<1>2. ASSUME NEW n \in Nat, n \in S PROVE n + 1 \in S
  <2> SUFFICES ASSUME NEW s \in Seq(Nat), Len(s) = n + 1
               PROVE  \E g : Sums(g, s)
    OBVIOUS
  <2> DEFINE r == SubSeq(s, 1, n)
  <2>1. r \in Seq(Nat) /\ Len(r) = n /\ \A i \in 1 .. n : r[i] = s[i]
    BY SubSeqProperties
  <2>2. PICK g : Sums(g, r)
    BY <1>2, <2>1
  <2> DEFINE h == [i \in 0 .. n + 1 |-> IF i = n + 1 THEN g[n] + s[n + 1] ELSE g[i]]
  <2>3. s[n + 1] \in Nat
    OBVIOUS
  <2>4. g \in [0 .. n -> Nat] /\ g[0] = 0 /\ \A i \in 1 .. n : g[i] = g[i - 1] + s[i]
    BY <2>1, <2>2 DEF Sums
  <2> HIDE DEF r
  <2>5. h \in [0 .. n + 1 -> Nat]
    BY <2>3, <2>4
  <2>6. h[0] = 0 /\ \A i \in 1 .. n + 1 : h[i] = h[i - 1] + s[i]
    <3>1. h[0] = 0
      BY <2>4
    <3>2. \A i \in 1 .. n : h[i] = g[i] /\ h[i - 1] = g[i - 1]
      OBVIOUS
    <3>3. h[n + 1] = g[n] + s[n + 1] /\ h[n] = g[n]
      OBVIOUS
    <3> HIDE DEF h
    <3>4. \A i \in 1 .. n + 1 : i = n + 1 \/ i \in 1 .. n
      OBVIOUS
    <3>5. \A i \in 1 .. n : h[i] = h[i - 1] + s[i]
      BY <2>4, <3>2
    <3>6. h[n + 1] = h[(n + 1) - 1] + s[n + 1]
      BY <3>3
    <3> QED BY <3>1, <3>4, <3>5, <3>6
  <2>7. Sums(h, s)
    BY <2>5, <2>6 DEF Sums
  <2> QED BY <2>7
<1> HIDE DEF S
<1>3. Nat \subseteq S
  BY <1>1, <1>2, NatInduct
<1> QED BY <1>3 DEF S

LEMMA BytesIsSum == ASSUME NEW s \in Seq(Nat), NEW g, Sums(g, s) PROVE Bytes(s) = g[Len(s)]
<1> DEFINE sum == CHOOSE h : h = [i \in 0 .. Len(s) |-> IF i = 0 THEN 0 ELSE h[i - 1] + s[i]]
<1>1. g = [i \in 0 .. Len(s) |-> IF i = 0 THEN 0 ELSE g[i - 1] + s[i]]
  BY DEF Sums
<1>2. sum = [i \in 0 .. Len(s) |-> IF i = 0 THEN 0 ELSE sum[i - 1] + s[i]]
  BY <1>1
<1>3. Bytes(s) = sum[Len(s)]
  BY DEF Bytes
<1> HIDE DEF sum
<1> DEFINE S == {n \in Nat : n <= Len(s) => sum[n] = g[n]}
<1>4. 0 \in S
  BY <1>2 DEF Sums
<1>5. ASSUME NEW n \in Nat, n \in S PROVE n + 1 \in S
  BY <1>2, <1>5 DEF Sums
<1>6. Nat \subseteq S
  <2> HIDE DEF S
  <2> QED BY <1>4, <1>5, NatInduct
<1> QED BY <1>3, <1>6

(* What becomes of the sum when a packet is put in or taken. *)
LEMMA BytesNat == \A s \in Seq(Nat) : Bytes(s) \in Nat
<1> SUFFICES ASSUME NEW s \in Seq(Nat) PROVE Bytes(s) \in Nat
  OBVIOUS
<1>1. PICK g : Sums(g, s)
  BY SumsExist
<1>2. Bytes(s) = g[Len(s)]
  BY <1>1, BytesIsSum
<1> QED BY <1>1, <1>2 DEF Sums

LEMMA BytesEmpty == Bytes(<<>>) = 0
<1>1. <<>> \in Seq(Nat) /\ Len(<<>>) = 0
  OBVIOUS
<1>2. PICK g : Sums(g, <<>>)
  BY <1>1, SumsExist
<1>3. Bytes(<<>>) = g[Len(<<>>)]
  BY <1>1, <1>2, BytesIsSum
<1> QED BY <1>1, <1>2, <1>3 DEF Sums

LEMMA BytesAppend ==
  ASSUME NEW s \in Seq(Nat), NEW x \in Nat
  PROVE  Bytes(Append(s, x)) = Bytes(s) + x
<1> DEFINE t == Append(s, x)
           n == Len(s)
<1>1. n \in Nat /\ t \in Seq(Nat) /\ Len(t) = n + 1 /\ t[n + 1] = x
      /\ \A i \in 1 .. n : t[i] = s[i]
  BY AppendProperties
<1> HIDE DEF t
<1>2. PICK g : Sums(g, t)
  BY <1>1, SumsExist
<1> DEFINE h == [i \in 0 .. n |-> g[i]]
<1>3. g \in [0 .. n + 1 -> Nat] /\ g[0] = 0 /\ \A i \in 1 .. n + 1 : g[i] = g[i - 1] + t[i]
  BY <1>1, <1>2 DEF Sums
<1>4. h \in [0 .. n -> Nat] /\ h[0] = 0
  BY <1>1, <1>3
<1>5. \A i \in 1 .. n : h[i] = h[i - 1] + s[i]
  BY <1>1, <1>3
<1>6. Sums(h, s)
  BY <1>4, <1>5 DEF Sums
<1>7. Bytes(s) = g[n]
  BY <1>1, <1>6, BytesIsSum
<1>8. Bytes(t) = g[n + 1]
  BY <1>1, <1>2, BytesIsSum
<1>9. g[n + 1] = g[n] + x
  <2>1. n + 1 \in 1 .. n + 1 /\ (n + 1) - 1 = n
    BY <1>1
  <2> QED BY <1>1, <1>3, <2>1
<1> QED BY <1>7, <1>8, <1>9 DEF t

LEMMA BytesTail ==
  ASSUME NEW s \in Seq(Nat), s # <<>>
  PROVE  Bytes(s) = Head(s) + Bytes(Tail(s))
<1> DEFINE t == Tail(s)
           n == Len(t)
<1>1. n \in Nat /\ t \in Seq(Nat) /\ Len(s) = n + 1 /\ Head(s) = s[1] /\ s[1] \in Nat
      /\ \A i \in 1 .. n : t[i] = s[i + 1]
  BY HeadTailProperties
<1> HIDE DEF t
<1>2. PICK f : Sums(f, t)
  BY <1>1, SumsExist
<1>3. PICK g : Sums(g, s)
  BY SumsExist
<1>4. f \in [0 .. n -> Nat] /\ f[0] = 0 /\ \A i \in 1 .. n : f[i] = f[i - 1] + s[i + 1]
  BY <1>1, <1>2 DEF Sums
<1>5. g \in [0 .. n + 1 -> Nat] /\ g[0] = 0 /\ \A i \in 1 .. n + 1 : g[i] = g[i - 1] + s[i]
  BY <1>1, <1>3 DEF Sums
<1> DEFINE S == {i \in Nat : i <= n => g[i + 1] = s[1] + f[i]}
<1>6. 0 \in S
  <2>1. 1 \in 1 .. n + 1 /\ 1 - 1 = 0
    BY <1>1
  <2>2. g[1] = g[0] + s[1]
    BY <1>5, <2>1
  <2> QED BY <1>1, <1>4, <1>5, <2>2
<1>7. ASSUME NEW i \in Nat, i \in S PROVE i + 1 \in S
  <2> SUFFICES ASSUME i + 1 <= n PROVE g[(i + 1) + 1] = s[1] + f[i + 1]
    OBVIOUS
  <2>1. i + 1 \in 1 .. n /\ (i + 1) + 1 \in 1 .. n + 1
        /\ (i + 1) - 1 = i /\ ((i + 1) + 1) - 1 = i + 1
    BY <1>1
  <2>2. g[(i + 1) + 1] = g[i + 1] + s[(i + 1) + 1]
    BY <1>5, <2>1
  <2>3. f[i + 1] = f[i] + s[(i + 1) + 1]
    BY <1>4, <2>1
  <2>4. g[i + 1] = s[1] + f[i]
    BY <1>1, <1>7, <2>1
  <2>5. f[i] \in Nat
    <3>1. i \in 0 .. n
      BY <1>1
    <3> QED BY <1>4, <3>1
  <2>6. s[(i + 1) + 1] \in Nat
    <3>1. (i + 1) + 1 \in 1 .. Len(s)
      BY <1>1, <2>1
    <3> QED BY <3>1
  <2>7. g[(i + 1) + 1] = (s[1] + f[i]) + s[(i + 1) + 1]
    BY <2>2, <2>4
  <2> DEFINE x == s[(i + 1) + 1]  y == f[i]  z == s[1]
  <2>8. x \in Nat /\ y \in Nat /\ z \in Nat
    BY <1>1, <2>5, <2>6
  <2>9. (z + y) + x = z + (y + x)
    <3> HIDE DEF x, y, z
    <3> QED BY <2>8
  <2> QED BY <2>3, <2>7, <2>9
<1>8. Nat \subseteq S
  <2> HIDE DEF S
  <2> QED BY <1>6, <1>7, NatInduct
<1>9. g[n + 1] = s[1] + f[n]
  BY <1>1, <1>8
<1>10. Bytes(s) = g[n + 1] /\ Bytes(t) = f[n]
  BY <1>1, <1>2, <1>3, BytesIsSum
<1> QED BY <1>1, <1>9, <1>10 DEF t

-----------------------------------------------------------------------------
(* The ring is a queue.  Its packets are a sequence of Count of them, each *)
(* in a place of its own, none of them in the place that is written next.  *)
LEMMA ContentsPlaced ==
  ASSUME QueueInv
  PROVE  /\ First \in Places /\ Count \in 0 .. RingSize - 1
         /\ \A i \in 1 .. Count : PlaceOf(i) \in Places /\ PlaceOf(i) # tail
<1>1. head \in Places /\ tail \in Places /\ First \in Places
  BY AfterIsPlace DEF QueueInv, QueueTypeOK, First
<1> QED
  BY <1>1, QueueAssumption DEF Places, Count, PlaceOf

LEMMA FunIsSeq ==
  ASSUME NEW S, NEW n \in Nat, NEW f \in [1 .. n -> S]
  PROVE  f \in Seq(S) /\ Len(f) = n
<1>1. f \in Seq(S)
  BY SeqDef
<1>2. Len(f) \in Nat /\ 1 .. Len(f) = 1 .. n
  BY <1>1, LenProperties
<1> QED BY <1>1, <1>2

LEMMA ContentsIsSeq ==
  QueueInv => /\ Contents \in Seq(Sizes \cup {0}) /\ Len(Contents) = Count
              /\ \A i \in 1 .. Count : Contents[i] = buf[PlaceOf(i)]
<1> HAVE QueueInv
<1>1. Count \in Nat /\ \A i \in 1 .. Count : buf[PlaceOf(i)] \in Sizes \cup {0}
  BY ContentsPlaced, QueueAssumption DEF QueueInv, QueueTypeOK
<1>2. Contents \in [1 .. Count -> Sizes \cup {0}]
  BY <1>1 DEF Contents
<1>3. Contents \in Seq(Sizes \cup {0}) /\ Len(Contents) = Count
  BY <1>1, <1>2, FunIsSeq
<1> QED BY <1>3 DEF Contents

LEMMA EmptyContents == QueueInv /\ tail = First => Contents = <<>>
<1> SUFFICES ASSUME QueueInv, tail = First PROVE Contents = <<>>
  OBVIOUS
<1>1. Count = 0
  BY ContentsPlaced DEF Count, Places
<1> QED
  BY <1>1, ContentsIsSeq, EmptySeq

(* A step that leaves both ends alone and no packet changed is a stutter.  *)
LEMMA ContentsKept ==
  ASSUME First' = First, tail' = tail,
         \A i \in 1 .. Count : buf'[PlaceOf(i)] = buf[PlaceOf(i)]
  PROVE  Contents' = Contents
<1>1. Count' = Count /\ \A i : PlaceOf(i)' = PlaceOf(i)
  BY DEF Count, PlaceOf
<1> QED BY <1>1 DEF Contents

(* What the media thread publishes is put in, behind the others. *)
LEMMA PublishPuts ==
  ASSUME QueueInv, QueueInv', Publish
  PROVE  pkt \in Sizes /\ Fifo!Put(pkt)
<1>1. /\ head \in Places /\ tail \in Places /\ First \in Places
      /\ tail' = After(tail) /\ UNCHANGED <<buf, head, dat>> /\ at = "publish"
  BY ContentsPlaced DEF Publish, Go, decoder, QueueInv, QueueTypeOK
<1>2. First' = First /\ \A i : PlaceOf(i)' = PlaceOf(i)
  BY <1>1 DEF First, PlaceOf
<1>3. After(tail) # First
  BY <1>1, AfterDiffers DEF QueueInv, RoomToWrite, PacketToTake, Full, First
<1>4. Count < RingSize - 1 /\ Count' = Count + 1 /\ PlaceOf(Count + 1) = tail
  BY <1>1, <1>2, <1>3, QueueAssumption DEF Count, Places, After, PlaceOf
<1>5. pkt \in Sizes /\ buf[tail] = pkt
  BY <1>1 DEF QueueInv, PacketInHand, Written
<1>6. (QueueInv => /\ Contents \in Seq(Sizes \cup {0}) /\ Len(Contents) = Count
                   /\ \A i \in 1 .. Count : Contents[i] = buf[PlaceOf(i)])'
  BY ContentsIsSeq, PTL
<1>7. /\ Contents' \in Seq(Sizes \cup {0}) /\ Len(Contents') = Count + 1
      /\ \A i \in 1 .. Count + 1 : Contents'[i] = buf[PlaceOf(i)]
  BY <1>1, <1>2, <1>4, <1>6
<1>8. /\ Contents \in Seq(Sizes \cup {0}) /\ Len(Contents) = Count /\ Count \in Nat
      /\ \A i \in 1 .. Count : Contents[i] = buf[PlaceOf(i)]
  BY ContentsIsSeq, ContentsPlaced
<1>9. /\ Append(Contents, pkt) \in Seq(Sizes \cup {0})
      /\ Len(Append(Contents, pkt)) = Count + 1
      /\ \A i \in 1 .. Count + 1 : Append(Contents, pkt)[i] = buf[PlaceOf(i)]
  BY <1>4, <1>5, <1>8
<1>10. Contents' = Append(Contents, pkt)
  BY <1>7, <1>8, <1>9, SeqEqual
<1> QED BY <1>4, <1>5, <1>8, <1>10 DEF Fifo!Put

(* What the decode thread moves out of its place is taken, the first. *)
LEMMA MoveTakes ==
  ASSUME QueueInv, QueueInv', Move
  PROVE  Fifo!Take
<1>1. /\ head \in Places /\ tail \in Places /\ head # tail
      /\ UNCHANGED <<head, tail>> /\ dat = "move" /\ dat' = "store"
      /\ \A i \in Places : i # head => buf'[i] = buf[i]
  BY DEF Move, QueueInv, QueueTypeOK, PacketToTake
<1>2. First = head /\ First' = After(head)
  BY <1>1 DEF First, After
<1>3. /\ Count \in Nat /\ Count > 0 /\ Count' = Count - 1
      /\ \A i \in 1 .. Count - 1 : PlaceOf(i)' = PlaceOf(i + 1)
      /\ \A i \in 1 .. Count - 1 : PlaceOf(i + 1) \in Places /\ PlaceOf(i + 1) # head
  BY <1>1, <1>2, QueueAssumption DEF Count, Places, After, PlaceOf
<1>4. (QueueInv => /\ Contents \in Seq(Sizes \cup {0}) /\ Len(Contents) = Count
                   /\ \A i \in 1 .. Count : Contents[i] = buf[PlaceOf(i)])'
  BY ContentsIsSeq, PTL
<1>5. /\ Contents' \in Seq(Sizes \cup {0}) /\ Len(Contents') = Count - 1
      /\ \A i \in 1 .. Count - 1 : Contents'[i] = buf[PlaceOf(i + 1)]
  BY <1>1, <1>3, <1>4
<1>6. /\ Contents \in Seq(Sizes \cup {0}) /\ Len(Contents) = Count
      /\ \A i \in 1 .. Count : Contents[i] = buf[PlaceOf(i)]
  BY ContentsIsSeq
<1>7. Contents # <<>>
  BY <1>3, <1>6, EmptySeq
<1>8. /\ Tail(Contents) \in Seq(Sizes \cup {0}) /\ Len(Tail(Contents)) = Count - 1
      /\ \A i \in 1 .. Count - 1 : Tail(Contents)[i] = buf[PlaceOf(i + 1)]
  BY <1>3, <1>6, <1>7, HeadTailProperties
<1>9. Contents' = Tail(Contents)
  BY <1>5, <1>8, SeqEqual
<1> QED BY <1>7, <1>9 DEF Fifo!Take

(* The two that throw the packets away leave an empty queue. *)
LEMMA EmptyingClears ==
  ASSUME QueueInv, QueueInv', SetUp \/ Discard
  PROVE  Fifo!Clear
<1>1. dat' = "out" /\ head' = tail'
  <2>1. CASE SetUp
    BY <2>1 DEF SetUp, decoder, QueueInv, QueueTypeOK
  <2>2. CASE Discard
    BY <2>2 DEF Discard, decoder, QueueInv, QueueTypeOK
  <2> QED BY <2>1, <2>2
<1>2. tail' = First'
  BY <1>1 DEF First
<1>3. (QueueInv /\ tail = First => Contents = <<>>)'
  BY EmptyContents, PTL
<1> QED BY <1>2, <1>3 DEF Fifo!Clear

(* Every other step leaves the queue as it is. *)
LEMMA RestStutters ==
  ASSUME QueueInv, [QueueNext]_vars, ~Publish, ~Move, ~SetUp, ~Discard
  PROVE  Contents' = Contents
<1>1. ASSUME UNCHANGED <<ring, dat>> PROVE Contents' = Contents
  BY <1>1, ContentsKept DEF ring, First, After
<1>2. ASSUME UNCHANGED ring, dat # "store", dat' # "store" PROVE Contents' = Contents
  BY <1>2, ContentsKept DEF ring, First
<1>3. CASE UNCHANGED vars
  BY <1>1, <1>3 DEF vars, decoder
<1>4. ASSUME NEW p \in Sizes, Arrive(p) \/ OthersTake(p) \/ OthersGive(p)
      PROVE  Contents' = Contents
  BY <1>1, <1>4 DEF Arrive, OthersTake, OthersGive, decoder
<1>5. CASE MediaStep
  <2>1. CASE Write
    <3>1. /\ UNCHANGED <<head, tail, dat>> /\ tail \in Places
          /\ \A i \in Places : i # tail => buf'[i] = buf[i]
      BY <2>1 DEF Write, decoder, QueueInv, QueueTypeOK
    <3> QED BY <3>1, ContentsKept, ContentsPlaced DEF First, After
  <2>2. CASE ~Write
    BY <1>1, <1>5, <2>2
       DEF MediaStep, ReadTotal, ReadLocal, TakeTotal, TryAgain, TakeSlot, LookFull,
           GiveBackSlot, GiveBackTotal, Schedule, decoder
  <2> QED BY <2>1, <2>2
<1>6. CASE DecodeStep
  <2>1. CASE StoreHead
    <3>1. UNCHANGED <<buf, tail>> /\ First' = First
      BY <2>1 DEF StoreHead, First
    <3> QED BY <3>1, ContentsKept
  <2>2. CASE ~StoreHead
    <3>1. UNCHANGED ring /\ dat' # "store"
      BY <1>6, <2>2
         DEF DecodeStep, BeginDrain, Pull, ReleaseSlot, ReleaseTotal, StopPulling, EndDrain
    <3>2. dat # "store"
      BY <1>6, <2>2
         DEF DecodeStep, BeginDrain, Pull, ReleaseSlot, ReleaseTotal, StopPulling, EndDrain,
             QueueInv, QueueTypeOK
    <3> QED BY <1>2, <3>1, <3>2
  <2> QED BY <2>1, <2>2
<1>7. CASE UiStep \/ TearDown
  BY <1>1, <1>7
     DEF UiStep, OnIngressDrainFinished, DrainTheRest, CallbackGone, TearDown, decoder
<1> QED
  BY <1>3, <1>4, <1>5, <1>6, <1>7 DEF QueueNext

(* Correctness of the ring, for any size of it: stored into by one thread  *)
(* and read by another without a lock, with the pipeline set up and torn   *)
(* down in between, it implements the queue of PacketFifo.                 *)
THEOREM RingIsFifo == QueueSpec => ImplementsFifo
<1>1. QueueInit => Fifo!FifoInit
  <2> SUFFICES ASSUME QueueInit PROVE Contents = <<>>
    BY DEF Fifo!FifoInit
  <2>1. QueueInv /\ tail = First
    BY QueueInitHolds DEF QueueInit, First
  <2> QED BY <2>1, EmptyContents
<1>2. QueueInv /\ QueueInv' /\ [QueueNext]_vars => [Fifo!FifoNext]_Contents
  <2> SUFFICES ASSUME QueueInv, QueueInv', [QueueNext]_vars
               PROVE  Fifo!FifoNext \/ Contents' = Contents
    OBVIOUS
  <2>1. CASE Publish
    BY <2>1, PublishPuts DEF Fifo!FifoNext
  <2>2. CASE Move
    BY <2>2, MoveTakes DEF Fifo!FifoNext
  <2>3. CASE SetUp \/ Discard
    BY <2>3, EmptyingClears DEF Fifo!FifoNext
  <2> QED BY <2>1, <2>2, <2>3, RestStutters
<1> QED
  BY <1>1, <1>2, QueueInvAlways, PTL DEF QueueSpec, ImplementsFifo, Fifo!FifoSpec

-----------------------------------------------------------------------------
(* The budget.  The media thread has seen that its packet is within both   *)
(* limits, the decode thread cannot break that, and the others never move  *)
(* the total where the exchange would not notice; a pipeline that is down  *)
(* has left nothing in its ring.                                           *)
WithinLimits ==
  /\ at \in {"local", "cas"} => seen + pkt <= MaxGlobalBytes
  /\ at \in {"cas", "add"} => slotBytes + pkt <= MaxSlotBytes

DownIsEmpty == ui = "down" => head = tail

BudgetInv == BudgetAccounted /\ WithinLimits /\ DownIsEmpty

LEMMA BudgetStarts == QueueInit => BudgetInv
<1> SUFFICES ASSUME QueueInit PROVE BudgetInv
  OBVIOUS
<1>1. QueueInv /\ tail = First
  BY QueueInitHolds DEF QueueInit, First
<1>2. Bytes(Contents) = 0
  BY <1>1, EmptyContents, BytesEmpty
<1>3. Held = 0
  BY <1>2 DEF QueueInit, Held, InHand
<1> QED
  BY <1>3, QueueAssumption
     DEF QueueInit, BudgetInv, BudgetAccounted, WithinLimits, DownIsEmpty

(* What each step does to the bytes in the ring. *)
LEMMA BytesInRing == QueueInv => Contents \in Seq(Nat) /\ Bytes(Contents) \in Nat
<1> HAVE QueueInv
<1>1. /\ Contents \in Seq(Sizes \cup {0}) /\ Len(Contents) = Count /\ Count \in Nat
      /\ \A x \in Sizes \cup {0} : x \in Nat
  BY ContentsIsSeq, ContentsPlaced, QueueAssumption
<1>2. Contents \in [1 .. Count -> Nat]
  BY <1>1
<1> QED BY <1>1, <1>2, FunIsSeq, BytesNat

LEMMA PublishAdds ==
  ASSUME QueueInv, QueueInv', Publish
  PROVE  Bytes(Contents') = Bytes(Contents) + pkt
<1>1. pkt \in Nat /\ Contents' = Append(Contents, pkt)
  BY PublishPuts, QueueAssumption DEF Fifo!Put
<1> QED BY <1>1, BytesInRing, BytesAppend

LEMMA MoveRemoves ==
  ASSUME QueueInv, QueueInv', Move
  PROVE  Bytes(Contents) = out' + Bytes(Contents')
<1>1. Contents # <<>> /\ Contents' = Tail(Contents)
  BY MoveTakes DEF Fifo!Take
<1>2. First = head /\ head \in Places /\ out' = buf[head]
  BY DEF Move, First, QueueInv, QueueTypeOK
<1>3. Len(Contents) = Count /\ Contents \in Seq(Sizes \cup {0})
      /\ \A i \in 1 .. Count : Contents[i] = buf[PlaceOf(i)]
  BY ContentsIsSeq
<1>4. Count \in Nat /\ 1 \in 1 .. Count
  BY <1>1, <1>3, EmptySeq
<1>5. PlaceOf(1) = head
  BY <1>2, QueueAssumption DEF PlaceOf, Places
<1>6. Head(Contents) = out'
  BY <1>1, <1>2, <1>3, <1>4, <1>5
<1> QED BY <1>1, <1>6, BytesInRing, BytesTail

LEMMA EmptyingZeroes ==
  ASSUME QueueInv, QueueInv', SetUp \/ Discard
  PROVE  Bytes(Contents') = 0
BY EmptyingClears, BytesEmpty DEF Fifo!Clear

(* Each step books what it does to the bytes in the ring and in hand.      *)
LEMMA BudgetKept ==
  ASSUME QueueInv, QueueInv', BudgetInv, [QueueNext]_vars
  PROVE  BudgetInv'
<1> DEFINE b == Bytes(Contents)
           c == Bytes(Contents')
<1>1. b \in Nat /\ c \in Nat
  <2>1. (QueueInv => Contents \in Seq(Nat) /\ Bytes(Contents) \in Nat)'
    BY BytesInRing, PTL
  <2> QED BY <2>1, BytesInRing
<1>2. /\ pkt \in Nat /\ out \in Nat /\ pkt' \in Nat /\ out' \in Nat
      /\ MaxSlotBytes \in Nat /\ MaxGlobalBytes \in Nat /\ MaxOthers \in Nat
      /\ Sizes \subseteq Nat
  BY QueueAssumption DEF QueueInv, QueueTypeOK
<1>3. /\ slotBytes \in Nat /\ total \in Nat /\ others \in Nat /\ seen \in Nat
      /\ slotBytes = b + (IF at \in {"look", "write", "publish", "back"} THEN pkt ELSE 0)
                        + (IF dat \in {"store", "slot"} THEN out ELSE 0)
      /\ total = others + slotBytes + (IF at \in {"add", "backTotal"} THEN pkt ELSE 0)
                 + (IF dat = "sum" THEN out ELSE 0)
      /\ slotBytes <= MaxSlotBytes /\ total <= MaxGlobalBytes
      /\ at \in {"local", "cas"} => seen + pkt <= MaxGlobalBytes
      /\ at \in {"cas", "add"} => slotBytes + pkt <= MaxSlotBytes
      /\ ui = "down" => head = tail
  BY <1>1, <1>2 DEF BudgetInv, BudgetAccounted, WithinLimits, DownIsEmpty, Held, InHand
<1>4. SUFFICES
      /\ slotBytes' \in Nat /\ total' \in Nat /\ others' \in Nat /\ seen' \in Nat
      /\ slotBytes' = c + (IF at' \in {"look", "write", "publish", "back"} THEN pkt' ELSE 0)
                         + (IF dat' \in {"store", "slot"} THEN out' ELSE 0)
      /\ total' = others' + slotBytes' + (IF at' \in {"add", "backTotal"} THEN pkt' ELSE 0)
                 + (IF dat' = "sum" THEN out' ELSE 0)
      /\ slotBytes' <= MaxSlotBytes /\ total' <= MaxGlobalBytes
      /\ at' \in {"local", "cas"} => seen' + pkt' <= MaxGlobalBytes
      /\ at' \in {"cas", "add"} => slotBytes' + pkt' <= MaxSlotBytes
      /\ ui' = "down" => head' = tail'
  <2> SUFFICES slotBytes' = Held'
    BY <1>2 DEF BudgetInv, BudgetAccounted, WithinLimits, DownIsEmpty
  <2> HIDE DEF c
  <2>1. Held' = c + InHand'
    BY DEF Held, c
  <2> QED BY <1>1, <1>2, <2>1 DEF InHand
<1>5. ~Publish /\ ~Move /\ ~SetUp /\ ~Discard => c = b
  BY RestStutters
<1>6. Publish => c = b + pkt
  BY PublishAdds
<1>7. Move => b = out' + c
  BY MoveRemoves
<1>8. SetUp \/ Discard => c = 0
  BY EmptyingZeroes
<1> HIDE DEF b, c
(* The media thread; what the decode thread has in hand stays. *)
<1>9. CASE \E p \in Sizes : Arrive(p)
  <2>1. c = b
    BY <1>5, <1>9 DEF Arrive, Publish, Move, SetUp, Discard, Go, decoder, ring, media
  <2> QED BY <1>1, <1>2, <1>3, <1>9, <2>1 DEF Arrive, Go, ring, budget, decoder, Active
<1>10. CASE MediaStep
  <2>1. UNCHANGED <<dat, out, ui, others>> /\ ui' # "down" /\ pkt \in Sizes
    BY <1>10
       DEF MediaStep, ReadTotal, ReadLocal, TakeTotal, TryAgain, TakeSlot, LookFull, Write,
           Publish, GiveBackSlot, GiveBackTotal, Schedule, Go, budget, decoder, QueueInv,
           MediaIsOut, PacketInHand
  <2>2. at \notin {"publish"} => c = b
    BY <1>5, <1>10
       DEF MediaStep, ReadTotal, ReadLocal, TakeTotal, TryAgain, TakeSlot, LookFull, Write,
           Publish, GiveBackSlot, GiveBackTotal, Schedule, Go, Move, SetUp, Discard, decoder,
           ring, media
  <2>3. CASE ReadTotal
    <3>1. /\ at = "total" /\ UNCHANGED <<head, tail, slotBytes, total, others>>
          /\ \/ at' = "idle" /\ pkt' = 0 /\ seen' = 0
             \/ total + pkt <= MaxGlobalBytes /\ seen' = total /\ at' = "local" /\ pkt' = pkt
      BY <1>2, <1>3, <2>3 DEF ReadTotal, Return, ring, budget
    <3> QED BY <1>1, <1>2, <1>3, <2>1, <2>2, <3>1
  <2>4. CASE ReadLocal
    <3>1. /\ at = "local" /\ UNCHANGED <<head, tail, slotBytes, total, others>>
          /\ \/ at' = "idle" /\ pkt' = 0 /\ seen' = 0
             \/ slotBytes + pkt <= MaxSlotBytes /\ at' = "cas" /\ UNCHANGED <<pkt, seen>>
      BY <1>2, <1>3, <2>4 DEF ReadLocal, Return, ring, budget
    <3> QED BY <1>1, <1>2, <1>3, <2>1, <2>2, <3>1
  <2>5. CASE TakeTotal
    BY <1>1, <1>2, <1>3, <2>1, <2>2, <2>5 DEF TakeTotal, Go
  <2>6. CASE TryAgain
    BY <1>1, <1>2, <1>3, <2>1, <2>2, <2>6 DEF TryAgain, Go, budget
  <2>7. CASE TakeSlot
    BY <1>1, <1>2, <1>3, <2>1, <2>2, <2>7 DEF TakeSlot, Go
  <2>8. CASE LookFull
    BY <1>1, <1>2, <1>3, <2>1, <2>2, <2>8 DEF LookFull, budget
  <2>9. CASE Write
    BY <1>1, <1>2, <1>3, <2>1, <2>2, <2>9 DEF Write, Go, budget
  <2>10. CASE Publish
    BY <1>1, <1>2, <1>3, <1>6, <2>1, <2>10 DEF Publish, Go, budget
  <2>11. CASE GiveBackSlot
    BY <1>1, <1>2, <1>3, <2>1, <2>2, <2>11 DEF GiveBackSlot, Go
  <2>12. CASE GiveBackTotal
    BY <1>1, <1>2, <1>3, <2>1, <2>2, <2>12 DEF GiveBackTotal, Return
  <2>13. CASE Schedule
    BY <1>1, <1>2, <1>3, <2>1, <2>2, <2>13 DEF Schedule, Return, budget
  <2> QED
    BY <1>10, <2>3, <2>4, <2>5, <2>6, <2>7, <2>8, <2>9, <2>10, <2>11, <2>12, <2>13
       DEF MediaStep
(* The decode thread; the media thread may have read the total before. *)
<1>11. CASE DecodeStep
  <2>1. UNCHANGED <<at, pkt, seen, others, ui>>
    BY <1>11
       DEF DecodeStep, BeginDrain, Pull, Move, StoreHead, ReleaseSlot, ReleaseTotal,
           StopPulling, EndDrain, budget, media
  <2>2. dat # "move" => c = b
    BY <1>5, <1>11
       DEF DecodeStep, BeginDrain, Pull, Move, StoreHead, ReleaseSlot, ReleaseTotal,
           StopPulling, EndDrain, media, Publish, Go, SetUp, Discard
  <2>3. ui' # "down"
    BY <1>11, <2>1
       DEF DecodeStep, BeginDrain, Pull, Move, StoreHead, ReleaseSlot, ReleaseTotal,
           StopPulling, EndDrain, QueueInv, QueueTypeOK, DecoderIsOut
  <2>4. CASE BeginDrain
    BY <1>1, <1>2, <1>3, <2>1, <2>2, <2>3, <2>4 DEF BeginDrain, budget, QueueInv, QueueTypeOK
  <2>5. CASE Pull
    BY <1>1, <1>2, <1>3, <2>1, <2>2, <2>3, <2>5 DEF Pull, budget
  <2>6. CASE Move
    BY <1>1, <1>2, <1>3, <1>7, <2>1, <2>3, <2>6 DEF Move, budget
  <2>7. CASE StoreHead
    BY <1>1, <1>2, <1>3, <2>1, <2>2, <2>3, <2>7 DEF StoreHead, budget
  <2>8. CASE ReleaseSlot
    BY <1>1, <1>2, <1>3, <2>1, <2>2, <2>3, <2>8 DEF ReleaseSlot
  <2>9. CASE ReleaseTotal
    BY <1>1, <1>2, <1>3, <2>1, <2>2, <2>3, <2>9 DEF ReleaseTotal
  <2>10. CASE StopPulling
    BY <1>1, <1>2, <1>3, <2>1, <2>2, <2>3, <2>10 DEF StopPulling, budget
  <2>11. CASE EndDrain
    BY <1>1, <1>2, <1>3, <2>1, <2>2, <2>3, <2>11 DEF EndDrain, budget
  <2> QED
    BY <1>11, <2>4, <2>5, <2>6, <2>7, <2>8, <2>9, <2>10, <2>11 DEF DecodeStep
(* The UI thread empties the ring only when the other two are out of it.   *)
<1>12. CASE OnIngressDrainFinished \/ DrainTheRest \/ CallbackGone \/ TearDown
  <2>1. /\ UNCHANGED <<head, tail, slotBytes, total, others, at, pkt, seen, dat, out>>
        /\ ui' = "down" => ui = "down"
    BY <1>12
       DEF OnIngressDrainFinished, DrainTheRest, CallbackGone, TearDown, ring, budget,
           media, decoder
  <2>2. c = b
    BY <1>5, <1>12
       DEF OnIngressDrainFinished, DrainTheRest, CallbackGone, TearDown, Publish, Go, Move,
           SetUp, Discard, media, decoder
  <2> QED BY <1>1, <1>2, <1>3, <2>1, <2>2
<1>13. CASE Discard
  <2>1. at = "idle" /\ dat = "out"
    BY <1>13 DEF Discard, QueueInv, QueueTypeOK, MediaIsOut
  <2>2. slotBytes' = slotBytes - b /\ total' = total - b /\ head' = tail
        /\ UNCHANGED <<tail, others, at, pkt, seen, dat, out>>
    BY <1>13 DEF Discard, media, decoder, b
  <2> QED BY <1>1, <1>2, <1>3, <1>8, <1>13, <2>1, <2>2
<1>14. CASE SetUp
  <2>1. at = "idle" /\ dat = "out" /\ head = tail
    BY <1>3, <1>14 DEF SetUp, QueueInv, QueueTypeOK, MediaIsOut
  <2>2. tail = First
    BY <2>1 DEF First
  <2>3. b = 0
    BY <2>2, EmptyContents, BytesEmpty DEF b
  <2>4. /\ UNCHANGED <<slotBytes, total, others, at, pkt, seen, dat, out>>
        /\ ui' = "up"
    BY <1>14 DEF SetUp, budget, media, decoder
  <2> QED BY <1>1, <1>2, <1>3, <1>8, <1>14, <2>1, <2>3, <2>4
(* The other streams take and give of the total alone. *)
<1>15. CASE \E n \in Sizes : OthersTake(n) \/ OthersGive(n)
  <2>0. PICK n \in Sizes : OthersTake(n) \/ OthersGive(n)
    BY <1>15
  <2>1. UNCHANGED <<head, tail, slotBytes, at, pkt, seen, dat, out, ui>>
    BY <2>0 DEF OthersTake, OthersGive, ring, media, decoder
  <2>2. c = b
    BY <1>5, <2>0
       DEF OthersTake, OthersGive, Publish, Go, Move, SetUp, Discard, media, decoder
  <2>3. n \in Nat
    BY <1>2
  <2>4. CASE OthersTake(n)
    <3>1. total + n <= MaxGlobalBytes /\ total' = total + n /\ others' = others + n
      BY <2>4 DEF OthersTake
    <3> QED BY <1>1, <1>2, <1>3, <2>1, <2>2, <2>3, <3>1
  <2>5. CASE OthersGive(n)
    <3>1. n <= others /\ total' = total - n /\ others' = others - n
      BY <2>5 DEF OthersGive
    <3> QED BY <1>1, <1>2, <1>3, <2>1, <2>2, <2>3, <3>1
  <2> QED BY <2>0, <2>4, <2>5
<1>16. CASE UNCHANGED vars
  <2>1. c = b
    BY <1>16 DEF vars, ring, decoder, b, c, Contents, Count, First, PlaceOf, After
  <2> QED BY <1>1, <1>2, <1>3, <1>16, <2>1 DEF vars, ring, budget, media, decoder
<1> QED
  BY <1>9, <1>10, <1>11, <1>12, <1>13, <1>14, <1>15, <1>16 DEF QueueNext, UiStep

(* Correctness of ClientMediaBudget, for packets of any sizes, any limits  *)
(* and any ring: the counts are of just what is in the ring or in hand, so *)
(* that nothing leaks and no count is exceeded or falls below zero.        *)
THEOREM BudgetIsAccounted == QueueSpec => []BudgetAccounted
<1>1. QueueInv /\ QueueInv' /\ BudgetInv /\ [QueueNext]_vars => BudgetInv'
  BY BudgetKept
<1>2. BudgetInv => BudgetAccounted
  BY DEF BudgetInv
<1> QED
  BY <1>1, <1>2, BudgetStarts, QueueInvAlways, PTL DEF QueueSpec

=============================================================================
