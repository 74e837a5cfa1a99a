---------------------------- MODULE PacketQueue ----------------------------
(***************************************************************************)
(* The way of the packets of one video stream from the media thread to the *)
(* decode thread: a ring with one producer and one consumer (SPSCQueue),   *)
(* the byte budget the streams share (ClientMediaBudget), and the flag by  *)
(* which at most one call that drains the ring is posted to the decoder.   *)
(*                                                                         *)
(* Each access to an atomic variable is a step of its own.  The UI thread  *)
(* takes the news that a drain has finished, and sets the pipeline up and  *)
(* tears it down.  The other streams run the same code; here they are what *)
(* they do to the shared count.                                            *)
(*                                                                         *)
(* The jitter buffer is off, which is what the code does by default.       *)
(***************************************************************************)
EXTENDS Naturals, Sequences

CONSTANTS
  Sizes,                 \* a packet is its number of bytes
  RingSize,              \* 2048 in the code; one place always stays free
  MaxSlotBytes,          \* m_maxPerSlotBytes
  MaxGlobalBytes,        \* m_maxGlobalBytes
  MaxOthers,             \* bound: what the other streams hold at most
  Batch                  \* packets one drain takes at most: 384 in the code

VARIABLES
  buf, head, tail,       \* the ring
  slotBytes, total,      \* m_slotBytes of this stream, m_totalBytes
  others,                \* what the other streams have taken of total
  at,                    \* where the media thread stands in onMessage
  pkt, seen,             \* its packet, and the total it has read
  posted,                \* m_ingressDrainPosted
  drain,                 \* the call that drains: posted, running, finished
  dat, pulled,           \* where the decode thread stands in it
  out,                   \* the packet it has taken
  more,                  \* morePending, as the drain has reported it
  ui                     \* where the UI thread stands: down, up, ...

ring == <<buf, head, tail>>
budget == <<slotBytes, total, others>>
media == <<at, pkt, seen>>
decoder == <<drain, dat, pulled, out, more>>
vars == <<ring, budget, media, posted, decoder, ui>>

ASSUME QueueAssumption ==
  /\ Sizes \subseteq Nat \ {0} /\ Sizes # {}
  /\ RingSize \in Nat /\ RingSize >= 2
  /\ MaxSlotBytes \in Nat /\ MaxGlobalBytes \in Nat /\ MaxOthers \in Nat
  /\ Batch \in Nat \ {0}

Places == 0 .. RingSize - 1

(* (i + 1) & kMask *)
After(i) == IF i + 1 = RingSize THEN 0 ELSE i + 1

(* The packets in the ring: the one the decode thread has moved out of its *)
(* place is no longer there, although the place is not free yet.           *)
First == IF dat = "store" THEN After(head) ELSE head

Count == IF tail >= First THEN tail - First ELSE tail + RingSize - First

PlaceOf(i) ==
  IF First + i <= RingSize THEN First + i - 1 ELSE First + i - 1 - RingSize

Contents == [i \in 1 .. Count |-> buf[PlaceOf(i)]]

Full == After(tail) = head

(* m_decodePipelineActive; the callback is taken away right after. *)
Active == ui \in {"up", "reporting"}

(* The bytes of packets together. *)
Bytes(packets) ==
  LET sum[i \in 0 .. Len(packets)] ==
        IF i = 0 THEN 0 ELSE sum[i - 1] + packets[i]
  IN  sum[Len(packets)]

(* Bytes of this stream the budget counts: those in the ring and those the *)
(* two threads have in hand.                                               *)
InHand ==
  (IF at \in {"look", "write", "publish", "back"} THEN pkt ELSE 0)
  + (IF dat \in {"store", "slot"} THEN out ELSE 0)

Held == Bytes(Contents) + InHand

(* m_ingressDrainPosted is set just while a drain is posted, runs, or is   *)
(* about to be reported: two are never posted, and the flag is never left  *)
(* set with nobody to clear it, which would end the stream.                *)
FlagIsDrain == ui # "down" => (posted <=> drain # "none")

(* Every variable keeps its type, and the flag says whether a drain is     *)
(* under way.  The counts of bytes are the matter of BudgetAccounted.      *)
QueueTypeOK ==
  /\ buf \in [Places -> Sizes \cup {0}] /\ head \in Places /\ tail \in Places
  /\ at \in {"idle", "total", "local", "cas", "add", "look", "write", "publish",
             "back", "backTotal", "schedule"}
  /\ pkt \in Sizes \cup {0} /\ out \in Sizes \cup {0}
  /\ posted \in BOOLEAN /\ more \in BOOLEAN
  /\ drain \in {"none", "posted", "running", "finished"}
  /\ dat \in {"out", "pull", "move", "store", "slot", "sum", "report"}
  /\ pulled \in 0 .. Batch
  /\ ui \in {"down", "up", "reporting", "closing", "discarding"}
  /\ dat # "out" <=> drain = "running"
  /\ FlagIsDrain

QueueInit ==
  /\ buf = [i \in Places |-> 0] /\ head = 0 /\ tail = 0
  /\ slotBytes = 0 /\ total = 0 /\ others = 0
  /\ at = "idle" /\ pkt = 0 /\ seen = 0
  /\ posted = FALSE
  /\ drain = "none" /\ dat = "out" /\ pulled = 0 /\ out = 0 /\ more = FALSE
  /\ ui = "down"

-----------------------------------------------------------------------------
(* The media thread: onMessage and tryPush.                                *)

Go(here, there) == at = here /\ at' = there

(* Back to idle: what the call held in local variables is gone. *)
Return == at' = "idle" /\ pkt' = 0 /\ seen' = 0

Arrive(p) ==
  /\ Active
  /\ Go("idle", "total") /\ pkt' = p
  /\ UNCHANGED <<ring, budget, seen, posted, decoder, ui>>

ReadTotal ==
  /\ at = "total"
  /\ IF total + pkt > MaxGlobalBytes
       THEN Return
       ELSE seen' = total /\ at' = "local" /\ UNCHANGED pkt
  /\ UNCHANGED <<ring, budget, posted, decoder, ui>>

ReadLocal ==
  /\ at = "local"
  /\ IF slotBytes + pkt > MaxSlotBytes
       THEN Return
       ELSE at' = "cas" /\ UNCHANGED <<pkt, seen>>
  /\ UNCHANGED <<ring, budget, posted, decoder, ui>>

(* compare_exchange_weak; it may fail although nothing has changed. *)
TakeTotal ==
  /\ Go("cas", "add") /\ seen' = 0
  /\ total = seen
  /\ total' = total + pkt
  /\ UNCHANGED <<ring, slotBytes, others, pkt, posted, decoder, ui>>

TryAgain ==
  /\ Go("cas", "total") /\ seen' = 0
  /\ UNCHANGED <<ring, budget, pkt, posted, decoder, ui>>

TakeSlot ==
  /\ Go("add", "look")
  /\ slotBytes' = slotBytes + pkt
  /\ UNCHANGED <<ring, total, others, pkt, seen, posted, decoder, ui>>

(* Mutant: a ring that is full is taken for one that has room.             *)
LookFull_OneMore ==
  /\ at = "look"
  /\ at' = IF Count = RingSize THEN "back" ELSE "write"
  /\ UNCHANGED <<ring, budget, pkt, seen, posted, decoder, ui>>

LookFull ==
  /\ at = "look"
  /\ at' = IF Full THEN "back" ELSE "write"
  /\ UNCHANGED <<ring, budget, pkt, seen, posted, decoder, ui>>

Write ==
  /\ Go("write", "publish")
  /\ buf' = [buf EXCEPT ![tail] = pkt]
  /\ UNCHANGED <<head, tail, budget, pkt, seen, posted, decoder, ui>>

Publish ==
  /\ Go("publish", "schedule")
  /\ tail' = After(tail)
  /\ UNCHANGED <<buf, head, budget, pkt, seen, posted, decoder, ui>>

(* Mutant: what the budget gave is kept when the ring refuses the packet.  *)
GiveBackSlot_Kept ==
  /\ at = "back" /\ Return
  /\ UNCHANGED <<ring, budget, posted, decoder, ui>>

(* The ring is full: the budget gets its bytes back, in two steps. *)
GiveBackSlot ==
  /\ Go("back", "backTotal")
  /\ slotBytes' = slotBytes - pkt
  /\ UNCHANGED <<ring, total, others, pkt, seen, posted, decoder, ui>>

GiveBackTotal ==
  /\ at = "backTotal" /\ Return
  /\ total' = total - pkt
  /\ UNCHANGED <<ring, slotBytes, others, posted, decoder, ui>>

PostDrain ==
  IF posted THEN UNCHANGED <<posted, drain>>
            ELSE posted' = TRUE /\ drain' = "posted"

(* Mutant: only the packet that ends the emptiness of the ring schedules.  *)
Schedule_FirstOnly ==
  /\ at = "schedule" /\ Return
  /\ IF Active /\ Count = 1 THEN PostDrain ELSE UNCHANGED <<posted, drain>>
  /\ UNCHANGED <<ring, budget, dat, pulled, out, more, ui>>

(* scheduleIngressDrainFromAnyThread: only after a packet that got in. *)
Schedule ==
  /\ at = "schedule" /\ Return
  /\ IF Active THEN PostDrain ELSE UNCHANGED <<posted, drain>>
  /\ UNCHANGED <<ring, budget, dat, pulled, out, more, ui>>

MediaStep ==
  \/ ReadTotal \/ ReadLocal \/ TakeTotal \/ TryAgain \/ TakeSlot
  \/ LookFull \/ Write \/ Publish \/ GiveBackSlot \/ GiveBackTotal \/ Schedule

-----------------------------------------------------------------------------
(* The decode thread: drainRtpIngressQueue and pop.                        *)

BeginDrain ==
  /\ drain = "posted" /\ drain' = "running"
  /\ dat' = "pull"
  /\ UNCHANGED <<ring, budget, media, posted, pulled, out, more, ui>>

Pull ==
  /\ dat = "pull" /\ pulled < Batch /\ head # tail
  /\ dat' = "move"
  /\ UNCHANGED <<ring, budget, media, posted, drain, pulled, out, more, ui>>

Move ==
  /\ dat = "move" /\ dat' = "store"
  /\ out' = buf[head]
  /\ buf' = [buf EXCEPT ![head] = 0]
  /\ UNCHANGED <<head, tail, budget, media, posted, drain, pulled, more, ui>>

StoreHead ==
  /\ dat = "store" /\ dat' = "slot"
  /\ head' = After(head)
  /\ UNCHANGED <<buf, tail, budget, media, posted, drain, pulled, out, more, ui>>

ReleaseSlot ==
  /\ dat = "slot" /\ dat' = "sum"
  /\ slotBytes' = slotBytes - out
  /\ UNCHANGED <<ring, total, others, media, posted, drain, pulled, out, more, ui>>

ReleaseTotal ==
  /\ dat = "sum" /\ dat' = "pull"
  /\ total' = total - out
  /\ pulled' = pulled + 1 /\ out' = 0
  /\ UNCHANGED <<ring, slotBytes, others, media, posted, drain, more, ui>>

(* The batch is full, or the ring is found empty.                          *)
StopPulling ==
  /\ dat = "pull" /\ (pulled = Batch \/ head = tail)
  /\ dat' = "report"
  /\ UNCHANGED <<ring, budget, media, posted, drain, pulled, out, more, ui>>

(* What is reported is what the ring looks like by now. *)
EndDrain ==
  /\ dat = "report" /\ dat' = "out"
  /\ /\ drain' = "finished" /\ pulled' = 0
  /\ more' = (head # tail)
  /\ UNCHANGED <<ring, budget, media, posted, out, ui>>

DecodeStep ==
  \/ BeginDrain \/ Pull \/ Move \/ StoreHead \/ ReleaseSlot \/ ReleaseTotal
  \/ StopPulling \/ EndDrain

-----------------------------------------------------------------------------
(* The UI thread.                                                          *)

(* Mutant: the flag is cleared only when nothing more is to be drained.    *)
OnIngressDrainFinished_IfEmpty ==
  /\ drain = "finished" /\ ui \in {"down", "up"}
  /\ drain' = "none"
  /\ posted' = (posted /\ more)
  /\ ui' = IF more /\ Active THEN "reporting" ELSE ui
  /\ more' = FALSE
  /\ UNCHANGED <<ring, budget, media, dat, pulled, out>>

(* onIngressDrainFinished, first half: the flag falls. *)
OnIngressDrainFinished ==
  /\ drain = "finished" /\ ui \in {"down", "up"}
  /\ drain' = "none"
  /\ posted' = FALSE
  /\ ui' = IF more /\ Active THEN "reporting" ELSE ui
  /\ more' = FALSE
  /\ UNCHANGED <<ring, budget, media, dat, pulled, out>>

(* Second half: the rest of the ring is drained, unless the media thread   *)
(* has seen to it by now.                                                  *)
DrainTheRest ==
  /\ ui = "reporting" /\ ui' = "up"
  /\ PostDrain
  /\ UNCHANGED <<ring, budget, media, dat, pulled, out, more>>

(* setupVideoDecoder: a new ring.  News of an old drain was posted to this *)
(* thread before, and is taken before.                                     *)
SetUp ==
  /\ ui = "down" /\ drain = "none"
  /\ ui' = "up"
  /\ head' = 0 /\ tail' = 0
  /\ posted' = FALSE
  /\ UNCHANGED <<buf, budget, media, decoder>>

(* teardownMediaPipeline.  Taking the callback away waits until the media  *)
(* thread is out of it; then the decode thread, which runs the calls posted*)
(* to it first, empties the ring.                                          *)
TearDown ==
  /\ ui = "up" /\ ui' = "closing"
  /\ UNCHANGED <<ring, budget, media, posted, decoder>>

CallbackGone ==
  /\ ui = "closing" /\ at = "idle"
  /\ ui' = "discarding"
  /\ UNCHANGED <<ring, budget, media, posted, decoder>>

Discard ==
  /\ ui = "discarding" /\ drain \notin {"posted", "running"}
  /\ ui' = "down"
  /\ head' = tail
  /\ slotBytes' = slotBytes - Bytes(Contents)
  /\ total' = total - Bytes(Contents)
  /\ posted' = FALSE
  /\ UNCHANGED <<buf, tail, others, media, decoder>>

UiStep == OnIngressDrainFinished \/ DrainTheRest \/ CallbackGone \/ Discard

OthersTake(n) ==
  /\ total + n <= MaxGlobalBytes /\ others + n <= MaxOthers
  /\ total' = total + n /\ others' = others + n
  /\ UNCHANGED <<ring, slotBytes, media, posted, decoder, ui>>

OthersGive(n) ==
  /\ n <= others
  /\ total' = total - n /\ others' = others - n
  /\ UNCHANGED <<ring, slotBytes, media, posted, decoder, ui>>

QueueNext ==
  \/ \E p \in Sizes : Arrive(p) \/ OthersTake(p) \/ OthersGive(p)
  \/ MediaStep \/ DecodeStep \/ UiStep \/ SetUp \/ TearDown

(* The three threads run, packets keep coming, and a comparison of the     *)
(* total that is tried again and again succeeds some time: the others may  *)
(* change the total between, but not by intent each time.                  *)
QueueFairness ==
  /\ []<><<TryAgain>>_vars => []<><<TakeTotal>>_vars
  /\ WF_vars(MediaStep) /\ WF_vars(DecodeStep) /\ WF_vars(UiStep)
  /\ \A p \in Sizes : WF_vars(Arrive(p))

QueueSpec == QueueInit /\ [][QueueNext]_vars /\ QueueFairness

-----------------------------------------------------------------------------
(* The ring, stored into by one thread and read by another without a lock, *)
(* across set-up and tear-down, is a queue: packets come out as they went  *)
(* in.                                                                     *)
Fifo == INSTANCE PacketFifo
          WITH items <- Contents, Packets <- Sizes, Capacity <- RingSize - 1

ImplementsFifo == Fifo!FifoSpec

(* The budget counts just what is in the ring or in hand, so it leaks      *)
(* nothing when a packet is refused, a pipeline torn down or the count     *)
(* changed by the others meanwhile; no count falls below zero, and no      *)
(* limit is exceeded.                                                      *)
BudgetAccounted ==
  /\ {slotBytes, total, others, seen} \subseteq Nat
  /\ slotBytes = Held
  /\ total = others + slotBytes
             + (IF at \in {"add", "backTotal"} THEN pkt ELSE 0)
             + (IF dat = "sum" THEN out ELSE 0)
  /\ slotBytes <= MaxSlotBytes /\ total <= MaxGlobalBytes

(* A packet may be refused: for this stream's own bounds, or by the total. *)
OwnFull == Full \/ \E p \in Sizes : slotBytes + p > MaxSlotBytes

GlobalFull == \E p \in Sizes : total + p > MaxGlobalBytes

(* A drain that reports an empty ring may have overlooked a packet; it gets *)
(* out all the same, because the next packet that gets in has the ring      *)
(* drained.  The exceptions: the ring fills up while the news of the drain  *)
(* waits for the UI thread, or the streams together use the budget up.      *)
GetsOutUnlessStalled ==
  \A h \in Places :
    (head = h /\ Count > 0 /\ ~OwnFull)
      ~> (head # h \/ ~Active \/ (OwnFull /\ drain # "none") \/ GlobalFull)
=============================================================================
