--------------------------- MODULE VideoLinkProofs ---------------------------
(***************************************************************************)
(* Proofs about VideoLink, for any streams, any limits of attempts and any *)
(* lead of the library over the UI thread: a connection that is up is      *)
(* shown or will be, and one the user has closed is opened again by        *)
(* nothing but a single-shot retry.                                        *)
(***************************************************************************)
EXTENDS VideoLink, TLAPS

(* The reports that hide the video. *)
Hides == {"Disconnected", "Failed", "Closed"}

(* While a connection is up, nothing is posted that would hide it once its *)
(* own report is taken, and nothing at all once that has been taken.       *)
NothingHides(l, first) ==
  \A i \in DOMAIN l.posts : i >= first => l.posts[i].what \notin Hides

ConnectionTold(l) ==
  l.pc = "up" =>
    \/ l.shown /\ NothingHides(l, 1)
    \/ \E i \in DOMAIN l.posts :
         /\ l.posts[i] = [what |-> "Connected", current |-> TRUE]
         /\ NothingHides(l, i)

(* A stream the user does not want was closed by the user, unless it has   *)
(* never been started.                                                     *)
NeverStarted(l) ==
  /\ l.timer = "off" /\ l.late = 0 /\ l.reply = "none"
  /\ l.pc = "none" /\ l.posts = <<>>

UnwantedIsClosed(l) == l.wanted \/ l.manual \/ NeverStarted(l)

TimerFits(l) ==
  /\ l.scheduled => l.timer = "retry"
  /\ l.manual => l.timer = "off"

(* Once the present connection has its answer, none is awaited any more,   *)
(* and no further offer will be sent for it.                               *)
Settled == {"answered", "up", "down"}
ReplyFits(l) ==
  /\ l.reply = "current" => l.offerSent
  /\ l.pc \in Settled => l.reply = "none" /\ l.offerSent

Shaped(l) == l \in Links /\ Len(l.posts) <= MaxPosts

LinkOK(l) ==
  /\ Shaped(l) /\ TimerFits(l) /\ ConnectionTold(l) /\ UnwantedIsClosed(l)
  /\ ReplyFits(l)

VideoInv ==
  /\ link \in [Streams -> Links]
  /\ {polling, asked, dispatched} \subseteq BOOLEAN
  /\ \A s \in Streams : LinkOK(link[s])

(* A step opens a connection the user does not want. *)
Opens(s) ==
  /\ ~link[s].wanted /\ ~link'[s].wanted
  /\ link[s].pc = "none" /\ link'[s].pc # "none"

-----------------------------------------------------------------------------
(* What the methods make of a link.                                        *)

LEMMA AgedMeans ==
  ASSUME NEW l \in Links
  PROVE  /\ Aged(l) \in Links /\ Len(Aged(l).posts) = Len(l.posts)
         /\ \A i \in DOMAIN l.posts : Aged(l).posts[i].what = l.posts[i].what
         /\ Aged(l).wanted = l.wanted /\ Aged(l).manual = l.manual
         /\ Aged(l).timer = l.timer /\ Aged(l).scheduled = l.scheduled
         /\ Aged(l).late = l.late /\ Aged(l).reply # "current"
<1> DEFINE aged == [i \in DOMAIN l.posts |-> [l.posts[i] EXCEPT !.current = FALSE]]
           reply == IF l.reply = "none" THEN "none" ELSE "old"
<1>1. l.posts \in Seq(Posts) /\ reply \in {"none", "old"}
  BY DEF Links
<1>2. \A p \in Posts : /\ [p EXCEPT !.current = FALSE] \in Posts
                       /\ [p EXCEPT !.current = FALSE].what = p.what
  BY DEF Posts
<1>3. DOMAIN l.posts = 1 .. Len(l.posts) /\ Len(l.posts) \in Nat
  BY <1>1
<1>4. \A i \in 1 .. Len(l.posts) : l.posts[i] \in Posts
  BY <1>1
<1>5. aged \in [1 .. Len(l.posts) -> Posts]
        /\ \A i \in 1 .. Len(l.posts) : aged[i].what = l.posts[i].what
  BY <1>2, <1>3, <1>4
<1>6. aged \in Seq(Posts) /\ Len(aged) = Len(l.posts)
  BY <1>3, <1>5
<1>7. Aged(l) = [l EXCEPT !.posts = aged, !.sdpCurrent = FALSE, !.reply = reply]
  BY DEF Aged, Links
<1> HIDE DEF aged, reply
<1>8. Aged(l) \in Links
  BY <1>1, <1>6, <1>7 DEF Links
<1>9. Aged(l).posts = aged
  BY <1>7 DEF Links
<1>10. /\ Aged(l).wanted = l.wanted /\ Aged(l).manual = l.manual
       /\ Aged(l).timer = l.timer /\ Aged(l).scheduled = l.scheduled
       /\ Aged(l).late = l.late /\ Aged(l).reply = reply
  BY <1>7 DEF Links
<1> QED BY <1>1, <1>3, <1>5, <1>6, <1>8, <1>9, <1>10

LEMMA TeardownMeans ==
  ASSUME NEW l, Shaped(l), NEW t \in Teardown(l)
  PROVE  /\ Shaped(t) /\ t.pc = "none" /\ t.reply # "current"
         /\ t.wanted = l.wanted /\ t.manual = l.manual /\ t.timer = l.timer
         /\ t.scheduled = l.scheduled /\ t.late = l.late
<1> DEFINE gone == [Aged(l) EXCEPT !.pc = "none"]
<1>1. l \in Links
  BY DEF Shaped
<1>2. /\ Shaped(gone) /\ gone.pc = "none" /\ gone.reply # "current"
      /\ Len(gone.posts) = Len(l.posts)
      /\ gone.wanted = l.wanted /\ gone.manual = l.manual /\ gone.timer = l.timer
      /\ gone.scheduled = l.scheduled /\ gone.late = l.late
  <2> DEFINE aged == Aged(l)
  <2>1. /\ aged \in Links /\ Len(aged.posts) = Len(l.posts)
        /\ aged.wanted = l.wanted /\ aged.manual = l.manual /\ aged.timer = l.timer
        /\ aged.scheduled = l.scheduled /\ aged.late = l.late
        /\ aged.reply # "current"
    BY <1>1, AgedMeans
  <2> HIDE DEF aged
  <2>2. gone = [aged EXCEPT !.pc = "none"]
    BY DEF aged
  <2> HIDE DEF gone
  <2>3. gone \in Links
    BY <2>1, <2>2 DEF Links, PcStates
  <2>4. /\ gone.pc = "none" /\ gone.posts = aged.posts /\ gone.reply = aged.reply
        /\ gone.wanted = aged.wanted /\ gone.manual = aged.manual
        /\ gone.timer = aged.timer /\ gone.scheduled = aged.scheduled
        /\ gone.late = aged.late
    BY <2>1, <2>2 DEF Links
  <2> QED BY <2>1, <2>3, <2>4 DEF Shaped
<1>3. \/ t = gone
      \/ t = [gone EXCEPT !.posts = Append(gone.posts, Closing)] /\ Len(l.posts) < MaxPosts
  BY <1>2 DEF Teardown, Shaped, Links
<1> HIDE DEF gone
<1>4. CASE t = [gone EXCEPT !.posts = Append(gone.posts, Closing)] /\ Len(l.posts) < MaxPosts
  <2>1. Closing \in Posts /\ gone.posts \in Seq(Posts) /\ gone \in Links
    BY <1>2 DEF Closing, Posts, Reports, Shaped, Links
  <2> DEFINE more == Append(gone.posts, Closing)
  <2>2. more \in Seq(Posts) /\ Len(more) = Len(gone.posts) + 1
    BY <2>1
  <2>3. t = [gone EXCEPT !.posts = more]
    BY <1>4
  <2> HIDE DEF more
  <2>4. Len(more) <= MaxPosts
    BY <1>1, <1>2, <1>4, <2>2, VideoAssumption DEF Links
  <2>5. t \in Links /\ t.posts = more /\ t.reply = gone.reply
    BY <2>1, <2>2, <2>3 DEF Links
  <2> QED BY <1>2, <2>1, <2>3, <2>4, <2>5 DEF Shaped, Links
<1> QED BY <1>2, <1>3, <1>4

(* A link without a connection that is up has nothing to tell. *)
LEMMA DownIsTold == ASSUME NEW l, l.pc # "up" PROVE ConnectionTold(l)
BY DEF ConnectionTold

LEMMA DoConnectMeans ==
  ASSUME NEW l, Shaped(l), TimerFits(l), l.wanted \/ l.manual,
         NEW d \in DoConnect(l)
  PROVE  LinkOK(d) /\ d.wanted = l.wanted /\ d.manual = l.manual /\ d.pc = "new"
<1>1. PICK t \in Teardown(l) :
        d = [t EXCEPT !.offerSent = FALSE, !.shown = FALSE, !.pc = "new"]
  BY DEF DoConnect
<1>2. /\ Shaped(t)
      /\ t.wanted = l.wanted /\ t.manual = l.manual /\ t.timer = l.timer
      /\ t.scheduled = l.scheduled /\ t.reply # "current"
  BY TeardownMeans
<1>3. /\ Shaped(d) /\ d.pc = "new" /\ d.reply # "current"
      /\ d.wanted = l.wanted /\ d.manual = l.manual /\ d.timer = l.timer
      /\ d.scheduled = l.scheduled
  <2>0. t \in Links /\ "new" \in PcStates
    BY <1>2 DEF Shaped, PcStates
  <2>1. d \in Links
    BY <1>1, <2>0 DEF Links
  <2>2. /\ d.pc = "new" /\ d.posts = t.posts /\ d.wanted = t.wanted
        /\ d.manual = t.manual /\ d.timer = t.timer /\ d.scheduled = t.scheduled
        /\ d.reply = t.reply
    BY <1>1, <2>0 DEF Links
  <2> QED BY <1>2, <2>1, <2>2 DEF Shaped
<1> QED
  BY <1>3, DownIsTold DEF LinkOK, TimerFits, UnwantedIsClosed, ReplyFits, Settled

LEMMA DisconnectMeans ==
  ASSUME NEW l, LinkOK(l), NEW d \in Disconnect(l)
  PROVE  /\ LinkOK(d) /\ ~d.wanted
         /\ d.pc = "none" \/ (d.pc = l.pc /\ d.posts = l.posts)
<1>0. l \in Links
  BY DEF LinkOK, Shaped
<1>1. CASE l.manual /\ d = [l EXCEPT !.wanted = FALSE]
  <2>1. /\ d \in Links /\ d.pc = l.pc /\ d.posts = l.posts /\ d.shown = l.shown
        /\ d.manual = l.manual /\ d.timer = l.timer /\ d.scheduled = l.scheduled
        /\ ~d.wanted /\ d.reply = l.reply /\ d.offerSent = l.offerSent
    BY <1>0, <1>1 DEF Links
  <2>2. ConnectionTold(d)
    BY <2>1 DEF LinkOK, ConnectionTold, NothingHides
  <2> QED
    BY <1>1, <2>1, <2>2 DEF LinkOK, Shaped, TimerFits, UnwantedIsClosed, ReplyFits
<1>2. CASE ~(l.manual /\ ~l.shown /\ l.reply = "none")
  <2> DEFINE cut == [l EXCEPT !.wanted = FALSE, !.manual = TRUE, !.shown = FALSE,
                       !.timer = "off", !.scheduled = FALSE, !.reconnects = 0,
                       !.reply = "none"]
  <2>1. 0 \in 0 .. MaxReconnects
    BY VideoAssumption
  <2>2. /\ Shaped(cut) /\ ~cut.wanted /\ cut.manual /\ cut.timer = "off"
        /\ ~cut.scheduled
    BY <1>0, <2>1 DEF LinkOK, Shaped, Links
  <2>3. d \in Teardown(cut)
    BY <1>2 DEF Disconnect
  <2> HIDE DEF cut
  <2>4. /\ Shaped(d) /\ d.pc = "none" /\ ~d.wanted /\ d.manual
        /\ d.reply # "current" /\ d.timer = "off" /\ ~d.scheduled
    BY <2>2, <2>3, TeardownMeans
  <2> QED
    BY <2>4, DownIsTold DEF LinkOK, TimerFits, UnwantedIsClosed, ReplyFits, Settled
<1> QED BY <1>1, <1>2 DEF Disconnect

LEMMA ConnectMeans ==
  ASSUME NEW l, LinkOK(l), NEW c \in ConnectToStream(l)
  PROVE  LinkOK(c) /\ c.wanted /\ ~c.manual /\ c.pc = "new"
<1>1. PICK t \in Teardown(l) :
        c \in DoConnect([t EXCEPT !.wanted = TRUE, !.manual = FALSE,
                          !.connecting = TRUE, !.timer = "off",
                          !.scheduled = FALSE, !.reconnects = 0, !.retries = 0,
                          !.reply = "none"])
  BY DEF ConnectToStream
<1> DEFINE asking == [t EXCEPT !.wanted = TRUE, !.manual = FALSE,
                        !.connecting = TRUE, !.timer = "off",
                        !.scheduled = FALSE, !.reconnects = 0, !.retries = 0,
                        !.reply = "none"]
<1>2. Shaped(t)
  BY TeardownMeans DEF LinkOK
<1>3. 0 \in 0 .. MaxReconnects /\ 0 \in 0 .. MaxRetries
  BY VideoAssumption
<1>4. Shaped(asking) /\ asking.wanted /\ ~asking.manual /\ ~asking.scheduled
  BY <1>2, <1>3 DEF Shaped, Links
<1>5. c \in DoConnect(asking)
  BY <1>1
<1> HIDE DEF asking
<1> QED BY <1>4, <1>5, DoConnectMeans DEF TimerFits

LEMMA RestartMeans ==
  ASSUME NEW l, LinkOK(l), NEW r \in Restart(l)
  PROVE  LinkOK(r) /\ r.wanted /\ ~r.manual /\ r.pc = "new"
BY DisconnectMeans, ConnectMeans DEF Restart

(* A reconnection that is scheduled touches neither the connection nor its *)
(* reports, and none is after the user's disconnection.                    *)
LEMMA ScheduleMeans ==
  ASSUME NEW l \in Links, TimerFits(l)
  PROVE  LET r == ScheduleAutoReconnect(l) IN
         /\ r \in Links /\ TimerFits(r)
         /\ r.posts = l.posts /\ r.pc = l.pc /\ r.shown = l.shown
         /\ r.wanted = l.wanted /\ r.manual = l.manual /\ r.late = l.late
         /\ r.reply = l.reply /\ r.offerSent = l.offerSent
         /\ l.manual => r = l
<1> DEFINE r == ScheduleAutoReconnect(l)
<1>1. CASE r = l
  BY <1>1
<1>2. CASE /\ ~l.manual /\ l.reconnects # MaxReconnects
           /\ r = [l EXCEPT !.scheduled = TRUE, !.timer = "retry", !.reconnects = @ + 1]
  <2>1. l.reconnects + 1 \in 0 .. MaxReconnects
    BY <1>2, VideoAssumption DEF Links
  <2>2. r \in Links
    BY <1>2, <2>1 DEF Links
  <2>3. /\ r.timer = "retry" /\ r.posts = l.posts /\ r.pc = l.pc /\ r.shown = l.shown
        /\ r.wanted = l.wanted /\ r.manual = l.manual /\ r.late = l.late
        /\ r.reply = l.reply /\ r.offerSent = l.offerSent
    BY <1>2 DEF Links
  <2> QED BY <1>2, <2>2, <2>3 DEF TimerFits
<1>3. CASE /\ ~l.manual /\ ~l.scheduled
           /\ r = [l EXCEPT !.timer = "rest", !.resets = TRUE]
  BY <1>3 DEF Links, TimerFits
<1> QED BY <1>1, <1>2, <1>3 DEF ScheduleAutoReconnect

(* A report that is taken from the head: the others move up.               *)
LEMMA TakenMeans ==
  ASSUME NEW s \in Streams, LinkOK(link[s]), link[s].posts # <<>>
  PROVE  LET l == link[s]  n == Next1(s) IN
         /\ Shaped(n)
         /\ Len(n.posts) = Len(l.posts) - 1
         /\ \A i \in 1 .. Len(l.posts) - 1 : n.posts[i] = l.posts[i + 1]
         /\ n.posts = Tail(l.posts) /\ Head(l.posts) = l.posts[1]
         /\ Len(l.posts) \in Nat \ {0}
         /\ n.pc = l.pc /\ n.shown = l.shown /\ n.wanted = l.wanted
         /\ n.manual = l.manual /\ n.timer = l.timer /\ n.scheduled = l.scheduled
         /\ n.late = l.late /\ n.reply = l.reply /\ n.offerSent = l.offerSent
<1> DEFINE l == link[s]
           rest == Tail(l.posts)
<1>1. l \in Links /\ l.posts \in Seq(Posts) /\ l.posts # <<>> /\ Len(l.posts) <= MaxPosts
  BY DEF LinkOK, Shaped, Links
<1>2. /\ rest \in Seq(Posts) /\ Len(rest) = Len(l.posts) - 1
      /\ \A i \in 1 .. Len(l.posts) - 1 : rest[i] = l.posts[i + 1]
      /\ Head(l.posts) = l.posts[1] /\ Len(l.posts) \in Nat \ {0}
  BY <1>1
<1>3. Len(rest) <= MaxPosts
  BY <1>1, <1>2, VideoAssumption
<1>4. Next1(s) = [l EXCEPT !.posts = rest]
  BY <1>1 DEF Next1, Links
<1> HIDE DEF rest
<1>5. Next1(s).posts = rest
  BY <1>1, <1>4 DEF Links
<1>6. Next1(s) \in Links
  BY <1>1, <1>2, <1>4 DEF Links
<1>7. LET n == Next1(s) IN
      /\ n.pc = l.pc /\ n.shown = l.shown /\ n.wanted = l.wanted
      /\ n.manual = l.manual /\ n.timer = l.timer /\ n.scheduled = l.scheduled
      /\ n.late = l.late /\ n.reply = l.reply /\ n.offerSent = l.offerSent
  BY <1>1, <1>4 DEF Links
<1> QED BY <1>2, <1>3, <1>5, <1>6, <1>7 DEF Shaped, rest


(* The connection's own report comes next, or moves up, or was taken.      *)
LEMMA TakenTells ==
  ASSUME NEW s \in Streams, LinkOK(link[s]), link[s].posts # <<>>,
         NEW r, r.posts = Next1(s).posts, r.pc = link[s].pc,
         \/ Head(link[s].posts).what = "Connected" /\ r.shown
         \/ Head(link[s].posts).what \in Hides
         \/ Head(link[s].posts).what = "Offer" /\ r.shown = link[s].shown
  PROVE  ConnectionTold(r)
<1> SUFFICES ASSUME r.pc = "up"
             PROVE  \/ r.shown /\ NothingHides(r, 1)
                    \/ \E i \in DOMAIN r.posts :
                         /\ r.posts[i] = [what |-> "Connected", current |-> TRUE]
                         /\ NothingHides(r, i)
  BY DEF ConnectionTold
<1> DEFINE n == Len(link[s].posts)
           p == link[s].posts
<1>1. /\ n \in Nat \ {0} /\ r.posts \in Seq(Posts) /\ p \in Seq(Posts) /\ Len(r.posts) = n - 1
      /\ \A i \in 1 .. n - 1 : r.posts[i] = p[i + 1]
      /\ Head(p) = p[1]
  BY TakenMeans DEF Shaped, LinkOK, Links
<1>2. DOMAIN r.posts = 1 .. n - 1 /\ DOMAIN p = 1 .. n
  BY <1>1
<1>3. CASE link[s].shown /\ NothingHides(link[s], 1)
  <2>1. \A i \in 1 .. n : p[i].what \notin Hides
    BY <1>2, <1>3 DEF NothingHides
  <2>2. r.shown
    <3>1. Head(p).what \notin Hides
      BY <1>1, <2>1
    <3> QED BY <1>3, <3>1
  <2>3. NothingHides(r, 1)
    BY <1>1, <1>2, <2>1 DEF NothingHides
  <2> HIDE DEF n, p
  <2> QED BY <2>2, <2>3, Zenon
<1>4. ASSUME NEW i \in DOMAIN p, p[i] = [what |-> "Connected", current |-> TRUE],
             NothingHides(link[s], i)
      PROVE  \/ r.shown /\ NothingHides(r, 1)
             \/ \E j \in DOMAIN r.posts :
                  /\ r.posts[j] = [what |-> "Connected", current |-> TRUE]
                  /\ NothingHides(r, j)
  <2>1. \A j \in 1 .. n : j >= i => p[j].what \notin Hides
    BY <1>2, <1>4 DEF NothingHides
  <2>2. CASE i = 1
    <3>1. Head(p).what = "Connected"
      BY <1>1, <1>4, <2>2
    <3>2. r.shown
      BY <3>1 DEF Hides
    <3>3. \A j \in 1 .. n - 1 : p[j + 1].what \notin Hides
      BY <1>1, <2>1, <2>2
    <3>4. NothingHides(r, 1)
      BY <1>1, <1>2, <3>3 DEF NothingHides
    <3> QED BY <3>2, <3>4
  <2>3. CASE i # 1
    <3>1. i - 1 \in DOMAIN r.posts /\ r.posts[i - 1] = p[i]
      BY <1>1, <1>2, <2>3
    <3>2. \A j \in 1 .. n - 1 : j >= i - 1 => p[j + 1].what \notin Hides
      BY <1>1, <1>2, <2>1
    <3>3. NothingHides(r, i - 1)
      BY <1>1, <1>2, <3>2 DEF NothingHides
    <3> QED BY <1>4, <3>1, <3>3
  <2> QED BY <2>2, <2>3
<1> QED BY <1>3, <1>4 DEF LinkOK, ConnectionTold

-----------------------------------------------------------------------------
(* Each step keeps the invariant.                                          *)

LEMMA OneLink ==
  ASSUME VideoInv, NEW s \in Streams, NEW l, LinkOK(l),
         link' = [link EXCEPT ![s] = l], UNCHANGED manager
  PROVE  VideoInv' /\ link'[s] = l /\ \A r \in Streams \ {s} : link'[r] = link[r]
<1>1. l \in Links
  BY DEF LinkOK, Shaped
<1>2. /\ link' \in [Streams -> Links] /\ link'[s] = l
      /\ \A r \in Streams \ {s} : link'[r] = link[r]
  BY <1>1 DEF VideoInv
<1>3. \A r \in Streams : LinkOK(link'[r])
  BY <1>2 DEF VideoInv
<1>4. \A r \in Streams : LinkOK(link[r])'
  BY <1>3 DEF LinkOK, Shaped, TimerFits, ConnectionTold, NothingHides, UnwantedIsClosed,
              NeverStarted, ReplyFits
<1> QED BY <1>2, <1>4 DEF VideoInv, manager

LEMMA PostMeans ==
  ASSUME VideoInv, NEW s \in Streams, link[s].pc # "none",
         NEW state \in PcStates \ {"none"}, NEW what \in Reports, Post(s, state, what),
         state = "up" => what = "Connected",
         state \in Settled => link[s].pc \in Settled
  PROVE  VideoInv' /\ link'[s].wanted = link[s].wanted
                   /\ \A r \in Streams \ {s} : link'[r] = link[r]
<1> DEFINE l == link[s]
           p == [what |-> what, current |-> TRUE]
           more == Append(l.posts, p)
           r == [l EXCEPT !.pc = state, !.posts = more]
<1>1. /\ l \in Links /\ LinkOK(l) /\ l.posts \in Seq(Posts) /\ Len(l.posts) < MaxPosts
      /\ link \in [Streams -> Links] /\ p \in Posts
  BY DEF Post, VideoInv, Links, Posts
<1>2. link' = [link EXCEPT ![s] = r] /\ UNCHANGED manager
  BY <1>1 DEF Post
<1>3. /\ more \in Seq(Posts) /\ Len(more) = Len(l.posts) + 1 /\ Len(more) <= MaxPosts
      /\ more[Len(l.posts) + 1] = p /\ DOMAIN more = 1 .. Len(l.posts) + 1
      /\ Len(l.posts) \in Nat
  BY <1>1, VideoAssumption
<1> HIDE DEF more
<1>4. /\ r \in Links /\ r.posts = more /\ r.pc = state
      /\ r.wanted = l.wanted /\ r.manual = l.manual /\ r.timer = l.timer
      /\ r.scheduled = l.scheduled
      /\ r.reply = l.reply /\ r.offerSent = l.offerSent
  BY <1>1, <1>3 DEF Links
<1> HIDE DEF r
<1>5. ConnectionTold(r)
  <2> SUFFICES ASSUME state = "up"
               PROVE  NothingHides(r, Len(l.posts) + 1)
    BY <1>3, <1>4 DEF ConnectionTold
  <2> QED BY <1>3, <1>4 DEF NothingHides, Hides
<1>6. LinkOK(r)
  BY <1>1, <1>3, <1>4, <1>5
     DEF LinkOK, Shaped, TimerFits, UnwantedIsClosed, NeverStarted, ReplyFits
<1> QED BY <1>2, <1>4, <1>6, OneLink


(* A step of one stream that opens nothing. *)
LEMMA OneQuietly ==
  ASSUME VideoInv, NEW s \in Streams, NEW l, LinkOK(l),
         link[s].pc = "none" => l.pc = "none" \/ l.wanted,
         link' = [link EXCEPT ![s] = l], UNCHANGED manager
  PROVE  VideoInv' /\ \A r \in Streams : ~Opens(r)
<1>1. VideoInv' /\ link'[s] = l /\ \A r \in Streams \ {s} : link'[r] = link[r]
  BY OneLink
<1> QED BY <1>1 DEF Opens

LEMMA LibraryStep ==
  ASSUME VideoInv, NEW s \in Streams, Library(s)
  PROVE  VideoInv' /\ \A r \in Streams : ~Opens(r)
<1>1. ASSUME link[s].pc # "none", VideoInv',
             \A r \in Streams \ {s} : link'[r] = link[r]
      PROVE  VideoInv' /\ \A r \in Streams : ~Opens(r)
  BY <1>1 DEF Opens
<1>2. CASE OfferMade(s)
  <2> DEFINE l == link[s]
             p == [what |-> "Offer", current |-> TRUE]
             more == Append(l.posts, p)
             r == [l EXCEPT !.pc = "offered", !.sdpCurrent = TRUE, !.posts = more]
  <2>1. /\ l \in Links /\ LinkOK(l) /\ l.posts \in Seq(Posts) /\ Len(l.posts) < MaxPosts
        /\ link \in [Streams -> Links] /\ p \in Posts /\ l.pc = "new"
    BY <1>2 DEF OfferMade, VideoInv, Links, Posts, Reports
  <2>2. link' = [link EXCEPT ![s] = r] /\ UNCHANGED manager
    BY <1>2, <2>1 DEF OfferMade
  <2>3. more \in Seq(Posts) /\ Len(more) <= MaxPosts
    BY <2>1, VideoAssumption
  <2> HIDE DEF more
  <2>4. /\ r \in Links /\ r.posts = more /\ r.pc = "offered"
        /\ r.wanted = l.wanted /\ r.manual = l.manual /\ r.timer = l.timer
        /\ r.scheduled = l.scheduled
        /\ r.reply = l.reply /\ r.offerSent = l.offerSent
    BY <2>1, <2>3 DEF Links, PcStates
  <2> HIDE DEF r
  <2>5. LinkOK(r)
    BY <2>1, <2>3, <2>4, DownIsTold
       DEF LinkOK, Shaped, TimerFits, UnwantedIsClosed, NeverStarted, ReplyFits, Settled
  <2> QED BY <1>1, <2>1, <2>2, <2>5, OneLink
<1>3. CASE PcUp(s)
  BY <1>1, <1>3, PostMeans DEF PcUp, PcStates, Reports, Settled
<1>4. CASE PcDown(s)
  BY <1>1, <1>4, PostMeans DEF PcDown, PcStates, Reports, Settled
<1>5. CASE PcFails(s)
  BY <1>1, <1>5, PostMeans DEF PcFails, PcStates, Reports, Settled
<1>6. CASE PcCloses(s)
  BY <1>1, <1>6, PostMeans DEF PcCloses, PcStates, Reports, Settled
<1> QED BY <1>2, <1>3, <1>4, <1>5, <1>6 DEF Library

LEMMA ReportStep ==
  ASSUME VideoInv, NEW s \in Streams, OnReport(s)
  PROVE  VideoInv' /\ \A r \in Streams : ~Opens(r)
<1> DEFINE l == link[s]
           n == Next1(s)
<1>1. LinkOK(l) /\ l \in Links /\ l.posts # <<>> /\ UNCHANGED manager
  BY DEF OnReport, SendOffer, OnConnected, OnDisconnected, OnFailedOrClosed, Reported,
         VideoInv, LinkOK, Shaped
<1>2. /\ Shaped(n) /\ n \in Links /\ n.pc = l.pc /\ n.shown = l.shown /\ n.wanted = l.wanted
      /\ n.manual = l.manual /\ n.timer = l.timer /\ n.scheduled = l.scheduled
      /\ n.late = l.late /\ n.reply = l.reply /\ n.offerSent = l.offerSent
  BY <1>1, TakenMeans DEF Shaped
<1>3. TimerFits(n) /\ (n.wanted \/ n.manual) /\ ReplyFits(n)
  BY <1>1, <1>2 DEF LinkOK, TimerFits, UnwantedIsClosed, NeverStarted, ReplyFits
<1>4. ASSUME NEW m \in Links, link' = [link EXCEPT ![s] = m],
             TimerFits(m), ReplyFits(m), m.wanted \/ m.manual, m.posts = n.posts,
             m.pc = l.pc,
             \/ Head(l.posts).what = "Connected" /\ m.shown
             \/ Head(l.posts).what \in Hides
             \/ Head(l.posts).what = "Offer" /\ m.shown = l.shown
      PROVE  VideoInv' /\ \A r \in Streams : ~Opens(r)
  <2>1. ConnectionTold(m)
    BY <1>1, <1>4, TakenTells
  <2>2. LinkOK(m)
    BY <1>2, <1>4, <2>1 DEF LinkOK, Shaped, UnwantedIsClosed
  <2> QED BY <1>1, <1>4, <2>2, OneQuietly
<1> HIDE DEF n
<1>5. CASE SendOffer(s)
  <2> DEFINE reply == IF l.sdpCurrent THEN "current" ELSE "old"
             m == IF l.offerSent THEN n ELSE [n EXCEPT !.offerSent = TRUE, !.reply = reply]
  <2>1. link' = [link EXCEPT ![s] = m] /\ Head(l.posts).what = "Offer"
    BY <1>5 DEF SendOffer, Reported, n
  <2>2. /\ m \in Links /\ m.posts = n.posts /\ m.pc = n.pc /\ m.shown = n.shown
        /\ m.wanted = n.wanted /\ m.manual = n.manual /\ m.timer = n.timer
        /\ m.scheduled = n.scheduled /\ m.late = n.late
        /\ IF l.offerSent THEN m.reply = n.reply /\ m.offerSent = n.offerSent
                          ELSE m.offerSent
    <3>1. reply \in {"none", "old", "current"}
      OBVIOUS
    <3> HIDE DEF reply
    <3>2. CASE l.offerSent
      BY <1>2, <3>2
    <3>3. CASE ~l.offerSent
      <4>1. m = [n EXCEPT !.offerSent = TRUE, !.reply = reply]
        BY <3>3
      <4> HIDE DEF m
      <4>2. m \in Links
        BY <1>2, <3>1, <4>1 DEF Links
      <4> QED BY <1>2, <3>3, <4>1, <4>2 DEF Links
    <3> QED BY <3>2, <3>3
  <2> HIDE DEF m
  <2>3. TimerFits(m) /\ (m.wanted \/ m.manual) /\ ReplyFits(m)
    BY <1>2, <1>3, <2>2 DEF TimerFits, ReplyFits
  <2> QED BY <1>2, <1>4, <2>1, <2>2, <2>3
<1>6. CASE OnConnected(s)
  <2> DEFINE m == [n EXCEPT !.scheduled = FALSE, !.connecting = FALSE, !.shown = TRUE,
                     !.reconnects = 0]
  <2>1. link' = [link EXCEPT ![s] = m] /\ Head(l.posts).what = "Connected"
    BY <1>6 DEF OnConnected, Reported, n
  <2>2. /\ m \in Links /\ m.posts = n.posts /\ m.pc = n.pc /\ m.shown
        /\ m.wanted = n.wanted /\ m.manual = n.manual /\ m.timer = n.timer
        /\ ~m.scheduled /\ m.late = n.late
        /\ m.reply = n.reply /\ m.offerSent = n.offerSent
    <3>1. 0 \in 0 .. MaxReconnects
      BY VideoAssumption
    <3> QED BY <1>2, <3>1 DEF Links
  <2> HIDE DEF m
  <2>3. TimerFits(m) /\ (m.wanted \/ m.manual) /\ ReplyFits(m)
    BY <1>3, <2>2 DEF TimerFits, ReplyFits
  <2> QED BY <1>2, <1>4, <2>1, <2>2, <2>3
<1> DEFINE hidden == [n EXCEPT !.shown = FALSE]
<1>7. /\ hidden \in Links /\ hidden.posts = n.posts /\ hidden.pc = n.pc
      /\ hidden.wanted = n.wanted /\ hidden.manual = n.manual /\ hidden.timer = n.timer
      /\ hidden.scheduled = n.scheduled /\ hidden.late = n.late
      /\ hidden.reply = n.reply /\ hidden.offerSent = n.offerSent
  BY <1>2 DEF Links
<1> HIDE DEF hidden
<1>8. TimerFits(hidden) /\ (hidden.wanted \/ hidden.manual) /\ ReplyFits(hidden)
  BY <1>3, <1>7 DEF TimerFits, ReplyFits
<1>9. CASE OnDisconnected(s)
  <2>1. link' = [link EXCEPT ![s] = hidden] /\ Head(l.posts).what \in Hides
    BY <1>9 DEF OnDisconnected, Reported, n, hidden, Hides
  <2> QED BY <1>2, <1>4, <1>7, <1>8, <2>1
<1>10. CASE OnFailedOrClosed(s)
  <2> DEFINE m == ScheduleAutoReconnect(hidden)
  <2>1. link' = [link EXCEPT ![s] = m] /\ Head(l.posts).what \in Hides
    BY <1>10 DEF OnFailedOrClosed, Reported, n, hidden, Hides
  <2>2. /\ m \in Links /\ TimerFits(m)
        /\ m.posts = hidden.posts /\ m.pc = hidden.pc
        /\ m.wanted = hidden.wanted /\ m.manual = hidden.manual
        /\ m.late = hidden.late /\ hidden.manual => m = hidden
    BY <1>7, <1>8, ScheduleMeans
  <2>3. m.reply = hidden.reply /\ m.offerSent = hidden.offerSent
    BY <1>7, ScheduleMeans, <1>8
  <2> HIDE DEF m
  <2>4. (m.wanted \/ m.manual) /\ ReplyFits(m)
    BY <1>8, <2>2, <2>3 DEF ReplyFits
  <2> QED BY <1>2, <1>4, <1>7, <2>1, <2>2, <2>4
<1> QED BY <1>5, <1>6, <1>9, <1>10 DEF OnReport


LEMMA AnswerStep ==
  ASSUME VideoInv, NEW s \in Streams, AnswerSdp(s) \/ AnswerNoStream(s) \/ AnswerFails(s)
  PROVE  VideoInv' /\ \A r \in Streams : ~Opens(r)
<1> DEFINE l == link[s]
           n == NoReply(s)
<1>0. LinkOK(l) /\ l \in Links /\ UNCHANGED manager /\ l.reply # "none"
  BY DEF AnswerSdp, AnswerNoStream, AnswerFails, Answered, VideoInv, LinkOK, Shaped
<1>1. LinkOK(l) /\ l \in Links /\ UNCHANGED manager /\ (l.wanted \/ l.manual)
        /\ l.pc \notin Settled
  BY <1>0 DEF LinkOK, UnwantedIsClosed, NeverStarted, ReplyFits
<1> DEFINE refused == Refused(s)
<1>2. /\ n \in Links /\ n.retries = l.retries /\ n.late = l.late
      /\ n.posts = l.posts /\ n.pc = l.pc
      /\ n.wanted = l.wanted /\ n.manual = l.manual /\ n.timer = l.timer
      /\ n.scheduled = l.scheduled /\ n.reply = "none" /\ n.offerSent = l.offerSent
  BY <1>1 DEF NoReply, Links
<1>3. /\ refused \in Links /\ refused.retries = n.retries /\ refused.late = n.late
      /\ refused.posts = n.posts /\ refused.pc = n.pc
      /\ refused.wanted = n.wanted /\ refused.manual = n.manual
      /\ refused.timer = n.timer /\ refused.scheduled = n.scheduled
      /\ refused.reply = n.reply /\ refused.offerSent = n.offerSent
  <2> HIDE DEF n
  <2>1. refused = [n EXCEPT !.shown = FALSE]
    BY DEF n, Refused
  <2> QED BY <1>2, <2>1 DEF Links
<1> HIDE DEF n, refused
<1>4. ASSUME NEW m \in Links, link' = [link EXCEPT ![s] = m],
             m.posts = l.posts, m.wanted = l.wanted, m.reply = "none",
             m.manual = l.manual, m.timer = l.timer, m.scheduled = l.scheduled,
             \/ m.pc = l.pc
             \/ m.pc = "mismatched" /\ l.pc # "none"
             \/ m.pc = "answered" /\ m.offerSent /\ l.pc # "none"
      PROVE  VideoInv' /\ \A r \in Streams : ~Opens(r)
  <2>1. ConnectionTold(m)
    <3>1. m.pc # "up"
      BY <1>1, <1>4 DEF Settled
    <3> QED BY <3>1, DownIsTold
  <2>2. LinkOK(m)
    <3>1. ReplyFits(m)
      BY <1>1, <1>4 DEF ReplyFits, Settled
    <3> QED
      BY <1>1, <1>4, <2>1, <3>1 DEF LinkOK, Shaped, TimerFits, UnwantedIsClosed
  <2> QED BY <1>1, <1>4, <2>2, OneQuietly
<1>5. 0 \in 0 .. MaxRetries
  BY VideoAssumption
<1>6. CASE AnswerSdp(s)
  <2> DEFINE pc == IF n.pc \notin {"new", "offered"} THEN n.pc
                   ELSE IF l.reply = "current" THEN "answered" ELSE "mismatched"
             m == [n EXCEPT !.retries = 0, !.pc = pc]
  <2>1. link' = [link EXCEPT ![s] = m]
    BY <1>2, <1>6 DEF AnswerSdp, n, Links
  <2>2. /\ pc \in PcStates
        /\ \/ pc = l.pc
           \/ pc = "mismatched" /\ l.pc # "none"
           \/ pc = "answered" /\ l.offerSent /\ l.pc # "none"
    BY <1>1, <1>2 DEF Links, PcStates, LinkOK, ReplyFits
  <2> HIDE DEF pc
  <2>3. /\ m \in Links /\ m.posts = n.posts /\ m.pc = pc
        /\ m.wanted = n.wanted /\ m.manual = n.manual /\ m.timer = n.timer
        /\ m.scheduled = n.scheduled /\ m.reply = n.reply /\ m.offerSent = n.offerSent
    BY <1>2, <1>5, <2>2 DEF Links
  <2> HIDE DEF m
  <2> QED BY <1>2, <1>4, <2>1, <2>2, <2>3
<1>7. CASE AnswerNoStream(s) /\ l.retries = MaxRetries
  <2> DEFINE m == [refused EXCEPT !.retries = 0]
  <2>1. link' = [link EXCEPT ![s] = m]
    BY <1>7 DEF AnswerNoStream, refused
  <2>2. /\ m \in Links /\ m.posts = n.posts /\ m.pc = n.pc
        /\ m.wanted = n.wanted /\ m.manual = n.manual /\ m.timer = n.timer
        /\ m.scheduled = n.scheduled /\ m.reply = n.reply
    BY <1>2, <1>3, <1>5 DEF Links
  <2> HIDE DEF m
  <2> QED BY <1>2, <1>4, <2>1, <2>2
<1>8. CASE AnswerNoStream(s) /\ l.retries # MaxRetries
  <2> DEFINE m == [refused EXCEPT !.retries = @ + 1, !.late = @ + 1]
  <2>1. link' = [link EXCEPT ![s] = m] /\ l.late < MaxLate
    BY <1>8 DEF AnswerNoStream, refused
  <2>2. refused.retries + 1 \in 0 .. MaxRetries /\ refused.late + 1 \in 0 .. MaxLate
    <3>1. l.retries \in 0 .. MaxRetries /\ l.late \in 0 .. MaxLate
      BY <1>1 DEF Links
    <3>2. refused.retries = l.retries /\ refused.late = l.late
      BY <1>2, <1>3
    <3> HIDE DEF l
    <3> QED BY <1>8, <2>1, <3>1, <3>2, VideoAssumption
  <2>3. /\ m \in Links /\ m.posts = n.posts /\ m.pc = n.pc
        /\ m.wanted = n.wanted /\ m.manual = n.manual /\ m.timer = n.timer
        /\ m.scheduled = n.scheduled /\ m.reply = n.reply
    BY <1>2, <1>3, <2>2 DEF Links
  <2> HIDE DEF m
  <2> QED BY <1>2, <1>4, <2>1, <2>3
<1>9. CASE AnswerFails(s)
  BY <1>2, <1>3, <1>4, <1>9 DEF AnswerFails, refused
<1> QED BY <1>6, <1>7, <1>8, <1>9

(* The single-shot retry looks at nothing; the timer has been stopped by   *)
(* the user's disconnection.                                               *)
LEMMA LateStep ==
  ASSUME VideoInv, NEW s \in Streams, LateRetry(s)
  PROVE  VideoInv' /\ \A r \in Streams \ {s} : ~Opens(r)
<1> DEFINE l == link[s]
           fired == [l EXCEPT !.late = @ - 1]
<1>1. LinkOK(l) /\ l \in Links /\ UNCHANGED manager /\ l.late > 0
  BY DEF LateRetry, VideoInv, LinkOK, Shaped
<1>2. l.late - 1 \in 0 .. MaxLate
  BY <1>1, VideoAssumption DEF Links
<1>3. /\ fired \in Links /\ fired.posts = l.posts /\ fired.wanted = l.wanted
      /\ fired.manual = l.manual /\ fired.timer = l.timer /\ fired.scheduled = l.scheduled
  BY <1>1, <1>2 DEF Links
<1>4. PICK d \in DoConnect(fired) : link' = [link EXCEPT ![s] = d]
  BY DEF LateRetry
<1> HIDE DEF fired
<1>5. l.wanted \/ l.manual
  BY <1>1 DEF LinkOK, UnwantedIsClosed, NeverStarted
<1>6. LinkOK(d)
  BY <1>1, <1>3, <1>5, DoConnectMeans DEF LinkOK, Shaped, TimerFits
<1> QED BY <1>1, <1>4, <1>6, OneLink DEF Opens

LEMMA TimerStep ==
  ASSUME VideoInv, NEW s \in Streams, TimerFires(s)
  PROVE  VideoInv' /\ \A r \in Streams : ~Opens(r)
<1> DEFINE l == link[s]
           count == IF l.resets THEN 0 ELSE l.reconnects
           fired == [l EXCEPT !.timer = "off", !.scheduled = FALSE, !.resets = FALSE,
                       !.reconnects = count]
<1>1. LinkOK(l) /\ l \in Links /\ UNCHANGED manager /\ l.timer # "off"
  BY DEF TimerFires, VideoInv, LinkOK, Shaped
<1>2. ~l.manual /\ l.wanted
  BY <1>1 DEF LinkOK, TimerFits, UnwantedIsClosed, NeverStarted
<1>3. count \in 0 .. MaxReconnects
  BY <1>1, VideoAssumption DEF Links
<1>4. \E d \in IF fired.manual THEN {fired} ELSE DoConnect(fired) :
        link' = [link EXCEPT ![s] = d]
  BY <1>1 DEF TimerFires, Links
<1> HIDE DEF count
<1>5. /\ fired \in Links /\ fired.posts = l.posts /\ fired.wanted = l.wanted
      /\ fired.manual = l.manual /\ fired.timer = "off" /\ ~fired.scheduled
  BY <1>1, <1>3 DEF Links
<1> HIDE DEF fired
<1>6. PICK d \in DoConnect(fired) : link' = [link EXCEPT ![s] = d]
  BY <1>2, <1>4, <1>5
<1>7. LinkOK(d) /\ d.wanted
  BY <1>1, <1>2, <1>5, DoConnectMeans DEF LinkOK, Shaped, TimerFits
<1> QED BY <1>1, <1>6, <1>7, OneQuietly

LEMMA ManagerStep ==
  ASSUME VideoInv, Manager
  PROVE  VideoInv' /\ \A r \in Streams : ~Opens(r)
<1>1. ASSUME link' \in [Streams -> Links], {polling', asked', dispatched'} \subseteq BOOLEAN,
             \A s \in Streams : LinkOK(link'[s])
      PROVE  VideoInv'
  <2>1. \A s \in Streams : LinkOK(link[s])'
    BY <1>1 DEF LinkOK, Shaped, TimerFits, ConnectionTold, NothingHides,
                UnwantedIsClosed, NeverStarted
  <2> QED BY <1>1, <2>1 DEF VideoInv
<1>2. CASE \E same \in BOOLEAN : Restarted(same)
  <2>1. /\ DOMAIN link' = Streams /\ link' = [s \in Streams |-> link'[s]]
        /\ \A s \in Streams : link'[s] \in Restart(link[s])
        /\ polling' = FALSE /\ asked' = FALSE /\ dispatched' = TRUE
    BY <1>2 DEF Restarted, Each
  <2>2. \A s \in Streams : LinkOK(link'[s]) /\ link'[s].wanted
    BY <2>1, RestartMeans DEF VideoInv
  <2>3. link' \in [Streams -> Links]
    BY <2>1, <2>2 DEF LinkOK, Shaped
  <2> QED BY <1>1, <2>1, <2>2, <2>3 DEF Opens
<1>3. CASE DisconnectAll
  <2>1. /\ DOMAIN link' = Streams /\ link' = [s \in Streams |-> link'[s]]
        /\ \A s \in Streams : link'[s] \in Disconnect(link[s])
        /\ polling' = FALSE /\ asked' = FALSE /\ dispatched' = FALSE
    BY <1>3 DEF DisconnectAll, Each
  <2>2. \A s \in Streams : LinkOK(link'[s]) /\ (link[s].pc = "none" => link'[s].pc = "none")
    BY <2>1, DisconnectMeans DEF VideoInv
  <2>3. link' \in [Streams -> Links]
    BY <2>1, <2>2 DEF LinkOK, Shaped
  <2> QED BY <1>1, <2>1, <2>2, <2>3 DEF Opens
<1>4. CASE UNCHANGED link /\ {polling', asked', dispatched'} \subseteq BOOLEAN
  BY <1>1, <1>4 DEF VideoInv, Opens
<1> QED
  BY <1>2, <1>3, <1>4
     DEF Manager, Watch, StartAnyway, PollReady, ScheduleWhenReady, PollAgain,
         PollNotReady, VideoInv, vars

LEMMA VideoStarts == VideoInit => VideoInv
<1> SUFFICES ASSUME VideoInit PROVE VideoInv
  OBVIOUS
<1> DEFINE l == [wanted |-> FALSE, manual |-> FALSE, connecting |-> FALSE,
                 shown |-> FALSE, timer |-> "off", scheduled |-> FALSE,
                 reconnects |-> 0, resets |-> FALSE, retries |-> 0, late |-> 0,
                 offerSent |-> FALSE, sdpCurrent |-> FALSE, reply |-> "none",
                 pc |-> "none", posts |-> <<>>]
<1>1. link = [s \in Streams |-> l]
  BY DEF VideoInit
<1>2. /\ 0 \in 0 .. MaxReconnects /\ 0 \in 0 .. MaxRetries /\ 0 \in 0 .. MaxLate
      /\ <<>> \in Seq(Posts) /\ Len(<<>>) <= MaxPosts
  BY VideoAssumption
<1>3. l \in Links
  BY <1>2 DEF Links, PcStates
<1>4. LinkOK(l)
  BY <1>2, <1>3
     DEF LinkOK, Shaped, TimerFits, ConnectionTold, UnwantedIsClosed, NeverStarted,
         ReplyFits, Settled
<1> HIDE DEF l
<1> QED BY <1>1, <1>3, <1>4 DEF VideoInv, VideoInit


LEMMA VideoStep ==
  ASSUME VideoInv, [VideoNext]_vars
  PROVE  VideoInv' /\ \A r \in Streams : Opens(r) => LateRetry(r)
<1>1. CASE UNCHANGED vars
  <2>1. link' = link /\ UNCHANGED manager
    BY <1>1 DEF vars, manager
  <2> QED BY <2>1 DEF VideoInv, Opens, manager, LinkOK, Shaped, TimerFits, ConnectionTold,
                      NothingHides, UnwantedIsClosed, NeverStarted
<1>2. CASE Manager
  BY <1>2, ManagerStep
<1>3. ASSUME NEW s \in Streams,
             \/ Library(s) \/ OnReport(s)
             \/ AnswerSdp(s) \/ AnswerNoStream(s) \/ AnswerFails(s)
             \/ LateRetry(s) \/ TimerFires(s)
      PROVE  VideoInv' /\ \A r \in Streams : Opens(r) => LateRetry(r)
  <2>1. CASE LateRetry(s)
    BY <2>1, LateStep
  <2>2. CASE ~LateRetry(s)
    BY <1>3, <2>2, LibraryStep, ReportStep, AnswerStep, TimerStep
  <2> QED BY <2>1, <2>2
<1> QED BY <1>1, <1>2, <1>3 DEF VideoNext

LEMMA VideoInvAlways == VideoSpec => []VideoInv
BY VideoStarts, VideoStep, PTL DEF VideoSpec

(* Correctness of the types, for any streams and limits: the counts of     *)
(* attempts stay within their limits, a reconnection is marked as          *)
(* scheduled only while its timer runs, and no timer runs after the user's *)
(* disconnection.                                                          *)
THEOREM VideoTypes == VideoSpec => []VideoTypeOK
<1>1. VideoInv => VideoTypeOK
  BY DEF VideoInv, VideoTypeOK, LinkOK, Shaped, TimerFits
<1> QED BY <1>1, VideoInvAlways, PTL

(* However far the library runs ahead of the UI thread, and whatever       *)
(* reports of replaced connections are still posted: a WebRtcClient whose  *)
(* connection is up shows it, or has its onConnected posted.               *)
THEOREM UpBecomesShown == VideoSpec => []UpIsShown
<1>1. VideoInv => UpIsShown
  BY DEF VideoInv, UpIsShown, LinkOK, ConnectionTold
<1> QED BY <1>1, VideoInvAlways, PTL

(* No report, answer or m_reconnectTimer of an earlier connection opens    *)
(* one the user has closed: only the single-shot retry does.               *)
THEOREM ClosedStaysClosed == VideoSpec => OnlyLateRetryRevives
<1>1. VideoInv /\ [VideoNext]_vars =>
        [\A s \in Streams :
           ~link[s].wanted /\ ~link'[s].wanted
             /\ link[s].pc = "none" /\ link'[s].pc # "none" => LateRetry(s)]_vars
  BY VideoStep DEF Opens
<1> QED BY <1>1, VideoInvAlways, PTL DEF VideoSpec, OnlyLateRetryRevives

-----------------------------------------------------------------------------
(* What makes DropIsRetried come true: a loss that the UI thread has been  *)
(* told has set a timer, and one it has not been told is the last report   *)
(* posted, so that nothing taken after it makes it forgotten.              *)

Lost == {"failed", "closed"}
Losses == {"Failed", "Closed"}

WantedIsNotManual(l) == l.wanted => ~l.manual

LossIsLast(l) ==
  l.pc \in Lost /\ l.posts # <<>> => l.posts[Len(l.posts)].what \in Losses

TakenLossIsTimed(l) ==
  l.wanted /\ ~l.connecting /\ l.pc \in Lost /\ l.posts = <<>> => l.timer # "off"

Remembered(l) == WantedIsNotManual(l) /\ LossIsLast(l) /\ TakenLossIsTimed(l)

RetryInv == VideoInv /\ \A s \in Streams : Remembered(link[s])

(* A lost video the user wants has its next attempt ahead. *)
LossIsTimed ==
  \A s \in Streams :
    link[s].wanted /\ ~link[s].connecting /\ link[s].pc \in {"failed", "closed"} =>
      \/ link[s].timer # "off"
      \/ link[s].posts # <<>>
           /\ link[s].posts[Len(link[s].posts)].what \in {"Failed", "Closed"}

(* A timer that fires for a video the user wants is an attempt at it. *)
FiringReconnects ==
  [][\A s \in Streams :
       link[s].wanted /\ TimerFires(s) => link'[s].pc = "new"]_vars

LEMMA OneRemembers ==
  ASSUME RetryInv, NEW s \in Streams, NEW l, Remembered(l),
         link' = [link EXCEPT ![s] = l], VideoInv'
  PROVE  RetryInv'
<1>1. \A r \in Streams : Remembered(link'[r])
  BY DEF RetryInv, VideoInv
<1>2. \A r \in Streams : Remembered(link[r])'
  BY <1>1 DEF Remembered, WantedIsNotManual, LossIsLast, TakenLossIsTimed
<1> QED BY <1>2 DEF RetryInv

(* Without a lost connection there is nothing to remember. *)
LEMMA NothingLost ==
  ASSUME NEW l, WantedIsNotManual(l), l.pc \notin Lost
  PROVE  Remembered(l)
BY DEF Remembered, LossIsLast, TakenLossIsTimed

LEMMA LibraryRemembers ==
  ASSUME RetryInv, NEW s \in Streams, Library(s), VideoInv'
  PROVE  RetryInv'
<1> DEFINE l == link[s]
<1>1. l \in Links /\ Remembered(l) /\ l.posts \in Seq(Posts)
  BY DEF RetryInv, VideoInv, Links
<1>2. CASE OfferMade(s)
  <2> DEFINE more == Append(l.posts, [what |-> "Offer", current |-> TRUE])
             r == [l EXCEPT !.pc = "offered", !.sdpCurrent = TRUE, !.posts = more]
  <2>1. link' = [link EXCEPT ![s] = r]
    BY <1>2 DEF OfferMade, RetryInv, VideoInv
  <2>2. r.pc = "offered" /\ r.wanted = l.wanted /\ r.manual = l.manual
    BY <1>1 DEF Links
  <2> HIDE DEF r
  <2>3. Remembered(r)
    BY <1>1, <2>2, NothingLost DEF Remembered, WantedIsNotManual, Lost
  <2> QED BY <2>1, <2>3, OneRemembers
<1>3. ASSUME NEW state, NEW what, Post(s, state, what),
             state \in Lost => what \in Losses
      PROVE  RetryInv'
  <2> DEFINE more == Append(l.posts, [what |-> what, current |-> TRUE])
             r == [l EXCEPT !.pc = state, !.posts = more]
  <2>1. link' = [link EXCEPT ![s] = r]
    BY <1>3 DEF Post, RetryInv, VideoInv
  <2>2. /\ Len(more) = Len(l.posts) + 1 /\ more # <<>>
        /\ more[Len(l.posts) + 1].what = what
    BY <1>1
  <2> HIDE DEF more
  <2>3. r.pc = state /\ r.posts = more /\ r.wanted = l.wanted /\ r.manual = l.manual
    BY <1>1 DEF Links
  <2> HIDE DEF r
  <2>4. Remembered(r)
    BY <1>1, <1>3, <2>2, <2>3
       DEF Remembered, WantedIsNotManual, LossIsLast, TakenLossIsTimed
  <2> QED BY <2>1, <2>4, OneRemembers
<1> QED
  BY <1>2, <1>3 DEF Library, PcUp, PcDown, PcFails, PcCloses, Lost, Losses

(* A loss that is taken is the last report, or stays the last: either the  *)
(* mark of an attempt under way is still set, or the timer is now.         *)
LEMMA ReportRemembers ==
  ASSUME RetryInv, NEW s \in Streams, OnReport(s), VideoInv'
  PROVE  RetryInv'
<1> DEFINE l == link[s]
           n == Next1(s)
<1>1. LinkOK(l) /\ l \in Links /\ l.posts # <<>> /\ Remembered(l) /\ TimerFits(l)
  BY DEF OnReport, SendOffer, OnConnected, OnDisconnected, OnFailedOrClosed, Reported,
         RetryInv, VideoInv, LinkOK, Shaped
<1>2. /\ n \in Links /\ n.pc = l.pc /\ n.wanted = l.wanted /\ n.manual = l.manual
      /\ n.timer = l.timer /\ n.scheduled = l.scheduled /\ n.connecting = l.connecting
  BY <1>1, TakenMeans DEF Shaped, Next1, Links
<1>3. /\ n.posts = Tail(l.posts) /\ Head(l.posts) = l.posts[1]
      /\ Len(l.posts) \in Nat \ {0} /\ Len(n.posts) = Len(l.posts) - 1
      /\ \A i \in 1 .. Len(l.posts) - 1 : n.posts[i] = l.posts[i + 1]
      /\ n.posts \in Seq(Posts)
  BY <1>1, <1>2, TakenMeans DEF Links
<1>4. LossIsLast(n)
  <2> SUFFICES ASSUME l.pc \in Lost, n.posts # <<>>
               PROVE  n.posts[Len(n.posts)].what \in Losses
    BY <1>2 DEF LossIsLast
  <2>1. l.posts[Len(l.posts)].what \in Losses
    BY <1>1 DEF Remembered, LossIsLast
  <2>2. Len(n.posts) \in 1 .. Len(l.posts) - 1
    BY <1>3
  <2> QED BY <1>3, <2>1, <2>2
<1>5. l.pc \in Lost /\ n.posts = <<>> => Head(l.posts).what \in Losses
  <2> SUFFICES ASSUME l.pc \in Lost, n.posts = <<>>
               PROVE  Head(l.posts).what \in Losses
    OBVIOUS
  <2>1. Len(l.posts) = 1
    BY <1>3
  <2> QED BY <1>1, <1>3, <2>1 DEF Remembered, LossIsLast
<1>6. WantedIsNotManual(n)
  BY <1>1, <1>2 DEF Remembered, WantedIsNotManual
<1> HIDE DEF n
<1>7. ASSUME NEW m, link' = [link EXCEPT ![s] = m], m.posts = n.posts, m.pc = l.pc,
             m.wanted = l.wanted, m.manual = l.manual,
             \/ Head(l.posts).what \notin Losses
             \/ ~l.manual /\ ~m.connecting => m.timer # "off"
      PROVE  RetryInv'
  <2>1. LossIsLast(m) /\ WantedIsNotManual(m)
    BY <1>2, <1>4, <1>6, <1>7 DEF LossIsLast, WantedIsNotManual
  <2>2. TakenLossIsTimed(m)
    BY <1>2, <1>5, <1>6, <1>7 DEF TakenLossIsTimed, WantedIsNotManual
  <2> QED BY <1>7, <2>1, <2>2, OneRemembers DEF Remembered
<1>8. CASE SendOffer(s)
  <2> DEFINE reply == IF l.sdpCurrent THEN "current" ELSE "old"
             sent == [n EXCEPT !.offerSent = TRUE, !.reply = reply]
  <2>1. /\ link' = [link EXCEPT ![s] = IF l.offerSent THEN n ELSE sent]
        /\ Head(l.posts).what \notin Losses
    BY <1>8 DEF SendOffer, Reported, n, Losses
  <2> HIDE DEF reply
  <2>2. /\ sent.posts = n.posts /\ sent.pc = n.pc /\ sent.wanted = n.wanted
        /\ sent.manual = n.manual
    BY <1>2 DEF Links
  <2> HIDE DEF sent
  <2> QED BY <1>2, <1>7, <2>1, <2>2
<1>9. CASE OnConnected(s)
  <2> DEFINE m == [n EXCEPT !.scheduled = FALSE, !.connecting = FALSE, !.shown = TRUE,
                     !.reconnects = 0]
  <2>1. link' = [link EXCEPT ![s] = m] /\ Head(l.posts).what \notin Losses
    BY <1>9 DEF OnConnected, Reported, n, Losses
  <2>2. m.posts = n.posts /\ m.pc = n.pc /\ m.wanted = n.wanted /\ m.manual = n.manual
    BY <1>2 DEF Links
  <2> HIDE DEF m
  <2> QED BY <1>2, <1>7, <2>1, <2>2
<1> DEFINE hidden == [n EXCEPT !.shown = FALSE]
<1>10. /\ hidden \in Links /\ hidden.posts = n.posts /\ hidden.pc = n.pc
       /\ hidden.wanted = n.wanted /\ hidden.manual = n.manual
       /\ hidden.timer = n.timer /\ hidden.scheduled = n.scheduled
       /\ hidden.connecting = n.connecting
  BY <1>2 DEF Links
<1>11. CASE OnDisconnected(s)
  <2>1. link' = [link EXCEPT ![s] = hidden] /\ Head(l.posts).what \notin Losses
    BY <1>11 DEF OnDisconnected, Reported, n, Losses
  <2> HIDE DEF hidden
  <2> QED BY <1>2, <1>7, <1>10, <2>1
<1>12. CASE OnFailedOrClosed(s)
  <2> DEFINE m == ScheduleAutoReconnect(hidden)
  <2>1. link' = [link EXCEPT ![s] = m]
    BY <1>12 DEF OnFailedOrClosed, n
  <2> HIDE DEF hidden
  <2>2. TimerFits(hidden)
    BY <1>1, <1>2, <1>10 DEF TimerFits
  <2>3. m.posts = hidden.posts /\ m.pc = hidden.pc /\ m.wanted = hidden.wanted
          /\ m.manual = hidden.manual
    BY <1>10, <2>2, ScheduleMeans
  <2>4. ~hidden.manual /\ ~m.connecting => m.timer # "off"
    BY <1>10, <2>2 DEF ScheduleAutoReconnect, TimerFits, Links
  <2> HIDE DEF m
  <2> QED BY <1>2, <1>7, <1>10, <2>1, <2>3, <2>4
<1> QED BY <1>8, <1>9, <1>11, <1>12 DEF OnReport

LEMMA AnswerRemembers ==
  ASSUME RetryInv, NEW s \in Streams, VideoInv',
         AnswerSdp(s) \/ AnswerNoStream(s) \/ AnswerFails(s)
  PROVE  RetryInv'
<1> DEFINE l == link[s]
           n == NoReply(s)
<1>1. l \in Links /\ Remembered(l)
  BY DEF RetryInv, VideoInv
<1>2. /\ n \in Links /\ n.posts = l.posts /\ n.pc = l.pc /\ n.wanted = l.wanted
      /\ n.manual = l.manual /\ n.timer = l.timer /\ n.connecting = l.connecting
  BY <1>1 DEF NoReply, Links
<1> DEFINE refused == Refused(s)
<1>3. /\ refused \in Links /\ refused.posts = n.posts /\ refused.pc = n.pc
      /\ refused.wanted = n.wanted /\ refused.manual = n.manual
      /\ refused.timer = n.timer /\ refused.connecting = n.connecting
  <2> HIDE DEF n
  <2>1. refused = [n EXCEPT !.shown = FALSE]
    BY DEF n, Refused
  <2> QED BY <1>2, <2>1 DEF Links
<1> HIDE DEF n, refused
<1>4. PICK m : /\ link' = [link EXCEPT ![s] = m]
               /\ m.posts = n.posts /\ m.wanted = n.wanted /\ m.manual = n.manual
               /\ m.timer = n.timer /\ m.connecting = n.connecting
               /\ m.pc = n.pc \/ m.pc \in {"answered", "mismatched"}
  <2>1. CASE AnswerSdp(s)
    <3> DEFINE pc == IF n.pc \notin {"new", "offered"} THEN n.pc
                     ELSE IF l.reply = "current" THEN "answered" ELSE "mismatched"
               m == [n EXCEPT !.retries = 0, !.pc = pc]
    <3>1. link' = [link EXCEPT ![s] = m]
      BY <1>2, <2>1 DEF AnswerSdp, n, Links
    <3>2. pc = n.pc \/ pc \in {"answered", "mismatched"}
      OBVIOUS
    <3> HIDE DEF pc
    <3>3. /\ m.posts = n.posts /\ m.wanted = n.wanted /\ m.manual = n.manual
          /\ m.timer = n.timer /\ m.connecting = n.connecting /\ m.pc = pc
      BY <1>2 DEF Links
    <3> HIDE DEF m
    <3> QED BY <3>1, <3>2, <3>3
  <2>2. CASE AnswerNoStream(s)
    <3> DEFINE last == [refused EXCEPT !.retries = 0]
               more == [refused EXCEPT !.retries = @ + 1, !.late = @ + 1]
    <3>1. \/ link' = [link EXCEPT ![s] = last]
          \/ link' = [link EXCEPT ![s] = more]
      BY <2>2 DEF AnswerNoStream, refused
    <3>2. /\ last.posts = n.posts /\ last.wanted = n.wanted /\ last.manual = n.manual
          /\ last.timer = n.timer /\ last.connecting = n.connecting /\ last.pc = n.pc
      BY <1>3 DEF Links
    <3>3. /\ more.posts = n.posts /\ more.wanted = n.wanted /\ more.manual = n.manual
          /\ more.timer = n.timer /\ more.connecting = n.connecting /\ more.pc = n.pc
      BY <1>3 DEF Links
    <3> HIDE DEF last, more
    <3> QED BY <3>1, <3>2, <3>3
  <2>3. CASE AnswerFails(s)
    BY <1>3, <2>3 DEF AnswerFails, refused
  <2> QED BY <2>1, <2>2, <2>3
<1>5. Remembered(m)
  BY <1>1, <1>2, <1>4
     DEF Remembered, WantedIsNotManual, LossIsLast, TakenLossIsTimed, Lost
<1> QED BY <1>4, <1>5, OneRemembers

LEMMA LateRemembers ==
  ASSUME RetryInv, NEW s \in Streams, LateRetry(s), VideoInv'
  PROVE  RetryInv'
<1> DEFINE l == link[s]
           fired == [l EXCEPT !.late = @ - 1]
<1>1. LinkOK(l) /\ l \in Links /\ l.late > 0 /\ Remembered(l)
  BY DEF LateRetry, RetryInv, VideoInv, LinkOK, Shaped
<1>2. l.late - 1 \in 0 .. MaxLate
  BY <1>1, VideoAssumption DEF Links
<1>3. /\ fired \in Links /\ fired.posts = l.posts /\ fired.wanted = l.wanted
      /\ fired.manual = l.manual /\ fired.timer = l.timer /\ fired.scheduled = l.scheduled
  BY <1>1, <1>2 DEF Links
<1>4. PICK d \in DoConnect(fired) : link' = [link EXCEPT ![s] = d]
  BY DEF LateRetry
<1> HIDE DEF fired
<1>5. l.wanted \/ l.manual
  BY <1>1 DEF LinkOK, UnwantedIsClosed, NeverStarted
<1>6. d.wanted = l.wanted /\ d.manual = l.manual /\ d.pc = "new"
  BY <1>1, <1>3, <1>5, DoConnectMeans DEF LinkOK, Shaped, TimerFits
<1>7. Remembered(d)
  BY <1>1, <1>6, NothingLost DEF Remembered, WantedIsNotManual, Lost
<1> QED BY <1>4, <1>7, OneRemembers

LEMMA TimerRemembers ==
  ASSUME RetryInv, NEW s \in Streams, TimerFires(s), VideoInv'
  PROVE  RetryInv' /\ link'[s].pc = "new"
<1> DEFINE l == link[s]
           count == IF l.resets THEN 0 ELSE l.reconnects
           fired == [l EXCEPT !.timer = "off", !.scheduled = FALSE, !.resets = FALSE,
                       !.reconnects = count]
<1>1. LinkOK(l) /\ l \in Links /\ l.timer # "off" /\ Remembered(l)
  BY DEF TimerFires, RetryInv, VideoInv, LinkOK, Shaped
<1>2. ~l.manual /\ l.wanted
  BY <1>1 DEF LinkOK, TimerFits, UnwantedIsClosed, NeverStarted
<1>3. count \in 0 .. MaxReconnects
  BY <1>1, VideoAssumption DEF Links
<1>4. \E d \in IF fired.manual THEN {fired} ELSE DoConnect(fired) :
        link' = [link EXCEPT ![s] = d]
  BY <1>1 DEF TimerFires, Links
<1> HIDE DEF count
<1>5. /\ fired \in Links /\ fired.posts = l.posts /\ fired.wanted = l.wanted
      /\ fired.manual = l.manual /\ fired.timer = "off" /\ ~fired.scheduled
  BY <1>1, <1>3 DEF Links
<1> HIDE DEF fired
<1>6. PICK d \in DoConnect(fired) : link' = [link EXCEPT ![s] = d]
  BY <1>2, <1>4, <1>5
<1>7. d.wanted /\ ~d.manual /\ d.pc = "new"
  BY <1>1, <1>2, <1>5, DoConnectMeans DEF LinkOK, Shaped, TimerFits
<1>8. Remembered(d)
  BY <1>7, NothingLost DEF WantedIsNotManual, Lost
<1>9. link'[s] = d
  BY <1>6 DEF RetryInv, VideoInv
<1> QED BY <1>6, <1>7, <1>8, <1>9, OneRemembers

LEMMA ManagerRemembers ==
  ASSUME RetryInv, Manager, VideoInv'
  PROVE  RetryInv'
<1>1. ASSUME \A s \in Streams : Remembered(link'[s])
      PROVE  RetryInv'
  <2>1. \A s \in Streams : Remembered(link[s])'
    BY <1>1 DEF Remembered, WantedIsNotManual, LossIsLast, TakenLossIsTimed
  <2> QED BY <2>1 DEF RetryInv
<1>2. CASE \E same \in BOOLEAN : Restarted(same)
  <2>1. \A s \in Streams : link'[s] \in Restart(link[s])
    BY <1>2 DEF Restarted, Each
  <2>2. \A s \in Streams : link'[s].wanted /\ ~link'[s].manual /\ link'[s].pc = "new"
    BY <2>1, RestartMeans DEF RetryInv, VideoInv
  <2>3. \A s \in Streams : Remembered(link'[s])
    BY <2>2, NothingLost DEF WantedIsNotManual, Lost
  <2> QED BY <1>1, <2>3
<1>3. CASE DisconnectAll
  <2>1. \A s \in Streams : link'[s] \in Disconnect(link[s])
    BY <1>3 DEF DisconnectAll, Each
  <2>2. \A s \in Streams :
          /\ ~link'[s].wanted
          /\ \/ link'[s].pc = "none"
             \/ link'[s].pc = link[s].pc /\ link'[s].posts = link[s].posts
    BY <2>1, DisconnectMeans DEF RetryInv, VideoInv
  <2>3. \A s \in Streams : Remembered(link'[s])
    BY <2>2 DEF RetryInv, Remembered, WantedIsNotManual, LossIsLast, TakenLossIsTimed, Lost
  <2> QED BY <1>1, <2>3
<1>4. CASE UNCHANGED link
  BY <1>1, <1>4 DEF RetryInv
<1> QED
  BY <1>2, <1>3, <1>4
     DEF Manager, Watch, StartAnyway, PollReady, ScheduleWhenReady, PollAgain,
         PollNotReady, vars

LEMMA RetryStarts == VideoInit => RetryInv
BY VideoStarts
   DEF VideoInit, RetryInv, Remembered, WantedIsNotManual, LossIsLast, TakenLossIsTimed, Lost

LEMMA RetryStep ==
  ASSUME RetryInv, [VideoNext]_vars
  PROVE  /\ RetryInv'
         /\ \A s \in Streams : link[s].wanted /\ TimerFires(s) => link'[s].pc = "new"
<1>1. VideoInv'
  BY VideoStep DEF RetryInv
<1>2. \A s \in Streams : link[s].wanted /\ TimerFires(s) => link'[s].pc = "new"
  BY <1>1, TimerRemembers
<1>3. CASE UNCHANGED vars
  <2>1. link' = link
    BY <1>3 DEF vars
  <2> QED BY <1>1, <1>2, <2>1
             DEF RetryInv, Remembered, WantedIsNotManual, LossIsLast, TakenLossIsTimed
<1>4. CASE Manager
  BY <1>1, <1>2, <1>4, ManagerRemembers
<1>5. ASSUME NEW s \in Streams,
             \/ Library(s) \/ OnReport(s)
             \/ AnswerSdp(s) \/ AnswerNoStream(s) \/ AnswerFails(s)
             \/ LateRetry(s) \/ TimerFires(s)
      PROVE  RetryInv'
  BY <1>1, <1>5, LibraryRemembers, ReportRemembers, AnswerRemembers, LateRemembers,
     TimerRemembers
<1> QED BY <1>2, <1>3, <1>4, <1>5 DEF VideoNext

(* A connection that was up once and is lost while the user wants it has   *)
(* m_reconnectTimer running, for the next attempt or for the long rest, or *)
(* its loss is the last report posted; and whenever that timer fires for a *)
(* wanted stream, doConnect opens a connection.  With the fairness of the  *)
(* UI thread this is why DropIsRetried holds.                              *)
THEOREM LossLeadsToRetry == VideoSpec => []LossIsTimed /\ FiringReconnects
<1>1. RetryInv => LossIsTimed
  BY DEF RetryInv, LossIsTimed, Remembered, LossIsLast, TakenLossIsTimed, Lost, Losses
<1>2. RetryInv /\ [VideoNext]_vars =>
        [\A s \in Streams : link[s].wanted /\ TimerFires(s) => link'[s].pc = "new"]_vars
  BY RetryStep
<1>3. RetryInv /\ [VideoNext]_vars => RetryInv'
  BY RetryStep
<1> QED BY <1>1, <1>2, <1>3, RetryStarts, PTL DEF VideoSpec, FiringReconnects

=============================================================================
