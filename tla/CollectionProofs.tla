---------------------------- MODULE CollectionProofs ----------------------------
(***************************************************************************)
(* Theorems about Collection, for any number of messages, albums, polls     *)
(* and limits: the types, what becomes of a message a handler has looked    *)
(* at, that the polls pass no message over and make one post of an album    *)
(* when the listener is not started, and that with the listener a message   *)
(* is passed over only where one has been left behind.                      *)
(***************************************************************************)
EXTENDS Collection, FiniteSetTheorems, WellFoundedInduction, TLAPS

-----------------------------------------------------------------------------
(* Posts.                                                                   *)

LEMMA LeastThere ==
  ASSUME NEW S, S \subseteq Nat, S # {}
  PROVE  \E y \in S : \A z \in S : y <= z
<1>1. PICK y \in S : \A z \in S : ~(<<z, y>> \in OpToRel(<, Nat))
  BY WFMin, NatLessThanWellFounded, Zenon
<1>2. ASSUME NEW z \in S PROVE y <= z
  <2>1. y \in Nat /\ z \in Nat /\ ~(z < y)
    BY <1>1, Zenon DEF OpToRel
  <2> QED
    BY <2>1
<1> QED
  BY <1>2

LEMMA MinThere ==
  ASSUME NEW S, S \subseteq Nat, S # {}
  PROVE  Min(S) \in S /\ \A z \in S : Min(S) <= z
BY LeastThere DEF Min

LEMMA MaxThere ==
  ASSUME NEW n \in Nat, NEW S, S \subseteq 1..n, S # {}
  PROVE  Max(S) \in S /\ \A z \in S : Max(S) >= z
<1> DEFINE T == {n - x : x \in S}
<1>1. T \subseteq Nat /\ T # {}
  <2>1. \A x \in S : n - x \in Nat
    OBVIOUS
  <2>2. T \subseteq Nat
    BY <2>1
  <2> QED
    BY <2>2
<1>2. PICK y \in T : \A z \in T : y <= z
  BY <1>1, LeastThere
<1>3. PICK x \in S : y = n - x
  BY <1>2
<1>4. ASSUME NEW z \in S PROVE x >= z
  <2>1. n - x <= n - z
    BY <1>2, <1>3, <1>4
  <2> QED
    BY <2>1, <1>3, <1>4
<1> QED
  BY <1>4 DEF Max

\* The messages of a post are one message, or parts of one album.
Whole(p) == \A m \in p : m = Anchor(p) \/ SameAlbum(m, Anchor(p))

LEMMA AnchorThere ==
  ASSUME NEW p \in Item
  PROVE  Anchor(p) \in p /\ Anchor(p) \in Messages /\ \A m \in p : Anchor(p) <= m
<1>1. p \subseteq Nat /\ p # {} /\ p \subseteq Messages
  BY DEF Item, Messages
<1> QED
  BY <1>1, MinThere DEF Anchor

LEMMA SingleWhole ==
  ASSUME NEW m \in Messages PROVE {m} \in Item /\ Whole({m}) /\ Anchor({m}) = m
<1>1. {m} \in Item
  BY DEF Item
<1> QED
  BY <1>1, AnchorThere DEF Whole

\* Parts of one album make a post.
LEMMA AlbumWhole ==
  ASSUME NEW g, g # NoGroup, NEW p, p \subseteq Messages, p # {}, \A m \in p : GroupOf[m] = g
  PROVE  p \in Item /\ Whole(p) /\ GroupOf[Anchor(p)] = g
<1>1. p \in Item
  BY DEF Item
<1> QED
  BY <1>1, AnchorThere DEF Whole, SameAlbum, Grouped

\* What collect_pending makes of a batch.
LEMMA PostsWhole ==
  ASSUME NEW ms, ms \subseteq Messages, NEW p \in PostsOf(ms)
  PROVE  p \in Item /\ Whole(p) /\ p \subseteq ms
<1>1. CASE \E m \in ms : p = {m}
  BY <1>1, SingleWhole
<1>2. CASE \E g \in {GroupOf[x] : x \in ms} \ {NoGroup} : p = {m \in ms : GroupOf[m] = g}
  <2>1. PICK g \in {GroupOf[x] : x \in ms} \ {NoGroup} : p = {m \in ms : GroupOf[m] = g}
    BY <1>2
  <2>2. p # {} /\ p \subseteq Messages /\ \A m \in p : GroupOf[m] = g
    BY <2>1
  <2> QED
    BY <2>1, <2>2, AlbumWhole
<1> QED
  BY <1>1, <1>2 DEF PostsOf

LEMMA BatchBounds ==
  ASSUME CollectionAssumption, channel \in 0..MaxMsg, NEW c \in Nat, NEW limit \in Nat
  PROVE  Batch(c, limit) \subseteq 1..channel /\ 1..channel \subseteq Messages
BY DEF Batch, Messages, CollectionAssumption

-----------------------------------------------------------------------------
(* Types.                                                                   *)

ReadRec == [phase : {"idle", "waiting", "reading"}, own : BOOLEAN, since : 0..MaxMsg,
            left : SUBSET Item, pending : SUBSET Item, drop : SUBSET Messages, last : 0..MaxMsg]

ReadOK(w) == /\ w \in ReadRec /\ w.last <= channel /\ w.since <= channel
             /\ \A p \in w.left \cup w.pending : Whole(p)

ReadInv == read \in [Readers -> ReadRec] /\ \A q \in Readers : ReadOK(read[q])

\* A save has one message of its own, or parts of an album, that were announced.
SaveOK(s) == /\ s \in [post : Item, seen : 0..MaxMsg] /\ s.post \subseteq 1..channel /\ Whole(s.post)

LiveInv ==
  /\ events \subseteq 1..channel /\ heard \subseteq 1..channel
  /\ buffer \in [Groups -> SUBSET (1..channel)]
  /\ \A g \in Groups : \A m \in buffer[g] : GroupOf[m] = g
  /\ \A s \in saves : SaveOK(s)

BaseInv ==
  /\ channel \in 0..MaxMsg /\ old \in 0..channel /\ cursor \in 0..channel
  /\ rows \subseteq Item /\ skipped \subseteq Messages
  /\ listener \in {"none", "off", "catchup", "on"}
  /\ noted \subseteq Messages /\ unsaved \subseteq Messages
  /\ failures \in 0..MaxFailures /\ restarts \in 0..MaxRestarts

CollectInv == BaseInv /\ ReadInv /\ LiveInv

LEMMA IdleOK ==
  ASSUME CollectionAssumption, BaseInv PROVE ReadOK(Idle)
BY DEF ReadOK, ReadRec, Idle, BaseInv, CollectionAssumption

LEMMA ReadPut ==
  ASSUME ReadInv, NEW q \in Readers, NEW w, ReadOK(w), channel' = channel,
         read' = [read EXCEPT ![q] = w]
  PROVE  ReadInv' /\ \A o \in Readers : read'[o] = IF o = q THEN w ELSE read[o]
<1>1. w \in ReadRec
  BY DEF ReadOK
<1>2. read' \in [Readers -> ReadRec] /\ \A o \in Readers : read'[o] = IF o = q THEN w ELSE read[o]
  BY <1>1 DEF ReadInv
<1>3. ASSUME NEW o \in Readers PROVE ReadOK(read[o])'
  BY <1>2 DEF ReadInv, ReadOK
<1> QED
  BY <1>2, <1>3 DEF ReadInv

LEMMA StartStep ==
  ASSUME CollectionAssumption, CollectInv, NEW q \in Readers, NEW own \in BOOLEAN, Start(q, own),
         channel' = channel
  PROVE  ReadInv'
<1> DEFINE w == [Idle EXCEPT !.phase = "waiting", !.own = own, !.since = cursor]
<1>1. read' = [read EXCEPT ![q] = w]
  BY DEF Start
<1>a. Idle \in ReadRec /\ Idle.last = 0 /\ Idle.left = {} /\ Idle.pending = {}
  BY DEF Idle, ReadRec, CollectionAssumption
<1>b. cursor \in 0..MaxMsg
  BY DEF CollectInv, BaseInv
<1>2. /\ w \in ReadRec /\ w.last = 0 /\ w.since = cursor /\ w.left = {} /\ w.pending = {}
  BY <1>a, <1>b DEF ReadRec
<1>3. ReadOK(w)
  BY <1>2 DEF ReadOK, CollectInv, BaseInv
<1> HIDE DEF w
<1> QED
  BY <1>1, <1>3, ReadPut DEF CollectInv

\* What Open leaves to be looked at: the posts that are not too old.
Opened(w, q) ==
  LET since == read[q].since
      ms    == Batch(since, LimitOf(q))
      aged  == {p \in PostsOf(ms) : Anchor(p) <= old}
      first == IF since > 0 \/ ms = {} THEN {} ELSE 1..(Min(ms) - 1)
  IN  /\ w.phase = "reading" /\ w.own = read[q].own /\ w.since = since /\ w.pending = read[q].pending
      /\ w.left = PostsOf(ms) \ aged /\ w.drop = (UNION aged) \cup first
      /\ w.last = IF ms = {} THEN 0 ELSE Max(ms)

LEMMA OpenStep ==
  ASSUME CollectionAssumption, CollectInv, NEW q \in Readers, Open(q)
  PROVE  /\ ReadInv' /\ Opened(read'[q], q)
         /\ \A o \in Readers \ {q} : read'[o] = read[o]
<1> DEFINE since == read[q].since
           ms    == Batch(since, LimitOf(q))
           aged  == {p \in PostsOf(ms) : Anchor(p) <= old}
           first == IF since > 0 \/ ms = {} THEN {} ELSE 1..(Min(ms) - 1)
           last  == IF ms = {} THEN 0 ELSE Max(ms)
           w == [read[q] EXCEPT !.phase = "reading", !.left = PostsOf(ms) \ aged,
                                !.drop = (UNION aged) \cup first, !.last = last]
<1>1. since \in Nat /\ since <= MaxMsg /\ LimitOf(q) \in Nat /\ channel \in 0..MaxMsg /\ read[q] \in ReadRec
  BY DEF CollectInv, ReadInv, ReadRec, LimitOf, CollectionAssumption, BaseInv
<1>2. ms \subseteq 1..channel /\ ms \subseteq Messages /\ ms \subseteq Nat
  BY <1>1, BatchBounds
<1>3. \A p \in PostsOf(ms) : p \in Item /\ Whole(p) /\ p \subseteq ms
  BY <1>2, PostsWhole
<1>4. last \in 0..MaxMsg /\ last <= channel
  BY <1>1, <1>2, MaxThere
<1>5. first \subseteq Messages
  <2>1. CASE ms = {}
    BY <2>1
  <2>2. CASE ms # {}
    <3>1. Min(ms) \in 1..channel
      BY <1>2, <2>2, MinThere
    <3> QED
      BY <1>1, <3>1 DEF Messages
  <2> QED
    BY <2>1, <2>2
<1>6. UNION aged \subseteq Messages
  BY <1>2, <1>3
<1>7. read' = [read EXCEPT ![q] = w]
  BY DEF Open, CollectInv, ReadInv
<1> HIDE DEF ms, aged, first, last
<1>8. /\ w \in ReadRec /\ w.phase = "reading" /\ w.own = read[q].own /\ w.since = since
      /\ w.pending = read[q].pending
      /\ w.left = PostsOf(ms) \ aged /\ w.drop = (UNION aged) \cup first /\ w.last = last
  <2>1. PostsOf(ms) \ aged \in SUBSET Item
    BY <1>3
  <2>2. (UNION aged) \cup first \in SUBSET Messages
    BY <1>5, <1>6
  <2> QED
    BY <1>1, <1>4, <2>1, <2>2 DEF ReadRec
<1> HIDE DEF w
<1>9. ReadOK(w)
  BY <1>1, <1>3, <1>4, <1>8 DEF ReadOK, CollectInv, ReadInv
<1>10. channel' = channel
  BY DEF Open
<1>11. Opened(w, q)
  BY <1>8 DEF Opened, ms, aged, first, last
<1>12. ReadInv' /\ \A o \in Readers : read'[o] = IF o = q THEN w ELSE read[o]
  BY <1>7, <1>9, <1>10, ReadPut DEF CollectInv
<1> QED
  BY <1>11, <1>12

\* The post that is looked at next is one of those that are left.
LEMMA TurnThere ==
  ASSUME NEW posts, posts \subseteq Item, posts # {}
  PROVE  Turn(posts) \in posts
<1> DEFINE alone == {p \in posts : ~Grouped(Anchor(p))}
           pool == IF alone # {} THEN alone ELSE posts
           S == {Anchor(p) : p \in pool}
<1>1. pool # {} /\ pool \subseteq posts
  OBVIOUS
<1>2. S \subseteq Nat /\ S # {}
  <2>1. ASSUME NEW p \in pool PROVE Anchor(p) \in Nat
    BY <1>1, AnchorThere DEF Messages
  <2> QED
    BY <1>1, <2>1
<1>3. PICK n \in S : \A k \in S : n <= k
  BY <1>2, LeastThere
<1>4. \E p \in pool : \A o \in pool : Anchor(p) <= Anchor(o)
  BY <1>3
<1> HIDE DEF pool
<1>5. (CHOOSE p \in pool : \A o \in pool : Anchor(p) <= Anchor(o)) \in pool
  BY <1>4
<1> QED
  BY <1>1, <1>5 DEF Turn, pool

\* One turn takes a post out; it is known, or may be lost with its file, or is kept.
Considered(w, q) ==
  \E p \in read[q].left :
    /\ w.phase = "reading" /\ w.own = read[q].own /\ w.since = read[q].since
    /\ w.drop = read[q].drop /\ w.last = read[q].last /\ w.left = read[q].left \ {p}
    /\ \/ (Known(p) \/ MayVanish(p)) /\ w.pending = read[q].pending
       \/ ~Known(p) /\ w.pending = read[q].pending \cup {p}

LEMMA ConsiderStep ==
  ASSUME CollectionAssumption, CollectInv, NEW q \in Readers, Consider(q)
  PROVE  /\ ReadInv' /\ Considered(read'[q], q)
         /\ \A o \in Readers \ {q} : read'[o] = read[o]
<1> DEFINE p == Turn(read[q].left)
           gone == [read[q] EXCEPT !.left = read[q].left \ {p}]
           kept == [read[q] EXCEPT !.left = read[q].left \ {p}, !.pending = read[q].pending \cup {p}]
<1>1. read[q] \in ReadRec /\ read[q].left # {} /\ read[q].left \subseteq Item /\ read[q].phase = "reading"
  BY DEF Consider, CollectInv, ReadInv, ReadRec
<1>2. p \in read[q].left
  BY <1>1, TurnThere
<1>3. \/ (Known(p) \/ MayVanish(p)) /\ read' = [read EXCEPT ![q] = gone]
      \/ ~Known(p) /\ read' = [read EXCEPT ![q] = kept]
  BY DEF Consider, CollectInv, ReadInv
<1> HIDE DEF p
<1>4. /\ gone \in ReadRec /\ gone.phase = "reading" /\ gone.own = read[q].own
      /\ gone.since = read[q].since /\ gone.drop = read[q].drop /\ gone.last = read[q].last
      /\ gone.left = read[q].left \ {p} /\ gone.pending = read[q].pending
  BY <1>1 DEF ReadRec
<1>5. /\ kept \in ReadRec /\ kept.phase = "reading" /\ kept.own = read[q].own
      /\ kept.since = read[q].since /\ kept.drop = read[q].drop /\ kept.last = read[q].last
      /\ kept.left = read[q].left \ {p} /\ kept.pending = read[q].pending \cup {p}
  BY <1>1, <1>2 DEF ReadRec
<1> HIDE DEF gone, kept
<1>6. ReadOK(gone) /\ ReadOK(kept)
  BY <1>2, <1>4, <1>5 DEF ReadOK, CollectInv, ReadInv
<1>7. channel' = channel
  BY DEF Consider
<1>8. CASE (Known(p) \/ MayVanish(p)) /\ read' = [read EXCEPT ![q] = gone]
  <2>1. Considered(gone, q)
    BY <1>2, <1>4, <1>8 DEF Considered
  <2>2. ReadInv' /\ \A o \in Readers : read'[o] = IF o = q THEN gone ELSE read[o]
    BY <1>6, <1>7, <1>8, ReadPut DEF CollectInv
  <2> QED
    BY <2>1, <2>2
<1>9. CASE ~Known(p) /\ read' = [read EXCEPT ![q] = kept]
  <2>1. Considered(kept, q)
    BY <1>2, <1>5, <1>9 DEF Considered
  <2>2. ReadInv' /\ \A o \in Readers : read'[o] = IF o = q THEN kept ELSE read[o]
    BY <1>6, <1>7, <1>9, ReadPut DEF CollectInv
  <2> QED
    BY <2>1, <2>2
<1> QED
  BY <1>3, <1>8, <1>9

\* A reader that ends, with or without its posts.
LEMMA LeaveStep ==
  ASSUME CollectionAssumption, CollectInv, NEW q \in Readers, Leave(q), channel' = channel
  PROVE  /\ ReadInv' /\ \A o \in Readers : read'[o] = IF o = q THEN Idle ELSE read[o]
         /\ listener' \in {"none", "off", "catchup", "on"}
<1>1. read' = [read EXCEPT ![q] = Idle] /\ listener' \in {"on", listener}
  BY DEF Leave
<1> QED
  BY <1>1, IdleOK, ReadPut DEF CollectInv, BaseInv

LEMMA FlushBase ==
  ASSUME CollectionAssumption, CollectInv, NEW q \in Readers, Flush(q)
  PROVE  BaseInv'
<1>1. read[q] \in ReadRec /\ read[q].last <= channel
  BY DEF CollectInv, ReadInv, ReadOK
<1>2. cursor' \in 0..channel
  BY <1>1 DEF Flush, CursorAfter, CollectInv, BaseInv, ReadRec
<1>3. rows' \subseteq Item /\ skipped' \subseteq Messages
  BY <1>1 DEF Flush, Writable, CollectInv, BaseInv, ReadRec
<1>4. channel' = channel /\ listener' \in {"none", "off", "catchup", "on"}
  BY LeaveStep DEF Flush
<1>5. UNCHANGED <<old, unsaved, noted, failures, restarts>>
  BY DEF Flush, trouble
<1> QED
  BY <1>2, <1>3, <1>4, <1>5 DEF CollectInv, BaseInv

\* Readers: the poll, its batch, its turns, its end.
LEMMA ReaderStep ==
  ASSUME CollectionAssumption, CollectInv, NEW q \in Readers,
         Poll(q) \/ Open(q) \/ Consider(q) \/ Flush(q) \/ ReadFails(q)
  PROVE  CollectInv'
<1>1. channel' = channel /\ UNCHANGED <<old, events, heard, buffer, saves>>
  BY DEF Poll, Open, Consider, Flush, ReadFails, live
<1>2. ReadInv'
  <2>1. CASE Poll(q)
    <3>1. PICK own \in BOOLEAN : Start(q, own)
      BY <2>1 DEF Poll
    <3> QED
      BY <1>1, <3>1, StartStep
  <2>2. CASE Flush(q) \/ ReadFails(q)
    BY <1>1, <2>2, LeaveStep DEF Flush, ReadFails
  <2> QED
    BY <2>1, <2>2, OpenStep, ConsiderStep
<1>3. LiveInv'
  BY <1>1 DEF CollectInv, LiveInv, SaveOK
<1>4. BaseInv'
  <2>1. CASE Poll(q) \/ Open(q) \/ Consider(q)
    BY <2>1 DEF Poll, Open, Consider, base, trouble, CollectInv, BaseInv
  <2>2. CASE ReadFails(q)
    BY <1>1, <2>2, LeaveStep DEF ReadFails, base, CollectInv, BaseInv, CollectionAssumption
  <2> QED
    BY <2>1, <2>2, FlushBase
<1> QED
  BY <1>2, <1>3, <1>4 DEF CollectInv

LEMMA ConnectStep ==
  ASSUME CollectionAssumption, CollectInv, Connect \/ Disconnect PROVE CollectInv'
<1>1. channel' = channel /\ UNCHANGED <<old, cursor, rows, skipped, events, heard, buffer, saves,
                                        unsaved, noted, failures, restarts>>
      /\ listener' \in {"off", "catchup"}
  BY DEF Connect, Disconnect, base, live, trouble
<1>2. CatchUp \in Readers
  BY DEF Readers
<1>3. ReadInv'
  <2>1. CASE Connect
    BY <1>1, <1>2, <2>1, StartStep DEF Connect
  <2>2. CASE Disconnect
    BY <1>1, <1>2, <2>2, IdleOK, ReadPut DEF Disconnect, CollectInv
  <2> QED
    BY <2>1, <2>2
<1> QED
  BY <1>1, <1>3 DEF CollectInv, BaseInv, LiveInv, SaveOK

LEMMA SaveStarts ==
  ASSUME CollectionAssumption, CollectInv, NEW p \in Item, p \subseteq 1..channel, Whole(p),
         StartSave(p), channel' = channel
  PROVE  \A s \in saves' : SaveOK(s)'
<1> DEFINE w == [post |-> p, seen |-> cursor]
<1>1. w \in [post : Item, seen : 0..MaxMsg] /\ w.post = p
  BY DEF CollectInv, BaseInv, CollectionAssumption
<1>2. saves' = saves \cup {w}
  BY DEF StartSave
<1> QED
  BY <1>1, <1>2 DEF CollectInv, LiveInv, SaveOK

LEMMA HandleStep ==
  ASSUME CollectionAssumption, CollectInv, NEW m \in events, HandleEvent(m) PROVE CollectInv'
<1>1. channel' = channel /\ UNCHANGED <<old, cursor, rows, skipped, read, listener,
                                        unsaved, noted, failures, restarts>>
      /\ events' = events \ {m} /\ heard' = heard \cup {m}
  BY DEF HandleEvent, base, trouble
<1>2. m \in 1..channel /\ m \in Messages
  BY DEF CollectInv, LiveInv, BaseInv, Messages, CollectionAssumption
<1>3. CASE Grouped(m)
  <2>1. GroupOf[m] \in Groups
    BY <1>2, <1>3 DEF Groups, Grouped
  <2>2. buffer' = [buffer EXCEPT ![GroupOf[m]] = buffer[GroupOf[m]] \cup {m}] /\ saves' = saves
    BY <1>3, <2>1 DEF HandleEvent, CollectInv, LiveInv
  <2>3. buffer' \in [Groups -> SUBSET (1..channel)]
    BY <1>2, <2>1, <2>2 DEF CollectInv, LiveInv
  <2>4. \A g \in Groups : buffer'[g] = IF g = GroupOf[m] THEN buffer[g] \cup {m} ELSE buffer[g]
    BY <2>1, <2>2 DEF CollectInv, LiveInv
  <2> QED
    BY <1>1, <1>2, <2>2, <2>3, <2>4 DEF CollectInv, LiveInv, BaseInv, ReadInv, ReadOK, SaveOK
<1>4. CASE ~Grouped(m)
  <2>1. StartSave({m}) /\ buffer' = buffer
    BY <1>4 DEF HandleEvent
  <2>2. {m} \in Item /\ Whole({m}) /\ {m} \subseteq 1..channel
    BY <1>2, SingleWhole
  <2>3. \A s \in saves' : SaveOK(s)'
    BY <1>1, <2>1, <2>2, SaveStarts
  <2> QED
    BY <1>1, <1>2, <2>1, <2>3 DEF CollectInv, LiveInv, BaseInv, ReadInv, ReadOK
<1> QED
  BY <1>3, <1>4

\* The parts in the buffer are a post.
LEMMA BufferWhole ==
  ASSUME CollectionAssumption, CollectInv, NEW g \in Groups, buffer[g] # {}
  PROVE  buffer[g] \in Item /\ Whole(buffer[g]) /\ buffer[g] \subseteq 1..channel
         /\ GroupOf[Anchor(buffer[g])] = g /\ g # NoGroup
<1>1. buffer[g] \subseteq 1..channel /\ buffer[g] \subseteq Messages /\ \A m \in buffer[g] : GroupOf[m] = g
  BY DEF CollectInv, LiveInv, BaseInv, Messages, CollectionAssumption
<1>2. g # NoGroup
  BY DEF Groups
<1> QED
  BY <1>1, <1>2, AlbumWhole

LEMMA TimerStep ==
  ASSUME CollectionAssumption, CollectInv, NEW g \in Groups, AlbumTimer(g) PROVE CollectInv'
<1>1. channel' = channel /\ UNCHANGED <<old, cursor, rows, skipped, read, listener, events, heard,
                                        unsaved, noted, failures, restarts>>
  BY DEF AlbumTimer, base, trouble
<1>2. buffer' \in [Groups -> SUBSET (1..channel)] /\ \A x \in Groups : buffer'[x] \subseteq buffer[x]
  BY DEF AlbumTimer, CollectInv, LiveInv
<1>3. \A s \in saves' : SaveOK(s)'
  <2>1. CASE saves' = saves
    BY <1>1, <2>1 DEF CollectInv, LiveInv, SaveOK
  <2>2. CASE StartSave(buffer[g])
    BY <1>1, <2>2, BufferWhole, SaveStarts DEF AlbumTimer
  <2> QED
    BY <2>1, <2>2 DEF AlbumTimer
<1> QED
  BY <1>1, <1>2, <1>3 DEF CollectInv, LiveInv, BaseInv, ReadInv, ReadOK

\* The end of a save, written or not.
LEMMA FinishStep ==
  ASSUME CollectionAssumption, CollectInv, NEW s \in saves, FinishSave(s) \/ SaveFails(s)
  PROVE  CollectInv'
<1>1. channel' = channel /\ UNCHANGED <<old, skipped, read, listener, events, heard, buffer, restarts>>
      /\ saves' \subseteq saves
  BY DEF FinishSave, SaveFails, base, trouble
<1>2. s \in [post : Item, seen : 0..MaxMsg] /\ s.post \subseteq 1..channel /\ s.post # {}
      /\ s.post \subseteq Messages
  BY DEF CollectInv, LiveInv, SaveOK, Item
<1>3. CASE FinishSave(s)
  <2>1. rows' \subseteq Item
    BY <1>2, <1>3 DEF FinishSave, Writable, CollectInv, BaseInv
  <2>2. channel \in Nat
    BY DEF CollectInv, BaseInv
  <2>3. Max(s.post) \in 0..channel
    BY <1>2, <2>2, MaxThere
  <2>4. cursor' \in 0..channel
    BY <1>3, <2>3 DEF FinishSave, CollectInv, BaseInv
  <2>5. UNCHANGED <<unsaved, noted, failures>>
    BY <1>3 DEF FinishSave, trouble
  <2> QED
    BY <1>1, <2>1, <2>4, <2>5 DEF CollectInv, LiveInv, BaseInv, ReadInv, ReadOK, SaveOK
<1>4. CASE SaveFails(s)
  <2>1. failures' \in 0..MaxFailures
    BY <1>4 DEF SaveFails, CollectInv, BaseInv, CollectionAssumption
  <2>2. noted' \subseteq Messages /\ unsaved' \subseteq Messages /\ UNCHANGED <<rows, cursor>>
    BY <1>2, <1>4 DEF SaveFails, base, CollectInv, BaseInv
  <2> QED
    BY <1>1, <2>1, <2>2 DEF CollectInv, LiveInv, BaseInv, ReadInv, ReadOK, SaveOK
<1> QED
  BY <1>3, <1>4

LEMMA WorldStep ==
  ASSUME CollectionAssumption, CollectInv, Arrive \/ Age \/ Restart PROVE CollectInv'
<1>1. CASE Arrive
  <2>1. channel' = channel + 1 /\ channel' \in 0..MaxMsg /\ channel \in Nat
    BY <1>1 DEF Arrive, CollectInv, BaseInv, CollectionAssumption
  <2>2. 1..channel \subseteq 1..channel' /\ channel' \in 1..channel'
    BY <2>1
  <2>3. UNCHANGED <<old, cursor, rows, skipped, read, listener, heard, buffer, saves,
                    unsaved, noted, failures, restarts>> /\ events' \subseteq events \cup {channel'}
    BY <1>1 DEF Arrive, base, trouble
  <2>4. BaseInv'
    BY <2>1, <2>3 DEF CollectInv, BaseInv
  <2>5. ReadInv'
    BY <2>1, <2>3 DEF CollectInv, ReadInv, ReadOK, ReadRec
  <2>6. LiveInv'
    <3>1. events' \subseteq 1..channel' /\ heard' \subseteq 1..channel'
      BY <2>2, <2>3 DEF CollectInv, LiveInv
    <3>2. buffer' \in [Groups -> SUBSET (1..channel')]
      BY <2>2, <2>3 DEF CollectInv, LiveInv
    <3>3. \A s \in saves' : SaveOK(s)'
      BY <2>2, <2>3 DEF CollectInv, LiveInv, SaveOK
    <3> QED
      BY <2>3, <3>1, <3>2, <3>3 DEF CollectInv, LiveInv
  <2> QED
    BY <2>4, <2>5, <2>6 DEF CollectInv
<1>2. CASE Age
  BY <1>2 DEF Age, base, live, trouble, CollectInv, BaseInv, ReadInv, ReadOK, LiveInv, SaveOK
<1>3. CASE Restart
  <2>1. channel' = channel /\ UNCHANGED <<old, cursor, rows, skipped, unsaved, noted, failures>>
    BY <1>3 DEF Restart, base, trouble
  <2>2. BaseInv'
    BY <1>3, <2>1 DEF Restart, CollectInv, BaseInv, CollectionAssumption
  <2>3. \A q \in Readers : read'[q] = Idle
    BY <1>3 DEF Restart
  <2>4. ReadOK(Idle)
    BY IdleOK DEF CollectInv
  <2>5. ReadInv'
    BY <1>3, <2>1, <2>3, <2>4 DEF Restart, ReadInv, ReadOK
  <2>6. LiveInv'
    BY <1>3, <2>1 DEF Restart, LiveInv
  <2> QED
    BY <2>2, <2>5, <2>6 DEF CollectInv
<1> QED
  BY <1>1, <1>2, <1>3

LEMMA CollectStep ==
  ASSUME CollectionAssumption, CollectInv, [Next]_vars PROVE CollectInv'
<1>1. CASE UNCHANGED vars
  BY <1>1 DEF vars, base, live, trouble, CollectInv, BaseInv, ReadInv, ReadOK, LiveInv, SaveOK
<1>2. CASE Next
  BY <1>2, ReaderStep, ConnectStep, HandleStep, TimerStep, FinishStep, WorldStep DEF Next
<1> QED
  BY <1>1, <1>2

LEMMA CollectInit ==
  ASSUME CollectionAssumption, Init PROVE CollectInv
<1>1. BaseInv
  BY DEF Init, BaseInv, CollectionAssumption
<1>2. ReadInv
  BY <1>1, IdleOK DEF Init, ReadInv, ReadOK
<1>3. LiveInv
  BY DEF Init, LiveInv
<1> QED
  BY <1>1, <1>2, <1>3 DEF CollectInv

THEOREM CollectHolds == Spec => []CollectInv
<1>1. CollectionAssumption
  BY CollectionAssumption
<1> QED
  BY <1>1, CollectInit, CollectStep, PTL DEF Spec

\* The variables keep their types: no cursor, batch or album reaches past the channel.
THEOREM CollectionTypeCorrect == Spec => []TypeOK
<1>1. ASSUME CollectInv PROVE TypeOK
  <2>1. 1..channel \subseteq Messages
    BY <1>1, CollectionAssumption DEF CollectInv, BaseInv, Messages, CollectionAssumption
  <2>2. buffer \in [Groups -> SUBSET Messages] /\ events \subseteq Messages /\ heard \subseteq Messages
    BY <1>1, <2>1 DEF CollectInv, LiveInv
  <2>3. saves \subseteq [post : Item, seen : 0..MaxMsg]
    BY <1>1 DEF CollectInv, LiveInv, SaveOK
  <2> QED
    BY <1>1, <2>2, <2>3 DEF CollectInv, BaseInv, ReadInv, ReadRec, TypeOK
<1> QED
  BY <1>1, CollectHolds, PTL

-----------------------------------------------------------------------------
(* What becomes of a message.                                               *)

\* Nothing is taken back from the table or from the journal.
LEMMA BaseGrows ==
  ASSUME [Next]_vars
  PROVE  rows \subseteq rows' /\ skipped \subseteq skipped' /\ noted \subseteq noted' /\ unsaved \subseteq unsaved'
<1> DEFINE Goal == rows \subseteq rows' /\ skipped \subseteq skipped' /\ noted \subseteq noted'
                   /\ unsaved \subseteq unsaved'
<1>1. ASSUME NEW q \in Readers, Poll(q) \/ Open(q) \/ Consider(q) \/ Flush(q) \/ ReadFails(q) PROVE Goal
  BY <1>1 DEF Poll, Open, Consider, Flush, ReadFails, base, trouble
<1>2. ASSUME Connect \/ Disconnect PROVE Goal
  BY <1>2 DEF Connect, Disconnect, base, trouble
<1>3. ASSUME NEW m \in events, HandleEvent(m) PROVE Goal
  BY <1>3 DEF HandleEvent, base, trouble
<1>4. ASSUME NEW g \in Groups, AlbumTimer(g) PROVE Goal
  BY <1>4 DEF AlbumTimer, base, trouble
<1>5. ASSUME NEW s \in saves, FinishSave(s) \/ SaveFails(s) PROVE Goal
  BY <1>5 DEF FinishSave, SaveFails, base, trouble
<1>6. ASSUME Arrive \/ Age \/ Restart PROVE Goal
  BY <1>6 DEF Arrive, Age, Restart, base, trouble
<1>7. ASSUME UNCHANGED vars PROVE Goal
  BY <1>7 DEF vars, base, trouble
<1> QED
  BY <1>1, <1>2, <1>3, <1>4, <1>5, <1>6, <1>7 DEF Next

LEMMA InBaseStays ==
  ASSUME [Next]_vars, NEW m, InBase(m) PROVE InBase(m)'
BY BaseGrows DEF InBase

\* A message of a post that is known, or whose anchor is there, is in the base.
LEMMA AnchorInBase ==
  ASSUME CollectInv, NEW p \in Item, Whole(p), HasMessage(Anchor(p)), NEW m \in p
  PROVE  InBase(m)
<1>1. PICK r \in rows : Anchor(r) = Anchor(p)
  BY DEF HasMessage
<1>2. r \in Item /\ Anchor(r) \in r
  BY <1>1, AnchorThere DEF CollectInv, BaseInv
<1> QED
  BY <1>1, <1>2 DEF Whole, InBase

LEMMA KnownInBase ==
  ASSUME CollectInv, NEW p \in Item, Whole(p), Known(p), NEW m \in p
  PROVE  InBase(m)
<1>1. CASE Grouped(Anchor(p))
  <2>1. PICK r \in rows : GroupOf[Anchor(r)] = GroupOf[Anchor(p)]
    BY <1>1 DEF Known, HasGroup
  <2>2. GroupOf[m] = GroupOf[Anchor(p)]
    BY DEF Whole, SameAlbum
  <2> QED
    BY <1>1, <2>1, <2>2 DEF InBase, SameAlbum, Grouped
<1>2. CASE ~Grouped(Anchor(p))
  BY <1>2, AnchorInBase DEF Known
<1> QED
  BY <1>1, <1>2

LEMMA VanishedWithAnchor ==
  ASSUME NEW p \in Item, Whole(p), MayVanish(p), NEW m \in p
  PROVE  Vanished(m)
BY DEF MayVanish, Vanished, Whole

\* What is written of a post whose anchor is not there yet is the whole of it.
LEMMA WrittenInBase ==
  ASSUME CollectInv, NEW p \in Item, Whole(p), NEW m \in p, NEW posts, p \in posts,
         rows' = rows \cup Writable(posts)
  PROVE  InBase(m)'
<1>1. CASE HasMessage(Anchor(p))
  BY <1>1, AnchorInBase DEF InBase
<1>2. CASE ~HasMessage(Anchor(p))
  BY <1>2 DEF Writable, InBase
<1> QED
  BY <1>1, <1>2

\* What may have become of a message that was heard.
Settled(m) == InHand(m) \/ InBase(m) \/ Vanished(m) \/ m \in unsaved

LEMMA HandHandle ==
  ASSUME CollectionAssumption, CollectInv, NEW e \in events, HandleEvent(e),
         NEW m \in Messages, InHand(m)
  PROVE  InHand(m)'
<1>1. CASE m = e /\ Grouped(e)
  <2>1. GroupOf[e] \in Groups
    BY <1>1 DEF Groups, Grouped
  <2>2. buffer'[GroupOf[e]] = buffer[GroupOf[e]] \cup {e}
    BY <1>1, <2>1 DEF HandleEvent, CollectInv, LiveInv
  <2> QED
    BY <1>1, <2>2 DEF InHand
<1>2. CASE m = e /\ ~Grouped(e)
  <2> DEFINE w == [post |-> {e}, seen |-> cursor]
  <2>1. w \in saves' /\ e \in w.post
    BY <1>2 DEF HandleEvent, StartSave
  <2> HIDE DEF w
  <2> QED
    BY <1>2, <2>1 DEF InHand
<1>3. CASE m # e /\ m \in events
  BY <1>3 DEF HandleEvent, InHand
<1>4. CASE Grouped(m) /\ m \in buffer[GroupOf[m]]
  <2>1. GroupOf[m] \in Groups
    BY <1>4 DEF Groups, Grouped
  <2>2. m \in buffer'[GroupOf[m]]
    BY <1>4, <2>1 DEF HandleEvent, CollectInv, LiveInv
  <2> QED
    BY <1>4, <2>2 DEF InHand
<1>5. CASE \E s \in saves : m \in s.post
  BY <1>5 DEF HandleEvent, StartSave, InHand
<1> QED
  BY <1>1, <1>2, <1>3, <1>4, <1>5 DEF InHand

LEMMA HandTimer ==
  ASSUME CollectionAssumption, CollectInv, NEW g \in Groups, AlbumTimer(g),
         NEW m \in Messages, InHand(m)
  PROVE  Settled(m)'
<1>1. [Next]_vars
  BY DEF Next
<1>2. events' = events /\ rows' = rows /\ saves \subseteq saves' /\ buffer' = [buffer EXCEPT ![g] = {}]
  BY DEF AlbumTimer, StartSave, base
<1>3. CASE m \in events \/ \E s \in saves : m \in s.post
  BY <1>2, <1>3 DEF InHand, Settled
<1>4. CASE Grouped(m) /\ m \in buffer[GroupOf[m]] /\ GroupOf[m] # g
  <2>1. GroupOf[m] \in Groups
    BY <1>4 DEF Groups, Grouped
  <2>2. buffer'[GroupOf[m]] = buffer[GroupOf[m]]
    BY <1>2, <1>4, <2>1 DEF CollectInv, LiveInv
  <2> QED
    BY <1>4, <2>2 DEF InHand, Settled
<1>5. CASE m \in buffer[g]
  <2>1. buffer[g] \in Item /\ Whole(buffer[g])
    BY <1>5, BufferWhole
  <2>2. CASE Known(buffer[g])
    <3>1. InBase(m)
      BY <1>5, <2>1, <2>2, KnownInBase
    <3> QED
      BY <1>1, <3>1, InBaseStays DEF Settled
  <2>3. CASE ~Known(buffer[g])
    <3> DEFINE w == [post |-> buffer[g], seen |-> cursor]
    <3>1. w \in saves' /\ m \in w.post
      BY <1>5, <2>3 DEF AlbumTimer, StartSave
    <3> HIDE DEF w
    <3> QED
      BY <3>1 DEF InHand, Settled
  <2> QED
    BY <2>2, <2>3
<1> QED
  BY <1>3, <1>4, <1>5 DEF InHand

LEMMA HandFinish ==
  ASSUME CollectionAssumption, CollectInv, NEW s \in saves, FinishSave(s) \/ SaveFails(s),
         NEW m \in Messages, InHand(m)
  PROVE  Settled(m)'
<1>1. [Next]_vars
  BY DEF Next
<1>2. events' = events /\ buffer' = buffer /\ saves' = saves \ {s}
  BY DEF FinishSave, SaveFails
<1>3. s.post \in Item /\ Whole(s.post)
  BY DEF CollectInv, LiveInv, SaveOK
<1>4. CASE m \in s.post
  <2>1. CASE SaveFails(s)
    BY <1>4, <2>1 DEF SaveFails, Settled
  <2>2. CASE FinishSave(s) /\ HasMessage(Anchor(s.post))
    <3>1. InBase(m)
      BY <1>3, <1>4, <2>2, AnchorInBase
    <3> QED
      BY <1>1, <3>1, InBaseStays DEF Settled
  <2>3. CASE FinishSave(s) /\ MayVanish(s.post)
    BY <1>3, <1>4, <2>3, VanishedWithAnchor DEF Settled, Vanished
  <2>4. CASE rows' = rows \cup Writable({s.post})
    <3>1. InBase(m)'
      BY <1>3, <1>4, <2>4, WrittenInBase
    <3> QED
      BY <3>1 DEF Settled
  <2> QED
    BY <2>1, <2>2, <2>3, <2>4 DEF FinishSave
<1>5. CASE m \notin s.post
  BY <1>2, <1>5 DEF InHand, Settled
<1> QED
  BY <1>4, <1>5

\* Only a restart takes out of the hands what is neither saved nor reported.
LEMMA HandStep ==
  ASSUME CollectionAssumption, CollectInv, [Next]_vars, ~Restart, NEW m \in Messages, InHand(m)
  PROVE  Settled(m)'
<1>1. ASSUME UNCHANGED <<buffer, saves>>, events \subseteq events' PROVE Settled(m)'
  BY <1>1 DEF InHand, Settled
<1>2. ASSUME NEW q \in Readers, Poll(q) \/ Open(q) \/ Consider(q) \/ Flush(q) \/ ReadFails(q)
      PROVE  Settled(m)'
  BY <1>1, <1>2 DEF Poll, Open, Consider, Flush, ReadFails, live
<1>3. ASSUME Connect \/ Disconnect PROVE Settled(m)'
  BY <1>1, <1>3 DEF Connect, Disconnect, live
<1>4. ASSUME Arrive \/ Age PROVE Settled(m)'
  BY <1>1, <1>4 DEF Arrive, Age, live
<1>5. ASSUME UNCHANGED vars PROVE Settled(m)'
  BY <1>1, <1>5 DEF vars, live
<1>6. ASSUME NEW e \in events, HandleEvent(e) PROVE Settled(m)'
  BY <1>6, HandHandle DEF Settled
<1> QED
  BY <1>2, <1>3, <1>4, <1>5, <1>6, HandTimer, HandFinish DEF Next

LEMMA HeardStep ==
  ASSUME CollectionAssumption, CollectInv, HeardIsKept, [Next]_vars PROVE HeardIsKept'
<1>1. CASE Restart
  BY <1>1 DEF Restart, HeardIsKept
<1>2. CASE ~Restart
  <2>1. heard' \subseteq heard \cup events
    <3>1. ASSUME UNCHANGED heard PROVE heard' \subseteq heard \cup events
      BY <3>1
    <3>2. ASSUME NEW q \in Readers, Poll(q) \/ Open(q) \/ Consider(q) \/ Flush(q) \/ ReadFails(q)
          PROVE  UNCHANGED heard
      BY <3>2 DEF Poll, Open, Consider, Flush, ReadFails, live
    <3>3. ASSUME Connect \/ Disconnect \/ Arrive \/ Age PROVE UNCHANGED heard
      BY <3>3 DEF Connect, Disconnect, Arrive, Age, live
    <3>4. ASSUME NEW m \in events, HandleEvent(m) PROVE heard' \subseteq heard \cup events
      BY <3>4 DEF HandleEvent
    <3>5. ASSUME NEW g \in Groups, AlbumTimer(g) PROVE UNCHANGED heard
      BY <3>5 DEF AlbumTimer
    <3>6. ASSUME NEW s \in saves, FinishSave(s) \/ SaveFails(s) PROVE UNCHANGED heard
      BY <3>6 DEF FinishSave, SaveFails
    <3>7. ASSUME UNCHANGED vars PROVE UNCHANGED heard
      BY <3>7 DEF vars, live
    <3> QED
      BY <1>2, <3>1, <3>2, <3>3, <3>4, <3>5, <3>6, <3>7 DEF Next
  <2>2. ASSUME NEW m \in heard' PROVE Settled(m)'
    <3>1. m \in Messages
      <4>1. heard \subseteq 1..channel /\ events \subseteq 1..channel /\ 1..channel \subseteq Messages
        BY DEF CollectInv, LiveInv, BaseInv, Messages, CollectionAssumption
      <4> QED
        BY <2>1, <2>2, <4>1
    <3>2. CASE InHand(m)
      BY <1>2, <3>1, <3>2, HandStep
    <3>3. CASE ~InHand(m)
      <4>1. m \in heard
        BY <2>1, <2>2, <3>3 DEF InHand
      <4>2. InBase(m) \/ Vanished(m) \/ m \in unsaved
        BY <3>3, <4>1 DEF HeardIsKept
      <4> QED
        BY <4>2, BaseGrows, InBaseStays DEF Settled, Vanished
    <3> QED
      BY <3>2, <3>3
  <2> QED
    BY <2>2 DEF HeardIsKept, Settled
<1> QED
  BY <1>1, <1>2

\* _handle_new_message, _buffer_album, _save_album: what a handler has looked at is in hand
\* until it is in the base, whatever else writes the same posts meanwhile; only a save that
\* the database refuses loses it.
THEOREM HeardMessagesKept == Spec => []HeardIsKept
<1>1. ASSUME Init PROVE HeardIsKept
  BY <1>1 DEF Init, HeardIsKept
<1>2. ASSUME CollectInv, HeardIsKept, [Next]_vars PROVE HeardIsKept'
  BY <1>2, HeardStep, CollectionAssumption
<1> QED
  BY <1>1, <1>2, CollectHolds, PTL DEF Spec

-----------------------------------------------------------------------------
(* Polls alone: the listener is not started.                                *)

\* One poll reads at a time, with a client of its own: the lock keeps the others waiting.
AloneInv ==
  /\ listener = "none" /\ events = {} /\ saves = {} /\ \A g \in Groups : buffer[g] = {}
  /\ read[CatchUp] = Idle
  /\ \A q \in Readers : /\ read[q].phase # "idle" => read[q].own
                        /\ read[q].phase # "reading" => read[q].left = {} /\ read[q].pending = {}
  /\ \A q, o \in Readers : read[q].phase = "reading" /\ read[o].phase = "reading" => q = o

\* What need not be collected any more.
Covered(m) == InBase(m) \/ m \in skipped \/ Vanished(m)

\* The posts of a reader are of different albums, those it keeps are not known, and up to
\* the last message of its batch everything is covered, dropped, or in one of its posts.
Apart(posts) == \A p, r \in posts :
  p # r /\ Grouped(Anchor(p)) => GroupOf[Anchor(p)] # GroupOf[Anchor(r)]
BatchOK(w) ==
  /\ w.phase # "idle" => \A m \in 1..w.since : Covered(m)
  /\ w.phase = "reading" =>
       /\ Apart(w.left \cup w.pending)
       /\ \A p \in w.pending : ~Known(p)
       /\ \A m \in 1..w.last : Covered(m) \/ m \in w.drop \/ \E p \in w.left \cup w.pending : m \in p

PollInv == /\ AloneInv /\ AlbumOnce
           /\ \A m \in 1..cursor : Covered(m)
           /\ \A q \in Readers : BatchOK(read[q])

LEMMA PostsApart ==
  ASSUME NEW ms, ms \subseteq Messages PROVE Apart(PostsOf(ms))
<1> DEFINE album(g) == {m \in ms : GroupOf[m] = g}
<1>1. ASSUME NEW p \in PostsOf(ms), Grouped(Anchor(p))
      PROVE  p = album(GroupOf[Anchor(p)])
  <2>1. CASE \E m \in {x \in ms : ~Grouped(x)} : p = {m}
    BY <1>1, <2>1, SingleWhole
  <2>2. CASE \E g \in {GroupOf[x] : x \in ms} \ {NoGroup} : p = album(g)
    <3>1. PICK g \in {GroupOf[x] : x \in ms} \ {NoGroup} : p = album(g)
      BY <2>2
    <3>2. p # {} /\ p \subseteq Messages /\ \A m \in p : GroupOf[m] = g
      BY <3>1
    <3>3. GroupOf[Anchor(p)] = g
      BY <3>1, <3>2, AlbumWhole
    <3> QED
      BY <3>1, <3>3
  <2> QED
    BY <2>1, <2>2 DEF PostsOf
<1>2. ASSUME NEW p \in PostsOf(ms), NEW r \in PostsOf(ms), Grouped(Anchor(p)),
             GroupOf[Anchor(p)] = GroupOf[Anchor(r)]
      PROVE  p = r
  <2>1. Grouped(Anchor(r))
    BY <1>2 DEF Grouped
  <2>2. p = album(GroupOf[Anchor(p)]) /\ r = album(GroupOf[Anchor(r)])
    BY <1>1, <1>2, <2>1
  <2> QED
    BY <1>2, <2>2
<1> QED
  BY <1>2 DEF Apart

LEMMA PostsCover ==
  ASSUME NEW ms, NEW m \in ms PROVE \E p \in PostsOf(ms) : m \in p
<1>1. CASE Grouped(m)
  <2>1. GroupOf[m] \in {GroupOf[x] : x \in ms} \ {NoGroup}
    BY <1>1 DEF Grouped
  <2>2. {x \in ms : GroupOf[x] = GroupOf[m]} \in PostsOf(ms)
    BY <2>1 DEF PostsOf
  <2> QED
    BY <2>2
<1>2. CASE ~Grouped(m)
  <2>1. {m} \in PostsOf(ms)
    BY <1>2 DEF PostsOf
  <2> QED
    BY <2>1
<1> QED
  BY <1>1, <1>2

LEMMA CoveredStays ==
  ASSUME [Next]_vars, NEW m, Covered(m) PROVE Covered(m)'
BY BaseGrows, InBaseStays DEF Covered, Vanished

\* The others' batches stay what they were as long as nothing is written.
LEMMA BatchStays ==
  ASSUME [Next]_vars, NEW w, BatchOK(w), rows' = rows \/ w.phase # "reading"
  PROVE  BatchOK(w)'
<1>1. ASSUME NEW m, Covered(m) PROVE Covered(m)'
  BY <1>1, CoveredStays
<1>2. rows' = rows => \A p : Known(p)' = Known(p)
  BY DEF Known, HasGroup, HasMessage
<1> QED
  BY <1>1, <1>2 DEF BatchOK

\* A batch begins where the reader has read up to: what it leaves out it drops.
LEMMA OpenReaches ==
  ASSUME CollectionAssumption, CollectInv, NEW q \in Readers, Open(q), NEW w, Opened(w, q),
         NEW m \in 1..w.last
  PROVE  m \in 1..read[q].since \/ m \in w.drop \/ \E p \in w.left : m \in p
<1> DEFINE since == read[q].since
           ms    == Batch(since, LimitOf(q))
           aged  == {p \in PostsOf(ms) : Anchor(p) <= old}
           first == IF since > 0 \/ ms = {} THEN {} ELSE 1..(Min(ms) - 1)
<1>1. /\ w.left = PostsOf(ms) \ aged /\ w.drop = (UNION aged) \cup first
      /\ w.last = IF ms = {} THEN 0 ELSE Max(ms)
  BY DEF Opened
<1>2. since \in Nat /\ LimitOf(q) \in Nat /\ channel \in 0..MaxMsg /\ channel \in Nat
  BY DEF CollectInv, ReadInv, ReadOK, ReadRec, LimitOf, CollectionAssumption, BaseInv
<1>3. ms \subseteq 1..channel /\ ms \subseteq Messages /\ ms \subseteq Nat
  BY <1>2, BatchBounds
<1>4. m \in 1..since \/ m \in ms \/ m \in first
  <2>1. ms # {} /\ Max(ms) \in ms /\ m \in Nat /\ m >= 1 /\ m <= Max(ms)
    BY <1>1, <1>2, <1>3, MaxThere
  <2>2. CASE since > 0
    <3>1. m \in 1..channel /\ m <= since + LimitOf(q)
      BY <1>2, <1>3, <2>1, <2>2 DEF Batch
    <3>2. m > since => m \in ms
      BY <2>2, <3>1 DEF Batch
    <3> QED
      BY <1>2, <2>1, <3>2
  <2>3. CASE ~(since > 0)
    <3>1. Min(ms) \in ms /\ \A z \in ms : Min(ms) <= z
      BY <1>3, <2>1, MinThere
    <3>2. m \in 1..channel /\ Min(ms) > channel - FirstLimit
      BY <1>2, <1>3, <2>1, <2>3, <3>1 DEF Batch
    <3>3. m >= Min(ms) => m \in ms
      BY <1>2, <1>3, <2>3, <3>1, <3>2 DEF Batch, CollectionAssumption
    <3>4. m < Min(ms) => m \in 1..(Min(ms) - 1)
      BY <1>3, <2>1, <3>1
    <3> QED
      BY <1>3, <2>1, <2>3, <3>1, <3>3, <3>4
  <2> QED
    BY <2>2, <2>3, <1>2
<1> HIDE DEF ms, first
<1>5. CASE m \in ms
  <2>1. PICK p \in PostsOf(ms) : m \in p
    BY <1>5, PostsCover
  <2>2. CASE p \in aged
    <3>1. m \in UNION aged
      BY <2>1, <2>2
    <3> QED
      BY <1>1, <3>1
  <2>3. CASE p \notin aged
    BY <1>1, <2>1, <2>3
  <2> QED
    BY <2>2, <2>3
<1> QED
  BY <1>1, <1>4, <1>5

\* A turn of the loop lets go of a post only if its messages are covered.
LEMMA TurnCovers ==
  ASSUME CollectionAssumption, CollectInv, NEW q \in Readers, NEW w, Considered(w, q),
         NEW r \in read[q].left \cup read[q].pending, NEW m \in r
  PROVE  Covered(m) \/ \E p \in w.left \cup w.pending : m \in p
<1>1. PICK p \in read[q].left :
        /\ w.left = read[q].left \ {p}
        /\ \/ (Known(p) \/ MayVanish(p)) /\ w.pending = read[q].pending
           \/ ~Known(p) /\ w.pending = read[q].pending \cup {p}
  BY DEF Considered
<1>2. p \in Item /\ Whole(p)
  BY DEF CollectInv, ReadInv, ReadOK, ReadRec
<1>3. CASE r # p
  BY <1>1, <1>3
<1>4. CASE r = p /\ (Known(p) \/ MayVanish(p))
  BY <1>2, <1>4, KnownInBase, VanishedWithAnchor DEF Covered
<1>5. CASE r = p /\ ~(Known(p) \/ MayVanish(p))
  BY <1>1, <1>5
<1> QED
  BY <1>3, <1>4, <1>5

LEMMA OpenBatch ==
  ASSUME CollectionAssumption, CollectInv, PollInv, NEW q \in Readers, Open(q), NEW w, Opened(w, q)
  PROVE  BatchOK(w)
<1> DEFINE ms == Batch(read[q].since, LimitOf(q))
<1>1. /\ w.phase = "reading" /\ w.since = read[q].since /\ w.pending = {}
      /\ w.left \subseteq PostsOf(ms)
  BY DEF Opened, Open, PollInv, AloneInv
<1>2. read[q].since \in Nat /\ LimitOf(q) \in Nat /\ channel \in 0..MaxMsg
  BY DEF CollectInv, ReadInv, ReadOK, ReadRec, LimitOf, CollectionAssumption, BaseInv
<1>3. ms \subseteq Messages
  BY <1>2, BatchBounds
<1>4. \A m \in 1..read[q].since : Covered(m)
  BY DEF PollInv, BatchOK, Open
<1>5. Apart(w.left \cup w.pending)
  <2>1. Apart(PostsOf(ms))
    BY <1>3, PostsApart
  <2> QED
    BY <1>1, <2>1 DEF Apart
<1>6. ASSUME NEW m \in 1..w.last
      PROVE  Covered(m) \/ m \in w.drop \/ \E p \in w.left \cup w.pending : m \in p
  BY <1>4, OpenReaches
<1> QED
  BY <1>1, <1>4, <1>5, <1>6 DEF BatchOK

LEMMA ConsiderBatch ==
  ASSUME CollectionAssumption, CollectInv, PollInv, NEW q \in Readers, Consider(q), NEW w,
         Considered(w, q)
  PROVE  BatchOK(w)
<1>1. PICK p \in read[q].left :
        /\ w.phase = "reading" /\ w.since = read[q].since
        /\ w.drop = read[q].drop /\ w.last = read[q].last /\ w.left = read[q].left \ {p}
        /\ \/ (Known(p) \/ MayVanish(p)) /\ w.pending = read[q].pending
           \/ ~Known(p) /\ w.pending = read[q].pending \cup {p}
  BY DEF Considered
<1>2. BatchOK(read[q]) /\ read[q].phase = "reading"
  BY DEF PollInv, Consider
<1>4. w.left \cup w.pending \subseteq read[q].left \cup read[q].pending
  BY <1>1
<1>5. Apart(w.left \cup w.pending)
  BY <1>2, <1>4 DEF BatchOK, Apart
<1>7. ASSUME NEW m \in 1..w.last
      PROVE  Covered(m) \/ m \in w.drop \/ \E r \in w.left \cup w.pending : m \in r
  <2>1. Covered(m) \/ m \in w.drop \/ \E r \in read[q].left \cup read[q].pending : m \in r
    BY <1>1, <1>2 DEF BatchOK
  <2> QED
    BY <2>1, TurnCovers
<1>8. \A r \in w.pending : ~Known(r)
  BY <1>1, <1>2 DEF BatchOK
<1> QED
  BY <1>1, <1>2, <1>5, <1>7, <1>8 DEF BatchOK

LEMMA FlushPoll ==
  ASSUME CollectionAssumption, CollectInv, PollInv, NEW q \in Readers, Flush(q), [Next]_vars
  PROVE  /\ AlbumOnce' /\ \A m \in 1..cursor' : Covered(m)'
<1>1. /\ BatchOK(read[q]) /\ read[q].phase = "reading" /\ read[q].left = {}
      /\ rows' = rows \cup Writable(read[q].pending) /\ skipped' = skipped \cup read[q].drop
      /\ cursor' = CursorAfter(q) /\ read[q] \in ReadRec
  BY DEF Flush, Collected, PollInv, CollectInv, ReadInv
<1>2. AlbumOnce'
  <2> SUFFICES ASSUME NEW r \in rows', NEW s \in rows', r # s, Grouped(Anchor(r)),
                      GroupOf[Anchor(r)] = GroupOf[Anchor(s)]
               PROVE  FALSE
    BY DEF AlbumOnce
  <2>1. Grouped(Anchor(s))
    BY DEF Grouped
  <2>2. \A p \in read[q].pending : Grouped(Anchor(p)) => ~HasGroup(GroupOf[Anchor(p)])
    BY <1>1 DEF BatchOK, Known
  <2>3. (r \in rows \/ r \in read[q].pending) /\ (s \in rows \/ s \in read[q].pending)
    BY <1>1 DEF Writable
  <2>4. CASE r \in rows /\ s \in rows
    BY <2>4 DEF PollInv, AloneInv, AlbumOnce
  <2>5. CASE r \in read[q].pending /\ s \in read[q].pending
    BY <1>1, <2>5 DEF BatchOK, Apart
  <2>6. CASE r \in rows /\ s \in read[q].pending
    BY <2>1, <2>2, <2>6 DEF HasGroup
  <2>7. CASE r \in read[q].pending /\ s \in rows
    BY <2>2, <2>7 DEF HasGroup
  <2> QED
    BY <2>3, <2>4, <2>5, <2>6, <2>7
<1>3. ASSUME NEW m \in 1..read[q].last PROVE Covered(m)'
  <2>1. CASE Covered(m)
    BY <2>1, CoveredStays
  <2>2. CASE m \in read[q].drop
    BY <1>1, <2>2 DEF Covered
  <2>3. ASSUME NEW p \in read[q].pending, m \in p PROVE Covered(m)'
    <3>1. p \in Item /\ Whole(p)
      BY DEF CollectInv, ReadInv, ReadOK, ReadRec
    <3>2. InBase(m)'
      BY <1>1, <2>3, <3>1, WrittenInBase
    <3> QED
      BY <3>2 DEF Covered
  <2> QED
    BY <1>1, <2>1, <2>2, <2>3 DEF BatchOK
<1>4. ASSUME NEW m \in 1..cursor' PROVE Covered(m)'
  <2>1. CASE m \in 1..read[q].last
    BY <1>3, <2>1
  <2>2. CASE m \in 1..cursor
    BY <2>2, CoveredStays DEF PollInv
  <2>3. cursor' \in {read[q].last, cursor}
    BY <1>1 DEF CursorAfter
  <2> QED
    BY <2>1, <2>2, <2>3
<1> QED
  BY <1>2, <1>4

\* Who reads, after a step of a poll.
LEMMA AloneStep ==
  ASSUME CollectionAssumption, CollectInv, PollInv, [Next]_vars
  PROVE  AloneInv'
<1> USE DEF AloneInv
<1>0. AloneInv /\ CatchUp \in Readers
  BY DEF PollInv, Readers
<1>1. ASSUME NEW q \in Readers, Poll(q) PROVE AloneInv'
  <2> DEFINE w == [Idle EXCEPT !.phase = "waiting", !.own = ~Connected, !.since = cursor]
  <2>1. read' = [read EXCEPT ![q] = w] /\ UNCHANGED <<listener, events, saves, buffer>> /\ q # CatchUp
    BY <1>1 DEF Poll, Start, live, CollectionAssumption
  <2>2. w.phase = "waiting" /\ w.own = TRUE /\ w.left = {} /\ w.pending = {}
    BY <1>0 DEF Idle, Connected
  <2> HIDE DEF w
  <2>3. \A o \in Readers : read'[o] = IF o = q THEN w ELSE read[o]
    BY <2>1 DEF CollectInv, ReadInv
  <2> QED
    BY <1>0, <2>1, <2>2, <2>3
<1>2. ASSUME NEW q \in Readers, Open(q) PROVE AloneInv'
  <2>1. UNCHANGED <<listener, events, saves, buffer>> /\ read[q].phase = "waiting"
    BY <1>2 DEF Open, live
  <2>2. \A o \in Readers : read[o].phase # "reading"
    BY <1>0, <1>2, <2>1 DEF Open, Locked
  <2>3. q # CatchUp
    BY <1>0, <2>1 DEF Idle
  <2>4. read'[q].own = read[q].own /\ read'[q].phase = "reading"
        /\ \A o \in Readers \ {q} : read'[o] = read[o]
    BY <1>2, OpenStep DEF Opened
  <2> QED
    BY <1>0, <2>1, <2>2, <2>3, <2>4
<1>3. ASSUME NEW q \in Readers, Consider(q) PROVE AloneInv'
  <2>1. UNCHANGED <<listener, events, saves, buffer>> /\ read[q].phase = "reading" /\ q # CatchUp
    BY <1>0, <1>3 DEF Consider, live, Idle
  <2>2. read'[q].own = read[q].own /\ read'[q].phase = "reading"
        /\ \A o \in Readers \ {q} : read'[o] = read[o]
    BY <1>3, ConsiderStep DEF Considered
  <2> QED
    BY <1>0, <2>1, <2>2
<1>4. ASSUME NEW q \in Readers, Flush(q) \/ ReadFails(q) PROVE AloneInv'
  <2>1. UNCHANGED <<events, saves, buffer>> /\ read[q].phase # "idle" /\ Leave(q) /\ channel' = channel
    BY <1>4 DEF Flush, Collected, ReadFails, live
  <2>2. q # CatchUp
    BY <1>0, <2>1 DEF Idle
  <2>3. listener' = listener /\ \A o \in Readers : read'[o] = IF o = q THEN Idle ELSE read[o]
    BY <2>1, <2>2, LeaveStep DEF Leave
  <2> QED
    BY <1>0, <2>1, <2>2, <2>3 DEF Idle
<1>5. ASSUME Connect \/ Disconnect PROVE FALSE
  BY <1>0, <1>5 DEF Connect, Disconnect, Connected
<1>6. ASSUME NEW m \in events, HandleEvent(m) PROVE FALSE
  BY <1>0
<1>7. ASSUME NEW g \in Groups, AlbumTimer(g) PROVE FALSE
  BY <1>0, <1>7 DEF AlbumTimer
<1>8. ASSUME NEW s \in saves PROVE FALSE
  BY <1>0, <1>8
<1>9. ASSUME Arrive \/ Age PROVE AloneInv'
  BY <1>0, <1>9 DEF Arrive, Age, live
<1>10. ASSUME Restart PROVE AloneInv'
  BY <1>0, <1>10 DEF Restart, Idle
<1>11. ASSUME UNCHANGED vars PROVE AloneInv'
  BY <1>0, <1>11 DEF vars, live
<1> QED
  BY <1>1, <1>2, <1>3, <1>4, <1>5, <1>6, <1>7, <1>8, <1>9, <1>10, <1>11 DEF Next

LEMMA PollStep ==
  ASSUME CollectionAssumption, CollectInv, PollInv, [Next]_vars
  PROVE  PollInv'
<1>1. AloneInv'
  BY AloneStep
<1>2. ASSUME UNCHANGED <<rows, cursor>> PROVE AlbumOnce' /\ \A m \in 1..cursor' : Covered(m)'
  BY <1>2, CoveredStays DEF PollInv, AloneInv, AlbumOnce
<1>3. ASSUME NEW q \in Readers, Poll(q) PROVE PollInv'
  <2> DEFINE w == [Idle EXCEPT !.phase = "waiting", !.own = ~Connected, !.since = cursor]
  <2>1. read' = [read EXCEPT ![q] = w] /\ UNCHANGED <<rows, cursor>>
    BY <1>3 DEF Poll, Start, base
  <2>2. w.phase = "waiting" /\ w.since = cursor
    BY DEF Idle
  <2> HIDE DEF w
  <2>3. \A o \in Readers : read'[o] = IF o = q THEN w ELSE read[o]
    BY <2>1 DEF CollectInv, ReadInv
  <2>4. BatchOK(w)
    BY <2>2 DEF BatchOK, PollInv
  <2>5. \A o \in Readers : BatchOK(read[o])'
    BY <2>1, <2>3, <2>4, BatchStays DEF PollInv, BatchOK
  <2> QED
    BY <1>1, <1>2, <2>1, <2>5 DEF PollInv
<1>4. ASSUME NEW q \in Readers, Open(q) PROVE PollInv'
  <2>1. UNCHANGED <<rows, cursor>>
    BY <1>4 DEF Open, base
  <2>2. Opened(read'[q], q) /\ \A o \in Readers \ {q} : read'[o] = read[o]
    BY <1>4, OpenStep
  <2> DEFINE w == read'[q]
  <2>3. \A x : Opened(x, q) => BatchOK(x)
    BY <1>4, OpenBatch
  <2>4. \A x : BatchOK(x) => BatchOK(x)'
    BY <2>1, BatchStays
  <2>5. \A o \in Readers : BatchOK(read[o])'
    BY <2>2, <2>3, <2>4 DEF PollInv, BatchOK
  <2> QED
    BY <1>1, <1>2, <2>1, <2>5 DEF PollInv
<1>5. ASSUME NEW q \in Readers, Consider(q) PROVE PollInv'
  <2>1. UNCHANGED <<rows, cursor>>
    BY <1>5 DEF Consider, base
  <2>2. Considered(read'[q], q) /\ \A o \in Readers \ {q} : read'[o] = read[o]
    BY <1>5, ConsiderStep
  <2>3. \A x : Considered(x, q) => BatchOK(x)
    BY <1>5, ConsiderBatch
  <2>4. \A x : BatchOK(x) => BatchOK(x)'
    BY <2>1, BatchStays
  <2>5. \A o \in Readers : BatchOK(read[o])'
    BY <2>2, <2>3, <2>4 DEF PollInv, BatchOK
  <2> QED
    BY <1>1, <1>2, <2>1, <2>5 DEF PollInv
<1>6. ASSUME NEW q \in Readers, Flush(q) \/ ReadFails(q) PROVE PollInv'
  <2>1. read[q].phase # "idle" /\ Leave(q) /\ channel' = channel
    BY <1>6 DEF Flush, Collected, ReadFails
  <2>2. \A o \in Readers : read'[o] = IF o = q THEN Idle ELSE read[o]
    BY <2>1, LeaveStep
  <2>3. Flush(q) => \A o \in Readers \ {q} : read[o].phase # "reading"
    BY DEF PollInv, AloneInv, Flush, Collected
  <2>4. ReadFails(q) => UNCHANGED <<rows, cursor>>
    BY DEF ReadFails, base
  <2>5. \A o \in Readers \ {q} : BatchOK(read[o])
    BY DEF PollInv
  <2>6. ASSUME NEW o \in Readers PROVE BatchOK(read[o])'
    <3>1. CASE o = q
      BY <2>2, <3>1 DEF BatchOK, Idle
    <3>2. CASE o # q
      <4>1. \A x : BatchOK(x) /\ (rows' = rows \/ x.phase # "reading") => BatchOK(x)'
        BY BatchStays
      <4> QED
        BY <1>6, <2>2, <2>3, <2>4, <2>5, <3>2, <4>1 DEF BatchOK
    <3> QED
      BY <3>1, <3>2
  <2>7. AlbumOnce' /\ \A m \in 1..cursor' : Covered(m)'
    BY <1>2, <1>6, <2>4, FlushPoll
  <2> QED
    BY <1>1, <2>6, <2>7 DEF PollInv
<1>7. ASSUME UNCHANGED <<rows, cursor, read>> PROVE PollInv'
  <2>1. \A x : BatchOK(x) => BatchOK(x)'
    BY <1>7, BatchStays
  <2> QED
    BY <1>1, <1>2, <1>7, <2>1 DEF PollInv, BatchOK
<1>8. ASSUME Connect \/ Disconnect PROVE FALSE
  BY <1>8 DEF Connect, Disconnect, Connected, PollInv, AloneInv
<1>9. ASSUME NEW m \in events PROVE FALSE
  BY <1>9 DEF PollInv, AloneInv
<1>10. ASSUME NEW g \in Groups, AlbumTimer(g) PROVE FALSE
  BY <1>10 DEF AlbumTimer, PollInv, AloneInv
<1>11. ASSUME NEW s \in saves PROVE FALSE
  BY <1>11 DEF PollInv, AloneInv
<1>12. ASSUME Arrive \/ Age PROVE PollInv'
  BY <1>7, <1>12 DEF Arrive, Age, base
<1>13. ASSUME Restart PROVE PollInv'
  <2>1. UNCHANGED <<rows, cursor>> /\ \A q \in Readers : read'[q] = Idle
    BY <1>13 DEF Restart, base
  <2>2. \A q \in Readers : BatchOK(read[q])'
    BY <2>1 DEF BatchOK, Idle
  <2> QED
    BY <1>1, <1>2, <2>1, <2>2 DEF PollInv
<1>14. ASSUME UNCHANGED vars PROVE PollInv'
  BY <1>7, <1>14 DEF vars, base
<1> QED
  BY <1>3, <1>4, <1>5, <1>6, <1>8, <1>9, <1>10, <1>11, <1>12, <1>13, <1>14 DEF Next

LEMMA PollInit ==
  ASSUME CollectionAssumption, Init, listener = "none" PROVE PollInv
<1>1. CatchUp \in Readers
  BY DEF Readers
<1>2. AloneInv
  BY <1>1 DEF Init, AloneInv, Idle
<1>3. \A q \in Readers : BatchOK(read[q])
  BY DEF Init, BatchOK, Idle
<1> QED
  BY <1>2, <1>3 DEF Init, PollInv, AlbumOnce

\* A listener that is started is never as if it were not.
LEMMA NoneBefore ==
  ASSUME [Next]_vars, listener' = "none" PROVE listener = "none"
<1>1. ASSUME NEW q \in Readers, Poll(q) \/ Open(q) \/ Consider(q) \/ Flush(q) \/ ReadFails(q)
      PROVE  listener = "none"
  BY <1>1 DEF Poll, Open, Consider, Flush, ReadFails, Leave
<1>2. ASSUME Connect \/ Disconnect \/ Arrive \/ Age \/ Restart PROVE listener = "none"
  BY <1>2 DEF Connect, Disconnect, Arrive, Age, Restart
<1>3. ASSUME NEW m \in events, HandleEvent(m) PROVE listener = "none"
  BY <1>3 DEF HandleEvent
<1>4. ASSUME NEW g \in Groups, AlbumTimer(g) PROVE listener = "none"
  BY <1>4 DEF AlbumTimer
<1>5. ASSUME NEW s \in saves, FinishSave(s) \/ SaveFails(s) PROVE listener = "none"
  BY <1>5 DEF FinishSave, SaveFails
<1>6. ASSUME UNCHANGED vars PROVE listener = "none"
  BY <1>6 DEF vars
<1> QED
  BY <1>1, <1>2, <1>3, <1>4, <1>5, <1>6 DEF Next

LEMMA PollHolds == Spec => [](listener = "none" => PollInv)
<1> DEFINE I == listener = "none" => PollInv
<1>1. Init => I
  BY PollInit, CollectionAssumption
<1>2. CollectInv /\ I /\ [Next]_vars => I'
  BY PollStep, NoneBefore, CollectionAssumption
<1> HIDE DEF I
<1>3. Spec => []I
  BY <1>1, <1>2, CollectHolds, PTL DEF Spec
<1> QED
  BY <1>3 DEF I

\* collect_pending: polls drain the queue from its beginning.  However many of them
\* overlap, with whatever cursor each of them read, the cursor passes no message that is
\* not in the base, left out on purpose, or gone with its file.
THEOREM PollsPassNothing == Spec => []PollsPassNothingOver
<1>1. (listener = "none" => PollInv) => PollsPassNothingOver
  BY DEF PollInv, PollsPassNothingOver, NothingPassedOver, Covered
<1> QED
  BY <1>1, PollHolds, PTL

\* collect_pending looks for the group, write_post for the anchor alone: polls make one
\* post of an album, though its parts come in several batches.
THEOREM PollsKeepAlbums == Spec => []AlbumOnce
<1>1. (listener = "none" => PollInv) => AlbumOnce
  BY DEF PollInv, AlbumOnce
<1> QED
  BY <1>1, PollHolds, PTL

-----------------------------------------------------------------------------
(* With the listener: what is lost, the gap has lost.                       *)

\* A handler is at it or told the journal, or it need not be collected any more.
Attended(m) == InHand(m) \/ Covered(m) \/ m \in noted

\* The handler is registered when the catch-up has left nothing behind, the process ends
\* with nothing in hand, and the journal tells of every save that fails.
Gapless ==
  /\ listener # "on" /\ listener' = "on" => (\A m \in 1..channel : Attended(m))'
  /\ Restart => events = {} /\ saves = {} /\ \A g \in Groups : buffer[g] = {}
  /\ unsaved' \subseteq noted'

\* A reader answers for what is not in its batch.
ReaderKnows(w) ==
  /\ w.phase # "idle" => \A m \in 1..w.since : Attended(m)
  /\ w.phase = "reading" =>
       \A m \in 1..w.last : Attended(m) \/ m \in w.drop \/ \E p \in w.left \cup w.pending : m \in p

\* While it is registered the handler hears everything; what it hears comes after what is
\* attended to.
ListenerKnows ==
  /\ listener = "on" => \A m \in 1..channel : Attended(m)
  /\ \A m \in Messages : InHand(m) => \A n \in 1..m : Attended(n)

GapInv ==
  /\ unsaved \subseteq noted
  /\ \A m \in 1..cursor : Attended(m)
  /\ \A q \in Readers : ReaderKnows(read[q])
  /\ ListenerKnows

LEMMA ReachedIsMessage ==
  ASSUME CollectionAssumption, CollectInv
  PROVE  /\ 1..channel \subseteq Messages /\ 1..cursor \subseteq Messages
         /\ \A q \in Readers : /\ 1..read[q].since \subseteq Messages
                               /\ 1..read[q].last \subseteq Messages
         /\ \A m \in Messages : 1..m \subseteq Messages
<1>1. /\ MaxMsg \in Nat /\ channel \in 0..MaxMsg /\ cursor \in 0..channel
      /\ \A q \in Readers : read[q].since \in 0..MaxMsg /\ read[q].last \in 0..MaxMsg
  BY DEF CollectInv, BaseInv, ReadInv, ReadRec, CollectionAssumption
<1> QED
  BY <1>1 DEF Messages

LEMMA AttendedStays ==
  ASSUME CollectionAssumption, CollectInv, GapInv, [Next]_vars, Gapless, NEW m \in Messages, Attended(m)
  PROVE  Attended(m)'
<1>1. CASE InHand(m)
  <2>1. ~Restart
    <3>1. GroupOf[m] \in Groups \/ ~Grouped(m)
      BY DEF Groups, Grouped
    <3> QED
      BY <1>1, <3>1 DEF Gapless, InHand
  <2>2. Settled(m)'
    BY <1>1, <2>1, HandStep
  <2>3. unsaved' \subseteq noted'
    BY DEF Gapless
  <2> QED
    BY <2>2, <2>3 DEF Settled, Attended, Covered
<1>2. CASE Covered(m)
  BY <1>2, CoveredStays DEF Attended
<1>3. CASE m \in noted
  BY <1>3, BaseGrows DEF Attended
<1> QED
  BY <1>1, <1>2, <1>3 DEF Attended

\* What is in hand after a step was in hand, or has just been announced.
LEMMA HandSource ==
  ASSUME CollectionAssumption, CollectInv, [Next]_vars, NEW m \in Messages, InHand(m)'
  PROVE  InHand(m) \/ (Arrive /\ m = channel' /\ listener = "on")
<1>1. CASE UNCHANGED <<events, buffer, saves>>
  BY <1>1 DEF InHand
<1>2. ASSUME NEW q \in Readers, Poll(q) \/ Open(q) \/ Consider(q) \/ Flush(q) \/ ReadFails(q)
      PROVE  UNCHANGED <<events, buffer, saves>>
  BY <1>2 DEF Poll, Open, Consider, Flush, ReadFails, live
<1>3. ASSUME Connect \/ Disconnect \/ Age PROVE UNCHANGED <<events, buffer, saves>>
  BY <1>3 DEF Connect, Disconnect, Age, live
<1>4. ASSUME NEW e \in events, HandleEvent(e) PROVE InHand(m)
  <2>1. CASE m = e
    BY <2>1 DEF InHand
  <2>2. CASE m # e
    <3>1. CASE Grouped(e)
      <4>1. GroupOf[e] \in Groups
        <5>1. e \in Messages
          BY DEF CollectInv, LiveInv, BaseInv, Messages, CollectionAssumption
        <5> QED
          BY <3>1, <5>1 DEF Groups, Grouped
      <4>2. /\ buffer' = [buffer EXCEPT ![GroupOf[e]] = buffer[GroupOf[e]] \cup {e}]
            /\ saves' = saves /\ events' \subseteq events
        BY <1>4, <3>1 DEF HandleEvent
      <4>3. Grouped(m) => GroupOf[m] \in Groups
        BY DEF Groups, Grouped
      <4>4. Grouped(m) /\ m \in buffer'[GroupOf[m]] => m \in buffer[GroupOf[m]]
        BY <2>2, <4>1, <4>2, <4>3 DEF CollectInv, LiveInv
      <4> QED
        BY <4>2, <4>4 DEF InHand
    <3>2. CASE ~Grouped(e)
      <4> DEFINE w == [post |-> {e}, seen |-> cursor]
      <4>1. buffer' = buffer /\ events' \subseteq events /\ saves' = saves \cup {w} /\ m \notin w.post
        BY <1>4, <2>2, <3>2 DEF HandleEvent, StartSave
      <4> HIDE DEF w
      <4> QED
        BY <4>1 DEF InHand
    <3> QED
      BY <3>1, <3>2
  <2> QED
    BY <2>1, <2>2
<1>5. ASSUME NEW g \in Groups, AlbumTimer(g) PROVE InHand(m)
  <2> DEFINE w == [post |-> buffer[g], seen |-> cursor]
  <2>1. /\ events' = events /\ saves' \in {saves, saves \cup {w}}
        /\ buffer' = [buffer EXCEPT ![g] = {}]
    BY <1>5 DEF AlbumTimer, StartSave
  <2>2. CASE m \in buffer[g]
    <3>1. GroupOf[m] = g /\ Grouped(m)
      BY <2>2 DEF CollectInv, LiveInv, Groups, Grouped
    <3> QED
      BY <2>2, <3>1 DEF InHand
  <2>3. CASE m \notin buffer[g]
    <3>1. w.post = buffer[g]
      OBVIOUS
    <3> HIDE DEF w
    <3>2. (\E s \in saves' : m \in s.post) => \E s \in saves : m \in s.post
      BY <2>1, <2>3, <3>1
    <3>3. Grouped(m) => GroupOf[m] \in Groups
      BY DEF Groups, Grouped
    <3>4. Grouped(m) /\ m \in buffer'[GroupOf[m]] => m \in buffer[GroupOf[m]]
      BY <2>1, <3>3 DEF CollectInv, LiveInv
    <3> QED
      BY <2>1, <3>2, <3>4 DEF InHand
  <2> QED
    BY <2>2, <2>3
<1>6. ASSUME NEW s \in saves, FinishSave(s) \/ SaveFails(s) PROVE InHand(m)
  <2>1. events' = events /\ buffer' = buffer /\ saves' \subseteq saves
    BY <1>6 DEF FinishSave, SaveFails
  <2> QED
    BY <2>1 DEF InHand
<1>7. ASSUME Arrive PROVE InHand(m) \/ (Arrive /\ m = channel' /\ listener = "on")
  <2>1. /\ events' = events \/ (listener = "on" /\ events' = events \cup {channel'})
        /\ buffer' = buffer /\ saves' = saves
    BY <1>7 DEF Arrive
  <2> QED
    BY <1>7, <2>1 DEF InHand
<1>8. ASSUME Restart PROVE FALSE
  <2>1. events' = {} /\ saves' = {} /\ buffer' = [g \in Groups |-> {}]
    BY <1>8 DEF Restart
  <2>2. Grouped(m) => GroupOf[m] \in Groups
    BY DEF Groups, Grouped
  <2> QED
    BY <2>1, <2>2 DEF InHand
<1>9. ASSUME UNCHANGED vars PROVE UNCHANGED <<events, buffer, saves>>
  BY <1>9 DEF vars, live
<1> QED
  BY <1>1, <1>2, <1>3, <1>4, <1>5, <1>6, <1>7, <1>8, <1>9 DEF Next

\* A reader that stands still.
LEMMA ReaderStays ==
  ASSUME CollectionAssumption, CollectInv, GapInv, [Next]_vars, Gapless, NEW q \in Readers,
         read'[q] = read[q]
  PROVE  ReaderKnows(read[q])'
<1>1. ReaderKnows(read[q])
  BY DEF GapInv
<1>2. \A m \in Messages : Attended(m) => Attended(m)'
  BY AttendedStays
<1>3. 1..read[q].since \subseteq Messages /\ 1..read[q].last \subseteq Messages
  BY ReachedIsMessage
<1> QED
  BY <1>1, <1>2, <1>3 DEF ReaderKnows

LEMMA OpenKnows ==
  ASSUME CollectionAssumption, CollectInv, GapInv, [Next]_vars, Gapless, NEW q \in Readers, Open(q)
  PROVE  ReaderKnows(read[q])'
<1> DEFINE w == read'[q]
<1>1. Opened(w, q) /\ w.since = read[q].since
  BY OpenStep DEF Opened
<1>2. \A m \in Messages : Attended(m) => Attended(m)'
  BY AttendedStays
<1>3. \A m \in 1..read[q].since : Attended(m)'
  <2>1. \A m \in 1..read[q].since : Attended(m)
    BY DEF GapInv, ReaderKnows, Open
  <2> QED
    BY <1>2, <2>1, ReachedIsMessage
<1>4. \A x : Opened(x, q) => \A m \in 1..x.last :
                m \in 1..read[q].since \/ m \in x.drop \/ \E p \in x.left : m \in p
  BY OpenReaches
<1> QED
  BY <1>1, <1>3, <1>4 DEF ReaderKnows

LEMMA ConsiderKnows ==
  ASSUME CollectionAssumption, CollectInv, GapInv, [Next]_vars, Gapless, NEW q \in Readers, Consider(q)
  PROVE  ReaderKnows(read[q])'
<1> DEFINE w == read'[q]
<1>1. Considered(w, q) /\ w.since = read[q].since /\ w.last = read[q].last /\ w.drop = read[q].drop
  BY ConsiderStep DEF Considered
<1>2. \A m \in Messages : Attended(m) => Attended(m)'
  BY AttendedStays
<1>3. ReaderKnows(read[q]) /\ read[q].phase = "reading"
  BY DEF GapInv, Consider
<1>4. 1..read[q].since \subseteq Messages /\ 1..read[q].last \subseteq Messages
  BY ReachedIsMessage
<1>5. \A x : Considered(x, q) => \A r \in read[q].left \cup read[q].pending : \A m \in r :
                Covered(m) \/ \E p \in x.left \cup x.pending : m \in p
  BY TurnCovers
<1>6. ASSUME NEW m \in 1..w.last
      PROVE  Attended(m)' \/ m \in w.drop \/ \E p \in w.left \cup w.pending : m \in p
  <2>1. \/ Attended(m) \/ m \in read[q].drop
        \/ \E r \in read[q].left \cup read[q].pending : m \in r
    BY <1>1, <1>3 DEF ReaderKnows
  <2>2. Covered(m) => Attended(m)
    BY DEF Attended
  <2> QED
    BY <1>1, <1>2, <1>4, <1>5, <2>1, <2>2
<1> QED
  BY <1>1, <1>2, <1>3, <1>4, <1>6 DEF ReaderKnows

\* What a reader commits is attended to, up to the cursor it sets.
LEMMA FlushKnows ==
  ASSUME CollectionAssumption, CollectInv, GapInv, [Next]_vars, Gapless, NEW q \in Readers, Flush(q)
  PROVE  \A m \in 1..cursor' : Attended(m)'
<1>1. /\ ReaderKnows(read[q]) /\ read[q].phase = "reading" /\ read[q].left = {}
      /\ rows' = rows \cup Writable(read[q].pending) /\ skipped' = skipped \cup read[q].drop
      /\ cursor' = CursorAfter(q)
  BY DEF Flush, Collected, GapInv
<1>2. \A m \in Messages : Attended(m) => Attended(m)'
  BY AttendedStays
<1>3. 1..cursor \subseteq Messages /\ 1..read[q].last \subseteq Messages
  BY ReachedIsMessage
<1>4. ASSUME NEW m \in 1..read[q].last PROVE Attended(m)'
  <2>1. CASE Attended(m)
    BY <1>2, <1>3, <2>1
  <2>2. CASE m \in read[q].drop
    BY <1>1, <2>2 DEF Attended, Covered
  <2>3. ASSUME NEW p \in read[q].pending, m \in p PROVE Attended(m)'
    <3>1. p \in Item /\ Whole(p)
      BY DEF CollectInv, ReadInv, ReadOK, ReadRec
    <3>2. InBase(m)'
      BY <1>1, <2>3, <3>1, WrittenInBase
    <3> QED
      BY <3>2 DEF Attended, Covered
  <2> QED
    BY <1>1, <2>1, <2>2, <2>3 DEF ReaderKnows
<1>5. ASSUME NEW m \in 1..cursor PROVE Attended(m)'
  BY <1>2, <1>3 DEF GapInv
<1> QED
  BY <1>1, <1>4, <1>5 DEF CursorAfter

\* The cursor a save sets is that of a message that was in hand.
LEMMA FinishKnows ==
  ASSUME CollectionAssumption, CollectInv, GapInv, [Next]_vars, Gapless,
         NEW s \in saves, FinishSave(s)
  PROVE  \A m \in 1..cursor' : Attended(m)'
<1>1. \A m \in Messages : Attended(m) => Attended(m)'
  BY AttendedStays
<1>2. s.post \subseteq 1..channel /\ s.post # {} /\ channel \in Nat
  BY DEF CollectInv, LiveInv, SaveOK, Item, BaseInv
<1>3. Max(s.post) \in s.post
  BY <1>2, MaxThere
<1>4. Max(s.post) \in Messages /\ InHand(Max(s.post))
  BY <1>2, <1>3, ReachedIsMessage DEF InHand
<1>5. \A m \in 1..Max(s.post) : Attended(m)
  BY <1>4 DEF GapInv, ListenerKnows
<1>6. cursor' \in {cursor, Max(s.post)}
  BY DEF FinishSave
<1>7. \A m \in 1..cursor : Attended(m)
  BY DEF GapInv
<1>8. \A m \in 1..cursor' : m \in Messages /\ Attended(m)
  BY <1>4, <1>5, <1>6, <1>7, ReachedIsMessage
<1> QED
  BY <1>1, <1>8

LEMMA CursorKnows ==
  ASSUME CollectionAssumption, CollectInv, GapInv, [Next]_vars, Gapless
  PROVE  \A m \in 1..cursor' : Attended(m)'
<1>1. ASSUME cursor' = cursor PROVE \A m \in 1..cursor' : Attended(m)'
  <2>1. \A m \in 1..cursor : m \in Messages /\ Attended(m)
    BY ReachedIsMessage DEF GapInv
  <2> QED
    BY <1>1, <2>1, AttendedStays
<1>2. ASSUME NEW q \in Readers, Poll(q) \/ Open(q) \/ Consider(q) \/ ReadFails(q) PROVE cursor' = cursor
  BY <1>2 DEF Poll, Open, Consider, ReadFails, base
<1>3. ASSUME Connect \/ Disconnect \/ Arrive \/ Age \/ Restart PROVE cursor' = cursor
  BY <1>3 DEF Connect, Disconnect, Arrive, Age, Restart, base
<1>4. ASSUME NEW m \in events, HandleEvent(m) PROVE cursor' = cursor
  BY <1>4 DEF HandleEvent, base
<1>5. ASSUME NEW g \in Groups, AlbumTimer(g) PROVE cursor' = cursor
  BY <1>5 DEF AlbumTimer, base
<1>6. ASSUME NEW s \in saves, SaveFails(s) PROVE cursor' = cursor
  BY <1>6 DEF SaveFails, base
<1>7. ASSUME UNCHANGED vars PROVE cursor' = cursor
  BY <1>7 DEF vars, base
<1> QED
  BY <1>1, <1>2, <1>3, <1>4, <1>5, <1>6, <1>7, FlushKnows, FinishKnows DEF Next

LEMMA ReadersKnow ==
  ASSUME CollectionAssumption, CollectInv, GapInv, [Next]_vars, Gapless, NEW o \in Readers
  PROVE  ReaderKnows(read[o])'
<1>1. ASSUME read'[o] = read[o] PROVE ReaderKnows(read[o])'
  BY <1>1, ReaderStays
<1>2. ASSUME read'[o] = Idle PROVE ReaderKnows(read[o])'
  BY <1>2 DEF ReaderKnows, Idle
<1>3. ASSUME NEW own, Start(o, own) PROVE ReaderKnows(read[o])'
  <2> DEFINE w == [Idle EXCEPT !.phase = "waiting", !.own = own, !.since = cursor]
  <2>1. read' = [read EXCEPT ![o] = w]
    BY <1>3 DEF Start
  <2>2. w.phase = "waiting" /\ w.since = cursor
    BY DEF Idle
  <2> HIDE DEF w
  <2>3. read'[o] = w
    BY <2>1 DEF CollectInv, ReadInv
  <2>4. \A m \in 1..cursor : m \in Messages /\ Attended(m)
    BY ReachedIsMessage DEF GapInv
  <2> QED
    BY <2>2, <2>3, <2>4, AttendedStays DEF ReaderKnows
<1>4. ASSUME NEW q \in Readers, q # o, NEW own, Start(q, own) PROVE read'[o] = read[o]
  BY <1>4 DEF Start, CollectInv, ReadInv
<1>5. ASSUME NEW q \in Readers, Poll(q) PROVE ReaderKnows(read[o])'
  BY <1>1, <1>3, <1>4, <1>5 DEF Poll
<1>6. ASSUME NEW q \in Readers, Open(q) PROVE ReaderKnows(read[o])'
  BY <1>1, <1>6, OpenStep, OpenKnows
<1>7. ASSUME NEW q \in Readers, Consider(q) PROVE ReaderKnows(read[o])'
  BY <1>1, <1>7, ConsiderStep, ConsiderKnows
<1>8. ASSUME NEW q \in Readers, Flush(q) \/ ReadFails(q) PROVE ReaderKnows(read[o])'
  <2>1. Leave(q) /\ channel' = channel
    BY <1>8 DEF Flush, ReadFails
  <2>2. read'[o] = IF o = q THEN Idle ELSE read[o]
    BY <2>1, LeaveStep
  <2> QED
    BY <1>1, <1>2, <2>2
<1>9. ASSUME Connect PROVE ReaderKnows(read[o])'
  <2>1. Start(CatchUp, FALSE) /\ CatchUp \in Readers
    BY <1>9 DEF Connect, Readers
  <2> QED
    BY <1>1, <1>3, <1>4, <2>1
<1>10. ASSUME Disconnect \/ Restart PROVE read'[o] \in {Idle, read[o]}
  BY <1>10 DEF Disconnect, Restart, CollectInv, ReadInv
<1>11. ASSUME UNCHANGED read PROVE ReaderKnows(read[o])'
  BY <1>1, <1>11
<1>12. ASSUME NEW m \in events, HandleEvent(m) PROVE UNCHANGED read
  BY <1>12 DEF HandleEvent
<1>13. ASSUME NEW g \in Groups, AlbumTimer(g) PROVE UNCHANGED read
  BY <1>13 DEF AlbumTimer
<1>14. ASSUME NEW s \in saves, FinishSave(s) \/ SaveFails(s) PROVE UNCHANGED read
  BY <1>14 DEF FinishSave, SaveFails
<1>15. ASSUME Arrive \/ Age PROVE UNCHANGED read
  BY <1>15 DEF Arrive, Age
<1>16. ASSUME UNCHANGED vars PROVE UNCHANGED read
  BY <1>16 DEF vars
<1> QED
  BY <1>1, <1>2, <1>5, <1>6, <1>7, <1>8, <1>9, <1>10, <1>11, <1>12, <1>13, <1>14, <1>15, <1>16 DEF Next

\* The channel grows by a message the registered handler is told of.
LEMMA ChannelStep ==
  ASSUME CollectionAssumption, CollectInv, [Next]_vars
  PROVE  channel' = channel \/ Arrive
<1>1. ASSUME NEW q \in Readers, Poll(q) \/ Open(q) \/ Consider(q) \/ Flush(q) \/ ReadFails(q)
      PROVE  channel' = channel
  BY <1>1 DEF Poll, Open, Consider, Flush, ReadFails
<1>2. ASSUME Connect \/ Disconnect \/ Age \/ Restart PROVE channel' = channel
  BY <1>2 DEF Connect, Disconnect, Age, Restart
<1>3. ASSUME NEW m \in events, HandleEvent(m) PROVE channel' = channel
  BY <1>3 DEF HandleEvent
<1>4. ASSUME NEW g \in Groups, AlbumTimer(g) PROVE channel' = channel
  BY <1>4 DEF AlbumTimer
<1>5. ASSUME NEW s \in saves, FinishSave(s) \/ SaveFails(s) PROVE channel' = channel
  BY <1>5 DEF FinishSave, SaveFails
<1>6. ASSUME UNCHANGED vars PROVE channel' = channel
  BY <1>6 DEF vars
<1> QED
  BY <1>1, <1>2, <1>3, <1>4, <1>5, <1>6 DEF Next

LEMMA ListenerStep ==
  ASSUME CollectionAssumption, CollectInv, GapInv, [Next]_vars, Gapless
  PROVE  ListenerKnows'
<1>0. channel \in Nat /\ 1..channel \subseteq Messages
  BY ReachedIsMessage DEF CollectInv, BaseInv
<1>1. \A m \in Messages : Attended(m) => Attended(m)'
  BY AttendedStays
<1>2. ASSUME listener' = "on" PROVE \A m \in 1..channel' : Attended(m)'
  <2>1. CASE channel' = channel /\ listener = "on"
    BY <1>0, <1>1, <2>1 DEF GapInv, ListenerKnows
  <2>2. CASE channel' = channel /\ listener # "on"
    <3>1. (\A m \in 1..channel : Attended(m))'
      BY <1>2, <2>2 DEF Gapless
    <3> QED
      BY <3>1
  <2>3. CASE Arrive
    <3>1. channel' = channel + 1 /\ listener = "on" /\ channel' \in events'
      BY <1>2, <2>3 DEF Arrive
    <3>2. Attended(channel)'
      BY <3>1 DEF Attended, InHand
    <3>3. \A m \in 1..channel : Attended(m)'
      BY <1>0, <1>1, <3>1 DEF GapInv, ListenerKnows
    <3> QED
      BY <1>0, <3>1, <3>2, <3>3
  <2> QED
    BY <2>1, <2>2, <2>3, ChannelStep
<1>3. ASSUME NEW m \in Messages, InHand(m)', NEW n \in 1..m PROVE Attended(n)'
  <2>1. CASE InHand(m)
    <3>1. Attended(n) /\ n \in Messages
      BY <1>3, <2>1, ReachedIsMessage DEF GapInv, ListenerKnows
    <3> QED
      BY <1>1, <3>1
  <2>2. CASE Arrive /\ m = channel' /\ listener = "on"
    BY <1>2, <1>3, <2>2 DEF Arrive
  <2> QED
    BY <1>3, <2>1, <2>2, HandSource
<1> QED
  BY <1>2, <1>3 DEF ListenerKnows

LEMMA GapStep ==
  ASSUME CollectionAssumption, CollectInv, GapInv, [Next]_vars, Gapless PROVE GapInv'
<1>1. unsaved' \subseteq noted'
  BY DEF Gapless
<1> QED
  BY <1>1, CursorKnows, ReadersKnow, ListenerStep DEF GapInv

LEMMA GapInit ==
  ASSUME CollectionAssumption, Init PROVE GapInv
<1>1. \A q \in Readers : ReaderKnows(read[q])
  BY DEF Init, ReaderKnows, Idle
<1>2. \A m \in Messages : ~InHand(m)
  BY DEF Init, InHand, Groups, Grouped
<1> QED
  BY <1>1, <1>2 DEF Init, GapInv, ListenerKnows

\* collect_pending and _note_new_post with the listener at work: however polls, catch-ups,
\* handlers, timers and failures interleave, with whatever cursor each of them read, the
\* cursor passes no message over, as long as nothing is left behind when the handler is
\* registered and when the process ends, and the journal tells of every save that fails.
THEOREM ListenerPassesNothing ==
  Spec /\ [][Gapless]_vars => []NothingPassedOver
<1>1. Init => GapInv
  BY GapInit, CollectionAssumption
<1>2. CollectInv /\ GapInv /\ [Next]_vars /\ [Gapless]_vars => GapInv'
  <2>1. [Gapless]_vars => Gapless \/ UNCHANGED vars
    OBVIOUS
  <2>2. CollectInv /\ GapInv /\ UNCHANGED vars => GapInv'
    BY DEF vars, base, live, trouble, GapInv, ReaderKnows, ListenerKnows, Attended, Covered, InBase,
           InHand
  <2> QED
    BY <2>1, <2>2, GapStep, CollectionAssumption
<1>3. GapInv => NothingPassedOver
  BY DEF GapInv, NothingPassedOver, Attended, Covered
<1> QED
  BY <1>1, <1>2, <1>3, CollectHolds, PTL DEF Spec

=============================================================================
