------------------------------ MODULE Collection ------------------------------
(***************************************************************************)
(* Collecting the messages of one source channel.  Three paths write the   *)
(* same table: the polls (the scheduler's and the "fetch now" button's),   *)
(* the catch-up of the event listener after it connects, and the listener  *)
(* saving messages as they arrive.  Each works in a session of its own,    *)
(* reads the source's cursor, waits for downloads, and writes afterwards.  *)
(* A step is what runs between two awaits.                                 *)
(***************************************************************************)
EXTENDS Integers, FiniteSetsExt

CONSTANTS
  MaxMsg,       \* bound: the channel gets that many messages
  GroupOf,      \* grouped_id of a message, NoGroup when it stands alone
  NoGroup,
  Wordless,     \* messages without text; their post exists only with its media
  Polls,        \* the scheduler's poll and those of POST /posts/fetch-now
  Timed,        \* the scheduler's one
  CatchUp,      \* the listener's catch-up
  Listening,    \* "off" where the listener is started, "none" where it is not (no API key)
  Limit,        \* default_lookback_limit
  CatchUpLimit, \* the limit of the catch-up
  FirstLimit,   \* how many messages the very first collection takes
  Ages,         \* may messages pass the age cutoff
  MaxFailures,  \* bound on the failures of connections and of the database
  MaxRestarts,  \* bound on the restarts of the process
  Beside        \* the narrower bounds of the instances in which the listener is started

Messages == 1..MaxMsg
Groups == {GroupOf[m] : m \in Messages} \ {NoGroup}
Readers == Polls \cup {CatchUp}

ASSUME CollectionAssumption ==
  /\ MaxMsg \in Nat
  /\ Limit \in Nat \ {0} /\ CatchUpLimit \in Nat \ {0} /\ FirstLimit \in Nat \ {0}
  /\ DOMAIN GroupOf = Messages
  /\ Wordless \subseteq Messages
  /\ Timed \in Polls /\ CatchUp \notin Polls
  /\ Listening \subseteq {"none", "off"} /\ Ages \in BOOLEAN
  /\ MaxFailures \in Nat /\ MaxRestarts \in Nat
  /\ Beside \in [polls : SUBSET Polls, messages : Nat, ages : BOOLEAN, restarts : Nat]

VARIABLES
  channel,  \* the newest message of the channel
  old,      \* messages up to this one are older than the cutoff
  cursor,   \* source.last_message_id, 0 for None
  rows,     \* the raw posts: each the set of the messages it was made from
  skipped,  \* messages left out on purpose: too old, or before a first collection
  read,     \* what each reader has collected and not written
  listener, \* "none", "off", "catchup" (connected, catching up) or "on" (handler registered)
  events,   \* messages Telegram announced and no handler has looked at
  heard,    \* messages a handler of this life of the process has looked at
  buffer,   \* _album_buffer: the parts of an album that have arrived
  saves,    \* posts the listener is downloading, with the cursor it read before
  unsaved,  \* messages whose save failed
  noted,    \* those of them the journal tells of
  failures,
  restarts

base == <<cursor, rows, skipped>>
live == <<events, heard, buffer, saves>>
trouble == <<unsaved, noted, failures>>
vars == <<channel, old, base, read, listener, live, trouble, restarts>>

\* A reader waits (for the lock, for the channel to be resolved) with the cursor it
\* read at the start, then reads.
Idle == [phase |-> "idle", own |-> FALSE, since |-> 0,
         left |-> {}, pending |-> {}, drop |-> {}, last |-> 0]

-----------------------------------------------------------------------------
(* Posts: a post is a set of messages, its anchor the first of them.        *)

Anchor(post) == Min(post)
Grouped(m) == GroupOf[m] # NoGroup

HasMessage(m) == \E r \in rows : Anchor(r) = m
HasGroup(g) == \E r \in rows : GroupOf[Anchor(r)] = g

\* The check before the download.
Known(post) == IF Grouped(Anchor(post)) THEN HasGroup(GroupOf[Anchor(post)])
                                        ELSE HasMessage(Anchor(post))

\* Messages as collect_pending arranges them: one post each, or one per album.
PostsOf(ms) == {{m} : m \in {x \in ms : ~Grouped(x)}}
               \cup {{m \in ms : GroupOf[m] = g} : g \in {GroupOf[x] : x \in ms} \ {NoGroup}}

\* The standalone messages are looked at first, then the albums.
Turn(posts) ==
  LET alone == {p \in posts : ~Grouped(Anchor(p))}
      pool == IF alone # {} THEN alone ELSE posts
  IN  CHOOSE p \in pool : \A o \in pool : Anchor(p) <= Anchor(o)

\* write_post looks again for the anchor, and only for the anchor.
Writable(posts) == {p \in posts : ~HasMessage(Anchor(p))}

\* A post without the text of its anchor and without a file is dropped.
MayVanish(post) == Anchor(post) \in Wordless

\* iter_messages: the oldest unread, or the newest when nothing was read before.
BuggyBatch(c, limit) ==
  {m \in 1..channel : m > c /\ m > channel - (IF c > 0 THEN limit ELSE FirstLimit)}
Batch(c, limit) == IF c > 0 THEN {m \in 1..channel : m > c /\ m <= c + limit}
                            ELSE {m \in 1..channel : m > channel - FirstLimit}

LimitOf(q) == IF q = CatchUp THEN CatchUpLimit ELSE Limit

-----------------------------------------------------------------------------
(* collect_pending and flush_pending.                                      *)

Connected == listener \in {"catchup", "on"}

\* The instances with the listener have bounds of their own.
Bounded(narrow) == listener = "none" \/ narrow

\* _TELETHON_LOCK: the listener holds it while it is connected, a poll with a client
\* of its own while it collects and writes.
BuggyLocked == Connected
Locked == Connected \/ \E q \in Readers : read[q].phase = "reading" /\ read[q].own

Start(q, own) ==
  read' = [read EXCEPT ![q] = [Idle EXCEPT !.phase = "waiting", !.own = own, !.since = cursor]]

\* fetch_source: with the client of the listener when that is active, else with one of
\* its own.  The scheduler polls less often while the listener is active, but it does
\* (_should_fetch); how often does not matter here.
Poll(q) ==
  /\ q \in Polls /\ Bounded(q \in Beside.polls)
  /\ read[q].phase = "idle"
  /\ Start(q, ~Connected)
  /\ UNCHANGED <<channel, old, base, listener, live, trouble, restarts>>

\* collect_pending: the messages, the age cutoff.
Open(q) ==
  /\ read[q].phase = "waiting"
  /\ read[q].own => ~Locked
  /\ LET since == read[q].since
         ms    == Batch(since, LimitOf(q))
         aged  == {p \in PostsOf(ms) : Anchor(p) <= old}
         first == IF since > 0 \/ ms = {} THEN {} ELSE 1..(Min(ms) - 1)
     IN  read' = [read EXCEPT ![q].phase = "reading", ![q].left = PostsOf(ms) \ aged,
                              ![q].drop = (UNION aged) \cup first,
                              ![q].last = IF ms = {} THEN 0 ELSE Max(ms)]
  /\ UNCHANGED <<channel, old, base, listener, live, trouble, restarts>>

\* One turn of the loop: known, or downloaded.
Consider(q) ==
  /\ read[q].phase = "reading" /\ read[q].left # {}
  /\ LET post == Turn(read[q].left)
     IN  \/ /\ Known(post) \/ MayVanish(post)
            /\ read' = [read EXCEPT ![q].left = @ \ {post}]
         \/ /\ ~Known(post)
            /\ read' = [read EXCEPT ![q].left = @ \ {post}, ![q].pending = @ \cup {post}]
  /\ UNCHANGED <<channel, old, base, listener, live, trouble, restarts>>

\* After the catch-up of the channel the handler is registered.
Leave(q) ==
  /\ read' = [read EXCEPT ![q] = Idle]
  /\ listener' = IF q = CatchUp THEN "on" ELSE listener

\* The downloads of the batch are over.
Collected(q) == read[q].phase = "reading" /\ read[q].left = {}

BuggyCursorPast(q) == read[q].last + 1
BuggyCursorStuck(q) == IF Writable(read[q].pending) # {} THEN read[q].last ELSE cursor

\* The last message of the batch, whatever the cursor is by now.
CursorAfter(q) == IF read[q].last > 0 THEN read[q].last ELSE cursor

\* flush_pending: the posts and the cursor in one commit.
Flush(q) ==
  /\ Collected(q)
  /\ rows' = rows \cup Writable(read[q].pending)
  /\ cursor' = CursorAfter(q)
  /\ skipped' = skipped \cup read[q].drop
  /\ Leave(q)
  /\ UNCHANGED <<channel, old, live, trouble, restarts>>

\* A timeout, a lost connection, a refusal of Telegram: the session is rolled back.
ReadFails(q) ==
  /\ failures < MaxFailures /\ read[q].phase # "idle"
  /\ failures' = failures + 1
  /\ Leave(q)
  /\ UNCHANGED <<channel, old, base, live, unsaved, noted, restarts>>

-----------------------------------------------------------------------------
(* The listener.                                                           *)

\* _connect_and_listen: active first, then the catch-up with the live client.
Connect ==
  /\ listener = "off" /\ ~Locked
  /\ listener' = "catchup"
  /\ Start(CatchUp, FALSE)
  /\ UNCHANGED <<channel, old, base, live, trouble, restarts>>

\* The connection ends.  Handlers and timers that run go on.
Disconnect ==
  /\ Connected
  /\ listener' = "off"
  /\ read' = [read EXCEPT ![CatchUp] = Idle]
  /\ UNCHANGED <<channel, old, base, live, trouble, restarts>>

\* _save_single and _save_album up to the download: the source is read here.
StartSave(post) == saves' = saves \cup {[post |-> post, seen |-> cursor]}

BuggyHandleEvent(m) ==
  /\ m \in events
  /\ events' = events \ {m} /\ heard' = heard \cup {m}
  /\ IF Grouped(m) THEN buffer' = [buffer EXCEPT ![GroupOf[m]] = {m}] /\ UNCHANGED saves
                   ELSE StartSave({m}) /\ UNCHANGED buffer
  /\ UNCHANGED <<channel, old, base, read, listener, trouble, restarts>>

\* _handle_new_message.
HandleEvent(m) ==
  /\ m \in events
  /\ events' = events \ {m} /\ heard' = heard \cup {m}
  /\ IF Grouped(m) THEN buffer' = [buffer EXCEPT ![GroupOf[m]] = @ \cup {m}] /\ UNCHANGED saves
                   ELSE StartSave({m}) /\ UNCHANGED buffer
  /\ UNCHANGED <<channel, old, base, read, listener, trouble, restarts>>

\* _flush: 1.5 s after the last part.
AlbumTimer(g) ==
  /\ buffer[g] # {}
  /\ buffer' = [buffer EXCEPT ![g] = {}]
  /\ IF Known(buffer[g]) THEN UNCHANGED saves ELSE StartSave(buffer[g])
  /\ UNCHANGED <<channel, old, base, read, listener, events, heard, trouble, restarts>>

\* write_post and _note_new_post: the later of the message and of the cursor that was
\* read before the download; an unchanged value is not written.
FinishSave(s) ==
  /\ s \in saves
  /\ saves' = saves \ {s}
  /\ \/ (HasMessage(Anchor(s.post)) \/ MayVanish(s.post)) /\ UNCHANGED <<cursor, rows>>
     \/ /\ rows' = rows \cup Writable({s.post}) /\ rows' # rows
        /\ cursor' = IF Max(s.post) > s.seen THEN Max(s.post) ELSE cursor
  /\ UNCHANGED <<channel, old, skipped, read, listener, events, heard, buffer, trouble, restarts>>

\* The database refuses.  The handler of a single message tells the journal, unless it has
\* told the same within the hour or the journal cannot be written either (_note); the timer
\* of an album is a task nobody waits for.
SaveFails(s) ==
  /\ failures < MaxFailures /\ s \in saves
  /\ failures' = failures + 1
  /\ saves' = saves \ {s}
  /\ unsaved' = unsaved \cup s.post
  /\ \/ noted' = noted
     \/ ~Grouped(Anchor(s.post)) /\ noted' = noted \cup s.post
  /\ UNCHANGED <<channel, old, base, read, listener, events, heard, buffer, restarts>>

-----------------------------------------------------------------------------
(* The channel, the clock, the process.                                    *)

\* A handler hears of a message only when it is registered.
Arrive ==
  /\ channel < MaxMsg /\ Bounded(channel < Beside.messages)
  /\ channel' = channel + 1
  /\ events' = IF listener = "on" THEN events \cup {channel'} ELSE events
  /\ UNCHANGED <<old, base, read, listener, heard, buffer, saves, trouble, restarts>>

Age ==
  /\ Ages /\ Bounded(Beside.ages) /\ old < channel
  /\ old' = old + 1
  /\ UNCHANGED <<channel, base, read, listener, live, trouble, restarts>>

Restart ==
  /\ restarts < MaxRestarts /\ Bounded(restarts < Beside.restarts)
  /\ restarts' = restarts + 1
  /\ read' = [q \in Readers |-> Idle]
  /\ listener' = IF listener = "none" THEN "none" ELSE "off"
  /\ events' = {} /\ heard' = {} /\ saves' = {} /\ buffer' = [g \in Groups |-> {}]
  /\ UNCHANGED <<channel, old, base, trouble>>

Init ==
  /\ channel = 0 /\ old = 0
  /\ cursor = 0 /\ rows = {} /\ skipped = {}
  /\ read = [q \in Readers |-> Idle]
  /\ listener \in Listening
  /\ events = {} /\ heard = {} /\ buffer = [g \in Groups |-> {}] /\ saves = {}
  /\ noted = {} /\ unsaved = {} /\ failures = 0
  /\ restarts = 0

Next ==
  \/ \E q \in Readers : Poll(q) \/ Open(q) \/ Consider(q) \/ Flush(q) \/ ReadFails(q)
  \/ Connect \/ Disconnect
  \/ \E m \in events : HandleEvent(m)
  \/ \E g \in Groups : AlbumTimer(g)
  \/ \E s \in saves : FinishSave(s) \/ SaveFails(s)
  \/ Arrive \/ Age
  \/ Restart

Spec == Init /\ [][Next]_vars

\* The scheduler comes back for ever, the lock is given in the order it was asked for,
\* and a reader that has started ends.
Fairness ==
  /\ WF_vars(Poll(Timed)) /\ SF_vars(Open(Timed))
  /\ \A q \in Polls : WF_vars(Open(q)) /\ WF_vars(Consider(q)) /\ WF_vars(Flush(q))

FairSpec == Spec /\ Fairness

-----------------------------------------------------------------------------

Item == (SUBSET Messages) \ {{}}

\* The variables keep their types.
TypeOK ==
  /\ channel \in 0..MaxMsg /\ old \in 0..channel /\ cursor \in 0..channel
  /\ rows \subseteq Item /\ skipped \subseteq Messages
  /\ read \in [Readers -> [phase : {"idle", "waiting", "reading"}, own : BOOLEAN,
                           since : 0..MaxMsg, left : SUBSET Item, pending : SUBSET Item,
                           drop : SUBSET Messages, last : 0..MaxMsg]]
  /\ listener \in {"none", "off", "catchup", "on"}
  /\ events \subseteq Messages /\ heard \subseteq Messages
  /\ buffer \in [Groups -> SUBSET Messages]
  /\ saves \subseteq [post : Item, seen : 0..MaxMsg]
  /\ noted \subseteq Messages /\ unsaved \subseteq Messages
  /\ failures \in 0..MaxFailures /\ restarts \in 0..MaxRestarts

SameAlbum(m, n) == Grouped(m) /\ GroupOf[m] = GroupOf[n]

\* The news a message belongs to is in the base.
InBase(m) == \E r \in rows : m \in r \/ SameAlbum(m, Anchor(r))

\* The news may have gone with a file that could not be downloaded.
Vanished(m) == \E w \in Wordless : w = m \/ SameAlbum(m, w)

\* A handler is at it, or will be.
InHand(m) == m \in events \/ (Grouped(m) /\ m \in buffer[GroupOf[m]])
                          \/ \E s \in saves : m \in s.post

\* The cursor never passes a message that is neither saved nor being saved, was not left
\* out on purpose and not reported: the queue is drained from its beginning
\* (collect_pending).
NothingPassedOver ==
  \A m \in 1..cursor : InBase(m) \/ InHand(m) \/ m \in skipped \/ m \in noted \/ Vanished(m)

\* The polls alone pass nothing over: several of them at once, with cursors read before
\* they waited for the lock, queues longer than the limit, failures, a message that grows
\* too old meanwhile (collect_pending, flush_pending).
PollsPassNothingOver == listener = "none" => NothingPassedOver

\* The polls alone make one post of an album, however its parts are spread over them
\* (collect_pending looks for the group, write_post only for the anchor).
AlbumOnce == listener = "none" =>
  \A r, s \in rows : (r # s /\ Grouped(Anchor(r))) => GroupOf[Anchor(r)] # GroupOf[Anchor(s)]

\* Only a refusal of the database loses what the handler has looked at: between the
\* buffer, the timer, the download and the table, with polls and the catch-up writing the
\* same posts, it stays in hand until it is in the base (_handle_new_message,
\* _buffer_album, _save_album).
HeardIsKept == \A m \in heard : InHand(m) \/ InBase(m) \/ Vanished(m) \/ m \in unsaved

\* A message that no handler could save and that the cursor has passed, so that no poll
\* reads it either, is not lost without a trace: the journal of the panel tells of it
\* (_handle_new_message: "Пост, который не удалось сохранить, пропадал бесследно").
LossIsTold ==
  \A m \in heard : m <= cursor => InHand(m) \/ InBase(m) \/ Vanished(m) \/ m \in noted

\* The polls alone come to the end of the queue, again and again, however long it is: then
\* every message of the channel is collected (collect_pending).
EventuallyCollected ==
  listener = "none" ~> \A m \in 1..channel : InBase(m) \/ m \in skipped \/ Vanished(m)

=============================================================================
