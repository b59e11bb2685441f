------------------------------ MODULE MediaFiles ------------------------------
(***************************************************************************)
(* The media of the posts: rows of media_items, files on a disk that is a  *)
(* cache, and who adds, deletes, orders, downloads, prunes and sends them.  *)
(*                                                                         *)
(* Uploads, the restoration a page asks for and publications are coroutines *)
(* and interleave at their awaits; deleting a file, moving it, the cleanup  *)
(* button and deleting a post run in threads, in a transaction of their own *)
(* whose writes the others see at its commit.  Of a publication this module *)
(* has what it does with files: module Publishing has the rest.             *)
(***************************************************************************)
EXTENDS Integers, FiniteSets, Sequences

CONSTANTS
  Posts,
  Channel,  \* the items that come with a post of a channel, by their row number ...
  Manual,   \* ... and the row numbers uploads may get
  Album,    \* the items of Channel each post has
  Limit,    \* MAX_ITEMS_PER_POST
  MaxDay,   \* bound on the days, which are part of a path
  Uploads, Pages, Publications, Threads,
  MaxRequests, \* bound on the requests that write
  None

ASSUME MediaAssumption ==
  /\ Channel \subseteq Nat /\ Manual \subseteq Nat /\ Channel \cap Manual = {}
  /\ IsFiniteSet(Channel) /\ IsFiniteSet(Manual)
  /\ Album \in [Posts -> SUBSET Channel]
  /\ \A p, q \in Posts : p # q => Album[p] \cap Album[q] = {}
  /\ \A p \in Posts : Cardinality(Album[p]) <= Limit
  /\ 0 \notin Channel \cup Manual
  /\ Limit \in Nat /\ MaxDay \in Nat \ {0} /\ MaxRequests \in Nat
  /\ Pages \cap Publications = {} /\ None \notin Posts

VARIABLES
  post,    \* "absent", "present" or "deleted"
  item,    \* media_items
  count,   \* raw_posts.media_count; has_media goes with it
  disk,    \* what is under each path: nothing, part of a file, or all of it
  old,     \* the paths whose file is older than media_cache_days
  day,
  waiting, \* the posts with a committed publication, pending or running
  flight,  \* media_restore._in_flight
  cooling, \* the posts whose _last_failure is less than ten minutes ago
  up,      \* the uploads
  fetch,   \* the restorations, and the publications
  thread,  \* the transactions of threads
  asked,   \* requests so far
  raced,   \* history: the posts two writers of rows had in hand at once
  broken,  \* history: the paths a download broke off at
  lost,    \* history: the items whose file a restart took
  left     \* history: the paths whose file was left without a row

vars == <<post, item, count, disk, old, day, waiting, flight, cooling,
          up, fetch, thread, asked, raced, broken, lost, left>>
rows == <<post, item, count>>
files == <<disk, old, broken, lost, left>>
restoring == <<flight, cooling, fetch>>
writers == <<up, thread, asked, raced>>

Items == Channel \cup Manual
Fetchers == Pages \cup Publications
Paths == (Channel \X (1..MaxDay)) \cup (Manual \X {0})
Origin(i) == IF i \in Manual THEN "manual" ELSE "source"
NoPath == <<0, 0>>
NoItem == [post |-> None, path |-> NoPath, order |-> 0]

Rows(p) == {i \in Items : item[i].post = p}
Exists(path) == disk[path] # "none"
Missing(p) == {i \in Rows(p) : Origin(i) = "source" /\ ~Exists(item[i].path)}

\* build_dir: the day, the source and the anchor, then the message (its index in the
\* list that is downloaded is left out); an upload has a name nobody else has.
Path(i) == IF i \in Manual THEN <<i, 0>> ELSE <<i, day>>

IdleUpload == [at |-> "idle", post |-> None, chosen |-> 0, saved |-> <<>>,
               top |-> -1, loaded |-> 0, counted |-> 0]
IdleFetch == [at |-> "idle", post |-> None, todo |-> {}, now |-> NoPath,
              got |-> {}, was |-> [i \in {} |-> NoPath]]
IdleThread == [at |-> "idle", post |-> None, item |-> 0, loaded |-> 0, counted |-> 0,
               order |-> [i \in {} |-> 0], todo |-> {}]

\* A writer of rows is at work on a post from its first read to its commit.
Writing(p) == \/ \E u \in Uploads : up[u].post = p
              \/ \E t \in Threads : thread[t].post = p
Noted(p) == IF Writing(p) THEN raced \cup {p} ELSE raced

Init ==
  /\ post = [p \in Posts |-> "absent"]
  /\ item = [i \in Items |-> NoItem]
  /\ count = [p \in Posts |-> 0]
  /\ disk = [path \in Paths |-> "none"]
  /\ old = {} /\ day = 1
  /\ waiting = {} /\ flight = {} /\ cooling = {}
  /\ up = [u \in Uploads |-> IdleUpload]
  /\ fetch = [f \in Fetchers |-> IdleFetch]
  /\ thread = [t \in Threads |-> IdleThread]
  /\ asked = 0 /\ raced = {} /\ broken = {} /\ lost = {} /\ left = {}

Request == asked < MaxRequests /\ asked' = asked + 1

-----------------------------------------------------------------------------
(* Collection, the clock, the queue of publications                         *)

\* download_media_list, then write_post; a download that failed has no row.
Collect(p, got) ==
  /\ post[p] = "absent" /\ got \subseteq Album[p]
  /\ post' = [post EXCEPT ![p] = "present"]
  /\ item' = [i \in Items |-> IF i \in got
                THEN [post |-> p, path |-> Path(i), order |-> Cardinality({j \in Album[p] : j < i})]
                ELSE item[i]]
  /\ count' = [count EXCEPT ![p] = Cardinality(got)]
  /\ disk' = [path \in Paths |-> IF \E i \in got : path = Path(i) THEN "whole" ELSE disk[path]]
  /\ UNCHANGED <<old, broken, lost, left, day, waiting, restoring, writers>>

NextDay ==
  /\ day < MaxDay /\ day' = day + 1
  /\ UNCHANGED <<rows, files, waiting, restoring, writers>>

\* Only the age of what comes from a channel is ever asked.
Age(path) ==
  /\ Exists(path) /\ path[1] \in Channel /\ old' = old \cup {path}
  /\ UNCHANGED <<rows, disk, broken, lost, left, day, waiting, restoring, writers>>

\* Ten minutes after a restoration that brought nothing.
CoolDown(p) ==
  /\ cooling' = cooling \ {p} /\ p \in cooling
  /\ UNCHANGED <<rows, files, day, waiting, flight, fetch, writers>>

\* The publication is put off until the window of its channel opens.
Queue(p) ==
  /\ Request
  /\ post[p] = "present" /\ p \notin waiting /\ waiting' = waiting \cup {p}
  /\ UNCHANGED <<rows, files, day, restoring, up, thread, raced>>

-----------------------------------------------------------------------------
(* add_post_media                                                           *)

Room(p) == Limit - Cardinality(Rows(p))

Last(p) == IF Rows(p) = {} THEN -1
           ELSE CHOOSE n \in {item[i].order : i \in Rows(p)} : \A i \in Rows(p) : item[i].order <= n

\* The post is loaded with its items; it stays loaded while the files are read.
StartUpload(u, p, n) ==
  /\ Request
  /\ up[u] = IdleUpload /\ post[p] = "present" /\ n \in 1..Room(p)
  /\ up' = [up EXCEPT ![u] = [IdleUpload EXCEPT !.at = "reading", !.post = p, !.chosen = n,
                                               !.top = Last(p), !.loaded = count[p]]]
  /\ raced' = Noted(p)
  /\ UNCHANGED <<rows, files, day, waiting, restoring, thread>>

Saved(u) == {up[u].saved[k] : k \in 1..Len(up[u].saved)}

\* Nobody has this name: neither a row, nor a file, nor another upload.
Unused(i) == /\ item[i] = NoItem /\ ~Exists(<<i, 0>>)
             /\ \A v \in Uploads : i \notin Saved(v)
             /\ \A f \in Fetchers : <<i, 0>> \notin fetch[f].got /\ i \notin DOMAIN fetch[f].was
             /\ \A t \in Threads : i # thread[t].item /\ i \notin DOMAIN thread[t].order

BuggyWritten == "part"
Written == "whole"
SaveUpload(u, i) ==
  /\ up[u].at = "reading" /\ Len(up[u].saved) < up[u].chosen /\ Unused(i)
  /\ disk' = [disk EXCEPT ![<<i, 0>>] = Written]
  /\ old' = old \ {<<i, 0>>}
  /\ up' = [up EXCEPT ![u].saved = Append(@, i)]
  /\ UNCHANGED <<rows, broken, lost, left, day, waiting, restoring, thread, asked, raced>>

\* One file is refused, or fails, so are all: those saved before it are discarded.  What a
\* failing _shrink_to_limit has written stays, and nothing records it.
BuggyDiscarded(u) == {}
Discarded(u) == {<<j, 0>> : j \in Saved(u)}
RejectUpload(u, i) ==
  /\ up[u].at = "reading" /\ Len(up[u].saved) < up[u].chosen /\ Unused(i)
  /\ \E rest \in {"none", "part"} :
       disk' = [path \in Paths |-> IF path = <<i, 0>> THEN rest
                                   ELSE IF path \in Discarded(u) THEN "none" ELSE disk[path]]
  /\ up' = [up EXCEPT ![u] = IdleUpload]
  /\ UNCHANGED <<rows, old, broken, lost, left, day, waiting, restoring, thread, asked, raced>>

\* The rows are flushed and counted together with what others have committed.
\* When the post is gone PostgreSQL refuses the insert, and nobody discards the files.
BuggyReferable(u) == TRUE
Referable(u) == post[up[u].post] = "present"
FlushUpload(u) ==
  /\ up[u].at = "reading" /\ Len(up[u].saved) = up[u].chosen
  /\ IF Referable(u)
     THEN /\ up' = [up EXCEPT ![u].at = "flushed",
                              ![u].counted = Cardinality(Rows(up[u].post)) + up[u].chosen]
          /\ UNCHANGED left
     ELSE /\ up' = [up EXCEPT ![u] = IdleUpload]
          /\ left' = left \cup Discarded(u)
  /\ UNCHANGED <<rows, disk, old, broken, lost, day, waiting, restoring, thread, asked, raced>>

\* A counter equal to the one that was loaded is not written.
Counter(now, loaded, counted) == IF counted = loaded THEN now ELSE counted

\* The files of an upload follow each other in the order they were chosen.
BuggyOffset(u, i) == 1
Offset(u, i) == CHOOSE k \in 1..Len(up[u].saved) : up[u].saved[k] = i

CommitUpload(u) ==
  LET p == up[u].post IN
  /\ up[u].at = "flushed"
  /\ item' = [i \in Items |-> IF i \in Saved(u)
                THEN [post |-> p, path |-> <<i, 0>>, order |-> up[u].top + Offset(u, i)] ELSE item[i]]
  /\ count' = [count EXCEPT ![p] = Counter(@, up[u].loaded, up[u].counted)]
  /\ up' = [up EXCEPT ![u] = IdleUpload]
  /\ UNCHANGED <<post, files, day, waiting, restoring, thread, asked, raced>>

-----------------------------------------------------------------------------
(* Requests in threads: delete_post_media, move_post_media, cleanup, deletion *)

\* The file goes at once, the row is flushed and the others counted.
DeleteItem(t, i) ==
  LET p == item[i].post IN
  /\ Request
  /\ thread[t] = IdleThread /\ item[i] # NoItem
  /\ \A o \in Threads : thread[o].item # i
  /\ disk' = [disk EXCEPT ![item[i].path] = "none"]
  /\ thread' = [thread EXCEPT ![t] = [IdleThread EXCEPT !.at = "deleting", !.post = p, !.item = i,
                  !.loaded = count[p], !.counted = Cardinality(Rows(p) \ {i})]]
  /\ raced' = Noted(p)
  /\ UNCHANGED <<rows, old, broken, lost, left, day, waiting, restoring, up>>

BuggyRecount(t) == count[thread[t].post]
Recount(t) == Counter(count[thread[t].post], thread[t].loaded, thread[t].counted)

\* A restoration may have brought the file back.
CommitDelete(t) ==
  LET p == thread[t].post IN
  /\ thread[t].at = "deleting"
  /\ item' = [item EXCEPT ![thread[t].item] = NoItem]
  /\ count' = [count EXCEPT ![p] = Recount(t)]
  /\ left' = IF Exists(item[thread[t].item].path) THEN left \cup {item[thread[t].item].path} ELSE left
  /\ thread' = [thread EXCEPT ![t] = IdleThread]
  /\ UNCHANGED <<post, disk, old, broken, lost, day, waiting, restoring, up, asked, raced>>

\* The place of a row by (sort_order, id), and all places when one row moves.
Rank(p, i) == Cardinality({j \in Rows(p) : \/ item[j].order < item[i].order
                                           \/ item[j].order = item[i].order /\ j < i})
Place(p, i, to, j) == IF j = i THEN to ELSE IF Rank(p, j) = to THEN Rank(p, i) ELSE Rank(p, j)
Moved(p, i, to) == [j \in {k \in Rows(p) : item[k].order # Place(p, i, to, k)} |-> Place(p, i, to, j)]

Move(t, i) ==
  LET p == item[i].post IN
  /\ Request
  /\ thread[t] = IdleThread /\ item[i] # NoItem
  /\ \E to \in {Rank(p, i) - 1, Rank(p, i), Rank(p, i) + 1} \cap (0..Cardinality(Rows(p)) - 1) :
       /\ to = Rank(p, i) => to \in {0, Cardinality(Rows(p)) - 1}
       /\ thread' = [thread EXCEPT ![t] = [IdleThread EXCEPT !.at = "moving", !.post = p,
                                            !.order = Moved(p, i, to)]]
  /\ raced' = Noted(p)
  /\ UNCHANGED <<rows, files, day, waiting, restoring, up>>

\* A row that is gone fails the flush.
CommitMove(t) ==
  LET order == thread[t].order IN
  /\ thread[t].at = "moving"
  /\ item' = IF \A i \in DOMAIN order : item[i] # NoItem
             THEN [i \in Items |-> IF i \in DOMAIN order THEN [item[i] EXCEPT !.order = order[i]] ELSE item[i]]
             ELSE item
  /\ thread' = [thread EXCEPT ![t] = IdleThread]
  /\ UNCHANGED <<post, count, files, day, waiting, restoring, up, asked, raced>>

\* drop_source_files: the files of channels, except those a publication waits for.
BuggyOfChannels == {i \in Items : item[i] # NoItem}
OfChannels == {i \in Items : item[i] # NoItem /\ Origin(i) = "source"}
BuggyDroppable == {item[i].path : i \in OfChannels}
Droppable == {item[i].path : i \in {j \in OfChannels : item[j].post \notin waiting}}

\* The scheduler prunes between two steps of the loop.
Prune ==
  /\ Droppable \cap old # {}
  /\ disk' = [path \in Paths |-> IF path \in Droppable \cap old THEN "none" ELSE disk[path]]
  /\ old' = old \ Droppable
  /\ UNCHANGED <<rows, broken, lost, left, day, waiting, restoring, writers>>

\* The button of the settings: which posts wait is read once, the files go one by
\* one, all of them or those that are old by now.
StartCleanup(t) ==
  /\ Request
  /\ thread[t] = IdleThread /\ Droppable # {}
  /\ thread' = [thread EXCEPT ![t] = [IdleThread EXCEPT !.at = "cleaning", !.todo = Droppable]]
  /\ UNCHANGED <<rows, files, day, waiting, restoring, up, raced>>

Clean(t, path) ==
  LET rest == thread[t].todo \ {path} IN
  /\ thread[t].at = "cleaning" /\ path \in thread[t].todo
  /\ \E kept \in {"none"} \cup (IF path \in old THEN {} ELSE {disk[path]}) :
       disk' = [disk EXCEPT ![path] = kept]
  /\ thread' = [thread EXCEPT ![t] = IF rest = {} THEN IdleThread ELSE [@ EXCEPT !.todo = rest]]
  /\ UNCHANGED <<rows, old, broken, lost, left, day, waiting, restoring, up, asked, raced>>

\* The rows of the post go with it; its files stay.
\* Waits for the transactions that have touched the same rows.
DeletePost(p) ==
  /\ Request
  /\ post[p] = "present"
  /\ ~\E u \in Uploads : up[u].post = p /\ up[u].at = "flushed"
  /\ ~\E t \in Threads : thread[t].post = p /\ thread[t].at = "deleting"
  /\ post' = [post EXCEPT ![p] = "deleted"]
  /\ item' = [i \in Items |-> IF item[i].post = p THEN NoItem ELSE item[i]]
  /\ count' = [count EXCEPT ![p] = 0]
  /\ waiting' = waiting \ {p}
  /\ left' = left \cup {item[i].path : i \in Rows(p)}
  /\ UNCHANGED <<disk, old, broken, lost, day, restoring, up, thread, raced>>

-----------------------------------------------------------------------------
(* Downloads: the restoration of a page and that of a publication            *)

\* The rows as they are loaded at the beginning.
Known(p) == [i \in Rows(p) |-> item[i].path]
StartRestore(c, p) ==
  /\ fetch[c] = IdleFetch /\ post[p] = "present" /\ Missing(p) # {}
  /\ p \notin flight /\ p \notin cooling
  /\ flight' = flight \cup {p}
  /\ fetch' = [fetch EXCEPT ![c] = [IdleFetch EXCEPT !.at = "loading", !.post = p, !.todo = Missing(p),
                                                    !.was = Known(p)]]
  /\ UNCHANGED <<rows, files, day, waiting, cooling, writers>>

\* A click, or the scheduler; neither asks whether a page is downloading the files.
StartPublish(b, p) ==
  /\ \/ p \in waiting /\ UNCHANGED asked
     \/ p \notin waiting /\ Request
  /\ fetch[b] = IdleFetch /\ post[p] = "present"
  /\ fetch' = [fetch EXCEPT ![b] = [IdleFetch EXCEPT !.post = p, !.todo = Missing(p),
                  !.was = Known(p), !.at = IF Missing(p) = {} THEN "ready" ELSE "loading"]]
  /\ UNCHANGED <<rows, files, day, waiting, flight, cooling, up, thread, raced>>

\* A download truncates what is under its path; it ends, breaks off, or is not
\* begun because the message is gone or too large.
Download(f, i) ==
  /\ fetch[f].at = "loading" /\ fetch[f].now = NoPath /\ i \in fetch[f].todo
  /\ disk' = [disk EXCEPT ![Path(i)] = "part"]
  /\ old' = old \ {Path(i)}
  /\ fetch' = [fetch EXCEPT ![f].todo = @ \ {i}, ![f].now = Path(i)]
  /\ UNCHANGED <<rows, broken, lost, left, day, waiting, flight, cooling, writers>>

\* While another download writes to the same file there may be a hole in it.
Shared(f) == \E g \in Fetchers \ {f} : fetch[g].now = fetch[f].now
Downloaded(f) ==
  /\ fetch[f].at = "loading" /\ fetch[f].now # NoPath
  /\ disk' = [disk EXCEPT ![fetch[f].now] = IF Shared(f) THEN "part" ELSE "whole"]
  /\ fetch' = [fetch EXCEPT ![f].now = NoPath, ![f].got = @ \cup {fetch[f].now}]
  /\ UNCHANGED <<rows, old, broken, lost, left, day, waiting, flight, cooling, writers>>

Break(path) == IF path = NoPath THEN broken ELSE broken \cup {path}

DownloadBreaks(f) ==
  /\ fetch[f].at = "loading" /\ fetch[f].now # NoPath
  /\ broken' = Break(fetch[f].now)
  /\ fetch' = [fetch EXCEPT ![f].now = NoPath]
  /\ UNCHANGED <<rows, disk, old, lost, left, day, waiting, flight, cooling, writers>>

SkipDownload(f, i) ==
  /\ fetch[f].at = "loading" /\ fetch[f].now = NoPath /\ i \in fetch[f].todo
  /\ fetch' = [fetch EXCEPT ![f].todo = @ \ {i}]
  /\ UNCHANGED <<rows, files, day, waiting, flight, cooling, writers>>

\* The rows take the new paths; a row that changes and is gone fails the commit.
Restored(f) == {i \in Items : \E path \in fetch[f].got : path[1] = i}
NewPath(f, i) == CHOOSE path \in fetch[f].got : path[1] = i
Changed(f) == {i \in Restored(f) : NewPath(f, i) # fetch[f].was[i]}
Stale(f) == \E i \in Changed(f) : item[i] = NoItem
\* The update waits for the transaction that deletes the row.
Free(f) == \A t \in Threads : thread[t].item \notin Changed(f)
Repathed(f) == [i \in Items |-> IF ~Stale(f) /\ i \in Changed(f)
                                THEN [item[i] EXCEPT !.path = NewPath(f, i)] ELSE item[i]]
\* What is on the disk and has no row any more, or never had one.
Strays(f) == {path \in fetch[f].got \cup {item[i].path : i \in Changed(f)} :
                path # NoPath /\ Exists(path) /\ \A i \in Items : Repathed(f)[i].path # path}

BuggyLanded(p, failed) == UNCHANGED flight /\ cooling' = IF failed THEN cooling \cup {p} ELSE cooling \ {p}
Landed(p, failed) ==
  /\ flight' = flight \ {p}
  /\ cooling' = IF failed THEN cooling \cup {p} ELSE cooling \ {p}

Loaded(f) == fetch[f].at = "loading" /\ fetch[f].now = NoPath /\ fetch[f].todo = {}

EndRestore(c) ==
  /\ c \in Pages /\ Loaded(c) /\ Free(c)
  /\ item' = Repathed(c)
  /\ Landed(fetch[c].post, Stale(c) \/ Restored(c) = {})
  /\ fetch' = [fetch EXCEPT ![c] = IdleFetch]
  /\ left' = left \cup Strays(c)
  /\ UNCHANGED <<post, count, disk, old, broken, lost, day, waiting, writers>>

\* No access to the session, a timeout of 180 seconds, a cancelled request.
RestoreFails(c) ==
  /\ c \in Pages /\ fetch[c].at = "loading"
  /\ broken' = Break(fetch[c].now)
  /\ left' = left \cup fetch[c].got
  /\ Landed(fetch[c].post, TRUE)
  /\ fetch' = [fetch EXCEPT ![c] = IdleFetch]
  /\ UNCHANGED <<rows, disk, old, lost, day, waiting, writers>>

\* The commit of the restored paths commits the claim of the publication with them
\* and makes the session read the rows anew; when it fails the publication does, too.
EndReload(b) ==
  LET p == fetch[b].post
      rest == {i \in DOMAIN fetch[b].was : item[i] # NoItem}
      committed == Restored(b) # {} /\ ~Stale(b)
  IN
  /\ b \in Publications /\ Loaded(b) /\ Free(b)
  /\ item' = Repathed(b)
  /\ left' = left \cup Strays(b)
  /\ waiting' = IF ~committed THEN waiting
                ELSE IF rest = DOMAIN fetch[b].was THEN waiting \cup {p} ELSE waiting \ {p}
  /\ fetch' = [fetch EXCEPT ![b] =
       IF Stale(b) \/ (committed /\ rest # DOMAIN fetch[b].was) THEN IdleFetch
       ELSE [IdleFetch EXCEPT !.at = "ready", !.post = p,
               !.was = IF committed THEN [i \in rest |-> Repathed(b)[i].path] ELSE fetch[b].was]]
  /\ UNCHANGED <<post, count, disk, old, broken, lost, day, flight, cooling, writers>>

ReloadFails(b) ==
  /\ b \in Publications /\ fetch[b].at = "loading"
  /\ broken' = Break(fetch[b].now)
  /\ left' = left \cup fetch[b].got
  /\ fetch' = [fetch EXCEPT ![b] = [IdleFetch EXCEPT !.at = "ready", !.post = fetch[b].post, !.was = fetch[b].was]]
  /\ UNCHANGED <<rows, disk, old, lost, day, waiting, flight, cooling, writers>>

\* The files that exist are chosen; they are opened when they are sent.
Choose(b) ==
  /\ fetch[b].at = "ready"
  /\ fetch' = [fetch EXCEPT ![b] = [IdleFetch EXCEPT !.at = "sending", !.post = fetch[b].post,
        !.got = {fetch[b].was[i] : i \in {j \in DOMAIN fetch[b].was : Exists(fetch[b].was[j])}}]]
  /\ UNCHANGED <<rows, files, day, waiting, flight, cooling, writers>>

\* Delivered, or failed because a file is gone or for another reason: settled.
Send(b) ==
  /\ fetch[b].at = "sending"
  /\ waiting' = waiting \ {fetch[b].post}
  /\ fetch' = [fetch EXCEPT ![b] = IdleFetch]
  /\ UNCHANGED <<rows, files, day, flight, cooling, writers>>

Restart ==
  /\ disk' = [path \in Paths |-> "none"]
  /\ old' = {} /\ broken' = {} /\ left' = {}
  /\ lost' = {i \in Manual : item[i] # NoItem}
  /\ flight' = {} /\ cooling' = {}
  /\ up' = [u \in Uploads |-> IdleUpload]
  /\ fetch' = [f \in Fetchers |-> IdleFetch]
  /\ thread' = [t \in Threads |-> IdleThread]
  /\ UNCHANGED <<rows, day, waiting, asked, raced>>

-----------------------------------------------------------------------------
Upload(u) ==
  \/ \E p \in Posts, n \in 1..Limit : StartUpload(u, p, n)
  \/ \E i \in Manual : SaveUpload(u, i) \/ RejectUpload(u, i)
  \/ FlushUpload(u) \/ CommitUpload(u)

Thread(t) ==
  \/ \E i \in Items : DeleteItem(t, i) \/ Move(t, i)
  \/ CommitDelete(t) \/ CommitMove(t)
  \/ StartCleanup(t) \/ \E path \in Paths : Clean(t, path)

Fetch(f) ==
  \/ \E i \in Items : Download(f, i) \/ SkipDownload(f, i)
  \/ Downloaded(f) \/ DownloadBreaks(f)

Page(c) ==
  \/ \E p \in Posts : StartRestore(c, p)
  \/ EndRestore(c) \/ RestoreFails(c)

Publication(b) ==
  \/ \E p \in Posts : StartPublish(b, p)
  \/ EndReload(b) \/ ReloadFails(b) \/ Choose(b) \/ Send(b)

Next ==
  \/ \E p \in Posts : \/ \E got \in SUBSET Album[p] : Collect(p, got)
                      \/ CoolDown(p) \/ Queue(p) \/ DeletePost(p)
  \/ NextDay \/ Prune \/ Restart
  \/ \E path \in Paths : Age(path)
  \/ \E u \in Uploads : Upload(u)
  \/ \E t \in Threads : Thread(t)
  \/ \E f \in Fetchers : Fetch(f)
  \/ \E c \in Pages : Page(c)
  \/ \E b \in Publications : Publication(b)

Spec == Init /\ [][Next]_vars

-----------------------------------------------------------------------------
\* The type of the state; a row of media belongs to a post that exists.
TypeOK ==
  /\ post \in [Posts -> {"absent", "present", "deleted"}]
  /\ DOMAIN item = Items
  /\ \A i \in Items : \/ item[i] = NoItem
                      \/ /\ item[i] \in [post : Posts, path : Paths, order : Nat]
                         /\ post[item[i].post] = "present" /\ item[i].path[1] = i
  /\ count \in [Posts -> Nat]
  /\ disk \in [Paths -> {"none", "part", "whole"}] /\ old \subseteq Paths
  /\ waiting \subseteq Posts /\ flight \subseteq Posts /\ cooling \subseteq Posts

\* post_media._sync_media_counters: "has_media and media_count decide what is
\* published": the counter is true, and no larger than what Telegram puts into one
\* album, unless two writers had the post in hand at once.
AlbumAddsUp ==
  \A p \in Posts : p \in raced \/ (count[p] = Cardinality(Rows(p)) /\ count[p] <= Limit)

\* The order of an album is a linear one: no two media of a post have the same place,
\* unless two writers had the post in hand at once.
OrdersDistinct ==
  \A i, j \in Items : i # j /\ item[i] # NoItem /\ item[i].post = item[j].post
                      => item[i].order # item[j].order \/ item[i].post \in raced

\* media_cache.py: there is no second copy of what the editor uploaded.  Only a
\* restart takes it, or the request that deletes its row.
ManualIsKept ==
  \A i \in Manual : item[i] # NoItem => \/ Exists(item[i].path) \/ i \in lost
                                        \/ \E t \in Threads : thread[t].item = i

\* media_cache._waiting_for_publish: the files of a post that waits for its
\* publication stay, unless the editor deletes them or a cleanup began before.
KeptForPublication ==
  [][~Restart => \A p \in waiting : \A i \in Rows(p) :
       Exists(item[i].path) => \/ disk'[item[i].path] # "none"
                               \/ \E t \in Threads : thread'[t].item = i \/ item[i].path \in thread[t].todo]_vars

\* telegram_publisher._media_to_send: what a publication takes is a whole file, unless
\* a download of it is under way or has broken off under the same name.
SendsWhole ==
  \A b \in Publications : fetch[b].at = "sending" =>
    \A path \in fetch[b].got : disk[path] = "part" =>
      path \in broken \/ \E f \in Fetchers : fetch[f].now = path

\* _discard, media_restore: a whole file that no row names is in the hands of an upload or
\* of a restoration, or was left when its post, its row or its restoration went.  Pieces
\* of files are not counted: _discard does not know the one a failing _shrink_to_limit
\* leaves, although the comment in add_post_media wants none to stay on the disk.
OrphansAccountedFor ==
  \A path \in Paths : disk[path] = "whole" =>
    \/ \E i \in Items : item[i].path = path
    \/ \E u \in Uploads : path[1] \in Saved(u)
    \/ \E f \in Fetchers : path \in fetch[f].got
    \/ path \in left

\* media_restore: a post is in flight as long as one page, and no other, restores it;
\* whatever becomes of the restoration, the post does not stay in flight.
FlightIsOwned ==
  /\ flight = {fetch[c].post : c \in Pages} \ {None}
  /\ \A c, e \in Pages : c # e => fetch[c].post = None \/ fetch[c].post # fetch[e].post
=============================================================================
