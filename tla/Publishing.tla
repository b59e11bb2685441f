------------------------------ MODULE Publishing ------------------------------
(***************************************************************************)
(* Publication of generated posts into target channels.                    *)
(*                                                                         *)
(* All coroutines run on one event loop, so what lies between two awaits   *)
(* is one step.  Each has a database session of its own: what it has       *)
(* flushed and not committed locks the row and is invisible to the others. *)
(* The database calls are synchronous, so a coroutine that writes a row    *)
(* another session holds stops the loop itself, and with it the only       *)
(* coroutine that could release the row (variable frozen).  A handler      *)
(* declared with plain "def" runs in a thread and merely waits.            *)
(***************************************************************************)
EXTENDS Integers, FiniteSets

CONSTANTS
  Posts,        \* generated posts
  Raws,         \* raw posts
  RawOf,        \* the raw post a generated post was made from
  Targets,      \* target channels
  Windowed,     \* the targets that have publish_from and publish_to
  Clicks,       \* coroutines serving a publish request, or the autopublish loop
  Sched,        \* the scheduler's coroutine
  NoProc, NoPair,
  MaxRetry,     \* _MAX_RETRY_ATTEMPTS
  Fresh,        \* posts that do not exist yet: publish-raw creates them
  Bodyless,     \* posts whose generated_text is empty
  Operator,     \* the operator's requests this instance offers
  Layouts,      \* the shapes a post may have when it is sent
  Restores,     \* may media be missing from the disk and be fetched again
  Lossy,        \* may a delivered message be reported as failed
  MaxAttempts,  \* bound: no request is made for a job with that many attempts
  MaxRestarts   \* bound on the crashes of the process

Procs == Clicks \cup {Sched}
Pairs == Posts \X Targets

GenStatus == {"absent", "draft", "approved", "scheduled", "published", "failed", "rejected"}
RawStatus == {"generated", "published", "failed", "rejected"}
JobStatus == {"none", "pending", "running", "success", "failed"}
Job == [status : JobStatus, attempts : Nat, sent : BOOLEAN]
NoJob == [status |-> "none", attempts |-> 0, sent |-> FALSE]

ASSUME PublishingAssumption ==
  /\ RawOf \in [Posts -> Raws]
  /\ Windowed \subseteq Targets
  /\ Sched \notin Clicks
  /\ NoProc \notin Procs
  /\ NoPair \notin Pairs
  /\ MaxRetry \in Nat
  /\ Fresh \subseteq Posts /\ Bodyless \subseteq Posts
  /\ Operator \subseteq {"save", "reject", "reject_raw", "bulk_reject"}
  /\ Layouts \subseteq {"text", "captioned", "split"} /\ Layouts # {}
  /\ Restores \in BOOLEAN /\ Lossy \in BOOLEAN
  /\ MaxAttempts \in Nat \ {0} /\ MaxRestarts \in Nat

VARIABLES
  gen, raw, job,  \* the tables: one cell per row
  blank,          \* the posts whose publish text is empty now
  open,           \* the targets that accept publications now
  due,            \* the pairs whose scheduled_at has passed
  at, on, layout, \* where each coroutine waits, for which pair, sending what
  phase, todo,    \* the scheduler's pass and the jobs its query returned
  frozen,         \* a database call waits on the loop for a row the loop holds
  restarts,
  texts, media,   \* the channels: how often the text, the media of a pair is there
  lostTexts, lostMedia, \* deliveries that were never recorded
  overlaps        \* claims of a pair somebody is already working on

tables  == <<gen, raw, job>>
clock   == <<open, due>>
workers == <<at, on, layout>>
run     == <<phase, todo>>
channel == <<texts, media>>
lost    == <<lostTexts, lostMedia>>
vars == <<tables, blank, clock, workers, run, frozen, restarts, channel, lost, overlaps>>

-----------------------------------------------------------------------------
(* Rows under READ COMMITTED: the committed value, the value the holder of the *)
(* row lock has written, and the holder.                                       *)

Row(v) == [com |-> v, cur |-> v, by |-> NoProc]
View(cell, p) == IF cell.by = p THEN cell.cur ELSE cell.com
Free(cell, p) == cell.by \in {NoProc, p}
Put(cell, p, v) == IF v = View(cell, p) THEN cell ELSE [cell EXCEPT !.cur = v, !.by = p]
Release(cell, p) == IF cell.by = p THEN Row(cell.cur) ELSE cell
Commit(T, p) == [x \in DOMAIN T |-> Release(T[x], p)]
Withdraw(cell, p) == IF cell.by = p THEN Row(cell.com) ELSE cell
Undo(T, p) == [x \in DOMAIN T |-> Withdraw(T[x], p)]
Rollback(T) == [x \in DOMAIN T |-> Row(T[x].com)]

\* What the session of p sees of the pair's job (TelegramPublisherService._find_job).
JobOf(p, pr) == View(job[pr], p)

Active(pr) == {p \in Procs : at[p] # "idle" /\ on[p] = pr}

\* The checks of the code, each with a mistake it could be confused with.  The
\* operators named Buggy... occur in no action.
BuggyServed(p, pr) == FALSE
Served(p, pr) == JobOf(p, pr).status = "success"

BuggyRetryableTooLong(j) == j.status = "failed" /\ j.attempts <= MaxRetry
BuggyRetryableTooShort(j) == j.status = "failed" /\ j.attempts + 1 < MaxRetry
Retryable(j) == j.status = "failed" /\ j.attempts < MaxRetry

BuggyPublishable == {"approved"}
Publishable == {"scheduled", "approved"}

-----------------------------------------------------------------------------
(* The end of a transaction, and the place where a coroutine waits.         *)

\* The session of p commits; G, R and J are the tables with the writes of this step.
CommitAll(p, G, R, J) ==
  /\ gen' = Commit(G, p)
  /\ raw' = Commit(R, p)
  /\ job' = Commit(J, p)

\* It rolls back.
UndoAll(p) == gen' = Undo(gen, p) /\ raw' = Undo(raw, p) /\ job' = Undo(job, p)

Goto(p, where, pr, what) ==
  /\ at' = [at EXCEPT ![p] = where]
  /\ on' = [on EXCEPT ![p] = pr]
  /\ layout' = [layout EXCEPT ![p] = what]

BuggyDeferred(j) == j
Deferred(j) == [j EXCEPT !.status = "pending"]

BuggyClaimed(j) == [NoJob EXCEPT !.status = "running", !.attempts = 1]
Claimed(j) == [j EXCEPT !.status = "running", !.attempts = @ + 1]

\* After the media: what _send is going to do.  A job that has sent_message_id gets
\* its text only.
BuggyShapes(j) == Layouts
Shapes(j) == IF j.sent THEN {"resume"} ELSE Layouts

-----------------------------------------------------------------------------
(* publish_generated_post up to its first await.  G and R are the tables as the *)
(* caller's session has written them.                                           *)

AlreadyPublished(p, pr, G, R) ==
  /\ Served(p, pr)
  /\ CommitAll(p, G, R, job)
  /\ UNCHANGED <<due, workers, overlaps, frozen>>

\* _payload raises before anything is written: the request's session is rolled
\* back, the scheduler's keeps what reset_for_retry or approve flushed, and
\* publish-raw commits its new post with the error.
EmptyPayload(p, pr, G, R, keep) ==
  /\ ~Served(p, pr)
  /\ pr[1] \in blank
  /\ IF keep THEN CommitAll(p, G, R, job) ELSE gen' = G /\ raw' = R /\ job' = job
  /\ UNCHANGED <<due, workers, overlaps, frozen>>

DeferOutsideWindow(p, pr, G, R) ==
  /\ ~Served(p, pr)
  /\ pr[1] \notin blank
  /\ pr[2] \notin open
  /\ IF Free(job[pr], p) /\ Free(G[pr[1]], p)
       THEN /\ CommitAll(p, [G EXCEPT ![pr[1]] = Put(@, p, "scheduled")], R,
                            [job EXCEPT ![pr] = Put(@, p, Deferred(JobOf(p, pr)))])
            /\ due' = due \ {pr}
            /\ UNCHANGED <<workers, overlaps, frozen>>
       ELSE /\ frozen' = TRUE
            /\ gen' = G /\ raw' = R
            /\ UNCHANGED <<job, due, workers, overlaps>>

\* _claim_job, the counter and the flush: the job's row stays locked while the
\* coroutine waits for the media or for Telegram.
ClaimJob(p, pr, G, R) ==
  /\ ~Served(p, pr)
  /\ pr[1] \notin blank
  /\ pr[2] \in open
  /\ gen' = G /\ raw' = R
  /\ IF Free(job[pr], p)
       THEN /\ job' = [job EXCEPT ![pr] = Put(@, p, Claimed(JobOf(p, pr)))]
            /\ \/ Restores /\ Goto(p, "restore", pr, "text")
               \/ \E s \in Shapes(JobOf(p, pr)) : Goto(p, "send", pr, s)
            /\ overlaps' = IF Active(pr) = {} THEN overlaps
                           ELSE [overlaps EXCEPT ![pr] = @ + 1]
            /\ UNCHANGED <<due, frozen>>
       ELSE /\ frozen' = TRUE
            /\ UNCHANGED <<job, due, workers, overlaps>>

Publish(p, pr, G, R, keep) ==
  \/ AlreadyPublished(p, pr, G, R)
  \/ EmptyPayload(p, pr, G, R, keep)
  \/ DeferOutsideWindow(p, pr, G, R)
  \/ ClaimJob(p, pr, G, R)

-----------------------------------------------------------------------------
(* publish_generated_post from its first await to its end.                 *)

\* Telegram has the text, the media, and p has not heard of it.
TextDone(p) == at[p] = "tailack" \/ (at[p] = "ack" /\ layout[p] # "split")
MediaDone(p) == at[p] = "ack" /\ layout[p] \in {"captioned", "split"}

\* What the coroutines of S would have heard is never recorded.
Forget(S) ==
  /\ lostTexts' = [pr \in Pairs |-> IF \E p \in S : on[p] = pr /\ TextDone(p)
                                     THEN lostTexts[pr] + 1 ELSE lostTexts[pr]]
  /\ lostMedia' = [pr \in Pairs |-> IF \E p \in S : on[p] = pr /\ MediaDone(p)
                                     THEN lostMedia[pr] + 1 ELSE lostMedia[pr]]

\* mark_published or mark_publish_failed, then the commit.
Settle(p, gs, rs, js) ==
  LET pr == on[p]
      g  == pr[1]
      r  == RawOf[g]
      done == [JobOf(p, pr) EXCEPT !.status = js, !.sent = @ \/ js = "success"] IN
  IF Free(gen[g], p) /\ Free(raw[r], p) /\ Free(job[pr], p)
    THEN /\ CommitAll(p, [gen EXCEPT ![g] = Put(@, p, gs)],
                         [raw EXCEPT ![r] = Put(@, p, rs)],
                         [job EXCEPT ![pr] = Put(@, p, done)])
         /\ Goto(p, "idle", NoPair, "text")
         /\ UNCHANGED frozen
    ELSE /\ frozen' = TRUE
         /\ UNCHANGED <<tables, workers>>

MarkPublished(p) == Settle(p, "published", "published", "success")

BuggyFailedAsPublished(p) == MarkPublished(p)
BuggyFailedStaysRunning(p) == Settle(p, "failed", "failed", "running")
BuggyFailedRawAbsent(p) == Settle(p, "failed", "absent", "failed")
MarkPublishFailed(p) == Settle(p, "failed", "failed", "failed")

\* _restore_missing_media: restore_media commits the caller's session when it got a
\* file, and with it the claim.
RestoreMedia(p) ==
  /\ at[p] = "restore"
  /\ \/ CommitAll(p, gen, raw, job)
     \/ UNCHANGED tables
  /\ \E s \in Shapes(JobOf(p, on[p])) : Goto(p, "send", on[p], s)
  /\ UNCHANGED <<blank, clock, run, frozen, restarts, channel, lost, overlaps>>

\* Telegram has the message; the coroutine does not know yet.
Deliver(p) ==
  /\ at[p] \in {"send", "tail"}
  /\ LET tail == at[p] = "tail" IN
     /\ Goto(p, IF tail THEN "tailack" ELSE "ack", on[p], layout[p])
     /\ texts' = IF tail \/ layout[p] # "split" THEN [texts EXCEPT ![on[p]] = @ + 1] ELSE texts
     /\ media' = IF ~tail /\ layout[p] \in {"captioned", "split"}
                   THEN [media EXCEPT ![on[p]] = @ + 1] ELSE media
  /\ UNCHANGED <<tables, blank, clock, run, frozen, restarts, lost, overlaps>>

\* The answer arrives.  Media whose text did not fit are recorded and committed
\* before the text is sent; everything else is the end of the publication.
Acknowledge(p) ==
  /\ \/ /\ at[p] = "ack" /\ layout[p] = "split"
        /\ IF Free(job[on[p]], p)
             THEN /\ CommitAll(p, gen, raw,
                       [job EXCEPT ![on[p]] = Put(@, p, [JobOf(p, on[p]) EXCEPT !.sent = TRUE])])
                  /\ Goto(p, "tail", on[p], "split")
                  /\ UNCHANGED frozen
             ELSE frozen' = TRUE /\ UNCHANGED <<tables, workers>>
     \/ /\ at[p] = "tailack" \/ (at[p] = "ack" /\ layout[p] # "split")
        /\ MarkPublished(p)
  /\ UNCHANGED <<blank, clock, run, restarts, channel, lost, overlaps>>

\* The bot has no usable token, Telegram refuses, or the connection breaks before
\* the message is accepted.
SendFails(p) ==
  /\ at[p] \in {"send", "tail"}
  /\ MarkPublishFailed(p)
  /\ UNCHANGED <<blank, clock, run, restarts, channel, lost, overlaps>>

\* The connection breaks, or times out, after the message was accepted.
AnswerLost(p) ==
  /\ Lossy
  /\ at[p] \in {"ack", "tailack"}
  /\ MarkPublishFailed(p)
  /\ Forget(IF frozen' THEN {} ELSE {p})
  /\ UNCHANGED <<blank, clock, run, restarts, channel, overlaps>>

Proceed(p) ==
  \/ RestoreMedia(p)
  \/ Deliver(p)
  \/ Acknowledge(p)
  \/ SendFails(p)
  \/ AnswerLost(p)

-----------------------------------------------------------------------------
(* The callers of publish_generated_post.                                  *)

NoSchedule == UNCHANGED <<run, blank, open, restarts, channel, lost>>

Bounded(pr) == job[pr].com.attempts < MaxAttempts

\* POST /generated/{id}/publish; the loop over the targets in run_autopublish
\* calls the publisher in the same way, with nothing unwritten in its session.
Click(p, pr) ==
  /\ at[p] = "idle"
  /\ View(gen[pr[1]], p) # "absent"
  /\ Bounded(pr)
  /\ Publish(p, pr, gen, raw, FALSE)
  /\ NoSchedule

\* POST /posts/{id}/publish-raw: a new approved post, the raw post generated, the
\* flush, and the publisher called with both rows unwritten.
PublishRaw(p, pr) ==
  LET g == pr[1]
      r == RawOf[g] IN
  /\ at[p] = "idle"
  /\ gen[g] = Row("absent")
  /\ IF Free(raw[r], p)
       THEN Publish(p, pr, [gen EXCEPT ![g] = Put(@, p, "approved")],
                           [raw EXCEPT ![r] = Put(@, p, "generated")], TRUE)
       ELSE frozen' = TRUE /\ UNCHANGED <<tables, due, workers, overlaps>>
  /\ NoSchedule

\* _safe_run, after the pipeline: the first query of the pass.
StartRetries ==
  /\ phase = "idle"
  /\ phase' = "retry"
  /\ todo' = {pr \in Pairs : Retryable(JobOf(Sched, pr))}
  /\ UNCHANGED <<tables, blank, clock, workers, frozen, restarts, channel, lost, overlaps>>

\* One turn of the loop in _retry_failed_jobs: reset_for_retry, flush, publish.
RetryFailedJob(pr) ==
  LET g == pr[1]
      r == RawOf[g] IN
  /\ phase = "retry" /\ pr \in todo /\ at[Sched] = "idle"
  /\ todo' = todo \ {pr} /\ UNCHANGED phase
  /\ IF View(gen[g], Sched) = "published"
       THEN UNCHANGED <<tables, due, workers, overlaps, frozen>>
       ELSE IF Free(gen[g], Sched) /\ Free(raw[r], Sched)
         THEN Publish(Sched, pr, [gen EXCEPT ![g] = Put(@, Sched, "approved")],
                                 [raw EXCEPT ![r] = Put(@, Sched, "generated")], FALSE)
         ELSE frozen' = TRUE /\ UNCHANGED <<tables, due, workers, overlaps>>
  /\ UNCHANGED <<blank, open, restarts, channel, lost>>

\* The query of _process_scheduled_jobs.
StartScheduled ==
  /\ phase = "retry" /\ todo = {} /\ at[Sched] = "idle"
  /\ phase' = "due"
  /\ todo' = {pr \in due : JobOf(Sched, pr).status = "pending"}
  /\ UNCHANGED <<tables, blank, clock, workers, frozen, restarts, channel, lost, overlaps>>

\* One turn of the loop in _process_scheduled_jobs: approve, flush, publish.
ProcessScheduledJob(pr) ==
  LET g == pr[1] IN
  /\ phase = "due" /\ pr \in todo /\ at[Sched] = "idle"
  /\ todo' = todo \ {pr} /\ UNCHANGED phase
  /\ IF View(gen[g], Sched) \notin Publishable
       THEN UNCHANGED <<tables, due, workers, overlaps, frozen>>
       ELSE IF View(gen[g], Sched) = "approved" \/ Free(gen[g], Sched)
         THEN Publish(Sched, pr, [gen EXCEPT ![g] = Put(@, Sched, "approved")], raw, FALSE)
         ELSE frozen' = TRUE /\ UNCHANGED <<tables, due, workers, overlaps>>
  /\ UNCHANGED <<blank, open, restarts, channel, lost>>

BuggyEndRun ==
  /\ phase = "due" /\ todo = {} /\ at[Sched] = "idle"
  /\ phase' = "idle" /\ UNCHANGED <<todo, tables>>
  /\ UNCHANGED <<blank, clock, workers, frozen, restarts, channel, lost, overlaps>>

\* The commit that ends the pass, or the rollback when the database fails until then.
EndRun ==
  /\ phase = "due" /\ todo = {} /\ at[Sched] = "idle"
  /\ phase' = "idle" /\ UNCHANGED todo
  /\ CommitAll(Sched, gen, raw, job) \/ UndoAll(Sched)
  /\ UNCHANGED <<blank, clock, workers, frozen, restarts, channel, lost, overlaps>>

-----------------------------------------------------------------------------
(* The operator.  The first three handlers run in a thread and wait for a row *)
(* lock (the guard); the bulk handler runs on the loop.                       *)

Others == UNCHANGED <<clock, workers, run, restarts, channel, lost, overlaps>>

\* save_generated: the new text, and approve whatever the status was.
SaveGenerated(g) ==
  /\ "save" \in Operator
  /\ gen[g].by = NoProc /\ gen[g].com # "absent"
  /\ gen' = [gen EXCEPT ![g] = Row("approved")]
  /\ \/ blank' = blank \ {g}
     \/ g \in Bodyless /\ blank' = blank \cup {g}
  /\ UNCHANGED <<raw, job, frozen>> /\ Others

\* reject_generated: the draft and its raw post together.
RejectGenerated(g) ==
  /\ "reject" \in Operator
  /\ gen[g].by = NoProc /\ gen[g].com # "absent" /\ raw[RawOf[g]].by = NoProc
  /\ gen' = [gen EXCEPT ![g] = Row("rejected")]
  /\ raw' = [raw EXCEPT ![RawOf[g]] = Row("rejected")]
  /\ UNCHANGED <<job, blank, frozen>> /\ Others

\* reject_post: the raw post alone.
RejectPost(r) ==
  /\ "reject_raw" \in Operator
  /\ raw[r].by = NoProc
  /\ raw' = [raw EXCEPT ![r] = Row("rejected")]
  /\ UNCHANGED <<gen, job, blank, frozen>> /\ Others

\* posts_bulk with action "reject".
BulkReject(rs) ==
  /\ "bulk_reject" \in Operator
  /\ IF \A r \in rs : raw[r].by = NoProc \/ raw[r].com = "rejected"
       THEN /\ raw' = [r \in Raws |-> IF r \in rs /\ raw[r].by = NoProc
                                      THEN Row("rejected") ELSE raw[r]]
            /\ UNCHANGED frozen
       ELSE frozen' = TRUE /\ UNCHANGED raw
  /\ UNCHANGED <<gen, job, blank>> /\ Others

-----------------------------------------------------------------------------
(* Time and crashes.                                                       *)

\* scheduled_at is the next opening of the target's window (PublishWindow).
WindowOpens(t) ==
  /\ t \in Targets \ open
  /\ open' = open \cup {t}
  /\ due' = due \cup (Posts \X {t})
  /\ UNCHANGED <<tables, blank, workers, run, frozen, restarts, channel, lost, overlaps>>

WindowCloses(t) ==
  /\ t \in Windowed \cap open
  /\ open' = open \ {t}
  /\ UNCHANGED <<tables, blank, due, workers, run, frozen, restarts, channel, lost, overlaps>>

\* The process dies, or the host replaces it when /health stops answering: what was
\* not committed is gone, what Telegram accepted stays accepted.
Restart ==
  /\ restarts < MaxRestarts
  /\ restarts' = restarts + 1
  /\ gen' = Rollback(gen) /\ raw' = Rollback(raw) /\ job' = Rollback(job)
  /\ at' = [p \in Procs |-> "idle"]
  /\ on' = [p \in Procs |-> NoPair]
  /\ layout' = [p \in Procs |-> "text"]
  /\ phase' = "idle" /\ todo' = {} /\ frozen' = FALSE
  /\ Forget(Procs)
  /\ UNCHANGED <<blank, clock, channel, overlaps>>

-----------------------------------------------------------------------------

Init ==
  /\ gen = [g \in Posts |-> Row(IF g \in Fresh THEN "absent" ELSE "draft")]
  /\ raw = [r \in Raws |-> Row("generated")]
  /\ job = [pr \in Pairs |-> Row(NoJob)]
  /\ blank = Bodyless
  /\ open \in {Targets \ Windowed, Targets}
  /\ due = {}
  /\ at = [p \in Procs |-> "idle"]
  /\ on = [p \in Procs |-> NoPair]
  /\ layout = [p \in Procs |-> "text"]
  /\ phase = "idle" /\ todo = {}
  /\ frozen = FALSE
  /\ restarts = 0
  /\ texts = [pr \in Pairs |-> 0] /\ media = [pr \in Pairs |-> 0]
  /\ lostTexts = [pr \in Pairs |-> 0] /\ lostMedia = [pr \in Pairs |-> 0]
  /\ overlaps = [pr \in Pairs |-> 0]

Scheduler ==
  \/ StartRetries
  \/ \E pr \in Pairs : RetryFailedJob(pr)
  \/ StartScheduled
  \/ \E pr \in Pairs : ProcessScheduledJob(pr)
  \/ EndRun

Requests ==
  \/ \E p \in Clicks, pr \in Pairs : Click(p, pr) \/ PublishRaw(p, pr)
  \/ \E g \in Posts : SaveGenerated(g) \/ RejectGenerated(g)
  \/ \E r \in Raws : RejectPost(r)
  \/ \E rs \in (SUBSET Raws) \ {{}} : BulkReject(rs)

Time == \E t \in Targets : WindowOpens(t) \/ WindowCloses(t)

Next ==
  \/ /\ ~frozen
     /\ (\E p \in Procs : Proceed(p)) \/ Scheduler \/ Requests
  \/ Time
  \/ Restart

Spec == Init /\ [][Next]_vars

-----------------------------------------------------------------------------
(* Invariants.                                                             *)

Cells(S) == [com : S, cur : S, by : Procs \cup {NoProc}]

TablesOK ==
  /\ gen \in [Posts -> Cells(GenStatus)]
  /\ raw \in [Raws -> Cells(RawStatus)]
  /\ job \in [Pairs -> Cells(Job)]

WorkersOK ==
  /\ at \in [Procs -> {"idle", "restore", "send", "ack", "tail", "tailack"}]
  /\ on \in [Procs -> Pairs \cup {NoPair}]
  /\ \A p \in Procs : at[p] # "idle" => on[p] \in Pairs
  /\ layout \in [Procs -> {"text", "captioned", "split", "resume"}]

\* The variables keep their types.
TypeOK ==
  /\ TablesOK /\ WorkersOK
  /\ blank \subseteq Posts /\ open \subseteq Targets /\ due \subseteq Pairs
  /\ phase \in {"idle", "retry", "due"} /\ todo \subseteq Pairs
  /\ frozen \in BOOLEAN
  /\ restarts \in Nat
  /\ texts \in [Pairs -> Nat] /\ media \in [Pairs -> Nat]
  /\ lostTexts \in [Pairs -> Nat] /\ lostMedia \in [Pairs -> Nat]
  /\ overlaps \in [Pairs -> Nat]

\* A text appears twice in a channel only when an accepted message was never
\* recorded (a lost answer, a crash before the commit) or when a publication was
\* started while another coroutine was at the same pair: retries, deferrals,
\* rejections and restarts by themselves never repeat it (_already_published).
DuplicatesAccountedFor ==
  \A pr \in Pairs : texts[pr] <= 1 + lostTexts[pr] + overlaps[pr]

\* The same for the media: a failed text does not send the pictures again
\* (sent_message_id is committed before the text goes out).
MediaAccountedFor ==
  \A pr \in Pairs : media[pr] <= 1 + lostMedia[pr] + overlaps[pr]

\* SUCCESS on a job and PUBLISHED on a post are never claimed for a text no reader
\* has seen, and sent_message_id is never set on a job that delivered nothing.
StatusIsEarned ==
  /\ \A pr \in Pairs : job[pr].com.status = "success" => texts[pr] >= 1
  /\ \A pr \in Pairs : job[pr].com.sent => texts[pr] + media[pr] >= 1
  /\ \A g \in Posts : gen[g].com = "published" => \E t \in Targets : texts[<<g, t>>] >= 1

JobLocks ==
  \A pr \in Pairs : job[pr].by # NoProc =>
    /\ job[pr].by \in Active(pr)
    /\ job[pr].cur.status = "running" /\ job[pr].com.status # "success"

PostLocks ==
  \A g \in Posts : gen[g].by # NoProc =>
    (gen[g].by = Sched /\ phase # "idle") \/ \E t \in Targets : gen[g].by \in Active(<<g, t>>)

RawLocks ==
  \A r \in Raws : raw[r].by # NoProc =>
    (raw[r].by = Sched /\ phase # "idle") \/
    \E pr \in Pairs : RawOf[pr[1]] = r /\ raw[r].by \in Active(pr)

\* A row stays locked only while somebody is going to release it: a job's row by the
\* coroutine that works on that pair, a post's by a coroutine at one of its pairs or
\* by the scheduler's unfinished pass.
LocksHaveOwners == JobLocks /\ PostLocks /\ RawLocks

\* As long as the process lives, a job the panel shows as RUNNING has a coroutine
\* that is going to settle it.
RunningIsAlive ==
  restarts = 0 => \A pr \in Pairs : job[pr].com.status = "running" => Active(pr) # {}

\* As long as the process lives, a post shown as SCHEDULED has a job that waits for
\* its time or is being worked on: no deferral is forgotten while it is displayed.
ScheduledHasJob ==
  restarts = 0 => \A g \in Posts : gen[g].com = "scheduled" =>
    \E t \in Targets : job[<<g, t>>].com.status = "pending" \/ Active(<<g, t>>) # {}

-----------------------------------------------------------------------------
(* Publication implements the ledger of deliveries.                        *)

Recorded == {pr \in Pairs : job[pr].com.status = "success"}
Owing == [pr \in Pairs |-> {p \in Active(pr) : ~TextDone(p)}]
Told  == [pr \in Pairs |-> {p \in Active(pr) : TextDone(p)}]

Ledger == INSTANCE DeliveryLedger WITH
  Workers <- Procs, lost <- lostTexts, served <- Recorded, owing <- Owing, told <- Told

\* Claims, retries, deferrals, split sends, crashes and rejections do to the channels
\* nothing but what the ledger of deliveries allows.
ImplementsLedger == Ledger!Spec

-----------------------------------------------------------------------------
(* Steps and liveness.                                                     *)

\* The committed counter of attempts never falls, and what was recorded as delivered
\* stays recorded: no step of another coroutine writes an older copy of a job back.
JobsOnlyAdvance ==
  [][\A pr \in Pairs : /\ job'[pr].com.attempts >= job[pr].com.attempts
                       /\ job[pr].com.sent => job'[pr].com.sent]_vars

\* Automatic attempts stop at the limit, whatever the windows and the restarts do; where
\* attempts by hand reach it first, the scheduler adds at most one to them, that of a pass
\* which has read the job before.
RetryLimit == \A pr \in Pairs : LET n == job[pr].com.attempts IN
                               n <= MaxRetry \/ n <= MaxAttempts + 1

OnLoop(A) == ~frozen /\ A

\* The coroutines run when their awaits end, the scheduler runs again and again (the
\* interval job), and closed windows open.
Fairness ==
  /\ \A p \in Procs : WF_vars(OnLoop(Proceed(p)))
  /\ WF_vars(OnLoop(Scheduler))
  /\ \A t \in Targets : WF_vars(WindowOpens(t))

FairSpec == Spec /\ Fairness

\* A queued publication is taken up (README: "published automatically once the next
\* window opens") when the window is open long enough for the scheduler to come by,
\* unless the loop stands still.
PendingIsServed ==
  \A pr \in Pairs : <>[](pr[2] \in open) =>
    (job[pr].com.status = "pending" ~> job[pr].com.status # "pending" \/ frozen)

\* A failed publication below the limit does not stay as it is.
FailedIsRetried ==
  \A pr \in Pairs : (job[pr].com.status = "failed" /\ job[pr].com.attempts < MaxRetry)
                       ~> ~(job[pr].com.status = "failed" /\ job[pr].com.attempts < MaxRetry)
                          \/ frozen

\* A publication that was begun is ended: the job does not stay RUNNING.
RunningIsSettled ==
  \A pr \in Pairs : job[pr].com.status = "running" ~> job[pr].com.status # "running" \/ frozen

=============================================================================
