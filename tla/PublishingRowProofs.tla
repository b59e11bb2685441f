-------------------------- MODULE PublishingRowProofs --------------------------
(***************************************************************************)
(* Publishing for every number of posts, channels, coroutines, attempts    *)
(* and restarts: who owns the locks of posts and raw posts, what a status   *)
(* is evidence of, which coroutine a RUNNING job and which job a SCHEDULED  *)
(* post has, where the attempts end, and what pays for the media in the     *)
(* channels.  What a step does to the rows is summed up once (StepCases);   *)
(* the theorems are proved from that summary.                               *)
(***************************************************************************)
EXTENDS PublishingProofs, FiniteSetTheorems

-----------------------------------------------------------------------------
(* What one coroutine does to the rows in one step.                         *)

\* p leaves a row as it is, commits what it had written, or writes one of V, which is
\* committed with the step or not.
CellStep(c, d, p, V) ==
  \/ d = c
  \/ c.by = p /\ d = Row(c.cur)
  \/ /\ c.by \in {NoProc, p}
     /\ \E v \in V : d = Row(v) \/ (d.com = c.com /\ d.cur = v /\ d.by = p)

\* The posts: only the post of the pair is written.
GenStep(p, pr, V) ==
  \A g \in Posts : CellStep(gen[g], gen'[g], p, IF g = pr[1] THEN V ELSE {})

\* The raw posts: only the one of that post is locked.
RawStep(p, pr) ==
  \A r \in Raws : \/ raw'[r].by \in {raw[r].by, NoProc}
                  \/ r = RawOf[pr[1]] /\ raw'[r].by = p

\* p holds no row of a post.
Clean(p) == (\A g \in Posts : gen[g].by # p) /\ (\A r \in Raws : raw[r].by # p)

OtherJobs(pr) == \A q \in Pairs \ {pr} : job'[q] = job[q]

\* A coroutine gives up, or stops the loop, before it has claimed the job.
Rests(p, pr) ==
  /\ GenStep(p, pr, {"approved"}) /\ RawStep(p, pr)
  /\ UNCHANGED <<job, workers, channel>>

Defers(p, pr) ==
  /\ GenStep(p, pr, {"scheduled"}) /\ RawStep(p, pr) /\ Clean(p)' /\ gen'[pr[1]].com = "scheduled"
  /\ OtherJobs(pr) /\ job'[pr] = Row(Deferred(job[pr].com))
  /\ UNCHANGED <<workers, channel>>

Claims(p, pr) ==
  /\ GenStep(p, pr, {"approved"}) /\ RawStep(p, pr)
  /\ OtherJobs(pr)
  /\ job'[pr] = job[pr] \/ (/\ job'[pr].com = job[pr].com
                            /\ job'[pr].cur = Claimed(job[pr].com) /\ job'[pr].by = p)
  /\ \E w \in {"restore", "send"} : \E s : Goto(p, w, pr, s)
  /\ UNCHANGED channel

Settles(p, pr, gs, js) ==
  /\ at[p] # "idle" /\ on[p] = pr
  /\ GenStep(p, pr, {gs}) /\ RawStep(p, pr) /\ Clean(p)' /\ gen'[pr[1]].com = gs
  /\ OtherJobs(pr)
  /\ job'[pr] = Row([JobOf(p, pr) EXCEPT !.status = js, !.sent = @ \/ js = "success"])
  /\ Goto(p, "idle", NoPair, "text")
  /\ UNCHANGED channel

\* p goes on with its pair, and may commit.
Continues(p, pr) ==
  /\ at[p] # "idle" /\ on[p] = pr
  /\ GenStep(p, pr, {}) /\ RawStep(p, pr)
  /\ OtherJobs(pr)
  /\ \/ job'[pr] = job[pr]
     \/ Clean(p)' /\ job[pr].by = p /\ job'[pr] = Row(job[pr].cur)
     \/ /\ Clean(p)' /\ at[p] = "ack" /\ layout[p] = "split"
        /\ job'[pr] = Row([JobOf(p, pr) EXCEPT !.sent = TRUE])
  /\ \/ (\E w \in {"send", "tail"} : \E s : Goto(p, w, pr, s)) /\ UNCHANGED channel
     \/ Deliver(p)

-----------------------------------------------------------------------------
(* Rows.                                                                    *)

\* A write to a row the writer may write.
LEMMA PutCell ==
  ASSUME NEW S, NEW c \in Cells(S), NEW p \in Procs, NEW v \in S, Free(c, p)
  PROVE  LET d == Put(c, p, v) IN
         /\ d \in Cells(S) /\ d.com = c.com
         /\ d = c \/ (d.cur = v /\ d.by = p)
         /\ c.by \in {NoProc, p}
BY DEF Put, Cells, Free

\* What a commit leaves of a row.
LEMMA ReleaseCell ==
  ASSUME NEW S, NEW c \in Cells(S), NEW p \in Procs
  PROVE  LET d == Release(c, p) IN
         /\ d \in Cells(S) /\ d.by # p /\ d.by \in {c.by, NoProc}
         /\ c.by = p => d = Row(c.cur)
         /\ c.by # p => d = c
BY PublishingAssumption DEF Release, Cells, Row

\* What a rollback leaves of a row.
LEMMA WithdrawCell ==
  ASSUME NEW S, NEW c \in Cells(S), NEW p \in Procs
  PROVE  LET d == Withdraw(c, p) IN
         d \in Cells(S) /\ d.by # p /\ d.by \in {c.by, NoProc}
BY PublishingAssumption DEF Withdraw, Cells, Row

\* A write that is committed at once.
LEMMA WrittenCell ==
  ASSUME NEW S, NEW c \in Cells(S), NEW p \in Procs, NEW v \in S, Free(c, p), c.by = NoProc => c.cur = c.com
  PROVE  Release(Put(c, p, v), p) = Row(v)
<1>1. CASE v = View(c, p) /\ c.by = p
  BY <1>1, PublishingAssumption DEF Put, View, Release, Row, Cells
<1>2. CASE v = View(c, p) /\ c.by # p
  BY <1>2, PublishingAssumption DEF Put, View, Release, Row, Cells, Free
<1>3. CASE v # View(c, p)
  BY <1>3, PublishingAssumption DEF Put, View, Release, Row, Cells, Free
<1> QED
  BY <1>1, <1>2, <1>3

\* A row nobody holds shows one value.
Settled == /\ \A g \in Posts : gen[g].by = NoProc => gen[g].cur = gen[g].com
           /\ \A pr \in Pairs : job[pr].by = NoProc => job[pr].cur = job[pr].com

-----------------------------------------------------------------------------
(* Publish and Proceed do nothing but that.                                 *)

\* What the caller has written before it calls the publisher.
Prepared(p, pr, G, R) ==
  /\ G \in [Posts -> Cells(GenStatus)] /\ R \in [Raws -> Cells(RawStatus)]
  /\ \A g \in Posts : \/ G[g] = gen[g]
                      \/ /\ g = pr[1] /\ gen[g].by \in {NoProc, p}
                         /\ G[g].com = gen[g].com /\ G[g].cur = "approved" /\ G[g].by = p
  /\ \A r \in Raws : R[r] = raw[r] \/ (r = RawOf[pr[1]] /\ R[r].by = p)

LEMMA NothingPrepared ==
  ASSUME TypeOK, NEW p, NEW pr PROVE Prepared(p, pr, gen, raw)
BY DEF Prepared, TypeOK, TablesOK

LEMMA PostPrepared ==
  ASSUME TypeOK, NEW p \in Procs, NEW pr \in Pairs, Free(gen[pr[1]], p)
  PROVE  Prepared(p, pr, [gen EXCEPT ![pr[1]] = Put(@, p, "approved")], raw)
<1> DEFINE c == Put(gen[pr[1]], p, "approved")
<1>0. pr[1] \in Posts /\ gen \in [Posts -> Cells(GenStatus)] /\ raw \in [Raws -> Cells(RawStatus)]
  BY DEF TypeOK, TablesOK, Pairs
<1>1. "approved" \in GenStatus
  BY DEF GenStatus
<1>2. /\ c \in Cells(GenStatus) /\ c.com = gen[pr[1]].com
      /\ c = gen[pr[1]] \/ (c.cur = "approved" /\ c.by = p)
      /\ gen[pr[1]].by \in {NoProc, p}
  BY <1>0, <1>1, PutCell
<1> HIDE DEF c
<1>3. [gen EXCEPT ![pr[1]] = c] \in [Posts -> Cells(GenStatus)]
  BY <1>0, <1>2
<1>4. Prepared(p, pr, [gen EXCEPT ![pr[1]] = c], raw)
  BY <1>0, <1>2, <1>3 DEF Prepared
<1> QED
  BY <1>4 DEF c

LEMMA BothPrepared ==
  ASSUME TypeOK, NEW p \in Procs, NEW pr \in Pairs, Free(gen[pr[1]], p), Free(raw[RawOf[pr[1]]], p)
  PROVE  Prepared(p, pr, [gen EXCEPT ![pr[1]] = Put(@, p, "approved")],
                         [raw EXCEPT ![RawOf[pr[1]]] = Put(@, p, "generated")])
<1> DEFINE r == RawOf[pr[1]]
           c == Put(raw[r], p, "generated")
           G == [gen EXCEPT ![pr[1]] = Put(@, p, "approved")]
<1>0. pr[1] \in Posts /\ r \in Raws /\ raw \in [Raws -> Cells(RawStatus)]
  BY PublishingAssumption DEF TypeOK, TablesOK, Pairs
<1>1. "generated" \in RawStatus
  BY DEF RawStatus
<1>2. c \in Cells(RawStatus) /\ (c = raw[r] \/ c.by = p)
  BY <1>0, <1>1, PutCell
<1>3. Prepared(p, pr, G, raw)
  BY PostPrepared
<1> HIDE DEF c, G
<1>4. Prepared(p, pr, G, [raw EXCEPT ![r] = c])
  BY <1>0, <1>2, <1>3 DEF Prepared
<1> QED
  BY <1>4 DEF c, G

\* A commit, seen at the rows of posts.
LEMMA CommitSteps ==
  ASSUME TypeOK, NEW p \in Procs, NEW pr \in Pairs, NEW G, NEW R, NEW J, Prepared(p, pr, G, R),
         CommitAll(p, G, R, J)
  PROVE  GenStep(p, pr, {"approved"}) /\ RawStep(p, pr) /\ Clean(p)'
<1>0. gen \in [Posts -> Cells(GenStatus)] /\ raw \in [Raws -> Cells(RawStatus)]
  BY DEF TypeOK, TablesOK
<1>1. ASSUME NEW g \in Posts
      PROVE  gen'[g].by # p /\ CellStep(gen[g], gen'[g], p, IF g = pr[1] THEN {"approved"} ELSE {})
  <2>1. gen'[g] = Release(G[g], p) /\ G[g] \in Cells(GenStatus)
    BY DEF CommitAll, Commit, Prepared
  <2>2. /\ gen'[g].by # p
        /\ G[g].by = p => gen'[g] = Row(G[g].cur)
        /\ G[g].by # p => gen'[g] = G[g]
    BY <2>1, ReleaseCell
  <2> QED
    BY <2>2 DEF Prepared, CellStep
<1>2. ASSUME NEW r \in Raws
      PROVE  raw'[r].by # p /\ raw'[r].by \in {raw[r].by, NoProc}
  <2>1. raw'[r] = Release(R[r], p) /\ R[r] \in Cells(RawStatus)
    BY DEF CommitAll, Commit, Prepared
  <2>2. raw'[r].by # p /\ raw'[r].by \in {R[r].by, NoProc}
    BY <2>1, ReleaseCell
  <2> QED
    BY <2>2 DEF Prepared
<1> QED
  BY <1>1, <1>2 DEF GenStep, RawStep, Clean

\* Rows that are flushed and not committed.
LEMMA FlushSteps ==
  ASSUME TypeOK, NEW p \in Procs, NEW pr \in Pairs, NEW G, NEW R, Prepared(p, pr, G, R),
         gen' = G, raw' = R
  PROVE  GenStep(p, pr, {"approved"}) /\ RawStep(p, pr)
<1>1. ASSUME NEW g \in Posts
      PROVE  CellStep(gen[g], gen'[g], p, IF g = pr[1] THEN {"approved"} ELSE {})
  BY DEF Prepared, CellStep
<1> QED
  BY <1>1 DEF GenStep, RawStep, Prepared

\* publish_generated_post up to its first await.
LEMMA PublishEffect ==
  ASSUME TypeOK, JobLocks, Settled, NEW p \in Procs, at[p] = "idle", NEW pr \in Pairs, NEW keep,
         NEW G, NEW R, Prepared(p, pr, G, R), Publish(p, pr, G, R, keep), UNCHANGED channel
  PROVE  \/ /\ Rests(p, pr)
            /\ Clean(p)' \/ /\ gen' = G /\ raw' = R
                            /\ ~keep \/ ~Free(job[pr], p) \/ ~Free(G[pr[1]], p)
         \/ Defers(p, pr)
         \/ Claims(p, pr) /\ gen' = G /\ raw' = R
<1> DEFINE g == pr[1]
<1>0. /\ gen \in [Posts -> Cells(GenStatus)] /\ raw \in [Raws -> Cells(RawStatus)]
      /\ job \in [Pairs -> Cells(Job)] /\ job[pr] \in Cells(Job) /\ g \in Posts
      /\ G \in [Posts -> Cells(GenStatus)] /\ G[g] \in Cells(GenStatus)
      /\ \A q \in Pairs : job[q].by # p
      /\ JobOf(p, pr) = job[pr].com /\ job[pr].com \in Job
  BY IdleHoldsNoJob DEF TypeOK, TablesOK, JobOf, View, Prepared, Pairs, Cells
<1>1. CASE CommitAll(p, G, R, job) /\ UNCHANGED workers
  <2>1. job' = job
    BY <1>0, <1>1, NothingToCommit DEF CommitAll
  <2> QED
    BY <1>1, <2>1, CommitSteps DEF Rests
<1>2. CASE /\ gen' = G /\ raw' = R /\ UNCHANGED <<job, workers>>
           /\ ~keep \/ ~Free(job[pr], p) \/ ~Free(G[g], p)
  BY <1>2, FlushSteps DEF Rests
<1>3. CASE DeferOutsideWindow(p, pr, G, R) /\ Free(job[pr], p) /\ Free(G[g], p)
  <2> DEFINE v == Deferred(job[pr].com)
             H == [G EXCEPT ![g] = Put(@, p, "scheduled")]
  <2>1. /\ CommitAll(p, H, R, [job EXCEPT ![pr] = Put(@, p, v)])
        /\ UNCHANGED workers
    BY <1>0, <1>3 DEF DeferOutsideWindow
  <2>2. v \in Job /\ "scheduled" \in GenStatus
    BY <1>0, WrittenJobs DEF GenStatus
  <2> HIDE DEF v
  <2>3. job'[pr] = Row(v)
    <3>1. job'[pr] = Release(Put(job[pr], p, v), p)
      BY <1>0, <2>1 DEF CommitAll, Commit
    <3> QED
      BY <1>0, <1>3, <2>2, <3>1, WrittenCell DEF Settled
  <2>4. OtherJobs(pr)
    BY <1>0, <2>1 DEF CommitAll, Commit, Release, OtherJobs
  <2>5. gen'[g] = Row("scheduled")
    <3>1. gen'[g] = Release(Put(G[g], p, "scheduled"), p)
      BY <1>0, <2>1 DEF CommitAll, Commit
    <3>2. G[g].by = NoProc => G[g].cur = G[g].com
      BY <1>0, PublishingAssumption DEF Prepared, Settled
    <3> QED
      BY <1>0, <1>3, <2>2, <3>1, <3>2, WrittenCell
  <2>6. GenStep(p, pr, {"scheduled"}) /\ \A h \in Posts : gen'[h].by # p
    <3>1. gen[g].by \in {NoProc, p}
      BY <1>0, <1>3 DEF Prepared, Free
    <3>2. ASSUME NEW h \in Posts, h # g
          PROVE  gen'[h].by # p /\ CellStep(gen[h], gen'[h], p, {})
      <4>1. gen'[h] = Release(gen[h], p)
        BY <1>0, <2>1, <3>2 DEF CommitAll, Commit, Prepared
      <4> QED
        BY <1>0, <4>1, ReleaseCell DEF CellStep
    <3>3. CellStep(gen[g], gen'[g], p, {"scheduled"}) /\ gen'[g].by # p
      BY <2>5, <3>1, PublishingAssumption DEF CellStep, Row
    <3>4. ASSUME NEW h \in Posts
          PROVE  gen'[h].by # p /\ CellStep(gen[h], gen'[h], p, IF h = g THEN {"scheduled"} ELSE {})
      BY <3>2, <3>3
    <3> QED
      BY <3>4 DEF GenStep
  <2>7. RawStep(p, pr) /\ \A r \in Raws : raw'[r].by # p
    <3>1. ASSUME NEW r \in Raws
          PROVE  raw'[r].by # p /\ raw'[r].by \in {raw[r].by, NoProc}
      <4>1. raw'[r] = Release(R[r], p) /\ R[r] \in Cells(RawStatus)
        BY <2>1 DEF CommitAll, Commit, Prepared
      <4>2. raw'[r].by # p /\ raw'[r].by \in {R[r].by, NoProc}
        BY <4>1, ReleaseCell
      <4> QED
        BY <4>2 DEF Prepared
    <3> QED
      BY <3>1 DEF RawStep
  <2>8. gen'[g].com = "scheduled"
    BY <2>5 DEF Row
  <2> QED
    BY <2>1, <2>3, <2>4, <2>6, <2>7, <2>8 DEF Defers, Clean, v
<1>4. CASE ClaimJob(p, pr, G, R) /\ Free(job[pr], p)
  <2> DEFINE v == Claimed(job[pr].com)
  <2>1. job' = [job EXCEPT ![pr] = Put(@, p, v)] /\ gen' = G /\ raw' = R
    BY <1>0, <1>4 DEF ClaimJob
  <2>2. v \in Job
    BY <1>0, WrittenJobs
  <2> HIDE DEF v
  <2>3. job'[pr] = job[pr] \/ (job'[pr].com = job[pr].com /\ job'[pr].cur = v /\ job'[pr].by = p)
    BY <1>0, <1>4, <2>1, <2>2, PutCell
  <2>4. OtherJobs(pr)
    BY <1>0, <2>1 DEF OtherJobs
  <2>5. \E w \in {"restore", "send"} : \E s : Goto(p, w, pr, s)
    BY <1>4 DEF ClaimJob
  <2> QED
    BY <2>1, <2>3, <2>4, <2>5, FlushSteps DEF Claims, v
<1> QED
  BY <1>1, <1>2, <1>3, <1>4
  DEF Publish, AlreadyPublished, EmptyPayload, DeferOutsideWindow, ClaimJob, tables

\* mark_published and mark_publish_failed.
LEMMA SettleEffect ==
  ASSUME TypeOK, JobLocks, Settled, NEW p \in Procs, at[p] # "idle",
         NEW gs \in {"published", "failed"}, NEW rs \in RawStatus, NEW js \in {"success", "failed"},
         Settle(p, gs, rs, js), UNCHANGED channel
  PROVE  UNCHANGED <<tables, workers>> \/ Settles(p, on[p], gs, js)
<1> DEFINE pr == on[p]
           g == pr[1]
           r == RawOf[g]
           v == [JobOf(p, pr) EXCEPT !.status = js, !.sent = @ \/ js = "success"]
           free == Free(gen[g], p) /\ Free(raw[r], p) /\ Free(job[pr], p)
<1>0. /\ gen \in [Posts -> Cells(GenStatus)] /\ raw \in [Raws -> Cells(RawStatus)]
      /\ job \in [Pairs -> Cells(Job)] /\ pr \in Pairs /\ g \in Posts /\ r \in Raws
      /\ JobOf(p, pr) \in Job
  BY JobOfType, PublishingAssumption DEF TypeOK, TablesOK, WorkersOK, Pairs
<1>1. CASE ~free
  BY <1>1 DEF Settle
<1>2. CASE free
  <2>1. v \in Job /\ gs \in GenStatus
    BY <1>0 DEF Job, JobStatus, GenStatus
  <2>2. /\ CommitAll(p, [gen EXCEPT ![g] = Put(@, p, gs)], [raw EXCEPT ![r] = Put(@, p, rs)],
                        [job EXCEPT ![pr] = Put(@, p, v)])
        /\ Goto(p, "idle", NoPair, "text")
    BY <1>2 DEF Settle
  <2> HIDE DEF v
  <2>3. job'[pr] = Row(v)
    <3>1. job'[pr] = Release(Put(job[pr], p, v), p)
      BY <1>0, <2>2 DEF CommitAll, Commit
    <3> QED
      BY <1>0, <1>2, <2>1, <3>1, WrittenCell DEF Settled
  <2>4. OtherJobs(pr)
    BY <1>0, <2>2, HoldsOneJob DEF CommitAll, Commit, Release, OtherJobs
  <2>5. gen'[g] = Row(gs)
    <3>1. gen'[g] = Release(Put(gen[g], p, gs), p)
      BY <1>0, <2>2 DEF CommitAll, Commit
    <3> QED
      BY <1>0, <1>2, <2>1, <3>1, WrittenCell DEF Settled
  <2>6. GenStep(p, pr, {gs}) /\ \A h \in Posts : gen'[h].by # p
    <3>2. ASSUME NEW h \in Posts, h # g
          PROVE  gen'[h].by # p /\ CellStep(gen[h], gen'[h], p, {})
      <4>1. gen'[h] = Release(gen[h], p)
        BY <1>0, <2>2, <3>2 DEF CommitAll, Commit
      <4> QED
        BY <1>0, <4>1, ReleaseCell DEF CellStep
    <3>3. CellStep(gen[g], gen'[g], p, {gs}) /\ gen'[g].by # p
      BY <1>2, <2>5, PublishingAssumption DEF CellStep, Row, Free
    <3>4. ASSUME NEW h \in Posts
          PROVE  gen'[h].by # p /\ CellStep(gen[h], gen'[h], p, IF h = g THEN {gs} ELSE {})
      BY <3>2, <3>3
    <3> QED
      BY <3>4 DEF GenStep
  <2>7. RawStep(p, pr) /\ \A x \in Raws : raw'[x].by # p
    <3>1. ASSUME NEW x \in Raws
          PROVE  raw'[x].by # p /\ raw'[x].by \in {raw[x].by, NoProc}
      <4> DEFINE c == IF x = r THEN Put(raw[x], p, rs) ELSE raw[x]
      <4>1. raw'[x] = Release(c, p)
        BY <1>0, <2>2 DEF CommitAll, Commit
      <4>2. c \in Cells(RawStatus) /\ c.by \in {raw[x].by, p}
        BY <1>0, <1>2, PutCell
      <4> HIDE DEF c
      <4> QED
        BY <4>1, <4>2, ReleaseCell
    <3> QED
      BY <3>1 DEF RawStep
  <2>8. gen'[g].com = gs
    BY <2>5 DEF Row
  <2> QED
    BY <2>2, <2>3, <2>4, <2>6, <2>7, <2>8 DEF Settles, Clean, v
<1> QED
  BY <1>1, <1>2

\* publish_generated_post from its first await on.
LEMMA ProceedEffect ==
  ASSUME TypeOK, JobLocks, Settled, NEW p \in Procs, Proceed(p)
  PROVE  /\ on[p] \in Pairs
         /\ \/ UNCHANGED <<tables, workers, channel>>
            \/ TextDone(p) /\ Settles(p, on[p], "published", "success")
            \/ Settles(p, on[p], "failed", "failed")
            \/ Continues(p, on[p])
<1> DEFINE pr == on[p]
<1>0. /\ at[p] # "idle" /\ pr \in Pairs
      /\ gen \in [Posts -> Cells(GenStatus)] /\ raw \in [Raws -> Cells(RawStatus)]
      /\ job \in [Pairs -> Cells(Job)] /\ JobOf(p, pr) \in Job
      /\ "published" \in RawStatus /\ "failed" \in RawStatus
  BY JobOfType DEF Proceed, RestoreMedia, Deliver, Acknowledge, SendFails, AnswerLost, TypeOK,
                   WorkersOK, TablesOK, RawStatus
<1>1. ASSUME NEW J, CommitAll(p, gen, raw, J)
      PROVE  GenStep(p, pr, {}) /\ RawStep(p, pr) /\ Clean(p)'
  <2>1. ASSUME NEW g \in Posts PROVE CellStep(gen[g], gen'[g], p, {}) /\ gen'[g].by # p
    <3>1. gen'[g] = Release(gen[g], p)
      BY <1>0, <1>1 DEF CommitAll, Commit
    <3> QED
      BY <1>0, <3>1, ReleaseCell DEF CellStep
  <2>2. ASSUME NEW r \in Raws PROVE raw'[r].by \in {raw[r].by, NoProc} /\ raw'[r].by # p
    <3>1. raw'[r] = Release(raw[r], p)
      BY <1>0, <1>1 DEF CommitAll, Commit
    <3> QED
      BY <1>0, <3>1, ReleaseCell
  <2>3. \A g \in Posts : (IF g = pr[1] THEN {} ELSE {}) = {}
    OBVIOUS
  <2> QED
    BY <2>1, <2>2, <2>3 DEF GenStep, RawStep, Clean
<1>2. ASSUME UNCHANGED tables
      PROVE  GenStep(p, pr, {}) /\ RawStep(p, pr) /\ OtherJobs(pr) /\ job'[pr] = job[pr]
  BY <1>2 DEF tables, GenStep, RawStep, OtherJobs, CellStep
<1>3. CASE RestoreMedia(p)
  <2>1. (\E w \in {"send", "tail"} : \E s : Goto(p, w, pr, s)) /\ UNCHANGED channel
    BY <1>3 DEF RestoreMedia
  <2>2. CASE UNCHANGED tables
    BY <1>0, <1>2, <2>1, <2>2 DEF Continues
  <2>3. CASE CommitAll(p, gen, raw, job)
    <3>1. OtherJobs(pr)
      BY <1>0, <2>3, HoldsOneJob DEF CommitAll, Commit, Release, OtherJobs
    <3>2. job'[pr] = job[pr] \/ (job[pr].by = p /\ job'[pr] = Row(job[pr].cur))
      BY <1>0, <2>3 DEF CommitAll, Commit, Release
    <3> QED
      BY <1>0, <1>1, <2>1, <2>3, <3>1, <3>2 DEF Continues
  <2> QED
    BY <1>3, <2>2, <2>3 DEF RestoreMedia
<1>4. CASE Deliver(p)
  BY <1>0, <1>2, <1>4 DEF Deliver, Continues
<1>5. CASE SendFails(p) \/ AnswerLost(p)
  BY <1>0, <1>5, SettleEffect DEF SendFails, AnswerLost, MarkPublishFailed
<1>6. CASE Acknowledge(p)
  <2>0. UNCHANGED channel
    BY <1>6 DEF Acknowledge
  <2>1. CASE MarkPublished(p) /\ TextDone(p)
    BY <1>0, <2>0, <2>1, SettleEffect DEF MarkPublished
  <2>2. CASE UNCHANGED <<tables, workers>>
    BY <1>0, <2>0, <2>2
  <2>3. ASSUME at[p] = "ack", layout[p] = "split", Free(job[pr], p),
               CommitAll(p, gen, raw, [job EXCEPT ![pr] = Put(@, p, [JobOf(p, pr) EXCEPT !.sent = TRUE])]),
               Goto(p, "tail", pr, "split")
        PROVE  Continues(p, pr)
    <3> DEFINE v == [JobOf(p, pr) EXCEPT !.sent = TRUE]
    <3>1. v \in Job
      BY <1>0 DEF Job
    <3>2. job' = Commit([job EXCEPT ![pr] = Put(@, p, v)], p)
      BY <2>3 DEF CommitAll
    <3> HIDE DEF v
    <3>3. job'[pr] = Row(v)
      <4>1. job'[pr] = Release(Put(job[pr], p, v), p)
        BY <1>0, <3>2 DEF Commit
      <4> QED
        BY <1>0, <2>3, <3>1, <4>1, WrittenCell DEF Settled
    <3>4. OtherJobs(pr)
      BY <1>0, <3>2, HoldsOneJob DEF Commit, Release, OtherJobs
    <3>5. (\E w \in {"send", "tail"} : \E s : Goto(p, w, pr, s)) /\ UNCHANGED channel
      BY <2>0, <2>3
    <3> QED
      BY <1>0, <1>1, <2>3, <3>3, <3>4, <3>5 DEF Continues, v
  <2> QED
    BY <1>0, <1>6, <2>1, <2>2, <2>3 DEF Acknowledge, TextDone
<1> QED
  BY <1>0, <1>3, <1>4, <1>5, <1>6 DEF Proceed

-----------------------------------------------------------------------------
(* All steps.                                                               *)

\* What is written and not committed to a post is the approval of a publication.
Approving == \A g \in Posts : gen[g].by # NoProc => gen[g].cur = "approved"

\* A post that is not committed is in the hands of the one who creates it.
Unborn == \A g \in Posts : gen[g].com = "absent" => \A t \in Targets :
  /\ job[<<g, t>>].com = NoJob /\ job[<<g, t>>].by \in {NoProc, gen[g].by}
  /\ Active(<<g, t>>) \subseteq {gen[g].by} /\ <<g, t>> \notin todo

RowInv == /\ TypeOK /\ JobLocks /\ PostLocks /\ RawLocks
          /\ Settled /\ Approving /\ Unborn

\* A call of the publisher by p.
Calls(p, pr) ==
  /\ at[p] = "idle"
  /\ \/ Rests(p, pr) /\ (Clean(p)' \/ p = Sched \/ UNCHANGED <<gen, raw>>)
     \/ Defers(p, pr)
     \/ Claims(p, pr) /\ (gen'[pr[1]].com # "absent" \/ gen'[pr[1]].by = p)
  /\ \/ /\ p \in Clicks /\ UNCHANGED run
        /\ job[pr].com.attempts < MaxAttempts \/ job[pr].com = NoJob
     \/ /\ p = Sched /\ phase # "idle" /\ phase' = phase
        /\ pr \in todo /\ todo' = todo \ {pr}

Works(p) ==
  /\ on[p] \in Pairs /\ UNCHANGED run
  /\ \/ UNCHANGED <<tables, workers, channel>>
     \/ TextDone(p) /\ Settles(p, on[p], "published", "success")
     \/ Settles(p, on[p], "failed", "failed")
     \/ Continues(p, on[p])

\* The operator's forms, the clock, and the queries of the scheduler.
Elsewhere ==
  /\ \A g \in Posts : \/ gen'[g] = gen[g]
                      \/ /\ gen[g].by = NoProc /\ gen[g].com # "absent"
                         /\ gen'[g] \in {Row("approved"), Row("rejected")}
  /\ \A r \in Raws : raw'[r].by \in {raw[r].by, NoProc}
  /\ UNCHANGED <<job, workers, channel>>
  /\ UNCHANGED run \/ StartRetries \/ StartScheduled

\* A coroutine of a request that waits for nothing holds no row.
LEMMA IdleIsClean ==
  ASSUME RowInv, NEW p \in Clicks, at[p] = "idle" PROVE Clean(p)
BY PublishingAssumption DEF RowInv, PostLocks, RawLocks, Clean, Active, Procs

\* The routes.
LEMMA RouteCalls ==
  ASSUME RowInv, NEW p \in Clicks, NEW pr \in Pairs, Click(p, pr) \/ PublishRaw(p, pr)
  PROVE  Calls(p, pr)
<1> DEFINE g == pr[1]
           r == RawOf[g]
<1>0. /\ p \in Procs /\ g \in Posts /\ r \in Raws /\ pr[2] \in Targets /\ pr = <<g, pr[2]>>
      /\ TypeOK /\ JobLocks /\ Settled /\ Clean(p) /\ at[p] = "idle"
      /\ UNCHANGED channel /\ UNCHANGED run
      /\ gen \in [Posts -> Cells(GenStatus)] /\ job \in [Pairs -> Cells(Job)]
  <2>1. p \in Procs /\ g \in Posts /\ pr[2] \in Targets /\ pr = <<g, pr[2]>>
    BY DEF Procs, Pairs
  <2>2. r \in Raws
    BY <2>1, PublishingAssumption
  <2>3. at[p] = "idle" /\ UNCHANGED channel /\ UNCHANGED run
    BY DEF Click, PublishRaw, NoSchedule
  <2>4. Clean(p)
    BY <2>3, IdleIsClean
  <2>5. gen \in [Posts -> Cells(GenStatus)] /\ job \in [Pairs -> Cells(Job)]
    BY DEF RowInv, TypeOK, TablesOK
  <2> QED
    BY <2>1, <2>2, <2>3, <2>4, <2>5 DEF RowInv
<1>1. CASE Click(p, pr)
  <2>1. gen[g].com # "absent" /\ job[pr].com.attempts < MaxAttempts
    BY <1>0, <1>1 DEF Click, View, Clean, Bounded
  <2>2. Publish(p, pr, gen, raw, FALSE)
    BY <1>1 DEF Click
  <2>3. \/ Rests(p, pr) /\ (Clean(p)' \/ UNCHANGED <<gen, raw>>)
        \/ Defers(p, pr)
        \/ Claims(p, pr) /\ gen' = gen
    BY <1>0, <2>2, NothingPrepared, PublishEffect
  <2> QED
    BY <1>0, <2>1, <2>3 DEF Calls
<1>2. CASE PublishRaw(p, pr)
  <2> DEFINE G == [gen EXCEPT ![g] = Put(@, p, "approved")]
             R == [raw EXCEPT ![r] = Put(@, p, "generated")]
  <2>1. gen[g] = Row("absent")
    BY <1>2 DEF PublishRaw
  <2>2. gen[g].by = NoProc /\ gen[g].com = "absent"
    BY <2>1 DEF Row
  <2>3. job[pr].com = NoJob /\ job[pr].by = NoProc /\ Free(gen[g], p) /\ Free(job[pr], p)
    BY <1>0, <2>2 DEF RowInv, Unborn, Free
  <2>4. CASE Free(raw[r], p)
    <3>0. View(gen[g], p) = "absent"
      BY <2>1 DEF View, Row
    <3>1. G[g].by = p
      <4>1. G[g] = [gen[g] EXCEPT !.cur = "approved", !.by = p]
        BY <1>0, <3>0 DEF Put
      <4>2. gen[g] \in Cells(GenStatus)
        BY <1>0
      <4> HIDE DEF G
      <4> QED
        BY <4>1, <4>2 DEF Cells
    <3>2. G[g].by = p /\ Free(G[g], p)
      BY <3>1 DEF Free
    <3>3. Prepared(p, pr, G, R)
      BY <1>0, <2>3, <2>4, BothPrepared
    <3>4. Publish(p, pr, G, R, TRUE)
      BY <1>2, <2>4 DEF PublishRaw
    <3> HIDE DEF G, R
    <3>5. \/ Rests(p, pr) /\ Clean(p)'
          \/ Defers(p, pr)
          \/ Claims(p, pr) /\ gen' = G
      BY <1>0, <2>3, <3>2, <3>3, <3>4, PublishEffect
    <3> QED
      BY <1>0, <2>3, <3>2, <3>5 DEF Calls
  <2>5. CASE ~Free(raw[r], p)
    <3>1. UNCHANGED <<tables, workers, channel>>
      BY <1>0, <1>2, <2>5 DEF PublishRaw
    <3>2. Rests(p, pr)
      BY <3>1 DEF Rests, GenStep, RawStep, CellStep, tables
    <3> QED
      BY <1>0, <2>3, <3>1, <3>2 DEF Calls, tables
  <2> QED
    BY <2>4, <2>5
<1> QED
  BY <1>1, <1>2

\* The loops of the scheduler's pass.
LEMMA PassCalls ==
  ASSUME RowInv, NEW pr \in Pairs, RetryFailedJob(pr) \/ ProcessScheduledJob(pr)
  PROVE  Calls(Sched, pr)
<1> DEFINE g == pr[1]
           r == RawOf[g]
           G == [gen EXCEPT ![g] = Put(@, Sched, "approved")]
           R == [raw EXCEPT ![r] = Put(@, Sched, "generated")]
<1>1. /\ phase # "idle" /\ phase' = phase /\ pr \in todo /\ todo' = todo \ {pr}
      /\ at[Sched] = "idle" /\ UNCHANGED channel
  BY DEF RetryFailedJob, ProcessScheduledJob
<1>2. /\ Sched \in Procs /\ g \in Posts /\ pr[2] \in Targets /\ pr = <<g, pr[2]>>
      /\ gen \in [Posts -> Cells(GenStatus)]
  BY DEF Procs, Pairs, RowInv, TypeOK, TablesOK
<1>3. gen[g].com # "absent"
  BY <1>1, <1>2 DEF RowInv, Unborn
<1>4. ASSUME UNCHANGED <<tables, workers>> PROVE Calls(Sched, pr)
  <2>1. Rests(Sched, pr)
    BY <1>1, <1>4 DEF Rests, GenStep, RawStep, CellStep, tables
  <2> QED
    BY <1>1, <1>4, <2>1 DEF Calls, tables
<1>5. ASSUME NEW H, NEW Q, Prepared(Sched, pr, H, Q), Publish(Sched, pr, H, Q, FALSE)
      PROVE  Calls(Sched, pr)
  <2>1. Rests(Sched, pr) \/ Defers(Sched, pr) \/ (Claims(Sched, pr) /\ gen' = H)
    BY <1>1, <1>2, <1>5, PublishEffect DEF RowInv
  <2>2. H[g].com = gen[g].com
    BY <1>2, <1>5 DEF Prepared
  <2> QED
    BY <1>1, <1>3, <2>1, <2>2 DEF Calls
<1>6. CASE RetryFailedJob(pr)
  <2>1. CASE Free(gen[g], Sched) /\ Free(raw[r], Sched) /\ View(gen[g], Sched) # "published"
    <3>1. Prepared(Sched, pr, G, R)
      BY <1>2, <2>1, BothPrepared DEF RowInv
    <3>2. Publish(Sched, pr, G, R, FALSE)
      BY <1>6, <2>1 DEF RetryFailedJob
    <3> HIDE DEF G, R
    <3> QED
      BY <1>5, <3>1, <3>2
  <2> QED
    BY <1>4, <1>6, <2>1 DEF RetryFailedJob
<1>7. CASE ProcessScheduledJob(pr)
  <2>1. CASE Publish(Sched, pr, G, raw, FALSE) /\ Free(gen[g], Sched)
    <3>1. Prepared(Sched, pr, G, raw)
      BY <1>2, <2>1, PostPrepared DEF RowInv
    <3> HIDE DEF G
    <3> QED
      BY <1>5, <2>1, <3>1
  <2>2. CASE Publish(Sched, pr, G, raw, FALSE) /\ View(gen[g], Sched) = "approved"
    <3>1. G = gen
      BY <1>2, <2>2 DEF Put
    <3>2. Prepared(Sched, pr, gen, raw)
      BY NothingPrepared DEF RowInv
    <3> HIDE DEF G
    <3> QED
      BY <1>5, <2>2, <3>1, <3>2
  <2> QED
    BY <1>4, <1>7, <2>1, <2>2 DEF ProcessScheduledJob
<1> QED
  BY <1>6, <1>7

\* Every step is one of these.
LEMMA StepCases ==
  ASSUME RowInv, [Next]_vars
  PROVE  \/ (\E p \in Procs, pr \in Pairs : Calls(p, pr)) /\ UNCHANGED restarts
         \/ (\E p \in Procs : Works(p)) /\ UNCHANGED restarts
         \/ Elsewhere /\ UNCHANGED restarts
         \/ EndRun
         \/ Restart
<1>0. Sched \in Procs /\ Clicks \subseteq Procs
  BY DEF Procs
<1>1. ASSUME NEW p \in Procs, Proceed(p) PROVE Works(p) /\ UNCHANGED restarts
  <2>1. UNCHANGED run /\ UNCHANGED restarts
    BY <1>1 DEF Proceed, RestoreMedia, Deliver, Acknowledge, SendFails, AnswerLost
  <2> QED
    BY <1>1, <2>1, ProceedEffect DEF Works, RowInv
<1>2. CASE Scheduler
  <2>1. ASSUME NEW pr \in Pairs, RetryFailedJob(pr) \/ ProcessScheduledJob(pr)
        PROVE  Calls(Sched, pr) /\ UNCHANGED restarts
    BY <2>1, PassCalls DEF RetryFailedJob, ProcessScheduledJob
  <2>2. CASE StartRetries \/ StartScheduled
    <3>1. UNCHANGED <<tables, workers, channel, restarts>>
      BY <2>2 DEF StartRetries, StartScheduled
    <3> QED
      BY <2>2, <3>1 DEF Elsewhere, tables
  <2> QED
    BY <1>0, <1>2, <2>1, <2>2 DEF Scheduler
<1>3. CASE Requests
  <2>1. ASSUME NEW p \in Clicks, NEW pr \in Pairs, Click(p, pr) \/ PublishRaw(p, pr)
        PROVE  Calls(p, pr) /\ UNCHANGED restarts
    BY <2>1, RouteCalls DEF Click, PublishRaw, NoSchedule
  <2>2. ASSUME NEW g \in Posts, SaveGenerated(g) \/ RejectGenerated(g)
        PROVE  Elsewhere /\ UNCHANGED restarts
    <3>0. gen \in [Posts -> Cells(GenStatus)] /\ raw \in [Raws -> Cells(RawStatus)]
      BY DEF RowInv, TypeOK, TablesOK
    <3>1. UNCHANGED <<job, workers, channel, run, restarts>>
      BY <2>2 DEF SaveGenerated, RejectGenerated, Others
    <3>2. /\ gen[g].by = NoProc /\ gen[g].com # "absent"
          /\ gen' = [gen EXCEPT ![g] = Row("approved")] \/ gen' = [gen EXCEPT ![g] = Row("rejected")]
          /\ raw' = raw \/ raw' = [raw EXCEPT ![RawOf[g]] = Row("rejected")]
      BY <2>2 DEF SaveGenerated, RejectGenerated
    <3>3. \A r \in Raws : raw'[r].by \in {raw[r].by, NoProc}
      BY <3>0, <3>2 DEF Row
    <3>4. \A h \in Posts : \/ gen'[h] = gen[h]
                           \/ h = g /\ gen'[h] \in {Row("approved"), Row("rejected")}
      BY <3>0, <3>2
    <3> QED
      BY <3>1, <3>2, <3>3, <3>4 DEF Elsewhere
  <2>3. ASSUME (\E r \in Raws : RejectPost(r)) \/ \E rs \in (SUBSET Raws) \ {{}} : BulkReject(rs)
        PROVE  Elsewhere /\ UNCHANGED restarts
    <3>0. raw \in [Raws -> Cells(RawStatus)]
      BY DEF RowInv, TypeOK, TablesOK
    <3>1. UNCHANGED <<gen, job, workers, channel, run, restarts>>
      BY <2>3 DEF RejectPost, BulkReject, Others
    <3>2. \A r \in Raws : raw'[r].by \in {raw[r].by, NoProc}
      BY <2>3, <3>0 DEF RejectPost, BulkReject, Row
    <3> QED
      BY <3>1, <3>2 DEF Elsewhere
  <2> QED
    BY <1>0, <1>3, <2>1, <2>2, <2>3 DEF Requests
<1>4. CASE Time \/ UNCHANGED vars
  <2>1. UNCHANGED <<tables, workers, channel, run, restarts>>
    BY <1>4 DEF Time, WindowOpens, WindowCloses, vars
  <2> QED
    BY <2>1 DEF Elsewhere, tables
<1> QED
  BY <1>1, <1>2, <1>3, <1>4 DEF Next

-----------------------------------------------------------------------------
(* The locks of posts and raw posts.                                        *)

\* Where a step leaves the coroutines: it moves p alone.
LEMMA OthersStay ==
  ASSUME WorkersOK, NEW p \in Procs, NEW x \in Procs, x # p, NEW q \in Pairs,
         UNCHANGED workers \/ \E w, r, s : Goto(p, w, r, s)
  PROVE  /\ x \in Active(q)' <=> x \in Active(q)
         /\ at'[x] = at[x] /\ on'[x] = on[x] /\ layout'[x] = layout[x]
BY DEF workers, WorkersOK, Goto, Active

\* A coroutine that works goes on with its pair, or is done with it.
LEMMA WorkerMoves ==
  ASSUME TypeOK, NEW p \in Procs, Works(p)
  PROVE  /\ at[p] # "idle" \/ UNCHANGED workers
         /\ UNCHANGED workers \/ \E w, r, s : Goto(p, w, r, s)
         /\ \/ \A q \in Pairs : p \in Active(q)' <=> p \in Active(q)
            \/ Clean(p)' /\ \E gs, js : Settles(p, on[p], gs, js)
<1>0. WorkersOK
  BY DEF TypeOK
<1>1. CASE UNCHANGED workers
  BY <1>1 DEF workers, Active
<1>2. CASE \E gs, js : Settles(p, on[p], gs, js)
  BY <1>2 DEF Settles
<1>3. CASE Continues(p, on[p])
  <2>1. at[p] # "idle" /\ \E w \in {"send", "tail", "ack", "tailack"} : \E s : Goto(p, w, on[p], s)
    BY <1>3 DEF Continues, Deliver
  <2>2. PICK w \in {"send", "tail", "ack", "tailack"} : \E s : Goto(p, w, on[p], s)
    BY <2>1
  <2>3. at'[p] # "idle" /\ on'[p] = on[p]
    BY <1>0, <2>2 DEF Goto, WorkersOK
  <2>4. \A q \in Pairs : p \in Active(q)' <=> p \in Active(q)
    BY <2>1, <2>3 DEF Active
  <2> QED
    BY <2>1, <2>2, <2>4
<1> QED
  BY <1>1, <1>2, <1>3 DEF Works

\* What the row of a post shows to others and to its holder.
LEMMA CellKeeps ==
  ASSUME NEW c, NEW d, NEW p, p # NoProc, NEW V, CellStep(c, d, p, V),
         V \subseteq {"approved"} \/ d.by # p,
         c.by = NoProc => c.cur = c.com, c.by # NoProc => c.cur = "approved"
  PROVE  /\ d.by = NoProc => d.cur = d.com
         /\ d.by # NoProc => d.cur = "approved"
         /\ d.by \in {c.by, NoProc, p}
<1>1. CASE d = c
  BY <1>1
<1>2. CASE \E v : d = Row(v)
  BY <1>2 DEF Row
<1>3. CASE \E v \in V : d.com = c.com /\ d.cur = v /\ d.by = p
  BY <1>3
<1> QED
  BY <1>1, <1>2, <1>3 DEF CellStep

\* Every step leaves the posts in order.
LEMMA PostsKeep ==
  ASSUME Settled, Approving, NEW p \in Procs, NEW pr, NEW V, GenStep(p, pr, V),
         V \subseteq {"approved"} \/ Clean(p)'
  PROVE  \A g \in Posts : /\ gen'[g].by = NoProc => gen'[g].cur = gen'[g].com
                          /\ gen'[g].by # NoProc => gen'[g].cur = "approved"
                          /\ gen'[g].by \in {gen[g].by, NoProc, p}
<1> SUFFICES ASSUME NEW g \in Posts
             PROVE  /\ gen'[g].by = NoProc => gen'[g].cur = gen'[g].com
                    /\ gen'[g].by # NoProc => gen'[g].cur = "approved"
                    /\ gen'[g].by \in {gen[g].by, NoProc, p}
  OBVIOUS
<1> DEFINE W == IF g = pr[1] THEN V ELSE {}
<1>1. CellStep(gen[g], gen'[g], p, W)
  BY DEF GenStep
<1>2. W \subseteq {"approved"} \/ gen'[g].by # p
  BY DEF Clean
<1>3. /\ p # NoProc /\ (gen[g].by = NoProc => gen[g].cur = gen[g].com)
      /\ gen[g].by # NoProc => gen[g].cur = "approved"
  BY PublishingAssumption DEF Settled, Approving
<1> HIDE DEF W
<1> QED
  BY <1>1, <1>2, <1>3, CellKeeps

LEMMA SettledStep ==
  ASSUME RowInv, [Next]_vars
  PROVE  Settled' /\ Approving'
<1>0. gen \in [Posts -> Cells(GenStatus)] /\ job \in [Pairs -> Cells(Job)]
      /\ Settled /\ Approving /\ JobLocks /\ TypeOK /\ Sched \in Procs
  BY DEF RowInv, TypeOK, TablesOK, Procs
<1>1. ASSUME NEW p \in Procs, NEW pr \in Pairs, Calls(p, pr) PROVE Settled' /\ Approving'
  <2>1. GenStep(p, pr, {"approved"}) \/ (GenStep(p, pr, {"scheduled"}) /\ Clean(p)')
    BY <1>1 DEF Calls, Rests, Defers, Claims
  <2>2. \A g \in Posts : /\ gen'[g].by = NoProc => gen'[g].cur = gen'[g].com
                         /\ gen'[g].by # NoProc => gen'[g].cur = "approved"
    BY <1>0, <2>1, PostsKeep
  <2>3. \A q \in Pairs : job'[q].by = NoProc => job'[q].cur = job'[q].com
    BY <1>0, <1>1, PublishingAssumption DEF Calls, Rests, Defers, Claims, OtherJobs, Settled, Row
  <2> QED
    BY <2>2, <2>3 DEF Settled, Approving
<1>2. ASSUME NEW p \in Procs, Works(p) PROVE Settled' /\ Approving'
  <2>0. CASE UNCHANGED tables
    BY <1>0, <2>0 DEF tables, Settled, Approving
  <2>1. CASE \/ \E gs, js : Settles(p, on[p], gs, js)
             \/ Continues(p, on[p])
    <3>1. GenStep(p, on[p], {}) \/ (Clean(p)' /\ \E gs : GenStep(p, on[p], {gs}))
      BY <2>1 DEF Settles, Continues
    <3>2. \A g \in Posts : /\ gen'[g].by = NoProc => gen'[g].cur = gen'[g].com
                           /\ gen'[g].by # NoProc => gen'[g].cur = "approved"
      BY <1>0, <3>1, PostsKeep
    <3>3. \A q \in Pairs : job'[q].by = NoProc => job'[q].cur = job'[q].com
      <4>1. OtherJobs(on[p]) /\ (job'[on[p]] = job[on[p]] \/ \E v : job'[on[p]] = Row(v))
        BY <2>1 DEF Settles, Continues
      <4>2. \A v : Row(v).cur = Row(v).com
        BY DEF Row
      <4> QED
        BY <1>0, <4>1, <4>2 DEF OtherJobs, Settled
    <3> QED
      BY <3>2, <3>3 DEF Settled, Approving
  <2> QED
    BY <1>2, <2>0, <2>1 DEF Works
<1>3. CASE Elsewhere
  BY <1>0, <1>3 DEF Elsewhere, Settled, Approving, Row
<1>4. CASE EndRun
  <2>1. job' = job
    BY <1>0, <1>4, PassEnds
  <2>2. \A g \in Posts : gen'[g] \in {Release(gen[g], Sched), Withdraw(gen[g], Sched)}
    BY <1>0, <1>4, PassEnds
  <2>3. ASSUME NEW g \in Posts
        PROVE  /\ gen'[g].by = NoProc => gen'[g].cur = gen'[g].com
               /\ gen'[g].by # NoProc => gen'[g].cur = "approved"
    <3>1. gen'[g] = Row(gen[g].cur) \/ gen'[g] = Row(gen[g].com) \/ gen'[g] = gen[g]
      BY <2>2 DEF Release, Withdraw
    <3> QED
      BY <1>0, <3>1 DEF Row, Settled, Approving
  <2> QED
    BY <1>0, <2>1, <2>3 DEF Settled, Approving
<1>5. CASE Restart
  BY <1>0, <1>5 DEF Restart, Rollback, Row, Settled, Approving
<1> QED
  BY <1>1, <1>2, <1>3, <1>4, <1>5, StepCases

\* A post that is not committed after a step was not before it.
LEMMA AbsentBefore ==
  ASSUME Approving, NEW p \in Procs, NEW pr, NEW V, "absent" \notin V, GenStep(p, pr, V),
         NEW g \in Posts, gen'[g].com = "absent"
  PROVE  /\ gen[g].com = "absent"
         /\ gen'[g].by = gen[g].by \/ (g = pr[1] /\ gen[g].by = NoProc /\ gen'[g].by = p)
<1> DEFINE W == IF g = pr[1] THEN V ELSE {}
<1>1. CellStep(gen[g], gen'[g], p, W)
  BY DEF GenStep
<1>2. gen[g].by = p => gen[g].cur = "approved"
  BY PublishingAssumption DEF Approving
<1>3. CASE gen'[g] = gen[g]
  BY <1>3
<1>4. CASE gen[g].by = p /\ gen'[g] = Row(gen[g].cur)
  BY <1>2, <1>4 DEF Row
<1>5. ASSUME NEW v \in W, gen[g].by \in {NoProc, p},
             gen'[g] = Row(v) \/ (gen'[g].com = gen[g].com /\ gen'[g].by = p)
      PROVE  /\ gen[g].com = "absent"
             /\ gen'[g].by = gen[g].by \/ (g = pr[1] /\ gen[g].by = NoProc /\ gen'[g].by = p)
  BY <1>5 DEF Row
<1> QED
  BY <1>1, <1>3, <1>4, <1>5 DEF CellStep

LEMMA UnbornStep ==
  ASSUME RowInv, [Next]_vars
  PROVE  Unborn'
<1> SUFFICES ASSUME NEW g \in Posts, gen'[g].com = "absent", NEW t \in Targets
             PROVE  /\ job'[<<g, t>>].com = NoJob /\ job'[<<g, t>>].by \in {NoProc, gen'[g].by}
                    /\ Active(<<g, t>>)' \subseteq {gen'[g].by} /\ <<g, t>> \notin todo'
  BY DEF Unborn
<1> DEFINE q == <<g, t>>
           Goal == /\ job'[q].com = NoJob /\ job'[q].by \in {NoProc, gen'[g].by}
                   /\ Active(q)' \subseteq {gen'[g].by} /\ q \notin todo'
<1>0. /\ gen \in [Posts -> Cells(GenStatus)] /\ job \in [Pairs -> Cells(Job)] /\ q \in Pairs /\ q[1] = g
      /\ Approving /\ JobLocks /\ TypeOK /\ WorkersOK /\ Sched \in Procs /\ NoProc \notin Procs
      /\ Active(q) \subseteq Procs /\ Active(q)' \subseteq Procs
  BY PublishingAssumption DEF RowInv, TypeOK, TablesOK, Procs, Pairs, Active
<1>a. gen[g].com = "absent" => /\ job[q].com = NoJob /\ job[q].by \in {NoProc, gen[g].by}
                               /\ Active(q) \subseteq {gen[g].by} /\ q \notin todo
  BY DEF RowInv, Unborn
<1>1. ASSUME NEW p \in Procs, NEW pr \in Pairs, Calls(p, pr) PROVE Goal
  <2>1. \/ GenStep(p, pr, {"approved"})
        \/ GenStep(p, pr, {"scheduled"}) /\ gen'[pr[1]].com = "scheduled"
    BY <1>1 DEF Calls, Rests, Defers, Claims
  <2>2. /\ gen[g].com = "absent"
        /\ gen'[g].by = gen[g].by \/ (g = pr[1] /\ gen[g].by = NoProc /\ gen'[g].by = p)
    BY <1>0, <2>1, AbsentBefore
  <2>3. q \notin todo'
    BY <1>1, <1>a, <2>2 DEF Calls, run
  <2>4. CASE job'[q] = job[q] /\ UNCHANGED workers
    <3>1. Active(q)' = Active(q)
      BY <2>4 DEF workers, Active
    <3> QED
      BY <1>0, <1>a, <2>2, <2>3, <2>4, <3>1
  <2>5. CASE Claims(p, pr) /\ (gen'[pr[1]].com # "absent" \/ gen'[pr[1]].by = p)
    <3>1. UNCHANGED workers \/ \E w, r, s : Goto(p, w, r, s)
      BY <2>5 DEF Claims
    <3>2. \A x \in Procs \ {p} : x \in Active(q)' <=> x \in Active(q)
      BY <1>0, <3>1, OthersStay
    <3>3. p \in Active(q)' => q = pr
      BY <1>0, <2>5 DEF Claims, Goto, WorkersOK, Active
    <3>4. CASE q = pr
      <4>1. gen'[g].by = p /\ gen[g].by \in {NoProc, p}
        BY <1>0, <2>2, <2>5, <3>4
      <4>2. job'[q].com = NoJob /\ job'[q].by \in {NoProc, p}
        BY <1>a, <2>2, <2>5, <3>4, <4>1 DEF Claims
      <4>3. Active(q)' \subseteq {p}
        BY <1>0, <1>a, <2>2, <3>2, <4>1
      <4> QED
        BY <2>3, <4>1, <4>2, <4>3
    <3>5. CASE q # pr
      <4>1. job'[q] = job[q]
        BY <1>0, <2>5, <3>5 DEF Claims, OtherJobs
      <4>2. Active(q)' \subseteq Active(q)
        BY <1>0, <3>2, <3>3, <3>5
      <4> QED
        BY <1>0, <1>a, <2>2, <2>3, <4>1, <4>2
    <3> QED
      BY <3>4, <3>5
  <2> QED
    BY <1>0, <1>1, <2>4, <2>5 DEF Calls, Rests, Defers, OtherJobs
<1>2. ASSUME NEW p \in Procs, Works(p) PROVE Goal
  <2>0. on[p] \in Pairs /\ todo' = todo
    BY <1>2 DEF Works, run
  <2>1. CASE UNCHANGED tables /\ UNCHANGED workers
    <3>1. Active(q)' = Active(q) /\ gen' = gen /\ job' = job
      BY <2>1 DEF workers, Active, tables
    <3> QED
      BY <1>a, <2>0, <3>1
  <2>2. ASSUME NEW gs \in {"published", "failed"}, NEW js, Settles(p, on[p], gs, js) PROVE Goal
    <3>1. q # on[p]
      BY <1>0, <2>2 DEF Settles
    <3>2. gen[g].com = "absent" /\ gen'[g].by = gen[g].by
      <4>1. GenStep(p, on[p], {gs}) /\ Clean(p)'
        BY <2>2 DEF Settles
      <4> QED
        BY <1>0, <4>1, AbsentBefore DEF Clean
    <3>3. job'[q] = job[q]
      BY <1>0, <2>2, <3>1 DEF Settles, OtherJobs
    <3>4. Active(q)' \subseteq Active(q)
      <4>1. \A x \in Procs \ {p} : x \in Active(q)' <=> x \in Active(q)
        BY <1>0, <2>2, OthersStay DEF Settles
      <4>2. p \notin Active(q)'
        BY <1>0, <2>2 DEF Settles, Goto, WorkersOK, Active
      <4> QED
        BY <1>0, <4>1, <4>2
    <3> QED
      BY <1>a, <2>0, <3>2, <3>3, <3>4
  <2>3. CASE Continues(p, on[p])
    <3>1. GenStep(p, on[p], {}) /\ at[p] # "idle"
      BY <2>3 DEF Continues
    <3>2. /\ gen[g].com = "absent"
          /\ gen'[g].by = gen[g].by \/ (g = on[p][1] /\ gen[g].by = NoProc /\ gen'[g].by = p)
      BY <1>0, <3>1, AbsentBefore
    <3>3. q = on[p] => gen[g].by = p /\ gen'[g].by = p
      <4>1. q = on[p] => p \in Active(q)
        BY <3>1 DEF Active
      <4> QED
        BY <1>0, <1>a, <3>2, <4>1
    <3>4. job'[q] = job[q]
      BY <1>0, <2>3, <3>3 DEF Continues, OtherJobs, Clean
    <3>5. Active(q)' = Active(q)
      <4>1. \A x \in Procs \ {p} : x \in Active(q)' <=> x \in Active(q)
        BY <1>0, <1>2, WorkerMoves, OthersStay
      <4>2. p \in Active(q)' <=> p \in Active(q)
        <5>1. PICK w \in {"send", "tail", "ack", "tailack"} : \E s : Goto(p, w, on[p], s)
          BY <2>3 DEF Continues, Deliver
        <5> QED
          BY <1>0, <3>1, <5>1 DEF Goto, WorkersOK, Active
      <4> QED
        BY <1>0, <4>1, <4>2
    <3>6. gen'[g].by = gen[g].by
      <4>1. g = on[p][1] /\ gen[g].by = NoProc => FALSE \/ gen'[g].by = NoProc
        BY <3>1, PublishingAssumption DEF GenStep, CellStep
      <4> QED
        BY <3>2, <4>1
    <3> QED
      BY <1>a, <2>0, <3>2, <3>4, <3>5, <3>6
  <2> QED
    BY <1>2, <2>1, <2>2, <2>3 DEF Works
<1>3. CASE Elsewhere
  <2>1. gen'[g] = gen[g]
    BY <1>3 DEF Elsewhere, Row
  <2>2. job' = job /\ Active(q)' = Active(q)
    BY <1>3 DEF Elsewhere, workers, Active
  <2>3. JobOf(Sched, q).status \in {"none", "running"}
    BY <1>0, <1>a, <2>1 DEF JobOf, View, JobLocks, NoJob
  <2>4. q \notin todo'
    BY <1>3, <1>a, <2>1, <2>3 DEF Elsewhere, run, StartRetries, StartScheduled, Retryable
  <2> QED
    BY <1>a, <2>1, <2>2, <2>4
<1>4. CASE EndRun
  <2>1. job' = job
    BY <1>0, <1>4, PassEnds
  <2>2. gen'[g] \in {Release(gen[g], Sched), Withdraw(gen[g], Sched)}
    BY <1>0, <1>4, PassEnds
  <2>3. Active(q)' = Active(q) /\ todo' = todo
    BY <1>4 DEF EndRun, workers, Active
  <2>4. CASE gen'[g] = gen[g]
    BY <1>a, <2>1, <2>3, <2>4
  <2>a. gen[g].com = "absent"
    <3>1. gen[g].by = Sched => gen[g].cur = "approved"
      BY <1>0 DEF Approving
    <3> QED
      BY <2>2, <3>1 DEF Release, Withdraw, Row
  <2>5. CASE gen[g].by = Sched
    <3>1. job[q].by # Sched
      BY <1>0, <1>4, IdleHoldsNoJob DEF EndRun
    <3>2. Sched \notin Active(q)
      BY <1>4 DEF EndRun, Active
    <3> QED
      BY <1>a, <2>a, <2>1, <2>3, <2>5, <3>1, <3>2
  <2> QED
    BY <2>2, <2>4, <2>5 DEF Release, Withdraw
<1>5. CASE Restart
  <2>1. gen'[g] = Row(gen[g].com) /\ job'[q] = Row(job[q].com)
    BY <1>0, <1>5 DEF Restart, Rollback
  <2>2. Active(q)' = {} /\ todo' = {}
    BY <1>5 DEF Restart, Active
  <2> QED
    BY <1>a, <2>1, <2>2 DEF Row
<1> QED
  BY <1>1, <1>2, <1>3, <1>4, <1>5, StepCases

PostOwner(g, x) == (x = Sched /\ phase # "idle") \/ \E t \in Targets : x \in Active(<<g, t>>)
RawOwner(r, x) == (x = Sched /\ phase # "idle") \/ \E pr \in Pairs : RawOf[pr[1]] = r /\ x \in Active(pr)

\* After the step x owns what it holds: it goes on, and what it holds it held before, or
\* is part of its pair.
Owns(x) ==
  \/ Clean(x)'
  \/ /\ \A g \in Posts : gen'[g].by = x => PostOwner(g, x)'
     /\ \A r \in Raws : raw'[r].by = x => RawOwner(r, x)'

\* x goes on.
Stays(x) == /\ phase # "idle" => phase' # "idle"
            /\ \A q \in Pairs : x \in Active(q) => x \in Active(q)'

LEMMA StayingOwns ==
  ASSUME PostLocks, RawLocks, NEW x \in Procs, Stays(x),
         \A g \in Posts : gen'[g].by = x => gen[g].by = x \/ PostOwner(g, x)',
         \A r \in Raws : raw'[r].by = x => raw[r].by = x \/ RawOwner(r, x)'
  PROVE  Owns(x)
<1>1. ASSUME NEW g \in Posts, gen[g].by = x PROVE PostOwner(g, x)'
  <2>1. (x = Sched /\ phase # "idle") \/ \E t \in Targets : x \in Active(<<g, t>>)
    BY <1>1, PublishingAssumption DEF PostLocks
  <2> QED
    BY <2>1 DEF PostOwner, Stays, Pairs
<1>2. ASSUME NEW r \in Raws, raw[r].by = x PROVE RawOwner(r, x)'
  <2>1. (x = Sched /\ phase # "idle") \/ \E pr \in Pairs : RawOf[pr[1]] = r /\ x \in Active(pr)
    BY <1>2, PublishingAssumption DEF RawLocks
  <2> QED
    BY <2>1 DEF RawOwner, Stays
<1> QED
  BY <1>1, <1>2 DEF Owns

\* Only p gains rows, and only those of its pair.
LEMMA Gains ==
  ASSUME NEW p \in Procs, NEW x \in Procs, NEW pr, NEW V, GenStep(p, pr, V), RawStep(p, pr)
  PROVE  /\ \A g \in Posts : gen'[g].by = x => gen[g].by = x \/ (x = p /\ g = pr[1])
         /\ \A r \in Raws : raw'[r].by = x => raw[r].by = x \/ (x = p /\ r = RawOf[pr[1]])
<1>1. ASSUME NEW g \in Posts, gen'[g].by = x PROVE gen[g].by = x \/ (x = p /\ g = pr[1])
  <2> DEFINE W == IF g = pr[1] THEN V ELSE {}
  <2>1. CellStep(gen[g], gen'[g], p, W)
    BY DEF GenStep
  <2>2. \A v : Row(v).by = NoProc
    BY DEF Row
  <2>3. gen'[g] = gen[g] \/ (gen'[g].by = p /\ W # {})
    BY <1>1, <2>1, <2>2, PublishingAssumption DEF CellStep
  <2> QED
    BY <1>1, <2>3
<1> QED
  BY <1>1, PublishingAssumption DEF RawStep

LEMMA OwnersStep ==
  ASSUME RowInv, [Next]_vars, NEW x \in Procs
  PROVE  Owns(x)
<1>0. /\ gen \in [Posts -> Cells(GenStatus)] /\ raw \in [Raws -> Cells(RawStatus)]
      /\ JobLocks /\ PostLocks /\ RawLocks /\ TypeOK /\ WorkersOK /\ Sched \in Procs
  BY DEF RowInv, TypeOK, TablesOK, Procs
<1>1. ASSUME NEW p \in Procs, NEW pr \in Pairs, Calls(p, pr) PROVE Owns(x)
  <2>0. GenStep(p, pr, {"approved"}) \/ GenStep(p, pr, {"scheduled"})
    BY <1>1 DEF Calls, Rests, Defers, Claims
  <2>1. /\ \A g \in Posts : gen'[g].by = x => gen[g].by = x \/ (x = p /\ g = pr[1])
        /\ \A r \in Raws : raw'[r].by = x => raw[r].by = x \/ (x = p /\ r = RawOf[pr[1]])
    BY <1>1, <2>0, Gains DEF Calls, Rests, Defers, Claims
  <2>2. Stays(x)
    <3>1. phase' = phase
      BY <1>1 DEF Calls, run
    <3>2. UNCHANGED workers \/ \E w, r, s : Goto(p, w, r, s)
      BY <1>1 DEF Calls, Rests, Defers, Claims
    <3>3. \A q \in Pairs : p \notin Active(q)
      BY <1>1 DEF Calls, Active
    <3>4. \A q \in Pairs : x # p => (x \in Active(q)' <=> x \in Active(q))
      BY <1>0, <3>2, OthersStay
    <3> QED
      BY <3>1, <3>3, <3>4 DEF Stays
  <2>3. CASE x # p
    BY <1>0, <2>1, <2>2, <2>3, StayingOwns
  <2>4. CASE Clean(p)' /\ x = p
    BY <2>4 DEF Owns
  <2>5. CASE UNCHANGED <<gen, raw>>
    BY <1>0, <2>2, <2>5, StayingOwns
  <2>6. CASE x = p /\ p = Sched
    <3>1. phase' # "idle"
      BY <1>1, <2>6, PublishingAssumption DEF Calls
    <3> QED
      BY <2>6, <3>1 DEF Owns, PostOwner, RawOwner
  <2>7. CASE x = p /\ Claims(p, pr)
    <3>1. p \in Active(pr)' /\ pr = <<pr[1], pr[2]>> /\ pr[2] \in Targets
      BY <1>0, <2>7 DEF Claims, Goto, WorkersOK, Active, Pairs
    <3>2. PostOwner(pr[1], x)' /\ RawOwner(RawOf[pr[1]], x)'
      <4>1. PostOwner(pr[1], x)'
        BY <2>7, <3>1 DEF PostOwner
      <4>2. RawOwner(RawOf[pr[1]], x)'
        BY <2>7, <3>1 DEF RawOwner
      <4> QED
        BY <4>1, <4>2
    <3> QED
      BY <1>0, <2>1, <2>2, <3>2, StayingOwns
  <2> QED
    BY <1>1, <2>3, <2>4, <2>5, <2>6, <2>7 DEF Calls, Defers
<1>2. ASSUME NEW p \in Procs, Works(p) PROVE Owns(x)
  <2>0. phase' = phase /\ on[p] \in Pairs
    BY <1>2 DEF Works, run
  <2>1. \A q \in Pairs : x # p => (x \in Active(q)' <=> x \in Active(q))
    BY <1>0, <1>2, WorkerMoves, OthersStay
  <2>2. CASE UNCHANGED tables /\ UNCHANGED workers
    <3>1. Stays(x)
      BY <2>0, <2>2 DEF Stays, workers, Active
    <3> QED
      BY <1>0, <2>2, <3>1, StayingOwns DEF tables
  <2>3. CASE \E gs, js : Settles(p, on[p], gs, js)
    <3>1. CASE x = p
      BY <2>3, <3>1 DEF Settles, Owns
    <3>2. CASE x # p
      <4>1. /\ \A g \in Posts : gen'[g].by = x => gen[g].by = x
            /\ \A r \in Raws : raw'[r].by = x => raw[r].by = x
        BY <2>3, <3>2, Gains DEF Settles
      <4> QED
        BY <1>0, <2>0, <2>1, <3>2, <4>1, StayingOwns DEF Stays
    <3> QED
      BY <3>1, <3>2
  <2>4. CASE Continues(p, on[p])
    <3>1. \A q \in Pairs : p \in Active(q)' <=> p \in Active(q)
      <4>1. PICK w \in {"send", "tail", "ack", "tailack"} : \E s : Goto(p, w, on[p], s)
        BY <2>4 DEF Continues, Deliver
      <4> QED
        BY <1>0, <2>4, <4>1 DEF Continues, Goto, WorkersOK, Active
    <3>2. Stays(x)
      BY <2>0, <2>1, <3>1 DEF Stays
    <3>4. \A g \in Posts : gen'[g].by = x => gen[g].by = x
      <4>1. GenStep(p, on[p], {})
        BY <2>4 DEF Continues
      <4>2. ASSUME NEW g \in Posts, gen'[g].by = x PROVE gen[g].by = x
        <5>1. CellStep(gen[g], gen'[g], p, {})
          BY <4>1 DEF GenStep
        <5>2. \A v : Row(v).by = NoProc
          BY DEF Row
        <5> QED
          BY <4>2, <5>1, <5>2, PublishingAssumption DEF CellStep
      <4> QED
        BY <4>2
    <3>5. \A r \in Raws : raw'[r].by = x => raw[r].by = x \/ RawOwner(r, x)'
      <4>0. PICK q \in Pairs : q = on[p]
        BY <2>0
      <4>1. p \in Active(q)'
        BY <2>4, <3>1, <4>0 DEF Continues, Active
      <4>2. ASSUME NEW r \in Raws, raw'[r].by = x, raw[r].by # x PROVE RawOwner(r, x)'
        <5>1. RawStep(p, q)
          BY <2>4, <4>0 DEF Continues
        <5>2. r = RawOf[q[1]] /\ x = p
          BY <4>2, <5>1, PublishingAssumption DEF RawStep
        <5> QED
          BY <4>1, <5>2 DEF RawOwner
      <4> QED
        BY <4>2
    <3> QED
      BY <1>0, <3>2, <3>4, <3>5, StayingOwns
  <2> QED
    BY <1>2, <2>2, <2>3, <2>4 DEF Works
<1>3. CASE Elsewhere
  <2>1. Stays(x)
    BY <1>3 DEF Elsewhere, Stays, run, StartRetries, StartScheduled, workers, Active
  <2>2. /\ \A g \in Posts : gen'[g].by = x => gen[g].by = x
        /\ \A r \in Raws : raw'[r].by = x => raw[r].by = x
    BY <1>3, PublishingAssumption DEF Elsewhere, Row
  <2> QED
    BY <1>0, <2>1, <2>2, StayingOwns
<1>4. CASE EndRun
  <2>1. /\ \A g \in Posts : gen'[g] \in {Release(gen[g], Sched), Withdraw(gen[g], Sched)}
                             /\ gen[g] \in Cells(GenStatus)
        /\ \A r \in Raws : raw'[r] \in {Release(raw[r], Sched), Withdraw(raw[r], Sched)}
                            /\ raw[r] \in Cells(RawStatus)
    BY <1>0, <1>4, PassEnds DEF TypeOK, TablesOK
  <2>2. /\ \A g \in Posts : gen'[g].by # Sched /\ gen'[g].by \in {gen[g].by, NoProc}
        /\ \A r \in Raws : raw'[r].by # Sched /\ raw'[r].by \in {raw[r].by, NoProc}
    <3>1. ASSUME NEW g \in Posts PROVE gen'[g].by # Sched /\ gen'[g].by \in {gen[g].by, NoProc}
      <4>1. gen'[g] = Release(gen[g], Sched) \/ gen'[g] = Withdraw(gen[g], Sched)
        BY <2>1
      <4>2. NoProc # Sched
        BY PublishingAssumption DEF Procs
      <4> QED
        BY <4>1, <4>2 DEF Release, Withdraw, Row
    <3>2. ASSUME NEW r \in Raws PROVE raw'[r].by # Sched /\ raw'[r].by \in {raw[r].by, NoProc}
      <4>1. raw'[r] = Release(raw[r], Sched) \/ raw'[r] = Withdraw(raw[r], Sched)
        BY <2>1
      <4>2. NoProc # Sched
        BY PublishingAssumption DEF Procs
      <4> QED
        BY <4>1, <4>2 DEF Release, Withdraw, Row
    <3> QED
      BY <3>1, <3>2
  <2>3. CASE x = Sched
    BY <2>2, <2>3 DEF Owns, Clean
  <2>4. CASE x # Sched
    <3>1. \A q \in Pairs : x \in Active(q)' <=> x \in Active(q)
      BY <1>4 DEF EndRun, workers, Active
    <3>2. /\ \A g \in Posts : gen'[g].by = x => gen[g].by = x
          /\ \A r \in Raws : raw'[r].by = x => raw[r].by = x
      BY <2>2, PublishingAssumption
    <3>3. ASSUME NEW g \in Posts, gen[g].by = x PROVE PostOwner(g, x)'
      <4>1. PICK t \in Targets : x \in Active(<<g, t>>)
        BY <1>0, <2>4, <3>3, PublishingAssumption DEF PostLocks
      <4> QED
        BY <3>1, <4>1 DEF PostOwner, Pairs
    <3>4. ASSUME NEW r \in Raws, raw[r].by = x PROVE RawOwner(r, x)'
      <4>1. PICK pr \in Pairs : RawOf[pr[1]] = r /\ x \in Active(pr)
        BY <1>0, <2>4, <3>4, PublishingAssumption DEF RawLocks
      <4> QED
        BY <3>1, <4>1 DEF RawOwner
    <3> QED
      BY <3>2, <3>3, <3>4 DEF Owns
  <2> QED
    BY <2>3, <2>4
<1>5. CASE Restart
  <2>1. Clean(x)'
    BY <1>0, <1>5, PublishingAssumption DEF Restart, Rollback, Row, Clean
  <2> QED
    BY <2>1 DEF Owns
<1> QED
  BY <1>1, <1>2, <1>3, <1>4, <1>5, StepCases

LEMMA RowInit == Init => RowInv
<1> SUFFICES ASSUME Init PROVE RowInv
  OBVIOUS
<1>1. TypeOK /\ JobLocks
  BY TypeInit, RefinementInit
<1>2. PostLocks /\ RawLocks /\ Settled /\ Approving
  BY DEF Init, PostLocks, RawLocks, Settled, Approving, Row
<1>3. Unborn
  BY DEF Init, Unborn, Row, NoJob, Active, Pairs
<1> QED
  BY <1>1, <1>2, <1>3 DEF RowInv

LEMMA RowStep ==
  ASSUME RowInv, [Next]_vars
  PROVE  RowInv'
<1>1. TypeOK' /\ JobLocks'
  BY TypeStep, RefinementStep DEF RowInv
<1>2. PostLocks'
  <2>1. ASSUME NEW g \in Posts, NEW x \in Procs, gen'[g].by = x
        PROVE  PostOwner(g, x)'
    BY <2>1, OwnersStep DEF Owns, Clean
  <2>2. \A g \in Posts : gen'[g].by \in Procs \cup {NoProc}
    BY <1>1 DEF TypeOK, TablesOK, Cells
  <2> QED
    BY <2>1, <2>2 DEF PostLocks, PostOwner
<1>3. RawLocks'
  <2>1. ASSUME NEW r \in Raws, NEW x \in Procs, raw'[r].by = x
        PROVE  RawOwner(r, x)'
    BY <2>1, OwnersStep DEF Owns, Clean
  <2>2. \A r \in Raws : raw'[r].by \in Procs \cup {NoProc}
    BY <1>1 DEF TypeOK, TablesOK, Cells
  <2> QED
    BY <2>1, <2>2 DEF RawLocks, RawOwner
<1> QED
  BY <1>1, <1>2, <1>3, SettledStep, UnbornStep DEF RowInv

\* The summary of the rows holds in every state.
LEMMA RowsInOrder == Spec => []RowInv
<1>1. RowInv /\ [Next]_vars => RowInv'
  BY RowStep
<1> QED
  BY RowInit, <1>1, PTL DEF Spec

\* No row of a job, a post or a raw post stays locked with nobody left to release it:
\* the holder works on a pair of that row, or is the scheduler in an unfinished pass.
THEOREM LocksAlwaysOwned == Spec => []LocksHaveOwners
<1>1. RowInv => LocksHaveOwners
  BY DEF RowInv, LocksHaveOwners
<1> QED
  BY RowsInOrder, <1>1, PTL

-----------------------------------------------------------------------------
(* What a status is evidence of.                                            *)

Shown(q) == texts[q] >= 1
Seen(q) == texts[q] + media[q] >= 1

\* What is in a channel stays there.
LEMMA ChannelGrows ==
  ASSUME RowInv, [Next]_vars, NEW q \in Pairs
  PROVE  (Shown(q) => Shown(q)') /\ (Seen(q) => Seen(q)')
<1>0. texts \in [Pairs -> Nat] /\ media \in [Pairs -> Nat]
  BY DEF RowInv, TypeOK
<1>1. texts'[q] >= texts[q] /\ media'[q] >= media[q] /\ texts'[q] \in Nat /\ media'[q] \in Nat
  <2>1. CASE UNCHANGED channel
    BY <1>0, <2>1 DEF channel
  <2>2. ASSUME NEW p \in Procs, Deliver(p) 
        PROVE  /\ texts'[q] >= texts[q] /\ media'[q] >= media[q]
               /\ texts'[q] \in Nat /\ media'[q] \in Nat
    BY <1>0, <2>2 DEF Deliver
  <2>3. UNCHANGED channel \/ \E p \in Procs : Deliver(p)
    BY StepCases DEF Calls, Rests, Defers, Claims, Works, Settles, Continues, Elsewhere, EndRun,
                     Restart
  <2> QED
    BY <2>1, <2>2, <2>3
<1> QED
  BY <1>0, <1>1 DEF Shown, Seen

\* What p writes into the row of its job on the way, and commits with it.
Writes(p, v, d) ==
  \/ /\ at[p] = "ack" /\ layout[p] = "split"
     /\ d = Row([v EXCEPT !.sent = TRUE])
  \/ /\ TextDone(p)
     /\ d = Row([v EXCEPT !.status = "success", !.sent = TRUE])
  \/ d = Row([v EXCEPT !.status = "failed"])

\* What a step does to the row of a job.
JobStep(q, c, d) ==
  \/ d = c
  \/ d = Row(c.com)
  \/ d = Row(c.cur)
  \/ d = Row(Deferred(c.com))
  \/ d.com = c.com /\ d.cur = Claimed(c.com)
  \/ \E p \in Procs, v \in {c.com, c.cur} : on[p] = q /\ Writes(p, v, d)

LEMMA SettledJob ==
  ASSUME NEW v \in Job, NEW js \in {"success", "failed"}
  PROVE  [v EXCEPT !.status = js, !.sent = @ \/ js = "success"]
         = IF js = "success" THEN [v EXCEPT !.status = "success", !.sent = TRUE]
                             ELSE [v EXCEPT !.status = "failed"]
<1>1. v.sent \in BOOLEAN
  BY DEF Job
<1>2. (v.sent \/ js = "success") = IF js = "success" THEN TRUE ELSE v.sent
  BY <1>1
<1>3. CASE js = "success"
  BY <1>2, <1>3
<1>4. CASE js = "failed"
  BY <1>2, <1>4 DEF Job
<1> QED
  BY <1>3, <1>4

LEMMA JobSteps ==
  ASSUME RowInv, [Next]_vars, NEW q \in Pairs
  PROVE  JobStep(q, job[q], job'[q])
<1>0. job \in [Pairs -> Cells(Job)] /\ TypeOK /\ JobLocks /\ Sched \in Procs
  BY DEF RowInv, TypeOK, TablesOK, Procs
<1>1. ASSUME NEW p \in Procs, NEW pr \in Pairs, Calls(p, pr) PROVE JobStep(q, job[q], job'[q])
  BY <1>1 DEF Calls, Rests, Defers, Claims, OtherJobs, JobStep
<1>2. ASSUME NEW p \in Procs, Works(p) PROVE JobStep(q, job[q], job'[q])
  <2>0. JobOf(p, q) \in Job
    BY <1>0, JobOfType DEF TypeOK
  <2>1. JobOf(p, q) \in {job[q].com, job[q].cur}
    BY DEF JobOf, View
  <2>2. CASE job'[q] = job[q]
    BY <2>2 DEF JobStep
  <2>3. CASE q = on[p] /\ TextDone(p) /\ Settles(p, q, "published", "success")
    BY <2>0, <2>1, <2>3, SettledJob DEF Settles, JobStep, Writes
  <2>4. CASE q = on[p] /\ Settles(p, q, "failed", "failed")
    BY <2>0, <2>1, <2>4, SettledJob DEF Settles, JobStep, Writes
  <2>5. CASE q = on[p] /\ Continues(p, q)
    BY <2>1, <2>5 DEF Continues, JobStep, Writes
  <2> QED
    BY <1>2, <2>2, <2>3, <2>4, <2>5 DEF Works, Settles, Continues, OtherJobs, tables
<1>3. CASE Elsewhere
  BY <1>3 DEF Elsewhere, JobStep
<1>4. CASE EndRun
  <2>1. job' = job
    BY <1>0, <1>4, PassEnds
  <2> QED
    BY <2>1 DEF JobStep
<1>5. CASE Restart
  BY <1>0, <1>5 DEF Restart, Rollback, JobStep
<1> QED
  BY <1>1, <1>2, <1>3, <1>4, <1>5, StepCases

\* What a value of the job of pair q says happened.
Earns(v, q) == /\ v.status = "success" => Shown(q)
               /\ v.sent => Seen(q)

\* What every value of a row, committed or not, and every answer on its way says happened.
Evidence ==
  /\ \A q \in Pairs : Earns(job[q].com, q) /\ Earns(job[q].cur, q)
  /\ \A g \in Posts : gen[g].com = "published" => \E t \in Targets : Shown(<<g, t>>)
  /\ \A p \in Procs : /\ TextDone(p) => Shown(on[p])
                      /\ at[p] = "ack" /\ layout[p] = "split" => Seen(on[p])

\* The new values say no more than the old ones and the answers do.
LEMMA JobsEarned ==
  ASSUME RowInv, Evidence, NEW q \in Pairs, NEW d, JobStep(q, job[q], d)
  PROVE  Earns(d.com, q) /\ Earns(d.cur, q)
<1>0. job[q].com \in Job /\ job[q].cur \in Job
  BY DEF RowInv, TypeOK, TablesOK, Cells
<1>1. Earns(job[q].com, q) /\ Earns(job[q].cur, q)
  BY DEF Evidence
<1>2. \A v : Row(v).com = v /\ Row(v).cur = v
  BY DEF Row
<1>3. Shown(q) => Seen(q)
  BY DEF RowInv, TypeOK, Shown, Seen
<1>4. ASSUME NEW v \in Job, Earns(v, q)
      PROVE  /\ Earns(Deferred(v), q) /\ Earns(Claimed(v), q)
             /\ Earns([v EXCEPT !.status = "failed"], q)
             /\ Seen(q) => Earns([v EXCEPT !.sent = TRUE], q)
             /\ Shown(q) => Earns([v EXCEPT !.status = "success", !.sent = TRUE], q)
  BY <1>3, <1>4 DEF Earns, Deferred, Claimed, Job
<1>5. ASSUME NEW p \in Procs, on[p] = q
      PROVE  (TextDone(p) => Shown(q)) /\ (at[p] = "ack" /\ layout[p] = "split" => Seen(q))
  BY <1>5 DEF Evidence
<1>7. CASE d = job[q] \/ d = Row(job[q].com) \/ d = Row(job[q].cur) \/ d = Row(Deferred(job[q].com))
           \/ (d.com = job[q].com /\ d.cur = Claimed(job[q].com))
  BY <1>0, <1>1, <1>2, <1>4, <1>7
<1>8. ASSUME NEW p \in Procs, NEW v \in {job[q].com, job[q].cur}, on[p] = q, Writes(p, v, d)
      PROVE  Earns(d.com, q) /\ Earns(d.cur, q)
  <2>1. v \in Job /\ Earns(v, q)
    BY <1>0, <1>1, <1>8
  <2>2. \E w : d = Row(w) /\ Earns(w, q)
    <3>1. CASE at[p] = "ack" /\ layout[p] = "split" /\ d = Row([v EXCEPT !.sent = TRUE])
      BY <1>4, <1>5, <1>8, <2>1, <3>1
    <3>2. CASE TextDone(p) /\ d = Row([v EXCEPT !.status = "success", !.sent = TRUE])
      BY <1>4, <1>5, <1>8, <2>1, <3>2
    <3>3. CASE d = Row([v EXCEPT !.status = "failed"])
      BY <1>4, <2>1, <3>3
    <3> QED
      BY <1>8, <3>1, <3>2, <3>3 DEF Writes
  <2> QED
    BY <1>2, <2>2
<1> QED
  BY <1>7, <1>8 DEF JobStep

\* What a step does to the committed status of a post.
PostStep(g, was, is) ==
  \/ is \in {was, "approved", "rejected", "failed"}
  \/ is = "published" /\ \E p \in Procs : TextDone(p) /\ on[p] \in Pairs /\ on[p][1] = g
  \/ is = "scheduled" /\ \E t \in Targets : job'[<<g, t>>].com.status = "pending"

LEMMA PostSteps ==
  ASSUME RowInv, [Next]_vars, NEW g \in Posts
  PROVE  PostStep(g, gen[g].com, gen'[g].com)
<1> DEFINE Goal == PostStep(g, gen[g].com, gen'[g].com)
<1>0. /\ gen \in [Posts -> Cells(GenStatus)] /\ job \in [Pairs -> Cells(Job)]
      /\ TypeOK /\ JobLocks /\ Approving /\ Sched \in Procs
  BY DEF RowInv, TypeOK, TablesOK, Procs
<1>1. ASSUME NEW p \in Procs, NEW pr, NEW V, GenStep(p, pr, V)
      PROVE  gen'[g].com \in {gen[g].com, "approved"} \/ (g = pr[1] /\ gen'[g].com \in V)
  <2> DEFINE W == IF g = pr[1] THEN V ELSE {}
  <2>1. CellStep(gen[g], gen'[g], p, W)
    BY <1>1 DEF GenStep
  <2>2. gen[g].by = p => gen[g].cur = "approved"
    BY PublishingAssumption DEF RowInv, Approving
  <2>3. \A v : Row(v).com = v
    BY DEF Row
  <2>4. gen'[g].com \in {gen[g].com, "approved"} \/ gen'[g].com \in W
    BY <2>1, <2>2, <2>3 DEF CellStep
  <2> QED
    BY <2>4
<1>2. ASSUME NEW p \in Procs, NEW pr \in Pairs, Calls(p, pr) PROVE Goal
  <2>1. CASE GenStep(p, pr, {"approved"})
    BY <1>1, <2>1 DEF PostStep
  <2>2. CASE Defers(p, pr)
    <3>1. GenStep(p, pr, {"scheduled"})
      BY <2>2 DEF Defers
    <3>2. job[pr].com \in Job /\ job'[pr].com.status = "pending"
      BY <1>0, <2>2 DEF Defers, Row, Deferred, Cells, Job
    <3>3. pr = <<pr[1], pr[2]>> /\ pr[2] \in Targets
      BY DEF Pairs
    <3> QED
      BY <1>1, <3>1, <3>2, <3>3 DEF PostStep
  <2> QED
    BY <1>2, <2>1, <2>2 DEF Calls, Rests, Claims
<1>3. ASSUME NEW p \in Procs, Works(p) PROVE Goal
  <2>1. CASE UNCHANGED tables
    BY <2>1 DEF tables, PostStep
  <2>2. CASE TextDone(p) /\ Settles(p, on[p], "published", "success")
    <3>1. GenStep(p, on[p], {"published"})
      BY <2>2 DEF Settles
    <3> QED
      BY <1>1, <1>3, <2>2, <3>1 DEF Works, PostStep
  <2>3. CASE Settles(p, on[p], "failed", "failed")
    <3>1. GenStep(p, on[p], {"failed"})
      BY <2>3 DEF Settles
    <3> QED
      BY <1>1, <3>1 DEF PostStep
  <2>4. CASE Continues(p, on[p])
    <3>1. GenStep(p, on[p], {})
      BY <2>4 DEF Continues
    <3> QED
      BY <1>1, <3>1 DEF PostStep
  <2> QED
    BY <1>3, <2>1, <2>2, <2>3, <2>4 DEF Works
<1>4. CASE Elsewhere
  BY <1>4 DEF Elsewhere, Row, PostStep
<1>5. CASE EndRun
  <2>1. gen'[g] \in {Release(gen[g], Sched), Withdraw(gen[g], Sched)}
    BY <1>0, <1>5, PassEnds
  <2> QED
    BY <1>0, <2>1, PublishingAssumption DEF Release, Withdraw, Row, Approving, PostStep
<1>6. CASE Restart
  BY <1>0, <1>6 DEF Restart, Rollback, Row, PostStep
<1> QED
  BY <1>2, <1>3, <1>4, <1>5, <1>6, StepCases

\* An answer that is on its way is about a text, or media, that is in the channel.
LEMMA AnswersHold ==
  ASSUME RowInv, Evidence, [Next]_vars, NEW x \in Procs
  PROVE  /\ TextDone(x)' => texts'[on'[x]] >= 1
         /\ at'[x] = "ack" /\ layout'[x] = "split" => texts'[on'[x]] + media'[on'[x]] >= 1
<1> DEFINE Goal == /\ TextDone(x)' => texts'[on'[x]] >= 1
                   /\ at'[x] = "ack" /\ layout'[x] = "split"
                        => texts'[on'[x]] + media'[on'[x]] >= 1
<1>0. /\ TypeOK /\ WorkersOK /\ Sched \in Procs /\ texts \in [Pairs -> Nat] /\ media \in [Pairs -> Nat]
  BY DEF RowInv, TypeOK, Procs
<1>1. ASSUME at'[x] = at[x], on'[x] = on[x], layout'[x] = layout[x] PROVE Goal
  <2>1. CASE at[x] = "idle"
    BY <1>1, <2>1 DEF TextDone
  <2>2. CASE at[x] # "idle"
    <3>1. PICK q \in Pairs : q = on[x]
      BY <1>0, <2>2 DEF WorkersOK
    <3>2. (Shown(q) => Shown(q)') /\ (Seen(q) => Seen(q)')
      BY ChannelGrows
    <3> QED
      BY <1>1, <3>1, <3>2 DEF TextDone, Evidence, Shown, Seen
  <2> QED
    BY <2>1, <2>2
<1>2. ASSUME at'[x] \in {"idle", "restore", "send", "tail"} PROVE Goal
  BY <1>2 DEF TextDone
<1>3. ASSUME Deliver(x) PROVE Goal
  <2>1. PICK q \in Pairs : q = on[x]
    BY <1>0, <1>3 DEF WorkersOK, Deliver
  <2>2. /\ on'[x] = q /\ layout'[x] = layout[x]
        /\ at'[x] = IF at[x] = "tail" THEN "tailack" ELSE "ack"
    BY <1>0, <1>3, <2>1 DEF Deliver, Goto, WorkersOK
  <2>3. at[x] = "tail" \/ layout[x] # "split" => texts'[q] = texts[q] + 1
    BY <1>0, <1>3, <2>1 DEF Deliver
  <2>4. at[x] # "tail" /\ layout[x] = "split" => media'[q] = media[q] + 1 /\ texts' = texts
    BY <1>0, <1>3, <2>1 DEF Deliver
  <2> QED
    BY <1>0, <2>2, <2>3, <2>4 DEF TextDone
<1>4. ASSUME NEW p \in Procs, x # p, UNCHANGED workers \/ \E w, r, s : Goto(p, w, r, s) PROVE Goal
  <2>1. at'[x] = at[x] /\ on'[x] = on[x] /\ layout'[x] = layout[x]
    BY <1>0, <1>4 DEF workers, WorkersOK, Goto
  <2> QED
    BY <1>1, <2>1
<1>5. CASE UNCHANGED workers
  BY <1>1, <1>5 DEF workers
<1>6. ASSUME NEW p \in Procs, NEW pr \in Pairs, Calls(p, pr) PROVE Goal
  <2>1. UNCHANGED workers \/ \E w \in {"restore", "send"} : \E s : Goto(p, w, pr, s)
    BY <1>6 DEF Calls, Rests, Defers, Claims
  <2>2. CASE x = p
    BY <1>0, <1>2, <1>5, <2>1, <2>2 DEF Goto, WorkersOK
  <2> QED
    BY <1>4, <2>1, <2>2
<1>7. ASSUME NEW p \in Procs, Works(p) PROVE Goal
  <2>1. CASE x = p
    <3>1. \/ UNCHANGED workers \/ Deliver(p)
          \/ \E w \in {"idle", "send", "tail"} : \E q, s : Goto(p, w, q, s)
      BY <1>7 DEF Works, Settles, Continues
    <3> QED
      BY <1>0, <1>2, <1>3, <1>5, <2>1, <3>1 DEF Goto, WorkersOK
  <2> QED
    BY <1>0, <1>4, <1>7, <2>1, WorkerMoves
<1>8. CASE Elsewhere \/ EndRun \/ Restart
  BY <1>2, <1>5, <1>8 DEF Elsewhere, EndRun, Restart
<1> QED
  BY <1>6, <1>7, <1>8, StepCases

LEMMA EvidenceStep ==
  ASSUME RowInv, Evidence, [Next]_vars
  PROVE  Evidence'
<1>1. ASSUME NEW q \in Pairs PROVE (Earns(job[q].com, q) /\ Earns(job[q].cur, q))'
  <2>1. PICK d : d = job'[q]
    OBVIOUS
  <2>2. Earns(d.com, q) /\ Earns(d.cur, q)
    BY <2>1, JobSteps, JobsEarned
  <2> QED
    BY <2>1, <2>2, ChannelGrows DEF Earns
<1>2. ASSUME NEW g \in Posts, gen'[g].com = "published"
      PROVE  \E t \in Targets : Shown(<<g, t>>)'
  <2>1. \E t \in Targets : Shown(<<g, t>>)
    BY <1>2, PostSteps DEF Evidence, Pairs, PostStep
  <2> QED
    BY <2>1, ChannelGrows DEF Pairs
<1> QED
  BY <1>1, <1>2, AnswersHold DEF Evidence, Shown, Seen

\* SUCCESS on a job and PUBLISHED on a post stand for a text in the channel, and
\* sent_message_id for something delivered, whatever fails and restarts in between.
THEOREM StatusAlwaysEarned == Spec => []StatusIsEarned
<1>1. Init => Evidence
  BY PublishingAssumption DEF Init, Evidence, Earns, Row, NoJob, TextDone
<1>2. RowInv /\ Evidence /\ [Next]_vars => Evidence'
  BY EvidenceStep
<1>3. Evidence => StatusIsEarned
  BY DEF Evidence, Earns, Shown, Seen, StatusIsEarned
<1> QED
  BY RowsInOrder, <1>1, <1>2, <1>3, PTL DEF Spec

-----------------------------------------------------------------------------
(* What a process that has not restarted promises of RUNNING and SCHEDULED.  *)

\* A pair somebody works on is worked on until its job and its post are settled together;
\* a job changes in the hands of such a coroutine, or becomes pending.
LEMMA PairGoesOn ==
  ASSUME RowInv, [Next]_vars, restarts' = 0, NEW q \in Pairs
  PROVE  \/ (Active(q) # {} => Active(q)' # {}) /\ job'[q].com = job[q].com
         \/ Active(q)' # {}
         \/ job'[q].com.status = "pending"
         \/ /\ job'[q].com.status \in {"success", "failed"}
            /\ gen'[q[1]].com \in {"published", "failed"}
<1> DEFINE Kept == (Active(q) # {} => Active(q)' # {}) /\ job'[q].com = job[q].com
           Ends == /\ job'[q].com.status \in {"success", "failed"}
                   /\ gen'[q[1]].com \in {"published", "failed"}
           Goal == Kept \/ Active(q)' # {} \/ job'[q].com.status = "pending" \/ Ends
<1>0. /\ TypeOK /\ WorkersOK /\ JobLocks /\ job \in [Pairs -> Cells(Job)] /\ Sched \in Procs
      /\ Active(q) \subseteq Procs /\ restarts \in Nat
  BY DEF RowInv, TypeOK, TablesOK, Procs, Active
<1>1. ASSUME NEW p \in Procs, NEW pr \in Pairs, Calls(p, pr) PROVE Goal
  <2>1. UNCHANGED workers \/ \E w, r, s : Goto(p, w, r, s)
    BY <1>1 DEF Calls, Rests, Defers, Claims
  <2>2. Active(q) # {} => Active(q)' # {}
    <3>1. p \notin Active(q)
      BY <1>1 DEF Calls, Active
    <3>2. \A x \in Procs \ {p} : x \in Active(q)' <=> x \in Active(q)
      BY <1>0, <2>1, OthersStay
    <3> QED
      BY <1>0, <3>1, <3>2
  <2>3. job'[q].com = job[q].com \/ job'[q].com.status = "pending"
    <3>1. job[q].com \in Job
      BY <1>0 DEF Cells
    <3>2. Deferred(job[q].com).status = "pending"
      BY <3>1 DEF Deferred, Job
    <3> QED
      BY <1>1, <3>2 DEF Calls, Rests, Defers, Claims, OtherJobs, Row
  <2> QED
    BY <2>2, <2>3
<1>2. ASSUME NEW p \in Procs, Works(p) PROVE Goal
  <2>1. \A x \in Procs \ {p} : x \in Active(q)' <=> x \in Active(q)
    BY <1>0, <1>2, WorkerMoves, OthersStay
  <2>2. CASE UNCHANGED tables /\ UNCHANGED workers
    BY <2>2 DEF tables, workers, Active
  <2>3. ASSUME NEW gs \in {"published", "failed"}, NEW js \in {"success", "failed"},
               Settles(p, on[p], gs, js)
        PROVE  Goal
    <3>1. CASE q = on[p]
      <4>1. JobOf(p, q) \in Job
        BY <1>0, JobOfType DEF TypeOK
      <4>0. PICK w : w = [JobOf(p, q) EXCEPT !.status = js, !.sent = @ \/ js = "success"]
        OBVIOUS
      <4>2. job'[q] = Row(w) /\ gen'[q[1]].com = gs
        BY <2>3, <3>1, <4>0 DEF Settles
      <4>3. w.status = js
        <5> DEFINE v == JobOf(p, q)
        <5>1. [v EXCEPT !.status = "success", !.sent = TRUE].status = "success"
              /\ [v EXCEPT !.status = "failed"].status = "failed"
          BY <4>1 DEF Job
        <5> HIDE DEF v
        <5>2. CASE js = "success"
          BY <4>0, <4>1, <5>1, <5>2, SettledJob DEF v
        <5>3. CASE js = "failed"
          BY <4>0, <4>1, <5>1, <5>3, SettledJob DEF v
        <5> QED
          BY <2>3, <5>2, <5>3
      <4> QED
        BY <2>3, <4>2, <4>3 DEF Row
    <3>2. CASE q # on[p]
      <4>1. job'[q] = job[q] /\ p \notin Active(q)
        BY <2>3, <3>2 DEF Settles, OtherJobs, Active
      <4> QED
        BY <1>0, <2>1, <4>1
    <3> QED
      BY <3>1, <3>2
  <2>4. CASE Continues(p, on[p])
    <3>1. p \in Active(q)' <=> p \in Active(q)
      <4>1. PICK w \in {"send", "tail", "ack", "tailack"} : \E s : Goto(p, w, on[p], s)
        BY <2>4 DEF Continues, Deliver
      <4> QED
        BY <1>0, <2>4, <4>1 DEF Continues, Goto, WorkersOK, Active
    <3>2. q = on[p] => p \in Active(q)
      BY <2>4 DEF Continues, Active
    <3>3. q # on[p] => job'[q] = job[q]
      BY <2>4 DEF Continues, OtherJobs
    <3> QED
      BY <1>0, <2>1, <3>1, <3>2, <3>3
  <2> QED
    BY <1>2, <2>2, <2>3, <2>4 DEF Works
<1>3. CASE Elsewhere
  BY <1>3 DEF Elsewhere, workers, Active
<1>4. CASE EndRun
  <2>1. job' = job
    BY <1>0, <1>4, PassEnds
  <2> QED
    BY <1>4, <2>1 DEF EndRun, workers, Active
<1>5. CASE Restart
  BY <1>0, <1>5 DEF Restart
<1> QED
  BY <1>1, <1>2, <1>3, <1>4, <1>5, StepCases

\* A process that has not restarted had not before.
LEMMA RestartsCount ==
  ASSUME TypeOK, [Next]_vars, restarts' = 0 PROVE restarts = 0
<1>1. restarts \in Nat
  BY DEF TypeOK
<1>2. restarts' = restarts \/ restarts' = restarts + 1
  BY DEF Next, vars, Restart, Proceed, RestoreMedia, Deliver, Acknowledge, SendFails, AnswerLost,
         Scheduler, StartRetries, RetryFailedJob, StartScheduled, ProcessScheduledJob, EndRun,
         Requests, Click, PublishRaw, NoSchedule, SaveGenerated, RejectGenerated, RejectPost,
         BulkReject, Others, Time, WindowOpens, WindowCloses
<1> QED
  BY <1>1, <1>2

\* A job shown as RUNNING has a coroutine that will settle it, as long as the process lives.
THEOREM RunningAlwaysAlive == Spec => []RunningIsAlive
<1>1. Init => RunningIsAlive
  BY DEF Init, RunningIsAlive, Row, NoJob
<1>2. RowInv /\ RunningIsAlive /\ [Next]_vars => RunningIsAlive'
  <2> SUFFICES ASSUME RowInv, RunningIsAlive, [Next]_vars, restarts' = 0, NEW q \in Pairs,
                      job'[q].com.status = "running"
               PROVE  Active(q)' # {}
    BY DEF RunningIsAlive
  <2>1. restarts = 0
    BY RestartsCount DEF RowInv
  <2> QED
    BY <2>1, PairGoesOn DEF RunningIsAlive
<1> QED
  BY RowsInOrder, <1>1, <1>2, PTL DEF Spec

\* A post shown as SCHEDULED has a job that waits or is worked on, as long as the process
\* lives.
THEOREM ScheduledAlwaysHasJob == Spec => []ScheduledHasJob
<1>1. Init => ScheduledHasJob
  BY DEF Init, ScheduledHasJob, Row
<1>2. RowInv /\ ScheduledHasJob /\ [Next]_vars => ScheduledHasJob'
  <2> SUFFICES ASSUME RowInv, ScheduledHasJob, [Next]_vars, restarts' = 0, NEW g \in Posts,
                      gen'[g].com = "scheduled"
               PROVE  \E t \in Targets : (job[<<g, t>>].com.status = "pending"
                                         \/ Active(<<g, t>>) # {})'
    BY DEF ScheduledHasJob
  <2>1. gen[g].com = "scheduled" \/ \E t \in Targets : job'[<<g, t>>].com.status = "pending"
    BY PostSteps DEF PostStep
  <2>2. CASE gen[g].com = "scheduled"
    <3>1. PICK t \in Targets : job[<<g, t>>].com.status = "pending" \/ Active(<<g, t>>) # {}
      BY <2>2, RestartsCount DEF ScheduledHasJob, RowInv
    <3>2. <<g, t>> \in Pairs /\ <<g, t>>[1] = g
      BY DEF Pairs
    <3> QED
      BY <3>1, <3>2, PairGoesOn
  <2> QED
    BY <2>1, <2>2
<1> QED
  BY RowsInOrder, <1>1, <1>2, PTL DEF Spec

-----------------------------------------------------------------------------
(* Where the automatic attempts end.                                        *)

\* A count of the attempts that have been made, and one that leaves room for another.
Within(n) == n <= MaxRetry \/ n <= MaxAttempts + 1
Room(n) == n < MaxRetry \/ n <= MaxAttempts

\* Every job that the scheduler has in its list, or finds pending, has room for one attempt
\* more, also when a click has used one since the list was read.
Limits ==
  \A q \in Pairs :
    /\ Within(job[q].com.attempts)
    /\ job[q].by = Sched => Within(job[q].cur.attempts) /\ q \notin todo
    /\ job[q].by \in Clicks => job[q].cur.attempts <= MaxAttempts
    /\ q \in todo \/ job[q].com.status = "pending" => Room(job[q].com.attempts)

\* A row that is committed with the value w.
LEMMA LimitsOfRow ==
  ASSUME NEW q, NEW w, job'[q] = Row(w), Within(w.attempts),
         q \in todo' \/ w.status = "pending" => Room(w.attempts)
  PROVE  /\ Within(job'[q].com.attempts)
         /\ job'[q].by \notin Procs
         /\ q \in todo' \/ job'[q].com.status = "pending" => Room(job'[q].com.attempts)
<1>1. job'[q].com = w /\ job'[q].by = NoProc
  BY DEF Row
<1> QED
  BY <1>1, PublishingAssumption

LEMMA LimitsStep ==
  ASSUME RowInv, Limits, [Next]_vars
  PROVE  Limits'
<1> SUFFICES ASSUME NEW q \in Pairs
             PROVE  /\ Within(job'[q].com.attempts)
                    /\ job'[q].by = Sched => Within(job'[q].cur.attempts) /\ q \notin todo'
                    /\ job'[q].by \in Clicks => job'[q].cur.attempts <= MaxAttempts
                    /\ q \in todo' \/ job'[q].com.status = "pending"
                         => Room(job'[q].com.attempts)
  BY DEF Limits
<1> DEFINE Goal == /\ Within(job'[q].com.attempts)
                   /\ job'[q].by = Sched => Within(job'[q].cur.attempts) /\ q \notin todo'
                   /\ job'[q].by \in Clicks => job'[q].cur.attempts <= MaxAttempts
                   /\ q \in todo' \/ job'[q].com.status = "pending"
                        => Room(job'[q].com.attempts)
<1>0. /\ TypeOK /\ JobLocks /\ job \in [Pairs -> Cells(Job)] /\ Sched \in Procs /\ Clicks \subseteq Procs
      /\ Sched \notin Clicks /\ MaxRetry \in Nat /\ MaxAttempts \in Nat
      /\ job[q].com \in Job /\ job[q].cur \in Job
      /\ job[q].com.attempts \in Nat /\ job[q].cur.attempts \in Nat
  BY PublishingAssumption DEF RowInv, TypeOK, TablesOK, Procs, Cells, Job
<1>a. /\ Within(job[q].com.attempts)
      /\ job[q].by = Sched => Within(job[q].cur.attempts) /\ q \notin todo
      /\ job[q].by \in Clicks => job[q].cur.attempts <= MaxAttempts
      /\ q \in todo \/ job[q].com.status = "pending" => Room(job[q].com.attempts)
  BY DEF Limits
<1>b. ASSUME job'[q] = job[q], todo' \subseteq todo PROVE Goal
  BY <1>a, <1>b
<1>c. ASSUME NEW w, job'[q] = Row(w), Within(w.attempts),
             q \in todo' \/ w.status = "pending" => Room(w.attempts)
      PROVE  Goal
  BY <1>0, <1>c, LimitsOfRow
<1>d. ASSUME job'[q] = job[q], todo' = {} \/ todo' = todo PROVE Goal
  BY <1>b, <1>d
<1>1. ASSUME NEW p \in Procs, NEW pr \in Pairs, Calls(p, pr) PROVE Goal
  <2>1. todo' \subseteq todo
    BY <1>1 DEF Calls, run
  <2>2. CASE job'[q] = job[q]
    BY <1>b, <2>1, <2>2
  <2>3. p = Sched => pr \in todo /\ pr \notin todo'
    BY <1>0, <1>1 DEF Calls
  <2>4. CASE pr = q /\ Defers(p, q)
    <3> DEFINE w == Deferred(job[q].com)
    <3>1. job'[q] = Row(w)
      BY <2>4 DEF Defers
    <3>2. w.attempts = job[q].com.attempts
      BY <1>0 DEF Deferred, Job
    <3>3. Room(w.attempts)
      <4>1. CASE p = Sched
        BY <1>a, <2>3, <2>4, <3>2, <4>1
      <4>2. CASE p # Sched
        <5>1. job[q].com.attempts < MaxAttempts \/ job[q].com.attempts = 0
          BY <1>1, <2>4, <4>2 DEF Calls, NoJob
        <5> QED
          BY <1>0, <3>2, <5>1 DEF Room
      <4> QED
        BY <4>1, <4>2
    <3>4. Within(w.attempts)
      BY <1>0, <3>2, <3>3 DEF Room, Within
    <3> HIDE DEF w
    <3> QED
      BY <1>c, <3>1, <3>3, <3>4
  <2>5. CASE /\ pr = q /\ job'[q].com = job[q].com
             /\ job'[q].cur = Claimed(job[q].com) /\ job'[q].by = p
    <3>1. job'[q].cur.attempts = job[q].com.attempts + 1
      BY <1>0, <2>5 DEF Claimed, Job
    <3>2. CASE p = Sched
      <4>1. Room(job[q].com.attempts)
        BY <1>a, <2>3, <2>5, <3>2
      <4>2. Within(job'[q].cur.attempts)
        BY <1>0, <3>1, <4>1 DEF Room, Within
      <4> QED
        BY <1>0, <1>a, <2>1, <2>3, <2>5, <3>2, <4>1, <4>2
    <3>3. CASE p # Sched
      <4>1. job[q].com.attempts < MaxAttempts \/ job[q].com.attempts = 0
        BY <1>1, <2>5, <3>3 DEF Calls, NoJob
      <4>2. job'[q].cur.attempts <= MaxAttempts
        BY <1>0, <3>1, <4>1, PublishingAssumption
      <4>3. Within(job'[q].com.attempts) /\ Room(job'[q].com.attempts)
        BY <1>0, <2>5, <4>1 DEF Within, Room
      <4> QED
        BY <1>0, <2>5, <3>3, <4>2, <4>3
    <3> QED
      BY <3>2, <3>3
  <2> QED
    BY <1>1, <2>2, <2>4, <2>5 DEF Calls, Rests, Defers, Claims, OtherJobs
<1>2. ASSUME NEW p \in Procs, Works(p) PROVE Goal
  <2>1. todo' = todo
    BY <1>2 DEF Works, run
  <2>2. CASE job'[q] = job[q]
    BY <1>d, <2>1, <2>2
  <2>3. ASSUME NEW v, v = JobOf(p, q)
        PROVE  /\ v \in Job /\ v.attempts \in Nat /\ Within(v.attempts)
               /\ q \in todo \/ v.status = "pending" => Room(v.attempts)
    <3>1. CASE job[q].by # p
      BY <1>0, <1>a, <2>3, <3>1 DEF JobOf, View
    <3>2. CASE job[q].by = p
      <4>1. v = job[q].cur /\ v.status = "running"
        BY <1>0, <2>3, <3>2, PublishingAssumption DEF JobOf, View, JobLocks
      <4>2. CASE p = Sched
        BY <1>0, <1>a, <3>2, <4>1, <4>2
      <4>3. CASE p \in Clicks
        BY <1>0, <1>a, <3>2, <4>1, <4>3 DEF Within, Room
      <4> QED
        BY <4>2, <4>3 DEF Procs
    <3> QED
      BY <3>1, <3>2
  <2>4. ASSUME NEW v, v = JobOf(p, q),
               \/ job'[q] = Row([v EXCEPT !.sent = TRUE])
               \/ job'[q] = Row([v EXCEPT !.status = "success", !.sent = TRUE])
               \/ job'[q] = Row([v EXCEPT !.status = "failed"])
        PROVE  Goal
    <3>1. PICK w : /\ job'[q] = Row(w) /\ w.attempts = v.attempts
                   /\ w.status \in {v.status, "success", "failed"}
      <4>0. v \in Job
        BY <2>3, <2>4
      <4>1. /\ [v EXCEPT !.sent = TRUE].attempts = v.attempts
            /\ [v EXCEPT !.sent = TRUE].status = v.status
            /\ [v EXCEPT !.status = "success", !.sent = TRUE].attempts = v.attempts
            /\ [v EXCEPT !.status = "success", !.sent = TRUE].status = "success"
            /\ [v EXCEPT !.status = "failed"].attempts = v.attempts
            /\ [v EXCEPT !.status = "failed"].status = "failed"
        BY <4>0 DEF Job
      <4>2. CASE job'[q] = Row([v EXCEPT !.sent = TRUE])
        BY <4>0, <4>1, <4>2
      <4>3. CASE job'[q] = Row([v EXCEPT !.status = "success", !.sent = TRUE])
        BY <4>0, <4>1, <4>3
      <4>4. CASE job'[q] = Row([v EXCEPT !.status = "failed"])
        BY <4>0, <4>1, <4>4
      <4> QED
        BY <2>4, <4>2, <4>3, <4>4
    <3> QED
      BY <1>c, <2>1, <2>3, <2>4, <3>1
  <2>5. CASE on[p] = q /\ \E gs \in {"published", "failed"}, js \in {"success", "failed"} :
               Settles(p, q, gs, js)
    <3>1. PICK js \in {"success", "failed"} :
            job'[q] = Row([JobOf(p, q) EXCEPT !.status = js, !.sent = @ \/ js = "success"])
      BY <2>5 DEF Settles
    <3>2. PICK v : v = JobOf(p, q)
      OBVIOUS
    <3>3. v \in Job
      BY <2>3, <3>2
    <3>4. CASE js = "success"
      BY <2>4, <3>1, <3>2, <3>3, <3>4, SettledJob
    <3>5. CASE js = "failed"
      BY <2>4, <3>1, <3>2, <3>3, <3>5, SettledJob
    <3> QED
      BY <3>1, <3>4, <3>5
  <2>6. CASE on[p] = q /\ Continues(p, q)
    <3>1. CASE job[q].by = p /\ job'[q] = Row(job[q].cur)
      <4>1. JobOf(p, q) = job[q].cur
        BY <3>1 DEF JobOf, View
      <4> QED
        BY <1>c, <2>1, <2>3, <3>1, <4>1
    <3>2. CASE job'[q] = Row([JobOf(p, q) EXCEPT !.sent = TRUE])
      BY <2>4, <3>2
    <3> QED
      BY <2>2, <2>6, <3>1, <3>2 DEF Continues
  <2>7. CASE on[p] # q
    BY <1>2, <2>2, <2>7 DEF Works, Settles, Continues, OtherJobs, tables
  <2> QED
    BY <1>2, <2>2, <2>5, <2>6, <2>7 DEF Works, tables
<1>3. CASE Elsewhere
  <2>1. job' = job
    BY <1>3 DEF Elsewhere
  <2>2. CASE UNCHANGED run
    BY <1>d, <2>1, <2>2 DEF run
  <2>3. CASE StartRetries \/ StartScheduled
    <3>1. q \in todo' => Retryable(JobOf(Sched, q)) \/ JobOf(Sched, q).status = "pending"
      BY <2>3 DEF StartRetries, StartScheduled
    <3>2. job[q].by = Sched => JobOf(Sched, q).status = "running"
      BY <1>0, PublishingAssumption DEF JobOf, View, JobLocks
    <3>3. job[q].by # Sched => JobOf(Sched, q) = job[q].com
      BY DEF JobOf, View
    <3>4. q \in todo' => job[q].by # Sched /\ Room(job[q].com.attempts)
      BY <1>a, <3>1, <3>2, <3>3 DEF Retryable, Room
    <3> QED
      BY <1>a, <2>1, <3>4
  <2> QED
    BY <1>3, <2>2, <2>3 DEF Elsewhere
<1>4. CASE EndRun
  <2>1. job' = job
    BY <1>0, <1>4, PassEnds
  <2> QED
    BY <1>4, <1>d, <2>1 DEF EndRun
<1>5. CASE Restart
  <2>1. job'[q] = Row(job[q].com) /\ todo' = {}
    BY <1>0, <1>5 DEF Restart, Rollback
  <2> QED
    BY <1>a, <1>c, <2>1
<1> QED
  BY <1>1, <1>2, <1>3, <1>4, <1>5, StepCases

\* Automatic attempts end at the limit, or one after the attempts that were made by hand:
\* no deferral, restart or overlapping publication gives a job another one.
THEOREM AttemptsEnd == Spec => []RetryLimit
<1>1. Init => Limits
  <2> SUFFICES ASSUME Init, NEW q \in Pairs
               PROVE  /\ Within(job[q].com.attempts)
                      /\ job[q].by \notin Procs
                      /\ q \notin todo /\ job[q].com.status # "pending"
    BY PublishingAssumption DEF Limits, Procs
  <2>1. job[q].com = NoJob /\ job[q].by = NoProc /\ todo = {}
    BY DEF Init, Row
  <2>2. Within(0)
    BY PublishingAssumption DEF Within
  <2> QED
    BY <2>1, <2>2, PublishingAssumption DEF NoJob
<1>2. RowInv /\ Limits /\ [Next]_vars => Limits'
  BY LimitsStep
<1>3. Limits => RetryLimit
  BY DEF Limits, Within, RetryLimit
<1> QED
  BY RowsInOrder, <1>1, <1>2, <1>3, PTL DEF Spec

-----------------------------------------------------------------------------
(* What pays for the media in a channel.                                    *)

\* p may still send the media of pair q, or give the pair back as one whose media may
\* be sent.
OwesMedia(p, q) ==
  /\ on[p] = q
  /\ \/ at[p] = "restore" /\ ~job[q].com.sent
     \/ at[p] = "send" /\ layout[p] # "resume"
     \/ at[p] = "ack" /\ layout[p] = "text"

Payers(q) == {p \in Procs : OwesMedia(p, q)}

\* Whoever claims pair q first is going to send its media.
FreeMedia(q) == IF Active(q) = {} /\ ~job[q].com.sent THEN 1 ELSE 0

\* The inductive form of MediaAccountedFor: to the media sent it adds those that are
\* owed, and those a claim would send for free.
MediaCredit == \A q \in Pairs :
  media[q] + Cardinality(Payers(q)) + FreeMedia(q) <= 1 + lostMedia[q] + overlaps[q]

\* sent_message_id is committed as soon as it is set, ...
SentAlike == \A q \in Pairs : job[q].cur.sent = job[q].com.sent

\* ... before the text goes out on its own.
TextOnly(p) == at[p] \in {"tail", "tailack"} \/ (at[p] # "idle" /\ layout[p] = "resume")
ResumesSent == \A p \in Procs : TextOnly(p) => job[on[p]].com.sent

MediaInv == RowInv /\ JobsInOrder /\ SentAlike /\ ResumesSent

\* What a step may do to an account: S and T owe media before and after it, m and n were
\* sent, l and k lost, o and u begun twice, and f and e may be sent for free.
Balances(S, T, m, n, l, k, o, u, f, e) ==
  /\ k >= l /\ u >= o
  /\ \/ n = m /\ T \subseteq S /\ e <= f
     \/ n = m /\ \E p \in S : T \subseteq S \ {p}
     \/ n = m + 1 /\ e <= f /\ \E p \in S : T \subseteq S \ {p}
     \/ n = m /\ T \subseteq S /\ k = l + 1
     \/ /\ n = m /\ \E p : T \subseteq S \cup {p}
        /\ \/ f = 1 /\ e = 0
           \/ u = o + 1 /\ e <= f

Covered(q) == Balances(Payers(q), Payers(q)', media[q], media'[q], lostMedia[q], lostMedia'[q],
                       overlaps[q], overlaps'[q], FreeMedia(q), FreeMedia(q)')

\* sent_message_id, once committed, stays; what is written and not committed has none.
LEMMA SentStays ==
  ASSUME MediaInv, [Next]_vars, NEW q \in Pairs
  PROVE  /\ job'[q].cur.sent = job'[q].com.sent
         /\ job[q].com.sent => job'[q].com.sent
         /\ job'[q].com.sent \in BOOLEAN /\ job[q].com.sent \in BOOLEAN
<1>0. /\ job \in [Pairs -> Cells(Job)] /\ job[q].com \in Job /\ job[q].cur \in Job
      /\ job'[q].com \in Job /\ TypeOK /\ JobsInOrder
  <2>1. TypeOK /\ TypeOK' /\ JobsInOrder
    BY TypeStep DEF MediaInv, RowInv
  <2> QED
    BY <2>1 DEF TypeOK, TablesOK, Cells
<1>1. job[q].com.sent => job'[q].com.sent
  BY <1>0, StepWrites, WritesAdvance DEF Newer
<1>2. job[q].cur.sent = job[q].com.sent
  BY DEF MediaInv, SentAlike
<1>3. JobStep(q, job[q], job'[q])
  BY JobSteps DEF MediaInv
<1>4. \A v : Row(v).com = v /\ Row(v).cur = v
  BY DEF Row
<1>5. Claimed(job[q].com).sent = job[q].com.sent
  BY <1>0 DEF Claimed, Job
<1>6. job'[q].cur.sent = job'[q].com.sent
  <2>1. CASE \E v : job'[q] = Row(v)
    BY <1>4, <2>1
  <2>2. CASE job'[q] = job[q]
    BY <1>2, <2>2
  <2>3. CASE job'[q].com = job[q].com /\ job'[q].cur = Claimed(job[q].com)
    BY <1>5, <2>3
  <2> QED
    BY <1>3, <2>1, <2>2, <2>3 DEF JobStep, Writes
<1> QED
  BY <1>0, <1>1, <1>6 DEF Job

\* Those who stay where they are owe no more than before.
LEMMA OthersOwe ==
  ASSUME TypeOK, NEW q \in Pairs, NEW x \in Procs,
         at'[x] = at[x], on'[x] = on[x], layout'[x] = layout[x],
         job[q].com.sent => job'[q].com.sent, OwesMedia(x, q)'
  PROVE  OwesMedia(x, q)
BY DEF OwesMedia

\* A step of p moves p alone, and the account of a pair it is not at stays as it is.
LEMMA MoverOwes ==
  ASSUME TypeOK, NEW p \in Procs, NEW q \in Pairs, NEW w, NEW r, NEW s, Goto(p, w, r, s),
         job[q].com.sent => job'[q].com.sent
  PROVE  /\ Payers(q)' \subseteq Payers(q) \cup {p}
         /\ ~OwesMedia(p, q)' => Payers(q)' \subseteq Payers(q) \ {p}
         /\ at'[p] = w /\ on'[p] = r /\ layout'[p] = s
         /\ \A x \in Procs \ {p} : x \in Active(q)' <=> x \in Active(q)
<1>0. WorkersOK
  BY DEF TypeOK
<1>1. ASSUME NEW x \in Procs, x # p
      PROVE  /\ OwesMedia(x, q)' => OwesMedia(x, q)
             /\ x \in Active(q)' <=> x \in Active(q)
  BY <1>0, <1>1, OthersStay, OthersOwe
<1>2. at'[p] = w /\ on'[p] = r /\ layout'[p] = s
  BY <1>0 DEF Goto, WorkersOK
<1> QED
  BY <1>1, <1>2 DEF Payers

\* Nobody moves.
LEMMA NobodyOwes ==
  ASSUME TypeOK, NEW q \in Pairs, UNCHANGED workers, job[q].com.sent => job'[q].com.sent
  PROVE  /\ Payers(q)' \subseteq Payers(q) /\ FreeMedia(q)' <= FreeMedia(q)
<1>1. ASSUME NEW x \in Procs, OwesMedia(x, q)' PROVE OwesMedia(x, q)
  <2>1. at'[x] = at[x] /\ on'[x] = on[x] /\ layout'[x] = layout[x]
    BY DEF workers
  <2> QED
    BY <1>1, <2>1, OthersOwe
<1>2. Active(q)' = Active(q)
  BY DEF workers, Active
<1> QED
  BY <1>1, <1>2 DEF Payers, FreeMedia

\* The account of a pair p is not at.
LEMMA OtherPair ==
  ASSUME TypeOK, NEW p \in Procs, NEW q \in Pairs, NEW w, NEW r, NEW s, Goto(p, w, r, s),
         p \notin Active(q), w = "idle" \/ r # q, job[q].com.sent => job'[q].com.sent
  PROVE  /\ Payers(q)' \subseteq Payers(q) /\ FreeMedia(q)' <= FreeMedia(q)
<1>1. ~OwesMedia(p, q)' /\ p \notin Active(q)'
  BY MoverOwes DEF OwesMedia, Active
<1>2. Payers(q)' \subseteq Payers(q)
  BY <1>1, MoverOwes
<1>3. Active(q)' = Active(q)
  <2>1. Active(q)' \subseteq Procs /\ Active(q) \subseteq Procs
    BY DEF Active
  <2>2. \A x \in Procs \ {p} : x \in Active(q)' <=> x \in Active(q)
    BY MoverOwes
  <2> QED
    BY <1>1, <2>1, <2>2
<1> QED
  BY <1>2, <1>3 DEF FreeMedia

\* What p writes to its job and commits is there.
LEMMA CommittedWrite ==
  ASSUME TypeOK, NEW p \in Procs, NEW q \in Pairs, NEW v, Free(job[q], p),
         job' = Commit([job EXCEPT ![q] = Put(@, p, v)], p)
  PROVE  job'[q].com = v
<1> DEFINE c == Put(job[q], p, v)
<1>0. job \in [Pairs -> Cells(Job)] /\ job[q] \in Cells(Job)
  BY DEF TypeOK, TablesOK
<1>1. job'[q] = Release(c, p)
  BY <1>0 DEF Commit
<1>2. CASE v = View(job[q], p)
  <2>1. c = job[q]
    BY <1>2 DEF Put
  <2>2. job[q].by = p \/ job[q].by = NoProc
    BY DEF Free
  <2> QED
    BY <1>1, <1>2, <2>1, <2>2 DEF View, Release, Row
<1>3. CASE v # View(job[q], p)
  <2>1. c.cur = v /\ c.by = p
    BY <1>0, <1>3 DEF Put, Cells
  <2> QED
    BY <1>1, <2>1 DEF Release, Row
<1> QED
  BY <1>2, <1>3

\* A publication that ends well has set sent_message_id.
LEMMA SettleSent ==
  ASSUME TypeOK, NEW p \in Procs, NEW gs, NEW rs, Settle(p, gs, rs, "success"),
         ~frozen, UNCHANGED frozen, on[p] \in Pairs
  PROVE  job'[on[p]].com.sent
<1> DEFINE q == on[p]
           v == [JobOf(p, q) EXCEPT !.status = "success", !.sent = @ \/ "success" = "success"]
<1>0. JobOf(p, q) \in Job
  BY JobOfType DEF TypeOK, TablesOK
<1>1. v.sent
  BY <1>0 DEF Job
<1>2. Free(job[q], p) /\ job' = Commit([job EXCEPT ![q] = Put(@, p, v)], p)
  BY DEF Settle, CommitAll
<1> HIDE DEF v
<1>3. job'[q].com = v
  BY <1>2, CommittedWrite
<1> QED
  BY <1>1, <1>3

\* A claim: the first one is free, a further one is an overlap.
LEMMA ClaimCovered ==
  ASSUME MediaInv, [Next]_vars, NEW p \in Procs, at[p] = "idle", NEW pr \in Pairs, NEW G, NEW R,
         NEW keep, Publish(p, pr, G, R, keep), UNCHANGED <<channel, lost>>, NEW q \in Pairs
  PROVE  Covered(q)
<1>0. /\ TypeOK /\ overlaps \in [Pairs -> Nat] /\ lostMedia' = lostMedia /\ media' = media
      /\ lostMedia[q] \in Nat
  BY DEF MediaInv, RowInv, TypeOK, channel, lost
<1>1. job[q].com.sent => job'[q].com.sent
  BY SentStays
<1>2. CASE UNCHANGED workers /\ UNCHANGED overlaps
  BY <1>0, <1>1, <1>2, NobodyOwes DEF Covered, Balances
<1>3. CASE /\ \/ Goto(p, "restore", pr, "text")
              \/ \E s \in Shapes(JobOf(p, pr)) : Goto(p, "send", pr, s)
           /\ overlaps' = IF Active(pr) = {} THEN overlaps
                          ELSE [overlaps EXCEPT ![pr] = @ + 1]
  <2>x. PICK w \in {"restore", "send"} :
          \E s : Goto(p, w, pr, s) /\ (w = "send" => s \in Shapes(JobOf(p, pr)))
    BY <1>3
  <2>0. PICK s : Goto(p, w, pr, s) /\ (w = "send" => s \in Shapes(JobOf(p, pr)))
    BY <2>x
  <2>a. Goto(p, w, pr, s)
    BY <2>0
  <2>b. w = "send" => s \in Shapes(JobOf(p, pr))
    BY <2>0
  <2>1. overlaps'[q] >= overlaps[q]
    BY <1>0, <1>3
  <2>2. CASE q # pr
    <3>1. p \notin Active(q)
      BY DEF Active
    <3>2. Payers(q)' \subseteq Payers(q) /\ FreeMedia(q)' <= FreeMedia(q)
      BY <1>0, <1>1, <2>a, <2>2, <3>1, OtherPair
    <3> QED
      BY <1>0, <2>1, <3>2 DEF Covered, Balances
  <2>3. CASE q = pr
    <3>0. /\ Payers(q)' \subseteq Payers(q) \cup {p}
          /\ ~OwesMedia(p, q)' => Payers(q)' \subseteq Payers(q)
          /\ at'[p] = w /\ on'[p] = pr /\ layout'[p] = s
      <4>1. /\ Payers(q)' \subseteq Payers(q) \cup {p}
            /\ ~OwesMedia(p, q)' => Payers(q)' \subseteq Payers(q) \ {p}
            /\ at'[p] = w /\ on'[p] = pr /\ layout'[p] = s
        BY <1>0, <1>1, <2>a, MoverOwes
      <4> QED
        BY <4>1
    <3>1. FreeMedia(q)' = 0
      <4>1. p \in Active(q)'
        BY <2>3, <3>0 DEF Active
      <4> QED
        BY <4>1 DEF FreeMedia
    <3>2. CASE job[q].com.sent
      <4>1. JobOf(p, pr).sent
        BY <2>3, <3>2 DEF JobOf, View, MediaInv, SentAlike
      <4>2. w = "send" => s = "resume"
        BY <2>b, <4>1 DEF Shapes
      <4>3. job'[q].com.sent
        BY <1>1, <3>2
      <4>4. ~OwesMedia(p, q)'
        BY <2>0, <3>0, <4>2, <4>3 DEF OwesMedia
      <4> QED
        BY <1>0, <2>1, <3>0, <3>1, <4>4 DEF Covered, Balances, FreeMedia
    <3>3. CASE ~job[q].com.sent /\ Active(q) = {}
      <4>1. FreeMedia(q) = 1
        BY <3>3 DEF FreeMedia
      <4> QED
        BY <1>0, <2>1, <3>0, <3>1, <4>1 DEF Covered, Balances
    <3>4. CASE Active(q) # {}
      <4>1. overlaps'[q] = overlaps[q] + 1
        BY <1>0, <1>3, <2>3, <3>4
      <4> QED
        BY <1>0, <2>1, <3>0, <3>1, <4>1 DEF Covered, Balances, FreeMedia
    <3> QED
      BY <3>2, <3>3, <3>4
  <2> QED
    BY <2>2, <2>3
<1> QED
  BY <1>2, <1>3 DEF Publish, AlreadyPublished, EmptyPayload, DeferOutsideWindow, ClaimJob

\* p goes on to a place where it owes no more than before.
LEMMA StaysCovered ==
  ASSUME MediaInv, [Next]_vars, NEW p \in Procs, at[p] # "idle", NEW w, NEW s, w # "idle",
         Goto(p, w, on[p], s), NEW q \in Pairs, OwesMedia(p, q)' => OwesMedia(p, q)
  PROVE  /\ Payers(q)' \subseteq Payers(q) /\ FreeMedia(q)' <= FreeMedia(q)
<1>0. TypeOK
  BY DEF MediaInv, RowInv
<1>1. job[q].com.sent => job'[q].com.sent
  BY SentStays
<1>2. /\ Payers(q)' \subseteq Payers(q) \cup {p}
      /\ ~OwesMedia(p, q)' => Payers(q)' \subseteq Payers(q) \ {p}
      /\ at'[p] = w /\ on'[p] = on[p]
      /\ \A x \in Procs \ {p} : x \in Active(q)' <=> x \in Active(q)
  BY <1>0, <1>1, MoverOwes
<1>3. Payers(q)' \subseteq Payers(q)
  <2>1. CASE ~OwesMedia(p, q)'
    BY <1>2, <2>1
  <2>2. CASE OwesMedia(p, q)'
    <3>1. p \in Payers(q)
      BY <2>2 DEF Payers
    <3> QED
      BY <1>2, <3>1
  <2> QED
    BY <2>1, <2>2
<1>4. Active(q)' = Active(q)
  <2>1. Active(q)' \subseteq Procs /\ Active(q) \subseteq Procs
    BY DEF Active
  <2>2. p \in Active(q)' <=> p \in Active(q)
    BY <1>2 DEF Active
  <2> QED
    BY <1>2, <2>1, <2>2
<1> QED
  BY <1>1, <1>3, <1>4 DEF FreeMedia

\* p is done with its pair: it gives back what it owes, has sent it, or the answer that it
\* was sent is lost.
LEMMA EndCovered ==
  ASSUME MediaInv, [Next]_vars, NEW p \in Procs, NEW gs, NEW rs, NEW js \in {"success", "failed"},
         Settle(p, gs, rs, js), at[p] \in {"send", "ack", "tail", "tailack"}, NEW q \in Pairs,
         media' = media, lostMedia'[q] >= lostMedia[q], overlaps' = overlaps,
         MediaDone(p) /\ UNCHANGED frozen =>
           js = "success" \/ lostMedia'[on[p]] = lostMedia[on[p]] + 1,
         ~frozen
  PROVE  Covered(q)
<1>0. TypeOK /\ WorkersOK /\ on[p] \in Pairs /\ overlaps[q] \in Nat /\ job \in [Pairs -> Cells(Job)]
  BY DEF MediaInv, RowInv, TypeOK, TablesOK, WorkersOK
<1>1. job[q].com.sent => job'[q].com.sent
  BY SentStays
<1>2. CASE UNCHANGED workers
  BY <1>0, <1>1, <1>2, NobodyOwes DEF Covered, Balances
<1>3. CASE Goto(p, "idle", NoPair, "text") /\ UNCHANGED frozen
  <2>1. CASE q # on[p]
    <3>1. p \notin Active(q)
      BY <2>1 DEF Active
    <3> QED
      BY <1>0, <1>1, <1>3, <3>1, OtherPair DEF Covered, Balances
  <2>2. CASE q = on[p]
    <3>0. Payers(q)' \subseteq Payers(q) \ {p}
      <4>1. at'[p] = "idle"
        BY <1>0, <1>1, <1>3, MoverOwes
      <4>2. ~OwesMedia(p, q)'
        BY <4>1 DEF OwesMedia
      <4> QED
        BY <1>0, <1>1, <1>3, <4>2, MoverOwes
    <3>1. CASE job'[q].com.sent
      <4>1. FreeMedia(q)' = 0
        BY <3>1 DEF FreeMedia
      <4> QED
        BY <1>0, <3>0, <4>1 DEF Covered, Balances, FreeMedia
    <3>2. CASE OwesMedia(p, q)
      <4>1. p \in Payers(q)
        BY <3>2 DEF Payers
      <4> QED
        BY <1>0, <3>0, <4>1 DEF Covered, Balances
    <3>3. CASE MediaDone(p) /\ js = "failed"
      BY <1>0, <1>3, <2>2, <3>0, <3>3 DEF Covered, Balances
    <3>4. js = "success" => job'[q].com.sent
      BY <1>0, <1>3, <2>2, SettleSent
    <3>5. TextOnly(p) => job'[q].com.sent
      BY <1>1, <2>2 DEF MediaInv, ResumesSent
    <3>6. OwesMedia(p, q) \/ MediaDone(p) \/ TextOnly(p)
      BY <1>0, <2>2 DEF OwesMedia, MediaDone, TextOnly, WorkersOK
    <3> QED
      BY <3>1, <3>2, <3>3, <3>4, <3>5, <3>6
  <2> QED
    BY <2>1, <2>2
<1> QED
  BY <1>2, <1>3 DEF Settle

\* A coroutine that waited keeps the accounts covered.
LEMMA ProceedCovered ==
  ASSUME MediaInv, [Next]_vars, ~frozen, NEW p \in Procs, Proceed(p), NEW q \in Pairs
  PROVE  Covered(q)
<1>0. /\ TypeOK /\ WorkersOK /\ media \in [Pairs -> Nat] /\ lostMedia \in [Pairs -> Nat]
      /\ overlaps \in [Pairs -> Nat] /\ JobOf(p, on[p]) \in Job
      /\ at[p] # "idle" /\ on[p] \in Pairs
  <2>1. TypeOK /\ at[p] # "idle"
    BY DEF MediaInv, RowInv, Proceed, RestoreMedia, Deliver, Acknowledge, SendFails, AnswerLost
  <2> QED
    BY <2>1, JobOfType DEF TypeOK, WorkersOK
<1>1. job[q].com.sent => job'[q].com.sent
  BY SentStays
<1>2. CASE RestoreMedia(p)
  <2>1. PICK s \in Shapes(JobOf(p, on[p])) : Goto(p, "send", on[p], s)
    BY <1>2 DEF RestoreMedia
  <2>2. at'[p] = "send" /\ on'[p] = on[p] /\ layout'[p] = s
    BY <1>0, <2>1 DEF Goto, WorkersOK
  <2>3. OwesMedia(p, q)' => OwesMedia(p, q)
    <3> SUFFICES ASSUME OwesMedia(p, q)' PROVE OwesMedia(p, q)
      OBVIOUS
    <3>1. on[p] = q /\ s # "resume"
      BY <2>2 DEF OwesMedia
    <3>2. ~JobOf(p, q).sent
      BY <2>1, <3>1 DEF Shapes
    <3>3. ~job[q].com.sent
      BY <3>2 DEF JobOf, View, MediaInv, SentAlike
    <3> QED
      BY <1>2, <3>1, <3>3 DEF OwesMedia, RestoreMedia
  <2>4. Payers(q)' \subseteq Payers(q) /\ FreeMedia(q)' <= FreeMedia(q)
    BY <1>0, <2>1, <2>3, StaysCovered
  <2>5. media' = media /\ lostMedia' = lostMedia /\ overlaps' = overlaps
    BY <1>2 DEF RestoreMedia, channel, lost
  <2> QED
    BY <1>0, <2>4, <2>5 DEF Covered, Balances
<1>3. CASE Deliver(p)
  <2> DEFINE w == IF at[p] = "tail" THEN "tailack" ELSE "ack"
  <2>1. Goto(p, w, on[p], layout[p]) /\ at[p] \in {"send", "tail"}
    BY <1>3 DEF Deliver
  <2>2. at'[p] = w /\ on'[p] = on[p] /\ layout'[p] = layout[p]
    BY <1>0, <2>1 DEF Goto, WorkersOK
  <2>3. OwesMedia(p, q)' => OwesMedia(p, q)
    BY <2>1, <2>2 DEF OwesMedia
  <2>4. Payers(q)' \subseteq Payers(q) /\ FreeMedia(q)' <= FreeMedia(q)
    <3>1. w # "idle"
      OBVIOUS
    <3> HIDE DEF w
    <3> QED
      BY <1>0, <2>1, <2>3, <3>1, StaysCovered
  <2>5. lostMedia' = lostMedia /\ overlaps' = overlaps
    BY <1>3 DEF Deliver, lost
  <2>6. CASE at[p] = "send" /\ layout[p] \in {"captioned", "split"} /\ on[p] = q
    <3>1. media'[q] = media[q] + 1
      BY <1>0, <1>3, <2>6 DEF Deliver
    <3>2. p \in Payers(q)
      BY <2>6 DEF Payers, OwesMedia
    <3>3. ~OwesMedia(p, q)'
      BY <2>2, <2>6 DEF OwesMedia
    <3>4. Payers(q)' \subseteq Payers(q) \ {p}
      BY <3>3, <2>4 DEF Payers
    <3> QED
      BY <1>0, <2>4, <2>5, <3>1, <3>2, <3>4 DEF Covered, Balances
  <2>7. CASE ~(at[p] = "send" /\ layout[p] \in {"captioned", "split"} /\ on[p] = q)
    <3>1. media'[q] = media[q]
      BY <1>0, <1>3, <2>7 DEF Deliver
    <3> QED
      BY <1>0, <2>4, <2>5, <3>1 DEF Covered, Balances
  <2> QED
    BY <2>6, <2>7
<1>4. CASE Acknowledge(p)
  <2>1. media' = media /\ lostMedia' = lostMedia /\ overlaps' = overlaps
    BY <1>4 DEF Acknowledge, channel, lost
  <2>2. CASE UNCHANGED workers
    <3>1. Payers(q)' \subseteq Payers(q) /\ FreeMedia(q)' <= FreeMedia(q)
      BY <1>0, <1>1, <2>2, NobodyOwes
    <3> QED
      BY <1>0, <2>1, <3>1 DEF Covered, Balances
  <2>3. CASE Goto(p, "tail", on[p], "split")
    <3>1. at'[p] = "tail"
      BY <1>0, <2>3 DEF Goto, WorkersOK
    <3>2. ~OwesMedia(p, q)'
      BY <3>1 DEF OwesMedia
    <3>3. Payers(q)' \subseteq Payers(q) /\ FreeMedia(q)' <= FreeMedia(q)
      BY <1>0, <2>3, <3>2, StaysCovered
    <3> QED
      BY <1>0, <2>1, <3>3 DEF Covered, Balances
  <2>4. CASE MarkPublished(p)
    <3>1. at[p] \in {"send", "ack", "tail", "tailack"} /\ Settle(p, "published", "published", "success")
      BY <1>4, <2>4 DEF Acknowledge, MarkPublished
    <3> QED
      BY <1>0, <2>1, <3>1, EndCovered
  <2> QED
    BY <1>4, <2>2, <2>3, <2>4 DEF Acknowledge
<1>5. CASE SendFails(p)
  <2>1. /\ Settle(p, "failed", "failed", "failed") /\ at[p] \in {"send", "tail"}
        /\ media' = media /\ lostMedia' = lostMedia /\ overlaps' = overlaps
    BY <1>5 DEF SendFails, MarkPublishFailed, channel, lost
  <2>2. ~MediaDone(p)
    BY <2>1 DEF MediaDone
  <2> QED
    BY <1>0, <2>1, <2>2, EndCovered
<1>6. CASE AnswerLost(p)
  <2>1. /\ Settle(p, "failed", "failed", "failed") /\ at[p] \in {"ack", "tailack"}
        /\ media' = media /\ overlaps' = overlaps
        /\ Forget(IF frozen' THEN {} ELSE {p})
    BY <1>6 DEF AnswerLost, MarkPublishFailed, channel
  <2>2. lostMedia'[q] >= lostMedia[q]
    BY <1>0, <2>1 DEF Forget
  <2>3. MediaDone(p) /\ UNCHANGED frozen => lostMedia'[on[p]] = lostMedia[on[p]] + 1
    <3> SUFFICES ASSUME MediaDone(p), UNCHANGED frozen
                 PROVE  lostMedia'[on[p]] = lostMedia[on[p]] + 1
      OBVIOUS
    <3>1. Forget({p})
      BY <2>1
    <3> QED
      BY <1>0, <3>1 DEF Forget
  <2> QED
    BY <1>0, <2>1, <2>2, <2>3, EndCovered
<1> QED
  BY <1>2, <1>3, <1>4, <1>5, <1>6 DEF Proceed

\* A restart forgets what was owed, and what Telegram accepted stays counted.
LEMMA RestartCovered ==
  ASSUME MediaInv, [Next]_vars, Restart, NEW q \in Pairs
  PROVE  Covered(q)
<1>0. /\ TypeOK /\ WorkersOK /\ media' = media /\ overlaps' = overlaps /\ overlaps[q] \in Nat
      /\ lostMedia[q] \in Nat
      /\ lostMedia'[q] = IF \E p \in Procs : on[p] = q /\ MediaDone(p) THEN lostMedia[q] + 1
                         ELSE lostMedia[q]
  BY DEF MediaInv, RowInv, TypeOK, Restart, Forget, channel
<1>1. Payers(q)' = {} /\ Active(q)' = {}
  <2>1. \A p \in Procs : at'[p] = "idle"
    BY DEF Restart
  <2> QED
    BY <2>1 DEF Payers, OwesMedia, Active
<1>2. job[q].com.sent => job'[q].com.sent
  BY SentStays
<1>3. CASE \E p \in Procs : on[p] = q /\ MediaDone(p)
  BY <1>0, <1>1, <1>3 DEF Covered, Balances
<1>4. CASE Payers(q) # {} /\ ~\E p \in Procs : on[p] = q /\ MediaDone(p)
  BY <1>0, <1>1, <1>4 DEF Covered, Balances
<1>5. CASE Payers(q) = {} /\ ~\E p \in Procs : on[p] = q /\ MediaDone(p)
  <2>1. ASSUME NEW p \in Active(q) PROVE job[q].com.sent
    <3>1. OwesMedia(p, q) \/ MediaDone(p) \/ TextOnly(p) \/ (at[p] = "restore" /\ job[q].com.sent)
      BY <1>0 DEF Active, OwesMedia, MediaDone, TextOnly, WorkersOK
    <3>2. p \in Procs /\ on[p] = q
      BY DEF Active
    <3> QED
      BY <1>5, <3>1, <3>2 DEF Payers, MediaInv, ResumesSent
  <2>2. FreeMedia(q)' <= FreeMedia(q)
    <3>1. CASE Active(q) = {}
      BY <1>2, <3>1 DEF FreeMedia
    <3>2. CASE Active(q) # {}
      BY <1>1, <1>2, <2>1, <3>2 DEF FreeMedia
    <3> QED
      BY <3>1, <3>2
  <2> QED
    BY <1>0, <1>1, <1>5, <2>2 DEF Covered, Balances
<1> QED
  BY <1>3, <1>4, <1>5

\* Every step keeps the accounts covered.
LEMMA StepCovered ==
  ASSUME MediaInv, [Next]_vars, NEW q \in Pairs
  PROVE  Covered(q)
<1>0. /\ TypeOK /\ lostMedia[q] \in Nat /\ overlaps[q] \in Nat /\ Sched \in Procs /\ Clicks \subseteq Procs
      /\ job[q].com.sent => job'[q].com.sent
  BY SentStays DEF MediaInv, RowInv, TypeOK, Procs
<1>1. ASSUME UNCHANGED workers, UNCHANGED <<channel, lost, overlaps>> PROVE Covered(q)
  <2>1. media' = media /\ lostMedia' = lostMedia /\ overlaps' = overlaps
    BY <1>1 DEF channel, lost
  <2> QED
    BY <1>0, <1>1, <2>1, NobodyOwes DEF Covered, Balances
<1>2. ASSUME NEW p \in Procs, Proceed(p), ~frozen PROVE Covered(q)
  BY <1>2, ProceedCovered
<1>3. CASE Scheduler
  <2>1. ASSUME NEW pr \in Pairs, RetryFailedJob(pr) \/ ProcessScheduledJob(pr) PROVE Covered(q)
    <3>1. at[Sched] = "idle" /\ UNCHANGED <<channel, lost>>
      BY <2>1 DEF RetryFailedJob, ProcessScheduledJob
    <3>2. \/ \E G, R, keep : Publish(Sched, pr, G, R, keep)
          \/ UNCHANGED <<workers, overlaps>>
      BY <2>1 DEF RetryFailedJob, ProcessScheduledJob
    <3> QED
      BY <1>0, <1>1, <3>1, <3>2, ClaimCovered
  <2>2. CASE StartRetries \/ StartScheduled \/ EndRun
    BY <1>1, <2>2 DEF StartRetries, StartScheduled, EndRun
  <2> QED
    BY <1>3, <2>1, <2>2 DEF Scheduler
<1>4. CASE Requests
  <2>1. ASSUME NEW p \in Clicks, NEW pr \in Pairs, Click(p, pr) \/ PublishRaw(p, pr)
        PROVE  Covered(q)
    <3>1. at[p] = "idle" /\ UNCHANGED <<channel, lost>>
      BY <2>1 DEF Click, PublishRaw, NoSchedule
    <3>2. \/ \E G, R, keep : Publish(p, pr, G, R, keep)
          \/ UNCHANGED <<workers, overlaps>>
      BY <2>1 DEF Click, PublishRaw
    <3> QED
      BY <1>0, <1>1, <3>1, <3>2, ClaimCovered
  <2>2. ASSUME \/ \E g \in Posts : SaveGenerated(g) \/ RejectGenerated(g)
               \/ \E r \in Raws : RejectPost(r)
               \/ \E rs \in (SUBSET Raws) \ {{}} : BulkReject(rs)
        PROVE  Covered(q)
    <3>1. UNCHANGED workers /\ UNCHANGED <<channel, lost, overlaps>>
      BY <2>2 DEF SaveGenerated, RejectGenerated, RejectPost, BulkReject, Others
    <3> QED
      BY <1>1, <3>1
  <2> QED
    BY <1>4, <2>1, <2>2 DEF Requests
<1>5. CASE Time \/ UNCHANGED vars
  BY <1>1, <1>5 DEF Time, WindowOpens, WindowCloses, vars
<1> QED
  BY <1>2, <1>3, <1>4, <1>5, RestartCovered DEF Next

\* Whoever has only the text to send has sent_message_id committed.
LEMMA ResumesStep ==
  ASSUME MediaInv, [Next]_vars
  PROVE  ResumesSent'
<1> SUFFICES ASSUME NEW x \in Procs, TextOnly(x)' PROVE job'[on'[x]].com.sent
  BY DEF ResumesSent
<1>0. TypeOK /\ WorkersOK /\ JobLocks /\ Settled /\ Sched \in Procs /\ Clicks \subseteq Procs
  BY DEF MediaInv, RowInv, TypeOK, Procs
<1>1. ASSUME at'[x] = at[x], on'[x] = on[x], layout'[x] = layout[x] PROVE job'[on'[x]].com.sent
  <2>1. TextOnly(x)
    BY <1>1 DEF TextOnly
  <2>2. on[x] \in Pairs /\ job[on[x]].com.sent
    BY <1>0, <2>1 DEF TextOnly, WorkersOK, MediaInv, ResumesSent
  <2> QED
    BY <1>1, <2>2, SentStays
<1>2. ASSUME UNCHANGED workers PROVE job'[on'[x]].com.sent
  BY <1>1, <1>2 DEF workers
<1>3. ASSUME NEW p \in Procs, NEW pr \in Pairs, NEW w, NEW s \in Shapes(JobOf(p, pr)) \cup {"text"},
             w \in {"restore", "send"}, Goto(p, w, pr, s), s = "text" \/ w = "send"
      PROVE  job'[on'[x]].com.sent
  <2>1. CASE x # p
    BY <1>0, <1>1, <1>3, <2>1, OthersStay
  <2>2. CASE x = p
    <3>1. at'[x] = w /\ on'[x] = pr /\ layout'[x] = s
      BY <1>0, <1>3, <2>2 DEF Goto, WorkersOK
    <3>2. s = "resume"
      BY <1>3, <3>1 DEF TextOnly
    <3>3. JobOf(p, pr).sent
      BY <1>3, <3>2, PublishingAssumption DEF Shapes
    <3>4. job[pr].com.sent
      BY <3>3 DEF JobOf, View, MediaInv, SentAlike
    <3> QED
      BY <3>1, <3>4, SentStays
  <2> QED
    BY <2>1, <2>2
<1>4. ASSUME NEW p \in Procs, NEW pr \in Pairs, NEW G, NEW R, NEW keep, Publish(p, pr, G, R, keep)
      PROVE  job'[on'[x]].com.sent
  <2>1. CASE UNCHANGED workers
    BY <1>2, <2>1
  <2>2. CASE Goto(p, "restore", pr, "text")
    BY <1>3, <2>2
  <2>3. ASSUME NEW s \in Shapes(JobOf(p, pr)), Goto(p, "send", pr, s)
        PROVE  job'[on'[x]].com.sent
    BY <1>3, <2>3
  <2> QED
    BY <1>4, <2>1, <2>2, <2>3
    DEF Publish, AlreadyPublished, EmptyPayload, DeferOutsideWindow, ClaimJob
<1>5. ASSUME NEW p \in Procs, Goto(p, "idle", NoPair, "text") PROVE job'[on'[x]].com.sent
  <2>1. x # p
    BY <1>0, <1>5 DEF Goto, WorkersOK, TextOnly
  <2> QED
    BY <1>0, <1>1, <1>5, <2>1 DEF Goto, WorkersOK
<1>6. ASSUME NEW p \in Procs, Proceed(p) PROVE job'[on'[x]].com.sent
  <2>0. on[p] \in Pairs /\ at[p] # "idle" /\ JobOf(p, on[p]) \in Job
    <3>1. at[p] # "idle"
      BY <1>6 DEF Proceed, RestoreMedia, Deliver, Acknowledge, SendFails, AnswerLost
    <3>2. on[p] \in Pairs
      BY <1>0, <3>1 DEF WorkersOK
    <3>3. JobOf(p, on[p]) \in Job
      BY <1>0, <3>2, JobOfType DEF TypeOK
    <3> QED
      BY <3>1, <3>2, <3>3
  <2>1. CASE RestoreMedia(p)
    BY <1>3, <2>0, <2>1 DEF RestoreMedia
  <2>2. CASE Deliver(p)
    <3>1. CASE x # p
      BY <1>0, <1>1, <2>0, <2>2, <3>1, OthersStay DEF Deliver
    <3>2. CASE x = p
      <4>1. /\ at'[x] = IF at[p] = "tail" THEN "tailack" ELSE "ack"
            /\ on'[x] = on[p] /\ layout'[x] = layout[p]
        BY <1>0, <2>2, <3>2 DEF Deliver, Goto, WorkersOK
      <4>2. TextOnly(p)
        BY <2>0, <3>2, <4>1 DEF TextOnly
      <4>3. job[on[p]].com.sent
        BY <4>2 DEF MediaInv, ResumesSent
      <4> QED
        BY <2>0, <4>1, <4>3, SentStays
    <3> QED
      BY <3>1, <3>2
  <2>3. CASE Acknowledge(p) /\ Goto(p, "tail", on[p], "split") /\ at[p] = "ack"
    <3>1. CASE x # p
      BY <1>0, <1>1, <2>0, <2>3, <3>1, OthersStay
    <3>2. CASE x = p
      <4> DEFINE v == [JobOf(p, on[p]) EXCEPT !.sent = TRUE]
      <4>0. v.sent
        BY <2>0 DEF Job
      <4>1. Free(job[on[p]], p) /\ job' = Commit([job EXCEPT ![on[p]] = Put(@, p, v)], p)
        <5>1. ~MarkPublished(p)
          BY <1>0, <2>3 DEF MarkPublished, Settle, Goto, WorkersOK, workers
        <5>2. UNCHANGED workers => FALSE
          BY <1>0, <2>3 DEF workers, Goto, WorkersOK
        <5> QED
          BY <2>3, <5>1, <5>2 DEF Acknowledge, CommitAll
      <4> HIDE DEF v
      <4>2. job'[on[p]].com = v
        BY <1>0, <2>0, <4>1, CommittedWrite
      <4>3. on'[x] = on[p]
        BY <1>0, <2>3, <3>2 DEF Goto, WorkersOK
      <4> QED
        BY <4>0, <4>2, <4>3
    <3> QED
      BY <3>1, <3>2
  <2>4. ASSUME NEW gs, NEW rs, NEW js, Settle(p, gs, rs, js) PROVE job'[on'[x]].com.sent
    BY <1>2, <1>5, <2>4 DEF Settle
  <2> QED
    BY <1>2, <1>6, <2>1, <2>2, <2>3, <2>4
    DEF Proceed, Acknowledge, SendFails, AnswerLost, MarkPublished, MarkPublishFailed
<1>7. CASE Scheduler
  <2>1. ASSUME NEW pr \in Pairs, RetryFailedJob(pr) \/ ProcessScheduledJob(pr)
        PROVE  UNCHANGED workers \/ \E G, R, keep : Publish(Sched, pr, G, R, keep)
    BY <2>1 DEF RetryFailedJob, ProcessScheduledJob
  <2> QED
    BY <1>0, <1>2, <1>4, <1>7, <2>1 DEF Scheduler, StartRetries, StartScheduled, EndRun
<1>8. CASE Requests
  <2>1. ASSUME NEW p \in Clicks, NEW pr \in Pairs, Click(p, pr) \/ PublishRaw(p, pr)
        PROVE  UNCHANGED workers \/ \E G, R, keep : Publish(p, pr, G, R, keep)
    BY <2>1 DEF Click, PublishRaw
  <2> QED
    BY <1>0, <1>2, <1>4, <1>8, <2>1
    DEF Requests, SaveGenerated, RejectGenerated, RejectPost, BulkReject, Others
<1>9. CASE Time \/ UNCHANGED vars
  BY <1>2, <1>9 DEF Time, WindowOpens, WindowCloses, vars
<1>10. CASE Restart
  BY <1>10 DEF Restart, TextOnly
<1> QED
  BY <1>6, <1>7, <1>8, <1>9, <1>10 DEF Next

LEMMA MediaInit == Init => MediaInv /\ MediaCredit
<1> SUFFICES ASSUME Init PROVE MediaInv /\ MediaCredit
  OBVIOUS
<1>1. RowInv
  BY RowInit
<1>2. JobsInOrder /\ SentAlike
  <2>1. \A q \in Pairs : job[q].com = NoJob /\ job[q].cur = NoJob
    BY DEF Init, Row
  <2>2. NoJob.attempts = 0
    BY DEF NoJob
  <2> QED
    BY <2>1, <2>2 DEF JobsInOrder, Newer, SentAlike
<1>3. ResumesSent
  BY DEF Init, ResumesSent, TextOnly
<1>4. MediaCredit
  <2> SUFFICES ASSUME NEW q \in Pairs
               PROVE  media[q] + Cardinality(Payers(q)) + FreeMedia(q) <= 1 + lostMedia[q] + overlaps[q]
    BY DEF MediaCredit
  <2>1. Payers(q) = {} /\ FreeMedia(q) \in {0, 1}
    BY DEF Init, Payers, OwesMedia, FreeMedia
  <2>2. Cardinality(Payers(q)) = 0
    BY <2>1, FS_EmptySet
  <2>3. media[q] = 0 /\ lostMedia[q] = 0 /\ overlaps[q] = 0
    BY DEF Init
  <2> QED
    BY <2>1, <2>2, <2>3
<1> QED
  BY <1>1, <1>2, <1>3, <1>4 DEF MediaInv

LEMMA MediaStep ==
  ASSUME MediaInv, [Next]_vars
  PROVE  MediaInv'
<1>1. RowInv' /\ JobsInOrder'
  BY RowStep, StepWrites, WritesAdvance DEF MediaInv, RowInv
<1>2. SentAlike'
  BY SentStays DEF SentAlike
<1> QED
  BY <1>1, <1>2, ResumesStep DEF MediaInv

LEMMA CreditStep ==
  ASSUME IsFiniteSet(Procs), MediaInv, MediaCredit, [Next]_vars
  PROVE  MediaCredit'
<1> SUFFICES ASSUME NEW q \in Pairs
             PROVE  media'[q] + Cardinality(Payers(q)') + FreeMedia(q)' <= 1 + lostMedia'[q] + overlaps'[q]
  BY DEF MediaCredit
<1>1. /\ media[q] \in Nat /\ lostMedia[q] \in Nat /\ overlaps[q] \in Nat
      /\ media'[q] \in Nat /\ lostMedia'[q] \in Nat /\ overlaps'[q] \in Nat
  <2>1. TypeOK /\ TypeOK'
    BY TypeStep DEF MediaInv, RowInv
  <2> QED
    BY <2>1 DEF TypeOK
<1>2. /\ Payers(q) \in SUBSET Procs /\ Payers(q)' \in SUBSET Procs
      /\ FreeMedia(q) \in {0, 1} /\ FreeMedia(q)' \in {0, 1}
  BY DEF Payers, FreeMedia
<1>3. Covered(q)
  BY StepCovered
<1>4. media[q] + Cardinality(Payers(q)) + FreeMedia(q) <= 1 + lostMedia[q] + overlaps[q]
  BY DEF MediaCredit
<1> DEFINE S == Payers(q)
           T == Payers(q)'
           f == FreeMedia(q)
           e == FreeMedia(q)'
           m == media[q]
           n == media'[q]
           l == lostMedia[q]
           k == lostMedia'[q]
           o == overlaps[q]
           u == overlaps'[q]
<1>5. S \in SUBSET Procs /\ T \in SUBSET Procs
  BY <1>2
<1>7. f \in {0, 1} /\ e \in {0, 1}
  BY <1>2
<1>a. m \in Nat /\ n \in Nat /\ l \in Nat /\ k \in Nat /\ o \in Nat /\ u \in Nat
  BY <1>1
<1>6. m + Cardinality(S) + f <= 1 + l + o
  BY <1>4
<1>8. Balances(S, T, m, n, l, k, o, u, f, e)
  BY <1>3 DEF Covered
<1> HIDE DEF S, T, f, e, m, n, l, k, o, u
<1>9. n + Cardinality(T) + e <= 1 + k + u
  <2>0. IsFiniteSet(S) /\ Cardinality(S) \in Nat
    BY <1>5, FS_Subset, FS_CardinalityType
  <2>1. IsFiniteSet(T) /\ Cardinality(T) \in Nat
    BY <1>5, FS_Subset, FS_CardinalityType
  <2>2. T \subseteq S => Cardinality(T) <= Cardinality(S)
    BY <2>0, FS_Subset
  <2>3. ASSUME NEW p \in S, T \subseteq S \ {p} PROVE Cardinality(T) <= Cardinality(S) - 1
    <3>1. IsFiniteSet(S \ {p}) /\ Cardinality(S \ {p}) = Cardinality(S) - 1
      BY <2>0, FS_RemoveElement
    <3> QED
      BY <2>3, <3>1, FS_Subset
  <2>4. ASSUME NEW p, T \subseteq S \cup {p} PROVE Cardinality(T) <= Cardinality(S) + 1
    <3>1. IsFiniteSet(S \cup {p}) /\ Cardinality(S \cup {p}) \in {Cardinality(S), Cardinality(S) + 1}
      BY <2>0, FS_AddElement
    <3>2. Cardinality(T) <= Cardinality(S \cup {p})
      BY <2>4, <3>1, FS_Subset
    <3> QED
      BY <2>0, <2>1, <3>1, <3>2
  <2>5. (\E p \in S : T \subseteq S \ {p}) => Cardinality(T) <= Cardinality(S) - 1
    BY <2>3
  <2>6. (\E p : T \subseteq S \cup {p}) => Cardinality(T) <= Cardinality(S) + 1
    BY <2>4
  <2> DEFINE c == Cardinality(S)
             d == Cardinality(T)
  <2>7. c \in Nat /\ d \in Nat /\ m + c + f <= 1 + l + o /\ k >= l /\ u >= o
    BY <1>6, <1>8, <2>0, <2>1 DEF Balances
  <2>8. CASE n = m /\ T \subseteq S /\ e <= f
    <3>1. d <= c
      BY <2>2, <2>8
    <3> HIDE DEF c, d
    <3>2. n + d + e <= 1 + k + u
      BY <1>7, <1>a, <2>7, <2>8, <3>1
    <3> QED
      BY <3>2 DEF d
  <2>9. CASE n = m /\ \E p \in S : T \subseteq S \ {p}
    <3>1. d <= c - 1
      BY <2>5, <2>9
    <3> HIDE DEF c, d
    <3>2. n + d + e <= 1 + k + u
      BY <1>7, <1>a, <2>7, <2>9, <3>1
    <3> QED
      BY <3>2 DEF d
  <2>10. CASE n = m + 1 /\ e <= f /\ \E p \in S : T \subseteq S \ {p}
    <3>1. d <= c - 1
      BY <2>5, <2>10
    <3> HIDE DEF c, d
    <3>2. n + d + e <= 1 + k + u
      BY <1>7, <1>a, <2>7, <2>10, <3>1
    <3> QED
      BY <3>2 DEF d
  <2>11. CASE n = m /\ T \subseteq S /\ k = l + 1
    <3>1. d <= c
      BY <2>2, <2>11
    <3> HIDE DEF c, d
    <3>2. n + d + e <= 1 + k + u
      BY <1>7, <1>a, <2>7, <2>11, <3>1
    <3> QED
      BY <3>2 DEF d
  <2>12. CASE /\ n = m /\ \E p : T \subseteq S \cup {p}
              /\ \/ f = 1 /\ e = 0
                 \/ u = o + 1 /\ e <= f
    <3>1. d <= c + 1
      BY <2>6, <2>12
    <3> HIDE DEF c, d
    <3>2. n + d + e <= 1 + k + u
      BY <1>7, <1>a, <2>7, <2>12, <3>1
    <3> QED
      BY <3>2 DEF d
  <2> QED
    BY <1>8, <2>8, <2>9, <2>10, <2>11, <2>12 DEF d, Balances
<1> USE DEF T, e, n, k, u
<1> QED
  BY <1>9

\* However many coroutines, retries, deferrals and restarts there are, media too many in a
\* channel have a delivery nobody recorded or an overlapping claim behind them: a text that
\* failed does not send the pictures again.
THEOREM NoUnaccountedMedia ==
  ASSUME IsFiniteSet(Procs)
  PROVE  Spec => []MediaAccountedFor
<1>1. MediaInv /\ [Next]_vars => MediaInv'
  BY MediaStep
<1>2. MediaInv /\ MediaCredit /\ [Next]_vars => MediaCredit'
  BY CreditStep
<1>3. MediaInv /\ MediaCredit => MediaAccountedFor
  <2> SUFFICES ASSUME MediaInv, MediaCredit, NEW q \in Pairs
               PROVE  media[q] <= 1 + lostMedia[q] + overlaps[q]
    BY DEF MediaAccountedFor
  <2>1. IsFiniteSet(Payers(q))
    BY FS_Subset DEF Payers
  <2>2. Cardinality(Payers(q)) \in Nat
    BY <2>1, FS_CardinalityType
  <2>3. media[q] + Cardinality(Payers(q)) + FreeMedia(q) <= 1 + lostMedia[q] + overlaps[q]
    BY DEF MediaCredit
  <2>4. media[q] \in Nat /\ lostMedia[q] \in Nat /\ overlaps[q] \in Nat /\ FreeMedia(q) \in {0, 1}
    BY DEF MediaInv, RowInv, TypeOK, FreeMedia
  <2> QED
    BY <2>2, <2>3, <2>4
<1> QED
  BY MediaInit, <1>1, <1>2, <1>3, PTL DEF Spec

-----------------------------------------------------------------------------
(* At most once.                                                            *)

\* A coroutine begins with a pair only when nobody is at it.
InTurn == \A p \in Procs, q \in Pairs :
  at[p] = "idle" /\ at'[p] # "idle" /\ on'[p] = q => Active(q) = {}

\* No delivery was lost and no claim joined another.
NothingToAccount == \A q \in Pairs : lostTexts[q] = 0 /\ lostMedia[q] = 0 /\ overlaps[q] = 0

LEMMA PublishInTurn ==
  ASSUME TypeOK, InTurn, NEW p \in Procs, NEW q \in Pairs, at[p] = "idle", NEW G, NEW R,
         NEW keep \in BOOLEAN, Publish(p, q, G, R, keep)
  PROVE  overlaps' = overlaps
<1>1. CASE AlreadyPublished(p, q, G, R) \/ EmptyPayload(p, q, G, R, keep)
           \/ DeferOutsideWindow(p, q, G, R)
  BY <1>1 DEF AlreadyPublished, EmptyPayload, DeferOutsideWindow
<1>2. CASE ClaimJob(p, q, G, R)
  <2>1. CASE Active(q) = {} \/ ~Free(job[q], p)
    BY <1>2, <2>1 DEF ClaimJob
  <2>2. CASE Free(job[q], p)
    <3>1. \E w \in {"restore", "send"} : \E s : Goto(p, w, q, s)
      BY <1>2, <2>2 DEF ClaimJob
    <3>2. at'[p] # "idle" /\ on'[p] = q
      BY <3>1 DEF Goto, TypeOK, WorkersOK
    <3>3. Active(q) = {}
      BY <3>2 DEF InTurn
    <3> QED
      BY <2>1, <3>3
  <2> QED
    BY <2>1, <2>2
<1> QED
  BY <1>1, <1>2 DEF Publish

LEMMA NothingStep ==
  ASSUME PublishingAssumption, ~Lossy, MaxRestarts = 0, TypeOK, InTurn, [Next]_vars
  PROVE  UNCHANGED <<lostTexts, lostMedia, overlaps>>
<1>1. ASSUME NEW p \in Procs, Proceed(p) PROVE UNCHANGED <<lostTexts, lostMedia, overlaps>>
  BY <1>1 DEF Proceed, RestoreMedia, Deliver, Acknowledge, SendFails, AnswerLost, lost
<1>2. ASSUME Scheduler PROVE UNCHANGED <<lostTexts, lostMedia, overlaps>>
  <2>1. ASSUME NEW q \in Pairs, RetryFailedJob(q) PROVE overlaps' = overlaps
    BY <2>1, PublishInTurn DEF RetryFailedJob, Procs
  <2>2. ASSUME NEW q \in Pairs, ProcessScheduledJob(q) PROVE overlaps' = overlaps
    BY <2>2, PublishInTurn DEF ProcessScheduledJob, Procs
  <2>3. ASSUME NEW q \in Pairs, RetryFailedJob(q) \/ ProcessScheduledJob(q) PROVE UNCHANGED lost
    BY <2>3 DEF RetryFailedJob, ProcessScheduledJob
  <2>4. ASSUME StartRetries \/ StartScheduled \/ EndRun PROVE UNCHANGED <<lost, overlaps>>
    BY <2>4 DEF StartRetries, StartScheduled, EndRun
  <2> QED
    BY <1>2, <2>1, <2>2, <2>3, <2>4 DEF Scheduler, lost
<1>3. ASSUME Requests PROVE UNCHANGED <<lostTexts, lostMedia, overlaps>>
  <2>1. ASSUME NEW p \in Clicks, NEW q \in Pairs, Click(p, q) PROVE overlaps' = overlaps
    BY <2>1, PublishInTurn DEF Click, Procs
  <2>2. ASSUME NEW p \in Clicks, NEW q \in Pairs, PublishRaw(p, q) PROVE overlaps' = overlaps
    BY <2>2, PublishInTurn DEF PublishRaw, Procs
  <2>3. ASSUME NEW p \in Clicks, NEW q \in Pairs, Click(p, q) \/ PublishRaw(p, q)
        PROVE  UNCHANGED lost
    BY <2>3 DEF Click, PublishRaw, NoSchedule
  <2>4. ASSUME NEW g \in Posts, SaveGenerated(g) \/ RejectGenerated(g)
        PROVE  UNCHANGED <<lost, overlaps>>
    BY <2>4 DEF SaveGenerated, RejectGenerated, Others
  <2>5. ASSUME NEW r \in Raws, RejectPost(r) PROVE UNCHANGED <<lost, overlaps>>
    BY <2>5 DEF RejectPost, Others
  <2>6. ASSUME NEW rs \in (SUBSET Raws) \ {{}}, BulkReject(rs) PROVE UNCHANGED <<lost, overlaps>>
    BY <2>6 DEF BulkReject, Others
  <2> QED
    BY <1>3, <2>1, <2>2, <2>3, <2>4, <2>5, <2>6 DEF Requests, lost
<1>4. ASSUME Time PROVE UNCHANGED <<lostTexts, lostMedia, overlaps>>
  BY <1>4 DEF Time, WindowOpens, WindowCloses, lost
<1>5. ASSUME Restart PROVE FALSE
  BY <1>5 DEF Restart, TypeOK
<1>6. ASSUME UNCHANGED vars PROVE UNCHANGED <<lostTexts, lostMedia, overlaps>>
  BY <1>6 DEF vars, lost
<1> QED
  BY <1>1, <1>2, <1>3, <1>4, <1>5, <1>6 DEF Next

\* publish_generated_post as the operator sees it: while every answer of Telegram arrives,
\* the process lives and each pair is in one hand at a time, a channel gets the text and
\* the media of a post at most once, through all retries, deferrals, rejections, edits
\* and texts that failed after their media.
THEOREM PublishedOnce ==
  ASSUME IsFiniteSet(Procs), ~Lossy, MaxRestarts = 0
  PROVE  Spec /\ [][InTurn]_vars => [](\A q \in Pairs : texts[q] <= 1 /\ media[q] <= 1)
<1>1. Init => NothingToAccount
  BY DEF Init, NothingToAccount
<1>2. TypeOK /\ NothingToAccount /\ [Next]_vars /\ [InTurn]_vars => NothingToAccount'
  <2>1. CASE UNCHANGED vars
    BY <2>1 DEF vars, lost, NothingToAccount
  <2>2. CASE InTurn
    BY <2>2, NothingStep, PublishingAssumption DEF NothingToAccount
  <2> QED
    BY <2>1, <2>2
<1>3. /\ TypeOK /\ NothingToAccount /\ DuplicatesAccountedFor /\ MediaAccountedFor
      => \A q \in Pairs : texts[q] <= 1 /\ media[q] <= 1
  BY DEF NothingToAccount, DuplicatesAccountedFor, MediaAccountedFor, TypeOK
<1>4. Spec => []DuplicatesAccountedFor /\ []MediaAccountedFor
  BY NoUnaccountedDuplicates, NoUnaccountedMedia
<1> QED
  BY <1>1, <1>2, <1>3, <1>4, PublishingTypeCorrect, PTL DEF Spec

=============================================================================
