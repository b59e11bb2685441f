--------------------------- MODULE PublishingProofs ---------------------------
(***************************************************************************)
(* Publishing for every number of posts, channels, coroutines, attempts    *)
(* and restarts: the types, the owners of the row locks on jobs, the       *)
(* refinement of the ledger of deliveries, and what follows from it.       *)
(***************************************************************************)
EXTENDS Publishing, TLAPS

-----------------------------------------------------------------------------
(* Rows and tables.                                                        *)

\* What a session reads of a row is one of the row's values.
LEMMA ViewType ==
  ASSUME NEW S, NEW c \in Cells(S), NEW p
  PROVE  View(c, p) \in S
BY DEF Cells, View

\* A write to a row leaves a row.
LEMMA PutType ==
  ASSUME NEW S, NEW c \in Cells(S), NEW p \in Procs, NEW v \in S
  PROVE  Put(c, p, v) \in Cells(S)
BY DEF Cells, Put

\* A row without a lock.
LEMMA RowType ==
  ASSUME NEW S, NEW v \in S
  PROVE  Row(v) \in Cells(S)
BY DEF Cells, Row

\* The commit of a session leaves a table.
LEMMA CommitType ==
  ASSUME NEW D, NEW S, NEW T \in [D -> Cells(S)], NEW p
  PROVE  Commit(T, p) \in [D -> Cells(S)]
BY DEF Cells, Commit, Release, Row

\* So does the rollback of all of them.
LEMMA RollbackType ==
  ASSUME NEW D, NEW S, NEW T \in [D -> Cells(S)]
  PROVE  Rollback(T) \in [D -> Cells(S)]
BY DEF Cells, Rollback, Row

\* A write to a row followed by the writer's commit is what everybody reads afterwards.
LEMMA Written ==
  ASSUME NEW S, NEW c \in Cells(S), NEW p \in Procs, NEW v \in S, Free(c, p)
  PROVE  Release(Put(c, p, v), p).com = v /\ Release(Put(c, p, v), p).by = NoProc
<1> DEFINE d == Put(c, p, v)
<1>1. c \in Cells(S) /\ d \in Cells(S)
  BY PutType
<1>2. d.by = p => d.cur = v
  BY <1>1, PublishingAssumption DEF Put, View, Cells
<1>3. d.by # p => d.com = v /\ d.by = NoProc
  BY <1>1, PublishingAssumption DEF Put, View, Cells, Free
<1>4. CASE d.by = p
  BY <1>2, <1>4 DEF Release, Row
<1>5. CASE d.by # p
  BY <1>3, <1>5 DEF Release
<1> QED BY <1>4, <1>5

\* The commit of a session that holds no row changes nothing.
LEMMA NothingToCommit ==
  ASSUME NEW S, NEW D, NEW T \in [D -> Cells(S)], NEW p, \A x \in D : T[x].by # p
  PROVE  Commit(T, p) = T
BY DEF Commit, Release

LEMMA NothingToUndo ==
  ASSUME NEW S, NEW D, NEW T \in [D -> Cells(S)], NEW p, \A x \in D : T[x].by # p
  PROVE  Undo(T, p) = T
BY DEF Undo, Withdraw

LEMMA UndoType ==
  ASSUME NEW S, NEW D, NEW T \in [D -> Cells(S)], NEW p
  PROVE  Undo(T, p) \in [D -> Cells(S)]
BY DEF Undo, Withdraw, Cells, Row

-----------------------------------------------------------------------------
(* Types.                                                                  *)

\* The three tables after a commit.
LEMMA CommitAllType ==
  ASSUME NEW p, NEW G \in [Posts -> Cells(GenStatus)], NEW R \in [Raws -> Cells(RawStatus)],
         NEW J \in [Pairs -> Cells(Job)], CommitAll(p, G, R, J)
  PROVE  TablesOK'
BY CommitType DEF CommitAll, TablesOK

\* A coroutine moves.
LEMMA GotoType ==
  ASSUME WorkersOK, NEW p \in Procs,
         NEW where \in {"idle", "restore", "send", "ack", "tail", "tailack"},
         NEW pr \in Pairs \cup {NoPair}, where # "idle" => pr \in Pairs,
         NEW what \in {"text", "captioned", "split", "resume"}, Goto(p, where, pr, what)
  PROVE  WorkersOK'
BY DEF WorkersOK, Goto

\* What a session reads of a job.
LEMMA JobOfType ==
  ASSUME TablesOK, NEW p, NEW pr \in Pairs
  PROVE  JobOf(p, pr) \in Job
BY ViewType DEF TablesOK, JobOf

\* The layouts of a send.
LEMMA ShapesType ==
  ASSUME NEW j, NEW s \in Shapes(j)
  PROVE  s \in {"text", "captioned", "split", "resume"}
BY PublishingAssumption DEF Shapes

\* The written values are jobs.
LEMMA WrittenJobs ==
  ASSUME NEW j \in Job
  PROVE  Deferred(j) \in Job /\ Claimed(j) \in Job
<1>1. j.attempts \in Nat /\ j.attempts + 1 \in Nat
  BY DEF Job
<1>2. Deferred(j) \in Job
  BY DEF Deferred, Job, JobStatus
<1>3. Claimed(j) \in Job
  BY <1>1 DEF Claimed, Job, JobStatus
<1> QED BY <1>2, <1>3

\* publish_generated_post up to its first await keeps the types.
LEMMA PublishType ==
  ASSUME TypeOK, NEW p \in Procs, NEW pr \in Pairs, NEW keep,
         NEW G \in [Posts -> Cells(GenStatus)], NEW R \in [Raws -> Cells(RawStatus)],
         Publish(p, pr, G, R, keep)
  PROVE  TablesOK' /\ WorkersOK' /\ due' \subseteq Pairs /\ frozen' \in BOOLEAN
         /\ overlaps' \in [Pairs -> Nat]
<1>0. JobOf(p, pr) \in Job /\ job \in [Pairs -> Cells(Job)] /\ pr[1] \in Posts
  BY JobOfType DEF TypeOK, TablesOK, Pairs
<1>1. CASE AlreadyPublished(p, pr, G, R)
  BY <1>0, <1>1, CommitAllType DEF AlreadyPublished, TypeOK, WorkersOK, workers
<1>2. CASE EmptyPayload(p, pr, G, R, keep)
  <2>1. TablesOK'
    <3>1. CASE keep
      BY <1>0, <1>2, <3>1, CommitAllType DEF EmptyPayload
    <3>2. CASE ~keep
      BY <1>0, <1>2, <3>2 DEF EmptyPayload, TablesOK
    <3> QED BY <3>1, <3>2
  <2> QED BY <1>2, <2>1 DEF EmptyPayload, TypeOK, WorkersOK, workers
<1>3. CASE DeferOutsideWindow(p, pr, G, R)
  <2>1. CASE Free(job[pr], p) /\ Free(G[pr[1]], p)
    <3>1. [G EXCEPT ![pr[1]] = Put(@, p, "scheduled")] \in [Posts -> Cells(GenStatus)]
      BY <1>0, PutType DEF GenStatus
    <3>2. [job EXCEPT ![pr] = Put(@, p, Deferred(JobOf(p, pr)))] \in [Pairs -> Cells(Job)]
      BY <1>0, PutType, WrittenJobs
    <3>3. TablesOK'
      BY <1>3, <2>1, <3>1, <3>2, CommitAllType DEF DeferOutsideWindow
    <3> QED BY <1>3, <2>1, <3>3 DEF DeferOutsideWindow, TypeOK, WorkersOK, workers
  <2>2. CASE ~(Free(job[pr], p) /\ Free(G[pr[1]], p))
    BY <1>0, <1>3, <2>2 DEF DeferOutsideWindow, TypeOK, TablesOK, WorkersOK, workers
  <2> QED BY <2>1, <2>2
<1>4. CASE ClaimJob(p, pr, G, R)
  <2>1. CASE Free(job[pr], p)
    <3>1. [job EXCEPT ![pr] = Put(@, p, Claimed(JobOf(p, pr)))] \in [Pairs -> Cells(Job)]
      BY <1>0, PutType, WrittenJobs
    <3>2. TablesOK'
      BY <1>4, <2>1, <3>1 DEF ClaimJob, TablesOK
    <3>3. WorkersOK'
      <4>1. CASE Goto(p, "restore", pr, "text")
        BY <4>1, GotoType DEF TypeOK
      <4>2. ASSUME NEW s \in Shapes(JobOf(p, pr)), Goto(p, "send", pr, s) PROVE WorkersOK'
        BY <4>2, GotoType, ShapesType DEF TypeOK
      <4> QED BY <1>4, <2>1, <4>1, <4>2 DEF ClaimJob
    <3> QED BY <1>4, <2>1, <3>2, <3>3 DEF ClaimJob, TypeOK
  <2>2. CASE ~Free(job[pr], p)
    BY <1>0, <1>4, <2>2 DEF ClaimJob, TypeOK, TablesOK, WorkersOK, workers
  <2> QED BY <2>1, <2>2
<1> QED BY <1>1, <1>2, <1>3, <1>4 DEF Publish

\* The end of a publication keeps the types.
LEMMA SettleType ==
  ASSUME TypeOK, NEW p \in Procs, at[p] # "idle",
         NEW gs \in GenStatus, NEW rs \in RawStatus, NEW js \in JobStatus,
         Settle(p, gs, rs, js)
  PROVE  TablesOK' /\ WorkersOK' /\ frozen' \in BOOLEAN
<1> DEFINE pr == on[p]
           done == [JobOf(p, pr) EXCEPT !.status = js, !.sent = @ \/ js = "success"]
           free == /\ Free(gen[pr[1]], p) /\ Free(raw[RawOf[pr[1]]], p) /\ Free(job[pr], p)
<1>1. pr \in Pairs /\ pr[1] \in Posts /\ RawOf[pr[1]] \in Raws
  BY PublishingAssumption DEF TypeOK, WorkersOK, Pairs
<1>2. done \in Job
  BY <1>1, JobOfType DEF TypeOK, Job
<1>3. CASE free
  <2>1. [gen EXCEPT ![pr[1]] = Put(@, p, gs)] \in [Posts -> Cells(GenStatus)]
    BY <1>1, PutType DEF TypeOK, TablesOK
  <2>2. [raw EXCEPT ![RawOf[pr[1]]] = Put(@, p, rs)] \in [Raws -> Cells(RawStatus)]
    BY <1>1, PutType DEF TypeOK, TablesOK
  <2>3. [job EXCEPT ![pr] = Put(@, p, done)] \in [Pairs -> Cells(Job)]
    BY <1>1, <1>2, PutType DEF TypeOK, TablesOK
  <2>4. TablesOK'
    BY <1>3, <2>1, <2>2, <2>3, CommitAllType DEF Settle
  <2>5. WorkersOK'
    BY <1>3, GotoType DEF Settle, TypeOK
  <2> QED BY <1>3, <2>4, <2>5 DEF Settle, TypeOK
<1>4. CASE ~free
  BY <1>4 DEF Settle, TypeOK, TablesOK, WorkersOK, tables, workers
<1> QED BY <1>3, <1>4

\* The losses are counted in numbers.
LEMMA ForgetType ==
  ASSUME TypeOK, NEW S, Forget(S)
  PROVE  lostTexts' \in [Pairs -> Nat] /\ lostMedia' \in [Pairs -> Nat]
BY DEF Forget, TypeOK

\* A coroutine that goes on keeps the types.
LEMMA ProceedType ==
  ASSUME TypeOK, NEW p \in Procs, Proceed(p)
  PROVE  TypeOK'
<1>0. at[p] # "idle" /\ on[p] \in Pairs
  BY DEF Proceed, RestoreMedia, Deliver, Acknowledge, SendFails, AnswerLost, TypeOK, WorkersOK
<1>1. CASE RestoreMedia(p)
  <2>1. TablesOK'
    BY <1>1, CommitAllType DEF RestoreMedia, TypeOK, TablesOK, tables
  <2>2. PICK s \in Shapes(JobOf(p, on[p])) : Goto(p, "send", on[p], s)
    BY <1>1 DEF RestoreMedia
  <2>3. WorkersOK'
    BY <1>0, <2>2, ShapesType, GotoType DEF TypeOK
  <2> QED BY <1>1, <2>1, <2>3 DEF RestoreMedia, TypeOK, clock, run, channel, lost
<1>2. CASE Deliver(p)
  <2>1. WorkersOK'
    <3>1. layout[p] \in {"text", "captioned", "split", "resume"}
      BY DEF TypeOK, WorkersOK
    <3>2. PICK w \in {"ack", "tailack"} : Goto(p, w, on[p], layout[p])
      BY <1>2 DEF Deliver
    <3> QED BY <1>0, <3>1, <3>2, GotoType DEF TypeOK
  <2>2. TablesOK'
    BY <1>2 DEF Deliver, TypeOK, TablesOK, tables
  <2> QED BY <1>0, <1>2, <2>1, <2>2 DEF Deliver, TypeOK, clock, run, lost
<1>3. CASE Acknowledge(p)
  <2>1. TablesOK' /\ WorkersOK' /\ frozen' \in BOOLEAN
    <3>1. CASE at[p] = "ack" /\ layout[p] = "split" /\ ~MarkPublished(p)
      <4> DEFINE j == [JobOf(p, on[p]) EXCEPT !.sent = TRUE]
      <4>1. j \in Job
        BY <1>0, JobOfType DEF TypeOK, Job
      <4>2. [job EXCEPT ![on[p]] = Put(@, p, j)] \in [Pairs -> Cells(Job)]
        BY <1>0, <4>1, PutType DEF TypeOK, TablesOK
      <4>3. CASE Free(job[on[p]], p)
        <5>1. TablesOK'
          BY <1>3, <3>1, <4>2, <4>3, CommitAllType DEF Acknowledge, TypeOK, TablesOK
        <5>2. WorkersOK'
          BY <1>0, <1>3, <3>1, <4>3, GotoType DEF Acknowledge, TypeOK
        <5> QED BY <1>3, <3>1, <4>3, <5>1, <5>2 DEF Acknowledge, TypeOK
      <4>4. CASE ~Free(job[on[p]], p)
        BY <1>3, <3>1, <4>4 DEF Acknowledge, TypeOK, TablesOK, WorkersOK, tables, workers
      <4> QED BY <4>3, <4>4
    <3>2. CASE MarkPublished(p)
      BY <1>0, <3>2, SettleType DEF MarkPublished, GenStatus, RawStatus, JobStatus
    <3> QED BY <1>3, <3>1, <3>2 DEF Acknowledge
  <2> QED BY <1>3, <2>1 DEF Acknowledge, TypeOK, clock, run, channel, lost
<1>4. CASE SendFails(p)
  <2>1. TablesOK' /\ WorkersOK' /\ frozen' \in BOOLEAN
    BY <1>0, <1>4, SettleType DEF SendFails, MarkPublishFailed, GenStatus, RawStatus, JobStatus
  <2> QED BY <1>4, <2>1 DEF SendFails, TypeOK, clock, run, channel, lost
<1>5. CASE AnswerLost(p)
  <2>1. TablesOK' /\ WorkersOK' /\ frozen' \in BOOLEAN
    BY <1>0, <1>5, SettleType DEF AnswerLost, MarkPublishFailed, GenStatus, RawStatus, JobStatus
  <2>2. lostTexts' \in [Pairs -> Nat] /\ lostMedia' \in [Pairs -> Nat]
    BY <1>5, ForgetType DEF AnswerLost
  <2> QED BY <1>5, <2>1, <2>2 DEF AnswerLost, TypeOK, clock, run, channel
<1> QED BY <1>1, <1>2, <1>3, <1>4, <1>5 DEF Proceed

\* A request keeps the types.
LEMMA RequestsType ==
  ASSUME TypeOK, Requests
  PROVE  TypeOK'
<1>1. ASSUME NEW p \in Clicks, NEW pr \in Pairs, Click(p, pr) PROVE TypeOK'
  <2>1. TablesOK' /\ WorkersOK' /\ due' \subseteq Pairs /\ frozen' \in BOOLEAN
        /\ overlaps' \in [Pairs -> Nat]
    BY <1>1, PublishType DEF Click, TypeOK, TablesOK, Procs
  <2> QED BY <1>1, <2>1 DEF Click, NoSchedule, TypeOK, run, channel, lost
<1>2. ASSUME NEW p \in Clicks, NEW pr \in Pairs, PublishRaw(p, pr) PROVE TypeOK'
  <2>0. p \in Procs /\ pr[1] \in Posts /\ RawOf[pr[1]] \in Raws
    BY PublishingAssumption DEF Procs, Pairs
  <2>1. [gen EXCEPT ![pr[1]] = Put(@, p, "approved")] \in [Posts -> Cells(GenStatus)]
    BY <2>0, PutType DEF TypeOK, TablesOK, GenStatus
  <2>2. [raw EXCEPT ![RawOf[pr[1]]] = Put(@, p, "generated")] \in [Raws -> Cells(RawStatus)]
    BY <2>0, PutType DEF TypeOK, TablesOK, RawStatus
  <2>3. TablesOK' /\ WorkersOK' /\ due' \subseteq Pairs /\ frozen' \in BOOLEAN
        /\ overlaps' \in [Pairs -> Nat]
    <3>1. CASE Free(raw[RawOf[pr[1]]], p)
      BY <1>2, <2>0, <2>1, <2>2, <3>1, PublishType DEF PublishRaw
    <3>2. CASE ~Free(raw[RawOf[pr[1]]], p)
      BY <1>2, <3>2 DEF PublishRaw, TypeOK, TablesOK, WorkersOK, tables, workers
    <3> QED BY <3>1, <3>2
  <2> QED BY <1>2, <2>3 DEF PublishRaw, NoSchedule, TypeOK, run, channel, lost
<1>3. ASSUME NEW g \in Posts, SaveGenerated(g) PROVE TypeOK'
  <2>1. TablesOK'
    BY <1>3, RowType DEF SaveGenerated, TypeOK, TablesOK, GenStatus
  <2> QED BY <1>3, <2>1 DEF SaveGenerated, Others, TypeOK, WorkersOK, clock, workers, run, channel, lost
<1>4. ASSUME NEW g \in Posts, RejectGenerated(g) PROVE TypeOK'
  <2>1. TablesOK'
    BY <1>4, RowType, PublishingAssumption
    DEF RejectGenerated, TypeOK, TablesOK, GenStatus, RawStatus
  <2> QED BY <1>4, <2>1 DEF RejectGenerated, Others, TypeOK, WorkersOK, clock, workers, run, channel, lost
<1>5. ASSUME NEW r \in Raws, RejectPost(r) PROVE TypeOK'
  <2>1. TablesOK'
    BY <1>5, RowType DEF RejectPost, TypeOK, TablesOK, RawStatus
  <2> QED BY <1>5, <2>1 DEF RejectPost, Others, TypeOK, WorkersOK, clock, workers, run, channel, lost
<1>6. ASSUME NEW rs \in SUBSET Raws, BulkReject(rs) PROVE TypeOK'
  <2>1. TablesOK'
    BY <1>6, RowType DEF BulkReject, TypeOK, TablesOK, RawStatus
  <2> QED BY <1>6, <2>1 DEF BulkReject, Others, TypeOK, WorkersOK, clock, workers, run, channel, lost
<1> QED BY <1>1, <1>2, <1>3, <1>4, <1>5, <1>6 DEF Requests

\* A step of the scheduler keeps the types.
LEMMA SchedulerType ==
  ASSUME TypeOK, Scheduler
  PROVE  TypeOK'
<1>0. Sched \in Procs
  BY DEF Procs
<1>1. CASE StartRetries
  BY <1>1 DEF StartRetries, TypeOK, TablesOK, WorkersOK, tables, clock, workers, channel, lost
<1>2. ASSUME NEW pr \in Pairs, RetryFailedJob(pr) PROVE TypeOK'
  <2>0. pr[1] \in Posts /\ RawOf[pr[1]] \in Raws
    BY PublishingAssumption DEF Pairs
  <2>1. [gen EXCEPT ![pr[1]] = Put(@, Sched, "approved")] \in [Posts -> Cells(GenStatus)]
    BY <1>0, <2>0, PutType DEF TypeOK, TablesOK, GenStatus
  <2>2. [raw EXCEPT ![RawOf[pr[1]]] = Put(@, Sched, "generated")] \in [Raws -> Cells(RawStatus)]
    BY <1>0, <2>0, PutType DEF TypeOK, TablesOK, RawStatus
  <2>3. TablesOK' /\ WorkersOK' /\ due' \subseteq Pairs /\ frozen' \in BOOLEAN
        /\ overlaps' \in [Pairs -> Nat]
    <3>1. CASE ~(View(gen[pr[1]], Sched) = "published")
               /\ Free(gen[pr[1]], Sched) /\ Free(raw[RawOf[pr[1]]], Sched)
      BY <1>0, <1>2, <2>1, <2>2, <3>1, PublishType DEF RetryFailedJob
    <3>2. CASE ~(~(View(gen[pr[1]], Sched) = "published")
               /\ Free(gen[pr[1]], Sched) /\ Free(raw[RawOf[pr[1]]], Sched))
      BY <1>2, <3>2 DEF RetryFailedJob, TypeOK, TablesOK, WorkersOK, tables, workers
    <3> QED BY <3>1, <3>2
  <2> QED BY <1>2, <2>3 DEF RetryFailedJob, TypeOK, channel, lost
<1>3. CASE StartScheduled
  BY <1>3 DEF StartScheduled, TypeOK, TablesOK, WorkersOK, tables, clock, workers, channel, lost
<1>4. ASSUME NEW pr \in Pairs, ProcessScheduledJob(pr) PROVE TypeOK'
  <2>0. pr[1] \in Posts
    BY DEF Pairs
  <2>1. [gen EXCEPT ![pr[1]] = Put(@, Sched, "approved")] \in [Posts -> Cells(GenStatus)]
    BY <1>0, <2>0, PutType DEF TypeOK, TablesOK, GenStatus
  <2>3. TablesOK' /\ WorkersOK' /\ due' \subseteq Pairs /\ frozen' \in BOOLEAN
        /\ overlaps' \in [Pairs -> Nat]
    <3> DEFINE go == View(gen[pr[1]], Sched) \in Publishable
                     /\ (View(gen[pr[1]], Sched) = "approved" \/ Free(gen[pr[1]], Sched))
    <3>1. CASE go
      BY <1>0, <1>4, <2>1, <3>1, PublishType DEF ProcessScheduledJob, TypeOK, TablesOK
    <3>2. CASE ~go
      BY <1>4, <3>2 DEF ProcessScheduledJob, TypeOK, TablesOK, WorkersOK, tables, workers
    <3> QED BY <3>1, <3>2
  <2> QED BY <1>4, <2>3 DEF ProcessScheduledJob, TypeOK, channel, lost
<1>5. CASE EndRun
  <2>1. ASSUME CommitAll(Sched, gen, raw, job) PROVE TablesOK'
    BY <2>1, CommitAllType DEF TypeOK, TablesOK
  <2>2. ASSUME UndoAll(Sched) PROVE TablesOK'
    BY <2>2, UndoType DEF UndoAll, TypeOK, TablesOK
  <2>3. TablesOK'
    BY <1>5, <2>1, <2>2 DEF EndRun
  <2> QED BY <1>5, <2>3 DEF EndRun, TypeOK, WorkersOK, clock, workers, channel, lost
<1> QED BY <1>1, <1>2, <1>3, <1>4, <1>5 DEF Scheduler

\* So do the clock and a restart.
LEMMA OutsideType ==
  ASSUME TypeOK, Time \/ Restart
  PROVE  TypeOK'
<1>1. ASSUME NEW t \in Targets, WindowOpens(t) PROVE TypeOK'
  <2>1. due' \subseteq Pairs
    <3>1. Posts \X {t} \subseteq Posts \X Targets
      BY <1>1
    <3> QED BY <1>1, <3>1 DEF WindowOpens, TypeOK, Pairs
  <2>2. TablesOK' /\ WorkersOK'
    BY <1>1 DEF WindowOpens, TypeOK, TablesOK, WorkersOK, tables, workers
  <2>3. open' \subseteq Targets
    BY <1>1 DEF WindowOpens, TypeOK
  <2>4. /\ UNCHANGED <<blank, phase, todo, frozen, restarts, texts, media>>
        /\ UNCHANGED <<lostTexts, lostMedia, overlaps>>
    BY <1>1 DEF WindowOpens, run, channel, lost
  <2> QED BY <2>1, <2>2, <2>3, <2>4 DEF TypeOK
<1>2. ASSUME NEW t \in Targets, WindowCloses(t) PROVE TypeOK'
  BY <1>2 DEF WindowCloses, TypeOK, TablesOK, WorkersOK, tables, workers, run, channel, lost
<1>3. CASE Restart
  <2>1. TablesOK'
    BY <1>3, RollbackType DEF Restart, TypeOK, TablesOK
  <2>2. WorkersOK'
    BY <1>3 DEF Restart, WorkersOK
  <2>3. lostTexts' \in [Pairs -> Nat] /\ lostMedia' \in [Pairs -> Nat]
    BY <1>3, ForgetType DEF Restart
  <2>4. /\ restarts' \in Nat /\ phase' = "idle" /\ todo' = {} /\ frozen' = FALSE
        /\ UNCHANGED <<blank, open, due, texts, media, overlaps>>
    BY <1>3 DEF Restart, TypeOK, clock, channel
  <2> QED BY <2>1, <2>2, <2>3, <2>4 DEF TypeOK
<1> QED BY <1>1, <1>2, <1>3 DEF Time

\* Every step keeps the types.
LEMMA TypeStep == TypeOK /\ [Next]_vars => TypeOK'
<1> SUFFICES ASSUME TypeOK, [Next]_vars PROVE TypeOK'
  OBVIOUS
<1>1. CASE Next
  BY <1>1, ProceedType, RequestsType, SchedulerType, OutsideType DEF Next
<1>2. CASE UNCHANGED vars
  BY <1>2 DEF vars, tables, clock, workers, run, channel, lost, TypeOK, TablesOK, WorkersOK
<1> QED BY <1>1, <1>2

\* The initial states have the types.
LEMMA TypeInit == Init => TypeOK
<1> SUFFICES ASSUME Init PROVE TypeOK
  OBVIOUS
<1>1. TablesOK
  BY RowType DEF Init, TablesOK, GenStatus, RawStatus, Job, NoJob, JobStatus
<1>2. WorkersOK
  BY DEF Init, WorkersOK
<1> QED BY <1>1, <1>2, PublishingAssumption DEF Init, TypeOK

\* The variables of Publishing keep their types.
THEOREM PublishingTypeCorrect == Spec => []TypeOK
BY TypeInit, TypeStep, PTL DEF Spec

-----------------------------------------------------------------------------
(* The locks of the jobs, and the refinement.                              *)

\* A coroutine that works on nothing holds no job.
LEMMA IdleHoldsNoJob ==
  ASSUME TypeOK, JobLocks, NEW p \in Procs, at[p] = "idle", NEW pr \in Pairs
  PROVE  job[pr].by # p
BY PublishingAssumption DEF JobLocks, Active

\* The end of a pass gives the rows of posts back, written or not, and finds no job locked
\* by the scheduler.
LEMMA PassEnds ==
  ASSUME TypeOK, JobLocks, EndRun
  PROVE  /\ job' = job
         /\ \A g \in Posts : gen'[g] \in {Release(gen[g], Sched), Withdraw(gen[g], Sched)}
         /\ \A r \in Raws : raw'[r] \in {Release(raw[r], Sched), Withdraw(raw[r], Sched)}
<1>1. /\ gen \in [Posts -> Cells(GenStatus)] /\ raw \in [Raws -> Cells(RawStatus)]
      /\ job \in [Pairs -> Cells(Job)]
  BY DEF TypeOK, TablesOK
<1>2. \A pr \in Pairs : job[pr].by # Sched
  BY IdleHoldsNoJob DEF EndRun, Procs
<1>3. CASE CommitAll(Sched, gen, raw, job)
  BY <1>1, <1>2, <1>3, NothingToCommit DEF CommitAll, Commit
<1>4. CASE UndoAll(Sched)
  BY <1>1, <1>2, <1>4, NothingToUndo DEF UndoAll, Undo
<1> QED
  BY <1>3, <1>4 DEF EndRun

\* A coroutine that works on a pair holds no other job.
LEMMA HoldsOneJob ==
  ASSUME TypeOK, JobLocks, NEW p \in Procs, NEW pr \in Pairs, on[p] # pr
  PROVE  job[pr].by # p
BY PublishingAssumption DEF JobLocks, Active

\* Where the coroutines are when one of them has moved.
LEMMA Moved ==
  ASSUME WorkersOK, NEW p \in Procs, NEW where, NEW pr, NEW what, Goto(p, where, pr, what),
         NEW q \in Pairs, NEW x \in Procs
  PROVE  LET done == where = "tailack" \/ (where = "ack" /\ what # "split")
         IN  /\ x \in Active(q)' <=> IF x = p THEN where # "idle" /\ q = pr ELSE x \in Active(q)
             /\ x \in Owing'[q] <=> IF x = p THEN where # "idle" /\ q = pr /\ ~done ELSE x \in Owing[q]
             /\ x \in Told'[q] <=> IF x = p THEN where # "idle" /\ q = pr /\ done ELSE x \in Told[q]
BY DEF WorkersOK, Goto, Active, Owing, Told, TextDone

\* The ledger does not see a step that moves nobody, sends nothing and records nothing.
LEMMA Stutter ==
  ASSUME UNCHANGED workers, UNCHANGED <<texts, lostTexts, overlaps>>, Recorded' = Recorded
  PROVE  UNCHANGED Ledger!vars
BY DEF workers, Ledger!vars, Owing, Told, Active, TextDone

\* A job that nobody touched keeps its lock when nobody moves.
LEMMA SameLocks ==
  ASSUME JobLocks, UNCHANGED workers,
         \A pr \in Pairs : job'[pr] = job[pr] \/ job'[pr].by = NoProc
  PROVE  JobLocks'
BY DEF JobLocks, workers, Active

\* publish_generated_post up to its first await begins a pair or is not seen.
LEMMA PublishRefines ==
  ASSUME TypeOK, JobLocks, NEW p \in Procs, at[p] = "idle", NEW pr \in Pairs, NEW keep,
         NEW G \in [Posts -> Cells(GenStatus)], NEW R \in [Raws -> Cells(RawStatus)],
         Publish(p, pr, G, R, keep), UNCHANGED <<texts, lostTexts>>
  PROVE  JobLocks' /\ (Ledger!Begin(p, pr) \/ UNCHANGED Ledger!vars)
<1>0. /\ job \in [Pairs -> Cells(Job)] /\ JobOf(p, pr) \in Job
      /\ \A q \in Pairs : job[q].by # p
      /\ JobOf(p, pr) = job[pr].com
  BY JobOfType, IdleHoldsNoJob DEF TypeOK, TablesOK, JobOf, View
<1>1. CASE job' = job /\ UNCHANGED workers /\ UNCHANGED overlaps
  BY <1>1, Stutter, SameLocks DEF Recorded
<1>2. CASE CommitAll(p, G, R, job) /\ UNCHANGED workers /\ UNCHANGED overlaps
  BY <1>0, <1>1, <1>2, NothingToCommit DEF CommitAll
<1>3. CASE DeferOutsideWindow(p, pr, G, R) /\ Free(job[pr], p) /\ Free(G[pr[1]], p)
  <2> DEFINE v == Deferred(JobOf(p, pr))
  <2>1. v \in Job /\ v.status = "pending"
    BY <1>0, WrittenJobs DEF Deferred, Job
  <2>2. job' = Commit([job EXCEPT ![pr] = Put(@, p, v)], p) /\ UNCHANGED workers /\ UNCHANGED overlaps
    BY <1>3 DEF DeferOutsideWindow, CommitAll
  <2> HIDE DEF v
  <2>3. job'[pr] = Release(Put(job[pr], p, v), p)
    BY <1>0, <2>2 DEF Commit
  <2>4. \A q \in Pairs \ {pr} : job'[q] = job[q]
    BY <1>0, <2>2 DEF Commit, Release
  <2>7. job'[pr].com = v /\ job'[pr].by = NoProc
    BY <1>0, <1>3, <2>1, <2>3, Written
  <2>5. job[pr].com.status # "success"
    BY <1>0, <1>3 DEF DeferOutsideWindow, Served
  <2>6. Recorded' = Recorded
    BY <2>1, <2>7, <2>4, <2>5 DEF Recorded
  <2> QED BY <2>2, <2>7, <2>4, <2>6, Stutter, SameLocks
<1>4. CASE ClaimJob(p, pr, G, R) /\ Free(job[pr], p)
  <2> DEFINE v == Claimed(JobOf(p, pr))
  <2>1. job' = [job EXCEPT ![pr] = Put(@, p, v)]
    BY <1>4 DEF ClaimJob
  <2>a. PICK w \in {"restore", "send"} : \E s : Goto(p, w, pr, s)
    BY <1>4 DEF ClaimJob
  <2>2. PICK s : Goto(p, w, pr, s)
    BY <2>a
  <2>3. job[pr].com.status # "success" /\ v.status = "running"
    BY <1>0, <1>4 DEF ClaimJob, Served, Claimed, Job
  <2>4. /\ job'[pr].com = job[pr].com
        /\ job'[pr] = job[pr] \/ (job'[pr].by = p /\ job'[pr].cur = v)
    BY <1>0, <2>1 DEF Put, Cells
  <2>5. \A q \in Pairs \ {pr} : job'[q] = job[q]
    BY <1>0, <2>1
  <2>6. Recorded' = Recorded
    BY <2>4, <2>5 DEF Recorded
  <2>7. WorkersOK
    BY DEF TypeOK
  <2>8. JobLocks'
    <3> SUFFICES ASSUME NEW q \in Pairs, job'[q].by # NoProc
                 PROVE  /\ job'[q].by \in Active(q)'
                        /\ job'[q].cur.status = "running" /\ job'[q].com.status # "success"
      BY DEF JobLocks
    <3>1. CASE job'[q] = job[q]
      <4>1. /\ job[q].by \in Active(q) /\ job[q].by # p /\ job[q].by \in Procs
            /\ job[q].cur.status = "running" /\ job[q].com.status # "success"
        BY <1>0, <3>1 DEF JobLocks, Active
      <4> QED BY <2>2, <2>7, <3>1, <4>1, Moved
    <3>2. CASE q = pr /\ job'[pr].by = p /\ job'[pr].cur = v
      <4>1. p \in Active(pr)'
        BY <2>2, <2>7, Moved
      <4> QED BY <2>3, <2>4, <3>2, <4>1
    <3> QED BY <2>4, <2>5, <3>1, <3>2
  <2>9. Ledger!Begin(p, pr)
    <3>1. \A q \in Pairs : p \notin Owing[q] /\ p \notin Told[q]
      BY DEF Owing, Told, Active
    <3>2. \A q \in Pairs : Owing'[q] = IF q = pr THEN Owing[q] \cup {p} ELSE Owing[q]
      <4> SUFFICES ASSUME NEW q \in Pairs
                   PROVE  Owing'[q] = IF q = pr THEN Owing[q] \cup {p} ELSE Owing[q]
        OBVIOUS
      <4>1. \A x \in Procs : x \in Owing'[q] <=> (x \in Owing[q] \/ (x = p /\ q = pr))
        BY <2>2, <2>7, <3>1, Moved
      <4>2. Owing'[q] \subseteq Procs /\ Owing[q] \subseteq Procs
        BY DEF Owing, Active
      <4> QED BY <4>1, <4>2
    <3>3. \A q \in Pairs : Told'[q] = Told[q]
      <4> SUFFICES ASSUME NEW q \in Pairs PROVE Told'[q] = Told[q]
        OBVIOUS
      <4>1. \A x \in Procs : x \in Told'[q] <=> x \in Told[q]
        BY <2>2, <2>7, <3>1, Moved
      <4>2. Told'[q] \subseteq Procs /\ Told[q] \subseteq Procs
        BY DEF Told, Active
      <4> QED BY <4>1, <4>2
    <3>4. Owing' = [Owing EXCEPT ![pr] = @ \cup {p}] /\ Told' = Told
      BY <3>2, <3>3 DEF Owing, Told
    <3>5. Active(pr) = Owing[pr] \cup Told[pr]
      BY DEF Owing, Told
    <3>6. overlaps' = IF Owing[pr] \cup Told[pr] = {} THEN overlaps
                      ELSE [overlaps EXCEPT ![pr] = @ + 1]
      BY <1>4, <3>5 DEF ClaimJob
    <3>7. pr \notin Recorded
      BY <2>3 DEF Recorded
    <3> QED BY <2>6, <3>1, <3>4, <3>6, <3>7 DEF Ledger!Begin, Ledger!At
  <2> QED BY <2>8, <2>9
<1> QED BY <1>1, <1>2, <1>3, <1>4
        DEF Publish, AlreadyPublished, EmptyPayload, DeferOutsideWindow, ClaimJob

\* When a coroutine leaves a pair it neither owes it a text nor waits for an answer.
LEMMA Leaves ==
  ASSUME TypeOK, NEW p \in Procs, at[p] # "idle", Goto(p, "idle", NoPair, "text")
  PROVE  /\ Owing' = [Owing EXCEPT ![on[p]] = @ \ {p}]
         /\ Told' = [Told EXCEPT ![on[p]] = @ \ {p}]
<1>0. WorkersOK /\ on[p] \in Pairs
  BY DEF TypeOK, WorkersOK
<1>1. \A q \in Pairs : Owing'[q] = IF q = on[p] THEN Owing[q] \ {p} ELSE Owing[q]
  <2> SUFFICES ASSUME NEW q \in Pairs
               PROVE  Owing'[q] = IF q = on[p] THEN Owing[q] \ {p} ELSE Owing[q]
    OBVIOUS
  <2>1. \A x \in Procs : x \in Owing'[q] <=> x # p /\ x \in Owing[q]
    BY <1>0, Moved
  <2>2. p \in Owing[q] => q = on[p]
    BY DEF Owing, Active
  <2>3. Owing'[q] \subseteq Procs /\ Owing[q] \subseteq Procs
    BY DEF Owing, Active
  <2> QED BY <2>1, <2>2, <2>3
<1>2. \A q \in Pairs : Told'[q] = IF q = on[p] THEN Told[q] \ {p} ELSE Told[q]
  <2> SUFFICES ASSUME NEW q \in Pairs
               PROVE  Told'[q] = IF q = on[p] THEN Told[q] \ {p} ELSE Told[q]
    OBVIOUS
  <2>1. \A x \in Procs : x \in Told'[q] <=> x # p /\ x \in Told[q]
    BY <1>0, Moved
  <2>2. p \in Told[q] => q = on[p]
    BY DEF Told, Active
  <2>3. Told'[q] \subseteq Procs /\ Told[q] \subseteq Procs
    BY DEF Told, Active
  <2> QED BY <2>1, <2>2, <2>3
<1>3. /\ Owing = [q \in Pairs |-> Owing[q]] /\ Told = [q \in Pairs |-> Told[q]]
      /\ Owing' = [q \in Pairs |-> Owing'[q]] /\ Told' = [q \in Pairs |-> Told'[q]]
  BY DEF Owing, Told
<1>4. Owing' = [Owing EXCEPT ![on[p]] = @ \ {p}]
  BY <1>1, <1>3
<1>5. Told' = [Told EXCEPT ![on[p]] = @ \ {p}]
  BY <1>2, <1>3
<1> QED BY <1>4, <1>5

\* A step that keeps everybody's debts.
LEMMA SameDebts ==
  ASSUME TypeOK, NEW p \in Procs, at[p] # "idle", NEW where, NEW what, where # "idle",
         Goto(p, where, on[p], what),
         TextDone(p) <=> where = "tailack" \/ (where = "ack" /\ what # "split")
  PROVE  Owing' = Owing /\ Told' = Told
<1>0. WorkersOK /\ on[p] \in Pairs
  BY DEF TypeOK, WorkersOK
<1>1. \A q \in Pairs : p \in Active(q) <=> q = on[p]
  BY DEF Active
<1>2. ASSUME NEW q \in Pairs PROVE Owing'[q] = Owing[q] /\ Told'[q] = Told[q]
  <2>1. \A x \in Procs : /\ x \in Owing'[q] <=> x \in Owing[q]
                         /\ x \in Told'[q] <=> x \in Told[q]
    BY <1>0, <1>1, Moved DEF Owing, Told
  <2>2. /\ Owing'[q] \subseteq Procs /\ Owing[q] \subseteq Procs
        /\ Told'[q] \subseteq Procs /\ Told[q] \subseteq Procs
    BY DEF Owing, Told, Active
  <2> QED BY <2>1, <2>2
<1> QED BY <1>2 DEF Owing, Told

\* A coroutine that writes its job and commits, and moves, leaves the locks in order.
LEMMA CommitLocks ==
  ASSUME TypeOK, JobLocks, NEW p \in Procs, at[p] # "idle",
         NEW where, NEW pr, NEW what, Goto(p, where, pr, what),
         \A q \in Pairs : q # on[p] => job'[q] = job[q],
         job'[on[p]].by = NoProc
                  \/ (job'[on[p]] = job[on[p]] /\ job[on[p]].by # p)
  PROVE  JobLocks'
<1> SUFFICES ASSUME NEW q \in Pairs, job'[q].by # NoProc
             PROVE  /\ job'[q].by \in Active(q)'
                    /\ job'[q].cur.status = "running" /\ job'[q].com.status # "success"
  BY DEF JobLocks
<1>0. WorkersOK
  BY DEF TypeOK
<1>1. job'[q] = job[q]
  OBVIOUS
<1>2. job[q].by # p
  BY <1>1, HoldsOneJob
<1>3. /\ job[q].by \in Active(q) /\ job[q].by \in Procs
      /\ job[q].cur.status = "running" /\ job[q].com.status # "success"
  BY <1>1 DEF JobLocks, Active
<1>4. job[q].by \in Active(q)'
  BY <1>0, <1>2, <1>3, Moved
<1> QED BY <1>1, <1>3, <1>4

\* What the end of a publication does to the ledger, unless the loop stands still.
LEMMA SettleRefines ==
  ASSUME TypeOK, JobLocks, ~frozen, NEW p \in Procs, at[p] # "idle",
         NEW gs, NEW rs, NEW js \in {"success", "failed"}, Settle(p, gs, rs, js)
  PROVE  /\ JobLocks'
         /\ \/ frozen' /\ UNCHANGED <<job, workers>>
            \/ /\ ~frozen'
               /\ Goto(p, "idle", NoPair, "text")
               /\ Recorded' = IF js = "success" THEN Recorded \cup {on[p]}
                                                ELSE Recorded \ {on[p]}
<1> DEFINE pr == on[p]
           done == [JobOf(p, pr) EXCEPT !.status = js, !.sent = @ \/ js = "success"]
           free == /\ Free(gen[pr[1]], p) /\ Free(raw[RawOf[pr[1]]], p) /\ Free(job[pr], p)
<1>0. pr \in Pairs /\ job \in [Pairs -> Cells(Job)] /\ JobOf(p, pr) \in Job
  BY JobOfType DEF TypeOK, WorkersOK, TablesOK
<1>1. CASE free
  <2>1. done \in Job /\ done.status = js
    BY <1>0 DEF Job, JobStatus
  <2>2. /\ job' = Commit([job EXCEPT ![pr] = Put(@, p, done)], p)
        /\ Goto(p, "idle", NoPair, "text") /\ frozen' = frozen
    BY <1>1 DEF Settle, CommitAll
  <2> HIDE DEF done
  <2>3. job'[pr] = Release(Put(job[pr], p, done), p)
    BY <1>0, <2>2 DEF Commit
  <2>4. \A q \in Pairs : q # pr => job'[q] = job[q]
    BY <1>0, <2>2, HoldsOneJob DEF Commit, Release
  <2>5. job'[pr].com = done /\ job'[pr].by = NoProc
    BY <1>0, <1>1, <2>1, <2>3, Written
  <2>6. JobLocks'
    BY <2>2, <2>4, <2>5, CommitLocks
  <2>7. Recorded' = IF js = "success" THEN Recorded \cup {pr} ELSE Recorded \ {pr}
    BY <1>0, <2>1, <2>4, <2>5 DEF Recorded
  <2> QED BY <2>2, <2>6, <2>7
<1>2. CASE ~free
  <2>1. frozen' /\ UNCHANGED <<job, workers>>
    BY <1>2 DEF Settle, tables
  <2> QED BY <2>1, SameLocks
<1> QED BY <1>1, <1>2

LedgerStep == (\E p \in Procs, pr \in Pairs :
                 Ledger!Begin(p, pr) \/ Ledger!Send(p, pr) \/ Ledger!Record(p, pr) \/ Ledger!GiveUp(p, pr))
              \/ Ledger!Crash \/ UNCHANGED Ledger!vars

\* The steps of a publication are steps of the ledger.
LEMMA ProceedRefines ==
  ASSUME TypeOK, JobLocks, ~frozen, NEW p \in Procs, Proceed(p)
  PROVE  JobLocks' /\ LedgerStep
<1>0. /\ at[p] # "idle" /\ on[p] \in Pairs /\ WorkersOK
      /\ job \in [Pairs -> Cells(Job)] /\ JobOf(p, on[p]) \in Job
      /\ p \in Owing[on[p]] <=> ~TextDone(p)
      /\ p \in Told[on[p]] <=> TextDone(p)
  BY JobOfType DEF Proceed, RestoreMedia, Deliver, Acknowledge, SendFails, AnswerLost,
                   TypeOK, WorkersOK, TablesOK, Owing, Told, Active
<1>1. CASE RestoreMedia(p)
  <2>1. PICK s : Goto(p, "send", on[p], s)
    BY <1>1 DEF RestoreMedia
  <2>2. UNCHANGED <<Owing, Told, texts, lostTexts, overlaps>>
    BY <1>0, <1>1, <2>1, SameDebts DEF RestoreMedia, TextDone, channel, lost
  <2>3. CASE job' = job
    <3>1. Recorded' = Recorded
      BY <2>3 DEF Recorded
    <3>2. JobLocks'
      <4> SUFFICES ASSUME NEW q \in Pairs, job'[q].by # NoProc
                   PROVE  /\ job'[q].by \in Active(q)'
                          /\ job'[q].cur.status = "running" /\ job'[q].com.status # "success"
        BY DEF JobLocks
      <4>1. /\ job[q].by \in Active(q) /\ job[q].by \in Procs
            /\ job[q].cur.status = "running" /\ job[q].com.status # "success"
        BY <2>3 DEF JobLocks, Active
      <4>2. job[q].by \in Active(q)'
        BY <1>0, <2>1, <4>1, Moved DEF Active
      <4> QED BY <2>3, <4>1, <4>2
    <3> QED BY <2>2, <3>1, <3>2 DEF LedgerStep, Ledger!vars
  <2>4. CASE job' = Commit(job, p)
    <3>1. \A q \in Pairs : q # on[p] => job'[q] = job[q]
      BY <1>0, <2>4, HoldsOneJob DEF Commit, Release
    <3>2. job'[on[p]] = Release(job[on[p]], p)
      BY <1>0, <2>4 DEF Commit
    <3>3. /\ job[on[p]].by = p => job[on[p]].cur.status # "success" /\ job[on[p]].com.status # "success"
          /\ job[on[p]].by = p => job'[on[p]] = Row(job[on[p]].cur)
          /\ job[on[p]].by # p => job'[on[p]] = job[on[p]]
      BY <1>0, <3>2, PublishingAssumption DEF JobLocks, Release
    <3>4. JobLocks'
      BY <1>0, <2>1, <3>1, <3>3, CommitLocks DEF Row
    <3>5. Recorded' = Recorded
      BY <1>0, <3>1, <3>3 DEF Recorded, Row
    <3> QED BY <2>2, <3>4, <3>5 DEF LedgerStep, Ledger!vars
  <2> QED BY <1>1, <2>3, <2>4 DEF RestoreMedia, CommitAll, tables
<1>2. CASE Deliver(p)
  <2> DEFINE where == IF at[p] = "tail" THEN "tailack" ELSE "ack"
             sends == at[p] = "tail" \/ layout[p] # "split"
  <2>1. /\ at[p] \in {"send", "tail"} /\ ~TextDone(p)
        /\ Goto(p, where, on[p], layout[p]) /\ where # "idle"
        /\ UNCHANGED <<job, lostTexts, overlaps>>
        /\ texts' = IF sends THEN [texts EXCEPT ![on[p]] = @ + 1] ELSE texts
    BY <1>2 DEF Deliver, TextDone, tables, lost
  <2>2. Recorded' = Recorded
    BY <2>1 DEF Recorded
  <2>3. JobLocks'
    <3> SUFFICES ASSUME NEW q \in Pairs, job'[q].by # NoProc
                 PROVE  /\ job'[q].by \in Active(q)'
                        /\ job'[q].cur.status = "running" /\ job'[q].com.status # "success"
      BY DEF JobLocks
    <3>1. /\ job[q].by \in Active(q) /\ job[q].by \in Procs
          /\ job[q].cur.status = "running" /\ job[q].com.status # "success"
      BY <2>1 DEF JobLocks, Active
    <3>2. job[q].by \in Active(q)'
      BY <1>0, <2>1, <3>1, Moved DEF Active
    <3> QED BY <2>1, <3>1, <3>2
  <2>4. CASE sends
    <3>1. \A q \in Pairs : Owing'[q] = IF q = on[p] THEN Owing[q] \ {p} ELSE Owing[q]
      <4> SUFFICES ASSUME NEW q \in Pairs
                   PROVE  Owing'[q] = IF q = on[p] THEN Owing[q] \ {p} ELSE Owing[q]
        OBVIOUS
      <4>1. \A x \in Procs : x \in Owing'[q] <=> x # p /\ x \in Owing[q]
        BY <1>0, <2>1, <2>4, Moved
      <4>2. /\ p \in Owing[q] => q = on[p]
            /\ Owing'[q] \subseteq Procs /\ Owing[q] \subseteq Procs
        BY DEF Owing, Active
      <4> QED BY <4>1, <4>2
    <3>2. \A q \in Pairs : Told'[q] = IF q = on[p] THEN Told[q] \cup {p} ELSE Told[q]
      <4> SUFFICES ASSUME NEW q \in Pairs
                   PROVE  Told'[q] = IF q = on[p] THEN Told[q] \cup {p} ELSE Told[q]
        OBVIOUS
      <4>1. \A x \in Procs : x \in Told'[q] <=> (IF x = p THEN q = on[p] ELSE x \in Told[q])
        BY <1>0, <2>1, <2>4, Moved
      <4>2. /\ p \notin Told[q]
            /\ Told'[q] \subseteq Procs /\ Told[q] \subseteq Procs
        BY <2>1 DEF Told, Active
      <4> QED BY <4>1, <4>2
    <3>3. /\ Owing' = [Owing EXCEPT ![on[p]] = @ \ {p}]
          /\ Told' = [Told EXCEPT ![on[p]] = @ \cup {p}]
      <4>1. Owing' = [Owing EXCEPT ![on[p]] = @ \ {p}]
        BY <3>1 DEF Owing
      <4>2. Told' = [Told EXCEPT ![on[p]] = @ \cup {p}]
        BY <3>2 DEF Told
      <4> QED BY <4>1, <4>2
    <3>4. Ledger!Send(p, on[p])
      BY <1>0, <2>1, <2>2, <2>4, <3>3 DEF Ledger!Send
    <3> QED BY <1>0, <2>3, <3>4 DEF LedgerStep
  <2>5. CASE ~sends
    <3>1. UNCHANGED <<Owing, Told>>
      BY <1>0, <2>1, <2>5, SameDebts
    <3> QED BY <2>1, <2>2, <2>3, <2>5, <3>1 DEF LedgerStep, Ledger!vars
  <2> QED BY <2>4, <2>5
<1>3. ASSUME MarkPublished(p), TextDone(p), UNCHANGED <<texts, lostTexts, overlaps>>
      PROVE  JobLocks' /\ LedgerStep
  <2>1. /\ JobLocks'
        /\ \/ frozen' /\ UNCHANGED <<job, workers>>
           \/ /\ ~frozen' /\ Goto(p, "idle", NoPair, "text")
              /\ Recorded' = Recorded \cup {on[p]}
    BY <1>0, <1>3, SettleRefines DEF MarkPublished
  <2>2. CASE UNCHANGED <<job, workers>>
    BY <1>3, <2>1, <2>2, Stutter DEF Recorded, LedgerStep
  <2>3. CASE Goto(p, "idle", NoPair, "text") /\ Recorded' = Recorded \cup {on[p]}
    <3>1. /\ Owing' = [Owing EXCEPT ![on[p]] = @ \ {p}]
          /\ Told' = [Told EXCEPT ![on[p]] = @ \ {p}]
      BY <1>0, <2>3, Leaves
    <3>2. Owing' = Owing
      BY <1>0, <1>3, <3>1 DEF Owing
    <3>3. Ledger!Record(p, on[p])
      BY <1>0, <1>3, <2>3, <3>1, <3>2 DEF Ledger!Record
    <3> QED BY <1>0, <2>1, <3>3 DEF LedgerStep
  <2> QED BY <2>1, <2>2, <2>3
<1>4. ASSUME MarkPublishFailed(p), UNCHANGED <<texts, overlaps>>,
             lostTexts' = IF TextDone(p) /\ ~frozen'
                          THEN [lostTexts EXCEPT ![on[p]] = @ + 1] ELSE lostTexts
      PROVE  JobLocks' /\ LedgerStep
  <2>1. /\ JobLocks'
        /\ \/ frozen' /\ UNCHANGED <<job, workers>>
           \/ /\ ~frozen' /\ Goto(p, "idle", NoPair, "text")
              /\ Recorded' = Recorded \ {on[p]}
    BY <1>0, <1>4, SettleRefines DEF MarkPublishFailed
  <2>2. CASE frozen' /\ UNCHANGED <<job, workers>>
    BY <1>4, <2>1, <2>2, Stutter DEF Recorded, LedgerStep
  <2>3. CASE ~frozen' /\ Goto(p, "idle", NoPair, "text") /\ Recorded' = Recorded \ {on[p]}
    <3>1. /\ Owing' = [Owing EXCEPT ![on[p]] = @ \ {p}]
          /\ Told' = [Told EXCEPT ![on[p]] = @ \ {p}]
      BY <1>0, <2>3, Leaves
    <3>2. Ledger!GiveUp(p, on[p])
      BY <1>0, <1>4, <2>3, <3>1 DEF Ledger!GiveUp, Ledger!At
    <3> QED BY <1>0, <2>1, <3>2 DEF LedgerStep
  <2> QED BY <2>1, <2>2, <2>3
<1>5. CASE Acknowledge(p)
  <2>1. CASE MarkPublished(p) /\ TextDone(p)
    BY <1>3, <1>5, <2>1 DEF Acknowledge, channel, lost
  <2>2. CASE at[p] = "ack" /\ layout[p] = "split" /\ Free(job[on[p]], p)
             /\ ~(MarkPublished(p) /\ TextDone(p))
    <3> DEFINE v == [JobOf(p, on[p]) EXCEPT !.sent = TRUE]
    <3>1. /\ job' = Commit([job EXCEPT ![on[p]] = Put(@, p, v)], p)
          /\ Goto(p, "tail", on[p], "split")
      BY <1>5, <2>2 DEF Acknowledge, CommitAll, TextDone
    <3>2. v \in Job /\ v.status = JobOf(p, on[p]).status
      BY <1>0 DEF Job
    <3> HIDE DEF v
    <3>3. job'[on[p]] = Release(Put(job[on[p]], p, v), p)
      BY <1>0, <3>1 DEF Commit
    <3>4. \A q \in Pairs : q # on[p] => job'[q] = job[q]
      BY <1>0, <3>1, HoldsOneJob DEF Commit, Release
    <3>5. job'[on[p]].com = v /\ job'[on[p]].by = NoProc
      BY <1>0, <2>2, <3>2, <3>3, Written
    <3>6. JobLocks'
      BY <1>0, <3>1, <3>4, <3>5, CommitLocks
    <3>7. JobOf(p, on[p]).status = "success" <=> job[on[p]].com.status = "success"
      BY <1>0, PublishingAssumption DEF JobOf, View, JobLocks
    <3>8. Recorded' = Recorded
      BY <1>0, <3>2, <3>4, <3>5, <3>7 DEF Recorded
    <3>9. UNCHANGED <<Owing, Told>>
      BY <1>0, <2>2, <3>1, SameDebts DEF TextDone
    <3> QED BY <1>5, <3>6, <3>8, <3>9 DEF Acknowledge, channel, lost, LedgerStep, Ledger!vars
  <2>3. CASE UNCHANGED <<tables, workers>>
    <3>1. JobLocks' /\ Recorded' = Recorded
      BY <2>3, SameLocks DEF tables, Recorded
    <3> QED BY <1>5, <2>3, <3>1, Stutter DEF Acknowledge, channel, lost, LedgerStep
  <2> QED BY <1>5, <2>1, <2>2, <2>3 DEF Acknowledge, TextDone
<1>6. CASE SendFails(p)
  BY <1>4, <1>6 DEF SendFails, channel, lost, TextDone
<1>7. CASE AnswerLost(p)
  <2>1. lostTexts' = IF TextDone(p) /\ ~frozen'
                     THEN [lostTexts EXCEPT ![on[p]] = @ + 1] ELSE lostTexts
    BY <1>0, <1>7 DEF AnswerLost, Forget, TypeOK
  <2> QED BY <1>4, <1>7, <2>1 DEF AnswerLost, channel
<1> QED BY <1>1, <1>2, <1>5, <1>6, <1>7 DEF Proceed

\* The requests are steps of the ledger.
LEMMA RequestsRefine ==
  ASSUME TypeOK, JobLocks, Requests
  PROVE  JobLocks' /\ LedgerStep
<1>1. ASSUME NEW p \in Clicks, NEW pr \in Pairs, Click(p, pr) PROVE JobLocks' /\ LedgerStep
  <2>1. JobLocks' /\ (Ledger!Begin(p, pr) \/ UNCHANGED Ledger!vars)
    BY <1>1, PublishRefines DEF Click, NoSchedule, channel, lost, TypeOK, TablesOK, Procs
  <2> QED BY <2>1 DEF LedgerStep, Procs
<1>2. ASSUME NEW p \in Clicks, NEW pr \in Pairs, PublishRaw(p, pr) PROVE JobLocks' /\ LedgerStep
  <2>0. p \in Procs /\ pr[1] \in Posts /\ RawOf[pr[1]] \in Raws
    BY PublishingAssumption DEF Procs, Pairs
  <2>1. [gen EXCEPT ![pr[1]] = Put(@, p, "approved")] \in [Posts -> Cells(GenStatus)]
    BY <2>0, PutType DEF TypeOK, TablesOK, GenStatus
  <2>2. [raw EXCEPT ![RawOf[pr[1]]] = Put(@, p, "generated")] \in [Raws -> Cells(RawStatus)]
    BY <2>0, PutType DEF TypeOK, TablesOK, RawStatus
  <2>3. CASE Free(raw[RawOf[pr[1]]], p)
    <3>1. JobLocks' /\ (Ledger!Begin(p, pr) \/ UNCHANGED Ledger!vars)
      BY <1>2, <2>0, <2>1, <2>2, <2>3, PublishRefines DEF PublishRaw, NoSchedule, channel, lost
    <3> QED BY <2>0, <3>1 DEF LedgerStep
  <2>4. CASE ~Free(raw[RawOf[pr[1]]], p)
    BY <1>2, <2>4, Stutter, SameLocks
    DEF PublishRaw, NoSchedule, tables, channel, lost, Recorded, LedgerStep
  <2> QED BY <2>3, <2>4
<1>3. ASSUME UNCHANGED <<job, workers, texts, lostTexts, overlaps>> PROVE JobLocks' /\ LedgerStep
  BY <1>3, Stutter, SameLocks DEF Recorded, LedgerStep
<1> QED BY <1>1, <1>2, <1>3 DEF Requests, SaveGenerated, RejectGenerated, RejectPost, BulkReject,
                               Others, channel, lost

\* So are the steps of the scheduler.
LEMMA SchedulerRefines ==
  ASSUME TypeOK, JobLocks, Scheduler
  PROVE  JobLocks' /\ LedgerStep
<1>0. Sched \in Procs
  BY DEF Procs
<1>1. ASSUME UNCHANGED <<job, workers, texts, lostTexts, overlaps>> PROVE JobLocks' /\ LedgerStep
  BY <1>1, Stutter, SameLocks DEF Recorded, LedgerStep
<1>2. ASSUME NEW pr \in Pairs, RetryFailedJob(pr) PROVE JobLocks' /\ LedgerStep
  <2>0. pr[1] \in Posts /\ RawOf[pr[1]] \in Raws
    BY PublishingAssumption DEF Pairs
  <2>1. [gen EXCEPT ![pr[1]] = Put(@, Sched, "approved")] \in [Posts -> Cells(GenStatus)]
    BY <1>0, <2>0, PutType DEF TypeOK, TablesOK, GenStatus
  <2>2. [raw EXCEPT ![RawOf[pr[1]]] = Put(@, Sched, "generated")] \in [Raws -> Cells(RawStatus)]
    BY <1>0, <2>0, PutType DEF TypeOK, TablesOK, RawStatus
  <2> DEFINE go == ~(View(gen[pr[1]], Sched) = "published")
                   /\ Free(gen[pr[1]], Sched) /\ Free(raw[RawOf[pr[1]]], Sched)
  <2>3. CASE go
    <3>1. JobLocks' /\ (Ledger!Begin(Sched, pr) \/ UNCHANGED Ledger!vars)
      BY <1>0, <1>2, <2>1, <2>2, <2>3, PublishRefines DEF RetryFailedJob, channel, lost
    <3> QED BY <1>0, <3>1 DEF LedgerStep
  <2>4. CASE ~go
    BY <1>1, <1>2, <2>4 DEF RetryFailedJob, tables, channel, lost
  <2> QED BY <2>3, <2>4
<1>3. ASSUME NEW pr \in Pairs, ProcessScheduledJob(pr) PROVE JobLocks' /\ LedgerStep
  <2>0. pr[1] \in Posts
    BY DEF Pairs
  <2>1. [gen EXCEPT ![pr[1]] = Put(@, Sched, "approved")] \in [Posts -> Cells(GenStatus)]
    BY <1>0, <2>0, PutType DEF TypeOK, TablesOK, GenStatus
  <2> DEFINE go == View(gen[pr[1]], Sched) \in Publishable
                   /\ (View(gen[pr[1]], Sched) = "approved" \/ Free(gen[pr[1]], Sched))
  <2>3. CASE go
    <3>1. JobLocks' /\ (Ledger!Begin(Sched, pr) \/ UNCHANGED Ledger!vars)
      BY <1>0, <1>3, <2>1, <2>3, PublishRefines
      DEF ProcessScheduledJob, channel, lost, TypeOK, TablesOK
    <3> QED BY <1>0, <3>1 DEF LedgerStep
  <2>4. CASE ~go
    BY <1>1, <1>3, <2>4 DEF ProcessScheduledJob, tables, channel, lost
  <2> QED BY <2>3, <2>4
<1>4. CASE EndRun
  <2>1. UNCHANGED <<workers, texts, lostTexts, overlaps>>
    BY <1>4 DEF EndRun, channel, lost
  <2>2. job' = job
    BY <1>4, PassEnds
  <2> QED BY <1>1, <2>1, <2>2
<1> QED BY <1>1, <1>2, <1>3, <1>4 DEF Scheduler, StartRetries, StartScheduled, tables, channel, lost

\* A restart is a crash of the ledger; the clock it does not see.
LEMMA OutsideRefines ==
  ASSUME TypeOK, JobLocks, Time \/ Restart
  PROVE  JobLocks' /\ LedgerStep
<1>1. CASE Time
  BY <1>1, Stutter, SameLocks
  DEF Time, WindowOpens, WindowCloses, tables, channel, lost, Recorded, LedgerStep
<1>2. CASE Restart
  <2>1. /\ \A pr \in Pairs : job'[pr].com = job[pr].com /\ job'[pr].by = NoProc
        /\ \A p \in Procs : at'[p] = "idle"
    BY <1>2 DEF Restart, Rollback, Row, TypeOK, TablesOK
  <2>2. JobLocks' /\ Recorded' = Recorded
    BY <2>1 DEF JobLocks, Recorded
  <2>3. Owing' = [pr \in Pairs |-> {}] /\ Told' = [pr \in Pairs |-> {}]
    BY <2>1 DEF Owing, Told, Active
  <2>4. \A pr \in Pairs : Told[pr] # {} <=> \E p \in Procs : on[p] = pr /\ TextDone(p)
    BY DEF Told, Active, TextDone
  <2>5. lostTexts' = [pr \in Pairs |-> IF Told[pr] # {} THEN lostTexts[pr] + 1 ELSE lostTexts[pr]]
    BY <1>2, <2>4 DEF Restart, Forget
  <2>6. Ledger!Crash
    BY <1>2, <2>2, <2>3, <2>5 DEF Restart, channel, Ledger!Crash
  <2> QED BY <2>2, <2>6 DEF LedgerStep
<1> QED BY <1>1, <1>2

\* Every step of the publication is a step of the ledger, or it sees nothing.
LEMMA RefinementStep ==
  ASSUME TypeOK, JobLocks, [Next]_vars
  PROVE  JobLocks' /\ [Ledger!Next]_(Ledger!vars)
<1>1. JobLocks' /\ LedgerStep
  <2>1. CASE Next
    BY <2>1, ProceedRefines, RequestsRefine, SchedulerRefines, OutsideRefines DEF Next
  <2>2. CASE UNCHANGED vars
    BY <2>2, Stutter, SameLocks DEF vars, tables, channel, lost, Recorded, LedgerStep
  <2> QED BY <2>1, <2>2
<1> QED BY <1>1 DEF LedgerStep, Ledger!Next

\* Initially nobody holds a job and the ledger is empty.
LEMMA RefinementInit == Init => JobLocks /\ Ledger!Init
<1> SUFFICES ASSUME Init PROVE JobLocks /\ Ledger!Init
  OBVIOUS
<1>1. JobLocks /\ Recorded = {}
  BY DEF Init, JobLocks, Recorded, Row, NoJob
<1>2. Owing = [pr \in Pairs |-> {}] /\ Told = [pr \in Pairs |-> {}]
  BY DEF Init, Owing, Told, Active
<1> QED BY <1>1, <1>2 DEF Init, Ledger!Init

\* The lock on a job is held by the coroutine that works on its pair, and by nobody
\* once the job is recorded as served.
THEOREM JobLocksHaveOwners == Spec => []JobLocks
<1>1. TypeOK /\ JobLocks /\ [Next]_vars => TypeOK' /\ JobLocks'
  BY TypeStep, RefinementStep
<1> QED BY TypeInit, RefinementInit, <1>1, PTL DEF Spec

\* Publication implements the ledger of deliveries.
THEOREM PublishingImplementsLedger == Spec => ImplementsLedger
<1>1. TypeOK /\ JobLocks /\ [Next]_vars => [Ledger!Next]_(Ledger!vars)
  BY RefinementStep
<1> QED BY PublishingTypeCorrect, JobLocksHaveOwners, RefinementInit, <1>1, PTL
        DEF Spec, ImplementsLedger, Ledger!Spec

\* However many coroutines, retries, deferrals and restarts there are, a text too many
\* in a channel has a delivery nobody recorded or an overlapping claim behind it.
THEOREM NoUnaccountedDuplicates ==
  ASSUME IsFiniteSet(Procs)
  PROVE  Spec => []DuplicatesAccountedFor
<1>0. Ledger!IsFiniteSet(Procs)
  BY DEF IsFiniteSet, Ledger!IsFiniteSet
<1>1. Ledger!Init => Ledger!TypeOK /\ Ledger!Credit
  BY Ledger!LedgerInit
<1>2. Ledger!TypeOK /\ Ledger!Credit /\ [Ledger!Next]_(Ledger!vars)
        => Ledger!TypeOK' /\ Ledger!Credit'
  BY <1>0, Ledger!LedgerTypeStep, Ledger!LedgerCreditStep
<1>3. Ledger!TypeOK /\ Ledger!Credit => DuplicatesAccountedFor
  BY <1>0, Ledger!CreditBounds DEF DuplicatesAccountedFor, Ledger!Accounted
<1> QED BY PublishingImplementsLedger, <1>1, <1>2, <1>3, PTL DEF ImplementsLedger, Ledger!Spec

-----------------------------------------------------------------------------
(* The jobs only advance: no session writes an older copy back.             *)

Newer(v, j) == v.attempts >= j.attempts /\ (j.sent => v.sent)

\* What the lock's holder wrote is newer than what is committed.
JobsInOrder == \A pr \in Pairs : Newer(job[pr].cur, job[pr].com)

\* p writes v to the pair's job.
Wrote(p, pr, v) == [job EXCEPT ![pr] = Put(@, p, v)]

\* Everything a step does to the table of jobs.
JobWrite ==
  \/ job' = job
  \/ job' = Rollback(job)
  \/ \E p \in Procs : job' = Commit(job, p) \/ job' = Undo(job, p)
  \/ \E p \in Procs, pr \in Pairs, v \in Job :
       /\ Free(job[pr], p) /\ Newer(v, JobOf(p, pr))
       /\ job' = Wrote(p, pr, v) \/ job' = Commit(Wrote(p, pr, v), p)

\* What the code writes into a job is a newer value of it.
LEMMA NewerValues ==
  ASSUME NEW j \in Job, NEW js \in JobStatus, NEW b \in BOOLEAN
  PROVE  /\ Newer(Deferred(j), j) /\ Newer(Claimed(j), j)
         /\ [j EXCEPT !.status = js, !.sent = @ \/ b] \in Job
         /\ Newer([j EXCEPT !.status = js, !.sent = @ \/ b], j)
         /\ [j EXCEPT !.sent = TRUE] \in Job /\ Newer([j EXCEPT !.sent = TRUE], j)
<1>0. j.attempts \in Nat /\ j.sent \in BOOLEAN /\ j.status \in JobStatus
  BY DEF Job
<1>1. Newer(Deferred(j), j)
  <2>1. Deferred(j).attempts = j.attempts /\ Deferred(j).sent = j.sent
    BY DEF Deferred, Job
  <2> QED BY <1>0, <2>1 DEF Newer
<1>2. Newer(Claimed(j), j)
  <2>1. Claimed(j).attempts = j.attempts + 1 /\ Claimed(j).sent = j.sent
    BY DEF Claimed, Job
  <2> QED BY <1>0, <2>1 DEF Newer
<1>3. [j EXCEPT !.status = js, !.sent = @ \/ b] \in Job
  BY <1>0 DEF Job
<1>4. Newer([j EXCEPT !.status = js, !.sent = @ \/ b], j)
  <2> DEFINE v == [j EXCEPT !.status = js, !.sent = @ \/ b]
  <2>1. v.attempts = j.attempts /\ v.sent = (j.sent \/ b)
    BY DEF Job
  <2> HIDE DEF v
  <2> QED BY <1>0, <2>1 DEF Newer
<1>5. [j EXCEPT !.sent = TRUE] \in Job /\ Newer([j EXCEPT !.sent = TRUE], j)
  <2> DEFINE v == [j EXCEPT !.sent = TRUE]
  <2>1. v \in Job
    BY DEF Job
  <2>2. v.attempts = j.attempts /\ v.sent
    BY DEF Job
  <2>3. v.attempts >= j.attempts
    BY <1>0, <2>2
  <2> QED BY <2>1, <2>2, <2>3 DEF Newer
<1> QED BY <1>1, <1>2, <1>3, <1>4, <1>5

\* A publication writes newer values only, up to its first await...
LEMMA PublishWrites ==
  ASSUME TypeOK, NEW p \in Procs, NEW pr \in Pairs, NEW G, NEW R, NEW keep,
         Publish(p, pr, G, R, keep)
  PROVE  JobWrite
<1>0. JobOf(p, pr) \in Job
  BY JobOfType DEF TypeOK
<1>1. /\ Deferred(JobOf(p, pr)) \in Job /\ Newer(Deferred(JobOf(p, pr)), JobOf(p, pr))
      /\ Claimed(JobOf(p, pr)) \in Job /\ Newer(Claimed(JobOf(p, pr)), JobOf(p, pr))
  BY <1>0, WrittenJobs, NewerValues DEF JobStatus
<1>2. CASE AlreadyPublished(p, pr, G, R) \/ EmptyPayload(p, pr, G, R, keep)
  BY <1>2 DEF AlreadyPublished, EmptyPayload, CommitAll, JobWrite
<1>3. CASE DeferOutsideWindow(p, pr, G, R)
  BY <1>1, <1>3 DEF DeferOutsideWindow, CommitAll, JobWrite, Wrote
<1>4. CASE ClaimJob(p, pr, G, R)
  BY <1>1, <1>4 DEF ClaimJob, JobWrite, Wrote
<1> QED BY <1>2, <1>3, <1>4 DEF Publish

\* ... and after it.
LEMMA ProceedWrites ==
  ASSUME TypeOK, NEW p \in Procs, Proceed(p)
  PROVE  JobWrite
<1>0. on[p] \in Pairs /\ JobOf(p, on[p]) \in Job
  BY JobOfType DEF Proceed, RestoreMedia, Deliver, Acknowledge, SendFails, AnswerLost,
                   TypeOK, WorkersOK
<1>1. ASSUME NEW gs, NEW rs, NEW js \in {"success", "failed"}, Settle(p, gs, rs, js)
      PROVE  JobWrite
  <2> DEFINE v == [JobOf(p, on[p]) EXCEPT !.status = js, !.sent = @ \/ js = "success"]
  <2>1. v \in Job /\ Newer(v, JobOf(p, on[p]))
    BY <1>0, NewerValues DEF JobStatus
  <2>2. \/ job' = job
        \/ Free(job[on[p]], p) /\ job' = Commit(Wrote(p, on[p], v), p)
    BY <1>1 DEF Settle, CommitAll, Wrote, tables
  <2> HIDE DEF v
  <2> QED BY <1>0, <2>1, <2>2 DEF JobWrite
<1>2. CASE RestoreMedia(p) \/ Deliver(p)
  BY <1>2 DEF RestoreMedia, Deliver, CommitAll, tables, JobWrite
<1>3. CASE Acknowledge(p)
  <2> DEFINE v == [JobOf(p, on[p]) EXCEPT !.sent = TRUE]
  <2>1. v \in Job /\ Newer(v, JobOf(p, on[p]))
    BY <1>0, NewerValues DEF JobStatus
  <2>2. \/ job' = job
        \/ Free(job[on[p]], p) /\ job' = Commit(Wrote(p, on[p], v), p)
        \/ MarkPublished(p)
    BY <1>3 DEF Acknowledge, CommitAll, Wrote, tables
  <2> HIDE DEF v
  <2> QED BY <1>0, <1>1, <2>1, <2>2 DEF JobWrite, MarkPublished
<1>4. CASE SendFails(p) \/ AnswerLost(p)
  BY <1>1, <1>4 DEF SendFails, AnswerLost, MarkPublishFailed
<1> QED BY <1>2, <1>3, <1>4 DEF Proceed

\* Every step writes newer values only.
LEMMA StepWrites ==
  ASSUME TypeOK, [Next]_vars
  PROVE  JobWrite
<1>0. Sched \in Procs /\ Clicks \subseteq Procs
  BY DEF Procs
<1>1. CASE Requests
  <2>1. ASSUME NEW p \in Clicks, NEW pr \in Pairs, Click(p, pr) \/ PublishRaw(p, pr)
        PROVE  JobWrite
    BY <1>0, <2>1, PublishWrites DEF Click, PublishRaw, tables, JobWrite
  <2> QED BY <1>1, <2>1 DEF Requests, SaveGenerated, RejectGenerated, RejectPost, BulkReject, JobWrite
<1>2. CASE Scheduler
  <2>1. ASSUME NEW pr \in Pairs, RetryFailedJob(pr) \/ ProcessScheduledJob(pr) PROVE JobWrite
    BY <1>0, <2>1, PublishWrites DEF RetryFailedJob, ProcessScheduledJob, tables, JobWrite
  <2> QED BY <1>0, <1>2, <2>1
          DEF Scheduler, StartRetries, StartScheduled, EndRun, CommitAll, UndoAll, tables, JobWrite
<1>3. CASE Time \/ Restart \/ UNCHANGED vars
  BY <1>3 DEF Time, WindowOpens, WindowCloses, Restart, vars, tables, JobWrite
<1> QED BY <1>1, <1>2, <1>3, ProceedWrites DEF Next

\* A write of newer values advances the committed jobs.
LEMMA WritesAdvance ==
  ASSUME TypeOK, JobsInOrder, JobWrite
  PROVE  JobsInOrder' /\ \A pr \in Pairs : Newer(job'[pr].com, job[pr].com)
<1> SUFFICES ASSUME NEW q \in Pairs
             PROVE  Newer(job'[q].cur, job'[q].com) /\ Newer(job'[q].com, job[q].com)
  BY DEF JobsInOrder
<1>0. /\ job \in [Pairs -> Cells(Job)] /\ job[q] \in Cells(Job)
      /\ job[q].com \in Job /\ job[q].cur \in Job
      /\ Newer(job[q].cur, job[q].com)
  BY DEF TypeOK, TablesOK, Cells, JobsInOrder
<1>1. \A v \in Job : Newer(v, v)
  BY DEF Newer, Job
<1>2. \A u, v, w \in Job : Newer(u, v) /\ Newer(v, w) => Newer(u, w)
  BY DEF Newer, Job
<1>3. CASE job' = job
  BY <1>0, <1>1, <1>3
<1>4. CASE job' = Rollback(job)
  BY <1>0, <1>1, <1>4 DEF Rollback, Row
<1>5. ASSUME NEW p \in Procs, job' = Commit(job, p) \/ job' = Undo(job, p)
      PROVE  Newer(job'[q].cur, job'[q].com) /\ Newer(job'[q].com, job[q].com)
  <2>1. job'[q] = Release(job[q], p) \/ job'[q] = Withdraw(job[q], p)
    BY <1>0, <1>5 DEF Commit, Undo
  <2> QED
    BY <1>0, <1>1, <2>1 DEF Release, Withdraw, Row
<1>6. ASSUME NEW p \in Procs, NEW pr \in Pairs, NEW v \in Job,
             Free(job[pr], p), Newer(v, JobOf(p, pr)),
             job' = Wrote(p, pr, v) \/ job' = Commit(Wrote(p, pr, v), p)
      PROVE  Newer(job'[q].cur, job'[q].com) /\ Newer(job'[q].com, job[q].com)
  <2> DEFINE c == IF q = pr THEN Put(job[q], p, v) ELSE job[q]
  <2>1. job'[q] = c \/ job'[q] = Release(c, p)
    BY <1>0, <1>6 DEF Wrote, Commit
  <2>2. c \in Cells(Job) /\ c.com \in Job /\ c.cur \in Job
    BY <1>0, PutType DEF Cells
  <2>3. c.com = job[q].com /\ Newer(c.cur, c.com)
    <3>1. CASE q = pr /\ c # job[q]
      <4>1. c.com = job[q].com /\ c.cur = v
        BY <1>0, <3>1 DEF Put, Cells
      <4>2. JobOf(p, pr) \in Job /\ Newer(JobOf(p, pr), job[q].com)
        BY <1>0, <1>1, <3>1 DEF JobOf, View
      <4> QED BY <1>0, <1>2, <1>6, <4>1, <4>2
    <3>2. CASE c = job[q]
      BY <1>0, <3>2
    <3> QED BY <3>1, <3>2
  <2> HIDE DEF c
  <2>4. CASE job'[q] = c
    BY <1>0, <1>1, <2>3, <2>4
  <2>5. CASE job'[q] = Release(c, p)
    <3>1. CASE c.by = p
      <4>1. job'[q].com = c.cur /\ job'[q].cur = c.cur
        BY <2>5, <3>1 DEF Release, Row
      <4> QED BY <1>1, <2>2, <2>3, <4>1
    <3>2. CASE c.by # p
      BY <1>0, <1>1, <2>3, <2>5, <3>2 DEF Release
    <3> QED BY <3>1, <3>2
  <2> QED BY <2>1, <2>4, <2>5
<1> QED BY <1>3, <1>4, <1>5, <1>6 DEF JobWrite

\* The attempts of a job are never taken back and its delivery is never forgotten,
\* whoever commits last.
THEOREM JobsAdvance == Spec => JobsOnlyAdvance
<1>1. Init => JobsInOrder
  BY DEF Init, JobsInOrder, Newer, Row, NoJob
<1>2. TypeOK /\ JobsInOrder /\ [Next]_vars => JobsInOrder'
  BY StepWrites, WritesAdvance
<1>3. TypeOK /\ JobsInOrder /\ [Next]_vars
        => [\A pr \in Pairs : /\ job'[pr].com.attempts >= job[pr].com.attempts
                              /\ job[pr].com.sent => job'[pr].com.sent]_vars
  BY StepWrites, WritesAdvance DEF Newer
<1> QED BY <1>1, <1>2, <1>3, PublishingTypeCorrect, PTL DEF Spec, JobsOnlyAdvance

=============================================================================
