------------------------------ MODULE MediaProofs ------------------------------
(***************************************************************************)
(* Theorems about MediaFiles, for any posts, albums, uploads, pages,        *)
(* publications and threads: the types, who restores which post, that no    *)
(* upload disappears from the disk, where a file without a row is from, and *)
(* that the counter and the order of an album hold.                         *)
(***************************************************************************)
EXTENDS MediaFiles, FiniteSetTheorems, WellFoundedInduction, TLAPS

-----------------------------------------------------------------------------
(* Types.                                                                  *)

Orders == UNION {[S -> Nat] : S \in SUBSET Items}
Knowns == UNION {[S -> Paths] : S \in SUBSET Items}

UploadRec == [at : {"idle", "reading", "flushed"}, post : Posts \cup {None}, chosen : Nat,
              saved : Seq(Manual), top : Int, loaded : Nat, counted : Nat]
ThreadRec == [at : {"idle", "deleting", "moving", "cleaning"}, post : Posts \cup {None},
              item : Items \cup {0}, loaded : Nat, counted : Nat, order : Orders,
              todo : SUBSET Paths]
FetchRec == [at : {"idle", "loading", "ready", "sending"}, post : Posts \cup {None},
             todo : SUBSET Channel, now : Paths \cup {NoPath}, got : SUBSET Paths, was : Knowns]

ItemType ==
  /\ DOMAIN item = Items
  /\ \A i \in Items : \/ item[i] = NoItem
                      \/ /\ item[i] \in [post : Posts, path : Paths, order : Nat]
                         /\ post[item[i].post] = "present" /\ item[i].path[1] = i
RowType ==
  /\ post \in [Posts -> {"absent", "present", "deleted"}]
  /\ ItemType
  /\ count \in [Posts -> Nat]
FileType ==
  /\ disk \in [Paths -> {"none", "part", "whole"}] /\ old \subseteq Paths
  /\ waiting \subseteq Posts /\ flight \subseteq Posts /\ cooling \subseteq Posts
  /\ day \in 1..MaxDay
UploadType ==
  /\ up \in [Uploads -> UploadRec]
  /\ \A u \in Uploads : /\ up[u].at # "idle" => up[u].post \in Posts
                        /\ up[u].at = "flushed" => post[up[u].post] = "present"
                        /\ up[u].top >= -1
ThreadType ==
  /\ thread \in [Threads -> ThreadRec]
  /\ \A t \in Threads :
       /\ thread[t].at # "idle" /\ thread[t].at # "cleaning" => thread[t].post \in Posts
       /\ thread[t].at = "deleting" => thread[t].item \in Items
FetchType ==
  /\ fetch \in [Fetchers -> FetchRec]
  /\ \A f \in Fetchers : fetch[f].at # "idle" => fetch[f].post \in Posts

MediaType == RowType /\ FileType /\ UploadType /\ ThreadType /\ FetchType

\* A finite set of numbers has a largest one.
LEMMA LargestThere ==
  ASSUME NEW S \in SUBSET Nat, IsFiniteSet(S), S # {}
  PROVE  \E n \in S : \A m \in S : m <= n
<1> DEFINE Bad == {T \in FiniteSubsetsOf(S) : T # {} /\ ~\E n \in T : \A m \in T : m <= n}
<1>1. SUFFICES ASSUME Bad # {} PROVE FALSE
  <2>1. S \in FiniteSubsetsOf(S)
    BY DEF FiniteSubsetsOf
  <2> QED
    BY <2>1
<1>2. PICK T \in Bad : \A U \in Bad : ~(<<U, T>> \in StrictSubsetOrdering(S))
  <2>1. Bad \subseteq FiniteSubsetsOf(S)
    OBVIOUS
  <2> HIDE DEF Bad
  <2> QED
    BY <1>1, <2>1, FS_StrictSubsetOrderingWellFounded, WFMin
<1>3. PICK x \in T : TRUE
  OBVIOUS
<1>4. T \ {x} \in FiniteSubsetsOf(S) /\ T \in FiniteSubsetsOf(S)
  BY <1>3, FS_RemoveElement DEF FiniteSubsetsOf
<1>5. <<T \ {x}, T>> \in StrictSubsetOrdering(S)
  BY <1>3, <1>4 DEF StrictSubsetOrdering, FiniteSubsetsOf
<1>6. T \ {x} \notin Bad
  BY <1>2, <1>5
<1>7. T \subseteq Nat
  BY <1>4 DEF FiniteSubsetsOf
<1>8. CASE T \ {x} = {}
  BY <1>3, <1>7, <1>8
<1>9. CASE T \ {x} # {}
  <2>1. PICK m \in T \ {x} : \A k \in T \ {x} : k <= m
    BY <1>4, <1>6, <1>9
  <2>2. CASE x <= m
    BY <2>1, <2>2, <1>7
  <2>3. CASE ~(x <= m)
    BY <2>1, <2>3, <1>3, <1>7
  <2> QED
    BY <2>2, <2>3
<1> QED
  BY <1>8, <1>9

LEMMA ItemsFinite ==
  ASSUME MediaAssumption PROVE IsFiniteSet(Items)
BY FS_Union DEF MediaAssumption, Items

LEMMA RowsCount ==
  ASSUME MediaAssumption, NEW p
  PROVE  IsFiniteSet(Rows(p)) /\ Cardinality(Rows(p)) \in Nat
<1>1. Rows(p) \in SUBSET Items
  BY DEF Rows
<1> QED
  BY <1>1, ItemsFinite, FS_Subset, FS_CardinalityType

LEMMA LastPlace ==
  ASSUME MediaAssumption, ItemType, NEW p \in Posts
  PROVE  Last(p) \in Int /\ Last(p) >= -1 /\ \A i \in Rows(p) : item[i].order <= Last(p)
<1> DEFINE S == {item[i].order : i \in Rows(p)}
<1>1. CASE Rows(p) = {}
  BY <1>1 DEF Last
<1>2. CASE Rows(p) # {}
  <2>1. p # None
    BY DEF MediaAssumption
  <2>2. \A i \in Rows(p) : item[i].order \in Nat
    BY <2>1 DEF Rows, ItemType, NoItem
  <2>3. S \in SUBSET Nat /\ S # {} /\ IsFiniteSet(S)
    <3> DEFINE g == [i \in Rows(p) |-> item[i].order]
    <3>1. g \in Surjection(Rows(p), S)
      BY DEF Surjection
    <3>2. IsFiniteSet(S)
      BY <3>1, RowsCount, FS_Surjection
    <3> QED
      BY <1>2, <2>2, <3>2
  <2>4. PICK n \in S : \A m \in S : m <= n
    BY <2>3, LargestThere
  <2>5. \A i \in Rows(p) : item[i].order <= n
    BY <2>4
  <2>6. Last(p) \in S /\ \A i \in Rows(p) : item[i].order <= Last(p)
    BY <1>2, <2>4, <2>5 DEF Last
  <2> QED
    BY <2>3, <2>6
<1> QED
  BY <1>1, <1>2

LEMMA ChannelCount ==
  ASSUME MediaAssumption, NEW p \in Posts, NEW S, S \subseteq Album[p]
  PROVE  Cardinality(S) \in Nat /\ S \subseteq Channel
<1>1. S \subseteq Channel
  BY DEF MediaAssumption
<1> QED
  BY <1>1, FS_Subset, FS_CardinalityType DEF MediaAssumption

LEMMA PathType ==
  ASSUME MediaAssumption, day \in 1..MaxDay, NEW i \in Items
  PROVE  Path(i) \in Paths /\ Path(i)[1] = i
BY DEF MediaAssumption, Path, Paths, Items

LEMMA NoPathType == ASSUME MediaAssumption PROVE NoPath \notin Paths
BY DEF MediaAssumption, NoPath, Paths

LEMMA IdleTypes ==
  ASSUME MediaAssumption
  PROVE  IdleUpload \in UploadRec /\ IdleThread \in ThreadRec /\ IdleFetch \in FetchRec
<1>0. {} \in SUBSET Items
  OBVIOUS
<1>1. [i \in {} |-> 0] \in Orders
  <2>1. [i \in {} |-> 0] \in [{} -> Nat]
    OBVIOUS
  <2> QED
    BY <1>0, <2>1, Zenon DEF Orders
<1>2. [i \in {} |-> NoPath] \in Knowns
  <2>1. [i \in {} |-> NoPath] \in [{} -> Paths]
    OBVIOUS
  <2> QED
    BY <1>0, <2>1, Zenon DEF Knowns
<1> QED
  BY <1>1, <1>2 DEF IdleUpload, UploadRec, IdleThread, ThreadRec, IdleFetch, FetchRec

LEMMA TypeInit == ASSUME MediaAssumption, Init PROVE MediaType
<1>1. RowType
  BY DEF Init, RowType, ItemType
<1>2. FileType
  BY DEF Init, FileType, MediaAssumption
<1>3. UploadType /\ ThreadType /\ FetchType
  BY IdleTypes DEF Init, UploadType, ThreadType, FetchType, IdleUpload, IdleThread, IdleFetch
<1> QED
  BY <1>1, <1>2, <1>3 DEF MediaType

\* Steps that leave the rows, the uploads, the threads or the downloads alone.
LEMMA RowsStay ==
  ASSUME RowType, UNCHANGED rows PROVE RowType'
BY DEF RowType, ItemType, rows

LEMMA UploadsStay ==
  ASSUME UploadType, UNCHANGED <<up, post>> PROVE UploadType'
BY DEF UploadType

LEMMA ThreadsStay ==
  ASSUME ThreadType, UNCHANGED thread PROVE ThreadType'
BY DEF ThreadType

LEMMA FetchesStay ==
  ASSUME FetchType, UNCHANGED fetch PROVE FetchType'
BY DEF FetchType

LEMMA CollectType ==
  ASSUME MediaAssumption, MediaType, NEW p \in Posts, NEW got \in SUBSET Album[p], Collect(p, got)
  PROVE  MediaType'
<1>1. ItemType'
  <2>1. \A q \in Posts : post[q] = "present" => post'[q] = "present"
    BY DEF Collect, MediaType, RowType
  <2>2. post'[p] = "present"
    BY DEF Collect, MediaType, RowType
  <2> SUFFICES ASSUME NEW i \in Items
               PROVE  \/ item'[i] = NoItem
                      \/ /\ item'[i] \in [post : Posts, path : Paths, order : Nat]
                         /\ post'[item'[i].post] = "present" /\ item'[i].path[1] = i
    BY DEF Collect, ItemType
  <2>3. CASE i \in got
    <3>1. Path(i) \in Paths /\ Path(i)[1] = i
      BY PathType DEF MediaType, FileType
    <3>2. Cardinality({j \in Album[p] : j < i}) \in Nat
      BY ChannelCount
    <3>3. item'[i] = [post |-> p, path |-> Path(i), order |-> Cardinality({j \in Album[p] : j < i})]
      BY <2>3 DEF Collect
    <3> QED
      BY <2>2, <3>1, <3>2, <3>3
  <2>4. CASE i \notin got
    BY <2>1, <2>4 DEF Collect, ItemType, MediaType, RowType
  <2> QED
    BY <2>3, <2>4
<1>2. RowType'
  BY <1>1, ChannelCount DEF Collect, RowType, MediaType
<1>3. FileType'
  BY DEF Collect, FileType, MediaType, restoring
<1>4. UploadType'
  BY DEF Collect, UploadType, MediaType, RowType, writers
<1> QED
  BY <1>2, <1>3, <1>4, ThreadsStay, FetchesStay DEF Collect, MediaType, writers, restoring

\* The clock, the queue, the cleanup.
LEMMA QuietType ==
  ASSUME MediaAssumption, MediaType,
         \/ NextDay \/ Prune
         \/ \E path \in Paths : Age(path)
         \/ \E p \in Posts : CoolDown(p) \/ Queue(p)
  PROVE  MediaType'
<1>1. UNCHANGED <<rows, up, thread, fetch>>
  BY DEF NextDay, Prune, Age, CoolDown, Queue, rows, restoring, writers
<1>2. FileType'
  BY DEF NextDay, Prune, Age, CoolDown, Queue, MediaType, FileType, files, restoring, MediaAssumption
<1> QED
  BY <1>1, <1>2, RowsStay, UploadsStay, ThreadsStay, FetchesStay DEF MediaType, rows

LEMMA RoomType ==
  ASSUME MediaAssumption, NEW p, NEW n \in 1..Room(p) PROVE n \in Nat
BY RowsCount DEF Room, MediaAssumption

LEMMA StartUploadType ==
  ASSUME MediaAssumption, MediaType, NEW u \in Uploads, NEW p \in Posts, NEW n \in 1..Limit,
         StartUpload(u, p, n)
  PROVE  MediaType'
<1>1. n \in Nat
  BY DEF MediaAssumption
<1>2. Last(p) \in Int /\ Last(p) >= -1
  BY LastPlace DEF MediaType, RowType
<1>3. UploadType'
  <2>1. [IdleUpload EXCEPT !.at = "reading", !.post = p, !.chosen = n,
                           !.top = Last(p), !.loaded = count[p]] \in UploadRec
    BY <1>1, <1>2, IdleTypes DEF UploadRec, IdleUpload, MediaType, RowType
  <2> QED
    BY <1>2, <2>1 DEF StartUpload, MediaType, UploadType, rows, IdleUpload
<1>4. FileType'
  BY DEF StartUpload, MediaType, FileType, files, restoring
<1> QED
  BY <1>3, <1>4, RowsStay, ThreadsStay, FetchesStay DEF StartUpload, MediaType, restoring

LEMMA SaveUploadType ==
  ASSUME MediaAssumption, MediaType, NEW u \in Uploads, NEW i \in Manual, SaveUpload(u, i)
  PROVE  MediaType'
<1>1. Append(up[u].saved, i) \in Seq(Manual)
  BY DEF MediaType, UploadType, UploadRec
<1>2. UploadType'
  BY <1>1 DEF SaveUpload, MediaType, UploadType, UploadRec, rows
<1>3. FileType'
  BY DEF SaveUpload, MediaType, FileType, Written, restoring
<1> QED
  BY <1>2, <1>3, RowsStay, ThreadsStay, FetchesStay DEF SaveUpload, MediaType, restoring

LEMMA RejectUploadType ==
  ASSUME MediaAssumption, MediaType, NEW u \in Uploads, NEW i \in Manual, RejectUpload(u, i)
  PROVE  MediaType'
<1>1. UploadType'
  BY IdleTypes DEF RejectUpload, MediaType, UploadType, rows, IdleUpload
<1>2. FileType'
  BY DEF RejectUpload, MediaType, FileType, restoring
<1> QED
  BY <1>1, <1>2, RowsStay, ThreadsStay, FetchesStay DEF RejectUpload, MediaType, restoring

LEMMA FlushUploadType ==
  ASSUME MediaAssumption, MediaType, NEW u \in Uploads, FlushUpload(u)
  PROVE  MediaType'
<1>1. Cardinality(Rows(up[u].post)) \in Nat
  BY RowsCount
<1>2. UploadType'
  <2>1. CASE Referable(u)
    <3> DEFINE flushed == [up[u] EXCEPT !.at = "flushed",
                                        !.counted = Cardinality(Rows(up[u].post)) + up[u].chosen]
    <3>1. up[u] \in UploadRec /\ up[u].post \in Posts /\ up[u].top >= -1
      BY DEF FlushUpload, MediaType, UploadType
    <3>2. flushed \in UploadRec /\ flushed.post = up[u].post /\ flushed.top = up[u].top
      <4>1. Cardinality(Rows(up[u].post)) + up[u].chosen \in Nat
        BY <1>1, <3>1 DEF UploadRec
      <4>2. \A r \in UploadRec, n \in Nat :
              LET new == [r EXCEPT !.at = "flushed", !.counted = n]
              IN  new \in UploadRec /\ new.post = r.post /\ new.top = r.top
        BY DEF UploadRec
      <4> QED
        BY <3>1, <4>1, <4>2
    <3>3. up' = [up EXCEPT ![u] = flushed]
      <4>1. up' = [up EXCEPT ![u].at = "flushed",
                             ![u].counted = Cardinality(Rows(up[u].post)) + up[u].chosen]
        BY <2>1 DEF FlushUpload
      <4>2. DOMAIN up = Uploads
        BY DEF MediaType, UploadType
      <4> QED
        BY <4>1, <4>2
    <3>4. post' = post /\ post[up[u].post] = "present"
      BY <2>1 DEF FlushUpload, rows, Referable
    <3> HIDE DEF flushed
    <3>5. up' \in [Uploads -> UploadRec]
      BY <3>2, <3>3 DEF MediaType, UploadType
    <3>6. \A v \in Uploads : up'[v] = IF v = u THEN flushed ELSE up[v]
      BY <3>3 DEF MediaType, UploadType
    <3> QED
      BY <3>1, <3>2, <3>4, <3>5, <3>6 DEF MediaType, UploadType
  <2>2. CASE ~Referable(u)
    BY <2>2, IdleTypes DEF FlushUpload, MediaType, UploadType, rows, IdleUpload
  <2> QED
    BY <2>1, <2>2
<1>3. FileType'
  BY DEF FlushUpload, MediaType, FileType, restoring
<1> QED
  BY <1>2, <1>3, RowsStay, ThreadsStay, FetchesStay DEF FlushUpload, MediaType, restoring

LEMMA OffsetType ==
  ASSUME MediaType, NEW u \in Uploads, NEW i \in Saved(u)
  PROVE  Offset(u, i) \in 1..Len(up[u].saved) /\ up[u].saved[Offset(u, i)] = i
BY DEF Saved, Offset

LEMMA SavedType ==
  ASSUME MediaType, NEW u \in Uploads PROVE Saved(u) \subseteq Manual
BY DEF Saved, MediaType, UploadType, UploadRec

LEMMA CommitUploadType ==
  ASSUME MediaAssumption, MediaType, NEW u \in Uploads, CommitUpload(u)
  PROVE  MediaType'
<1>0. up[u] \in UploadRec /\ up[u].post \in Posts /\ post[up[u].post] = "present" /\ up[u].top >= -1
  BY DEF CommitUpload, MediaType, UploadType
<1>1. ItemType'
  <2>1. \A i \in Saved(u) : /\ i \in Manual
                            /\ <<i, 0>> \in Paths
                            /\ up[u].top + Offset(u, i) \in Nat
    <3> TAKE i \in Saved(u)
    <3>1. Offset(u, i) \in 1..Len(up[u].saved) /\ Len(up[u].saved) \in Nat
      BY <1>0, OffsetType DEF UploadRec
    <3>2. up[u].top \in Int
      BY <1>0 DEF UploadRec
    <3> QED
      BY <1>0, <3>1, <3>2, SavedType DEF Paths
  <2> QED
    BY <1>0, <2>1 DEF CommitUpload, ItemType, MediaType, RowType
<1>2. RowType'
  BY <1>0, <1>1 DEF CommitUpload, RowType, MediaType, Counter, UploadRec
<1>3. UploadType'
  BY IdleTypes DEF CommitUpload, MediaType, UploadType, IdleUpload
<1>4. FileType'
  BY DEF CommitUpload, MediaType, FileType, files, restoring
<1> QED
  BY <1>2, <1>3, <1>4, ThreadsStay, FetchesStay DEF CommitUpload, MediaType, restoring

LEMMA RowFacts ==
  ASSUME MediaAssumption, ItemType, NEW i \in Items, item[i] # NoItem
  PROVE  /\ item[i].post \in Posts /\ item[i].post # None /\ post[item[i].post] = "present"
         /\ item[i].path \in Paths /\ item[i].path[1] = i /\ item[i].order \in Nat
         /\ item[i] \in [post : Posts, path : Paths, order : Nat]
BY DEF MediaAssumption, ItemType

LEMMA NoItemFacts == ASSUME MediaAssumption, NEW p \in Posts PROVE NoItem.post # p
BY DEF MediaAssumption, NoItem

\* A row of a post is a row, and a row without a file is one of a channel.
LEMMA RowsFacts ==
  ASSUME MediaAssumption, ItemType, NEW p \in Posts
  PROVE  /\ Rows(p) \subseteq {i \in Items : item[i] # NoItem}
         /\ Missing(p) \subseteq Channel
         /\ Known(p) \in Knowns
<1>1. Rows(p) \subseteq {i \in Items : item[i] # NoItem}
  BY NoItemFacts DEF Rows
<1>2. Missing(p) \subseteq Channel
  BY <1>1 DEF Missing, Origin, Items
<1>3. Known(p) \in Knowns
  <2>1. Rows(p) \in SUBSET Items
    BY DEF Rows
  <2>2. Known(p) \in [Rows(p) -> Paths]
    BY <1>1, RowFacts DEF Known
  <2> QED
    BY <2>1, <2>2, Zenon DEF Knowns
<1> QED
  BY <1>1, <1>2, <1>3

LEMMA DeleteItemType ==
  ASSUME MediaAssumption, MediaType, NEW t \in Threads, NEW i \in Items, DeleteItem(t, i)
  PROVE  MediaType'
<1> DEFINE p == item[i].post
           deleting == [IdleThread EXCEPT !.at = "deleting", !.post = p, !.item = i,
                          !.loaded = count[p], !.counted = Cardinality(Rows(p) \ {i})]
<1>1. ItemType /\ item[i] # NoItem
  BY DEF DeleteItem, MediaType, RowType
<1>2. Cardinality(Rows(p) \ {i}) \in Nat
  BY RowsCount, FS_RemoveElement, FS_CardinalityType
<1>3. p \in Posts /\ count[p] \in Nat
  BY <1>1, RowFacts DEF MediaType, RowType
<1>4. deleting \in ThreadRec
  BY <1>2, <1>3, IdleTypes DEF ThreadRec, IdleThread
<1>5. ThreadType'
  <2>1. thread' = [thread EXCEPT ![t] = deleting]
    BY DEF DeleteItem
  <2>2. deleting.at = "deleting" /\ deleting.post = p /\ deleting.item = i
    BY DEF IdleThread
  <2> HIDE DEF deleting, p
  <2> QED
    BY <1>3, <1>4, <2>1, <2>2 DEF MediaType, ThreadType
<1>6. FileType'
  BY DEF DeleteItem, MediaType, FileType, restoring
<1> QED
  BY <1>5, <1>6, RowsStay, UploadsStay, FetchesStay DEF DeleteItem, MediaType, restoring, rows

LEMMA CommitDeleteType ==
  ASSUME MediaAssumption, MediaType, NEW t \in Threads, CommitDelete(t)
  PROVE  MediaType'
<1>1. thread[t] \in ThreadRec /\ thread[t].post \in Posts /\ thread[t].item \in Items
  BY DEF CommitDelete, MediaType, ThreadType
<1>2. ItemType'
  BY <1>1 DEF CommitDelete, MediaType, RowType, ItemType
<1>3. Recount(t) \in Nat
  BY <1>1 DEF Recount, Counter, ThreadRec, MediaType, RowType
<1>4. RowType'
  BY <1>2, <1>3 DEF CommitDelete, MediaType, RowType
<1>5. ThreadType'
  BY IdleTypes DEF CommitDelete, MediaType, ThreadType, IdleThread
<1>6. FileType'
  BY DEF CommitDelete, MediaType, FileType, restoring
<1> QED
  BY <1>4, <1>5, <1>6, UploadsStay, FetchesStay DEF CommitDelete, MediaType, restoring

LEMMA RankType ==
  ASSUME MediaAssumption, NEW p, NEW i PROVE Rank(p, i) \in Nat
<1>1. {j \in Rows(p) : \/ item[j].order < item[i].order
                       \/ item[j].order = item[i].order /\ j < i} \in SUBSET Rows(p)
  OBVIOUS
<1> QED
  BY <1>1, RowsCount, FS_Subset, FS_CardinalityType DEF Rank

LEMMA MoveType ==
  ASSUME MediaAssumption, MediaType, NEW t \in Threads, NEW i \in Items, Move(t, i)
  PROVE  MediaType'
<1> DEFINE p == item[i].post
<1>1. p \in Posts
  BY RowFacts DEF Move, MediaType, RowType
<1>2. PICK to \in 0..Cardinality(Rows(p)) - 1 :
        thread' = [thread EXCEPT ![t] = [IdleThread EXCEPT !.at = "moving", !.post = p,
                                                          !.order = Moved(p, i, to)]]
  BY DEF Move
<1>3. to \in Nat
  BY RowsCount
<1>4. \A j \in Items : Place(p, i, to, j) \in Nat
  BY <1>3, RankType DEF Place
<1>5. Moved(p, i, to) \in Orders
  <2> DEFINE S == {k \in Rows(p) : item[k].order # Place(p, i, to, k)}
  <2>1. S \in SUBSET Items
    BY DEF Rows
  <2>2. Moved(p, i, to) \in [S -> Nat]
    BY <1>4, <2>1 DEF Moved
  <2> QED
    BY <2>1, <2>2, Zenon DEF Orders
<1>6. ThreadType'
  <2> DEFINE moving == [IdleThread EXCEPT !.at = "moving", !.post = p, !.order = Moved(p, i, to)]
  <2>1. moving \in ThreadRec
    BY <1>1, <1>5, IdleTypes DEF ThreadRec, IdleThread
  <2>2. moving.at = "moving" /\ moving.post = p
    BY DEF IdleThread
  <2>3. thread' = [thread EXCEPT ![t] = moving]
    BY <1>2
  <2> HIDE DEF moving, p
  <2> QED
    BY <1>1, <2>1, <2>2, <2>3 DEF MediaType, ThreadType
<1>7. FileType'
  BY DEF Move, MediaType, FileType, files, restoring
<1> QED
  BY <1>6, <1>7, RowsStay, UploadsStay, FetchesStay DEF Move, MediaType, restoring, rows

LEMMA CommitMoveType ==
  ASSUME MediaAssumption, MediaType, NEW t \in Threads, CommitMove(t)
  PROVE  MediaType'
<1> DEFINE order == thread[t].order
<1>1. PICK S \in SUBSET Items : order \in [S -> Nat]
  BY DEF MediaType, ThreadType, ThreadRec, Orders
<1>2. ItemType'
  <2>1. CASE \A i \in DOMAIN order : item[i] # NoItem
    <3>1. item' = [i \in Items |-> IF i \in S THEN [item[i] EXCEPT !.order = order[i]] ELSE item[i]]
      BY <1>1, <2>1 DEF CommitMove
    <3>2. post' = post
      BY DEF CommitMove
    <3>3. \A i \in S : item[i] # NoItem /\ order[i] \in Nat
      BY <1>1, <2>1
    <3> SUFFICES ASSUME NEW i \in Items
                 PROVE  \/ item'[i] = NoItem
                        \/ /\ item'[i] \in [post : Posts, path : Paths, order : Nat]
                           /\ post[item'[i].post] = "present" /\ item'[i].path[1] = i
      BY <3>1, <3>2 DEF ItemType
    <3>4. CASE i \notin S
      BY <3>1, <3>4 DEF MediaType, RowType, ItemType
    <3>5. CASE i \in S
      <4> HIDE DEF order
      <4>1. item'[i] = [item[i] EXCEPT !.order = order[i]]
        BY <3>1, <3>5
      <4>2. item[i] \in [post : Posts, path : Paths, order : Nat]
        BY <3>3, <3>5 DEF MediaType, RowType, ItemType
      <4> QED
        BY <3>3, <3>5, <4>1, <4>2 DEF MediaType, RowType, ItemType
    <3> QED
      BY <3>4, <3>5
  <2>2. CASE ~\A i \in DOMAIN order : item[i] # NoItem
    BY <2>2 DEF CommitMove, MediaType, RowType, ItemType
  <2> QED
    BY <2>1, <2>2
<1>3. RowType'
  BY <1>2 DEF CommitMove, MediaType, RowType
<1>4. ThreadType'
  BY IdleTypes DEF CommitMove, MediaType, ThreadType, IdleThread
<1>5. FileType'
  BY DEF CommitMove, MediaType, FileType, files, restoring
<1> QED
  BY <1>3, <1>4, <1>5, UploadsStay, FetchesStay DEF CommitMove, MediaType, restoring

LEMMA StartCleanupType ==
  ASSUME MediaAssumption, MediaType, NEW t \in Threads, StartCleanup(t)
  PROVE  MediaType'
<1>1. Droppable \in SUBSET Paths
  BY RowFacts DEF Droppable, OfChannels, MediaType, RowType
<1>2. ThreadType'
  <2> DEFINE cleaning == [IdleThread EXCEPT !.at = "cleaning", !.todo = Droppable]
  <2>1. cleaning \in ThreadRec /\ cleaning.at = "cleaning"
    BY <1>1, IdleTypes DEF ThreadRec, IdleThread
  <2>2. thread' = [thread EXCEPT ![t] = cleaning]
    BY DEF StartCleanup
  <2> HIDE DEF cleaning
  <2> QED
    BY <2>1, <2>2 DEF MediaType, ThreadType
<1>3. FileType'
  BY DEF StartCleanup, MediaType, FileType, files, restoring
<1> QED
  BY <1>2, <1>3, RowsStay, UploadsStay, FetchesStay DEF StartCleanup, MediaType, restoring, rows

LEMMA CleanType ==
  ASSUME MediaAssumption, MediaType, NEW t \in Threads, NEW path \in Paths, Clean(t, path)
  PROVE  MediaType'
<1>1. thread[t] \in ThreadRec /\ thread[t].at = "cleaning"
  BY DEF Clean, MediaType, ThreadType
<1>2. ThreadType'
  <2> DEFINE rest == [thread[t] EXCEPT !.todo = thread[t].todo \ {path}]
  <2>1. rest \in ThreadRec /\ rest.at = "cleaning"
    BY <1>1 DEF ThreadRec
  <2>2. thread' = [thread EXCEPT ![t] = IF thread[t].todo \ {path} = {} THEN IdleThread ELSE rest]
    BY DEF Clean, MediaType, ThreadType
  <2>3. IdleThread \in ThreadRec /\ IdleThread.at = "idle"
    BY IdleTypes DEF IdleThread
  <2> HIDE DEF rest
  <2> QED
    BY <2>1, <2>2, <2>3 DEF MediaType, ThreadType
<1>3. FileType'
  <2>1. disk[path] \in {"none", "part", "whole"}
    BY DEF MediaType, FileType
  <2> QED
    BY <2>1 DEF Clean, MediaType, FileType, restoring
<1> QED
  BY <1>2, <1>3, RowsStay, UploadsStay, FetchesStay DEF Clean, MediaType, restoring, rows

LEMMA DeletePostType ==
  ASSUME MediaAssumption, MediaType, NEW p \in Posts, DeletePost(p)
  PROVE  MediaType'
<1>1. ItemType'
  BY NoItemFacts DEF DeletePost, MediaType, RowType, ItemType
<1>2. RowType'
  BY <1>1 DEF DeletePost, MediaType, RowType
<1>3. UploadType'
  BY DEF DeletePost, MediaType, UploadType, RowType
<1>4. FileType'
  BY DEF DeletePost, MediaType, FileType, restoring
<1> QED
  BY <1>2, <1>3, <1>4, ThreadsStay, FetchesStay DEF DeletePost, MediaType, restoring

-----------------------------------------------------------------------------
(* Types of the downloads.                                                 *)

\* A download that takes another state of its own type.
LEMMA FetchChanged ==
  ASSUME FetchType, NEW f \in Fetchers, NEW r \in FetchRec, r.at # "idle" => r.post \in Posts,
         fetch' = [fetch EXCEPT ![f] = r]
  PROVE  FetchType'
BY DEF FetchType

LEMMA StartRestoreType ==
  ASSUME MediaAssumption, MediaType, NEW c \in Pages, NEW p \in Posts, StartRestore(c, p)
  PROVE  MediaType'
<1>1. Missing(p) \subseteq Channel /\ Known(p) \in Knowns
  BY RowsFacts DEF MediaType, RowType
<1>2. FetchType'
  <2> DEFINE r == [IdleFetch EXCEPT !.at = "loading", !.post = p, !.todo = Missing(p), !.was = Known(p)]
  <2>1. r \in FetchRec /\ r.post = p
    BY <1>1, IdleTypes DEF FetchRec, IdleFetch
  <2>2. fetch' = [fetch EXCEPT ![c] = r] /\ c \in Fetchers
    BY DEF StartRestore, Fetchers
  <2> HIDE DEF r
  <2> QED
    BY <2>1, <2>2, FetchChanged DEF MediaType
<1>3. FileType'
  BY DEF StartRestore, MediaType, FileType, files
<1> QED
  BY <1>2, <1>3, RowsStay, UploadsStay, ThreadsStay DEF StartRestore, MediaType, writers, rows

LEMMA StartPublishType ==
  ASSUME MediaAssumption, MediaType, NEW b \in Publications, NEW p \in Posts, StartPublish(b, p)
  PROVE  MediaType'
<1>1. Missing(p) \subseteq Channel /\ Known(p) \in Knowns
  BY RowsFacts DEF MediaType, RowType
<1>2. FetchType'
  <2> DEFINE r == [IdleFetch EXCEPT !.post = p, !.todo = Missing(p), !.was = Known(p),
                                    !.at = IF Missing(p) = {} THEN "ready" ELSE "loading"]
  <2>1. r \in FetchRec /\ r.post = p
    BY <1>1, IdleTypes DEF FetchRec, IdleFetch
  <2>2. fetch' = [fetch EXCEPT ![b] = r] /\ b \in Fetchers
    BY DEF StartPublish, Fetchers
  <2> HIDE DEF r
  <2> QED
    BY <2>1, <2>2, FetchChanged DEF MediaType
<1>3. FileType'
  BY DEF StartPublish, MediaType, FileType, files
<1> QED
  BY <1>2, <1>3, RowsStay, UploadsStay, ThreadsStay DEF StartPublish, MediaType, rows

LEMMA DownloadType ==
  ASSUME MediaAssumption, MediaType, NEW f \in Fetchers,
         \/ \E i \in Items : Download(f, i) \/ SkipDownload(f, i)
         \/ Downloaded(f) \/ DownloadBreaks(f)
  PROVE  MediaType'
<1>1. fetch[f] \in FetchRec /\ fetch[f].post \in Posts
  BY DEF Download, SkipDownload, Downloaded, DownloadBreaks, MediaType, FetchType
<1> DEFINE Changes == \E r \in FetchRec : r.post \in Posts /\ fetch' = [fetch EXCEPT ![f] = r]
<1>2. Changes
  <2>1. ASSUME NEW i \in Items, Download(f, i) PROVE Changes
    <3> DEFINE r == [fetch[f] EXCEPT !.todo = @ \ {i}, !.now = Path(i)]
    <3>1. Path(i) \in Paths
      BY PathType DEF MediaType, FileType
    <3>2. r \in FetchRec /\ r.post = fetch[f].post
      BY <1>1, <3>1 DEF FetchRec
    <3>3. fetch' = [fetch EXCEPT ![f] = r]
      BY <2>1 DEF Download, MediaType, FetchType
    <3> QED
      BY <1>1, <3>2, <3>3
  <2>2. ASSUME NEW i \in Items, SkipDownload(f, i) PROVE Changes
    <3> DEFINE r == [fetch[f] EXCEPT !.todo = @ \ {i}]
    <3>1. r \in FetchRec /\ r.post = fetch[f].post
      BY <1>1 DEF FetchRec
    <3>2. fetch' = [fetch EXCEPT ![f] = r]
      BY <2>2 DEF SkipDownload, MediaType, FetchType
    <3> QED
      BY <1>1, <3>1, <3>2
  <2>3. ASSUME Downloaded(f) PROVE Changes
    <3> DEFINE r == [fetch[f] EXCEPT !.now = NoPath, !.got = @ \cup {fetch[f].now}]
    <3>1. fetch[f].now \in Paths
      BY <1>1, <2>3 DEF Downloaded, FetchRec
    <3>2. r \in FetchRec /\ r.post = fetch[f].post
      BY <1>1, <3>1 DEF FetchRec
    <3>3. fetch' = [fetch EXCEPT ![f] = r]
      BY <2>3 DEF Downloaded, MediaType, FetchType
    <3> QED
      BY <1>1, <3>2, <3>3
  <2>4. ASSUME DownloadBreaks(f) PROVE Changes
    <3> DEFINE r == [fetch[f] EXCEPT !.now = NoPath]
    <3>1. r \in FetchRec /\ r.post = fetch[f].post
      BY <1>1 DEF FetchRec
    <3>2. fetch' = [fetch EXCEPT ![f] = r]
      BY <2>4 DEF DownloadBreaks, MediaType, FetchType
    <3> QED
      BY <1>1, <3>1, <3>2
  <2> QED
    BY <2>1, <2>2, <2>3, <2>4
<1>3. FetchType'
  BY <1>2, FetchChanged DEF MediaType
<1>4. FileType'
  BY DEF Download, SkipDownload, Downloaded, DownloadBreaks, MediaType, FileType, files
<1>5. UNCHANGED <<rows, up, thread>>
  BY DEF Download, SkipDownload, Downloaded, DownloadBreaks, writers
<1> QED
  BY <1>3, <1>4, <1>5, RowsStay, UploadsStay, ThreadsStay DEF MediaType, rows

LEMMA NewPathFacts ==
  ASSUME NEW f \in Fetchers, NEW i \in Restored(f)
  PROVE  NewPath(f, i) \in fetch[f].got /\ NewPath(f, i)[1] = i
BY DEF Restored, NewPath

LEMMA RepathedType ==
  ASSUME MediaAssumption, MediaType, NEW f \in Fetchers
  PROVE  /\ DOMAIN Repathed(f) = Items
         /\ \A i \in Items : \/ Repathed(f)[i] = NoItem /\ item[i] = NoItem
                             \/ /\ item[i] # NoItem /\ Repathed(f)[i].post = item[i].post
                                /\ Repathed(f)[i].order = item[i].order
                                /\ Repathed(f)[i] \in [post : Posts, path : Paths, order : Nat]
                                /\ Repathed(f)[i].path[1] = i
<1> SUFFICES ASSUME NEW i \in Items
             PROVE  \/ Repathed(f)[i] = NoItem /\ item[i] = NoItem
                    \/ /\ item[i] # NoItem /\ Repathed(f)[i].post = item[i].post
                       /\ Repathed(f)[i].order = item[i].order
                       /\ Repathed(f)[i] \in [post : Posts, path : Paths, order : Nat]
                       /\ Repathed(f)[i].path[1] = i
  BY DEF Repathed
<1>1. CASE Stale(f) \/ i \notin Changed(f)
  <2>1. Repathed(f)[i] = item[i]
    BY <1>1 DEF Repathed
  <2> QED
    BY <2>1, RowFacts DEF MediaType, RowType
<1>2. CASE ~Stale(f) /\ i \in Changed(f)
  <2>1. Repathed(f)[i] = [item[i] EXCEPT !.path = NewPath(f, i)]
    BY <1>2 DEF Repathed
  <2>2. item[i] # NoItem
    BY <1>2 DEF Stale
  <2>3. NewPath(f, i) \in Paths /\ NewPath(f, i)[1] = i
    BY <1>2, NewPathFacts DEF Changed, MediaType, FetchType, FetchRec
  <2>4. item[i] \in [post : Posts, path : Paths, order : Nat]
    BY <2>2, RowFacts DEF MediaType, RowType
  <2> QED
    BY <2>1, <2>2, <2>3, <2>4
<1> QED
  BY <1>1, <1>2

LEMMA RepathedRows ==
  ASSUME MediaAssumption, MediaType, NEW f \in Fetchers, item' = Repathed(f), UNCHANGED <<post, count>>
  PROVE  RowType'
<1>1. ItemType'
  BY RepathedType, RowFacts DEF MediaType, RowType, ItemType
<1> QED
  BY <1>1 DEF MediaType, RowType

LEMMA EndRestoreType ==
  ASSUME MediaAssumption, MediaType, NEW c \in Pages, EndRestore(c) \/ RestoreFails(c)
  PROVE  MediaType'
<1>1. c \in Fetchers /\ fetch[c].post \in Posts
  BY DEF EndRestore, RestoreFails, Loaded, MediaType, FetchType, Fetchers
<1>2. RowType'
  BY <1>1, RepathedRows, RowsStay DEF EndRestore, RestoreFails, MediaType, rows
<1>3. FileType'
  BY <1>1 DEF EndRestore, RestoreFails, MediaType, FileType, Landed
<1>4. FetchType'
  BY <1>1, IdleTypes, FetchChanged DEF EndRestore, RestoreFails, MediaType, IdleFetch
<1> QED
  BY <1>2, <1>3, <1>4, UploadsStay, ThreadsStay DEF EndRestore, RestoreFails, MediaType, writers, rows

LEMMA EndReloadType ==
  ASSUME MediaAssumption, MediaType, NEW b \in Publications, EndReload(b)
  PROVE  MediaType'
<1> DEFINE rest == {i \in DOMAIN fetch[b].was : item[i] # NoItem}
           committed == Restored(b) # {} /\ ~Stale(b)
<1>1. b \in Fetchers /\ fetch[b] \in FetchRec /\ fetch[b].post \in Posts
  BY DEF EndReload, Loaded, MediaType, FetchType, Fetchers
<1>2. RowType'
  BY <1>1, RepathedRows DEF EndReload
<1>3. FileType'
  BY <1>1 DEF EndReload, MediaType, FileType
<1>4. FetchType'
  <2>1. PICK S \in SUBSET Items : fetch[b].was \in [S -> Paths]
    BY <1>1 DEF FetchRec, Knowns
  <2>2. rest \in SUBSET Items /\ [i \in rest |-> Repathed(b)[i].path] \in [rest -> Paths]
    BY <1>1, <2>1, RepathedType
  <2>3. [i \in rest |-> Repathed(b)[i].path] \in Knowns
    <3> HIDE DEF rest
    <3> QED
      BY <2>2, Zenon DEF Knowns
  <2>4. fetch[b].was \in Knowns
    BY <1>1 DEF FetchRec
  <2> DEFINE was == IF committed THEN [i \in rest |-> Repathed(b)[i].path] ELSE fetch[b].was
             r == [IdleFetch EXCEPT !.at = "ready", !.post = fetch[b].post, !.was = was]
  <2>5. was \in Knowns
    BY <2>3, <2>4
  <2>6. r \in FetchRec /\ r.post = fetch[b].post
    <3> HIDE DEF was
    <3> QED
      BY <1>1, <2>5, IdleTypes DEF FetchRec, IdleFetch
  <2>7. \/ fetch' = [fetch EXCEPT ![b] = IdleFetch]
        \/ fetch' = [fetch EXCEPT ![b] = r]
    BY DEF EndReload
  <2>8. IdleFetch \in FetchRec /\ IdleFetch.at = "idle"
    BY IdleTypes DEF IdleFetch
  <2> HIDE DEF r
  <2> QED
    BY <1>1, <2>6, <2>7, <2>8, FetchChanged DEF MediaType
<1> QED
  BY <1>2, <1>3, <1>4, UploadsStay, ThreadsStay DEF EndReload, MediaType, writers

LEMMA PublishingType ==
  ASSUME MediaAssumption, MediaType, NEW b \in Publications, ReloadFails(b) \/ Choose(b) \/ Send(b)
  PROVE  MediaType'
<1>1. b \in Fetchers /\ fetch[b] \in FetchRec /\ fetch[b].post \in Posts
  BY DEF ReloadFails, Choose, Send, MediaType, FetchType, Fetchers
<1>2. FetchType'
  <2>1. CASE ReloadFails(b)
    <3> DEFINE r == [IdleFetch EXCEPT !.at = "ready", !.post = fetch[b].post, !.was = fetch[b].was]
    <3>1. r \in FetchRec /\ r.post = fetch[b].post
      BY <1>1, IdleTypes DEF FetchRec, IdleFetch
    <3>2. fetch' = [fetch EXCEPT ![b] = r]
      BY <2>1 DEF ReloadFails
    <3> HIDE DEF r
    <3> QED
      BY <1>1, <3>1, <3>2, FetchChanged DEF MediaType
  <2>2. CASE Choose(b)
    <3> DEFINE got == {fetch[b].was[i] : i \in {j \in DOMAIN fetch[b].was : Exists(fetch[b].was[j])}}
               r == [IdleFetch EXCEPT !.at = "sending", !.post = fetch[b].post, !.got = got]
    <3>1. got \in SUBSET Paths
      BY <1>1 DEF FetchRec, Knowns
    <3>2. r \in FetchRec /\ r.post = fetch[b].post
      <4> HIDE DEF got
      <4> QED
        BY <1>1, <3>1, IdleTypes DEF FetchRec, IdleFetch
    <3>3. fetch' = [fetch EXCEPT ![b] = r]
      BY <2>2 DEF Choose
    <3> HIDE DEF r
    <3> QED
      BY <1>1, <3>2, <3>3, FetchChanged DEF MediaType
  <2>3. CASE Send(b)
    BY <1>1, <2>3, IdleTypes, FetchChanged DEF Send, MediaType, IdleFetch
  <2> QED
    BY <2>1, <2>2, <2>3
<1>3. FileType'
  BY DEF ReloadFails, Choose, Send, MediaType, FileType, files
<1>4. UNCHANGED <<rows, up, thread>>
  BY DEF ReloadFails, Choose, Send, writers
<1> QED
  BY <1>2, <1>3, <1>4, RowsStay, UploadsStay, ThreadsStay DEF MediaType, rows

LEMMA RestartType ==
  ASSUME MediaAssumption, MediaType, Restart PROVE MediaType'
<1>1. UploadType' /\ ThreadType' /\ FetchType'
  BY IdleTypes DEF Restart, UploadType, ThreadType, FetchType, IdleUpload, IdleThread, IdleFetch
<1>2. FileType'
  BY DEF Restart, MediaType, FileType
<1> QED
  BY <1>1, <1>2, RowsStay DEF Restart, MediaType

LEMMA TypeStep ==
  ASSUME MediaAssumption, MediaType, [Next]_vars PROVE MediaType'
<1>1. CASE UNCHANGED vars
  <2>1. FileType'
    BY <1>1 DEF vars, MediaType, FileType
  <2> QED
    BY <1>1, <2>1, RowsStay, UploadsStay, ThreadsStay, FetchesStay DEF MediaType, vars, rows
<1>2. CASE \E p \in Posts : \/ \E got \in SUBSET Album[p] : Collect(p, got)
                            \/ CoolDown(p) \/ Queue(p) \/ DeletePost(p)
  BY <1>2, CollectType, QuietType, DeletePostType
<1>3. CASE NextDay \/ Prune \/ Restart \/ \E path \in Paths : Age(path)
  BY <1>3, QuietType, RestartType
<1>4. CASE \E u \in Uploads : Upload(u)
  BY <1>4, StartUploadType, SaveUploadType, RejectUploadType, FlushUploadType, CommitUploadType DEF Upload
<1>5. CASE \E t \in Threads : Thread(t)
  BY <1>5, DeleteItemType, CommitDeleteType, MoveType, CommitMoveType, StartCleanupType, CleanType DEF Thread
<1>6. CASE \E f \in Fetchers : Fetch(f)
  BY <1>6, DownloadType DEF Fetch
<1>7. CASE \E c \in Pages : Page(c)
  BY <1>7, StartRestoreType, EndRestoreType DEF Page
<1>8. CASE \E b \in Publications : Publication(b)
  BY <1>8, StartPublishType, EndReloadType, PublishingType DEF Publication
<1> QED
  BY <1>1, <1>2, <1>3, <1>4, <1>5, <1>6, <1>7, <1>8 DEF Next

\* Whatever uploads, requests, restorations and publications do to each other, the
\* tables and the disk keep their types, and a row of media belongs to a post that exists.
THEOREM MediaTypeCorrect == ASSUME MediaAssumption PROVE Spec => []TypeOK
<1>1. Init => MediaType
  BY TypeInit
<1>2. MediaType /\ [Next]_vars => MediaType'
  BY TypeStep
<1>3. MediaType => TypeOK
  BY DEF MediaType, RowType, FileType, ItemType, TypeOK
<1> QED
  BY <1>1, <1>2, <1>3, PTL DEF Spec

-----------------------------------------------------------------------------
(* Who restores which post.                                                *)

FlightInv ==
  /\ FlightIsOwned
  /\ \A c \in Pages : fetch[c].at = "idle" => fetch[c].post = None

LEMMA FlightInit == ASSUME Init PROVE FlightInv
BY DEF Init, FlightInv, FlightIsOwned, IdleFetch, Fetchers

\* Steps that neither begin nor end a restoration.
LEMMA FlightStays ==
  ASSUME FlightInv, flight' = flight,
         \A c \in Pages : fetch'[c].at = fetch[c].at /\ fetch'[c].post = fetch[c].post
  PROVE  FlightInv'
BY DEF FlightInv, FlightIsOwned

\* A restoration ends, and its post is no longer in flight.
LEMMA FlightEnds ==
  ASSUME MediaAssumption, MediaType, FlightInv, NEW c \in Pages, fetch[c].at # "idle",
         flight' = flight \ {fetch[c].post}, fetch' = [fetch EXCEPT ![c] = IdleFetch]
  PROVE  FlightInv'
<1>1. c \in Fetchers /\ fetch[c].post \in Posts /\ fetch[c].post # None
  BY DEF MediaType, FetchType, Fetchers, MediaAssumption
<1>2. fetch'[c].post = None /\ \A e \in Pages : e # c => fetch'[e] = fetch[e]
  BY <1>1 DEF MediaType, FetchType, IdleFetch, Fetchers
<1>3. \A e \in Pages : e # c => fetch[e].post # fetch[c].post
  BY <1>1 DEF FlightInv, FlightIsOwned
<1> QED
  BY <1>1, <1>2, <1>3 DEF FlightInv, FlightIsOwned

LEMMA FlightStep ==
  ASSUME MediaAssumption, MediaType, FlightInv, [Next]_vars PROVE FlightInv'
<1>1. ASSUME NEW c \in Pages, NEW p \in Posts, StartRestore(c, p) PROVE FlightInv'
  <2>1. /\ fetch[c].post = None /\ p # None /\ p \notin flight /\ flight' = flight \cup {p}
        /\ fetch'[c].post = p /\ fetch'[c].at = "loading"
        /\ \A e \in Pages : e # c => fetch'[e] = fetch[e]
    BY <1>1 DEF StartRestore, MediaType, FetchType, IdleFetch, Fetchers, MediaAssumption
  <2>2. \A e \in Pages : fetch[e].post # p
    BY <2>1 DEF FlightInv, FlightIsOwned
  <2> QED
    BY <2>1, <2>2 DEF FlightInv, FlightIsOwned
<1>2. ASSUME NEW c \in Pages, EndRestore(c) \/ RestoreFails(c) PROVE FlightInv'
  BY <1>2, FlightEnds DEF EndRestore, RestoreFails, Loaded, Landed
<1>3. CASE Restart
  BY <1>3 DEF Restart, FlightInv, FlightIsOwned, IdleFetch, Fetchers
<1>4. ASSUME NEW f \in Fetchers, Fetch(f) PROVE FlightInv'
  <2> DEFINE Same == flight' = flight /\ \A g \in Fetchers : fetch'[g].at = fetch[g].at /\ fetch'[g].post = fetch[g].post
  <2>1. Same
    <3>0. fetch[f] \in FetchRec /\ fetch \in [Fetchers -> FetchRec]
      BY DEF MediaType, FetchType
    <3>1. ASSUME NEW i \in Items, Download(f, i) PROVE Same
      BY <3>0, <3>1 DEF Download, FetchRec
    <3>2. ASSUME NEW i \in Items, SkipDownload(f, i) PROVE Same
      BY <3>0, <3>2 DEF SkipDownload, FetchRec
    <3>3. CASE Downloaded(f)
      BY <3>0, <3>3 DEF Downloaded, FetchRec
    <3>4. CASE DownloadBreaks(f)
      BY <3>0, <3>4 DEF DownloadBreaks, FetchRec
    <3> QED
      BY <1>4, <3>1, <3>2, <3>3, <3>4 DEF Fetch
  <2> QED
    BY <2>1, FlightStays DEF Fetchers
<1>5. ASSUME NEW b \in Publications, Publication(b) PROVE FlightInv'
  <2>1. flight' = flight /\ \A g \in Fetchers : g # b => fetch'[g] = fetch[g]
    BY <1>5 DEF Publication, StartPublish, EndReload, ReloadFails, Choose, Send, MediaType, FetchType
  <2> QED
    BY <2>1, FlightStays DEF Fetchers, MediaAssumption
<1>6. ASSUME NEW u \in Uploads, Upload(u) PROVE FlightInv'
  BY <1>6, FlightStays DEF Upload, StartUpload, SaveUpload, RejectUpload, FlushUpload, CommitUpload, restoring
<1>7. ASSUME NEW t \in Threads, Thread(t) PROVE FlightInv'
  BY <1>7, FlightStays DEF Thread, DeleteItem, CommitDelete, Move, CommitMove, StartCleanup, Clean, restoring
<1>8. CASE \/ NextDay \/ Prune \/ \E path \in Paths : Age(path)
           \/ \E p \in Posts : \/ \E got \in SUBSET Album[p] : Collect(p, got)
                               \/ CoolDown(p) \/ Queue(p) \/ DeletePost(p)
  BY <1>8, FlightStays DEF NextDay, Prune, Age, Collect, CoolDown, Queue, DeletePost, restoring
<1>9. CASE UNCHANGED vars
  BY <1>9, FlightStays DEF vars
<1> QED
  BY <1>1, <1>2, <1>3, <1>4, <1>5, <1>6, <1>7, <1>8, <1>9 DEF Next, Page

\* A post is in flight exactly as long as one page restores it: no restoration runs
\* twice, and none that failed, was cancelled or timed out leaves its post behind.
THEOREM FlightOwned == ASSUME MediaAssumption PROVE Spec => []FlightIsOwned
<1>1. Init => MediaType /\ FlightInv
  BY TypeInit, FlightInit
<1>2. MediaType /\ FlightInv /\ [Next]_vars => (MediaType /\ FlightInv)'
  BY TypeStep, FlightStep
<1>3. FlightInv => FlightIsOwned
  BY DEF FlightInv
<1> QED
  BY <1>1, <1>2, <1>3, PTL DEF Spec

-----------------------------------------------------------------------------
(* What cannot be downloaded again.                                        *)

ThreadInv == \A t \in Threads : /\ thread[t].at # "deleting" => thread[t].item = 0
                                /\ \A path \in thread[t].todo : path[1] \in Channel
DownloadInv == \A f \in Fetchers : /\ fetch[f].at # "loading" => fetch[f].now = NoPath
                                   /\ fetch[f].now # NoPath => fetch[f].now[1] \in Channel
                                   /\ \A i \in DOMAIN fetch[f].was : fetch[f].was[i][1] = i
UploadInv == /\ \A u \in Uploads : \A i \in Saved(u) : item[i] = NoItem /\ disk[<<i, 0>>] = "whole"
             /\ \A u, v \in Uploads : u # v => Saved(u) \cap Saved(v) = {}

LEMMA PathFacts ==
  ASSUME MediaAssumption, NEW path \in Paths
  PROVE  /\ path[1] \in Items /\ path # NoPath
         /\ path[1] \in Manual => path = <<path[1], 0>>
         /\ path[1] \in Channel <=> path[1] \notin Manual
<1>1. CASE path \in Channel \X (1..MaxDay)
  <2>1. path[1] \in Channel
    BY <1>1
  <2> QED
    BY <2>1 DEF MediaAssumption, NoPath, Items
<1>2. CASE path \in Manual \X {0}
  <2>1. path[1] \in Manual /\ path[2] = 0 /\ path = <<path[1], path[2]>>
    BY <1>2
  <2> QED
    BY <2>1 DEF MediaAssumption, NoPath, Items
<1> QED
  BY <1>1, <1>2 DEF Paths

LEMMA ManualPath ==
  ASSUME MediaAssumption, MediaType, NEW i \in Manual, item[i] # NoItem
  PROVE  item[i].path = <<i, 0>> /\ <<i, 0>> \in Paths
BY RowFacts, PathFacts DEF MediaType, RowType, Items

LEMMA DroppablePaths ==
  ASSUME MediaAssumption, MediaType
  PROVE  \A path \in Droppable : path \in Paths /\ path[1] \in Channel
BY RowFacts DEF Droppable, OfChannels, Origin, MediaType, RowType, Items

LEMMA ThreadInit == ASSUME MediaAssumption, Init PROVE ThreadInv
BY DEF Init, ThreadInv, IdleThread

LEMMA ThreadStep ==
  ASSUME MediaAssumption, MediaType, ThreadInv, [Next]_vars PROVE ThreadInv'
<1>0. thread \in [Threads -> ThreadRec] /\ IdleThread.item = 0 /\ IdleThread.todo = {}
  BY DEF MediaType, ThreadType, IdleThread
<1>1. ASSUME NEW t \in Threads, Thread(t) PROVE ThreadInv'
  <2>1. ASSUME NEW i \in Items, DeleteItem(t, i) PROVE ThreadInv'
    <3> DEFINE p == item[i].post
               r == [IdleThread EXCEPT !.at = "deleting", !.post = p, !.item = i,
                       !.loaded = count[p], !.counted = Cardinality(Rows(p) \ {i})]
    <3>1. r.at = "deleting" /\ r.todo = {} /\ thread' = [thread EXCEPT ![t] = r]
      BY <2>1 DEF DeleteItem, IdleThread
    <3> HIDE DEF r
    <3> QED
      BY <1>0, <3>1 DEF ThreadInv
  <2>2. ASSUME NEW i \in Items, Move(t, i) PROVE ThreadInv'
    <3>1. PICK to : thread' = [thread EXCEPT ![t] = [IdleThread EXCEPT !.at = "moving",
                                 !.post = item[i].post, !.order = Moved(item[i].post, i, to)]]
      BY <2>2 DEF Move
    <3> QED
      BY <1>0, <3>1 DEF ThreadInv, IdleThread
  <2>3. CASE StartCleanup(t)
    BY <1>0, <2>3, DroppablePaths DEF StartCleanup, ThreadInv, IdleThread
  <2>4. ASSUME NEW path \in Paths, Clean(t, path) PROVE ThreadInv'
    <3> DEFINE rest == thread[t].todo \ {path}
    <3>1. thread' = [thread EXCEPT ![t] = IF rest = {} THEN IdleThread
                                          ELSE [thread[t] EXCEPT !.todo = rest]]
      BY <1>0, <2>4 DEF Clean
    <3>2. thread[t].at = "cleaning" /\ thread[t] \in ThreadRec
      BY <1>0, <2>4 DEF Clean
    <3>3. thread[t].item = 0 /\ \A q \in rest : q[1] \in Channel
      BY <3>2 DEF ThreadInv
    <3> HIDE DEF rest
    <3> QED
      BY <1>0, <3>1, <3>2, <3>3 DEF ThreadInv, ThreadRec
  <2>5. CASE CommitDelete(t) \/ CommitMove(t)
    BY <1>0, <2>5 DEF CommitDelete, CommitMove, ThreadInv
  <2> QED
    BY <1>1, <2>1, <2>2, <2>3, <2>4, <2>5 DEF Thread
<1>2. CASE Restart
  BY <1>0, <1>2 DEF Restart, ThreadInv
<1>3. CASE thread' = thread
  BY <1>3 DEF ThreadInv
<1>4. \/ thread' = thread \/ Restart \/ \E t \in Threads : Thread(t)
  BY DEF Next, vars, NextDay, Prune, Age, Collect, CoolDown, Queue, DeletePost, Upload, StartUpload,
         SaveUpload, RejectUpload, FlushUpload, CommitUpload, Fetch, Download, SkipDownload, Downloaded,
         DownloadBreaks, Page, StartRestore, EndRestore, RestoreFails, Publication, StartPublish,
         EndReload, ReloadFails, Choose, Send, writers
<1> QED
  BY <1>1, <1>2, <1>3, <1>4

LEMMA DownloadInit == ASSUME Init PROVE DownloadInv
BY DEF Init, DownloadInv, IdleFetch

\* One download takes another state that keeps the invariant.
LEMMA DownloadChanged ==
  ASSUME MediaType, DownloadInv, NEW f \in Fetchers, NEW r, fetch' = [fetch EXCEPT ![f] = r],
         r.at # "loading" => r.now = NoPath, r.now # NoPath => r.now[1] \in Channel,
         \A i \in DOMAIN r.was : r.was[i][1] = i
  PROVE  DownloadInv'
BY DEF MediaType, FetchType, DownloadInv

LEMMA KnownPaths ==
  ASSUME MediaAssumption, MediaType, NEW p \in Posts
  PROVE  \A i \in DOMAIN Known(p) : Known(p)[i][1] = i
BY RowsFacts, RowFacts DEF Known, Rows, MediaType, RowType

LEMMA DownloadStep ==
  ASSUME MediaAssumption, MediaType, DownloadInv, [Next]_vars PROVE DownloadInv'
<1>0. fetch \in [Fetchers -> FetchRec] /\ Pages \subseteq Fetchers /\ Publications \subseteq Fetchers
  BY DEF MediaType, FetchType, Fetchers
<1>1. ASSUME NEW f \in Fetchers, Fetch(f) PROVE DownloadInv'
  <2>1. ASSUME NEW i \in Items, Download(f, i) PROVE DownloadInv'
    <3>1. i \in Channel /\ Path(i)[1] = i
      BY <1>0, <2>1, PathType DEF Download, FetchRec, MediaType, FileType
    <3> DEFINE r == [fetch[f] EXCEPT !.todo = @ \ {i}, !.now = Path(i)]
    <3>2. fetch' = [fetch EXCEPT ![f] = r] /\ r.at = "loading" /\ r.now = Path(i) /\ r.was = fetch[f].was
      BY <1>0, <2>1 DEF Download, FetchRec
    <3> HIDE DEF r
    <3> QED
      BY <3>1, <3>2, DownloadChanged DEF DownloadInv
  <2>2. CASE \/ Downloaded(f) \/ DownloadBreaks(f) \/ \E i \in Items : SkipDownload(f, i)
    <3>1. PICK r \in FetchRec : /\ fetch' = [fetch EXCEPT ![f] = r]
                                /\ r.now = NoPath /\ r.was = fetch[f].was
      <4>1. CASE Downloaded(f)
        <5> DEFINE r == [fetch[f] EXCEPT !.now = NoPath, !.got = @ \cup {fetch[f].now}]
        <5>1. r \in FetchRec /\ r.now = NoPath /\ r.was = fetch[f].was
          BY <1>0, <4>1 DEF Downloaded, FetchRec
        <5>2. fetch' = [fetch EXCEPT ![f] = r]
          BY <1>0, <4>1 DEF Downloaded
        <5> QED
          BY <5>1, <5>2
      <4>2. CASE DownloadBreaks(f)
        <5> DEFINE r == [fetch[f] EXCEPT !.now = NoPath]
        <5>1. r \in FetchRec /\ r.now = NoPath /\ r.was = fetch[f].was
          BY <1>0, <4>2 DEF DownloadBreaks, FetchRec
        <5>2. fetch' = [fetch EXCEPT ![f] = r]
          BY <1>0, <4>2 DEF DownloadBreaks
        <5> QED
          BY <5>1, <5>2
      <4>3. ASSUME NEW i \in Items, SkipDownload(f, i) PROVE \E r \in FetchRec :
              fetch' = [fetch EXCEPT ![f] = r] /\ r.now = NoPath /\ r.was = fetch[f].was
        <5> DEFINE r == [fetch[f] EXCEPT !.todo = @ \ {i}]
        <5>1. r \in FetchRec /\ r.now = NoPath /\ r.was = fetch[f].was
          BY <1>0, <4>3 DEF SkipDownload, FetchRec
        <5>2. fetch' = [fetch EXCEPT ![f] = r]
          BY <1>0, <4>3 DEF SkipDownload
        <5> QED
          BY <5>1, <5>2
      <4> QED
        BY <2>2, <4>1, <4>2, <4>3
    <3> QED
      BY <3>1, DownloadChanged DEF DownloadInv
  <2> QED
    BY <1>1, <2>1, <2>2 DEF Fetch
<1>2. ASSUME NEW c \in Pages, Page(c) PROVE DownloadInv'
  <2>1. ASSUME NEW p \in Posts, StartRestore(c, p) PROVE DownloadInv'
    <3> DEFINE r == [IdleFetch EXCEPT !.at = "loading", !.post = p, !.todo = Missing(p), !.was = Known(p)]
    <3>1. fetch' = [fetch EXCEPT ![c] = r] /\ r.now = NoPath /\ r.was = Known(p)
      BY <2>1 DEF StartRestore, IdleFetch
    <3> HIDE DEF r
    <3> QED
      BY <1>0, <3>1, KnownPaths, DownloadChanged
  <2>2. CASE EndRestore(c) \/ RestoreFails(c)
    BY <1>0, <2>2, DownloadChanged DEF EndRestore, RestoreFails, IdleFetch
  <2> QED
    BY <1>2, <2>1, <2>2 DEF Page
<1>3. ASSUME NEW b \in Publications, Publication(b) PROVE DownloadInv'
  <2>1. ASSUME NEW p \in Posts, StartPublish(b, p) PROVE DownloadInv'
    <3> DEFINE r == [IdleFetch EXCEPT !.post = p, !.todo = Missing(p), !.was = Known(p),
                                      !.at = IF Missing(p) = {} THEN "ready" ELSE "loading"]
    <3>1. fetch' = [fetch EXCEPT ![b] = r] /\ r.now = NoPath /\ r.was = Known(p)
      BY <2>1 DEF StartPublish, IdleFetch
    <3> HIDE DEF r
    <3> QED
      BY <1>0, <3>1, KnownPaths, DownloadChanged
  <2>2. CASE EndReload(b)
    <3> DEFINE rest == {i \in DOMAIN fetch[b].was : item[i] # NoItem}
               was == IF Restored(b) # {} /\ ~Stale(b) THEN [i \in rest |-> Repathed(b)[i].path]
                      ELSE fetch[b].was
               r == [IdleFetch EXCEPT !.at = "ready", !.post = fetch[b].post, !.was = was]
    <3>1. DOMAIN fetch[b].was \subseteq Items
      BY <1>0 DEF FetchRec, Knowns
    <3>2. \A i \in DOMAIN was : was[i][1] = i
      BY <1>0, <3>1, RepathedType DEF DownloadInv
    <3>3. \/ fetch' = [fetch EXCEPT ![b] = IdleFetch]
          \/ fetch' = [fetch EXCEPT ![b] = r]
      BY <2>2 DEF EndReload
    <3>4. r.now = NoPath /\ r.was = was
      BY DEF IdleFetch
    <3>5. IdleFetch.now = NoPath /\ \A i \in DOMAIN IdleFetch.was : IdleFetch.was[i][1] = i
      BY DEF IdleFetch
    <3> HIDE DEF r, was
    <3> QED
      BY <1>0, <3>2, <3>3, <3>4, <3>5, DownloadChanged
  <2>3. CASE ReloadFails(b)
    <3> DEFINE r == [IdleFetch EXCEPT !.at = "ready", !.post = fetch[b].post, !.was = fetch[b].was]
    <3>1. fetch' = [fetch EXCEPT ![b] = r] /\ r.now = NoPath /\ r.was = fetch[b].was
      BY <2>3 DEF ReloadFails, IdleFetch
    <3> HIDE DEF r
    <3> QED
      BY <1>0, <3>1, DownloadChanged DEF DownloadInv
  <2>4. CASE Choose(b)
    <3> DEFINE got == {fetch[b].was[i] : i \in {j \in DOMAIN fetch[b].was : Exists(fetch[b].was[j])}}
               r == [IdleFetch EXCEPT !.at = "sending", !.post = fetch[b].post, !.got = got]
    <3>1. fetch' = [fetch EXCEPT ![b] = r] /\ r.now = NoPath /\ r.was = IdleFetch.was
      BY <2>4 DEF Choose, IdleFetch
    <3>2. \A i \in DOMAIN IdleFetch.was : IdleFetch.was[i][1] = i
      BY DEF IdleFetch
    <3> HIDE DEF r
    <3> QED
      BY <1>0, <3>1, <3>2, DownloadChanged
  <2>5. CASE Send(b)
    BY <1>0, <2>5, DownloadChanged DEF Send, IdleFetch
  <2> QED
    BY <1>3, <2>1, <2>2, <2>3, <2>4, <2>5 DEF Publication
<1>4. CASE Restart
  BY <1>4 DEF Restart, DownloadInv, IdleFetch
<1>5. CASE fetch' = fetch
  BY <1>5 DEF DownloadInv
<1>6. \/ fetch' = fetch
      \/ Restart
      \/ \E f \in Fetchers : Fetch(f)
      \/ \E c \in Pages : Page(c)
      \/ \E b \in Publications : Publication(b)
  <2>1. CASE \E u \in Uploads : Upload(u)
    BY <2>1 DEF Upload, StartUpload, SaveUpload, RejectUpload, FlushUpload, CommitUpload, restoring
  <2>2. CASE \E t \in Threads : Thread(t)
    BY <2>2 DEF Thread, DeleteItem, CommitDelete, Move, CommitMove, StartCleanup, Clean, restoring
  <2>3. CASE \E p \in Posts : \/ \E got \in SUBSET Album[p] : Collect(p, got)
                              \/ CoolDown(p) \/ Queue(p) \/ DeletePost(p)
    BY <2>3 DEF Collect, CoolDown, Queue, DeletePost, restoring
  <2>4. CASE NextDay \/ Prune \/ (\E path \in Paths : Age(path)) \/ UNCHANGED vars
    BY <2>4 DEF NextDay, Prune, Age, restoring, vars
  <2> QED
    BY <2>1, <2>2, <2>3, <2>4 DEF Next
<1> QED
  BY <1>1, <1>2, <1>3, <1>4, <1>5, <1>6

\* What most steps do: no file and no row of an upload comes or goes, except that a
\* request removes a row.
SameManualFiles == \A i \in Manual : disk'[<<i, 0>>] = disk[<<i, 0>>]
NoManualRow == \A i \in Manual : item[i] = NoItem => item'[i] = NoItem
DeletersStay == \A i \in Manual : item'[i] # NoItem /\ (\E t \in Threads : thread[t].item = i)
                                  => \E t \in Threads : thread'[t].item = i

LEMMA ManualFiles ==
  ASSUME MediaAssumption, MediaType, ThreadInv, DownloadInv, [Next]_vars
  PROVE  \/ SameManualFiles
         \/ Restart
         \/ \E u \in Uploads, i \in Manual : SaveUpload(u, i) \/ RejectUpload(u, i)
         \/ \E t \in Threads, i \in Items : DeleteItem(t, i)
<1>0. /\ disk \in [Paths -> {"none", "part", "whole"}]
      /\ \A i \in Manual : <<i, 0>> \in Paths /\ i \notin Channel /\ i \in Items
      /\ \A i \in Manual : \A path : path[1] \in Channel => path # <<i, 0>>
  <2>1. \A i \in Manual : <<i, 0>> \in Paths /\ i \notin Channel /\ i \in Items /\ <<i, 0>>[1] = i
    BY DEF Paths, MediaAssumption, Items
  <2> QED
    BY <2>1 DEF MediaType, FileType
<1>1. ASSUME NEW p \in Posts, NEW got \in SUBSET Album[p], Collect(p, got) PROVE SameManualFiles
  <2>1. got \subseteq Channel
    BY DEF MediaAssumption
  <2>2. \A i \in got : Path(i)[1] \in Channel
    BY <2>1, PathType DEF MediaType, FileType, Items
  <2> QED
    BY <1>0, <1>1, <2>2 DEF Collect, SameManualFiles
<1>2. CASE Prune
  BY <1>0, <1>2, DroppablePaths DEF Prune, SameManualFiles
<1>3. ASSUME NEW t \in Threads, NEW path \in Paths, Clean(t, path) PROVE SameManualFiles
  <2>1. path[1] \in Channel
    BY <1>3 DEF Clean, ThreadInv
  <2>2. PICK kept : disk' = [disk EXCEPT ![path] = kept]
    BY <1>3 DEF Clean
  <2> QED
    BY <1>0, <2>1, <2>2 DEF SameManualFiles
<1>4. ASSUME NEW f \in Fetchers, NEW i \in Items, Download(f, i) PROVE SameManualFiles
  <2>1. i \in Channel /\ Path(i)[1] = i
    BY <1>4, PathType DEF Download, MediaType, FetchType, FetchRec, FileType
  <2> QED
    BY <1>0, <1>4, <2>1 DEF Download, SameManualFiles
<1>5. ASSUME NEW f \in Fetchers, Downloaded(f) PROVE SameManualFiles
  <2>1. fetch[f].now[1] \in Channel
    BY <1>5 DEF Downloaded, DownloadInv
  <2> QED
    BY <1>0, <1>5, <2>1 DEF Downloaded, SameManualFiles
<1>6. ASSUME disk' = disk PROVE SameManualFiles
  BY <1>6 DEF SameManualFiles
<1>7. CASE \E p \in Posts : \/ \E got \in SUBSET Album[p] : Collect(p, got)
                            \/ CoolDown(p) \/ Queue(p) \/ DeletePost(p)
  BY <1>1, <1>6, <1>7 DEF CoolDown, Queue, DeletePost, files
<1>8. CASE NextDay \/ Prune \/ (\E path \in Paths : Age(path)) \/ UNCHANGED vars
  BY <1>2, <1>6, <1>8 DEF NextDay, Age, files, vars
<1>9. ASSUME NEW u \in Uploads, Upload(u)
      PROVE  SameManualFiles \/ \E i \in Manual : SaveUpload(u, i) \/ RejectUpload(u, i)
  BY <1>6, <1>9 DEF Upload, StartUpload, FlushUpload, CommitUpload, files
<1>10. ASSUME NEW t \in Threads, Thread(t)
       PROVE  SameManualFiles \/ \E i \in Items : DeleteItem(t, i)
  BY <1>3, <1>6, <1>10 DEF Thread, CommitDelete, Move, CommitMove, StartCleanup, files
<1>11. ASSUME NEW f \in Fetchers, Fetch(f) PROVE SameManualFiles
  BY <1>4, <1>5, <1>6, <1>11 DEF Fetch, DownloadBreaks, SkipDownload, files
<1>12. ASSUME NEW c \in Pages, Page(c) PROVE SameManualFiles
  BY <1>6, <1>12 DEF Page, StartRestore, EndRestore, RestoreFails, files
<1>13. ASSUME NEW b \in Publications, Publication(b) PROVE SameManualFiles
  BY <1>6, <1>13 DEF Publication, StartPublish, EndReload, ReloadFails, Choose, Send, files
<1> QED
  BY <1>7, <1>8, <1>9, <1>10, <1>11, <1>12, <1>13 DEF Next

LEMMA ManualRows ==
  ASSUME MediaAssumption, MediaType, [Next]_vars
  PROVE  NoManualRow \/ \E u \in Uploads : CommitUpload(u)
<1>1. ASSUME item' = item PROVE NoManualRow
  BY <1>1 DEF NoManualRow
<1>2. ASSUME NEW f \in Fetchers, item' = Repathed(f) PROVE NoManualRow
  BY <1>2, RepathedType DEF NoManualRow, Items
<1>3. CASE \E p \in Posts : \/ \E got \in SUBSET Album[p] : Collect(p, got)
                            \/ CoolDown(p) \/ Queue(p) \/ DeletePost(p)
  <2>1. ASSUME NEW p \in Posts, NEW got \in SUBSET Album[p], Collect(p, got) PROVE NoManualRow
    BY <2>1 DEF Collect, NoManualRow, MediaAssumption, Items
  <2>2. ASSUME NEW p \in Posts, DeletePost(p) PROVE NoManualRow
    BY <2>2 DEF DeletePost, NoManualRow, Items
  <2> QED
    BY <1>1, <1>3, <2>1, <2>2 DEF CoolDown, Queue, rows
<1>4. CASE NextDay \/ Prune \/ Restart \/ (\E path \in Paths : Age(path)) \/ UNCHANGED vars
  BY <1>1, <1>4 DEF NextDay, Prune, Restart, Age, rows, vars
<1>5. ASSUME NEW u \in Uploads, Upload(u), ~CommitUpload(u) PROVE NoManualRow
  BY <1>1, <1>5 DEF Upload, StartUpload, SaveUpload, RejectUpload, FlushUpload, rows
<1>6. ASSUME NEW t \in Threads, Thread(t) PROVE NoManualRow
  <2>1. CASE CommitDelete(t)
    BY <2>1 DEF CommitDelete, NoManualRow, MediaType, RowType, ItemType, Items
  <2>2. CASE CommitMove(t)
    <3>1. CASE \A i \in DOMAIN thread[t].order : item[i] # NoItem
      BY <2>2, <3>1 DEF CommitMove, NoManualRow, Items
    <3>2. CASE ~\A i \in DOMAIN thread[t].order : item[i] # NoItem
      BY <2>2, <3>2 DEF CommitMove, NoManualRow
    <3> QED
      BY <3>1, <3>2
  <2> QED
    BY <1>1, <1>6, <2>1, <2>2 DEF Thread, DeleteItem, Move, StartCleanup, Clean, rows
<1>7. ASSUME NEW f \in Fetchers, Fetch(f) PROVE NoManualRow
  BY <1>1, <1>7 DEF Fetch, Download, SkipDownload, Downloaded, DownloadBreaks, rows
<1>8. ASSUME NEW c \in Pages, Page(c) PROVE NoManualRow
  BY <1>1, <1>2, <1>8 DEF Page, StartRestore, EndRestore, RestoreFails, rows, Fetchers
<1>9. ASSUME NEW b \in Publications, Publication(b) PROVE NoManualRow
  BY <1>1, <1>2, <1>9 DEF Publication, StartPublish, EndReload, ReloadFails, Choose, Send, rows, Fetchers
<1> QED
  BY <1>3, <1>4, <1>5, <1>6, <1>7, <1>8, <1>9 DEF Next

LEMMA Deleters ==
  ASSUME MediaAssumption, MediaType, ThreadInv, [Next]_vars
  PROVE  DeletersStay \/ Restart
<1>0. thread \in [Threads -> ThreadRec] /\ 0 \notin Manual
  BY DEF MediaType, ThreadType, MediaAssumption
<1>1. ASSUME thread' = thread PROVE DeletersStay
  BY <1>1 DEF DeletersStay
<1>2. ASSUME NEW t \in Threads, thread[t].item = 0, \A o \in Threads : o # t => thread'[o] = thread[o]
      PROVE  DeletersStay
  BY <1>0, <1>2 DEF DeletersStay
<1>3. ASSUME NEW t \in Threads, Thread(t) PROVE DeletersStay
  <2>1. \A o \in Threads : o # t => thread'[o] = thread[o]
    BY <1>0, <1>3 DEF Thread, DeleteItem, CommitDelete, Move, CommitMove, StartCleanup, Clean
  <2>2. CASE CommitDelete(t)
    <3>1. thread[t].item \in Items /\ item'[thread[t].item] = NoItem
      BY <2>2 DEF CommitDelete, MediaType, ThreadType, RowType, ItemType
    <3> QED
      BY <2>1, <3>1 DEF DeletersStay
  <2>3. CASE ~CommitDelete(t)
    <3>1. IdleThread.at = "idle"
      BY DEF IdleThread
    <3>2. thread[t].at # "deleting"
      BY <1>3, <2>3, <3>1 DEF Thread, DeleteItem, Move, CommitMove, StartCleanup, Clean
    <3>3. thread[t].item = 0
      BY <3>2 DEF ThreadInv
    <3> QED
      BY <1>2, <2>1, <3>3
  <2> QED
    BY <2>2, <2>3
<1>4. \/ thread' = thread \/ Restart \/ \E t \in Threads : Thread(t)
  BY DEF Next, vars, NextDay, Prune, Age, Collect, CoolDown, Queue, DeletePost, Upload, StartUpload,
         SaveUpload, RejectUpload, FlushUpload, CommitUpload, Fetch, Download, SkipDownload, Downloaded,
         DownloadBreaks, Page, StartRestore, EndRestore, RestoreFails, Publication, StartPublish,
         EndReload, ReloadFails, Choose, Send, writers
<1> QED
  BY <1>1, <1>3, <1>4

KeepInv == UploadInv /\ ManualIsKept

LEMMA KeepInit == ASSUME Init PROVE KeepInv
BY DEF Init, KeepInv, UploadInv, ManualIsKept, Saved, IdleUpload, Items

\* An upload that begins, ends or is flushed takes none of the files of the others.
LEMMA KeepStays ==
  ASSUME MediaAssumption, MediaType, MediaType', KeepInv, SameManualFiles, NoManualRow, DeletersStay, lost' = lost,
         \A u \in Uploads : Saved(u)' = Saved(u) \/ Saved(u)' = {}
  PROVE  KeepInv'
<1>1. \A u \in Uploads : Saved(u) \subseteq Manual
  BY SavedType
<1>2. UploadInv'
  BY <1>1 DEF KeepInv, UploadInv, SameManualFiles, NoManualRow
<1>3. ManualIsKept'
  <2> SUFFICES ASSUME NEW i \in Manual, item'[i] # NoItem
               PROVE  \/ Exists(item[i].path)' \/ i \in lost' \/ \E t \in Threads : thread'[t].item = i
    BY DEF ManualIsKept
  <2>1. item[i] # NoItem /\ item[i].path = <<i, 0>>
    BY ManualPath DEF NoManualRow
  <2>2. item'[i].path = <<i, 0>>
    <3>1. i \in Items
      BY DEF Items
    <3>2. item'[i].path \in Paths /\ item'[i].path[1] = i
      BY <3>1 DEF MediaType, RowType, ItemType
    <3> QED
      BY <3>2, PathFacts
  <2> QED
    BY <2>1, <2>2 DEF KeepInv, ManualIsKept, Exists, SameManualFiles, DeletersStay
<1> QED
  BY <1>2, <1>3 DEF KeepInv

LEMMA SavedStays ==
  ASSUME MediaType, [Next]_vars
  PROVE  \/ \A u \in Uploads : Saved(u)' = Saved(u) \/ Saved(u)' = {}
         \/ \E u \in Uploads, i \in Manual : SaveUpload(u, i)
<1> DEFINE Stay == \A u \in Uploads : Saved(u)' = Saved(u) \/ Saved(u)' = {}
<1>0. up \in [Uploads -> UploadRec] /\ IdleUpload.saved = <<>>
  BY DEF MediaType, UploadType, IdleUpload
<1>1. ASSUME up' = up PROVE Stay
  BY <1>1 DEF Saved
<1>2. ASSUME NEW u \in Uploads, NEW r, up' = [up EXCEPT ![u] = r], r.saved = up[u].saved \/ r.saved = <<>>
      PROVE  Stay
  BY <1>0, <1>2 DEF Saved
<1>3. ASSUME NEW u \in Uploads, Upload(u) PROVE Stay \/ \E i \in Manual : SaveUpload(u, i)
  <2>1. ASSUME NEW p \in Posts, NEW n \in 1..Limit, StartUpload(u, p, n) PROVE Stay
    <3> DEFINE r == [IdleUpload EXCEPT !.at = "reading", !.post = p, !.chosen = n,
                                       !.top = Last(p), !.loaded = count[p]]
    <3>1. r.saved = <<>> /\ up' = [up EXCEPT ![u] = r]
      BY <2>1 DEF StartUpload, IdleUpload
    <3> HIDE DEF r
    <3> QED
      BY <1>2, <3>1
  <2>2. ASSUME NEW i \in Manual, RejectUpload(u, i) PROVE Stay
    BY <1>0, <1>2, <2>2 DEF RejectUpload
  <2>3. ASSUME FlushUpload(u) PROVE Stay
    <3> DEFINE r == [up[u] EXCEPT !.at = "flushed",
                                  !.counted = Cardinality(Rows(up[u].post)) + up[u].chosen]
    <3>1. r.saved = up[u].saved
      BY <1>0 DEF UploadRec
    <3>2. up' = [up EXCEPT ![u] = r] \/ up' = [up EXCEPT ![u] = IdleUpload]
      BY <1>0, <2>3 DEF FlushUpload
    <3> HIDE DEF r
    <3> QED
      BY <1>0, <1>2, <3>1, <3>2
  <2>4. ASSUME CommitUpload(u) PROVE Stay
    BY <1>0, <1>2, <2>4 DEF CommitUpload
  <2> QED
    BY <1>3, <2>1, <2>2, <2>3, <2>4 DEF Upload
<1>4. CASE Restart
  BY <1>0, <1>4 DEF Restart, Saved
<1>5. \/ up' = up \/ Restart \/ \E u \in Uploads : Upload(u)
  BY DEF Next, vars, NextDay, Prune, Age, Collect, CoolDown, Queue, DeletePost, Thread, DeleteItem,
         CommitDelete, Move, CommitMove, StartCleanup, Clean, Fetch, Download, SkipDownload, Downloaded,
         DownloadBreaks, Page, StartRestore, EndRestore, RestoreFails, Publication, StartPublish,
         EndReload, ReloadFails, Choose, Send, writers
<1> QED
  BY <1>1, <1>3, <1>4, <1>5

LEMMA SaveKeeps ==
  ASSUME MediaAssumption, MediaType, KeepInv, NEW u \in Uploads, NEW i \in Manual, SaveUpload(u, i)
  PROVE  KeepInv'
<1>0. /\ disk \in [Paths -> {"none", "part", "whole"}] /\ up \in [Uploads -> UploadRec]
      /\ \A j \in Manual : <<j, 0>> \in Paths
  BY DEF MediaType, FileType, UploadType, Paths
<1>1. /\ \A v \in Uploads : Saved(v) \subseteq Manual /\ i \notin Saved(v)
      /\ item[i] = NoItem /\ item' = item
  BY SavedType DEF SaveUpload, Unused, rows
<1>2. Saved(u)' = Saved(u) \cup {i} /\ \A v \in Uploads : v # u => Saved(v)' = Saved(v)
  <2>1. up[u].saved \in Seq(Manual) /\ up'[u].saved = Append(up[u].saved, i)
    BY <1>0 DEF SaveUpload, UploadRec
  <2>2. \A v \in Uploads : v # u => up'[v] = up[v]
    BY <1>0 DEF SaveUpload
  <2> QED
    BY <2>1, <2>2 DEF Saved
<1>3. \A j \in Manual : disk'[<<j, 0>>] = IF j = i THEN "whole" ELSE disk[<<j, 0>>]
  BY <1>0 DEF SaveUpload, Written
<1>4. UploadInv'
  <2>1. ASSUME NEW v \in Uploads, NEW j \in Saved(v)'
        PROVE  item'[j] = NoItem /\ disk'[<<j, 0>>] = "whole"
    <3>1. j = i \/ j \in Saved(v)
      BY <1>2, <2>1
    <3>2. CASE j = i
      BY <1>1, <1>3, <3>2
    <3>3. CASE j # i /\ j \in Saved(v)
      <4>1. j \in Manual /\ item[j] = NoItem /\ disk[<<j, 0>>] = "whole"
        BY <1>1, <3>3 DEF KeepInv, UploadInv
      <4> QED
        BY <1>1, <1>3, <3>3, <4>1
    <3> QED
      BY <3>1, <3>2, <3>3
  <2>2. ASSUME NEW v \in Uploads, NEW w \in Uploads, v # w PROVE Saved(v)' \cap Saved(w)' = {}
    <3>1. Saved(v) \cap Saved(w) = {}
      BY <2>2 DEF KeepInv, UploadInv
    <3> QED
      BY <1>1, <1>2, <2>2, <3>1
  <2> QED
    BY <2>1, <2>2 DEF UploadInv
<1>5. ManualIsKept'
  BY <1>1, <1>3, ManualPath DEF KeepInv, ManualIsKept, Exists, SaveUpload
<1> QED
  BY <1>4, <1>5 DEF KeepInv

LEMMA RejectKeeps ==
  ASSUME MediaAssumption, MediaType, KeepInv, NEW u \in Uploads, NEW i \in Manual, RejectUpload(u, i)
  PROVE  KeepInv'
<1>0. /\ disk \in [Paths -> {"none", "part", "whole"}] /\ up \in [Uploads -> UploadRec]
      /\ \A j \in Manual : <<j, 0>> \in Paths
      /\ \A j, k \in Manual : <<j, 0>> = <<k, 0>> => j = k
  BY DEF MediaType, FileType, UploadType, Paths
<1>1. /\ \A v \in Uploads : Saved(v) \subseteq Manual /\ i \notin Saved(v)
      /\ item[i] = NoItem /\ item' = item
  BY SavedType DEF RejectUpload, Unused, rows
<1>2. Saved(u)' = {} /\ \A v \in Uploads : v # u => Saved(v)' = Saved(v)
  BY <1>0 DEF RejectUpload, Saved, IdleUpload
<1>3. \A j \in Manual : j # i /\ j \notin Saved(u) => disk'[<<j, 0>>] = disk[<<j, 0>>]
  <2>1. PICK rest : disk' = [path \in Paths |-> IF path = <<i, 0>> THEN rest
                              ELSE IF path \in Discarded(u) THEN "none" ELSE disk[path]]
    BY DEF RejectUpload
  <2>2. \A j \in Manual : j \notin Saved(u) => <<j, 0>> \notin Discarded(u)
    BY <1>0, <1>1 DEF Discarded
  <2> QED
    BY <1>0, <2>1, <2>2
<1>4. UploadInv'
  <2>1. ASSUME NEW v \in Uploads, NEW j \in Saved(v)'
        PROVE  item'[j] = NoItem /\ disk'[<<j, 0>>] = "whole"
    <3>1. v # u /\ j \in Saved(v)
      BY <1>2, <2>1
    <3>2. j \in Manual /\ j # i /\ j \notin Saved(u) /\ item[j] = NoItem /\ disk[<<j, 0>>] = "whole"
      BY <1>1, <3>1 DEF KeepInv, UploadInv
    <3> QED
      BY <1>1, <1>3, <3>2
  <2>2. ASSUME NEW v \in Uploads, NEW w \in Uploads, v # w PROVE Saved(v)' \cap Saved(w)' = {}
    <3>1. Saved(v) \cap Saved(w) = {}
      BY <2>2 DEF KeepInv, UploadInv
    <3> QED
      BY <1>2, <3>1
  <2> QED
    BY <2>1, <2>2 DEF UploadInv
<1>5. ManualIsKept'
  <2>1. \A j \in Manual : item[j] # NoItem => j # i /\ j \notin Saved(u) /\ item[j].path = <<j, 0>>
    BY <1>1, ManualPath DEF KeepInv, UploadInv
  <2> QED
    BY <1>1, <1>3, <2>1 DEF KeepInv, ManualIsKept, Exists, RejectUpload
<1> QED
  BY <1>4, <1>5 DEF KeepInv

LEMMA DeleteKeeps ==
  ASSUME MediaAssumption, MediaType, ThreadInv, KeepInv, NEW t \in Threads, NEW i \in Items, DeleteItem(t, i)
  PROVE  KeepInv'
<1>0. /\ disk \in [Paths -> {"none", "part", "whole"}] /\ thread \in [Threads -> ThreadRec]
      /\ \A j \in Manual : <<j, 0>> \in Paths /\ <<j, 0>>[1] = j /\ j # 0 /\ j \in Items
  BY DEF MediaType, FileType, ThreadType, Paths, MediaAssumption, Items
<1>1. /\ item[i] # NoItem /\ item' = item /\ up' = up /\ lost' = lost /\ item[i].path[1] = i
      /\ item[i].path \in Paths
  BY RowFacts DEF DeleteItem, rows, MediaType, RowType
<1>2. \A j \in Manual : j # i => disk'[<<j, 0>>] = disk[<<j, 0>>]
  BY <1>0, <1>1 DEF DeleteItem
<1>3. UploadInv'
  <2>1. \A v \in Uploads : Saved(v)' = Saved(v) /\ Saved(v) \subseteq Manual
    BY <1>1, SavedType DEF Saved
  <2>2. \A v \in Uploads : \A j \in Saved(v) : j # i /\ item'[j] = NoItem /\ disk'[<<j, 0>>] = "whole"
    BY <1>1, <1>2, <2>1 DEF KeepInv, UploadInv
  <2> QED
    BY <2>1, <2>2 DEF KeepInv, UploadInv
<1>4. ManualIsKept'
  <2>1. thread'[t].item = i
    <3>1. PICK p, n, m : thread' = [thread EXCEPT ![t] = [IdleThread EXCEPT !.at = "deleting", !.post = p,
                                       !.item = i, !.loaded = n, !.counted = m]]
      BY DEF DeleteItem
    <3> QED
      BY <1>0, <3>1 DEF IdleThread
  <2>2. DeletersStay
    <3>1. \A o \in Threads : o # t => thread'[o] = thread[o]
      BY <1>0 DEF DeleteItem
    <3>2. thread[t].item = 0
      BY DEF DeleteItem, IdleThread
    <3> QED
      BY <1>0, <3>1, <3>2 DEF DeletersStay
  <2>3. \A j \in Manual : item[j] # NoItem => item[j].path = <<j, 0>>
    BY ManualPath
  <2> QED
    BY <1>1, <1>2, <2>1, <2>2, <2>3 DEF KeepInv, ManualIsKept, Exists, DeletersStay
<1> QED
  BY <1>3, <1>4 DEF KeepInv

LEMMA CommitKeeps ==
  ASSUME MediaAssumption, MediaType, KeepInv, NEW u \in Uploads, CommitUpload(u)
  PROVE  KeepInv'
<1>0. /\ disk' = disk /\ thread' = thread /\ lost' = lost /\ up \in [Uploads -> UploadRec]
      /\ Saved(u) \subseteq Manual /\ Manual \subseteq Items
  BY SavedType DEF CommitUpload, files, MediaType, UploadType, Items
<1>1. \A i \in Items : item'[i] = IF i \in Saved(u)
        THEN [post |-> up[u].post, path |-> <<i, 0>>, order |-> up[u].top + Offset(u, i)] ELSE item[i]
  BY DEF CommitUpload
<1>2. Saved(u)' = {} /\ \A v \in Uploads : v # u => Saved(v)' = Saved(v)
  BY <1>0 DEF CommitUpload, Saved, IdleUpload
<1>3. UploadInv'
  <2>1. \A v \in Uploads : v # u => Saved(v) \cap Saved(u) = {} /\ Saved(v) \subseteq Manual
    BY SavedType DEF KeepInv, UploadInv
  <2> QED
    BY <1>0, <1>1, <1>2, <2>1 DEF KeepInv, UploadInv
<1>4. ManualIsKept'
  <2> SUFFICES ASSUME NEW i \in Manual, item'[i] # NoItem
               PROVE  Exists(item[i].path)' \/ i \in lost' \/ \E t \in Threads : thread'[t].item = i
    BY DEF ManualIsKept
  <2>1. CASE i \in Saved(u)
    <3>1. item'[i].path = <<i, 0>>
      <4> DEFINE r == [post |-> up[u].post, path |-> <<i, 0>>, order |-> up[u].top + Offset(u, i)]
      <4>1. item'[i] = r
        BY <1>0, <1>1, <2>1
      <4>2. r.path = <<i, 0>>
        OBVIOUS
      <4> QED
        BY <4>1, <4>2
    <3>2. disk[<<i, 0>>] = "whole"
      BY <2>1 DEF KeepInv, UploadInv
    <3> QED
      BY <1>0, <3>1, <3>2 DEF Exists
  <2>2. CASE i \notin Saved(u)
    BY <1>0, <1>1, <2>2 DEF KeepInv, ManualIsKept, Exists
  <2> QED
    BY <2>1, <2>2
<1> QED
  BY <1>3, <1>4 DEF KeepInv

LEMMA RestartKeeps == ASSUME Restart PROVE KeepInv'
<1>1. UploadInv'
  <2>1. \A u \in Uploads : Saved(u)' = {}
    BY DEF Restart, Saved, IdleUpload
  <2> QED
    BY <2>1 DEF UploadInv
<1>2. ManualIsKept'
  BY DEF Restart, ManualIsKept, rows
<1> QED
  BY <1>1, <1>2 DEF KeepInv

LEMMA KeepStep ==
  ASSUME MediaAssumption, MediaType, MediaType', ThreadInv, DownloadInv, KeepInv, [Next]_vars
  PROVE  KeepInv'
<1>1. CASE Restart
  BY <1>1, RestartKeeps
<1>2. CASE \E u \in Uploads, i \in Manual : SaveUpload(u, i) \/ RejectUpload(u, i)
  BY <1>2, SaveKeeps, RejectKeeps
<1>3. CASE \E t \in Threads, i \in Items : DeleteItem(t, i)
  BY <1>3, DeleteKeeps
<1>4. CASE \E u \in Uploads : CommitUpload(u)
  BY <1>4, CommitKeeps
<1>5. CASE SameManualFiles /\ NoManualRow /\ DeletersStay /\ ~Restart
           /\ \A u \in Uploads : Saved(u)' = Saved(u) \/ Saved(u)' = {}
  <2>1. lost' = lost
    BY <1>5 DEF Next, vars, NextDay, Prune, Age, Collect, CoolDown, Queue, DeletePost, Upload, StartUpload,
         SaveUpload, RejectUpload, FlushUpload, CommitUpload, Thread, DeleteItem, CommitDelete, Move,
         CommitMove, StartCleanup, Clean, Fetch, Download, SkipDownload, Downloaded, DownloadBreaks, Page,
         StartRestore, EndRestore, RestoreFails, Publication, StartPublish, EndReload, ReloadFails, Choose,
         Send, files
  <2> QED
    BY <1>5, <2>1, KeepStays
<1> QED
  BY <1>1, <1>2, <1>3, <1>4, <1>5, ManualFiles, ManualRows, Deleters, SavedStays

KeptInv == MediaType /\ ThreadInv /\ DownloadInv /\ KeepInv

LEMMA KeptStep == ASSUME MediaAssumption PROVE /\ Init => KeptInv
                                               /\ KeptInv /\ [Next]_vars => KeptInv'
<1>1. Init => KeptInv
  BY TypeInit, ThreadInit, DownloadInit, KeepInit DEF KeptInv
<1>2. KeptInv /\ [Next]_vars => KeptInv'
  BY TypeStep, ThreadStep, DownloadStep, KeepStep DEF KeptInv
<1> QED
  BY <1>1, <1>2

\* There is no second copy of what the editor uploaded: as long as its row is there, so
\* is its file, whatever pruning, cleanups, refused uploads and restorations do, until a
\* restart takes the disk or a request deletes the row itself.
THEOREM ManualKept == ASSUME MediaAssumption PROVE Spec => []ManualIsKept
<1>1. KeptInv => ManualIsKept
  BY DEF KeptInv, KeepInv
<1> QED
  BY <1>1, KeptStep, PTL DEF Spec

\* Paths of different rows are different.
LEMMA PathsDistinct ==
  ASSUME MediaAssumption, MediaType, NEW i \in Items, NEW j \in Items, item[i] # NoItem, item[j] # NoItem,
         item[i].path = item[j].path
  PROVE  i = j
BY RowFacts DEF MediaType, RowType

LEMMA WaitingKept ==
  ASSUME MediaAssumption, KeptInv, [Next]_vars, ~Restart,
         NEW p \in waiting, NEW i \in Rows(p), Exists(item[i].path)
  PROVE  \/ disk'[item[i].path] # "none"
         \/ \E t \in Threads : thread'[t].item = i \/ item[i].path \in thread[t].todo
<1> DEFINE path == item[i].path
           Kept == \/ disk'[item[i].path] # "none"
                   \/ \E t \in Threads : thread'[t].item = i \/ item[i].path \in thread[t].todo
<1>0. /\ p \in Posts /\ i \in Items /\ item[i] # NoItem /\ item[i].post = p /\ path \in Paths /\ path[1] = i
      /\ disk \in [Paths -> {"none", "part", "whole"}] /\ disk[path] # "none"
      /\ thread \in [Threads -> ThreadRec]
  <2>1. p \in Posts /\ i \in Items /\ item[i].post = p
    BY DEF KeptInv, MediaType, FileType, Rows
  <2>2. item[i] # NoItem
    BY <2>1, NoItemFacts
  <2> QED
    BY <2>1, <2>2, RowFacts DEF KeptInv, MediaType, FileType, ThreadType, RowType, Exists
<1> HIDE DEF path
<1>1. CASE Prune
  <2>1. path \notin Droppable
    <3>1. SUFFICES ASSUME NEW j \in OfChannels, item[j].post \notin waiting, item[j].path = path PROVE FALSE
      BY DEF Droppable
    <3> QED
      BY <1>0, <3>1, PathsDistinct DEF OfChannels, KeptInv, path
  <2> QED
    BY <1>0, <1>1, <2>1 DEF Prune, path
<1>2. ASSUME NEW t \in Threads, NEW q \in Paths, Clean(t, q) PROVE Kept
  <2>1. PICK kept : disk' = [disk EXCEPT ![q] = kept]
    BY <1>2 DEF Clean
  <2> QED
    BY <1>0, <1>2, <2>1 DEF Clean, path
<1>3. ASSUME NEW t \in Threads, NEW j \in Items, DeleteItem(t, j) PROVE Kept
  <2>1. CASE j = i
    <3>1. PICK q, n, m : thread' = [thread EXCEPT ![t] = [IdleThread EXCEPT !.at = "deleting", !.post = q,
                                       !.item = j, !.loaded = n, !.counted = m]]
      BY <1>3 DEF DeleteItem
    <3>2. thread'[t].item = i
      BY <1>0, <2>1, <3>1 DEF IdleThread
    <3> QED
      BY <3>2
  <2>2. CASE j # i
    <3>1. item[j].path # path
      BY <1>0, <1>3, <2>2, PathsDistinct DEF DeleteItem, KeptInv, path
    <3> QED
      BY <1>0, <1>3, <3>1 DEF DeleteItem, path
  <2> QED
    BY <2>1, <2>2
<1>4. ASSUME NEW u \in Uploads, NEW j \in Manual, RejectUpload(u, j) PROVE Kept
  <2>1. \A k \in Saved(u) : k \in Manual /\ item[k] = NoItem
    BY SavedType DEF KeptInv, KeepInv, UploadInv
  <2>2. path # <<j, 0>> /\ path \notin Discarded(u)
    <3>1. i # j /\ i \notin Saved(u)
      BY <1>0, <1>4, <2>1 DEF RejectUpload, Unused
    <3>2. \A k : <<k, 0>>[1] = k
      OBVIOUS
    <3>3. \A k : path = <<k, 0>> => k = i
      BY <1>0, <3>2
    <3> QED
      BY <3>1, <3>3 DEF Discarded
  <2>3. PICK rest : disk' = [q \in Paths |-> IF q = <<j, 0>> THEN rest
                              ELSE IF q \in Discarded(u) THEN "none" ELSE disk[q]]
    BY <1>4 DEF RejectUpload
  <2> QED
    BY <1>0, <2>2, <2>3 DEF path
<1>5. ASSUME disk' = disk PROVE Kept
  BY <1>0, <1>5 DEF path
<1>6. CASE \E q \in Posts : \/ \E got \in SUBSET Album[q] : Collect(q, got)
                            \/ CoolDown(q) \/ Queue(q) \/ DeletePost(q)
  <2>1. ASSUME NEW q \in Posts, NEW got \in SUBSET Album[q], Collect(q, got) PROVE Kept
    BY <1>0, <2>1 DEF Collect, path
  <2> QED
    BY <1>5, <1>6, <2>1 DEF CoolDown, Queue, DeletePost, files
<1>7. CASE NextDay \/ (\E q \in Paths : Age(q)) \/ UNCHANGED vars
  BY <1>5, <1>7 DEF NextDay, Age, files, vars
<1>8. ASSUME NEW u \in Uploads, Upload(u) PROVE Kept
  <2>1. ASSUME NEW j \in Manual, SaveUpload(u, j) PROVE Kept
    BY <1>0, <2>1 DEF SaveUpload, Written, path
  <2> QED
    BY <1>4, <1>5, <1>8, <2>1 DEF Upload, StartUpload, FlushUpload, CommitUpload, files
<1>9. ASSUME NEW t \in Threads, Thread(t) PROVE Kept
  BY <1>2, <1>3, <1>5, <1>9 DEF Thread, CommitDelete, Move, CommitMove, StartCleanup, files
<1>10. ASSUME NEW f \in Fetchers, Fetch(f) PROVE Kept
  <2>1. ASSUME NEW j \in Items, Download(f, j) PROVE Kept
    BY <1>0, <2>1 DEF Download, path
  <2>2. ASSUME Downloaded(f) PROVE Kept
    BY <1>0, <2>2 DEF Downloaded, path
  <2> QED
    BY <1>5, <1>10, <2>1, <2>2 DEF Fetch, DownloadBreaks, SkipDownload, files
<1>11. ASSUME NEW c \in Pages, Page(c) PROVE Kept
  BY <1>5, <1>11 DEF Page, StartRestore, EndRestore, RestoreFails, files
<1>12. ASSUME NEW b \in Publications, Publication(b) PROVE Kept
  BY <1>5, <1>12 DEF Publication, StartPublish, EndReload, ReloadFails, Choose, Send, files
<1> QED
  BY <1>1, <1>6, <1>7, <1>8, <1>9, <1>10, <1>11, <1>12 DEF Next

\* The files of a post whose publication is queued or running are not taken from it: no
\* step but a restart erases one, unless the editor deletes that very row or a cleanup
\* had the file on its list before the post was queued.
THEOREM WaitingFilesKept == ASSUME MediaAssumption PROVE Spec => KeptForPublication
<1> DEFINE Step == ~Restart => \A p \in waiting : \A i \in Rows(p) :
       Exists(item[i].path) => \/ disk'[item[i].path] # "none"
                               \/ \E t \in Threads : thread'[t].item = i \/ item[i].path \in thread[t].todo
<1>1. KeptInv /\ [Next]_vars => [Step]_vars
  BY WaitingKept
<1> QED
  BY <1>1, KeptStep, PTL DEF Spec, KeptForPublication

-----------------------------------------------------------------------------
(* Where a file without a row is from, and what is sent.                   *)

\* What one step may do to one restoration or publication: what it has got, what it
\* knows of the rows, the download it is at, and where the files it has got go.
Gets(f) == \A path \in fetch'[f].got : \/ path \in fetch[f].got \/ path = fetch[f].now
                                       \/ \E i \in DOMAIN fetch[f].was : path = fetch[f].was[i]
Knows(f) == \A i \in DOMAIN fetch'[f].was : i \in DOMAIN fetch[f].was \/ (i \in Items /\ item[i] # NoItem)
Writes(f) == fetch[f].now # NoPath => \/ fetch'[f].now = fetch[f].now
                                      \/ fetch[f].now \in broken'
                                      \/ Downloaded(f)
Hands(f) == fetch[f].at = "loading" => \A path \in fetch[f].got :
              \/ fetch'[f].at = "loading" /\ path \in fetch'[f].got
              \/ path \in left'
              \/ EndRestore(f) \/ EndReload(f)
Moves(f) == Gets(f) /\ Knows(f) /\ Writes(f) /\ Hands(f)

LEMMA FetchMoves ==
  ASSUME MediaAssumption, MediaType, DownloadInv, [Next]_vars, ~Restart, NEW f \in Fetchers
  PROVE  Moves(f)
<1>0. fetch \in [Fetchers -> FetchRec] /\ fetch[f] \in FetchRec
  BY DEF MediaType, FetchType
<1>1. ASSUME fetch'[f] = fetch[f] PROVE Moves(f)
  BY <1>1 DEF Moves, Gets, Knows, Writes, Hands
<1>2. CASE Fetch(f)
  <2>1. ASSUME NEW i \in Items, Download(f, i) PROVE Moves(f)
    <3> DEFINE r == [fetch[f] EXCEPT !.todo = @ \ {i}, !.now = Path(i)]
    <3>1. fetch'[f] = r /\ r.at = fetch[f].at /\ r.got = fetch[f].got /\ r.was = fetch[f].was
      BY <1>0, <2>1 DEF Download, FetchRec
    <3>2. fetch[f].now = NoPath
      BY <2>1 DEF Download
    <3> HIDE DEF r
    <3> QED
      BY <3>1, <3>2 DEF Moves, Gets, Knows, Writes, Hands
  <2>2. ASSUME NEW i \in Items, SkipDownload(f, i) PROVE Moves(f)
    <3> DEFINE r == [fetch[f] EXCEPT !.todo = @ \ {i}]
    <3>1. fetch'[f] = r /\ r.at = fetch[f].at /\ r.got = fetch[f].got /\ r.was = fetch[f].was
      BY <1>0, <2>2 DEF SkipDownload, FetchRec
    <3>2. fetch[f].now = NoPath
      BY <2>2 DEF SkipDownload
    <3> HIDE DEF r
    <3> QED
      BY <3>1, <3>2 DEF Moves, Gets, Knows, Writes, Hands
  <2>3. ASSUME Downloaded(f) PROVE Moves(f)
    <3> DEFINE r == [fetch[f] EXCEPT !.now = NoPath, !.got = @ \cup {fetch[f].now}]
    <3>1. fetch'[f] = r
      BY <1>0, <2>3 DEF Downloaded
    <3>2. r.at = fetch[f].at /\ r.was = fetch[f].was /\ r.got = fetch[f].got \cup {fetch[f].now}
      BY <1>0 DEF FetchRec
    <3> HIDE DEF r
    <3> QED
      BY <2>3, <3>1, <3>2 DEF Moves, Gets, Knows, Writes, Hands
  <2>4. ASSUME DownloadBreaks(f) PROVE Moves(f)
    <3> DEFINE r == [fetch[f] EXCEPT !.now = NoPath]
    <3>1. fetch'[f] = r /\ r.at = fetch[f].at /\ r.got = fetch[f].got /\ r.was = fetch[f].was
      BY <1>0, <2>4 DEF DownloadBreaks, FetchRec
    <3>2. fetch[f].now \in broken'
      BY <2>4 DEF DownloadBreaks, Break
    <3> HIDE DEF r
    <3> QED
      BY <3>1, <3>2 DEF Moves, Gets, Knows, Writes, Hands
  <2> QED
    BY <1>2, <2>1, <2>2, <2>3, <2>4 DEF Fetch
<1>3. CASE f \in Pages /\ Page(f)
  <2>1. ASSUME NEW p \in Posts, StartRestore(f, p) PROVE Moves(f)
    <3> DEFINE r == [IdleFetch EXCEPT !.at = "loading", !.post = p, !.todo = Missing(p), !.was = Known(p)]
    <3>1. fetch'[f] = r /\ r.got = {} /\ r.was = Known(p) /\ fetch[f] = IdleFetch
      BY <1>0, <2>1 DEF StartRestore, IdleFetch
    <3>2. \A i \in DOMAIN Known(p) : i \in Items /\ item[i] # NoItem
      BY RowsFacts DEF Known, MediaType, RowType
    <3>3. IdleFetch.at = "idle" /\ IdleFetch.now = NoPath
      BY DEF IdleFetch
    <3> HIDE DEF r
    <3> QED
      BY <3>1, <3>2, <3>3 DEF Moves, Gets, Knows, Writes, Hands
  <2>2. ASSUME EndRestore(f) PROVE Moves(f)
    <3>1. fetch'[f] = IdleFetch /\ fetch[f].now = NoPath
      BY <1>0, <2>2 DEF EndRestore, Loaded
    <3> QED
      BY <2>2, <3>1 DEF Moves, Gets, Knows, Writes, Hands, IdleFetch
  <2>3. ASSUME RestoreFails(f) PROVE Moves(f)
    <3>1. fetch'[f] = IdleFetch /\ fetch[f].got \subseteq left' /\ Break(fetch[f].now) = broken'
      BY <1>0, <2>3 DEF RestoreFails
    <3> QED
      BY <3>1 DEF Moves, Gets, Knows, Writes, Hands, IdleFetch, Break
  <2> QED
    BY <1>3, <2>1, <2>2, <2>3 DEF Page
<1>4. CASE f \in Publications /\ Publication(f)
  <2>0. IdleFetch.at = "idle" /\ IdleFetch.now = NoPath /\ IdleFetch.got = {} /\ DOMAIN IdleFetch.was = {}
    BY DEF IdleFetch
  <2>1. ASSUME NEW p \in Posts, StartPublish(f, p) PROVE Moves(f)
    <3> DEFINE r == [IdleFetch EXCEPT !.post = p, !.todo = Missing(p), !.was = Known(p),
                                      !.at = IF Missing(p) = {} THEN "ready" ELSE "loading"]
    <3>1. fetch'[f] = r /\ r.got = {} /\ r.was = Known(p) /\ fetch[f] = IdleFetch
      BY <1>0, <2>1 DEF StartPublish, IdleFetch
    <3>2. \A i \in DOMAIN Known(p) : i \in Items /\ item[i] # NoItem
      BY RowsFacts DEF Known, MediaType, RowType
    <3> HIDE DEF r
    <3> QED
      BY <2>0, <3>1, <3>2 DEF Moves, Gets, Knows, Writes, Hands
  <2>2. ASSUME EndReload(f) PROVE Moves(f)
    <3> DEFINE rest == {i \in DOMAIN fetch[f].was : item[i] # NoItem}
               was == IF Restored(f) # {} /\ ~Stale(f) THEN [i \in rest |-> Repathed(f)[i].path]
                      ELSE fetch[f].was
               r == [IdleFetch EXCEPT !.at = "ready", !.post = fetch[f].post, !.was = was]
    <3>1. fetch'[f] = IdleFetch \/ fetch'[f] = r
      BY <1>0, <2>2 DEF EndReload
    <3>2. r.got = {} /\ r.was = was /\ DOMAIN was \subseteq DOMAIN fetch[f].was
      BY <2>0 DEF IdleFetch
    <3>3. fetch[f].now = NoPath
      BY <2>2 DEF EndReload, Loaded
    <3> HIDE DEF r, was
    <3> QED
      BY <2>0, <2>2, <3>1, <3>2, <3>3 DEF Moves, Gets, Knows, Writes, Hands
  <2>3. ASSUME ReloadFails(f) PROVE Moves(f)
    <3> DEFINE r == [IdleFetch EXCEPT !.at = "ready", !.post = fetch[f].post, !.was = fetch[f].was]
    <3>1. fetch'[f] = r /\ r.got = {} /\ r.was = fetch[f].was
      BY <1>0, <2>3 DEF ReloadFails, IdleFetch
    <3>2. fetch[f].got \subseteq left' /\ Break(fetch[f].now) = broken'
      BY <2>3 DEF ReloadFails
    <3> HIDE DEF r
    <3> QED
      BY <3>1, <3>2 DEF Moves, Gets, Knows, Writes, Hands, Break
  <2>4. ASSUME Choose(f) PROVE Moves(f)
    <3> DEFINE got == {fetch[f].was[i] : i \in {j \in DOMAIN fetch[f].was : Exists(fetch[f].was[j])}}
               r == [IdleFetch EXCEPT !.at = "sending", !.post = fetch[f].post, !.got = got]
    <3>1. fetch'[f] = r /\ r.got = got /\ DOMAIN r.was = {}
      BY <1>0, <2>4 DEF Choose, IdleFetch
    <3>2. \A path \in got : \E i \in DOMAIN fetch[f].was : path = fetch[f].was[i]
      OBVIOUS
    <3>3. fetch[f].at # "loading" /\ fetch[f].now = NoPath
      BY <2>4 DEF Choose, DownloadInv
    <3> HIDE DEF r, got
    <3> QED
      BY <3>1, <3>2, <3>3 DEF Moves, Gets, Knows, Writes, Hands
  <2>5. ASSUME Send(f) PROVE Moves(f)
    <3>1. fetch'[f] = IdleFetch /\ fetch[f].at # "loading" /\ fetch[f].now = NoPath
      BY <1>0, <2>5 DEF Send, DownloadInv
    <3> QED
      BY <2>0, <3>1 DEF Moves, Gets, Knows, Writes, Hands
  <2> QED
    BY <1>4, <2>1, <2>2, <2>3, <2>4, <2>5 DEF Publication
<1>5. ASSUME NEW g \in Fetchers, g # f, Fetch(g) PROVE fetch'[f] = fetch[f]
  BY <1>0, <1>5 DEF Fetch, Download, SkipDownload, Downloaded, DownloadBreaks
<1>6. ASSUME NEW c \in Pages, c # f, Page(c) PROVE fetch'[f] = fetch[f]
  BY <1>0, <1>6 DEF Page, StartRestore, EndRestore, RestoreFails
<1>7. ASSUME NEW b \in Publications, b # f, Publication(b) PROVE fetch'[f] = fetch[f]
  BY <1>0, <1>7 DEF Publication, StartPublish, EndReload, ReloadFails, Choose, Send
<1>8. \/ fetch' = fetch
      \/ \E g \in Fetchers : Fetch(g)
      \/ \E c \in Pages : Page(c)
      \/ \E b \in Publications : Publication(b)
  <2>1. CASE \E u \in Uploads : Upload(u)
    BY <2>1 DEF Upload, StartUpload, SaveUpload, RejectUpload, FlushUpload, CommitUpload, restoring
  <2>2. CASE \E t \in Threads : Thread(t)
    BY <2>2 DEF Thread, DeleteItem, CommitDelete, Move, CommitMove, StartCleanup, Clean, restoring
  <2>3. CASE \E p \in Posts : \/ \E got \in SUBSET Album[p] : Collect(p, got)
                              \/ CoolDown(p) \/ Queue(p) \/ DeletePost(p)
    BY <2>3 DEF Collect, CoolDown, Queue, DeletePost, restoring
  <2>4. CASE NextDay \/ Prune \/ (\E path \in Paths : Age(path)) \/ UNCHANGED vars
    BY <2>4 DEF NextDay, Prune, Age, restoring, vars
  <2> QED
    BY <2>1, <2>2, <2>3, <2>4 DEF Next
<1> QED
  BY <1>1, <1>2, <1>3, <1>4, <1>5, <1>6, <1>7, <1>8

AlbumInv == \A i \in Channel : item[i] # NoItem => i \in Album[item[i].post]

\* A row keeps its post, and rows of channels come with the post they belong to.
LEMMA AlbumStep ==
  ASSUME MediaAssumption, MediaType, AlbumInv, [Next]_vars PROVE AlbumInv'
<1>0. Channel \subseteq Items
  BY DEF Items
<1>1. ASSUME item' = item PROVE AlbumInv'
  BY <1>1 DEF AlbumInv
<1>2. ASSUME NEW f \in Fetchers, item' = Repathed(f) PROVE AlbumInv'
  BY <1>0, <1>2, RepathedType DEF AlbumInv
<1>3. CASE \E p \in Posts : \/ \E got \in SUBSET Album[p] : Collect(p, got)
                            \/ CoolDown(p) \/ Queue(p) \/ DeletePost(p)
  <2>1. ASSUME NEW p \in Posts, NEW got \in SUBSET Album[p], Collect(p, got) PROVE AlbumInv'
    <3> SUFFICES ASSUME NEW i \in Channel, item'[i] # NoItem PROVE i \in Album[item'[i].post]
      BY DEF AlbumInv
    <3>1. CASE i \in got
      <4> DEFINE n == Cardinality({j \in Album[p] : j < i})
      <4>1. item'[i] = [post |-> p, path |-> Path(i), order |-> n]
        BY <1>0, <2>1, <3>1 DEF Collect
      <4> HIDE DEF n
      <4> QED
        BY <3>1, <4>1
    <3>2. CASE i \notin got
      BY <1>0, <2>1, <3>2 DEF Collect, AlbumInv
    <3> QED
      BY <3>1, <3>2
  <2>2. ASSUME NEW p \in Posts, DeletePost(p) PROVE AlbumInv'
    BY <1>0, <2>2 DEF DeletePost, AlbumInv
  <2> QED
    BY <1>1, <1>3, <2>1, <2>2 DEF CoolDown, Queue, rows
<1>4. CASE NextDay \/ Prune \/ Restart \/ (\E path \in Paths : Age(path)) \/ UNCHANGED vars
  BY <1>1, <1>4 DEF NextDay, Prune, Restart, Age, rows, vars
<1>5. ASSUME NEW u \in Uploads, Upload(u) PROVE AlbumInv'
  <2>1. ASSUME CommitUpload(u) PROVE AlbumInv'
    <3>1. Saved(u) \cap Channel = {}
      BY SavedType DEF MediaAssumption
    <3>2. \A i \in Channel : item'[i] = item[i]
      BY <1>0, <2>1, <3>1 DEF CommitUpload
    <3> QED
      BY <3>2 DEF AlbumInv
  <2> QED
    BY <1>1, <1>5, <2>1 DEF Upload, StartUpload, SaveUpload, RejectUpload, FlushUpload, rows
<1>6. ASSUME NEW t \in Threads, Thread(t) PROVE AlbumInv'
  <2>1. ASSUME CommitDelete(t) PROVE AlbumInv'
    BY <1>0, <2>1 DEF CommitDelete, AlbumInv, MediaType, RowType, ItemType
  <2>2. ASSUME CommitMove(t) PROVE AlbumInv'
    <3> DEFINE order == thread[t].order
    <3>1. CASE \A i \in DOMAIN order : item[i] # NoItem
      <4>1. \A i \in Items : item'[i] = IF i \in DOMAIN order THEN [item[i] EXCEPT !.order = order[i]] ELSE item[i]
        BY <2>2, <3>1 DEF CommitMove
      <4>2. \A i \in Items : item'[i] # NoItem => item[i] # NoItem /\ item'[i].post = item[i].post
        <5> TAKE i \in Items
        <5>1. CASE i \in DOMAIN order
          <6>1. item[i] # NoItem /\ item[i] \in [post : Posts, path : Paths, order : Nat]
            BY <3>1, <5>1, RowFacts DEF MediaType, RowType
          <6>2. item'[i] = [item[i] EXCEPT !.order = order[i]]
            BY <4>1, <5>1
          <6> QED
            BY <6>1, <6>2
        <5>2. CASE i \notin DOMAIN order
          BY <4>1, <5>2
        <5> QED
          BY <5>1, <5>2
      <4> QED
        BY <1>0, <4>2 DEF AlbumInv
    <3>2. CASE ~\A i \in DOMAIN order : item[i] # NoItem
      BY <1>1, <2>2, <3>2 DEF CommitMove
    <3> QED
      BY <3>1, <3>2
  <2> QED
    BY <1>1, <1>6, <2>1, <2>2 DEF Thread, DeleteItem, Move, StartCleanup, Clean, rows
<1>7. ASSUME NEW f \in Fetchers, Fetch(f) PROVE AlbumInv'
  BY <1>1, <1>7 DEF Fetch, Download, SkipDownload, Downloaded, DownloadBreaks, rows
<1>8. ASSUME NEW c \in Pages, Page(c) PROVE AlbumInv'
  BY <1>1, <1>2, <1>8 DEF Page, StartRestore, EndRestore, RestoreFails, rows, Fetchers
<1>9. ASSUME NEW b \in Publications, Publication(b) PROVE AlbumInv'
  BY <1>1, <1>2, <1>9 DEF Publication, StartPublish, EndReload, ReloadFails, Choose, Send, rows, Fetchers
<1> QED
  BY <1>3, <1>4, <1>5, <1>6, <1>7, <1>8, <1>9 DEF Next

Named(path) == \E i \in Items : item[i].path = path
Uploading(path) == \E u \in Uploads : path[1] \in Saved(u)
Restoring(path) == \E f \in Fetchers : fetch[f].at = "loading" /\ path \in fetch[f].got
Whole(path) == disk[path] = "whole"
Accounted(path) == Named(path) \/ Uploading(path) \/ Restoring(path) \/ path \in left
OrphanInv == \A path \in Paths : Whole(path) => Accounted(path)

\* The record of what was left behind only grows, until a restart takes the disk.
LEMMA LeftGrows ==
  ASSUME [Next]_vars, ~Restart PROVE left \subseteq left' /\ broken \subseteq broken'
<1>1. CASE \E p \in Posts : \/ \E got \in SUBSET Album[p] : Collect(p, got)
                            \/ CoolDown(p) \/ Queue(p) \/ DeletePost(p)
  BY <1>1 DEF Collect, CoolDown, Queue, DeletePost, files
<1>2. CASE NextDay \/ Prune \/ (\E path \in Paths : Age(path)) \/ UNCHANGED vars
  BY <1>2 DEF NextDay, Prune, Age, files, vars
<1>3. ASSUME NEW u \in Uploads, Upload(u) PROVE left \subseteq left' /\ broken \subseteq broken'
  BY <1>3 DEF Upload, StartUpload, SaveUpload, RejectUpload, FlushUpload, CommitUpload, files
<1>4. ASSUME NEW t \in Threads, Thread(t) PROVE left \subseteq left' /\ broken \subseteq broken'
  BY <1>4 DEF Thread, DeleteItem, CommitDelete, Move, CommitMove, StartCleanup, Clean, files
<1>5. ASSUME NEW f \in Fetchers, Fetch(f) PROVE left \subseteq left' /\ broken \subseteq broken'
  BY <1>5 DEF Fetch, Download, SkipDownload, Downloaded, DownloadBreaks, Break, files
<1>6. ASSUME NEW c \in Pages, Page(c) PROVE left \subseteq left' /\ broken \subseteq broken'
  BY <1>6 DEF Page, StartRestore, EndRestore, RestoreFails, Break, files
<1>7. ASSUME NEW b \in Publications, Publication(b) PROVE left \subseteq left' /\ broken \subseteq broken'
  BY <1>7 DEF Publication, StartPublish, EndReload, ReloadFails, Choose, Send, Break, files
<1> QED
  BY <1>1, <1>2, <1>3, <1>4, <1>5, <1>6, <1>7 DEF Next

\* A restoration that ends hands every file on: to a row, or to what is left.
LEMMA StraysLeft ==
  ASSUME MediaAssumption, MediaType, NEW f \in Fetchers, EndRestore(f) \/ EndReload(f), NEW path \in Paths,
         Exists(path), path \in fetch[f].got \/ Named(path)
  PROVE  Named(path)' \/ path \in left'
<1>0. item' = Repathed(f) /\ left' = left \cup Strays(f) /\ path # NoPath
  BY PathFacts DEF EndRestore, EndReload
<1>1. CASE \E i \in Items : Repathed(f)[i].path = path
  BY <1>0, <1>1 DEF Named
<1>2. CASE ~\E i \in Items : Repathed(f)[i].path = path
  <2>1. CASE path \in fetch[f].got
    BY <1>0, <1>2, <2>1 DEF Strays
  <2>2. CASE Named(path)
    <3>1. PICK i \in Items : item[i].path = path
      BY <2>2 DEF Named
    <3>2. i \in Changed(f)
      <4>1. CASE i \notin Changed(f)
        BY <1>2, <3>1, <4>1 DEF Repathed
      <4> QED
        BY <4>1
    <3> QED
      BY <1>0, <1>2, <3>1, <3>2 DEF Strays
  <2> QED
    BY <2>1, <2>2
<1> QED
  BY <1>1, <1>2

LEMMA NamedStays ==
  ASSUME MediaAssumption, KeptInv, AlbumInv, [Next]_vars, ~Restart, NEW path \in Paths,
         Named(path), Exists(path)'
  PROVE  Named(path)' \/ path \in left'
<1> DEFINE Still == Named(path)' \/ path \in left'
<1>0. PICK i \in Items : item[i].path = path
  BY DEF Named
<1>i. /\ item[i] # NoItem /\ path[1] = i /\ item[i].post \in Posts /\ post[item[i].post] = "present"
      /\ MediaType
  <2>1. item[i] # NoItem
    BY <1>0, PathFacts DEF NoItem
  <2> QED
    BY <1>0, <2>1, RowFacts DEF KeptInv, MediaType, RowType
<1>1. ASSUME item'[i] = item[i] PROVE Still
  BY <1>0, <1>1 DEF Named
<1>2. CASE \E p \in Posts : \/ \E got \in SUBSET Album[p] : Collect(p, got)
                            \/ CoolDown(p) \/ Queue(p) \/ DeletePost(p)
  <2>1. ASSUME NEW p \in Posts, NEW got \in SUBSET Album[p], Collect(p, got) PROVE Still
    <3>1. i \notin got
      <4>1. SUFFICES ASSUME i \in got PROVE FALSE
        OBVIOUS
      <4>2. i \in Channel /\ i \in Album[p]
        BY <4>1 DEF MediaAssumption
      <4>3. i \in Album[item[i].post]
        BY <1>i, <4>2 DEF AlbumInv
      <4>4. item[i].post # p
        BY <1>i, <2>1 DEF Collect
      <4> QED
        BY <1>i, <4>2, <4>3, <4>4 DEF MediaAssumption
    <3>2. item'[i] = item[i]
      BY <2>1, <3>1 DEF Collect
    <3> QED
      BY <1>1, <3>2
  <2>2. ASSUME NEW p \in Posts, DeletePost(p) PROVE Still
    <3>1. CASE item[i].post = p
      BY <1>0, <2>2, <3>1 DEF DeletePost, Rows
    <3>2. CASE item[i].post # p
      BY <1>1, <2>2, <3>2 DEF DeletePost
    <3> QED
      BY <3>1, <3>2
  <2> QED
    BY <1>1, <1>2, <2>1, <2>2 DEF CoolDown, Queue, rows
<1>3. CASE NextDay \/ Prune \/ (\E q \in Paths : Age(q)) \/ UNCHANGED vars
  BY <1>1, <1>3 DEF NextDay, Prune, Age, rows, vars
<1>4. ASSUME NEW u \in Uploads, Upload(u) PROVE Still
  <2>1. ASSUME CommitUpload(u) PROVE Still
    <3>1. i \notin Saved(u)
      BY <1>i DEF KeptInv, KeepInv, UploadInv
    <3> QED
      BY <1>1, <2>1, <3>1 DEF CommitUpload
  <2> QED
    BY <1>1, <1>4, <2>1 DEF Upload, StartUpload, SaveUpload, RejectUpload, FlushUpload, rows
<1>5. ASSUME NEW t \in Threads, Thread(t) PROVE Still
  <2>1. ASSUME CommitDelete(t) PROVE Still
    <3>1. CASE thread[t].item = i
      <4>1. disk' = disk
        BY <2>1 DEF CommitDelete
      <4> QED
        BY <1>0, <2>1, <3>1, <4>1 DEF CommitDelete, Exists
    <3>2. CASE thread[t].item # i
      BY <1>1, <2>1, <3>2 DEF CommitDelete
    <3> QED
      BY <3>1, <3>2
  <2>2. ASSUME CommitMove(t) PROVE Still
    <3> DEFINE order == thread[t].order
    <3>1. CASE (\A j \in DOMAIN order : item[j] # NoItem) /\ i \in DOMAIN order
      <4>1. item'[i] = [item[i] EXCEPT !.order = order[i]]
        BY <2>2, <3>1 DEF CommitMove
      <4>2. item[i] \in [post : Posts, path : Paths, order : Nat]
        BY <1>i, RowFacts DEF MediaType, RowType
      <4>3. item'[i].path = path
        BY <1>0, <4>1, <4>2
      <4> QED
        BY <4>3 DEF Named
    <3>2. CASE ~((\A j \in DOMAIN order : item[j] # NoItem) /\ i \in DOMAIN order)
      BY <1>1, <2>2, <3>2 DEF CommitMove
    <3> QED
      BY <3>1, <3>2
  <2> QED
    BY <1>1, <1>5, <2>1, <2>2 DEF Thread, DeleteItem, Move, StartCleanup, Clean, rows
<1>6. ASSUME NEW f \in Fetchers, Fetch(f) PROVE Still
  BY <1>1, <1>6 DEF Fetch, Download, SkipDownload, Downloaded, DownloadBreaks, rows
<1>7. ASSUME NEW f \in Fetchers, EndRestore(f) \/ EndReload(f) PROVE Still
  <2>1. Exists(path)
    BY <1>7 DEF EndRestore, EndReload, Exists
  <2> QED
    BY <1>i, <1>7, <2>1, StraysLeft
<1>8. ASSUME NEW c \in Pages, Page(c) PROVE Still
  BY <1>1, <1>7, <1>8 DEF Page, StartRestore, RestoreFails, rows, Fetchers
<1>9. ASSUME NEW b \in Publications, Publication(b) PROVE Still
  BY <1>1, <1>7, <1>9 DEF Publication, StartPublish, ReloadFails, Choose, Send, rows, Fetchers
<1> QED
  BY <1>2, <1>3, <1>4, <1>5, <1>6, <1>8, <1>9 DEF Next

LEMMA UploadingStays ==
  ASSUME MediaAssumption, KeptInv, [Next]_vars, ~Restart, NEW path \in Paths,
         Uploading(path), Exists(path)'
  PROVE  Accounted(path)'
<1> DEFINE Still == Accounted(path)'
<1>0. PICK u \in Uploads : path[1] \in Saved(u)
  BY DEF Uploading
<1>i. /\ path[1] \in Manual /\ path[1] \in Items /\ path = <<path[1], 0>> /\ path \in Discarded(u)
      /\ up \in [Uploads -> UploadRec]
  <2>1. path[1] \in Manual
    BY <1>0, SavedType DEF KeptInv
  <2> QED
    BY <1>0, <2>1, PathFacts DEF KeptInv, MediaType, UploadType, Discarded, Items
<1>1. ASSUME path[1] \in Saved(u)' PROVE Still
  BY <1>1 DEF Accounted, Uploading
<1>2. ASSUME up'[u] = up[u] PROVE Still
  BY <1>0, <1>1, <1>2 DEF Saved
<1>3. ASSUME NEW v \in Uploads, Upload(v) PROVE Still
  <2>1. CASE v # u
    <3>1. up'[u] = up[u]
      BY <1>i, <1>3, <2>1 DEF Upload, StartUpload, SaveUpload, RejectUpload, FlushUpload, CommitUpload
    <3> QED
      BY <1>2, <3>1
  <2>2. ASSUME v = u, NEW p \in Posts, NEW n \in 1..Limit, StartUpload(u, p, n) PROVE FALSE
    BY <1>0, <2>2 DEF StartUpload, Saved, IdleUpload
  <2>3. ASSUME v = u, NEW i \in Manual, SaveUpload(u, i) PROVE Still
    <3>1. up[u].saved \in Seq(Manual) /\ up'[u].saved = Append(up[u].saved, i)
      BY <1>i, <2>3 DEF SaveUpload, UploadRec
    <3>2. Saved(u) \subseteq Saved(u)'
      BY <3>1 DEF Saved
    <3> QED
      BY <1>0, <1>1, <3>2
  <2>4. ASSUME v = u, NEW i \in Manual, RejectUpload(u, i) PROVE FALSE
    <3>1. PICK rest : disk' = [q \in Paths |-> IF q = <<i, 0>> THEN rest
                              ELSE IF q \in Discarded(u) THEN "none" ELSE disk[q]]
      BY <2>4 DEF RejectUpload
    <3>2. i \notin Saved(u)
      BY <2>4 DEF RejectUpload, Unused
    <3>3. path # <<i, 0>>
      <4>1. <<i, 0>>[1] = i
        OBVIOUS
      <4> QED
        BY <1>0, <3>2, <4>1
    <3>4. disk'[path] = "none"
      BY <1>i, <3>1, <3>3
    <3> QED
      BY <3>4 DEF Exists
  <2>5. ASSUME v = u, FlushUpload(u) PROVE Still
    <3>1. CASE Referable(u)
      <4> DEFINE r == [up[u] EXCEPT !.at = "flushed",
                                    !.counted = Cardinality(Rows(up[u].post)) + up[u].chosen]
      <4>1. up' = [up EXCEPT ![u] = r]
        BY <1>i, <2>5, <3>1 DEF FlushUpload
      <4>2. r.saved = up[u].saved
        BY <1>i DEF UploadRec
      <4> HIDE DEF r
      <4>3. Saved(u)' = Saved(u)
        BY <1>i, <4>1, <4>2 DEF Saved
      <4> QED
        BY <1>0, <1>1, <4>3
    <3>2. CASE ~Referable(u)
      BY <1>i, <2>5, <3>2 DEF FlushUpload, Accounted
    <3> QED
      BY <3>1, <3>2
  <2>6. ASSUME v = u, CommitUpload(u) PROVE Still
    <3> DEFINE i == path[1]
               r == [post |-> up[u].post, path |-> <<i, 0>>, order |-> up[u].top + Offset(u, i)]
    <3>1. item'[i] = r
      BY <1>0, <1>i, <2>6 DEF CommitUpload
    <3>2. r.path = path
      BY <1>i
    <3> HIDE DEF r
    <3> QED
      BY <1>i, <3>1, <3>2 DEF Accounted, Named
  <2> QED
    BY <1>3, <2>1, <2>2, <2>3, <2>4, <2>5, <2>6 DEF Upload
<1>4. up' = up \/ \E v \in Uploads : Upload(v)
  BY DEF Next, vars, NextDay, Prune, Age, Collect, CoolDown, Queue, DeletePost, Thread, DeleteItem,
         CommitDelete, Move, CommitMove, StartCleanup, Clean, Fetch, Download, SkipDownload, Downloaded,
         DownloadBreaks, Page, StartRestore, EndRestore, RestoreFails, Publication, StartPublish,
         EndReload, ReloadFails, Choose, Send, writers
<1> QED
  BY <1>2, <1>3, <1>4

LEMMA RestoringStays ==
  ASSUME MediaAssumption, KeptInv, [Next]_vars, ~Restart, NEW path \in Paths,
         Restoring(path), Exists(path)'
  PROVE  Accounted(path)'
<1>0. PICK f \in Fetchers : fetch[f].at = "loading" /\ path \in fetch[f].got
  BY DEF Restoring
<1>1. MediaType /\ Moves(f)
  BY FetchMoves DEF KeptInv
<1>2. CASE EndRestore(f) \/ EndReload(f)
  <2>1. Exists(path)
    BY <1>2 DEF EndRestore, EndReload, Exists
  <2> QED
    BY <1>0, <1>1, <1>2, <2>1, StraysLeft DEF Accounted
<1>3. CASE ~(EndRestore(f) \/ EndReload(f))
  BY <1>0, <1>1, <1>3 DEF Moves, Hands, Accounted, Restoring
<1> QED
  BY <1>2, <1>3

\* Where files come from.
LEMMA NewFiles ==
  ASSUME MediaAssumption, KeptInv, [Next]_vars, ~Restart, NEW path \in Paths,
         Whole(path)', ~Whole(path)
  PROVE  Accounted(path)'
<1> DEFINE New == Accounted(path)'
<1>0. /\ disk \in [Paths -> {"none", "part", "whole"}] /\ disk[path] # "whole" /\ disk'[path] = "whole"
      /\ up \in [Uploads -> UploadRec] /\ fetch \in [Fetchers -> FetchRec] /\ path # NoPath /\ MediaType
  BY PathFacts DEF KeptInv, MediaType, FileType, UploadType, FetchType, Whole
<1>1. disk' # disk
  BY <1>0
<1>2. ASSUME NEW p \in Posts, NEW got \in SUBSET Album[p], Collect(p, got) PROVE New
  <2>1. PICK i \in got : path = Path(i)
    BY <1>0, <1>2 DEF Collect
  <2> DEFINE n == Cardinality({j \in Album[p] : j < i})
             r == [post |-> p, path |-> Path(i), order |-> n]
  <2>2. i \in Items /\ item'[i] = r
    BY <1>2 DEF Collect, MediaAssumption, Items
  <2>3. r.path = path
    BY <2>1
  <2> HIDE DEF r
  <2> QED
    BY <2>2, <2>3 DEF Accounted, Named
<1>3. ASSUME NEW u \in Uploads, NEW i \in Manual, SaveUpload(u, i) PROVE New
  <2>1. path = <<i, 0>>
    BY <1>0, <1>3 DEF SaveUpload
  <2>2. up[u].saved \in Seq(Manual) /\ up'[u].saved = Append(up[u].saved, i)
    BY <1>0, <1>3 DEF SaveUpload, UploadRec
  <2>3. i \in Saved(u)'
    <3>1. Len(up'[u].saved) \in 1..Len(up'[u].saved) /\ up'[u].saved[Len(up'[u].saved)] = i
      BY <2>2
    <3> QED
      BY <3>1 DEF Saved
  <2>4. path[1] = i
    BY <2>1
  <2> QED
    BY <2>3, <2>4 DEF Accounted, Uploading
<1>4. ASSUME NEW u \in Uploads, NEW i \in Manual, RejectUpload(u, i) PROVE FALSE
  BY <1>0, <1>4 DEF RejectUpload
<1>5. ASSUME NEW f \in Fetchers, NEW i \in Items, Download(f, i) PROVE FALSE
  BY <1>0, <1>5 DEF Download
<1>6. ASSUME NEW f \in Fetchers, Downloaded(f) PROVE New
  <2> DEFINE r == [fetch[f] EXCEPT !.now = NoPath, !.got = @ \cup {fetch[f].now}]
  <2>1. path = fetch[f].now /\ fetch'[f] = r
    BY <1>0, <1>6 DEF Downloaded
  <2>2. r.at = "loading" /\ path \in r.got
    BY <1>0, <1>6, <2>1 DEF FetchRec, Downloaded
  <2> HIDE DEF r
  <2> QED
    BY <2>1, <2>2 DEF Accounted, Restoring
<1>7. ASSUME NEW t \in Threads, NEW q \in Paths, Clean(t, q) PROVE New
  <2>1. PICK kept \in {"none"} \cup (IF q \in old THEN {} ELSE {disk[q]}) : disk' = [disk EXCEPT ![q] = kept]
    BY <1>7 DEF Clean
  <2> QED
    BY <1>0, <2>1
<1>8. ASSUME NEW t \in Threads, NEW i \in Items, DeleteItem(t, i) PROVE New
  BY <1>0, <1>8 DEF DeleteItem
<1>9. CASE \E p \in Posts : \/ \E got \in SUBSET Album[p] : Collect(p, got)
                            \/ CoolDown(p) \/ Queue(p) \/ DeletePost(p)
  BY <1>1, <1>2, <1>9 DEF CoolDown, Queue, DeletePost, files
<1>10. CASE NextDay \/ Prune \/ (\E q \in Paths : Age(q)) \/ UNCHANGED vars
  BY <1>0, <1>10 DEF NextDay, Prune, Age, files, vars
<1>11. ASSUME NEW u \in Uploads, Upload(u) PROVE New
  BY <1>1, <1>3, <1>4, <1>11 DEF Upload, StartUpload, FlushUpload, CommitUpload, files
<1>12. ASSUME NEW t \in Threads, Thread(t) PROVE New
  BY <1>1, <1>7, <1>8, <1>12 DEF Thread, CommitDelete, Move, CommitMove, StartCleanup, files
<1>13. ASSUME NEW f \in Fetchers, Fetch(f) PROVE New
  BY <1>1, <1>5, <1>6, <1>13 DEF Fetch, DownloadBreaks, SkipDownload, files
<1>14. ASSUME NEW c \in Pages, Page(c) PROVE New
  BY <1>1, <1>14 DEF Page, StartRestore, EndRestore, RestoreFails, files
<1>15. ASSUME NEW b \in Publications, Publication(b) PROVE New
  BY <1>1, <1>15 DEF Publication, StartPublish, EndReload, ReloadFails, Choose, Send, files
<1> QED
  BY <1>9, <1>10, <1>11, <1>12, <1>13, <1>14, <1>15 DEF Next

LEMMA OrphanStep ==
  ASSUME MediaAssumption, KeptInv, AlbumInv, OrphanInv, [Next]_vars PROVE OrphanInv'
<1>1. CASE Restart
  BY <1>1 DEF Restart, OrphanInv, Whole
<1>2. CASE ~Restart
  <2> SUFFICES ASSUME NEW path \in Paths, Whole(path)' PROVE Accounted(path)'
    BY DEF OrphanInv
  <2>0. Exists(path)'
    BY DEF Whole, Exists
  <2>1. CASE ~Whole(path)
    BY <1>2, <2>1, NewFiles
  <2>2. CASE Whole(path)
    <3>1. Accounted(path)
      BY <2>2 DEF OrphanInv
    <3>2. CASE Named(path)
      BY <1>2, <2>0, <3>2, NamedStays DEF Accounted
    <3>3. CASE Uploading(path)
      BY <1>2, <2>0, <3>3, UploadingStays
    <3>4. CASE Restoring(path)
      BY <1>2, <2>0, <3>4, RestoringStays
    <3>5. CASE path \in left
      BY <1>2, <3>5, LeftGrows DEF Accounted
    <3> QED
      BY <3>1, <3>2, <3>3, <3>4, <3>5 DEF Accounted
  <2> QED
    BY <2>1, <2>2
<1> QED
  BY <1>1, <1>2

\* No whole file gets lost on the disk: one that no row names is in the hands of an upload
\* or of a restoration, or was left by a post, a row or a restoration that went.
THEOREM OrphansKnown == ASSUME MediaAssumption PROVE Spec => []OrphansAccountedFor
<1>1. Init => KeptInv /\ AlbumInv /\ OrphanInv
  <2>1. Init => AlbumInv /\ OrphanInv
    BY DEF Init, AlbumInv, OrphanInv, Whole, Items
  <2> QED
    BY <2>1, KeptStep
<1>2. KeptInv /\ AlbumInv /\ OrphanInv /\ [Next]_vars => (KeptInv /\ AlbumInv /\ OrphanInv)'
  BY KeptStep, AlbumStep, OrphanStep DEF KeptInv
<1>3. OrphanInv => OrphansAccountedFor
  BY DEF OrphanInv, OrphansAccountedFor, Whole, Accounted, Named, Uploading, Restoring
<1> QED
  BY <1>1, <1>2, <1>3, PTL DEF Spec

-----------------------------------------------------------------------------
\* What a refused picture leaves: no row, no upload and no publication knows of it.
Stump(path) == /\ path[1] \in Manual /\ item[path[1]] = NoItem
               /\ \A u \in Uploads : path[1] \notin Saved(u)
               /\ \A f \in Fetchers : path \notin fetch[f].got /\ path[1] \notin DOMAIN fetch[f].was
PartInv == \A path \in Paths : disk[path] = "part" =>
             \/ path \in broken
             \/ \E f \in Fetchers : fetch[f].now = path
             \/ Stump(path)

LEMMA StumpStays ==
  ASSUME MediaAssumption, KeptInv, [Next]_vars, ~Restart, NEW path \in Paths, Stump(path), Exists(path)
  PROVE  Stump(path)'
<1>0. /\ path[1] \in Manual /\ path[1] \in Items /\ path = <<path[1], 0>> /\ path # NoPath
      /\ MediaType /\ DownloadInv
  BY PathFacts DEF Stump, KeptInv
<1>1. item'[path[1]] = NoItem
  <2>1. ASSUME NEW u \in Uploads, CommitUpload(u) PROVE item'[path[1]] = NoItem
    BY <1>0, <2>1 DEF CommitUpload, Stump
  <2> QED
    BY <1>0, <2>1, ManualRows DEF NoManualRow, Stump
<1>2. ASSUME NEW u \in Uploads PROVE path[1] \notin Saved(u)'
  <2>1. ASSUME NEW v \in Uploads, NEW i \in Manual, SaveUpload(v, i) PROVE path[1] \notin Saved(u)'
    <3>1. i # path[1]
      BY <1>0, <2>1 DEF SaveUpload, Unused
    <3>2. up \in [Uploads -> UploadRec]
      BY <1>0 DEF MediaType, UploadType
    <3>3. up[v].saved \in Seq(Manual) /\ up'[v].saved = Append(up[v].saved, i)
      BY <2>1, <3>2 DEF SaveUpload, UploadRec
    <3>4. v # u => up'[u] = up[u]
      BY <2>1, <3>2 DEF SaveUpload
    <3>5. path[1] \notin Saved(u)
      BY DEF Stump
    <3>6. CASE v = u
      <4> DEFINE was == up[u].saved
                 new == up'[u].saved
      <4>1. new = Append(was, i) /\ was \in Seq(Manual)
        BY <3>3, <3>6
      <4>2. \A k \in 1..Len(new) : new[k] = i \/ (k \in 1..Len(was) /\ new[k] = was[k])
        <5> HIDE DEF was, new
        <5> QED
          BY <4>1
      <4> QED
        BY <3>1, <3>5, <4>2 DEF Saved
    <3>7. CASE v # u
      BY <3>4, <3>5, <3>7 DEF Saved
    <3> QED
      BY <3>6, <3>7
  <2> QED
    BY <1>0, <2>1, SavedStays DEF Stump
<1>3. ASSUME NEW f \in Fetchers PROVE path \notin fetch'[f].got /\ path[1] \notin DOMAIN fetch'[f].was
  <2>1. Moves(f)
    BY <1>0, FetchMoves
  <2>2. path # fetch[f].now
    <3>1. path[1] \notin Channel
      BY <1>0, PathFacts
    <3> QED
      BY <1>0, <3>1 DEF DownloadInv
  <2>3. \A i \in DOMAIN fetch[f].was : path # fetch[f].was[i]
    BY <1>0 DEF DownloadInv, Stump
  <2> QED
    BY <1>0, <2>1, <2>2, <2>3 DEF Moves, Gets, Knows, Stump
<1> QED
  BY <1>0, <1>1, <1>2, <1>3 DEF Stump

LEMMA PartStep ==
  ASSUME MediaAssumption, KeptInv, PartInv, [Next]_vars PROVE PartInv'
<1>1. CASE Restart
  BY <1>1 DEF Restart, PartInv
<1>2. CASE ~Restart
  <2> SUFFICES ASSUME NEW path \in Paths, disk'[path] = "part"
               PROVE  \/ path \in broken'
                      \/ \E f \in Fetchers : fetch'[f].now = path
                      \/ Stump(path)'
    BY DEF PartInv
  <2> DEFINE Known1 == \/ path \in broken'
                       \/ \E f \in Fetchers : fetch'[f].now = path
                       \/ Stump(path)'
  <2>0. /\ disk \in [Paths -> {"none", "part", "whole"}] /\ fetch \in [Fetchers -> FetchRec]
        /\ up \in [Uploads -> UploadRec] /\ path # NoPath /\ MediaType /\ DownloadInv
    BY PathFacts DEF KeptInv, MediaType, FileType, FetchType, UploadType
  <2>1. ASSUME disk[path] = "part", ~\E f \in Fetchers : fetch[f].now = path /\ Downloaded(f) PROVE Known1
    <3>1. CASE path \in broken
      BY <1>2, <3>1, LeftGrows
    <3>2. ASSUME NEW f \in Fetchers, fetch[f].now = path PROVE Known1
      <4>1. Moves(f)
        BY <1>2, <2>0, FetchMoves
      <4> QED
        BY <2>0, <2>1, <3>2, <4>1 DEF Moves, Writes
    <3>3. CASE Stump(path)
      BY <1>2, <2>1, <3>3, StumpStays DEF Exists
    <3> QED
      BY <2>1, <3>1, <3>2, <3>3 DEF PartInv
  <2>2. ASSUME NEW f \in Fetchers, Downloaded(f), fetch[f].now = path PROVE Known1
    <3>1. Shared(f)
      BY <2>0, <2>2 DEF Downloaded
    <3>2. PICK g \in Fetchers \ {f} : fetch[g].now = path
      BY <2>2, <3>1 DEF Shared
    <3>3. fetch'[g] = fetch[g]
      BY <2>0, <2>2, <3>2 DEF Downloaded
    <3> QED
      BY <3>2, <3>3
  <2>3. ASSUME NEW u \in Uploads, NEW i \in Manual, RejectUpload(u, i), disk[path] # "part" PROVE Known1
    <3>1. path = <<i, 0>>
      BY <2>0, <2>3 DEF RejectUpload
    <3>2. path[1] = i
      BY <3>1
    <3>3. \A v \in Uploads : i \notin Saved(v)'
      <4>1. \A v \in Uploads : up'[v] = IF v = u THEN IdleUpload ELSE up[v]
        BY <2>0, <2>3 DEF RejectUpload
      <4> QED
        BY <2>3, <4>1 DEF RejectUpload, Unused, Saved, IdleUpload
    <3> QED
      BY <2>3, <3>1, <3>2, <3>3 DEF RejectUpload, Unused, Stump, rows, restoring
  <2>4. ASSUME NEW f \in Fetchers, NEW i \in Items, Download(f, i), disk[path] # "part" PROVE Known1
    <3> DEFINE r == [fetch[f] EXCEPT !.todo = @ \ {i}, !.now = Path(i)]
    <3>1. path = Path(i) /\ fetch'[f] = r
      BY <2>0, <2>4 DEF Download
    <3>2. r.now = Path(i)
      BY <2>0 DEF FetchRec
    <3> HIDE DEF r
    <3> QED
      BY <3>1, <3>2
  <2>5. ASSUME disk' = disk PROVE disk[path] = "part"
    BY <2>5
  <2>6. CASE disk[path] # "part"
    <3>1. CASE \E p \in Posts : \/ \E got \in SUBSET Album[p] : Collect(p, got)
                                \/ CoolDown(p) \/ Queue(p) \/ DeletePost(p)
      BY <2>0, <2>6, <3>1 DEF Collect, CoolDown, Queue, DeletePost, files
    <3>2. CASE NextDay \/ Prune \/ (\E q \in Paths : Age(q)) \/ UNCHANGED vars
      BY <2>0, <2>6, <3>2 DEF NextDay, Prune, Age, files, vars
    <3>3. ASSUME NEW u \in Uploads, Upload(u) PROVE Known1
      <4>1. ASSUME NEW i \in Manual, SaveUpload(u, i) PROVE FALSE
        BY <2>0, <2>6, <4>1 DEF SaveUpload, Written
      <4> QED
        BY <2>3, <2>5, <2>6, <3>3, <4>1 DEF Upload, StartUpload, FlushUpload, CommitUpload, files
    <3>4. ASSUME NEW t \in Threads, Thread(t) PROVE FALSE
      <4>1. ASSUME NEW q \in Paths, Clean(t, q) PROVE FALSE
        <5>1. PICK kept \in {"none"} \cup (IF q \in old THEN {} ELSE {disk[q]}) : disk' = [disk EXCEPT ![q] = kept]
          BY <4>1 DEF Clean
        <5> QED
          BY <2>0, <2>6, <5>1
      <4>2. ASSUME NEW i \in Items, DeleteItem(t, i) PROVE FALSE
        BY <2>0, <2>6, <4>2 DEF DeleteItem
      <4> QED
        BY <2>5, <2>6, <3>4, <4>1, <4>2 DEF Thread, CommitDelete, Move, CommitMove, StartCleanup, files
    <3>5. ASSUME NEW f \in Fetchers, Fetch(f) PROVE Known1
      <4>1. ASSUME Downloaded(f) PROVE Known1
        <5>1. path = fetch[f].now
          BY <2>0, <2>6, <4>1 DEF Downloaded
        <5> QED
          BY <2>2, <4>1, <5>1
      <4> QED
        BY <2>4, <2>5, <2>6, <3>5, <4>1 DEF Fetch, DownloadBreaks, SkipDownload, files
    <3>6. ASSUME NEW c \in Pages, Page(c) PROVE FALSE
      BY <2>5, <2>6, <3>6 DEF Page, StartRestore, EndRestore, RestoreFails, files
    <3>7. ASSUME NEW b \in Publications, Publication(b) PROVE FALSE
      BY <2>5, <2>6, <3>7 DEF Publication, StartPublish, EndReload, ReloadFails, Choose, Send, files
    <3> QED
      BY <1>2, <3>1, <3>2, <3>3, <3>4, <3>5, <3>6, <3>7 DEF Next
  <2> QED
    BY <2>1, <2>2, <2>6
<1> QED
  BY <1>1, <1>2

\* What a publication takes is whole: a file that is only part of one is being written
\* at that moment, or was left by a download that broke off under the same name.
THEOREM WholeFilesSent == ASSUME MediaAssumption PROVE Spec => []SendsWhole
<1>1. Init => KeptInv /\ PartInv
  <2>1. Init => PartInv
    BY DEF Init, PartInv
  <2> QED
    BY <2>1, KeptStep
<1>2. KeptInv /\ PartInv /\ [Next]_vars => (KeptInv /\ PartInv)'
  BY KeptStep, PartStep
<1>3. KeptInv /\ PartInv => SendsWhole
  <2> SUFFICES ASSUME KeptInv, PartInv, NEW b \in Publications, NEW path \in fetch[b].got,
                      disk[path] = "part"
               PROVE  path \in broken \/ \E f \in Fetchers : fetch[f].now = path
    BY DEF SendsWhole
  <2>1. b \in Fetchers /\ path \in Paths
    BY DEF KeptInv, MediaType, FetchType, FetchRec, Fetchers
  <2> QED
    BY <2>1 DEF PartInv, Stump
<1> QED
  BY <1>1, <1>2, <1>3, PTL DEF Spec

-----------------------------------------------------------------------------
(* The counter and the order of an album.                                  *)

SameUpload(u) ==
  /\ up'[u].at = up[u].at /\ up'[u].post = up[u].post /\ up'[u].chosen = up[u].chosen
  /\ up'[u].top = up[u].top /\ up'[u].loaded = up[u].loaded /\ up'[u].counted = up[u].counted
  /\ up[u].at = "flushed" => up'[u].saved = up[u].saved
SameThread(t) ==
  /\ thread'[t].at = thread[t].at /\ thread'[t].post = thread[t].post /\ thread'[t].item = thread[t].item
  /\ thread'[t].loaded = thread[t].loaded /\ thread'[t].counted = thread[t].counted
  /\ thread'[t].order = thread[t].order
SameRows(p) ==
  /\ Rows(p)' = Rows(p) /\ \A i \in Rows(p) : item'[i].order = item[i].order
  /\ count'[p] = count[p] /\ post'[p] = post[p]

\* The rows a thread is going to write.
Touched(t) == DOMAIN thread[t].order \cup ({thread[t].item} \ {0})

\* What a thread has in hand are rows of its post, or were; a file in an upload is new.
HeldInv ==
  /\ \A t \in Threads :
       /\ thread[t].post \in Posts => post[thread[t].post] # "absent"
       /\ \A i \in Touched(t) : /\ item[i] = NoItem \/ item[i].post = thread[t].post
                                /\ thread[t].post \in Posts /\ (i \in Channel => i \in Album[thread[t].post])
                                /\ \A u \in Uploads : i \notin Saved(u)
  /\ \A u \in Uploads :
       /\ up[u].post \in Posts => post[up[u].post] # "absent"
       /\ \A k, l \in 1..Len(up[u].saved) : up[u].saved[k] = up[u].saved[l] => k = l

\* One writer of rows at most has the post p in hand.
Sole(p) ==
  /\ \A u, v \in Uploads : up[u].post = p /\ up[v].post = p => u = v
  /\ \A t, o \in Threads : thread[t].post = p /\ thread[o].post = p => t = o
  /\ \A u \in Uploads, t \in Threads : ~(up[u].post = p /\ thread[t].post = p)

Distinct(p) == \A i, j \in Rows(p) : i # j => item[i].order # item[j].order
Tidy(p) == count[p] = Cardinality(Rows(p)) /\ count[p] <= Limit /\ Distinct(p)

\* What the writer of p has read is still true.
Adding(u, p) == post[p] = "present" =>
  /\ up[u].loaded = count[p] /\ Cardinality(Rows(p)) + up[u].chosen <= Limit
  /\ \A i \in Rows(p) : item[i].order <= up[u].top
  /\ up[u].at = "flushed" => /\ up[u].counted = Cardinality(Rows(p)) + up[u].chosen
                             /\ Len(up[u].saved) = up[u].chosen
Removing(t, p) == thread[t].at = "deleting" =>
  /\ post[p] = "present" /\ thread[t].item \in Rows(p) /\ thread[t].loaded = count[p]
  /\ thread[t].counted = Cardinality(Rows(p) \ {thread[t].item})
Final(t, i) == IF i \in DOMAIN thread[t].order THEN thread[t].order[i] ELSE item[i].order
Moving(t, p) == thread[t].at = "moving" => \A i, j \in Rows(p) : i # j => Final(t, i) # Final(t, j)

Good(p) ==
  /\ Sole(p) /\ Tidy(p)
  /\ \A u \in Uploads : up[u].post = p => Adding(u, p)
  /\ \A t \in Threads : thread[t].post = p => Removing(t, p) /\ Moving(t, p)
TidyInv == \A p \in Posts : p \notin raced => Good(p)

LEMMA TidyStays ==
  ASSUME MediaAssumption, MediaType, NEW p \in Posts, SameRows(p), Tidy(p) PROVE Tidy(p)'
BY DEF SameRows, Tidy, Distinct

LEMMA AddingStays ==
  ASSUME MediaAssumption, MediaType, NEW p \in Posts, NEW u \in Uploads, SameRows(p), SameUpload(u), Adding(u, p)
  PROVE  Adding(u, p)'
BY DEF SameRows, SameUpload, Adding

LEMMA RemovingStays ==
  ASSUME MediaAssumption, MediaType, NEW p \in Posts, NEW t \in Threads, SameRows(p), SameThread(t), Removing(t, p)
  PROVE  Removing(t, p)'
BY DEF SameRows, SameThread, Removing

LEMMA MovingStays ==
  ASSUME MediaAssumption, MediaType, NEW p \in Posts, NEW t \in Threads, SameRows(p), SameThread(t), Moving(t, p)
  PROVE  Moving(t, p)'
BY DEF SameRows, SameThread, Moving, Final

\* A step that leaves the rows of p alone, and gives p to no other writer.
LEMMA GoodStays ==
  ASSUME MediaAssumption, MediaType, NEW p \in Posts, SameRows(p), Good(p),
         \A u \in Uploads : up'[u].post = p => SameUpload(u),
         \A t \in Threads : thread'[t].post = p => SameThread(t)
  PROVE  Good(p)'
<1>1. Sole(p)'
  BY DEF Good, Sole, SameUpload, SameThread
<1>2. Tidy(p)'
  BY TidyStays DEF Good
<1>3. ASSUME NEW u \in Uploads, up'[u].post = p PROVE Adding(u, p)'
  <2>1. SameUpload(u) /\ up[u].post = p
    BY <1>3 DEF SameUpload
  <2> QED
    BY <2>1, AddingStays DEF Good
<1>4. ASSUME NEW t \in Threads, thread'[t].post = p PROVE Removing(t, p)' /\ Moving(t, p)'
  <2>1. SameThread(t) /\ thread[t].post = p
    BY <1>4 DEF SameThread
  <2> QED
    BY <2>1, RemovingStays, MovingStays DEF Good
<1> QED
  BY <1>1, <1>2, <1>3, <1>4 DEF Good

\* Places.
LEMMA SmallerSet ==
  ASSUME NEW S, IsFiniteSet(S), NEW T \in SUBSET S, NEW x \in S, x \notin T
  PROVE  Cardinality(T) \in Nat /\ Cardinality(S) \in Nat /\ Cardinality(T) < Cardinality(S)
<1>1. IsFiniteSet(T) /\ Cardinality(T) <= Cardinality(S) /\ Cardinality(S) # Cardinality(T)
  BY FS_Subset
<1> QED
  BY <1>1, FS_CardinalityType

LEMMA RankLess ==
  ASSUME MediaAssumption, MediaType, NEW p \in Posts, NEW i \in Rows(p), NEW j \in Rows(p),
         \/ item[i].order < item[j].order
         \/ item[i].order = item[j].order /\ i < j
  PROVE  Rank(p, i) < Rank(p, j)
<1> DEFINE L(n) == {k \in Rows(p) : \/ item[k].order < item[n].order
                                    \/ item[k].order = item[n].order /\ k < n}
<1>1. Rows(p) \subseteq Nat
  BY DEF Rows, Items, MediaAssumption
<1>2. \A k \in Rows(p) : item[k].order \in Nat
  BY RowFacts, RowsFacts DEF MediaType, RowType
<1>3. L(i) \in SUBSET L(j) /\ i \in L(j) /\ i \notin L(i)
  BY <1>1, <1>2
<1>4. IsFiniteSet(L(j))
  BY RowsCount, FS_Subset
<1>5. Cardinality(L(i)) < Cardinality(L(j))
  <2> HIDE DEF L
  <2> QED
    BY <1>3, <1>4, SmallerSet
<1> QED
  BY <1>5 DEF Rank

LEMMA RanksDiffer ==
  ASSUME MediaAssumption, MediaType, NEW p \in Posts, NEW i \in Rows(p), NEW j \in Rows(p), i # j
  PROVE  Rank(p, i) # Rank(p, j)
<1>1. i \in Nat /\ j \in Nat
  BY DEF Rows, Items, MediaAssumption
<1>2. item[i].order \in Nat /\ item[j].order \in Nat
  BY RowFacts, RowsFacts DEF MediaType, RowType
<1>3. Rank(p, i) \in Nat /\ Rank(p, j) \in Nat
  BY RankType
<1>4. \/ item[i].order < item[j].order
      \/ item[i].order = item[j].order /\ i < j
      \/ item[j].order < item[i].order
      \/ item[j].order = item[i].order /\ j < i
  BY <1>1, <1>2
<1>5. Rank(p, i) < Rank(p, j) \/ Rank(p, j) < Rank(p, i)
  BY <1>4, RankLess
<1> QED
  BY <1>3, <1>5

\* Whatever row changes places, the places stay different.
LEMMA PlacesDiffer ==
  ASSUME MediaAssumption, MediaType, NEW p \in Posts, NEW m \in Rows(p), NEW to,
         NEW i \in Rows(p), NEW j \in Rows(p), i # j
  PROVE  Place(p, m, to, i) # Place(p, m, to, j)
<1>1. \A k, l \in Rows(p) : Rank(p, k) = Rank(p, l) => k = l
  BY RanksDiffer
<1> QED
  BY <1>1 DEF Place

AlbumsInv == HeldInv /\ TidyInv

\* The posts and places of all rows stay.
SameItems == \A i \in Items : item'[i].post = item[i].post /\ item'[i].order = item[i].order

LEMMA SameItemsRows ==
  ASSUME UNCHANGED <<post, count>>, SameItems, NEW p PROVE SameRows(p)
<1>1. Rows(p)' = Rows(p)
  BY DEF Rows, SameItems
<1>2. \A i \in Rows(p) : i \in Items
  BY DEF Rows
<1> QED
  BY <1>1, <1>2 DEF SameRows, SameItems

\* No row begins, and no thread or upload takes one in hand.
HandsKept ==
  /\ \A i \in Items : item'[i] = NoItem \/ (item[i] # NoItem /\ item'[i].post = item[i].post)
  /\ \A t \in Threads : /\ \/ Touched(t)' = {}
                           \/ Touched(t)' = Touched(t) /\ thread'[t].post = thread[t].post
                        /\ thread'[t].post \in Posts => post'[thread'[t].post] # "absent"
  /\ \A u \in Uploads : /\ up'[u].saved = <<>> \/ up'[u].saved = up[u].saved
                        /\ up'[u].post \in Posts => post'[up'[u].post] # "absent"

LEMMA TouchedType ==
  ASSUME MediaType, NEW t \in Threads PROVE Touched(t) \subseteq Items
<1>1. thread[t] \in ThreadRec
  BY DEF MediaType, ThreadType
<1>2. thread[t].item \in Items \cup {0} /\ thread[t].order \in Orders
  BY <1>1 DEF ThreadRec
<1>3. DOMAIN thread[t].order \subseteq Items
  BY <1>2 DEF Orders
<1> QED
  BY <1>2, <1>3 DEF Touched

LEMMA HeldStays ==
  ASSUME MediaAssumption, MediaType, HeldInv, HandsKept PROVE HeldInv'
<1>1. ASSUME NEW u \in Uploads
      PROVE  /\ Saved(u)' \subseteq Saved(u)
             /\ up'[u].post \in Posts => post'[up'[u].post] # "absent"
             /\ \A k, l \in 1..Len(up'[u].saved) : up'[u].saved[k] = up'[u].saved[l] => k = l
  <2>1. CASE up'[u].saved = <<>>
    BY <2>1 DEF HandsKept, Saved
  <2>2. CASE up'[u].saved = up[u].saved
    BY <2>2 DEF HandsKept, Saved, HeldInv
  <2> QED
    BY <2>1, <2>2 DEF HandsKept
<1>2. ASSUME NEW t \in Threads, NEW i \in Touched(t)'
      PROVE  /\ item'[i] = NoItem \/ item'[i].post = thread'[t].post
             /\ thread'[t].post \in Posts /\ (i \in Channel => i \in Album[thread'[t].post])
             /\ \A u \in Uploads : i \notin Saved(u)'
  <2>1. i \in Touched(t) /\ thread'[t].post = thread[t].post
    BY <1>2 DEF HandsKept
  <2>2. i \in Items
    BY <2>1, TouchedType
  <2> QED
    BY <1>1, <2>1, <2>2 DEF HandsKept, HeldInv
<1>3. \A t \in Threads : thread'[t].post \in Posts => post'[thread'[t].post] # "absent"
  BY DEF HandsKept
<1> HIDE DEF HandsKept
<1> QED
  BY <1>1, <1>2, <1>3 DEF HeldInv

\* A step that leaves uploads and threads, and all rows but their paths.
LEMMA PathsAlbums ==
  ASSUME MediaAssumption, MediaType, AlbumsInv, UNCHANGED <<post, count, up, thread, raced>>,
         SameItems, \A i \in Items : item[i] = NoItem => item'[i] = NoItem
  PROVE  AlbumsInv'
<1>1. HandsKept
  BY DEF HandsKept, AlbumsInv, HeldInv, SameItems, Touched
<1>2. \A p \in Posts : p \notin raced => Good(p)'
  <2> TAKE p \in Posts
  <2> HAVE p \notin raced
  <2>1. SameRows(p)
    BY SameItemsRows
  <2>2. \A u \in Uploads : SameUpload(u)
    BY DEF SameUpload
  <2>3. \A t \in Threads : SameThread(t)
    BY DEF SameThread
  <2> QED
    BY <2>1, <2>2, <2>3, GoodStays DEF AlbumsInv, TidyInv
<1> QED
  BY <1>1, <1>2, HeldStays DEF AlbumsInv, TidyInv

LEMMA DownloadsAlbums ==
  ASSUME MediaAssumption, MediaType, AlbumsInv,
         \/ \E f \in Fetchers : Fetch(f)
         \/ \E c \in Pages : Page(c)
         \/ \E b \in Publications : Publication(b)
         \/ NextDay \/ Prune \/ UNCHANGED vars
         \/ \E path \in Paths : Age(path)
         \/ \E p \in Posts : CoolDown(p) \/ Queue(p)
  PROVE  AlbumsInv'
<1>1. ASSUME NEW f \in Fetchers, item' = Repathed(f) PROVE SameItems /\ \A i \in Items : item[i] = NoItem => item'[i] = NoItem
  BY <1>1, RepathedType DEF SameItems
<1>2. ASSUME item' = item PROVE SameItems /\ \A i \in Items : item[i] = NoItem => item'[i] = NoItem
  BY <1>2 DEF SameItems
<1>3. UNCHANGED <<post, count, up, thread, raced>> /\ (item' = item \/ \E f \in Fetchers : item' = Repathed(f))
  <2>1. ASSUME NEW f \in Fetchers, Fetch(f) PROVE UNCHANGED <<rows, up, thread, raced>>
    BY <2>1 DEF Fetch, Download, SkipDownload, Downloaded, DownloadBreaks, writers
  <2>2. ASSUME NEW c \in Pages, Page(c)
        PROVE  UNCHANGED <<post, count, up, thread, raced>> /\ (item' = item \/ item' = Repathed(c))
    BY <2>2 DEF Page, StartRestore, EndRestore, RestoreFails, writers, rows
  <2>3. ASSUME NEW b \in Publications, Publication(b)
        PROVE  UNCHANGED <<post, count, up, thread, raced>> /\ (item' = item \/ item' = Repathed(b))
    BY <2>3 DEF Publication, StartPublish, EndReload, ReloadFails, Choose, Send, writers, rows
  <2>4. CASE \/ NextDay \/ Prune \/ UNCHANGED vars
             \/ \E path \in Paths : Age(path)
             \/ \E p \in Posts : CoolDown(p) \/ Queue(p)
    BY <2>4 DEF NextDay, Prune, vars, Age, CoolDown, Queue, writers, rows
  <2> QED
    BY <2>1, <2>2, <2>3, <2>4 DEF rows, Fetchers
<1> QED
  BY <1>1, <1>2, <1>3, PathsAlbums

LEMMA CollectAlbums ==
  ASSUME MediaAssumption, MediaType, MediaType', AlbumInv, AlbumsInv, NEW q \in Posts, NEW got \in SUBSET Album[q], Collect(q, got)
  PROVE  AlbumsInv'
<1>0. /\ post \in [Posts -> {"absent", "present", "deleted"}] /\ count \in [Posts -> Nat]
      /\ post[q] = "absent" /\ post' = [post EXCEPT ![q] = "present"] /\ DOMAIN item = Items
      /\ count' = [count EXCEPT ![q] = Cardinality(got)]
      /\ UNCHANGED <<up, thread, raced>> /\ got \subseteq Channel /\ Channel \subseteq Items
  BY DEF Collect, MediaType, RowType, ItemType, writers, MediaAssumption, Items
<1>1. \A i \in Items : IF i \in got THEN /\ item'[i].post = q
                                         /\ item'[i].order = Cardinality({j \in Album[q] : j < i})
                       ELSE item'[i] = item[i]
  BY DEF Collect
<1>2. Rows(q) = {}
  <2> SUFFICES ASSUME NEW i \in Rows(q) PROVE FALSE
    OBVIOUS
  <2>1. i \in Items /\ item[i] # NoItem /\ item[i].post = q
    BY RowsFacts DEF Rows, MediaType, RowType
  <2> QED
    BY <1>0, <2>1, RowFacts DEF MediaType, RowType
<1>3. HeldInv'
  <2>1. \A u \in Uploads : Saved(u)' = Saved(u)
    BY <1>0 DEF Saved
  <2>2. \A t \in Threads : Touched(t)' = Touched(t)
    BY <1>0 DEF Touched
  <2>3. ASSUME NEW t \in Threads, NEW i \in Touched(t), i \in got PROVE thread[t].post = q
    <3>1. thread[t].post \in Posts /\ i \in Album[thread[t].post] /\ i \in Album[q]
      BY <1>0, <2>3 DEF AlbumsInv, HeldInv
    <3> QED
      BY <3>1 DEF MediaAssumption
  <2>4. ASSUME NEW t \in Threads, NEW i \in Touched(t)
        PROVE  item'[i] = NoItem \/ item'[i].post = thread[t].post
    <3>1. i \in Items
      BY TouchedType
    <3>2. item[i] = NoItem \/ item[i].post = thread[t].post
      BY DEF AlbumsInv, HeldInv
    <3> QED
      BY <1>1, <2>3, <2>4, <3>1, <3>2
  <2>5. \A p \in Posts : post[p] # "absent" => post'[p] # "absent"
    BY <1>0
  <2> QED
    BY <1>0, <2>1, <2>2, <2>4, <2>5 DEF AlbumsInv, HeldInv
<1>4. ASSUME NEW p \in Posts, p \notin raced, p # q PROVE Good(p)'
  <2>1. \A i \in got : i \notin Rows(p)
    <3> SUFFICES ASSUME NEW i \in got, i \in Rows(p) PROVE FALSE
      OBVIOUS
    <3>1. item[i] # NoItem /\ item[i].post = p
      BY RowsFacts DEF Rows, MediaType, RowType
    <3>2. i \in Album[p] /\ i \in Album[q]
      BY <1>0, <3>1 DEF AlbumInv
    <3> QED
      BY <1>4, <3>2 DEF MediaAssumption
  <2>2. Rows(p)' = Rows(p)
    BY <1>1, <1>4, <2>1 DEF Rows
  <2>3. \A i \in Rows(p) : item'[i].order = item[i].order
    BY <1>1, <2>1 DEF Rows
  <2>4. SameRows(p)
    BY <1>0, <1>4, <2>2, <2>3 DEF SameRows
  <2> QED
    BY <1>0, <1>4, <2>4, GoodStays DEF AlbumsInv, TidyInv, SameUpload, SameThread
<1>5. Good(q)'
  <2>1. /\ \A u \in Uploads : up'[u].post # q
        /\ \A t \in Threads : thread'[t].post # q
    BY <1>0 DEF AlbumsInv, HeldInv
  <2>2. Rows(q)' = got
    BY <1>0, <1>1, <1>2 DEF Rows
  <2>3. IsFiniteSet(Album[q]) /\ Album[q] \subseteq Nat
    BY FS_Subset DEF MediaAssumption
  <2>4. Cardinality(got) <= Limit
    <3>1. Cardinality(got) <= Cardinality(Album[q]) /\ IsFiniteSet(got)
      BY <2>3, FS_Subset
    <3>2. Cardinality(got) \in Nat /\ Cardinality(Album[q]) \in Nat /\ Cardinality(Album[q]) <= Limit
      BY <2>3, <3>1, FS_CardinalityType DEF MediaAssumption
    <3> QED
      BY <3>1, <3>2 DEF MediaAssumption
  <2>5. ASSUME NEW i \in got, NEW j \in got, i < j PROVE item'[i].order < item'[j].order
    <3> DEFINE L(n) == {k \in Album[q] : k < n}
    <3>1. i \in Nat /\ j \in Nat
      BY <2>3
    <3>2. L(i) \in SUBSET L(j) /\ i \in L(j) /\ i \notin L(i)
      BY <2>3, <2>5, <3>1
    <3>3. IsFiniteSet(L(j))
      BY <2>3, FS_Subset
    <3>4. Cardinality(L(i)) < Cardinality(L(j))
      <4> HIDE DEF L
      <4> QED
        BY <3>2, <3>3, SmallerSet
    <3>5. item'[i].order = Cardinality(L(i)) /\ item'[j].order = Cardinality(L(j))
      BY <1>0, <1>1
    <3> QED
      BY <3>4, <3>5
  <2>6. \A i, j \in got : i # j => item'[i].order # item'[j].order
    <3> SUFFICES ASSUME NEW i \in got, NEW j \in got, i # j PROVE item'[i].order # item'[j].order
      OBVIOUS
    <3>1. i \in Nat /\ j \in Nat
      BY <2>3
    <3>2. item'[i].order \in Nat /\ item'[j].order \in Nat
      <4>1. \A n \in got : {k \in Album[q] : k < n} \subseteq Album[q]
        OBVIOUS
      <4>2. \A n \in got : Cardinality({k \in Album[q] : k < n}) \in Nat
        BY <4>1, ChannelCount
      <4> QED
        BY <1>0, <1>1, <4>2
    <3>3. i < j \/ j < i
      BY <3>1
    <3> QED
      BY <2>5, <3>2, <3>3
  <2>7. count'[q] = Cardinality(got)
    BY <1>0
  <2>8. Tidy(q)'
    BY <2>2, <2>4, <2>6, <2>7 DEF Tidy, Distinct
  <2> QED
    BY <2>1, <2>8 DEF Good, Sole
<1> QED
  BY <1>0, <1>3, <1>4, <1>5 DEF AlbumsInv, TidyInv

LEMMA StartUploadAlbums ==
  ASSUME MediaAssumption, MediaType, AlbumsInv, NEW u \in Uploads, NEW q \in Posts, NEW n \in 1..Limit,
         StartUpload(u, q, n)
  PROVE  AlbumsInv'
<1> DEFINE r == [IdleUpload EXCEPT !.at = "reading", !.post = q, !.chosen = n,
                                   !.top = Last(q), !.loaded = count[q]]
<1>0. /\ up \in [Uploads -> UploadRec] /\ up' = [up EXCEPT ![u] = r] /\ post[q] = "present"
      /\ UNCHANGED <<post, item, count, thread>> /\ raced' = Noted(q) /\ n \in 1..Room(q)
  BY DEF StartUpload, MediaType, UploadType, rows
<1>1. /\ r.at = "reading" /\ r.post = q /\ r.chosen = n /\ r.saved = <<>> /\ r.top = Last(q)
      /\ r.loaded = count[q]
  BY DEF IdleUpload
<1> HIDE DEF r
<1>2. \A v \in Uploads : up'[v] = IF v = u THEN r ELSE up[v]
  BY <1>0
<1>3. HandsKept
  BY <1>0, <1>1, <1>2 DEF HandsKept, AlbumsInv, HeldInv, Touched
<1>4. ASSUME NEW p \in Posts, p \notin raced', p # q PROVE Good(p)'
  <2>1. p \notin raced /\ Good(p)
    BY <1>0, <1>4 DEF Noted, AlbumsInv, TidyInv
  <2>2. SameRows(p)
    BY <1>0, SameItemsRows DEF SameItems
  <2> QED
    BY <1>0, <1>1, <1>2, <1>4, <2>1, <2>2, GoodStays DEF SameUpload, SameThread
<1>5. ASSUME q \notin raced' PROVE Good(q)'
  <2>1. q \notin raced /\ Good(q) /\ ~Writing(q)
    BY <1>0, <1>5 DEF Noted, AlbumsInv, TidyInv
  <2>2. SameRows(q)
    BY <1>0, SameItemsRows DEF SameItems
  <2>3. Tidy(q)'
    BY <2>1, <2>2, TidyStays DEF Good
  <2>4. Sole(q)'
    BY <1>0, <1>2, <2>1 DEF Sole, Writing
  <2>5. Adding(u, q)'
    <3>1. Cardinality(Rows(q)) + n <= Limit
      BY <1>0, RowsCount DEF Room, MediaAssumption
    <3>2. \A i \in Rows(q) : item[i].order <= Last(q)
      BY LastPlace DEF MediaType, RowType
    <3> QED
      BY <1>0, <1>1, <1>2, <2>2, <3>1, <3>2 DEF Adding, SameRows
  <2> QED
    BY <1>0, <1>2, <2>1, <2>3, <2>4, <2>5 DEF Good, Writing
<1>6. HeldInv'
  BY <1>3, HeldStays DEF AlbumsInv
<1> QED
  BY <1>4, <1>5, <1>6 DEF AlbumsInv, TidyInv

LEMMA SaveUploadAlbums ==
  ASSUME MediaAssumption, MediaType, KeepInv, AlbumsInv, NEW u \in Uploads, NEW i \in Manual, SaveUpload(u, i)
  PROVE  AlbumsInv'
<1> DEFINE r == [up[u] EXCEPT !.saved = Append(@, i)]
<1>0. /\ up \in [Uploads -> UploadRec] /\ up' = [up EXCEPT ![u] = r]
      /\ UNCHANGED <<post, item, count, thread, raced>> /\ up[u].at = "reading" /\ Unused(i)
      /\ i \in Nat \ {0} /\ up[u] \in UploadRec
  BY DEF SaveUpload, MediaType, UploadType, rows, MediaAssumption
<1>1. /\ r.at = up[u].at /\ r.post = up[u].post /\ r.chosen = up[u].chosen /\ r.top = up[u].top
      /\ r.loaded = up[u].loaded /\ r.counted = up[u].counted /\ r.saved = Append(up[u].saved, i)
      /\ up[u].saved \in Seq(Manual)
  BY <1>0 DEF UploadRec
<1> HIDE DEF r
<1>2. \A v \in Uploads : up'[v] = IF v = u THEN r ELSE up[v]
  BY <1>0
<1>3. HeldInv'
  <2>1. \A v \in Uploads : Saved(v)' \subseteq Saved(v) \cup {i}
    <3>1. \A v \in Uploads : v # u => Saved(v)' = Saved(v)
      BY <1>2 DEF Saved
    <3> DEFINE was == up[u].saved
               new == Append(was, i)
    <3>2. \A k \in 1..Len(new) : new[k] = i \/ (k \in 1..Len(was) /\ new[k] = was[k])
      BY <1>1
    <3>3. up'[u].saved = new
      BY <1>1, <1>2
    <3> HIDE DEF new
    <3>4. Saved(u)' \subseteq Saved(u) \cup {i}
      BY <3>2, <3>3 DEF Saved
    <3> QED
      BY <3>1, <3>4
  <2>2. \A k, l \in 1..Len(r.saved) : r.saved[k] = r.saved[l] => k = l
    <3> DEFINE was == up[u].saved
               new == Append(was, i)
    <3>1. \A k \in 1..Len(was) : was[k] # i
      BY <1>0 DEF Unused, Saved
    <3>2. \A k, l \in 1..Len(was) : was[k] = was[l] => k = l
      BY DEF AlbumsInv, HeldInv
    <3>3. was \in Seq(Manual)
      BY <1>1
    <3> HIDE DEF was
    <3>4. Len(new) = Len(was) + 1 /\ new[Len(was) + 1] = i /\ Len(was) \in Nat
      BY <3>3
    <3>5. \A k \in 1..Len(was) : new[k] = was[k]
      BY <3>3
    <3>6. \A k \in 1..Len(new) : k \in 1..Len(was) \/ k = Len(was) + 1
      BY <3>4
    <3> HIDE DEF new
    <3>7. \A k, l \in 1..Len(new) : new[k] = new[l] => k = l
      BY <3>1, <3>2, <3>4, <3>5, <3>6
    <3> QED
      BY <1>1, <3>7 DEF was, new
  <2>3. \A t \in Threads : Touched(t)' = Touched(t) /\ i \notin Touched(t)
    BY <1>0 DEF Touched, Unused
  <2>4. \A v \in Uploads :
          /\ up'[v].post \in Posts => post'[up'[v].post] # "absent"
          /\ \A k, l \in 1..Len(up'[v].saved) : up'[v].saved[k] = up'[v].saved[l] => k = l
    <3> TAKE v \in Uploads
    <3>1. CASE v = u
      <4>1. up'[v].saved = r.saved /\ up'[v].post = up[u].post
        BY <1>1, <1>2, <3>1
      <4>2. up[u].post \in Posts => post[up[u].post] # "absent"
        BY DEF AlbumsInv, HeldInv
      <4> QED
        BY <1>0, <2>2, <4>1, <4>2
    <3>2. CASE v # u
      <4>1. up'[v] = up[v]
        BY <1>2, <3>2
      <4> QED
        BY <1>0, <4>1 DEF AlbumsInv, HeldInv
    <3> QED
      BY <3>1, <3>2
  <2>5. \A t \in Threads :
          /\ thread'[t].post \in Posts => post'[thread'[t].post] # "absent"
          /\ \A j \in Touched(t)' :
               /\ item'[j] = NoItem \/ item'[j].post = thread'[t].post
               /\ thread'[t].post \in Posts /\ (j \in Channel => j \in Album[thread'[t].post])
               /\ \A v \in Uploads : j \notin Saved(v)'
    BY <1>0, <2>1, <2>3 DEF AlbumsInv, HeldInv
  <2> QED
    BY <2>4, <2>5 DEF HeldInv
<1>4. ASSUME NEW p \in Posts, p \notin raced' PROVE Good(p)'
  <2>1. Good(p)
    BY <1>0, <1>4 DEF AlbumsInv, TidyInv
  <2>2. SameRows(p)
    BY <1>0, SameItemsRows DEF SameItems
  <2> QED
    BY <1>0, <1>1, <1>2, <2>1, <2>2, GoodStays DEF SameUpload, SameThread
<1> QED
  BY <1>3, <1>4 DEF AlbumsInv, TidyInv

\* An upload that gives up.
LEMMA EndUploadAlbums ==
  ASSUME MediaAssumption, MediaType, AlbumsInv, NEW u \in Uploads, up' = [up EXCEPT ![u] = IdleUpload],
         UNCHANGED <<post, item, count, thread, raced>>
  PROVE  AlbumsInv'
<1>0. up \in [Uploads -> UploadRec] /\ IdleUpload.post = None /\ IdleUpload.saved = <<>> /\ None \notin Posts
  BY DEF MediaType, UploadType, IdleUpload, MediaAssumption
<1>1. \A v \in Uploads : up'[v] = IF v = u THEN IdleUpload ELSE up[v]
  BY <1>0
<1>2. HeldInv'
  <2>1. HandsKept
    BY <1>0, <1>1 DEF HandsKept, AlbumsInv, HeldInv, Touched
  <2> QED
    BY <2>1, HeldStays DEF AlbumsInv
<1>3. ASSUME NEW p \in Posts, p \notin raced' PROVE Good(p)'
  <2>1. Good(p)
    BY <1>3 DEF AlbumsInv, TidyInv
  <2>2. SameRows(p)
    BY SameItemsRows DEF SameItems
  <2> QED
    BY <1>0, <1>1, <2>1, <2>2, GoodStays DEF SameUpload, SameThread
<1> QED
  BY <1>2, <1>3 DEF AlbumsInv, TidyInv

LEMMA FlushUploadAlbums ==
  ASSUME MediaAssumption, MediaType, AlbumsInv, NEW u \in Uploads, FlushUpload(u), Referable(u)
  PROVE  AlbumsInv'
<1> DEFINE q == up[u].post
           n == Cardinality(Rows(q)) + up[u].chosen
           r == [up[u] EXCEPT !.at = "flushed", !.counted = n]
<1>0. /\ up \in [Uploads -> UploadRec] /\ up' = [up EXCEPT ![u].at = "flushed", ![u].counted = n]
      /\ UNCHANGED <<post, item, count, thread, raced>> /\ up[u].at = "reading"
      /\ Len(up[u].saved) = up[u].chosen /\ up[u] \in UploadRec
  BY DEF FlushUpload, MediaType, UploadType, rows
<1>1. /\ r.at = "flushed" /\ r.post = q /\ r.chosen = up[u].chosen /\ r.top = up[u].top
      /\ r.loaded = up[u].loaded /\ r.counted = n /\ r.saved = up[u].saved
  BY <1>0 DEF UploadRec
<1>2. \A v \in Uploads : up'[v] = IF v = u THEN r ELSE up[v]
  BY <1>0
<1> HIDE DEF r
<1>3. HeldInv'
  <2>1. HandsKept
    BY <1>0, <1>1, <1>2 DEF HandsKept, AlbumsInv, HeldInv, Touched
  <2> QED
    BY <2>1, HeldStays DEF AlbumsInv
<1>4. ASSUME NEW p \in Posts, p \notin raced', p # q PROVE Good(p)'
  <2>1. Good(p)
    BY <1>0, <1>4 DEF AlbumsInv, TidyInv
  <2>2. SameRows(p)
    BY <1>0, SameItemsRows DEF SameItems
  <2> QED
    BY <1>0, <1>1, <1>2, <1>4, <2>1, <2>2, GoodStays DEF SameUpload, SameThread
<1>5. ASSUME NEW p \in Posts, p \notin raced', p = q PROVE Good(p)'
  <2>1. Good(p)
    BY <1>0, <1>5 DEF AlbumsInv, TidyInv
  <2>2. SameRows(p)
    BY <1>0, SameItemsRows DEF SameItems
  <2>3. Tidy(p)'
    BY <2>1, <2>2, TidyStays DEF Good
  <2>4. Sole(p)' /\ \A v \in Uploads : up'[v].post = p => v = u
    BY <1>0, <1>1, <1>2, <1>5, <2>1 DEF Good, Sole
  <2>5. Adding(u, p)'
    BY <1>0, <1>1, <1>2, <1>5, <2>1, <2>2 DEF Good, Adding, SameRows
  <2>6. \A t \in Threads : thread'[t].post # p
    BY <1>0, <1>5, <2>1 DEF Good, Sole
  <2> QED
    BY <2>3, <2>4, <2>5, <2>6 DEF Good
<1> QED
  BY <1>0, <1>3, <1>4, <1>5 DEF AlbumsInv, TidyInv

\* The files of an upload are as many as it has saved, and each has a place of its own.
LEMMA SavedCount ==
  ASSUME MediaAssumption, MediaType, HeldInv, NEW u \in Uploads
  PROVE  /\ IsFiniteSet(Saved(u)) /\ Cardinality(Saved(u)) = Len(up[u].saved)
         /\ \A i, j \in Saved(u) : i # j => Offset(u, i) # Offset(u, j)
<1> DEFINE s == up[u].saved
           f == [k \in 1..Len(s) |-> s[k]]
<1>1. s \in Seq(Manual) /\ Len(s) \in Nat
  BY DEF MediaType, UploadType, UploadRec
<1>2. \A k, l \in 1..Len(s) : s[k] = s[l] => k = l
  BY DEF HeldInv
<1>3. f \in Bijection(1..Len(s), Saved(u))
  <2>1. f \in [1..Len(s) -> Saved(u)]
    BY DEF Saved
  <2>2. \A i \in Saved(u) : \E k \in 1..Len(s) : f[k] = i
    BY DEF Saved
  <2>3. \A k, l \in 1..Len(s) : f[k] = f[l] => k = l
    BY <1>2
  <2> HIDE DEF f
  <2> QED
    BY <2>1, <2>2, <2>3 DEF Bijection, Injection, IsInjective, Surjection
<1>4. IsFiniteSet(1..Len(s)) /\ Cardinality(1..Len(s)) = Len(s)
  <2>1. 1 \in Int /\ \A n \in Nat : n \in Int /\ (IF 1 > n THEN 0 ELSE n - 1 + 1) = n
    OBVIOUS
  <2>2. \A n \in Nat : IsFiniteSet(1..n) /\ Cardinality(1..n) = n
    <3> TAKE n \in Nat
    <3>1. IsFiniteSet(1..n) /\ Cardinality(1..n) = IF 1 > n THEN 0 ELSE n - 1 + 1
      BY <2>1, FS_Interval
    <3> QED
      BY <2>1, <3>1
  <2> QED
    BY <1>1, <2>2
<1>5. ExistsBijection(1..Len(s), Saved(u))
  BY <1>3 DEF ExistsBijection
<1>6. IsFiniteSet(Saved(u)) /\ Cardinality(Saved(u)) = Len(s)
  BY <1>4, <1>5, FS_Bijection
<1> QED
  BY <1>6, OffsetType

LEMMA CommitUploadAlbums ==
  ASSUME MediaAssumption, MediaType, MediaType', KeepInv, AlbumsInv, NEW u \in Uploads, CommitUpload(u)
  PROVE  AlbumsInv'
<1> DEFINE q == up[u].post
<1>0. /\ up \in [Uploads -> UploadRec] /\ up' = [up EXCEPT ![u] = IdleUpload] /\ up[u] \in UploadRec
      /\ up[u].at = "flushed" /\ q \in Posts /\ post[q] = "present"
      /\ UNCHANGED <<post, thread, raced>> /\ count \in [Posts -> Nat]
      /\ count' = [count EXCEPT ![q] = Counter(@, up[u].loaded, up[u].counted)]
      /\ IdleUpload.post = None /\ IdleUpload.saved = <<>> /\ None \notin Posts
  BY DEF CommitUpload, MediaType, UploadType, RowType, IdleUpload, MediaAssumption
<1>1. /\ Saved(u) \subseteq Items
      /\ \A i \in Items : IF i \in Saved(u) THEN /\ item[i] = NoItem /\ item'[i].post = q
                                                /\ item'[i].order = up[u].top + Offset(u, i)
                         ELSE item'[i] = item[i]
  BY SavedType DEF CommitUpload, KeepInv, UploadInv, Items
<1>2. \A v \in Uploads : up'[v] = IF v = u THEN IdleUpload ELSE up[v]
  BY <1>0
<1>3. HeldInv'
  <2>1. \A v \in Uploads : Saved(v)' \subseteq Saved(v)
    BY <1>0, <1>2 DEF Saved
  <2>2. \A t \in Threads : Touched(t)' = Touched(t) /\ Touched(t) \subseteq Items
    BY <1>0, TouchedType DEF Touched
  <2>3. ASSUME NEW t \in Threads, NEW i \in Touched(t)
        PROVE  item'[i] = NoItem \/ item'[i].post = thread[t].post
    <3>1. i \notin Saved(u) /\ i \in Items
      BY <2>2 DEF AlbumsInv, HeldInv
    <3> QED
      BY <1>1, <3>1 DEF AlbumsInv, HeldInv
  <2>4. \A v \in Uploads :
          /\ up'[v].post \in Posts => post'[up'[v].post] # "absent"
          /\ \A k, l \in 1..Len(up'[v].saved) : up'[v].saved[k] = up'[v].saved[l] => k = l
    BY <1>0, <1>2 DEF AlbumsInv, HeldInv
  <2> QED
    BY <1>0, <2>1, <2>2, <2>3, <2>4 DEF AlbumsInv, HeldInv
<1>4. ASSUME NEW p \in Posts, p \notin raced', p # q PROVE Good(p)'
  <2>1. Good(p)
    BY <1>0, <1>4 DEF AlbumsInv, TidyInv
  <2>2. \A i \in Items : i \in Rows(p) => i \notin Saved(u)
    BY <1>0, <1>1, NoItemFacts DEF Rows
  <2>3. Rows(p)' = Rows(p) /\ \A i \in Rows(p) : item'[i].order = item[i].order
    BY <1>1, <1>4, <2>2 DEF Rows
  <2>4. SameRows(p)
    BY <1>0, <1>4, <2>3 DEF SameRows
  <2> QED
    BY <1>0, <1>2, <2>1, <2>4, GoodStays DEF SameUpload, SameThread
<1>5. ASSUME NEW p \in Posts, p \notin raced', p = q PROVE Good(p)'
  <2>1. Good(p) /\ Adding(u, p) /\ post[p] = "present"
    BY <1>0, <1>5 DEF AlbumsInv, TidyInv, Good
  <2>2. Rows(p) \cap Saved(u) = {} /\ Rows(p)' = Rows(p) \cup Saved(u)
    <3>1. \A i \in Rows(p) : i \in Items /\ i \notin Saved(u)
      BY <1>0, <1>1, NoItemFacts DEF Rows
    <3> QED
      BY <1>1, <1>5, <3>1 DEF Rows
  <2>3. IsFiniteSet(Rows(p)) /\ Cardinality(Rows(p)) \in Nat
    BY RowsCount
  <2>4. Cardinality(Rows(p)') = Cardinality(Rows(p)) + up[u].chosen
    <3>1. IsFiniteSet(Saved(u)) /\ Cardinality(Saved(u)) = up[u].chosen
      BY <1>0, <2>1, SavedCount DEF AlbumsInv, Adding
    <3>2. up[u].chosen \in Nat
      BY <1>0 DEF UploadRec
    <3>3. Cardinality(Rows(p) \cup Saved(u)) = Cardinality(Rows(p)) + Cardinality(Saved(u)) - Cardinality(Rows(p) \cap Saved(u))
      BY <2>3, <3>1, FS_Union
    <3>4. Cardinality(Rows(p) \cap Saved(u)) = 0
      BY <2>2, FS_EmptySet
    <3> QED
      BY <2>2, <2>3, <3>1, <3>2, <3>3, <3>4
  <2>5. count'[p] = Cardinality(Rows(p)) + up[u].chosen
    BY <1>0, <1>5, <2>1 DEF Adding, Counter
  <2>6. Distinct(p)'
    <3>1. \A i \in Rows(p) : i \in Items /\ item'[i].order = item[i].order /\ item[i].order <= up[u].top /\ item[i].order \in Nat
      BY <1>1, <2>1, <2>2, RowFacts, RowsFacts DEF Adding, MediaType, RowType, Rows
    <3>2. \A i \in Saved(u) : item'[i].order = up[u].top + Offset(u, i) /\ Offset(u, i) \in Nat \ {0}
      <4>1. Len(up[u].saved) \in Nat
        BY <1>0 DEF UploadRec
      <4>2. \A i \in Saved(u) : Offset(u, i) \in Nat \ {0}
        BY <4>1, OffsetType
      <4> QED
        BY <1>1, <4>2
    <3>3. \A i, j \in Saved(u) : i # j => Offset(u, i) # Offset(u, j)
      BY SavedCount DEF AlbumsInv
    <3>4. up[u].top \in Int
      BY <1>0 DEF UploadRec
    <3>5. \A i \in Rows(p), j \in Saved(u) : item'[i].order # item'[j].order
      BY <3>1, <3>2, <3>4
    <3>6. \A i, j \in Saved(u) : i # j => item'[i].order # item'[j].order
      BY <3>2, <3>3, <3>4
    <3>7. \A i, j \in Rows(p) : i # j => item'[i].order # item'[j].order
      BY <2>1, <3>1 DEF Good, Tidy, Distinct
    <3> QED
      BY <2>2, <3>5, <3>6, <3>7 DEF Distinct
  <2>7. Tidy(p)'
    BY <2>1, <2>4, <2>5, <2>6 DEF Tidy, Adding
  <2>8. /\ \A v \in Uploads : up'[v].post # p
        /\ \A t \in Threads : thread'[t].post # p
    BY <1>0, <1>2, <1>5, <2>1 DEF Good, Sole
  <2> QED
    BY <2>7, <2>8 DEF Good, Sole
<1> QED
  BY <1>3, <1>4, <1>5 DEF AlbumsInv, TidyInv

\* A thread that begins to write rows of q.
LEMMA StartThreadAlbums ==
  ASSUME MediaAssumption, MediaType, KeepInv, AlbumInv, AlbumsInv, NEW t \in Threads, NEW q \in Posts, NEW r,
         post[q] = "present", UNCHANGED <<post, item, count, up>>, raced' = Noted(q),
         thread' = [thread EXCEPT ![t] = r], r.post = q, r.item \in Rows(q) \cup {0},
         DOMAIN r.order \subseteq Rows(q),
         r.at = "deleting" => /\ r.item \in Rows(q) /\ r.loaded = count[q]
                              /\ r.counted = Cardinality(Rows(q) \ {r.item}),
         r.at = "moving" => \A i, j \in Rows(q) : i # j =>
            (IF i \in DOMAIN r.order THEN r.order[i] ELSE item[i].order)
              # (IF j \in DOMAIN r.order THEN r.order[j] ELSE item[j].order)
  PROVE  AlbumsInv'
<1>0. thread \in [Threads -> ThreadRec]
  BY DEF MediaType, ThreadType
<1>1. \A o \in Threads : thread'[o] = IF o = t THEN r ELSE thread[o]
  BY <1>0
<1>2. HeldInv'
  <2>1. \A o \in Threads : o # t => Touched(o)' = Touched(o)
    BY <1>1 DEF Touched
  <2>2. Touched(t)' \subseteq Rows(q)
    BY <1>1 DEF Touched
  <2>3. \A i \in Rows(q) : /\ i \in Items /\ item[i] # NoItem /\ item[i].post = q
                           /\ i \in Channel => i \in Album[q]
                           /\ \A u \in Uploads : i \notin Saved(u)
    BY RowsFacts DEF Rows, MediaType, RowType, AlbumInv, KeepInv, UploadInv
  <2>4. \A u \in Uploads : Saved(u)' = Saved(u)
    BY DEF Saved
  <2>5. ASSUME NEW o \in Threads
        PROVE  /\ thread'[o].post \in Posts => post'[thread'[o].post] # "absent"
               /\ \A i \in Touched(o)' : /\ item'[i] = NoItem \/ item'[i].post = thread'[o].post
                                         /\ thread'[o].post \in Posts /\ (i \in Channel => i \in Album[thread'[o].post])
                                         /\ \A u \in Uploads : i \notin Saved(u)'
    <3>1. CASE o = t
      BY <1>1, <2>2, <2>3, <2>4, <3>1
    <3>2. CASE o # t
      BY <1>1, <2>1, <2>4, <3>2 DEF AlbumsInv, HeldInv
    <3> QED
      BY <3>1, <3>2
  <2> QED
    BY <2>5 DEF AlbumsInv, HeldInv
<1>3. ASSUME NEW p \in Posts, p \notin raced', p # q PROVE Good(p)'
  <2>1. p \notin raced /\ Good(p)
    BY <1>3 DEF Noted, AlbumsInv, TidyInv
  <2>2. SameRows(p)
    BY SameItemsRows DEF SameItems
  <2> QED
    BY <1>1, <1>3, <2>1, <2>2, GoodStays DEF SameUpload, SameThread
<1>4. ASSUME q \notin raced' PROVE Good(q)'
  <2>1. q \notin raced /\ Good(q) /\ ~Writing(q)
    BY <1>4 DEF Noted, AlbumsInv, TidyInv
  <2>2. SameRows(q)
    BY SameItemsRows DEF SameItems
  <2>3. Tidy(q)'
    BY <2>1, <2>2, TidyStays DEF Good
  <2>4. Sole(q)' /\ (\A u \in Uploads : up'[u].post # q) /\ \A o \in Threads : thread'[o].post = q => o = t
    BY <1>1, <2>1 DEF Sole, Writing
  <2>5. Removing(t, q)'
    BY <1>1, <2>2 DEF Removing, SameRows
  <2>6. Moving(t, q)'
    BY <1>1, <2>2 DEF Moving, Final, SameRows
  <2> QED
    BY <2>3, <2>4, <2>5, <2>6 DEF Good
<1> QED
  BY <1>2, <1>3, <1>4 DEF AlbumsInv, TidyInv

LEMMA DeleteItemAlbums ==
  ASSUME MediaAssumption, MediaType, KeepInv, AlbumInv, AlbumsInv, NEW t \in Threads, NEW i \in Items, DeleteItem(t, i)
  PROVE  AlbumsInv'
<1> DEFINE q == item[i].post
           r == [IdleThread EXCEPT !.at = "deleting", !.post = q, !.item = i,
                   !.loaded = count[q], !.counted = Cardinality(Rows(q) \ {i})]
<1>1. /\ thread' = [thread EXCEPT ![t] = r] /\ UNCHANGED <<post, item, count, up>> /\ raced' = Noted(q)
      /\ item[i] # NoItem
  BY DEF DeleteItem, rows
<1>2. q \in Posts /\ post[q] = "present" /\ i \in Rows(q)
  BY <1>1, RowFacts DEF MediaType, RowType, Rows
<1>3. /\ r.at = "deleting" /\ r.post = q /\ r.item = i /\ r.loaded = count[q]
      /\ r.counted = Cardinality(Rows(q) \ {i}) /\ DOMAIN r.order = {}
  BY DEF IdleThread
<1> HIDE DEF q, r
<1> QED
  BY <1>1, <1>2, <1>3, StartThreadAlbums

LEMMA MoveAlbums ==
  ASSUME MediaAssumption, MediaType, KeepInv, AlbumInv, AlbumsInv, NEW t \in Threads, NEW i \in Items, Move(t, i)
  PROVE  AlbumsInv'
<1> DEFINE q == item[i].post
<1>1. PICK to : thread' = [thread EXCEPT ![t] = [IdleThread EXCEPT !.at = "moving", !.post = q,
                                                                   !.order = Moved(q, i, to)]]
  BY DEF Move
<1> DEFINE r == [IdleThread EXCEPT !.at = "moving", !.post = q, !.order = Moved(q, i, to)]
<1>2. /\ thread' = [thread EXCEPT ![t] = r] /\ UNCHANGED <<post, item, count, up>> /\ raced' = Noted(q)
      /\ item[i] # NoItem
  BY <1>1 DEF Move, rows
<1>3. q \in Posts /\ post[q] = "present" /\ i \in Rows(q)
  BY <1>2, RowFacts DEF MediaType, RowType, Rows
<1>4. r.at = "moving" /\ r.post = q /\ r.item = 0 /\ r.order = Moved(q, i, to)
  BY DEF IdleThread
<1>5. DOMAIN Moved(q, i, to) \subseteq Rows(q)
  BY DEF Moved
<1>6. \A j \in Rows(q) : (IF j \in DOMAIN Moved(q, i, to) THEN Moved(q, i, to)[j] ELSE item[j].order) = Place(q, i, to, j)
  BY DEF Moved
<1> HIDE DEF q, r
<1>7. \A j, k \in Rows(q) : j # k => Place(q, i, to, j) # Place(q, i, to, k)
  BY <1>3, PlacesDiffer
<1>8. \A j, k \in Rows(q) : j # k =>
        (IF j \in DOMAIN r.order THEN r.order[j] ELSE item[j].order)
          # (IF k \in DOMAIN r.order THEN r.order[k] ELSE item[k].order)
  <2> TAKE j, k \in Rows(q)
  <2> HAVE j # k
  <2>1. Place(q, i, to, j) # Place(q, i, to, k)
    BY <1>7
  <2>2. /\ (IF j \in DOMAIN r.order THEN r.order[j] ELSE item[j].order) = Place(q, i, to, j)
        /\ (IF k \in DOMAIN r.order THEN r.order[k] ELSE item[k].order) = Place(q, i, to, k)
    BY <1>4, <1>6
  <2> QED
    BY <2>1, <2>2
<1>9. r.item \in Rows(q) \cup {0} /\ DOMAIN r.order \subseteq Rows(q) /\ r.at # "deleting"
  BY <1>4, <1>5
<1> QED
  BY <1>2, <1>3, <1>4, <1>8, <1>9, StartThreadAlbums

\* A thread that cleans, or ends without a row written.
LEMMA CleaningAlbums ==
  ASSUME MediaAssumption, MediaType, AlbumsInv, NEW t \in Threads, NEW r, thread' = [thread EXCEPT ![t] = r],
         UNCHANGED <<post, item, count, up, raced>>,
         \/ r.post = None /\ r.item = 0 /\ DOMAIN r.order = {}
         \/ /\ r.at = thread[t].at /\ r.post = thread[t].post /\ r.item = thread[t].item
            /\ r.loaded = thread[t].loaded /\ r.counted = thread[t].counted /\ r.order = thread[t].order
  PROVE  AlbumsInv'
<1>1. \A o \in Threads : thread'[o] = IF o = t THEN r ELSE thread[o]
  BY DEF MediaType, ThreadType
<1>2. None \notin Posts
  BY DEF MediaAssumption
<1>3. HeldInv'
  <2>1. \A o \in Threads : Touched(o)' = {} \/ (Touched(o)' = Touched(o) /\ thread'[o].post = thread[o].post)
    BY <1>1 DEF Touched
  <2>2. HandsKept
    BY <1>1, <1>2, <2>1 DEF HandsKept, AlbumsInv, HeldInv
  <2> QED
    BY <2>2, HeldStays DEF AlbumsInv
<1>4. ASSUME NEW p \in Posts, p \notin raced' PROVE Good(p)'
  <2>1. Good(p)
    BY <1>4 DEF AlbumsInv, TidyInv
  <2>2. SameRows(p)
    BY SameItemsRows DEF SameItems
  <2> QED
    BY <1>1, <1>2, <2>1, <2>2, GoodStays DEF SameUpload, SameThread
<1> QED
  BY <1>3, <1>4 DEF AlbumsInv, TidyInv

LEMMA CommitDeleteAlbums ==
  ASSUME MediaAssumption, MediaType, AlbumsInv, NEW t \in Threads, CommitDelete(t)
  PROVE  AlbumsInv'
<1> DEFINE q == thread[t].post
           i == thread[t].item
<1>0. /\ thread \in [Threads -> ThreadRec] /\ thread' = [thread EXCEPT ![t] = IdleThread]
      /\ UNCHANGED <<post, up, raced>> /\ count \in [Posts -> Nat] /\ q \in Posts /\ i \in Items
      /\ count' = [count EXCEPT ![q] = Recount(t)] /\ item' = [item EXCEPT ![i] = NoItem] /\ DOMAIN item = Items
      /\ thread[t].at = "deleting" /\ IdleThread.post = None /\ IdleThread.item = 0 /\ DOMAIN IdleThread.order = {}
      /\ None \notin Posts /\ i # 0
  BY DEF CommitDelete, MediaType, ThreadType, RowType, ItemType, IdleThread, MediaAssumption, Items
<1>1. \A o \in Threads : thread'[o] = IF o = t THEN IdleThread ELSE thread[o]
  BY <1>0
<1>2. \A j \in Items : item'[j] = IF j = i THEN NoItem ELSE item[j]
  BY <1>0
<1>3. HeldInv'
  <2>1. \A o \in Threads : Touched(o)' = {} \/ (Touched(o)' = Touched(o) /\ thread'[o].post = thread[o].post)
    BY <1>0, <1>1 DEF Touched
  <2>2. HandsKept
    BY <1>0, <1>1, <1>2, <2>1 DEF HandsKept, AlbumsInv, HeldInv
  <2> QED
    BY <2>2, HeldStays DEF AlbumsInv
<1>4. ASSUME NEW p \in Posts, p \notin raced', p # q PROVE Good(p)'
  <2>1. Good(p)
    BY <1>0, <1>4 DEF AlbumsInv, TidyInv
  <2>2. i \notin Rows(p)
    <3>1. item[i] = NoItem \/ item[i].post = q
      BY <1>0 DEF AlbumsInv, HeldInv, Touched
    <3> QED
      BY <1>4, <3>1, NoItemFacts DEF Rows
  <2>3. Rows(p)' = Rows(p) /\ \A j \in Rows(p) : item'[j].order = item[j].order
    BY <1>2, <2>2, NoItemFacts DEF Rows
  <2>4. SameRows(p)
    BY <1>0, <1>4, <2>3 DEF SameRows
  <2> QED
    BY <1>0, <1>1, <2>1, <2>4, GoodStays DEF SameUpload, SameThread
<1>5. ASSUME NEW p \in Posts, p \notin raced', p = q PROVE Good(p)'
  <2>1. Good(p) /\ Removing(t, p)
    BY <1>0, <1>5 DEF AlbumsInv, TidyInv, Good
  <2>2. i \in Rows(p) /\ thread[t].loaded = count[p] /\ thread[t].counted = Cardinality(Rows(p) \ {i})
    BY <1>0, <2>1 DEF Removing
  <2>3. Rows(p)' = Rows(p) \ {i}
    BY <1>2, NoItemFacts DEF Rows
  <2>4. count'[p] = Cardinality(Rows(p)')
    <3>1. count'[p] = thread[t].counted
      BY <1>0, <1>5, <2>2 DEF Recount, Counter
    <3> QED
      BY <2>2, <2>3, <3>1
  <2>5. count'[p] <= Limit
    <3>1. IsFiniteSet(Rows(p)) /\ Cardinality(Rows(p)) \in Nat
      BY RowsCount
    <3>2. Cardinality(Rows(p) \ {i}) = Cardinality(Rows(p)) - 1
      <4> HIDE DEF i
      <4> QED
        BY <2>2, <3>1, FS_RemoveElement
    <3>3. count[p] = Cardinality(Rows(p)) /\ count[p] <= Limit /\ Limit \in Nat
      BY <2>1 DEF Good, Tidy, MediaAssumption
    <3> QED
      BY <2>3, <2>4, <3>1, <3>2, <3>3
  <2>6. Distinct(p)'
    <3>1. \A j \in Rows(p) : j \in Items
      BY DEF Rows
    <3> QED
      BY <1>2, <2>1, <2>3, <3>1 DEF Good, Tidy, Distinct
  <2>7. /\ \A u \in Uploads : up'[u].post # p
        /\ \A o \in Threads : thread'[o].post # p
    BY <1>0, <1>1, <1>5, <2>1 DEF Good, Sole
  <2> QED
    BY <2>4, <2>5, <2>6, <2>7 DEF Good, Sole, Tidy
<1> QED
  BY <1>3, <1>4, <1>5 DEF AlbumsInv, TidyInv

LEMMA CommitMoveAlbums ==
  ASSUME MediaAssumption, MediaType, AlbumsInv, NEW t \in Threads, CommitMove(t)
  PROVE  AlbumsInv'
<1> DEFINE q == thread[t].post
           order == thread[t].order
           Writes1 == \A i \in DOMAIN order : item[i] # NoItem
<1>0. /\ thread \in [Threads -> ThreadRec] /\ thread' = [thread EXCEPT ![t] = IdleThread]
      /\ UNCHANGED <<post, up, raced, count>> /\ q \in Posts /\ DOMAIN item = Items
      /\ thread[t].at = "moving" /\ IdleThread.post = None /\ IdleThread.item = 0 /\ DOMAIN IdleThread.order = {}
      /\ None \notin Posts
  BY DEF CommitMove, MediaType, ThreadType, RowType, ItemType, IdleThread, MediaAssumption
<1>1. CASE ~Writes1
  <2>1. item' = item
    BY <1>1 DEF CommitMove
  <2> QED
    BY <1>0, <2>1, CleaningAlbums
<1>2. CASE Writes1
  <2>1. \A o \in Threads : thread'[o] = IF o = t THEN IdleThread ELSE thread[o]
    BY <1>0
  <2>2. \A i \in Items : /\ item'[i].post = item[i].post /\ (item[i] = NoItem => item'[i] = NoItem)
                         /\ item'[i].order = Final(t, i)
    <3> TAKE i \in Items
    <3>1. item' = [j \in Items |-> IF j \in DOMAIN order THEN [item[j] EXCEPT !.order = order[j]] ELSE item[j]]
      BY <1>2 DEF CommitMove
    <3>2. CASE i \in DOMAIN order
      <4>1. item[i] # NoItem /\ item'[i] = [item[i] EXCEPT !.order = order[i]]
        BY <1>2, <3>1, <3>2
      <4>2. item[i] \in [post : Posts, path : Paths, order : Nat]
        BY <4>1, RowFacts DEF MediaType, RowType
      <4> QED
        BY <3>2, <4>1, <4>2 DEF Final
    <3>3. CASE i \notin DOMAIN order
      BY <3>1, <3>3 DEF Final
    <3> QED
      BY <3>2, <3>3
  <2>3. HeldInv'
    <3>1. \A o \in Threads : Touched(o)' = {} \/ (Touched(o)' = Touched(o) /\ thread'[o].post = thread[o].post)
      BY <1>0, <2>1 DEF Touched
    <3>2. HandsKept
      BY <1>0, <2>1, <2>2, <3>1 DEF HandsKept, AlbumsInv, HeldInv
    <3> QED
      BY <3>2, HeldStays DEF AlbumsInv
  <2>4. \A p \in Posts : Rows(p)' = Rows(p)
    BY <2>2 DEF Rows
  <2>5. ASSUME NEW p \in Posts, p \notin raced', p # q PROVE Good(p)'
    <3>1. Good(p)
      BY <1>0, <2>5 DEF AlbumsInv, TidyInv
    <3>2. ASSUME NEW i \in Rows(p) PROVE item'[i].order = item[i].order
      <4>1. i \in Items /\ item[i].post = p /\ item[i] # NoItem
        BY NoItemFacts DEF Rows
      <4>2. i \notin DOMAIN order
        BY <2>5, <4>1 DEF AlbumsInv, HeldInv, Touched
      <4> QED
        BY <2>2, <4>1, <4>2 DEF Final
    <3>3. SameRows(p)
      BY <1>0, <2>4, <3>2 DEF SameRows
    <3> QED
      BY <1>0, <2>1, <3>1, <3>3, GoodStays DEF SameUpload, SameThread
  <2>6. ASSUME NEW p \in Posts, p \notin raced', p = q PROVE Good(p)'
    <3>1. Good(p) /\ Moving(t, p)
      BY <1>0, <2>6 DEF AlbumsInv, TidyInv, Good
    <3>2. Distinct(p)'
      <4>1. \A i \in Rows(p) : item'[i].order = Final(t, i)
        BY <2>2 DEF Rows
      <4>2. \A i, j \in Rows(p) : i # j => Final(t, i) # Final(t, j)
        BY <1>0, <3>1 DEF Moving
      <4> QED
        BY <2>4, <4>1, <4>2 DEF Distinct
    <3>3. Tidy(p)'
      BY <1>0, <2>4, <3>1, <3>2 DEF Good, Tidy
    <3>4. /\ \A u \in Uploads : up'[u].post # p
          /\ \A o \in Threads : thread'[o].post # p
      BY <1>0, <2>1, <2>6, <3>1 DEF Good, Sole
    <3> QED
      BY <3>3, <3>4 DEF Good, Sole
  <2> QED
    BY <2>3, <2>5, <2>6 DEF AlbumsInv, TidyInv
<1> QED
  BY <1>1, <1>2

LEMMA CleanAlbums ==
  ASSUME MediaAssumption, MediaType, AlbumsInv, NEW t \in Threads, StartCleanup(t) \/ \E path \in Paths : Clean(t, path)
  PROVE  AlbumsInv'
<1>0. thread[t] \in ThreadRec /\ IdleThread.post = None /\ IdleThread.item = 0 /\ DOMAIN IdleThread.order = {}
  BY DEF MediaType, ThreadType, IdleThread
<1>1. CASE StartCleanup(t)
  <2> DEFINE r == [IdleThread EXCEPT !.at = "cleaning", !.todo = Droppable]
  <2>1. thread' = [thread EXCEPT ![t] = r] /\ UNCHANGED <<post, item, count, up, raced>>
    BY <1>1 DEF StartCleanup, rows
  <2>2. r.post = None /\ r.item = 0 /\ DOMAIN r.order = {}
    BY DEF IdleThread
  <2> HIDE DEF r
  <2> QED
    BY <2>1, <2>2, CleaningAlbums
<1>2. ASSUME NEW path \in Paths, Clean(t, path) PROVE AlbumsInv'
  <2> DEFINE rest == thread[t].todo \ {path}
             r == [thread[t] EXCEPT !.todo = rest]
  <2>1. UNCHANGED <<post, item, count, up, raced>> /\ (thread' = [thread EXCEPT ![t] = IdleThread] \/ thread' = [thread EXCEPT ![t] = r])
    BY <1>2 DEF Clean, rows
  <2>2. /\ r.at = thread[t].at /\ r.post = thread[t].post /\ r.item = thread[t].item
        /\ r.loaded = thread[t].loaded /\ r.counted = thread[t].counted /\ r.order = thread[t].order
    BY <1>0 DEF ThreadRec
  <2> HIDE DEF r
  <2> QED
    BY <1>0, <2>1, <2>2, CleaningAlbums
<1> QED
  BY <1>1, <1>2

LEMMA DeletePostAlbums ==
  ASSUME MediaAssumption, MediaType, AlbumsInv, NEW q \in Posts, DeletePost(q)
  PROVE  AlbumsInv'
<1>0. /\ UNCHANGED <<up, thread, raced>> /\ count \in [Posts -> Nat] /\ count' = [count EXCEPT ![q] = 0]
      /\ post \in [Posts -> {"absent", "present", "deleted"}] /\ post' = [post EXCEPT ![q] = "deleted"]
      /\ \A i \in Items : item'[i] = IF item[i].post = q THEN NoItem ELSE item[i]
      /\ \A t \in Threads : ~(thread[t].post = q /\ thread[t].at = "deleting")
  BY DEF DeletePost, MediaType, RowType
<1>1. HeldInv'
  <2>1. HandsKept
    BY <1>0 DEF HandsKept, AlbumsInv, HeldInv, Touched
  <2> QED
    BY <2>1, HeldStays DEF AlbumsInv
<1>2. ASSUME NEW p \in Posts, p \notin raced', p # q PROVE Good(p)'
  <2>1. Good(p)
    BY <1>0, <1>2 DEF AlbumsInv, TidyInv
  <2>2. Rows(p)' = Rows(p) /\ \A i \in Rows(p) : item'[i].order = item[i].order
    BY <1>0, <1>2, NoItemFacts DEF Rows
  <2>3. SameRows(p)
    BY <1>0, <1>2, <2>2 DEF SameRows
  <2> QED
    BY <1>0, <2>1, <2>3, GoodStays DEF SameUpload, SameThread
<1>3. ASSUME q \notin raced' PROVE Good(q)'
  <2>1. Good(q)
    BY <1>0, <1>3 DEF AlbumsInv, TidyInv
  <2>2. Rows(q)' = {}
    BY <1>0, NoItemFacts DEF Rows
  <2>3. Tidy(q)'
    BY <1>0, <2>2, FS_EmptySet DEF Tidy, Distinct, MediaAssumption
  <2>4. Sole(q)'
    BY <1>0, <2>1 DEF Good, Sole
  <2>5. \A u \in Uploads : Adding(u, q)'
    BY <1>0 DEF Adding
  <2>6. \A t \in Threads : thread'[t].post = q => Removing(t, q)' /\ Moving(t, q)'
    BY <1>0, <2>2 DEF Removing, Moving
  <2> QED
    BY <2>3, <2>4, <2>5, <2>6 DEF Good
<1> QED
  BY <1>1, <1>2, <1>3 DEF AlbumsInv, TidyInv

LEMMA RestartAlbums ==
  ASSUME MediaAssumption, MediaType, AlbumsInv, Restart PROVE AlbumsInv'
<1>0. /\ \A u \in Uploads : up'[u] = IdleUpload
      /\ \A t \in Threads : thread'[t] = IdleThread
      /\ UNCHANGED <<post, item, count, raced>> /\ IdleThread.post = None /\ IdleThread.item = 0
      /\ DOMAIN IdleThread.order = {} /\ IdleUpload.post = None /\ IdleUpload.saved = <<>> /\ None \notin Posts
  BY DEF Restart, IdleThread, IdleUpload, MediaAssumption, rows
<1>1. HeldInv'
  <2>1. HandsKept
    BY <1>0 DEF HandsKept, Touched
  <2> QED
    BY <2>1, HeldStays DEF AlbumsInv
<1>2. ASSUME NEW p \in Posts, p \notin raced' PROVE Good(p)'
  <2>1. Good(p)
    BY <1>0, <1>2 DEF AlbumsInv, TidyInv
  <2>2. SameRows(p)
    BY <1>0, SameItemsRows DEF SameItems
  <2> QED
    BY <1>0, <2>1, <2>2, GoodStays
<1> QED
  BY <1>1, <1>2 DEF AlbumsInv, TidyInv

LEMMA AlbumsStep ==
  ASSUME MediaAssumption, KeptInv, KeptInv', AlbumInv, AlbumsInv, [Next]_vars PROVE AlbumsInv'
<1>0. MediaType /\ MediaType' /\ KeepInv
  BY DEF KeptInv
<1>1. CASE \E p \in Posts : \/ \E got \in SUBSET Album[p] : Collect(p, got)
                            \/ CoolDown(p) \/ Queue(p) \/ DeletePost(p)
  BY <1>0, <1>1, CollectAlbums, DownloadsAlbums, DeletePostAlbums
<1>2. CASE NextDay \/ Prune \/ Restart \/ (\E path \in Paths : Age(path)) \/ UNCHANGED vars
  BY <1>0, <1>2, DownloadsAlbums, RestartAlbums
<1>3. ASSUME NEW u \in Uploads, Upload(u) PROVE AlbumsInv'
  <2>1. ASSUME NEW i \in Manual, RejectUpload(u, i) PROVE AlbumsInv'
    BY <1>0, <2>1, EndUploadAlbums DEF RejectUpload, rows
  <2>2. CASE FlushUpload(u)
    <3>1. CASE Referable(u)
      BY <1>0, <2>2, <3>1, FlushUploadAlbums
    <3>2. CASE ~Referable(u)
      BY <1>0, <2>2, <3>2, EndUploadAlbums DEF FlushUpload, rows
    <3> QED
      BY <3>1, <3>2
  <2> QED
    BY <1>0, <1>3, <2>1, <2>2, StartUploadAlbums, SaveUploadAlbums, CommitUploadAlbums DEF Upload
<1>4. ASSUME NEW t \in Threads, Thread(t) PROVE AlbumsInv'
  BY <1>0, <1>4, DeleteItemAlbums, MoveAlbums, CommitDeleteAlbums, CommitMoveAlbums, CleanAlbums DEF Thread
<1>5. CASE \/ \E f \in Fetchers : Fetch(f)
           \/ \E c \in Pages : Page(c)
           \/ \E b \in Publications : Publication(b)
  BY <1>0, <1>5, DownloadsAlbums
<1> QED
  BY <1>1, <1>2, <1>3, <1>4, <1>5 DEF Next

LEMMA AlbumsInit ==
  ASSUME MediaAssumption, Init PROVE AlbumInv /\ AlbumsInv
<1>0. /\ \A u \in Uploads : up[u] = IdleUpload
      /\ \A t \in Threads : thread[t] = IdleThread
      /\ \A i \in Items : item[i] = NoItem
      /\ \A p \in Posts : count[p] = 0
      /\ IdleThread.post = None /\ IdleThread.item = 0 /\ IdleThread.at = "idle"
      /\ DOMAIN IdleThread.order = {} /\ IdleUpload.post = None /\ IdleUpload.saved = <<>> /\ None \notin Posts
      /\ Limit \in Nat
  BY DEF Init, IdleThread, IdleUpload, MediaAssumption
<1>1. AlbumInv
  BY <1>0 DEF AlbumInv, Items
<1>2. HeldInv
  BY <1>0 DEF HeldInv, Touched
<1>3. \A p \in Posts : Good(p)
  <2> TAKE p \in Posts
  <2>1. Rows(p) = {}
    BY <1>0, NoItemFacts DEF Rows
  <2> QED
    BY <1>0, <2>1, FS_EmptySet DEF Good, Sole, Tidy, Distinct
<1> QED
  BY <1>1, <1>2, <1>3 DEF AlbumsInv, TidyInv

LEMMA AlbumsAlways ==
  ASSUME MediaAssumption PROVE Spec => [](MediaType /\ AlbumsInv)
<1>1. Init => KeptInv /\ AlbumInv /\ AlbumsInv
  BY KeptStep, AlbumsInit
<1>2. KeptInv /\ AlbumInv /\ AlbumsInv /\ [Next]_vars => KeptInv' /\ AlbumInv' /\ AlbumsInv'
  BY KeptStep, AlbumStep, AlbumsStep DEF KeptInv
<1>3. KeptInv /\ AlbumInv /\ AlbumsInv => MediaType /\ AlbumsInv
  BY DEF KeptInv
<1> QED
  BY <1>1, <1>2, <1>3, PTL DEF Spec

\* has_media and media_count say what is there, and an album is never too long for
\* Telegram, as long as no two requests that write rows of the post overlap: through
\* refused uploads, deletions, failed flushes and restarts, for any limit.
THEOREM AlbumsAddUp == ASSUME MediaAssumption PROVE Spec => []AlbumAddsUp
<1>1. AlbumsInv => AlbumAddsUp
  BY DEF AlbumsInv, TidyInv, Good, Tidy, AlbumAddsUp
<1> QED
  BY <1>1, AlbumsAlways, PTL

\* However often media are added, moved and deleted, one request at a time, no two of
\* a post have the same place.
THEOREM OrdersStayDistinct == ASSUME MediaAssumption PROVE Spec => []OrdersDistinct
<1>1. MediaType /\ AlbumsInv => OrdersDistinct
  <2> SUFFICES ASSUME MediaType, AlbumsInv, NEW i \in Items, NEW j \in Items, i # j, item[i] # NoItem,
                      item[i].post = item[j].post, item[i].post \notin raced
               PROVE  item[i].order # item[j].order
    BY DEF OrdersDistinct
  <2> DEFINE p == item[i].post
  <2>1. p \in Posts /\ i \in Rows(p) /\ j \in Rows(p)
    BY RowFacts DEF MediaType, RowType, Rows
  <2>2. Distinct(p)
    BY <2>1 DEF AlbumsInv, TidyInv, Good, Tidy
  <2> QED
    BY <2>1, <2>2 DEF Distinct
<1> QED
  BY <1>1, AlbumsAlways, PTL

=============================================================================
