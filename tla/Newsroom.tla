------------------------------- MODULE Newsroom -------------------------------
(***************************************************************************)
(* From a collected message to a draft: deduplication, the automatic       *)
(* publication and the operator's generation.                              *)
(*                                                                         *)
(* A run of the pipeline (the scheduler's, or the one POST /posts/fetch-now *)
(* starts without asking the scheduler) loads the NEW and READY posts,     *)
(* compares each with the database, commits, lists the READY posts and     *)
(* asks the model about one after the other.  The comparison has no await, *)
(* so no other coroutine moves meanwhile; handlers declared with plain     *)
(* "def" run in threads and may commit between any two of its queries.     *)
(* How a draft is delivered is the subject of module Publishing; here the  *)
(* end of a publication is one step.                                       *)
(***************************************************************************)
EXTENDS Naturals

CONSTANTS
  Posts,     \* rows of raw_posts
  Text,      \* the normalized text of a post
  NoText,    \* the normalized text of a post that has only links or symbols
  Alike,     \* pairs of texts whose token_set_ratio reaches duplicate_threshold
  Near,      \* pairs of texts whose embeddings reach semantic_threshold
  Composed,  \* the posts the operator types on /compose
  Drafts,    \* rows of generated_posts; their number bounds the drafts
  Ends,      \* how an automatic publication may end
  Runs,      \* the pipeline runs that may be under way at once
  Desks,     \* requests of the operator that wait for the model
  Operator,  \* the operator's requests this instance offers
  MaxRequests, \* bound on the number of them
  None

RawStatus == {"absent", "new", "duplicate", "ready", "generated",
              "rejected", "published", "failed", "deleted"}
GenStatus == {"draft", "scheduled", "published", "rejected", "failed"}
RawPost == [status : RawStatus, hashed : BOOLEAN, dup : Posts \cup {None}, vec : BOOLEAN]
NoPost == [status |-> "absent", hashed |-> FALSE, dup |-> None, vec |-> FALSE]
NoDraft == [status |-> "absent", of |-> None, auto |-> FALSE]
Requests == {"generate", "regenerate", "many", "compose",
             "edit", "reject", "delete", "reject_generated"}

ASSUME NewsroomAssumption ==
  /\ None \notin Posts \cup Drafts /\ Posts \cap Drafts = {}
  /\ Composed \subseteq Posts
  /\ Runs \cap Desks = {}
  /\ Ends \subseteq {"published", "failed", "scheduled"}
  /\ Operator \subseteq Requests /\ MaxRequests \in Nat

VARIABLES
  row,      \* raw_posts
  draft,    \* generated_posts
  recent,   \* the posts created within the last 48 hours
  embedder, \* the model of fastembed: not tried, loaded or unavailable
  pc,       \* where each run and each request of the operator is
  todo,     \* the posts its list still holds
  loaded,   \* the rows as the session of a run has read them ...
  staged,   \* ... and as it has changed them without flushing
  cur,      \* the post the model is asked about, or the draft that is sent
  seen,     \* the status of that post when its row was last read
  asked,    \* requests so far
  before,   \* history: the posts of the base when a post was first compared
  shared    \* history: the posts two runs have had in hand at once

vars == <<row, draft, recent, embedder, pc, todo, loaded, staged, cur, seen, asked, before, shared>>
session == <<loaded, staged>>
tables == <<row, draft>>
hand == <<pc, todo, cur, seen>>

Actors == Runs \cup Desks
Present(p) == row[p].status \notin {"absent", "deleted"}
Unread == [p \in {} |-> NoPost]

\* No coroutine moves while a run compares: process_ready_posts awaits nothing.
LoopFree == \A r \in Runs : pc[r] \notin {"comparing", "committed"}
FreeDraft(d) == draft[d] = NoDraft /\ \A a \in Actors : cur[a] # d

\* A run has a post in hand from its list to the commit of its draft.
InHand(r) == todo[r] \cup (IF pc[r] = "asking" THEN {cur[r]} ELSE {})

Idle(a) ==
  /\ pc' = [pc EXCEPT ![a] = "idle"]
  /\ todo' = [todo EXCEPT ![a] = {}]
  /\ cur' = [cur EXCEPT ![a] = None]
  /\ seen' = [seen EXCEPT ![a] = "absent"]

Onward(a, place) ==
  /\ pc' = [pc EXCEPT ![a] = place]
  /\ cur' = [cur EXCEPT ![a] = None]
  /\ seen' = [seen EXCEPT ![a] = "absent"]
  /\ UNCHANGED todo

Init ==
  /\ row = [p \in Posts |-> NoPost]
  /\ draft = [d \in Drafts |-> NoDraft]
  /\ recent = {}
  /\ embedder = "untried"
  /\ pc = [a \in Actors |-> "idle"]
  /\ todo = [a \in Actors |-> {}]
  /\ loaded = [r \in Runs |-> Unread]
  /\ staged = [r \in Runs |-> Unread]
  /\ cur = [a \in Actors |-> None]
  /\ seen = [a \in Actors |-> "absent"]
  /\ asked = 0
  /\ before = [p \in Posts |-> {}]
  /\ shared = {}

-----------------------------------------------------------------------------
(* Collection adds posts, the 48 hours pass.                                *)

Arrive(p) ==
  /\ p \notin Composed /\ row[p] = NoPost
  /\ LoopFree
  /\ row' = [row EXCEPT ![p].status = "new"]
  /\ recent' = recent \cup {p}
  /\ UNCHANGED <<draft, embedder, hand, session, asked, before, shared>>

Age(p) ==
  /\ p \in recent
  /\ recent' = recent \ {p}
  /\ UNCHANGED <<tables, embedder, hand, session, asked, before, shared>>

-----------------------------------------------------------------------------
(* process_ready_posts and DeduplicationService.deduplicate_post            *)

Unjudged == {"new", "ready"}

StartRun(r) ==
  LET posts == {p \in Posts : row[p].status \in Unjudged} IN
  /\ pc[r] = "idle" /\ LoopFree
  /\ pc' = [pc EXCEPT ![r] = "comparing"]
  /\ todo' = [todo EXCEPT ![r] = posts]
  /\ loaded' = [loaded EXCEPT ![r] = [p \in posts |-> row[p]]]
  /\ staged' = [staged EXCEPT ![r] = [p \in posts |-> row[p]]]
  /\ UNCHANGED <<tables, recent, embedder, cur, seen, asked, before, shared>>

\* The first phase asks for equal hashes whatever the status of the other post,
\* the second and third for similar texts of the last 48 hours.  The queries see
\* what is committed, not what this session has staged.
BuggySameHash(p) == {q \in Posts \ {p} : /\ Present(q) /\ row[q].hashed /\ Text[q] = Text[p]
                                         /\ row[q].status # "generated"}
SameHash(p) == {q \in Posts \ {p} : Present(q) /\ row[q].hashed /\ Text[q] = Text[p]}
Candidates(p) == {q \in Posts \ {p} : /\ Present(q) /\ row[q].hashed /\ q \in recent
                                      /\ row[q].status # "failed" /\ Text[q] # NoText}
Vector(r, q) == IF q \in DOMAIN staged[r] THEN staged[r][q].vec ELSE row[q].vec
Duplicate(post, q) == [post EXCEPT !.status = "duplicate", !.dup = q]

Lexical(p) == {q \in Candidates(p) : <<Text[p], Text[q]>> \in Alike}
Semantic(r, p) == {q \in Candidates(p) : Vector(r, q) /\ <<Text[p], Text[q]>> \in Near}

\* The third phase is reached by a text neither of the first two recognises.
Third(p) == Text[p] # NoText /\ SameHash(p) = {} /\ Lexical(p) = {}

\* What deduplicate_post makes of a post when the embedder has given a vector or not.
Verdicts(r, p, vec) ==
  LET post     == [staged[r][p] EXCEPT !.hashed = TRUE]
      embedded == [post EXCEPT !.vec = vec]
      ready    == [post EXCEPT !.status = "ready"]
  IN  IF Text[p] = NoText THEN {ready}
      ELSE IF SameHash(p) # {} THEN {Duplicate(post, q) : q \in SameHash(p)}
      ELSE IF Lexical(p) # {} THEN {Duplicate(post, q) : q \in Lexical(p)}
      ELSE IF vec /\ Semantic(r, p) # {} THEN {Duplicate(embedded, q) : q \in Semantic(r, p)}
      ELSE {[ready EXCEPT !.vec = vec]}

\* The model is loaded at the first use and never tried again; a call may fail.
Embed(r, p, vec) ==
  \/ (~Third(p) \/ staged[r][p].vec) /\ vec = staged[r][p].vec /\ UNCHANGED embedder
  \/ /\ Third(p) /\ ~staged[r][p].vec
     /\ embedder' \in (IF embedder = "untried" THEN {"loaded", "broken"} ELSE {embedder})
     /\ vec \in BOOLEAN /\ (vec => embedder' = "loaded")

Compare(r, p) ==
  /\ pc[r] = "comparing" /\ p \in todo[r]
  /\ \E vec \in BOOLEAN :
       /\ Embed(r, p, vec)
       /\ \E post \in Verdicts(r, p, vec) : staged' = [staged EXCEPT ![r][p] = post]
  /\ todo' = [todo EXCEPT ![r] = @ \ {p}]
  /\ UNCHANGED <<tables, recent, pc, loaded, cur, seen, asked, before, shared>>

\* An UPDATE names the columns that differ from what was read.
Dirty(r) == {p \in DOMAIN staged[r] : staged[r][p] # loaded[r][p]}
Column(now, was, new) == IF new # was THEN new ELSE now
Merge(now, was, new) ==
  [status |-> Column(now.status, was.status, new.status),
   hashed |-> Column(now.hashed, was.hashed, new.hashed),
   dup    |-> Column(now.dup, was.dup, new.dup),
   vec    |-> Column(now.vec, was.vec, new.vec)]

\* A row that is gone, or a reference to one, makes the flush fail, and with it the run.
Refused(r) == \E p \in Dirty(r) :
  \/ ~Present(p)
  \/ staged[r][p].dup # loaded[r][p].dup /\ ~Present(staged[r][p].dup)

Forget(r) ==
  /\ loaded' = [loaded EXCEPT ![r] = Unread]
  /\ staged' = [staged EXCEPT ![r] = Unread]

CommitVerdicts(r) ==
  /\ pc[r] = "comparing" /\ todo[r] = {} /\ ~Refused(r)
  /\ row' = [p \in Posts |-> IF p \in Dirty(r)
                             THEN Merge(row[p], loaded[r][p], staged[r][p]) ELSE row[p]]
  /\ before' = [p \in Posts |-> IF p \in Dirty(r) /\ ~row[p].hashed
                                THEN {q \in Posts : Present(q) /\ row[q].hashed} ELSE before[p]]
  /\ pc' = [pc EXCEPT ![r] = "committed"]
  /\ Forget(r)
  /\ UNCHANGED <<draft, recent, embedder, todo, cur, seen, asked, shared>>

RunFails(r) ==
  /\ pc[r] = "comparing" /\ todo[r] = {} /\ Refused(r)
  /\ Idle(r) /\ Forget(r)
  /\ UNCHANGED <<tables, recent, embedder, asked, before, shared>>

-----------------------------------------------------------------------------
(* run_autopublish                                                          *)

BuggyListed == {p \in Posts : row[p].status \in {"ready", "generated"}}
Listed == {p \in Posts : row[p].status = "ready"}

\* settings_registry: global_auto_publish_enabled is read once.
ListReady(r) ==
  /\ pc[r] = "committed"
  /\ pc' = [pc EXCEPT ![r] = "choosing"]
  /\ todo' = [todo EXCEPT ![r] = Listed]
  /\ shared' = shared \cup {p \in Listed : \E o \in Runs \ {r} : p \in InHand(o)}
  /\ UNCHANGED <<tables, recent, embedder, session, cur, seen, asked, before>>

EndRun(r) ==
  /\ \/ pc[r] = "committed"
     \/ pc[r] = "choosing" /\ todo[r] = {} /\ LoopFree
  /\ Idle(r)
  /\ UNCHANGED <<tables, recent, embedder, session, asked, before, shared>>

\* An actor looks at the next post of its list.  A deleted post ends the list: the
\* refresh of its expired row raises.
LookUp(a, p, asking) ==
  /\ p \in todo[a] /\ LoopFree
  /\ IF Present(p)
     THEN /\ todo' = [todo EXCEPT ![a] = @ \ {p}]
          /\ pc' = [pc EXCEPT ![a] = asking]
          /\ cur' = [cur EXCEPT ![a] = p]
          /\ seen' = [seen EXCEPT ![a] = row[p].status]
     ELSE Idle(a)
  /\ UNCHANGED <<tables, recent, embedder, session, asked, before, shared>>

\* Whether the route of the post has a target in automatic mode is looked up now.
AskModel(r, p) == pc[r] = "choosing" /\ LookUp(r, p, "asking")

AutoSkip(r, p) ==
  /\ pc[r] = "choosing" /\ p \in todo[r] /\ Present(p) /\ LoopFree
  /\ todo' = [todo EXCEPT ![r] = @ \ {p}]
  /\ UNCHANGED <<tables, recent, embedder, session, pc, cur, seen, asked, before, shared>>

\* The gateway failed: the post stays as it is and the list is given up.  Of an answer
\* that breaks the code that reads it, generate_many makes a note and goes on.
GenerationFailed(a) ==
  /\ pc[a] \in {"asking", "generating", "regenerating", "composing"} /\ LoopFree
  /\ Idle(a) \/ (pc[a] = "generating" /\ Onward(a, "selected"))
  /\ UNCHANGED <<tables, recent, embedder, session, asked, before, shared>>

\* A column that already had the value in the session is not written.
Write(p, a, status) == IF seen[a] = status THEN row ELSE [row EXCEPT ![p].status = status]

Unsuitable(r) ==
  /\ pc[r] = "asking" /\ LoopFree
  /\ IF Present(cur[r])
     THEN /\ row' = Write(cur[r], r, "rejected")
          /\ Onward(r, "choosing")
     ELSE Idle(r) /\ UNCHANGED row
  /\ UNCHANGED <<draft, recent, embedder, session, asked, before, shared>>

\* mark_generated, with the draft.
SaveAuto(r, d) ==
  /\ pc[r] = "asking" /\ LoopFree /\ FreeDraft(d)
  /\ IF Present(cur[r])
     THEN /\ draft' = [draft EXCEPT ![d] = [status |-> "draft", of |-> cur[r], auto |-> TRUE]]
          /\ row' = Write(cur[r], r, "generated")
          /\ pc' = [pc EXCEPT ![r] = "sending"]
          /\ cur' = [cur EXCEPT ![r] = d]
          /\ seen' = [seen EXCEPT ![r] = "absent"] /\ UNCHANGED todo
     ELSE Idle(r) /\ UNCHANGED tables
  /\ UNCHANGED <<recent, embedder, session, asked, before, shared>>

\* publish_generated_post: delivered, refused by Telegram, put off until the window
\* opens, or refused before anything was written.
AutoPublish(r) ==
  LET d == cur[r] IN
  /\ pc[r] = "sending" /\ LoopFree
  /\ Onward(r, "choosing")
  /\ \/ UNCHANGED tables
     \/ /\ draft[d] # NoDraft
        /\ \E o \in Ends :
             /\ draft' = [draft EXCEPT ![d].status = o]
             /\ row' = IF o = "scheduled" THEN row
                       ELSE [row EXCEPT ![draft[d].of].status = o]
  /\ UNCHANGED <<recent, embedder, session, asked, before, shared>>

-----------------------------------------------------------------------------
(* The operator's requests that ask the model                               *)

\* generate_by_id with one post, generate_many with the posts of a selection.
Generate(c, posts) ==
  /\ pc[c] = "idle" /\ LoopFree /\ posts # {} /\ \A p \in posts : Present(p)
  /\ pc' = [pc EXCEPT ![c] = "selected"]
  /\ todo' = [todo EXCEPT ![c] = posts]
  /\ UNCHANGED <<tables, recent, embedder, session, cur, seen, before, shared>>

GenerateNext(c, p) == pc[c] = "selected" /\ LookUp(c, p, "generating")

EndGenerate(c) ==
  /\ pc[c] = "selected" /\ todo[c] = {} /\ LoopFree
  /\ Idle(c)
  /\ UNCHANGED <<tables, recent, embedder, session, asked, before, shared>>

Regenerate(c, p) ==
  /\ pc[c] = "idle" /\ LoopFree /\ Present(p)
  /\ pc' = [pc EXCEPT ![c] = "regenerating"]
  /\ cur' = [cur EXCEPT ![c] = p]
  /\ seen' = [seen EXCEPT ![c] = row[p].status]
  /\ UNCHANGED <<tables, recent, embedder, session, todo, before, shared>>

\* post_generation.save, after the drafts of a regeneration have been rejected.
Save(c, d) ==
  LET p == cur[c] IN
  /\ pc[c] \in {"generating", "regenerating"} /\ LoopFree /\ FreeDraft(d)
  /\ IF Present(p)
     THEN /\ \E suitable \in BOOLEAN :
               /\ draft' = [e \in Drafts |->
                    IF e = d THEN [status |-> IF suitable THEN "draft" ELSE "rejected",
                                   of |-> p, auto |-> FALSE]
                    ELSE IF pc[c] = "regenerating" /\ draft[e].of = p /\ draft[e].status = "draft"
                         THEN [draft[e] EXCEPT !.status = "rejected"] ELSE draft[e]]
               /\ row' = Write(p, c, IF suitable THEN "generated" ELSE "rejected")
          /\ IF pc[c] = "generating" THEN Onward(c, "selected") ELSE Idle(c)
     ELSE Idle(c) /\ UNCHANGED tables
  /\ UNCHANGED <<recent, embedder, session, asked, before, shared>>

Compose(c) ==
  /\ pc[c] = "idle" /\ LoopFree
  /\ pc' = [pc EXCEPT ![c] = "composing"]
  /\ UNCHANGED <<tables, recent, embedder, session, todo, cur, seen, before, shared>>

\* manual_post.create; a refusal of the model leaves no trace.
BuggyManualPost == [NoPost EXCEPT !.status = "ready", !.hashed = TRUE]
ManualPost == [NoPost EXCEPT !.status = "generated", !.hashed = TRUE]
SaveComposed(c, p, d) ==
  /\ pc[c] = "composing" /\ LoopFree
  /\ p \in Composed /\ row[p] = NoPost /\ FreeDraft(d)
  /\ row' = [row EXCEPT ![p] = ManualPost]
  /\ draft' = [draft EXCEPT ![d] = [status |-> "draft", of |-> p, auto |-> FALSE]]
  /\ recent' = recent \cup {p}
  /\ before' = [before EXCEPT ![p] = {q \in Posts : Present(q) /\ row[q].hashed}]
  /\ Idle(c)
  /\ UNCHANGED <<embedder, session, asked, shared>>

-----------------------------------------------------------------------------
(* The operator's requests that only write                                  *)

EditDraft(p, d) ==
  /\ Present(p) /\ FreeDraft(d)
  /\ draft' = [draft EXCEPT ![d] = [status |-> "draft", of |-> p, auto |-> FALSE]]
  /\ row' = [row EXCEPT ![p].status = "generated"]
  /\ UNCHANGED <<recent, embedder, hand, session, before, shared>>

RejectPost(p) ==
  /\ Present(p)
  /\ row' = [row EXCEPT ![p].status = "rejected"]
  /\ UNCHANGED <<draft, recent, embedder, hand, session, before, shared>>

BulkReject(posts) ==
  /\ LoopFree /\ posts # {} /\ \A p \in posts : Present(p)
  /\ row' = [p \in Posts |-> IF p \in posts THEN [row[p] EXCEPT !.status = "rejected"] ELSE row[p]]
  /\ UNCHANGED <<draft, recent, embedder, hand, session, before, shared>>

\* The references to the posts are cleared, the posts go with their drafts.
BuggyRemoved(posts) == [p \in Posts |->
  IF p \in posts THEN [NoPost EXCEPT !.status = "deleted"] ELSE row[p]]
Removed(posts) == [p \in Posts |->
  IF p \in posts THEN [NoPost EXCEPT !.status = "deleted"]
  ELSE IF row[p].dup \in posts THEN [row[p] EXCEPT !.dup = None] ELSE row[p]]

BuggyKept(posts) == draft
Kept(posts) == [d \in Drafts |-> IF draft[d].of \in posts THEN NoDraft ELSE draft[d]]

DeletePosts(posts) ==
  /\ posts # {} /\ \A p \in posts : Present(p)
  /\ row' = Removed(posts)
  /\ draft' = Kept(posts)
  /\ recent' = recent \ posts
  /\ UNCHANGED <<embedder, hand, session, before, shared>>

DeletePost(p) == DeletePosts({p})
BulkDelete(posts) == LoopFree /\ DeletePosts(posts)

RejectGenerated(d) ==
  /\ draft[d] # NoDraft
  /\ draft' = [draft EXCEPT ![d].status = "rejected"]
  /\ row' = [row EXCEPT ![draft[d].of].status = "rejected"]
  /\ UNCHANGED <<recent, embedder, hand, session, before, shared>>

Restart ==
  /\ \E a \in Actors : pc[a] # "idle"
  /\ embedder' = "untried"
  /\ pc' = [a \in Actors |-> "idle"]
  /\ todo' = [a \in Actors |-> {}]
  /\ cur' = [a \in Actors |-> None]
  /\ seen' = [a \in Actors |-> "absent"]
  /\ loaded' = [r \in Runs |-> Unread]
  /\ staged' = [r \in Runs |-> Unread]
  /\ UNCHANGED <<tables, recent, asked, before, shared>>

-----------------------------------------------------------------------------
Run(r) ==
  \/ StartRun(r) \/ CommitVerdicts(r) \/ RunFails(r) \/ ListReady(r) \/ EndRun(r)
  \/ \E p \in Posts : Compare(r, p) \/ AskModel(r, p) \/ AutoSkip(r, p)
  \/ GenerationFailed(r) \/ Unsuitable(r) \/ AutoPublish(r)
  \/ \E d \in Drafts : SaveAuto(r, d)

Request(kind) == kind \in Operator /\ asked < MaxRequests /\ asked' = asked + 1

Desk(c) ==
  \/ Request("generate") /\ \E p \in Posts : Generate(c, {p})
  \/ Request("many") /\ \E posts \in SUBSET Posts : Generate(c, posts)
  \/ Request("regenerate") /\ \E p \in Posts : Regenerate(c, p)
  \/ Request("compose") /\ Compose(c)
  \/ \E p \in Posts : GenerateNext(c, p)
  \/ EndGenerate(c) \/ GenerationFailed(c)
  \/ \E d \in Drafts : Save(c, d) \/ \E p \in Composed : SaveComposed(c, p, d)

Threads ==
  \/ Request("edit") /\ \E p \in Posts, d \in Drafts : EditDraft(p, d)
  \/ Request("reject") /\ \/ \E p \in Posts : RejectPost(p)
                              \/ \E posts \in SUBSET Posts : BulkReject(posts)
  \/ Request("delete") /\ \/ \E p \in Posts : DeletePost(p)
                              \/ \E posts \in SUBSET Posts : BulkDelete(posts)
  \/ Request("reject_generated") /\ \E d \in Drafts : RejectGenerated(d)

Next ==
  \/ \E p \in Posts : Arrive(p) \/ Age(p)
  \/ \E r \in Runs : Run(r)
  \/ \E c \in Desks : Desk(c)
  \/ Threads
  \/ Restart

Spec == Init /\ [][Next]_vars

-----------------------------------------------------------------------------
Places == {"idle", "comparing", "committed", "choosing", "asking", "sending",
           "selected", "generating", "regenerating", "composing"}

\* The type of the state; a draft belongs to a post that exists.
TypeOK ==
  /\ row \in [Posts -> RawPost]
  /\ \A d \in Drafts : \/ draft[d] = NoDraft
                       \/ draft[d].status \in GenStatus /\ draft[d].auto \in BOOLEAN
                          /\ draft[d].of \in Posts /\ Present(draft[d].of)
  /\ DOMAIN draft = Drafts /\ recent \subseteq Posts
  /\ embedder \in {"untried", "loaded", "broken"}
  /\ pc \in [Actors -> Places] /\ todo \in [Actors -> SUBSET Posts]
  /\ cur \in [Actors -> Posts \cup Drafts \cup {None}] /\ seen \in [Actors -> RawStatus]
  /\ before \in [Posts -> SUBSET Posts] /\ shared \subseteq Posts

\* deduplication.py: what is drafted without anybody looking at it does not repeat a
\* news that the base had, under the same normalized text, when the post was first
\* compared, and still has.  Two posts of one batch may both go out; a post that
\* came before, whatever became of it, and a text typed by hand, may not be repeated.
FirstOfItsText ==
  \A d \in Drafts : draft[d].auto =>
    LET p == draft[d].of IN
    Text[p] # NoText => ~\E q \in before[p] : Present(q) /\ Text[q] = Text[p]

\* manual_post.py: a text typed by hand is never drafted by the automatic publication.
ManualIsNotAuto == \A d \in Drafts : draft[d].auto => draft[d].of \notin Composed

\* A post gets two automatic drafts only when two runs have had it in hand at once.
TwiceOnlyWhenShared ==
  \A d, e \in Drafts :
    d # e /\ draft[d].auto /\ draft[e].auto /\ draft[d].of = draft[e].of => draft[d].of \in shared

\* post_lifecycle.delete_posts: the original of a duplicate is a row of the table and
\* another post.  A verdict that comes after the deletion is refused by PostgreSQL (SQLite
\* enforces no foreign key here).
OriginalIsThere ==
  \A p \in Posts : row[p].dup # None => row[p].dup # p /\ Present(row[p].dup)

\* The original of a duplicate is not itself marked as a repeat of that duplicate.
OriginalStands ==
  \A p, q \in Posts : ~ /\ row[p].status = "duplicate" /\ row[p].dup = q
                        /\ row[q].status = "duplicate" /\ row[q].dup = p
=============================================================================
