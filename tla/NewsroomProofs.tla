----------------------------- MODULE NewsroomProofs -----------------------------
(***************************************************************************)
(* Theorems about Newsroom, for any posts, texts, runs and requests: the    *)
(* types, where the original of a duplicate is, and what may be drafted     *)
(* without anybody looking at it.                                          *)
(***************************************************************************)
EXTENDS Newsroom, TLAPS

-----------------------------------------------------------------------------
(* Types.                                                                  *)

\* What a run has read and staged are rows of the same posts, all of them judged or
\* to be judged.
Verdict == {"new", "ready", "duplicate"}
SessionType ==
  \A r \in Runs : \E S \in SUBSET Posts :
    /\ loaded[r] \in [S -> RawPost] /\ staged[r] \in [S -> RawPost]
    /\ \A p \in S : staged[r][p].status \in Verdict
    /\ pc[r] = "comparing" => todo[r] \subseteq S

HandType ==
  \A a \in Actors : /\ pc[a] \in {"asking", "generating", "regenerating"} => cur[a] \in Posts
                    /\ pc[a] = "sending" => cur[a] \in Drafts

TypeInv ==
  /\ TypeOK /\ asked \in Nat
  /\ DOMAIN loaded = Runs /\ DOMAIN staged = Runs
  /\ SessionType /\ HandType

LEMMA TypeInit == ASSUME NewsroomAssumption, Init PROVE TypeInv
<1>1. row \in [Posts -> RawPost]
  BY DEF Init, RawPost, RawStatus, NoPost
<1>2. pc \in [Actors -> Places] /\ todo \in [Actors -> SUBSET Posts]
  BY DEF Init, Places
<1>3. seen \in [Actors -> RawStatus] /\ cur \in [Actors -> Posts \cup Drafts \cup {None}]
  BY DEF Init, RawStatus
<1>4. TypeOK
  BY <1>1, <1>2, <1>3 DEF Init, TypeOK
<1>5. SessionType
  <2> SUFFICES ASSUME NEW r \in Runs
               PROVE  /\ loaded[r] \in [{} -> RawPost] /\ staged[r] \in [{} -> RawPost]
                      /\ pc[r] # "comparing"
    BY DEF SessionType
  <2> QED
    BY DEF Init, Unread, Actors
<1>6. HandType /\ asked \in Nat /\ DOMAIN loaded = Runs /\ DOMAIN staged = Runs
  BY DEF Init, HandType
<1> QED
  BY <1>4, <1>5, <1>6 DEF TypeInv

\* The pieces of state an actor of its own changes.
LEMMA IdleType ==
  ASSUME TypeInv, NEW a \in Actors, Idle(a)
  PROVE  /\ pc' \in [Actors -> Places] /\ todo' \in [Actors -> SUBSET Posts]
         /\ cur' \in [Actors -> Posts \cup Drafts \cup {None}] /\ seen' \in [Actors -> RawStatus]
         /\ HandType'
         /\ \A r \in Runs : pc[r] # "comparing" => pc'[r] # "comparing"
         /\ \A r \in Runs : r # a => pc'[r] = pc[r] /\ todo'[r] = todo[r]
         /\ pc'[a] = "idle"
<1>1. "idle" \in Places /\ "absent" \in RawStatus
  BY DEF Places, RawStatus
<1> QED
  BY <1>1 DEF TypeInv, TypeOK, HandType, Idle, Actors

LEMMA OnwardType ==
  ASSUME TypeInv, NEW a \in Actors, NEW place \in {"choosing", "selected"}, Onward(a, place)
  PROVE  /\ pc' \in [Actors -> Places] /\ todo' \in [Actors -> SUBSET Posts]
         /\ cur' \in [Actors -> Posts \cup Drafts \cup {None}] /\ seen' \in [Actors -> RawStatus]
         /\ HandType'
         /\ \A r \in Runs : r # a => pc'[r] = pc[r] /\ todo'[r] = todo[r]
         /\ pc'[a] = place
<1>1. place \in Places /\ "absent" \in RawStatus
  BY DEF Places, RawStatus
<1> QED
  BY <1>1 DEF TypeInv, TypeOK, HandType, Onward, Actors

\* Only a run that compares has to do with its session.
LEMMA SessionKept ==
  ASSUME TypeInv, UNCHANGED session,
         \A r \in Runs : pc'[r] = "comparing" => pc[r] = "comparing" /\ todo'[r] \subseteq todo[r]
  PROVE  SessionType' /\ DOMAIN loaded' = Runs /\ DOMAIN staged' = Runs
  BY DEF TypeInv, SessionType, session

Settled == {"generated", "rejected", "published", "failed"}

\* What most steps do to the posts: some that are there get a status nobody compares.
StatusOnly ==
  /\ row' \in [Posts -> RawPost]
  /\ \A p \in Posts : \/ row'[p] = row[p]
                      \/ Present(p) /\ \E s \in Settled : row'[p] = [row[p] EXCEPT !.status = s]

LEMMA SettledRow ==
  ASSUME NEW x \in RawPost, NEW s \in Settled
  PROVE  /\ [x EXCEPT !.status = s] \in RawPost
         /\ [x EXCEPT !.status = s].status = s
         /\ [x EXCEPT !.status = s].dup = x.dup /\ [x EXCEPT !.status = s].hashed = x.hashed
  BY DEF Settled, RawPost, RawStatus

LEMMA StatusOnlyFacts ==
  ASSUME TypeInv, StatusOnly, NEW p \in Posts
  PROVE  /\ Present(p)' <=> Present(p)
         /\ row'[p].dup = row[p].dup /\ row'[p].hashed = row[p].hashed
         /\ row'[p].status = row[p].status \/ row'[p].status \in Settled
<1>1. row[p] \in RawPost
  BY DEF TypeInv, TypeOK
<1>2. CASE row'[p] = row[p]
  BY <1>2 DEF Present
<1>3. CASE Present(p) /\ \E s \in Settled : row'[p] = [row[p] EXCEPT !.status = s]
  BY <1>1, <1>3, SettledRow DEF Present, Settled
<1> QED
  BY <1>2, <1>3 DEF StatusOnly

\* Drafts keep their posts when no post goes.
DraftType(dr) ==
  /\ DOMAIN dr = Drafts
  /\ \A d \in Drafts : \/ dr[d] = NoDraft
                       \/ dr[d].status \in GenStatus /\ dr[d].auto \in BOOLEAN
                          /\ dr[d].of \in Posts /\ Present(dr[d].of)

LEMMA TypeParts ==
  ASSUME TypeInv
  PROVE  /\ row \in [Posts -> RawPost] /\ DraftType(draft)
         /\ recent \subseteq Posts /\ embedder \in {"untried", "loaded", "broken"}
         /\ pc \in [Actors -> Places] /\ todo \in [Actors -> SUBSET Posts]
         /\ cur \in [Actors -> Posts \cup Drafts \cup {None}] /\ seen \in [Actors -> RawStatus]
         /\ before \in [Posts -> SUBSET Posts] /\ shared \subseteq Posts /\ asked \in Nat
         /\ Runs \subseteq Actors /\ Desks \subseteq Actors
  BY DEF TypeInv, TypeOK, DraftType, Actors

\* One run changes its session, the others do not.
LEMMA SessionChanged ==
  ASSUME TypeInv, NEW r \in Runs, NEW S \in SUBSET Posts,
         loaded'[r] \in [S -> RawPost], staged'[r] \in [S -> RawPost],
         \A p \in S : staged'[r][p].status \in Verdict,
         pc'[r] = "comparing" => todo'[r] \subseteq S,
         \A o \in Runs \ {r} : /\ loaded'[o] = loaded[o] /\ staged'[o] = staged[o]
                               /\ pc'[o] = pc[o] /\ todo'[o] = todo[o]
  PROVE  SessionType'
<1> SUFFICES ASSUME NEW o \in Runs
             PROVE  \E T \in SUBSET Posts :
                      /\ loaded'[o] \in [T -> RawPost] /\ staged'[o] \in [T -> RawPost]
                      /\ \A p \in T : staged'[o][p].status \in Verdict
                      /\ pc'[o] = "comparing" => todo'[o] \subseteq T
  BY DEF SessionType
<1>1. CASE o = r
  BY <1>1
<1>2. CASE o # r
  BY <1>2 DEF TypeInv, SessionType
<1> QED
  BY <1>1, <1>2

LEMMA StartType ==
  ASSUME TypeInv, NEW r \in Runs, StartRun(r)
  PROVE  TypeInv'
<1> DEFINE S == {p \in Posts : row[p].status \in Unjudged}
<1>1. loaded'[r] \in [S -> RawPost] /\ staged'[r] \in [S -> RawPost]
  BY TypeParts DEF StartRun, TypeInv
<1>2. \A p \in S : staged'[r][p].status \in Verdict
  BY DEF StartRun, TypeInv, Unjudged, Verdict
<1>3. todo'[r] = S /\ DOMAIN loaded' = Runs /\ DOMAIN staged' = Runs
  BY TypeParts DEF StartRun, TypeInv
<1>4. \A o \in Runs \ {r} : /\ loaded'[o] = loaded[o] /\ staged'[o] = staged[o]
                            /\ pc'[o] = pc[o] /\ todo'[o] = todo[o]
  BY TypeParts DEF StartRun, TypeInv
<1>5. SessionType'
  BY <1>1, <1>2, <1>3, <1>4, SessionChanged
<1>6. TypeOK' /\ HandType' /\ asked' \in Nat
  BY TypeParts DEF StartRun, TypeInv, TypeOK, HandType, Present, tables, Places
<1> QED
  BY <1>3, <1>5, <1>6 DEF TypeInv

\* What deduplicate_post makes of a post is a row, and a verdict.
LEMMA VerdictType ==
  ASSUME TypeInv, NEW r \in Runs, NEW p \in DOMAIN staged[r], p \in Posts, NEW vec \in BOOLEAN,
         NEW post \in Verdicts(r, p, vec)
  PROVE  /\ post \in RawPost /\ post.status \in {"ready", "duplicate"} /\ post.hashed
         /\ post.status = "duplicate" => post.dup \in Posts \ {p} /\ Present(post.dup)
         /\ post.status = "ready" => /\ post.dup = staged[r][p].dup
                                     /\ Text[p] = NoText \/ SameHash(p) = {}
<1>1. staged[r][p] \in RawPost
  BY DEF TypeInv, SessionType
<1>2. /\ SameHash(p) \subseteq {q \in Posts \ {p} : Present(q)}
      /\ Lexical(p) \subseteq {q \in Posts \ {p} : Present(q)}
      /\ Semantic(r, p) \subseteq {q \in Posts \ {p} : Present(q)}
  BY DEF SameHash, Lexical, Semantic, Candidates
<1> DEFINE base == [staged[r][p] EXCEPT !.hashed = TRUE]
           embedded == [base EXCEPT !.vec = vec]
           ready == [base EXCEPT !.status = "ready"]
<1>3. /\ ready \in RawPost /\ ready.status = "ready" /\ ready.hashed /\ ready.dup = staged[r][p].dup
      /\ [ready EXCEPT !.vec = vec] \in RawPost /\ [ready EXCEPT !.vec = vec].status = "ready"
      /\ [ready EXCEPT !.vec = vec].hashed /\ [ready EXCEPT !.vec = vec].dup = staged[r][p].dup
  BY <1>1 DEF RawPost, RawStatus
<1>4. ASSUME NEW q \in Posts
      PROVE  \A x \in {base, embedded} :
               /\ Duplicate(x, q) \in RawPost /\ Duplicate(x, q).status = "duplicate"
               /\ Duplicate(x, q).hashed /\ Duplicate(x, q).dup = q
  BY <1>1 DEF RawPost, RawStatus, Duplicate
<1>5. \/ (Text[p] = NoText \/ SameHash(p) = {}) /\ post \in {ready, [ready EXCEPT !.vec = vec]}
      \/ \E q \in SameHash(p) \cup Lexical(p) \cup Semantic(r, p) :
           \E x \in {base, embedded} : post = Duplicate(x, q)
  BY DEF Verdicts
<1> HIDE DEF base, embedded, ready
<1>6. CASE post \in {ready, [ready EXCEPT !.vec = vec]} /\ (Text[p] = NoText \/ SameHash(p) = {})
  BY <1>3, <1>6
<1>7. ASSUME NEW q \in SameHash(p) \cup Lexical(p) \cup Semantic(r, p), NEW x \in {base, embedded},
             post = Duplicate(x, q)
      PROVE  post \in RawPost /\ post.status = "duplicate" /\ post.hashed /\ post.dup = q
  BY <1>2, <1>4, <1>7
<1>8. CASE \E q \in SameHash(p) \cup Lexical(p) \cup Semantic(r, p) : \E x \in {base, embedded} : post = Duplicate(x, q)
  <2>1. PICK q \in SameHash(p) \cup Lexical(p) \cup Semantic(r, p) :
          post \in RawPost /\ post.status = "duplicate" /\ post.hashed /\ post.dup = q
    BY <1>7, <1>8
  <2> QED
    BY <1>2, <2>1
<1> QED
  BY <1>5, <1>6, <1>8

LEMMA CompareType ==
  ASSUME TypeInv, NEW r \in Runs, NEW p \in Posts, Compare(r, p)
  PROVE  TypeInv'
<1> PICK S \in SUBSET Posts : /\ loaded[r] \in [S -> RawPost] /\ staged[r] \in [S -> RawPost]
                              /\ \A q \in S : staged[r][q].status \in Verdict
                              /\ pc[r] = "comparing" => todo[r] \subseteq S
  BY DEF TypeInv, SessionType
<1>1. p \in S
  BY DEF Compare
<1>a. PICK vec \in BOOLEAN :
        /\ Embed(r, p, vec)
        /\ \E post \in Verdicts(r, p, vec) : staged' = [staged EXCEPT ![r][p] = post]
  BY DEF Compare
<1>2. PICK post \in Verdicts(r, p, vec) : staged' = [staged EXCEPT ![r][p] = post]
  BY <1>a
<1>3. post \in RawPost /\ post.status \in Verdict
  BY <1>1, VerdictType DEF Verdict
<1>4. /\ staged'[r] = [staged[r] EXCEPT ![p] = post] /\ DOMAIN staged' = Runs
      /\ \A o \in Runs \ {r} : staged'[o] = staged[o]
  BY <1>2 DEF TypeInv
<1>5. staged'[r] \in [S -> RawPost] /\ \A q \in S : staged'[r][q].status \in Verdict
  BY <1>3, <1>4
<1>6. /\ loaded' = loaded /\ pc' = pc /\ todo'[r] \subseteq todo[r]
      /\ \A o \in Runs \ {r} : todo'[o] = todo[o]
  BY TypeParts DEF Compare
<1>7. SessionType'
  BY <1>4, <1>5, <1>6, SessionChanged DEF Compare
<1>8. embedder' \in {"untried", "loaded", "broken"}
  BY <1>a, TypeParts DEF Embed
<1>9. TypeOK' /\ HandType' /\ asked' \in Nat /\ DOMAIN loaded' = Runs
  BY <1>8, TypeParts DEF Compare, TypeInv, TypeOK, HandType, Present, tables
<1> QED
  BY <1>4, <1>7, <1>9 DEF TypeInv

\* The rows of a run that are written are there, and keep to their type.
LEMMA MergeType ==
  ASSUME TypeInv, NEW r \in Runs, ~Refused(r), NEW p \in Dirty(r)
  PROVE  /\ Merge(row[p], loaded[r][p], staged[r][p]) \in RawPost
         /\ Merge(row[p], loaded[r][p], staged[r][p]).status \in {row[p].status, "new", "ready", "duplicate"}
         /\ Present(p) /\ p \in Posts
<1>1. loaded[r][p] \in RawPost /\ staged[r][p] \in RawPost /\ p \in Posts /\ staged[r][p].status \in Verdict
  BY DEF TypeInv, SessionType, Dirty
<1>2. row[p] \in RawPost /\ Present(p)
  BY <1>1 DEF TypeInv, TypeOK, Refused
<1> QED
  BY <1>1, <1>2 DEF Merge, Column, RawPost, Verdict

LEMMA CommitType ==
  ASSUME TypeInv, NEW r \in Runs, CommitVerdicts(r)
  PROVE  TypeInv' /\ \A p \in Posts : Present(p)' <=> Present(p)
<1>1. row' \in [Posts -> RawPost]
  BY MergeType, TypeParts DEF CommitVerdicts
<1>2. \A p \in Posts : Present(p)' <=> Present(p)
  BY MergeType, TypeParts DEF CommitVerdicts, Present
<1>3. /\ loaded'[r] = Unread /\ staged'[r] = Unread /\ pc'[r] = "committed"
      /\ DOMAIN loaded' = Runs /\ DOMAIN staged' = Runs
      /\ \A o \in Runs \ {r} : /\ loaded'[o] = loaded[o] /\ staged'[o] = staged[o]
                               /\ pc'[o] = pc[o] /\ todo'[o] = todo[o]
  BY TypeParts DEF CommitVerdicts, Forget, TypeInv
<1>4. Unread \in [{} -> RawPost] /\ {} \in SUBSET Posts
  BY DEF Unread
<1>5. SessionType'
  BY <1>3, <1>4, SessionChanged
<1>6. before' \in [Posts -> SUBSET Posts]
  BY TypeParts DEF CommitVerdicts
<1>7. DraftType(draft)'
  BY <1>2, TypeParts DEF CommitVerdicts, DraftType
<1>8. TypeOK' /\ HandType' /\ asked' \in Nat
  BY <1>1, <1>6, <1>7, TypeParts DEF CommitVerdicts, TypeInv, TypeOK, HandType, DraftType, Places
<1> QED
  BY <1>2, <1>3, <1>5, <1>8 DEF TypeInv

\* Steps that leave the sessions of the runs and the posts alone.
LEMMA FailsType ==
  ASSUME TypeInv, NEW r \in Runs, RunFails(r)
  PROVE  TypeInv'
<1>1. /\ pc' \in [Actors -> Places] /\ todo' \in [Actors -> SUBSET Posts]
      /\ cur' \in [Actors -> Posts \cup Drafts \cup {None}] /\ seen' \in [Actors -> RawStatus]
      /\ HandType' /\ pc'[r] = "idle" /\ \A o \in Runs \ {r} : pc'[o] = pc[o] /\ todo'[o] = todo[o]
  BY IdleType, TypeParts DEF RunFails
<1>2. TypeOK' /\ asked' \in Nat
  BY <1>1 DEF RunFails, TypeInv, TypeOK, Present, tables
<1>3. /\ DOMAIN loaded' = Runs /\ DOMAIN staged' = Runs
      /\ loaded'[r] = Unread /\ staged'[r] = Unread
      /\ \A o \in Runs \ {r} : loaded'[o] = loaded[o] /\ staged'[o] = staged[o]
  BY DEF RunFails, Forget, TypeInv
<1>4. Unread \in [{} -> RawPost] /\ {} \in SUBSET Posts
  BY DEF Unread
<1>5. SessionType'
  BY <1>1, <1>3, <1>4, SessionChanged
<1> QED
  BY <1>1, <1>2, <1>3, <1>5 DEF TypeInv

LEMMA HandOnlyType ==
  ASSUME TypeInv, NEW a \in Actors,
         \/ a \in Runs /\ (ListReady(a) \/ EndRun(a) \/ \E p \in Posts : AskModel(a, p) \/ AutoSkip(a, p))
         \/ GenerationFailed(a) \/ EndGenerate(a) \/ \E p \in Posts : GenerateNext(a, p)
  PROVE  TypeInv'
<1>1. CASE Idle(a) /\ UNCHANGED <<tables, recent, embedder, session, asked, before, shared>>
  <2>1. /\ pc' \in [Actors -> Places] /\ todo' \in [Actors -> SUBSET Posts]
        /\ cur' \in [Actors -> Posts \cup Drafts \cup {None}] /\ seen' \in [Actors -> RawStatus]
        /\ HandType' /\ pc'[a] = "idle" /\ \A o \in Runs \ {a} : pc'[o] = pc[o] /\ todo'[o] = todo[o]
    BY <1>1, IdleType
  <2>2. SessionType' /\ DOMAIN loaded' = Runs /\ DOMAIN staged' = Runs
    BY <1>1, <2>1, SessionKept
  <2>3. TypeOK' /\ asked' \in Nat
    BY <1>1, <2>1 DEF TypeInv, TypeOK, Present, tables
  <2> QED
    BY <2>1, <2>2, <2>3 DEF TypeInv
<1>2. CASE a \in Runs /\ ListReady(a)
  <2>1. Listed \subseteq Posts /\ pc'[a] = "choosing" /\ \A o \in Runs \ {a} : pc'[o] = pc[o] /\ todo'[o] = todo[o]
    BY <1>2, TypeParts DEF Listed, ListReady
  <2>2. SessionType' /\ DOMAIN loaded' = Runs /\ DOMAIN staged' = Runs
    BY <1>2, <2>1, SessionKept DEF ListReady
  <2>3. TypeOK' /\ HandType' /\ asked' \in Nat
    BY <1>2, <2>1, TypeParts DEF ListReady, TypeInv, TypeOK, HandType, Present, tables, Places
  <2> QED
    BY <2>2, <2>3 DEF TypeInv
<1>3. ASSUME NEW p \in Posts, NEW asking \in {"asking", "generating"}, LookUp(a, p, asking), Present(p)
      PROVE  TypeInv'
  <2>1. pc'[a] # "comparing" /\ \A o \in Runs \ {a} : pc'[o] = pc[o] /\ todo'[o] = todo[o]
    BY <1>3, TypeParts DEF LookUp
  <2>2. SessionType' /\ DOMAIN loaded' = Runs /\ DOMAIN staged' = Runs
    BY <1>3, <2>1, SessionKept DEF LookUp
  <2>3. row[p].status \in RawStatus
    BY TypeParts DEF RawPost
  <2>4. TypeOK' /\ HandType' /\ asked' \in Nat
    BY <1>3, <2>3, TypeParts DEF LookUp, TypeInv, TypeOK, HandType, Present, tables, Places
  <2> QED
    BY <2>2, <2>4 DEF TypeInv
<1>4. CASE a \in Runs /\ \E p \in Posts : AutoSkip(a, p)
  <2>1. \A o \in Runs : pc'[o] = pc[o] /\ (pc[o] = "comparing" => todo'[o] \subseteq todo[o])
    BY <1>4, TypeParts DEF AutoSkip
  <2>2. SessionType' /\ DOMAIN loaded' = Runs /\ DOMAIN staged' = Runs
    BY <1>4, <2>1, SessionKept DEF AutoSkip
  <2>3. TypeOK' /\ HandType' /\ asked' \in Nat
    BY <1>4, TypeParts DEF AutoSkip, TypeInv, TypeOK, HandType, Present, tables
  <2> QED
    BY <2>2, <2>3 DEF TypeInv
<1>5. ASSUME NEW p \in Posts, NEW asking \in {"asking", "generating"}, LookUp(a, p, asking)
      PROVE  TypeInv'
  BY <1>1, <1>3, <1>5 DEF LookUp
<1>6. CASE Onward(a, "selected") /\ UNCHANGED <<tables, recent, embedder, session, asked, before, shared>>
  <2>1. /\ pc' \in [Actors -> Places] /\ todo' \in [Actors -> SUBSET Posts]
        /\ cur' \in [Actors -> Posts \cup Drafts \cup {None}] /\ seen' \in [Actors -> RawStatus]
        /\ HandType' /\ pc'[a] = "selected" /\ \A o \in Runs \ {a} : pc'[o] = pc[o] /\ todo'[o] = todo[o]
    BY <1>6, OnwardType
  <2>2. SessionType' /\ DOMAIN loaded' = Runs /\ DOMAIN staged' = Runs
    BY <1>6, <2>1, SessionKept
  <2>3. TypeOK' /\ asked' \in Nat
    BY <1>6, <2>1 DEF TypeInv, TypeOK, Present, tables
  <2> QED
    BY <2>1, <2>2, <2>3 DEF TypeInv
<1> QED
  BY <1>1, <1>2, <1>4, <1>5, <1>6 DEF EndRun, GenerationFailed, EndGenerate, AskModel, GenerateNext
-----------------------------------------------------------------------------
(* Steps that change posts and drafts.                                     *)

\* No step but SaveAuto makes an automatic draft.
DraftsKept == \A d \in Drafts : draft'[d].auto => draft[d].auto /\ draft'[d].of = draft[d].of

LEMMA OneStatus ==
  ASSUME TypeInv, NEW p \in Posts, Present(p), NEW s \in Settled,
         row' = [row EXCEPT ![p].status = s]
  PROVE  StatusOnly
<1>1. row \in [Posts -> RawPost]
  BY TypeParts
<1>2. \A q \in Posts \ {p} : row'[q] = row[q]
  BY <1>1
<1>3. row'[p] = [row[p] EXCEPT !.status = s] /\ row'[p] \in RawPost
  BY <1>1, SettledRow
<1> QED
  BY <1>1, <1>2, <1>3 DEF StatusOnly

LEMMA WriteType ==
  ASSUME TypeInv, NEW a \in Actors, NEW p \in Posts, Present(p), NEW s \in Settled, row' = Write(p, a, s)
  PROVE  StatusOnly
<1>1. CASE seen[a] = s
  BY <1>1, TypeParts DEF Write, StatusOnly
<1>2. CASE seen[a] # s
  BY <1>2, OneStatus DEF Write
<1> QED
  BY <1>1, <1>2

\* The rest of the type is kept when the drafts keep to theirs.
LEMMA TablesType ==
  ASSUME TypeInv, row' \in [Posts -> RawPost], DraftType(draft)', recent' \subseteq Posts,
         embedder' = embedder, session' = session, asked' \in Nat, before' = before, shared' = shared,
         pc' \in [Actors -> Places], todo' \in [Actors -> SUBSET Posts],
         cur' \in [Actors -> Posts \cup Drafts \cup {None}], seen' \in [Actors -> RawStatus],
         HandType', \A r \in Runs : pc'[r] = "comparing" => pc[r] = "comparing" /\ todo'[r] \subseteq todo[r]
  PROVE  TypeInv'
<1>1. SessionType' /\ DOMAIN loaded' = Runs /\ DOMAIN staged' = Runs
  BY SessionKept
<1>2. TypeOK'
  BY TypeParts DEF TypeOK, DraftType
<1> QED
  BY <1>1, <1>2 DEF TypeInv

LEMMA DraftsStay ==
  ASSUME TypeInv, StatusOnly, draft' = draft
  PROVE  DraftType(draft)' /\ DraftsKept
<1>1. \A p \in Posts : Present(p)' <=> Present(p)
  BY StatusOnlyFacts
<1> QED
  BY <1>1, TypeParts DEF DraftType, DraftsKept

\* A draft is written for a post that is there, or takes another status.
LEMMA DraftWritten ==
  ASSUME TypeInv, StatusOnly, NEW d \in Drafts, NEW p \in Posts, Present(p), NEW s \in GenStatus, NEW auto \in BOOLEAN,
         draft' = [draft EXCEPT ![d] = [status |-> s, of |-> p, auto |-> auto]]
  PROVE  DraftType(draft)' /\ (~auto => DraftsKept)
<1>1. \A q \in Posts : Present(q)' <=> Present(q)
  BY StatusOnlyFacts
<1> QED
  BY <1>1, TypeParts DEF DraftType, DraftsKept

LEMMA DraftStatus ==
  ASSUME TypeInv, StatusOnly, NEW d \in Drafts, draft[d] # NoDraft, NEW s \in GenStatus,
         draft' = [draft EXCEPT ![d].status = s]
  PROVE  DraftType(draft)' /\ DraftsKept
<1>1. \A q \in Posts : Present(q)' <=> Present(q)
  BY StatusOnlyFacts
<1> QED
  BY <1>1, TypeParts DEF DraftType, DraftsKept

LEMMA UnsuitableType ==
  ASSUME TypeInv, NEW r \in Runs, Unsuitable(r)
  PROVE  TypeInv' /\ StatusOnly /\ DraftsKept
<1>1. cur[r] \in Posts
  BY TypeParts DEF Unsuitable, TypeInv, HandType
<1>2. StatusOnly
  <2>1. CASE Present(cur[r])
    BY <1>1, <2>1, WriteType, TypeParts DEF Unsuitable, Settled
  <2>2. CASE ~Present(cur[r])
    BY <2>2, TypeParts DEF Unsuitable, StatusOnly
  <2> QED
    BY <2>1, <2>2
<1>3. /\ pc' \in [Actors -> Places] /\ todo' \in [Actors -> SUBSET Posts]
      /\ cur' \in [Actors -> Posts \cup Drafts \cup {None}] /\ seen' \in [Actors -> RawStatus]
      /\ HandType' /\ \A o \in Runs : pc'[o] = "comparing" => pc[o] = "comparing" /\ todo'[o] \subseteq todo[o]
  BY IdleType, OnwardType, TypeParts DEF Unsuitable
<1>4. DraftType(draft)' /\ DraftsKept
  BY <1>2, DraftsStay DEF Unsuitable
<1> QED
  BY <1>2, <1>3, <1>4, TablesType, TypeParts DEF Unsuitable, StatusOnly

LEMMA SaveAutoType ==
  ASSUME TypeInv, NEW r \in Runs, NEW d \in Drafts, SaveAuto(r, d)
  PROVE  TypeInv' /\ StatusOnly
<1>1. cur[r] \in Posts
  BY TypeParts DEF SaveAuto, TypeInv, HandType
<1>2. CASE Present(cur[r])
  <2>1. StatusOnly
    BY <1>1, <1>2, WriteType, TypeParts DEF SaveAuto, Settled
  <2>2. DraftType(draft)'
    BY <1>1, <1>2, <2>1, DraftWritten DEF SaveAuto, GenStatus
  <2>3. /\ pc' \in [Actors -> Places] /\ todo' \in [Actors -> SUBSET Posts]
        /\ cur' \in [Actors -> Posts \cup Drafts \cup {None}] /\ seen' \in [Actors -> RawStatus]
        /\ HandType' /\ \A o \in Runs : pc'[o] = "comparing" => pc[o] = "comparing" /\ todo'[o] \subseteq todo[o]
    BY <1>2, TypeParts DEF SaveAuto, TypeInv, HandType, Places, RawStatus
  <2> QED
    BY <2>1, <2>2, <2>3, TablesType, TypeParts DEF SaveAuto, StatusOnly
<1>3. CASE ~Present(cur[r])
  <2>1. StatusOnly /\ draft' = draft
    BY <1>3, TypeParts DEF SaveAuto, StatusOnly, tables
  <2>2. /\ pc' \in [Actors -> Places] /\ todo' \in [Actors -> SUBSET Posts]
        /\ cur' \in [Actors -> Posts \cup Drafts \cup {None}] /\ seen' \in [Actors -> RawStatus]
        /\ HandType' /\ \A o \in Runs : pc'[o] = "comparing" => pc[o] = "comparing" /\ todo'[o] \subseteq todo[o]
    BY <1>3, IdleType, TypeParts DEF SaveAuto
  <2>3. DraftType(draft)'
    BY <2>1, DraftsStay
  <2> QED
    BY <2>1, <2>2, <2>3, TablesType, TypeParts DEF SaveAuto, StatusOnly
<1> QED
  BY <1>2, <1>3

LEMMA AutoPublishType ==
  ASSUME NewsroomAssumption, TypeInv, NEW r \in Runs, AutoPublish(r)
  PROVE  TypeInv' /\ StatusOnly /\ DraftsKept
<1>1. cur[r] \in Drafts
  BY TypeParts DEF AutoPublish, TypeInv, HandType
<1>2. /\ pc' \in [Actors -> Places] /\ todo' \in [Actors -> SUBSET Posts]
      /\ cur' \in [Actors -> Posts \cup Drafts \cup {None}] /\ seen' \in [Actors -> RawStatus]
      /\ HandType' /\ \A o \in Runs : pc'[o] = "comparing" => pc[o] = "comparing" /\ todo'[o] \subseteq todo[o]
  BY OnwardType, TypeParts DEF AutoPublish
<1>3. StatusOnly /\ DraftType(draft)' /\ DraftsKept
  <2>1. CASE UNCHANGED tables
    BY <2>1, DraftsStay, TypeParts DEF StatusOnly, tables
  <2>2. ASSUME draft[cur[r]] # NoDraft, NEW o \in Ends,
               draft' = [draft EXCEPT ![cur[r]].status = o],
               row' = IF o = "scheduled" THEN row ELSE [row EXCEPT ![draft[cur[r]].of].status = o]
        PROVE  StatusOnly /\ DraftType(draft)' /\ DraftsKept
    <3>1. draft[cur[r]].of \in Posts /\ Present(draft[cur[r]].of)
      BY <1>1, <2>2, TypeParts DEF DraftType
    <3>2. o \in GenStatus /\ (o # "scheduled" => o \in Settled)
      BY DEF NewsroomAssumption, GenStatus, Settled
    <3>3. StatusOnly
      BY <2>2, <3>1, <3>2, OneStatus, TypeParts DEF StatusOnly
    <3> QED
      BY <1>1, <2>2, <3>2, <3>3, DraftStatus
  <2> QED
    BY <2>1, <2>2 DEF AutoPublish
<1> QED
  BY <1>2, <1>3, TablesType, TypeParts DEF AutoPublish, StatusOnly

LEMMA SaveType ==
  ASSUME TypeInv, NEW c \in Actors, NEW d \in Drafts, Save(c, d)
  PROVE  TypeInv' /\ StatusOnly /\ DraftsKept
<1>1. cur[c] \in Posts
  BY TypeParts DEF Save, TypeInv, HandType
<1>2. CASE Present(cur[c])
  <2>1. PICK suitable \in BOOLEAN :
          /\ draft' = [e \in Drafts |->
               IF e = d THEN [status |-> IF suitable THEN "draft" ELSE "rejected",
                              of |-> cur[c], auto |-> FALSE]
               ELSE IF pc[c] = "regenerating" /\ draft[e].of = cur[c] /\ draft[e].status = "draft"
                    THEN [draft[e] EXCEPT !.status = "rejected"] ELSE draft[e]]
          /\ row' = Write(cur[c], c, IF suitable THEN "generated" ELSE "rejected")
    BY <1>2 DEF Save
  <2>2. StatusOnly
    BY <1>1, <1>2, <2>1, WriteType DEF Settled
  <2>3. \A p \in Posts : Present(p)' <=> Present(p)
    BY <2>2, StatusOnlyFacts
  <2>4. ASSUME NEW e \in Drafts
        PROVE  /\ \/ draft'[e] = NoDraft
                  \/ /\ draft'[e].status \in GenStatus /\ draft'[e].auto \in BOOLEAN
                     /\ draft'[e].of \in Posts /\ Present(draft'[e].of)
               /\ draft'[e].auto => draft[e].auto /\ draft'[e].of = draft[e].of
    <3>1. CASE e = d
      BY <1>1, <1>2, <2>1, <3>1 DEF GenStatus
    <3>2. CASE e # d /\ draft[e] = NoDraft
      <4>1. draft'[e] = NoDraft
        BY <1>1, <2>1, <3>2 DEF NoDraft
      <4> QED
        BY <4>1 DEF NoDraft
    <3>3. CASE e # d /\ draft[e] # NoDraft
      BY <2>1, <3>3, TypeParts DEF DraftType, GenStatus
    <3> QED
      BY <3>1, <3>2, <3>3
  <2>5. DraftType(draft)' /\ DraftsKept
    BY <2>1, <2>3, <2>4 DEF DraftType, DraftsKept
  <2>6. /\ pc' \in [Actors -> Places] /\ todo' \in [Actors -> SUBSET Posts]
        /\ cur' \in [Actors -> Posts \cup Drafts \cup {None}] /\ seen' \in [Actors -> RawStatus]
        /\ HandType' /\ \A o \in Runs : pc'[o] = "comparing" => pc[o] = "comparing" /\ todo'[o] \subseteq todo[o]
    BY <1>2, IdleType, OnwardType, TypeParts DEF Save
  <2> QED
    BY <2>2, <2>5, <2>6, TablesType, TypeParts DEF Save, StatusOnly
<1>3. CASE ~Present(cur[c])
  <2>1. StatusOnly /\ draft' = draft
    BY <1>3, TypeParts DEF Save, StatusOnly, tables
  <2>2. /\ pc' \in [Actors -> Places] /\ todo' \in [Actors -> SUBSET Posts]
        /\ cur' \in [Actors -> Posts \cup Drafts \cup {None}] /\ seen' \in [Actors -> RawStatus]
        /\ HandType' /\ \A o \in Runs : pc'[o] = "comparing" => pc[o] = "comparing" /\ todo'[o] \subseteq todo[o]
    BY <1>3, IdleType, TypeParts DEF Save
  <2>3. DraftType(draft)' /\ DraftsKept
    BY <2>1, DraftsStay
  <2> QED
    BY <2>1, <2>2, <2>3, TablesType, TypeParts DEF Save, StatusOnly
<1> QED
  BY <1>2, <1>3

\* The requests that start, the clock, and the end of the process.
LEMMA StillType ==
  ASSUME TypeInv, asked' \in Nat,
         \/ \E c \in Desks : \/ \E posts \in SUBSET Posts : Generate(c, posts)
                             \/ \E p \in Posts : Regenerate(c, p)
                             \/ Compose(c)
         \/ \E p \in Posts : Age(p)
         \/ Restart
  PROVE  TypeInv' /\ UNCHANGED tables
<1>0. DraftType(draft) /\ row \in [Posts -> RawPost]
  BY TypeParts
<1>1. ASSUME NEW c \in Desks, NEW posts \in SUBSET Posts, Generate(c, posts) PROVE TypeInv' /\ UNCHANGED tables
  <2>1. /\ pc' \in [Actors -> Places] /\ todo' \in [Actors -> SUBSET Posts] /\ HandType'
        /\ \A o \in Runs : pc'[o] = "comparing" => pc[o] = "comparing" /\ todo'[o] \subseteq todo[o]
    BY <1>1, TypeParts DEF Generate, TypeInv, HandType, Places
  <2> QED
    BY <1>0, <1>1, <2>1, TablesType, TypeParts DEF Generate, tables, DraftType, Present
<1>2. ASSUME NEW c \in Desks, NEW p \in Posts, Regenerate(c, p) PROVE TypeInv' /\ UNCHANGED tables
  <2>1. row[p].status \in RawStatus
    BY <1>0 DEF RawPost
  <2>2. /\ pc' \in [Actors -> Places] /\ cur' \in [Actors -> Posts \cup Drafts \cup {None}]
        /\ seen' \in [Actors -> RawStatus] /\ HandType'
        /\ \A o \in Runs : pc'[o] = "comparing" => pc[o] = "comparing" /\ todo'[o] \subseteq todo[o]
    BY <1>2, <2>1, TypeParts DEF Regenerate, TypeInv, HandType, Places
  <2> QED
    BY <1>0, <1>2, <2>2, TablesType, TypeParts DEF Regenerate, tables, DraftType, Present
<1>3. ASSUME NEW c \in Desks, Compose(c) PROVE TypeInv' /\ UNCHANGED tables
  <2>1. /\ pc' \in [Actors -> Places] /\ HandType'
        /\ \A o \in Runs : pc'[o] = "comparing" => pc[o] = "comparing" /\ todo'[o] \subseteq todo[o]
    BY <1>3, TypeParts DEF Compose, TypeInv, HandType, Places
  <2> QED
    BY <1>0, <1>3, <2>1, TablesType, TypeParts DEF Compose, tables, DraftType, Present
<1>4. ASSUME NEW p \in Posts, Age(p) PROVE TypeInv' /\ UNCHANGED tables
  BY <1>0, <1>4, TablesType, TypeParts DEF Age, tables, hand, DraftType, Present, TypeInv, HandType
<1>5. ASSUME Restart PROVE TypeInv' /\ UNCHANGED tables
  <2>1. /\ pc' \in [Actors -> Places] /\ todo' \in [Actors -> SUBSET Posts]
        /\ cur' \in [Actors -> Posts \cup Drafts \cup {None}] /\ seen' \in [Actors -> RawStatus]
        /\ HandType' /\ \A o \in Runs : pc'[o] = "idle"
    BY <1>5, TypeParts DEF Restart, HandType, Places, RawStatus
  <2>2. Unread \in [{} -> RawPost] /\ {} \in SUBSET Posts
    BY DEF Unread
  <2>3. SessionType' /\ DOMAIN loaded' = Runs /\ DOMAIN staged' = Runs
    BY <1>5, <2>1, <2>2 DEF Restart, SessionType
  <2>4. TypeOK'
    BY <1>5, <2>1 DEF Restart, TypeInv, TypeOK, tables, Present
  <2> QED
    BY <1>5, <2>1, <2>3, <2>4 DEF TypeInv, Restart
<1> QED
  BY <1>1, <1>2, <1>3, <1>4, <1>5

\* New posts.
LEMMA ArriveType ==
  ASSUME TypeInv, NEW p \in Posts, Arrive(p)
  PROVE  /\ TypeInv' /\ draft' = draft
         /\ row' = [row EXCEPT ![p].status = "new"] /\ Present(p)' /\ ~Present(p)
         /\ \A q \in Posts \ {p} : row'[q] = row[q]
<1>1. row \in [Posts -> RawPost] /\ DraftType(draft)
  BY TypeParts
<1>2. row' \in [Posts -> RawPost] /\ Present(p)' /\ ~Present(p) /\ \A q \in Posts \ {p} : row'[q] = row[q]
  <2>1. [NoPost EXCEPT !.status = "new"] \in RawPost /\ [NoPost EXCEPT !.status = "new"].status = "new"
    BY DEF NoPost, RawPost, RawStatus
  <2>2. NoPost.status = "absent"
    BY DEF NoPost
  <2>3. row'[p] = [NoPost EXCEPT !.status = "new"] /\ \A q \in Posts \ {p} : row'[q] = row[q]
    BY <1>1 DEF Arrive
  <2>4. row' = [q \in Posts |-> row'[q]]
    BY <1>1 DEF Arrive
  <2> QED
    BY <1>1, <2>1, <2>2, <2>3, <2>4 DEF Arrive, Present
<1>3. DraftType(draft)'
  <2>1. \A q \in Posts : Present(q) => Present(q)'
    BY <1>2 DEF Present
  <2> QED
    BY <1>1, <2>1 DEF Arrive, DraftType
<1> QED
  BY <1>1, <1>2, <1>3, TablesType, TypeParts DEF Arrive, hand, TypeInv, HandType

LEMMA SaveComposedType ==
  ASSUME NewsroomAssumption, TypeInv, NEW c \in Desks, NEW p \in Composed, NEW d \in Drafts, SaveComposed(c, p, d)
  PROVE  /\ TypeInv' /\ DraftsKept /\ p \in Posts
         /\ row' = [row EXCEPT ![p] = ManualPost] /\ Present(p)' /\ ~Present(p)
         /\ \A q \in Posts \ {p} : row'[q] = row[q]
<1>1. row \in [Posts -> RawPost] /\ DraftType(draft) /\ p \in Posts
  BY TypeParts DEF NewsroomAssumption
<1>2. ManualPost \in RawPost /\ ManualPost.status = "generated"
  BY DEF ManualPost, NoPost, RawPost, RawStatus
<1>3. /\ row' \in [Posts -> RawPost] /\ Present(p)' /\ ~Present(p) /\ \A q \in Posts \ {p} : row'[q] = row[q]
      /\ row' = [row EXCEPT ![p] = ManualPost]
  BY <1>1, <1>2 DEF SaveComposed, Present, NoPost
<1>4. DraftType(draft)' /\ DraftsKept
  <2>1. \A q \in Posts : Present(q) => Present(q)'
    BY <1>3 DEF Present
  <2> QED
    BY <1>1, <1>3, <2>1 DEF SaveComposed, DraftType, DraftsKept, GenStatus
<1>5. /\ pc' \in [Actors -> Places] /\ todo' \in [Actors -> SUBSET Posts]
      /\ cur' \in [Actors -> Posts \cup Drafts \cup {None}] /\ seen' \in [Actors -> RawStatus]
      /\ HandType' /\ \A o \in Runs : pc'[o] = "comparing" => pc[o] = "comparing" /\ todo'[o] \subseteq todo[o]
  BY IdleType, TypeParts DEF SaveComposed, NewsroomAssumption
<1>6. before' \in [Posts -> SUBSET Posts]
  BY TypeParts DEF SaveComposed
<1>7. SessionType' /\ DOMAIN loaded' = Runs /\ DOMAIN staged' = Runs
  BY <1>5, SessionKept DEF SaveComposed
<1>8. TypeOK'
  BY <1>1, <1>3, <1>4, <1>5, <1>6, TypeParts DEF SaveComposed, TypeOK, DraftType
<1> QED
  BY <1>1, <1>3, <1>4, <1>5, <1>7, <1>8, TypeParts DEF TypeInv, SaveComposed

\* Requests in threads.
LEMMA StatusThreadType ==
  ASSUME TypeInv, asked' \in Nat,
         \/ \E p \in Posts, d \in Drafts : EditDraft(p, d)
         \/ \E p \in Posts : RejectPost(p)
         \/ \E posts \in SUBSET Posts : BulkReject(posts)
         \/ \E d \in Drafts : RejectGenerated(d)
  PROVE  /\ TypeInv' /\ StatusOnly /\ DraftsKept
         /\ UNCHANGED <<recent, embedder, hand, session, before, shared>>
<1>0. row \in [Posts -> RawPost] /\ DraftType(draft)
  BY TypeParts
<1>1. StatusOnly /\ DraftType(draft)' /\ DraftsKept
  <2>1. ASSUME NEW p \in Posts, NEW d \in Drafts, EditDraft(p, d) PROVE StatusOnly /\ DraftType(draft)' /\ DraftsKept
    <3>1. StatusOnly
      BY <2>1, OneStatus DEF EditDraft, Settled
    <3> QED
      BY <2>1, <3>1, DraftWritten DEF EditDraft, GenStatus
  <2>2. ASSUME NEW p \in Posts, RejectPost(p) PROVE StatusOnly /\ DraftType(draft)' /\ DraftsKept
    <3>1. StatusOnly
      BY <2>2, OneStatus DEF RejectPost, Settled
    <3> QED
      BY <2>2, <3>1, DraftsStay DEF RejectPost
  <2>3. ASSUME NEW posts \in SUBSET Posts, BulkReject(posts) PROVE StatusOnly /\ DraftType(draft)' /\ DraftsKept
    <3>1. StatusOnly
      BY <1>0, <2>3, SettledRow DEF BulkReject, Settled, StatusOnly
    <3> QED
      BY <2>3, <3>1, DraftsStay DEF BulkReject
  <2>4. ASSUME NEW d \in Drafts, RejectGenerated(d) PROVE StatusOnly /\ DraftType(draft)' /\ DraftsKept
    <3>1. draft[d].of \in Posts /\ Present(draft[d].of)
      BY <1>0, <2>4 DEF RejectGenerated, DraftType
    <3>2. StatusOnly
      BY <2>4, <3>1, OneStatus DEF RejectGenerated, Settled
    <3> QED
      BY <2>4, <3>2, DraftStatus DEF RejectGenerated, GenStatus
  <2> QED
    BY <2>1, <2>2, <2>3, <2>4
<1>2. UNCHANGED <<recent, embedder, hand, session, before, shared>>
  BY DEF EditDraft, RejectPost, BulkReject, RejectGenerated
<1> QED
  BY <1>1, <1>2, TablesType, TypeParts DEF StatusOnly, hand, TypeInv, HandType

LEMMA DeleteType ==
  ASSUME TypeInv, asked' \in Nat, NEW posts \in SUBSET Posts, DeletePosts(posts)
  PROVE  /\ TypeInv' /\ DraftsKept
         /\ \A p \in posts : row'[p] = [NoPost EXCEPT !.status = "deleted"]
         /\ \A p \in Posts \ posts : /\ row'[p].status = row[p].status /\ row'[p].hashed = row[p].hashed
                                     /\ row'[p].dup = IF row[p].dup \in posts THEN None ELSE row[p].dup
<1>0. row \in [Posts -> RawPost] /\ DraftType(draft)
  BY TypeParts
<1>1. /\ row' \in [Posts -> RawPost]
      /\ \A p \in posts : row'[p] = [NoPost EXCEPT !.status = "deleted"]
      /\ \A p \in Posts \ posts : /\ row'[p].status = row[p].status /\ row'[p].hashed = row[p].hashed
                                  /\ row'[p].dup = IF row[p].dup \in posts THEN None ELSE row[p].dup
  <2>1. [NoPost EXCEPT !.status = "deleted"] \in RawPost
    BY DEF NoPost, RawPost, RawStatus
  <2>2. ASSUME NEW x \in RawPost
        PROVE  /\ [x EXCEPT !.dup = None] \in RawPost /\ [x EXCEPT !.dup = None].status = x.status
               /\ [x EXCEPT !.dup = None].hashed = x.hashed /\ [x EXCEPT !.dup = None].dup = None
    BY DEF RawPost
  <2> QED
    BY <1>0, <2>1, <2>2 DEF DeletePosts, Removed
<1>2. DraftType(draft)' /\ DraftsKept
  BY <1>0, <1>1 DEF DeletePosts, Kept, DraftType, DraftsKept, Present, NoDraft
<1>3. recent' \subseteq Posts
  BY TypeParts DEF DeletePosts
<1> QED
  BY <1>1, <1>2, <1>3, TablesType, TypeParts DEF DeletePosts, hand, TypeInv, HandType

LEMMA TypeStep == ASSUME NewsroomAssumption, TypeInv, [Next]_vars PROVE TypeInv'
<1>1. CASE UNCHANGED vars
  BY <1>1 DEF vars, TypeInv, TypeOK, SessionType, HandType, Present
<1>2. ASSUME NEW r \in Runs, Run(r) PROVE TypeInv'
  BY <1>2, StartType, CommitType, FailsType, HandOnlyType, CompareType, UnsuitableType,
     AutoPublishType, SaveAutoType DEF Run, Actors
<1>3. ASSUME NEW k, Request(k) PROVE asked' \in Nat
  BY <1>3 DEF Request, TypeInv
<1>4. ASSUME NEW c \in Desks, Desk(c) PROVE TypeInv'
  BY <1>3, <1>4, StillType, HandOnlyType, SaveType, SaveComposedType DEF Desk, Actors
<1>5. ASSUME Threads PROVE TypeInv'
  BY <1>3, <1>5, StatusThreadType, DeleteType DEF Threads, DeletePost, BulkDelete
<1>6. ASSUME NEW p \in Posts, Arrive(p) \/ Age(p) PROVE TypeInv'
  BY <1>6, ArriveType, StillType DEF Age, TypeInv
<1>7. CASE Restart
  BY <1>7, StillType DEF Restart, TypeInv
<1> QED
  BY <1>1, <1>2, <1>4, <1>5, <1>6, <1>7 DEF Next

\* The posts, the drafts, the runs and the requests keep their types, and a draft
\* belongs to a post that exists.
THEOREM NewsroomTypeCorrect == ASSUME NewsroomAssumption PROVE Spec => []TypeOK
<1>1. Init => TypeInv
  BY TypeInit
<1>2. TypeInv /\ [Next]_vars => TypeInv'
  BY TypeStep
<1>3. TypeInv => TypeOK
  BY DEF TypeInv
<1> QED
  BY <1>1, <1>2, <1>3, PTL DEF Spec

-----------------------------------------------------------------------------
(* The original of a duplicate.                                            *)

\* What a step may do to the posts, whoever takes it.
LEMMA RowSteps ==
  ASSUME NewsroomAssumption, TypeInv, [Next]_vars
  PROVE  \/ StatusOnly /\ UNCHANGED before
         \/ \E p \in Posts : Arrive(p)
         \/ \E c \in Desks, p \in Composed, d \in Drafts : SaveComposed(c, p, d)
         \/ \E r \in Runs : CommitVerdicts(r)
         \/ \E posts \in SUBSET Posts : DeletePosts(posts)
<1>0. row' = row => StatusOnly
  BY TypeParts DEF StatusOnly
<1>1. CASE UNCHANGED vars
  BY <1>0, <1>1 DEF vars
<1>2. ASSUME NEW r \in Runs, Run(r)
      PROVE  (StatusOnly /\ UNCHANGED before) \/ CommitVerdicts(r)
  <2>1. CASE StartRun(r) \/ RunFails(r) \/ ListReady(r) \/ EndRun(r) \/ GenerationFailed(r)
             \/ \E p \in Posts : Compare(r, p) \/ AskModel(r, p) \/ AutoSkip(r, p)
    BY <1>0, <2>1 DEF StartRun, RunFails, ListReady, EndRun, GenerationFailed, Compare, AskModel,
                      LookUp, AutoSkip, tables
  <2>2. CASE Unsuitable(r) \/ AutoPublish(r) \/ \E d \in Drafts : SaveAuto(r, d)
    <3>1. StatusOnly
      BY <2>2, UnsuitableType, AutoPublishType, SaveAutoType
    <3> QED
      BY <2>2, <3>1 DEF Unsuitable, AutoPublish, SaveAuto
  <2> QED
    BY <1>2, <2>1, <2>2 DEF Run
<1>3. ASSUME NEW c \in Desks, Desk(c)
      PROVE  \/ StatusOnly /\ UNCHANGED before
             \/ \E p \in Composed, d \in Drafts : SaveComposed(c, p, d)
  <2>1. CASE \E d \in Drafts : Save(c, d)
    <3>1. StatusOnly
      BY <2>1, SaveType, TypeParts
    <3> QED
      BY <2>1, <3>1 DEF Save
  <2>2. CASE \/ \E posts \in SUBSET Posts : Generate(c, posts)
             \/ \E p \in Posts : Generate(c, {p}) \/ Regenerate(c, p) \/ GenerateNext(c, p)
             \/ Compose(c) \/ EndGenerate(c) \/ GenerationFailed(c)
    BY <1>0, <2>2 DEF Generate, Regenerate, GenerateNext, LookUp, Compose, EndGenerate, GenerationFailed, tables
  <2> QED
    BY <1>3, <2>1, <2>2 DEF Desk
<1>4. ASSUME Threads
      PROVE  (StatusOnly /\ UNCHANGED before) \/ \E posts \in SUBSET Posts : DeletePosts(posts)
  <2>1. asked' \in Nat
    BY <1>4 DEF Threads, Request, TypeInv
  <2> QED
    BY <1>4, <2>1, StatusThreadType DEF Threads, DeletePost, BulkDelete
<1>5. CASE Restart \/ \E p \in Posts : Age(p)
  BY <1>0, <1>5 DEF Restart, Age, tables
<1> QED
  BY <1>1, <1>2, <1>3, <1>4, <1>5 DEF Next

\* What a step may do to the session of a run.
LEMMA SessionSteps ==
  ASSUME NewsroomAssumption, TypeInv, [Next]_vars, NEW r \in Runs
  PROVE  \/ staged'[r] = staged[r] /\ loaded'[r] = loaded[r]
         \/ staged'[r] = Unread /\ loaded'[r] = Unread
         \/ StartRun(r)
         \/ \E p \in Posts : Compare(r, p)
<1>0. DOMAIN loaded = Runs /\ DOMAIN staged = Runs
  BY DEF TypeInv
<1>1. CASE UNCHANGED session
  BY <1>1 DEF session
<1>2. ASSUME NEW o \in Runs, Run(o), ~UNCHANGED session
      PROVE  StartRun(o) \/ CommitVerdicts(o) \/ RunFails(o) \/ \E p \in Posts : Compare(o, p)
  BY <1>2 DEF Run, ListReady, EndRun, AskModel, LookUp, AutoSkip, GenerationFailed, Unsuitable, AutoPublish, SaveAuto
<1>3. ASSUME NEW o \in Runs, StartRun(o) \/ CommitVerdicts(o) \/ RunFails(o) \/ \E p \in Posts : Compare(o, p)
      PROVE  \/ staged'[r] = staged[r] /\ loaded'[r] = loaded[r]
             \/ staged'[r] = Unread /\ loaded'[r] = Unread
             \/ StartRun(r)
             \/ \E p \in Posts : Compare(r, p)
  <2>1. CASE o = r
    BY <1>0, <1>3, <2>1 DEF CommitVerdicts, RunFails, Forget
  <2>2. CASE o # r
    <3>1. CASE StartRun(o)
      BY <1>0, <2>2, <3>1 DEF StartRun
    <3>2. CASE CommitVerdicts(o) \/ RunFails(o)
      BY <1>0, <2>2, <3>2 DEF CommitVerdicts, RunFails, Forget
    <3>3. CASE \E p \in Posts : Compare(o, p)
      BY <1>0, <2>2, <3>3 DEF Compare
    <3> QED
      BY <1>3, <3>1, <3>2, <3>3
  <2> QED
    BY <2>1, <2>2
<1>4. ASSUME NEW c \in Desks, Desk(c) PROVE UNCHANGED session
  BY <1>4 DEF Desk, Generate, Regenerate, GenerateNext, LookUp, Compose, EndGenerate, GenerationFailed, Save, SaveComposed
<1>5. ASSUME Threads PROVE UNCHANGED session
  BY <1>5 DEF Threads, EditDraft, RejectPost, BulkReject, DeletePost, BulkDelete, DeletePosts, RejectGenerated
<1>6. ASSUME NEW p \in Posts, Arrive(p) \/ Age(p) PROVE UNCHANGED session
  BY <1>6 DEF Arrive, Age
<1>7. CASE Restart
  BY <1>7 DEF Restart
<1>8. CASE UNCHANGED vars
  BY <1>8 DEF vars, session
<1> QED
  BY <1>1, <1>2, <1>3, <1>4, <1>5, <1>6, <1>7, <1>8 DEF Next

\* A run never stages a post as its own repeat.
StagedOriginals ==
  \A r \in Runs : \A p \in DOMAIN staged[r] :
    staged[r][p].dup # loaded[r][p].dup => staged[r][p].dup # p

LEMMA CommittedRow ==
  ASSUME TypeInv, NEW r \in Runs, CommitVerdicts(r), NEW p \in Posts
  PROVE  /\ p \notin Dirty(r) => row'[p] = row[p]
         /\ p \in Dirty(r) =>
              /\ Present(p)
              /\ row'[p].status = Column(row[p].status, loaded[r][p].status, staged[r][p].status)
              /\ row'[p].hashed = Column(row[p].hashed, loaded[r][p].hashed, staged[r][p].hashed)
              /\ row'[p].dup = Column(row[p].dup, loaded[r][p].dup, staged[r][p].dup)
              /\ staged[r][p].dup # loaded[r][p].dup => Present(staged[r][p].dup)
<1>1. p \notin Dirty(r) => row'[p] = row[p]
  BY DEF CommitVerdicts
<1>2. p \in Dirty(r) => row'[p] = Merge(row[p], loaded[r][p], staged[r][p])
  BY DEF CommitVerdicts
<1>3. p \in Dirty(r) => Present(p) /\ (staged[r][p].dup # loaded[r][p].dup => Present(staged[r][p].dup))
  BY DEF CommitVerdicts, Refused
<1> QED
  BY <1>1, <1>2, <1>3 DEF Merge

LEMMA OriginalStep ==
  ASSUME NewsroomAssumption, TypeInv, OriginalIsThere, StagedOriginals, [Next]_vars
  PROVE  OriginalIsThere' /\ StagedOriginals'
<1> DEFINE There(q) == row'[q].status \notin {"absent", "deleted"}
<1>0. \A q \in Posts : Present(q)' <=> There(q)
  BY DEF Present
<1> HIDE DEF There
<1>1. OriginalIsThere'
  <2> SUFFICES ASSUME NEW p \in Posts, row'[p].dup # None
               PROVE  row'[p].dup # p /\ There(row'[p].dup)
    BY DEF OriginalIsThere, Present, There
  <2>0. row[p].dup \in Posts \cup {None} /\ (row[p].dup # None => row[p].dup # p /\ Present(row[p].dup))
    BY TypeParts DEF OriginalIsThere, RawPost
  <2>1. CASE StatusOnly
    <3>1. row'[p].dup = row[p].dup
      BY <2>1, StatusOnlyFacts
    <3> QED
      BY <1>0, <2>0, <2>1, <3>1, StatusOnlyFacts
  <2>2. CASE \E q \in Posts : Arrive(q)
    <3>1. PICK q \in Posts : Arrive(q)
      BY <2>2
    <3>2. p # q
      BY <3>1, ArriveType, TypeParts DEF Arrive, NoPost, RawPost
    <3>3. row'[p] = row[p] /\ \A x \in Posts : Present(x) => Present(x)'
      BY <3>1, <3>2, ArriveType DEF Present
    <3> QED
      BY <1>0, <2>0, <3>3
  <2>3. CASE \E c \in Desks, q \in Composed, d \in Drafts : SaveComposed(c, q, d)
    <3>1. PICK c \in Desks, q \in Composed, d \in Drafts : SaveComposed(c, q, d)
      BY <2>3
    <3>2. /\ row' = [row EXCEPT ![q] = ManualPost] /\ q \in Posts /\ Present(q)' /\ ~Present(q)
          /\ \A x \in Posts \ {q} : row'[x] = row[x]
      BY <3>1, SaveComposedType
    <3>3. p # q
      BY <3>2, TypeParts DEF ManualPost, NoPost
    <3>4. row'[p] = row[p] /\ \A x \in Posts : Present(x) => Present(x)'
      BY <3>2, <3>3 DEF Present
    <3> QED
      BY <1>0, <2>0, <3>4
  <2>4. CASE \E r \in Runs : CommitVerdicts(r)
    <3>1. PICK r \in Runs : CommitVerdicts(r)
      BY <2>4
    <3>2. \A x \in Posts : Present(x)' <=> Present(x)
      BY <3>1, CommitType
    <3>3. CASE row'[p].dup = row[p].dup
      BY <1>0, <2>0, <3>2, <3>3
    <3>4. CASE row'[p].dup # row[p].dup
      <4>1. /\ p \in DOMAIN staged[r] /\ staged[r][p].dup # loaded[r][p].dup
            /\ row'[p].dup = staged[r][p].dup /\ Present(staged[r][p].dup)
        BY <3>1, <3>4, CommittedRow DEF Column, Dirty
      <4>2. row'[p].dup \in Posts
        BY <3>1, CommitType, TypeParts DEF TypeInv, TypeOK, RawPost
      <4> QED
        BY <1>0, <3>2, <4>1, <4>2 DEF StagedOriginals
    <3> QED
      BY <3>3, <3>4
  <2>5. CASE \E posts \in SUBSET Posts : DeletePosts(posts)
    <3>1. PICK posts \in SUBSET Posts : DeletePosts(posts)
      BY <2>5
    <3>2. row' = Removed(posts)
      BY <3>1 DEF DeletePosts
    <3>3. p \notin posts
      BY <3>2 DEF Removed, NoPost
    <3>4. row'[p].dup = row[p].dup /\ row[p].dup \notin posts
      BY <2>0, <3>2, <3>3, TypeParts DEF Removed, RawPost
    <3>5. row'[row[p].dup].status = row[row[p].dup].status
      BY <2>0, <3>2, <3>4, TypeParts DEF Removed, RawPost
    <3> QED
      BY <1>0, <2>0, <3>4, <3>5 DEF Present, There
  <2> QED
    BY <2>1, <2>2, <2>3, <2>4, <2>5, RowSteps
<1>2. StagedOriginals'
  <2> SUFFICES ASSUME NEW r \in Runs, NEW p \in DOMAIN staged'[r], staged'[r][p].dup # loaded'[r][p].dup
               PROVE  staged'[r][p].dup # p
    BY DEF StagedOriginals
  <2>1. CASE staged'[r] = staged[r] /\ loaded'[r] = loaded[r]
    BY <2>1 DEF StagedOriginals
  <2>2. CASE staged'[r] = Unread
    BY <2>2 DEF Unread
  <2>3. CASE StartRun(r)
    BY <2>3 DEF StartRun, TypeInv
  <2>4. CASE \E q \in Posts : Compare(r, q)
    <3>1. PICK q \in Posts : Compare(r, q)
      BY <2>4
    <3>2. q \in DOMAIN staged[r]
      BY <3>1 DEF Compare, TypeInv, SessionType
    <3>3. PICK vec \in BOOLEAN : \E post \in Verdicts(r, q, vec) : staged' = [staged EXCEPT ![r][q] = post]
      BY <3>1 DEF Compare
    <3>4. PICK post \in Verdicts(r, q, vec) : staged' = [staged EXCEPT ![r][q] = post]
      BY <3>3
    <3>5. /\ post.status \in {"ready", "duplicate"}
          /\ post.status = "duplicate" => post.dup # q
          /\ post.status = "ready" => post.dup = staged[r][q].dup
      BY <3>2, VerdictType
    <3>6. staged'[r] = [staged[r] EXCEPT ![q] = post] /\ loaded'[r] = loaded[r]
      BY <3>1, <3>4 DEF TypeInv, Compare
    <3>7. CASE p = q
      BY <3>2, <3>5, <3>6, <3>7 DEF StagedOriginals
    <3>8. CASE p # q
      BY <3>6, <3>8 DEF StagedOriginals
    <3> QED
      BY <3>7, <3>8
  <2> QED
    BY <2>1, <2>2, <2>3, <2>4, SessionSteps
<1> QED
  BY <1>1, <1>2

\* Whatever runs compare and requests delete, the original a duplicate names is a row
\* of the table, and not the duplicate itself.
THEOREM OriginalsAreThere == ASSUME NewsroomAssumption PROVE Spec => []OriginalIsThere
<1>1. Init => TypeInv /\ OriginalIsThere /\ StagedOriginals
  <2>1. ASSUME Init PROVE OriginalIsThere
    BY <2>1 DEF Init, OriginalIsThere, NoPost
  <2>2. ASSUME Init PROVE StagedOriginals
    BY <2>2 DEF Init, StagedOriginals, Unread
  <2> QED
    BY <2>1, <2>2, TypeInit
<1>2. TypeInv /\ OriginalIsThere /\ StagedOriginals /\ [Next]_vars
        => TypeInv' /\ OriginalIsThere' /\ StagedOriginals'
  BY TypeStep, OriginalStep
<1> QED
  BY <1>1, <1>2, PTL DEF Spec
-----------------------------------------------------------------------------
(* Where the runs are, and what they have chosen.                          *)

RunPlaces == {"idle", "comparing", "committed", "choosing", "asking", "sending"}
Loop == {"comparing", "committed"}

\* One run at most compares and commits; only it has a session.  What a run asks about is
\* no longer in its list.
PlaceInv ==
  /\ \A r \in Runs : /\ pc[r] \in RunPlaces
                     /\ pc[r] = "asking" => cur[r] \notin todo[r]
                     /\ pc[r] # "comparing" => DOMAIN loaded[r] = {} /\ DOMAIN staged[r] = {}
  /\ \A r, o \in Runs : pc[r] \in Loop /\ pc[o] \in Loop => r = o

\* The posts a run has chosen to draft, until it is done with them.
Hand(r) == IF pc[r] \in {"choosing", "asking", "sending"} THEN InHand(r) ELSE {}

\* An actor that does not move.
Rests(a) == /\ pc'[a] = pc[a] /\ todo'[a] = todo[a]
            /\ cur'[a] = cur[a] /\ seen'[a] = seen[a]

\* A run goes on with its list.
GoesOn(r) == /\ pc[r] \in {"asking", "sending"} /\ pc'[r] = "choosing"
             /\ todo'[r] = todo[r]

LEMMA OwnSteps ==
  ASSUME TypeInv, NEW r \in Runs, pc[r] \in RunPlaces, Run(r)
  PROVE  \/ pc'[r] = "idle" \/ StartRun(r) \/ CommitVerdicts(r) \/ ListReady(r)
         \/ \E p \in Posts : Compare(r, p) \/ (AskModel(r, p) /\ Present(p)) \/ AutoSkip(r, p)
         \/ GoesOn(r) \/ \E d \in Drafts : SaveAuto(r, d)
<1>0. r \in Actors /\ pc \in [Actors -> Places] /\ todo \in [Actors -> SUBSET Posts]
  BY TypeParts
<1>1. ASSUME Idle(r) PROVE pc'[r] = "idle"
  BY <1>0, <1>1 DEF Idle
<1>2. ASSUME Onward(r, "choosing"), pc[r] \in {"asking", "sending"} PROVE GoesOn(r)
  BY <1>0, <1>2 DEF Onward, GoesOn
<1>3. CASE RunFails(r) \/ EndRun(r) \/ GenerationFailed(r)
  BY <1>1, <1>3 DEF RunFails, EndRun, GenerationFailed, RunPlaces
<1>4. CASE Unsuitable(r) \/ AutoPublish(r)
  BY <1>1, <1>2, <1>4 DEF Unsuitable, AutoPublish
<1>5. ASSUME NEW p \in Posts, AskModel(r, p) PROVE Present(p) \/ pc'[r] = "idle"
  BY <1>1, <1>5 DEF AskModel, LookUp
<1> QED
  BY <1>3, <1>4, <1>5 DEF Run

LEMMA OthersRest ==
  ASSUME TypeInv, NEW o \in Runs, NEW r \in Runs \ {o}, Run(o)
  PROVE  Rests(r)
<1>0. r \in Actors /\ o \in Actors /\ pc \in [Actors -> Places] /\ todo \in [Actors -> SUBSET Posts]
      /\ cur \in [Actors -> Posts \cup Drafts \cup {None}] /\ seen \in [Actors -> RawStatus]
  BY TypeParts
<1>1. ASSUME Idle(o) PROVE Rests(r)
  BY <1>0, <1>1 DEF Idle, Rests
<1>2. ASSUME NEW w, Onward(o, w) PROVE Rests(r)
  BY <1>0, <1>2 DEF Onward, Rests
<1>3. CASE RunFails(o) \/ EndRun(o) \/ GenerationFailed(o) \/ Unsuitable(o) \/ AutoPublish(o)
  BY <1>1, <1>2, <1>3 DEF RunFails, EndRun, GenerationFailed, Unsuitable, AutoPublish
<1>4. CASE StartRun(o) \/ CommitVerdicts(o) \/ ListReady(o)
  BY <1>0, <1>4 DEF StartRun, CommitVerdicts, ListReady, Rests
<1>5. CASE \E p \in Posts : Compare(o, p) \/ AutoSkip(o, p)
  BY <1>0, <1>5 DEF Compare, AutoSkip, Rests
<1>6. ASSUME NEW p \in Posts, AskModel(o, p) PROVE Rests(r)
  BY <1>0, <1>1, <1>6 DEF AskModel, LookUp, Rests
<1>7. ASSUME NEW d \in Drafts, SaveAuto(o, d) PROVE Rests(r)
  BY <1>0, <1>1, <1>7 DEF SaveAuto, Rests
<1> QED
  BY <1>3, <1>4, <1>5, <1>6, <1>7 DEF Run

LEMMA DesksLeaveRuns ==
  ASSUME NewsroomAssumption, TypeInv, NEW c \in Desks, NEW r \in Runs, Desk(c)
  PROVE  Rests(r)
<1>0. r \in Actors /\ c \in Actors /\ c # r /\ pc \in [Actors -> Places] /\ todo \in [Actors -> SUBSET Posts]
      /\ cur \in [Actors -> Posts \cup Drafts \cup {None}] /\ seen \in [Actors -> RawStatus]
  BY TypeParts DEF NewsroomAssumption
<1>1. ASSUME Idle(c) PROVE Rests(r)
  BY <1>0, <1>1 DEF Idle, Rests
<1>2. ASSUME NEW w, Onward(c, w) PROVE Rests(r)
  BY <1>0, <1>2 DEF Onward, Rests
<1>3. CASE \/ \E posts \in SUBSET Posts : Generate(c, posts)
           \/ \E p \in Posts : Generate(c, {p}) \/ Regenerate(c, p)
           \/ Compose(c)
  BY <1>0, <1>3 DEF Generate, Regenerate, Compose, Rests
<1>4. ASSUME NEW p \in Posts, GenerateNext(c, p) PROVE Rests(r)
  BY <1>0, <1>1, <1>4 DEF GenerateNext, LookUp, Rests
<1>5. CASE EndGenerate(c) \/ GenerationFailed(c)
  BY <1>1, <1>2, <1>5 DEF EndGenerate, GenerationFailed
<1>6. ASSUME NEW d \in Drafts, Save(c, d) \/ \E p \in Composed : SaveComposed(c, p, d) PROVE Rests(r)
  BY <1>1, <1>2, <1>6 DEF Save, SaveComposed
<1> QED
  BY <1>3, <1>4, <1>5, <1>6 DEF Desk

\* What a step may do to a run.
LEMMA RunSteps ==
  ASSUME NewsroomAssumption, TypeInv, PlaceInv, [Next]_vars, NEW r \in Runs
  PROVE  \/ Rests(r)
         \/ pc'[r] = "idle" \/ StartRun(r) \/ CommitVerdicts(r) \/ ListReady(r)
         \/ \E p \in Posts : Compare(r, p) \/ (AskModel(r, p) /\ Present(p)) \/ AutoSkip(r, p)
         \/ GoesOn(r) \/ \E d \in Drafts : SaveAuto(r, d)
<1>0. r \in Actors /\ pc[r] \in RunPlaces
  BY TypeParts DEF PlaceInv
<1>1. CASE UNCHANGED hand \/ UNCHANGED vars
  BY <1>1 DEF hand, vars, Rests
<1>2. CASE Run(r)
  BY <1>0, <1>2, OwnSteps
<1>3. CASE \E o \in Runs \ {r} : Run(o)
  BY <1>3, OthersRest
<1>4. CASE \E c \in Desks : Desk(c)
  BY <1>4, DesksLeaveRuns
<1>5. CASE Threads
  BY <1>1, <1>5 DEF Threads, EditDraft, RejectPost, BulkReject, DeletePost, BulkDelete, DeletePosts, RejectGenerated
<1>6. CASE Restart
  BY <1>0, <1>6 DEF Restart
<1>7. CASE \E p \in Posts : Arrive(p) \/ Age(p)
  BY <1>1, <1>7 DEF Arrive, Age
<1> QED
  BY <1>1, <1>2, <1>3, <1>4, <1>5, <1>6, <1>7 DEF Next

\* The place a run comes to.
LEMMA RunMoves ==
  ASSUME NewsroomAssumption, TypeInv, PlaceInv, [Next]_vars, NEW r \in Runs
  PROVE  /\ pc'[r] \in RunPlaces
         /\ pc'[r] = "asking" => cur'[r] \notin todo'[r]
         /\ Hand(r)' \subseteq Hand(r) \/ (ListReady(r) /\ Hand(r)' \subseteq Listed)
         /\ pc'[r] \in Loop => pc[r] \in Loop \/ StartRun(r)
<1>0. r \in Actors /\ pc \in [Actors -> Places] /\ todo \in [Actors -> SUBSET Posts]
      /\ cur \in [Actors -> Posts \cup Drafts \cup {None}] /\ seen \in [Actors -> RawStatus]
      /\ pc[r] \in RunPlaces /\ (pc[r] = "asking" => cur[r] \notin todo[r])
  BY TypeParts DEF PlaceInv
<1>1. CASE Rests(r)
  BY <1>0, <1>1 DEF Rests, Hand, InHand
<1>2. CASE pc'[r] = "idle"
  BY <1>2 DEF Hand, RunPlaces, Loop
<1>3. CASE StartRun(r)
  BY <1>0, <1>3 DEF StartRun, Hand, RunPlaces
<1>4. CASE CommitVerdicts(r)
  BY <1>0, <1>4 DEF CommitVerdicts, Hand, RunPlaces, Loop
<1>5. CASE ListReady(r)
  BY <1>0, <1>5 DEF ListReady, Hand, InHand, RunPlaces, Loop
<1>6. CASE \E p \in Posts : Compare(r, p)
  BY <1>0, <1>6 DEF Compare, Hand, RunPlaces, Loop
<1>7. CASE \E p \in Posts : AskModel(r, p) /\ Present(p)
  <2>1. PICK p \in Posts : AskModel(r, p) /\ Present(p)
    BY <1>7
  <2>2. /\ pc[r] = "choosing" /\ p \in todo[r] /\ todo'[r] = todo[r] \ {p}
        /\ pc'[r] = "asking" /\ cur'[r] = p
    BY <1>0, <2>1 DEF AskModel, LookUp
  <2> QED
    BY <2>2 DEF Hand, InHand, RunPlaces, Loop
<1>8. CASE \E p \in Posts : AutoSkip(r, p)
  BY <1>0, <1>8 DEF AutoSkip, Hand, InHand, RunPlaces, Loop
<1>9. CASE GoesOn(r)
  BY <1>9 DEF GoesOn, Hand, InHand, RunPlaces, Loop
<1>10. CASE \E d \in Drafts : SaveAuto(r, d)
  <2>1. \/ pc'[r] = "idle"
        \/ pc[r] = "asking" /\ pc'[r] = "sending" /\ todo'[r] = todo[r]
    BY <1>0, <1>10 DEF SaveAuto, Idle
  <2> QED
    BY <2>1 DEF Hand, InHand, RunPlaces, Loop
<1> QED
  BY <1>1, <1>2, <1>3, <1>4, <1>5, <1>6, <1>7, <1>8, <1>9, <1>10, RunSteps

\* A comparison that is given up leaves no session.
LEMMA LeavesComparison ==
  ASSUME NewsroomAssumption, TypeInv, [Next]_vars, NEW r \in Runs, pc[r] = "comparing", pc'[r] = "idle"
  PROVE  DOMAIN loaded'[r] = {} /\ DOMAIN staged'[r] = {}
<1>0. r \in Actors /\ DOMAIN loaded = Runs /\ DOMAIN staged = Runs
  BY TypeParts DEF TypeInv
<1>1. CASE RunFails(r) \/ Restart
  BY <1>0, <1>1 DEF RunFails, Forget, Restart, Unread
<1>2. ~Rests(r)
  BY DEF Rests
<1>3. CASE \E o \in Runs \ {r} : Run(o)
  BY <1>2, <1>3, OthersRest
<1>4. CASE \E c \in Desks : Desk(c)
  BY <1>2, <1>4, DesksLeaveRuns
<1>5. CASE Threads \/ UNCHANGED vars \/ \E p \in Posts : Arrive(p) \/ Age(p)
  BY <1>5 DEF Threads, EditDraft, RejectPost, BulkReject, DeletePost, BulkDelete, DeletePosts,
              RejectGenerated, vars, Arrive, Age, hand
<1>6. CASE Run(r)
  <2>1. ~StartRun(r) /\ ~ListReady(r) /\ ~EndRun(r) /\ ~GenerationFailed(r) /\ ~Unsuitable(r) /\ ~AutoPublish(r)
    BY DEF StartRun, ListReady, EndRun, GenerationFailed, Unsuitable, AutoPublish
  <2>2. ~(\E p \in Posts : AskModel(r, p) \/ AutoSkip(r, p)) /\ ~\E d \in Drafts : SaveAuto(r, d)
    BY DEF AskModel, AutoSkip, SaveAuto
  <2>3. ~\E p \in Posts : Compare(r, p)
    BY DEF Compare
  <2>4. ~CommitVerdicts(r)
    BY <1>0, TypeParts DEF CommitVerdicts
  <2> QED
    BY <1>1, <1>6, <2>1, <2>2, <2>3, <2>4 DEF Run
<1> QED
  BY <1>1, <1>3, <1>4, <1>5, <1>6 DEF Next

\* Two runs are never on the loop at once, and a session ends with the comparison.
LEMMA PlaceStep ==
  ASSUME NewsroomAssumption, TypeInv, PlaceInv, [Next]_vars
  PROVE  PlaceInv'
<1>1. ASSUME NEW r \in Runs
      PROVE  /\ pc'[r] \in RunPlaces
             /\ pc'[r] = "asking" => cur'[r] \notin todo'[r]
  BY RunMoves
<1>2. ASSUME NEW r \in Runs, NEW o \in Runs, pc'[r] \in Loop, pc'[o] \in Loop PROVE r = o
  <2>1. \A x \in Runs : pc'[x] \in Loop => pc[x] \in Loop \/ StartRun(x)
    BY RunMoves
  <2>2. ASSUME NEW x \in Runs, StartRun(x), NEW y \in Runs, pc'[y] \in Loop PROVE x = y
    <3>1. \A z \in Runs : pc[z] \notin Loop
      BY <2>2 DEF StartRun, LoopFree, Loop
    <3>2. StartRun(y)
      BY <2>1, <2>2, <3>1
    <3>3. x # y => pc'[y] = pc[y]
      BY <2>2, TypeParts DEF StartRun
    <3> QED
      BY <2>2, <3>1, <3>3
  <2> QED
    BY <1>2, <2>1, <2>2 DEF PlaceInv
<1>3. ASSUME NEW r \in Runs, pc'[r] # "comparing" PROVE DOMAIN loaded'[r] = {} /\ DOMAIN staged'[r] = {}
  <2>2. CASE staged'[r] = Unread /\ loaded'[r] = Unread
    BY <2>2 DEF Unread
  <2>3. ~StartRun(r) /\ ~\E p \in Posts : Compare(r, p)
    BY <1>3, TypeParts DEF StartRun, Compare
  <2>4. CASE staged'[r] = staged[r] /\ loaded'[r] = loaded[r]
    <3>1. CASE pc[r] # "comparing"
      BY <2>4, <3>1 DEF PlaceInv
    <3>2. CASE pc[r] = "comparing"
      <4>1. ~Rests(r) /\ ~ListReady(r) /\ ~GoesOn(r)
        BY <1>3, <3>2 DEF Rests, ListReady, GoesOn
      <4>2. ~\E p \in Posts : AskModel(r, p) \/ AutoSkip(r, p)
        BY <3>2 DEF AskModel, AutoSkip
      <4>3. ~\E d \in Drafts : SaveAuto(r, d)
        BY <3>2 DEF SaveAuto
      <4>4. CASE CommitVerdicts(r)
        BY <4>4 DEF CommitVerdicts, Forget, TypeInv, Unread
      <4>5. CASE pc'[r] = "idle"
        BY <3>2, <4>5, LeavesComparison
      <4> QED
        BY <2>3, <4>1, <4>2, <4>3, <4>4, <4>5, RunSteps
    <3> QED
      BY <3>1, <3>2
  <2> QED
    BY <2>2, <2>3, <2>4, SessionSteps
<1> QED
  BY <1>1, <1>2, <1>3 DEF PlaceInv

\* What a step may do to one post.
Gone(p) == row'[p].status = "deleted" /\ ~row'[p].hashed
PostSteps(p) ==
  \/ row'[p].status = row[p].status /\ row'[p].hashed = row[p].hashed
  \/ Present(p) /\ row'[p].status \in Settled /\ row'[p].hashed = row[p].hashed
  \/ Present(p) /\ Gone(p)
  \/ p \notin Composed /\ row[p] = NoPost /\ row'[p].status = "new" /\ ~row'[p].hashed
  \/ p \in Composed /\ row[p] = NoPost /\ row'[p].status = "generated" /\ row'[p].hashed
  \/ \E r \in Runs : CommitVerdicts(r) /\ p \in Dirty(r)

LEMMA PostMoves ==
  ASSUME NewsroomAssumption, TypeInv, [Next]_vars, NEW p \in Posts
  PROVE  PostSteps(p)
<1>0. row \in [Posts -> RawPost]
  BY TypeParts
<1>1. CASE StatusOnly
  <2>1. Present(p) \/ row'[p] = row[p]
    BY <1>1 DEF StatusOnly
  <2> QED
    BY <1>1, <2>1, StatusOnlyFacts DEF PostSteps
<1>2. ASSUME NEW q \in Posts, Arrive(q) PROVE PostSteps(p)
  <2>1. row' = [row EXCEPT ![q].status = "new"] /\ row[q] = NoPost /\ q \notin Composed
    BY <1>2 DEF Arrive
  <2>2. p = q => p \notin Composed /\ row[p] = NoPost /\ row'[p].status = "new" /\ ~row'[p].hashed
    BY <1>0, <2>1 DEF NoPost, RawPost
  <2>3. p # q => row'[p] = row[p]
    BY <2>1
  <2> QED
    BY <2>2, <2>3 DEF PostSteps
<1>3. ASSUME NEW c \in Desks, NEW q \in Composed, NEW d \in Drafts, SaveComposed(c, q, d) PROVE PostSteps(p)
  <2>1. row' = [row EXCEPT ![q] = ManualPost] /\ row[q] = NoPost
    BY <1>3 DEF SaveComposed
  <2>2. p = q => p \in Composed /\ row[p] = NoPost /\ row'[p].status = "generated" /\ row'[p].hashed
    BY <1>0, <2>1 DEF ManualPost, NoPost
  <2>3. p # q => row'[p] = row[p]
    BY <2>1
  <2> QED
    BY <2>2, <2>3 DEF PostSteps
<1>4. ASSUME NEW r \in Runs, CommitVerdicts(r) PROVE PostSteps(p)
  BY <1>4, CommittedRow DEF PostSteps
<1>5. ASSUME NEW posts \in SUBSET Posts, DeletePosts(posts) PROVE PostSteps(p)
  <2>1. row' = Removed(posts) /\ \A q \in posts : Present(q)
    BY <1>5 DEF DeletePosts
  <2>2. CASE p \in posts
    BY <2>1, <2>2 DEF Removed, NoPost, PostSteps, Gone
  <2>3. CASE p \notin posts
    BY <1>0, <2>1, <2>3 DEF Removed, RawPost, PostSteps
  <2> QED
    BY <2>2, <2>3
<1> QED
  BY <1>1, <1>2, <1>3, <1>4, <1>5, RowSteps

\* An automatic draft is made by SaveAuto, from the post in hand, and by nothing else.
LEMMA DraftSteps ==
  ASSUME NewsroomAssumption, TypeInv, [Next]_vars
  PROVE  \/ DraftsKept
         \/ \E r \in Runs, d \in Drafts :
              /\ SaveAuto(r, d) /\ Present(cur[r]) /\ cur[r] \in Posts
              /\ draft'[d].of = cur[r]
              /\ \A e \in Drafts \ {d} : draft'[e] = draft[e]
<1>0. DOMAIN draft = Drafts
  BY DEF TypeInv, TypeOK
<1>1. ASSUME draft' = draft PROVE DraftsKept
  BY <1>1 DEF DraftsKept
<1>2. ASSUME NEW r \in Runs, Run(r), ~DraftsKept
      PROVE  \E d \in Drafts : /\ SaveAuto(r, d) /\ Present(cur[r]) /\ cur[r] \in Posts
                               /\ draft'[d].of = cur[r]
                               /\ \A e \in Drafts \ {d} : draft'[e] = draft[e]
  <2>1. r \in Actors
    BY TypeParts
  <2>2. PICK d \in Drafts : SaveAuto(r, d)
    BY <1>1, <1>2, UnsuitableType, AutoPublishType
       DEF Run, StartRun, CommitVerdicts, RunFails, ListReady, EndRun, Compare, AskModel, LookUp, AutoSkip,
           GenerationFailed, tables
  <2>3. Present(cur[r]) /\ draft' = [draft EXCEPT ![d] = [status |-> "draft", of |-> cur[r], auto |-> TRUE]]
    BY <1>1, <1>2, <2>2 DEF SaveAuto, tables
  <2>4. cur[r] \in Posts
    BY <2>1, <2>2 DEF SaveAuto, TypeInv, HandType
  <2> QED
    BY <1>0, <2>2, <2>3, <2>4
<1>3. ASSUME NEW c \in Desks, Desk(c) PROVE DraftsKept
  <2>1. c \in Actors
    BY TypeParts
  <2>2. CASE \E d \in Drafts : Save(c, d)
    BY <2>1, <2>2, SaveType
  <2>3. CASE \E d \in Drafts, p \in Composed : SaveComposed(c, p, d)
    BY <2>3, SaveComposedType
  <2> QED
    BY <1>1, <1>3, <2>2, <2>3 DEF Desk, Generate, Regenerate, Compose, GenerateNext, LookUp, EndGenerate,
                                  GenerationFailed, tables
<1>4. ASSUME Threads PROVE DraftsKept
  <2>1. asked' \in Nat
    BY <1>4 DEF Threads, Request, TypeInv
  <2> QED
    BY <1>4, <2>1, StatusThreadType, DeleteType DEF Threads, DeletePost, BulkDelete
<1>5. CASE Restart \/ UNCHANGED vars \/ \E p \in Posts : Arrive(p) \/ Age(p)
  BY <1>1, <1>5 DEF Restart, vars, Arrive, Age, tables
<1> QED
  BY <1>2, <1>3, <1>4, <1>5 DEF Next

-----------------------------------------------------------------------------
(* A text typed by hand.                                                   *)

\* A composed post is in no list, no session and no hand of a run.
ManualInv ==
  /\ ManualIsNotAuto
  /\ \A p \in Composed : row[p].status \notin Unjudged
  /\ \A r \in Runs : DOMAIN loaded[r] \cap Composed = {} /\ Hand(r) \cap Composed = {}

LEMMA SessionPosts ==
  ASSUME TypeInv, NEW r \in Runs
  PROVE  DOMAIN staged[r] = DOMAIN loaded[r] /\ DOMAIN loaded[r] \subseteq Posts
  BY DEF TypeInv, SessionType

\* The posts of a session are those that wait when it starts.
LEMMA SessionGrows ==
  ASSUME NewsroomAssumption, TypeInv, [Next]_vars, NEW r \in Runs
  PROVE  \/ DOMAIN loaded'[r] \subseteq DOMAIN loaded[r]
         \/ StartRun(r) /\ loaded'[r] = [p \in {q \in Posts : row[q].status \in Unjudged} |-> row[p]]
<1>1. CASE loaded'[r] = loaded[r] \/ loaded'[r] = Unread
  BY <1>1 DEF Unread
<1>2. CASE StartRun(r)
  BY <1>2 DEF StartRun, TypeInv
<1>3. CASE \E p \in Posts : Compare(r, p)
  BY <1>3 DEF Compare
<1> QED
  BY <1>1, <1>2, <1>3, SessionSteps

LEMMA ManualStep ==
  ASSUME NewsroomAssumption, TypeInv, PlaceInv, ManualInv, [Next]_vars
  PROVE  ManualInv'
<1>0. Composed \subseteq Posts
  BY DEF NewsroomAssumption
<1>1. ASSUME NEW p \in Composed PROVE row'[p].status \notin Unjudged
  <2>1. p \in Posts /\ row[p].status \notin Unjudged
    BY <1>0 DEF ManualInv
  <2>2. \A r \in Runs : p \notin Dirty(r)
    BY SessionPosts DEF ManualInv, Dirty
  <2> QED
    BY <2>1, <2>2, PostMoves DEF PostSteps, Unjudged, Settled, Gone
<1>2. ASSUME NEW r \in Runs
      PROVE  DOMAIN loaded'[r] \cap Composed = {} /\ Hand(r)' \cap Composed = {}
  <2>1. \A p \in Composed : p \notin Listed
    BY DEF ManualInv, Listed, Unjudged
  <2>2. Hand(r)' \cap Composed = {}
    BY <2>1, RunMoves DEF ManualInv
  <2>3. DOMAIN loaded'[r] \cap Composed = {}
    BY SessionGrows DEF ManualInv
  <2> QED
    BY <2>2, <2>3
<1>3. ManualIsNotAuto'
  <2> SUFFICES ASSUME NEW d \in Drafts, draft'[d].auto PROVE draft'[d].of \notin Composed
    BY DEF ManualIsNotAuto
  <2>1. CASE DraftsKept
    BY <2>1 DEF DraftsKept, ManualInv, ManualIsNotAuto
  <2>2. ASSUME NEW r \in Runs, NEW e \in Drafts, SaveAuto(r, e), draft'[e].of = cur[r],
               \A x \in Drafts \ {e} : draft'[x] = draft[x]
        PROVE  draft'[d].of \notin Composed
    <3>1. cur[r] \in Hand(r)
      BY <2>2 DEF SaveAuto, Hand, InHand
    <3> QED
      BY <2>2, <3>1 DEF ManualInv, ManualIsNotAuto
  <2> QED
    BY <2>1, <2>2, DraftSteps
<1> QED
  BY <1>1, <1>2, <1>3 DEF ManualInv

LEMMA PlaceInit == ASSUME NewsroomAssumption, Init PROVE PlaceInv
  BY DEF Init, PlaceInv, RunPlaces, Loop, Actors, Unread

\* A text typed by hand is never drafted by the automatic publication, whatever is
\* rejected, edited, drafted again or deleted meanwhile.
THEOREM ManualNeverAuto == ASSUME NewsroomAssumption PROVE Spec => []ManualIsNotAuto
<1>1. Init => TypeInv /\ PlaceInv /\ ManualInv
  <2>1. ASSUME Init PROVE ManualInv
    BY <2>1 DEF Init, ManualInv, ManualIsNotAuto, NewsroomAssumption, NoPost, NoDraft, Unjudged, Unread,
                Hand, Actors
  <2> QED
    BY <2>1, TypeInit, PlaceInit
<1>2. TypeInv /\ PlaceInv /\ ManualInv /\ [Next]_vars => TypeInv' /\ PlaceInv' /\ ManualInv'
  BY TypeStep, PlaceStep, ManualStep
<1>3. ManualInv => ManualIsNotAuto
  BY DEF ManualInv
<1> QED
  BY <1>1, <1>2, <1>3, PTL DEF Spec

-----------------------------------------------------------------------------
(* The sessions of runs.                                                   *)

\* What a run compares was waiting when it was loaded; what it has compared has a verdict.
JudgedInv ==
  \A r \in Runs : \A p \in DOMAIN loaded[r] :
    /\ loaded[r][p].status \in Unjudged
    /\ IF p \in todo[r] THEN staged[r][p] = loaded[r][p]
       ELSE staged[r][p].hashed /\ staged[r][p].status \in {"ready", "duplicate"}

\* A session that lasts is one of a run that rests or compares.
LEMMA SessionLasts ==
  ASSUME NewsroomAssumption, TypeInv, PlaceInv, [Next]_vars, NEW r \in Runs
  PROVE  \/ DOMAIN loaded'[r] = {}
         \/ Rests(r) /\ staged'[r] = staged[r] /\ loaded'[r] = loaded[r]
         \/ StartRun(r)
         \/ \E p \in Posts : Compare(r, p)
<1>1. CASE pc'[r] # "comparing"
  BY <1>1, PlaceStep DEF PlaceInv
<1>2. CASE pc'[r] = "comparing"
  <2>1. ~CommitVerdicts(r) /\ ~ListReady(r) /\ ~GoesOn(r)
    BY <1>2, TypeParts DEF CommitVerdicts, ListReady, GoesOn
  <2>2. ~(\E p \in Posts : AskModel(r, p) /\ Present(p)) /\ ~\E p \in Posts : AutoSkip(r, p)
    BY <1>2, TypeParts DEF AskModel, LookUp, AutoSkip
  <2>3. ~\E d \in Drafts : SaveAuto(r, d)
    BY <1>2, TypeParts DEF SaveAuto, Idle
  <2>4. Rests(r) \/ StartRun(r) \/ \E p \in Posts : Compare(r, p)
    BY <1>2, <2>1, <2>2, <2>3, RunSteps
  <2>5. CASE staged'[r] = Unread /\ loaded'[r] = Unread
    BY <2>5 DEF Unread
  <2> QED
    BY <2>4, <2>5, SessionSteps
<1> QED
  BY <1>1, <1>2

\* What a comparison stages.
LEMMA ComparedPost ==
  ASSUME TypeInv, NEW r \in Runs, NEW q \in Posts, Compare(r, q)
  PROVE  /\ q \in DOMAIN loaded[r] /\ loaded'[r] = loaded[r] /\ todo'[r] = todo[r] \ {q}
         /\ row' = row /\ q \in todo[r] /\ pc[r] = "comparing"
         /\ staged'[r][q].hashed /\ staged'[r][q].status \in {"ready", "duplicate"}
         /\ staged'[r][q].status = "ready" => Text[q] = NoText \/ SameHash(q) = {}
         /\ \A p \in DOMAIN loaded[r] \ {q} : staged'[r][p] = staged[r][p]
<1>1. /\ q \in DOMAIN staged[r] /\ DOMAIN staged[r] = DOMAIN loaded[r] /\ DOMAIN staged = Runs
      /\ todo \in [Actors -> SUBSET Posts] /\ r \in Actors
  BY SessionPosts, TypeParts DEF Compare, TypeInv, SessionType
<1>2. PICK vec \in BOOLEAN : \E post \in Verdicts(r, q, vec) : staged' = [staged EXCEPT ![r][q] = post]
  BY DEF Compare
<1>3. PICK post \in Verdicts(r, q, vec) : staged' = [staged EXCEPT ![r][q] = post]
  BY <1>2
<1>4. staged'[r] = [staged[r] EXCEPT ![q] = post]
  BY <1>1, <1>3
<1>5. post.hashed /\ post.status \in {"ready", "duplicate"}
      /\ (post.status = "ready" => Text[q] = NoText \/ SameHash(q) = {})
  BY <1>1, VerdictType
<1> QED
  BY <1>1, <1>4, <1>5 DEF Compare, tables

\* What a run has in its session when it starts.
LEMMA StartedSession ==
  ASSUME TypeInv, NEW r \in Runs, StartRun(r)
  PROVE  /\ staged'[r] = loaded'[r] /\ row' = row
         /\ DOMAIN loaded'[r] = {p \in Posts : row[p].status \in Unjudged} /\ todo'[r] = DOMAIN loaded'[r]
         /\ \A p \in DOMAIN loaded'[r] : loaded'[r][p] = row[p]
  BY TypeParts DEF StartRun, TypeInv, tables

LEMMA JudgedStep ==
  ASSUME NewsroomAssumption, TypeInv, PlaceInv, JudgedInv, [Next]_vars
  PROVE  JudgedInv'
<1> SUFFICES ASSUME NEW r \in Runs, NEW p \in DOMAIN loaded'[r]
             PROVE  /\ loaded'[r][p].status \in Unjudged
                    /\ IF p \in todo'[r] THEN staged'[r][p] = loaded'[r][p]
                       ELSE staged'[r][p].hashed /\ staged'[r][p].status \in {"ready", "duplicate"}
  BY DEF JudgedInv
<1>1. CASE Rests(r) /\ staged'[r] = staged[r] /\ loaded'[r] = loaded[r]
  BY <1>1 DEF Rests, JudgedInv
<1>2. CASE StartRun(r)
  BY <1>2, StartedSession
<1>3. ASSUME NEW q \in Posts, Compare(r, q)
      PROVE  /\ loaded'[r][p].status \in Unjudged
             /\ IF p \in todo'[r] THEN staged'[r][p] = loaded'[r][p]
                ELSE staged'[r][p].hashed /\ staged'[r][p].status \in {"ready", "duplicate"}
  BY <1>3, ComparedPost DEF JudgedInv
<1> QED
  BY <1>1, <1>2, <1>3, SessionLasts

\* What the commit of the verdicts makes of a status.
LEMMA CommittedStatus ==
  ASSUME TypeInv, JudgedInv, NEW r \in Runs, CommitVerdicts(r), NEW p \in Posts, p \in Dirty(r)
  PROVE  /\ p \in DOMAIN loaded[r] /\ p \notin todo[r]
         /\ \/ row'[p].status \in {row[p].status, "duplicate"}
            \/ loaded[r][p].status = "new" /\ staged[r][p].status = "ready" /\ row'[p].status = "ready"
<1>1. p \in DOMAIN loaded[r] /\ todo[r] = {}
  BY SessionPosts DEF Dirty, CommitVerdicts
<1>2. row'[p].status = Column(row[p].status, loaded[r][p].status, staged[r][p].status)
  BY CommittedRow
<1>3. loaded[r][p].status \in Unjudged /\ staged[r][p].status \in {"ready", "duplicate"}
  BY <1>1 DEF JudgedInv
<1> QED
  BY <1>1, <1>2, <1>3 DEF Column, Unjudged

-----------------------------------------------------------------------------
(* Two automatic drafts of one post.                                       *)

\* No run is going to draft p, unless two have it in hand.
Away(p) ==
  row[p].status \notin Unjudged /\ \A r \in Runs : p \notin Hand(r) /\ p \notin DOMAIN loaded[r]

SharedInv ==
  /\ TwiceOnlyWhenShared
  /\ \A d \in Drafts : draft[d].auto => draft[d].of \in shared \/ Away(draft[d].of)
  /\ \A r, o \in Runs : r # o => Hand(r) \cap Hand(o) \subseteq shared
  /\ \A r \in Runs : \A p \in Hand(r) :
       /\ row[p].status \notin {"new", "absent"}
       /\ \A o \in Runs : p \in DOMAIN loaded[o] => loaded[o][p].status # "new"
  /\ \A r \in Runs : pc[r] = "asking" /\ seen[r] = "generated" => row[cur[r]].status \notin Unjudged

LEMMA SharedGrows ==
  ASSUME [Next]_vars
  PROVE  shared \subseteq shared'
BY DEF Next, vars, Run, Desk, Threads, Restart, Arrive, Age, StartRun, CommitVerdicts, RunFails, ListReady, EndRun,
       Compare, AskModel, LookUp, AutoSkip, GenerationFailed, Unsuitable, AutoPublish, SaveAuto, Generate,
       GenerateNext, EndGenerate, Regenerate, Save, Compose, SaveComposed, EditDraft, RejectPost, BulkReject,
       DeletePost, BulkDelete, DeletePosts, RejectGenerated

LEMMA HandPosts ==
  ASSUME TypeInv, NEW r \in Runs
  PROVE  Hand(r) \subseteq Posts
<1>1. r \in Actors /\ todo[r] \subseteq Posts /\ (pc[r] = "asking" => cur[r] \in Posts)
  BY TypeParts DEF TypeInv, HandType
<1> QED
  BY <1>1 DEF Hand, InHand

\* The status of a post in hand does not come back.
LEMMA HandStatus ==
  ASSUME NewsroomAssumption, TypeInv, JudgedInv, SharedInv, [Next]_vars, NEW r \in Runs, NEW p \in Hand(r)
  PROVE  \/ row'[p].status = row[p].status
         \/ row'[p].status \in Settled \cup {"deleted", "duplicate"}
<1>1. p \in Posts /\ row[p].status \notin {"new", "absent"}
  BY HandPosts DEF SharedInv
<1>2. row[p] # NoPost
  BY <1>1 DEF NoPost
<1>3. ASSUME NEW o \in Runs, CommitVerdicts(o), p \in Dirty(o)
      PROVE  row'[p].status \in {row[p].status, "duplicate"}
  BY <1>1, <1>3, CommittedStatus DEF SharedInv
<1> QED
  BY <1>1, <1>2, <1>3, PostMoves DEF PostSteps, Gone

\* A draft is saved while nobody compares, and by one run at a time.
LEMMA SaveAutoAlone ==
  ASSUME NewsroomAssumption, TypeInv, PlaceInv, SharedInv, NEW r \in Runs, NEW d \in Drafts,
         NEW p \in Posts, cur[r] = p, Present(p), SaveAuto(r, d)
  PROVE  p \in Hand(r) /\ (p \notin shared => Away(p)')
<1>0. /\ r \in Actors /\ pc \in [Actors -> Places] /\ todo \in [Actors -> SUBSET Posts]
      /\ row \in [Posts -> RawPost]
  BY TypeParts
<1>1. p \in Hand(r) /\ pc[r] = "asking" /\ p \notin todo[r]
  BY DEF SaveAuto, Hand, InHand, PlaceInv
<1>2. row' = Write(p, r, "generated") /\ pc'[r] = "sending" /\ todo'[r] = todo[r]
  BY <1>0 DEF SaveAuto
<1>3. row'[p].status \notin Unjudged
  <2>1. CASE seen[r] = "generated"
    BY <1>1, <1>2, <2>1 DEF Write, SharedInv
  <2>2. CASE seen[r] # "generated"
    <3>1. row' = [row EXCEPT ![p].status = "generated"]
      BY <1>2, <2>2 DEF Write
    <3>2. row'[p].status = "generated"
      BY <1>0, <3>1 DEF RawPost
    <3> QED
      BY <3>2 DEF Unjudged
  <2> QED
    BY <2>1, <2>2
<1>4. ASSUME p \notin shared, NEW o \in Runs PROVE p \notin Hand(o)'
  <2>1. CASE o = r
    BY <1>1, <1>2, <2>1 DEF Hand, InHand
  <2>2. CASE o # r
    <3>1. Rests(o)
      BY <2>2, OthersRest DEF Run
    <3>2. Hand(o)' = Hand(o)
      BY <3>1 DEF Rests, Hand, InHand
    <3> QED
      BY <1>1, <1>4, <2>2, <3>2 DEF SharedInv
  <2> QED
    BY <2>1, <2>2
<1>5. ASSUME NEW o \in Runs PROVE p \notin DOMAIN loaded'[o]
  <2>1. loaded' = loaded /\ pc[o] # "comparing"
    BY DEF SaveAuto, LoopFree, session
  <2> QED
    BY <2>1 DEF PlaceInv
<1> QED
  BY <1>1, <1>3, <1>4, <1>5 DEF Away

\* What nobody is going to draft stays so.
LEMMA AwayStays ==
  ASSUME NewsroomAssumption, TypeInv, PlaceInv, [Next]_vars, NEW p \in Posts, Present(p), Away(p)
  PROVE  Away(p)'
<1>1. row'[p].status \notin Unjudged
  <2>1. row[p] # NoPost
    BY DEF Present, NoPost
  <2>2. \A r \in Runs : p \notin Dirty(r)
    BY SessionPosts DEF Away, Dirty
  <2> QED
    BY <2>1, <2>2, PostMoves DEF PostSteps, Away, Unjudged, Settled, Gone
<1>2. ASSUME NEW r \in Runs PROVE p \notin Hand(r)'
  BY RunMoves DEF Away, Listed, Unjudged
<1>3. ASSUME NEW r \in Runs PROVE p \notin DOMAIN loaded'[r]
  BY SessionGrows DEF Away
<1> QED
  BY <1>1, <1>2, <1>3 DEF Away

LEMMA HandsApart ==
  ASSUME NewsroomAssumption, TypeInv, PlaceInv, SharedInv, [Next]_vars,
         NEW r \in Runs, NEW o \in Runs, r # o, NEW p, p \in Hand(r)', p \in Hand(o)'
  PROVE  p \in shared'
<1>1. CASE p \in Hand(r) /\ p \in Hand(o)
  BY <1>1, SharedGrows DEF SharedInv
<1>2. ASSUME NEW x \in Runs, NEW y \in Runs, x # y, ListReady(x), p \in Hand(x)', p \in Hand(y)'
      PROVE  p \in shared'
  <2>1. Rests(y)
    BY <1>2, OthersRest DEF Run
  <2>2. Hand(y)' = Hand(y) /\ Hand(y) \subseteq InHand(y)
    BY <2>1 DEF Rests, Hand, InHand
  <2>3. p \in Listed
    <3>1. pc'[x] = "choosing" /\ todo'[x] = Listed
      BY <1>2, TypeParts DEF ListReady
    <3> QED
      BY <1>2, <3>1 DEF Hand, InHand
  <2> QED
    BY <1>2, <2>2, <2>3 DEF ListReady
<1> QED
  BY <1>1, <1>2, RunMoves

LEMMA HandNotNew ==
  ASSUME NewsroomAssumption, TypeInv, PlaceInv, JudgedInv, SharedInv, [Next]_vars,
         NEW r \in Runs, NEW p, p \in Hand(r)'
  PROVE  /\ row'[p].status \notin {"new", "absent"}
         /\ \A o \in Runs : p \in DOMAIN loaded'[o] => loaded'[o][p].status # "new"
<1>1. CASE p \in Hand(r)
  <2>1. row'[p].status \notin {"new", "absent"}
    BY <1>1, HandStatus DEF SharedInv, Settled
  <2>2. ASSUME NEW o \in Runs, p \in DOMAIN loaded'[o] PROVE loaded'[o][p].status # "new"
    <3>1. CASE loaded'[o] = loaded[o]
      BY <1>1, <2>2, <3>1 DEF SharedInv
    <3>2. CASE StartRun(o)
      BY <1>1, <2>2, <3>2, StartedSession DEF SharedInv
    <3> QED
      BY <2>2, <3>1, <3>2, SessionLasts, ComparedPost
  <2> QED
    BY <2>1, <2>2
<1>2. CASE ListReady(r) /\ p \in Listed
  <2>1. row' = row /\ loaded' = loaded /\ pc[r] = "committed" /\ row[p].status = "ready"
    BY <1>2 DEF ListReady, Listed, tables, session
  <2>2. \A o \in Runs : pc[o] # "comparing"
    BY <2>1 DEF PlaceInv, Loop
  <2>3. \A o \in Runs : DOMAIN loaded'[o] = {}
    BY <2>1, <2>2 DEF PlaceInv
  <2> QED
    BY <2>1, <2>3
<1> QED
  BY <1>1, <1>2, RunMoves

LEMMA AskedStatus ==
  ASSUME NewsroomAssumption, TypeInv, PlaceInv, JudgedInv, SharedInv, [Next]_vars,
         NEW r \in Runs, pc'[r] = "asking", seen'[r] = "generated"
  PROVE  row'[cur'[r]].status \notin Unjudged
<1>0. r \in Actors /\ pc \in [Actors -> Places] /\ cur \in [Actors -> Posts \cup Drafts \cup {None}]
      /\ seen \in [Actors -> RawStatus]
  BY TypeParts
<1>1. CASE Rests(r)
  <2>1. /\ pc[r] = "asking" /\ seen[r] = "generated" /\ cur'[r] = cur[r]
        /\ row[cur[r]].status \notin Unjudged /\ cur[r] \in Hand(r)
    BY <1>1 DEF Rests, SharedInv, Hand, InHand
  <2> QED
    BY <2>1, HandStatus DEF Settled, Unjudged
<1>2. CASE \E p \in Posts : AskModel(r, p) /\ Present(p)
  <2>1. PICK p \in Posts : AskModel(r, p) /\ Present(p)
    BY <1>2
  <2>2. row' = row /\ cur'[r] = p /\ seen'[r] = row[p].status
    BY <1>0, <2>1 DEF AskModel, LookUp, tables
  <2> QED
    BY <2>2 DEF Unjudged
<1>3. ~StartRun(r) /\ ~CommitVerdicts(r) /\ ~ListReady(r) /\ ~GoesOn(r)
  BY <1>0 DEF StartRun, CommitVerdicts, ListReady, GoesOn
<1>4. ~(\E p \in Posts : Compare(r, p) \/ AutoSkip(r, p)) /\ ~\E d \in Drafts : SaveAuto(r, d)
  BY <1>0 DEF Compare, AutoSkip, SaveAuto, Idle
<1> QED
  BY <1>1, <1>2, <1>3, <1>4, RunSteps

LEMMA SharedStep ==
  ASSUME NewsroomAssumption, TypeInv, PlaceInv, JudgedInv, SharedInv, [Next]_vars
  PROVE  SharedInv'
<1>1. ASSUME NEW p \in Posts, NEW d \in Drafts, draft[d].auto, draft[d].of = p, p \notin shared'
      PROVE  Away(p) /\ Away(p)'
  <2>1. Away(p) /\ Present(p)
    BY <1>1, SharedGrows, TypeParts DEF SharedInv, DraftType, NoDraft
  <2> QED
    BY <2>1, AwayStays
<1>2. ASSUME DraftsKept PROVE TwiceOnlyWhenShared' /\ \A d \in Drafts : draft'[d].auto =>
                                \A p \in Posts : p = draft'[d].of => p \in shared' \/ Away(p)'
  <2>1. TwiceOnlyWhenShared'
    BY <1>2, SharedGrows DEF DraftsKept, TwiceOnlyWhenShared, SharedInv
  <2> QED
    BY <1>1, <1>2, <2>1 DEF DraftsKept
<1>3. ASSUME NEW r \in Runs, NEW d \in Drafts, NEW p \in Posts, SaveAuto(r, d), Present(p), cur[r] = p,
             draft'[d].of = p, \A e \in Drafts \ {d} : draft'[e] = draft[e]
      PROVE  TwiceOnlyWhenShared' /\ \A e \in Drafts : draft'[e].auto =>
                                \A q \in Posts : q = draft'[e].of => q \in shared' \/ Away(q)'
  <2>1. p \in Hand(r) /\ (p \notin shared => Away(p)')
    BY <1>3, SaveAutoAlone
  <2>2. ASSUME NEW e \in Drafts \ {d}, draft'[e].auto, draft'[e].of = p PROVE p \in shared'
    BY <1>1, <1>3, <2>1, <2>2 DEF Away
  <2>3. TwiceOnlyWhenShared'
    BY <1>3, <2>2, SharedGrows DEF TwiceOnlyWhenShared, SharedInv
  <2> QED
    BY <1>1, <1>3, <2>1, <2>3, SharedGrows
<1>4. TwiceOnlyWhenShared' /\ \A d \in Drafts : draft'[d].auto =>
                                \A p \in Posts : p = draft'[d].of => p \in shared' \/ Away(p)'
  BY <1>2, <1>3, DraftSteps
<1>5. ASSUME NEW d \in Drafts, draft'[d].auto PROVE draft'[d].of \in Posts
  BY <1>5, TypeStep DEF TypeInv, TypeOK, NoDraft
<1>6. \A d \in Drafts : draft'[d].auto => draft'[d].of \in shared' \/ Away(draft[d].of)'
  <2> SUFFICES ASSUME NEW d \in Drafts, draft'[d].auto PROVE draft'[d].of \in shared' \/ Away(draft[d].of)'
    OBVIOUS
  <2>1. PICK p \in Posts : p = draft'[d].of
    BY <1>5
  <2>2. p \in shared' \/ Away(p)'
    BY <1>4, <2>1
  <2> QED
    BY <2>1, <2>2 DEF Away
<1>7. \A r, o \in Runs : r # o => Hand(r)' \cap Hand(o)' \subseteq shared'
  BY HandsApart
<1>8. \A r \in Runs : \A p \in Hand(r)' :
       /\ row'[p].status \notin {"new", "absent"}
       /\ \A o \in Runs : p \in DOMAIN loaded'[o] => loaded'[o][p].status # "new"
  BY HandNotNew
<1> QED
  BY <1>4, <1>6, <1>7, <1>8, AskedStatus DEF SharedInv

\* However many runs overlap, whatever statuses operators write between the queries of a
\* comparison, and whoever restarts the process: two automatic drafts of a post come
\* from two runs that had it in hand together.
THEOREM TwiceIsShared == ASSUME NewsroomAssumption PROVE Spec => []TwiceOnlyWhenShared
<1>1. Init => TypeInv /\ PlaceInv /\ JudgedInv /\ SharedInv
  <2>1. ASSUME Init PROVE JudgedInv
    BY <2>1 DEF Init, JudgedInv, Unread
  <2>2. ASSUME Init PROVE SharedInv
    BY <2>2 DEF Init, SharedInv, TwiceOnlyWhenShared, NoDraft, Hand, Actors
  <2> QED
    BY <2>1, <2>2, TypeInit, PlaceInit
<1>2. TypeInv /\ PlaceInv /\ JudgedInv /\ SharedInv /\ [Next]_vars
        => TypeInv' /\ PlaceInv' /\ JudgedInv' /\ SharedInv'
  BY TypeStep, PlaceStep, JudgedStep, SharedStep
<1>3. SharedInv => TwiceOnlyWhenShared
  BY DEF SharedInv
<1> QED
  BY <1>1, <1>2, <1>3, PTL DEF Spec

-----------------------------------------------------------------------------
(* What is drafted repeats nothing that was there before.                  *)

Clear(p) == Text[p] # NoText => ~\E q \in before[p] : Present(q) /\ Text[q] = Text[p]
Safe(p) == row[p].hashed /\ Clear(p)

\* A post that may still be drafted automatically has been compared, and what was there
\* then and still is has another text.  No post is compared for the first time twice.
FirstInv ==
  /\ \A p \in Posts : /\ \A q \in before[p] : row[q].status # "absent"
                      /\ row[p].status = "ready" => Safe(p)
                      /\ row[p].status = "new" => ~row[p].hashed
  /\ \A r \in Runs : \A p \in Hand(r) : row[p].status # "absent" /\ (Present(p) => Safe(p))
  /\ \A d \in Drafts : draft[d].auto => Safe(draft[d].of)

\* The rows of a session are still as they were read, but for what threads have written, and
\* a verdict of "ready" is still justified.
FreshInv ==
  \A r \in Runs : \A p \in DOMAIN loaded[r] :
    /\ row[p].status # "absent"
    /\ Present(p) => row[p].hashed = loaded[r][p].hashed
    /\ loaded[r][p].status = "new" => ~loaded[r][p].hashed
    /\ loaded[r][p].status = "ready" => (Present(p) => Safe(p)) /\ row[p].status # "new"
    /\ p \notin todo[r] /\ staged[r][p].status = "ready" => Text[p] = NoText \/ SameHash(p) = {}

\* A row that is there does not come back when it is gone.
LEMMA NoReturn ==
  ASSUME NewsroomAssumption, TypeInv, [Next]_vars, NEW p \in Posts, row[p].status # "absent"
  PROVE  row'[p].status # "absent" /\ (Present(p)' => Present(p))
<1>1. row[p] # NoPost
  BY DEF NoPost
<1>2. ASSUME NEW r \in Runs, CommitVerdicts(r), p \in Dirty(r) PROVE Present(p) /\ Present(p)'
  BY <1>2, CommittedRow, CommitType
<1> QED
  BY <1>1, <1>2, PostMoves DEF PostSteps, Settled, Gone, Present

\* The history of a post is written when it is compared for the first time.
LEMMA BeforeSteps ==
  ASSUME NewsroomAssumption, TypeInv, [Next]_vars, NEW p \in Posts
  PROVE  \/ before'[p] = before[p]
         \/ /\ before'[p] = {q \in Posts : Present(q) /\ row[q].hashed}
            /\ row[p] = NoPost \/ \E r \in Runs : CommitVerdicts(r) /\ p \in Dirty(r) /\ ~row[p].hashed
<1>0. before \in [Posts -> SUBSET Posts]
  BY TypeParts
<1>1. ASSUME NEW c \in Desks, NEW q \in Composed, NEW d \in Drafts, SaveComposed(c, q, d), before'[p] # before[p]
      PROVE  before'[p] = {x \in Posts : Present(x) /\ row[x].hashed} /\ row[p] = NoPost
  BY <1>0, <1>1 DEF SaveComposed
<1>2. ASSUME NEW r \in Runs, CommitVerdicts(r), before'[p] # before[p]
      PROVE  before'[p] = {x \in Posts : Present(x) /\ row[x].hashed} /\ p \in Dirty(r) /\ ~row[p].hashed
  BY <1>0, <1>2 DEF CommitVerdicts
<1>3. CASE (\E q \in Posts : Arrive(q)) \/ \E posts \in SUBSET Posts : DeletePosts(posts)
  BY <1>3 DEF Arrive, DeletePosts
<1> QED
  BY <1>1, <1>2, <1>3, RowSteps

LEMMA SafeStays ==
  ASSUME NewsroomAssumption, TypeInv, JudgedInv, FirstInv, [Next]_vars,
         NEW p \in Posts, Present(p), Safe(p), Present(p)'
  PROVE  Safe(p)'
<1>1. row[p] # NoPost /\ row[p].hashed
  BY DEF Present, NoPost, Safe
<1>2. ASSUME NEW r \in Runs, CommitVerdicts(r), p \in Dirty(r) PROVE row'[p].hashed
  <2>1. p \in DOMAIN loaded[r] /\ p \notin todo[r]
    BY <1>2, CommittedStatus
  <2>2. staged[r][p].hashed
    BY <2>1 DEF JudgedInv
  <2> QED
    BY <1>1, <1>2, <2>2, CommittedRow DEF Column
<1>3. row'[p].hashed
  BY <1>1, <1>2, PostMoves DEF PostSteps, Gone, Present
<1>4. before'[p] = before[p]
  BY <1>1, BeforeSteps
<1>5. ASSUME NEW q \in before[p] PROVE Present(q)' => Present(q)
  <2>1. q \in Posts /\ row[q].status # "absent"
    BY TypeParts DEF FirstInv
  <2> QED
    BY <2>1, NoReturn
<1> QED
  BY <1>3, <1>4, <1>5 DEF Safe, Clear

\* The commit that makes a post ready.
LEMMA ReadyIsSafe ==
  ASSUME NewsroomAssumption, TypeInv, JudgedInv, FirstInv, FreshInv, [Next]_vars,
         NEW r \in Runs, CommitVerdicts(r), NEW p \in Posts, p \in Dirty(r), row'[p].status = "ready"
  PROVE  Safe(p)'
<1>1. /\ Present(p) /\ Present(p)' /\ p \in DOMAIN loaded[r] /\ p \notin todo[r]
      /\ row'[p].hashed = Column(row[p].hashed, loaded[r][p].hashed, staged[r][p].hashed)
  BY CommittedRow, CommitType, CommittedStatus
<1>2. CASE row[p].status = "ready"
  BY <1>1, <1>2, SafeStays DEF FirstInv
<1>3. CASE loaded[r][p].status = "new" /\ staged[r][p].status = "ready"
  <2>1. ~loaded[r][p].hashed /\ ~row[p].hashed /\ staged[r][p].hashed
    BY <1>1, <1>3 DEF FreshInv, JudgedInv
  <2>2. row'[p].hashed
    BY <1>1, <2>1 DEF Column
  <2>3. before'[p] = {q \in Posts : Present(q) /\ row[q].hashed}
    BY <1>1, <2>1, TypeParts DEF CommitVerdicts
  <2>4. ASSUME Text[p] # NoText, NEW q \in before'[p], Text[q] = Text[p] PROVE FALSE
    <3>1. q \in SameHash(p)
      BY <2>1, <2>3, <2>4 DEF SameHash
    <3> QED
      BY <1>1, <1>3, <2>4, <3>1 DEF FreshInv
  <2> QED
    BY <2>2, <2>4 DEF Safe, Clear
<1> QED
  BY <1>2, <1>3, CommittedStatus

\* A commit makes no post new.
LEMMA NeverNewAgain ==
  ASSUME NewsroomAssumption, TypeInv, JudgedInv, FreshInv,
         NEW r \in Runs, CommitVerdicts(r), NEW p \in Posts, p \in Dirty(r)
  PROVE  row'[p].status # "new"
<1>1. /\ p \in DOMAIN loaded[r] /\ p \notin todo[r]
      /\ row'[p].status = Column(row[p].status, loaded[r][p].status, staged[r][p].status)
  BY CommittedRow, CommittedStatus
<1>2. /\ loaded[r][p].status \in Unjudged /\ staged[r][p].status \in {"ready", "duplicate"}
      /\ loaded[r][p].status = "ready" => row[p].status # "new"
  BY <1>1 DEF JudgedInv, FreshInv
<1> QED
  BY <1>1, <1>2 DEF Column, Unjudged

LEMMA FirstStep ==
  ASSUME NewsroomAssumption, TypeInv, PlaceInv, JudgedInv, FirstInv, FreshInv, [Next]_vars
  PROVE  FirstInv'
<1>1. ASSUME NEW p \in Posts, NEW q \in before'[p] PROVE row'[q].status # "absent"
  <2>1. q \in Posts /\ row[q].status # "absent"
    BY <1>1, BeforeSteps, TypeParts DEF FirstInv, Present
  <2> QED
    BY <2>1, NoReturn
<1>2. ASSUME NEW p \in Posts, row'[p].status = "ready" PROVE Safe(p)'
  <2>1. CASE row[p].status = "ready"
    BY <1>2, <2>1, SafeStays DEF FirstInv, Present
  <2>2. CASE row[p].status # "ready"
    BY <1>2, <2>2, ReadyIsSafe, PostMoves DEF PostSteps, Settled, Gone
  <2> QED
    BY <2>1, <2>2
<1>3. ASSUME NEW p \in Posts, row'[p].status = "new" PROVE ~row'[p].hashed
  BY <1>3, NeverNewAgain, PostMoves DEF PostSteps, Settled, Gone, FirstInv
<1>4. ASSUME NEW r \in Runs, NEW p \in Hand(r)'
      PROVE  row'[p].status # "absent" /\ (Present(p)' => Safe(p)')
  <2>1. p \in Posts
    BY HandPosts, RunMoves DEF Listed
  <2>2. row[p].status # "absent" /\ (Present(p) => Safe(p))
    BY <2>1, RunMoves DEF FirstInv, Listed
  <2> QED
    BY <2>1, <2>2, NoReturn, SafeStays
<1>5. ASSUME NEW d \in Drafts, draft'[d].auto, NEW p \in Posts, p = draft'[d].of PROVE Safe(p)'
  <2>1. Present(p)'
    BY <1>5, TypeStep DEF TypeInv, TypeOK, NoDraft
  <2>2. ASSUME draft[d].auto, draft[d].of = p PROVE Safe(p)'
    BY <2>1, <2>2, SafeStays, TypeParts DEF FirstInv, DraftType, NoDraft
  <2>3. ASSUME NEW r \in Runs, SaveAuto(r, d), Present(cur[r]), cur[r] = p PROVE Safe(p)'
    <3>1. p \in Hand(r)
      BY <2>3 DEF SaveAuto, Hand, InHand
    <3> QED
      BY <2>1, <2>3, <3>1, SafeStays DEF FirstInv
  <2> QED
    BY <1>5, <2>2, <2>3, DraftSteps DEF DraftsKept
<1>6. ASSUME NEW d \in Drafts, draft'[d].auto PROVE Safe(draft[d].of)'
  <2>1. PICK p \in Posts : p = draft'[d].of
    BY <1>6, TypeStep DEF TypeInv, TypeOK, NoDraft
  <2>2. Safe(p)'
    BY <1>5, <1>6, <2>1
  <2> QED
    BY <2>1, <2>2 DEF Safe, Clear
<1> QED
  BY <1>1, <1>2, <1>3, <1>4, <1>6 DEF FirstInv

\* While a run compares, threads write statuses and delete, and nobody adds a hash.
LEMMA StillFresh ==
  ASSUME NewsroomAssumption, TypeInv, PlaceInv, [Next]_vars, NEW r \in Runs, pc[r] = "comparing", ~CommitVerdicts(r),
         NEW p \in Posts
  PROVE  /\ row'[p].hashed => row[p].hashed
         /\ Present(p) /\ Present(p)' => row'[p].hashed = row[p].hashed
         /\ Present(p)' /\ row'[p].hashed => Present(p)
         /\ row'[p].status = "new" => row[p].status \in {"new", "absent"}
<1>1. ~\E o \in Runs : CommitVerdicts(o)
  BY DEF CommitVerdicts, PlaceInv, Loop
<1>2. ~\E c \in Desks, q \in Composed, d \in Drafts : SaveComposed(c, q, d)
  BY DEF SaveComposed, LoopFree
<1>3. p \in Composed /\ row[p] = NoPost => row'[p] = row[p]
  <2>1. CASE StatusOnly
    BY <2>1 DEF StatusOnly, Present, NoPost
  <2>2. ASSUME NEW q \in Posts, Arrive(q), p \in Composed PROVE row'[p] = row[p]
    BY <2>2, ArriveType DEF Arrive
  <2>3. ASSUME NEW posts \in SUBSET Posts, DeletePosts(posts), row[p] = NoPost PROVE row'[p] = row[p]
    <3>1. p \notin posts /\ row' = Removed(posts) /\ row[p].dup \notin posts
      BY <2>3 DEF DeletePosts, Present, NoPost, NewsroomAssumption
    <3> QED
      BY <3>1 DEF Removed
  <2> QED
    BY <1>1, <1>2, <2>1, <2>2, <2>3, RowSteps
<1>4. row[p] = NoPost => row[p].status = "absent" /\ ~row[p].hashed
  BY DEF NoPost
<1>5. \/ row'[p].status = row[p].status /\ row'[p].hashed = row[p].hashed
      \/ row'[p].status \in Settled /\ row'[p].hashed = row[p].hashed /\ Present(p)
      \/ row'[p].status = "deleted" /\ ~row'[p].hashed
      \/ row[p].status = "absent" /\ row'[p].status = "new" /\ ~row'[p].hashed
  BY <1>1, <1>3, <1>4, PostMoves DEF PostSteps, Gone
<1> QED
  BY <1>5 DEF Settled, Present

LEMMA FreshStep ==
  ASSUME NewsroomAssumption, TypeInv, PlaceInv, JudgedInv, FirstInv, FreshInv, [Next]_vars
  PROVE  FreshInv'
<1> SUFFICES ASSUME NEW r \in Runs, NEW p \in DOMAIN loaded'[r]
             PROVE  /\ row'[p].status # "absent"
                    /\ Present(p)' => row'[p].hashed = loaded'[r][p].hashed
                    /\ loaded'[r][p].status = "new" => ~loaded'[r][p].hashed
                    /\ loaded'[r][p].status = "ready" => (Present(p)' => Safe(p)') /\ row'[p].status # "new"
                    /\ p \notin todo'[r] /\ staged'[r][p].status = "ready"
                         => Text[p] = NoText \/ SameHash(p)' = {}
  BY DEF FreshInv
<1>0. p \in Posts
  BY TypeStep DEF TypeInv, SessionType
<1>1. CASE Rests(r) /\ staged'[r] = staged[r] /\ loaded'[r] = loaded[r]
  <2>1. /\ p \in DOMAIN loaded[r] /\ pc[r] = "comparing" /\ todo'[r] = todo[r]
        /\ row[p].status # "absent"
    BY <1>1 DEF PlaceInv, Rests, FreshInv
  <2>2. ~CommitVerdicts(r)
    BY <1>1, <2>1, TypeParts DEF CommitVerdicts, Rests
  <2>3. row'[p].status # "absent" /\ (Present(p)' => Present(p))
    BY <1>0, <2>1, NoReturn
  <2>4. /\ Present(p) /\ Present(p)' => row'[p].hashed = row[p].hashed
        /\ row'[p].status = "new" => row[p].status = "new"
    BY <1>0, <2>1, <2>2, StillFresh
  <2>5. SameHash(p)' \subseteq SameHash(p)
    BY <2>1, <2>2, StillFresh DEF SameHash
  <2>6. loaded[r][p].status = "ready" => (Present(p)' => Safe(p)')
    BY <1>0, <2>1, <2>3, SafeStays DEF FreshInv
  <2> QED
    BY <1>1, <2>1, <2>3, <2>4, <2>5, <2>6 DEF FreshInv
<1>2. CASE StartRun(r)
  <2>1. /\ row' = row /\ loaded'[r][p] = row[p] /\ p \in todo'[r] /\ row[p].status \in Unjudged
    BY <1>2, StartedSession
  <2>2. row[p].status = "ready" => (Present(p)' => Safe(p)')
    BY <1>0, <2>1, SafeStays DEF FirstInv, Present
  <2> QED
    BY <1>0, <2>1, <2>2 DEF Unjudged, FirstInv
<1>3. ASSUME NEW q \in Posts, Compare(r, q)
      PROVE  /\ row'[p].status # "absent"
             /\ Present(p)' => row'[p].hashed = loaded'[r][p].hashed
             /\ loaded'[r][p].status = "new" => ~loaded'[r][p].hashed
             /\ loaded'[r][p].status = "ready" => (Present(p)' => Safe(p)') /\ row'[p].status # "new"
             /\ p \notin todo'[r] /\ staged'[r][p].status = "ready"
                  => Text[p] = NoText \/ SameHash(p)' = {}
  <2>1. /\ p \in DOMAIN loaded[r] /\ loaded'[r] = loaded[r] /\ row' = row /\ todo'[r] = todo[r] \ {q}
        /\ p # q => staged'[r][p] = staged[r][p]
        /\ p = q /\ staged'[r][p].status = "ready" => Text[p] = NoText \/ SameHash(p) = {}
    BY <1>3, ComparedPost
  <2>2. SameHash(p)' = SameHash(p) /\ (Present(p)' <=> Present(p))
    BY <2>1 DEF SameHash, Present
  <2>3. loaded[r][p].status = "ready" => (Present(p)' => Safe(p)')
    BY <1>0, <2>1, <2>2, SafeStays DEF FreshInv
  <2> QED
    BY <2>1, <2>2, <2>3 DEF FreshInv
<1> QED
  BY <1>1, <1>2, <1>3, SessionLasts

\* Whatever arrives, is typed, rejected or deleted while runs compare and ask: what is
\* drafted without anybody looking at it has a text that no post the base had before
\* it, and still has, shares.
THEOREM FirstIsFirst == ASSUME NewsroomAssumption PROVE Spec => []FirstOfItsText
<1>1. Init => TypeInv /\ PlaceInv /\ JudgedInv /\ FirstInv /\ FreshInv
  <2>1. ASSUME Init PROVE JudgedInv /\ FreshInv
    BY <2>1 DEF Init, JudgedInv, FreshInv, Unread
  <2>2. ASSUME Init PROVE FirstInv
    BY <2>2 DEF Init, FirstInv, NoPost, NoDraft, Hand, Actors
  <2> QED
    BY <2>1, <2>2, TypeInit, PlaceInit
<1>2. TypeInv /\ PlaceInv /\ JudgedInv /\ FirstInv /\ FreshInv /\ [Next]_vars
        => TypeInv' /\ PlaceInv' /\ JudgedInv' /\ FirstInv' /\ FreshInv'
  BY TypeStep, PlaceStep, JudgedStep, FirstStep, FreshStep
<1>3. FirstInv => FirstOfItsText
  BY DEF FirstInv, FirstOfItsText, Safe, Clear
<1> QED
  BY <1>1, <1>2, <1>3, PTL DEF Spec
=============================================================================
