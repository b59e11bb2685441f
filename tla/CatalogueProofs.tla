----------------------------- MODULE CatalogueProofs -----------------------------
(***************************************************************************)
(* Theorems about Catalogue, for any channels, links, sources, targets,     *)
(* prompts, requests, collections and threads: the types, whose number a    *)
(* cursor is, when a channel is two sources, and that the prompt of a       *)
(* target is one that exists.                                               *)
(***************************************************************************)
EXTENDS Catalogue, WellFoundedInduction, TLAPS

-----------------------------------------------------------------------------
(* The rows of the sources, and what waits with a row in its hands.         *)

RowSet == [state : {"none", "open", "requested", "joined", "deleted"}, name : Named \cup {None},
           invite : Invites \cup {None}, id : Channels \cup {None},
           cursor : Channels \cup {None}, enabled : BOOLEAN]

\* A closed channel has no name, and its id, once known, is that of its link's channel.
Shape(row) ==
  /\ row \in RowSet
  /\ row.state = "none" => row = NoSource
  /\ row.invite # None => row.name = None /\ row.id \in {None, ChannelOf[row.invite]}

SourceInv == source \in [Sources -> RowSet] /\ \A s \in Sources : Shape(source[s])

RequestInv ==
  /\ request \in [Requests -> [at : {"idle", "joining", "checking", "routing"},
                               source : Sources \cup {None}, invite : Invites \cup {None},
                               target : Targets \cup {None}]]
  /\ \A r \in Requests :
       /\ request[r].at = "joining" => request[r].invite \in Invites
       /\ request[r].at = "checking" => request[r].source \in Sources
       /\ request[r].at = "checking" => source[request[r].source].invite # None
       /\ request[r].at = "routing" => request[r].target \in Targets

ReadInv ==
  /\ read \in [Readers -> [source : Sources \cup {None}, row : RowSet]]
  /\ \A q \in Readers : read[q].source # None =>
       /\ Shape(read[q].row) /\ read[q].row.state # "none" /\ Reads(read[q].row) # None
       /\ source[read[q].source].state # "none"
       /\ source[read[q].source].invite = read[q].row.invite

SaveInv ==
  /\ save \in [Saves -> [source : Sources \cup {None}, channel : Channels \cup {None}]]
  /\ \A e \in Saves : save[e].source # None =>
       save[e].channel \in Channels /\ source[save[e].source].state # "none"

RowInv == SourceInv /\ RequestInv /\ ReadInv /\ SaveInv

\* No step takes a row back, or gives it another link.
Same(s) == source[s].state # "none" =>
             source'[s].state # "none" /\ source'[s].invite = source[s].invite

LEMMA NoSourceShape == Shape(NoSource)
BY DEF Shape, NoSource, RowSet

\* A change of one row that keeps the shape and the link keeps the table in order.
LEMMA RowPut ==
  ASSUME SourceInv, NEW s \in Sources, NEW row, Shape(row),
         source' = [source EXCEPT ![s] = row],
         source[s].state # "none" => row.state # "none" /\ row.invite = source[s].invite
  PROVE  SourceInv' /\ \A x \in Sources : Same(x)
<1>1. row \in RowSet
  BY DEF Shape
<1>2. source' \in [Sources -> RowSet]
  BY <1>1 DEF SourceInv
<1>3. \A x \in Sources : source'[x] = IF x = s THEN row ELSE source[x]
  BY DEF SourceInv
<1>4. ASSUME NEW x \in Sources PROVE Shape(source'[x]) /\ Same(x)
  BY <1>3 DEF SourceInv, Same
<1> QED
  BY <1>2, <1>4 DEF SourceInv

LEMMA CreatePublicRow ==
  ASSUME CatalogueAssumption, RowInv, NEW s \in Sources, NEW c \in Named, CreatePublic(s, c)
  PROVE  SourceInv' /\ \A x \in Sources : Same(x)
<1> DEFINE row == [NoSource EXCEPT !.state = "open", !.name = c, !.enabled = TRUE]
<1>1. source' = [source EXCEPT ![s] = row] /\ source[s] = NoSource
  BY DEF CreatePublic, Store, Used
<1>2. row \in RowSet /\ row.state = "open" /\ row.name = c /\ row.invite = None
  BY DEF NoSource, RowSet
<1>3. Shape(row)
  BY <1>2 DEF Shape, CatalogueAssumption
<1>4. source[s].state = "none"
  BY <1>1 DEF NoSource
<1> HIDE DEF row
<1> QED
  BY <1>1, <1>3, <1>4, RowPut DEF RowInv

LEMMA JoinRow ==
  ASSUME CatalogueAssumption, RowInv, NEW r \in Requests, NEW s \in Sources, Join(r, s)
  PROVE  SourceInv' /\ \A x \in Sources : Same(x)
<1> DEFINE h == request[r].invite
           row(o) == [NoSource EXCEPT !.state = o.state, !.invite = h, !.id = o.id, !.enabled = TRUE]
<1>1. h \in Invites /\ source[s] = NoSource
  BY DEF Join, RowInv, RequestInv, Used
<1>2. PICK o \in Outcomes(h) :
        IF Twin(o.id) THEN UNCHANGED <<source, keys>> ELSE source' = [source EXCEPT ![s] = row(o)]
  BY DEF Join, Store
<1>3. o.state \in {"requested", "joined"} /\ o.id \in {None, ChannelOf[h]}
  BY DEF Outcomes
<1>5. ChannelOf[h] \in Channels /\ h # None
  BY <1>1 DEF CatalogueAssumption
<1>6. /\ row(o) \in RowSet /\ row(o).state = o.state /\ row(o).name = None
      /\ row(o).invite = h /\ row(o).id = o.id
  BY <1>1, <1>3, <1>5 DEF NoSource, RowSet
<1>7. Shape(row(o))
  BY <1>3, <1>5, <1>6 DEF Shape
<1>8. source[s].state = "none"
  BY <1>1 DEF NoSource
<1>9. CASE Twin(o.id)
  BY <1>2, <1>9 DEF RowInv, SourceInv, Same
<1>10. CASE ~Twin(o.id)
  <2> HIDE DEF row
  <2> QED
    BY <1>2, <1>7, <1>8, <1>10, RowPut DEF RowInv
<1> QED
  BY <1>9, <1>10

LEMMA EditRow ==
  ASSUME CatalogueAssumption, RowInv, NEW s \in Sources, NEW c \in Named \cup {None}, Edit(s, c)
  PROVE  SourceInv' /\ \A x \in Sources : Same(x)
<1> DEFINE row == [source[s] EXCEPT !.name = c, !.cursor = None]
<1>1. /\ source' = [source EXCEPT ![s] = row]
      /\ source[s].state \in {"open", "requested", "joined"} /\ source[s].invite = None
  BY DEF Edit, Store, Renamed, RowInv, SourceInv, There
<1>2. /\ row \in RowSet /\ row.state = source[s].state /\ row.invite = None /\ row.name = c
  BY <1>1 DEF RowInv, SourceInv, RowSet
<1>3. Shape(row)
  BY <1>1, <1>2 DEF Shape, CatalogueAssumption
<1> HIDE DEF row
<1> QED
  BY <1>1, <1>2, <1>3, RowPut DEF RowInv

LEMMA ToggleRow ==
  ASSUME RowInv, NEW s \in Sources, Toggle(s)
  PROVE  SourceInv' /\ \A x \in Sources : Same(x)
<1> DEFINE row == [source[s] EXCEPT !.enabled = ~source[s].enabled]
<1>1. source' = [source EXCEPT ![s] = row] /\ source[s].state \in {"open", "requested", "joined"}
  BY DEF Toggle, Store, RowInv, SourceInv, There
<1>2. row \in RowSet /\ row.state = source[s].state /\ row.invite = source[s].invite
      /\ row.name = source[s].name /\ row.id = source[s].id
  BY DEF RowInv, SourceInv, RowSet
<1>3. Shape(row)
  BY <1>1, <1>2 DEF Shape, RowInv, SourceInv
<1> HIDE DEF row
<1> QED
  BY <1>1, <1>2, <1>3, RowPut DEF RowInv

LEMMA DeleteSourceRow ==
  ASSUME RowInv, NEW s \in Sources, DeleteSource(s)
  PROVE  SourceInv' /\ \A x \in Sources : Same(x)
<1> DEFINE row == [source[s] EXCEPT !.state = "deleted"]
<1>1. source' = [source EXCEPT ![s] = row] /\ source[s].state \in {"open", "requested", "joined"}
  BY DEF DeleteSource, Store, RowInv, SourceInv, There
<1>2. row \in RowSet /\ row.state = "deleted" /\ row.invite = source[s].invite
      /\ row.name = source[s].name /\ row.id = source[s].id
  BY DEF RowInv, SourceInv, RowSet
<1>3. Shape(row)
  BY <1>1, <1>2 DEF Shape, RowInv, SourceInv
<1> HIDE DEF row
<1> QED
  BY <1>1, <1>2, <1>3, RowPut DEF RowInv

LEMMA ApprovedRow ==
  ASSUME CatalogueAssumption, RowInv, NEW r \in Requests, Approved(r)
  PROVE  SourceInv' /\ \A x \in Sources : Same(x)
<1> DEFINE s == request[r].source
           row == [source[s] EXCEPT !.state = "joined", !.id = ChannelOf[source[s].invite]]
<1>1. s \in Sources /\ source[s].invite # None
  BY DEF Approved, RowInv, RequestInv
<1>2. source[s].invite \in Invites /\ source[s] \in RowSet
  BY <1>1 DEF RowInv, SourceInv, RowSet
<1>3. CASE ~There(s)
  BY <1>3 DEF Approved, RowInv, SourceInv, Same
<1>4. CASE There(s)
  <2>1. source' = [source EXCEPT ![s] = row]
    BY <1>1, <1>2, <1>4 DEF Approved, Store, RowInv, SourceInv
  <2>2. ChannelOf[source[s].invite] \in Channels
    BY <1>2 DEF CatalogueAssumption
  <2>3. row \in RowSet /\ row.state = "joined" /\ row.invite = source[s].invite
        /\ row.name = source[s].name /\ row.id = ChannelOf[source[s].invite]
    BY <1>2, <2>2 DEF RowSet
  <2>4. source[s].name = None
    BY <1>1 DEF RowInv, SourceInv, Shape
  <2>5. Shape(row)
    BY <1>1, <2>3, <2>4 DEF Shape
  <2> HIDE DEF row, s
  <2> QED
    BY <1>1, <2>1, <2>3, <2>5, RowPut DEF RowInv
<1> QED
  BY <1>3, <1>4

\* What a collection knows of the channel it reads: of a closed one, nothing new.
LEMMA FetchedChannel ==
  ASSUME CatalogueAssumption, RowInv, NEW q \in Readers, read[q].source # None
  PROVE  /\ Reads(read[q].row) \in Channels
         /\ read[q].row.invite # None => read[q].row.id = Reads(read[q].row)
                                         /\ Reads(read[q].row) = ChannelOf[read[q].row.invite]
BY DEF RowInv, ReadInv, Shape, Reads, RowSet, CatalogueAssumption

\* The row a collection writes is the one in the table with its id and cursor set.
LEMMA EndFetchRow ==
  ASSUME CatalogueAssumption, RowInv, NEW q \in Readers, EndFetch(q)
  PROVE  /\ SourceInv' /\ \A x \in Sources : Same(x)
         /\ \A x \in Sources \ {read[q].source} : source'[x] = source[x]
         /\ \/ source' = source
            \/ /\ There(read[q].source)
               /\ source'[read[q].source].name = source[read[q].source].name
               /\ source'[read[q].source].state = source[read[q].source].state
               /\ source'[read[q].source].invite = source[read[q].source].invite
               /\ source'[read[q].source].cursor \in {source[read[q].source].cursor, Reads(read[q].row)}
               /\ source'[read[q].source].id \in {source[read[q].source].id, Reads(read[q].row)}
               /\ source[read[q].source].invite # None =>
                    source'[read[q].source].id = source[read[q].source].id
<1> DEFINE s == read[q].source
           from == Reads(read[q].row)
<1>1. s \in Sources /\ s # None
  BY DEF EndFetch, RowInv, ReadInv
<1>2. CASE ~There(s)
  BY <1>2 DEF EndFetch, RowInv, SourceInv, Same
<1>3. CASE There(s)
  <2>1. PICK cursor \in {source[s].cursor, from} :
          source' = [source EXCEPT ![s].id = IF read[q].row.id = from THEN @ ELSE from,
                                   ![s].cursor = cursor]
    BY <1>3 DEF EndFetch
  <2> DEFINE id == IF read[q].row.id = from THEN source[s].id ELSE from
             row == [source[s] EXCEPT !.id = id, !.cursor = cursor]
  <2>2. source' = [source EXCEPT ![s] = row]
    BY <1>1, <2>1 DEF RowInv, SourceInv, RowSet
  <2>3. from \in Channels /\ source[s] \in RowSet
    BY <1>1, FetchedChannel DEF RowInv, SourceInv
  <2>4. row \in RowSet /\ row.state = source[s].state /\ row.invite = source[s].invite
        /\ row.name = source[s].name /\ row.id = id /\ row.cursor = cursor
    BY <2>3 DEF RowSet
  <2>5. source[s].invite # None => id = source[s].id
    BY <1>1, FetchedChannel DEF RowInv, ReadInv
  <2>6. source[s].state # "none" /\ id \in {source[s].id, from}
    BY <1>3 DEF There
  <2> HIDE DEF row, id
  <2>7. Shape(row)
    BY <1>1, <2>4, <2>5, <2>6 DEF Shape, RowInv, SourceInv
  <2>8. SourceInv' /\ \A x \in Sources : Same(x)
    BY <1>1, <2>2, <2>4, <2>7, RowPut DEF RowInv
  <2>9. source'[s] = row /\ \A x \in Sources \ {s} : source'[x] = source[x]
    BY <1>1, <2>2 DEF RowInv, SourceInv
  <2> QED
    BY <1>3, <2>4, <2>5, <2>6, <2>8, <2>9
<1> QED
  BY <1>2, <1>3

LEMMA EndSaveRow ==
  ASSUME CatalogueAssumption, RowInv, NEW e \in Saves, EndSave(e)
  PROVE  SourceInv' /\ \A x \in Sources : Same(x)
<1> DEFINE s == save[e].source
           row == [source[s] EXCEPT !.cursor = save[e].channel]
<1>1. s \in Sources /\ save[e].channel \in Channels /\ source[s].state # "none"
  BY DEF EndSave, RowInv, SaveInv
<1>2. CASE source' = source
  BY <1>2 DEF RowInv, SourceInv, Same
<1>3. CASE source' = [source EXCEPT ![s].cursor = save[e].channel]
  <2>1. source' = [source EXCEPT ![s] = row]
    BY <1>1, <1>3 DEF RowInv, SourceInv
  <2>2. row \in RowSet /\ row.state = source[s].state /\ row.invite = source[s].invite
        /\ row.name = source[s].name /\ row.id = source[s].id
    BY <1>1 DEF RowInv, SourceInv, RowSet
  <2>3. Shape(row)
    BY <1>1, <2>2 DEF Shape, RowInv, SourceInv
  <2> HIDE DEF row, s
  <2> QED
    BY <1>1, <2>1, <2>2, <2>3, RowPut DEF RowInv
<1> QED
  BY <1>2, <1>3 DEF EndSave

\* Who writes the rows of sources.
Writers ==
  \/ \E s \in Sources, c \in Named : CreatePublic(s, c)
  \/ \E s \in Sources, c \in Named \cup {None} : Edit(s, c)
  \/ \E s \in Sources, r \in Requests : Join(r, s)
  \/ \E s \in Sources : Toggle(s) \/ DeleteSource(s)
  \/ \E r \in Requests : Approved(r)
  \/ \E q \in Readers : EndFetch(q)
  \/ \E e \in Saves : EndSave(e)

LEMMA SourceFrame ==
  ASSUME Next PROVE UNCHANGED source \/ Writers
<1>1. ASSUME NEW s \in Sources, Editing(s) PROVE UNCHANGED source \/ Writers
  <2>1. ASSUME NEW r \in Requests, AskAgain(r, s) PROVE UNCHANGED source
    BY <2>1 DEF AskAgain
  <2> QED
    BY <1>1, <2>1 DEF Editing, Writers
<1>2. ASSUME NEW r \in Requests, Waiting(r) PROVE UNCHANGED source \/ Writers
  BY <1>2 DEF Waiting, AskToJoin, Refused, OpenForm, SyncRoutes, Writers
<1>3. ASSUME NEW t \in Targets, CreateTarget(t) \/ DeleteTarget(t) PROVE UNCHANGED source
  BY <1>3 DEF CreateTarget, DeleteTarget
<1>4. ASSUME Collecting PROVE UNCHANGED source \/ Writers
  BY <1>4 DEF Collecting, Fetch, FetchFails, Hear, Reload, Writers
<1>5. ASSUME Prompting PROVE UNCHANGED source
  BY <1>5 DEF Prompting, CreatePrompt, MakeDefault, DeletePrompt, ChoosePrompt, CommitPrompt
<1>6. ASSUME Restart PROVE UNCHANGED source
  BY <1>6 DEF Restart
<1> QED
  BY <1>1, <1>2, <1>3, <1>4, <1>5, <1>6 DEF Next

LEMMA SourceStep ==
  ASSUME CatalogueAssumption, RowInv, Next
  PROVE  SourceInv' /\ \A x \in Sources : Same(x)
<1>1. CASE UNCHANGED source
  BY <1>1 DEF RowInv, SourceInv, Same
<1>2. CASE Writers
  BY <1>2, CreatePublicRow, JoinRow, EditRow, ToggleRow, DeleteSourceRow, ApprovedRow,
     EndFetchRow, EndSaveRow DEF Writers
<1> QED
  BY <1>1, <1>2, SourceFrame

\* A request that waits, and its row.
Wait(w) ==
  /\ w \in [at : {"idle", "joining", "checking", "routing"}, source : Sources \cup {None},
            invite : Invites \cup {None}, target : Targets \cup {None}]
  /\ w.at = "joining" => w.invite \in Invites
  /\ w.at = "checking" => w.source \in Sources
  /\ w.at = "checking" => source[w.source].invite # None /\ source[w.source].state # "none"
  /\ w.at = "routing" => w.target \in Targets

LEMMA RequestPut ==
  ASSUME RowInv, \A x \in Sources : Same(x), NEW r \in Requests, NEW w, Wait(w),
         request' = [request EXCEPT ![r] = w]
  PROVE  RequestInv'
<1>1. \A o \in Requests : request'[o] = IF o = r THEN w ELSE request[o]
  BY DEF RowInv, RequestInv
<1>2. request' \in [Requests -> [at : {"idle", "joining", "checking", "routing"},
                                source : Sources \cup {None}, invite : Invites \cup {None},
                                target : Targets \cup {None}]]
  BY DEF RowInv, RequestInv, Wait
<1>3. ASSUME NEW s \in Sources, source[s].invite # None PROVE source'[s].invite # None
  BY <1>3 DEF Same, RowInv, SourceInv, Shape, NoSource
<1>4. ASSUME NEW o \in Requests
      PROVE  /\ request'[o].at = "joining" => request'[o].invite \in Invites
             /\ request'[o].at = "checking" => request'[o].source \in Sources
             /\ request'[o].at = "checking" => source'[request'[o].source].invite # None
             /\ request'[o].at = "routing" => request'[o].target \in Targets
  BY <1>1, <1>3 DEF RowInv, RequestInv, Wait
<1> QED
  BY <1>2, <1>4 DEF RequestInv

LEMMA RequestFrame ==
  ASSUME Next
  PROVE  \/ UNCHANGED request
         \/ \E r \in Requests : \/ \E h \in Invites : AskToJoin(r, h)
                                \/ \E s \in Sources : AskAgain(r, s)
                                \/ \E t \in Targets : OpenForm(r, t)
                                \/ request' = [request EXCEPT ![r] = IdleRequest]
         \/ request' = [r \in Requests |-> IdleRequest]
<1> DEFINE Goal == \/ UNCHANGED request
                   \/ \E r \in Requests : \/ \E h \in Invites : AskToJoin(r, h)
                                          \/ \E s \in Sources : AskAgain(r, s)
                                          \/ \E t \in Targets : OpenForm(r, t)
                                          \/ request' = [request EXCEPT ![r] = IdleRequest]
                   \/ request' = [r \in Requests |-> IdleRequest]
<1>1. ASSUME NEW s \in Sources, Editing(s) PROVE Goal
  BY <1>1 DEF Editing, CreatePublic, Edit, Toggle, DeleteSource, Join
<1>2. ASSUME NEW r \in Requests, Waiting(r) PROVE Goal
  BY <1>2 DEF Waiting, Refused, Approved, SyncRoutes
<1>3. ASSUME NEW t \in Targets, CreateTarget(t) \/ DeleteTarget(t) PROVE Goal
  BY <1>3 DEF CreateTarget, DeleteTarget
<1>4. ASSUME Collecting PROVE Goal
  BY <1>4 DEF Collecting, Fetch, EndFetch, FetchFails, Hear, EndSave, Reload
<1>5. ASSUME Prompting PROVE Goal
  BY <1>5 DEF Prompting, CreatePrompt, MakeDefault, DeletePrompt, ChoosePrompt, CommitPrompt
<1>6. ASSUME Restart PROVE Goal
  BY <1>6 DEF Restart
<1> QED
  BY <1>1, <1>2, <1>3, <1>4, <1>5, <1>6 DEF Next

LEMMA RequestStep ==
  ASSUME CatalogueAssumption, RowInv, Next, \A x \in Sources : Same(x)
  PROVE  RequestInv'
<1>1. Wait(IdleRequest)
  BY DEF Wait, IdleRequest
<1>2. ASSUME NEW s \in Sources, source[s].invite # None
      PROVE  source'[s].invite # None
  BY <1>2 DEF Same, RowInv, SourceInv, Shape, NoSource
<1>3. ASSUME UNCHANGED request PROVE RequestInv'
  BY <1>2, <1>3 DEF RowInv, RequestInv
<1>4. ASSUME NEW r \in Requests, NEW h \in Invites, AskToJoin(r, h) PROVE RequestInv'
  <2> DEFINE w == [IdleRequest EXCEPT !.at = "joining", !.invite = h]
  <2>1. Wait(w)
    BY DEF Wait, IdleRequest
  <2>2. request' = [request EXCEPT ![r] = w]
    BY <1>4 DEF AskToJoin
  <2> HIDE DEF w
  <2> QED
    BY <2>1, <2>2, RequestPut
<1>5. ASSUME NEW r \in Requests, NEW s \in Sources, AskAgain(r, s) PROVE RequestInv'
  <2> DEFINE w == [IdleRequest EXCEPT !.at = "checking", !.source = s]
  <2>1. source[s].invite # None /\ source[s].state # "none"
    BY <1>5 DEF AskAgain, There
  <2>2. Wait(w)
    BY <2>1 DEF Wait, IdleRequest
  <2>3. request' = [request EXCEPT ![r] = w]
    BY <1>5 DEF AskAgain
  <2> HIDE DEF w
  <2> QED
    BY <2>2, <2>3, RequestPut
<1>6. ASSUME NEW r \in Requests, NEW t \in Targets, OpenForm(r, t) PROVE RequestInv'
  <2> DEFINE w == [IdleRequest EXCEPT !.at = "routing", !.target = t]
  <2>1. Wait(w)
    BY DEF Wait, IdleRequest
  <2>2. request' = [request EXCEPT ![r] = w]
    BY <1>6 DEF OpenForm
  <2> HIDE DEF w
  <2> QED
    BY <2>1, <2>2, RequestPut
<1>7. ASSUME NEW r \in Requests, request' = [request EXCEPT ![r] = IdleRequest] PROVE RequestInv'
  BY <1>1, <1>7, RequestPut
<1>8. ASSUME request' = [r \in Requests |-> IdleRequest] PROVE RequestInv'
  BY <1>8 DEF RequestInv, IdleRequest
<1> QED
  BY <1>3, <1>4, <1>5, <1>6, <1>7, <1>8, RequestFrame

LEMMA ReadFrame ==
  ASSUME Next
  PROVE  \/ UNCHANGED read
         \/ \E q \in Readers : \/ \E s \in Sources : Fetch(q, s)
                               \/ read' = [read EXCEPT ![q] = IdleRead]
         \/ read' = [q \in Readers |-> IdleRead]
<1> DEFINE Goal == \/ UNCHANGED read
                   \/ \E q \in Readers : \/ \E s \in Sources : Fetch(q, s)
                                         \/ read' = [read EXCEPT ![q] = IdleRead]
                   \/ read' = [q \in Readers |-> IdleRead]
<1>1. ASSUME NEW s \in Sources, Editing(s) PROVE Goal
  BY <1>1 DEF Editing, CreatePublic, Edit, Toggle, DeleteSource, Join, AskAgain, telegram
<1>2. ASSUME NEW r \in Requests, Waiting(r) PROVE Goal
  BY <1>2 DEF Waiting, AskToJoin, OpenForm, Refused, Approved, SyncRoutes, telegram
<1>3. ASSUME NEW t \in Targets, CreateTarget(t) \/ DeleteTarget(t) PROVE Goal
  BY <1>3 DEF CreateTarget, DeleteTarget, telegram
<1>4. ASSUME Collecting PROVE Goal
  BY <1>4 DEF Collecting, EndFetch, FetchFails, Hear, EndSave, Reload, telegram
<1>5. ASSUME Prompting PROVE Goal
  BY <1>5 DEF Prompting, CreatePrompt, MakeDefault, DeletePrompt, ChoosePrompt, CommitPrompt, telegram
<1>6. ASSUME Restart PROVE Goal
  BY <1>6 DEF Restart
<1> QED
  BY <1>1, <1>2, <1>3, <1>4, <1>5, <1>6 DEF Next

LEMMA ReadStep ==
  ASSUME CatalogueAssumption, RowInv, Next, \A x \in Sources : Same(x)
  PROVE  ReadInv'
<1>1. IdleRead \in [source : Sources \cup {None}, row : RowSet] /\ IdleRead.source = None
  BY NoSourceShape DEF IdleRead, Shape
<1>2. ASSUME UNCHANGED read PROVE ReadInv'
  BY <1>2 DEF RowInv, ReadInv, Same
<1>3. ASSUME NEW q \in Readers, NEW s \in Sources, Fetch(q, s) PROVE ReadInv'
  <2> DEFINE w == [source |-> s, row |-> source[s]]
  <2>1. read' = [read EXCEPT ![q] = w] /\ source' = source
        /\ source[s].state # "none" /\ Reads(source[s]) # None
    BY <1>3 DEF Fetch, There, Readable
  <2>2. w \in [source : Sources \cup {None}, row : RowSet] /\ Shape(source[s])
    BY DEF RowInv, SourceInv
  <2>3. read' \in [Readers -> [source : Sources \cup {None}, row : RowSet]]
    BY <2>1, <2>2 DEF RowInv, ReadInv
  <2>4. \A o \in Readers : read'[o] = IF o = q THEN w ELSE read[o]
    BY <2>1 DEF RowInv, ReadInv
  <2> QED
    BY <2>1, <2>2, <2>3, <2>4 DEF RowInv, ReadInv
<1>4. ASSUME NEW q \in Readers, read' = [read EXCEPT ![q] = IdleRead] PROVE ReadInv'
  <2>1. read' \in [Readers -> [source : Sources \cup {None}, row : RowSet]]
    BY <1>1, <1>4 DEF RowInv, ReadInv
  <2>2. \A o \in Readers : read'[o] = IF o = q THEN IdleRead ELSE read[o]
    BY <1>4 DEF RowInv, ReadInv
  <2> QED
    BY <1>1, <2>1, <2>2 DEF RowInv, ReadInv, Same
<1>5. ASSUME read' = [q \in Readers |-> IdleRead] PROVE ReadInv'
  BY <1>1, <1>5 DEF ReadInv
<1> QED
  BY <1>2, <1>3, <1>4, <1>5, ReadFrame

LEMMA SaveFrame ==
  ASSUME Next
  PROVE  \/ UNCHANGED save
         \/ \E e \in Saves : \/ \E c \in Channels, s \in Sources : Hear(e, c, s)
                             \/ save' = [save EXCEPT ![e] = IdleSave]
         \/ save' = [e \in Saves |-> IdleSave]
<1> DEFINE Goal == \/ UNCHANGED save
                   \/ \E e \in Saves : \/ \E c \in Channels, s \in Sources : Hear(e, c, s)
                                       \/ save' = [save EXCEPT ![e] = IdleSave]
                   \/ save' = [e \in Saves |-> IdleSave]
<1>1. ASSUME NEW s \in Sources, Editing(s) PROVE Goal
  BY <1>1 DEF Editing, CreatePublic, Edit, Toggle, DeleteSource, Join, AskAgain, telegram
<1>2. ASSUME NEW r \in Requests, Waiting(r) PROVE Goal
  BY <1>2 DEF Waiting, AskToJoin, OpenForm, Refused, Approved, SyncRoutes, telegram
<1>3. ASSUME NEW t \in Targets, CreateTarget(t) \/ DeleteTarget(t) PROVE Goal
  BY <1>3 DEF CreateTarget, DeleteTarget, telegram
<1>4. ASSUME Collecting PROVE Goal
  BY <1>4 DEF Collecting, Fetch, EndFetch, FetchFails, EndSave, Reload, telegram
<1>5. ASSUME Prompting PROVE Goal
  BY <1>5 DEF Prompting, CreatePrompt, MakeDefault, DeletePrompt, ChoosePrompt, CommitPrompt, telegram
<1>6. ASSUME Restart PROVE Goal
  BY <1>6 DEF Restart
<1> QED
  BY <1>1, <1>2, <1>3, <1>4, <1>5, <1>6 DEF Next

LEMMA SaveStep ==
  ASSUME CatalogueAssumption, RowInv, Next, \A x \in Sources : Same(x)
  PROVE  SaveInv'
<1>1. IdleSave \in [source : Sources \cup {None}, channel : Channels \cup {None}] /\ IdleSave.source = None
  BY DEF IdleSave
<1>2. ASSUME UNCHANGED save PROVE SaveInv'
  BY <1>2 DEF RowInv, SaveInv, Same
<1>3. ASSUME NEW e \in Saves, NEW c \in Channels, NEW s \in Sources, Hear(e, c, s) PROVE SaveInv'
  <2> DEFINE w == [source |-> s, channel |-> c]
  <2>1. save' = [save EXCEPT ![e] = w] /\ source' = source /\ source[s].state # "none"
    BY <1>3 DEF Hear, Matches, There
  <2>2. w \in [source : Sources \cup {None}, channel : Channels \cup {None}]
    OBVIOUS
  <2>3. save' \in [Saves -> [source : Sources \cup {None}, channel : Channels \cup {None}]]
    BY <2>1, <2>2 DEF RowInv, SaveInv
  <2>4. \A o \in Saves : save'[o] = IF o = e THEN w ELSE save[o]
    BY <2>1 DEF RowInv, SaveInv
  <2> QED
    BY <2>1, <2>2, <2>3, <2>4 DEF RowInv, SaveInv
<1>4. ASSUME NEW e \in Saves, save' = [save EXCEPT ![e] = IdleSave] PROVE SaveInv'
  <2>1. save' \in [Saves -> [source : Sources \cup {None}, channel : Channels \cup {None}]]
    BY <1>1, <1>4 DEF RowInv, SaveInv
  <2>2. \A o \in Saves : save'[o] = IF o = e THEN IdleSave ELSE save[o]
    BY <1>4 DEF RowInv, SaveInv
  <2> QED
    BY <1>1, <2>1, <2>2 DEF RowInv, SaveInv, Same
<1>5. ASSUME save' = [e \in Saves |-> IdleSave] PROVE SaveInv'
  BY <1>1, <1>5 DEF SaveInv
<1> QED
  BY <1>2, <1>3, <1>4, <1>5, SaveFrame

LEMMA RowInit ==
  ASSUME CatalogueAssumption, Init PROVE RowInv
<1>1. SourceInv
  BY NoSourceShape DEF Init, SourceInv, Shape
<1>2. RequestInv
  BY DEF Init, RequestInv, IdleRequest
<1>3. ReadInv
  BY NoSourceShape DEF Init, ReadInv, IdleRead, Shape
<1>4. SaveInv
  BY DEF Init, SaveInv, IdleSave
<1> QED
  BY <1>1, <1>2, <1>3, <1>4 DEF RowInv

LEMMA RowStep ==
  ASSUME CatalogueAssumption, RowInv, [Next]_vars PROVE RowInv'
<1>1. CASE Next
  BY <1>1, SourceStep, RequestStep, ReadStep, SaveStep DEF RowInv
<1>2. CASE UNCHANGED vars
  BY <1>2 DEF vars, telegram, RowInv, SourceInv, RequestInv, ReadInv, SaveInv
<1> QED
  BY <1>1, <1>2

-----------------------------------------------------------------------------
(* What each writer leaves of a row.                                        *)

\* The others stay as they are.
LEMMA OneRow ==
  ASSUME SourceInv, NEW s \in Sources, NEW row, source' = [source EXCEPT ![s] = row]
  PROVE  source'[s] = row /\ \A x \in Sources \ {s} : source'[x] = source[x]
BY DEF SourceInv

LEMMA CreatePublicEffect ==
  ASSUME SourceInv, NEW s \in Sources, NEW c \in Named, CreatePublic(s, c)
  PROVE  /\ source[s] = NoSource /\ \A x \in Sources \ {s} : source'[x] = source[x]
         /\ source'[s].invite = None /\ source'[s].cursor = None
<1> DEFINE row == [NoSource EXCEPT !.state = "open", !.name = c, !.enabled = TRUE]
<1>1. source' = [source EXCEPT ![s] = row] /\ source[s] = NoSource
  BY DEF CreatePublic, Store, Used
<1>2. row.invite = None /\ row.cursor = None
  BY DEF NoSource
<1> HIDE DEF row
<1> QED
  BY <1>1, <1>2, OneRow

LEMMA JoinEffect ==
  ASSUME CatalogueAssumption, RowInv, NEW r \in Requests, NEW s \in Sources, Join(r, s)
  PROVE  \/ source' = source
         \/ /\ source[s] = NoSource /\ \A x \in Sources \ {s} : source'[x] = source[x]
            /\ source'[s].invite = request[r].invite /\ source'[s].cursor = None
            /\ ~Twin(source'[s].id)
<1> DEFINE h == request[r].invite
           row(o) == [NoSource EXCEPT !.state = o.state, !.invite = h, !.id = o.id, !.enabled = TRUE]
<1>1. PICK o \in Outcomes(h) :
        IF Twin(o.id) THEN source' = source ELSE source' = [source EXCEPT ![s] = row(o)]
  BY DEF Join, Store
<1>2. CASE ~Twin(o.id)
  <2>1. row(o).invite = h /\ row(o).cursor = None /\ row(o).id = o.id
    BY DEF NoSource
  <2>2. source[s] = NoSource
    BY DEF Join, Used
  <2> HIDE DEF row
  <2> QED
    BY <1>1, <1>2, <2>1, <2>2, OneRow DEF RowInv
<1> QED
  BY <1>1, <1>2

LEMMA EditEffect ==
  ASSUME CatalogueAssumption, RowInv, NEW s \in Sources, NEW c \in Named \cup {None}, Edit(s, c)
  PROVE  /\ There(s) /\ source[s].invite = None /\ \A x \in Sources \ {s} : source'[x] = source[x]
         /\ source'[s].invite = None /\ source'[s].cursor = None
         /\ misled' = IF Former(s) THEN misled \cup {s} ELSE misled
<1> DEFINE row == [source[s] EXCEPT !.name = c, !.cursor = None]
<1>1. source' = [source EXCEPT ![s] = row] /\ source[s].invite = None /\ There(s)
  BY DEF Edit, Store, Renamed, RowInv, SourceInv
<1>2. row.invite = None /\ row.cursor = None
  BY <1>1 DEF RowInv, SourceInv, RowSet
<1>3. misled' = IF Former(s) THEN misled \cup {s} ELSE misled
  BY DEF Edit
<1> HIDE DEF row
<1> QED
  BY <1>1, <1>2, <1>3, OneRow DEF RowInv

\* Switching a source on or off, and deleting it.
LEMMA QuietEffect ==
  ASSUME RowInv, NEW s \in Sources, Toggle(s) \/ DeleteSource(s)
  PROVE  \A x \in Sources :
           /\ source'[x].state \in {source[x].state, "deleted"}
           /\ source'[x].name = source[x].name /\ source'[x].invite = source[x].invite
           /\ source'[x].id = source[x].id /\ source'[x].cursor = source[x].cursor
           /\ Toggle(s) \/ x # s => source'[x].state = source[x].state
<1> DEFINE on == [source[s] EXCEPT !.enabled = ~source[s].enabled]
           off == [source[s] EXCEPT !.state = "deleted"]
<1>1. source[s] \in RowSet
  BY DEF RowInv, SourceInv
<1>2. on.state = source[s].state /\ on.name = source[s].name /\ on.invite = source[s].invite
      /\ on.id = source[s].id /\ on.cursor = source[s].cursor
  BY <1>1 DEF RowSet
<1>3. off.state = "deleted" /\ off.name = source[s].name /\ off.invite = source[s].invite
      /\ off.id = source[s].id /\ off.cursor = source[s].cursor
  BY <1>1 DEF RowSet
<1>4. ASSUME Toggle(s) PROVE source' = [source EXCEPT ![s] = on]
  BY <1>4 DEF Toggle, Store, RowInv, SourceInv
<1>5. ASSUME DeleteSource(s) PROVE source' = [source EXCEPT ![s] = off]
  BY <1>5 DEF DeleteSource, Store, RowInv, SourceInv
<1> HIDE DEF on, off
<1>6. CASE Toggle(s)
  <2>1. source'[s] = on /\ \A x \in Sources \ {s} : source'[x] = source[x]
    BY <1>4, <1>6, OneRow DEF RowInv
  <2> QED
    BY <1>2, <2>1
<1>7. CASE ~Toggle(s)
  <2>1. source'[s] = off /\ \A x \in Sources \ {s} : source'[x] = source[x]
    BY <1>5, <1>7, OneRow DEF RowInv
  <2> QED
    BY <1>3, <1>7, <2>1
<1> QED
  BY <1>6, <1>7

LEMMA ApprovedEffect ==
  ASSUME CatalogueAssumption, RowInv, NEW r \in Requests, Approved(r)
  PROVE  \/ source' = source
         \/ LET s == request[r].source IN
            /\ s \in Sources /\ There(s) /\ \A x \in Sources \ {s} : source'[x] = source[x]
            /\ source'[s].state = "joined"
            /\ source'[s].invite = source[s].invite /\ source[s].invite # None
            /\ source'[s].name = None /\ source[s].name = None
            /\ source'[s].cursor = source[s].cursor
            /\ source'[s].id = ChannelOf[source[s].invite]
            /\ source[s].id \in {None, ChannelOf[source[s].invite]}
            /\ checked' = checked \cup {s}
<1> DEFINE s == request[r].source
           row == [source[s] EXCEPT !.state = "joined", !.id = ChannelOf[source[s].invite]]
<1>1. s \in Sources /\ source[s].invite # None
  BY DEF Approved, RowInv, RequestInv
<1>2. source[s] \in RowSet /\ source[s].name = None /\ source[s].id \in {None, ChannelOf[source[s].invite]}
  BY <1>1 DEF RowInv, SourceInv, Shape
<1>3. CASE ~There(s)
  BY <1>3 DEF Approved
<1>4. CASE There(s)
  <2>1. source' = [source EXCEPT ![s] = row] /\ checked' = checked \cup {s}
    BY <1>1, <1>2, <1>4 DEF Approved, Store, RowInv, SourceInv
  <2>2. row.state = "joined" /\ row.invite = source[s].invite /\ row.name = source[s].name
        /\ row.id = ChannelOf[source[s].invite] /\ row.cursor = source[s].cursor
    BY <1>2 DEF RowSet
  <2> HIDE DEF row, s
  <2>3. source'[s] = row /\ \A x \in Sources \ {s} : source'[x] = source[x]
    BY <1>1, <2>1, OneRow DEF RowInv
  <2> QED
    BY <1>1, <1>2, <1>4, <2>1, <2>2, <2>3 DEF s
<1> QED
  BY <1>3, <1>4

LEMMA EndSaveEffect ==
  ASSUME CatalogueAssumption, RowInv, NEW e \in Saves, EndSave(e)
  PROVE  \/ source' = source
         \/ LET s == save[e].source IN
            /\ s \in Sources /\ There(s) /\ \A x \in Sources \ {s} : source'[x] = source[x]
            /\ source'[s].state = source[s].state /\ source'[s].name = source[s].name
            /\ source'[s].invite = source[s].invite /\ source'[s].id = source[s].id
            /\ source'[s].cursor = save[e].channel
<1> DEFINE s == save[e].source
           row == [source[s] EXCEPT !.cursor = save[e].channel]
<1>1. s \in Sources /\ source[s] \in RowSet
  BY DEF EndSave, RowInv, SaveInv, SourceInv
<1>2. CASE There(s) /\ source' = [source EXCEPT ![s].cursor = save[e].channel]
  <2>1. source' = [source EXCEPT ![s] = row]
    BY <1>1, <1>2 DEF RowInv, SourceInv
  <2>2. row.state = source[s].state /\ row.invite = source[s].invite /\ row.name = source[s].name
        /\ row.id = source[s].id /\ row.cursor = save[e].channel
    BY <1>1 DEF RowSet
  <2> HIDE DEF row, s
  <2>3. source'[s] = row /\ \A x \in Sources \ {s} : source'[x] = source[x]
    BY <1>1, <2>1, OneRow DEF RowInv
  <2> QED
    BY <1>1, <1>2, <2>2, <2>3 DEF s
<1> QED
  BY <1>2 DEF EndSave

\* A source leaves the table by being deleted, and in no other way.
LEMMA StillThere ==
  ASSUME CatalogueAssumption, RowInv, Next, NEW x \in Sources, There(x)
  PROVE  There(x)' \/ DeleteSource(x)
<1>1. ASSUME UNCHANGED source PROVE There(x)'
  BY <1>1 DEF There
<1>2. source[x] # NoSource
  BY DEF There, NoSource
<1>3. ASSUME NEW s \in Sources, NEW c \in Named, CreatePublic(s, c) PROVE There(x)'
  BY <1>2, <1>3, CreatePublicEffect DEF There, RowInv
<1>4. ASSUME NEW s \in Sources, NEW c \in Named \cup {None}, Edit(s, c) PROVE There(x)'
  <2>1. source'[s].state # "none" /\ source'[s].state = source[s].state
    <3>1. source' = [source EXCEPT ![s] = [source[s] EXCEPT !.name = c, !.cursor = None]]
      BY <1>4 DEF Edit, Store, Renamed, RowInv, SourceInv
    <3> DEFINE row == [source[s] EXCEPT !.name = c, !.cursor = None]
    <3>2. row.state = source[s].state /\ There(s)
      BY <1>4 DEF Edit, RowInv, SourceInv, RowSet
    <3>3. source'[s] = row
      BY <3>1 DEF RowInv, SourceInv
    <3> HIDE DEF row
    <3> QED
      BY <3>2, <3>3 DEF There
  <2> QED
    BY <1>4, <2>1, EditEffect DEF There
<1>5. ASSUME NEW s \in Sources, NEW r \in Requests, Join(r, s) PROVE There(x)'
  BY <1>2, <1>5, JoinEffect DEF There
<1>6. ASSUME NEW s \in Sources, Toggle(s) \/ DeleteSource(s) PROVE There(x)' \/ DeleteSource(x)
  BY <1>6, QuietEffect DEF There
<1>7. ASSUME NEW r \in Requests, Approved(r) PROVE There(x)'
  BY <1>7, ApprovedEffect DEF There
<1>8. ASSUME NEW q \in Readers, EndFetch(q) PROVE There(x)'
  BY <1>8, EndFetchRow DEF There
<1>9. ASSUME NEW e \in Saves, EndSave(e) PROVE There(x)'
  BY <1>9, EndSaveEffect DEF There
<1> QED
  BY <1>1, <1>3, <1>4, <1>5, <1>6, <1>7, <1>8, <1>9, SourceFrame DEF Writers

-----------------------------------------------------------------------------
(* Keys, targets and routes.                                                *)

LEMMA KeysTyped ==
  ASSUME CatalogueAssumption, NEW rows, rows \in [Sources -> RowSet]
  PROVE  KeysOf(rows) \subseteq {"name", "id"} \X Channels
BY DEF KeysOf, RowSet, CatalogueAssumption

KeysInv == keys \subseteq {"name", "id"} \X Channels

LEMMA KeysStep ==
  ASSUME CatalogueAssumption, RowInv, KeysInv, Next, SourceInv' PROVE KeysInv'
<1>1. ASSUME UNCHANGED keys PROVE KeysInv'
  BY <1>1 DEF KeysInv
<1>2. ASSUME keys' = KeysOf(source) \/ keys' = KeysOf(source') PROVE KeysInv'
  BY <1>2, KeysTyped DEF KeysInv, RowInv, SourceInv
<1>3. ASSUME NEW rows, Store(rows) PROVE KeysInv'
  BY <1>2, <1>3 DEF Store
<1>4. ASSUME NEW s \in Sources, Editing(s) PROVE KeysInv'
  <2>1. ASSUME NEW r \in Requests, Join(r, s) PROVE KeysInv'
    BY <1>1, <1>2, <2>1 DEF Join, Store
  <2>2. ASSUME NEW c \in Named \cup {None}, CreatePublic(s, c) \/ Edit(s, c) PROVE KeysInv'
    BY <1>3, <2>2 DEF CreatePublic, Edit
  <2>3. ASSUME NEW r \in Requests, AskAgain(r, s) PROVE KeysInv'
    BY <1>1, <2>3 DEF AskAgain
  <2>4. ASSUME Toggle(s) \/ DeleteSource(s) PROVE KeysInv'
    BY <1>3, <2>4 DEF Toggle, DeleteSource
  <2> QED
    BY <1>4, <2>1, <2>2, <2>3, <2>4 DEF Editing
<1>5. ASSUME NEW r \in Requests, Waiting(r) PROVE KeysInv'
  <2>1. ASSUME Approved(r) PROVE KeysInv'
    BY <1>1, <1>3, <2>1 DEF Approved
  <2> QED
    BY <1>1, <1>5, <2>1 DEF Waiting, AskToJoin, Refused, OpenForm, SyncRoutes
<1>6. ASSUME Collecting PROVE KeysInv'
  BY <1>1, <1>2, <1>6 DEF Collecting, Fetch, EndFetch, FetchFails, Hear, EndSave, Reload
<1>7. ASSUME NEW t \in Targets, CreateTarget(t) \/ DeleteTarget(t) PROVE KeysInv'
  BY <1>1, <1>7 DEF CreateTarget, DeleteTarget
<1>8. ASSUME Prompting PROVE KeysInv'
  BY <1>1, <1>8 DEF Prompting, CreatePrompt, MakeDefault, DeletePrompt, ChoosePrompt, CommitPrompt
<1>9. ASSUME Restart PROVE KeysInv'
  BY <1>2, <1>9 DEF Restart
<1> QED
  BY <1>4, <1>5, <1>6, <1>7, <1>8, <1>9 DEF Next

\* The prompts, the targets with theirs, and the threads that set them.
TargetSet == {Gone} \cup [state : {"there"}, prompt : Prompts \cup {None}]
PromptInv ==
  /\ target \in [Targets -> TargetSet]
  /\ prompt \subseteq Prompts /\ PromptsResolve
  /\ thread \in [Threads -> [target : Targets \cup {None}, prompt : Prompts \cup {None},
                             was : Prompts \cup {None}]]
  /\ \A d \in Threads : thread[d].target # None =>
       thread[d].prompt \in prompt \cup {None} \/ thread[d].target \in orphaned

\* The oldest of the prompts that are left.
LEMMA Oldest ==
  ASSUME CatalogueAssumption, NEW S, S \subseteq Prompts, S # {}
  PROVE  \E y \in S : \A z \in S : y <= z
<1>1. S \subseteq Nat
  BY DEF CatalogueAssumption
<1>2. PICK y \in S : \A z \in S : ~(<<z, y>> \in OpToRel(<, Nat))
  BY <1>1, WFMin, NatLessThanWellFounded, Zenon
<1>3. ASSUME NEW z \in S PROVE y <= z
  <2>1. y \in Nat /\ z \in Nat /\ ~(z < y)
    BY <1>1, <1>2, Zenon DEF OpToRel
  <2> QED
    BY <2>1
<1> QED
  BY <1>3

LEMMA DeletePromptStep ==
  ASSUME CatalogueAssumption, PromptInv, NEW x \in Prompts, DeletePrompt(x)
  PROVE  PromptInv'
<1> DEFINE left == prompt \ {x}
<1>1. prompt' = left /\ left # {} /\ left \subseteq Prompts
  BY DEF DeletePrompt, PromptInv
<1>2. \E y \in left : default' = {y}
  <2>1. CASE x \in default
    <3>1. (CHOOSE y \in left : \A z \in left : y <= z) \in left
      BY <1>1, Oldest
    <3> QED
      BY <2>1, <3>1 DEF DeletePrompt, Successor
  <2>2. CASE x \notin default
    BY <2>2 DEF DeletePrompt, Successor, PromptInv, PromptsResolve
  <2> QED
    BY <2>1, <2>2
<1>3. ASSUME NEW t \in Targets
      PROVE  /\ target'[t] \in TargetSet
             /\ target'[t] # Gone => target'[t].prompt \in left \cup {None} \/ t \in orphaned'
  <2>1. target'[t] = IF target[t] # Gone /\ target[t].prompt = x
                     THEN [target[t] EXCEPT !.prompt = None] ELSE target[t]
    BY DEF DeletePrompt
  <2>2. target[t] \in TargetSet /\ orphaned \subseteq orphaned'
    BY DEF PromptInv, DeletePrompt
  <2>3. CASE target[t] # Gone /\ target[t].prompt = x
    <3> DEFINE w == [target[t] EXCEPT !.prompt = None]
    <3>1. target[t] \in [state : {"there"}, prompt : Prompts \cup {None}]
      BY <2>2, <2>3 DEF TargetSet
    <3>2. w \in [state : {"there"}, prompt : Prompts \cup {None}] /\ w.prompt = None
      BY <3>1
    <3> QED
      BY <2>1, <2>3, <3>2 DEF TargetSet
  <2>4. CASE ~(target[t] # Gone /\ target[t].prompt = x)
    BY <2>1, <2>2, <2>4 DEF PromptInv, PromptsResolve
  <2> QED
    BY <2>3, <2>4
<1>4. target' \in [Targets -> TargetSet]
  <2>1. target' = [t \in Targets |-> IF target[t] # Gone /\ target[t].prompt = x
                                     THEN [target[t] EXCEPT !.prompt = None] ELSE target[t]]
    BY DEF DeletePrompt
  <2> QED
    BY <1>3, <2>1
<1>5. ASSUME NEW d \in Threads, thread'[d].target # None
      PROVE  thread'[d].prompt \in left \cup {None} \/ thread'[d].target \in orphaned'
  <2>1. thread' = thread
        /\ orphaned' = orphaned \cup {thread[y].target : y \in {z \in Threads : thread[z].prompt = x}}
    BY DEF DeletePrompt
  <2>2. CASE thread[d].prompt = x
    BY <2>1, <2>2
  <2>3. CASE thread[d].prompt # x
    BY <1>5, <2>1, <2>3 DEF PromptInv
  <2> QED
    BY <2>2, <2>3
<1>6. thread' = thread
  BY DEF DeletePrompt
<1> QED
  BY <1>1, <1>2, <1>3, <1>4, <1>5, <1>6 DEF PromptInv, PromptsResolve

LEMMA ChoosePromptStep ==
  ASSUME CatalogueAssumption, PromptInv, NEW d \in Threads, NEW t \in Targets,
         NEW x \in Prompts \cup {None}, ChoosePrompt(d, t, x)
  PROVE  PromptInv'
<1> DEFINE w == [target |-> t, prompt |-> x, was |-> target[t].prompt]
<1>1. thread' = [thread EXCEPT ![d] = w] /\ x \in prompt \cup {None} /\ target[t] # Gone
      /\ UNCHANGED <<target, prompt, default, orphaned>>
  BY DEF ChoosePrompt
<1>2. target[t].prompt \in Prompts \cup {None}
  BY <1>1 DEF PromptInv, TargetSet
<1>3. thread' \in [Threads -> [target : Targets \cup {None}, prompt : Prompts \cup {None},
                              was : Prompts \cup {None}]]
  BY <1>1, <1>2 DEF PromptInv
<1>4. \A y \in Threads : thread'[y] = IF y = d THEN w ELSE thread[y]
  BY <1>1 DEF PromptInv
<1> QED
  BY <1>1, <1>3, <1>4 DEF PromptInv, PromptsResolve

LEMMA CommitPromptStep ==
  ASSUME CatalogueAssumption, PromptInv, NEW d \in Threads, CommitPrompt(d)
  PROVE  PromptInv'
<1> DEFINE t == thread[d].target
           x == thread[d].prompt
           w == [target[t] EXCEPT !.prompt = x]
<1>1. t \in Targets /\ x \in Prompts \cup {None} /\ (x \in prompt \cup {None} \/ t \in orphaned)
  BY DEF CommitPrompt, PromptInv
<1>2. thread' = [thread EXCEPT ![d] = IdleThread] /\ UNCHANGED <<prompt, default, orphaned>>
  BY DEF CommitPrompt
<1>3. IdleThread \in [target : Targets \cup {None}, prompt : Prompts \cup {None},
                      was : Prompts \cup {None}] /\ IdleThread.target = None
  BY DEF IdleThread
<1>4. thread' \in [Threads -> [target : Targets \cup {None}, prompt : Prompts \cup {None},
                              was : Prompts \cup {None}]]
  BY <1>2, <1>3 DEF PromptInv
<1>5. \A y \in Threads : thread'[y] = IF y = d THEN IdleThread ELSE thread[y]
  BY <1>2 DEF PromptInv
<1>6. /\ target' \in [Targets -> TargetSet]
      /\ \A y \in Targets : target'[y] # Gone => target'[y].prompt \in prompt \cup {None} \/ y \in orphaned
  <2>1. CASE target' = target
    BY <2>1 DEF PromptInv, PromptsResolve
  <2>2. CASE target' = [target EXCEPT ![t] = w] /\ target[t] # Gone
    <3>1. target[t] \in [state : {"there"}, prompt : Prompts \cup {None}]
      BY <1>1, <2>2 DEF PromptInv, TargetSet
    <3>2. w \in [state : {"there"}, prompt : Prompts \cup {None}] /\ w.prompt = x
      BY <1>1, <3>1
    <3> HIDE DEF w, t, x
    <3>3. target' \in [Targets -> TargetSet]
      BY <2>2, <3>2 DEF PromptInv, TargetSet
    <3>4. \A y \in Targets : target'[y] = IF y = t THEN w ELSE target[y]
      BY <2>2 DEF PromptInv
    <3> QED
      BY <1>1, <3>2, <3>3, <3>4 DEF PromptInv, PromptsResolve
  <2>3. target' = target \/ (target[t] # Gone /\ target' = [target EXCEPT ![t].prompt = thread[d].prompt])
    BY DEF CommitPrompt
  <2>4. (target' = [target EXCEPT ![t].prompt = thread[d].prompt]) => target' = [target EXCEPT ![t] = w]
    BY <1>1 DEF PromptInv
  <2> QED
    BY <2>1, <2>2, <2>3, <2>4
<1> QED
  BY <1>2, <1>3, <1>4, <1>5, <1>6 DEF PromptInv, PromptsResolve

LEMMA PromptFrame ==
  ASSUME Next
  PROVE  \/ UNCHANGED <<target, prompt, default, thread, orphaned>>
         \/ \E t \in Targets : CreateTarget(t) \/ DeleteTarget(t)
         \/ \E x \in Prompts : CreatePrompt(x) \/ MakeDefault(x) \/ DeletePrompt(x)
         \/ \E d \in Threads : CommitPrompt(d)
         \/ \E d \in Threads, t \in Targets, x \in Prompts \cup {None} : ChoosePrompt(d, t, x)
         \/ Restart
<1> DEFINE Rest == UNCHANGED <<target, prompt, default, thread, orphaned>>
<1>1. ASSUME NEW s \in Sources, Editing(s) PROVE Rest
  BY <1>1 DEF Editing, CreatePublic, Edit, Toggle, DeleteSource, Join, AskAgain, writing
<1>2. ASSUME NEW r \in Requests, Waiting(r) PROVE Rest
  BY <1>2 DEF Waiting, AskToJoin, OpenForm, Refused, Approved, SyncRoutes, writing
<1>3. ASSUME Collecting PROVE Rest
  BY <1>3 DEF Collecting, Fetch, EndFetch, FetchFails, Hear, EndSave, Reload, writing
<1> QED
  BY <1>1, <1>2, <1>3 DEF Next, Prompting

LEMMA PromptStep ==
  ASSUME CatalogueAssumption, PromptInv, Next PROVE PromptInv'
<1>1. ASSUME UNCHANGED <<target, prompt, default, thread, orphaned>> PROVE PromptInv'
  BY <1>1 DEF PromptInv, PromptsResolve
<1>2. ASSUME NEW t \in Targets, CreateTarget(t) PROVE PromptInv'
  <2> DEFINE w == [state |-> "there", prompt |-> None]
  <2>1. target' = [target EXCEPT ![t] = w] /\ UNCHANGED <<prompt, default, thread, orphaned>>
    BY <1>2 DEF CreateTarget
  <2>2. target' \in [Targets -> TargetSet]
    BY <2>1 DEF PromptInv, TargetSet
  <2>3. \A y \in Targets : target'[y] = IF y = t THEN w ELSE target[y]
    BY <2>1 DEF PromptInv
  <2> QED
    BY <2>1, <2>2, <2>3 DEF PromptInv, PromptsResolve
<1>3. ASSUME NEW t \in Targets, DeleteTarget(t) PROVE PromptInv'
  <2>1. target' = [target EXCEPT ![t] = Gone] /\ UNCHANGED <<prompt, default, thread, orphaned>>
    BY <1>3 DEF DeleteTarget
  <2>2. target' \in [Targets -> TargetSet]
    BY <2>1 DEF PromptInv, TargetSet
  <2>3. \A y \in Targets : target'[y] = IF y = t THEN Gone ELSE target[y]
    BY <2>1 DEF PromptInv
  <2> QED
    BY <2>1, <2>2, <2>3 DEF PromptInv, PromptsResolve
<1>4. ASSUME NEW x \in Prompts, CreatePrompt(x) \/ MakeDefault(x) PROVE PromptInv'
  BY <1>4 DEF CreatePrompt, MakeDefault, PromptInv, PromptsResolve
<1>5. ASSUME NEW x \in Prompts, DeletePrompt(x) PROVE PromptInv'
  BY <1>5, DeletePromptStep
<1>6. ASSUME NEW d \in Threads, CommitPrompt(d) PROVE PromptInv'
  BY <1>6, CommitPromptStep
<1>7. ASSUME NEW d \in Threads, NEW t \in Targets, NEW x \in Prompts \cup {None}, ChoosePrompt(d, t, x)
      PROVE  PromptInv'
  BY <1>7, ChoosePromptStep
<1>8. ASSUME Restart PROVE PromptInv'
  BY <1>8 DEF Restart, PromptInv, PromptsResolve, IdleThread
<1> QED
  BY <1>1, <1>2, <1>3, <1>4, <1>5, <1>6, <1>7, <1>8, PromptFrame

\* A route joins a source and a target that are there.
RouteInv == route \subseteq {p \in Sources \X Targets : There(p[1]) /\ target[p[2]] # Gone}

LEMMA RouteFrame ==
  ASSUME Next
  PROVE  \/ UNCHANGED route
         \/ \E r \in Requests, selected \in SUBSET Sources : SyncRoutes(r, selected)
<1> DEFINE Rest == UNCHANGED route
<1>1. ASSUME NEW s \in Sources, Editing(s) PROVE Rest
  BY <1>1 DEF Editing, CreatePublic, Edit, Toggle, DeleteSource, Join, AskAgain
<1>2. ASSUME NEW r \in Requests, Waiting(r)
      PROVE  Rest \/ \E selected \in SUBSET Sources : SyncRoutes(r, selected)
  BY <1>2 DEF Waiting, AskToJoin, OpenForm, Refused, Approved
<1>3. ASSUME Collecting PROVE Rest
  BY <1>3 DEF Collecting, Fetch, EndFetch, FetchFails, Hear, EndSave, Reload
<1>4. ASSUME NEW t \in Targets, CreateTarget(t) \/ DeleteTarget(t) PROVE Rest
  BY <1>4 DEF CreateTarget, DeleteTarget
<1>5. ASSUME Prompting PROVE Rest
  BY <1>5 DEF Prompting, CreatePrompt, MakeDefault, DeletePrompt, ChoosePrompt, CommitPrompt
<1>6. ASSUME Restart PROVE Rest
  BY <1>6 DEF Restart
<1> QED
  BY <1>1, <1>2, <1>3, <1>4, <1>5, <1>6 DEF Next

\* A target leaves the table by being deleted, and in no other way.
LEMMA TargetStays ==
  ASSUME CatalogueAssumption, PromptInv, Next, NEW t \in Targets, target[t] # Gone
  PROVE  target'[t] # Gone \/ DeleteTarget(t)
<1>1. \A w \in [state : {"there"}, prompt : Prompts \cup {None}] : w # Gone
  BY DEF Gone
<1>2. ASSUME UNCHANGED target PROVE target'[t] # Gone
  BY <1>2
<1>3. ASSUME NEW y \in Targets, CreateTarget(y) PROVE target'[t] # Gone
  <2>1. target' = [target EXCEPT ![y] = [state |-> "there", prompt |-> None]] /\ target[y] = Gone
    BY <1>3 DEF CreateTarget
  <2> QED
    BY <2>1 DEF PromptInv
<1>4. ASSUME NEW y \in Targets, DeleteTarget(y) PROVE target'[t] # Gone \/ DeleteTarget(t)
  BY <1>4 DEF DeleteTarget, PromptInv
<1>5. ASSUME NEW x \in Prompts, DeletePrompt(x) PROVE target'[t] # Gone
  <2> DEFINE w == [target[t] EXCEPT !.prompt = None]
  <2>1. target'[t] \in {w, target[t]}
    BY <1>5 DEF DeletePrompt
  <2>2. w \in [state : {"there"}, prompt : Prompts \cup {None}]
    BY DEF PromptInv, TargetSet
  <2> HIDE DEF w
  <2> QED
    BY <1>1, <2>1, <2>2
<1>6. ASSUME NEW d \in Threads, CommitPrompt(d) PROVE target'[t] # Gone
  <2> DEFINE u == thread[d].target
             w == [target[u] EXCEPT !.prompt = thread[d].prompt]
  <2>1. u \in Targets /\ thread[d].prompt \in Prompts \cup {None}
    BY <1>6 DEF CommitPrompt, PromptInv
  <2>2. target' = target \/ (target[u] # Gone /\ target' = [target EXCEPT ![u].prompt = thread[d].prompt])
    BY <1>6 DEF CommitPrompt
  <2>3. CASE target[u] # Gone /\ target' = [target EXCEPT ![u].prompt = thread[d].prompt]
    <3>1. target' = [target EXCEPT ![u] = w]
      BY <2>1, <2>3 DEF PromptInv
    <3>2. w \in [state : {"there"}, prompt : Prompts \cup {None}]
      BY <2>1, <2>3 DEF PromptInv, TargetSet
    <3> HIDE DEF w, u
    <3>3. target'[t] = IF t = u THEN w ELSE target[t]
      BY <3>1 DEF PromptInv
    <3> QED
      BY <1>1, <3>2, <3>3
  <2> QED
    BY <2>2, <2>3
<1>7. ASSUME Restart PROVE target'[t] # Gone
  BY <1>7 DEF Restart
<1>8. ASSUME NEW x \in Prompts, CreatePrompt(x) \/ MakeDefault(x) PROVE target'[t] # Gone
  BY <1>8 DEF CreatePrompt, MakeDefault
<1>9. ASSUME NEW d \in Threads, NEW y \in Targets, NEW x \in Prompts \cup {None}, ChoosePrompt(d, y, x)
      PROVE  target'[t] # Gone
  BY <1>9 DEF ChoosePrompt
<1> QED
  BY <1>2, <1>3, <1>4, <1>5, <1>6, <1>7, <1>8, <1>9, PromptFrame

LEMMA RouteStep ==
  ASSUME CatalogueAssumption, RowInv, PromptInv, RouteInv, Next
  PROVE  RouteInv'
<1>1. ASSUME NEW s \in Sources, NEW t \in Targets, <<s, t>> \in route' PROVE There(s)' /\ target'[t] # Gone
  <2>1. CASE <<s, t>> \in route
    <3>1. There(s) /\ target[t] # Gone
      BY <2>1 DEF RouteInv
    <3>2. ~DeleteSource(s) /\ ~DeleteTarget(t)
      BY <2>1 DEF DeleteSource, Free, DeleteTarget
    <3> QED
      BY <3>1, <3>2, StillThere, TargetStays
  <2>2. CASE <<s, t>> \notin route
    <3>1. PICK r \in Requests, selected \in SUBSET Sources : SyncRoutes(r, selected)
      BY <1>1, <2>2, RouteFrame
    <3> DEFINE u == request[r].target
               now == {x \in Sources : <<x, u>> \in route}
    <3>2. t = u /\ s \in selected /\ (selected = now \/ (target[u] # Gone /\ \A x \in selected \ now : There(x)))
      BY <1>1, <2>2, <3>1 DEF SyncRoutes
    <3>3. UNCHANGED <<source, target>>
      BY <3>1 DEF SyncRoutes, writing
    <3> QED
      BY <2>2, <3>2, <3>3 DEF There
  <2> QED
    BY <2>1, <2>2
<1>2. route' \subseteq Sources \X Targets
  <2>1. CASE UNCHANGED route
    BY <2>1 DEF RouteInv
  <2>2. CASE \E r \in Requests, selected \in SUBSET Sources : SyncRoutes(r, selected)
    BY <2>2 DEF SyncRoutes, RouteInv, RowInv, RequestInv
  <2> QED
    BY <2>1, <2>2, RouteFrame
<1> QED
  BY <1>1, <1>2 DEF RouteInv

-----------------------------------------------------------------------------
CatalogueInv == RowInv /\ KeysInv /\ PromptInv /\ RouteInv

LEMMA CatalogueInit ==
  ASSUME CatalogueAssumption, Init PROVE CatalogueInv
<1>1. KeysInv /\ RouteInv
  BY DEF Init, KeysInv, RouteInv
<1>2. PromptInv
  BY DEF Init, PromptInv, PromptsResolve, TargetSet, IdleThread
<1> QED
  BY <1>1, <1>2, RowInit DEF CatalogueInv

LEMMA CatalogueStep ==
  ASSUME CatalogueAssumption, CatalogueInv, [Next]_vars PROVE CatalogueInv'
<1>1. CASE Next
  BY <1>1, RowStep, KeysStep, PromptStep, RouteStep DEF CatalogueInv, RowInv
<1>2. CASE UNCHANGED vars
  <2>1. KeysInv' /\ RouteInv' /\ PromptInv'
    BY <1>2 DEF vars, writing, telegram, CatalogueInv, KeysInv, RouteInv, There, PromptInv, PromptsResolve
  <2> QED
    BY <1>2, <2>1, RowStep DEF CatalogueInv
<1> QED
  BY <1>1, <1>2

THEOREM CatalogueHolds == Spec => []CatalogueInv
<1>1. CatalogueAssumption
  BY CatalogueAssumption
<1> QED
  BY <1>1, CatalogueInit, CatalogueStep, PTL DEF Spec

\* The tables have their shape: in particular a route always joins a source and a target
\* that exist, although the form is read between the target and its routes.
THEOREM CatalogueTypeCorrect == Spec => []TypeOK
<1>1. ASSUME CatalogueInv PROVE TypeOK
  <2>1. default \subseteq prompt
    BY <1>1 DEF CatalogueInv, PromptInv, PromptsResolve
  <2> QED
    BY <1>1, <2>1 DEF CatalogueInv, RowInv, SourceInv, KeysInv, PromptInv, RouteInv, TypeOK, RowSet, TargetSet
<1> QED
  BY <1>1, CatalogueHolds, PTL

\* prompts.py: one prompt is the default one; and a target names one that exists or none,
\* except a target that a thread was about to give the prompt a request deleted.
THEOREM PromptsAlwaysResolve == Spec => []PromptsResolve
<1>1. ASSUME CatalogueInv PROVE PromptsResolve
  BY <1>1 DEF CatalogueInv, PromptInv
<1> QED
  BY <1>1, CatalogueHolds, PTL

-----------------------------------------------------------------------------
(* Two sources of one channel.                                              *)

\* Requests that join by one link, or that join while a source has that link, are of a
\* link two requests asked about at once.
JoinInv ==
  /\ \A r, o \in Requests : r # o /\ request[r].at = "joining" /\ request[o].at = "joining"
       /\ request[r].invite = request[o].invite => request[r].invite \in doubled
  /\ \A r \in Requests, s \in Sources :
       request[r].at = "joining" /\ There(s) /\ source[s].invite = request[r].invite
         => request[r].invite \in doubled
TwinInv == JoinInv /\ TwinsAccountedFor

\* What is a closed source after the step was one before, and the same.
SameClosed(x) ==
  There(x)' /\ source'[x].invite # None
    => There(x) /\ source'[x].invite = source[x].invite /\ source'[x].id = source[x].id

LEMMA ClosedStay ==
  ASSUME CatalogueAssumption, RowInv, Next, NEW x \in Sources
  PROVE  SameClosed(x) \/ \E r \in Requests : Join(r, x) \/ (Approved(r) /\ x \in checked')
<1>1. ASSUME UNCHANGED source PROVE SameClosed(x)
  BY <1>1 DEF SameClosed, There
<1>2. ASSUME NEW s \in Sources, NEW c \in Named, CreatePublic(s, c) PROVE SameClosed(x)
  BY <1>2, CreatePublicEffect DEF SameClosed, There, RowInv
<1>3. ASSUME NEW s \in Sources, NEW c \in Named \cup {None}, Edit(s, c) PROVE SameClosed(x)
  BY <1>3, EditEffect DEF SameClosed, There
<1>4. ASSUME NEW s \in Sources, NEW r \in Requests, Join(r, s) PROVE SameClosed(x) \/ Join(r, x)
  BY <1>4, JoinEffect DEF SameClosed, There
<1>5. ASSUME NEW s \in Sources, Toggle(s) \/ DeleteSource(s) PROVE SameClosed(x)
  BY <1>5, QuietEffect DEF SameClosed, There
<1>6. ASSUME NEW r \in Requests, Approved(r) PROVE SameClosed(x) \/ x \in checked'
  BY <1>6, ApprovedEffect DEF SameClosed, There
<1>7. ASSUME NEW q \in Readers, EndFetch(q) PROVE SameClosed(x)
  <2>1. x # read[q].source => source'[x] = source[x]
    BY <1>7, EndFetchRow
  <2> QED
    BY <1>7, <2>1, EndFetchRow DEF SameClosed, There
<1>8. ASSUME NEW e \in Saves, EndSave(e) PROVE SameClosed(x)
  BY <1>8, EndSaveEffect DEF SameClosed, There
<1> QED
  BY <1>1, <1>2, <1>3, <1>4, <1>5, <1>6, <1>7, <1>8, SourceFrame DEF Writers

LEMMA HistoryGrows ==
  ASSUME Next PROVE doubled \subseteq doubled' /\ checked \subseteq checked'
<1> DEFINE Goal == doubled \subseteq doubled' /\ checked \subseteq checked'
<1>1. ASSUME NEW s \in Sources, Editing(s) PROVE Goal
  BY <1>1 DEF Editing, CreatePublic, Edit, Toggle, DeleteSource, Join, AskAgain, history
<1>2. ASSUME NEW r \in Requests, Waiting(r) PROVE Goal
  BY <1>2 DEF Waiting, AskToJoin, OpenForm, Refused, Approved, SyncRoutes, history
<1>3. ASSUME NEW t \in Targets, CreateTarget(t) \/ DeleteTarget(t) PROVE Goal
  BY <1>3 DEF CreateTarget, DeleteTarget, history
<1>4. ASSUME Collecting PROVE Goal
  BY <1>4 DEF Collecting, Fetch, EndFetch, FetchFails, Hear, EndSave, Reload, history
<1>5. ASSUME Prompting PROVE Goal
  BY <1>5 DEF Prompting, CreatePrompt, MakeDefault, DeletePrompt, ChoosePrompt, CommitPrompt, history
<1>6. ASSUME Restart PROVE Goal
  BY <1>6 DEF Restart, history
<1> QED
  BY <1>1, <1>2, <1>3, <1>4, <1>5, <1>6 DEF Next

\* The requests that join after a step joined before it, but for one that has just asked.
LEMMA JoinersStay ==
  ASSUME RowInv, Next, NEW r \in Requests, request'[r].at = "joining"
  PROVE  \/ request'[r] = request[r]
         \/ \E h \in Invites : /\ AskToJoin(r, h) /\ request'[r].invite = h
                               /\ \A o \in Requests \ {r} : request'[o] = request[o]
<1>1. ASSUME NEW o \in Requests, request' = [request EXCEPT ![o] = IdleRequest]
      PROVE  request'[r] = request[r]
  BY <1>1 DEF RowInv, RequestInv, IdleRequest
<1>2. ASSUME NEW o \in Requests, NEW h \in Invites, AskToJoin(o, h)
      PROVE  /\ o # r => request'[r] = request[r]
             /\ request'[o].invite = h /\ \A x \in Requests \ {o} : request'[x] = request[x]
  <2> DEFINE w == [IdleRequest EXCEPT !.at = "joining", !.invite = h]
  <2>1. request' = [request EXCEPT ![o] = w] /\ w.invite = h
    BY <1>2 DEF AskToJoin, IdleRequest
  <2> HIDE DEF w
  <2> QED
    BY <2>1 DEF RowInv, RequestInv
<1>3. ASSUME NEW o \in Requests, NEW s \in Sources, AskAgain(o, s) PROVE request'[r] = request[r]
  <2> DEFINE w == [IdleRequest EXCEPT !.at = "checking", !.source = s]
  <2>1. request' = [request EXCEPT ![o] = w] /\ w.at = "checking"
    BY <1>3 DEF AskAgain, IdleRequest
  <2> HIDE DEF w
  <2> QED
    BY <2>1 DEF RowInv, RequestInv
<1>4. ASSUME NEW o \in Requests, NEW t \in Targets, OpenForm(o, t) PROVE request'[r] = request[r]
  <2> DEFINE w == [IdleRequest EXCEPT !.at = "routing", !.target = t]
  <2>1. request' = [request EXCEPT ![o] = w] /\ w.at = "routing"
    BY <1>4 DEF OpenForm, IdleRequest
  <2> HIDE DEF w
  <2> QED
    BY <2>1 DEF RowInv, RequestInv
<1>5. request' # [o \in Requests |-> IdleRequest]
  BY DEF IdleRequest
<1> QED
  BY <1>1, <1>2, <1>3, <1>4, <1>5, RequestFrame

LEMMA JoinInvStep ==
  ASSUME CatalogueAssumption, RowInv, TwinInv, Next
  PROVE  JoinInv'
<1>1. doubled \subseteq doubled'
  BY HistoryGrows
<1>2. ASSUME NEW r \in Requests, NEW o \in Requests, r # o,
             request'[r].at = "joining", request'[o].at = "joining",
             request'[r].invite = request'[o].invite
      PROVE  request'[r].invite \in doubled'
  <2>1. ASSUME NEW a \in Requests, NEW b \in Requests, a # b, request'[b].at = "joining",
               request'[a].invite = request'[b].invite, NEW h \in Invites, AskToJoin(a, h),
               request'[a].invite = h, \A x \in Requests \ {a} : request'[x] = request[x]
        PROVE  request'[a].invite \in doubled'
    <3>1. request[b].at = "joining" /\ request[b].invite = h
      BY <2>1
    <3> QED
      BY <2>1, <3>1 DEF AskToJoin
  <2>2. CASE request'[r] = request[r] /\ request'[o] = request[o]
    BY <1>1, <1>2, <2>2 DEF TwinInv, JoinInv
  <2> QED
    BY <1>2, <2>1, <2>2, JoinersStay
<1>3. ASSUME NEW r \in Requests, NEW s \in Sources, request'[r].at = "joining", There(s)',
             source'[s].invite = request'[r].invite
      PROVE  request'[r].invite \in doubled'
  <2>1. request'[r].invite \in Invites /\ request'[r].invite # None
    BY <1>3, RequestStep, SourceStep DEF RequestInv, CatalogueAssumption
  <2>2. CASE \E h \in Invites : AskToJoin(r, h) /\ request'[r].invite = h
    BY <1>3, <2>2 DEF AskToJoin, Unknown, There
  <2>3. CASE request'[r] = request[r]
    <3>1. CASE SameClosed(s)
      BY <1>1, <1>3, <2>1, <2>3, <3>1 DEF SameClosed, TwinInv, JoinInv
    <3>2. ASSUME NEW o \in Requests, Join(o, s) PROVE request'[r].invite \in doubled'
      <4>1. request[o].at = "joining" /\ request' = [request EXCEPT ![o] = IdleRequest]
        BY <3>2 DEF Join
      <4>2. o # r
        BY <1>3, <4>1 DEF RowInv, RequestInv, IdleRequest
      <4>3. CASE source' = source
        BY <1>1, <1>3, <2>3, <4>3 DEF There, TwinInv, JoinInv
      <4>4. CASE source'[s].invite = request[o].invite
        BY <1>1, <1>3, <2>3, <4>1, <4>2, <4>4 DEF TwinInv, JoinInv
      <4> QED
        BY <3>2, <4>3, <4>4, JoinEffect
    <3>3. ASSUME NEW o \in Requests, Approved(o) PROVE request'[r].invite \in doubled'
      <4>1. There(s) /\ source[s].invite = source'[s].invite
        BY <1>3, <3>3, ApprovedEffect DEF There
      <4> QED
        BY <1>1, <1>3, <2>3, <4>1 DEF TwinInv, JoinInv
    <3> QED
      BY <3>1, <3>2, <3>3, ClosedStay
  <2> QED
    BY <1>3, <2>2, <2>3, JoinersStay
<1> QED
  BY <1>2, <1>3 DEF JoinInv

LEMMA TwinStep ==
  ASSUME CatalogueAssumption, RowInv, TwinInv, Next
  PROVE  TwinsAccountedFor'
<1>1. doubled \subseteq doubled' /\ checked \subseteq checked'
  BY HistoryGrows
<1> SUFFICES ASSUME NEW s \in Sources, NEW t \in Sources, s # t, There(s)', There(t)',
                    source'[s].invite # None, source'[t].invite # None
             PROVE  /\ source'[s].invite = source'[t].invite => source'[s].invite \in doubled'
                    /\ source'[s].id # None /\ source'[s].id = source'[t].id
                         => s \in checked' \/ t \in checked'
  BY DEF TwinsAccountedFor
<1>2. CASE SameClosed(s) /\ SameClosed(t)
  BY <1>1, <1>2 DEF SameClosed, TwinInv, TwinsAccountedFor
<1>3. ASSUME NEW r \in Requests, Approved(r)
      PROVE  /\ source'[s].invite = source'[t].invite => source'[s].invite \in doubled'
             /\ source'[s].id # None /\ source'[s].id = source'[t].id
                  => s \in checked' \/ t \in checked'
  <2>1. /\ There(s) /\ source[s].invite = source'[s].invite /\ (source[s].id = source'[s].id \/ s \in checked')
        /\ There(t) /\ source[t].invite = source'[t].invite /\ (source[t].id = source'[t].id \/ t \in checked')
    BY <1>3, ApprovedEffect DEF There
  <2> QED
    BY <1>1, <2>1 DEF TwinInv, TwinsAccountedFor
<1>4. ASSUME NEW r \in Requests, NEW x \in Sources, NEW y \in Sources, x # y, Join(r, x), There(y)',
             source'[x].invite # None, source'[y].invite # None, source' # source
      PROVE  /\ source'[x].invite = source'[y].invite => source'[x].invite \in doubled'
             /\ source'[x].id # None => source'[x].id # source'[y].id
  <2>1. source'[y] = source[y] /\ source'[x].invite = request[r].invite /\ ~Twin(source'[x].id)
    BY <1>4, JoinEffect
  <2>2. There(y) /\ request[r].at = "joining"
    BY <1>4, <2>1 DEF There, Join
  <2>3. source'[x].id # None => source'[x].id # source'[y].id
    BY <2>1, <2>2 DEF Twin
  <2>4. source'[x].invite = source'[y].invite => request[r].invite \in doubled
    BY <2>1, <2>2 DEF TwinInv, JoinInv
  <2> QED
    BY <1>1, <2>1, <2>3, <2>4
<1>5. CASE source' = source
  BY <1>1, <1>5 DEF There, TwinInv, TwinsAccountedFor
<1>6. CASE source' # source /\ \E r \in Requests : Join(r, s)
  BY <1>4, <1>6
<1>7. CASE source' # source /\ \E r \in Requests : Join(r, t)
  BY <1>4, <1>7
<1>8. CASE (\E r \in Requests : Approved(r))
  BY <1>3, <1>8
<1> QED
  BY <1>2, <1>5, <1>6, <1>7, <1>8, ClosedStay

\* sources._add_private_source: two closed sources are of one link only when two requests
\* asked about it at once, of one channel only when a later check of a link told so.
\* Nothing is said of a public source of the channel of a closed one.
THEOREM NoUnaccountedTwins == Spec => []TwinsAccountedFor
<1>1. ASSUME Init PROVE TwinInv
  BY <1>1 DEF Init, TwinInv, JoinInv, TwinsAccountedFor, There, NoSource, IdleRequest
<1>2. ASSUME CatalogueInv, TwinInv, [Next]_vars PROVE TwinInv'
  <2>1. CASE Next
    BY <1>2, <2>1, JoinInvStep, TwinStep, CatalogueAssumption DEF TwinInv, CatalogueInv
  <2>2. CASE UNCHANGED vars
    BY <1>2, <2>2 DEF vars, history, TwinInv, JoinInv, TwinsAccountedFor, There
  <2> QED
    BY <1>2, <2>1, <2>2
<1>3. TwinInv => TwinsAccountedFor
  BY DEF TwinInv
<1> QED
  BY <1>1, <1>2, <1>3, CatalogueHolds, PTL DEF Spec

-----------------------------------------------------------------------------
(* Whose number a cursor is.                                                *)

\* What waits with a number for a source has one of the channel the source is read by:
\* the cursor alone says nothing of the collection that will write it.
OwnInv ==
  \A s \in Sources : There(s) /\ s \notin misled =>
    /\ source[s].cursor \in {None, Reads(source[s])}
    /\ \A q \in Readers : read[q].source = s => Reads(read[q].row) = Reads(source[s])
    /\ \A e \in Saves : save[e].source = s => save[e].channel = Reads(source[s])

\* A row that is new, or of another name, has no cursor and nothing on its way.
Clean(x) ==
  /\ source'[x].cursor = None
  /\ \A q \in Readers : read[q].source # x
  /\ \A e \in Saves : save[e].source # x

\* A row that stays is read as before, or is read for the first time.
Stays(x) ==
  /\ There(x) /\ Reads(source[x]) \in {None, Reads(source'[x])}
  /\ \/ source'[x].cursor = source[x].cursor
     \/ \E q \in Readers : read[q].source = x /\ source'[x].cursor = Reads(read[q].row)
     \/ \E e \in Saves : save[e].source = x /\ source'[x].cursor = save[e].channel

LEMMA MisledFrame ==
  ASSUME Next
  PROVE  \/ UNCHANGED misled
         \/ \E s \in Sources, c \in Named \cup {None} : Edit(s, c)
         \/ \E e \in Saves, c \in Channels, s \in Sources : Hear(e, c, s)
<1> DEFINE Rest == UNCHANGED misled
<1>1. ASSUME NEW s \in Sources, Editing(s) PROVE Rest \/ \E c \in Named \cup {None} : Edit(s, c)
  BY <1>1 DEF Editing, CreatePublic, Toggle, DeleteSource, Join, AskAgain, history
<1>2. ASSUME NEW r \in Requests, Waiting(r) PROVE Rest
  BY <1>2 DEF Waiting, AskToJoin, OpenForm, Refused, Approved, SyncRoutes, history
<1>3. ASSUME NEW t \in Targets, CreateTarget(t) \/ DeleteTarget(t) PROVE Rest
  BY <1>3 DEF CreateTarget, DeleteTarget, history
<1>4. ASSUME Collecting PROVE Rest \/ \E e \in Saves, c \in Channels, s \in Sources : Hear(e, c, s)
  BY <1>4 DEF Collecting, Fetch, EndFetch, FetchFails, EndSave, Reload, history
<1>5. ASSUME Prompting PROVE Rest
  BY <1>5 DEF Prompting, CreatePrompt, MakeDefault, DeletePrompt, ChoosePrompt, CommitPrompt, history
<1>6. ASSUME Restart PROVE Rest
  BY <1>6 DEF Restart, history
<1> QED
  BY <1>1, <1>2, <1>3, <1>4, <1>5, <1>6 DEF Next

LEMMA MisledGrows ==
  ASSUME CatalogueAssumption, RowInv, Next PROVE misled \subseteq misled'
<1>1. ASSUME NEW s \in Sources, NEW c \in Named \cup {None}, Edit(s, c) PROVE misled \subseteq misled'
  BY <1>1, EditEffect
<1>2. ASSUME NEW e \in Saves, NEW c \in Channels, NEW s \in Sources, Hear(e, c, s)
      PROVE  misled \subseteq misled'
  BY <1>2 DEF Hear
<1> QED
  BY <1>1, <1>2, MisledFrame

\* Nothing is on its way for a row that is not used.
LEMMA NothingForNew ==
  ASSUME RowInv, NEW s \in Sources, source[s] = NoSource
  PROVE  /\ \A q \in Readers : read[q].source # s
         /\ \A e \in Saves : save[e].source # s
<1>1. source[s].state = "none"
  BY DEF NoSource
<1>2. \A q \in Readers : read[q].source = s => read[q].source # None \/ s = None
  OBVIOUS
<1>3. s # None
  BY CatalogueAssumption DEF CatalogueAssumption
<1> QED
  BY <1>1, <1>3 DEF RowInv, ReadInv, SaveInv

LEMMA RowFate ==
  ASSUME CatalogueAssumption, RowInv, OwnInv, Next, NEW x \in Sources, There(x)', x \notin misled'
  PROVE  Clean(x) \/ Stays(x)
<1>1. ASSUME source'[x] = source[x] PROVE Stays(x)
  BY <1>1 DEF Stays, There
<1>2. ASSUME NEW s \in Sources, NEW c \in Named, CreatePublic(s, c) PROVE Clean(x) \/ Stays(x)
  BY <1>1, <1>2, CreatePublicEffect, NothingForNew DEF Clean, RowInv
<1>3. ASSUME NEW s \in Sources, NEW r \in Requests, Join(r, s) PROVE Clean(x) \/ Stays(x)
  BY <1>1, <1>3, JoinEffect, NothingForNew DEF Clean
<1>4. ASSUME NEW s \in Sources, NEW c \in Named \cup {None}, Edit(s, c) PROVE Clean(x) \/ Stays(x)
  <2>1. CASE x # s
    BY <1>1, <1>4, <2>1, EditEffect
  <2>2. CASE x = s
    BY <1>4, <2>2, EditEffect DEF Clean, Former
  <2> QED
    BY <2>1, <2>2
<1>5. ASSUME NEW s \in Sources, Toggle(s) \/ DeleteSource(s) PROVE Stays(x)
  BY <1>5, QuietEffect DEF Stays, There, Reads
<1>6. ASSUME NEW r \in Requests, Approved(r) PROVE Stays(x)
  <2> DEFINE s == request[r].source
  <2>1. CASE source' = source
    BY <1>1, <2>1
  <2>2. CASE x # s
    BY <1>1, <1>6, <2>2, ApprovedEffect
  <2>3. CASE x = s /\ source' # source
    BY <1>6, <2>3, ApprovedEffect DEF Stays, Reads
  <2> QED
    BY <2>1, <2>2, <2>3
<1>7. ASSUME NEW q \in Readers, EndFetch(q) PROVE Stays(x)
  <2> DEFINE s == read[q].source
  <2>1. CASE source' = source
    BY <1>1, <2>1
  <2>2. CASE x # s
    BY <1>1, <1>7, <2>2, EndFetchRow
  <2>3. CASE x = s /\ source' # source
    <3>1. /\ There(x) /\ source'[x].name = source[x].name /\ source'[x].invite = source[x].invite
          /\ source'[x].cursor \in {source[x].cursor, Reads(read[q].row)}
          /\ source[x].invite # None => source'[x].id = source[x].id
      BY <1>7, <2>3, EndFetchRow
    <3>2. source'[x].id \in {source[x].id, Reads(read[q].row)}
      BY <1>7, <2>3, EndFetchRow
    <3>3. Reads(read[q].row) = Reads(source[x])
      BY <2>3, <3>1, MisledGrows DEF OwnInv
    <3>4. Reads(source[x]) \in {None, Reads(source'[x])}
      BY <3>1, <3>2, <3>3 DEF Reads
    <3> QED
      BY <2>3, <3>1, <3>4 DEF Stays
  <2> QED
    BY <2>1, <2>2, <2>3
<1>8. ASSUME NEW e \in Saves, EndSave(e) PROVE Stays(x)
  <2> DEFINE s == save[e].source
  <2>1. CASE source' = source
    BY <1>1, <2>1
  <2>2. CASE x # s
    BY <1>1, <1>8, <2>2, EndSaveEffect
  <2>3. CASE x = s /\ source' # source
    BY <1>8, <2>3, EndSaveEffect DEF Stays, Reads
  <2> QED
    BY <2>1, <2>2, <2>3
<1>9. UNCHANGED source => Stays(x)
  BY <1>1
<1> QED
  BY <1>2, <1>3, <1>4, <1>5, <1>6, <1>7, <1>8, <1>9, SourceFrame DEF Writers

LEMMA ReadersStay ==
  ASSUME RowInv, Next, NEW q \in Readers, NEW s \in Sources, read'[q].source = s
  PROVE  read'[q] = read[q] \/ (read'[q].row = source[s] /\ source' = source)
<1>1. s # None
  BY CatalogueAssumption DEF CatalogueAssumption
<1>2. ASSUME NEW o \in Readers, NEW x \in Sources, Fetch(o, x)
      PROVE  read'[q] = read[q] \/ (read'[q].row = source[s] /\ source' = source)
  <2> DEFINE w == [source |-> x, row |-> source[x]]
  <2>1. read' = [read EXCEPT ![o] = w] /\ source' = source
    BY <1>2 DEF Fetch
  <2>2. read'[q] = IF q = o THEN w ELSE read[q]
    BY <2>1 DEF RowInv, ReadInv
  <2> QED
    BY <2>1, <2>2
<1>3. ASSUME NEW o \in Readers, read' = [read EXCEPT ![o] = IdleRead] PROVE read'[q] = read[q]
  BY <1>1, <1>3 DEF RowInv, ReadInv, IdleRead
<1>4. read' # [o \in Readers |-> IdleRead]
  BY <1>1 DEF IdleRead
<1> QED
  BY <1>2, <1>3, <1>4, ReadFrame

LEMMA SavesStay ==
  ASSUME RowInv, Next, NEW e \in Saves, NEW s \in Sources, save'[e].source = s, s \notin misled'
  PROVE  save'[e] = save[e] \/ (save'[e].channel = Reads(source[s]) /\ source' = source)
<1>1. s # None
  BY CatalogueAssumption DEF CatalogueAssumption
<1>2. ASSUME NEW o \in Saves, NEW c \in Channels, NEW x \in Sources, Hear(o, c, x)
      PROVE  save'[e] = save[e] \/ (save'[e].channel = Reads(source[s]) /\ source' = source)
  <2> DEFINE w == [source |-> x, channel |-> c]
  <2>1. save' = [save EXCEPT ![o] = w] /\ source' = source
        /\ misled' = IF Reads(source[x]) # c THEN misled \cup {x} ELSE misled
    BY <1>2 DEF Hear
  <2>2. save'[e] = IF e = o THEN w ELSE save[e]
    BY <2>1 DEF RowInv, SaveInv
  <2> QED
    BY <2>1, <2>2
<1>3. ASSUME NEW o \in Saves, save' = [save EXCEPT ![o] = IdleSave] PROVE save'[e] = save[e]
  BY <1>1, <1>3 DEF RowInv, SaveInv, IdleSave
<1>4. save' # [o \in Saves |-> IdleSave]
  BY <1>1 DEF IdleSave
<1> QED
  BY <1>2, <1>3, <1>4, SaveFrame

LEMMA OwnStep ==
  ASSUME CatalogueAssumption, RowInv, OwnInv, Next PROVE OwnInv'
<1> SUFFICES ASSUME NEW s \in Sources, There(s)', s \notin misled'
             PROVE  /\ source'[s].cursor \in {None, Reads(source'[s])}
                    /\ \A q \in Readers : read'[q].source = s => Reads(read'[q].row) = Reads(source'[s])
                    /\ \A e \in Saves : save'[e].source = s => save'[e].channel = Reads(source'[s])
  BY DEF OwnInv, Reads
<1>1. s # None /\ s \notin misled
  BY MisledGrows DEF CatalogueAssumption
<1>2. CASE Clean(s)
  BY <1>2, ReadersStay, SavesStay DEF Clean
<1>3. CASE Stays(s)
  <2>1. /\ source[s].cursor \in {None, Reads(source[s])}
        /\ \A q \in Readers : read[q].source = s => Reads(read[q].row) = Reads(source[s])
        /\ \A e \in Saves : save[e].source = s => save[e].channel = Reads(source[s])
    BY <1>1, <1>3 DEF Stays, OwnInv
  <2>2. \A q \in Readers : read[q].source = s => Reads(source[s]) # None
    BY <1>1, <2>1 DEF RowInv, ReadInv
  <2>3. \A e \in Saves : save[e].source = s => Reads(source[s]) # None
    BY <1>1, <2>1 DEF RowInv, SaveInv, CatalogueAssumption
  <2>4. source'[s].cursor \in {None, Reads(source'[s])}
    BY <1>3, <2>1, <2>2, <2>3 DEF Stays
  <2>5. \A q \in Readers : read'[q].source = s => Reads(read'[q].row) = Reads(source'[s])
    BY <1>3, <2>1, <2>2, ReadersStay DEF Stays
  <2>6. \A e \in Saves : save'[e].source = s => save'[e].channel = Reads(source'[s])
    BY <1>3, <2>1, <2>3, SavesStay DEF Stays
  <2> QED
    BY <2>4, <2>5, <2>6
<1> QED
  BY <1>2, <1>3, RowFate

\* sources.edit_source: the number in a cursor is one of the channel the source is read
\* from, except of a source that was renamed while a collection or a save was on its way,
\* or that was heard by the id of its former channel at any time since.
THEOREM CursorsAreOwn == Spec => []CursorIsOwn
<1>1. ASSUME Init PROVE OwnInv
  BY <1>1 DEF Init, OwnInv, There, NoSource
<1>2. ASSUME CatalogueInv, OwnInv, [Next]_vars PROVE OwnInv'
  <2>1. CASE Next
    BY <1>2, <2>1, OwnStep, CatalogueAssumption DEF CatalogueInv
  <2>2. CASE UNCHANGED vars
    BY <1>2, <2>2 DEF vars, history, telegram, OwnInv, There, Reads
  <2> QED
    BY <1>2, <2>1, <2>2
<1>3. OwnInv => CursorIsOwn
  BY DEF OwnInv, CursorIsOwn
<1> QED
  BY <1>1, <1>2, <1>3, CatalogueHolds, PTL DEF Spec
=============================================================================
