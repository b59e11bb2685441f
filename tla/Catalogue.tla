------------------------------- MODULE Catalogue -------------------------------
(***************************************************************************)
(* The sources the news come from, the targets they go to, the routes       *)
(* between them and the prompts they are written with: what the operator    *)
(* sets up while collection reads it.                                       *)
(*                                                                         *)
(* Requests about sources, routes and prompts are coroutines: a step runs   *)
(* from one await to the next.  Requests about targets run in threads, in a *)
(* transaction of their own.  A collection works with the row of its source *)
(* as it was loaded before the downloads, and writes what it changed.       *)
(***************************************************************************)
EXTENDS Integers, FiniteSets

CONSTANTS
  Channels,    \* the channels of Telegram ...
  Named,       \* ... those that have a public name ...
  Invites,     \* ... and the invitation links,
  ChannelOf,   \* each to one of them
  Sources,     \* the row numbers of sources; a number is not used again
  Targets,
  Prompts,     \* row numbers of prompts
  Requests,    \* coroutines of requests that wait for Telegram, or for their form
  Readers,     \* collections: the scheduler's, the catch-up, the button of a source
  Saves,       \* messages the listener is saving
  Threads,
  MaxRequests, \* bound on the requests that write
  None

ASSUME CatalogueAssumption ==
  /\ Named \subseteq Channels /\ ChannelOf \in [Invites -> Channels]
  /\ Prompts \subseteq Nat /\ IsFiniteSet(Prompts) /\ Prompts # {}
  /\ None \notin Channels \cup Invites \cup Sources \cup Targets \cup Prompts
  /\ MaxRequests \in Nat

VARIABLES
  source,   \* source_channels
  keys,     \* the listener's _source_keys
  request,  \* requests that wait
  read,     \* collections under way, with the row as it was loaded
  save,     \* messages on their way into the database
  target,   \* the prompt of each target_channels row
  route,    \* source_target_routes
  prompt,   \* the prompts there are
  default,  \* those with is_default
  thread,   \* requests that set the prompt of a target
  asked,    \* requests so far
  doubled,  \* history: the links two requests had asked about at once
  checked,  \* history: the sources whose channel a later check of the link told
  misled,   \* history: the sources renamed, or known by the id of the former channel,
            \* while something of it was on its way
  orphaned  \* history: the targets given a prompt that was being deleted

vars == <<source, keys, request, read, save, target, route, prompt, default, thread,
          asked, doubled, checked, misled, orphaned>>
telegram == <<read, save>>
writing == <<target, prompt, default, thread, orphaned>>
history == <<doubled, checked, misled>>

NoSource == [state |-> "none", name |-> None, invite |-> None, id |-> None,
             cursor |-> None, enabled |-> FALSE]
IdleRequest == [at |-> "idle", source |-> None, invite |-> None, target |-> None]
IdleRead == [source |-> None, row |-> NoSource]
IdleSave == [source |-> None, channel |-> None]
IdleThread == [target |-> None, prompt |-> None, was |-> None]
Gone == [state |-> "gone"]

There(s) == source[s].state \in {"open", "requested", "joined"}
Used(s) == source[s] # NoSource

\* What the source is read by: its name, or else the id of its channel.
Reads(row) == IF row.name # None THEN row.name ELSE row.id

\* reload_sources: the names and the ids of the enabled sources.
KeysOf(rows) ==
  LET on == {s \in Sources : rows[s].state \in {"open", "requested", "joined"} /\ rows[s].enabled}
  IN  {<<"name", rows[s].name>> : s \in {x \in on : rows[x].name # None}}
      \cup {<<"id", rows[s].id>> : s \in {x \in on : rows[x].id # None}}

Init ==
  /\ source = [s \in Sources |-> NoSource]
  /\ keys = {}
  /\ request = [r \in Requests |-> IdleRequest]
  /\ read = [q \in Readers |-> IdleRead]
  /\ save = [e \in Saves |-> IdleSave]
  /\ target = [t \in Targets |-> Gone]
  /\ route = {}
  /\ \E x \in Prompts : prompt = {x} /\ default = {x}
  /\ thread = [d \in Threads |-> IdleThread]
  /\ asked = 0 /\ doubled = {} /\ checked = {} /\ misled = {} /\ orphaned = {}

Request == asked < MaxRequests /\ asked' = asked + 1

-----------------------------------------------------------------------------
(* Sources                                                                  *)

\* The handlers tell the listener after their commit.
Store(rows) == source' = rows /\ keys' = KeysOf(rows)

\* create_source; the name is unique in the table.
\* No other public source has that name; the empty one counts as a name here.
Nameless(c) == \A s \in Sources : There(s) /\ source[s].invite = None => source[s].name # c
CreatePublic(s, c) ==
  /\ Request
  /\ ~Used(s) /\ Nameless(c)
  /\ Store([source EXCEPT ![s] = [NoSource EXCEPT !.state = "open", !.name = c, !.enabled = TRUE]])
  /\ UNCHANGED <<request, telegram, route, writing, history>>

\* _add_private_source asks the database, then Telegram, then the database again.
Unknown(h) == \A s \in Sources : There(s) => source[s].invite # h
AskToJoin(r, h) ==
  /\ Request
  /\ request[r] = IdleRequest /\ Unknown(h)
  /\ request' = [request EXCEPT ![r] = [IdleRequest EXCEPT !.at = "joining", !.invite = h]]
  /\ doubled' = IF \E o \in Requests : request[o].at = "joining" /\ request[o].invite = h
                THEN doubled \cup {h} ELSE doubled
  /\ UNCHANGED <<source, keys, telegram, route, writing, checked, misled>>

\* The request waits for approval, or the channel is open; Telegram then tells its id,
\* as a rule.
Outcomes(h) == {[state |-> "requested", id |-> None], [state |-> "joined", id |-> None],
                [state |-> "joined", id |-> ChannelOf[h]]}

BuggyTwin(id) == FALSE
Twin(id) == id # None /\ \E s \in Sources : There(s) /\ source[s].id = id

Join(r, s) ==
  LET h == request[r].invite IN
  /\ request[r].at = "joining" /\ ~Used(s)
  /\ \E outcome \in Outcomes(h) :
       IF Twin(outcome.id) THEN UNCHANGED <<source, keys>>
       ELSE Store([source EXCEPT ![s] = [NoSource EXCEPT !.state = outcome.state, !.invite = h,
                                                         !.id = outcome.id, !.enabled = TRUE]])
  /\ request' = [request EXCEPT ![r] = IdleRequest]
  /\ UNCHANGED <<telegram, route, writing, asked, history>>

\* edit_source; of a closed channel it changes the title only.  The name of the channel
\* changes, to an empty one where the address has none, and with it the cursor goes; the
\* id stays that of the former channel.
Former(s) == \/ \E q \in Readers : read[q].source = s
             \/ \E e \in Saves : save[e].source = s

BuggyRenamed(row, c) == [row EXCEPT !.name = c]
Renamed(row, c) == [row EXCEPT !.name = c, !.cursor = None]
Edit(s, c) ==
  /\ Request
  /\ There(s) /\ source[s].invite = None /\ Nameless(c)
  /\ Store([source EXCEPT ![s] = Renamed(@, c)])
  /\ misled' = IF Former(s) THEN misled \cup {s} ELSE misled
  /\ UNCHANGED <<request, telegram, route, writing, doubled, checked>>

Toggle(s) ==
  /\ Request
  /\ There(s) /\ Store([source EXCEPT ![s].enabled = ~@])
  /\ UNCHANGED <<request, telegram, route, writing, history>>

\* A route that names the source keeps it: PostgreSQL refuses.
BuggyFree(s) == TRUE
Free(s) == \A t \in Targets : <<s, t>> \notin route
DeleteSource(s) ==
  /\ Request
  /\ There(s) /\ Free(s)
  /\ Store([source EXCEPT ![s].state = "deleted"])
  /\ UNCHANGED <<request, telegram, route, writing, history>>

\* check_join: has the request been approved?
AskAgain(r, s) ==
  /\ Request
  /\ request[r] = IdleRequest /\ There(s) /\ source[s].invite # None
  /\ request' = [request EXCEPT ![r] = [IdleRequest EXCEPT !.at = "checking", !.source = s]]
  /\ UNCHANGED <<source, keys, telegram, route, writing, history>>

\* It has.  The row that is gone fails the commit.
Approved(r) ==
  LET s == request[r].source IN
  /\ request[r].at = "checking"
  /\ IF There(s)
     THEN /\ Store([source EXCEPT ![s].state = "joined", ![s].id = ChannelOf[source[s].invite]])
          /\ checked' = checked \cup {s}
     ELSE UNCHANGED <<source, keys, checked>>
  /\ request' = [request EXCEPT ![r] = IdleRequest]
  /\ UNCHANGED <<telegram, route, writing, asked, doubled, misled>>

\* The link is not valid, Telegram does not answer, or the request still waits.
Refused(r) ==
  /\ request[r].at \in {"joining", "checking"}
  /\ request' = [request EXCEPT ![r] = IdleRequest]
  /\ UNCHANGED <<source, keys, telegram, route, writing, asked, history>>

-----------------------------------------------------------------------------
(* What collection reads and writes of a source                             *)

Readable(row) == row.enabled /\ row.state # "requested" /\ Reads(row) # None

Fetch(q, s) ==
  /\ read[q] = IdleRead /\ There(s) /\ Readable(source[s])
  /\ read' = [read EXCEPT ![q] = [source |-> s, row |-> source[s]]]
  /\ UNCHANGED <<source, keys, request, save, route, writing, asked, history>>

\* _resolve_entity notes the id of the channel it was given, flush_pending the number
\* of its newest message, if there was one.  Only what differs from the loaded row is
\* written.  The listener learns of a new id when it reloads by itself.
EndFetch(q) ==
  LET s == read[q].source
      row == read[q].row
      from == Reads(row)
  IN
  /\ s # None
  /\ IF There(s)
     THEN \E cursor \in {source[s].cursor, from} :
            source' = [source EXCEPT ![s].id = IF row.id = from THEN @ ELSE from,
                                     ![s].cursor = cursor]
     ELSE UNCHANGED source
  /\ read' = [read EXCEPT ![q] = IdleRead]
  /\ UNCHANGED <<keys, request, save, route, writing, asked, history>>

FetchFails(q) ==
  /\ read[q].source # None
  /\ read' = [read EXCEPT ![q] = IdleRead]
  /\ UNCHANGED <<source, keys, request, save, route, writing, asked, history>>

Reload ==
  /\ keys' = KeysOf(source) /\ keys' # keys
  /\ UNCHANGED <<source, request, telegram, route, writing, asked, history>>

\* _source_key: by the id of the channel, else by its name; then the source is looked
\* up by that key.
Matches(s, key) ==
  /\ There(s) /\ source[s].enabled
  /\ IF key[1] = "id" THEN source[s].id = key[2] ELSE source[s].name = key[2]

Key(c) == IF <<"id", c>> \in keys THEN <<"id", c>> ELSE <<"name", c>>
Hear(e, c, s) ==
  /\ save[e] = IdleSave /\ Key(c) \in keys /\ Matches(s, Key(c))
  /\ save' = [save EXCEPT ![e] = [source |-> s, channel |-> c]]
  /\ misled' = IF Reads(source[s]) # c THEN misled \cup {s} ELSE misled
  /\ UNCHANGED <<source, keys, request, read, route, writing, asked, doubled, checked>>

\* _note_new_post moves the cursor on, unless the row had a larger number.
EndSave(e) ==
  LET s == save[e].source IN
  /\ s # None
  /\ \/ There(s) /\ source' = [source EXCEPT ![s].cursor = save[e].channel]
     \/ UNCHANGED source
  /\ save' = [save EXCEPT ![e] = IdleSave]
  /\ UNCHANGED <<keys, request, read, route, writing, asked, history>>

-----------------------------------------------------------------------------
(* Targets and routes                                                       *)

CreateTarget(t) ==
  /\ Request
  /\ target[t] = Gone /\ target' = [target EXCEPT ![t] = [state |-> "there", prompt |-> None]]
  /\ UNCHANGED <<source, keys, request, telegram, route, prompt, default, thread, orphaned, history>>

\* A route that names the target keeps it.
DeleteTarget(t) ==
  /\ Request
  /\ target[t] # Gone /\ \A s \in Sources : <<s, t>> \notin route
  /\ target' = [target EXCEPT ![t] = Gone]
  /\ UNCHANGED <<source, keys, request, telegram, route, prompt, default, thread, orphaned, history>>

\* sync_routes reads its form between the target and the routes.
OpenForm(r, t) ==
  /\ Request
  /\ request[r] = IdleRequest /\ target[t] # Gone
  /\ request' = [request EXCEPT ![r] = [IdleRequest EXCEPT !.at = "routing", !.target = t]]
  /\ UNCHANGED <<source, keys, telegram, route, writing, history>>

\* A source or a target that is gone meanwhile fails the commit.
SyncRoutes(r, selected) ==
  LET t == request[r].target
      now == {s \in Sources : <<s, t>> \in route}
      valid == selected = now \/ (target[t] # Gone /\ \A s \in selected \ now : There(s))
  IN
  /\ request[r].at = "routing"
  /\ route' = IF valid THEN {p \in route : p[2] # t} \cup (selected \X {t}) ELSE route
  /\ request' = [request EXCEPT ![r] = IdleRequest]
  /\ UNCHANGED <<source, keys, telegram, writing, asked, history>>

-----------------------------------------------------------------------------
(* Prompts                                                                  *)

CreatePrompt(x) ==
  /\ Request
  /\ x \notin prompt /\ prompt' = prompt \cup {x}
  /\ UNCHANGED <<source, keys, request, telegram, route, target, default, thread, orphaned, history>>

MakeDefault(x) ==
  /\ Request
  /\ x \in prompt /\ default' = {x}
  /\ UNCHANGED <<source, keys, request, telegram, route, target, prompt, thread, orphaned, history>>

BuggySuccessor(x) == default \ {x}
Successor(x) == IF x \in default THEN {CHOOSE y \in prompt \ {x} : \A z \in prompt \ {x} : y <= z}
                                 ELSE default

\* The targets that had it go back to the default prompt; the last prompt stays.
DeletePrompt(x) ==
  /\ Request
  /\ x \in prompt /\ prompt # {x}
  /\ target' = [t \in Targets |-> IF target[t] # Gone /\ target[t].prompt = x
                                  THEN [target[t] EXCEPT !.prompt = None] ELSE target[t]]
  /\ prompt' = prompt \ {x}
  /\ default' = Successor(x)
  /\ orphaned' = orphaned \cup {thread[d].target : d \in {y \in Threads : thread[y].prompt = x}}
  /\ UNCHANGED <<source, keys, request, telegram, route, thread, history>>

\* update_target_prompt reads the target and the prompt, or takes none, then commits.
ChoosePrompt(d, t, x) ==
  /\ Request
  /\ thread[d] = IdleThread /\ target[t] # Gone /\ x \in prompt \cup {None}
  /\ thread' = [thread EXCEPT ![d] = [target |-> t, prompt |-> x, was |-> target[t].prompt]]
  /\ UNCHANGED <<source, keys, request, telegram, route, target, prompt, default, orphaned, history>>

CommitPrompt(d) ==
  LET t == thread[d].target IN
  /\ t # None
  /\ target' = IF target[t] # Gone /\ thread[d].prompt # thread[d].was
               THEN [target EXCEPT ![t].prompt = thread[d].prompt] ELSE target
  /\ thread' = [thread EXCEPT ![d] = IdleThread]
  /\ UNCHANGED <<source, keys, request, telegram, route, prompt, default, asked, orphaned, history>>

\* What waits is lost; the listener reads its keys anew.
Restart ==
  /\ request' = [r \in Requests |-> IdleRequest]
  /\ read' = [q \in Readers |-> IdleRead]
  /\ save' = [e \in Saves |-> IdleSave]
  /\ thread' = [d \in Threads |-> IdleThread]
  /\ keys' = KeysOf(source)
  /\ UNCHANGED <<source, target, route, prompt, default, asked, history, orphaned>>

-----------------------------------------------------------------------------
Editing(s) ==
  \/ \E c \in Named : CreatePublic(s, c)
  \/ \E c \in Named \cup {None} : Edit(s, c)
  \/ \E r \in Requests : Join(r, s) \/ AskAgain(r, s)
  \/ Toggle(s) \/ DeleteSource(s)

Collecting ==
  \/ \E q \in Readers : EndFetch(q) \/ FetchFails(q) \/ \E s \in Sources : Fetch(q, s)
  \/ \E e \in Saves : EndSave(e) \/ \E c \in Channels, s \in Sources : Hear(e, c, s)
  \/ Reload

Waiting(r) ==
  \/ \E h \in Invites : AskToJoin(r, h)
  \/ Approved(r) \/ Refused(r)
  \/ \E t \in Targets : OpenForm(r, t)
  \/ \E selected \in SUBSET Sources : SyncRoutes(r, selected)

Prompting ==
  \/ \E x \in Prompts : CreatePrompt(x) \/ MakeDefault(x) \/ DeletePrompt(x)
  \/ \E d \in Threads : \/ CommitPrompt(d)
                        \/ \E t \in Targets, x \in Prompts \cup {None} : ChoosePrompt(d, t, x)

Next ==
  \/ \E s \in Sources : Editing(s)
  \/ \E r \in Requests : Waiting(r)
  \/ \E t \in Targets : CreateTarget(t) \/ DeleteTarget(t)
  \/ Collecting \/ Prompting \/ Restart

Spec == Init /\ [][Next]_vars

-----------------------------------------------------------------------------
\* The type of the state; a route joins a source and a target that are there.
TypeOK ==
  /\ source \in [Sources ->
       [state : {"none", "open", "requested", "joined", "deleted"}, name : Named \cup {None},
        invite : Invites \cup {None}, id : Channels \cup {None},
        cursor : Channels \cup {None}, enabled : BOOLEAN]]
  /\ keys \subseteq {"name", "id"} \X Channels
  /\ target \in [Targets -> {Gone} \cup [state : {"there"}, prompt : Prompts \cup {None}]]
  /\ route \subseteq {p \in Sources \X Targets : There(p[1]) /\ target[p[2]] # Gone}
  /\ prompt \subseteq Prompts /\ default \subseteq prompt

\* sources.py: the cursor goes with the channel, "reset when the channel changes".  The
\* number in it is one of the channel the source is read from, unless the source was
\* renamed while something of the former channel was on its way, or was still heard
\* under the former channel's id.
CursorIsOwn ==
  \A s \in Sources : There(s) =>
    source[s].cursor \in {None, Reads(source[s])} \/ s \in misled

\* sources._add_private_source: two sources of one channel would be two equal feeds.
\* Two closed sources are of one channel only when two requests asked about one link
\* at once, or when a channel became known by a later check of the link.  A public source
\* may be of the channel of a closed one without either.
TwinsAccountedFor ==
  \A s, t \in Sources : s # t /\ There(s) /\ There(t) /\ source[s].invite # None /\ source[t].invite # None =>
    /\ source[s].invite = source[t].invite => source[s].invite \in doubled
    /\ source[s].id # None /\ source[s].id = source[t].id => s \in checked \/ t \in checked

\* prompts.py: exactly one prompt is the default one, and a target names a prompt that
\* is there, unless it was given the prompt while that was being deleted.
PromptsResolve ==
  /\ \E x \in prompt : default = {x}
  /\ \A t \in Targets : target[t] # Gone => target[t].prompt \in prompt \cup {None} \/ t \in orphaned
=============================================================================
