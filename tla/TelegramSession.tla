---------------------------- MODULE TelegramSession ----------------------------
(***************************************************************************)
(* The one Telegram user session and those who connect a client to it: the *)
(* listener's task, the polls, and the login that the panel drives.  A     *)
(* client may be connected under _TELETHON_LOCK alone.  The login stops    *)
(* the listener, takes the lock, keeps it over several requests, and gives *)
(* everything back in _reset.  A step is what runs between two awaits.     *)
(***************************************************************************)
EXTENDS Integers, FiniteSets

CONSTANTS
  Requests,  \* coroutines serving the routes of the login
  Watchers,  \* tasks of _watch_qr
  Tasks,     \* tasks of the listener, one after the other
  Clients,   \* client objects; bound: nobody builds one when all are in use
  Login, Poll, None,
  Strays     \* may an exception come between the listener's connect and its try

Actors == Requests \cup Watchers

ASSUME SessionAssumption ==
  /\ Requests \cap Watchers = {}
  /\ Login \notin Tasks /\ Poll \notin Tasks /\ Login # Poll
  /\ None \notin Tasks \cup Clients \cup Actors \cup {Login, Poll}
  /\ Strays \in BOOLEAN

VARIABLES
  lock,     \* who holds _TELETHON_LOCK
  stored,   \* is a session string in the database
  conn,     \* each client is "down", "opening" or "up"
  state, client, qrTask, acquired, \* TelegramLoginService
  pc, mine, doing, old,  \* each actor: where it waits, with which client, for which
                         \* request, and for the end of which task
  task, lclient, active, \* TelegramEventListenerService
  tpc, tclient,          \* each task of the listener: where it waits, its client
  ppc, pclient           \* a poll that has no live client to use

login    == <<state, client, qrTask, acquired>>
actors   == <<pc, mine, doing, old>>
listener == <<task, lclient, active, tpc, tclient>>
poll     == <<ppc, pclient>>
vars == <<lock, stored, conn, login, actors, listener, poll>>

Live(t) == tpc[t] # "done"
Up(c) == c # None /\ conn[c] = "up"
Disconnect(C, c) == IF c = None THEN C ELSE [C EXCEPT ![c] = IF @ = "up" THEN "down" ELSE @]
Drop(C, c) == IF c = None THEN C ELSE [C EXCEPT ![c] = "down"]

\* Whoever waits for the end of a task is woken before a connection begun since is up: the
\* loop runs what is ready before it looks at the network.
Woken == \A a \in Actors : pc[a] \in {"stop", "restart"} => Live(old[a])

\* Client objects nobody has in hand, and task objects nobody waits for.
FreshClients ==
  {c \in Clients : /\ conn[c] = "down" /\ c \notin {client, lclient, pclient}
                   /\ \A a \in Actors : mine[a] # c
                   /\ \A t \in Tasks : tclient[t] # c}
FreshTasks == {t \in Tasks : ~Live(t) /\ \A a \in Actors : old[a] # t}

-----------------------------------------------------------------------------
(* Where the actors go.  W, C, L are the actors' places, the clients and the  *)
(* lock as the step has left them so far.                                     *)

\* Actor a waits at w with client c for request d.
Wait(a, w, c, d) ==
  /\ pc' = [pc EXCEPT ![a] = w]
  /\ mine' = [mine EXCEPT ![a] = c]
  /\ doing' = [doing EXCEPT ![a] = d]
  /\ UNCHANGED old

\* The request of a ends with state st.
Return(a, W, st) ==
  /\ state' = st
  /\ pc' = [W EXCEPT ![a] = "idle"]
  /\ mine' = [mine EXCEPT ![a] = None]
  /\ doing' = [doing EXCEPT ![a] = "none"]
  /\ old' = [old EXCEPT ![a] = None]

\* A cancelled task leaves the lock at once, except that one which listens disconnects
\* and sleeps before; a second cancellation ends that as well.
BuggyCancelled(place) == "idle"
Cancelled(place) == IF place = "listen" THEN "ending" ELSE "done"

\* TelegramEventListenerService.stop() up to its await.
StopTask(C, L) ==
  /\ active' = FALSE
  /\ IF Live(task)
       THEN /\ tpc' = [tpc EXCEPT ![task] = Cancelled(@)]
            /\ tclient' = IF tpc[task] = "listen" THEN tclient
                          ELSE [tclient EXCEPT ![task] = None]
            /\ conn' = IF tpc[task] \in {"connect", "listen"} THEN Drop(C, tclient[task]) ELSE C
            /\ lock' = IF L = task /\ tpc[task] # "listen" THEN None ELSE L
       ELSE conn' = C /\ lock' = L /\ UNCHANGED <<tpc, tclient>>
  /\ UNCHANGED <<task, lclient>>

\* start() when there is nothing to stop any more.
StartTask ==
  \E t \in FreshTasks : task' = t /\ tpc' = [tpc EXCEPT ![t] = "lock"]

\* _reset from the disconnection to its end: the lock is given back and the listener
\* started, which first stops one that runs.  Only a bot's login has something to say after.
BuggyGiveBack(a, W, C, st, d) ==
  LET L == IF acquired THEN None ELSE lock IN
  /\ client' = None /\ qrTask' = None /\ UNCHANGED acquired
  /\ StopTask(C, L)
  /\ pc' = [W EXCEPT ![a] = "restart"] /\ state' = st
  /\ mine' = [mine EXCEPT ![a] = None]
  /\ doing' = [doing EXCEPT ![a] = d]
  /\ old' = [old EXCEPT ![a] = task]

GiveBack(a, W, C, st, d) ==
  LET L == IF acquired THEN None ELSE lock IN
  /\ client' = None /\ qrTask' = None /\ acquired' = FALSE
  /\ IF Live(task)
       THEN /\ StopTask(C, L)
            /\ pc' = [W EXCEPT ![a] = "restart"] /\ state' = st
            /\ mine' = [mine EXCEPT ![a] = None]
            /\ doing' = [doing EXCEPT ![a] = d]
            /\ old' = [old EXCEPT ![a] = task]
       ELSE /\ StartTask
            /\ conn' = C /\ lock' = L
            /\ UNCHANGED <<lclient, active, tclient>>
            /\ Return(a, W, IF d = "bot" THEN "error" ELSE st)

\* The watcher is cancelled whatever it waits for; only stop() swallows it.
Unwatched(a) ==
  [w \in Actors |-> IF w = qrTask /\ w # a /\ pc[w] \in {"wait", "me", "disconnect"}
                    THEN "idle" ELSE pc[w]]

\* _reset up to its first await.  A watcher that came here by itself is the very task it
\* cancels: its next await, that of the disconnection, ends it.
BuggyReset(a, C, st, d) == GiveBack(a, Unwatched(a), C, st, d)
Reset(a, C, st, d) ==
  IF client # None /\ C[client] = "up"
    THEN /\ state' = st
         /\ pc' = [Unwatched(a) EXCEPT ![a] = IF a = qrTask THEN "cut" ELSE "disconnect"]
         /\ mine' = [mine EXCEPT ![a] = IF a = qrTask THEN None ELSE client]
         /\ doing' = [doing EXCEPT ![a] = d]
         /\ conn' = IF a = qrTask THEN Drop(C, client) ELSE C
         /\ UNCHANGED <<lock, client, qrTask, acquired, old, listener>>
    ELSE GiveBack(a, Unwatched(a), C, st, d)

BuggyFail(a) == Return(a, pc, "error") /\ UNCHANGED <<lock, conn, client, qrTask, acquired, listener>>
Fail(a) == Reset(a, conn, "error", doing[a])

Disconnected(a) ==
  /\ pc[a] = "disconnect"
  /\ GiveBack(a, pc, Drop(conn, mine[a]), state, doing[a])
  /\ UNCHANGED <<stored, poll>>

\* stop() ends, and start() with it: the old task is done, or 5 seconds are over and it
\* still disconnects.
Restarted(a) ==
  /\ pc[a] = "restart"
  /\ conn' = Disconnect(conn, lclient)
  /\ StartTask
  /\ Return(a, pc, IF doing[a] = "bot" THEN "error" ELSE state)
  /\ UNCHANGED <<lock, stored, client, qrTask, acquired, lclient, active, tclient, poll>>

-----------------------------------------------------------------------------
(* _ensure_client                                                          *)

EnsureClient(a, d) ==
  IF client = None
    THEN /\ StopTask(conn, lock)
         /\ pc' = [pc EXCEPT ![a] = "stop"]
         /\ doing' = [doing EXCEPT ![a] = d]
         /\ old' = [old EXCEPT ![a] = task]
         /\ UNCHANGED mine
    ELSE Wait(a, "ask", client, d) /\ UNCHANGED <<lock, conn, listener>>

\* build_client, then connect() is awaited.
Build(a, C) ==
  \E c \in FreshClients :
    /\ client' = c
    /\ conn' = [C EXCEPT ![c] = "opening"]
    /\ pc' = [pc EXCEPT ![a] = "connect"]
    /\ mine' = [mine EXCEPT ![a] = c]
    /\ old' = [old EXCEPT ![a] = None]
    /\ UNCHANGED doing

\* stop() ends, as in Restarted.  Whether the lock is acquired is looked at after that.
Stopped(a) ==
  /\ pc[a] = "stop"
  /\ LET C == Disconnect(conn, lclient) IN
     IF acquired THEN Build(a, C)
     ELSE /\ conn' = C
          /\ pc' = [pc EXCEPT ![a] = "lock"] /\ old' = [old EXCEPT ![a] = None]
          /\ UNCHANGED <<client, mine, doing>>
  /\ UNCHANGED <<lock, stored, state, qrTask, acquired, listener, poll>>

Acquire(a) ==
  /\ pc[a] = "lock" /\ lock = None
  /\ lock' = Login /\ acquired' = TRUE
  /\ Build(a, conn)
  /\ UNCHANGED <<stored, state, qrTask, listener, poll>>

\* The 15 seconds are over, or a second build finds the lock taken.
AcquireTimesOut(a) ==
  /\ pc[a] = "lock" /\ lock # None
  /\ Fail(a)
  /\ UNCHANGED <<stored, poll>>

\* Connected; what the caller gets is the service's client of this moment.
Connected(a) ==
  /\ pc[a] = "connect" /\ Woken
  /\ conn' = [conn EXCEPT ![mine[a]] = "up"]
  /\ Wait(a, "ask", client, doing[a])
  /\ UNCHANGED <<lock, stored, login, listener, poll>>

ConnectFails(a) ==
  /\ pc[a] = "connect"
  /\ Reset(a, Drop(conn, mine[a]), "error", doing[a])
  /\ UNCHANGED <<stored, poll>>

-----------------------------------------------------------------------------
(* The routes of the login and the watcher of the QR code.                 *)

StartQr(r) ==
  /\ pc[r] = "idle" /\ state \in {"idle", "done", "error"}
  /\ EnsureClient(r, "qr")
  /\ UNCHANGED <<stored, login, poll>>

StartPhone(r) ==
  /\ pc[r] = "idle" /\ state \in {"idle", "code_sent", "done", "error"}
  /\ EnsureClient(r, "phone")
  /\ UNCHANGED <<stored, login, poll>>

\* is_user_authorized says yes: the account is finished with at once.
AlreadyAuthorized(a) ==
  /\ pc[a] = "ask" /\ Up(mine[a]) /\ stored
  /\ Wait(a, "me", mine[a], doing[a])
  /\ UNCHANGED <<lock, stored, conn, login, listener, poll>>

\* qr_login: the code is shown and watched.
QrShown(a) ==
  /\ pc[a] = "ask" /\ doing[a] = "qr" /\ Up(mine[a])
  /\ \E w \in Watchers :
       /\ pc[w] \in {"idle", "cut"}
       /\ qrTask' = w
       /\ pc' = [pc EXCEPT ![a] = "idle", ![w] = "wait"]
       /\ mine' = [mine EXCEPT ![a] = None, ![w] = mine[a]]
       /\ doing' = [doing EXCEPT ![a] = "none", ![w] = "qr"]
  /\ state' = "qr_pending"
  /\ UNCHANGED <<lock, stored, conn, client, acquired, old, listener, poll>>

\* send_code_request
CodeSent(a) ==
  /\ pc[a] = "ask" /\ doing[a] = "phone" /\ Up(mine[a])
  /\ Return(a, pc, "code_sent")
  /\ UNCHANGED <<lock, stored, conn, client, qrTask, acquired, listener, poll>>

\* Telegram refuses, or there is no client, or one that is not connected.
AskFails(a) ==
  /\ pc[a] = "ask"
  /\ Fail(a)
  /\ UNCHANGED <<stored, poll>>

Scanned(w) ==
  /\ pc[w] = "wait" /\ Up(mine[w])
  /\ Wait(w, "me", client, doing[w])
  /\ UNCHANGED <<lock, stored, conn, login, listener, poll>>

\* The account has a password, or the loop finds that nobody waits for the code.
WatchEnds(w) ==
  /\ pc[w] = "wait"
  /\ \/ Up(mine[w]) /\ Return(w, pc, "password_needed")
     \/ state # "qr_pending" /\ Return(w, pc, state)
  /\ UNCHANGED <<lock, stored, conn, client, qrTask, acquired, listener, poll>>

WatchFails(w) ==
  /\ pc[w] = "wait"
  /\ Fail(w)
  /\ UNCHANGED <<stored, poll>>

Submit(r, d, st) ==
  /\ pc[r] = "idle" /\ state = st /\ client # None
  /\ Wait(r, "sign", client, d)
  /\ UNCHANGED <<lock, stored, conn, login, listener, poll>>

SubmitCode(r) == Submit(r, "code", "code_sent")
SubmitPassword(r) == Submit(r, "password", "password_needed")

SignedIn(a) ==
  /\ pc[a] = "sign" /\ Up(mine[a])
  /\ Wait(a, "me", client, doing[a])
  /\ UNCHANGED <<lock, stored, conn, login, listener, poll>>

\* A wrong code or password may be tried again; a right code may ask for a password.
SignInRefused(a) ==
  /\ pc[a] = "sign"
  /\ \/ Return(a, pc, state)
     \/ doing[a] = "code" /\ Up(mine[a]) /\ Return(a, pc, "password_needed")
  /\ UNCHANGED <<lock, stored, conn, client, qrTask, acquired, listener, poll>>

SignInFails(a) ==
  /\ pc[a] = "sign" /\ doing[a] = "code"
  /\ Fail(a)
  /\ UNCHANGED <<stored, poll>>

\* _finish: a user is stored, a bot is sent away.
Finish(a) ==
  /\ pc[a] = "me" /\ Up(mine[a])
  /\ \/ stored' = TRUE /\ Reset(a, conn, "done", doing[a])
     \/ stored' = FALSE /\ Reset(a, conn, state, "bot")
  /\ UNCHANGED poll

FinishFails(a) ==
  /\ pc[a] = "me"
  /\ IF doing[a] = "password"
       THEN /\ Return(a, pc, state)
            /\ UNCHANGED <<lock, conn, client, qrTask, acquired, listener>>
       ELSE Fail(a)
  /\ UNCHANGED <<stored, poll>>

Cancel(r) ==
  /\ pc[r] = "idle"
  /\ Reset(r, conn, "idle", "none")
  /\ UNCHANGED <<stored, poll>>

Logout(r) ==
  /\ pc[r] = "idle"
  /\ stored' = FALSE
  /\ Reset(r, conn, "idle", "none")
  /\ UNCHANGED poll

-----------------------------------------------------------------------------
(* The listener's task.                                                    *)

\* Task t waits at place with client c.
Place(t, place, c) ==
  /\ tpc' = [tpc EXCEPT ![t] = place]
  /\ tclient' = [tclient EXCEPT ![t] = c]
  /\ UNCHANGED task

TaskAcquires(t) ==
  /\ tpc[t] = "lock" /\ lock = None
  /\ lock' = t
  /\ \E c \in FreshClients : /\ Place(t, "connect", c)
                             /\ lclient' = c
                             /\ conn' = [conn EXCEPT ![c] = "opening"]
  /\ UNCHANGED <<stored, login, actors, active, poll>>

\* _connect_authorized and _go_active
TaskConnects(t) ==
  /\ tpc[t] = "connect" /\ stored /\ Woken
  /\ conn' = [conn EXCEPT ![tclient[t]] = "up"]
  /\ active' = TRUE
  /\ Place(t, "catchup", tclient[t])
  /\ UNCHANGED <<lock, stored, login, actors, lclient, poll>>

\* No connection, no authorisation, a bot: the client is down.  An exception of get_me,
\* of the database in reload_sources or at the start of the catch-up leaves it as it is.
TaskBreaks(t) ==
  /\ tpc[t] = "connect" \/ (Strays /\ tpc[t] = "catchup")
  /\ \E left \in IF Strays THEN {"down", "up"} ELSE {"down"} :
       /\ left = "down" => tpc[t] = "connect"
       /\ conn' = [conn EXCEPT ![tclient[t]] = left]
  /\ lock' = None /\ active' = FALSE
  /\ Place(t, "pause", None)
  /\ UNCHANGED <<stored, login, actors, lclient, poll>>

TaskListens(t) ==
  /\ tpc[t] = "catchup"
  /\ Place(t, "listen", tclient[t])
  /\ UNCHANGED <<lock, stored, conn, login, actors, lclient, active, poll>>

BuggyTaskDisconnected(t) ==
  /\ tpc[t] = "listen"
  /\ conn' = Drop(conn, tclient[t])
  /\ Place(t, "closing", None)
  /\ UNCHANGED <<lock, stored, login, actors, lclient, active, poll>>

\* run_until_disconnected returns; the finally clause disconnects and sleeps.
TaskDisconnected(t) ==
  /\ tpc[t] = "listen"
  /\ conn' = Drop(conn, tclient[t])
  /\ active' = FALSE
  /\ Place(t, "closing", None)
  /\ UNCHANGED <<lock, stored, login, actors, lclient, poll>>

TaskLeaves(t) ==
  /\ tpc[t] \in {"closing", "ending"}
  /\ lock' = None
  /\ Place(t, IF tpc[t] = "closing" THEN "pause" ELSE "done", None)
  /\ UNCHANGED <<stored, conn, login, actors, lclient, active, poll>>

\* The pause of _run_loop is over.
TaskRetries(t) ==
  /\ tpc[t] = "pause"
  /\ Place(t, "lock", None)
  /\ UNCHANGED <<lock, stored, conn, login, actors, lclient, active, poll>>

-----------------------------------------------------------------------------
(* A poll: fetch_source, restore_media or a conversation about an invitation. *)

Others == UNCHANGED <<stored, login, actors, listener>>

PollStarts ==
  /\ ppc = "idle" /\ ~Up(lclient)
  /\ ppc' = "lock"
  /\ UNCHANGED <<lock, conn, pclient>> /\ Others

PollAcquires ==
  /\ ppc = "lock" /\ lock = None
  /\ lock' = Poll /\ ppc' = "connect"
  /\ \E c \in FreshClients : pclient' = c /\ conn' = [conn EXCEPT ![c] = "opening"]
  /\ Others

PollConnects ==
  /\ ppc = "connect" /\ Woken
  /\ ppc' = "read"
  /\ conn' = [conn EXCEPT ![pclient] = "up"]
  /\ UNCHANGED <<lock, pclient>> /\ Others

\* Done, refused, or out of time, also while it waits for the lock.
PollEnds ==
  /\ ppc # "idle"
  /\ ppc' = "idle" /\ pclient' = None
  /\ conn' = Drop(conn, pclient)
  /\ lock' = IF ppc = "lock" THEN lock ELSE None
  /\ Others

-----------------------------------------------------------------------------

\* The process starts its listener, with the session it finds in the database.
Init ==
  /\ lock = None /\ stored \in BOOLEAN
  /\ conn = [c \in Clients |-> "down"]
  /\ state = "idle" /\ client = None /\ qrTask = None /\ acquired = FALSE
  /\ pc = [a \in Actors |-> "idle"]
  /\ mine = [a \in Actors |-> None]
  /\ doing = [a \in Actors |-> "none"]
  /\ old = [a \in Actors |-> None]
  /\ task \in Tasks
  /\ lclient = None /\ active = FALSE
  /\ tpc = [t \in Tasks |-> IF t = task THEN "lock" ELSE "done"]
  /\ tclient = [t \in Tasks |-> None]
  /\ ppc = "idle" /\ pclient = None

Route(r) == StartQr(r) \/ StartPhone(r) \/ SubmitCode(r) \/ SubmitPassword(r)
            \/ Cancel(r) \/ Logout(r)

Continue(a) ==
  \/ Stopped(a) \/ Acquire(a) \/ AcquireTimesOut(a) \/ Connected(a) \/ ConnectFails(a)
  \/ AlreadyAuthorized(a) \/ QrShown(a) \/ CodeSent(a) \/ AskFails(a)
  \/ SignedIn(a) \/ SignInRefused(a) \/ SignInFails(a)
  \/ Finish(a) \/ FinishFails(a) \/ Disconnected(a) \/ Restarted(a)

Watch(w) == Scanned(w) \/ WatchEnds(w) \/ WatchFails(w)

Listen(t) == TaskAcquires(t) \/ TaskConnects(t) \/ TaskBreaks(t) \/ TaskListens(t)
             \/ TaskDisconnected(t) \/ TaskLeaves(t) \/ TaskRetries(t)

Next ==
  \/ \E r \in Requests : Route(r)
  \/ \E a \in Actors : Continue(a)
  \/ \E w \in Watchers : Watch(w)
  \/ \E t \in Tasks : Listen(t)
  \/ PollStarts \/ PollAcquires \/ PollConnects \/ PollEnds

Spec == Init /\ [][Next]_vars

-----------------------------------------------------------------------------

States == {"idle", "qr_pending", "code_sent", "password_needed", "done", "error"}
Places == {"idle", "stop", "lock", "connect", "ask", "wait", "sign", "me", "disconnect",
           "restart", "cut"}
Errands == {"none", "qr", "phone", "code", "password", "bot"}
TaskPlaces == {"lock", "connect", "catchup", "listen", "closing", "ending", "pause", "done"}
Links == {"down", "opening", "up"}

\* The variables keep their types.
TypeOK ==
  /\ lock \in Tasks \cup {Login, Poll, None} /\ stored \in BOOLEAN
  /\ conn \in [Clients -> Links]
  /\ state \in States /\ acquired \in BOOLEAN
  /\ client \in Clients \cup {None} /\ qrTask \in Watchers \cup {None}
  /\ pc \in [Actors -> Places] /\ doing \in [Actors -> Errands]
  /\ mine \in [Actors -> Clients \cup {None}] /\ old \in [Actors -> Tasks \cup {None}]
  /\ task \in Tasks /\ lclient \in Clients \cup {None} /\ active \in BOOLEAN
  /\ tpc \in [Tasks -> TaskPlaces] /\ tclient \in [Tasks -> Clients \cup {None}]
  /\ ppc \in {"idle", "lock", "connect", "read"} /\ pclient \in Clients \cup {None}

\* The lock is held by exactly the one who is going to release it: _reset never releases
\* the lock of a poll or of the listener, and a cancelled task never keeps it.
LockIsOwned ==
  /\ acquired <=> lock = Login
  /\ \A t \in Tasks : tpc[t] \in {"connect", "catchup", "listen", "closing", "ending"} <=> lock = t
  /\ ppc \in {"connect", "read"} <=> lock = Poll

\* At any moment at most one client is on the session (the comment at _TELETHON_LOCK).
OneClient == Cardinality({c \in Clients : conn[c] = "up"}) <= 1

InProgress == state \in {"qr_pending", "code_sent", "password_needed"}
Quiet == \A a \in Actors : pc[a] \in {"idle", "cut"}

\* When no login is in progress and nothing is under way, the lock is not the login's and
\* the listener is at work again (the listener's _log_failure: after a login the panel
\* restarts the listener itself).
LoginEndsFree == Quiet /\ ~InProgress => ~acquired /\ Live(task)

\* The same, unless the watcher of the QR code was cut off in the middle of _reset.
CutOff == \E w \in Watchers : qrTask = w /\ pc[w] = "cut"
LockGoesBack == Quiet /\ ~InProgress /\ ~CutOff => ~acquired /\ client = None /\ Live(task)

\* is_active is not claimed without a task that is catching up or listening: the scheduler
\* polls rarely only while somebody listens.
ActiveListens == active => \E t \in Tasks : tpc[t] \in {"catchup", "listen"}

=============================================================================
