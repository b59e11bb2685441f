----------------------------- MODULE SessionProofs -----------------------------
(***************************************************************************)
(* Theorems about TelegramSession, for any number of requests, watchers,   *)
(* tasks and clients: the types, who holds the lock, what is_active tells  *)
(* the scheduler, and what a login that ended leaves behind.               *)
(***************************************************************************)
EXTENDS TelegramSession, TLAPS

-----------------------------------------------------------------------------
(* Types.                                                                  *)

LEMMA DropType ==
  ASSUME NEW C \in [Clients -> Links], NEW c
  PROVE  /\ Drop(C, c) \in [Clients -> Links]
         /\ Disconnect(C, c) \in [Clients -> Links]
  BY DEF Drop, Disconnect, Links

LEMMA UnwatchedType ==
  ASSUME TypeOK, NEW a
  PROVE  Unwatched(a) \in [Actors -> Places]
  BY DEF TypeOK, Unwatched, Places

LEMMA ReturnType ==
  ASSUME TypeOK, NEW a \in Actors, NEW W \in [Actors -> Places], NEW st \in States,
         Return(a, W, st)
  PROVE  /\ state' \in States /\ pc' \in [Actors -> Places]
         /\ mine' \in [Actors -> Clients \cup {None}]
         /\ doing' \in [Actors -> Errands]
         /\ old' \in [Actors -> Tasks \cup {None}]
  BY DEF TypeOK, Return, Places, Errands

LEMMA WaitType ==
  ASSUME TypeOK, NEW a \in Actors, NEW w \in Places, NEW c \in Clients \cup {None},
         NEW d \in Errands, Wait(a, w, c, d)
  PROVE  /\ pc' \in [Actors -> Places]
         /\ mine' \in [Actors -> Clients \cup {None}]
         /\ doing' \in [Actors -> Errands]
         /\ old' \in [Actors -> Tasks \cup {None}]
  BY DEF TypeOK, Wait

LEMMA StopTaskType ==
  ASSUME TypeOK, NEW C \in [Clients -> Links], NEW L \in Tasks \cup {Login, Poll, None},
         StopTask(C, L)
  PROVE  /\ lock' \in Tasks \cup {Login, Poll, None}
         /\ conn' \in [Clients -> Links]
         /\ task' \in Tasks /\ lclient' \in Clients \cup {None} /\ active' \in BOOLEAN
         /\ tpc' \in [Tasks -> TaskPlaces]
         /\ tclient' \in [Tasks -> Clients \cup {None}]
<1>1. Drop(C, tclient[task]) \in [Clients -> Links]
  BY DropType
<1>2. Cancelled(tpc[task]) \in TaskPlaces
  BY DEF Cancelled, TaskPlaces
<1>3. /\ active' \in BOOLEAN /\ task' \in Tasks /\ lclient' \in Clients \cup {None}
  BY DEF TypeOK, StopTask
<1>4. CASE Live(task)
  <2>1. tpc' = [tpc EXCEPT ![task] = Cancelled(tpc[task])]
    BY <1>4 DEF StopTask
  <2>2. tpc' \in [Tasks -> TaskPlaces]
    BY <1>2, <2>1 DEF TypeOK
  <2>3. tclient' \in [Tasks -> Clients \cup {None}]
    BY <1>4 DEF TypeOK, StopTask
  <2>4. conn' \in [Clients -> Links]
    BY <1>1, <1>4 DEF StopTask
  <2>5. lock' \in Tasks \cup {Login, Poll, None}
    BY <1>4 DEF StopTask
  <2> QED
    BY <1>3, <2>2, <2>3, <2>4, <2>5
<1>5. CASE ~Live(task)
  BY <1>3, <1>5 DEF TypeOK, StopTask
<1> QED
  BY <1>4, <1>5

LEMMA StartTaskType ==
  ASSUME TypeOK, StartTask
  PROVE  task' \in Tasks /\ tpc' \in [Tasks -> TaskPlaces]
  BY DEF TypeOK, StartTask, FreshTasks, TaskPlaces

LEMMA GiveBackType ==
  ASSUME TypeOK, NEW a \in Actors, NEW W \in [Actors -> Places],
         NEW C \in [Clients -> Links], NEW st \in States, NEW d \in Errands,
         GiveBack(a, W, C, st, d), stored' \in BOOLEAN, UNCHANGED poll
  PROVE  TypeOK'
<1> DEFINE L == IF acquired THEN None ELSE lock
<1>1. L \in Tasks \cup {Login, Poll, None}
  BY DEF TypeOK
<1>2. /\ client' \in Clients \cup {None} /\ qrTask' \in Watchers \cup {None}
      /\ acquired' \in BOOLEAN
      /\ ppc' \in {"idle", "lock", "connect", "read"} /\ pclient' \in Clients \cup {None}
  BY DEF GiveBack, TypeOK, poll
<1>3. CASE Live(task)
  <2>1. StopTask(C, L)
    BY <1>3 DEF GiveBack
  <2>2. /\ state' \in States /\ pc' \in [Actors -> Places]
        /\ mine' \in [Actors -> Clients \cup {None}]
        /\ doing' \in [Actors -> Errands]
        /\ old' \in [Actors -> Tasks \cup {None}]
    BY <1>3 DEF GiveBack, TypeOK, Places
  <2> QED
    BY <1>1, <1>2, <2>1, <2>2, StopTaskType DEF TypeOK
<1>4. CASE ~Live(task)
  <2>1. /\ StartTask /\ conn' = C /\ lock' = L
        /\ UNCHANGED <<lclient, active, tclient>>
        /\ Return(a, W, IF d = "bot" THEN "error" ELSE st)
    BY <1>4 DEF GiveBack
  <2>2. (IF d = "bot" THEN "error" ELSE st) \in States
    BY DEF States
  <2>3. /\ state' \in States /\ pc' \in [Actors -> Places]
        /\ mine' \in [Actors -> Clients \cup {None}]
        /\ doing' \in [Actors -> Errands]
        /\ old' \in [Actors -> Tasks \cup {None}]
    BY <2>1, <2>2, ReturnType
  <2> QED
    BY <1>1, <1>2, <2>1, <2>3, StartTaskType DEF TypeOK
<1> QED
  BY <1>3, <1>4

LEMMA ResetType ==
  ASSUME TypeOK, NEW a \in Actors, NEW C \in [Clients -> Links], NEW st \in States,
         NEW d \in Errands, Reset(a, C, st, d), stored' \in BOOLEAN, UNCHANGED poll
  PROVE  TypeOK'
<1>1. Unwatched(a) \in [Actors -> Places]
  BY UnwatchedType
<1>2. Drop(C, client) \in [Clients -> Links]
  BY DropType
<1>3. CASE client # None /\ C[client] = "up"
  BY <1>1, <1>2, <1>3 DEF Reset, TypeOK, Places, listener, poll
<1>4. CASE ~(client # None /\ C[client] = "up")
  BY <1>1, <1>4, GiveBackType DEF Reset
<1> QED
  BY <1>3, <1>4

LEMMA FailType ==
  ASSUME TypeOK, NEW a \in Actors, Fail(a), stored' \in BOOLEAN, UNCHANGED poll
  PROVE  TypeOK'
<1>1. /\ conn \in [Clients -> Links] /\ doing[a] \in Errands /\ "error" \in States
  BY DEF TypeOK, States
<1> QED
  BY <1>1, ResetType DEF Fail

LEMMA EnsureClientType ==
  ASSUME TypeOK, NEW a \in Actors, NEW d \in Errands, EnsureClient(a, d),
         UNCHANGED <<stored, login, poll>>
  PROVE  TypeOK'
<1>1. CASE client = None
  <2>1. StopTask(conn, lock) /\ conn \in [Clients -> Links]
        /\ lock \in Tasks \cup {Login, Poll, None}
    BY <1>1 DEF EnsureClient, TypeOK
  <2>2. /\ pc' \in [Actors -> Places] /\ mine' \in [Actors -> Clients \cup {None}]
        /\ doing' \in [Actors -> Errands] /\ old' \in [Actors -> Tasks \cup {None}]
    BY <1>1 DEF EnsureClient, TypeOK, Places
  <2> QED
    BY <2>1, <2>2, StopTaskType DEF TypeOK, login, poll
<1>2. CASE client # None
  <2>1. Wait(a, "ask", client, d) /\ client \in Clients \cup {None} /\ "ask" \in Places
        /\ UNCHANGED <<lock, conn, listener>>
    BY <1>2 DEF EnsureClient, TypeOK, Places
  <2> QED
    BY <2>1, WaitType DEF TypeOK, login, poll, listener
<1> QED
  BY <1>1, <1>2

LEMMA BuildType ==
  ASSUME TypeOK, NEW a \in Actors, NEW C \in [Clients -> Links], Build(a, C)
  PROVE  /\ client' \in Clients \cup {None} /\ conn' \in [Clients -> Links]
         /\ pc' \in [Actors -> Places] /\ mine' \in [Actors -> Clients \cup {None}]
         /\ doing' \in [Actors -> Errands] /\ old' \in [Actors -> Tasks \cup {None}]
  BY DEF TypeOK, Build, FreshClients, Places, Links

\* A request, a step of an actor, a step of the listener's task, a step of a poll: each
\* keeps the types.
LEMMA RouteType ==
  ASSUME SessionAssumption, TypeOK, NEW r \in Requests, Route(r)
  PROVE  TypeOK'
<1>1. /\ r \in Actors /\ "idle" \in States
      /\ {"none", "qr", "phone", "code", "password"} \subseteq Errands
      /\ conn \in [Clients -> Links]
  BY DEF Actors, States, Errands, TypeOK
<1>2. CASE StartQr(r)
  BY <1>1, <1>2, EnsureClientType DEF StartQr
<1>3. CASE StartPhone(r)
  BY <1>1, <1>3, EnsureClientType DEF StartPhone
<1>4. ASSUME NEW d \in Errands, NEW st, Submit(r, d, st)
      PROVE  TypeOK'
  <2>1. Wait(r, "sign", client, d) /\ client \in Clients \cup {None} /\ "sign" \in Places
    BY <1>4 DEF Submit, TypeOK, Places
  <2> QED
    BY <1>1, <1>4, <2>1, WaitType DEF Submit, TypeOK, login, listener, poll
<1>5. CASE SubmitCode(r)
  BY <1>1, <1>4, <1>5 DEF SubmitCode
<1>6. CASE SubmitPassword(r)
  BY <1>1, <1>4, <1>6 DEF SubmitPassword
<1>7. CASE Cancel(r)
  <2>1. stored' \in BOOLEAN
    BY <1>7 DEF Cancel, TypeOK
  <2> QED
    BY <1>1, <1>7, <2>1, ResetType DEF Cancel
<1>8. CASE Logout(r)
  BY <1>1, <1>8, ResetType DEF Logout
<1> QED
  BY <1>2, <1>3, <1>5, <1>6, <1>7, <1>8 DEF Route

LEMMA ContinueType ==
  ASSUME SessionAssumption, TypeOK, NEW a \in Actors, Continue(a)
  PROVE  TypeOK'
<1>1. /\ client \in Clients \cup {None} /\ mine[a] \in Clients \cup {None}
      /\ conn \in [Clients -> Links] /\ doing[a] \in Errands /\ state \in States
      /\ {"done", "error", "code_sent", "password_needed", "qr_pending"} \subseteq States
      /\ {"ask", "me", "sign", "lock", "idle", "wait"} \subseteq Places
      /\ {"none", "qr", "bot"} \subseteq Errands
  BY DEF TypeOK, States, Places, Errands
<1>2. /\ Drop(conn, mine[a]) \in [Clients -> Links]
      /\ Disconnect(conn, lclient) \in [Clients -> Links]
  BY <1>1, DropType
<1>3. ASSUME NEW w \in {"ask", "me"}, NEW c \in Clients \cup {None}, Wait(a, w, c, doing[a]),
             conn' \in [Clients -> Links], UNCHANGED <<lock, stored, login, listener, poll>>
      PROVE  TypeOK'
  <2>1. w \in Places
    BY DEF Places
  <2>2. /\ pc' \in [Actors -> Places] /\ mine' \in [Actors -> Clients \cup {None}]
        /\ doing' \in [Actors -> Errands] /\ old' \in [Actors -> Tasks \cup {None}]
    BY <1>1, <1>3, <2>1, WaitType
  <2> QED
    BY <1>3, <2>2 DEF TypeOK, login, listener, poll
<1>4. ASSUME NEW st \in States, Return(a, pc, st),
             UNCHANGED <<lock, stored, conn, client, qrTask, acquired, listener, poll>>
      PROVE  TypeOK'
  <2>1. pc \in [Actors -> Places]
    BY DEF TypeOK
  <2>2. /\ state' \in States /\ pc' \in [Actors -> Places]
        /\ mine' \in [Actors -> Clients \cup {None}]
        /\ doing' \in [Actors -> Errands] /\ old' \in [Actors -> Tasks \cup {None}]
    BY <1>4, <2>1, ReturnType
  <2> QED
    BY <1>4, <2>2 DEF TypeOK, listener, poll
<1>5. ASSUME Fail(a), UNCHANGED <<stored, poll>>
      PROVE  TypeOK'
  <2>1. stored' \in BOOLEAN
    BY <1>5 DEF TypeOK
  <2> QED
    BY <1>5, <2>1, FailType
<1>6. CASE Stopped(a)
  <2> DEFINE C == Disconnect(conn, lclient)
  <2>1. CASE acquired
    <3>1. Build(a, C) /\ UNCHANGED <<lock, stored, state, qrTask, acquired, listener, poll>>
      BY <1>6, <2>1 DEF Stopped
    <3>2. /\ client' \in Clients \cup {None} /\ conn' \in [Clients -> Links]
          /\ pc' \in [Actors -> Places] /\ mine' \in [Actors -> Clients \cup {None}]
          /\ doing' \in [Actors -> Errands] /\ old' \in [Actors -> Tasks \cup {None}]
      BY <1>2, <3>1, BuildType
    <3> QED
      BY <3>1, <3>2 DEF TypeOK, listener, poll
  <2>2. CASE ~acquired
    BY <1>2, <1>6, <2>2 DEF Stopped, TypeOK, Places, listener, poll
  <2> QED
    BY <2>1, <2>2
<1>7. CASE Acquire(a)
  <2>1. Build(a, conn) /\ lock' = Login /\ acquired' = TRUE
        /\ UNCHANGED <<stored, state, qrTask, listener, poll>>
    BY <1>7 DEF Acquire
  <2>2. /\ client' \in Clients \cup {None} /\ conn' \in [Clients -> Links]
        /\ pc' \in [Actors -> Places] /\ mine' \in [Actors -> Clients \cup {None}]
        /\ doing' \in [Actors -> Errands] /\ old' \in [Actors -> Tasks \cup {None}]
    BY <1>1, <2>1, BuildType
  <2> QED
    BY <2>1, <2>2 DEF TypeOK, listener, poll
<1>8. CASE AcquireTimesOut(a)
  BY <1>5, <1>8 DEF AcquireTimesOut
<1>9. CASE Connected(a)
  <2>1. conn' \in [Clients -> Links]
    BY <1>1, <1>9 DEF Connected, Links
  <2> QED
    BY <1>1, <1>3, <1>9, <2>1 DEF Connected
<1>10. CASE ConnectFails(a)
  <2>1. stored' \in BOOLEAN
    BY <1>10 DEF ConnectFails, TypeOK
  <2> QED
    BY <1>1, <1>2, <1>10, <2>1, ResetType DEF ConnectFails
<1>11. CASE AlreadyAuthorized(a)
  BY <1>1, <1>3, <1>11 DEF AlreadyAuthorized
<1>12. CASE QrShown(a)
  BY <1>1, <1>12 DEF QrShown, TypeOK, Actors, listener, poll
<1>13. CASE CodeSent(a)
  BY <1>1, <1>4, <1>13 DEF CodeSent
<1>14. CASE AskFails(a)
  BY <1>5, <1>14 DEF AskFails
<1>15. CASE SignedIn(a)
  BY <1>1, <1>3, <1>15 DEF SignedIn
<1>16. CASE SignInRefused(a)
  BY <1>1, <1>4, <1>16 DEF SignInRefused
<1>17. CASE SignInFails(a)
  BY <1>5, <1>17 DEF SignInFails
<1>18. CASE Finish(a)
  <2>1. CASE stored' = TRUE /\ Reset(a, conn, "done", doing[a])
    BY <1>1, <1>18, <2>1, ResetType DEF Finish
  <2>2. CASE stored' = FALSE /\ Reset(a, conn, state, "bot")
    BY <1>1, <1>18, <2>2, ResetType DEF Finish
  <2> QED
    BY <1>18, <2>1, <2>2 DEF Finish
<1>19. CASE FinishFails(a)
  BY <1>1, <1>4, <1>5, <1>19 DEF FinishFails
<1>20. CASE Disconnected(a)
  <2>1. pc \in [Actors -> Places] /\ stored' \in BOOLEAN
    BY <1>20 DEF Disconnected, TypeOK
  <2> QED
    BY <1>1, <1>2, <1>20, <2>1, GiveBackType DEF Disconnected
<1>21. CASE Restarted(a)
  <2>1. (IF doing[a] = "bot" THEN "error" ELSE state) \in States /\ pc \in [Actors -> Places]
    BY <1>1 DEF TypeOK
  <2>2. /\ state' \in States /\ pc' \in [Actors -> Places]
        /\ mine' \in [Actors -> Clients \cup {None}]
        /\ doing' \in [Actors -> Errands] /\ old' \in [Actors -> Tasks \cup {None}]
    BY <1>21, <2>1, ReturnType DEF Restarted
  <2>3. task' \in Tasks /\ tpc' \in [Tasks -> TaskPlaces]
    BY <1>21, StartTaskType DEF Restarted
  <2> QED
    BY <1>2, <1>21, <2>2, <2>3 DEF Restarted, TypeOK, poll
<1> QED
  BY <1>6, <1>7, <1>8, <1>9, <1>10, <1>11, <1>12, <1>13, <1>14, <1>15, <1>16, <1>17, <1>18,
     <1>19, <1>20, <1>21 DEF Continue

LEMMA WatchType ==
  ASSUME SessionAssumption, TypeOK, NEW w \in Watchers, Watch(w)
  PROVE  TypeOK'
<1>1. /\ w \in Actors /\ client \in Clients \cup {None} /\ doing[w] \in Errands
      /\ state \in States /\ "password_needed" \in States /\ "me" \in Places
      /\ pc \in [Actors -> Places]
  BY DEF Actors, TypeOK, States, Places
<1>2. CASE Scanned(w)
  <2>1. /\ pc' \in [Actors -> Places] /\ mine' \in [Actors -> Clients \cup {None}]
        /\ doing' \in [Actors -> Errands] /\ old' \in [Actors -> Tasks \cup {None}]
    BY <1>1, <1>2, WaitType DEF Scanned
  <2> QED
    BY <1>2, <2>1 DEF Scanned, TypeOK, login, listener, poll
<1>3. CASE WatchEnds(w)
  <2>1. /\ state' \in States /\ pc' \in [Actors -> Places]
        /\ mine' \in [Actors -> Clients \cup {None}]
        /\ doing' \in [Actors -> Errands] /\ old' \in [Actors -> Tasks \cup {None}]
    BY <1>1, <1>3, ReturnType DEF WatchEnds
  <2> QED
    BY <1>3, <2>1 DEF WatchEnds, TypeOK, listener, poll
<1>4. CASE WatchFails(w)
  <2>1. stored' \in BOOLEAN
    BY <1>4 DEF WatchFails, TypeOK
  <2> QED
    BY <1>1, <1>4, <2>1, FailType DEF WatchFails
<1> QED
  BY <1>2, <1>3, <1>4 DEF Watch

LEMMA ListenType ==
  ASSUME SessionAssumption, TypeOK, NEW t \in Tasks, Listen(t)
  PROVE  TypeOK'
<1>1. Drop(conn, tclient[t]) \in [Clients -> Links] /\ "opening" \in Links /\ "up" \in Links
      /\ "down" \in Links
  BY DropType DEF TypeOK, Links
<1>2. ASSUME NEW place \in TaskPlaces, NEW c \in Clients \cup {None}, Place(t, place, c)
      PROVE  /\ task' \in Tasks /\ tpc' \in [Tasks -> TaskPlaces]
             /\ tclient' \in [Tasks -> Clients \cup {None}]
  BY <1>2 DEF Place, TypeOK
<1>3. {"connect", "catchup", "listen", "closing", "pause", "done", "lock"} \subseteq TaskPlaces
      /\ tclient[t] \in Clients \cup {None}
  BY DEF TaskPlaces, TypeOK
<1>4. CASE TaskAcquires(t)
  <2>1. PICK c \in FreshClients : /\ Place(t, "connect", c) /\ lclient' = c
                                  /\ conn' = [conn EXCEPT ![c] = "opening"]
    BY <1>4 DEF TaskAcquires
  <2>2. c \in Clients
    BY DEF FreshClients
  <2> QED
    BY <1>1, <1>2, <1>3, <1>4, <2>1, <2>2 DEF TaskAcquires, TypeOK, login, actors, poll
<1>5. CASE TaskConnects(t)
  BY <1>1, <1>2, <1>3, <1>5 DEF TaskConnects, TypeOK, login, actors, poll
<1>6. CASE TaskBreaks(t)
  <2>1. conn' \in [Clients -> Links]
    BY <1>1, <1>6 DEF TaskBreaks, TypeOK
  <2> QED
    BY <1>2, <1>3, <1>6, <2>1 DEF TaskBreaks, TypeOK, login, actors, poll
<1>7. CASE TaskListens(t)
  BY <1>2, <1>3, <1>7 DEF TaskListens, TypeOK, login, actors, poll
<1>8. CASE TaskDisconnected(t)
  BY <1>1, <1>2, <1>3, <1>8 DEF TaskDisconnected, TypeOK, login, actors, poll
<1>9. CASE TaskLeaves(t)
  BY <1>2, <1>3, <1>9 DEF TaskLeaves, TypeOK, login, actors, poll
<1>10. CASE TaskRetries(t)
  BY <1>2, <1>3, <1>10 DEF TaskRetries, TypeOK, login, actors, poll
<1> QED
  BY <1>4, <1>5, <1>6, <1>7, <1>8, <1>9, <1>10 DEF Listen

LEMMA PollType ==
  ASSUME SessionAssumption, TypeOK, PollStarts \/ PollAcquires \/ PollConnects \/ PollEnds
  PROVE  TypeOK'
<1>1. Drop(conn, pclient) \in [Clients -> Links]
  BY DropType DEF TypeOK
<1>2. CASE PollStarts
  BY <1>2 DEF PollStarts, Others, TypeOK, login, actors, listener
<1>3. CASE PollAcquires
  BY <1>3 DEF PollAcquires, Others, FreshClients, Links, TypeOK, login, actors, listener
<1>4. CASE PollConnects
  BY <1>4 DEF PollConnects, Others, Links, TypeOK, login, actors, listener
<1>5. CASE PollEnds
  BY <1>1, <1>5 DEF PollEnds, Others, TypeOK, login, actors, listener
<1> QED
  BY <1>2, <1>3, <1>4, <1>5

\* The lock, the clients, the login, the actors and the listener keep their types in every
\* behaviour (TelegramLoginService and TelegramEventListenerService together).
THEOREM SessionTypeCorrect == Spec => []TypeOK
<1>1. Init => TypeOK
  <2> SUFFICES ASSUME Init PROVE TypeOK
    OBVIOUS
  <2>1. tpc \in [Tasks -> TaskPlaces] /\ tclient \in [Tasks -> Clients \cup {None}]
    BY DEF Init, TaskPlaces
  <2>2. /\ pc \in [Actors -> Places] /\ mine \in [Actors -> Clients \cup {None}]
        /\ doing \in [Actors -> Errands] /\ old \in [Actors -> Tasks \cup {None}]
    BY DEF Init, Places, Errands
  <2>3. conn \in [Clients -> Links] /\ state \in States
    BY DEF Init, Links, States
  <2> QED
    BY <2>1, <2>2, <2>3 DEF Init, TypeOK
<1>2. TypeOK /\ [Next]_vars => TypeOK'
  <2> SUFFICES ASSUME TypeOK, [Next]_vars
               PROVE  TypeOK'
    OBVIOUS
  <2>1. ASSUME NEW r \in Requests, Route(r)
        PROVE  TypeOK'
    BY <2>1, RouteType, SessionAssumption
  <2>2. ASSUME NEW a \in Actors, Continue(a)
        PROVE  TypeOK'
    BY <2>2, ContinueType, SessionAssumption
  <2>3. ASSUME NEW w \in Watchers, Watch(w)
        PROVE  TypeOK'
    BY <2>3, WatchType, SessionAssumption
  <2>4. ASSUME NEW t \in Tasks, Listen(t)
        PROVE  TypeOK'
    BY <2>4, ListenType, SessionAssumption
  <2>5. CASE PollStarts \/ PollAcquires \/ PollConnects \/ PollEnds
    BY <2>5, PollType, SessionAssumption
  <2>6. CASE UNCHANGED vars
    BY <2>6 DEF vars, login, actors, listener, poll, TypeOK
  <2> QED
    BY <2>1, <2>2, <2>3, <2>4, <2>5, <2>6 DEF Next
<1> QED
  BY <1>1, <1>2, PTL DEF Spec

-----------------------------------------------------------------------------
(* The lock.  What counts is who waits where; the login's part of it is     *)
(* _lock_acquired.                                                          *)

Holds(t) == tpc[t] \in {"connect", "catchup", "listen", "closing", "ending"}

\* stop() leaves the lock with its owner, whether or not _reset has just given it back.
LEMMA StopTaskOwned ==
  ASSUME SessionAssumption, TypeOK, LockIsOwned, NEW C, NEW L, StopTask(C, L), ppc' = ppc,
         \/ L = lock /\ acquired' = acquired
         \/ L = (IF acquired THEN None ELSE lock) /\ acquired' = FALSE
  PROVE  LockIsOwned'
<1>1. /\ acquired' <=> L = Login
      /\ \A t \in Tasks : Holds(t) <=> L = t
      /\ ppc \in {"connect", "read"} <=> L = Poll
  BY DEF SessionAssumption, LockIsOwned, Holds
<1>2. CASE ~Live(task)
  BY <1>1, <1>2 DEF StopTask, LockIsOwned, Holds
<1>3. CASE Live(task) /\ tpc[task] = "listen"
  <2>1. tpc' = [tpc EXCEPT ![task] = "ending"] /\ lock' = L
    BY <1>3 DEF StopTask, Cancelled
  <2> QED
    BY <1>1, <1>3, <2>1 DEF LockIsOwned, Holds, TypeOK
<1>4. CASE Live(task) /\ tpc[task] # "listen"
  <2>1. tpc' = [tpc EXCEPT ![task] = "done"] /\ lock' = IF L = task THEN None ELSE L
    BY <1>4 DEF StopTask, Cancelled
  <2>2. task \in Tasks /\ tpc \in [Tasks -> TaskPlaces]
    BY DEF TypeOK
  <2>3. \A t \in Tasks : tpc'[t] = IF t = task THEN "done" ELSE tpc[t]
    BY <2>1, <2>2
  <2>4. \A t \in Tasks : Holds(t)' <=> lock' = t
    BY <1>1, <2>1, <2>2, <2>3 DEF Holds, SessionAssumption
  <2>5. acquired' <=> lock' = Login
    BY <1>1, <2>1, <2>2 DEF SessionAssumption
  <2>6. ppc' \in {"connect", "read"} <=> lock' = Poll
    BY <1>1, <2>1, <2>2 DEF SessionAssumption
  <2> QED
    BY <2>4, <2>5, <2>6 DEF LockIsOwned, Holds
<1> QED
  BY <1>2, <1>3, <1>4

\* start() gives the lock to nobody.
LEMMA StartTaskOwned ==
  ASSUME SessionAssumption, TypeOK, LockIsOwned, StartTask, ppc' = ppc,
         \/ lock' = lock /\ acquired' = acquired
         \/ lock' = (IF acquired THEN None ELSE lock) /\ acquired' = FALSE
  PROVE  LockIsOwned'
<1>1. /\ acquired' <=> lock' = Login
      /\ \A t \in Tasks : Holds(t) <=> lock' = t
      /\ ppc' \in {"connect", "read"} <=> lock' = Poll
  BY DEF SessionAssumption, LockIsOwned, Holds
<1>2. PICK u \in FreshTasks : tpc' = [tpc EXCEPT ![u] = "lock"]
  BY DEF StartTask
<1>3. u \in Tasks /\ tpc[u] = "done" /\ tpc \in [Tasks -> TaskPlaces]
  BY DEF FreshTasks, Live, TypeOK
<1>4. \A t \in Tasks : Holds(t)' <=> lock' = t
  BY <1>1, <1>2, <1>3 DEF Holds
<1> QED
  BY <1>1, <1>4 DEF LockIsOwned, Holds

LEMMA GiveBackOwned ==
  ASSUME SessionAssumption, TypeOK, LockIsOwned, NEW a, NEW W, NEW C, NEW st, NEW d,
         GiveBack(a, W, C, st, d), ppc' = ppc
  PROVE  LockIsOwned'
<1>1. CASE Live(task)
  BY <1>1, StopTaskOwned DEF GiveBack
<1>2. CASE ~Live(task)
  BY <1>2, StartTaskOwned DEF GiveBack
<1> QED
  BY <1>1, <1>2

LEMMA ResetOwned ==
  ASSUME SessionAssumption, TypeOK, LockIsOwned, NEW a, NEW C, NEW st, NEW d,
         Reset(a, C, st, d), ppc' = ppc
  PROVE  LockIsOwned'
<1>1. CASE client # None /\ C[client] = "up"
  BY <1>1 DEF Reset, LockIsOwned, listener
<1>2. CASE ~(client # None /\ C[client] = "up")
  BY <1>2, GiveBackOwned DEF Reset
<1> QED
  BY <1>1, <1>2

LEMMA EnsureClientOwned ==
  ASSUME SessionAssumption, TypeOK, LockIsOwned, NEW a, NEW d, EnsureClient(a, d),
         UNCHANGED <<stored, login, poll>>
  PROVE  LockIsOwned'
<1>1. CASE client = None
  BY <1>1, StopTaskOwned DEF EnsureClient, login, poll
<1>2. CASE client # None
  BY <1>2 DEF EnsureClient, LockIsOwned, login, listener, poll
<1> QED
  BY <1>1, <1>2

\* Steps of the login that leave the lock, _lock_acquired, the tasks and the poll alone.
Untouched == UNCHANGED <<lock, acquired, tpc, active, ppc>>

LEMMA RouteOwned ==
  ASSUME SessionAssumption, TypeOK, LockIsOwned, NEW r \in Requests, Route(r)
  PROVE  LockIsOwned'
<1>1. CASE StartQr(r)
  BY <1>1, EnsureClientOwned DEF StartQr
<1>2. CASE StartPhone(r)
  BY <1>2, EnsureClientOwned DEF StartPhone
<1>3. CASE SubmitCode(r) \/ SubmitPassword(r)
  BY <1>3 DEF SubmitCode, SubmitPassword, Submit, LockIsOwned, login, listener, poll
<1>4. CASE Cancel(r)
  BY <1>4, ResetOwned DEF Cancel, poll
<1>5. CASE Logout(r)
  BY <1>5, ResetOwned DEF Logout, poll
<1> QED
  BY <1>1, <1>2, <1>3, <1>4, <1>5 DEF Route

LEMMA LoginUntouched ==
  ASSUME NEW a \in Actors,
         \/ Stopped(a) \/ Connected(a) \/ AlreadyAuthorized(a) \/ QrShown(a) \/ CodeSent(a)
         \/ SignedIn(a) \/ SignInRefused(a) \/ Scanned(a) \/ WatchEnds(a)
  PROVE  Untouched
<1>1. CASE Stopped(a) \/ Connected(a) \/ AlreadyAuthorized(a)
  BY <1>1 DEF Stopped, Connected, AlreadyAuthorized, Untouched, login, listener, poll
<1>2. CASE QrShown(a) \/ CodeSent(a) \/ SignedIn(a)
  BY <1>2 DEF QrShown, CodeSent, SignedIn, Untouched, login, listener, poll
<1>3. CASE SignInRefused(a) \/ Scanned(a) \/ WatchEnds(a)
  BY <1>3 DEF SignInRefused, Scanned, WatchEnds, Untouched, login, listener, poll
<1> QED
  BY <1>1, <1>2, <1>3

LEMMA ContinueOwned ==
  ASSUME SessionAssumption, TypeOK, LockIsOwned, NEW a \in Actors, Continue(a)
  PROVE  LockIsOwned'
<1>1. CASE Untouched
  BY <1>1 DEF Untouched, LockIsOwned
<1>2. CASE Acquire(a)
  BY <1>2 DEF Acquire, LockIsOwned, SessionAssumption, listener, poll
<1>3. CASE AcquireTimesOut(a) \/ AskFails(a) \/ SignInFails(a)
  BY <1>3, ResetOwned DEF AcquireTimesOut, AskFails, SignInFails, Fail, poll
<1>4. CASE ConnectFails(a)
  BY <1>4, ResetOwned DEF ConnectFails, poll
<1>5. CASE Finish(a)
  BY <1>5, ResetOwned DEF Finish, poll
<1>6. CASE FinishFails(a)
  <2>1. CASE doing[a] = "password"
    BY <1>6, <2>1 DEF FinishFails, LockIsOwned, listener, poll
  <2>2. CASE doing[a] # "password"
    BY <1>6, <2>2, ResetOwned DEF FinishFails, Fail, poll
  <2> QED
    BY <2>1, <2>2
<1>7. CASE Disconnected(a)
  BY <1>7, GiveBackOwned DEF Disconnected, poll
<1>8. CASE Restarted(a)
  BY <1>8, StartTaskOwned DEF Restarted, poll
<1> QED
  BY <1>1, <1>2, <1>3, <1>4, <1>5, <1>6, <1>7, <1>8, LoginUntouched DEF Continue

LEMMA WatchOwned ==
  ASSUME SessionAssumption, TypeOK, LockIsOwned, NEW w \in Watchers, Watch(w)
  PROVE  LockIsOwned'
<1>1. CASE Scanned(w) \/ WatchEnds(w)
  BY <1>1, LoginUntouched DEF Untouched, LockIsOwned, Actors
<1>2. CASE WatchFails(w)
  BY <1>2, ResetOwned DEF WatchFails, Fail, poll
<1> QED
  BY <1>1, <1>2 DEF Watch

\* A task of the listener that holds the lock is the only one; one that takes it found it free.
LEMMA ListenOwned ==
  ASSUME SessionAssumption, TypeOK, LockIsOwned, NEW t \in Tasks, Listen(t)
  PROVE  LockIsOwned'
<1>1. tpc \in [Tasks -> TaskPlaces] /\ Login \notin Tasks /\ Poll \notin Tasks /\ None \notin Tasks
      /\ None # Login /\ None # Poll
  BY DEF SessionAssumption, TypeOK
<1>2. ASSUME NEW place, NEW c, Place(t, place, c)
      PROVE  \A u \in Tasks : tpc'[u] = IF u = t THEN place ELSE tpc[u]
  BY <1>1, <1>2 DEF Place
<1>3. CASE TaskAcquires(t)
  <2>1. PICK c \in FreshClients : Place(t, "connect", c)
    BY <1>3 DEF TaskAcquires
  <2> QED
    BY <1>1, <1>2, <1>3, <2>1 DEF TaskAcquires, LockIsOwned, login, poll
<1>4. CASE TaskConnects(t)
  BY <1>1, <1>2, <1>4 DEF TaskConnects, LockIsOwned, login, poll
<1>5. CASE TaskBreaks(t)
  <2>1. lock = t
    BY <1>5 DEF TaskBreaks, LockIsOwned
  <2> QED
    BY <1>1, <1>2, <1>5, <2>1 DEF TaskBreaks, LockIsOwned, login, poll
<1>6. CASE TaskListens(t)
  BY <1>1, <1>2, <1>6 DEF TaskListens, LockIsOwned, login, poll
<1>7. CASE TaskDisconnected(t)
  BY <1>1, <1>2, <1>7 DEF TaskDisconnected, LockIsOwned, login, poll
<1>8. CASE TaskLeaves(t)
  <2>1. lock = t
    BY <1>8 DEF TaskLeaves, LockIsOwned
  <2> QED
    BY <1>1, <1>2, <1>8, <2>1 DEF TaskLeaves, LockIsOwned, login, poll
<1>9. CASE TaskRetries(t)
  BY <1>1, <1>2, <1>9 DEF TaskRetries, LockIsOwned, login, poll
<1> QED
  BY <1>3, <1>4, <1>5, <1>6, <1>7, <1>8, <1>9 DEF Listen

LEMMA PollOwned ==
  ASSUME SessionAssumption, TypeOK, LockIsOwned,
         PollStarts \/ PollAcquires \/ PollConnects \/ PollEnds
  PROVE  LockIsOwned'
<1>1. None \notin Tasks /\ None # Login /\ None # Poll /\ Login # Poll /\ Poll \notin Tasks
  BY DEF SessionAssumption
<1>2. CASE PollStarts
  BY <1>2 DEF PollStarts, Others, LockIsOwned, login, listener
<1>3. CASE PollAcquires
  BY <1>1, <1>3 DEF PollAcquires, Others, LockIsOwned, login, listener
<1>4. CASE PollConnects
  BY <1>4 DEF PollConnects, Others, LockIsOwned, login, listener
<1>5. CASE PollEnds
  BY <1>1, <1>5 DEF PollEnds, Others, LockIsOwned, TypeOK, login, listener
<1> QED
  BY <1>2, <1>3, <1>4, <1>5

\* Whoever holds _TELETHON_LOCK is at a place from which it releases it, and nobody else
\* thinks it holds the lock: not a cancelled task, not a login that was given up.
THEOREM LockHasOneOwner == Spec => []LockIsOwned
<1>1. Init => LockIsOwned
  BY SessionAssumption DEF SessionAssumption, Init, LockIsOwned
<1>2. TypeOK /\ LockIsOwned /\ [Next]_vars => LockIsOwned'
  <2> SUFFICES ASSUME TypeOK, LockIsOwned, [Next]_vars
               PROVE  LockIsOwned'
    OBVIOUS
  <2>1. ASSUME NEW r \in Requests, Route(r)
        PROVE  LockIsOwned'
    BY <2>1, RouteOwned, SessionAssumption
  <2>2. ASSUME NEW a \in Actors, Continue(a)
        PROVE  LockIsOwned'
    BY <2>2, ContinueOwned, SessionAssumption
  <2>3. ASSUME NEW w \in Watchers, Watch(w)
        PROVE  LockIsOwned'
    BY <2>3, WatchOwned, SessionAssumption
  <2>4. ASSUME NEW t \in Tasks, Listen(t)
        PROVE  LockIsOwned'
    BY <2>4, ListenOwned, SessionAssumption
  <2>5. CASE PollStarts \/ PollAcquires \/ PollConnects \/ PollEnds
    BY <2>5, PollOwned, SessionAssumption
  <2>6. CASE UNCHANGED vars
    BY <2>6 DEF vars, login, listener, poll, LockIsOwned
  <2> QED
    BY <2>1, <2>2, <2>3, <2>4, <2>5, <2>6 DEF Next
<1> QED
  BY <1>1, <1>2, SessionTypeCorrect, PTL DEF Spec

-----------------------------------------------------------------------------
(* is_active.  Every way out of catching up and listening takes it back.    *)

LEMMA ResetInactive ==
  ASSUME TypeOK, ActiveListens, NEW a, NEW W, NEW C, NEW st, NEW d,
         Reset(a, C, st, d) \/ GiveBack(a, W, C, st, d)
  PROVE  ActiveListens'
<1>1. CASE UNCHANGED listener
  BY <1>1 DEF listener, ActiveListens
<1>2. CASE active' = FALSE
  BY <1>2 DEF ActiveListens
<1>3. CASE StartTask /\ active' = active
  <2>1. PICK u \in FreshTasks : tpc' = [tpc EXCEPT ![u] = "lock"]
    BY <1>3 DEF StartTask
  <2>2. \A t \in Tasks : tpc[t] \in {"catchup", "listen"} => tpc'[t] = tpc[t]
    BY <2>1 DEF FreshTasks, Live, TypeOK
  <2> QED
    BY <1>3, <2>2 DEF ActiveListens
<1> QED
  BY <1>1, <1>2, <1>3 DEF Reset, GiveBack, StopTask

LEMMA ActorInactive ==
  ASSUME TypeOK, ActiveListens, NEW a \in Actors,
         (a \in Requests /\ Route(a)) \/ Continue(a) \/ (a \in Watchers /\ Watch(a))
  PROVE  ActiveListens'
<1>1. CASE Untouched \/ UNCHANGED listener
  BY <1>1 DEF Untouched, listener, ActiveListens
<1>2. CASE active' = FALSE
  BY <1>2 DEF ActiveListens
<1>3. ASSUME NEW C, NEW st, NEW d, Reset(a, C, st, d)
      PROVE  ActiveListens'
  BY <1>3, ResetInactive
<1>4. CASE Restarted(a)
  <2>1. PICK u \in FreshTasks : tpc' = [tpc EXCEPT ![u] = "lock"]
    BY <1>4 DEF Restarted, StartTask
  <2>2. \A t \in Tasks : tpc[t] \in {"catchup", "listen"} => tpc'[t] = tpc[t]
    BY <2>1 DEF FreshTasks, Live, TypeOK
  <2> QED
    BY <1>4, <2>2 DEF Restarted, ActiveListens
<1>5. CASE Disconnected(a)
  BY <1>5, ResetInactive DEF Disconnected
<1>6. CASE a \in Requests /\ Route(a)
  <2>1. CASE StartQr(a) \/ StartPhone(a)
    BY <1>1, <1>2, <2>1 DEF StartQr, StartPhone, EnsureClient, StopTask
  <2>2. CASE SubmitCode(a) \/ SubmitPassword(a)
    BY <1>1, <2>2 DEF SubmitCode, SubmitPassword, Submit
  <2>3. CASE Cancel(a) \/ Logout(a)
    BY <1>3, <2>3 DEF Cancel, Logout
  <2> QED
    BY <1>6, <2>1, <2>2, <2>3 DEF Route
<1>7. CASE AcquireTimesOut(a) \/ AskFails(a) \/ SignInFails(a) \/ WatchFails(a)
  BY <1>3, <1>7 DEF AcquireTimesOut, AskFails, SignInFails, WatchFails, Fail
<1>8. CASE ConnectFails(a) \/ Finish(a)
  BY <1>3, <1>8 DEF ConnectFails, Finish
<1>9. CASE FinishFails(a)
  BY <1>1, <1>3, <1>9 DEF FinishFails, Fail
<1>10. CASE Acquire(a)
  BY <1>1, <1>10 DEF Acquire
<1> QED
  BY <1>1, <1>4, <1>5, <1>6, <1>7, <1>8, <1>9, <1>10, LoginUntouched DEF Continue, Watch

LEMMA ListenInactive ==
  ASSUME TypeOK, ActiveListens, NEW t \in Tasks, Listen(t)
  PROVE  ActiveListens'
<1>1. ASSUME NEW place, NEW c, Place(t, place, c)
      PROVE  \A u \in Tasks : tpc'[u] = IF u = t THEN place ELSE tpc[u]
  BY <1>1 DEF Place, TypeOK
<1>2. CASE TaskAcquires(t)
  <2>1. PICK c \in FreshClients : Place(t, "connect", c)
    BY <1>2 DEF TaskAcquires
  <2> QED
    BY <1>1, <1>2, <2>1 DEF TaskAcquires, ActiveListens
<1>3. CASE TaskConnects(t) \/ TaskListens(t)
  BY <1>1, <1>3 DEF TaskConnects, TaskListens, ActiveListens
<1>4. CASE TaskBreaks(t) \/ TaskDisconnected(t)
  BY <1>4 DEF TaskBreaks, TaskDisconnected, ActiveListens
<1>5. CASE TaskLeaves(t) \/ TaskRetries(t)
  BY <1>1, <1>5 DEF TaskLeaves, TaskRetries, ActiveListens
<1> QED
  BY <1>2, <1>3, <1>4, <1>5 DEF Listen

\* The scheduler, which polls rarely while is_active is set (_should_fetch), is
\* told the truth: some task is then catching up or listening.
THEOREM ActiveIsTrue == Spec => []ActiveListens
<1>1. Init => ActiveListens
  BY DEF Init, ActiveListens
<1>2. TypeOK /\ ActiveListens /\ [Next]_vars => ActiveListens'
  <2> SUFFICES ASSUME TypeOK, ActiveListens, [Next]_vars
               PROVE  ActiveListens'
    OBVIOUS
  <2>1. ASSUME NEW r \in Requests, Route(r)
        PROVE  ActiveListens'
    BY <2>1, ActorInactive DEF Actors
  <2>2. ASSUME NEW a \in Actors, Continue(a)
        PROVE  ActiveListens'
    BY <2>2, ActorInactive
  <2>3. ASSUME NEW w \in Watchers, Watch(w)
        PROVE  ActiveListens'
    BY <2>3, ActorInactive DEF Actors
  <2>4. ASSUME NEW t \in Tasks, Listen(t)
        PROVE  ActiveListens'
    BY <2>4, ListenInactive
  <2>5. CASE PollStarts \/ PollAcquires \/ PollConnects \/ PollEnds
    BY <2>5 DEF PollStarts, PollAcquires, PollConnects, PollEnds, Others, listener, ActiveListens
  <2>6. CASE UNCHANGED vars
    BY <2>6 DEF vars, listener, ActiveListens
  <2> QED
    BY <2>1, <2>2, <2>3, <2>4, <2>5, <2>6 DEF Next
<1> QED
  BY <1>1, <1>2, SessionTypeCorrect, PTL DEF Spec

-----------------------------------------------------------------------------
(* What stop(), start() and _reset do to the tasks, the lock and the clients. *)

\* stop(): the task is done, or it listened and is going to be.
LEMMA StopTaskEffect ==
  ASSUME SessionAssumption, TypeOK, NEW C \in [Clients -> Links], NEW L, StopTask(C, L)
  PROVE  /\ tpc'[task] \in {"ending", "done"}
         /\ tpc'[task] = "ending" => tpc[task] = "listen" /\ lock' = L
         /\ \A t \in Tasks \ {task} : tpc'[t] = tpc[t] /\ tclient'[t] = tclient[t]
         /\ \A c \in Clients : conn'[c] = "up" => C[c] = "up"
         /\ tpc[task] = "listen" => \A c \in Clients : conn'[c] = "up" => c # tclient[task]
         /\ lock' = L \/ (lock' = None /\ L = task)
         /\ UNCHANGED <<task, lclient>>
<1>1. /\ task \in Tasks /\ tpc \in [Tasks -> TaskPlaces]
      /\ tclient \in [Tasks -> Clients \cup {None}]
  BY DEF TypeOK
<1>2. \A c \in Clients : Drop(C, tclient[task])[c] = "up" => C[c] = "up" /\ c # tclient[task]
  BY <1>1 DEF Drop, SessionAssumption
<1>3. UNCHANGED <<task, lclient>>
  BY DEF StopTask
<1>4. CASE Live(task)
  <2>1. /\ tpc' = [tpc EXCEPT ![task] = Cancelled(tpc[task])]
        /\ tclient' = IF tpc[task] = "listen" THEN tclient ELSE [tclient EXCEPT ![task] = None]
        /\ conn' = IF tpc[task] \in {"connect", "listen"} THEN Drop(C, tclient[task]) ELSE C
        /\ lock' = IF L = task /\ tpc[task] # "listen" THEN None ELSE L
    BY <1>4 DEF StopTask
  <2>2. tpc'[task] = IF tpc[task] = "listen" THEN "ending" ELSE "done"
    BY <1>1, <2>1 DEF Cancelled
  <2>3. \A t \in Tasks \ {task} : tpc'[t] = tpc[t] /\ tclient'[t] = tclient[t]
    BY <1>1, <2>1
  <2> QED
    BY <1>2, <1>3, <2>1, <2>2, <2>3
<1>5. CASE ~Live(task)
  BY <1>1, <1>3, <1>5 DEF StopTask, Live
<1> QED
  BY <1>4, <1>5

\* start(): a task that was done, and for whose end nobody waits, waits for the lock.
LEMMA StartTaskEffect ==
  ASSUME TypeOK, StartTask
  PROVE  /\ task' \in Tasks /\ tpc[task'] = "done" /\ tpc'[task'] = "lock"
         /\ \A a \in Actors : old[a] # task'
         /\ \A t \in Tasks \ {task'} : tpc'[t] = tpc[t]
  BY DEF TypeOK, StartTask, FreshTasks, Live

\* _reset from the disconnection on: the login has nothing any more, and the listener is
\* started or waited for.
LEMMA GiveBackEffect ==
  ASSUME TypeOK, NEW a \in Actors, NEW W \in [Actors -> Places], NEW C, NEW st, NEW d,
         GiveBack(a, W, C, st, d)
  PROVE  /\ client' = None /\ qrTask' = None /\ acquired' = FALSE
         /\ \A b \in Actors \ {a} : /\ pc'[b] = W[b] /\ mine'[b] = mine[b]
                                    /\ doing'[b] = doing[b] /\ old'[b] = old[b]
         /\ \/ /\ pc'[a] = "restart" /\ old'[a] = task
               /\ StopTask(C, IF acquired THEN None ELSE lock)
            \/ /\ pc'[a] = "idle" /\ StartTask /\ ~Live(task)
               /\ conn' = C /\ lock' = (IF acquired THEN None ELSE lock)
               /\ UNCHANGED <<lclient, tclient>>
<1>1. /\ mine \in [Actors -> Clients \cup {None}] /\ doing \in [Actors -> Errands]
      /\ old \in [Actors -> Tasks \cup {None}]
  BY DEF TypeOK
<1>2. CASE Live(task)
  BY <1>1, <1>2 DEF GiveBack
<1>3. CASE ~Live(task)
  BY <1>1, <1>3 DEF GiveBack, Return
<1> QED
  BY <1>2, <1>3

\* _reset takes nobody but the watcher of the QR code from where he waits.
LEMMA UnwatchedEffect ==
  ASSUME NEW a, NEW b \in Actors
  PROVE  \/ Unwatched(a)[b] = pc[b]
         \/ /\ b = qrTask /\ b # a /\ pc[b] \in {"wait", "me", "disconnect"}
            /\ Unwatched(a)[b] = "idle"
  BY DEF Unwatched

\* _reset that waits for the disconnection.
LEMMA ResetWaits ==
  ASSUME TypeOK, NEW a \in Actors, NEW C, NEW st, NEW d, Reset(a, C, st, d),
         client # None, C[client] = "up"
  PROVE  /\ state' = st
         /\ pc'[a] = IF a = qrTask THEN "cut" ELSE "disconnect"
         /\ \A b \in Actors \ {a} : /\ pc'[b] = Unwatched(a)[b] /\ mine'[b] = mine[b]
                                    /\ doing'[b] = doing[b]
         /\ a # qrTask => mine'[a] = client
         /\ conn' = IF a = qrTask THEN Drop(C, client) ELSE C
         /\ UNCHANGED <<lock, client, qrTask, acquired, old, listener>>
  BY UnwatchedType DEF TypeOK, Reset

-----------------------------------------------------------------------------
(* What a login that ended leaves behind, for any number of requests that   *)
(* overlap.  As long as _client is there somebody is bound to call _reset;  *)
(* as long as the listener is stopped somebody is bound to start it.        *)

\* From here an actor shows a code or resets, whatever it is answered.
Ends(a) == pc[a] \in {"connect", "ask", "disconnect"} \/ (pc[a] = "me" /\ doing[a] # "password")
Waits(a) == pc[a] \in {"stop", "restart"}

HasClient == acquired <=> client # None

Answerable == client # None => InProgress \/ CutOff \/ \E a \in Actors : Ends(a)

\* Who waits in stop() waits for a task that ends; a client that was built meanwhile is
\* not connected yet.
WaitersKnow ==
  \A a \in Actors : Waits(a) =>
    /\ old[a] \in Tasks /\ tpc[old[a]] \in {"ending", "done"}
    /\ client # None => conn[client] # "up" /\ \E b \in Actors : pc[b] = "connect"

ErrandsKnown ==
  \A a \in Actors : pc[a] \in {"stop", "lock", "connect", "ask"} => doing[a] # "password"

TaskComesBack ==
  tpc[task] \in {"ending", "done"} =>
    client # None \/ \E a \in Actors : pc[a] \in {"stop", "lock", "restart"}

LoginInv == HasClient /\ Answerable /\ WaitersKnow /\ ErrandsKnown /\ TaskComesBack

\* While somebody waits in stop() no connection of a login comes up.
LEMMA WokenMeansNoLogin ==
  ASSUME SessionAssumption, TypeOK, LockIsOwned, LoginInv, Woken, NEW a \in Actors, Waits(a)
  PROVE  client = None
<1>1. Live(old[a]) /\ old[a] \in Tasks /\ tpc[old[a]] \in {"ending", "done"}
  BY DEF Woken, LoginInv, WaitersKnow, Waits
<1>2. lock = old[a]
  BY <1>1 DEF Live, LockIsOwned
<1> QED
  BY <1>1, <1>2 DEF LockIsOwned, LoginInv, HasClient, SessionAssumption

\* stop() called by a, who then waits.
LEMMA StopTaskLogin ==
  ASSUME SessionAssumption, TypeOK, WaitersKnow, NEW C \in [Clients -> Links], NEW L,
         StopTask(C, L), NEW a \in Actors, Waits(a)', old'[a] = task, client' = None,
         \A b \in Actors \ {a} : Waits(b)' => Waits(b) /\ old'[b] = old[b]
  PROVE  WaitersKnow' /\ TaskComesBack'
<1>1. /\ task \in Tasks /\ tpc'[task] \in {"ending", "done"}
      /\ \A t \in Tasks \ {task} : tpc'[t] = tpc[t]
  BY StopTaskEffect DEF TypeOK
<1>2. ASSUME NEW b \in Actors, Waits(b)'
      PROVE  old'[b] \in Tasks /\ tpc'[old'[b]] \in {"ending", "done"}
  <2>1. CASE b = a
    BY <1>1, <2>1
  <2>2. CASE b # a
    <3>1. old'[b] = old[b] /\ old[b] \in Tasks /\ tpc[old[b]] \in {"ending", "done"}
      BY <1>2, <2>2 DEF WaitersKnow
    <3> QED
      BY <1>1, <3>1
  <2> QED
    BY <2>1, <2>2
<1> QED
  BY <1>2 DEF WaitersKnow, TaskComesBack, Waits

LEMMA GiveBackLogin ==
  ASSUME SessionAssumption, TypeOK, LoginInv, NEW a \in Actors, NEW W \in [Actors -> Places],
         \A b \in Actors \ {a} : W[b] = pc[b] \/ W[b] = "idle",
         NEW C \in [Clients -> Links], NEW st, NEW d, GiveBack(a, W, C, st, d)
  PROVE  LoginInv'
<1>1. /\ client' = None /\ acquired' = FALSE
      /\ \A b \in Actors \ {a} : pc'[b] = W[b] /\ doing'[b] = doing[b] /\ old'[b] = old[b]
      /\ pc'[a] \in {"restart", "idle"}
  BY GiveBackEffect
<1>2. HasClient' /\ Answerable'
  BY <1>1 DEF HasClient, Answerable
<1>3. ErrandsKnown'
  BY <1>1 DEF LoginInv, ErrandsKnown
<1>4. \A b \in Actors \ {a} : Waits(b)' => Waits(b) /\ old'[b] = old[b]
  BY <1>1 DEF Waits
<1>5. CASE pc'[a] = "restart"
  <2>1. StopTask(C, IF acquired THEN None ELSE lock) /\ old'[a] = task
    BY <1>5, GiveBackEffect
  <2>2. Waits(a)'
    BY <1>5 DEF Waits
  <2>3. WaitersKnow' /\ TaskComesBack'
    BY <1>1, <1>4, <2>1, <2>2, StopTaskLogin DEF LoginInv
  <2> QED
    BY <1>2, <1>3, <2>3 DEF LoginInv
<1>6. CASE pc'[a] = "idle"
  <2>1. StartTask
    BY <1>6, GiveBackEffect
  <2>2. WaitersKnow'
    BY <1>1, <1>4, <1>6, <2>1, StartTaskEffect DEF LoginInv, WaitersKnow, Waits
  <2>3. TaskComesBack'
    BY <2>1, StartTaskEffect DEF TaskComesBack
  <2> QED
    BY <1>2, <1>3, <2>2, <2>3 DEF LoginInv
<1> QED
  BY <1>1, <1>5, <1>6

\* Nobody is in stop() when the client is connected; the one who resets ends it.
LEMMA ResetLogin ==
  ASSUME SessionAssumption, TypeOK, LoginInv, NEW a \in Actors, NEW C \in [Clients -> Links],
         \A c \in Clients : C[c] = "up" => conn[c] = "up",
         NEW st, NEW d, Reset(a, C, st, d)
  PROVE  LoginInv'
<1>1. CASE client # None /\ C[client] = "up"
  <2>1. /\ UNCHANGED <<client, qrTask, acquired, task, tpc>>
        /\ pc'[a] = IF a = qrTask THEN "cut" ELSE "disconnect"
        /\ \A b \in Actors \ {a} : pc'[b] = Unwatched(a)[b] /\ doing'[b] = doing[b]
    BY <1>1, ResetWaits DEF listener
  <2>2. HasClient' /\ TaskComesBack'
    BY <1>1, <2>1 DEF LoginInv, HasClient, TaskComesBack
  <2>3. Answerable'
    <3>1. CASE a = qrTask
      BY <2>1, <3>1 DEF Answerable, CutOff, TypeOK, SessionAssumption
    <3>2. CASE a # qrTask
      BY <2>1, <3>2 DEF Answerable, Ends
    <3> QED
      BY <3>1, <3>2
  <2>4. \A b \in Actors \ {a} : pc'[b] = pc[b] \/ pc'[b] = "idle"
    BY <2>1, UnwatchedEffect
  <2>5. conn[client] = "up"
    BY <1>1 DEF TypeOK
  <2>6. WaitersKnow'
    BY <1>1, <2>1, <2>4, <2>5 DEF LoginInv, WaitersKnow, Waits
  <2>7. ErrandsKnown'
    BY <2>1, <2>4 DEF LoginInv, ErrandsKnown
  <2> QED
    BY <2>2, <2>3, <2>6, <2>7 DEF LoginInv
<1>2. CASE ~(client # None /\ C[client] = "up")
  <2>1. GiveBack(a, Unwatched(a), C, st, d)
    BY <1>2 DEF Reset
  <2>2. \A b \in Actors \ {a} : Unwatched(a)[b] = pc[b] \/ Unwatched(a)[b] = "idle"
    BY UnwatchedEffect
  <2> QED
    BY <2>1, <2>2, UnwatchedType, GiveBackLogin
<1> QED
  BY <1>1, <1>2

LEMMA FailLogin ==
  ASSUME SessionAssumption, TypeOK, LoginInv, NEW a \in Actors, Fail(a)
  PROVE  LoginInv'
  BY ResetLogin DEF Fail, TypeOK

LEMMA EnsureClientLogin ==
  ASSUME SessionAssumption, TypeOK, LoginInv, NEW a \in Actors, pc[a] = "idle",
         NEW d \in Errands \ {"password"}, EnsureClient(a, d), UNCHANGED login
  PROVE  LoginInv'
<1>1. /\ pc \in [Actors -> Places] /\ doing \in [Actors -> Errands]
      /\ old \in [Actors -> Tasks \cup {None}] /\ conn \in [Clients -> Links]
      /\ UNCHANGED <<state, client, qrTask, acquired>>
  BY DEF TypeOK, login
<1>2. CASE client = None
  <2>1. /\ StopTask(conn, lock) /\ pc' = [pc EXCEPT ![a] = "stop"]
        /\ doing' = [doing EXCEPT ![a] = d] /\ old' = [old EXCEPT ![a] = task]
    BY <1>2 DEF EnsureClient
  <2>2. HasClient' /\ Answerable' /\ ErrandsKnown'
    BY <1>1, <1>2, <2>1 DEF LoginInv, HasClient, Answerable, ErrandsKnown
  <2>3. /\ Waits(a)' /\ old'[a] = task
        /\ \A b \in Actors \ {a} : Waits(b)' => Waits(b) /\ old'[b] = old[b]
    BY <1>1, <2>1 DEF Waits
  <2>4. WaitersKnow' /\ TaskComesBack'
    BY <1>1, <1>2, <2>1, <2>3, StopTaskLogin DEF LoginInv
  <2> QED
    BY <2>2, <2>4 DEF LoginInv
<1>3. CASE client # None
  <2>1. /\ pc' = [pc EXCEPT ![a] = "ask"] /\ doing' = [doing EXCEPT ![a] = d]
        /\ UNCHANGED <<old, conn, tpc, task>>
    BY <1>3 DEF EnsureClient, Wait, listener
  <2>2. HasClient' /\ TaskComesBack'
    BY <1>1, <1>3, <2>1 DEF LoginInv, HasClient, TaskComesBack
  <2>3. Answerable'
    BY <1>1, <2>1 DEF Answerable, Ends
  <2>4. WaitersKnow'
    BY <1>1, <2>1 DEF LoginInv, WaitersKnow, Waits
  <2>5. ErrandsKnown'
    BY <1>1, <2>1 DEF LoginInv, ErrandsKnown
  <2> QED
    BY <2>2, <2>3, <2>4, <2>5 DEF LoginInv
<1> QED
  BY <1>2, <1>3

LEMMA RouteLogin ==
  ASSUME SessionAssumption, TypeOK, LockIsOwned, LoginInv, NEW r \in Requests, Route(r)
  PROVE  LoginInv'
<1>1. /\ r \in Actors /\ r \notin Watchers /\ pc \in [Actors -> Places]
      /\ doing \in [Actors -> Errands] /\ conn \in [Clients -> Links]
      /\ {"qr", "phone"} \subseteq Errands \ {"password"}
  BY DEF Actors, SessionAssumption, TypeOK, Errands
<1>2. CASE StartQr(r) \/ StartPhone(r)
  BY <1>1, <1>2, EnsureClientLogin DEF StartQr, StartPhone
<1>3. CASE SubmitCode(r) \/ SubmitPassword(r)
  <2>1. /\ pc[r] = "idle" /\ pc' = [pc EXCEPT ![r] = "sign"]
        /\ \A b \in Actors \ {r} : doing'[b] = doing[b]
        /\ UNCHANGED <<state, client, qrTask, acquired, conn, old, tpc, task>>
    BY <1>1, <1>3 DEF SubmitCode, SubmitPassword, Submit, Wait, login, listener
  <2>2. HasClient' /\ ErrandsKnown'
    BY <1>1, <2>1 DEF LoginInv, HasClient, ErrandsKnown
  <2>3. Answerable'
    <3>1. \A b \in Actors : Ends(b) => Ends(b)'
      BY <1>1, <2>1 DEF Ends
    <3>2. CutOff => CutOff'
      BY <1>1, <2>1 DEF CutOff, Actors
    <3> QED
      BY <2>1, <3>1, <3>2 DEF LoginInv, Answerable, InProgress
  <2>4. WaitersKnow'
    BY <1>1, <2>1 DEF LoginInv, WaitersKnow, Waits
  <2>5. TaskComesBack'
    BY <1>1, <2>1 DEF LoginInv, TaskComesBack
  <2> QED
    BY <2>2, <2>3, <2>4, <2>5 DEF LoginInv
<1>4. CASE Cancel(r) \/ Logout(r)
  BY <1>1, <1>4, ResetLogin DEF Cancel, Logout
<1> QED
  BY <1>2, <1>3, <1>4 DEF Route

\* A step of one actor that leaves the login, the clients and the tasks as they are, of one
\* who neither ends it nor was cut off, or who ends it afterwards.
LEMMA QuietStep ==
  ASSUME SessionAssumption, TypeOK, LoginInv, NEW a \in Actors,
         pc' = [pc EXCEPT ![a] = pc'[a]], pc[a] # "cut",
         \A b \in Actors \ {a} : doing'[b] = doing[b],
         UNCHANGED <<client, qrTask, acquired, tpc, task>>,
         state' = state \/ InProgress',
         Ends(a) => Ends(a)' \/ InProgress',
         \A b \in Actors \ {a} : old'[b] = old[b],
         ~Waits(a)', pc'[a] \in {"ask", "connect"} => doing'[a] # "password", pc'[a] # "lock",
         ~Waits(a), pc[a] # "lock",
         \/ conn' = conn /\ pc[a] # "connect"
         \/ client = None
         \/ \A b \in Actors : ~Waits(b)
  PROVE  LoginInv'
<1>1. pc \in [Actors -> Places] /\ doing \in [Actors -> Errands]
  BY DEF TypeOK
<1>2. HasClient' /\ ErrandsKnown'
  BY <1>1 DEF LoginInv, HasClient, ErrandsKnown, Waits
<1>3. Answerable'
  <2>1. \A b \in Actors \ {a} : Ends(b) => Ends(b)'
    BY <1>1 DEF Ends
  <2>2. CutOff => CutOff'
    BY <1>1 DEF CutOff, Actors
  <2> QED
    BY <2>1, <2>2 DEF LoginInv, Answerable, InProgress
<1>4. WaitersKnow'
  <2>1. ASSUME NEW b \in Actors, Waits(b)'
        PROVE  b # a /\ Waits(b) /\ old'[b] = old[b]
    BY <1>1, <2>1 DEF Waits
  <2>2. \A b \in Actors : pc[b] = "connect" /\ pc[a] # "connect" => pc'[b] = "connect"
    BY <1>1
  <2> QED
    BY <2>1, <2>2 DEF LoginInv, WaitersKnow
<1>5. TaskComesBack'
  BY <1>1 DEF LoginInv, TaskComesBack, Waits
<1> QED
  BY <1>2, <1>3, <1>4, <1>5 DEF LoginInv

LEMMA BuildLogin ==
  ASSUME SessionAssumption, TypeOK, LoginInv, NEW a \in Actors, pc[a] \in {"stop", "lock"},
         NEW C \in [Clients -> Links], Build(a, C), acquired', UNCHANGED <<qrTask, tpc, task>>
  PROVE  LoginInv'
<1>1. /\ pc \in [Actors -> Places] /\ old \in [Actors -> Tasks \cup {None}]
      /\ doing \in [Actors -> Errands]
  BY DEF TypeOK
<1>2. PICK c \in Clients : /\ client' = c /\ conn' = [C EXCEPT ![c] = "opening"]
                           /\ pc' = [pc EXCEPT ![a] = "connect"]
                           /\ old' = [old EXCEPT ![a] = None] /\ doing' = doing
  BY DEF Build, FreshClients
<1>3. HasClient' /\ TaskComesBack'
  BY <1>2 DEF HasClient, TaskComesBack, SessionAssumption
<1>4. Answerable'
  BY <1>1, <1>2 DEF Answerable, Ends
<1>5. ErrandsKnown'
  BY <1>1, <1>2 DEF LoginInv, ErrandsKnown
<1>6. WaitersKnow'
  <2>1. conn'[client'] # "up" /\ pc'[a] = "connect"
    BY <1>1, <1>2
  <2> QED
    BY <1>1, <1>2, <2>1 DEF LoginInv, WaitersKnow, Waits
<1> QED
  BY <1>3, <1>4, <1>5, <1>6 DEF LoginInv

LEMMA ContinueLogin ==
  ASSUME SessionAssumption, TypeOK, LockIsOwned, LoginInv, NEW a \in Actors, Continue(a)
  PROVE  LoginInv'
<1>1. /\ pc \in [Actors -> Places] /\ doing \in [Actors -> Errands]
      /\ old \in [Actors -> Tasks \cup {None}] /\ conn \in [Clients -> Links]
  BY DEF TypeOK
<1>2. ASSUME NEW c, Wait(a, "me", c, doing[a]), UNCHANGED <<conn, login, listener>>,
             pc[a] \in {"sign", "ask", "wait"}
      PROVE  LoginInv'
  <2>1. pc' = [pc EXCEPT ![a] = pc'[a]] /\ pc'[a] = "me" /\ doing' = doing /\ old' = old
    BY <1>1, <1>2 DEF Wait
  <2>2. Ends(a) => Ends(a)'
    BY <1>2, <2>1 DEF Ends, LoginInv, ErrandsKnown
  <2>3. ~Waits(a) /\ ~Waits(a)' /\ pc[a] \notin {"cut", "lock", "connect"}
    BY <1>2, <2>1 DEF Waits
  <2>4. UNCHANGED <<state, client, qrTask, acquired, tpc, task>> /\ conn' = conn
    BY <1>2 DEF login, listener
  <2>5. pc'[a] \in {"ask", "connect"} => doing'[a] # "password"
    BY <2>1
  <2> QED
    BY <2>1, <2>2, <2>3, <2>4, <2>5, QuietStep
<1>3. ASSUME NEW st, Return(a, pc, st), UNCHANGED <<conn, client, qrTask, acquired, listener>>,
             pc[a] \in {"sign", "ask", "wait", "me"}, Ends(a) => InProgress',
             state' = state \/ InProgress'
      PROVE  LoginInv'
  <2>1. pc' = [pc EXCEPT ![a] = pc'[a]] /\ pc'[a] = "idle"
        /\ \A b \in Actors \ {a} : doing'[b] = doing[b] /\ old'[b] = old[b]
    BY <1>1, <1>3 DEF Return
  <2> QED
    BY <1>3, <2>1, QuietStep DEF Waits, listener
<1>4. CASE Stopped(a)
  <2>1. CASE acquired
    <3>1. Disconnect(conn, lclient) \in [Clients -> Links]
      BY <1>1, DropType
    <3> QED
      BY <1>4, <2>1, <3>1, BuildLogin DEF Stopped, listener
  <2>2. CASE ~acquired
    <3>1. /\ pc' = [pc EXCEPT ![a] = "lock"] /\ old' = [old EXCEPT ![a] = None]
          /\ UNCHANGED <<client, doing, state, qrTask, acquired, task, tpc>>
          /\ pc[a] = "stop"
      BY <1>4, <2>2 DEF Stopped, listener
    <3>2. client = None
      BY <2>2 DEF LoginInv, HasClient
    <3> QED
      BY <1>1, <3>1, <3>2 DEF LoginInv, HasClient, Answerable, WaitersKnow, ErrandsKnown,
                              TaskComesBack, Waits
  <2> QED
    BY <2>1, <2>2
<1>5. CASE Acquire(a)
  BY <1>1, <1>5, BuildLogin DEF Acquire, listener
<1>6. CASE AcquireTimesOut(a) \/ AskFails(a) \/ SignInFails(a)
  BY <1>6, FailLogin DEF AcquireTimesOut, AskFails, SignInFails
<1>7. CASE Connected(a)
  <2>1. /\ pc[a] = "connect" /\ pc' = [pc EXCEPT ![a] = pc'[a]] /\ pc'[a] = "ask"
        /\ doing' = doing /\ old' = old
        /\ UNCHANGED <<state, client, qrTask, acquired, tpc, task>> /\ Woken
    BY <1>1, <1>7 DEF Connected, Wait, login, listener
  <2>2. client = None \/ \A b \in Actors : ~Waits(b)
    BY <2>1, WokenMeansNoLogin
  <2>3. Ends(a)' /\ doing[a] # "password"
    BY <2>1 DEF Ends, LoginInv, ErrandsKnown
  <2> QED
    BY <2>1, <2>2, <2>3, QuietStep DEF Waits
<1>8. CASE ConnectFails(a)
  <2>1. /\ Drop(conn, mine[a]) \in [Clients -> Links]
        /\ \A c \in Clients : Drop(conn, mine[a])[c] = "up" => conn[c] = "up"
    BY <1>1, DropType DEF Drop
  <2> QED
    BY <1>8, <2>1, ResetLogin DEF ConnectFails
<1>9. CASE AlreadyAuthorized(a)
  BY <1>2, <1>9 DEF AlreadyAuthorized
<1>10. CASE QrShown(a)
  <2>1. PICK w \in Watchers :
          /\ pc[w] \in {"idle", "cut"} /\ qrTask' = w
          /\ pc' = [pc EXCEPT ![a] = "idle", ![w] = "wait"]
          /\ doing' = [doing EXCEPT ![a] = "none", ![w] = "qr"]
    BY <1>10 DEF QrShown
  <2>2. /\ pc[a] = "ask" /\ w \in Actors /\ w # a /\ InProgress'
        /\ UNCHANGED <<conn, client, acquired, old, tpc, task>>
    BY <1>10, <2>1 DEF QrShown, listener, Actors, InProgress
  <2>3. HasClient' /\ Answerable' /\ ErrandsKnown'
    BY <1>1, <2>1, <2>2 DEF LoginInv, HasClient, Answerable, ErrandsKnown
  <2>4. WaitersKnow'
    BY <1>1, <2>1, <2>2 DEF LoginInv, WaitersKnow, Waits
  <2>5. TaskComesBack'
    BY <1>1, <2>1, <2>2 DEF LoginInv, TaskComesBack
  <2> QED
    BY <2>3, <2>4, <2>5 DEF LoginInv
<1>11. CASE CodeSent(a)
  <2>1. Return(a, pc, "code_sent") /\ InProgress'
    BY <1>11 DEF CodeSent, Return, InProgress
  <2> QED
    BY <1>3, <1>11, <2>1 DEF CodeSent
<1>12. CASE SignedIn(a)
  BY <1>2, <1>12 DEF SignedIn
<1>13. CASE SignInRefused(a)
  <2>1. pc[a] = "sign" /\ ~Ends(a)
    BY <1>13 DEF SignInRefused, Ends
  <2>2. \E st \in {state, "password_needed"} : Return(a, pc, st)
    BY <1>13 DEF SignInRefused
  <2>3. state' = state \/ InProgress'
    BY <2>2 DEF Return, InProgress
  <2> QED
    BY <1>3, <1>13, <2>1, <2>2, <2>3 DEF SignInRefused
<1>14. CASE Finish(a)
  BY <1>1, <1>14, ResetLogin DEF Finish
<1>15. CASE FinishFails(a)
  <2>1. CASE doing[a] = "password"
    <3>1. pc[a] = "me" /\ ~Ends(a) /\ Return(a, pc, state) /\ state' = state
      BY <1>15, <2>1 DEF FinishFails, Ends, Return
    <3> QED
      BY <1>3, <1>15, <2>1, <3>1 DEF FinishFails
  <2>2. CASE doing[a] # "password"
    BY <1>15, <2>2, FailLogin DEF FinishFails
  <2> QED
    BY <2>1, <2>2
<1>16. CASE Disconnected(a)
  <2>1. Drop(conn, mine[a]) \in [Clients -> Links]
    BY <1>1, DropType
  <2> QED
    BY <1>1, <1>16, <2>1, GiveBackLogin DEF Disconnected
<1>17. CASE Restarted(a)
  <2>1. /\ pc[a] = "restart" /\ StartTask /\ UNCHANGED <<client, qrTask, acquired>>
        /\ conn' = Disconnect(conn, lclient)
        /\ pc' = [pc EXCEPT ![a] = "idle"]
        /\ doing' = [doing EXCEPT ![a] = "none"] /\ old' = [old EXCEPT ![a] = None]
    BY <1>17 DEF Restarted, Return
  <2>2. \A c \in Clients : conn'[c] = "up" => conn[c] = "up"
    BY <1>1, <2>1 DEF Disconnect
  <2>3. HasClient' /\ ErrandsKnown'
    BY <1>1, <2>1 DEF LoginInv, HasClient, ErrandsKnown
  <2>4. client # None => \E b \in Actors : b # a /\ pc[b] = "connect"
    BY <2>1 DEF LoginInv, WaitersKnow, Waits
  <2>5. Answerable'
    BY <1>1, <2>1, <2>4 DEF Answerable, Ends
  <2>6. WaitersKnow'
    <3>1. ASSUME NEW b \in Actors, Waits(b)'
          PROVE  /\ old'[b] \in Tasks /\ tpc'[old'[b]] \in {"ending", "done"}
                 /\ client # None => conn[client] # "up"
      BY <1>1, <2>1, <3>1, StartTaskEffect DEF LoginInv, WaitersKnow, Waits
    <3> QED
      BY <1>1, <2>1, <2>2, <2>4, <3>1 DEF WaitersKnow, TypeOK
  <2>7. TaskComesBack'
    BY <2>1, StartTaskEffect DEF TaskComesBack
  <2> QED
    BY <2>3, <2>5, <2>6, <2>7 DEF LoginInv
<1> QED
  BY <1>4, <1>5, <1>6, <1>7, <1>8, <1>9, <1>10, <1>11, <1>12, <1>13, <1>14, <1>15, <1>16, <1>17
  DEF Continue

LEMMA WatchLogin ==
  ASSUME SessionAssumption, TypeOK, LoginInv, NEW w \in Watchers, Watch(w)
  PROVE  LoginInv'
<1>1. /\ w \in Actors /\ pc \in [Actors -> Places] /\ doing \in [Actors -> Errands]
      /\ old \in [Actors -> Tasks \cup {None}]
  BY DEF Actors, TypeOK
<1>2. CASE Scanned(w) \/ WatchEnds(w)
  <2>1. /\ pc[w] = "wait" /\ pc' = [pc EXCEPT ![w] = pc'[w]] /\ pc'[w] \in {"me", "idle"}
        /\ \A b \in Actors \ {w} : doing'[b] = doing[b] /\ old'[b] = old[b]
        /\ UNCHANGED <<conn, client, qrTask, acquired, tpc, task>>
        /\ state' = state \/ InProgress'
    BY <1>1, <1>2 DEF Scanned, WatchEnds, Wait, Return, InProgress, login, listener
  <2>2. ~Waits(w) /\ ~Waits(w)' /\ ~Ends(w)
    BY <2>1 DEF Waits, Ends
  <2> QED
    BY <1>1, <2>1, <2>2, QuietStep
<1>3. CASE WatchFails(w)
  BY <1>1, <1>3, FailLogin DEF WatchFails
<1> QED
  BY <1>2, <1>3 DEF Watch

\* The listener's tasks and the polls: nobody in stop() sees a new connection of the login,
\* and a task that ends stays ended.
LEMMA OthersLogin ==
  ASSUME LoginInv, UNCHANGED <<login, actors, task>>,
         \A t \in Tasks : tpc[t] \in {"ending", "done"} <=> tpc'[t] \in {"ending", "done"},
         \/ client # None /\ conn[client] # "up" => conn'[client] # "up"
         \/ client = None
         \/ \A b \in Actors : ~Waits(b),
         task \in Tasks
  PROVE  LoginInv'
<1>1. UNCHANGED <<state, client, qrTask, acquired, pc, doing, old>>
  BY DEF login, actors
<1>2. HasClient' /\ ErrandsKnown'
  BY <1>1 DEF LoginInv, HasClient, ErrandsKnown
<1>3. Answerable'
  BY <1>1 DEF LoginInv, Answerable, InProgress, CutOff, Ends
<1>4. WaitersKnow'
  BY <1>1 DEF LoginInv, WaitersKnow, Waits
<1>5. TaskComesBack'
  BY <1>1 DEF LoginInv, TaskComesBack
<1> QED
  BY <1>2, <1>3, <1>4, <1>5 DEF LoginInv

LEMMA ListenLogin ==
  ASSUME SessionAssumption, TypeOK, LockIsOwned, LoginInv, NEW t \in Tasks, Listen(t)
  PROVE  LoginInv'
<1>1. /\ tpc \in [Tasks -> TaskPlaces] /\ conn \in [Clients -> Links] /\ task \in Tasks
      /\ client \in Clients \cup {None}
  BY DEF TypeOK
<1>2. UNCHANGED <<login, actors, task>>
  BY DEF Listen, TaskAcquires, TaskConnects, TaskBreaks, TaskListens, TaskDisconnected,
         TaskLeaves, TaskRetries, Place
<1>3. ASSUME NEW place, NEW c, Place(t, place, c),
             tpc[t] \in {"ending", "done"} <=> place \in {"ending", "done"}
      PROVE  \A u \in Tasks : tpc[u] \in {"ending", "done"} <=> tpc'[u] \in {"ending", "done"}
  BY <1>1, <1>3 DEF Place
<1>4. lock = t => client = None
  BY DEF LockIsOwned, LoginInv, HasClient, SessionAssumption
<1>5. CASE TaskAcquires(t)
  <2>1. PICK c \in FreshClients : /\ Place(t, "connect", c)
                                  /\ conn' = [conn EXCEPT ![c] = "opening"]
    BY <1>5 DEF TaskAcquires
  <2>2. client # None /\ conn[client] # "up" => conn'[client] # "up"
    BY <1>1, <2>1
  <2> QED
    BY <1>1, <1>2, <1>3, <1>5, <2>1, <2>2, OthersLogin DEF TaskAcquires
<1>6. CASE TaskConnects(t) \/ TaskBreaks(t)
  <2>1. tpc[t] \in {"connect", "catchup"}
    BY <1>6 DEF TaskConnects, TaskBreaks
  <2>2. client = None
    BY <1>4, <2>1 DEF LockIsOwned
  <2> QED
    BY <1>1, <1>2, <1>3, <1>6, <2>1, <2>2, OthersLogin DEF TaskConnects, TaskBreaks
<1>7. CASE TaskListens(t) \/ TaskRetries(t) \/ TaskLeaves(t)
  <2>1. conn' = conn
    BY <1>7 DEF TaskListens, TaskRetries, TaskLeaves
  <2> QED
    BY <1>1, <1>2, <1>3, <1>7, <2>1, OthersLogin DEF TaskListens, TaskRetries, TaskLeaves
<1>8. CASE TaskDisconnected(t)
  <2>1. client # None /\ conn[client] # "up" => conn'[client] # "up"
    BY <1>1, <1>8 DEF TaskDisconnected, Drop
  <2> QED
    BY <1>1, <1>2, <1>3, <1>8, <2>1, OthersLogin DEF TaskDisconnected
<1> QED
  BY <1>5, <1>6, <1>7, <1>8 DEF Listen

LEMMA PollLogin ==
  ASSUME SessionAssumption, TypeOK, LockIsOwned, LoginInv,
         PollStarts \/ PollAcquires \/ PollConnects \/ PollEnds
  PROVE  LoginInv'
<1>1. /\ conn \in [Clients -> Links] /\ task \in Tasks /\ client \in Clients \cup {None}
      /\ UNCHANGED <<login, actors, task, tpc>>
  BY DEF TypeOK, PollStarts, PollAcquires, PollConnects, PollEnds, Others, listener
<1>2. CASE PollConnects
  <2>1. client = None \/ \A b \in Actors : ~Waits(b)
    BY <1>2, WokenMeansNoLogin DEF PollConnects
  <2> QED
    BY <1>1, <2>1, OthersLogin
<1>3. CASE PollStarts \/ PollAcquires \/ PollEnds
  <2>1. client # None /\ conn[client] # "up" => conn'[client] # "up"
    BY <1>1, <1>3 DEF PollStarts, PollAcquires, PollEnds, Drop
  <2> QED
    BY <1>1, <2>1, OthersLogin
<1> QED
  BY <1>2, <1>3

\* The order of a login holds in every behaviour.
LEMMA LoginKeepsOrder == Spec => []LoginInv
<1>1. Init => LoginInv
  <2> SUFFICES ASSUME Init PROVE LoginInv
    OBVIOUS
  <2>1. \A a \in Actors : pc[a] = "idle"
    BY DEF Init
  <2>2. client = None /\ acquired = FALSE /\ task \in Tasks /\ tpc[task] = "lock"
    BY DEF Init
  <2> QED
    BY <2>1, <2>2 DEF LoginInv, HasClient, Answerable, WaitersKnow, ErrandsKnown,
                      TaskComesBack, Waits
<1>2. TypeOK /\ LockIsOwned /\ LoginInv /\ [Next]_vars => LoginInv'
  <2> SUFFICES ASSUME TypeOK, LockIsOwned, LoginInv, [Next]_vars
               PROVE  LoginInv'
    OBVIOUS
  <2>1. ASSUME NEW r \in Requests, Route(r)
        PROVE  LoginInv'
    BY <2>1, RouteLogin, SessionAssumption
  <2>2. ASSUME NEW a \in Actors, Continue(a)
        PROVE  LoginInv'
    BY <2>2, ContinueLogin, SessionAssumption
  <2>3. ASSUME NEW w \in Watchers, Watch(w)
        PROVE  LoginInv'
    BY <2>3, WatchLogin, SessionAssumption
  <2>4. ASSUME NEW t \in Tasks, Listen(t)
        PROVE  LoginInv'
    BY <2>4, ListenLogin, SessionAssumption
  <2>5. CASE PollStarts \/ PollAcquires \/ PollConnects \/ PollEnds
    BY <2>5, PollLogin, SessionAssumption
  <2>6. CASE UNCHANGED vars
    <3>1. UNCHANGED <<login, actors, task, tpc, conn>> /\ task \in Tasks
      BY <2>6 DEF vars, listener, TypeOK
    <3> QED
      BY <3>1, OthersLogin
  <2> QED
    BY <2>1, <2>2, <2>3, <2>4, <2>5, <2>6 DEF Next
<1> QED
  BY <1>1, <1>2, SessionTypeCorrect, LockHasOneOwner, PTL DEF Spec

\* However many requests of the login overlap, and whatever they are answered: when nothing
\* is under way and no login is in progress the lock is not the login's, no client of it is
\* left, and the listener's task is at work again, unless the watcher of a QR code cancelled
\* itself in _reset.
THEOREM LoginGivesBack == Spec => []LockGoesBack
<1>1. TypeOK /\ LoginInv => LockGoesBack
  <2> SUFFICES ASSUME TypeOK, LoginInv, Quiet, ~InProgress, ~CutOff
               PROVE  ~acquired /\ client = None /\ Live(task)
    BY DEF LockGoesBack
  <2>1. \A a \in Actors : ~Ends(a) /\ pc[a] \notin {"stop", "lock", "restart"}
    BY DEF Quiet, Ends
  <2>2. client = None /\ ~acquired
    BY <2>1 DEF LoginInv, Answerable, HasClient
  <2>3. tpc[task] # "done"
    BY <2>1, <2>2 DEF LoginInv, TaskComesBack
  <2> QED
    BY <2>2, <2>3 DEF Live
<1> QED
  BY <1>1, SessionTypeCorrect, LoginKeepsOrder, PTL

=============================================================================
