----------------------------- MODULE GrpcApiProofs -----------------------------
(***************************************************************************)
(* What api_mutex and the Fetch state guarantee for any number of tasks    *)
(* and presses, and what they guarantee besides when no call is late.      *)
(***************************************************************************)
EXTENDS GrpcApi, TLAPS

-----------------------------------------------------------------------------
(* Types                                                                   *)

Typed == TypeOK /\ CallerTypes

(***************************************************************************)
(* Where the steps of a Fetch task and of the loop task may lead.          *)
(***************************************************************************)
LEMMA ReturnTypes ==
  ASSUME Typed, NEW c \in Callers, NEW ok \in BOOLEAN, pc[c] = "wait",
         ReturnToFetch(c, ok) \/ ReturnToLoop(c, ok), UNCHANGED press
  PROVE  /\ pc' \in [Callers -> {"idle", "gone", "lock", "call", "wait", "http",
                                 "finish", "unlock"}]
         /\ calling' \in [Callers -> Functions]
         /\ info' \in [Gets -> Nat]
         /\ has' \in SUBSET Gets
         /\ got' \in [Gets -> Nat]
         /\ CallerTypes'
<1>1. CASE ReturnToFetch(c, ok)
  <2>1. calling[c] \in Gets /\ got[calling[c]] \in Nat /\ c # Loop
    BY <1>1, TaskAssumption DEF ReturnToFetch, Typed, TypeOK, CallerTypes
  <2>2. calling[c] # "GetShortcuts" => After[calling[c]] \in Gets
    BY <2>1 DEF After, Gets
  <2>3. info' \in [Gets -> Nat] /\ has' \in SUBSET Gets /\ got' \in [Gets -> Nat]
    BY <1>1, <2>1 DEF ReturnToFetch, Typed, TypeOK
  <2>4. CASE ok /\ calling[c] # "GetShortcuts"
    BY <1>1, <2>1, <2>2, <2>3, <2>4
       DEF ReturnToFetch, Goto, Typed, TypeOK, CallerTypes, Callers, Functions
  <2>5. CASE ok /\ calling[c] = "GetShortcuts"
    BY <1>1, <2>1, <2>3, <2>5
       DEF ReturnToFetch, Goto, Typed, TypeOK, CallerTypes, Callers
  <2>6. CASE ~ok
    BY <1>1, <2>1, <2>3, <2>6
       DEF ReturnToFetch, Goto, Typed, TypeOK, CallerTypes, Callers
  <2> QED  BY <2>4, <2>5, <2>6
<1>2. CASE ReturnToLoop(c, ok)
  BY <1>2, TaskAssumption
     DEF ReturnToLoop, Goto, Typed, TypeOK, CallerTypes, Callers, Functions
<1> QED  BY <1>1, <1>2

(***************************************************************************)
(* The steps of a caller keep the types.                                   *)
(***************************************************************************)
LEMMA CallerType ==
  ASSUME Typed, NEW c \in Callers, CallerNext(c)
  PROVE  Typed'
<1> USE DEF Typed
<1>1. CASE Acquire(c)
  BY <1>1, TaskAssumption
     DEF Acquire, Goto, TypeOK, CallerTypes, Callers, fetched, globals
<1>2. CASE Release(c)
  BY <1>2, TaskAssumption
     DEF Release, Goto, TypeOK, CallerTypes, Callers, fetched, globals
<1>3. ASSUME StartCall(c)
      PROVE  /\ Body(c) \in Bodies
             /\ calling[c] \in Functions
             /\ sender' \in [Senders -> [state : SenderStates, fn : Functions,
                                        by : Callers, body : Bodies]] => Typed'
  <2>1. Body(c) \in Bodies
    <3>1. CASE c = Loop
      BY <1>3, <3>1 DEF StartCall, Body, Bodies, CallerTypes
    <3>2. CASE c \in FetchTasks
      BY <3>2 DEF Body, Bodies, CallerTypes, Gets
    <3> QED  BY <3>1, <3>2 DEF Callers
  <2>2. calling[c] \in Functions /\ parent' \in [Functions -> Callers \cup {NoTask}]
    BY <1>3 DEF StartCall, TypeOK
  <2>3. got' \in [Gets -> Nat]
    BY <1>3 DEF StartCall, TypeOK
  <2>4. CallerTypes' /\ pc' \in [Callers -> {"idle", "gone", "lock", "call", "wait",
                                             "http", "finish", "unlock"}]
    BY <1>3 DEF StartCall, Goto, TypeOK, CallerTypes, Callers
  <2> QED
    BY <1>3, <2>1, <2>2, <2>3, <2>4 DEF StartCall, TypeOK, fetched
<1>4. ASSUME NEW s \in Senders, Call(c, s)
      PROVE  Typed'
  <2>1. Body(c) \in Bodies /\ calling[c] \in Functions
    BY <1>3, <1>4 DEF Call
  <2>2. [state |-> "connect", fn |-> calling[c], by |-> c, body |-> Body(c)]
          \in [state : SenderStates, fn : Functions, by : Callers, body : Bodies]
    BY <2>1 DEF SenderStates
  <2>3. sender' \in [Senders -> [state : SenderStates, fn : Functions,
                                by : Callers, body : Bodies]]
    BY <1>4, <2>2 DEF Call, TypeOK
  <2> QED  BY <1>3, <1>4, <2>3 DEF Call
<1>5. CASE CallWithoutTask(c)
  BY <1>3, <1>5 DEF CallWithoutTask, TypeOK
<1>6. CASE EncodeFails(c)
  BY <1>6, TaskAssumption
     DEF EncodeFails, Goto, TypeOK, CallerTypes, Callers, Bodies, Functions, fetched
<1>7. CASE Wake(c)
  <2>1. notified' \in [Callers -> BOOLEAN]
    BY <1>7 DEF Wake, TypeOK
  <2>2. (result # "notConnected") \in BOOLEAN
    OBVIOUS
  <2>3. /\ pc' \in [Callers -> {"idle", "gone", "lock", "call", "wait", "http",
                                "finish", "unlock"}]
        /\ calling' \in [Callers -> Functions]
        /\ info' \in [Gets -> Nat]
        /\ has' \in SUBSET Gets
        /\ got' \in [Gets -> Nat]
        /\ CallerTypes'
    BY <1>7, <2>2, ReturnTypes DEF Wake
  <2> QED  BY <1>7, <2>1, <2>3 DEF Wake, TypeOK
<1>8. CASE Timeout(c)
  <2>1. result' \in {"ok", "encodeFailed", "notConnected", "timeout"}
    BY <1>8 DEF Timeout, TypeOK
  <2>2. /\ pc' \in [Callers -> {"idle", "gone", "lock", "call", "wait", "http",
                                "finish", "unlock"}]
        /\ calling' \in [Callers -> Functions]
        /\ info' \in [Gets -> Nat]
        /\ has' \in SUBSET Gets
        /\ got' \in [Gets -> Nat]
        /\ CallerTypes'
    BY <1>8, ReturnTypes DEF Timeout
  <2> QED  BY <1>8, <2>1, <2>2 DEF Timeout, TypeOK
<1> QED
  BY <1>1, <1>2, <1>4, <1>5, <1>6, <1>7, <1>8 DEF CallerNext

(***************************************************************************)
(* The steps of a SendGrpcTask keep the types.                             *)
(***************************************************************************)
LEMMA SenderType ==
  ASSUME Typed, NEW s \in Senders, SenderNext(s)
  PROVE  Typed'
<1> USE DEF Typed
<1>0. /\ sender[s] \in [state : SenderStates, fn : Functions, by : Callers, body : Bodies]
      /\ NoSender \in [state : SenderStates, fn : Functions, by : Callers, body : Bodies]
  BY DEF TypeOK, NoSender, SenderStates, Functions, Callers, Bodies
<1>1. ASSUME NEW state \in SenderStates, To(s, state)
      PROVE  sender' \in [Senders -> [state : SenderStates, fn : Functions,
                                     by : Callers, body : Bodies]]
  BY <1>0, <1>1 DEF To, TypeOK
<1>2. UNCHANGED caller => (CallerTypes => CallerTypes')
  BY DEF CallerTypes, caller
<1>3. CASE ConnectFails(s)
  BY <1>1, <1>2, <1>3 DEF ConnectFails, SenderStates, TypeOK, caller, fetched
<1>4. CASE Connect(s)
  BY <1>1, <1>2, <1>4 DEF Connect, SenderStates, TypeOK, caller, fetched
<1>5. CASE Send(s)
  <2>1. delivered' \in [Presses -> Nat]
    BY <1>5 DEF Send, TypeOK
  <2> QED
    BY <1>1, <1>2, <1>5, <2>1 DEF Send, SenderStates, TypeOK, caller, fetched, globals
<1>6. CASE Answer(s)
  <2>1. got' \in [Gets -> Nat]
    BY <1>6 DEF Answer, TypeOK
  <2> QED
    BY <1>1, <1>2, <1>6, <2>1 DEF Answer, SenderStates, TypeOK, caller, fetched
<1>7. CASE LeaveExecute(s)
  BY <1>1, <1>2, <1>7 DEF LeaveExecute, SenderStates, TypeOK, caller, fetched, globals
<1>8. CASE NotifyParent(s)
  <2>1. sender' \in [Senders -> [state : SenderStates, fn : Functions,
                                by : Callers, body : Bodies]]
    BY <1>0, <1>8 DEF NotifyParent, TypeOK
  <2>2. notified' \in [Callers -> BOOLEAN]
    BY <1>8 DEF NotifyParent, TypeOK
  <2> QED
    BY <1>2, <1>8, <2>1, <2>2 DEF NotifyParent, TypeOK, caller, fetched, globals
<1> QED
  BY <1>3, <1>4, <1>5, <1>6, <1>7, <1>8 DEF SenderNext

(***************************************************************************)
(* Every step keeps the types.                                             *)
(***************************************************************************)
LEMMA TypedStep ==
  ASSUME Typed, [Next]_vars
  PROVE  Typed'
<1>1. ASSUME NEW p \in Presses, HandleButtonPressed(p)
      PROVE  Typed'
  BY <1>1, TaskAssumption
     DEF Typed, HandleButtonPressed, Goto, TypeOK, CallerTypes, Callers, Functions,
         fetched, globals
<1>2. CASE FetchHttp
  BY <1>2, TaskAssumption
     DEF Typed, FetchHttp, Goto, TypeOK, CallerTypes, Callers, Functions, fetched, globals
<1>3. ASSUME NEW t \in FetchTasks, FetchRobotInfo(t)
      PROVE  Typed'
  BY <1>3, TaskAssumption
     DEF Typed, FetchRobotInfo, Goto, TypeOK, CallerTypes, Callers, Functions, Gets,
         globals
<1>4. ASSUME NEW t \in FetchTasks, FetchCompleted(t)
      PROVE  Typed'
  BY <1>4, TaskAssumption
     DEF Typed, FetchCompleted, Goto, TypeOK, CallerTypes, Callers, globals
<1>5. CASE FetchWithoutTask
  BY <1>5 DEF Typed, FetchWithoutTask, TypeOK, CallerTypes, caller, globals
<1>6. CASE UNCHANGED vars
  BY <1>6 DEF Typed, TypeOK, CallerTypes, vars, caller, fetched, globals
<1> QED
  BY <1>1, <1>2, <1>3, <1>4, <1>5, <1>6, CallerType, SenderType DEF Next, WaitForReboot

LEMMA TypedInit == Init => Typed
<1> SUFFICES ASSUME Init
             PROVE  Typed
  OBVIOUS
<1>1. sender \in [Senders -> [state : SenderStates, fn : Functions, by : Callers,
                             body : Bodies]]
  BY DEF Init, NoSender, SenderStates, Functions, Callers, Bodies
<1>2. CallerTypes
  BY TaskAssumption DEF Init, CallerTypes, Callers, Gets
<1> QED
  BY <1>1, <1>2 DEF Init, Typed, TypeOK, Functions, Gets, Bodies

(***************************************************************************)
(* Every state has the declared types (the whole module).                  *)
(***************************************************************************)
THEOREM TypeInvariant == Spec => []TypeOK
<1>1. Typed => TypeOK
  BY DEF Typed
<1> QED  BY <1>1, TypedInit, TypedStep, PTL DEF Spec

-----------------------------------------------------------------------------
(* api_mutex and the Fetch state                                           *)

Labels == {"idle", "gone", "lock", "call", "wait", "http", "finish", "unlock"}

Locked == {"call", "wait", "http", "finish", "unlock"}
Fetches == {"lock", "call", "wait", "finish"}

(***************************************************************************)
(* One caller moves, and stays where it was with regard to the mutex.      *)
(***************************************************************************)
LEMMA MutexKept ==
  ASSUME MutexExact, pc \in [Callers -> Labels], NEW c \in Callers,
         NEW label \in Labels, Goto(c, label), holder' = holder,
         pc[c] \in Locked <=> label \in Locked
  PROVE  MutexExact'
BY DEF MutexExact, Inside, Goto, Locked

(***************************************************************************)
(* The loop task moves, or a Fetch task within its fetch or outside it.    *)
(***************************************************************************)
LEMMA FetchKept ==
  ASSUME OneFetch, pc \in [Callers -> Labels], NEW c \in Callers,
         NEW label \in Labels, Goto(c, label), fetchState' = fetchState,
         c \in FetchTasks => (pc[c] \in Fetches <=> label \in Fetches)
  PROVE  OneFetch'
<1>1. Fetching' = Fetching
  BY DEF Fetching, Goto, Fetches, Callers
<1> QED  BY <1>1 DEF OneFetch

LEMMA DisciplineUntouched ==
  ASSUME OneFetch, MutexExact, UNCHANGED <<pc, holder, fetchState>>
  PROVE  OneFetch' /\ MutexExact'
BY DEF OneFetch, MutexExact, Fetching, Inside

(***************************************************************************)
(* Where a call's end leads.                                               *)
(***************************************************************************)
LEMMA ReturnLabel ==
  ASSUME NEW c \in Callers, NEW ok \in BOOLEAN,
         ReturnToFetch(c, ok) \/ ReturnToLoop(c, ok)
  PROVE  \E label \in {"call", "finish", "unlock"} :
           Goto(c, label) /\ (c \in FetchTasks => label # "unlock")
BY TaskAssumption DEF ReturnToFetch, ReturnToLoop

LEMMA ReturnDiscipline ==
  ASSUME Discipline, NEW c \in Callers, NEW ok \in BOOLEAN, pc[c] = "wait",
         ReturnToFetch(c, ok) \/ ReturnToLoop(c, ok),
         UNCHANGED <<holder, fetchState>>
  PROVE  OneFetch' /\ MutexExact'
<1>1. PICK label \in {"call", "finish", "unlock"} :
        Goto(c, label) /\ (c \in FetchTasks => label # "unlock")
  BY ReturnLabel
<1>2. pc \in [Callers -> Labels] /\ label \in Labels
  BY DEF Discipline, TypeOK, Labels
<1>3. MutexExact'
  BY <1>1, <1>2, MutexKept DEF Discipline, Locked
<1>4. OneFetch'
  BY <1>1, <1>2, FetchKept DEF Discipline, Fetches
<1> QED  BY <1>3, <1>4

(***************************************************************************)
(* Every step keeps the discipline of the callers, late or not.            *)
(***************************************************************************)
LEMMA DisciplineStep ==
  ASSUME Discipline, [Next]_vars
  PROVE  Discipline'
<1>0. Typed /\ Typed' /\ pc \in [Callers -> Labels] /\ OneFetch /\ MutexExact
  BY TypedStep DEF Discipline, Typed, TypeOK, Labels
<1> SUFFICES OneFetch' /\ MutexExact'
  BY <1>0 DEF Discipline, Typed
<1>1. ASSUME NEW c \in Callers, CallerNext(c)
      PROVE  OneFetch' /\ MutexExact'
  <2>1. CASE Acquire(c)
    <3>1. PICK label \in {"http", "call"} :
            Goto(c, label) /\ (c \in FetchTasks => label = "call")
      BY <2>1, TaskAssumption DEF Acquire
    <3>2. MutexExact'
      BY <1>0, <2>1, <3>1, TaskAssumption DEF Acquire, MutexExact, Inside, Goto
    <3>3. OneFetch'
      BY <1>0, <2>1, <3>1, FetchKept DEF Acquire, Fetches, Labels, fetched
    <3> QED  BY <3>2, <3>3
  <2>2. CASE Release(c)
    <3>1. PICK label \in {"idle", "gone"} : Goto(c, label)
      BY <2>2 DEF Release
    <3>2. MutexExact'
      BY <1>0, <2>2, <3>1, TaskAssumption DEF Release, MutexExact, Inside, Goto
    <3>3. OneFetch'
      BY <1>0, <2>2, <3>1, FetchKept DEF Release, Fetches, Labels, fetched
    <3> QED  BY <3>2, <3>3
  <2>3. CASE StartCall(c)
    BY <1>0, <2>3, MutexKept, FetchKept
       DEF StartCall, Labels, Locked, Fetches, fetched
  <2>4. CASE EncodeFails(c)
    <3>1. c = Loop
      BY <1>0, <2>4 DEF EncodeFails, Typed, CallerTypes, Callers, Gets
    <3> QED
      BY <1>0, <2>4, <3>1, TaskAssumption, MutexKept, FetchKept
         DEF EncodeFails, Labels, Locked, fetched
  <2>5. CASE Wake(c)
    <3>1. (result # "notConnected") \in BOOLEAN
      OBVIOUS
    <3> QED  BY <2>5, <3>1, ReturnDiscipline DEF Wake
  <2>6. CASE Timeout(c)
    BY <2>6, ReturnDiscipline DEF Timeout
  <2> QED
    BY <1>1, <2>1, <2>2, <2>3, <2>4, <2>5, <2>6 DEF CallerNext, Call, CallWithoutTask
<1>2. ASSUME NEW s \in Senders, SenderNext(s)
      PROVE  OneFetch' /\ MutexExact'
  BY <1>0, <1>2, DisciplineUntouched
     DEF SenderNext, ConnectFails, Connect, Send, Answer, LeaveExecute, NotifyParent,
         caller, fetched
<1>3. ASSUME NEW p \in Presses, HandleButtonPressed(p)
      PROVE  OneFetch' /\ MutexExact'
  BY <1>0, <1>3, TaskAssumption, MutexKept, FetchKept
     DEF HandleButtonPressed, Labels, Locked, Callers, fetched
<1>4. CASE FetchHttp
  <2>1. PICK label \in {"unlock", "call"} : Goto(Loop, label)
    BY <1>4 DEF FetchHttp
  <2> QED
    BY <1>0, <1>4, <2>1, TaskAssumption, MutexKept, FetchKept
       DEF FetchHttp, Labels, Locked, Callers, fetched
<1>5. ASSUME NEW t \in FetchTasks, FetchRobotInfo(t)
      PROVE  OneFetch' /\ MutexExact'
  <2>1. MutexExact'
    BY <1>0, <1>5, MutexKept DEF FetchRobotInfo, Labels, Locked, Callers
  <2>2. Fetching = {} /\ Fetching' = {t}
    BY <1>0, <1>5 DEF FetchRobotInfo, OneFetch, Fetching, Goto, Callers
  <2> QED  BY <1>5, <2>1, <2>2 DEF FetchRobotInfo, OneFetch
<1>6. ASSUME NEW t \in FetchTasks, FetchCompleted(t)
      PROVE  OneFetch' /\ MutexExact'
  <2>1. MutexExact'
    BY <1>0, <1>6, MutexKept DEF FetchCompleted, Labels, Locked, Callers
  <2>2. Fetching' = {}
    BY <1>0, <1>6 DEF FetchCompleted, OneFetch, Fetching, Goto, Callers
  <2> QED  BY <1>6, <2>1, <2>2 DEF FetchCompleted, OneFetch
<1>7. CASE FetchWithoutTask
  <2>1. Fetching' = Fetching /\ Inside' = Inside
    BY <1>7 DEF FetchWithoutTask, Fetching, Inside, caller
  <2> QED  BY <1>0, <1>7, <2>1 DEF FetchWithoutTask, OneFetch, MutexExact, caller
<1>8. CASE UNCHANGED vars
  BY <1>0, <1>8, DisciplineUntouched DEF vars, caller, fetched
<1> QED  BY <1>1, <1>2, <1>3, <1>4, <1>5, <1>6, <1>7, <1>8 DEF Next, WaitForReboot

LEMMA DisciplineInit == Init => Discipline
<1> SUFFICES ASSUME Init
             PROVE  Discipline
  OBVIOUS
<1>1. Typed
  BY TypedInit
<1>2. OneFetch
  BY TaskAssumption DEF Init, OneFetch, Fetching, Callers
<1>3. MutexExact
  BY TaskAssumption DEF Init, MutexExact, Inside, Callers
<1> QED  BY <1>1, <1>2, <1>3 DEF Discipline, Typed

(***************************************************************************)
(* However often a fetch is asked for and however late calls are, one task *)
(* fetches (FetchRobotInfo).                                               *)
(***************************************************************************)
THEOREM OneTaskFetches == Spec => []OneFetch
<1>1. Discipline => OneFetch
  BY DEF Discipline
<1> QED  BY <1>1, DisciplineInit, DisciplineStep, PTL DEF Spec

(***************************************************************************)
(* Whoever is past its lock of api_mutex holds it (RunFetchTask,           *)
(* HandleButtonPressed).                                                   *)
(***************************************************************************)
THEOREM MutualExclusion == Spec => []MutexHeld
<1>1. Discipline => MutexHeld
  BY DEF Discipline, MutexExact, MutexHeld, Inside
<1> QED  BY <1>1, DisciplineInit, DisciplineStep, PTL DEF Spec

-----------------------------------------------------------------------------
(* When no call is late                                                    *)

(***************************************************************************)
(* A caller that has the mutex and does not wait is alone: no SendGrpcTask *)
(* runs and nobody is notified.                                            *)
(***************************************************************************)
LEMMA Alone ==
  ASSUME Discipline, Punctual, NEW c \in Callers, c \in Inside, pc[c] # "wait"
  PROVE  Running = {} /\ \A d \in Callers : ~notified[d] /\ pc[d] # "wait"
<1>1. \A d \in Callers : pc[d] # "wait"
  BY DEF Discipline, MutexExact, Inside
<1>2. \A s \in Running : sender[s].by \in Callers
  BY DEF Discipline, TypeOK, Running
<1> QED  BY <1>1, <1>2 DEF Punctual, Tended, NotifiedLast

(***************************************************************************)
(* A caller that does not wait moves, and leaves the presses alone.        *)
(***************************************************************************)
LEMMA PunctualKept ==
  ASSUME Discipline, Punctual, NEW c \in Callers, pc[c] # "wait",
         NEW label \in Labels \ {"wait"}, Goto(c, label),
         \A d \in Callers \ {c} : calling'[d] = calling[d],
         \A d \in Callers : notified'[d] => notified[d],
         UNCHANGED <<press, pending, parent, sender, delivered>>,
         buffer' = buffer \/ Running = {},
         c = Loop /\ calling'[c] = "Command" /\ label = "call" =>
           calling[c] = "Command" /\ pc[c] \in {"lock", "call"},
         c = Loop => label # "lock"
  PROVE  Punctual'
<1>1. Running' = Running /\ OneRuns'
  BY DEF Running, Punctual, OneRuns
<1>2. pc \in [Callers -> Labels]
  BY DEF Discipline, TypeOK, Labels
<1>3. NotifiedLast'
  BY <1>1, <1>2 DEF Punctual, NotifiedLast, Goto
<1>4. Tended'
  <2> SUFFICES ASSUME NEW s \in Running
               PROVE  LET d == sender[s].by
                      IN  /\ pc'[d] = "wait" /\ ~notified'[d]
                          /\ parent'[sender'[s].fn] = d
                          /\ sender'[s].fn = calling'[d]
                          /\ sender'[s].body = Body(d)' /\ buffer' = Body(d)'
    BY <1>1 DEF Tended
  <2> DEFINE d == sender[s].by
  <2>1. d \in Callers /\ pc[d] = "wait" /\ d # c
    BY DEF Discipline, TypeOK, Running, Punctual, Tended
  <2>2. Body(d)' = Body(d) /\ pc'[d] = pc[d] /\ calling'[d] = calling[d] /\ ~notified'[d]
    BY <1>2, <2>1 DEF Body, Goto, Punctual, Tended
  <2> QED  BY <2>1, <2>2 DEF Punctual, Tended
<1>5. \A p \in Presses : Undelivered(p)' => Undelivered(p)
  BY <1>2, TaskAssumption DEF Undelivered, Goto, Callers
<1>6. OwnDelivery' /\ StartedOnce'
  BY <1>5 DEF Punctual, OwnDelivery, StartedOnce
<1> QED  BY <1>1, <1>3, <1>4, <1>6 DEF Punctual

LEMMA CallPunctual ==
  ASSUME Discipline, Punctual, NEW c \in Callers, NEW s \in Senders, Call(c, s)
  PROVE  Punctual'
<1>1. Running = {} /\ \A d \in Callers : ~notified[d]
  BY Alone DEF Call, StartCall, Inside
<1>2. /\ sender'[s] = [state |-> "connect", fn |-> calling[c], by |-> c, body |-> Body(c)]
      /\ \A t \in Senders \ {s} : sender'[t] = sender[t]
  BY DEF Call, Discipline, TypeOK
<1>3. Running' = {s}
  BY <1>1, <1>2 DEF Running
<1>4. Body(c)' = Body(c)
  BY DEF Call, StartCall, Body
<1>5. Tended'
  BY <1>1, <1>2, <1>3, <1>4 DEF Tended, Call, StartCall, Goto, Discipline, TypeOK
<1>6. OneRuns' /\ NotifiedLast'
  BY <1>1, <1>3 DEF OneRuns, NotifiedLast, Call, StartCall
<1>7. \A p \in Presses : Undelivered(p)' => Undelivered(p)
  <2>1. c = Loop \/ calling[c] # "Command"
    BY DEF Discipline, CallerTypes, Callers, Gets
  <2> QED
    BY <1>1, <1>2, <2>1, TaskAssumption
       DEF Undelivered, Call, StartCall, Goto, Discipline, TypeOK, Callers, Running
<1>8. OwnDelivery' /\ StartedOnce'
  BY <1>7 DEF Punctual, OwnDelivery, StartedOnce, Call, StartCall
<1> QED  BY <1>5, <1>6, <1>8 DEF Punctual

LEMMA WakePunctual ==
  ASSUME Discipline, Punctual, NEW c \in Callers, Wake(c)
  PROVE  Punctual'
<1>1. Running = {} /\ Running' = {}
  BY DEF Wake, Punctual, NotifiedLast, Running
<1>2. \A d \in Callers : ~notified'[d]
  BY DEF Wake, Punctual, NotifiedLast, Discipline, TypeOK, MutexExact, Inside
<1>3. Tended' /\ OneRuns' /\ NotifiedLast'
  BY <1>1, <1>2 DEF Tended, OneRuns, NotifiedLast
<1>4. \A p \in Presses : Undelivered(p)' => Undelivered(p)
  <2>1. c = Loop => calling'[c] = "Lock" \/ pc'[c] = "unlock"
    BY TaskAssumption
       DEF Wake, ReturnToFetch, ReturnToLoop, Goto, Discipline, TypeOK
  <2>2. c # Loop => calling'[Loop] = calling[Loop] /\ pc'[Loop] = pc[Loop]
    BY DEF Wake, ReturnToFetch, ReturnToLoop, Goto, Discipline, TypeOK, Callers
  <2>3. c = Loop => pc'[c] # "lock"
    BY TaskAssumption
       DEF Wake, ReturnToFetch, ReturnToLoop, Goto, Discipline, TypeOK
  <2> QED
    BY <2>1, <2>2, <2>3 DEF Undelivered, Wake
<1>5. OwnDelivery' /\ StartedOnce'
  BY <1>4 DEF Punctual, OwnDelivery, StartedOnce, Wake
<1> QED  BY <1>3, <1>5 DEF Punctual

(***************************************************************************)
(* The running SendGrpcTask moves on within its own call.                  *)
(***************************************************************************)
LEMMA SenderKept ==
  ASSUME Discipline, Punctual, NEW s \in Senders, sender[s].state # "none",
         NEW state \in SenderStates \ {"none"}, To(s, state),
         state \in {"connect", "exec"} => sender[s].state \in {"connect", "exec"},
         UNCHANGED <<caller, buffer, parent, notified>>
  PROVE  /\ Tended' /\ OneRuns' /\ NotifiedLast'
         /\ \A p \in Presses : Undelivered(p)' => Undelivered(p)
<1>1. /\ sender'[s] = [sender[s] EXCEPT !.state = state]
      /\ \A t \in Senders \ {s} : sender'[t] = sender[t]
  BY DEF To, Discipline, TypeOK
<1>2. /\ sender'[s].state = state /\ sender'[s].fn = sender[s].fn
      /\ sender'[s].by = sender[s].by /\ sender'[s].body = sender[s].body
  BY <1>1 DEF Discipline, TypeOK
<1>3. Running' = Running
  BY <1>1, <1>2 DEF Running
<1>4. \A c \in Callers : Body(c)' = Body(c)
  BY DEF Body, caller
<1>5. \A t \in Senders : sender[t].by \in Callers
  BY DEF Discipline, TypeOK
<1>6. Tended'
  <2>1. ASSUME NEW t \in Running
        PROVE  /\ sender'[t].by = sender[t].by /\ sender'[t].fn = sender[t].fn
               /\ sender'[t].body = sender[t].body /\ sender[t].by \in Callers
    <3>1. t \in Senders
      BY DEF Running
    <3>2. CASE t = s
      BY <1>2, <1>5, <3>2
    <3>3. CASE t # s
      BY <1>1, <1>5, <3>1, <3>3
    <3> QED  BY <3>2, <3>3
  <2>2. ASSUME NEW t \in Running, NEW c \in Callers, c = sender[t].by
        PROVE  /\ pc'[c] = "wait" /\ ~notified'[c]
               /\ parent'[sender[t].fn] = c
               /\ sender[t].fn = calling'[c]
               /\ sender[t].body = Body(c)' /\ buffer' = Body(c)'
    BY <1>4, <2>2 DEF Punctual, Tended, caller
  <2> QED  BY <1>3, <2>1, <2>2 DEF Tended
<1>7. OneRuns' /\ NotifiedLast'
  BY <1>3 DEF Punctual, OneRuns, NotifiedLast, caller
<1>8. ASSUME NEW p \in Presses, Undelivered(p)'
      PROVE  Undelivered(p)
  BY <1>1, <1>2, <1>8 DEF Undelivered, caller
<1> QED  BY <1>6, <1>7, <1>8

LEMMA SendPunctual ==
  ASSUME Discipline, Punctual, NEW s \in Senders, Send(s)
  PROVE  Punctual'
<1>1. /\ Tended' /\ OneRuns' /\ NotifiedLast'
      /\ \A p \in Presses : Undelivered(p)' => Undelivered(p)
  BY SenderKept DEF Send, SenderStates, globals
<1>2. s \in Running /\ sender[s].by \in Callers
  BY DEF Send, Running, Discipline, TypeOK
<1>3. /\ pc[sender[s].by] = "wait" /\ sender[s].fn = calling[sender[s].by]
      /\ buffer = Body(sender[s].by)
  BY <1>2 DEF Punctual, Tended
<1>4. ASSUME NEW p \in Presses, delivered'[p] # delivered[p]
      PROVE  /\ sender[s].by = Loop /\ pc[Loop] = "wait" /\ calling[Loop] = "Command"
             /\ p = press /\ sender[s].fn = "Command"
             /\ delivered'[p] = delivered[p] + 1
  <2>1. p = buffer /\ sender[s].fn \in {"Command", "Lock"}
        /\ delivered'[p] = delivered[p] + 1
    BY <1>4 DEF Send, Discipline, TypeOK
  <2>2. sender[s].by = Loop
    BY <1>2, <1>3, <2>1 DEF Discipline, CallerTypes, Callers, Gets
  <2>3. calling[Loop] = "Command" /\ p = press
    BY <1>3, <2>1, <2>2, BodyAssumption DEF Body, Discipline, CallerTypes
  <2> QED  BY <1>3, <2>1, <2>2, <2>3
<1>5. \A t \in Senders : sender'[t].state \notin {"connect", "exec"}
  <2>1. \A t \in Senders \ {s} : sender'[t] = sender[t] /\ t \notin Running
    BY <1>2 DEF Send, To, Discipline, TypeOK, Punctual, OneRuns
  <2>2. sender'[s].state = "sent"
    BY DEF Send, To, Discipline, TypeOK
  <2> QED  BY <2>1, <2>2 DEF Running
<1>6. OwnDelivery'
  <2>1. press' \notin pending'
    BY DEF Send, Punctual, OwnDelivery, caller
  <2>2. ASSUME NEW p \in Presses, Undelivered(p)'
        PROVE  delivered'[p] = 0
    <3>1. delivered[p] = 0
      BY <1>1, <2>2 DEF Punctual, OwnDelivery
    <3>2. CASE delivered'[p] # delivered[p]
      BY <1>4, <1>5, <2>1, <2>2, <3>2 DEF Undelivered, Send, caller
    <3> QED  BY <3>1, <3>2
  <2> QED  BY <2>1, <2>2 DEF OwnDelivery
<1>7. StartedOnce'
  <2> SUFFICES ASSUME NEW p \in Presses
               PROVE  delivered'[p] <= 1
    BY DEF StartedOnce
  <2>1. CASE delivered'[p] = delivered[p]
    BY <2>1 DEF Punctual, StartedOnce
  <2>2. CASE delivered'[p] # delivered[p]
    <3>1. Undelivered(p)
      BY <1>4, <2>2 DEF Undelivered, Send
    <3> QED  BY <1>4, <2>2, <3>1 DEF Punctual, OwnDelivery
  <2> QED  BY <2>1, <2>2
<1> QED  BY <1>1, <1>6, <1>7 DEF Punctual

LEMMA NotifyPunctual ==
  ASSUME Discipline, Punctual, NEW s \in Senders, NotifyParent(s)
  PROVE  Punctual'
<1>1. s \in Running /\ sender[s].by \in Callers
  BY DEF NotifyParent, Running, Discipline, TypeOK
<1>2. /\ sender'[s] = NoSender
      /\ \A t \in Senders \ {s} : sender'[t] = sender[t] /\ t \notin Running
  BY <1>1 DEF NotifyParent, Discipline, TypeOK, Punctual, OneRuns
<1>3. Running' = {}
  BY <1>2 DEF Running, NoSender
<1>4. /\ pc[sender[s].by] = "wait" /\ parent[sender[s].fn] = sender[s].by
      /\ \A d \in Callers : ~notified[d]
  BY <1>1 DEF Punctual, Tended, NotifiedLast
<1>5. \A d \in Callers : notified'[d] => d = sender[s].by
  BY <1>4 DEF NotifyParent, Discipline, TypeOK
<1>6. Tended' /\ OneRuns' /\ NotifiedLast'
  BY <1>3, <1>4, <1>5 DEF Tended, OneRuns, NotifiedLast, NotifyParent, caller
<1>7. ASSUME NEW p \in Presses, Undelivered(p)'
      PROVE  Undelivered(p)
  BY <1>2, <1>7 DEF Undelivered, NotifyParent, NoSender, caller
<1>8. OwnDelivery' /\ StartedOnce'
  BY <1>7 DEF Punctual, OwnDelivery, StartedOnce, NotifyParent, caller
<1> QED  BY <1>6, <1>8 DEF Punctual

LEMMA PunctualStep ==
  ASSUME Discipline, Punctual, ~Late, [Next]_vars
  PROVE  Punctual'
<1>0. pc \in [Callers -> Labels]
  BY DEF Discipline, TypeOK, Labels
<1>1. ASSUME NEW c \in Callers, CallerNext(c)
      PROVE  Punctual'
  <2>1. CASE Acquire(c)
    <3>1. PICK label \in {"http", "call"} : Goto(c, label)
      BY <2>1 DEF Acquire
    <3> QED
      BY <2>1, <3>1, PunctualKept DEF Acquire, Labels, globals
  <2>2. CASE Release(c)
    <3>1. PICK label \in {"idle", "gone"} : Goto(c, label)
      BY <2>2 DEF Release
    <3> QED
      BY <2>2, <3>1, PunctualKept DEF Release, Labels, globals
  <2>3. ASSUME NEW s \in Senders, Call(c, s)
        PROVE  Punctual'
    BY <2>3, CallPunctual
  <2>4. CASE EncodeFails(c)
    <3>1. Running = {}
      BY <2>4, Alone DEF EncodeFails, Inside
    <3>2. Punctual'
      <4>1. \A p \in Presses : Undelivered(p)' => Undelivered(p)
        BY <1>0, <2>4 DEF EncodeFails, Undelivered, Goto, Callers
      <4>2. OwnDelivery' /\ StartedOnce'
        BY <2>4, <4>1 DEF EncodeFails, Punctual, OwnDelivery, StartedOnce
      <4>3. Running' = {} /\ \A d \in Callers : ~notified'[d]
        BY <2>4, <3>1, Alone DEF EncodeFails, Running, Inside
      <4> QED  BY <4>2, <4>3 DEF Punctual, Tended, OneRuns, NotifiedLast
    <3> QED  BY <3>2
  <2>5. CASE Wake(c)
    BY <2>5, WakePunctual
  <2> QED
    BY <1>1, <2>1, <2>2, <2>3, <2>4, <2>5 DEF CallerNext, CallWithoutTask, Timeout
<1>2. ASSUME NEW s \in Senders, SenderNext(s)
      PROVE  Punctual'
  <2>1. ASSUME NEW state \in SenderStates \ {"none"}, To(s, state),
               sender[s].state # "none",
               state \in {"connect", "exec"} => sender[s].state \in {"connect", "exec"},
               UNCHANGED <<caller, buffer, parent, notified, delivered>>
        PROVE  Punctual'
    <3>1. /\ Tended' /\ OneRuns' /\ NotifiedLast'
          /\ \A p \in Presses : Undelivered(p)' => Undelivered(p)
      BY <2>1, SenderKept
    <3> QED
      BY <2>1, <3>1 DEF Punctual, OwnDelivery, StartedOnce, caller
  <2>2. CASE ConnectFails(s)
    BY <2>1, <2>2 DEF ConnectFails, SenderStates
  <2>3. CASE Connect(s)
    BY <2>1, <2>3 DEF Connect, SenderStates
  <2>4. CASE Send(s)
    BY <2>4, SendPunctual
  <2>5. CASE Answer(s)
    BY <2>1, <2>5 DEF Answer, SenderStates
  <2>6. CASE LeaveExecute(s)
    BY <2>1, <2>6 DEF LeaveExecute, SenderStates, globals
  <2>7. CASE NotifyParent(s)
    BY <2>7, NotifyPunctual
  <2> QED
    BY <1>2, <2>2, <2>3, <2>4, <2>5, <2>6, <2>7 DEF SenderNext
<1>3. ASSUME NEW p \in Presses, HandleButtonPressed(p)
      PROVE  Punctual'
  <2>1. pc[Loop] = "idle" /\ pc' = [pc EXCEPT ![Loop] = "lock"] /\ Running' = Running
    BY <1>3 DEF HandleButtonPressed, Goto, Running
  <2>2. ASSUME NEW s \in Running, NEW d, d = sender[s].by
        PROVE  d \in FetchTasks /\ Body(d)' = Body(d) /\ Body(d) = "get"
               /\ pc'[d] = pc[d] /\ calling'[d] = calling[d]
    <3>1. d \in FetchTasks /\ pc[d] = "wait" /\ d # Loop
      BY <1>0, <2>1, <2>2, TaskAssumption
         DEF Punctual, Tended, Discipline, TypeOK, Running, Callers
    <3>2. calling'[d] = calling[d] /\ calling[d] \in Gets
      BY <1>3, <3>1 DEF HandleButtonPressed, Discipline, TypeOK, CallerTypes, Callers
    <3> QED  BY <1>0, <2>1, <3>1, <3>2 DEF Body, Gets, Callers
  <2>3. Tended'
    BY <1>3, <2>1, <2>2 DEF Punctual, Tended, HandleButtonPressed, globals
  <2>4. OneRuns' /\ NotifiedLast'
    BY <1>0, <1>3, <2>1
       DEF Punctual, OneRuns, NotifiedLast, HandleButtonPressed, Callers
  <2>5. press' \notin pending'
    BY <1>3, BodyAssumption DEF HandleButtonPressed, Discipline, TypeOK
  <2>6. ASSUME NEW q \in Presses, Undelivered(q)'
        PROVE  delivered'[q] = 0
    <3>1. q \in pending
      BY <1>3, <2>6, BodyAssumption DEF HandleButtonPressed, Undelivered
    <3> QED
      BY <1>3, <3>1 DEF HandleButtonPressed, Punctual, OwnDelivery, Undelivered
  <2>7. OwnDelivery' /\ StartedOnce'
    BY <1>3, <2>5, <2>6 DEF OwnDelivery, Punctual, StartedOnce, HandleButtonPressed
  <2> QED  BY <2>3, <2>4, <2>7 DEF Punctual
<1>4. CASE FetchHttp
  <2>1. PICK label \in {"unlock", "call"} :
          /\ Goto(Loop, label)
          /\ label = "call" => calling'[Loop] = "Lock"
    BY <1>4 DEF FetchHttp, Discipline, TypeOK, Callers
  <2>2. \A d \in Callers \ {Loop} : calling'[d] = calling[d]
    BY <1>4 DEF FetchHttp, Discipline, TypeOK, Callers
  <2> QED
    BY <1>4, <2>1, <2>2, PunctualKept DEF FetchHttp, Labels, Callers, globals
<1>5. ASSUME NEW t \in FetchTasks, FetchRobotInfo(t)
      PROVE  Punctual'
  BY <1>0, <1>5, TaskAssumption, PunctualKept
     DEF FetchRobotInfo, Labels, Callers, globals, Discipline, TypeOK
<1>6. ASSUME NEW t \in FetchTasks, FetchCompleted(t)
      PROVE  Punctual'
  BY <1>0, <1>6, TaskAssumption, PunctualKept
     DEF FetchCompleted, Labels, Callers, globals
<1>7. CASE FetchWithoutTask
  BY <1>7 DEF FetchWithoutTask, caller, globals, Punctual, Tended, OneRuns, NotifiedLast,
     OwnDelivery, StartedOnce, Running, Undelivered, Body
<1>8. CASE UNCHANGED vars
  BY <1>8 DEF vars, caller, fetched, globals, Punctual, Tended, OneRuns, NotifiedLast,
     OwnDelivery, StartedOnce, Running, Undelivered, Body
<1> QED  BY <1>1, <1>2, <1>3, <1>4, <1>5, <1>6, <1>7, <1>8 DEF Next, WaitForReboot

LEMMA PunctualInit == Init => Punctual
<1> SUFFICES ASSUME Init
             PROVE  Punctual
  OBVIOUS
<1>1. Running = {}
  BY DEF Init, Running, NoSender
<1>2. \A c \in Callers : ~notified[c]
  BY DEF Init
<1>3. OwnDelivery /\ StartedOnce
  BY BodyAssumption DEF Init, OwnDelivery, StartedOnce, Undelivered
<1> QED  BY <1>1, <1>2, <1>3 DEF Punctual, Tended, OneRuns, NotifiedLast

(***************************************************************************)
(* Everything the properties rest on, in one induction: the discipline of  *)
(* api_mutex whatever is late, and the rest if nothing is.                 *)
(***************************************************************************)
THEOREM Invariance == Spec => []IInv
<1>1. Init => IInv
  BY DisciplineInit, PunctualInit DEF IInv
<1>2. IInv /\ [Next]_vars => IInv'
  BY DisciplineStep, PunctualStep DEF IInv
<1> QED  BY <1>1, <1>2, PTL DEF Spec

(***************************************************************************)
(* If no call takes longer than kDefaultTimeoutMsec, SendGrpcTask runs     *)
(* alone and only while its caller holds api_mutex (EncodeSendAndWait).    *)
(***************************************************************************)
THEOREM GuardedUnlessLate == ASSUME ~Late PROVE Spec => []CallsGuarded
<1>1. IInv => CallsGuarded
  <2> SUFFICES ASSUME IInv, NEW s \in Running
               PROVE  /\ holder = sender[s].by
                      /\ pc[sender[s].by] = "wait"
                      /\ Running = {s}
    BY DEF CallsGuarded
  <2>1. sender[s].by \in Callers /\ pc[sender[s].by] = "wait"
    BY DEF IInv, Discipline, TypeOK, Punctual, Tended, Running
  <2>2. holder = sender[s].by
    BY <2>1 DEF IInv, Discipline, MutexExact, Inside
  <2> QED  BY <2>1, <2>2 DEF IInv, Punctual, OneRuns
<1> QED  BY <1>1, Invariance, PTL

(***************************************************************************)
(* Then a caller is woken only by the task of its own call (NotifyParent,  *)
(* ulTaskNotifyTake).                                                      *)
(***************************************************************************)
THEOREM WokenByOwn == ASSUME ~Late PROVE Spec => []OwnNotification
<1>1. IInv => OwnNotification
  BY DEF IInv, Punctual, NotifiedLast, OwnNotification
<1> QED  BY <1>1, Invariance, PTL

(***************************************************************************)
(* Then the robot is told to do a button's command at most once a press    *)
(* (SendCommand, OnSendData).                                              *)
(***************************************************************************)
THEOREM PressStartsOnce == ASSUME ~Late PROVE Spec => []StartedOnce
<1>1. IInv => StartedOnce
  BY DEF IInv, Punctual
<1> QED  BY <1>1, Invariance, PTL

(***************************************************************************)
(* Then what goes to the robot is what the call was made with              *)
(* (OnSendData).                                                           *)
(***************************************************************************)
THEOREM OwnBodyIsSent == ASSUME ~Late PROVE Spec => SendsOwnBody
<1>1. IInv => SendsOwn
  <2> SUFFICES ASSUME IInv, NEW s \in Senders, sender[s].state = "exec"
               PROVE  buffer = sender[s].body
    BY DEF SendsOwn
  <2> QED  BY DEF IInv, Punctual, Tended, Running
<1> QED  BY <1>1, Invariance, PTL DEF SendsOwnBody, Spec
-----------------------------------------------------------------------------
(* What the fetches gather                                                 *)

(***************************************************************************)
(* A list that is waited for is still empty: the call has cleared it and   *)
(* nobody else answers.                                                    *)
(***************************************************************************)
Fresh ==
  /\ \A g \in Gets : info[g] <= 1 /\ got[g] <= 1
  /\ \A s \in Running :
       sender[s].state \in {"connect", "exec", "sent"} /\ sender[s].fn \in Gets =>
         got[sender[s].fn] = 0

(***************************************************************************)
(* A SendGrpcTask that does not answer leaves the lists alone.             *)
(***************************************************************************)
LEMMA FreshKept ==
  ASSUME Discipline, Fresh, NEW s \in Senders, sender[s].state # "none",
         NEW state \in SenderStates, To(s, state), UNCHANGED <<info, got>>,
         state \in {"connect", "exec", "sent"} =>
           sender[s].state \in {"connect", "exec", "sent"}
  PROVE  Fresh'
<1>1. /\ sender'[s] = [sender[s] EXCEPT !.state = state]
      /\ \A t \in Senders \ {s} : sender'[t] = sender[t]
  BY DEF To, Discipline, TypeOK
<1>2. sender'[s].state = state /\ sender'[s].fn = sender[s].fn
  BY <1>1 DEF Discipline, TypeOK
<1>3. ASSUME NEW t \in Running', sender'[t].state \in {"connect", "exec", "sent"},
             sender'[t].fn \in Gets
      PROVE  got[sender'[t].fn] = 0
  <2>1. CASE t = s
    BY <1>2, <1>3, <2>1 DEF Fresh, Running
  <2>2. CASE t # s
    BY <1>1, <1>3, <2>2 DEF Fresh, Running
  <2> QED  BY <2>1, <2>2
<1> QED  BY <1>3 DEF Fresh

LEMMA AnswerFresh ==
  ASSUME Discipline, Punctual, Fresh, NEW s \in Senders, Answer(s)
  PROVE  Fresh'
<1>1. s \in Running /\ \A t \in Running : t = s
  BY DEF Answer, Running, Punctual, OneRuns
<1>2. sender'[s].state = "answered" /\ \A t \in Senders \ {s} : sender'[t] = sender[t]
  BY DEF Answer, To, Discipline, TypeOK
<1>3. \A t \in Running' : sender'[t].state = "answered"
  BY <1>1, <1>2 DEF Running
<1>4. \A g \in Gets : got'[g] <= 1
  <2>1. sender[s].fn \in Gets => got[sender[s].fn] = 0
    BY <1>1 DEF Answer, Fresh
  <2>2. \A g \in Gets : got'[g] = got[g] \/ (g = sender[s].fn /\ got'[g] = 1)
    BY <2>1 DEF Answer, Discipline, TypeOK
  <2> QED  BY <2>2 DEF Fresh
<1> QED  BY <1>3, <1>4 DEF Fresh, Answer, fetched

LEMMA CallFresh ==
  ASSUME Discipline, Punctual, Fresh, NEW c \in Callers, NEW s \in Senders, Call(c, s)
  PROVE  Fresh'
<1>1. Running = {}
  BY Alone DEF Call, StartCall, Inside
<1>2. /\ sender'[s].fn = calling[c]
      /\ \A t \in Senders \ {s} : sender'[t] = sender[t] /\ t \notin Running
  BY <1>1 DEF Call, Discipline, TypeOK
<1>3. \A t \in Running' : t = s
  BY <1>2 DEF Running
<1>4. \A g \in Gets : got'[g] = IF g = calling[c] THEN 0 ELSE got[g]
  BY DEF Call, StartCall
<1>5. \A g \in Gets : info'[g] <= 1 /\ got'[g] <= 1
  BY <1>4 DEF Fresh, Call, StartCall, fetched
<1> QED  BY <1>2, <1>3, <1>4, <1>5 DEF Fresh

LEMMA WakeFresh ==
  ASSUME Discipline, Punctual, Fresh, NEW c \in Callers, Wake(c)
  PROVE  Fresh'
<1>1. Running = {} /\ Running' = {}
  BY DEF Wake, Punctual, NotifiedLast, Running
<1>2. \A g \in Gets : info'[g] \in {info[g], got[g]} /\ got'[g] \in {got[g], 0}
  BY DEF Wake, ReturnToFetch, ReturnToLoop, Discipline, TypeOK
<1> QED  BY <1>1, <1>2 DEF Fresh

(***************************************************************************)
(* Every step keeps the lists as they should be, if nothing is late.       *)
(***************************************************************************)
LEMMA FreshStep ==
  ASSUME Discipline, Punctual, Fresh, ~Late, [Next]_vars
  PROVE  Fresh'
<1>1. ASSUME UNCHANGED <<info, got, sender>>
      PROVE  Fresh'
  BY <1>1 DEF Fresh, Running
<1>2. ASSUME NEW c \in Callers, CallerNext(c)
      PROVE  Fresh'
  <2>1. CASE Acquire(c) \/ Release(c) \/ EncodeFails(c)
    BY <1>1, <2>1 DEF Acquire, Release, EncodeFails, fetched, globals
  <2>2. CASE \E s \in Senders : Call(c, s)
    BY <2>2, CallFresh
  <2>3. CASE Wake(c)
    BY <2>3, WakeFresh
  <2> QED  BY <1>2, <2>1, <2>2, <2>3 DEF CallerNext, CallWithoutTask, Timeout
<1>3. ASSUME NEW s \in Senders, SenderNext(s)
      PROVE  Fresh'
  <2>1. CASE Answer(s)
    BY <2>1, AnswerFresh
  <2>2. CASE NotifyParent(s)
    <3>1. \A t \in Senders : sender'[t] \in {sender[t], NoSender}
      BY <2>2 DEF NotifyParent, Discipline, TypeOK
    <3> QED  BY <2>2, <3>1 DEF Fresh, Running, NotifyParent, NoSender, fetched, globals
  <2>3. CASE ConnectFails(s)
    BY <2>3, FreshKept DEF ConnectFails, SenderStates, fetched
  <2>4. CASE Connect(s)
    BY <2>4, FreshKept DEF Connect, SenderStates, fetched
  <2>5. CASE Send(s)
    BY <2>5, FreshKept DEF Send, SenderStates, fetched, globals
  <2>6. CASE LeaveExecute(s)
    BY <2>6, FreshKept DEF LeaveExecute, SenderStates, fetched, globals
  <2> QED  BY <1>3, <2>1, <2>2, <2>3, <2>4, <2>5, <2>6 DEF SenderNext
<1>4. ASSUME NEW p \in Presses, HandleButtonPressed(p)
      PROVE  Fresh'
  BY <1>1, <1>4 DEF HandleButtonPressed, fetched, globals
<1>5. CASE FetchHttp
  BY <1>1, <1>5 DEF FetchHttp, fetched, globals
<1>6. ASSUME NEW t \in FetchTasks, FetchRobotInfo(t) \/ FetchCompleted(t)
      PROVE  Fresh'
  BY <1>1, <1>6 DEF FetchRobotInfo, FetchCompleted, globals
<1>7. CASE FetchWithoutTask
  BY <1>1, <1>7 DEF FetchWithoutTask, globals
<1>8. CASE UNCHANGED vars
  BY <1>1, <1>8 DEF vars, fetched, globals
<1>9. CASE WaitForReboot
  BY <1>8, <1>9 DEF WaitForReboot
<1> QED  BY <1>2, <1>3, <1>4, <1>5, <1>6, <1>7, <1>8, <1>9 DEF Next

(***************************************************************************)
(* If no call is late, no list of the robot's data is taken twice, however *)
(* often it is fetched (the Decode... callbacks, FetchImpl).               *)
(***************************************************************************)
THEOREM ListsFetchedOnce == ASSUME ~Late PROVE Spec => []FetchedOnce
<1>1. Init => Fresh
  BY DEF Init, Fresh, Running, NoSender
<1>2. IInv /\ Fresh /\ [Next]_vars => Fresh'
  BY FreshStep DEF IInv
<1>3. Fresh => FetchedOnce
  BY DEF Fresh, FetchedOnce
<1> QED  BY <1>1, <1>2, <1>3, Invariance, PTL DEF Spec
=============================================================================
