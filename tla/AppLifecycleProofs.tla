-------------------------- MODULE AppLifecycleProofs --------------------------
(***************************************************************************)
(* Theorems about AppLifecycle, for any number of apps, edits, signals,    *)
(* clients and requests, with a server for metrics or without.             *)
(***************************************************************************)
EXTENDS AppLifecycle, TLAPS

USE AppAssumptions

\* The process ends, for one reason or another.
Ends == \E by \in {"panic", "error", "signal"} : Exit(by)

-----------------------------------------------------------------------------
(* One app.                                                                 *)

LEMMA NoAppIsNone == NoApp \notin AppTypes
<1>1. \A a \in AppTypes : a.storage \in {"open", "closed"}
  BY DEF AppTypes
<1>2. NoApp.storage = "none"
  BY DEF NoApp
<1>3. QED
  BY <1>1, <1>2

\* A Shutdown of one server.
LEMMA StoppedFacts ==
    ASSUME NEW a \in AppTypes, NEW s \in Servers
    PROVE  /\ Stopped(a, s) \in AppTypes
           /\ Stopped(a, s).down[s] /\ Stopped(a, s).srv[s] # "serving"
           /\ \A t \in Servers \ {s} : /\ Stopped(a, s).down[t] = a.down[t]
                                       /\ Stopped(a, s).srv[t] = a.srv[t]
           /\ Stopped(a, s).storage = a.storage /\ Stopped(a, s).waiter = a.waiter
  BY DEF Stopped, AppTypes, ServerStates

\* What a stage of the shutdown does to an app: the first stops the main server,
\* and only the last closes the storage.
LEMMA ShutFacts ==
    ASSUME NEW a \in AppTypes, NEW stage \in Stages,
           a.down["main"] => a.srv["main"] # "serving"
    PROVE  /\ Shut(a, stage) \in AppTypes
           /\ stage = "begin" \/ a.down["main"] => Shut(a, stage).down["main"]
           /\ Shut(a, stage).down["main"] => Shut(a, stage).srv["main"] # "serving"
           /\ Shut(a, stage).srv["main"] = "serving" => a.srv["main"] = "serving"
           /\ stage # "close" => Shut(a, stage).storage = a.storage
           /\ Shut(a, stage).waiter = a.waiter
<1>1. CASE stage = "begin"
  <2>1. Shut(a, stage) = Stopped(a, "main")
    BY <1>1 DEF Shut, Begun
  <2>2. QED
    BY <1>1, <2>1, StoppedFacts
<1>2. CASE stage = "drain"
  <2>1. Shut(a, stage) = a \/ ("metrics" \in Servers /\ Shut(a, stage) = Stopped(a, "metrics"))
    BY <1>2 DEF Shut, MetricsStopped
  <2>2. QED
    BY <1>2, <2>1, StoppedFacts
<1>3. CASE stage = "close"
  <2>1. Shut(a, stage) = Closed(a)
    BY <1>3 DEF Shut
  <2>2. Closed(a) \in AppTypes
    BY DEF Closed, AppTypes
  <2>3. /\ Closed(a).down = a.down /\ Closed(a).srv = a.srv /\ Closed(a).waiter = a.waiter
    BY DEF Closed, AppTypes
  <2>4. QED
    BY <1>3, <2>1, <2>2, <2>3
<1>4. QED
  BY <1>1, <1>2, <1>3 DEF Stages

-----------------------------------------------------------------------------
(* Types.                                                                   *)

\* The main goroutine waits and shuts down with an app only, and Shutdown on the
\* main server ends it or keeps it from coming up.  An app is built within the bound.
MainHasApp ==
    /\ main.pc \in {"wait", "stop"} => apps >= 1
    /\ main.pc = "build" => apps < MaxApps
DownIsDown ==
    \A g \in 1 .. apps : app[g].down["main"] => app[g].srv["main"] # "serving"

Sane == TypeOK /\ MainHasApp /\ DownIsDown

LEMMA AppsAreTyped ==
    ASSUME TypeOK
    PROVE  /\ apps \in Nat /\ apps <= MaxApps
           /\ \A g \in 1 .. apps : g \in Apps /\ app[g] \in AppTypes
  BY DEF TypeOK, Apps

\* A step that replaces one app by a well-typed one, and keeps what it must.
LEMMA Replaced ==
    ASSUME Sane, NEW g \in 1 .. apps, NEW a \in AppTypes,
           app' = [app EXCEPT ![g] = a], apps' = apps,
           a.down["main"] => a.srv["main"] # "serving"
    PROVE  /\ app' \in [Apps -> {NoApp} \union AppTypes]
           /\ \A h \in Apps : app'[h] = NoApp <=> h > apps'
           /\ DownIsDown'
           /\ app'[g] = a /\ \A h \in Apps \ {g} : app'[h] = app[h]
<1>1. g \in Apps /\ apps \in Nat
  BY AppsAreTyped DEF Sane
<1>2. /\ app' \in [Apps -> {NoApp} \union AppTypes]
      /\ app'[g] = a /\ \A h \in Apps \ {g} : app'[h] = app[h]
  BY <1>1 DEF Sane, TypeOK
<1>3. \A h \in Apps : app'[h] = NoApp <=> h > apps'
  <2>1. a # NoApp /\ ~(g > apps)
    BY <1>1, NoAppIsNone
  <2>2. QED
    BY <1>2, <2>1 DEF Sane, TypeOK
<1>4. DownIsDown'
  BY <1>1, <1>2, AppsAreTyped DEF Sane, DownIsDown
<1>5. QED
  BY <1>2, <1>3, <1>4

LEMMA SaneInit == Init => Sane
<1>1. SUFFICES ASSUME Init PROVE Sane
  OBVIOUS
<1>2. file \in Configs /\ config \in Configs
  BY <1>1 DEF Init, Configs
<1>3. main \in MainTypes
  BY <1>1 DEF Init, MainTypes
<1>4. /\ app \in [Apps -> {NoApp} \union AppTypes]
      /\ \A g \in Apps : app[g] = NoApp <=> g > apps
  BY <1>1 DEF Init, Apps
<1>5. req \in [Requests -> 0 .. apps]
  BY <1>1 DEF Init
<1>6. /\ signals \in 0 .. MaxSignals /\ apps \in 0 .. MaxApps /\ accepted \in Nat
      /\ built \in {<<>>} \union (Configs \X Configs) /\ late \subseteq Requests
      /\ watcher \in {"idle", "check"}
  BY <1>1 DEF Init
<1>7. event \in BOOLEAN /\ restart \in BOOLEAN
  BY <1>1 DEF Init
<1>8. TypeOK
  BY <1>2, <1>3, <1>4, <1>5, <1>6, <1>7 DEF TypeOK
<1>9. QED
  BY <1>1, <1>8 DEF Init, Sane, MainHasApp, DownIsDown

LEMMA SaneExit ==
    ASSUME Sane, Ends, signals' \in 0 .. MaxSignals
    PROVE  Sane'
<1>1. main' \in MainTypes
  BY DEF Ends, Exit, MainTypes
<1>2. /\ app' \in [Apps -> {NoApp} \union AppTypes] /\ apps' = 0
      /\ \A g \in Apps : app'[g] = NoApp <=> g > apps'
  BY DEF Ends, Exit, Apps
<1>3. req' \in [Requests -> 0 .. apps']
  BY DEF Ends, Exit
<1>4. TypeOK'
  <2>1. /\ file' \in Configs /\ config' \in Configs /\ accepted' \in Nat
        /\ built' \in {<<>>} \union (Configs \X Configs) /\ late' \subseteq Requests
        /\ watcher' \in {"idle", "check"} /\ apps' \in 0 .. MaxApps
    BY <1>2 DEF Ends, Exit, Sane, TypeOK
  <2>2. event' \in BOOLEAN /\ restart' \in BOOLEAN /\ registered' \subseteq Names
    BY DEF Ends, Exit
  <2>3. QED
    BY <1>1, <1>2, <1>3, <2>1, <2>2 DEF TypeOK
<1>5. QED
  BY <1>2, <1>4 DEF Ends, Exit, Sane, MainHasApp, DownIsDown

\* The file and its watcher.
LEMMA SaneWatcher ==
    ASSUME Sane, (\E kind \in Kinds : Edit(kind)) \/ Load \/ Validate
    PROVE  Sane'
<1> USE DEF Sane, TypeOK, MainHasApp, DownIsDown
<1>1. ASSUME NEW kind \in Kinds, Edit(kind) PROVE Sane'
  <2>1. file' \in Configs
    BY <1>1 DEF Edit, Configs
  <2>2. QED
    BY <1>1, <2>1 DEF Edit, mainVars, reqVars
<1>2. CASE Load
  BY <1>2 DEF Load, mainVars, reqVars
<1>3. CASE Validate
  <2>1. restart' \in BOOLEAN /\ accepted' \in Nat
    <3>1. restart' = TRUE \/ restart' = restart
      BY <1>3 DEF Validate, Notified
    <3>2. accepted' = accepted + 1 \/ accepted' = accepted
      BY <1>3 DEF Validate
    <3>3. restart' \in BOOLEAN
      BY <3>1, Zenon
    <3>4. QED
      BY <3>2, <3>3
  <2>2. QED
    BY <1>3, <2>1 DEF Validate, reqVars
<1>4. QED
  BY <1>1, <1>2, <1>3

\* The main goroutine.
LEMMA SaneMain ==
    ASSUME Sane, MainStep \/ NewAppFails
    PROVE  Sane'
<1>1. CASE InitStorage
  <2>1. main' \in MainTypes /\ main'.pc = "build"
    BY <1>1 DEF InitStorage, MainTypes, Sane, TypeOK
  <2>2. registered' \subseteq Names
    BY <1>1 DEF InitStorage, Configs, Sane, TypeOK
  <2>3. QED
    BY <1>1, <2>1, <2>2 DEF InitStorage, Sane, TypeOK, MainHasApp, DownIsDown, configVars, reqVars
<1>2. CASE FinishApp
  <2>1. main.clients \in SUBSET Clients /\ main.read \in Configs
    <3>1. main \in MainTypes /\ main.pc = "build"
      BY <1>2 DEF FinishApp, Sane, TypeOK
    <3>2. main \in [pc : {"build"}, read : Configs, clients : SUBSET Clients]
      BY <3>1 DEF MainTypes
    <3>3. QED
      BY <3>2
  <2>2. NewApp(main.clients) \in AppTypes /\ NewApp(main.clients).srv["main"] = "new"
    BY <2>1 DEF NewApp, AppTypes, ServerStates, Stages
  <2>3. /\ apps \in 0 .. MaxApps /\ apps' = apps + 1
        /\ app' = [app EXCEPT ![apps + 1] = NewApp(main.clients)]
    BY <1>2 DEF FinishApp, Sane, TypeOK
  <2>4. apps' \in 0 .. MaxApps /\ apps' >= 1
    BY <1>2, <2>3 DEF FinishApp, Sane, MainHasApp
  <2>5. \A g \in Apps : app'[g] = (IF g = apps' THEN NewApp(main.clients) ELSE app[g])
    BY <2>3 DEF Sane, TypeOK
  <2>6. /\ app' \in [Apps -> {NoApp} \union AppTypes]
        /\ \A g \in Apps : app'[g] = NoApp <=> g > apps'
    <3>1. app' \in [Apps -> {NoApp} \union AppTypes]
      BY <2>2, <2>3 DEF Sane, TypeOK
    <3>2. ASSUME NEW g \in Apps PROVE app'[g] = NoApp <=> g > apps'
      <4>1. CASE g = apps'
        BY <2>2, <2>4, <2>5, <4>1, NoAppIsNone DEF Apps
      <4>2. CASE g # apps'
        BY <2>3, <2>4, <2>5, <4>2 DEF Sane, TypeOK, Apps
      <4>3. QED
        BY <4>1, <4>2
    <3>3. QED
      BY <3>1, <3>2
  <2>7. built' \in Configs \X Configs /\ main' \in MainTypes /\ main'.pc = "wait"
    BY <1>2, <2>1 DEF FinishApp, MainTypes, Sane, TypeOK
  <2>8. req' \in [Requests -> 0 .. apps']
    BY <1>2, <2>3 DEF FinishApp, reqVars, Sane, TypeOK
  <2>9. TypeOK'
    BY <1>2, <2>4, <2>6, <2>7, <2>8 DEF FinishApp, configVars, reqVars, Sane, TypeOK
  <2>10. DownIsDown'
    <3>1. ASSUME NEW g \in 1 .. apps' PROVE app'[g].down["main"] => app'[g].srv["main"] # "serving"
      <4>1. g \in Apps /\ (g = apps' \/ g \in 1 .. apps)
        BY <2>3, <2>4 DEF Apps
      <4>2. CASE g = apps'
        BY <2>2, <2>5, <4>1, <4>2
      <4>3. CASE g # apps'
        BY <2>5, <4>1, <4>3 DEF Sane, DownIsDown
      <4>4. QED
        BY <4>2, <4>3
    <3>2. QED
      BY <3>1 DEF DownIsDown
  <2>11. QED
    BY <2>4, <2>7, <2>9, <2>10 DEF Sane, MainHasApp
<1>3. CASE TakeRestart
  <2>1. main' \in MainTypes /\ main'.pc = "stop" /\ main.pc = "wait"
    BY <1>3 DEF TakeRestart, MainTypes, Stages
  <2>2. QED
    BY <1>3, <2>1 DEF TakeRestart, Sane, TypeOK, MainHasApp, DownIsDown, configVars, reqVars
<1>4. CASE MainShuts
  <2>1. main.stage \in Stages /\ main.pc = "stop"
    <3>1. main \in MainTypes /\ main.pc = "stop"
      BY <1>4 DEF MainShuts, Sane, TypeOK
    <3>2. main \in [pc : {"stop"}, stage : Stages]
      BY <3>1 DEF MainTypes
    <3>3. QED
      BY <3>1, <3>2
  <2>2. apps \in 1 .. apps /\ app[apps] \in AppTypes
    BY <2>1, AppsAreTyped DEF Sane, MainHasApp
  <2>3. app[apps].down["main"] => app[apps].srv["main"] # "serving"
    BY <2>2 DEF Sane, DownIsDown
  <2>4. /\ app' = [app EXCEPT ![apps] = Shut(app[apps], main.stage)] /\ apps' = apps
    BY <1>4 DEF MainShuts
  <2>5. /\ Shut(app[apps], main.stage) \in AppTypes
        /\ Shut(app[apps], main.stage).down["main"] =>
             Shut(app[apps], main.stage).srv["main"] # "serving"
    BY <2>1, <2>2, <2>3, ShutFacts
  <2>6. /\ app' \in [Apps -> {NoApp} \union AppTypes]
        /\ \A h \in Apps : app'[h] = NoApp <=> h > apps'
        /\ DownIsDown'
    BY <2>2, <2>4, <2>5, Replaced
  <2>7. main' \in MainTypes /\ main'.pc \in {"new", "stop"}
    BY <1>4, <2>1 DEF MainShuts, MainTypes, Following, Stages
  <2>8. late' \subseteq Requests
    BY <1>4 DEF MainShuts, Waits, Drained, InFlight, Sane, TypeOK
  <2>9. TypeOK'
    BY <1>4, <2>4, <2>6, <2>7, <2>8 DEF MainShuts, configVars, Sane, TypeOK
  <2>10. QED
    BY <2>2, <2>4, <2>6, <2>7, <2>9 DEF Sane, MainHasApp
<1>5. CASE TakeResult \/ NewAppFails \/ NewAppPanics
  <2>1. Ends /\ signals' = signals
    BY <1>5 DEF Ends, TakeResult, NewAppFails, NewAppPanics
  <2>2. QED
    BY <2>1, SaneExit DEF Sane, TypeOK
<1>6. QED
  BY <1>1, <1>2, <1>3, <1>4, <1>5 DEF MainStep

\* The goroutines of an app.
LEMMA SaneApp ==
    ASSUME Sane, NEW g \in Apps, AppStep(g) \/ WaiterStep(g)
    PROVE  Sane'
<1>1. /\ g \in 1 .. apps /\ app[g] \in AppTypes
      /\ app[g].down["main"] => app[g].srv["main"] # "serving"
  <2>1. g \in 1 .. apps
    BY DEF AppStep, WaiterStep, Bind, Serve, AwaitSignal, Wake, WaiterShuts, Alive
  <2>2. QED
    BY <2>1, AppsAreTyped DEF Sane, DownIsDown
<1>2. /\ UNCHANGED <<configVars, mainVars, req, signals>> /\ late' \subseteq Requests
      /\ apps' = apps
  BY DEF AppStep, WaiterStep, Bind, Serve, AwaitSignal, Wake, WaiterShuts, Waits, Drained,
     InFlight, mainVars, reqVars, Sane, TypeOK
<1>3. SUFFICES ASSUME NEW a \in AppTypes, app' = [app EXCEPT ![g] = a],
                      a.down["main"] => a.srv["main"] # "serving"
               PROVE  Sane'
  <2> DEFINE Kept == \E a \in AppTypes : /\ app' = [app EXCEPT ![g] = a]
                                         /\ a.down["main"] => a.srv["main"] # "serving"
  <2>1. ASSUME NEW s \in Servers, Bind(g, s) PROVE Kept
    <3>1. ASSUME NEW b \in {"returned", "bound"}, app' = [app EXCEPT ![g].srv[s] = b]
          PROVE  Kept
      <4> DEFINE a == [app[g] EXCEPT !.srv[s] = b]
      <4>1. a \in AppTypes /\ (a.down["main"] => a.srv["main"] # "serving")
        BY <1>1, <3>1 DEF AppTypes, ServerStates
      <4>2. app' = [app EXCEPT ![g] = a]
        BY <3>1
      <4>3. QED
        BY <4>1, <4>2
    <3>2. QED
      BY <2>1, <3>1 DEF Bind
  <2>2. ASSUME NEW s \in Servers, Serve(g, s) PROVE Kept
    <3> DEFINE b == IF app[g].down[s] THEN "returned" ELSE "serving"
               a == [app[g] EXCEPT !.srv[s] = b]
    <3>1. a \in AppTypes /\ (a.down["main"] => a.srv["main"] # "serving")
      BY <1>1, <2>2 DEF AppTypes, ServerStates
    <3>2. app' = [app EXCEPT ![g] = a]
      BY <2>2 DEF Serve
    <3>3. QED
      BY <3>1, <3>2
  <2>3. ASSUME AwaitSignal(g) \/ Wake(g) PROVE Kept
    <3> DEFINE a1 == [app[g] EXCEPT !.waiter = "wait"]
               a2 == [app[g] EXCEPT !.done = FALSE, !.waiter = "done"]
               a3 == [app[g] EXCEPT !.sig = FALSE, !.waiter = "begin"]
    <3>1. \A a \in {a1, a2, a3} : a \in AppTypes /\ (a.down["main"] => a.srv["main"] # "serving")
      BY <1>1 DEF AppTypes, Stages
    <3>2. \E a \in {a1, a2, a3} : app' = [app EXCEPT ![g] = a]
      BY <2>3 DEF AwaitSignal, Wake
    <3>3. QED
      BY <3>1, <3>2
  <2>4. ASSUME WaiterShuts(g) PROVE Kept
    <3> DEFINE b == Shut(app[g], app[g].waiter)
               a == [b EXCEPT !.waiter = Following(app[g].waiter)]
    <3>1. app[g].waiter \in Stages /\ app' = [app EXCEPT ![g] = a]
      BY <2>4 DEF WaiterShuts
    <3>2. b \in AppTypes /\ (b.down["main"] => b.srv["main"] # "serving")
      BY <1>1, <3>1, ShutFacts
    <3>3. Following(app[g].waiter) \in Stages \union {"new", "wait", "done"}
      BY <3>1 DEF Following, Stages
    <3>4. a \in AppTypes /\ (a.down["main"] => a.srv["main"] # "serving")
      BY <3>2, <3>3 DEF AppTypes
    <3>5. QED
      BY <3>1, <3>4
  <2>5. Kept
    <3> HIDE DEF Kept
    <3>1. ASSUME \E s \in Servers : Bind(g, s) PROVE Kept
      BY <2>1, <3>1
    <3>2. ASSUME \E s \in Servers : Serve(g, s) PROVE Kept
      BY <2>2, <3>2
    <3>3. \/ \E s \in Servers : Bind(g, s)
          \/ \E s \in Servers : Serve(g, s)
          \/ AwaitSignal(g) \/ Wake(g) \/ WaiterShuts(g)
      BY DEF AppStep, WaiterStep
    <3>4. QED
      BY <2>3, <2>4, <3>1, <3>2, <3>3
  <2>6. QED
    BY <1>3, <2>5
<1>4. /\ app' \in [Apps -> {NoApp} \union AppTypes]
      /\ \A h \in Apps : app'[h] = NoApp <=> h > apps'
      /\ DownIsDown'
  BY <1>1, <1>2, <1>3, Replaced
<1>5. TypeOK'
  BY <1>2, <1>4 DEF configVars, mainVars, Sane, TypeOK
<1>6. QED
  BY <1>2, <1>4, <1>5 DEF mainVars, Sane, MainHasApp

\* Signals and requests.
LEMMA SaneOutside ==
    ASSUME Sane,
           Signal \/ \E r \in Requests : Respond(r) \/ \E g \in Apps : Request(r, g)
    PROVE  Sane'
<1>1. CASE Signal
  <2>1. signals' \in 0 .. MaxSignals
    BY <1>1 DEF Ends, Signal, Sane, TypeOK
  <2>2. CASE Ends
    BY <2>1, <2>2, SaneExit
  <2>3. CASE ~Ends
    <3>1. /\ app' = [g \in Apps |-> IF g <= apps /\ app[g].waiter = "wait"
                                    THEN [app[g] EXCEPT !.sig = TRUE] ELSE app[g]]
          /\ UNCHANGED <<configVars, mainVars, reqVars>>
      BY <1>1, <2>3 DEF Ends, Signal
    <3>2. ASSUME NEW g \in Apps
          PROVE  /\ app'[g] \in {NoApp} \union AppTypes
                 /\ app'[g] = NoApp <=> g > apps
                 /\ g <= apps => /\ app'[g].down = app[g].down
                                 /\ app'[g].srv = app[g].srv
      <4>1. CASE g <= apps /\ app[g].waiter = "wait"
        <5>1. app[g] \in AppTypes
          BY <4>1, AppsAreTyped DEF Sane, Apps
        <5>2. app'[g] = [app[g] EXCEPT !.sig = TRUE]
          BY <3>1, <4>1
        <5>3. app'[g] \in AppTypes /\ app'[g].down = app[g].down /\ app'[g].srv = app[g].srv
          BY <5>1, <5>2 DEF AppTypes
        <5>4. ~(g > apps)
          BY <4>1 DEF Sane, TypeOK, Apps
        <5>5. QED
          BY <5>3, <5>4, NoAppIsNone
      <4>2. CASE ~(g <= apps /\ app[g].waiter = "wait")
        BY <3>1, <4>2 DEF Sane, TypeOK
      <4>3. QED
        BY <4>1, <4>2
    <3>3. app' \in [Apps -> {NoApp} \union AppTypes]
      BY <3>1, <3>2
    <3>4. TypeOK'
      BY <2>1, <3>1, <3>2, <3>3 DEF configVars, mainVars, reqVars, Sane, TypeOK
    <3>5. QED
      BY <3>1, <3>2, <3>4, AppsAreTyped DEF mainVars, Sane, MainHasApp, DownIsDown
  <2>4. QED
    BY <2>2, <2>3
<1>2. ASSUME NEW r \in Requests, Respond(r) PROVE Sane'
  <2>1. req' \in [Requests -> 0 .. apps'] /\ late' \subseteq Requests
    BY <1>2 DEF Respond, mainVars, Sane, TypeOK
  <2>2. QED
    BY <1>2, <2>1 DEF Respond, configVars, mainVars, Sane, TypeOK, MainHasApp, DownIsDown
<1>3. ASSUME NEW r \in Requests, NEW g \in Apps, Request(r, g) PROVE Sane'
  <2>1. CASE Ends
    BY <1>3, <2>1, SaneExit DEF Ends, Request, Sane, TypeOK
  <2>2. CASE ~Ends
    <3>1. /\ req' = [req EXCEPT ![r] = g] /\ g \in 1 .. apps
          /\ UNCHANGED <<configVars, mainVars, app, late, signals>>
      BY <1>3, <2>2 DEF Ends, Request, Alive
    <3>2. req' \in [Requests -> 0 .. apps']
      BY <3>1 DEF mainVars, Sane, TypeOK
    <3>3. QED
      BY <3>1, <3>2 DEF configVars, mainVars, Sane, TypeOK, MainHasApp, DownIsDown
  <2>3. QED
    BY <2>1, <2>2
<1>4. QED
  BY <1>1, <1>2, <1>3

LEMMA SaneStep == Sane /\ [Next]_vars => Sane'
<1>1. SUFFICES ASSUME Sane, UNCHANGED vars PROVE Sane'
  BY SaneWatcher, SaneMain, SaneApp, SaneOutside DEF Next
<1>2. QED
  BY <1>1 DEF vars, configVars, mainVars, reqVars, Sane, TypeOK, MainHasApp, DownIsDown

\* Every variable keeps its type, and there are as many apps as were built.
THEOREM TypeCorrect == Spec => []TypeOK
<1>1. Sane => TypeOK
  BY DEF Sane
<1>2. QED
  BY SaneInit, SaneStep, <1>1, PTL DEF Spec

-----------------------------------------------------------------------------
(* Restarts.                                                                *)

\* A restart asked for, and one begun, took a validation of its own.
Asked == IF restart THEN 1 ELSE 0
RestartInv == apps + Asked <= accepted + (IF main.pc = "wait" THEN 1 ELSE 0)

LEMMA RestartStep == Sane /\ RestartInv /\ [Next]_vars => RestartInv'
<1>1. SUFFICES ASSUME Sane, RestartInv, [Next]_vars PROVE RestartInv'
  OBVIOUS
<1>2. /\ apps \in Nat /\ accepted \in Nat
  BY <1>1 DEF Sane, TypeOK
<1> USE DEF RestartInv, Asked
<1>3. CASE Ends
  BY <1>2, <1>3 DEF Ends, Exit
<1>4. CASE UNCHANGED mainVars /\ UNCHANGED accepted
  BY <1>1, <1>4 DEF mainVars
<1>5. CASE Validate
  <2>1. CASE config.kind = "valid"
    BY <1>1, <1>2, <1>5, <2>1 DEF Validate, Passes, Notified
  <2>2. CASE config.kind # "valid"
    BY <1>1, <1>2, <1>5, <2>2 DEF Validate, Passes
  <2>3. QED
    BY <2>1, <2>2
<1>6. CASE InitStorage
  BY <1>1, <1>2, <1>6 DEF InitStorage, configVars
<1>7. CASE FinishApp
  BY <1>1, <1>2, <1>7 DEF FinishApp, configVars
<1>8. CASE TakeRestart
  BY <1>1, <1>2, <1>8 DEF TakeRestart, configVars
<1>9. CASE MainShuts
  BY <1>1, <1>2, <1>9 DEF MainShuts, configVars
<1>10. ASSUME NEW g \in Apps, AppStep(g) \/ WaiterStep(g)
       PROVE  UNCHANGED mainVars /\ UNCHANGED accepted
  BY <1>10 DEF AppStep, WaiterStep, Bind, Serve, AwaitSignal, Wake, WaiterShuts, configVars
<1>11. ASSUME \/ (\E kind \in Kinds : Edit(kind)) \/ Load \/ UNCHANGED vars
              \/ \E r \in Requests : Respond(r)
       PROVE  UNCHANGED mainVars /\ UNCHANGED accepted
  BY <1>11 DEF Edit, Load, Respond, vars, configVars
<1>12. ASSUME \/ Signal \/ TakeResult \/ NewAppFails \/ NewAppPanics
              \/ \E r \in Requests, g \in Apps : Request(r, g)
       PROVE  Ends \/ (UNCHANGED mainVars /\ UNCHANGED accepted)
  BY <1>12 DEF Ends, Signal, TakeResult, NewAppFails, NewAppPanics, Request, configVars
<1>13. QED
  BY <1>1, <1>3, <1>4, <1>5, <1>6, <1>7, <1>8, <1>9, <1>10, <1>11, <1>12
  DEF Next, MainStep

\* There was never a restart without a changed configuration that had passed its
\* validation, and one such configuration makes one restart at most.
THEOREM RestartsAreAskedFor == Spec => []RestartsOnlyOnValid
<1>1. Init => RestartInv
  BY DEF Init, RestartInv, Asked
<1>2. Sane /\ RestartInv => RestartsOnlyOnValid
  BY DEF Sane, TypeOK, RestartInv, Asked, RestartsOnlyOnValid
<1>3. QED
  BY SaneInit, SaneStep, RestartStep, <1>1, <1>2, PTL DEF Spec

-----------------------------------------------------------------------------
(* What the running app was built from.                                     *)

\* With nothing pending and a valid configuration, what was read of it so far is
\* what it is.
BuildInv ==
    ~restart /\ watcher = "idle" /\ config.kind = "valid" =>
        /\ main.pc = "wait" => built = <<config, config>>
        /\ main.pc = "build" => main.read = config

LEMMA BuildStep == BuildInv /\ [Next]_vars => BuildInv'
<1>1. SUFFICES ASSUME BuildInv, [Next]_vars PROVE BuildInv'
  OBVIOUS
<1> USE DEF BuildInv
<1>2. CASE Ends
  BY <1>2 DEF Ends, Exit
<1>3. CASE UNCHANGED mainVars /\ UNCHANGED <<watcher, config>>
  BY <1>1, <1>3 DEF mainVars
<1>4. CASE Load
  BY <1>4 DEF Load
<1>5. CASE Validate
  BY <1>5 DEF Validate, Passes, Notified
<1>6. CASE InitStorage
  BY <1>1, <1>6 DEF InitStorage, configVars
<1>7. CASE FinishApp
  BY <1>1, <1>7 DEF FinishApp, configVars
<1>8. CASE TakeRestart
  BY <1>1, <1>8 DEF TakeRestart, configVars
<1>9. CASE MainShuts
  BY <1>1, <1>9 DEF MainShuts, configVars
<1>10. ASSUME NEW g \in Apps, AppStep(g) \/ WaiterStep(g)
       PROVE  UNCHANGED mainVars /\ UNCHANGED <<watcher, config>>
  BY <1>10 DEF AppStep, WaiterStep, Bind, Serve, AwaitSignal, Wake, WaiterShuts, configVars
<1>11. ASSUME \/ (\E kind \in Kinds : Edit(kind)) \/ UNCHANGED vars
              \/ \E r \in Requests : Respond(r)
       PROVE  UNCHANGED mainVars /\ UNCHANGED <<watcher, config>>
  BY <1>11 DEF Edit, Respond, vars, configVars
<1>12. ASSUME \/ Signal \/ TakeResult \/ NewAppFails \/ NewAppPanics
              \/ \E r \in Requests, g \in Apps : Request(r, g)
       PROVE  Ends \/ (UNCHANGED mainVars /\ UNCHANGED <<watcher, config>>)
  BY <1>12 DEF Ends, Signal, TakeResult, NewAppFails, NewAppPanics, Request, configVars
<1>13. QED
  BY <1>1, <1>2, <1>3, <1>4, <1>5, <1>6, <1>7, <1>8, <1>9, <1>10, <1>11, <1>12
  DEF Next, MainStep

\* Once the watcher and the main goroutine have settled on a valid configuration,
\* both halves of the running app were built from it.
THEOREM SettledAppIsCurrent == Spec => []SettledIsCurrent
<1>1. Init => BuildInv
  BY DEF Init, BuildInv
<1>2. BuildInv => SettledIsCurrent
  BY DEF BuildInv, SettledIsCurrent
<1>3. QED
  BY BuildStep, <1>1, <1>2, PTL DEF Spec

-----------------------------------------------------------------------------
(* The clients stay open while they are used.                               *)

\* The last stage of a shutdown of app g is due or over; the one before it is.
PastDrain(g) ==
    \/ app[g].storage = "closed" \/ app[g].waiter = "close"
    \/ main.pc = "stop" /\ main.stage = "close" /\ g = apps
PastBegin(g) ==
    \/ PastDrain(g) \/ app[g].waiter = "drain"
    \/ main.pc = "stop" /\ main.stage = "drain" /\ g = apps

\* By then no request gets in, and those there are have been waited for.
OpenInv ==
    \A g \in 1 .. apps :
        /\ PastBegin(g) => app[g].down["main"]
        /\ PastDrain(g) => InFlight(g) \subseteq late

\* An app is as far as it was, and its requests are not more than they were.
LEMMA OpenUntouched ==
    ASSUME OpenInv, NEW g \in 1 .. apps,
           app'[g].storage = app[g].storage, app'[g].waiter \notin {"drain", "close"}
             \/ app'[g].waiter = app[g].waiter,
           app[g].down["main"] => app'[g].down["main"],
           (g = apps' /\ main'.pc = "stop" /\ main'.stage # "begin") => g = apps /\ main' = main,
           InFlight(g)' \ late' \subseteq InFlight(g) \ late
    PROVE  /\ PastBegin(g)' => app'[g].down["main"]
           /\ PastDrain(g)' => InFlight(g)' \subseteq late'
<1>1. PastDrain(g)' => PastDrain(g)
  BY DEF PastDrain
<1>2. PastBegin(g)' => PastBegin(g)
  BY <1>1 DEF PastBegin
<1>3. QED
  BY <1>1, <1>2 DEF OpenInv

LEMMA OpenMain ==
    ASSUME Sane, OpenInv, MainStep \/ NewAppFails
    PROVE  OpenInv'
<1>1. CASE InitStorage
  <2>1. /\ UNCHANGED <<apps, app, req, late>> /\ main'.pc = "build"
    BY <1>1 DEF InitStorage, reqVars
  <2>2. QED
    BY <2>1, OpenUntouched DEF OpenInv, InFlight
<1>2. CASE FinishApp
  <2>1. /\ apps' = apps + 1 /\ apps \in Nat /\ main'.pc = "wait" /\ req' = req /\ late' = late
        /\ app' = [app EXCEPT ![apps + 1] = NewApp(main.clients)]
    BY <1>2, AppsAreTyped DEF FinishApp, reqVars, Sane
  <2>2. apps + 1 \in Apps
    BY <1>2, <2>1 DEF FinishApp, Sane, MainHasApp, Apps, TypeOK
  <2>3. app'[apps + 1] = NewApp(main.clients)
    BY <2>1, <2>2 DEF Sane, TypeOK
  <2>4. \A g \in 1 .. apps : app'[g] = app[g] /\ InFlight(g)' = InFlight(g)
    BY <2>1, <2>2, AppsAreTyped DEF Sane, TypeOK, InFlight
  <2>5. ASSUME NEW g \in 1 .. apps'
        PROVE  /\ PastBegin(g)' => app'[g].down["main"]
               /\ PastDrain(g)' => InFlight(g)' \subseteq late'
    <3>1. CASE g = apps + 1
      <4>1. ~PastBegin(g)' /\ ~PastDrain(g)'
        BY <2>1, <2>3, <3>1 DEF PastBegin, PastDrain, NewApp
      <4>2. QED
        BY <4>1
    <3>2. CASE g # apps + 1
      <4>1. g \in 1 .. apps
        BY <2>1, <3>2
      <4>2. QED
        BY <2>1, <2>4, <4>1, OpenUntouched
    <3>3. QED
      BY <3>1, <3>2
  <2>6. QED
    BY <2>5 DEF OpenInv
<1>3. CASE TakeRestart
  <2>1. /\ UNCHANGED <<apps, app, req, late>> /\ main'.pc = "stop" /\ main'.stage = "begin"
    BY <1>3 DEF TakeRestart, reqVars
  <2>2. QED
    BY <2>1, OpenUntouched DEF OpenInv, InFlight
<1>4. CASE MainShuts
  <2>1. /\ main.pc = "stop" /\ main.stage \in Stages /\ apps \in 1 .. apps
        /\ app[apps] \in AppTypes
        /\ app[apps].down["main"] => app[apps].srv["main"] # "serving"
    <3>1. main \in MainTypes /\ main.pc = "stop"
      BY <1>4 DEF MainShuts, Sane, TypeOK
    <3>2. main \in [pc : {"stop"}, stage : Stages]
      BY <3>1 DEF MainTypes
    <3>3. QED
      BY <3>1, <3>2, AppsAreTyped DEF Sane, MainHasApp, DownIsDown
  <2>2. /\ apps' = apps /\ req' = req /\ Waits(apps, main.stage)
        /\ app' = [app EXCEPT ![apps] = Shut(app[apps], main.stage)]
    BY <1>4 DEF MainShuts
  <2>3. /\ app'[apps] = Shut(app[apps], main.stage)
        /\ \A g \in (1 .. apps) \ {apps} : app'[g] = app[g]
    BY <2>1, <2>2, AppsAreTyped DEF Sane, TypeOK
  <2>4. /\ main.stage = "begin" \/ app[apps].down["main"] => app'[apps].down["main"]
        /\ main.stage # "close" => app'[apps].storage = app[apps].storage
        /\ app'[apps].waiter = app[apps].waiter
    BY <2>1, <2>3, ShutFacts
  <2>5. late \subseteq late' /\ (main.stage = "drain" => InFlight(apps) \subseteq late')
    BY <2>2 DEF Waits, Drained
  <2>6. main' = IF main.stage = "close" THEN [pc |-> "new"]
                ELSE [pc |-> "stop", stage |-> Following(main.stage)]
    BY <1>4 DEF MainShuts
  <2>7. ASSUME NEW g \in (1 .. apps) \ {apps}
        PROVE  /\ PastBegin(g)' => app'[g].down["main"]
               /\ PastDrain(g)' => InFlight(g)' \subseteq late'
    <3>1. InFlight(g)' = InFlight(g)
      BY <2>2 DEF InFlight
    <3>2. QED
      BY <2>2, <2>3, <2>5, <3>1, OpenUntouched
  <2>8. /\ PastBegin(apps)' => app'[apps].down["main"]
        /\ PastDrain(apps)' => InFlight(apps)' \subseteq late'
    <3>0. InFlight(apps)' = InFlight(apps)
      BY <2>2 DEF InFlight
    <3>1. CASE main.stage = "begin"
      <4>1. main'.pc = "stop" /\ main'.stage = "drain"
        BY <2>6, <3>1 DEF Following
      <4>2. app'[apps].down["main"]
        BY <2>4, <3>1
      <4>3. PastDrain(apps)' => PastDrain(apps)
        BY <2>2, <2>4, <3>1, <4>1 DEF PastDrain
      <4>4. QED
        BY <2>1, <2>5, <3>0, <4>2, <4>3 DEF OpenInv
    <3>2. CASE main.stage = "drain"
      <4>1. PastBegin(apps)
        BY <2>1, <3>2 DEF PastBegin
      <4>2. app'[apps].down["main"]
        BY <2>1, <2>4, <4>1 DEF OpenInv
      <4>3. QED
        BY <2>5, <3>0, <3>2, <4>2
    <3>3. CASE main.stage = "close"
      <4>1. PastBegin(apps) /\ PastDrain(apps)
        BY <2>1, <3>3 DEF PastBegin, PastDrain
      <4>2. app'[apps].down["main"] /\ InFlight(apps) \subseteq late
        BY <2>1, <2>4, <4>1 DEF OpenInv
      <4>3. QED
        BY <2>5, <3>0, <4>2
    <3>4. QED
      BY <2>1, <3>1, <3>2, <3>3 DEF Stages
  <2>9. QED
    BY <2>2, <2>7, <2>8 DEF OpenInv
<1>5. CASE TakeResult \/ NewAppFails \/ NewAppPanics
  BY <1>5 DEF TakeResult, NewAppFails, NewAppPanics, Ends, Exit, OpenInv
<1>6. QED
  BY <1>1, <1>2, <1>3, <1>4, <1>5 DEF MainStep

LEMMA OpenApp ==
    ASSUME Sane, OpenInv, NEW g \in Apps, AppStep(g) \/ WaiterStep(g)
    PROVE  OpenInv'
<1>1. /\ g \in 1 .. apps /\ app[g] \in AppTypes /\ app \in [Apps -> {NoApp} \union AppTypes]
      /\ app[g].down["main"] => app[g].srv["main"] # "serving"
  <2>1. g \in 1 .. apps
    BY DEF AppStep, WaiterStep, Bind, Serve, AwaitSignal, Wake, WaiterShuts, Alive
  <2>2. QED
    BY <2>1, AppsAreTyped DEF Sane, DownIsDown, TypeOK
<1>2. UNCHANGED <<main, apps, req>>
  BY DEF AppStep, WaiterStep, Bind, Serve, AwaitSignal, Wake, WaiterShuts, mainVars, reqVars
<1>3. late \subseteq late' /\ \A h \in (1 .. apps) \ {g} : app'[h] = app[h]
  <2>1. late \subseteq late'
    BY DEF AppStep, WaiterStep, Bind, Serve, AwaitSignal, Wake, WaiterShuts, Waits, Drained,
           reqVars
  <2>2. \A h \in (1 .. apps) \ {g} : app'[h] = app[h]
    BY <1>1, AppsAreTyped DEF Sane, AppStep, WaiterStep, Bind, Serve, AwaitSignal, Wake,
       WaiterShuts
  <2>3. QED
    BY <2>1, <2>2
<1>4. \A h : InFlight(h)' = InFlight(h)
  BY <1>2 DEF InFlight
<1>5. \A h \in (1 .. apps) \ {g} : /\ PastBegin(h)' => app'[h].down["main"]
                                   /\ PastDrain(h)' => InFlight(h)' \subseteq late'
  BY <1>2, <1>3, <1>4, OpenUntouched
<1>6. /\ PastBegin(g)' => app'[g].down["main"]
      /\ PastDrain(g)' => InFlight(g)' \subseteq late'
  <2>1. CASE (\E s \in Servers : Bind(g, s) \/ Serve(g, s)) \/ AwaitSignal(g) \/ Wake(g)
    <3>1. /\ app'[g].storage = app[g].storage /\ app'[g].down = app[g].down
          /\ app'[g].waiter \notin {"drain", "close"} \/ app'[g].waiter = app[g].waiter
      <4>1. ASSUME NEW s \in Servers, Bind(g, s) \/ Serve(g, s) PROVE <3>1
        BY <1>1, <4>1 DEF Bind, Serve, AppTypes
      <4>2. CASE AwaitSignal(g) \/ Wake(g)
        BY <1>1, <4>2 DEF AwaitSignal, Wake, AppTypes
      <4>3. QED
        BY <2>1, <4>1, <4>2
    <3>2. QED
      BY <1>1, <1>2, <1>3, <1>4, <3>1, OpenUntouched
  <2>2. CASE WaiterShuts(g)
    <3> DEFINE stage == app[g].waiter
    <3>1. /\ stage \in Stages /\ Waits(g, stage)
          /\ app'[g] = [Shut(app[g], stage) EXCEPT !.waiter = Following(stage)]
      BY <1>1, <2>2 DEF WaiterShuts
    <3>2. /\ Shut(app[g], stage) \in AppTypes
          /\ stage = "begin" \/ app[g].down["main"] => Shut(app[g], stage).down["main"]
          /\ stage # "close" => Shut(app[g], stage).storage = app[g].storage
      BY <1>1, <3>1, ShutFacts
    <3>3. /\ app'[g].down = Shut(app[g], stage).down
          /\ app'[g].storage = Shut(app[g], stage).storage
          /\ app'[g].waiter = Following(stage)
      BY <3>1, <3>2 DEF AppTypes
    <3>4. CASE stage = "begin"
      <4>1. app'[g].down["main"] /\ app'[g].waiter = "drain"
        BY <3>2, <3>3, <3>4 DEF Following
      <4>2. PastDrain(g)' => PastDrain(g)
        BY <1>2, <3>2, <3>3, <3>4, <4>1 DEF PastDrain
      <4>3. QED
        BY <1>1, <1>3, <1>4, <4>1, <4>2 DEF OpenInv
    <3>5. CASE stage = "drain"
      <4>1. app[g].down["main"]
        BY <1>1, <3>5 DEF OpenInv, PastBegin
      <4>2. InFlight(g) \subseteq late'
        BY <3>1, <3>5 DEF Waits, Drained
      <4>3. QED
        BY <1>4, <3>2, <3>3, <4>1, <4>2
    <3>6. CASE stage = "close"
      <4>1. PastDrain(g) /\ PastBegin(g)
        BY <3>6 DEF PastDrain, PastBegin
      <4>2. app[g].down["main"] /\ InFlight(g) \subseteq late
        BY <1>1, <4>1 DEF OpenInv
      <4>3. QED
        BY <1>3, <1>4, <3>2, <3>3, <4>2
    <3>7. QED
      BY <3>1, <3>4, <3>5, <3>6 DEF Stages
  <2>3. QED
    BY <2>1, <2>2 DEF AppStep, WaiterStep
<1>7. QED
  BY <1>2, <1>5, <1>6 DEF OpenInv

LEMMA OpenOutside ==
    ASSUME Sane, OpenInv,
           Signal \/ \E r \in Requests : Respond(r) \/ \E g \in Apps : Request(r, g)
    PROVE  OpenInv'
<1>0. CASE Ends
  BY <1>0 DEF Ends, Exit, OpenInv
<1>1. CASE Signal /\ ~Ends
  <2>1. /\ app' = [g \in Apps |-> IF g <= apps /\ app[g].waiter = "wait"
                                  THEN [app[g] EXCEPT !.sig = TRUE] ELSE app[g]]
        /\ UNCHANGED <<main, apps, req, late>>
    BY <1>1 DEF Ends, Signal, mainVars, reqVars
  <2>2. ASSUME NEW g \in 1 .. apps
        PROVE  /\ PastBegin(g)' => app'[g].down["main"]
               /\ PastDrain(g)' => InFlight(g)' \subseteq late'
    <3>1. g \in Apps /\ app[g] \in AppTypes
      BY AppsAreTyped DEF Sane
    <3>2. /\ app'[g].storage = app[g].storage /\ app'[g].down = app[g].down
          /\ app'[g].waiter = app[g].waiter
      BY <2>1, <3>1 DEF AppTypes
    <3>3. InFlight(g)' = InFlight(g)
      BY <2>1 DEF InFlight
    <3>4. QED
      BY <2>1, <3>2, <3>3, OpenUntouched
  <2>3. QED
    BY <2>1, <2>2 DEF OpenInv
<1>2. ASSUME NEW r \in Requests, Respond(r) PROVE OpenInv'
  <2>1. /\ UNCHANGED <<main, apps, app>> /\ late' = late \ {r}
        /\ req' = [req EXCEPT ![r] = 0]
    BY <1>2 DEF Respond, mainVars
  <2>2. \A g \in 1 .. apps : InFlight(g)' = InFlight(g) \ {r}
    BY <2>1 DEF InFlight, Sane, TypeOK
  <2>3. QED
    BY <2>1, <2>2, OpenUntouched DEF OpenInv
<1>3. ASSUME NEW r \in Requests, NEW g \in Apps, Request(r, g), ~Ends PROVE OpenInv'
  <2>1. /\ UNCHANGED <<main, apps, app, late>> /\ req' = [req EXCEPT ![r] = g]
        /\ g \in 1 .. apps /\ app[g].srv["main"] = "serving" /\ req[r] = 0
    BY <1>3 DEF Ends, Request, Alive, mainVars
  <2>2. ~PastBegin(g) /\ ~PastDrain(g)
    BY <2>1 DEF OpenInv, Sane, DownIsDown, PastBegin
  <2>3. ~PastBegin(g)' /\ ~PastDrain(g)'
    BY <2>1, <2>2 DEF PastBegin, PastDrain
  <2>4. \A h \in (1 .. apps) \ {g} : InFlight(h)' = InFlight(h)
    BY <2>1 DEF InFlight, Sane, TypeOK
  <2>5. \A h \in (1 .. apps) \ {g} : /\ PastBegin(h)' => app'[h].down["main"]
                                     /\ PastDrain(h)' => InFlight(h)' \subseteq late'
    BY <2>1, <2>4, OpenUntouched
  <2>6. QED
    BY <2>1, <2>3, <2>5 DEF OpenInv
<1>4. QED
  BY <1>0, <1>1, <1>2, <1>3

LEMMA OpenStep == Sane /\ OpenInv /\ [Next]_vars => OpenInv'
<1>1. SUFFICES ASSUME Sane, OpenInv,
                      \/ (\E kind \in Kinds : Edit(kind)) \/ Load \/ Validate
                      \/ UNCHANGED vars
               PROVE  OpenInv'
  BY OpenMain, OpenApp, OpenOutside DEF Next
<1>2. UNCHANGED <<main, apps, app, req, late>>
  BY <1>1 DEF Edit, Load, Validate, vars, mainVars, reqVars
<1>3. QED
  BY <1>1, <1>2 DEF OpenInv, PastBegin, PastDrain, InFlight

\* The clients of an app are open as long as it takes requests, and as long as it
\* has one that a shutdown did not give up: also when two shutdowns run at once.
THEOREM ClientsStayOpen == Spec => []ClientsOpenWhileServed
<1>1. Init => OpenInv
  BY DEF Init, OpenInv
<1>2. Sane /\ OpenInv => ClientsOpenWhileServed
  <2>1. SUFFICES ASSUME Sane, OpenInv, NEW g \in 1 .. apps, app[g].storage # "open"
                 PROVE  /\ app[g].srv["main"] # "serving"
                        /\ InFlight(g) \ late = {}
    BY DEF ClientsOpenWhileServed
  <2>2. app[g].storage = "closed"
    BY <2>1, AppsAreTyped DEF Sane, AppTypes
  <2>3. PastDrain(g) /\ PastBegin(g)
    BY <2>2 DEF PastDrain, PastBegin
  <2>4. app[g].down["main"] /\ InFlight(g) \subseteq late
    BY <2>1, <2>3 DEF OpenInv
  <2>5. QED
    BY <2>1, <2>4 DEF Sane, DownIsDown
<1>3. QED
  BY SaneInit, SaneStep, OpenStep, <1>1, <1>2, PTL DEF Spec

-----------------------------------------------------------------------------
(* The process keeps the promises of AppSupervisor.                         *)

\* Only the last app's storage is open, and none when the next one is built; a
\* request that was given up has not ended.
OldClosed ==
    \A g \in 1 .. apps :
        app[g].storage = "open" => g = apps /\ main.pc \notin {"new", "build"}
LateBusy == \A r \in late : req[r] # 0

Kept == Sane /\ RestartInv /\ OpenInv /\ OldClosed /\ LateBusy

\* The last stage of a shutdown closes the storage, and no other touches it.
LEMMA ShutStorage ==
    ASSUME NEW a \in AppTypes, NEW stage \in Stages
    PROVE  Shut(a, stage).storage = IF stage = "close" THEN "closed" ELSE a.storage
<1>1. CASE stage = "begin"
  BY <1>1, StoppedFacts DEF Shut, Begun
<1>2. CASE stage = "drain"
  <2>1. Shut(a, stage) = a \/ ("metrics" \in Servers /\ Shut(a, stage) = Stopped(a, "metrics"))
    BY <1>2 DEF Shut, MetricsStopped
  <2>2. QED
    BY <1>2, <2>1, StoppedFacts
<1>3. CASE stage = "close"
  BY <1>3 DEF Shut, Closed, AppTypes
<1>4. QED
  BY <1>1, <1>2, <1>3 DEF Stages

\* A stage of the shutdown of app g, whoever takes it.
Stage(g, stage) ==
    /\ g \in 1 .. apps /\ stage \in Stages
    /\ Waits(g, stage)
    /\ stage = "close" => PastDrain(g)
    /\ app'[g].storage = IF stage = "close" THEN "closed" ELSE app[g].storage
    /\ \A h \in (1 .. apps) \ {g} : app'[h].storage = app[h].storage
    /\ Running /\ Running' /\ UNCHANGED <<apps, req, accepted>>

LEMMA WaiterTakesStage ==
    ASSUME Sane, NEW g \in Apps, WaiterShuts(g)
    PROVE  Stage(g, app[g].waiter) /\ UNCHANGED main
<1>1. /\ g \in 1 .. apps /\ app[g] \in AppTypes /\ app \in [Apps -> {NoApp} \union AppTypes]
      /\ app[g].waiter \in Stages
  BY AppsAreTyped DEF WaiterShuts, Alive, Sane, TypeOK
<1>2. app'[g] = [Shut(app[g], app[g].waiter) EXCEPT !.waiter = Following(app[g].waiter)]
  BY <1>1 DEF WaiterShuts
<1>3. Shut(app[g], app[g].waiter) \in AppTypes
  BY <1>1, ShutFacts DEF Sane, DownIsDown
<1>4. app'[g].storage = Shut(app[g], app[g].waiter).storage
  BY <1>2, <1>3 DEF AppTypes
<1>5. \A h \in (1 .. apps) \ {g} : app'[h].storage = app[h].storage
  BY <1>1, AppsAreTyped DEF WaiterShuts, Sane
<1>6. /\ Running /\ Running' /\ UNCHANGED <<main, apps, req, accepted>>
      /\ Waits(g, app[g].waiter)
  BY DEF WaiterShuts, Alive, Running, mainVars, configVars
<1>7. QED
  BY <1>1, <1>4, <1>5, <1>6, ShutStorage DEF Stage, PastDrain

LEMMA MainTakesStage ==
    ASSUME Sane, MainShuts
    PROVE  /\ Stage(apps, main.stage)
           /\ main'.pc \in {"new", "build"} => main.stage = "close"
<1>1. main.pc = "stop" /\ main.stage \in Stages
  <2>1. main \in MainTypes /\ main.pc = "stop"
    BY DEF MainShuts, Sane, TypeOK
  <2>2. main \in [pc : {"stop"}, stage : Stages]
    BY <2>1 DEF MainTypes
  <2>3. QED
    BY <2>1, <2>2
<1>2. apps \in 1 .. apps /\ app[apps] \in AppTypes /\ app \in [Apps -> {NoApp} \union AppTypes]
  BY <1>1, AppsAreTyped DEF Sane, MainHasApp, TypeOK
<1>3. /\ app'[apps] = Shut(app[apps], main.stage)
      /\ \A h \in (1 .. apps) \ {apps} : app'[h].storage = app[h].storage
  BY <1>2, AppsAreTyped DEF MainShuts, Sane
<1>4. main'.pc = IF main.stage = "close" THEN "new" ELSE "stop"
  BY DEF MainShuts
<1>5. Running /\ Running' /\ UNCHANGED <<apps, req, accepted>> /\ Waits(apps, main.stage)
  BY <1>1, <1>4 DEF MainShuts, Running, configVars
<1>6. QED
  BY <1>1, <1>2, <1>3, <1>4, <1>5, ShutStorage DEF Stage, PastDrain

\* Where nothing is built and no storage opened, the last app stays the only one.
LEMMA OldStaysClosed ==
    ASSUME OldClosed, apps' = apps,
           \A g \in 1 .. apps : app'[g].storage \in {app[g].storage, "closed"},
           main'.pc \in {"new", "build"} =>
               \/ main.pc \in {"new", "build"}
               \/ \A g \in 1 .. apps : g = apps => app'[g].storage = "closed"
    PROVE  OldClosed'
  BY DEF OldClosed

LEMMA OldClosedStep == Sane /\ OldClosed /\ [Next]_vars => OldClosed'
<1>1. SUFFICES ASSUME Sane, OldClosed, [Next]_vars PROVE OldClosed'
  OBVIOUS
<1>2. CASE Ends
  BY <1>2 DEF Ends, Exit, OldClosed
<1>3. CASE FinishApp
  <2>1. /\ apps' = apps + 1 /\ apps \in Nat /\ main'.pc = "wait" /\ main.pc = "build"
        /\ app' = [app EXCEPT ![apps + 1] = NewApp(main.clients)]
    BY <1>1, <1>3, AppsAreTyped DEF FinishApp, Sane
  <2>2. \A g \in 1 .. apps : app'[g] = app[g]
    BY <1>1, <2>1, AppsAreTyped DEF Sane, TypeOK
  <2>3. ASSUME NEW g \in 1 .. apps', app'[g].storage = "open" PROVE g = apps'
    BY <1>1, <2>1, <2>2, <2>3 DEF OldClosed
  <2>4. QED
    BY <2>1, <2>3 DEF OldClosed
<1>4. ASSUME NEW g \in Apps, WaiterShuts(g) PROVE OldClosed'
  BY <1>1, <1>4, WaiterTakesStage, OldStaysClosed DEF Stage
<1>5. CASE MainShuts
  BY <1>1, <1>5, MainTakesStage, OldStaysClosed DEF Stage
<1>6. ASSUME \/ InitStorage \/ TakeRestart \/ Load \/ Validate \/ UNCHANGED vars
             \/ (\E kind \in Kinds : Edit(kind)) \/ (\E r \in Requests : Respond(r))
      PROVE  /\ UNCHANGED <<apps, app>>
             /\ main'.pc \in {"new", "build"} => main.pc \in {"new", "build"}
  BY <1>6 DEF InitStorage, TakeRestart, Load, Validate, Edit, Respond, vars, mainVars
<1>7. ASSUME NEW g \in Apps, AppStep(g) \/ Wake(g)
      PROVE  /\ UNCHANGED <<apps, main>>
             /\ \A h \in 1 .. apps : app'[h].storage = app[h].storage
  <2>1. UNCHANGED <<apps, main>>
    BY <1>7 DEF AppStep, Bind, Serve, AwaitSignal, Wake, mainVars
  <2>2. ASSUME NEW h \in 1 .. apps PROVE app'[h].storage = app[h].storage
    <3>1. app[h] \in AppTypes /\ app \in [Apps -> {NoApp} \union AppTypes]
      BY <1>1, AppsAreTyped DEF Sane, TypeOK
    <3>2. h \in Apps
      BY <1>1, AppsAreTyped DEF Sane
    <3>3. ASSUME NEW s \in Servers, Bind(g, s) \/ Serve(g, s)
          PROVE  app'[h].storage = app[h].storage
      BY <3>1, <3>2, <3>3 DEF Bind, Serve, AppTypes
    <3>4. CASE AwaitSignal(g) \/ Wake(g)
      BY <3>1, <3>2, <3>4 DEF AwaitSignal, Wake, AppTypes
    <3>5. QED
      BY <1>7, <3>3, <3>4 DEF AppStep
  <2>3. QED
    BY <2>1, <2>2
<1>8. ASSUME Signal, ~Ends
      PROVE  /\ UNCHANGED <<apps, main>>
             /\ \A h \in 1 .. apps : app'[h].storage = app[h].storage
  <2>1. UNCHANGED <<apps, main>>
    BY <1>8 DEF Ends, Signal, mainVars
  <2>2. ASSUME NEW h \in 1 .. apps PROVE app'[h].storage = app[h].storage
    <3>1. h \in Apps /\ app[h] \in AppTypes
      BY <1>1, AppsAreTyped DEF Sane
    <3>2. QED
      BY <1>8, <3>1 DEF Ends, Signal, AppTypes
  <2>3. QED
    BY <2>1, <2>2
<1>9. ASSUME NEW r \in Requests, NEW g \in Apps, Request(r, g), ~Ends
      PROVE  UNCHANGED <<apps, main, app>>
  BY <1>9 DEF Ends, Request, mainVars
<1>10. CASE TakeResult \/ NewAppFails \/ NewAppPanics
  BY <1>2, <1>10 DEF Ends, TakeResult, NewAppFails, NewAppPanics
<1>11. QED
  BY <1>1, <1>2, <1>3, <1>4, <1>5, <1>6, <1>7, <1>8, <1>9, <1>10, OldStaysClosed
  DEF Next, MainStep, WaiterStep

LEMMA LateBusyStep == Sane /\ LateBusy /\ [Next]_vars => LateBusy'
<1>1. SUFFICES ASSUME Sane, LateBusy, [Next]_vars PROVE LateBusy'
  OBVIOUS
<1>2. CASE Ends
  BY <1>2 DEF Ends, Exit, LateBusy
<1>3. ASSUME NEW g, NEW stage, g \in 1 .. apps, Waits(g, stage), req' = req PROVE LateBusy'
  BY <1>1, <1>3, AppsAreTyped DEF Waits, Drained, InFlight, LateBusy, Sane
<1>4. ASSUME NEW g \in Apps, WaiterShuts(g) PROVE LateBusy'
  BY <1>1, <1>3, <1>4, WaiterTakesStage DEF Stage
<1>5. CASE MainShuts
  BY <1>1, <1>3, <1>5, MainTakesStage DEF Stage
<1>6. ASSUME NEW r \in Requests, Respond(r) PROVE LateBusy'
  BY <1>1, <1>6 DEF Respond, LateBusy, Sane, TypeOK
<1>7. ASSUME NEW r \in Requests, NEW g \in Apps, Request(r, g), ~Ends PROVE LateBusy'
  <2>1. late' = late /\ req' = [req EXCEPT ![r] = g] /\ g # 0
    BY <1>7, <1>1 DEF Ends, Request, Alive, Apps, Sane, TypeOK
  <2>2. QED
    BY <1>1, <2>1 DEF LateBusy, Sane, TypeOK
<1>8. ASSUME \/ InitStorage \/ TakeRestart \/ FinishApp \/ Load \/ Validate \/ UNCHANGED vars
             \/ (\E kind \in Kinds : Edit(kind)) \/ (Signal /\ ~Ends)
             \/ (\E g \in Apps : AppStep(g) \/ Wake(g))
      PROVE  UNCHANGED <<req, late>>
  BY <1>8 DEF Ends, InitStorage, TakeRestart, FinishApp, Load, Validate, Edit, Signal, vars,
     AppStep, Bind, Serve, AwaitSignal, Wake, reqVars
<1>9. CASE TakeResult \/ NewAppFails \/ NewAppPanics
  BY <1>2, <1>9 DEF Ends, TakeResult, NewAppFails, NewAppPanics
<1>10. QED
  BY <1>1, <1>2, <1>4, <1>5, <1>6, <1>7, <1>8, <1>9 DEF Next, MainStep, WaiterStep, LateBusy

LEMMA KeptInit == Init => Kept
<1>1. SUFFICES ASSUME Init PROVE Kept
  OBVIOUS
<1>2. apps = 0 /\ late = {} /\ accepted = 0 /\ restart = FALSE /\ main.pc = "new"
  BY <1>1 DEF Init
<1>3. QED
  BY <1>1, <1>2, SaneInit DEF Kept, RestartInv, Asked, OpenInv, OldClosed, LateBusy

LEMMA KeptStep == Kept /\ [Next]_vars => Kept'
  BY SaneStep, RestartStep, OpenStep, OldClosedStep, LateBusyStep DEF Kept

LEMMA KeptAlways == Spec => []Kept
  BY KeptInit, KeptStep, PTL DEF Spec

\* The one storage that may be open is the last app's.
LEMMA OpenIsLast ==
    ASSUME Kept
    PROVE  /\ Opened \subseteq {apps}
           /\ main.pc \in {"new", "build"} => Opened = {}
           /\ \A g \in 1 .. apps : app[g].storage = "closed" <=> g \notin Opened
<1>1. \A g \in 1 .. apps : app[g].storage \in {"open", "closed"}
  BY AppsAreTyped DEF Kept, Sane, AppTypes
<1>2. QED
  BY <1>1 DEF Kept, OldClosed, Opened

\* What is in flight, is at the last app or was given up.
LEMMA BusyOrLate ==
    ASSUME Kept
    PROVE  /\ \A g : g \in 1 .. apps /\ g \notin Opened => InFlight(g) \subseteq late
           /\ apps \in Opened => Supervisor!Busy = late \union InFlight(apps)
<1>1. \A g \in 1 .. apps : g \notin Opened => InFlight(g) \subseteq late
  BY OpenIsLast DEF Kept, OpenInv, PastDrain
<1>2. \A r \in Requests : req[r] # 0 => req[r] \in 1 .. apps /\ r \in InFlight(req[r])
  BY AppsAreTyped DEF Kept, Sane, TypeOK, InFlight
<1>3. apps \in Opened => \A r \in Requests : req[r] # 0 => r \in late \union InFlight(apps)
  BY <1>1, <1>2, OpenIsLast
<1>4. \A r \in late \union InFlight(apps) : r \in Requests /\ (apps \in Opened => req[r] # 0)
  BY DEF Kept, Sane, TypeOK, InFlight, LateBusy, Opened
<1>5. QED
  BY <1>1, <1>3, <1>4 DEF Supervisor!Busy

\* A stage of a shutdown gives up requests, takes the app down, or does nothing
\* that AppSupervisor sees, and that also when another shutdown was there first.
LEMMA StageMaps ==
    ASSUME Kept, NEW g, NEW stage, Stage(g, stage)
    PROVE  \/ Supervisor!GiveUp \/ Supervisor!TakeDown
           \/ UNCHANGED Supervisor!supervisorVars
<1>1. /\ g \in 1 .. apps /\ Running /\ Running' /\ UNCHANGED <<apps, req, accepted>>
      /\ Waits(g, stage) /\ stage \in Stages
  BY DEF Stage
<1>2. g \in Opened => g = apps /\ Opened = {g}
  BY OpenIsLast
<1>3. CASE stage # "close"
  <2>1. Opened' = Opened
    BY <1>1, <1>3 DEF Stage, Opened
  <2>2. CASE stage # "drain" \/ g \notin Opened
    <3>1. late' = late
      BY <1>1, <2>2, BusyOrLate DEF Waits, Drained
    <3>2. QED
      BY <1>1, <2>1, <3>1 DEF Supervisor!supervisorVars
  <2>3. CASE stage = "drain" /\ g \in Opened
    <3>1. late' = Supervisor!Busy
      BY <1>1, <1>2, <2>3, BusyOrLate DEF Waits, Drained
    <3>2. QED
      BY <1>1, <2>1, <2>3, <3>1 DEF Supervisor!GiveUp
  <2>4. QED
    BY <2>2, <2>3
<1>4. CASE stage = "close"
  <2>1. Opened' = Opened \ {g} /\ late' = late
    BY <1>1, <1>4 DEF Stage, Opened, Waits
  <2>2. CASE g \notin Opened
    BY <1>1, <2>1, <2>2 DEF Supervisor!supervisorVars
  <2>3. CASE g \in Opened
    <3>1. InFlight(g) \subseteq late
      BY <1>4 DEF Kept, OpenInv, Stage
    <3>2. Supervisor!Busy \subseteq late
      BY <1>2, <2>3, <3>1, BusyOrLate
    <3>3. Opened' = {} /\ Opened # {}
      BY <1>2, <2>1, <2>3
    <3>4. QED
      BY <1>1, <2>1, <3>2, <3>3 DEF Supervisor!TakeDown
  <2>4. QED
    BY <2>2, <2>3
<1>5. QED
  BY <1>3, <1>4

LEMMA ExitMaps ==
    ASSUME Ends
    PROVE  Supervisor!End
  BY DEF Ends, Exit, Running, Opened, Supervisor!End

\* The storage of no app changes.
LEMMA OpenedStays ==
    ASSUME apps' = apps, \A h \in 1 .. apps : app'[h].storage = app[h].storage
    PROVE  Opened' = Opened
  BY DEF Opened

LEMMA SupervisorStart == Init => Supervisor!SupervisorInit
  BY DEF Init, Running, Opened, Supervisor!SupervisorInit

LEMMA SupervisorStep == Kept /\ [Next]_vars => [Supervisor!SupervisorNext]_(Supervisor!supervisorVars)
<1>1. SUFFICES ASSUME Kept, [Next]_vars
               PROVE  Supervisor!SupervisorNext \/ UNCHANGED Supervisor!supervisorVars
  OBVIOUS
<1> USE DEF Supervisor!SupervisorNext
<1>2. CASE Ends
  BY <1>2, ExitMaps
<1>3. CASE FinishApp
  <2>1. /\ apps' = apps + 1 /\ apps \in Nat /\ main'.pc = "wait" /\ main.pc = "build"
        /\ app' = [app EXCEPT ![apps + 1] = NewApp(main.clients)]
        /\ UNCHANGED <<accepted, req, late>>
    BY <1>1, <1>3, AppsAreTyped DEF FinishApp, Kept, Sane, configVars, reqVars
  <2>2. apps + 1 \in Apps
    BY <1>1, <2>1 DEF Kept, Sane, MainHasApp, Apps, TypeOK
  <2>3. /\ \A g \in 1 .. apps : app'[g] = app[g]
        /\ app'[apps + 1].storage = "open"
    BY <1>1, <2>1, <2>2, AppsAreTyped DEF Kept, Sane, TypeOK, NewApp
  <2>4. Opened = {}
    BY <1>1, <2>1, OpenIsLast
  <2>5. \A g \in 1 .. apps : app'[g].storage # "open"
    BY <2>3, <2>4 DEF Opened
  <2>6. Opened' = {apps + 1}
    BY <2>1, <2>3, <2>5 DEF Opened
  <2>7. apps <= accepted
    BY <1>1, <2>1 DEF Kept, RestartInv, Asked, Sane, TypeOK
  <2>8. Running /\ Running'
    BY <2>1 DEF Running
  <2>9. Supervisor!BringUp
    BY <2>1, <2>4, <2>6, <2>7, <2>8 DEF Supervisor!BringUp
  <2>10. QED
    BY <2>9
<1>4. ASSUME NEW g \in Apps, WaiterShuts(g)
      PROVE  Supervisor!SupervisorNext \/ UNCHANGED Supervisor!supervisorVars
  BY <1>1, <1>4, WaiterTakesStage, StageMaps DEF Kept
<1>5. CASE MainShuts
  BY <1>1, <1>5, MainTakesStage, StageMaps DEF Kept
<1>6. ASSUME \/ InitStorage \/ TakeRestart \/ Load \/ UNCHANGED vars
             \/ (\E kind \in Kinds : Edit(kind))
      PROVE  UNCHANGED Supervisor!supervisorVars
  BY <1>6 DEF InitStorage, TakeRestart, Load, Edit, vars, configVars, mainVars, reqVars,
     Running, Opened, Supervisor!supervisorVars
<1>7. CASE Validate
  <2>1. /\ UNCHANGED <<main, apps, app, req, late>> /\ Running
        /\ accepted' \in {accepted, accepted + 1}
    BY <1>7 DEF Validate, reqVars
  <2>2. Opened' = Opened /\ Running'
    BY <2>1 DEF Opened, Running
  <2>3. CASE accepted' = accepted
    BY <2>1, <2>2, <2>3 DEF Supervisor!supervisorVars
  <2>4. CASE accepted' = accepted + 1
    BY <2>1, <2>2, <2>4 DEF Supervisor!Ask
  <2>5. QED
    BY <2>1, <2>3, <2>4
<1>8. ASSUME NEW g \in Apps, AppStep(g) \/ Wake(g)
      PROVE  UNCHANGED Supervisor!supervisorVars
  <2>1. UNCHANGED <<apps, main, accepted, req, late>>
    BY <1>8 DEF AppStep, Bind, Serve, AwaitSignal, Wake, mainVars, configVars, reqVars
  <2>2. ASSUME NEW h \in 1 .. apps PROVE app'[h].storage = app[h].storage
    <3>1. h \in Apps /\ app[h] \in AppTypes /\ app \in [Apps -> {NoApp} \union AppTypes]
      BY <1>1, AppsAreTyped DEF Kept, Sane, TypeOK
    <3>2. ASSUME NEW s \in Servers, Bind(g, s) \/ Serve(g, s)
          PROVE  app'[h].storage = app[h].storage
      BY <3>1, <3>2 DEF Bind, Serve, AppTypes
    <3>3. CASE AwaitSignal(g) \/ Wake(g)
      BY <3>1, <3>3 DEF AwaitSignal, Wake, AppTypes
    <3>4. QED
      BY <1>8, <3>2, <3>3 DEF AppStep
  <2>3. QED
    BY <2>1, <2>2, OpenedStays DEF Running, Supervisor!supervisorVars
<1>9. ASSUME Signal, ~Ends PROVE UNCHANGED Supervisor!supervisorVars
  <2>1. UNCHANGED <<apps, main, accepted, req, late>>
    BY <1>9 DEF Ends, Signal, mainVars, configVars, reqVars
  <2>2. ASSUME NEW h \in 1 .. apps PROVE app'[h].storage = app[h].storage
    <3>1. h \in Apps /\ app[h] \in AppTypes
      BY <1>1, AppsAreTyped DEF Kept, Sane
    <3>2. QED
      BY <1>9, <3>1 DEF Ends, Signal, AppTypes
  <2>3. QED
    BY <2>1, <2>2, OpenedStays DEF Running, Supervisor!supervisorVars
<1>10. ASSUME NEW r \in Requests, NEW g \in Apps, Request(r, g), ~Ends
       PROVE  Supervisor!Take(r)
  <2>1. /\ UNCHANGED <<main, apps, app, late, accepted>> /\ req' = [req EXCEPT ![r] = g]
        /\ g \in 1 .. apps /\ app[g].srv["main"] = "serving" /\ req[r] = 0
    BY <1>10 DEF Ends, Request, Alive, mainVars, configVars
  <2>2. g \in Opened
    BY <1>1, <2>1, OpenIsLast DEF Kept, OpenInv, Sane, DownIsDown, PastBegin, PastDrain
  <2>3. QED
    BY <2>1, <2>2 DEF Supervisor!Take, Opened, Running
<1>11. ASSUME NEW r \in Requests, Respond(r) PROVE Supervisor!Answer(r)
  BY <1>11 DEF Respond, mainVars, configVars, Supervisor!Answer, Opened, Running
<1>12. CASE TakeResult \/ NewAppFails \/ NewAppPanics
  BY <1>2, <1>12 DEF Ends, TakeResult, NewAppFails, NewAppPanics
<1>13. QED
  BY <1>1, <1>2, <1>3, <1>4, <1>5, <1>6, <1>7, <1>8, <1>9, <1>10, <1>11, <1>12
  DEF Next, MainStep, WaiterStep

\* The process keeps the promises of AppSupervisor, for any number of apps,
\* signals and requests, with restarts and signals at any moment.
THEOREM ProcessImplementsSupervisor == Spec => SupervisorSpec
  BY KeptAlways, SupervisorStart, SupervisorStep, PTL
     DEF Spec, SupervisorSpec, Supervisor!SupervisorSpec

\* No two apps have their storage open at a time, and none has while NewApp opens
\* the next one's, although a shutdown may be left to a signal's goroutine.
THEOREM OneStorageAtATime == Spec => []OldClosed
  BY KeptAlways, PTL DEF Kept

-----------------------------------------------------------------------------
(* What the waiter of an app leaves behind.                                 *)

\* App a was closed before it was told to be done, and a server that was shut
\* down does not serve.
Ended(a) ==
    /\ a.done \/ a.waiter = "done" => a.storage = "closed"
    /\ \A s \in Servers : a.down[s] => a.srv[s] # "serving"
AllDown(a) == \A s \in Servers : a.down[s]

\* By its last stage a shutdown has come to every server.
EndInv ==
    \A g \in 1 .. apps : Ended(app[g]) /\ (PastDrain(g) => AllDown(app[g]))

LEMMA EndKept ==
    ASSUME EndInv, NEW g \in 1 .. apps, Ended(app'[g]),
           AllDown(app[g]) => AllDown(app'[g]),
           PastDrain(g)' => PastDrain(g) \/ AllDown(app'[g])
    PROVE  (Ended(app[g]) /\ (PastDrain(g) => AllDown(app[g])))'
  BY DEF EndInv, Ended, AllDown

LEMMA ShutEnds ==
    ASSUME NEW a \in AppTypes, NEW stage \in Stages, Ended(a),
           stage # "begin" => a.down["main"], stage = "close" => AllDown(a)
    PROVE  /\ Shut(a, stage) \in AppTypes
           /\ Ended(Shut(a, stage))
           /\ AllDown(a) \/ stage = "drain" => AllDown(Shut(a, stage))
           /\ stage = "close" => Shut(a, stage).storage = "closed"
           /\ Shut(a, stage).waiter = a.waiter
<1> USE DEF Ended, AllDown
<1>1. CASE stage = "begin"
  BY <1>1 DEF Shut, Begun, Stopped, AppTypes, ServerStates
<1>2. CASE stage = "drain"
  BY <1>2 DEF Shut, MetricsStopped, Stopped, AppTypes, ServerStates
<1>3. CASE stage = "close"
  BY <1>3 DEF Shut, Closed, AppTypes
<1>4. QED
  BY <1>1, <1>2, <1>3 DEF Stages

LEMMA EndStep == Sane /\ OpenInv /\ EndInv /\ [Next]_vars => EndInv'
<1>1. SUFFICES ASSUME Sane, OpenInv, EndInv, [Next]_vars PROVE EndInv'
  OBVIOUS
<1> DEFINE Good(g) == (Ended(app[g]) /\ (PastDrain(g) => AllDown(app[g])))'
<1>2. /\ apps \in Nat /\ app \in [Apps -> {NoApp} \union AppTypes]
      /\ \A g \in 1 .. apps : g \in Apps /\ app[g] \in AppTypes
  BY <1>1, AppsAreTyped DEF Sane, TypeOK
<1>3. CASE Ends
  BY <1>3 DEF Ends, Exit, EndInv
<1>4. CASE FinishApp
  <2>1. /\ apps' = apps + 1 /\ main' = [pc |-> "wait"] /\ main.pc = "build"
        /\ app' = [app EXCEPT ![apps + 1] = NewApp(main.clients)]
    BY <1>4 DEF FinishApp
  <2>2. apps + 1 \in Apps /\ main'.pc = "wait"
    BY <1>1, <1>2, <2>1 DEF Sane, MainHasApp, Apps
  <2>3. /\ \A g \in 1 .. apps : app'[g] = app[g]
        /\ \A n : n = apps + 1 => app'[n] = NewApp(main.clients)
    BY <1>2, <2>1, <2>2
  <2>4. ASSUME NEW g \in 1 .. apps PROVE Good(g)
    <3>1. PastDrain(g)' => PastDrain(g)
      BY <2>2, <2>3 DEF PastDrain
    <3>2. QED
      BY <1>1, <2>3, <3>1, EndKept DEF EndInv
  <2>5. ASSUME NEW n, n = apps + 1 PROVE Good(n)
    <3>1. Ended(NewApp(main.clients)) /\ NewApp(main.clients).storage = "open"
          /\ NewApp(main.clients).waiter = "new"
      BY DEF Ended, NewApp
    <3>2. app'[n] = NewApp(main.clients)
      BY <2>3, <2>5
    <3>3. QED
      BY <2>2, <3>1, <3>2 DEF PastDrain, Ended
  <2>6. \A g \in 1 .. apps' : g \in 1 .. apps \/ g = apps + 1
    BY <1>2, <2>1
  <2>7. QED
    BY <2>4, <2>5, <2>6 DEF EndInv
<1>5. ASSUME NEW k \in Apps, WaiterShuts(k) PROVE EndInv'
  <2> DEFINE stage == app[k].waiter
  <2>1. k \in 1 .. apps /\ stage \in Stages /\ UNCHANGED <<main, apps>>
        /\ app' = [app EXCEPT ![k] = [Shut(@, stage) EXCEPT !.waiter = Following(stage)]]
    BY <1>5 DEF WaiterShuts, Alive, mainVars
  <2>2. /\ stage # "begin" => app[k].down["main"]
        /\ stage = "close" => AllDown(app[k])
        /\ Ended(app[k])
    BY <1>1, <2>1 DEF OpenInv, EndInv, PastBegin, PastDrain, Stages
  <2>3. /\ Shut(app[k], stage) \in AppTypes /\ Ended(Shut(app[k], stage))
        /\ AllDown(app[k]) \/ stage = "drain" => AllDown(Shut(app[k], stage))
        /\ stage = "close" => Shut(app[k], stage).storage = "closed"
    BY <1>2, <2>1, <2>2, ShutEnds
  <2>4. app'[k] = [Shut(app[k], stage) EXCEPT !.waiter = Following(stage)]
        /\ \A g \in (1 .. apps) \ {k} : app'[g] = app[g]
    BY <1>2, <2>1
  <2>5. Following(stage) = "close" <=> stage = "drain"
    BY <2>1 DEF Following, Stages
  <2>6. Following(stage) = "done" => stage = "close"
    BY <2>1 DEF Following, Stages
  <2>7. /\ app'[k].storage = Shut(app[k], stage).storage /\ app'[k].waiter = Following(stage)
        /\ app'[k].done = Shut(app[k], stage).done /\ app'[k].srv = Shut(app[k], stage).srv
        /\ app'[k].down = Shut(app[k], stage).down
    BY <2>3, <2>4 DEF AppTypes
  <2>8. Ended(app'[k]) /\ (AllDown(app[k]) \/ stage = "drain" => AllDown(app'[k]))
    BY <2>3, <2>6, <2>7 DEF Ended, AllDown
  <2>9. PastDrain(k)' => PastDrain(k) \/ AllDown(app'[k])
    <3>1. app'[k].storage = IF stage = "close" THEN "closed" ELSE app[k].storage
      BY <1>2, <2>1, <2>7, ShutStorage
    <3>2. QED
      BY <2>1, <2>5, <2>7, <2>8, <3>1 DEF PastDrain
  <2>10. Good(k)
    BY <1>1, <2>1, <2>8, <2>9, EndKept
  <2>11. ASSUME NEW g \in (1 .. apps) \ {k} PROVE Good(g)
    <3>1. PastDrain(g)' => PastDrain(g)
      BY <2>1, <2>4 DEF PastDrain
    <3>2. QED
      BY <1>1, <2>4, <3>1, EndKept DEF EndInv
  <2>12. QED
    BY <2>1, <2>10, <2>11 DEF EndInv
<1>6. CASE MainShuts
  <2> DEFINE stage == main.stage
  <2>1. stage \in Stages /\ apps' = apps /\ apps \in 1 .. apps /\ main.pc = "stop"
    BY <1>1, <1>6, MainTakesStage DEF Stage, MainShuts
  <2>2. app' = [app EXCEPT ![apps] = Shut(@, stage)]
        /\ main' = IF stage = "close" THEN [pc |-> "new"]
                   ELSE [pc |-> "stop", stage |-> Following(stage)]
    BY <1>6 DEF MainShuts
  <2>3. /\ stage # "begin" => app[apps].down["main"]
        /\ stage = "close" => AllDown(app[apps])
        /\ Ended(app[apps])
    BY <1>1, <2>1 DEF OpenInv, EndInv, PastBegin, PastDrain, Stages
  <2>4. /\ Ended(Shut(app[apps], stage)) /\ Shut(app[apps], stage).waiter = app[apps].waiter
        /\ AllDown(app[apps]) \/ stage = "drain" => AllDown(Shut(app[apps], stage))
        /\ stage = "close" => Shut(app[apps], stage).storage = "closed"
    BY <1>2, <2>1, <2>3, ShutEnds
  <2>5. app'[apps] = Shut(app[apps], stage) /\ \A g \in (1 .. apps) \ {apps} : app'[g] = app[g]
    BY <1>2, <2>1, <2>2
  <2>6. main'.pc = "stop" /\ main'.stage = "close" => stage = "drain"
    BY <2>1, <2>2 DEF Following, Stages
  <2>7. PastDrain(apps)' => PastDrain(apps) \/ AllDown(app'[apps])
    <3>1. app'[apps].storage = IF stage = "close" THEN "closed" ELSE app[apps].storage
      BY <1>2, <2>1, <2>5, ShutStorage
    <3>2. QED
      BY <2>1, <2>4, <2>5, <2>6, <3>1 DEF PastDrain
  <2>8. Good(apps)
    BY <1>1, <2>1, <2>4, <2>5, <2>7, EndKept
  <2>9. ASSUME NEW g \in (1 .. apps) \ {apps} PROVE Good(g)
    <3>1. PastDrain(g)' => PastDrain(g)
      BY <2>1, <2>5 DEF PastDrain
    <3>2. QED
      BY <1>1, <2>5, <3>1, EndKept DEF EndInv
  <2>10. QED
    BY <2>1, <2>8, <2>9 DEF EndInv
<1>7. ASSUME \/ InitStorage \/ TakeRestart \/ Load \/ Validate \/ UNCHANGED vars
             \/ (\E kind \in Kinds : Edit(kind)) \/ (\E r \in Requests : Respond(r))
      PROVE  EndInv'
  <2>1. /\ UNCHANGED <<apps, app>>
        /\ main' = main \/ main'.pc # "stop" \/ main'.stage = "begin"
    BY <1>7 DEF InitStorage, TakeRestart, Load, Validate, Edit, Respond, vars, mainVars
  <2>2. \A g \in 1 .. apps : PastDrain(g)' => PastDrain(g)
    BY <2>1 DEF PastDrain
  <2>3. QED
    BY <1>1, <2>1, <2>2, EndKept DEF EndInv
<1>8. ASSUME UNCHANGED <<apps, main>>, NEW h \in 1 .. apps, Ended(app'[h]),
             app'[h].down = app[h].down, app'[h].storage = app[h].storage,
             app'[h].waiter = "close" => app[h].waiter = "close"
      PROVE  Good(h)
  <2>1. PastDrain(h)' => PastDrain(h)
    BY <1>8 DEF PastDrain
  <2>2. AllDown(app[h]) => AllDown(app'[h])
    BY <1>8 DEF AllDown
  <2>3. QED
    BY <1>1, <1>8, <2>1, <2>2, EndKept
<1>9. ASSUME NEW k \in Apps, AppStep(k) \/ Wake(k) PROVE EndInv'
  <2>1. UNCHANGED <<apps, main>>
    BY <1>9 DEF AppStep, Bind, Serve, AwaitSignal, Wake, mainVars
  <2>2. ASSUME NEW h \in 1 .. apps
        PROVE  /\ Ended(app'[h]) /\ app'[h].down = app[h].down
               /\ app'[h].storage = app[h].storage
               /\ app'[h].waiter = "close" => app[h].waiter = "close"
    <3>1. app[h] \in AppTypes /\ h \in Apps /\ Ended(app[h])
      BY <1>1, <1>2 DEF EndInv
    <3>2. ASSUME NEW s \in Servers, Bind(k, s) \/ Serve(k, s)
          PROVE  /\ Ended(app'[h]) /\ app'[h].down = app[h].down
                 /\ app'[h].storage = app[h].storage
                 /\ app'[h].waiter = app[h].waiter
      BY <1>2, <3>1, <3>2 DEF Bind, Serve, AppTypes, Ended, ServerStates
    <3>3. CASE AwaitSignal(k)
      BY <1>2, <3>1, <3>3 DEF AwaitSignal, AppTypes, Ended
    <3>4. CASE Wake(k)
      <4>1. CASE h # k
        BY <1>2, <3>1, <3>4, <4>1 DEF Wake
      <4>2. CASE h = k
        BY <1>2, <3>1, <3>4, <4>2 DEF Wake, AppTypes, Ended
      <4>3. QED
        BY <4>1, <4>2
    <3>5. QED
      BY <1>9, <3>2, <3>3, <3>4 DEF AppStep
  <2>3. QED
    BY <1>8, <2>1, <2>2 DEF EndInv
<1>10. ASSUME Signal, ~Ends PROVE EndInv'
  <2>1. UNCHANGED <<apps, main>>
    BY <1>10 DEF Ends, Signal, mainVars
  <2>2. ASSUME NEW h \in 1 .. apps
        PROVE  /\ Ended(app'[h]) /\ app'[h].down = app[h].down
               /\ app'[h].storage = app[h].storage
               /\ app'[h].waiter = "close" => app[h].waiter = "close"
    <3>1. app[h] \in AppTypes /\ h \in Apps /\ Ended(app[h])
      BY <1>1, <1>2 DEF EndInv
    <3>2. QED
      BY <1>10, <3>1 DEF Ends, Signal, AppTypes, Ended
  <2>3. QED
    BY <1>8, <2>1, <2>2 DEF EndInv
<1>11. ASSUME NEW r \in Requests, NEW g \in Apps, Request(r, g), ~Ends PROVE EndInv'
  <2>1. UNCHANGED <<apps, main, app>>
    BY <1>11 DEF Ends, Request, mainVars
  <2>2. QED
    BY <1>1, <1>8, <2>1 DEF EndInv
<1>12. CASE TakeResult \/ NewAppFails \/ NewAppPanics
  BY <1>3, <1>12 DEF Ends, TakeResult, NewAppFails, NewAppPanics
<1>13. QED
  BY <1>1, <1>3, <1>4, <1>5, <1>6, <1>7, <1>9, <1>10, <1>11, <1>12
  DEF Next, MainStep, WaiterStep

\* When the waiter of an app has returned all of the app is down, whoever shut it
\* down and however its servers came up.
THEOREM WhoIsDoneIsDown == Spec => []DoneIsDown
<1>1. Init => EndInv
  BY DEF Init, EndInv
<1>2. EndInv => DoneIsDown
  BY DEF EndInv, Ended, AllDown, PastDrain, DoneIsDown
<1>3. Init => OpenInv
  BY DEF Init, OpenInv
<1>4. QED
  BY SaneInit, SaneStep, OpenStep, EndStep, <1>1, <1>2, <1>3, PTL DEF Spec
=============================================================================
