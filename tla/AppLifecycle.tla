----------------------------- MODULE AppLifecycle -----------------------------
(***************************************************************************)
(* cmd.go, app.go, config.go and storage.go: the process.  The main        *)
(* goroutine builds an app, runs it, and builds another when the watcher   *)
(* of the configuration file asks for it.  Each app has its servers, its   *)
(* storage clients and a goroutine that waits for a signal.                *)
(*                                                                         *)
(* Outside the repository: net/http (Shutdown closes the listener, waits   *)
(* for the requests, and makes a later Serve return), os/signal (a signal  *)
(* goes to every channel registered, which keeps one; with none registered *)
(* it ends the process), viper (which reads the file before it calls back, *)
(* and keeps its settings when it cannot), and what a process can register *)
(* only once: a groupcache group by its name, the collectors of the        *)
(* metrics.  The second time is a panic, which nobody recovers from.       *)
(***************************************************************************)
EXTENDS Integers

CONSTANTS
    Servers,        \* "main", and "metrics" if it has an address of its own
    Clients,        \* the storage clients of a manager
    Needed,         \* those without which a file service ends the process
    Kinds,          \* what an edit may leave: "valid", "invalid", "unreadable"
    Names,          \* what a process can register once
    Registers,      \* Registers[n]: those an app built from edit n registers
    Requests,       \* the requests alive at a time
    MaxApps,        \* bound: the apps built
    MaxEdits,       \* bound: the changes of the configuration file
    MaxSignals      \* bound: the signals

ASSUME AppAssumptions ==
    /\ "main" \in Servers /\ Servers \subseteq {"main", "metrics"}
    /\ Needed \subseteq Clients
    /\ "valid" \in Kinds
    /\ Registers \in [0 .. MaxEdits -> SUBSET Names]
    /\ MaxApps \in Nat \ {0} /\ MaxEdits \in Nat /\ MaxSignals \in Nat

VARIABLES
    file,           \* the configuration file: which edit it holds, and its kind
    event,          \* whether a change of it is yet to be handled
    watcher,        \* the goroutine that handles it: "idle" or "check"
    config,         \* globalConfig: the edit it was filled from, and its kind
    restart,        \* whether restartChan holds its one signal
    main,           \* what the main goroutine does
    apps,           \* the number of apps built; the last is the current one
    app,            \* app[g]: the g-th
    registered,     \* what the apps have registered
    req,            \* req[r]: the app that handles request r, 0 for none
    signals,        \* auxiliary: the signals so far
    accepted,       \* auxiliary: the configurations that passed validation
    late,           \* auxiliary: the requests that outlived a shutdown's timeout
    built           \* auxiliary: what the halves of the current app were built from

configVars == <<file, event, watcher, config, accepted>>
mainVars == <<restart, main, apps, built, registered>>
reqVars == <<req, late>>
vars == <<configVars, mainVars, app, reqVars, signals>>

Apps == 1 .. MaxApps
Configs == [edit : 0 .. MaxEdits, kind : Kinds]

\* A server is not started yet, has its address, serves, or has returned, with an
\* error or without.
ServerStates == {"new", "bound", "serving", "returned"}

\* app.shutdown goes through these stages.
Stages == {"begin", "drain", "close"}

NoApp == [storage |-> "none"]
NewApp(clients) ==
    [storage |-> "open", clients |-> clients,
     srv |-> [s \in Servers |-> "new"],
     down |-> [s \in Servers |-> FALSE],    \* Shutdown was called on the server
     waiter |-> "new",                      \* the goroutine that waits for a signal
     sig |-> FALSE,                         \* a signal is in its channel
     done |-> FALSE]                        \* app.done holds its one signal

Current == app[apps]
Running == main.pc # "exited"
Alive(g) == Running /\ g \in 1 .. apps
InFlight(g) == {r \in Requests : req[r] = g}

\* The process ends, and all it held is gone.
Exit(by) ==
    /\ main' = [pc |-> "exited", by |-> by]
    /\ registered' = {}
    /\ apps' = 0 /\ app' = [g \in Apps |-> NoApp]
    /\ req' = [r \in Requests |-> 0] /\ late' = {} /\ built' = <<>>
    /\ restart' = FALSE /\ event' = FALSE /\ watcher' = "idle"
    /\ UNCHANGED <<file, config, accepted>>

-----------------------------------------------------------------------------
\* The configuration file changes.  Bound: MaxEdits.
Edit(kind) ==
    /\ Running
    /\ file.edit < MaxEdits
    /\ file' = [edit |-> file.edit + 1, kind |-> kind]
    /\ event' = TRUE
    /\ UNCHANGED <<watcher, config, accepted, mainVars, app, reqVars, signals>>

\* OnConfigChange: what viper holds goes into globalConfig, before it is known to
\* be valid; of a file that cannot be read it holds what it held before.
Load ==
    /\ Running
    /\ watcher = "idle" /\ event
    /\ event' = FALSE
    /\ watcher' = "check"
    /\ config' = IF file.kind = "unreadable" THEN config ELSE file
    /\ UNCHANGED <<file, accepted, mainVars, app, reqVars, signals>>

\* Mutant of Notified: restartChan without a buffer.
UnbufferedNotified == restart \/ main.pc = "wait"

\* The callback: the channel has room for one signal, a second is dropped.
Notified == TRUE

\* Mutant of Passes: the callback is made before the validation.
AnyPasses(c) == TRUE

Passes(c) == c.kind = "valid"

Validate ==
    /\ Running
    /\ watcher = "check"
    /\ watcher' = "idle"
    /\ restart' = IF Passes(config) THEN Notified ELSE restart
    /\ accepted' = IF config.kind = "valid" THEN accepted + 1 ELSE accepted
    /\ UNCHANGED <<file, event, config, main, apps, built, registered, app, reqVars, signals>>

-----------------------------------------------------------------------------
\* NewApp.  The metrics and storage.Init read the configuration, and make what
\* clients they can; then the middleware and the servers read it again.  Bound:
\* MaxApps.
InitStorage ==
    /\ main.pc = "new"
    /\ apps < MaxApps
    /\ Registers[config.edit] \intersect registered = {}
    /\ registered' = registered \union Registers[config.edit]
    /\ \E clients \in SUBSET Clients :
          main' = [pc |-> "build", read |-> config, clients |-> clients]
    /\ UNCHANGED <<configVars, restart, apps, built, app, reqVars, signals>>

\* NewGroup or MustRegister meets a name that an earlier app registered.
NewAppPanics ==
    /\ main.pc = "new"
    /\ Registers[config.edit] \intersect registered # {}
    /\ Exit("panic")
    /\ UNCHANGED signals

\* The goroutine of Run is started, and the main goroutine waits.
FinishApp ==
    /\ main.pc = "build"
    /\ apps' = apps + 1
    /\ app' = [app EXCEPT ![apps + 1] = NewApp(main.clients)]
    /\ built' = <<main.read, config>>
    /\ main' = [pc |-> "wait"]
    /\ UNCHANGED <<configVars, restart, registered, reqVars, signals>>

\* An error of the tracing or of the server for the metrics ends the process.
NewAppFails ==
    /\ main.pc \in {"new", "build"}
    /\ Exit("error")
    /\ UNCHANGED signals

-----------------------------------------------------------------------------
\* Run starts the servers, and a goroutine that waits for a signal.
Holds(g, s) == g \in 1 .. apps /\ app[g].srv[s] \in {"bound", "serving"}

\* ListenAndServe: it returns when Shutdown was called before, when the address
\* is another process's or that of an earlier app, or with any other error.
Bind(g, s) ==
    /\ Alive(g)
    /\ app[g].srv[s] = "new"
    /\ \/ app' = [app EXCEPT ![g].srv[s] = "returned"]
       \/ /\ ~app[g].down[s]
          /\ \A h \in Apps : ~Holds(h, s)
          /\ app' = [app EXCEPT ![g].srv[s] = "bound"]
    /\ UNCHANGED <<configVars, mainVars, reqVars, signals>>

Serve(g, s) ==
    /\ Alive(g)
    /\ app[g].srv[s] = "bound"
    /\ app' = [app EXCEPT ![g].srv[s] = IF app[g].down[s] THEN "returned" ELSE "serving"]
    /\ UNCHANGED <<configVars, mainVars, reqVars, signals>>

AwaitSignal(g) ==
    /\ Alive(g)
    /\ app[g].waiter = "new"
    /\ app' = [app EXCEPT ![g].waiter = "wait"]
    /\ UNCHANGED <<configVars, mainVars, reqVars, signals>>

\* A signal goes to every waiter that came to register its channel; that of one
\* that will not read it any more is left out.  Bound: MaxSignals.
Signal ==
    /\ Running
    /\ signals < MaxSignals
    /\ signals' = signals + 1
    /\ IF \E g \in 1 .. apps : app[g].waiter # "new"
       THEN /\ app' = [g \in Apps |-> IF g <= apps /\ app[g].waiter = "wait"
                                      THEN [app[g] EXCEPT !.sig = TRUE] ELSE app[g]]
            /\ UNCHANGED <<configVars, mainVars, reqVars>>
       ELSE Exit("signal")

\* The select: either case, when both are possible.
Wake(g) ==
    /\ Alive(g)
    /\ app[g].waiter = "wait"
    /\ \/ /\ app[g].done
          /\ app' = [app EXCEPT ![g].done = FALSE, ![g].waiter = "done"]
       \/ /\ app[g].sig
          /\ app' = [app EXCEPT ![g].sig = FALSE, ![g].waiter = "begin"]
    /\ UNCHANGED <<configVars, mainVars, reqVars, signals>>

-----------------------------------------------------------------------------
\* shutdown, by the main goroutine or by the waiter of the app, or both at once.
\* Mutant of Following: the end of the last stage is not told.
EndlessFollowing(stage) == IF stage = "begin" THEN "drain" ELSE "closed"

Following(stage) ==
    CASE stage = "begin" -> "drain" [] stage = "drain" -> "close" [] stage = "close" -> "done"

\* Mutant of Drained: the requests are waited for without a timeout.
PatientDrained(g) == InFlight(g) = {} /\ UNCHANGED late

\* The main server's Shutdown returns: its requests have ended, or the timeout has
\* come, and those there are go on.
Drained(g) == late' = late \union InFlight(g)

\* http.Server.Shutdown, as far as the address is concerned.
Stopped(a, s) ==
    [a EXCEPT !.down[s] = TRUE, !.srv[s] = IF @ = "serving" THEN "returned" ELSE @]

\* Mutant of Begun: the storage is closed first.
HastyBegun(a) == [Stopped(a, "main") EXCEPT !.storage = "closed"]

\* Mutant of Begun: the main server is forgotten.
NothingBegun(a) == a

Begun(a) == Stopped(a, "main")

MetricsStopped(a) == IF "metrics" \in Servers THEN Stopped(a, "metrics") ELSE a

\* Manager.Close, whatever errors its clients give, and the signal to Run.
Closed(a) == [a EXCEPT !.storage = "closed", !.clients = {}, !.done = TRUE]

\* App a, after what the shutdown does in a stage.
Shut(a, stage) ==
    CASE stage = "begin" -> Begun(a)
      [] stage = "drain" -> MetricsStopped(a)
      [] stage = "close" -> Closed(a)

Waits(g, stage) == IF stage = "drain" THEN Drained(g) ELSE UNCHANGED late

WaiterShuts(g) ==
    LET stage == app[g].waiter
    IN  /\ Alive(g)
        /\ stage \in Stages
        /\ Waits(g, stage)
        /\ app' = [app EXCEPT ![g] = [Shut(@, stage) EXCEPT !.waiter = Following(stage)]]
        /\ UNCHANGED <<configVars, mainVars, req, signals>>

-----------------------------------------------------------------------------
\* Mutant of TakeRestart: the next app is built before this one is shut down.
TakeRestartAtOnce ==
    /\ main.pc = "wait"
    /\ restart
    /\ restart' = FALSE
    /\ main' = [pc |-> "new"]
    /\ UNCHANGED <<configVars, apps, built, registered, app, reqVars, signals>>

\* The loop of the main goroutine.
TakeRestart ==
    /\ main.pc = "wait"
    /\ restart
    /\ restart' = FALSE
    /\ main' = [pc |-> "stop", stage |-> "begin"]
    /\ UNCHANGED <<configVars, apps, built, registered, app, reqVars, signals>>

MainShuts ==
    /\ main.pc = "stop"
    /\ Waits(apps, main.stage)
    /\ app' = [app EXCEPT ![apps] = Shut(@, main.stage)]
    /\ main' = IF main.stage = "close" THEN [pc |-> "new"]
               ELSE [pc |-> "stop", stage |-> Following(main.stage)]
    /\ UNCHANGED <<configVars, restart, apps, built, registered, req, signals>>

\* Run waits for its servers, failed or not, and for the waiter, which takes a
\* signal to end as long as there is no restart.
RunReturned(a) ==
    /\ \A s \in Servers : a.srv[s] = "returned"
    /\ a.waiter = "done"

TakeResult ==
    /\ main.pc = "wait"
    /\ RunReturned(Current)
    /\ Exit("signal")
    /\ UNCHANGED signals

-----------------------------------------------------------------------------
\* A request reaches an app; one to the files of an app without all it needs ends
\* the process, in NewFileService.
Request(r, g) ==
    /\ Alive(g)
    /\ app[g].srv["main"] = "serving"
    /\ req[r] = 0
    /\ \/ /\ req' = [req EXCEPT ![r] = g]
          /\ UNCHANGED <<configVars, mainVars, app, late>>
       \/ ~(Needed \subseteq app[g].clients) /\ Exit("error")
    /\ UNCHANGED signals

Respond(r) ==
    /\ Running
    /\ req[r] # 0
    /\ req' = [req EXCEPT ![r] = 0]
    /\ late' = late \ {r}
    /\ UNCHANGED <<configVars, mainVars, app, signals>>

-----------------------------------------------------------------------------
Init ==
    /\ file = [edit |-> 0, kind |-> "valid"]
    /\ event = FALSE
    /\ watcher = "idle"
    /\ config = file
    /\ restart = FALSE
    /\ main = [pc |-> "new"]
    /\ apps = 0
    /\ app = [g \in Apps |-> NoApp]
    /\ req = [r \in Requests |-> 0]
    /\ signals = 0
    /\ accepted = 0
    /\ late = {}
    /\ built = <<>>
    /\ registered = {}

MainStep == InitStorage \/ NewAppPanics \/ FinishApp \/ TakeRestart \/ MainShuts \/ TakeResult
AppStep(g) == (\E s \in Servers : Bind(g, s) \/ Serve(g, s)) \/ AwaitSignal(g)
WaiterStep(g) == Wake(g) \/ WaiterShuts(g)

Next ==
    \/ \E kind \in Kinds : Edit(kind)
    \/ Load \/ Validate \/ Signal
    \/ MainStep \/ NewAppFails
    \/ \E g \in Apps : AppStep(g) \/ WaiterStep(g)
    \/ \E r \in Requests : Respond(r) \/ \E g \in Apps : Request(r, g)

\* The goroutines of the process run, and a timeout comes.  Nobody has to edit
\* the file or send a signal, and no request has to end.
Fairness ==
    /\ WF_vars(Load) /\ WF_vars(Validate)
    /\ WF_vars(MainStep)
    /\ \A g \in Apps : WF_vars(AppStep(g)) /\ WF_vars(WaiterStep(g))

Spec == Init /\ [][Next]_vars /\ Fairness

-----------------------------------------------------------------------------
AppTypes ==
    [storage : {"open", "closed"}, clients : SUBSET Clients,
     srv : [Servers -> ServerStates], down : [Servers -> BOOLEAN],
     waiter : Stages \union {"new", "wait", "done"}, sig : BOOLEAN, done : BOOLEAN]
MainTypes ==
    [pc : {"new", "wait"}] \union [pc : {"stop"}, stage : Stages]
    \union [pc : {"exited"}, by : {"panic", "error", "signal"}]
    \union [pc : {"build"}, read : Configs, clients : SUBSET Clients]

\* The types of the variables; there are as many apps as were built.
TypeOK ==
    /\ file \in Configs /\ config \in Configs
    /\ event \in BOOLEAN /\ restart \in BOOLEAN
    /\ watcher \in {"idle", "check"}
    /\ main \in MainTypes
    /\ apps \in 0 .. MaxApps
    /\ app \in [Apps -> {NoApp} \union AppTypes]
    /\ \A g \in Apps : app[g] = NoApp <=> g > apps
    /\ req \in [Requests -> 0 .. apps]
    /\ signals \in 0 .. MaxSignals /\ accepted \in Nat
    /\ late \subseteq Requests
    /\ built \in {<<>>} \union (Configs \X Configs)
    /\ registered \subseteq Names

\* While an app takes requests its storage clients are open, and they stay open
\* until the last request has its answer, but for those that outlived the timeout
\* of a shutdown: also when a restart and a signal shut the app down at the same
\* time, or before its servers have come up.
ClientsOpenWhileServed ==
    \A g \in 1 .. apps :
        /\ app[g].srv["main"] = "serving" => app[g].storage = "open"
        /\ InFlight(g) \ late # {} => app[g].storage = "open"

\* An app whose waiter has returned is down, whoever shut it down, or both at once,
\* and however late its servers came: its storage is closed, and no server of it
\* serves or can come to serve, so that Run will have its servers' results.
DoneIsDown ==
    \A g \in 1 .. apps : app[g].waiter = "done" =>
        /\ app[g].storage = "closed"
        /\ \A s \in Servers : app[g].down[s] /\ app[g].srv[s] # "serving"

\* When the main goroutine waits, no restart is asked for and the watcher is idle,
\* then, if the configuration is valid, the running app was built from it, and
\* not the one half of it from another.
SettledIsCurrent ==
    main.pc = "wait" /\ ~restart /\ watcher = "idle" /\ config.kind = "valid" =>
        built = <<config, config>>

\* The process never restarts more often than a changed configuration passed
\* its validation.
RestartsOnlyOnValid == apps - 1 <= accepted

Opened == {g \in 1 .. apps : app[g].storage = "open"}
Supervisor == INSTANCE AppSupervisor
                WITH ended <- ~Running, asked <- accepted, gen <- apps, open <- Opened, on <- req

\* The process keeps the promises of AppSupervisor: one storage open at a time,
\* closed when the requests have ended or were given up, and opened again only
\* after that and when a configuration asked for it.
SupervisorSpec == Supervisor!SupervisorSpec

EndedBy(reasons) == main.pc = "exited" /\ main.by \in reasons

\* The hot reload initializes the components anew, with the process still there: no
\* app is refused what the process has registered before.
RebuildsSucceed == ~EndedBy({"panic"})

\* A valid configuration that was loaded, of which an app registers nothing, is in
\* use in the end, if no other is loaded in its place and neither a signal nor an
\* error ends the process, whatever else goes on meanwhile.
ReloadTakesEffect ==
    \A n \in 0 .. MaxEdits : Registers[n] = {} =>
        (config = [edit |-> n, kind |-> "valid"] ~>
            \/ config.edit # n \/ EndedBy({"signal", "error"})
            \/ main.pc = "wait" /\ built = <<config, config>>)

Signalled == main.pc = "wait" /\ Current.waiter = "wait" /\ Current.sig

\* A signal that reaches the running app, and that no restart comes after, ends
\* the process, even with requests that do not end and servers that failed.
StopsOnSignal == []((Signalled /\ []~restart) => <>~Running)
=============================================================================
