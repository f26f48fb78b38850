-------------------------- MODULE PluginLifecycle --------------------------
(* The life of the device plugin process: main and the kubelet watcher       *)
(* (cmd/tt-device-plugin/main.go), the Run, serve, waitReady, register and   *)
(* Stop of every Plugin (internal/plugin/plugin.go), the socket files they   *)
(* share by name, and the kubelet that owns the directory.                   *)
(*                                                                           *)
(* A Plugin is an incarnation <<class, generation>>: the generation counts   *)
(* the startPlugins calls that found a card.  Two threads of control exist   *)
(* besides the Run and Serve goroutines: main, and the goroutine of          *)
(* watchKubelet that runs restart() synchronously.                           *)
EXTENDS Integers, FiniteSets

CONSTANTS Classes,      \* resource classes that Discover may find
          None,         \* no incarnation, no holder
          MaxProcs,     \* bound: starts of the process
          MaxRestarts,  \* bound: restarts of the kubelet
          MaxFaults,    \* bound: injected failures (see Fault)
          Races         \* when the kubelet may restart, see KubeletMayMove

MaxGen  == MaxProcs + MaxRestarts
Inst    == Classes \X (1..MaxGen)
Threads == {"main", "watch"}

ASSUME ConstantsAssumption ==
    /\ MaxProcs \in Nat \ {0} /\ MaxRestarts \in Nat /\ MaxFaults \in Nat
    /\ None \notin Classes \X Nat /\ None \notin Threads
    /\ Races \subseteq {"startup", "restart"}

VARIABLES
    \* one entry per incarnation
    run,       \* where the Run goroutine is
    closed,    \* p.stop has been closed
    server,    \* p.grpcServer: "nil", "built", "serving", "stopped"
    lis,       \* the listener of serve: "none", "open", "closed"
    \* the process
    pc, cur, todo, want,  \* per thread: control, plugin being stopped,
                          \* plugins left to stop, classes left to create
    mu, plugins, gen,     \* main's mutex, plugin list, startPlugins calls
    ctxDone, events,      \* signal context, Create events queued by fsnotify
    \* the device-plugin directory and the kubelet (external)
    sock,      \* class -> the incarnation whose listener made its socket file
    kup,       \* the kubelet is up
    requests,  \* classes whose registration the kubelet has not acted on
    endpoint,  \* class -> the incarnation it holds a ListAndWatch stream with
    \* bounds, and whether a failure has yet to be made up for
    procs, restarts, faults, hurt,
    overtaken  \* history, per incarnation: its Stop found no server yet

inst    == <<run, closed, server, lis>>
threads == <<pc, cur, todo, want>>
proc    == <<mu, plugins, gen, ctxDone, events>>
kubelet == <<kup, requests, endpoint>>
bounds  == <<procs, restarts, faults, hurt, overtaken>>
vars    == <<inst, threads, proc, sock, kubelet, bounds>>

Created(i) == run[i] \notin {"none", "dead"}

\* A plugin that has been created and not been told to stop.
Live(i) == Created(i) /\ ~closed[i]

WatchInstalled == pc["watch"] \notin {"off", "install", "gone"}

\* A dial of the class's socket path succeeds once the kernel listens on it,
\* whether or not Serve has been called.
Connectable(c) == sock[c] # None /\ lis[sock[c]] = "open"

\* unlink(2) of the class's path, by name: whoever made the file loses it.
Unlink(c) == sock' = [sock EXCEPT ![c] = None]

\* The incarnation's connections are closed.
Drop(i) == endpoint' = [endpoint EXCEPT ![i[1]] = IF @ = i THEN None ELSE @]

RunGo(i, from, to) == run[i] = from /\ run' = [run EXCEPT ![i] = to]

Go(t, from, to) == pc[t] = from /\ pc' = [pc EXCEPT ![t] = to]

\* One of the failures the environment may inject: a partial or empty
\* discovery, an inotify failure or overflow, a path that cannot be cleared or
\* listened on, a refused registration.  Nothing retries: the next restart() or
\* the next process has to make up for it.
Fault == faults < MaxFaults /\ faults' = faults + 1 /\ hurt' = TRUE

AtStartup == [t \in Threads |-> IF t = "main" THEN "start" ELSE "off"]

Init ==
    /\ run = [i \in Inst |-> "none"] /\ closed = [i \in Inst |-> FALSE]
    /\ server = [i \in Inst |-> "nil"] /\ lis = [i \in Inst |-> "none"]
    /\ pc = AtStartup
    /\ cur = [t \in Threads |-> None]
    /\ todo = [t \in Threads |-> {}] /\ want = [t \in Threads |-> {}]
    /\ mu = None /\ plugins = {} /\ gen = 0 /\ ctxDone = FALSE /\ events = 0
    /\ sock = [c \in Classes |-> None]
    /\ kup = TRUE /\ requests = {} /\ endpoint = [c \in Classes |-> None]
    /\ procs = 1 /\ restarts = 0 /\ faults = 0 /\ hurt = FALSE
    /\ overtaken = [i \in Inst |-> FALSE]

\* The process ends: its goroutines stop, the kernel closes its listeners, and
\* the socket files stay behind.
ProcessEnd ==
    /\ run' = [i \in Inst |-> IF run[i] = "none" THEN "none" ELSE "dead"]
    /\ lis' = [i \in Inst |-> IF lis[i] = "none" THEN "none" ELSE "closed"]
    /\ endpoint' = [c \in Classes |-> None]
    /\ pc' = [t \in Threads |-> "gone"]
    /\ cur' = [t \in Threads |-> None]
    /\ todo' = [t \in Threads |-> {}] /\ want' = [t \in Threads |-> {}]
    /\ mu' = None /\ plugins' = {} /\ events' = 0
    /\ UNCHANGED <<closed, server, gen, ctxDone, sock, kup, requests>>

-----------------------------------------------------------------------------
(* Variants: plausible bugs.  No action of the specification uses them; each   *)
(* stands in for the action it is named after when a property is put to the    *)
(* test.                                                                       *)

\* `plugins, err := startPlugins(ctx)`: the outer list is shadowed.
RestartedShadowed ==
    /\ want["watch"] = {} /\ Go("watch", "create", "select") /\ mu' = None
    /\ UNCHANGED <<inst, cur, todo, want, plugins, gen, ctxDone, events, sock,
                   kubelet, bounds>>

\* restart() appends the new plugins to the list.
RestartedAppends ==
    /\ want["watch"] = {} /\ Go("watch", "create", "select") /\ mu' = None
    /\ plugins' = plugins \union {i \in Inst : i[2] = gen /\ run[i] # "none"}
    /\ UNCHANGED <<inst, cur, todo, want, gen, ctxDone, events, sock, kubelet,
                   bounds>>

\* The error path of restart() forgets to release mu.
RestartFailsLocked ==
    /\ Go("watch", "start", "select") /\ Fault /\ plugins' = {}
    /\ UNCHANGED <<inst, cur, todo, want, mu, gen, ctxDone, events, sock,
                   kubelet, procs, restarts, overtaken>>

\* The watcher wakes up on anything.
WatchEventAny == /\ Go("watch", "select", "lock") /\ events' = events - 1
                 /\ UNCHANGED <<inst, cur, todo, want, mu, plugins, gen,
                                ctxDone, sock, kubelet, bounds>>

\* The watcher looks for another operation than Create.
WatchEventIgnored == /\ pc["watch"] = "select"
                     /\ events > 0 /\ events' = events - 1
                     /\ UNCHANGED <<inst, threads, mu, plugins, gen, ctxDone,
                                    sock, kubelet, bounds>>

\* The stop loop runs without the mutex.
LockWithoutMutex(t) ==
    /\ Go(t, "lock", "range") /\ mu' = t
    /\ todo' = [todo EXCEPT ![t] = plugins]
    /\ UNCHANGED <<inst, cur, want, plugins, gen, ctxDone, events, sock,
                   kubelet, bounds>>

\* Stop stops the server and never closes p.stop.
StopCloseForgotten(t) ==
    Go(t, "close", "read")
    /\ UNCHANGED <<inst, cur, todo, want, proc, sock, kubelet, bounds>>

\* Stop leaves the gRPC server alone.
StopReadNil(t) ==
    Go(t, "read", "unlink")
    /\ UNCHANGED <<inst, cur, todo, want, proc, sock, kubelet, bounds>>

\* restart() starts anew before the old list is stopped to its end.
StoppedAllWatchEarly == Go("watch", "range", "start")
    /\ UNCHANGED <<inst, cur, todo, want, proc, sock, kubelet, bounds>>

\* Run listens without removing what a crashed process left at the path.
RunClearKeeps(i) == RunGo(i, "clear", "listen")
    /\ UNCHANGED <<closed, server, lis, threads, proc, sock, kubelet, bounds>>

\* A Run that ends is retried without looking at p.stop.
RunReturnRetries(i) ==
    /\ RunGo(i, "select", "check") /\ (closed[i] \/ ctxDone)
    /\ UNCHANGED <<closed, server, lis, threads, proc, sock, kubelet, bounds>>

\* Run removes the socket file on its way out, as Stop does.
RunReturnRemoves(i) ==
    /\ RunGo(i, "select", "done") /\ (closed[i] \/ ctxDone) /\ Unlink(i[1])
    /\ UNCHANGED <<closed, server, lis, threads, proc, kubelet, bounds>>

-----------------------------------------------------------------------------
(* startPlugins, by main at startup and by the watcher under mu *)

Discover(t, found) ==
    /\ Go(t, "start", "create")
    /\ found # {}
    /\ IF found = Classes THEN UNCHANGED <<faults, hurt>> ELSE Fault
    /\ gen < MaxGen /\ gen' = gen + 1
    /\ want' = [want EXCEPT ![t] = found]
    /\ UNCHANGED <<inst, cur, todo, mu, plugins, ctxDone, events, sock,
                   kubelet, procs, restarts, overtaken>>

\* No card is found: klog.Fatalf at startup.
StartupFatal == pc["main"] = "start" /\ Fault /\ ProcessEnd
                /\ UNCHANGED <<procs, restarts, overtaken>>

\* No card is found after a kubelet restart: logged, and no plugin is left.
RestartFails ==
    /\ Go("watch", "start", "select") /\ Fault
    /\ plugins' = {} /\ mu' = None
    /\ UNCHANGED <<inst, cur, todo, want, gen, ctxDone, events, sock, kubelet,
                   procs, restarts, overtaken>>

\* plugin.New and `go p.Run(ctx)`.
Create(t, c) ==
    /\ pc[t] = "create" /\ c \in want[t]
    /\ want' = [want EXCEPT ![t] = @ \ {c}]
    /\ run' = [run EXCEPT ![<<c, gen>>] = "check"]
    /\ UNCHANGED <<closed, server, lis, pc, cur, todo, proc, sock, kubelet,
                   bounds>>

ThisGeneration == {i \in Inst : i[2] = gen /\ run[i] # "none"}

\* main has its plugins: it starts the watcher and waits for a signal.
Started ==
    /\ want["main"] = {}
    /\ pc["main"] = "create"
    /\ pc' = [pc EXCEPT !["main"] = "wait", !["watch"] = "install"]
    /\ plugins' = ThisGeneration
    /\ UNCHANGED <<inst, cur, todo, want, mu, gen, ctxDone, events, sock,
                   kubelet, bounds>>

\* restart() returns: the new list replaces the old one and mu is released.
Restarted ==
    /\ want["watch"] = {}
    /\ Go("watch", "create", "select")
    /\ plugins' = ThisGeneration /\ mu' = None
    /\ UNCHANGED <<inst, cur, todo, want, gen, ctxDone, events, sock, kubelet,
                   bounds>>

-----------------------------------------------------------------------------
(* watchKubelet *)

WatchInstall == Go("watch", "install", "select")
                /\ UNCHANGED <<inst, cur, todo, want, proc, sock, kubelet,
                               bounds>>

WatchFatal == pc["watch"] = "install" /\ Fault /\ ProcessEnd
              /\ UNCHANGED <<procs, restarts, overtaken>>

WatchEvent == /\ Go("watch", "select", "lock")
              /\ events > 0 /\ events' = events - 1
              /\ hurt' = FALSE
              /\ UNCHANGED <<inst, cur, todo, want, mu, plugins, gen, ctxDone,
                             sock, kubelet, procs, restarts, faults,
                             overtaken>>

\* The kernel queue overflows: the event is gone, an error is logged.
WatchOverflow == /\ pc["watch"] = "select" /\ Fault
                 /\ events > 0 /\ events' = events - 1
                 /\ UNCHANGED <<inst, threads, mu, plugins, gen, ctxDone, sock,
                                kubelet, procs, restarts, overtaken>>

WatchDone == /\ Go("watch", "select", "gone") /\ ctxDone
             /\ events' = 0
             /\ UNCHANGED <<inst, cur, todo, want, mu, plugins, gen, ctxDone,
                            sock, kubelet, bounds>>

-----------------------------------------------------------------------------
(* The stop loop, by main at shutdown and by the watcher in restart() *)

Signal == /\ pc["main"] # "gone" /\ ~ctxDone /\ ctxDone' = TRUE
          /\ UNCHANGED <<inst, threads, mu, plugins, gen, events, sock,
                         kubelet, bounds>>

Wake == Go("main", "wait", "lock") /\ ctxDone
        /\ UNCHANGED <<inst, cur, todo, want, proc, sock, kubelet, bounds>>

Lock(t) == /\ Go(t, "lock", "range")
           /\ mu = None /\ mu' = t
           /\ todo' = [todo EXCEPT ![t] = plugins]
           /\ UNCHANGED <<inst, cur, want, plugins, gen, ctxDone, events, sock,
                          kubelet, bounds>>

NextPlugin(t, i) ==
    /\ Go(t, "range", "check") /\ i \in todo[t]
    /\ cur' = [cur EXCEPT ![t] = i]
    /\ todo' = [todo EXCEPT ![t] = @ \ {i}]
    /\ UNCHANGED <<inst, want, proc, sock, kubelet, bounds>>

\* The `select` of Stop: a plugin already stopped is left alone.
StopCheck(t) ==
    /\ Go(t, "check", IF closed[cur[t]] THEN "range" ELSE "close")
    /\ cur' = IF closed[cur[t]] THEN [cur EXCEPT ![t] = None] ELSE cur
    /\ UNCHANGED <<inst, todo, want, proc, sock, kubelet, bounds>>

StopClose(t) ==
    /\ Go(t, "close", "read")
    /\ closed' = [closed EXCEPT ![cur[t]] = TRUE]
    /\ UNCHANGED <<run, server, lis, cur, todo, want, proc, sock, kubelet,
                   bounds>>

\* grpcServer is read under p.mu; serve may not have stored it yet, and then
\* the goroutine of a plugin that has been stopped goes on.
StopRead(t) ==
    /\ Go(t, "read", IF server[cur[t]] = "nil" THEN "unlink" ELSE "drain")
    /\ overtaken' = [overtaken EXCEPT ![cur[t]] = @ \/ server[cur[t]] = "nil"]
    /\ UNCHANGED <<inst, cur, todo, want, proc, sock, kubelet, procs, restarts,
                   faults, hurt>>

\* GracefulStop, or Stop after stopGracePeriod: either way the server is
\* stopped, and a listener that Serve had been given is closed and unlinked.
StopDrain(t) ==
    LET i == cur[t]
        had == server[i] = "serving" IN
    /\ Go(t, "drain", "unlink")
    /\ server' = [server EXCEPT ![i] = "stopped"]
    /\ lis' = IF had THEN [lis EXCEPT ![i] = "closed"] ELSE lis
    /\ IF had THEN Unlink(i[1]) ELSE UNCHANGED sock
    /\ Drop(i)
    /\ UNCHANGED <<run, closed, cur, todo, want, proc, kup, requests, bounds>>

StopUnlink(t) ==
    /\ Go(t, "unlink", "range")
    /\ Unlink(cur[t][1])
    /\ cur' = [cur EXCEPT ![t] = None]
    /\ UNCHANGED <<inst, todo, want, proc, kubelet, bounds>>

StoppedAllMain == /\ Go("main", "range", "exit") /\ todo["main"] = {}
                  /\ mu' = None
                  /\ UNCHANGED <<inst, cur, todo, want, plugins, gen, ctxDone,
                                 events, sock, kubelet, bounds>>

StoppedAllWatch == /\ Go("watch", "range", "start") /\ todo["watch"] = {}
                   /\ UNCHANGED <<inst, cur, todo, want, proc, sock, kubelet,
                                  bounds>>

Exit == pc["main"] = "exit" /\ ProcessEnd /\ UNCHANGED bounds

-----------------------------------------------------------------------------
(* The Run goroutine of an incarnation and its Serve goroutine *)

RunCheck(i) == RunGo(i, "check", IF ctxDone THEN "failed" ELSE "clear")
               /\ UNCHANGED <<closed, server, lis, threads, proc, sock,
                              kubelet, bounds>>

RunClear(i) == RunGo(i, "clear", "listen") /\ Unlink(i[1])
               /\ UNCHANGED <<closed, server, lis, threads, proc, kubelet,
                              bounds>>

\* net.Listen makes the socket file, or fails if another file is in the way.
RunListen(i) ==
    /\ IF sock[i[1]] = None
       THEN /\ RunGo(i, "listen", "store")
            /\ lis' = [lis EXCEPT ![i] = "open"]
            /\ sock' = [sock EXCEPT ![i[1]] = i]
       ELSE /\ RunGo(i, "listen", "inuse")
            /\ UNCHANGED <<lis, sock>>
    /\ UNCHANGED <<closed, server, threads, proc, kubelet, bounds>>

\* The path cannot be cleared, or listened on for another reason.
RunFails(i) ==
    /\ RunGo(i, "clear", "failed") \/ RunGo(i, "listen", "failed")
    /\ Fault
    /\ UNCHANGED <<closed, server, lis, threads, proc, sock, kubelet, procs,
                   restarts, overtaken>>

RunStore(i) == /\ RunGo(i, "store", "dial")
               /\ server' = [server EXCEPT ![i] = "built"]
               /\ UNCHANGED <<closed, lis, threads, proc, sock, kubelet,
                              bounds>>

\* srv.Serve gets the listener; on a server already stopped it closes it,
\* which unlinks the path whoever owns it by then.
Serve(i) ==
    /\ Created(i) /\ lis[i] = "open"
    /\ \/ /\ server[i] = "built"
          /\ server' = [server EXCEPT ![i] = "serving"]
          /\ UNCHANGED <<lis, sock, endpoint>>
       \/ /\ server[i] = "stopped"
          /\ lis' = [lis EXCEPT ![i] = "closed"]
          /\ Unlink(i[1]) /\ Drop(i)
          /\ UNCHANGED server
    /\ UNCHANGED <<run, closed, threads, proc, kup, requests, bounds>>

\* waitReady: the path accepts a connection, or does not within readyTimeout.
RunDial(i) ==
    /\ RunGo(i, "dial", IF Connectable(i[1]) THEN "register" ELSE "failed")
    /\ UNCHANGED <<closed, server, lis, threads, proc, sock, kubelet, bounds>>

\* Register fails fast when the kubelet is down or the context is done; its
\* success leaves the kubelet a request to dial the endpoint by name.
RunRegister(i) ==
    /\ IF kup /\ ~ctxDone
       THEN /\ RunGo(i, "register", "select")
            /\ requests' = requests \union {i[1]}
       ELSE /\ RunGo(i, "register", "failed")
            /\ UNCHANGED requests
    /\ UNCHANGED <<closed, server, lis, threads, proc, sock, kup, endpoint,
                   bounds>>

\* The kubelet refuses, or accepts and the answer is lost: no retry.
RunRegisterFails(i) ==
    /\ RunGo(i, "register", "failed") /\ Fault
    /\ kup /\ requests' \in {requests, requests \union {i[1]}}
    /\ UNCHANGED <<closed, server, lis, threads, proc, sock, kup, endpoint,
                   procs, restarts, overtaken>>

RunReturn(i) == /\ RunGo(i, "select", "done") /\ (closed[i] \/ ctxDone)
                /\ UNCHANGED <<closed, server, lis, threads, proc, sock,
                               kubelet, bounds>>

-----------------------------------------------------------------------------
(* Process and kubelet: external, as the code relies on them *)

Crash == /\ pc["main"] # "gone" /\ procs < MaxProcs
         /\ ProcessEnd /\ UNCHANGED bounds

\* The DaemonSet's kubelet starts the container again.
ProcessStart ==
    /\ pc["main"] = "gone" /\ kup
    /\ procs < MaxProcs /\ procs' = procs + 1
    /\ pc' = AtStartup
    /\ ctxDone' = FALSE /\ hurt' = FALSE
    /\ UNCHANGED <<inst, cur, todo, want, mu, plugins, gen, events, sock,
                   kubelet, restarts, faults, overtaken>>

\* Every goroutine waits for something outside the process, or it is gone.
Settled == /\ \/ pc["main"] = "gone"
              \/ /\ pc["main"] = "wait" /\ events = 0
                 /\ pc["watch"] \in {"select", "install"}
           /\ \A i \in Inst :
                /\ run[i] \in {"none", "dead", "select", "done", "failed",
                               "inuse"}
                /\ Created(i) => server[i] # "built"

\* Races says which moments the kubelet may pick to go down or come up:
\* "startup" before the watch is installed, "restart" while the process is
\* still acting on an earlier move.
KubeletMayMove ==
    /\ "restart" \in Races \/ Settled
    /\ "startup" \in Races \/ WatchInstalled \/ pc["main"] = "gone"

KubeletStop == /\ kup /\ kup' = FALSE /\ restarts < MaxRestarts
               /\ KubeletMayMove
               /\ requests' = {} /\ endpoint' = [c \in Classes |-> None]
               /\ UNCHANGED <<inst, threads, proc, sock, bounds>>

\* The kubelet empties its directory, then creates kubelet.sock.
KubeletStart ==
    /\ ~kup /\ kup' = TRUE /\ KubeletMayMove
    /\ restarts' = restarts + 1
    /\ sock' = [c \in Classes |-> None]
    /\ events' = events + (IF WatchInstalled THEN 1 ELSE 0)
    /\ UNCHANGED <<inst, threads, mu, plugins, gen, ctxDone, requests,
                   endpoint, procs, faults, hurt, overtaken>>

\* It dials the registered path and opens ListAndWatch on whoever listens.
KubeletConnect(c) ==
    /\ c \in requests /\ requests' = requests \ {c}
    /\ endpoint' = IF Connectable(c) /\ server[sock[c]] # "stopped"
                   THEN [endpoint EXCEPT ![c] = sock[c]] ELSE endpoint
    /\ UNCHANGED <<inst, threads, proc, sock, kup, bounds>>

\* ListAndWatch of a stopped plugin returns and the kubelet's stream ends.
StreamEnd(c) ==
    /\ endpoint[c] # None
    /\ closed[endpoint[c]] /\ server[endpoint[c]] = "serving"
    /\ Drop(endpoint[c])
    /\ UNCHANGED <<inst, threads, proc, sock, kup, requests, bounds>>

-----------------------------------------------------------------------------

StopStep(t) ==
    \/ Lock(t) \/ StopCheck(t) \/ StopClose(t) \/ StopRead(t)
    \/ StopDrain(t) \/ StopUnlink(t)
    \/ \E i \in Inst : NextPlugin(t, i)

StartStep(t) ==
    \/ \E found \in SUBSET Classes : Discover(t, found)
    \/ \E c \in Classes : Create(t, c)

MainStep == \/ StopStep("main") \/ StartStep("main")
            \/ StartupFatal \/ Started \/ Wake \/ StoppedAllMain \/ Exit

WatchStep == \/ StopStep("watch") \/ StartStep("watch")
             \/ RestartFails \/ Restarted \/ StoppedAllWatch
             \/ WatchInstall \/ WatchFatal \/ WatchEvent \/ WatchDone

RunStep(i) == \/ RunCheck(i) \/ RunClear(i) \/ RunListen(i) \/ RunStore(i)
              \/ RunDial(i) \/ RunRegister(i) \/ RunReturn(i)

Environment ==
    \/ Signal \/ Crash \/ ProcessStart \/ WatchOverflow
    \/ KubeletStop \/ KubeletStart
    \/ \E i \in Inst : RunFails(i) \/ RunRegisterFails(i)
    \/ \E c \in Classes : KubeletConnect(c) \/ StreamEnd(c)

Next == \/ MainStep \/ WatchStep \/ Environment
        \/ \E i \in Inst : RunStep(i) \/ Serve(i)

Spec == Init /\ [][Next]_vars

\* Goroutines that can run do run; systemd brings the kubelet back, and the
\* kubelet acts on registrations and restarts the container.  Nothing obliges
\* a signal, a crash, a kubelet restart or a fault to happen.
Fairness ==
    /\ WF_vars(MainStep) /\ WF_vars(WatchStep)
    /\ \A i \in Inst : WF_vars(RunStep(i)) /\ WF_vars(Serve(i))
    /\ WF_vars(KubeletStart) /\ WF_vars(ProcessStart)
    /\ \A c \in Classes : WF_vars(KubeletConnect(c)) /\ WF_vars(StreamEnd(c))

FairSpec == Spec /\ Fairness
-----------------------------------------------------------------------------
(* Correctness *)

RunStates == {"none", "check", "clear", "listen", "store", "dial", "register",
              "select", "done", "failed", "inuse", "dead"}
StopStates == {"lock", "range", "check", "close", "read", "drain", "unlink"}
Critical == {"range", "check", "close", "read", "drain", "unlink"}
States == {"start", "create", "select", "install", "wait", "exit", "off",
           "gone"} \union StopStates

\* Every variable keeps its shape.
TypeOK ==
    /\ run \in [Inst -> RunStates] /\ closed \in [Inst -> BOOLEAN]
    /\ server \in [Inst -> {"nil", "built", "serving", "stopped"}]
    /\ lis \in [Inst -> {"none", "open", "closed"}]
    /\ pc \in [Threads -> States]
    /\ cur \in [Threads -> Inst \union {None}]
    /\ todo \in [Threads -> SUBSET Inst] /\ want \in [Threads -> SUBSET Classes]
    /\ mu \in Threads \union {None} /\ plugins \in SUBSET Inst
    /\ gen \in 0..MaxGen /\ ctxDone \in BOOLEAN /\ events \in Nat
    /\ sock \in [Classes -> Inst \union {None}]
    /\ kup \in BOOLEAN /\ requests \in SUBSET Classes
    /\ endpoint \in [Classes -> Inst \union {None}]
    /\ procs \in Nat /\ restarts \in Nat /\ faults \in Nat
    /\ hurt \in BOOLEAN /\ overtaken \in [Inst -> BOOLEAN]

\* Stop tests p.stop and closes it in two steps (plugin.go:219-224), so only
\* main's mutex keeps shutdown and restart from closing a channel twice, which
\* would panic.
NoDoubleClose == \A t \in Threads : pc[t] = "close" => ~closed[cur[t]]

\* Two plugins of a class never believe they are in service at once: a restart
\* stops every old plugin, found again or not, before it creates the next.
OneLivePerClass == \A i, j \in Inst : Live(i) /\ Live(j) /\ i[1] = j[1] => i = j

\* Every way out of the sections under mu releases it, the error path of restart()
\* included (main.go:61-83): a thread that holds it is still inside one.
MuIsReleased == \A t \in Threads : mu = t =>
    pc[t] \in Critical \/ (t = "watch" /\ pc[t] \in {"start", "create"})

\* Outside startup and the sections under mu, a plugin that has not been
\* stopped is in main's list, so that the next restart or shutdown stops it.
NoLeakedPlugin ==
    mu = None /\ pc["main"] \notin {"start", "create"}
        => \A i \in Inst : Live(i) => i \in plugins

\* Whatever kubelet restarts race, a plugin whose Stop has returned has no
\* listener left (plugin.go:217-245, CONTROL_FLOW.md:311), unless Stop came
\* before serve had stored the server, or Serve has still to close the listener.
StoppedServerIsDown == \A i \in Inst :
    closed[i] /\ (\A t \in Threads : cur[t] # i) /\ lis[i] = "open"
        => overtaken[i] \/ server[i] = "stopped"

\* Run clears what a crashed process left at the path before it listens
\* (plugin.go:188): a listen never finds the address in use.
NoListenConflict == \A i \in Inst : run[i] # "inuse"

\* However kubelet restarts race, a live plugin finds the address in use for one
\* reason only: the file belongs to an older plugin whose Stop returned before
\* serve had stored the server (plugin.go:226), and that listened afterwards.
ListenConflictIsZombie == [][\A i \in Inst :
    run[i] = "listen" /\ run'[i] = "inuse" /\ Live(i)
        => sock[i[1]] \in {j \in Inst : overtaken[j] /\ j[2] < i[2]}]_vars

\* Between restarts, a registered plugin owns the socket file the kubelet will
\* dial by name, and its listener is open: nothing unlinks it behind its back
\* but a kubelet restart whose event was lost.
RegisteredOwnsSocket == \A i \in Inst :
    run[i] = "select" /\ Live(i) /\ ~ctxDone /\ ~hurt
      /\ kup /\ events = 0 /\ pc["watch"] = "select"
        => sock[i[1]] = i /\ lis[i] = "open"

\* A goroutine that may still act on the path of its class after its plugin was
\* stopped: Stop came before its server, or Serve has still to be called.
Straggler(j) == overtaken[j] \/ (server[j] = "stopped" /\ lis[j] = "open")

\* Sockets are unlinked by name (plugin.go:244, 195, 261).  Two only take the
\* path away from a plugin that has not been told to stop: the kubelet, which
\* empties its directory when it starts, and the straggling goroutine of an
\* older plugin of the class; no Stop ever does.
NoStrayUnlink == [][\A c \in Classes :
    sock[c] # None /\ Live(sock[c]) /\ sock'[c] # sock[c]
        => \/ ~kup /\ kup'
           \/ \E j \in Inst : /\ j[1] = c /\ j[2] < sock[c][2] /\ Straggler(j)
                              /\ run'[j] # run[j] \/ lis'[j] # lis[j]]_vars

\* The kubelet's stream never goes back from a plugin to one created earlier.
EndpointMovesForward == [][\A c \in Classes :
    endpoint[c] # None /\ endpoint'[c] # None
        => endpoint'[c][2] >= endpoint[c][2]]_vars

\* However often the kubelet restarts and the process crashes, in the end every
\* class is advertised by a plugin in service, unless the process was told to
\* end (CONTROL_FLOW.md:287).  Failures are logged and not retried (main.go:69,
\* 111, 172); the next restart makes up for all of them.
Advertised == \A c \in Classes : endpoint[c] # None /\ Live(endpoint[c])
Readvertised == <>[](Advertised \/ ctxDone \/ hurt)

\* A signal ends the process, even one that finds a restart in progress.
ShutdownCompletes == ctxDone ~> pc["main"] = "gone"

\* The incarnations of every class follow the abstract life of Incarnations.
Phase == [i \in Inst |-> IF run[i] = "none" THEN "fresh"
                         ELSE IF Live(i) THEN "live" ELSE "retired"]
Abstract == INSTANCE Incarnations WITH phase <- Phase
ImplementsIncarnations == Abstract!Spec

-----------------------------------------------------------------------------
(* The inductive invariant behind NoDoubleClose, OneLivePerClass,              *)
(* NoLeakedPlugin and the refinement.                                          *)

\* A thread in a stop loop, and the watcher in startPlugins, hold mu; during
\* main's own startPlugins there is no watcher yet, and after main none.
MutexInv ==
    /\ \A t \in Threads : pc[t] \in Critical => mu = t
    /\ pc["watch"] \in {"start", "create"} => mu = "watch"
    /\ pc["main"] \in {"start", "create"} => pc["watch"] = "off"
    /\ pc["main"] = "gone" => pc["watch"] = "gone"

\* What the lists name has been created; a generation to come has not.
CreatedInv ==
    /\ \A i \in Inst : /\ run[i] = "none" => ~closed[i]
                       /\ i[2] > gen => run[i] = "none"
    /\ \A i \in plugins : run[i] # "none"
    /\ \A t \in Threads :
        /\ \A i \in todo[t] : run[i] # "none"
        /\ cur[t] # None => run[cur[t]] # "none"
        /\ pc[t] \in Critical \ {"range"} => cur[t] # None
        /\ pc[t] = "create" => /\ gen >= 1
                               /\ \A c \in want[t] : run[<<c, gen>>] = "none"

\* A live plugin is of the current generation, in main's list unless that list
\* is being built, and ahead of the stop loop that runs; a startPlugins that
\* begins finds none, and a process that is gone leaves none.
LiveInv ==
    /\ \A i \in Inst : Live(i) => i[2] = gen
    /\ \A i \in Inst : Live(i) =>
          i \in plugins \/ "create" \in {pc["main"], pc["watch"]}
    /\ pc["main"] \in {"start", "gone"} \/ pc["watch"] = "start"
          => \A i \in Inst : ~Live(i)
    /\ \A t \in Threads : pc[t] \in Critical => \A i \in Inst : Live(i) =>
          i \in todo[t] \/ (i = cur[t] /\ pc[t] \in {"check", "close"})

\* Shutdown and restart exclude each other, and no live plugin escapes the one
\* that runs: this is what main.go:44-83 relies on mu and the list for.
LifecycleInv == MutexInv /\ CreatedInv /\ LiveInv

\* Behind ListenConflictIsZombie: a socket file was made by a listener of its
\* class, nobody has a listener before it listens, and once Run has cleared the
\* path no file of a process that is gone can be in the way.
Early == {"none", "check", "clear", "listen"}

PathInv ==
    /\ \A c \in Classes : sock[c] # None =>
          sock[c][1] = c /\ run[sock[c]] # "none" /\ lis[sock[c]] # "none"
    /\ \A i \in Inst : run[i] \in Early =>
          lis[i] = "none" /\ server[i] \notin {"built", "serving"}
    /\ \A i \in Inst : run[i] = "listen" /\ sock[i[1]] # None
          => run[sock[i[1]]] # "dead"

\* Behind the properties that hold when no kubelet restart strikes a process
\* still acting on an earlier one.  From the Create event to the end of the
\* stop loop every goroutine is at rest: no listener is without its server.
Resting(i) == /\ run[i] \in {"none", "dead", "select", "done", "failed", "inuse"}
              /\ Created(i) => server[i] # "built"

Stopping == events > 0 \/ pc["watch"] \in {"lock", "start"} \union Critical

RestInv ==
    /\ events > 0 => events = 1 /\ pc["watch"] = "select"
    /\ Stopping => \A i \in Inst : Resting(i)
    /\ \A i \in Inst : i[2] < gen => Resting(i)

\* Until main's stop loop meets goroutines still under way, which is the last
\* thing the process does, a plugin told to stop is at rest, and has no listener
\* once Stop has drained its server; no plugin of an earlier generation has one.
Calm == \/ pc["main"] \notin Critical \union {"exit"}
        \/ Stopping \/ pc["watch"] = "create"

Draining(i) == \E t \in Threads : cur[t] = i /\ pc[t] \in {"read", "drain"}

Stopped(i) == (closed[i] /\ ~Draining(i)) \/ server[i] = "stopped"

DownInv ==
    /\ Calm => \A i \in Inst :
          /\ closed[i] => Resting(i)
          /\ Stopped(i) => lis[i] # "open"
    /\ \A i \in Inst : i[2] < gen => lis[i] # "open"

\* What serve, Stop and the kubelet leave behind, whatever races.
ServeInv ==
    /\ \A i \in Inst :
        /\ run[i] \in Early \union {"store"} => server[i] = "nil"
        /\ lis[i] = "open" /\ server[i] = "nil" => run[i] = "store"
        /\ run[i] = "dead" => lis[i] # "open"
        /\ server[i] = "stopped" => closed[i]
        /\ Live(i) /\ run[i] \in {"store", "dial", "register", "select"}
              => lis[i] = "open"
    /\ \A t \in Threads :
        /\ pc[t] \in {"read", "drain", "unlink"} => closed[cur[t]]
        /\ pc[t] = "drain" => server[cur[t]] # "nil"
    /\ pc["main"] \in {"gone", "start"} => \A i \in Inst : ~Created(i)
    /\ pc["main"] \in StopStates \union {"exit"} => ctxDone
    /\ pc["watch"] = "gone" => ctxDone \/ pc["main"] = "gone"
    /\ \A c \in Classes : endpoint[c] # None => run[endpoint[c]] # "none"

\* Only a plugin of the present generation listens, and it finds the path free.
ClearInv == \A i \in Inst : /\ run[i] = "listen" => sock[i[1]] = None
                            /\ run[i] # "inuse"

\* Behind NoStrayUnlink: the lists name plugins of one generation, so that a stop
\* loop never unlinks the path of a plugin made after the ones it stops.
ListedInv ==
    /\ pc["main"] \in {"gone", "start", "create"} => plugins = {}
    /\ pc["watch"] # "create" => \A i \in plugins : i[2] = gen
    /\ \A t \in Threads :
        /\ pc[t] \in Critical => \A i \in todo[t] : i[2] = gen
        /\ cur[t] # None => pc[t] \in Critical \ {"range"} /\ cur[t][2] = gen

\* Behind StoppedServerIsDown and ListenConflictIsZombie, whatever races: once
\* Stop is done with a plugin its server is stopped and the file is not its own,
\* unless the plugin was overtaken.
Unlinking(i) == \E t \in Threads : cur[t] = i /\ pc[t] = "unlink"

StopInv == \A i \in Inst : closed[i] /\ Created(i) =>
    \/ overtaken[i] \/ Draining(i)
    \/ /\ server[i] = "stopped"
       /\ sock[i[1]] = i => Unlinking(i)

\* Together they are inductive.
SocketInv == RestInv /\ DownInv /\ ServeInv /\ ClearInv /\ ListedInv

\* Behind RegisteredOwnsSocket: the file stays until a restart is seen to.
OwnerInv ==
    \A i \in Inst :
        Live(i) /\ run[i] \in {"store", "dial", "register", "select"}
        /\ ~ctxDone /\ ~hurt /\ events = 0
        /\ pc["watch"] \notin {"lock"} \union Critical
            => sock[i[1]] = i
=============================================================================
