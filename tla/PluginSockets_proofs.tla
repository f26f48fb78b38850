------------------------ MODULE PluginSockets_proofs ------------------------
(* Theorems about the socket files and listeners of PluginLifecycle: what    *)
(* holds whatever races, and what holds when no kubelet restart              *)
(* strikes a process that is still acting on an earlier one.                 *)
EXTENDS PluginLifecycle_proofs

\* The types of what serve and Stop share.
LEMMA Types == ASSUME TypeOK
               PROVE  /\ run \in [Inst -> RunStates] /\ closed \in [Inst -> BOOLEAN]
                      /\ server \in [Inst -> {"nil", "built", "serving", "stopped"}]
                      /\ lis \in [Inst -> {"none", "open", "closed"}]
                      /\ pc \in [Threads -> States]
                      /\ cur \in [Threads -> Inst \union {None}]
                      /\ \A c \in Classes : sock[c] # None => sock[c] \in Inst
                      /\ \A c \in Classes : endpoint[c] # None => endpoint[c] \in Inst
  BY DEF TypeOK

\* The thread in the stop loop has a plugin in hand, which is an incarnation.
LEMMA InHand == ASSUME TypeOK, LifecycleInv, NEW t \in Threads,
                       pc[t] \in Critical \ {"range"}
                PROVE  cur[t] \in Inst /\ run[cur[t]] # "none" /\ mu = t
  BY Shapes DEF LifecycleInv, CreatedInv, MutexInv, Critical

\* The steps of the two threads outside their two loops.
Control == \/ Started \/ Wake \/ StoppedAllMain \/ RestartFails \/ Restarted
           \/ StoppedAllWatch \/ WatchInstall \/ WatchEvent \/ WatchDone
           \/ ProcessStart

\* The steps of the kubelet and the kernel that no thread takes part in.
External == \/ Signal \/ WatchOverflow \/ KubeletStop \/ KubeletStart
            \/ \E c \in Classes : KubeletConnect(c) \/ StreamEnd(c)
            \/ UNCHANGED vars

Goroutine(i) == RunStep(i) \/ RunFails(i) \/ RunRegisterFails(i) \/ Serve(i)

LEMMA StepKinds == ASSUME [Next]_vars
                   PROVE  \/ \E t \in Threads : StopStep(t) \/ StartStep(t)
                          \/ ProcessEnd \/ Control \/ External
                          \/ \E i \in Inst : Goroutine(i)
  BY DEF Next, MainStep, WatchStep, Environment, Threads, StartupFatal, Exit,
         WatchFatal, Crash, Control, External, Goroutine

\* The steps that move a Run goroutine, close a stop channel, or change a server
\* or a listener; all others leave every incarnation as it is.
LEMMA InstSteps ==
    ASSUME [Next]_vars
    PROVE  \/ UNCHANGED inst
           \/ \E t \in Threads :
                StopClose(t) \/ StopDrain(t) \/ \E c \in Classes : Create(t, c)
           \/ ProcessEnd
           \/ \E i \in Inst : Goroutine(i)
<1>1. ASSUME NEW t \in Threads, StopStep(t), ~StopClose(t), ~StopDrain(t)
      PROVE  UNCHANGED inst
  BY <1>1 DEF StopStep, Lock, StopCheck, StopRead, StopUnlink, NextPlugin
<1>2. ASSUME NEW t \in Threads, NEW found \in SUBSET Classes, Discover(t, found)
      PROVE  UNCHANGED inst
  BY <1>2 DEF Discover
<1>3. CASE Control
  BY <1>3 DEF Control, Started, Wake, StoppedAllMain, RestartFails, Restarted,
       StoppedAllWatch, WatchInstall, WatchEvent, WatchDone, ProcessStart
<1>4. CASE External
  BY <1>4 DEF External, Signal, WatchOverflow, KubeletStop, KubeletStart,
       KubeletConnect, StreamEnd, vars
<1> QED BY <1>1, <1>2, <1>3, <1>4, StepKinds DEF StartStep

\* A thread comes to the later steps of Stop only through the earlier ones.
LEMMA StopPath ==
    ASSUME TypeOK, [Next]_vars, NEW t \in Threads,
           pc'[t] \in {"read", "drain", "unlink"}
    PROVE  \/ pc'[t] = pc[t] /\ cur'[t] = cur[t]
           \/ StopClose(t) \/ StopRead(t) \/ StopDrain(t)
<1> USE Types
<1>1. ASSUME NEW u \in Threads, StopStep(u)
      PROVE  \/ pc'[t] = pc[t] /\ cur'[t] = cur[t]
             \/ StopClose(t) \/ StopRead(t) \/ StopDrain(t)
  BY <1>1 DEF StopStep, Lock, NextPlugin, StopCheck, StopClose, StopRead, StopDrain,
              StopUnlink, Go
<1>2. ASSUME NEW u \in Threads, StartStep(u) PROVE pc'[t] = pc[t] /\ cur'[t] = cur[t]
  BY <1>2 DEF StartStep, Discover, Create, Go
<1>3. ~ProcessEnd
  BY DEF ProcessEnd
<1>4. CASE Control
  BY <1>4 DEF Control, Started, Wake, StoppedAllMain, RestartFails, Restarted,
       StoppedAllWatch, WatchInstall, WatchEvent, WatchDone, ProcessStart, Go,
       AtStartup, Threads
<1>5. CASE External
  BY <1>5 DEF External, Signal, WatchOverflow, KubeletStop, KubeletStart,
       KubeletConnect, StreamEnd, vars, threads
<1>6. ASSUME NEW i \in Inst, Goroutine(i) PROVE pc'[t] = pc[t] /\ cur'[t] = cur[t]
  BY <1>6, RunIsQuiet DEF Goroutine, Quiet, threads
<1> QED BY <1>1, <1>2, <1>3, <1>4, <1>5, <1>6, StepKinds

-----------------------------------------------------------------------------
(* ServeInv is inductive, one conjunct of it at a time. *)

ServePlugins == \A i \in Inst :
    /\ run[i] \in Early \union {"store"} => server[i] = "nil"
    /\ lis[i] = "open" /\ server[i] = "nil" => run[i] = "store"
    /\ run[i] = "dead" => lis[i] # "open"
    /\ server[i] = "stopped" => closed[i]
    /\ Live(i) /\ run[i] \in {"store", "dial", "register", "select"}
          => lis[i] = "open"

ServeThreads == \A t \in Threads :
    /\ pc[t] \in {"read", "drain", "unlink"} => closed[cur[t]]
    /\ pc[t] = "drain" => server[cur[t]] # "nil"

ServeProcess ==
    /\ pc["main"] \in {"gone", "start"} => \A i \in Inst : ~Created(i)
    /\ pc["main"] \in StopStates \union {"exit"} => ctxDone
    /\ pc["watch"] = "gone" => ctxDone \/ pc["main"] = "gone"

ServeEndpoints == \A c \in Classes : endpoint[c] # None => run[endpoint[c]] # "none"

LEMMA ServePluginsKept ==
    ASSUME TypeOK, LifecycleInv, PathInv, ServeInv, [Next]_vars
    PROVE  ServePlugins'
<1> USE Types DEF ServeInv, ServePlugins, Early, Live, Created
<1>1. CASE UNCHANGED inst
  BY <1>1 DEF inst
<1>2. ASSUME NEW t \in Threads, StopClose(t) PROVE ServePlugins'
  BY <1>2, InHand DEF StopClose, Go, Critical
<1>3. ASSUME NEW t \in Threads, StopDrain(t) PROVE ServePlugins'
  <2>1. cur[t] \in Inst /\ closed[cur[t]] /\ server[cur[t]] # "nil"
    BY <1>3, InHand DEF StopDrain, Go, Critical
  <2> QED BY <1>3, <2>1 DEF StopDrain, PathInv
<1>4. ASSUME NEW t \in Threads, NEW c \in Classes, Create(t, c) PROVE ServePlugins'
  <2>1. run[<<c, gen>>] = "none" /\ <<c, gen>> \in Inst
    BY <1>4, Shapes DEF Create, LifecycleInv, CreatedInv
  <2> QED BY <1>4, <2>1 DEF Create
<1>5. CASE ProcessEnd
  BY <1>5 DEF ProcessEnd
<1>6. ASSUME NEW i \in Inst, Goroutine(i) PROVE ServePlugins'
  <2>1. CASE RunCheck(i)         BY <2>1 DEF RunCheck, RunGo
  <2>2. CASE RunClear(i)         BY <2>2 DEF RunClear, RunGo
  <2>3. CASE RunListen(i)        BY <2>3 DEF RunListen, RunGo
  <2>4. CASE RunStore(i)         BY <2>4 DEF RunStore, RunGo
  <2>5. CASE RunDial(i)          BY <2>5 DEF RunDial, RunGo
  <2>6. CASE RunRegister(i)      BY <2>6 DEF RunRegister, RunGo
  <2>7. CASE RunReturn(i)        BY <2>7 DEF RunReturn, RunGo
  <2>8. CASE RunFails(i) \/ RunRegisterFails(i)
    BY <2>8 DEF RunFails, RunRegisterFails, RunGo
  <2>9. CASE Serve(i)            BY <2>9 DEF Serve
  <2> QED BY <1>6, <2>1, <2>2, <2>3, <2>4, <2>5, <2>6, <2>7, <2>8, <2>9
          DEF Goroutine, RunStep
<1> QED BY <1>1, <1>2, <1>3, <1>4, <1>5, <1>6, InstSteps

\* A channel closed stays closed, and a server stored stays stored.
LEMMA Onward == ASSUME TypeOK, [Next]_vars, NEW i \in Inst
                PROVE  /\ closed[i] => closed'[i]
                       /\ server[i] # "nil" => server'[i] # "nil"
<1> USE Types
<1>1. ASSUME NEW t \in Threads,
             StopClose(t) \/ StopDrain(t) \/ \E c \in Classes : Create(t, c)
      PROVE  /\ closed[i] => closed'[i]
             /\ server[i] # "nil" => server'[i] # "nil"
  BY <1>1 DEF StopClose, StopDrain, Create
<1>2. ASSUME NEW j \in Inst, Goroutine(j)
      PROVE  /\ closed' = closed
             /\ server[i] # "nil" => server'[i] # "nil"
  BY <1>2 DEF Goroutine, RunStep, RunCheck, RunClear, RunListen, RunStore, RunDial,
              RunRegister, RunFails, RunRegisterFails, RunReturn, Serve
<1> QED BY <1>1, <1>2, InstSteps DEF ProcessEnd, inst

LEMMA ServeThreadsKept ==
    ASSUME TypeOK, LifecycleInv, ServeInv, [Next]_vars
    PROVE  ServeThreads'
<1> USE Types
<1> SUFFICES ASSUME NEW t \in Threads, pc'[t] \in {"read", "drain", "unlink"}
             PROVE  /\ closed'[cur'[t]]
                    /\ pc'[t] = "drain" => server'[cur'[t]] # "nil"
  BY DEF ServeThreads
<1>1. CASE pc'[t] = pc[t] /\ cur'[t] = cur[t]
  BY <1>1, InHand, Onward DEF ServeInv, Critical
<1>2. CASE StopClose(t)
  BY <1>2, InHand DEF StopClose, Go, Critical
<1>3. CASE StopRead(t) \/ StopDrain(t)
  BY <1>3, InHand DEF StopRead, StopDrain, Go, Critical, ServeInv, inst, proc
<1> QED BY <1>1, <1>2, <1>3, StopPath

LEMMA ServeProcessKept ==
    ASSUME TypeOK, LifecycleInv, ServeInv, [Next]_vars
    PROVE  ServeProcess'
<1> USE Types DEF ServeInv, ServeProcess, StopStates
<1>1. CASE \E t \in Threads : StopStep(t)
  BY <1>1 DEF StopStep, Lock, NextPlugin, StopCheck, StopClose, StopRead, StopDrain,
              StopUnlink, Go, inst, proc, Created, Threads
<1>2. ASSUME NEW t \in Threads, StartStep(t) PROVE ServeProcess'
  <2>1. pc["main"] # "gone" /\ pc'["main"] \notin {"gone", "start"}
    BY <1>2 DEF StartStep, Discover, Create, Go, Threads, LifecycleInv, MutexInv
  <2>2. ctxDone' = ctxDone /\ \A u \in Threads : pc'[u] = pc[u] \/ pc'[u] = "create"
    BY <1>2 DEF StartStep, Discover, Create, Go, proc
  <2> QED BY <2>1, <2>2 DEF Threads
<1>3. CASE ProcessEnd
  BY <1>3 DEF ProcessEnd, Created, Threads
<1>4. CASE Control
  BY <1>4 DEF Control, Started, Wake, StoppedAllMain, RestartFails, Restarted,
       StoppedAllWatch, WatchInstall, WatchEvent, WatchDone, ProcessStart, Go,
       AtStartup, Threads, inst, proc, Created
<1>5. CASE External
  BY <1>5 DEF External, Signal, WatchOverflow, KubeletStop, KubeletStart,
       KubeletConnect, StreamEnd, vars, threads, inst, proc, Created
<1>6. ASSUME NEW i \in Inst, Goroutine(i) PROVE ServeProcess'
  <2>1. UNCHANGED <<pc, ctxDone>> /\ Created(i)
    BY <1>6 DEF Goroutine, RunStep, RunCheck, RunClear, RunListen, RunStore, RunDial,
       RunRegister, RunFails, RunRegisterFails, RunReturn, Serve, RunGo, threads, proc, Created
  <2> QED BY <2>1
<1> QED BY <1>1, <1>2, <1>3, <1>4, <1>5, <1>6, StepKinds

\* A stream is moved by the kubelet, to the plugin that listens, or ended.
LEMMA EndpointSteps ==
    ASSUME TypeOK, [Next]_vars, NEW c \in Classes, endpoint'[c] # None
    PROVE  \/ endpoint'[c] = endpoint[c]
           \/ /\ Connectable(c) /\ endpoint'[c] = sock[c]
              /\ UNCHANGED inst
<1>0. endpoint \in [Classes -> Inst \union {None}]
  BY DEF TypeOK
<1>1. ASSUME NEW t \in Threads, StopStep(t) \/ StartStep(t)
      PROVE  endpoint'[c] = endpoint[c]
  BY <1>0, <1>1 DEF StopStep, Lock, NextPlugin, StopCheck, StopClose, StopRead,
     StopDrain, StopUnlink, StartStep, Discover, Create, Drop, kubelet
<1>2. CASE Control
  BY <1>2 DEF Control, Started, Wake, StoppedAllMain, RestartFails, Restarted,
       StoppedAllWatch, WatchInstall, WatchEvent, WatchDone, ProcessStart, kubelet
<1>3. CASE Signal \/ WatchOverflow \/ KubeletStop \/ KubeletStart \/ UNCHANGED vars
  BY <1>3 DEF Signal, WatchOverflow, KubeletStop, KubeletStart, vars, kubelet
<1>4. ASSUME NEW d \in Classes, KubeletConnect(d)
      PROVE  \/ endpoint'[c] = endpoint[c]
             \/ /\ Connectable(c) /\ endpoint'[c] = sock[c]
                /\ UNCHANGED inst
  BY <1>0, <1>4 DEF KubeletConnect
<1>5. ASSUME NEW d \in Classes, StreamEnd(d) PROVE endpoint'[c] = endpoint[c]
  BY <1>0, <1>5 DEF StreamEnd, Drop
<1>6. ASSUME NEW i \in Inst, Goroutine(i) PROVE endpoint'[c] = endpoint[c]
  BY <1>0, <1>6 DEF Goroutine, RunStep, RunCheck, RunClear, RunListen, RunStore,
     RunDial, RunRegister, RunFails, RunRegisterFails, RunReturn, Serve, Drop, kubelet
<1>7. ~ProcessEnd
  BY DEF ProcessEnd
<1> QED BY <1>1, <1>2, <1>3, <1>4, <1>5, <1>6, <1>7, StepKinds DEF External

LEMMA ServeEndpointsKept ==
    ASSUME TypeOK, LifecycleInv, PathInv, ServeInv, [Next]_vars
    PROVE  ServeEndpoints'
<1> USE Types
<1> SUFFICES ASSUME NEW c \in Classes, endpoint'[c] # None
             PROVE  run'[endpoint'[c]] # "none"
  BY DEF ServeEndpoints
<1>1. CASE endpoint'[c] = endpoint[c]
  <2>1. endpoint[c] \in Inst /\ run[endpoint[c]] # "none"
    BY <1>1 DEF ServeInv
  <2>2. ASSUME NEW i \in Inst, run[i] # "none" PROVE run'[i] # "none"
    <3>1. CASE ProcessEnd
      BY <2>2, <3>1 DEF ProcessEnd
    <3>2. ASSUME NEW j \in Inst, Goroutine(j) PROVE run'[i] # "none"
      BY <2>2, <3>2, RunIsQuiet DEF Goroutine, Quiet, SameCreated
    <3>3. ASSUME NEW t \in Threads,
                 StopClose(t) \/ StopDrain(t) \/ \E d \in Classes : Create(t, d)
          PROVE  run'[i] # "none"
      BY <2>2, <3>3 DEF StopClose, StopDrain, Create
    <3> QED BY <2>2, <3>1, <3>2, <3>3, InstSteps DEF inst
  <2> QED BY <1>1, <2>1, <2>2
<1>2. CASE Connectable(c) /\ endpoint'[c] = sock[c] /\ UNCHANGED inst
  BY <1>2 DEF Connectable, PathInv, inst
<1> QED BY <1>1, <1>2, EndpointSteps

LEMMA InitServe == Init => ServeInv
  BY DEF Init, AtStartup, ServeInv, Early, Live, Created, StopStates, Threads

\* ServeInv holds whatever races.
THEOREM ServeSafe == Spec => []ServeInv
<1>1. TypeOK /\ LifecycleInv /\ PathInv /\ ServeInv /\ [Next]_vars => ServeInv'
  <2> SUFFICES ASSUME TypeOK, LifecycleInv, PathInv, ServeInv, [Next]_vars
               PROVE  ServeInv'
    OBVIOUS
  <2>2. ServePlugins' /\ ServeThreads' /\ ServeProcess' /\ ServeEndpoints'
    BY ServePluginsKept, ServeThreadsKept, ServeProcessKept, ServeEndpointsKept
  <2> QED
    BY <2>2 DEF ServeInv, ServePlugins, ServeThreads, ServeProcess, ServeEndpoints
<1> QED BY InitServe, <1>1, TypeCorrect, LifecycleSafe, PathSafe, PTL DEF Spec

-----------------------------------------------------------------------------
(* ListedInv, which holds whatever races *)

LEMMA ListedKept ==
    ASSUME TypeOK, LifecycleInv, ListedInv, [Next]_vars
    PROVE  ListedInv'
<1> USE Types DEF ListedInv
<1>0. /\ todo \in [Threads -> SUBSET Inst] /\ None \notin Inst \union Threads
      /\ \A t \in Threads : pc[t] \in Critical => mu = t
      /\ pc["watch"] \in {"start", "create"} => mu = "watch"
      /\ pc["main"] \in {"start", "create"} => pc["watch"] = "off"
      /\ pc["main"] = "gone" => pc["watch"] = "gone"
  BY ConstantsAssumption DEF TypeOK, LifecycleInv, MutexInv, Inst
<1>1. ASSUME NEW t \in Threads, StopStep(t) PROVE ListedInv'
  <2>0. /\ UNCHANGED <<plugins, gen>> /\ pc[t] \in {"lock"} \union Critical
        /\ pc'[t] \in Critical
        /\ \A u \in Threads : u # t => pc'[u] = pc[u]
    BY <1>1 DEF StopStep, Lock, NextPlugin, StopCheck, StopClose, StopRead, StopDrain,
       StopUnlink, Go, Critical, proc
  <2>1. \A u \in Threads : u # t => todo'[u] = todo[u] /\ cur'[u] = cur[u]
    BY <1>0, <1>1 DEF StopStep, Lock, NextPlugin, StopCheck, StopClose, StopRead,
       StopDrain, StopUnlink
  <2>2. /\ \A i \in todo'[t] : i[2] = gen
        /\ cur'[t] # None => pc'[t] # "range" /\ cur'[t][2] = gen
    <3>1. CASE Lock(t)
      <4>1. pc["watch"] # "create" /\ todo'[t] = plugins /\ cur' = cur
        BY <1>0, <3>1 DEF Lock, Go, Threads
      <4>2. cur[t] = None
        BY <3>1 DEF Lock, Go, Critical
      <4> QED BY <4>1, <4>2
    <3>2. CASE ~Lock(t)
      <4>1. pc[t] \in Critical
        BY <1>1, <3>2 DEF StopStep, NextPlugin, StopCheck, StopClose, StopRead,
           StopDrain, StopUnlink, Go, Critical
      <4> QED BY <1>0, <1>1, <3>2, <4>1 DEF StopStep, NextPlugin, StopCheck, StopClose,
              StopRead, StopDrain, StopUnlink, Go
    <3> QED BY <3>1, <3>2
  <2> QED BY <2>0, <2>1, <2>2 DEF Threads, Critical
<1>2. ASSUME NEW t \in Threads, StartStep(t) PROVE ListedInv'
  <2>1. /\ UNCHANGED <<plugins, todo, cur>> /\ pc[t] \in {"start", "create"}
        /\ pc'[t] = "create" /\ \A u \in Threads : u # t => pc'[u] = pc[u]
    BY <1>2 DEF StartStep, Discover, Create, Go, proc
  <2>2. t = "main" => plugins = {}
    BY <2>1
  <2>3. \A u \in Threads : pc'[u] \notin Critical
    BY <1>0, <2>1 DEF Threads, Critical
  <2>4. \A u \in Threads : cur[u] = None
    BY <1>0, <2>1, <2>3 DEF Critical
  <2> QED BY <1>0, <2>1, <2>2, <2>3, <2>4 DEF Threads
<1>3. CASE ProcessEnd
  BY <1>3 DEF ProcessEnd, Threads, Critical
<1>4. CASE Control
  <2>0. gen' = gen /\ todo' = todo /\ cur' = cur
    BY <1>4 DEF Control, Started, Wake, StoppedAllMain, RestartFails, Restarted,
       StoppedAllWatch, WatchInstall, WatchEvent, WatchDone, ProcessStart, proc
  <2>1. \A t \in Threads : /\ pc'[t] \in Critical => pc[t] \in Critical
                           /\ pc[t] \in Critical \ {"range"} => pc'[t] = pc[t]
    BY <1>0, <1>4 DEF Control, Started, Wake, StoppedAllMain, RestartFails, Restarted,
       StoppedAllWatch, WatchInstall, WatchEvent, WatchDone, ProcessStart, Go,
       AtStartup, Threads, Critical
  <2>2. CASE Started \/ Restarted
    <3>1. plugins' = ThisGeneration /\ pc'["main"] \notin {"gone", "start", "create"}
      BY <1>0, <2>2 DEF Started, Restarted, Go, Threads
    <3> QED BY <2>0, <2>1, <3>1 DEF ThisGeneration
  <2>3. CASE RestartFails
    BY <2>0, <2>1, <2>3 DEF RestartFails
  <2>4. CASE ~Started /\ ~Restarted /\ ~RestartFails
    <3>1. plugins' = plugins /\ (pc["watch"] = "create" => pc'["watch"] = "create")
      BY <1>0, <1>4, <2>4 DEF Control, Wake, StoppedAllMain, StoppedAllWatch,
         WatchInstall, WatchEvent, WatchDone, ProcessStart, Go, AtStartup, Threads, proc
    <3>2. pc'["main"] \in {"gone", "start", "create"}
            => pc["main"] \in {"gone", "start", "create"}
      BY <1>4, <2>4 DEF Control, Wake, StoppedAllMain, StoppedAllWatch,
         WatchInstall, WatchEvent, WatchDone, ProcessStart, Go, AtStartup, Threads
    <3> QED BY <2>0, <2>1, <3>1, <3>2
  <2> QED BY <2>2, <2>3, <2>4
<1>5. CASE External
  <2>1. UNCHANGED <<pc, cur, todo, plugins, gen>>
    BY <1>5 DEF External, Signal, WatchOverflow, KubeletStop, KubeletStart,
       KubeletConnect, StreamEnd, vars, threads, proc
  <2> QED BY <2>1
<1>6. ASSUME NEW i \in Inst, Goroutine(i) PROVE ListedInv'
  <2>1. UNCHANGED <<pc, cur, todo, plugins, gen>>
    BY <1>6, RunIsQuiet DEF Goroutine, Quiet, threads
  <2> QED BY <2>1
<1> QED BY <1>1, <1>2, <1>3, <1>4, <1>5, <1>6, StepKinds

LEMMA InitListed == Init => ListedInv
  BY DEF Init, AtStartup, ListedInv, Critical, Threads

\* The lists name plugins of the present generation, whatever races.
THEOREM ListedSafe == Spec => []ListedInv
<1>1. TypeOK /\ LifecycleInv /\ ListedInv /\ [Next]_vars => ListedInv'
  BY ListedKept
<1> QED BY InitListed, <1>1, TypeCorrect, LifecycleSafe, PTL DEF Spec

-----------------------------------------------------------------------------
(* What a Stop leaves behind, whatever races. *)

\* Who removes a socket file, or puts another in its place.
LEMMA SockSteps ==
    ASSUME TypeOK, LifecycleInv, [Next]_vars, NEW c \in Classes, sock'[c] # sock[c]
    PROVE  \/ \E t \in Threads : StopDrain(t) \/ StopUnlink(t)
           \/ KubeletStart
           \/ \E j \in Inst :
                /\ j[1] = c
                /\ RunClear(j) \/ RunListen(j) \/ (Serve(j) /\ server[j] = "stopped")
<1> USE Types
<1>0. sock \in [Classes -> Inst \union {None}]
  BY DEF TypeOK
<1>1. ASSUME NEW t \in Threads, StopStep(t) PROVE StopDrain(t) \/ StopUnlink(t)
  BY <1>1 DEF StopStep, Lock, NextPlugin, StopCheck, StopClose, StopRead
<1>2. ASSUME NEW t \in Threads, StartStep(t) PROVE FALSE
  BY <1>2 DEF StartStep, Discover, Create
<1>3. CASE Control \/ ProcessEnd
  BY <1>3 DEF Control, Started, Wake, StoppedAllMain, RestartFails, Restarted,
     StoppedAllWatch, WatchInstall, WatchEvent, WatchDone, ProcessStart, ProcessEnd
<1>4. CASE External
  BY <1>4 DEF External, Signal, WatchOverflow, KubeletStop, KubeletConnect, StreamEnd,
     vars
<1>5. ASSUME NEW j \in Inst, Goroutine(j)
      PROVE  j[1] = c /\ (RunClear(j) \/ RunListen(j) \/ (Serve(j) /\ server[j] = "stopped"))
  BY <1>0, <1>5 DEF Goroutine, RunStep, RunCheck, RunClear, RunListen, RunStore,
     RunDial, RunRegister, RunFails, RunRegisterFails, RunReturn, Serve, Unlink
<1> QED BY <1>1, <1>2, <1>3, <1>4, <1>5, StepKinds

\* The Stops that were overtaken are not forgotten.
LEMMA OvertakenSteps == ASSUME TypeOK, [Next]_vars, NEW i \in Inst
                        PROVE  \/ overtaken'[i] = overtaken[i]
                               \/ \E t \in Threads : StopRead(t) /\ cur[t] = i
<1>0. overtaken \in [Inst -> BOOLEAN]
  BY DEF TypeOK
<1>1. ASSUME NEW t \in Threads, StopStep(t) \/ StartStep(t)
      PROVE  overtaken'[i] = overtaken[i] \/ (StopRead(t) /\ cur[t] = i)
  BY <1>0, <1>1 DEF StopStep, Lock, NextPlugin, StopCheck, StopClose, StopRead,
     StopDrain, StopUnlink, StartStep, Discover, Create, bounds
<1>2. CASE MainStep \/ WatchStep
  BY <1>1, <1>2 DEF MainStep, WatchStep, StartupFatal, Started, Wake, StoppedAllMain,
     Exit, RestartFails, Restarted, StoppedAllWatch, WatchInstall, WatchFatal,
     WatchEvent, WatchDone, Threads, bounds
<1>3. CASE Environment
  BY <1>3 DEF Environment, Signal, Crash, ProcessStart, WatchOverflow, KubeletStop,
     KubeletStart, RunFails, RunRegisterFails, KubeletConnect, StreamEnd, bounds
<1>4. ASSUME NEW j \in Inst, RunStep(j) \/ Serve(j) PROVE UNCHANGED overtaken
  BY <1>4 DEF RunStep, RunCheck, RunClear, RunListen, RunStore, RunDial, RunRegister,
     RunReturn, Serve, bounds
<1> QED BY <1>2, <1>3, <1>4 DEF Next, vars, bounds

\* Stop is done with a plugin's server when there is none, or it has drained it.
LEMMA DrainEnds ==
    ASSUME TypeOK, LifecycleInv, [Next]_vars, NEW i \in Inst, Draining(i), ~Draining(i)'
    PROVE  \/ ProcessEnd
           \/ \E t \in Threads :
              cur[t] = i /\ ((StopRead(t) /\ server[i] = "nil") \/ StopDrain(t))
<1> USE Types
<1>0. PICK t \in Threads : cur[t] = i /\ pc[t] \in {"read", "drain"}
  BY DEF Draining
<1>1. ~(cur'[t] = cur[t] /\ pc'[t] \in {"read", "drain"})
  BY <1>0 DEF Draining
<1>2. ASSUME NEW u \in Threads, StopStep(u)
      PROVE  (StopRead(t) /\ server[i] = "nil") \/ StopDrain(t)
  BY <1>0, <1>1, <1>2 DEF StopStep, Lock, NextPlugin, StopCheck, StopClose, StopRead,
     StopDrain, StopUnlink, Go
<1>3. ASSUME NEW u \in Threads, StartStep(u) PROVE FALSE
  BY <1>0, <1>1, <1>3 DEF StartStep, Discover, Create, Go
<1>4. CASE Control
  BY <1>0, <1>1, <1>4 DEF Control, Started, Wake, StoppedAllMain, RestartFails,
     Restarted, StoppedAllWatch, WatchInstall, WatchEvent, WatchDone, ProcessStart,
     Go, AtStartup, Threads, LifecycleInv, MutexInv
<1>5. CASE External
  BY <1>0, <1>1, <1>5 DEF External, Signal, WatchOverflow, KubeletStop, KubeletStart,
     KubeletConnect, StreamEnd, vars, threads
<1>6. ASSUME NEW j \in Inst, Goroutine(j) PROVE FALSE
  BY <1>0, <1>1, <1>6, RunIsQuiet DEF Goroutine, Quiet, threads
<1> QED BY <1>0, <1>2, <1>3, <1>4, <1>5, <1>6, StepKinds

\* A listener is opened by Run and by nothing else.
LEMMA OpenSteps ==
    ASSUME TypeOK, [Next]_vars, NEW i \in Inst, lis'[i] = "open"
    PROVE  lis[i] = "open" \/ RunListen(i)
<1> USE Types
<1>1. ASSUME NEW t \in Threads,
             StopClose(t) \/ StopDrain(t) \/ \E c \in Classes : Create(t, c)
      PROVE  lis[i] = "open"
  <2>1. lis' = lis \/ \E k : lis' = [lis EXCEPT ![k] = "closed"]
    BY <1>1 DEF StopClose, StopDrain, Create
  <2> QED BY <2>1
<1>2. ASSUME NEW j \in Inst, Goroutine(j) PROVE lis[i] = "open" \/ RunListen(i)
  BY <1>2 DEF Goroutine, RunStep, RunCheck, RunClear, RunListen, RunStore, RunDial,
     RunRegister, RunFails, RunRegisterFails, RunReturn, Serve, RunGo
<1>3. ~ProcessEnd
  BY DEF ProcessEnd
<1> QED BY <1>1, <1>2, <1>3, InstSteps DEF inst

\* Who stops a channel or a server: the thread with the plugin in its hand.
LEMMA CloseSteps ==
    ASSUME TypeOK, LifecycleInv, [Next]_vars, NEW i \in Inst
    PROVE  /\ closed'[i] => closed[i] \/ \E t \in Threads : StopClose(t) /\ cur[t] = i
           /\ server'[i] = "stopped" =>
                server[i] = "stopped" \/ \E t \in Threads : StopDrain(t) /\ cur[t] = i
<1> USE Types
<1>1. ASSUME NEW t \in Threads, StopClose(t)
      PROVE  /\ closed'[i] => closed[i] \/ cur[t] = i
             /\ server' = server
  BY <1>1, InHand DEF StopClose, Go, Critical
<1>2. ASSUME NEW t \in Threads, StopDrain(t)
      PROVE  /\ server'[i] = "stopped" => server[i] = "stopped" \/ cur[t] = i
             /\ closed' = closed
  BY <1>2, InHand DEF StopDrain, Go, Critical
<1>3. ASSUME NEW j \in Inst, Goroutine(j)
      PROVE  /\ server'[i] = "stopped" => server[i] = "stopped"
             /\ closed' = closed
  BY <1>3 DEF Goroutine, RunStep, RunCheck, RunClear, RunListen, RunStore, RunDial,
     RunRegister, RunFails, RunRegisterFails, RunReturn, Serve, RunGo
<1>4. ASSUME NEW t \in Threads, NEW c \in Classes, Create(t, c)
      PROVE  UNCHANGED <<closed, server>>
  BY <1>4 DEF Create
<1> QED BY <1>1, <1>2, <1>3, <1>4, InstSteps DEF inst, ProcessEnd

\* A thread that unlinks the path of a plugin goes on doing so, or is done.
LEMMA UnlinkEnds ==
    ASSUME TypeOK, LifecycleInv, [Next]_vars, NEW i \in Inst, Unlinking(i), ~Unlinking(i)'
    PROVE  ProcessEnd \/ \E t \in Threads : cur[t] = i /\ StopUnlink(t)
<1> USE Types
<1>0. PICK t \in Threads : cur[t] = i /\ pc[t] = "unlink"
  BY DEF Unlinking
<1>1. ~(cur'[t] = cur[t] /\ pc'[t] = "unlink")
  BY <1>0 DEF Unlinking
<1>2. ASSUME NEW u \in Threads, StopStep(u) PROVE StopUnlink(t)
  BY <1>0, <1>1, <1>2 DEF StopStep, Lock, NextPlugin, StopCheck, StopClose, StopRead,
     StopDrain, StopUnlink, Go
<1>3. ASSUME NEW u \in Threads, StartStep(u) PROVE FALSE
  BY <1>0, <1>1, <1>3 DEF StartStep, Discover, Create, Go
<1>4. CASE Control
  BY <1>0, <1>1, <1>4 DEF Control, Started, Wake, StoppedAllMain, RestartFails,
     Restarted, StoppedAllWatch, WatchInstall, WatchEvent, WatchDone, ProcessStart,
     Go, AtStartup, Threads, LifecycleInv, MutexInv
<1>5. CASE External
  BY <1>0, <1>1, <1>5 DEF External, Signal, WatchOverflow, KubeletStop, KubeletStart,
     KubeletConnect, StreamEnd, vars, threads
<1>6. ASSUME NEW j \in Inst, Goroutine(j) PROVE FALSE
  BY <1>0, <1>1, <1>6, RunIsQuiet DEF Goroutine, Quiet, threads
<1> QED BY <1>0, <1>2, <1>3, <1>4, <1>5, <1>6, StepKinds

\* A server that is stopped stays so.
LEMMA ServerStays ==
    ASSUME TypeOK, ServeInv, [Next]_vars, NEW i \in Inst, server[i] = "stopped"
    PROVE  server'[i] = "stopped"
<1> USE Types
<1>1. ASSUME NEW t \in Threads,
             StopClose(t) \/ StopDrain(t) \/ \E c \in Classes : Create(t, c)
      PROVE  server'[i] = "stopped"
  BY <1>1 DEF StopClose, StopDrain, Create
<1>2. ASSUME NEW j \in Inst, Goroutine(j) PROVE server'[i] = "stopped"
  BY <1>2 DEF Goroutine, RunStep, RunCheck, RunClear, RunListen, RunStore, RunDial,
     RunRegister, RunFails, RunRegisterFails, RunReturn, Serve, RunGo, ServeInv, Early
<1> QED BY <1>1, <1>2, InstSteps DEF ProcessEnd, inst

LEMMA StopInvKept ==
    ASSUME TypeOK, LifecycleInv, PathInv, ServeInv, StopInv, [Next]_vars
    PROVE  StopInv'
<1> USE Types
<1> SUFFICES ASSUME NEW i \in Inst, closed'[i], Created(i)'
             PROVE  \/ overtaken'[i] \/ Draining(i)'
                    \/ server'[i] = "stopped" /\ (sock'[i[1]] = i => Unlinking(i)')
  BY DEF StopInv
<1>0. ~ProcessEnd /\ i[1] \in Classes
  BY DEF ProcessEnd, Created, Inst
<1>1. ASSUME NEW t \in Threads, StopClose(t), cur[t] = i PROVE Draining(i)'
  BY <1>1 DEF StopClose, Go, Draining
<1>2. CASE closed[i]
  <2>1. Created(i)
    <3>1. run[i] # "none"
      BY <1>2 DEF LifecycleInv, CreatedInv
    <3>2. CASE run[i] = "dead"
      <4>1. ASSUME NEW j \in Inst, Goroutine(j) PROVE run'[i] = "dead"
        BY <3>2, <4>1, RunIsQuiet DEF Goroutine, Quiet, SameCreated
      <4>2. ASSUME NEW t \in Threads, NEW c \in Classes, Create(t, c)
            PROVE  run'[i] = "dead"
        <5>1. run[<<c, gen>>] = "none" /\ run' = [run EXCEPT ![<<c, gen>>] = "check"]
          BY <4>2 DEF Create, LifecycleInv, CreatedInv
        <5> QED BY <3>2, <5>1
      <4>3. ASSUME NEW t \in Threads, StopClose(t) \/ StopDrain(t) PROVE run'[i] = "dead"
        BY <3>2, <4>3 DEF StopClose, StopDrain
      <4> QED BY <1>0, <3>2, <4>1, <4>2, <4>3, InstSteps DEF inst, Created
    <3> QED BY <3>1, <3>2 DEF Created
  <2>2. CASE overtaken[i]
    <3>1. overtaken'[i] = overtaken[i] \/ \E t \in Threads : StopRead(t) /\ cur[t] = i
      BY OvertakenSteps
    <3> QED BY <2>2, <3>1 DEF StopRead, TypeOK
  <2>3. CASE Draining(i) /\ ~Draining(i)'
    <3>1. PICK t \in Threads :
            cur[t] = i /\ ((StopRead(t) /\ server[i] = "nil") \/ StopDrain(t))
      BY <1>0, <2>3, DrainEnds
    <3>2. CASE StopRead(t) /\ server[i] = "nil"
      BY <3>1, <3>2 DEF StopRead, TypeOK
    <3>3. CASE StopDrain(t)
      <4>1. server'[i] = "stopped"
        BY <3>1, <3>3 DEF StopDrain
      <4>2. Unlinking(i)'
        BY <3>1, <3>3 DEF StopDrain, Go, Unlinking
      <4> QED BY <4>1, <4>2
    <3> QED BY <3>1, <3>2, <3>3
  <2>4. CASE server[i] = "stopped" /\ (sock[i[1]] = i => Unlinking(i))
    <3>1. server'[i] = "stopped"
      BY <2>4, ServerStays
    <3>2. ASSUME sock'[i[1]] = i PROVE Unlinking(i)'
      <4>1. CASE sock[i[1]] # i
        <5>1. sock \in [Classes -> Inst \union {None}] /\ i # None
          BY ConstantsAssumption DEF TypeOK, Inst
        <5>2. ASSUME NEW t \in Threads, StopDrain(t) \/ StopUnlink(t)
              PROVE  sock'[i[1]] \in {sock[i[1]], None}
          BY <1>0, <5>1, <5>2 DEF StopDrain, StopUnlink, Unlink
        <5>3. ~KubeletStart
          BY <1>0, <3>2, <5>1 DEF KubeletStart
        <5>4. ASSUME NEW j \in Inst, j[1] = i[1], RunClear(j) \/ Serve(j)
              PROVE  sock'[i[1]] \in {sock[i[1]], None}
          BY <1>0, <5>1, <5>4 DEF RunClear, Serve, Unlink
        <5>5. ASSUME NEW j \in Inst, j[1] = i[1], RunListen(j), j # i
              PROVE  sock'[i[1]] # i
          BY <1>0, <4>1, <5>1, <5>5 DEF RunListen
        <5>6. ~RunListen(i)
          BY <2>4 DEF RunListen, RunGo, ServeInv, Early
        <5> QED BY <1>0, <3>2, <4>1, <5>1, <5>2, <5>3, <5>4, <5>5, <5>6, SockSteps
      <4>2. CASE Unlinking(i) /\ ~Unlinking(i)'
        <5>1. PICK t \in Threads : cur[t] = i /\ StopUnlink(t)
          BY <1>0, <4>2, UnlinkEnds
        <5>2. sock'[i[1]] = None
          BY <1>0, <5>1 DEF StopUnlink, Unlink, TypeOK
        <5> QED BY <3>2, <5>2, ConstantsAssumption DEF Inst
      <4> QED BY <2>4, <4>1, <4>2
    <3> QED BY <3>1, <3>2
  <2> QED BY <1>2, <2>1, <2>2, <2>3, <2>4 DEF StopInv
<1> QED BY <1>1, <1>2, CloseSteps

\* A Stop leaves a stopped server and no socket file, or was overtaken.
THEOREM StopSafe == Spec => []StopInv
<1>1. Init => StopInv
  BY DEF Init, StopInv
<1>2. TypeOK /\ LifecycleInv /\ PathInv /\ ServeInv /\ StopInv /\ [Next]_vars => StopInv'
  BY StopInvKept
<1> QED BY <1>1, <1>2, TypeCorrect, LifecycleSafe, PathSafe, ServeSafe, PTL DEF Spec

\* Whatever kubelet restarts race, a plugin whose Stop has returned listens no
\* more, unless Stop came before the server was stored, or Serve has still to be
\* called and will close the listener.
THEOREM StoppedServerIsDownHolds == Spec => []StoppedServerIsDown
<1>1. TypeOK /\ PathInv /\ ServeInv /\ StopInv => StoppedServerIsDown
  <2> SUFFICES ASSUME TypeOK, PathInv, ServeInv, StopInv, NEW i \in Inst, closed[i],
                      \A t \in Threads : cur[t] # i, lis[i] = "open"
               PROVE  overtaken[i] \/ server[i] = "stopped"
    BY DEF StoppedServerIsDown
  <2>1. Created(i) /\ ~Draining(i)
    BY DEF PathInv, ServeInv, Early, Created, Draining
  <2> QED BY <2>1 DEF StopInv
<1> QED BY <1>1, TypeCorrect, PathSafe, ServeSafe, StopSafe, PTL

\* A plugin under way in the class of a live one is of an earlier generation, and
\* no thread has it in hand any more.
LEMMA OthersAreOlder ==
    ASSUME TypeOK, LifecycleInv, ListedInv, NEW i \in Inst, Live(i),
           NEW j \in Inst, j[1] = i[1], j # i, Created(j)
    PROVE  j[2] < i[2] /\ closed[j] /\ \A t \in Threads : cur[t] # j
<1>1. i[2] = gen /\ ~(j[2] > gen)
  BY DEF LifecycleInv, LiveInv, CreatedInv, Created
<1>2. j[2] # gen
  BY <1>1 DEF Inst
<1>3. j[2] \in Nat /\ gen \in Nat
  BY Shapes, GenFacts DEF Inst
<1>4. ~Live(j)
  BY <1>2 DEF LifecycleInv, LiveInv
<1>5. j # None
  BY ConstantsAssumption DEF Inst
<1>6. \A t \in Threads : cur[t] # j
  BY <1>2, <1>5 DEF ListedInv
<1>7. closed[j]
  BY <1>4, Types DEF Live
<1> QED BY <1>1, <1>2, <1>3, <1>6, <1>7

\* Whatever kubelet restarts race, a live plugin finds the address in use because
\* of an overtaken plugin of an earlier generation only.
THEOREM ListenConflictIsZombieHolds == Spec => ListenConflictIsZombie
<1> DEFINE Meets == \A i \in Inst : run[i] = "listen" /\ run'[i] = "inuse" /\ Live(i)
                      => sock[i[1]] \in {j \in Inst : overtaken[j] /\ j[2] < i[2]}
<1>1. TypeOK /\ LifecycleInv /\ PathInv /\ StopInv /\ ListedInv /\ [Next]_vars => Meets
  <2> SUFFICES ASSUME TypeOK, LifecycleInv, PathInv, StopInv, ListedInv, [Next]_vars,
                      NEW i \in Inst, run[i] = "listen", run'[i] = "inuse", Live(i)
               PROVE  sock[i[1]] \in {j \in Inst : overtaken[j] /\ j[2] < i[2]}
    OBVIOUS
  <2> USE Types
  <2> DEFINE j == sock[i[1]]
  <2>1. RunListen(i) /\ j # None
    <3>1. ASSUME NEW t \in Threads,
                 StopClose(t) \/ StopDrain(t) \/ \E c \in Classes : Create(t, c)
          PROVE  FALSE
      BY <3>1 DEF StopClose, StopDrain, Create
    <3>2. ~ProcessEnd /\ ~UNCHANGED inst
      BY DEF ProcessEnd, inst
    <3>3. ASSUME NEW k \in Inst, Goroutine(k) PROVE RunListen(i)
      BY <3>3 DEF Goroutine, RunStep, RunCheck, RunClear, RunListen, RunStore, RunDial,
         RunRegister, RunFails, RunRegisterFails, RunReturn, Serve, RunGo
    <3>4. RunListen(i)
      BY <3>1, <3>2, <3>3, InstSteps
    <3> QED BY <3>4 DEF RunListen, RunGo
  <2>2. /\ i[1] \in Classes /\ j \in Inst /\ j[1] = i[1] /\ j # i /\ Created(j)
    BY <2>1 DEF PathInv, Early, Created, Inst
  <2>3. j[2] < i[2] /\ closed[j] /\ \A t \in Threads : cur[t] # j
    BY <2>2, OthersAreOlder
  <2>4. overtaken[j]
    BY <2>2, <2>3 DEF StopInv, Draining, Unlinking
  <2> QED BY <2>2, <2>3, <2>4
<1>2. TypeOK /\ LifecycleInv /\ PathInv /\ StopInv /\ ListedInv /\ [Next]_vars => [Meets]_vars
  BY <1>1
<1> QED BY <1>2, TypeCorrect, LifecycleSafe, PathSafe, StopSafe, ListedSafe, PTL
        DEF Spec, ListenConflictIsZombie

\* Whatever races, the path of a live plugin is taken away by the kubelet that
\* starts, or by the straggling goroutine of an older plugin: a stop loop works on
\* plugins of the present generation, stopped by the time it unlinks.
THEOREM NoStrayUnlinkHolds == Spec => NoStrayUnlink
<1> DEFINE Taken(c) == \/ ~kup /\ kup'
                       \/ \E j \in Inst : /\ j[1] = c /\ j[2] < sock[c][2] /\ Straggler(j)
                                          /\ run'[j] # run[j] \/ lis'[j] # lis[j]
           Kept == \A c \in Classes :
             sock[c] # None /\ Live(sock[c]) /\ sock'[c] # sock[c] => Taken(c)
<1>1. TypeOK /\ LifecycleInv /\ PathInv /\ ServeInv /\ StopInv /\ ListedInv /\ [Next]_vars
        => Kept
  <2> SUFFICES ASSUME TypeOK, LifecycleInv, PathInv, ServeInv, StopInv, ListedInv,
                      [Next]_vars, NEW c \in Classes, sock[c] # None, Live(sock[c]),
                      sock'[c] # sock[c], ~KubeletStart
               PROVE  Taken(c)
    BY DEF KubeletStart
  <2> USE Types
  <2> DEFINE k == sock[c]
  <2>1. k \in Inst /\ k[1] = c /\ k[2] = gen /\ lis[k] # "none" /\ run[k] \notin Early
    BY DEF PathInv, LifecycleInv, LiveInv
  <2>2. ASSUME NEW t \in Threads, StopDrain(t) \/ StopUnlink(t) PROVE FALSE
    <3>1. cur[t] \in Inst /\ closed[cur[t]] /\ cur[t][2] = gen
      <4>1. pc[t] \in {"drain", "unlink"}
        BY <2>2 DEF StopDrain, StopUnlink, Go
      <4>2. cur[t] \in Inst
        BY <4>1, InHand DEF Critical
      <4> QED BY <4>1, <4>2, ConstantsAssumption DEF ServeInv, ListedInv, Inst
    <3>2. cur[t][1] = c
      BY <2>2 DEF StopDrain, StopUnlink, Unlink, TypeOK
    <3>3. cur[t] = k
      BY <2>1, <3>1, <3>2 DEF Inst
    <3> QED BY <3>1, <3>3 DEF Live
  <2>3. ASSUME NEW j \in Inst, j[1] = c,
               RunClear(j) \/ RunListen(j) \/ (Serve(j) /\ server[j] = "stopped")
        PROVE  Taken(c)
    <3>1. j # k /\ Created(j)
      BY <2>1, <2>3 DEF RunClear, RunListen, RunGo, Serve, Early, ServeInv, Live, Created
    <3>2. j[2] < k[2] /\ closed[j] /\ \A t \in Threads : cur[t] # j
      BY <2>1, <2>3, <3>1, OthersAreOlder
    <3>3. Straggler(j)
      <4>1. CASE RunClear(j) \/ RunListen(j)
        <5>1. server[j] = "nil"
          BY <4>1 DEF RunClear, RunListen, RunGo, ServeInv, Early
        <5> QED BY <3>1, <3>2, <5>1 DEF StopInv, Draining, Straggler
      <4>2. CASE Serve(j) /\ server[j] = "stopped"
        BY <4>2 DEF Serve, Straggler
      <4> QED BY <2>3, <4>1, <4>2
    <3>4. run'[j] # run[j] \/ lis'[j] # lis[j]
      BY <2>3 DEF RunClear, RunListen, RunGo, Serve
    <3> QED BY <2>3, <3>2, <3>3, <3>4
  <2> QED BY <2>2, <2>3, SockSteps
<1>2. TypeOK /\ LifecycleInv /\ PathInv /\ ServeInv /\ StopInv /\ ListedInv /\ [Next]_vars
        => [Kept]_vars
  BY <1>1
<1> QED BY <1>2, TypeCorrect, LifecycleSafe, PathSafe, ServeSafe, StopSafe, ListedSafe, PTL
        DEF Spec, NoStrayUnlink

-----------------------------------------------------------------------------
(* RestInv.  The assumption NoRestartRace is that of every result below: the   *)
(* kubelet restarts a process that is done with its last restart.  The run     *)
(* restart_race shows what happens otherwise.                                  *)

NoRestartRace == "restart" \notin Races

\* A goroutine at rest moves on only when it is told to end.
LEMMA RestStays ==
    ASSUME TypeOK, LifecycleInv, [Next]_vars, NEW i \in Inst, Resting(i),
           ~\E t \in Threads, c \in Classes : Create(t, c) /\ i = <<c, gen>>
    PROVE  Resting(i)'
<1> USE Types DEF Resting, Created
<1>1. ASSUME NEW t \in Threads, StopClose(t) \/ StopDrain(t) PROVE Resting(i)'
  BY <1>1 DEF StopClose, StopDrain
<1>2. ASSUME NEW t \in Threads, NEW c \in Classes, Create(t, c) PROVE Resting(i)'
  <2>1. i # <<c, gen>> /\ <<c, gen>> \in Inst
    BY <1>2, Shapes DEF Create, LifecycleInv, CreatedInv
  <2> QED BY <1>2, <2>1 DEF Create
<1>3. ASSUME NEW j \in Inst, Goroutine(j) PROVE Resting(i)'
  BY <1>3 DEF Goroutine, RunStep, RunCheck, RunClear, RunListen, RunStore, RunDial,
     RunRegister, RunFails, RunRegisterFails, RunReturn, Serve, RunGo
<1>4. CASE ProcessEnd
  BY <1>4 DEF ProcessEnd
<1> QED BY <1>1, <1>2, <1>3, <1>4, InstSteps DEF inst

\* What Create makes is of the present generation, when nothing is being stopped.
LEMMA CreateTime ==
    ASSUME TypeOK, LifecycleInv, RestInv, NEW t \in Threads, NEW c \in Classes,
           Create(t, c)
    PROVE  /\ ~Stopping /\ gen' = gen
           /\ <<c, gen>> \in Inst /\ run[<<c, gen>>] = "none"
<1>1. <<c, gen>> \in Inst /\ run[<<c, gen>>] = "none" /\ gen' = gen
  BY Shapes DEF Create, LifecycleInv, CreatedInv, proc
<1>2. pc["watch"] \in {"create", "off"}
  BY DEF Create, LifecycleInv, MutexInv, Threads
<1> QED BY <1>1, <1>2 DEF RestInv, Stopping, Critical

\* The kubelet's event comes from a restart that found everything at rest.
LEMMA StartRests ==
    ASSUME NoRestartRace, TypeOK, LifecycleInv, RestInv, KubeletStart
    PROVE  /\ \A i \in Inst : Resting(i)
           /\ pc["main"] \in {"gone", "wait"}
           /\ events = 0 /\ events' \in {0, 1}
           /\ events' = 1 => pc["watch"] = "select"
<1>1. Settled
  BY DEF NoRestartRace, KubeletStart, KubeletMayMove
<1>2. events = 0
  BY <1>1 DEF Settled, LifecycleInv, MutexInv, RestInv, TypeOK
<1> QED BY <1>1, <1>2 DEF KubeletStart, WatchInstalled, Settled, Resting,
                          LifecycleInv, MutexInv

\* The watcher comes to stop plugins only when an event is there.
LEMMA EventsKept ==
    ASSUME NoRestartRace, TypeOK, LifecycleInv, RestInv, [Next]_vars
    PROVE  /\ events' > 0 => events' = 1 /\ pc'["watch"] = "select"
           /\ Stopping' => Stopping \/ KubeletStart
<1> USE Types DEF RestInv, Stopping, Critical
<1>0. events \in Nat
  BY DEF TypeOK
<1>1. ASSUME NEW t \in Threads, StopStep(t)
      PROVE  /\ events' = events
             /\ pc'["watch"] = "select" <=> pc["watch"] = "select"
             /\ pc'["watch"] \in {"lock", "start"} \union Critical
                  => pc["watch"] \in {"lock", "start"} \union Critical
  BY <1>1 DEF StopStep, Lock, NextPlugin, StopCheck, StopClose, StopRead, StopDrain,
              StopUnlink, Go, proc, Threads
<1>2. ASSUME NEW t \in Threads, StartStep(t)
      PROVE  /\ events' = events
             /\ pc'["watch"] = "select" <=> pc["watch"] = "select"
             /\ pc'["watch"] \in {"lock", "start"} \union Critical
                  => pc["watch"] \in {"lock", "start"} \union Critical
  BY <1>2 DEF StartStep, Discover, Create, Go, proc, Threads
<1>3. CASE ProcessEnd
  BY <1>3 DEF ProcessEnd, Threads
<1>4. CASE Control
  <2>1. CASE Started \/ ProcessStart
    <3>1. pc["watch"] # "select"
      BY <2>1 DEF Started, ProcessStart, LifecycleInv, MutexInv
    <3>2. pc'["watch"] \in {"install", "off"} /\ events' = events
      BY <2>1 DEF Started, ProcessStart, AtStartup, Threads
    <3> QED BY <1>0, <3>1, <3>2
  <2>2. CASE Wake \/ StoppedAllMain
    BY <1>0, <2>2 DEF Wake, StoppedAllMain, Go, proc, Threads
  <2>3. CASE RestartFails \/ Restarted \/ StoppedAllWatch \/ WatchInstall
             \/ WatchEvent \/ WatchDone
    BY <1>0, <2>3 DEF RestartFails, Restarted, StoppedAllWatch, WatchInstall,
       WatchEvent, WatchDone, Go, proc, Threads
  <2> QED BY <1>4, <2>1, <2>2, <2>3 DEF Control
<1>5. CASE External /\ ~KubeletStart
  BY <1>0, <1>5 DEF External, Signal, WatchOverflow, KubeletStop, KubeletConnect,
                    StreamEnd, vars, threads, proc
<1>6. CASE KubeletStart
  BY <1>6, StartRests DEF KubeletStart, threads
<1>7. ASSUME NEW i \in Inst, Goroutine(i) PROVE UNCHANGED <<pc, events>>
  BY <1>7 DEF Goroutine, RunStep, RunCheck, RunClear, RunListen, RunStore, RunDial,
     RunRegister, RunFails, RunRegisterFails, RunReturn, Serve, threads, proc
<1> QED BY <1>0, <1>1, <1>2, <1>3, <1>4, <1>5, <1>6, <1>7, StepKinds

\* A generation begins only when everything before it is over.
LEMMA GenSteps ==
    ASSUME TypeOK, [Next]_vars, gen' # gen
    PROVE  \E t \in Threads, found \in SUBSET Classes :
              Discover(t, found) /\ gen' = gen + 1 /\ UNCHANGED inst
<1>1. ASSUME NEW t \in Threads, StopStep(t) PROVE gen' = gen
  BY <1>1 DEF StopStep, Lock, NextPlugin, StopCheck, StopClose, StopRead, StopDrain,
              StopUnlink, proc
<1>2. ASSUME NEW i \in Inst, Goroutine(i) PROVE gen' = gen
  BY <1>2, RunIsQuiet DEF Goroutine, Quiet
<1>3. CASE Control \/ ProcessEnd
  BY <1>3 DEF Control, Started, Wake, StoppedAllMain, RestartFails, Restarted,
     StoppedAllWatch, WatchInstall, WatchEvent, WatchDone, ProcessStart, ProcessEnd,
     proc
<1>4. CASE External
  BY <1>4 DEF External, Signal, WatchOverflow, KubeletStop, KubeletStart,
     KubeletConnect, StreamEnd, vars, proc
<1>5. ASSUME NEW t \in Threads, NEW c \in Classes, Create(t, c) PROVE gen' = gen
  BY <1>5 DEF Create, proc
<1>6. ASSUME NEW t \in Threads, NEW found \in SUBSET Classes, Discover(t, found)
      PROVE  gen' = gen + 1 /\ UNCHANGED inst
  BY <1>6 DEF Discover
<1> QED BY <1>1, <1>2, <1>3, <1>4, <1>5, <1>6, StepKinds DEF StartStep

LEMMA RestKept ==
    ASSUME NoRestartRace, TypeOK, LifecycleInv, ServeInv, RestInv, [Next]_vars
    PROVE  RestInv'
<1>1. events' > 0 => events' = 1 /\ pc'["watch"] = "select"
  BY EventsKept
<1>2. ASSUME Stopping', NEW i \in Inst PROVE Resting(i)'
  <2>1. CASE KubeletStart
    BY <2>1, StartRests DEF KubeletStart, inst, Resting, Created
  <2>2. CASE Stopping
    <3>1. Resting(i) /\ ~\E t \in Threads, c \in Classes : Create(t, c)
      BY <2>2, CreateTime DEF RestInv
    <3> QED BY <3>1, RestStays
  <2> QED BY <1>2, <2>1, <2>2, EventsKept
<1>3. ASSUME NEW i \in Inst, i[2] < gen' PROVE Resting(i)'
  <2>0. i[2] \in Nat /\ gen \in Nat
    BY GenFacts DEF Inst, TypeOK
  <2>1. CASE gen' = gen
    <3>1. Resting(i)
      BY <1>3, <2>1 DEF RestInv
    <3>2. ASSUME NEW t \in Threads, NEW c \in Classes, Create(t, c), i = <<c, gen>>
          PROVE  FALSE
      BY <1>3, <2>0, <2>1, <3>2
    <3> QED BY <3>1, <3>2, RestStays
  <2>2. CASE gen' # gen
    <3>1. PICK t \in Threads, found \in SUBSET Classes :
            Discover(t, found) /\ UNCHANGED inst
      BY <2>2, GenSteps
    <3>2. CASE t = "watch"
      <4>1. Resting(i)
        BY <3>1, <3>2 DEF Discover, Go, Stopping, RestInv
      <4> QED BY <3>1, <4>1 DEF Resting, Created, inst
    <3>3. CASE t = "main"
      <4>1. ~Created(i)
        BY <3>1, <3>3 DEF Discover, Go, ServeInv
      <4> QED BY <3>1, <4>1 DEF Resting, Created, inst
    <3> QED BY <3>2, <3>3 DEF Threads
  <2> QED BY <2>1, <2>2
<1> QED BY <1>1, <1>2, <1>3 DEF RestInv

-----------------------------------------------------------------------------
(* DownInv *)

\* As long as it is Calm, whoever stops plugins finds them at rest.
LEMMA CalmRests == ASSUME TypeOK, LifecycleInv, RestInv, Calm,
                          NEW t \in Threads, pc[t] \in Critical
                   PROVE  \A i \in Inst : Resting(i)
<1>1. mu = t
  BY DEF LifecycleInv, MutexInv
<1>2. Stopping
  <2>1. CASE t = "watch"
    BY <2>1 DEF Stopping
  <2>2. CASE t = "main"
    BY <1>1, <2>2 DEF Calm, LifecycleInv, MutexInv, Threads
  <2> QED BY <2>1, <2>2 DEF Threads
<1> QED BY <1>2 DEF RestInv

\* Calm ends for good: only the end of the process brings it back.
LEMMA CalmSteps ==
    ASSUME NoRestartRace, TypeOK, LifecycleInv, RestInv, [Next]_vars, Calm'
    PROVE  Calm \/ ProcessEnd
<1> USE Types
<1> SUFFICES ASSUME ~Calm PROVE ProcessEnd
  OBVIOUS
<1>0. pc["main"] \in Critical \union {"exit"} /\ ~Stopping /\ pc["watch"] # "create"
  BY DEF Calm
<1>1. ~KubeletStart
  BY <1>0, StartRests DEF Critical
<1>2. ~Stopping'
  BY <1>0, <1>1, EventsKept
<1>3. pc'["main"] \notin Critical \union {"exit"} \/ pc'["watch"] = "create"
  BY <1>2 DEF Calm
<1>4. ASSUME NEW t \in Threads, StopStep(t) PROVE FALSE
  BY <1>0, <1>3, <1>4 DEF StopStep, Lock, NextPlugin, StopCheck, StopClose, StopRead,
     StopDrain, StopUnlink, Go, Critical, Threads
<1>5. ASSUME NEW t \in Threads, StartStep(t) PROVE FALSE
  BY <1>0, <1>3, <1>5 DEF StartStep, Discover, Create, Go, Critical, Threads, Stopping
<1>6. CASE Control
  BY <1>0, <1>3, <1>6 DEF Control, Started, Wake, StoppedAllMain, RestartFails,
     Restarted, StoppedAllWatch, WatchInstall, WatchEvent, WatchDone, ProcessStart,
     Go, Critical, Threads, LifecycleInv, MutexInv
<1>7. CASE External
  BY <1>0, <1>3, <1>7 DEF External, Signal, WatchOverflow, KubeletStop, KubeletStart,
     KubeletConnect, StreamEnd, vars, threads
<1>8. ASSUME NEW i \in Inst, Goroutine(i) PROVE FALSE
  BY <1>0, <1>3, <1>8, RunIsQuiet DEF Goroutine, Quiet, threads
<1> QED BY <1>4, <1>5, <1>6, <1>7, <1>8, StepKinds

LEMMA CalmKept ==
    ASSUME NoRestartRace, TypeOK, LifecycleInv, PathInv, ServeInv, RestInv, DownInv,
           [Next]_vars, Calm', NEW i \in Inst
    PROVE  /\ closed'[i] => Resting(i)'
           /\ Stopped(i)' => lis'[i] # "open"
<1> USE Types
<1>1. CASE ProcessEnd
  BY <1>1 DEF ProcessEnd, Resting, Created
<1>2. CASE ~ProcessEnd
  <2>0. Calm
    BY <1>2, CalmSteps
  <2>1. ASSUME closed'[i] PROVE Resting(i) /\ Resting(i)'
    <3>1. CASE closed[i]
      <4>1. Resting(i)
        BY <2>0, <3>1 DEF DownInv
      <4>2. ASSUME NEW t \in Threads, NEW c \in Classes, Create(t, c), i = <<c, gen>>
            PROVE  FALSE
        BY <3>1, <4>2, CreateTime DEF LifecycleInv, CreatedInv
      <4> QED BY <4>1, <4>2, RestStays
    <3>2. ASSUME NEW t \in Threads, StopClose(t), cur[t] = i
          PROVE  Resting(i) /\ Resting(i)'
      <4>1. Resting(i)
        BY <2>0, <3>2, CalmRests DEF StopClose, Go, Critical
      <4> QED BY <3>2, <4>1 DEF StopClose, Resting, Created
    <3> QED BY <2>1, <3>1, <3>2, CloseSteps
  <2>2. ASSUME Stopped(i)', lis'[i] = "open" PROVE FALSE
    <3>1. CASE RunListen(i)
      <4>1. run[i] = "listen" /\ server'[i] = "nil"
        BY <3>1 DEF RunListen, RunGo, ServeInv, Early
      <4>2. closed'[i]
        BY <2>2, <4>1 DEF Stopped
      <4> QED BY <2>1, <4>1, <4>2 DEF Resting
    <3>2. CASE lis[i] = "open"
      <4>0. ~Stopped(i)
        BY <2>0, <3>2 DEF DownInv
      <4>1. Created(i)
        BY <3>2 DEF PathInv, ServeInv, Early, Created
      <4>2. ASSUME NEW t \in Threads, StopDrain(t), cur[t] = i PROVE FALSE
        <5>1. Resting(i)
          BY <2>0, <4>2, CalmRests DEF StopDrain, Go, Critical
        <5>2. server[i] \notin {"nil", "built", "stopped"}
          BY <4>0, <4>1, <4>2, <5>1 DEF Resting, Stopped, ServeInv, StopDrain, Go
        <5> QED BY <2>2, <4>2, <5>2 DEF StopDrain
      <4>3. ASSUME NEW t \in Threads, StopRead(t), cur[t] = i, server[i] = "nil"
            PROVE  FALSE
        <5>1. Resting(i)
          BY <2>0, <4>3, CalmRests DEF StopRead, Go, Critical
        <5> QED BY <3>2, <4>3, <5>1 DEF Resting, ServeInv
      <4>4. ASSUME NEW t \in Threads, StopClose(t), cur[t] = i PROVE FALSE
        <5>1. cur'[t] = i /\ pc'[t] = "read" /\ server'[i] = server[i]
          BY <4>4 DEF StopClose, Go
        <5> QED BY <2>2, <4>0, <5>1 DEF Stopped, Draining
      <4>5. closed'[i] /\ ~Draining(i)'
        BY <2>2, <4>0, <4>2, CloseSteps DEF Stopped
      <4>6. closed[i]
        BY <4>4, <4>5, CloseSteps
      <4>7. Draining(i)
        BY <4>0, <4>6 DEF Stopped
      <4>8. PICK t \in Threads :
              cur[t] = i /\ ((StopRead(t) /\ server[i] = "nil") \/ StopDrain(t))
        BY <1>2, <4>5, <4>7, DrainEnds
      <4> QED BY <4>2, <4>3, <4>8
    <3> QED BY <2>2, <3>1, <3>2, OpenSteps
  <2> QED BY <2>1, <2>2
<1> QED BY <1>1, <1>2

LEMMA DownKept ==
    ASSUME NoRestartRace, TypeOK, LifecycleInv, PathInv, ServeInv, RestInv, DownInv,
           [Next]_vars
    PROVE  DownInv'
<1> USE Types
<1>1. ASSUME NEW i \in Inst, i[2] < gen' PROVE lis'[i] # "open"
  <2>1. CASE gen' = gen
    <3>1. lis[i] # "open" /\ ~RunListen(i)
      BY <1>1, <2>1 DEF DownInv, RestInv, Resting, RunListen, RunGo
    <3> QED BY <3>1, OpenSteps
  <2>2. CASE gen' # gen
    <3>1. PICK t \in Threads, found \in SUBSET Classes :
            Discover(t, found) /\ UNCHANGED inst
      BY <2>2, GenSteps
    <3>2. lis'[i] = lis[i] /\ ~Live(i)
      BY <3>1 DEF inst, Discover, Go, LifecycleInv, LiveInv, Threads
    <3>3. CASE ~Created(i)
      BY <3>2, <3>3 DEF Created, ServeInv, PathInv, Early
    <3>4. CASE closed[i] /\ Created(i)
      <4>1. t = "watch"
        BY <3>1, <3>4 DEF Discover, Go, ServeInv, Threads
      <4>2. Calm /\ ~Draining(i)
        BY <3>1, <4>1 DEF Discover, Go, Calm, Stopping, Draining, LifecycleInv,
                          MutexInv, Critical, Threads
      <4> QED BY <3>2, <3>4, <4>2 DEF DownInv, Stopped
    <3> QED BY <3>2, <3>3, <3>4 DEF Live
  <2> QED BY <2>1, <2>2
<1> QED BY <1>1, CalmKept DEF DownInv

-----------------------------------------------------------------------------
(* ClearInv *)

\* Two goroutines of a class are never under way at once.
LEMMA OneUnderWay ==
    ASSUME TypeOK, LifecycleInv, RestInv, NEW i \in Inst, NEW j \in Inst,
           i[1] = j[1], ~Resting(i), ~Resting(j)
    PROVE  i = j
<1>1. ASSUME NEW k \in Inst, ~Resting(k) PROVE k[2] = gen
  <2>1. ~(k[2] < gen) /\ ~(k[2] > gen)
    BY <1>1 DEF RestInv, LifecycleInv, CreatedInv, Resting, Created
  <2>2. k[2] \in Nat /\ gen \in Nat
    BY GenFacts, Shapes DEF Inst
  <2> QED BY <2>1, <2>2
<1> QED BY <1>1 DEF Inst

LEMMA ClearKept ==
    ASSUME TypeOK, LifecycleInv, PathInv, RestInv, ClearInv, [Next]_vars
    PROVE  ClearInv'
<1> USE Types
<1>1. CASE Harmless
  BY <1>1 DEF Harmless, ClearInv, Inst
<1>2. CASE ProcessEnd
  BY <1>2 DEF ProcessEnd, ClearInv
<1>3. ASSUME NEW t \in Threads, NEW c \in Classes, Create(t, c) PROVE ClearInv'
  BY <1>3 DEF Create, ClearInv
<1>4. ASSUME NEW i \in Inst, RunListen(i) PROVE ClearInv'
  <2>1. run[i] = "listen" /\ sock[i[1]] = None
    BY <1>4 DEF RunListen, RunGo, ClearInv
  <2>2. run' = [run EXCEPT ![i] = "store"] /\ sock' = [sock EXCEPT ![i[1]] = i]
    BY <1>4, <2>1 DEF RunListen, RunGo
  <2>3. ASSUME NEW j \in Inst, run'[j] = "listen" PROVE sock'[j[1]] = None
    <3>1. j # i /\ run[j] = "listen"
      BY <2>2, <2>3
    <3>2. j[1] # i[1]
      BY <2>1, <3>1, OneUnderWay DEF Resting
    <3> QED BY <2>2, <3>1, <3>2 DEF ClearInv
  <2>4. \A j \in Inst : run'[j] # "inuse"
    BY <2>2 DEF ClearInv
  <2> QED BY <2>3, <2>4 DEF ClearInv
<1> QED BY <1>1, <1>2, <1>3, <1>4, HarmlessSteps

-----------------------------------------------------------------------------
(* What follows when restarts strike a settled process *)

LEMMA InitSocket == Init => SocketInv
<1> SUFFICES ASSUME Init PROVE SocketInv
  OBVIOUS
<1>1. RestInv /\ DownInv /\ ClearInv
  BY DEF Init, AtStartup, RestInv, DownInv, ClearInv, Stopping, Resting, Created,
         Critical, Stopped, Draining, Threads
<1>2. ListedInv
  BY DEF Init, AtStartup, ListedInv, Critical, Threads
<1> QED BY <1>1, <1>2, InitServe DEF SocketInv

\* No goroutine is under way while plugins are stopped for a restart, and
\* nothing of an older generation has a listener.
THEOREM SocketSafe == ASSUME NoRestartRace PROVE Spec => []SocketInv
<1>1. TypeOK /\ LifecycleInv /\ PathInv /\ ServeInv /\ ServeInv' /\ SocketInv
        /\ [Next]_vars => SocketInv'
  BY RestKept, DownKept, ClearKept, ListedKept DEF SocketInv
<1> QED BY InitSocket, <1>1, TypeCorrect, LifecycleSafe, PathSafe, ServeSafe, PTL DEF Spec

\* A listen never finds the address in use: Run has cleared the path, and nobody
\* else of the class is about to listen.
THEOREM NoListenConflictHolds ==
    ASSUME NoRestartRace PROVE Spec => []NoListenConflict
<1>1. SocketInv => NoListenConflict
  BY DEF SocketInv, ClearInv, NoListenConflict
<1> QED BY <1>1, SocketSafe, PTL

\* The kubelet never goes from a plugin to one created earlier.
THEOREM EndpointMovesForwardHolds ==
    ASSUME NoRestartRace PROVE Spec => EndpointMovesForward
<1> DEFINE Forward == \A c \in Classes : endpoint[c] # None /\ endpoint'[c] # None
                         => endpoint'[c][2] >= endpoint[c][2]
<1>1. TypeOK /\ LifecycleInv /\ SocketInv /\ [Next]_vars => Forward
  <2> SUFFICES ASSUME TypeOK, LifecycleInv, SocketInv, [Next]_vars,
                      NEW c \in Classes, endpoint[c] # None, endpoint'[c] # None
               PROVE  endpoint'[c][2] >= endpoint[c][2]
    OBVIOUS
  <2>1. endpoint[c] \in Inst /\ ~(endpoint[c][2] > gen)
    BY Types DEF SocketInv, ServeInv, LifecycleInv, CreatedInv
  <2>2. \A i \in Inst : i[2] \in Nat
    BY GenFacts DEF Inst
  <2>3. gen \in Nat
    BY Shapes
  <2>4. CASE endpoint'[c] = endpoint[c]
    BY <2>1, <2>2, <2>4
  <2>5. CASE Connectable(c) /\ endpoint'[c] = sock[c]
    <3>1. sock[c] \in Inst /\ ~(sock[c][2] < gen)
      BY <2>5, Types DEF Connectable, SocketInv, DownInv
    <3> QED BY <2>1, <2>2, <2>3, <2>5, <3>1
  <2> QED BY <2>4, <2>5, EndpointSteps
<1>2. TypeOK /\ LifecycleInv /\ SocketInv /\ [Next]_vars => [Forward]_vars
  BY <1>1
<1> QED BY <1>2, TypeCorrect, LifecycleSafe, SocketSafe, PTL
        DEF Spec, EndpointMovesForward

-----------------------------------------------------------------------------
(* RegisteredOwnsSocket, when a restart does not fall before the watch is      *)
(* installed either.  The run startup_gap shows what happens otherwise.        *)

NoRace == Races = {}

Up == {"store", "dial", "register", "select"}

\* When the file of a plugin in service is to be looked for at its path.
Undisturbed == /\ ~ctxDone /\ ~hurt /\ events = 0
               /\ pc["watch"] \notin {"lock"} \union Critical

\* A step that ends undisturbed began so, unless it left no plugin in service.
LEMMA UndisturbedSteps ==
    ASSUME NoRestartRace, TypeOK, LifecycleInv, ServeInv, RestInv, [Next]_vars,
           Undisturbed', NEW i \in Inst, Live(i)', run'[i] \in Up
    PROVE  Undisturbed
<1> USE Types
<1>0. events \in Nat /\ ctxDone \in BOOLEAN /\ hurt \in BOOLEAN
  BY DEF TypeOK
<1>1. ~ProcessEnd
  BY DEF ProcessEnd, Live, Created
<1>2. ASSUME NEW t \in Threads, StopStep(t) PROVE Undisturbed
  BY <1>2 DEF StopStep, Lock, NextPlugin, StopCheck, StopClose, StopRead, StopDrain,
     StopUnlink, Go, Critical, Threads, Undisturbed, proc, bounds
<1>3. ASSUME NEW t \in Threads, StartStep(t) PROVE Undisturbed
  BY <1>3, <1>0 DEF StartStep, Discover, Create, Fault, Go, Critical, Threads,
     Undisturbed, proc, bounds
<1>4. CASE Control
  <2>1. CASE ProcessStart
    BY <2>1 DEF ProcessStart, ServeInv, Live, Created, inst
  <2>2. CASE StoppedAllWatch
    BY <2>2 DEF StoppedAllWatch, Go, LifecycleInv, LiveInv, Critical, Threads,
                inst, Live, Created
  <2>3. CASE Started \/ Wake \/ StoppedAllMain
    BY <2>3 DEF Started, Wake, StoppedAllMain, Go, Critical, Threads, Undisturbed,
                LifecycleInv, MutexInv, proc, bounds
  <2>4. CASE RestartFails \/ Restarted \/ WatchInstall \/ WatchEvent \/ WatchDone
    BY <2>4 DEF RestartFails, Restarted, WatchInstall, WatchEvent, WatchDone, Fault,
                Go, Critical, Threads, Undisturbed, proc, bounds
  <2> QED BY <1>4, <2>1, <2>2, <2>3, <2>4 DEF Control
<1>5. CASE External
  BY <1>0, <1>5 DEF External, Signal, WatchOverflow, KubeletStop, KubeletStart,
     KubeletConnect, StreamEnd, Fault, vars, threads, proc, bounds, Undisturbed
<1>6. ASSUME NEW j \in Inst, Goroutine(j) PROVE Undisturbed
  BY <1>6 DEF Goroutine, RunStep, RunCheck, RunClear, RunListen, RunStore, RunDial,
     RunRegister, RunFails, RunRegisterFails, RunReturn, Serve, Fault, threads, proc, bounds,
     Undisturbed
<1> QED BY <1>1, <1>2, <1>3, <1>4, <1>5, <1>6, StepKinds

\* A plugin in service was so before, or has just made its file.
LEMMA UpSteps ==
    ASSUME TypeOK, LifecycleInv, [Next]_vars, NEW i \in Inst, Live(i)', run'[i] \in Up
    PROVE  (Live(i) /\ run[i] \in Up) \/ RunListen(i)
<1> USE Types DEF Live, Created, Up
<1>0. closed[i] => closed'[i]
  BY Onward
<1>1. CASE ProcessEnd
  BY <1>1 DEF ProcessEnd
<1>2. ASSUME NEW t \in Threads,
             StopClose(t) \/ StopDrain(t) \/ \E c \in Classes : Create(t, c)
      PROVE  Live(i) /\ run[i] \in Up
  BY <1>0, <1>2 DEF StopClose, StopDrain, Create
<1>3. ASSUME NEW j \in Inst, Goroutine(j)
      PROVE  (Live(i) /\ run[i] \in Up) \/ RunListen(i)
  BY <1>0, <1>3 DEF Goroutine, RunStep, RunCheck, RunClear, RunListen, RunStore,
     RunDial, RunRegister, RunFails, RunRegisterFails, RunReturn, Serve, RunGo
<1> QED BY <1>1, <1>2, <1>3, InstSteps DEF inst

LEMMA OwnerKept ==
    ASSUME NoRace, TypeOK, LifecycleInv, LifecycleInv', SocketInv, OwnerInv, [Next]_vars
    PROVE  OwnerInv'
<1> USE Types DEF SocketInv
<1>0. NoRestartRace
  BY DEF NoRace, NoRestartRace
<1> SUFFICES ASSUME NEW i \in Inst, Live(i)', run'[i] \in Up, Undisturbed'
             PROVE  sock'[i[1]] = i
  BY DEF OwnerInv, Up, Undisturbed
<1>1. i[1] \in Classes /\ Undisturbed
  BY <1>0, UndisturbedSteps DEF Inst
<1>2. CASE RunListen(i)
  BY <1>1, <1>2 DEF RunListen, RunGo, Up, TypeOK
<1>3. CASE Live(i) /\ run[i] \in Up /\ ~RunListen(i)
  <2>0. sock[i[1]] = i
    BY <1>1, <1>3 DEF OwnerInv, Up, Undisturbed
  <2>1. ASSUME NEW j \in Inst, j[1] = i[1], ~Resting(j) PROVE j = i
    <3>1. ~(j[2] < gen) /\ ~(j[2] > gen) /\ i[2] = gen
      BY <1>3, <2>1 DEF RestInv, LifecycleInv, CreatedInv, LiveInv, Resting, Created
    <3>2. j[2] \in Nat /\ gen \in Nat
      BY GenFacts, Shapes DEF Inst
    <3>3. j[2] = i[2]
      BY <3>1, <3>2
    <3> QED BY <2>1, <3>3 DEF Inst
  <2>2. ASSUME NEW t \in Threads, StopDrain(t) \/ StopUnlink(t) PROVE FALSE
    <3>1. CASE t = "main"
      BY <1>1, <2>2, <3>1 DEF StopDrain, StopUnlink, Go, ServeInv, StopStates, Undisturbed
    <3>2. CASE t = "watch"
      BY <1>1, <2>2, <3>2 DEF StopDrain, StopUnlink, Go, Undisturbed, Critical
    <3> QED BY <3>1, <3>2 DEF Threads
  <2>3. ASSUME KubeletStart PROVE FALSE
    <3>1. WatchInstalled \/ pc["main"] = "gone"
      BY <2>3 DEF KubeletStart, KubeletMayMove, NoRace
    <3>2. events = 0 /\ pc["main"] # "gone"
      BY <1>1, <1>3 DEF Undisturbed, ServeInv, Live
    <3>3. events' = 1
      BY <2>3, <3>1, <3>2 DEF KubeletStart
    <3> QED BY <3>3 DEF Undisturbed
  <2>4. ASSUME NEW j \in Inst, j[1] = i[1], RunClear(j) \/ RunListen(j) PROVE FALSE
    <3>1. run[j] \in {"clear", "listen"}
      BY <2>4 DEF RunClear, RunListen, RunGo
    <3>2. j = i
      BY <2>1, <2>4, <3>1 DEF Resting
    <3> QED BY <1>3, <3>1, <3>2 DEF Up
  <2>5. ASSUME NEW j \in Inst, Serve(j), server[j] = "stopped" PROVE FALSE
    <3>1. Calm
      BY <1>1 DEF Calm, Undisturbed, ServeInv, Critical, StopStates
    <3> QED BY <2>5, <3>1 DEF Serve, DownInv, Stopped
  <2>6. sock'[i[1]] = sock[i[1]]
    BY <1>1, <2>2, <2>3, <2>4, <2>5, SockSteps
  <2> QED BY <2>0, <2>6
<1> QED BY <1>2, <1>3, UpSteps

\* Between restarts, a registered plugin owns the socket file that the kubelet
\* dials by name, and listens.
THEOREM RegisteredOwnsSocketHolds ==
    ASSUME NoRace PROVE Spec => []RegisteredOwnsSocket
<1>0. NoRestartRace
  BY DEF NoRace, NoRestartRace
<1>1. Init => OwnerInv
  BY DEF Init, OwnerInv
<1>2. TypeOK /\ LifecycleInv /\ LifecycleInv' /\ SocketInv /\ OwnerInv /\ [Next]_vars
        => OwnerInv'
  BY OwnerKept
<1>3. SocketInv /\ OwnerInv => RegisteredOwnsSocket
  BY DEF SocketInv, ServeInv, OwnerInv, RegisteredOwnsSocket, Critical
<1>4. Spec => []SocketInv
  BY <1>0, SocketSafe
<1> QED BY <1>1, <1>2, <1>3, <1>4, TypeCorrect, LifecycleSafe, PTL DEF Spec
=============================================================================
