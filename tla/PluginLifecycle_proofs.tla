----------------------- MODULE PluginLifecycle_proofs -----------------------
(* Theorems about PluginLifecycle, for every set of classes, every bound and *)
(* every choice of Races.                                                    *)
EXTENDS PluginLifecycle, TLAPS

LEMMA GenFacts == MaxGen \in Nat
  BY ConstantsAssumption DEF MaxGen

\* The process ends with every variable in shape.
LEMMA ProcessEndType == ASSUME TypeOK, ProcessEnd
                        PROVE  /\ run' \in [Inst -> RunStates]
                               /\ lis' \in [Inst -> {"none", "open", "closed"}]
                               /\ endpoint' \in [Classes -> Inst \union {None}]
                               /\ pc' \in [Threads -> States]
                               /\ cur' \in [Threads -> Inst \union {None}]
                               /\ todo' \in [Threads -> SUBSET Inst]
                               /\ want' \in [Threads -> SUBSET Classes]
  BY DEF TypeOK, ProcessEnd, RunStates, States, StopStates

\* Every variable keeps its shape along every behaviour.
THEOREM TypeCorrect == Spec => []TypeOK
<1>1. Init => TypeOK
  <2>1. AtStartup \in [Threads -> States]
    BY DEF AtStartup, States
  <2>2. 1 \in Nat /\ 0 \in Nat /\ 0 \in 0..MaxGen
    BY GenFacts
  <2> SUFFICES ASSUME Init PROVE TypeOK
    OBVIOUS
  <2>3. /\ run \in [Inst -> RunStates] /\ closed \in [Inst -> BOOLEAN]
        /\ server \in [Inst -> {"nil", "built", "serving", "stopped"}]
        /\ lis \in [Inst -> {"none", "open", "closed"}]
    BY DEF Init, RunStates
  <2>4. /\ pc \in [Threads -> States]
        /\ cur \in [Threads -> Inst \union {None}]
        /\ todo \in [Threads -> SUBSET Inst] /\ want \in [Threads -> SUBSET Classes]
    BY <2>1 DEF Init
  <2>5. /\ mu \in Threads \union {None} /\ plugins \in SUBSET Inst
        /\ gen \in 0..MaxGen /\ ctxDone \in BOOLEAN /\ events \in Nat
    BY <2>2 DEF Init
  <2>6. /\ sock \in [Classes -> Inst \union {None}]
        /\ kup \in BOOLEAN /\ requests \in SUBSET Classes
        /\ endpoint \in [Classes -> Inst \union {None}]
        /\ procs \in Nat /\ restarts \in Nat /\ faults \in Nat
        /\ hurt \in BOOLEAN /\ overtaken \in [Inst -> BOOLEAN]
    BY <2>2 DEF Init
  <2> QED BY <2>3, <2>4, <2>5, <2>6 DEF TypeOK
<1>2. TypeOK /\ [Next]_vars => TypeOK'
  <2> SUFFICES ASSUME TypeOK, [Next]_vars PROVE TypeOK'
    OBVIOUS
  <2> USE GenFacts
  <2> USE DEF TypeOK
  <2>1. ASSUME NEW t \in Threads, StopStep(t) PROVE TypeOK'
    <3>1. CASE Lock(t)
      BY <3>1 DEF Lock, Go, inst, kubelet, bounds, States, StopStates
    <3>2. CASE StopCheck(t)
      BY <3>2 DEF StopCheck, Go, inst, proc, kubelet, bounds, States, StopStates
    <3>3. CASE StopClose(t)
      BY <3>3 DEF StopClose, Go, proc, kubelet, bounds, States, StopStates
    <3>4. CASE StopRead(t)
      BY <3>4 DEF StopRead, Go, inst, proc, kubelet, bounds, States, StopStates
    <3>5. CASE StopDrain(t)
      BY <3>5 DEF StopDrain, Go, Unlink, Drop, proc, bounds, States, StopStates
    <3>6. CASE StopUnlink(t)
      BY <3>6 DEF StopUnlink, Go, Unlink, inst, proc, kubelet, bounds, States,
                  StopStates
    <3>7. ASSUME NEW i \in Inst, NextPlugin(t, i) PROVE TypeOK'
      BY <3>7 DEF NextPlugin, Go, inst, proc, kubelet, bounds, States, StopStates
    <3> QED BY <2>1, <3>1, <3>2, <3>3, <3>4, <3>5, <3>6, <3>7 DEF StopStep
  <2>2. ASSUME NEW t \in Threads, StartStep(t) PROVE TypeOK'
    <3>1. ASSUME NEW found \in SUBSET Classes, Discover(t, found) PROVE TypeOK'
      <4>1. \/ faults' = faults /\ hurt' = hurt
            \/ faults' = faults + 1 /\ hurt' = TRUE
        BY <3>1 DEF Discover, Fault
      <4>2. faults' \in Nat /\ hurt' \in BOOLEAN
        <5>1. faults' \in Nat BY <4>1, SMT
        <5>2. hurt' \in BOOLEAN BY <4>1, Zenon
        <5> QED BY <5>1, <5>2
      <4>3. /\ gen' \in 0..MaxGen /\ want' \in [Threads -> SUBSET Classes]
            /\ pc' \in [Threads -> States]
        BY <3>1 DEF Discover, Go, States
      <4> QED BY <3>1, <4>2, <4>3 DEF Discover, inst, kubelet
    <3>2. ASSUME NEW c \in Classes, Create(t, c) PROVE TypeOK'
      BY <3>2 DEF Create, proc, kubelet, bounds, RunStates
    <3> QED BY <2>2, <3>1, <3>2 DEF StartStep
  <2>3. CASE StartupFatal
    BY <2>3, ProcessEndType DEF StartupFatal, Fault, ProcessEnd
  <2>4. CASE Started
    BY <2>4 DEF Started, ThisGeneration, inst, kubelet, bounds, States, StopStates
  <2>5. CASE Wake
    BY <2>5 DEF Wake, Go, inst, proc, kubelet, bounds, States, StopStates
  <2>6. CASE StoppedAllMain
    BY <2>6 DEF StoppedAllMain, Go, inst, kubelet, bounds, States, StopStates
  <2>7. CASE Exit
    BY <2>7, ProcessEndType DEF Exit, ProcessEnd, bounds
  <2>8. CASE RestartFails
    <3>1. faults' \in Nat /\ hurt' \in BOOLEAN BY <2>8 DEF RestartFails, Fault
    <3> QED BY <2>8, <3>1 DEF RestartFails, Go, inst, kubelet, States
  <2>9. CASE Restarted
    BY <2>9 DEF Restarted, Go, ThisGeneration, inst, kubelet, bounds, States,
                StopStates
  <2>10. CASE StoppedAllWatch
    BY <2>10 DEF StoppedAllWatch, Go, inst, proc, kubelet, bounds, States,
                 StopStates
  <2>11. CASE WatchInstall
    BY <2>11 DEF WatchInstall, Go, inst, proc, kubelet, bounds, States, StopStates
  <2>12. CASE WatchFatal
    BY <2>12, ProcessEndType DEF WatchFatal, Fault, ProcessEnd
  <2>13. CASE WatchEvent
    <3>1. events' \in Nat BY <2>13 DEF WatchEvent
    <3> QED BY <2>13, <3>1 DEF WatchEvent, Go, inst, kubelet, bounds, States,
                               StopStates
  <2>14. CASE WatchDone
    BY <2>14 DEF WatchDone, Go, inst, kubelet, bounds, States, StopStates
  <2>15. ASSUME NEW i \in Inst, RunStep(i) PROVE TypeOK'
    <3> USE DEF RunGo, RunStates, threads, proc, kubelet, bounds
    <3>1. CASE RunCheck(i)     BY <3>1 DEF RunCheck
    <3>2. CASE RunClear(i)     BY <3>2 DEF RunClear, Unlink
    <3>3. CASE RunListen(i)    BY <3>3 DEF RunListen
    <3>4. CASE RunStore(i)     BY <3>4 DEF RunStore
    <3>5. CASE RunDial(i)      BY <3>5 DEF RunDial
    <3>6. CASE RunRegister(i)
      <4>1. requests' \in SUBSET Classes BY <3>6 DEF RunRegister, Inst
      <4>2. run' \in [Inst -> RunStates] BY <3>6 DEF RunRegister
      <4> QED BY <3>6, <4>1, <4>2 DEF RunRegister
    <3>7. CASE RunReturn(i)    BY <3>7 DEF RunReturn
    <3> QED BY <2>15, <3>1, <3>2, <3>3, <3>4, <3>5, <3>6, <3>7 DEF RunStep
  <2>16. ASSUME NEW i \in Inst, Serve(i) PROVE TypeOK'
    BY <2>16 DEF Serve, Unlink, Drop, threads, proc, bounds
  <2>17. CASE Environment
    <3>1. CASE Signal
      BY <3>1 DEF Signal, inst, threads, kubelet, bounds
    <3>2. CASE Crash
      BY <3>2, ProcessEndType DEF Crash, ProcessEnd, bounds
    <3>3. CASE ProcessStart
      <4>1. pc' \in [Threads -> States]
        BY <3>3 DEF ProcessStart, AtStartup, States
      <4>2. procs' \in Nat BY <3>3 DEF ProcessStart
      <4> QED BY <3>3, <4>1, <4>2 DEF ProcessStart, inst, kubelet
    <3>4. CASE WatchOverflow
      BY <3>4 DEF WatchOverflow, Fault, inst, threads, kubelet
    <3>5. CASE KubeletStop
      BY <3>5 DEF KubeletStop, inst, threads, proc, bounds
    <3>6. CASE KubeletStart
      BY <3>6 DEF KubeletStart, inst, threads
    <3>7. ASSUME NEW i \in Inst, RunRegisterFails(i) PROVE TypeOK'
      BY <3>7 DEF RunRegisterFails, RunGo, RunStates, Fault, threads, proc, Inst
    <3>8. ASSUME NEW c \in Classes, KubeletConnect(c) PROVE TypeOK'
      BY <3>8 DEF KubeletConnect, Connectable, inst, threads, proc, bounds
    <3>9. ASSUME NEW c \in Classes, StreamEnd(c) PROVE TypeOK'
      BY <3>9 DEF StreamEnd, Drop, inst, threads, proc, bounds
    <3>10. ASSUME NEW i \in Inst, RunFails(i) PROVE TypeOK'
      BY <3>10 DEF RunFails, RunGo, RunStates, Fault, threads, proc, kubelet, Inst
    <3> QED BY <2>17, <3>1, <3>2, <3>3, <3>4, <3>5, <3>6, <3>7, <3>8, <3>9, <3>10
            DEF Environment
  <2>18. CASE UNCHANGED vars
    BY <2>18 DEF vars, inst, threads, proc, kubelet, bounds
  <2> QED
    BY <2>1, <2>2, <2>3, <2>4, <2>5, <2>6, <2>7, <2>8, <2>9, <2>10, <2>11,
       <2>12, <2>13, <2>14, <2>15, <2>16, <2>17, <2>18
    DEF Next, MainStep, WatchStep, Threads
<1> QED BY <1>1, <1>2, PTL DEF Spec

-----------------------------------------------------------------------------
(* LifecycleInv is inductive.  Most actions leave what it speaks of alone:     *)
(* Run and Serve goroutines move on, files and streams come and go.            *)

SameCreated == \A i \in Inst : /\ run'[i] = "none" <=> run[i] = "none"
                               /\ run'[i] = "dead" <=> run[i] = "dead"

Quiet == /\ UNCHANGED <<closed, threads, mu, plugins, gen>>
         /\ SameCreated

LEMMA QuietKeeps == ASSUME TypeOK, LifecycleInv, Quiet PROVE LifecycleInv'
<1>1. UNCHANGED <<closed, pc, cur, todo, want, mu, plugins, gen>>
  BY DEF Quiet, threads
<1>2. \A i \in Inst : run'[i] = "none" <=> run[i] = "none"
  BY DEF Quiet, SameCreated
<1>3. \A i \in Inst : Live(i)' <=> Live(i)
  BY <1>1 DEF Quiet, SameCreated, Live, Created
<1>4. /\ plugins \subseteq Inst
      /\ \A t \in Threads : /\ todo[t] \subseteq Inst
                            /\ cur[t] # None => cur[t] \in Inst
                            /\ \A c \in want[t] : gen >= 1 => <<c, gen>> \in Inst
  BY GenFacts DEF TypeOK, Inst
<1>5. MutexInv'
  BY <1>1 DEF LifecycleInv, MutexInv
<1>6. CreatedInv'
  BY <1>1, <1>2, <1>4 DEF LifecycleInv, CreatedInv
<1>7. LiveInv'
  BY <1>1, <1>3 DEF LifecycleInv, LiveInv
<1> QED BY <1>5, <1>6, <1>7 DEF LifecycleInv

LEMMA RunGoSame == ASSUME TypeOK, NEW i \in Inst, NEW from, NEW to,
                          RunGo(i, from, to),
                          from \notin {"none", "dead"}, to \notin {"none", "dead"}
                   PROVE  SameCreated
  BY DEF TypeOK, RunGo, SameCreated

LEMMA RunIsQuiet == ASSUME TypeOK, NEW i \in Inst,
                           RunStep(i) \/ Serve(i) \/ RunFails(i) \/ RunRegisterFails(i)
                    PROVE  Quiet
<1> USE RunGoSame DEF Quiet, proc, threads
<1>1. CASE RunCheck(i)    BY <1>1 DEF RunCheck
<1>2. CASE RunClear(i)    BY <1>2 DEF RunClear
<1>3. CASE RunListen(i)   BY <1>3 DEF RunListen
<1>4. CASE RunStore(i)    BY <1>4 DEF RunStore
<1>5. CASE RunDial(i)     BY <1>5 DEF RunDial
<1>6. CASE RunRegister(i) BY <1>6 DEF RunRegister
<1>7. CASE RunReturn(i)   BY <1>7 DEF RunReturn
<1>8. CASE RunFails(i) \/ RunRegisterFails(i)
  BY <1>8 DEF RunFails, RunRegisterFails
<1>9. CASE Serve(i)       BY <1>9 DEF Serve, SameCreated
<1> QED BY <1>1, <1>2, <1>3, <1>4, <1>5, <1>6, <1>7, <1>8, <1>9 DEF RunStep

\* The environment's moves that leave the process's own state alone.
LEMMA EnvironmentIsQuiet ==
    ASSUME Signal \/ WatchOverflow \/ KubeletStop \/ KubeletStart
           \/ (\E c \in Classes : KubeletConnect(c) \/ StreamEnd(c))
           \/ UNCHANGED vars
    PROVE  Quiet
  BY DEF Signal, WatchOverflow, KubeletStop, KubeletStart, KubeletConnect,
         StreamEnd, Quiet, SameCreated, vars, inst, proc, threads

\* After the end of the process nothing is live and no thread runs.
LEMMA ProcessEndKeeps == ASSUME TypeOK, LifecycleInv, ProcessEnd
                         PROVE  LifecycleInv'
<1>1. MutexInv'
  BY DEF ProcessEnd, MutexInv, Critical, Threads
<1>2. \A i \in Inst : /\ run'[i] = "none" <=> run[i] = "none"
                      /\ ~Live(i)'
  BY DEF ProcessEnd, Live, Created, TypeOK
<1>3. CreatedInv'
  BY <1>2 DEF ProcessEnd, LifecycleInv, CreatedInv, Critical
<1>4. LiveInv'
  BY <1>2 DEF LiveInv
<1> QED BY <1>1, <1>3, <1>4 DEF LifecycleInv

\* Facts of the type invariant in the form the steps below need.
LEMMA Shapes == ASSUME TypeOK
                PROVE  /\ plugins \subseteq Inst
                       /\ \A t \in Threads : /\ todo[t] \subseteq Inst
                                             /\ cur[t] # None => cur[t] \in Inst
                                             /\ want[t] \subseteq Classes
                       /\ gen \in Nat
                       /\ \A c \in Classes : gen >= 1 => <<c, gen>> \in Inst
  BY GenFacts DEF TypeOK, Inst

\* The stop loop: whoever walks it holds mu, and a plugin it leaves behind has
\* been told to stop.
LEMMA StopKeeps == ASSUME TypeOK, LifecycleInv, NEW t \in Threads, StopStep(t)
                   PROVE  LifecycleInv'
<1> USE Shapes DEF LifecycleInv, Live, Created
<1>0. \A u \in Threads : pc \in [Threads -> States] /\ todo \in [Threads -> SUBSET Inst]
        /\ cur \in [Threads -> Inst \union {None}] /\ closed \in [Inst -> BOOLEAN]
  BY DEF TypeOK
<1>1. CASE Lock(t)
  <2> USE <1>0, <1>1 DEF Lock, Go, inst
  <2>1. MutexInv'  BY ConstantsAssumption DEF MutexInv, Critical, Threads
  <2>2. CreatedInv' BY DEF CreatedInv, Critical
  <2>3. LiveInv'   BY ConstantsAssumption DEF LiveInv, MutexInv, Critical, Threads
  <2> QED BY <2>1, <2>2, <2>3
<1>2. CASE StopCheck(t)
  <2> USE <1>0, <1>2 DEF StopCheck, Go, inst, proc
  <2>1. MutexInv'  BY DEF MutexInv, Critical, Threads
  <2>2. CreatedInv' BY DEF CreatedInv, Critical
  <2>3. LiveInv'   BY DEF LiveInv, MutexInv, Critical, Threads
  <2> QED BY <2>1, <2>2, <2>3
<1>3. CASE StopClose(t)
  <2> USE <1>0, <1>3 DEF StopClose, Go, proc
  <2>1. MutexInv'  BY DEF MutexInv, Critical, Threads
  <2>2. CreatedInv' BY DEF CreatedInv, Critical
  <2>3. LiveInv'   BY DEF LiveInv, MutexInv, CreatedInv, Critical, Threads
  <2> QED BY <2>1, <2>2, <2>3
<1>4. CASE StopRead(t)
  <2> USE <1>0, <1>4 DEF StopRead, Go, inst, proc
  <2>1. MutexInv'  BY DEF MutexInv, Critical, Threads
  <2>2. CreatedInv' BY DEF CreatedInv, Critical
  <2>3. LiveInv'   BY DEF LiveInv, MutexInv, Critical, Threads
  <2> QED BY <2>1, <2>2, <2>3
<1>5. CASE StopDrain(t)
  <2> USE <1>0, <1>5 DEF StopDrain, Go, proc
  <2>1. MutexInv'  BY DEF MutexInv, Critical, Threads
  <2>2. CreatedInv' BY DEF CreatedInv, Critical
  <2>3. LiveInv'   BY DEF LiveInv, MutexInv, Critical, Threads
  <2> QED BY <2>1, <2>2, <2>3
<1>6. CASE StopUnlink(t)
  <2> USE <1>0, <1>6 DEF StopUnlink, Go, inst, proc
  <2>1. MutexInv'  BY DEF MutexInv, Critical, Threads
  <2>2. CreatedInv' BY DEF CreatedInv, Critical
  <2>3. LiveInv'   BY DEF LiveInv, MutexInv, Critical, Threads
  <2> QED BY <2>1, <2>2, <2>3
<1>7. ASSUME NEW i \in Inst, NextPlugin(t, i) PROVE LifecycleInv'
  <2> USE <1>0, <1>7 DEF NextPlugin, Go, inst, proc
  <2>0. i \in Inst /\ i # None
    BY ConstantsAssumption, GenFacts DEF Inst
  <2>1. MutexInv'  BY DEF MutexInv, Critical, Threads
  <2>2. CreatedInv' BY <2>0 DEF CreatedInv, Critical
  <2>3. LiveInv'   BY DEF LiveInv, MutexInv, Critical, Threads
  <2> QED BY <2>1, <2>2, <2>3
<1> QED BY <1>1, <1>2, <1>3, <1>4, <1>5, <1>6, <1>7 DEF StopStep

\* startPlugins: it begins with no live plugin and creates one per class.
LEMMA StartKeeps == ASSUME TypeOK, LifecycleInv, NEW t \in Threads, StartStep(t)
                    PROVE  LifecycleInv'
<1> USE Shapes DEF LifecycleInv
<1>0. /\ pc \in [Threads -> States] /\ want \in [Threads -> SUBSET Classes]
      /\ run \in [Inst -> RunStates]
  BY DEF TypeOK
<1>1. ASSUME NEW found \in SUBSET Classes, Discover(t, found)
      PROVE  LifecycleInv'
  <2> USE <1>0, <1>1 DEF Discover, Go, inst
  <2>0. \A i \in Inst : i[2] \in Nat
    BY GenFacts DEF Inst
  <2>1. MutexInv'  BY DEF MutexInv, Critical, Threads
  <2>2. CreatedInv'
    <3>1. \A c \in Classes : run[<<c, gen + 1>>] = "none"
      BY GenFacts DEF CreatedInv, Inst
    <3> QED BY <2>0, <3>1 DEF CreatedInv, MutexInv, Critical, Threads
  <2>3. LiveInv'
    <3>1. \A i \in Inst : ~Live(i) /\ ~Live(i)'
      BY DEF LiveInv, Live, Created, Threads
    <3> QED BY <3>1 DEF LiveInv
  <2> QED BY <2>1, <2>2, <2>3
<1>2. ASSUME NEW c \in Classes, Create(t, c) PROVE LifecycleInv'
  <2> USE <1>0, <1>2 DEF Create, proc
  <2>0. /\ <<c, gen>> \in Inst /\ run[<<c, gen>>] = "none"
        /\ run' = [run EXCEPT ![<<c, gen>>] = "check"]
    BY DEF CreatedInv
  <2>1. MutexInv'  BY DEF MutexInv
  <2>2. CreatedInv'
    <3>1. \A i \in Inst : run'[i] = "none" => run[i] = "none" /\ i # <<c, gen>>
      BY <2>0
    <3>2. \A i \in Inst : i[2] > gen => i # <<c, gen>>
      OBVIOUS
    <3>3. \A u \in Threads : pc[u] = "create" => u = t
      BY DEF MutexInv, Threads
    <3> QED BY <2>0, <3>1, <3>2, <3>3 DEF CreatedInv
  <2>3. LiveInv'
    <3>1. \A i \in Inst : i # <<c, gen>> => (Live(i)' <=> Live(i))
      BY <2>0 DEF Live, Created
    <3>2. /\ \A u \in Threads : pc[u] \notin Critical \union {"start"}
          /\ pc["main"] # "gone"
      BY DEF MutexInv, Critical, Threads
    <3> QED BY <3>1, <3>2 DEF LiveInv, Threads
  <2> QED BY <2>1, <2>2, <2>3
<1> QED BY <1>1, <1>2 DEF StartStep

\* The remaining steps of main and of the watcher.
LEMMA ThreadsKeep ==
    ASSUME TypeOK, LifecycleInv,
           Started \/ Wake \/ StoppedAllMain \/ RestartFails \/ Restarted
           \/ StoppedAllWatch \/ WatchInstall \/ WatchEvent \/ WatchDone
           \/ ProcessStart
    PROVE  LifecycleInv'
<1> USE Shapes, ConstantsAssumption DEF LifecycleInv, inst, proc, Go
<1>0. pc \in [Threads -> States] BY DEF TypeOK
<1>1. CASE Started
  <2> USE <1>0, <1>1 DEF Started, ThisGeneration
  <2>1. MutexInv'   BY DEF MutexInv, Critical, Threads
  <2>2. CreatedInv' BY DEF CreatedInv, Critical, Threads
  <2>3. LiveInv'
    <3>1. \A i \in Inst : /\ Live(i)' <=> Live(i)
                          /\ Live(i) => i \in plugins'
      BY DEF LiveInv, Live, Created
    <3>2. pc'["main"] = "wait" /\ pc'["watch"] = "install"
      BY DEF Threads
    <3> QED BY <3>1, <3>2 DEF LiveInv, Critical, Threads
  <2> QED BY <2>1, <2>2, <2>3
<1>2. CASE Restarted
  <2> USE <1>0, <1>2 DEF Restarted, ThisGeneration, Live, Created
  <2>1. MutexInv'   BY DEF MutexInv, Critical, Threads
  <2>2. CreatedInv' BY DEF CreatedInv, Critical, Threads
  <2>3. LiveInv'    BY DEF LiveInv, MutexInv, Critical, Threads
  <2> QED BY <2>1, <2>2, <2>3
<1>3. CASE RestartFails
  <2> USE <1>0, <1>3 DEF RestartFails, Live, Created
  <2>1. MutexInv'   BY DEF MutexInv, Critical, Threads
  <2>2. CreatedInv' BY DEF CreatedInv, Critical, Threads
  <2>3. LiveInv'    BY DEF LiveInv, MutexInv, Critical, Threads
  <2> QED BY <2>1, <2>2, <2>3
<1>4. CASE StoppedAllMain
  <2> USE <1>0, <1>4 DEF StoppedAllMain, Live, Created
  <2>1. MutexInv'   BY DEF MutexInv, Critical, Threads
  <2>2. CreatedInv' BY DEF CreatedInv, Critical, Threads
  <2>3. LiveInv'    BY DEF LiveInv, MutexInv, Critical, Threads
  <2> QED BY <2>1, <2>2, <2>3
<1>5. CASE StoppedAllWatch
  <2> USE <1>0, <1>5 DEF StoppedAllWatch, Live, Created
  <2>1. MutexInv'   BY DEF MutexInv, Critical, Threads
  <2>2. CreatedInv' BY DEF CreatedInv, Critical, Threads
  <2>3. LiveInv'    BY DEF LiveInv, MutexInv, Critical, Threads
  <2> QED BY <2>1, <2>2, <2>3
<1>6. CASE Wake \/ WatchInstall \/ WatchEvent \/ WatchDone
  <2> USE <1>0, <1>6 DEF Wake, WatchInstall, WatchEvent, WatchDone, Live, Created
  <2>1. MutexInv'   BY DEF MutexInv, Critical, Threads
  <2>2. CreatedInv' BY DEF CreatedInv, Critical, Threads
  <2>3. LiveInv'    BY DEF LiveInv, MutexInv, Critical, Threads
  <2> QED BY <2>1, <2>2, <2>3
<1>7. CASE ProcessStart
  <2> USE <1>0, <1>7 DEF ProcessStart, AtStartup, Live, Created
  <2>1. MutexInv'   BY DEF MutexInv, Critical, Threads
  <2>2. CreatedInv' BY DEF CreatedInv, Critical, Threads
  <2>3. LiveInv'    BY DEF LiveInv, MutexInv, Critical, Threads
  <2> QED BY <2>1, <2>2, <2>3
<1> QED BY <1>1, <1>2, <1>3, <1>4, <1>5, <1>6, <1>7

LEMMA InitLifecycle == Init => LifecycleInv
<1> SUFFICES ASSUME Init PROVE LifecycleInv
  OBVIOUS
<1>1. MutexInv
  BY DEF Init, AtStartup, MutexInv, Critical, Threads
<1>2. CreatedInv
  BY DEF Init, AtStartup, CreatedInv, Critical, Threads
<1>3. LiveInv
  BY DEF Init, AtStartup, LiveInv, Live, Created, Critical, Threads
<1> QED BY <1>1, <1>2, <1>3 DEF LifecycleInv

LEMMA NextKeeps == ASSUME TypeOK, LifecycleInv, [Next]_vars PROVE LifecycleInv'
<1>1. CASE \E t \in Threads : StopStep(t) \/ StartStep(t)
  BY <1>1, StopKeeps, StartKeeps
<1>2. CASE StartupFatal \/ Exit \/ WatchFatal \/ Crash
  BY <1>2, ProcessEndKeeps DEF StartupFatal, Exit, WatchFatal, Crash
<1>3. CASE \E i \in Inst : RunStep(i) \/ Serve(i) \/ RunFails(i) \/ RunRegisterFails(i)
  BY <1>3, RunIsQuiet, QuietKeeps
<1>4. CASE \/ Signal \/ WatchOverflow \/ KubeletStop \/ KubeletStart
           \/ \E c \in Classes : KubeletConnect(c) \/ StreamEnd(c)
           \/ UNCHANGED vars
  BY <1>4, EnvironmentIsQuiet, QuietKeeps
<1>5. CASE Started \/ Wake \/ StoppedAllMain \/ RestartFails \/ Restarted
           \/ StoppedAllWatch \/ WatchInstall \/ WatchEvent \/ WatchDone
           \/ ProcessStart
  BY <1>5, ThreadsKeep
<1> QED BY <1>1, <1>2, <1>3, <1>4, <1>5
        DEF Next, MainStep, WatchStep, Environment, Threads

\* mu and the plugin list do their work in every reachable state.
THEOREM LifecycleSafe == Spec => []LifecycleInv
<1>1. TypeOK /\ LifecycleInv /\ [Next]_vars => LifecycleInv'
  BY NextKeeps
<1> QED BY InitLifecycle, TypeCorrect, <1>1, PTL DEF Spec

\* No channel is closed twice, whatever shutdown, restarts and crashes do.
THEOREM NoDoubleCloseHolds == Spec => []NoDoubleClose
<1> DEFINE Guarded == TypeOK /\ LifecycleInv /\ NoDoubleClose
<1>1. Init => NoDoubleClose
  BY DEF Init, AtStartup, NoDoubleClose
<1>2. TypeOK /\ LifecycleInv /\ NoDoubleClose /\ [Next]_vars => NoDoubleClose'
  <2> SUFFICES ASSUME TypeOK, LifecycleInv, NoDoubleClose, [Next]_vars,
                      NEW t \in Threads, pc'[t] = "close"
               PROVE  ~closed'[cur'[t]]
    BY DEF NoDoubleClose
  <2>0. pc \in [Threads -> States]
    BY DEF TypeOK
  <2>1. CASE Quiet
    BY <2>1 DEF Quiet, threads, NoDoubleClose
  <2>2. ASSUME NEW u \in Threads, StopClose(u) PROVE ~closed'[cur'[t]]
    \* u holds mu, so t cannot be at its own close.
    BY <2>0, <2>2 DEF StopClose, Go, LifecycleInv, MutexInv, Critical
  <2>3. ASSUME NEW u \in Threads, StopCheck(u) PROVE ~closed'[cur'[t]]
    BY <2>0, <2>3 DEF StopCheck, Go, LifecycleInv, MutexInv, Critical, inst, TypeOK
  <2>4. ASSUME NEW u \in Threads,
               Lock(u) \/ StopRead(u) \/ StopDrain(u) \/ StopUnlink(u)
               \/ \E i \in Inst : NextPlugin(u, i)
        PROVE  ~closed'[cur'[t]]
    BY <2>0, <2>4 DEF Lock, StopRead, StopDrain, StopUnlink, NextPlugin, Go, inst,
                      proc, LifecycleInv, MutexInv, Critical, TypeOK, NoDoubleClose
  <2>5. ASSUME NEW u \in Threads, StartStep(u) PROVE ~closed'[cur'[t]]
    BY <2>0, <2>5 DEF StartStep, Discover, Create, Go, inst, proc, NoDoubleClose
  <2>6. CASE Started \/ Wake \/ StoppedAllMain \/ RestartFails \/ Restarted
             \/ StoppedAllWatch \/ WatchInstall \/ WatchEvent \/ WatchDone
             \/ ProcessStart
    BY <2>0, <2>6 DEF Started, Wake, StoppedAllMain, RestartFails, Restarted,
         StoppedAllWatch, WatchInstall, WatchEvent, WatchDone, ProcessStart,
         AtStartup, Go, inst, proc, NoDoubleClose, Threads
  <2>7. CASE StartupFatal \/ Exit \/ WatchFatal \/ Crash
    BY <2>7 DEF StartupFatal, Exit, WatchFatal, Crash, ProcessEnd
  <2>8. CASE \/ \E i \in Inst : RunStep(i) \/ Serve(i) \/ RunFails(i) \/ RunRegisterFails(i)
             \/ Signal \/ WatchOverflow \/ KubeletStop \/ KubeletStart
             \/ \E c \in Classes : KubeletConnect(c) \/ StreamEnd(c)
             \/ UNCHANGED vars
    BY <2>8, <2>1, RunIsQuiet, EnvironmentIsQuiet
  <2> QED BY <2>2, <2>3, <2>4, <2>5, <2>6, <2>7, <2>8
          DEF Next, MainStep, WatchStep, StopStep, Environment, Threads
<1> QED BY TypeCorrect, LifecycleSafe, <1>1, <1>2, PTL DEF Spec

\* Whoever holds mu is inside a section that ends by releasing it: no error path
\* leaves it held.
THEOREM MuIsReleasedHolds == Spec => []MuIsReleased
<1> USE DEF MuIsReleased
<1>1. Init => MuIsReleased
  BY ConstantsAssumption DEF Init
<1>2. TypeOK /\ LifecycleInv /\ MuIsReleased /\ [Next]_vars => MuIsReleased'
  <2> SUFFICES ASSUME TypeOK, LifecycleInv, MuIsReleased, [Next]_vars
               PROVE  MuIsReleased'
    OBVIOUS
  <2>0. None \notin Threads /\ pc \in [Threads -> States]
    BY ConstantsAssumption DEF TypeOK
  <2>1. ASSUME NEW t \in Threads, StopStep(t) PROVE MuIsReleased'
    <3>1. CASE Lock(t)
      BY <2>0, <3>1 DEF Lock, Go, Critical
    <3>2. CASE ~Lock(t)
      <4>1. /\ mu' = mu /\ \A u \in Threads : u # t => pc'[u] = pc[u]
            /\ pc'[t] \in Critical
        BY <2>0, <2>1, <3>2 DEF StopStep, NextPlugin, StopCheck, StopClose, StopRead,
           StopDrain, StopUnlink, Go, Critical, proc
      <4> QED BY <4>1
    <3> QED BY <3>1, <3>2
  <2>2. ASSUME NEW t \in Threads, StartStep(t) PROVE MuIsReleased'
    <3>1. /\ mu' = mu /\ pc[t] \notin Critical
          /\ \A u \in Threads : pc'[u] = pc[u] \/ (u = t /\ pc'[u] = "create")
      BY <2>0, <2>2 DEF StartStep, Discover, Create, Go, Critical, proc
    <3> QED BY <3>1
  <2>3. CASE MainStep \/ WatchStep
    <3>1. CASE Started \/ Wake \/ WatchInstall \/ WatchEvent \/ WatchDone
      <4>1. mu' = mu
        BY <3>1 DEF Started, Wake, WatchInstall, WatchEvent, WatchDone, proc
      <4>2. \A u \in Threads : pc'[u] # pc[u] => mu # u
        BY <2>0, <3>1 DEF Started, Wake, WatchInstall, WatchEvent, WatchDone, Go,
           Critical, Threads, LifecycleInv, MutexInv
      <4> QED BY <4>1, <4>2
    <3>2. CASE StartupFatal \/ StoppedAllMain \/ Exit \/ RestartFails \/ Restarted
               \/ WatchFatal
      BY <2>0, <3>2 DEF StartupFatal, StoppedAllMain, Exit, RestartFails, Restarted,
         WatchFatal, ProcessEnd
    <3>3. CASE StoppedAllWatch
      BY <2>0, <3>3 DEF StoppedAllWatch, Go, proc, Critical
    <3> QED BY <2>1, <2>2, <2>3, <3>1, <3>2, <3>3 DEF MainStep, WatchStep, Threads
  <2>4. CASE Environment
    <3>1. CASE Crash
      BY <2>0, <3>1 DEF Crash, ProcessEnd
    <3>2. CASE ProcessStart
      <4>1. mu # "main" /\ mu # "watch"
        BY <3>2 DEF ProcessStart, LifecycleInv, MutexInv, Critical, Threads
      <4> QED BY <3>2, <4>1 DEF ProcessStart, Threads
    <3>3. CASE ~Crash /\ ~ProcessStart
      <4>1. UNCHANGED <<mu, pc>>
        BY <2>4, <3>3 DEF Environment, Signal, WatchOverflow, KubeletStop,
           KubeletStart, RunFails, RunRegisterFails, KubeletConnect, StreamEnd, threads, proc
      <4> QED BY <4>1
    <3> QED BY <3>1, <3>2, <3>3
  <2>5. ASSUME NEW i \in Inst, RunStep(i) \/ Serve(i) PROVE MuIsReleased'
    <3>1. UNCHANGED <<mu, pc>>
      BY <2>5 DEF RunStep, RunCheck, RunClear, RunListen, RunStore, RunDial,
         RunRegister, RunReturn, Serve, threads, proc
    <3> QED BY <3>1
  <2>6. CASE UNCHANGED vars
    BY <2>6 DEF vars, threads, proc
  <2> QED BY <2>3, <2>4, <2>5, <2>6 DEF Next
<1> QED BY <1>1, <1>2, TypeCorrect, LifecycleSafe, PTL DEF Spec

\* A class never has two plugins in service.
THEOREM OneLivePerClassHolds == Spec => []OneLivePerClass
<1>1. LifecycleInv => OneLivePerClass
  BY DEF LifecycleInv, LiveInv, OneLivePerClass, Inst
<1> QED BY LifecycleSafe, <1>1, PTL

\* No plugin in service is lost to the list that restart and shutdown stop.
THEOREM NoLeakedPluginHolds == Spec => []NoLeakedPlugin
<1>1. LifecycleInv => NoLeakedPlugin
  BY ConstantsAssumption DEF LifecycleInv, LiveInv, MutexInv, NoLeakedPlugin, Threads
<1> QED BY LifecycleSafe, <1>1, PTL

-----------------------------------------------------------------------------
(* The process implements Incarnations.                                        *)

LEMMA PhaseOf == ASSUME NEW i \in Inst
                 PROVE  /\ Phase[i] = "live" <=> Live(i)
                        /\ Phase[i] = "fresh" <=> run[i] = "none"
  BY DEF Phase, Live, Created

\* A step that changes no incarnation's life is a stutter of the abstraction.
LEMMA SamePhase == ASSUME SameCreated, UNCHANGED <<closed, gen>>
                   PROVE  UNCHANGED Abstract!vars
<1>1. Phase' = Phase
  BY Zenon DEF Phase, Live, Created, SameCreated
<1> QED BY <1>1 DEF Abstract!vars

\* The end of the process retires whatever was live.
LEMMA ProcessEndRetires == ASSUME TypeOK, ProcessEnd
                           PROVE  [Abstract!Next]_(Abstract!vars)
<1> DEFINE L == {i \in Inst : Phase[i] = "live"}
<1>1. /\ Phase \in [Inst -> {"fresh", "live", "retired"}]
      /\ Phase' = [i \in Inst |-> IF i \in L THEN "retired" ELSE Phase[i]]
  BY DEF Phase, Live, Created, ProcessEnd, TypeOK
<1>2. gen' = gen
  BY DEF ProcessEnd
<1>3. CASE L = {}
  <2>1. Phase' = Phase
    BY <1>1, <1>3
  <2> QED BY <1>2, <2>1 DEF Abstract!vars
<1>4. CASE L # {}
  <2>1. L = Abstract!Live
    BY DEF Abstract!Live, Abstract!Inst, Inst
  <2>2. Abstract!Retire(L)
    BY <1>1, <1>2, <1>4 DEF Abstract!Retire, Abstract!Inst, Inst
  <2> QED BY <2>1, <2>2 DEF Abstract!Next
<1> QED BY <1>3, <1>4

LEMMA StopRetires == ASSUME TypeOK, LifecycleInv, NEW t \in Threads, StopClose(t)
                     PROVE  [Abstract!Next]_(Abstract!vars)
<1> DEFINE i == cur[t]
<1>1. i \in Inst
  BY Shapes DEF StopClose, Go, LifecycleInv, CreatedInv, Critical
<1>2. /\ closed' = [closed EXCEPT ![i] = TRUE] /\ closed \in [Inst -> BOOLEAN]
      /\ UNCHANGED <<run, gen>>
  BY DEF StopClose, TypeOK, proc
<1>3. CASE Live(i)
  <2>1. Phase' = [j \in Inst |-> IF j \in {i} THEN "retired" ELSE Phase[j]]
    <3>1. run[i] # "none"
      BY <1>3 DEF Live, Created
    <3> QED BY <1>1, <1>2, <3>1 DEF Phase, Live, Created
  <2>2. {i} \in SUBSET Abstract!Live
    BY <1>1, <1>3, PhaseOf DEF Abstract!Live, Abstract!Inst, Inst
  <2>3. Abstract!Retire({i})
    BY <1>2, <2>1 DEF Abstract!Retire, Abstract!Inst, Inst
  <2> QED BY <2>2, <2>3 DEF Abstract!Next
<1>4. CASE ~Live(i)
  <2>1. Phase' = Phase
    BY <1>1, <1>2, <1>4 DEF Phase, Live, Created
  <2> QED BY <1>2, <2>1 DEF Abstract!vars
<1> QED BY <1>3, <1>4

LEMMA StartBegins == ASSUME TypeOK, LifecycleInv, NEW t \in Threads, StartStep(t)
                     PROVE  [Abstract!Next]_(Abstract!vars)
<1>1. ASSUME NEW found \in SUBSET Classes, Discover(t, found)
      PROVE  Abstract!Begin
  <2>1. \A i \in Inst : ~Live(i)
    BY <1>1 DEF Discover, Go, LifecycleInv, LiveInv, Threads
  <2>2. Abstract!Live = {}
    BY <2>1, PhaseOf DEF Abstract!Live, Abstract!Inst, Inst
  <2>3. Phase' = Phase
    BY <1>1 DEF Discover, inst, Phase, Live, Created
  <2> QED BY <1>1, <2>2, <2>3 DEF Discover, Abstract!Begin
<1>2. ASSUME NEW c \in Classes, Create(t, c)
      PROVE  Abstract!Create(<<c, gen>>) /\ <<c, gen>> \in Abstract!Inst
  <2> DEFINE i == <<c, gen>>
  <2>1. i \in Inst /\ run[i] = "none" /\ ~closed[i]
    BY <1>2, Shapes DEF Create, LifecycleInv, CreatedInv
  <2>2. run' = [run EXCEPT ![i] = "check"] /\ UNCHANGED <<closed, gen>>
    BY <1>2 DEF Create, proc
  <2>3. run \in [Inst -> RunStates]
    BY DEF TypeOK
  <2>4. Phase' = [Phase EXCEPT ![i] = "live"]
    BY <2>1, <2>2, <2>3 DEF Phase, Live, Created
  <2> QED BY <2>1, <2>2, <2>4, PhaseOf DEF Abstract!Create, Abstract!Inst, Inst
<1> QED BY <1>1, <1>2 DEF StartStep, Abstract!Next

\* Every step of the process is a step of Incarnations or a stutter.
LEMMA StepRefines == ASSUME TypeOK, LifecycleInv, [Next]_vars
                     PROVE  [Abstract!Next]_(Abstract!vars)
<1>1. CASE \E t \in Threads : StartStep(t)
  BY <1>1, StartBegins
<1>2. CASE \E t \in Threads : StopClose(t)
  BY <1>2, StopRetires
<1>3. ASSUME NEW t \in Threads,
             Lock(t) \/ StopCheck(t) \/ StopRead(t) \/ StopDrain(t) \/ StopUnlink(t)
             \/ \E i \in Inst : NextPlugin(t, i)
      PROVE  UNCHANGED Abstract!vars
  <2>1. UNCHANGED <<run, closed, gen>>
    BY <1>3 DEF Lock, StopCheck, StopRead, StopDrain, StopUnlink, NextPlugin, inst,
                proc
  <2> QED BY <2>1, SamePhase DEF SameCreated
<1>4. CASE StartupFatal \/ Exit \/ WatchFatal \/ Crash
  BY <1>4, ProcessEndRetires DEF StartupFatal, Exit, WatchFatal, Crash
<1>5. CASE \/ \E i \in Inst : RunStep(i) \/ Serve(i) \/ RunFails(i) \/ RunRegisterFails(i)
           \/ Signal \/ WatchOverflow \/ KubeletStop \/ KubeletStart
           \/ \E c \in Classes : KubeletConnect(c) \/ StreamEnd(c)
           \/ UNCHANGED vars
  <2>1. Quiet
    BY <1>5, RunIsQuiet, EnvironmentIsQuiet
  <2> QED BY <2>1, SamePhase DEF Quiet
<1>6. CASE Started \/ Wake \/ StoppedAllMain \/ RestartFails \/ Restarted
           \/ StoppedAllWatch \/ WatchInstall \/ WatchEvent \/ WatchDone
           \/ ProcessStart
  <2>1. UNCHANGED <<run, closed, gen>>
    BY <1>6 DEF Started, Wake, StoppedAllMain, RestartFails, Restarted,
         StoppedAllWatch, WatchInstall, WatchEvent, WatchDone, ProcessStart, inst,
         proc
  <2> QED BY <2>1, SamePhase DEF SameCreated
<1> QED BY <1>1, <1>2, <1>3, <1>4, <1>5, <1>6
        DEF Next, MainStep, WatchStep, StopStep, Environment, Threads

\* The incarnations of every class are created and retired as Incarnations says.
THEOREM Refinement == Spec => ImplementsIncarnations
<1>1. Init => Abstract!Init
  BY DEF Init, Abstract!Init, Abstract!Inst, Inst, Phase
<1> QED
  BY TypeCorrect, LifecycleSafe, StepRefines, <1>1, PTL
  DEF Spec, ImplementsIncarnations, Abstract!Spec

-----------------------------------------------------------------------------
(* Who can be in the way of a listener.                                        *)

\* Nothing here makes a socket file or meets one.
Harmless ==
    /\ \A c \in Classes : sock'[c] \in {sock[c], None}
    /\ \A i \in Inst :
        /\ run'[i] = "none" <=> run[i] = "none"
        /\ run'[i] = "dead" <=> run[i] = "dead"
        /\ run'[i] = "listen" => run[i] = "listen" \/ sock'[i[1]] = None
        /\ run'[i] = "inuse" => run[i] = "inuse"
        /\ run'[i] \in Early => run[i] \in Early
        /\ lis'[i] = lis[i] \/ (lis'[i] = "closed" /\ run[i] \notin Early)
        /\ server'[i] \in {server[i], "stopped"} \/ run'[i] \notin Early

LEMMA HarmlessKeeps == ASSUME TypeOK, PathInv, Harmless PROVE PathInv'
<1>0. \A c \in Classes : sock[c] # None => sock[c] \in Inst
  BY DEF TypeOK
<1>1. \A i \in Inst : lis[i] # "none" => lis'[i] # "none"
  BY DEF Harmless
<1>2. \A c \in Classes : sock'[c] # None =>
        sock'[c][1] = c /\ run'[sock'[c]] # "none" /\ lis'[sock'[c]] # "none"
  BY <1>0, <1>1 DEF Harmless, PathInv
<1>3. \A i \in Inst : run'[i] \in Early =>
        lis'[i] = "none" /\ server'[i] \notin {"built", "serving"}
  BY DEF Harmless, PathInv
<1>4. ASSUME NEW i \in Inst, run'[i] = "listen", sock'[i[1]] # None
      PROVE  run'[sock'[i[1]]] # "dead"
  <2>1. i[1] \in Classes
    BY DEF Inst
  <2>2. sock'[i[1]] = sock[i[1]] /\ run[i] = "listen"
    BY <1>4, <2>1 DEF Harmless
  <2> QED BY <1>0, <1>4, <2>1, <2>2 DEF Harmless, PathInv
<1> QED BY <1>2, <1>3, <1>4 DEF PathInv

\* All goroutines go together.
LEMMA EndKeepsPaths == ASSUME TypeOK, PathInv, ProcessEnd PROVE PathInv'
<1>1. \A c \in Classes : sock[c] # None => sock[c] \in Inst
  BY DEF TypeOK
<1>2. /\ \A i \in Inst : /\ run'[i] = (IF run[i] = "none" THEN "none" ELSE "dead")
                         /\ lis'[i] = (IF lis[i] = "none" THEN "none" ELSE "closed")
      /\ UNCHANGED <<sock, server>>
  BY DEF ProcessEnd
<1> QED BY <1>1, <1>2 DEF PathInv, Early

\* The one step that makes a socket file, or meets one.
LEMMA ListenKeepsPaths ==
    ASSUME TypeOK, PathInv, NEW i \in Inst, RunListen(i)
    PROVE  PathInv'
<1> DEFINE c == i[1]
           j == sock[c]
<1>0. /\ c \in Classes /\ run[i] = "listen" /\ lis[i] = "none"
      /\ run \in [Inst -> RunStates] /\ lis \in [Inst -> {"none", "open", "closed"}]
      /\ sock \in [Classes -> Inst \union {None}]
      /\ UNCHANGED <<closed, server>>
  BY DEF RunListen, RunGo, TypeOK, PathInv, Early, Inst
<1>1. CASE j = None
  <2>1. /\ run' = [run EXCEPT ![i] = "store"] /\ lis' = [lis EXCEPT ![i] = "open"]
        /\ sock' = [sock EXCEPT ![c] = i]
    BY <1>1 DEF RunListen, RunGo
  <2> QED BY <1>0, <2>1 DEF PathInv, Early, Inst
<1>2. CASE j # None
  <2>1. run' = [run EXCEPT ![i] = "inuse"] /\ UNCHANGED <<lis, sock>>
    BY <1>2 DEF RunListen, RunGo
  <2>2. /\ j \in Inst /\ j[1] = c /\ run[j] \notin {"none", "dead"} /\ lis[j] # "none"
        /\ j # i
    BY <1>0, <1>2 DEF PathInv
  <2> QED BY <1>0, <2>1, <2>2 DEF PathInv, Early, Inst
<1> QED BY <1>1, <1>2

\* A plugin that has just been created has touched no socket.
LEMMA CreateKeepsPaths ==
    ASSUME TypeOK, LifecycleInv, PathInv, NEW t \in Threads, NEW c \in Classes,
           Create(t, c)
    PROVE  PathInv'
<1> DEFINE i == <<c, gen>>
<1>1. /\ i \in Inst /\ run[i] = "none" /\ run' = [run EXCEPT ![i] = "check"]
      /\ UNCHANGED <<closed, server, lis, sock>>
      /\ run \in [Inst -> RunStates]
  BY Shapes DEF Create, LifecycleInv, CreatedInv, TypeOK
<1>2. \A d \in Classes : sock[d] # None => sock[d] \in Inst
  BY DEF TypeOK
<1> QED BY <1>1, <1>2 DEF PathInv, Early

\* Nothing of what the plugins own moves.
LEMMA IdleIsHarmless == ASSUME UNCHANGED <<inst, sock>> PROVE Harmless
  BY DEF inst, Harmless

LEMMA StopIsHarmless == ASSUME TypeOK, LifecycleInv, PathInv,
                               NEW t \in Threads, StopStep(t)
                        PROVE  Harmless
<1>1. CASE \/ Lock(t) \/ StopCheck(t) \/ StopRead(t)
           \/ \E i \in Inst : NextPlugin(t, i)
  BY <1>1, IdleIsHarmless DEF Lock, StopCheck, StopRead, NextPlugin
<1>2. CASE StopClose(t)
  <2>1. closed \in [Inst -> BOOLEAN]
    BY DEF TypeOK
  <2> QED BY <1>2, <2>1 DEF StopClose, Harmless
<1>3. CASE StopDrain(t)
  <2> DEFINE i == cur[t]
  <2>0. i \in Inst /\ i[1] \in Classes
    BY <1>3, Shapes DEF StopDrain, Go, LifecycleInv, CreatedInv, Critical, Inst
  <2>1. /\ server' = [server EXCEPT ![i] = "stopped"]
        /\ UNCHANGED <<run, closed>>
    BY <1>3 DEF StopDrain
  <2>2. /\ lis' = lis /\ sock' = sock
        \/ /\ lis' = [lis EXCEPT ![i] = "closed"] /\ server[i] = "serving"
           /\ sock' = [sock EXCEPT ![i[1]] = None]
    BY <1>3 DEF StopDrain, Unlink
  <2>3. server[i] = "serving" => run[i] \notin Early
    BY <2>0 DEF PathInv
  <2> QED BY <2>0, <2>1, <2>2, <2>3 DEF Harmless, TypeOK
<1>4. CASE StopUnlink(t)
  BY <1>4 DEF StopUnlink, Unlink, inst, Harmless, TypeOK
<1> QED BY <1>1, <1>2, <1>3, <1>4 DEF StopStep

LEMMA RunIsHarmless == ASSUME TypeOK, PathInv, NEW i \in Inst,
                              \/ RunStep(i) /\ ~RunListen(i)
                              \/ Serve(i) \/ RunFails(i) \/ RunRegisterFails(i)
                       PROVE  Harmless
<1>0. /\ run \in [Inst -> RunStates] /\ i[1] \in Classes
      /\ sock \in [Classes -> Inst \union {None}]
      /\ lis \in [Inst -> {"none", "open", "closed"}]
      /\ server \in [Inst -> {"nil", "built", "serving", "stopped"}]
  BY DEF TypeOK, Inst
<1>1. CASE RunCheck(i) \/ RunDial(i) \/ RunRegister(i) \/ RunReturn(i)
           \/ RunFails(i) \/ RunRegisterFails(i)
  BY <1>0, <1>1 DEF RunCheck, RunDial, RunRegister, RunReturn, RunFails,
                    RunRegisterFails, RunGo, Harmless, Early
<1>2. CASE RunClear(i)
  BY <1>0, <1>2 DEF RunClear, Unlink, RunGo, Harmless, Early
<1>3. CASE RunStore(i)
  BY <1>0, <1>3 DEF RunStore, RunGo, Harmless, Early
<1>4. CASE Serve(i)
  <2>1. run[i] \notin Early /\ UNCHANGED <<run, closed>>
    BY <1>4 DEF Serve, PathInv
  <2>2. \/ /\ server' = [server EXCEPT ![i] = "serving"]
           /\ UNCHANGED <<lis, sock>>
        \/ /\ lis' = [lis EXCEPT ![i] = "closed"]
           /\ sock' = [sock EXCEPT ![i[1]] = None]
           /\ UNCHANGED server
    BY <1>4 DEF Serve, Unlink
  <2> QED BY <1>0, <2>1, <2>2 DEF Harmless
<1> QED BY <1>1, <1>2, <1>3, <1>4 DEF RunStep

\* Every step is harmless to sockets but three.
LEMMA HarmlessSteps ==
    ASSUME TypeOK, LifecycleInv, PathInv, [Next]_vars
    PROVE  \/ Harmless \/ ProcessEnd
           \/ \E t \in Threads, c \in Classes : Create(t, c)
           \/ \E i \in Inst : RunListen(i)
<1>1. CASE \E t \in Threads : StopStep(t)
  BY <1>1, StopIsHarmless
<1>2. ASSUME NEW t \in Threads, NEW found \in SUBSET Classes, Discover(t, found)
      PROVE  Harmless
  BY <1>2, IdleIsHarmless DEF Discover
<1>3. CASE StartupFatal \/ Exit \/ WatchFatal \/ Crash
  BY <1>3 DEF StartupFatal, Exit, WatchFatal, Crash
<1>4. CASE Started \/ Wake \/ StoppedAllMain \/ RestartFails \/ Restarted
           \/ StoppedAllWatch \/ WatchInstall \/ WatchEvent \/ WatchDone
           \/ ProcessStart \/ Signal \/ WatchOverflow \/ KubeletStop
           \/ (\E c \in Classes : KubeletConnect(c) \/ StreamEnd(c))
           \/ UNCHANGED vars
  <2>1. UNCHANGED <<inst, sock>>
    BY <1>4 DEF Started, Wake, StoppedAllMain, RestartFails, Restarted,
         StoppedAllWatch, WatchInstall, WatchEvent, WatchDone, ProcessStart,
         Signal, WatchOverflow, KubeletStop, KubeletConnect, StreamEnd, vars
  <2> QED BY <2>1, IdleIsHarmless
<1>5. CASE KubeletStart
  BY <1>5 DEF KubeletStart, inst, Harmless
<1>6. ASSUME NEW i \in Inst, RunStep(i) \/ Serve(i) \/ RunFails(i) \/ RunRegisterFails(i)
      PROVE  Harmless \/ RunListen(i)
  BY <1>6, RunIsHarmless
<1> QED BY <1>1, <1>2, <1>3, <1>4, <1>5, <1>6
        DEF Next, MainStep, WatchStep, StartStep, Environment, Threads

\* Socket files and listeners are as PathInv says, whatever races.
THEOREM PathSafe == Spec => []PathInv
<1>1. Init => PathInv
  BY DEF Init, PathInv, Early
<1>2. TypeOK /\ LifecycleInv /\ PathInv /\ [Next]_vars => PathInv'
  BY HarmlessSteps, HarmlessKeeps, EndKeepsPaths, CreateKeepsPaths, ListenKeepsPaths
<1> QED BY TypeCorrect, LifecycleSafe, <1>1, <1>2, PTL DEF Spec
=============================================================================
