--------------------------- MODULE Scrape_proofs ---------------------------
(* Theorems about Scrape, for every set of classes and scrapers, every bound *)
(* and every choice of Races.                                                *)
EXTENDS Scrape, PluginLifecycle_proofs

\* What scrapes do leaves the lifecycle alone: the composition runs it as it is.
LEMMA Projects == ASSUME [ScrapeNext]_scrapeVars PROVE [Next]_vars
  BY DEF ScrapeNext, scrapeVars, LifecycleStep, ServerStep, HttpListen,
         HttpShutdown, ScrapeStep, Request, Provide, ReadSource, Answer,
         CountAllocation

LEMMA ScrapeRunsLifecycle == ScrapeSpec => Spec
<1>1. ScrapeInit => Init
  BY DEF ScrapeInit
<1>2. [ScrapeNext]_scrapeVars => [Next]_vars
  BY Projects
<1> QED BY <1>1, <1>2, PTL DEF ScrapeSpec, Spec

\* Every variable keeps its shape, those of the lifecycle included.
THEOREM ScrapeTypeCorrect == ScrapeSpec => []ScrapeTypeOK
<1> DEFINE Own == /\ http \in {"off", "up", "down"}
                  /\ spc \in [Scrapers -> {"idle", "provide", "collect"}]
                  /\ sources \in [Scrapers -> SUBSET Inst]
                  /\ since \in [Scrapers -> [Inst -> Nat]]
                  /\ samples \in [Scrapers -> SUBSET Series]
                  /\ shown \in SUBSET Series
                  /\ allocations \in [Inst -> Nat]
<1>1. ScrapeInit => Own
  BY DEF ScrapeInit, Zero
<1>2. TypeOK /\ Own /\ [ScrapeNext]_scrapeVars => Own'
  <2> SUFFICES ASSUME TypeOK, Own, [ScrapeNext]_scrapeVars PROVE Own'
    OBVIOUS
  <2> USE DEF ScrapeGo, Zero
  <2>1. CASE LifecycleStep
    BY <2>1 DEF LifecycleStep, metrics
  <2>2. CASE ServerStep
    BY <2>2 DEF ServerStep, HttpListen, HttpShutdown
  <2>3. ASSUME NEW s \in Scrapers, Request(s) PROVE Own'
    BY <2>3 DEF Request
  <2>4. ASSUME NEW s \in Scrapers, Provide(s) PROVE Own'
    BY <2>4 DEF Provide, TypeOK
  <2>5. ASSUME NEW s \in Scrapers, NEW i \in Inst, ReadSource(s, i) PROVE Own'
    <3>1. Reading(i) \in Series BY DEF Reading, Series
    <3> QED BY <2>5, <3>1 DEF ReadSource
  <2>6. ASSUME NEW s \in Scrapers, Answer(s) PROVE Own'
    BY <2>6 DEF Answer
  <2>7. ASSUME NEW i \in Inst, CountAllocation(i) PROVE Own'
    BY <2>7 DEF CountAllocation, metrics
  <2>8. CASE UNCHANGED scrapeVars
    BY <2>8 DEF scrapeVars, metrics
  <2> QED BY <2>1, <2>2, <2>3, <2>4, <2>5, <2>6, <2>7, <2>8
          DEF ScrapeNext, ScrapeStep
<1>3. ScrapeSpec => []TypeOK
  BY ScrapeRunsLifecycle, TypeCorrect, PTL
<1>4. TypeOK /\ Own => ScrapeTypeOK
  BY DEF ScrapeTypeOK
<1> QED BY <1>1, <1>2, <1>3, <1>4, PTL DEF ScrapeSpec

-----------------------------------------------------------------------------
(* The list: what is in it when nobody holds mu.                               *)

\* Steps that touch neither the threads nor the list, and stop no plugin.
LEMMA QuietKeepsList ==
    ASSUME TypeOK, ListInv, Quiet, ctxDone => ctxDone'
    PROVE  ListInv'
<1>1. \A i \in Inst : Live(i) => Live(i)'
  BY DEF Quiet, SameCreated, Live, Created
<1>2. ThisGeneration' = ThisGeneration
  BY DEF Quiet, SameCreated, ThisGeneration
<1>3. plugins' = plugins /\ pc' = pc /\ mu' = mu
  BY DEF Quiet, threads
<1>4. ThisGeneration \subseteq Inst /\ plugins \subseteq Inst
  BY Shapes DEF ThisGeneration
<1> QED BY <1>1, <1>2, <1>3, <1>4 DEF ListInv

LEMMA ProcessEndKeepsList == ASSUME ProcessEnd PROVE ListInv'
  BY DEF ProcessEnd, ListInv, Critical, Threads

\* A plugin is stopped under mu, when no list is under construction.
LEMMA StopKeepsList ==
    ASSUME TypeOK, LifecycleInv, ListInv, NEW t \in Threads, StopStep(t)
    PROVE  ListInv'
<1> USE ConstantsAssumption DEF Go
<1>0. /\ pc \in [Threads -> States] /\ closed \in [Inst -> BOOLEAN]
      /\ plugins \subseteq Inst /\ MutexInv
  BY DEF TypeOK, LifecycleInv
<1>1. CASE Lock(t)
  <2>1. /\ mu' = t /\ pc' = [pc EXCEPT ![t] = "range"] /\ pc[t] = "lock"
        /\ UNCHANGED <<run, closed, gen, plugins, ctxDone>>
    BY <1>1 DEF Lock, inst
  <2> QED BY <1>0, <2>1 DEF ListInv, ThisGeneration, Live, Created, Critical,
                            Threads
<1>2. CASE StopClose(t)
  <2>1. mu = t /\ "create" \notin {pc["main"], pc["watch"]}
    BY <1>0, <1>2 DEF StopClose, MutexInv, Critical, Threads
  <2>2. /\ mu' = t /\ pc' = [pc EXCEPT ![t] = "read"] /\ pc[t] = "close"
        /\ UNCHANGED <<plugins, ctxDone>>
    BY <1>2, <2>1 DEF StopClose, proc
  <2> QED BY <1>0, <2>1, <2>2 DEF ListInv, Critical, Threads
<1>3. CASE StopCheck(t) \/ StopRead(t) \/ StopDrain(t) \/ StopUnlink(t)
           \/ \E i \in Inst : NextPlugin(t, i)
  <2>1. /\ pc[t] \in Critical
        /\ \E to \in Critical : pc' = [pc EXCEPT ![t] = to]
        /\ UNCHANGED <<run, closed, mu, gen, plugins, ctxDone>>
    BY <1>3 DEF StopCheck, StopRead, StopDrain, StopUnlink, NextPlugin, inst,
                proc, Critical
  <2> QED BY <1>0, <2>1 DEF ListInv, ThisGeneration, Live, Created, Critical,
                            Threads
<1> QED BY <1>1, <1>2, <1>3 DEF StopStep

\* startPlugins finds no plugin of its generation, and adds live ones.
LEMMA StartKeepsList ==
    ASSUME TypeOK, LifecycleInv, ListInv, NEW t \in Threads, StartStep(t)
    PROVE  ListInv'
<1>0. /\ pc \in [Threads -> States] /\ plugins \subseteq Inst
      /\ gen \in Nat /\ run \in [Inst -> RunStates]
      /\ \A i \in Inst : i[2] \in Nat
      /\ CreatedInv
  BY Shapes, GenFacts DEF TypeOK, LifecycleInv, Inst
<1>1. ASSUME NEW found \in SUBSET Classes, Discover(t, found) PROVE ListInv'
  <2>1. /\ gen' = gen + 1 /\ pc' = [pc EXCEPT ![t] = "create"] /\ pc[t] = "start"
        /\ UNCHANGED <<run, closed, mu, plugins, ctxDone>>
    BY <1>1 DEF Discover, Go, inst
  <2>2. ThisGeneration' = {}
    BY <1>0, <2>1 DEF ThisGeneration, CreatedInv
  <2>3. \A i \in Inst : Live(i)' <=> Live(i)
    BY <2>1 DEF Live, Created
  <2> QED BY <1>0, <2>1, <2>2, <2>3 DEF ListInv, Critical, Threads
<1>2. ASSUME NEW c \in Classes, Create(t, c) PROVE ListInv'
  <2>1. /\ run' = [run EXCEPT ![<<c, gen>>] = "check"]
        /\ run[<<c, gen>>] = "none" /\ ~closed[<<c, gen>>] /\ <<c, gen>> \in Inst
        /\ pc[t] = "create"
        /\ UNCHANGED <<pc, closed, mu, plugins, gen, ctxDone>>
    BY <1>0, <1>2, Shapes DEF Create, CreatedInv, proc
  <2>2. \A i \in Inst : Live(i) => Live(i)'
    BY <1>0, <2>1 DEF Live, Created
  <2>3. Live(<<c, gen>>)'
    BY <1>0, <2>1 DEF Live, Created
  <2>4. ThisGeneration' \subseteq ThisGeneration \union {<<c, gen>>}
    BY <1>0, <2>1 DEF ThisGeneration
  <2>5. \A i \in ThisGeneration : i \in Inst /\ Live(i)
    BY <2>1 DEF ListInv, ThisGeneration, Threads
  <2> QED BY <1>0, <2>1, <2>2, <2>3, <2>4, <2>5 DEF ListInv, Critical, Threads
<1> QED BY <1>1, <1>2 DEF StartStep

\* The remaining steps of main and of the watcher.
LEMMA ThreadsKeepList ==
    ASSUME TypeOK, LifecycleInv, ListInv,
           Started \/ Wake \/ StoppedAllMain \/ RestartFails \/ Restarted
           \/ StoppedAllWatch \/ WatchInstall \/ WatchEvent \/ WatchDone
           \/ ProcessStart
    PROVE  ListInv'
<1>0. pc \in [Threads -> States] /\ plugins \subseteq Inst /\ MutexInv
  BY DEF TypeOK, LifecycleInv
<1>1. UNCHANGED <<run, closed>>
  BY DEF Started, Wake, StoppedAllMain, RestartFails, Restarted, StoppedAllWatch,
         WatchInstall, WatchEvent, WatchDone, ProcessStart, inst
<1>2. \A i \in Inst : Live(i)' <=> Live(i)
  BY <1>1 DEF Live, Created
<1>3. CASE Started \/ Restarted
  <2>1. /\ plugins' = ThisGeneration /\ UNCHANGED <<gen, ctxDone>>
        /\ "create" \in {pc["main"], pc["watch"]}
        /\ "create" \notin {pc'["main"], pc'["watch"]}
    BY <1>0, <1>3 DEF Started, Restarted, Go, MutexInv, Threads
  <2>2. \A i \in ThisGeneration : i \in Inst /\ Live(i) /\ i[2] = gen
    BY <2>1 DEF ListInv, ThisGeneration
  <2>3. /\ pc'["main"] \in Critical \union {"lock", "exit"}
              => pc["main"] \in Critical \union {"lock", "exit"}
        /\ pc'["main"] \in {"start", "create", "gone"} => ThisGeneration = {}
    BY <1>0, <1>3, <2>2 DEF Started, Restarted, Go, MutexInv, Critical, Threads
  <2> QED BY <1>2, <2>1, <2>2, <2>3 DEF ListInv
<1>4. CASE RestartFails
  BY <1>0, <1>4 DEF RestartFails, Go, MutexInv, ListInv, Critical, Threads
<1>5. CASE Wake \/ WatchInstall \/ WatchEvent \/ WatchDone \/ StoppedAllWatch
  <2>1. /\ UNCHANGED <<mu, plugins, gen, ctxDone>>
        /\ "create" \in {pc'["main"], pc'["watch"]}
              => "create" \in {pc["main"], pc["watch"]}
        /\ pc'["main"] \in Critical \union {"lock", "exit"} =>
              pc["main"] \in Critical \union {"lock", "exit"} \/ ctxDone
        /\ pc'["main"] \in {"start", "create", "gone"} => pc'["main"] = pc["main"]
    BY <1>0, <1>5 DEF Wake, WatchInstall, WatchEvent, WatchDone, StoppedAllWatch,
                      Go, proc, Critical, Threads
  <2>2. ThisGeneration' = ThisGeneration /\ ThisGeneration \subseteq Inst
    BY <1>1, <2>1 DEF ThisGeneration
  <2> QED BY <1>0, <1>2, <2>1, <2>2 DEF ListInv
<1>6. CASE StoppedAllMain
  <2>1. /\ ctxDone /\ UNCHANGED <<plugins, gen, ctxDone>>
        /\ "create" \in {pc'["main"], pc'["watch"]} => FALSE
        /\ pc'["main"] = "exit"
    BY <1>0, <1>6, ConstantsAssumption
       DEF StoppedAllMain, Go, ListInv, MutexInv, Critical, Threads
  <2> QED BY <2>1 DEF ListInv
<1>7. CASE ProcessStart
  BY <1>0, <1>7 DEF ProcessStart, AtStartup, ListInv, Critical, Threads,
                    ThisGeneration
<1> QED BY <1>3, <1>4, <1>5, <1>6, <1>7

\* ListInv is inductive relative to the lifecycle's own invariant.
LEMMA NextKeepsList ==
    ASSUME TypeOK, LifecycleInv, ListInv, [Next]_vars PROVE ListInv'
<1>1. CASE \E t \in Threads : StopStep(t) \/ StartStep(t)
  BY <1>1, StopKeepsList, StartKeepsList
<1>2. CASE StartupFatal \/ Exit \/ WatchFatal \/ Crash
  BY <1>2, ProcessEndKeepsList DEF StartupFatal, Exit, WatchFatal, Crash
<1>3. CASE \E i \in Inst : RunStep(i) \/ Serve(i) \/ RunFails(i) \/ RunRegisterFails(i)
  <2>1. Quiet
    BY <1>3, RunIsQuiet
  <2>2. ctxDone' = ctxDone
    BY <1>3 DEF RunStep, RunCheck, RunClear, RunListen, RunStore, RunDial,
                RunRegister, RunReturn, Serve, RunFails, RunRegisterFails, proc
  <2> QED BY <2>1, <2>2, QuietKeepsList
<1>4. CASE \/ Signal \/ WatchOverflow \/ KubeletStop \/ KubeletStart
           \/ \E c \in Classes : KubeletConnect(c) \/ StreamEnd(c)
           \/ UNCHANGED vars
  <2>1. Quiet
    BY <1>4, EnvironmentIsQuiet
  <2>2. ctxDone => ctxDone'
    BY <1>4 DEF Signal, WatchOverflow, KubeletStop, KubeletStart, KubeletConnect,
                StreamEnd, vars, proc
  <2> QED BY <2>1, <2>2, QuietKeepsList
<1>5. CASE Started \/ Wake \/ StoppedAllMain \/ RestartFails \/ Restarted
           \/ StoppedAllWatch \/ WatchInstall \/ WatchEvent \/ WatchDone
           \/ ProcessStart
  BY <1>5, ThreadsKeepList
<1> QED BY <1>1, <1>2, <1>3, <1>4, <1>5
        DEF Next, MainStep, WatchStep, Environment, Threads

\* Only a process that was starting, or was not there, is starting next.
LEMMA StartingWas ==
    ASSUME TypeOK, LifecycleInv, [Next]_vars, pc'["main"] \in {"start", "create"}
    PROVE  pc["main"] \in {"start", "create", "gone"}
<1>0. pc \in [Threads -> States]
  BY DEF TypeOK
<1> USE DEF Go, Threads
<1>1. ASSUME NEW t \in Threads, StopStep(t) PROVE pc'["main"] \notin {"start", "create"}
                                            \/ pc'["main"] = pc["main"]
  BY <1>0, <1>1 DEF StopStep, Lock, StopCheck, StopClose, StopRead, StopDrain,
                    StopUnlink, NextPlugin
<1>2. ASSUME NEW t \in Threads, StartStep(t)
      PROVE  pc'["main"] = pc["main"] \/ pc["main"] = "start"
  BY <1>0, <1>2 DEF StartStep, Discover, Create
<1>3. CASE StartupFatal \/ Exit \/ WatchFatal \/ Crash
  BY <1>3 DEF StartupFatal, Exit, WatchFatal, Crash, ProcessEnd
<1>4. CASE \/ \E i \in Inst : RunStep(i) \/ Serve(i) \/ RunFails(i) \/ RunRegisterFails(i)
           \/ Signal \/ WatchOverflow \/ KubeletStop \/ KubeletStart
           \/ \E c \in Classes : KubeletConnect(c) \/ StreamEnd(c)
           \/ UNCHANGED vars
  <2>1. Quiet
    BY <1>4, RunIsQuiet, EnvironmentIsQuiet
  <2> QED BY <2>1 DEF Quiet, threads
<1>5. CASE Started \/ Wake \/ StoppedAllMain \/ RestartFails \/ Restarted
           \/ StoppedAllWatch \/ WatchInstall \/ WatchEvent \/ WatchDone
           \/ ProcessStart
  BY <1>0, <1>5 DEF Started, Wake, StoppedAllMain, RestartFails, Restarted,
       StoppedAllWatch, WatchInstall, WatchEvent, WatchDone, ProcessStart
<1> QED BY <1>1, <1>2, <1>3, <1>4, <1>5
        DEF Next, MainStep, WatchStep, Environment

-----------------------------------------------------------------------------
(* What a scrape has been given.                                               *)

LEMMA GivenKeeps ==
    ASSUME ScrapeTypeOK, LifecycleInv, ListInv, GivenInv,
           [ScrapeNext]_scrapeVars
    PROVE  GivenInv'
<1> USE DEF ScrapeGo, Given
<1>0. /\ spc \in [Scrapers -> {"idle", "provide", "collect"}]
      /\ sources \in [Scrapers -> SUBSET Inst]
      /\ samples \in [Scrapers -> SUBSET Series]
      /\ TypeOK
  BY DEF ScrapeTypeOK
<1>1. CASE LifecycleStep
  <2>1. CASE pc'["main"] = "gone"
    BY <1>1, <2>1 DEF LifecycleStep, GivenInv
  <2>2. CASE pc'["main"] # "gone"
    <3>1. pc'["main"] \in {"start", "create"}
              => pc["main"] \in {"start", "create", "gone"}
      BY <1>0, <1>1, StartingWas DEF LifecycleStep
    <3>2. UNCHANGED metrics
      BY <1>1, <2>2 DEF LifecycleStep
    <3> QED BY <2>2, <3>1, <3>2 DEF GivenInv, metrics
  <2> QED BY <2>1, <2>2
<1>2. CASE ServerStep
  BY <1>2 DEF ServerStep, HttpListen, HttpShutdown, GivenInv, vars, threads
<1>3. ASSUME NEW s \in Scrapers, Request(s) PROVE GivenInv'
  BY <1>0, <1>3 DEF Request, GivenInv, vars, threads
<1>4. ASSUME NEW s \in Scrapers, Provide(s) PROVE GivenInv'
  <2>1. \A i, j \in plugins : i[2] = j[2]
    BY DEF ListInv
  <2>2. /\ sources' = [sources EXCEPT ![s] = plugins] /\ samples' = samples
        /\ samples[s] = {}
    BY <1>4 DEF Provide, GivenInv
  <2>3. \A u \in Scrapers : \A i, j \in Given(u)' : i[2] = j[2]
    BY <1>0, <2>1, <2>2 DEF GivenInv, Given
  <2> QED BY <1>0, <1>4, <2>3 DEF Provide, GivenInv, vars, threads
<1>5. ASSUME NEW s \in Scrapers, NEW i \in Inst, ReadSource(s, i) PROVE GivenInv'
  <2>1. /\ i \in sources[s] /\ sources' = [sources EXCEPT ![s] = @ \ {i}]
        /\ samples' = [samples EXCEPT ![s] = @ \union {Reading(i)}]
        /\ Reading(i).plugin = i
        /\ UNCHANGED <<pc, http, spc>> /\ spc[s] = "collect"
    BY <1>5 DEF ReadSource, Reading, vars, threads
  <2>2. \A u \in Scrapers : Given(u)' \subseteq Given(u)
    BY <1>0, <2>1 DEF Given
  <2>3. \A u \in Scrapers : \A j, k \in Given(u)' : j[2] = k[2]
    BY <2>2 DEF GivenInv
  <2> QED BY <1>0, <2>1, <2>3 DEF GivenInv
<1>6. ASSUME NEW s \in Scrapers, Answer(s) PROVE GivenInv'
  <2>1. /\ sources[s] = {} /\ UNCHANGED <<pc, http, sources>>
        /\ samples' = [samples EXCEPT ![s] = {}]
        /\ spc' = [spc EXCEPT ![s] = "idle"] /\ spc[s] = "collect"
    BY <1>6 DEF Answer, vars, threads
  <2>2. \A u \in Scrapers : \A j, k \in Given(u)' : j[2] = k[2]
    BY <1>0, <2>1 DEF GivenInv, Given
  <2> QED BY <1>0, <2>1, <2>2 DEF GivenInv
<1>7. CASE (\E i \in Inst : CountAllocation(i)) \/ UNCHANGED scrapeVars
  BY <1>7 DEF CountAllocation, scrapeVars, metrics, GivenInv, vars, threads
<1> QED BY <1>1, <1>2, <1>3, <1>4, <1>5, <1>6, <1>7 DEF ScrapeNext, ScrapeStep

\* The lists main and the scrapes work with, in every reachable state.
THEOREM ScrapeSafe == ScrapeSpec => []ScrapeInv
<1>1. ScrapeInit => ListInv /\ GivenInv
  BY DEF ScrapeInit, Init, AtStartup, ListInv, GivenInv, Given, ThisGeneration,
         Critical, Threads
<1>2. ScrapeTypeOK /\ LifecycleInv /\ ListInv /\ GivenInv
          /\ [ScrapeNext]_scrapeVars => ListInv' /\ GivenInv'
  BY Projects, NextKeepsList, GivenKeeps DEF ScrapeTypeOK
<1>3. ScrapeSpec => []LifecycleInv
  BY ScrapeRunsLifecycle, LifecycleSafe, PTL
<1>4. LifecycleInv /\ ListInv /\ GivenInv => ScrapeInv
  BY DEF ScrapeInv
<1> QED BY <1>1, <1>2, <1>3, <1>4, ScrapeTypeCorrect, PTL DEF ScrapeSpec

\* A scrape is never refused for a series that occurs twice.
THEOREM OneSeriesPerClassHolds == ScrapeSpec => []OneSeriesPerClass
<1>1. ScrapeTypeOK /\ ScrapeInv => OneSeriesPerClass
  <2> SUFFICES ASSUME ScrapeTypeOK, ScrapeInv, NEW s \in Scrapers,
                      NEW i \in Given(s), NEW j \in Given(s), i[1] = j[1]
               PROVE  i = j
    BY DEF OneSeriesPerClass
  <2>1. i \in Inst /\ j \in Inst
    BY DEF ScrapeTypeOK, Series, Given
  <2>2. i[2] = j[2]
    BY DEF ScrapeInv, GivenInv
  <2> QED BY <2>1, <2>2 DEF Inst
<1> QED BY <1>1, ScrapeTypeCorrect, ScrapeSafe, PTL

\* A scrape is given exactly the plugins in service.
THEOREM SourcesAreLiveHolds == ScrapeSpec => SourcesAreLive
<1>1. ScrapeTypeOK /\ ScrapeInv /\ [ScrapeNext]_scrapeVars =>
        \A s \in Scrapers : spc[s] = "provide" /\ spc'[s] = "collect" /\ ~ctxDone
            => sources'[s] = {i \in Inst : Live(i)}
  <2> SUFFICES ASSUME ScrapeTypeOK, ScrapeInv, [ScrapeNext]_scrapeVars,
                      NEW s \in Scrapers, spc[s] = "provide", spc'[s] = "collect",
                      ~ctxDone
               PROVE  sources'[s] = {i \in Inst : Live(i)}
    OBVIOUS
  <2>0. spc \in [Scrapers -> {"idle", "provide", "collect"}]
        /\ sources \in [Scrapers -> SUBSET Inst] /\ plugins \subseteq Inst
    BY DEF ScrapeTypeOK, TypeOK
  <2>1. Provide(s)
    BY <2>0 DEF ScrapeNext, LifecycleStep, metrics, ServerStep, HttpListen,
         HttpShutdown, ScrapeStep, ScrapeGo, Request, Provide, ReadSource, Answer,
         CountAllocation, scrapeVars
  <2>2. mu = None /\ sources'[s] = plugins
    BY <2>0, <2>1 DEF Provide
  <2>3. pc["main"] \notin {"start", "create", "gone"}
    BY DEF ScrapeInv, GivenInv
  <2>4. pc["watch"] # "create"
    BY <2>2, ConstantsAssumption DEF ScrapeInv, LifecycleInv, MutexInv, Threads
  <2>5. \A i \in Inst : Live(i) => i \in plugins
    BY <2>3, <2>4 DEF ScrapeInv, LifecycleInv, LiveInv
  <2>6. \A i \in plugins : Live(i)
    BY <2>2 DEF ScrapeInv, ListInv
  <2> QED BY <2>0, <2>2, <2>5, <2>6
<1> QED BY <1>1, ScrapeTypeCorrect, ScrapeSafe, PTL DEF ScrapeSpec, SourcesAreLive

-----------------------------------------------------------------------------
(* The answers of scrapes are those of a moment.                               *)

LEMMA ReadKept ==
    ASSUME ScrapeTypeOK, GivenInv, ReadInv, [ScrapeNext]_scrapeVars
    PROVE  ReadInv'
<1> USE DEF ReadInv, ScrapeGo
<1>0. /\ spc \in [Scrapers -> {"idle", "provide", "collect"}]
      /\ sources \in [Scrapers -> SUBSET Inst]
      /\ since \in [Scrapers -> [Inst -> Nat]]
      /\ samples \in [Scrapers -> SUBSET Series]
      /\ allocations \in [Inst -> Nat] /\ Zero \in [Inst -> Nat]
      /\ plugins \subseteq Inst
      /\ \A r \in Series : r.plugin \in Inst /\ r.count \in Nat
  BY DEF ScrapeTypeOK, TypeOK, Zero, Series
<1>1. CASE LifecycleStep
  <2>1. CASE pc'["main"] = "gone"
    BY <1>0, <1>1, <2>1 DEF LifecycleStep, Zero
  <2>2. CASE pc'["main"] # "gone"
    BY <1>1, <2>2 DEF LifecycleStep, metrics
  <2> QED BY <2>1, <2>2
<1>2. CASE ServerStep \/ UNCHANGED scrapeVars
  BY <1>2 DEF ServerStep, HttpListen, HttpShutdown, scrapeVars, metrics
<1>3. ASSUME NEW s \in Scrapers, Request(s) PROVE ReadInv'
  BY <1>0, <1>3 DEF Request
<1>4. ASSUME NEW s \in Scrapers, Provide(s) PROVE ReadInv'
  <2>1. samples[s] = {} /\ samples' = samples
    BY <1>4 DEF Provide, GivenInv
  <2>2. since' = [since EXCEPT ![s] = allocations] /\ allocations' = allocations
    BY <1>4 DEF Provide
  <2>3. spc' = [spc EXCEPT ![s] = "collect"] /\ sources' = [sources EXCEPT ![s] = plugins]
    BY <1>4 DEF Provide
  <2> QED BY <1>0, <2>1, <2>2, <2>3
<1>5. ASSUME NEW s \in Scrapers, NEW i \in Inst, ReadSource(s, i) PROVE ReadInv'
  <2>1. /\ i \in sources[s] /\ sources' = [sources EXCEPT ![s] = @ \ {i}]
        /\ samples' = [samples EXCEPT ![s] = @ \union {Reading(i)}]
        /\ UNCHANGED <<spc, since, allocations>>
    BY <1>5 DEF ReadSource
  <2>2. Reading(i).plugin = i /\ Reading(i).count = allocations[i]
    BY DEF Reading
  <2> SUFFICES ASSUME NEW u \in Scrapers, NEW r \in samples'[u]
               PROVE  /\ r.plugin \notin sources'[u]
                      /\ since[u][r.plugin] <= r.count /\ r.count <= allocations[r.plugin]
                      /\ \A q \in samples'[u] : q.plugin = r.plugin => q = r
    BY <2>1
  <2>3. CASE u # s
    BY <1>0, <2>1, <2>3
  <2>4. CASE u = s
    <3>1. samples'[s] = samples[s] \union {Reading(i)} /\ sources'[s] = sources[s] \ {i}
      BY <1>0, <2>1
    <3>2. \A q \in samples[s] : q.plugin # i
      BY <2>1
    <3>3. CASE r \in samples[s]
      BY <2>2, <2>4, <3>1, <3>2, <3>3
    <3>4. CASE r = Reading(i)
      <4>1. since[s][i] <= allocations[i] /\ allocations[i] <= allocations[i]
        BY <1>0
      <4> QED BY <2>2, <2>4, <3>1, <3>2, <3>4, <4>1
    <3> QED BY <2>4, <3>1, <3>3, <3>4
  <2> QED BY <2>3, <2>4
<1>6. ASSUME NEW s \in Scrapers, Answer(s) PROVE ReadInv'
  <2>1. /\ samples' = [samples EXCEPT ![s] = {}] /\ since' = [since EXCEPT ![s] = Zero]
        /\ spc' = [spc EXCEPT ![s] = "idle"]
        /\ UNCHANGED <<sources, allocations>>
    BY <1>6 DEF Answer
  <2>2. \A i \in Inst : Zero[i] <= allocations[i]
    BY <1>0 DEF Zero
  <2> QED BY <1>0, <2>1, <2>2
<1>7. ASSUME NEW i \in Inst, CountAllocation(i) PROVE ReadInv'
  <2>1. /\ allocations' = [allocations EXCEPT ![i] = @ + 1]
        /\ UNCHANGED <<spc, sources, since, samples>>
    BY <1>7 DEF CountAllocation, metrics
  <2>2. \A j \in Inst : allocations[j] <= allocations'[j] /\ allocations'[j] \in Nat
    BY <1>0, <2>1
  <2>3. \A u \in Scrapers : \A r \in samples[u] : r.plugin \in Inst /\ r.count \in Nat
    BY <1>0
  <2>4. \A u \in Scrapers, j \in Inst : since[u][j] <= allocations'[j]
    BY <1>0, <2>2
  <2>5. \A u \in Scrapers : \A r \in samples[u] : r.count <= allocations'[r.plugin]
    <3> SUFFICES ASSUME NEW u \in Scrapers, NEW r \in samples[u]
                 PROVE  r.count <= allocations'[r.plugin]
      OBVIOUS
    <3>1. /\ r.count <= allocations[r.plugin]
          /\ allocations[r.plugin] <= allocations'[r.plugin]
          /\ r.count \in Nat /\ allocations[r.plugin] \in Nat
          /\ allocations'[r.plugin] \in Nat
      BY <1>0, <2>2, <2>3
    <3> QED BY <3>1
  <2> QED BY <2>1, <2>4, <2>5
<1> QED BY <1>1, <1>2, <1>3, <1>4, <1>5, <1>6, <1>7 DEF ScrapeNext, ScrapeStep

\* What the lifecycle does is a change of the list, or the end of every scrape.
LEMMA LifecycleIsAtomic ==
    ASSUME TypeOK', LifecycleInv', MuIsReleased', ListInv', LifecycleStep
    PROVE  Atomic!Next
<1>1. allocations' = allocations
  BY DEF LifecycleStep
<1>2. CASE pc'["main"] = "gone"
  <2>1. mu' = None /\ plugins' = {}
    BY <1>2 DEF TypeOK, LifecycleInv, MutexInv, MuIsReleased, ListInv, Critical, Threads
  <2>2. /\ {s \in Scrapers : spc[s] = "collect"}' = {} /\ shown' = {}
        /\ [s \in Scrapers |-> Given(s)]' = [s \in Scrapers |-> {}]
        /\ since' = [s \in Scrapers |-> Atomic!Zero]
    BY <1>2 DEF LifecycleStep, Given, Zero, Atomic!Zero
  <2> QED BY <1>1, <2>1, <2>2 DEF Atomic!Next, Atomic!Cease
<1>3. CASE pc'["main"] # "gone"
  <2>1. UNCHANGED metrics
    BY <1>3 DEF LifecycleStep
  <2>2. \A i, j \in plugins' : i[1] = j[1] => i = j
    BY DEF ListInv, TypeOK, Inst
  <2>3. plugins' \subseteq Inst /\ (mu = None)' \in BOOLEAN
    BY DEF TypeOK
  <2> QED BY <1>1, <2>1, <2>2, <2>3 DEF Atomic!Next, Atomic!Replace, metrics, Given
<1> QED BY <1>2, <1>3

LEMMA ScrapeIsAtomic ==
    ASSUME ScrapeTypeOK, ScrapeTypeOK', ScrapeInv, ScrapeInv', MuIsReleased',
           ReadInv, [ScrapeNext]_scrapeVars
    PROVE  [Atomic!Next]_(Atomic!vars)
<1> USE DEF ScrapeGo
<1>0. /\ spc \in [Scrapers -> {"idle", "provide", "collect"}]
      /\ sources \in [Scrapers -> SUBSET Inst]
      /\ since \in [Scrapers -> [Inst -> Nat]]
      /\ samples \in [Scrapers -> SUBSET Series]
      /\ allocations \in [Inst -> Nat]
      /\ \A r \in Series : r.plugin \in Inst /\ r.count \in Nat
  BY DEF ScrapeTypeOK, Series
<1> DEFINE open == {s \in Scrapers : spc[s] = "collect"}
           taken == [s \in Scrapers |-> Given(s)]
<1>1. CASE LifecycleStep
  BY <1>1, LifecycleIsAtomic DEF ScrapeTypeOK, ScrapeInv
<1>2. CASE ServerStep \/ UNCHANGED scrapeVars
  <2>1. UNCHANGED <<plugins, mu, allocations, spc, sources, samples, since, shown>>
    BY <1>2 DEF ServerStep, HttpListen, HttpShutdown, scrapeVars, metrics, vars, proc
  <2> QED BY <2>1 DEF Atomic!vars, Given
<1>3. ASSUME NEW s \in Scrapers, Request(s) PROVE [Atomic!Next]_(Atomic!vars)
  <2>1. /\ UNCHANGED <<plugins, mu, allocations, sources, samples, since, shown>>
        /\ spc' = [spc EXCEPT ![s] = "provide"] /\ spc[s] = "idle"
    BY <1>3 DEF Request, vars, proc
  <2>2. open' = open
    BY <1>0, <2>1
  <2> QED BY <2>1, <2>2 DEF Atomic!vars, Given
<1>4. ASSUME NEW s \in Scrapers, Provide(s) PROVE [Atomic!Next]_(Atomic!vars)
  <2>1. /\ mu = None /\ spc[s] = "provide" /\ spc' = [spc EXCEPT ![s] = "collect"]
        /\ sources' = [sources EXCEPT ![s] = plugins]
        /\ since' = [since EXCEPT ![s] = allocations]
        /\ UNCHANGED <<plugins, mu, allocations, samples, shown>>
    BY <1>4 DEF Provide, vars, proc
  <2>2. s \notin open /\ open' = open \union {s}
    BY <1>0, <2>1
  <2>3. taken' = [taken EXCEPT ![s] = plugins]
    <3>1. samples[s] = {}
      BY <2>1 DEF ScrapeInv, GivenInv
    <3>2. \A u \in Scrapers : Given(u)' = IF u = s THEN plugins ELSE Given(u)
      BY <1>0, <2>1, <3>1 DEF Given
    <3> QED BY <3>2
  <2>4. Atomic!Take(s)
    BY <2>1, <2>2, <2>3 DEF Atomic!Take
  <2> QED BY <2>4 DEF Atomic!Next
<1>5. ASSUME NEW s \in Scrapers, NEW i \in Inst, ReadSource(s, i)
      PROVE  [Atomic!Next]_(Atomic!vars)
  <2>1. /\ i \in sources[s] /\ sources' = [sources EXCEPT ![s] = @ \ {i}]
        /\ samples' = [samples EXCEPT ![s] = @ \union {Reading(i)}]
        /\ Reading(i).plugin = i
        /\ UNCHANGED <<plugins, mu, allocations, spc, since, shown>>
    BY <1>5 DEF ReadSource, Reading, vars, proc
  <2>2. \A u \in Scrapers : Given(u)' = Given(u)
    BY <1>0, <2>1 DEF Given
  <2> QED BY <2>1, <2>2 DEF Atomic!vars
<1>6. ASSUME NEW s \in Scrapers, Answer(s) PROVE [Atomic!Next]_(Atomic!vars)
  <2>1. /\ spc[s] = "collect" /\ spc' = [spc EXCEPT ![s] = "idle"]
        /\ sources[s] = {} /\ shown' = samples[s]
        /\ samples' = [samples EXCEPT ![s] = {}] /\ since' = [since EXCEPT ![s] = Zero]
        /\ UNCHANGED <<plugins, mu, allocations, sources>>
    BY <1>6 DEF Answer, vars, proc
  <2>2. s \in open /\ open' = open \ {s}
    BY <1>0, <2>1
  <2>3. taken[s] = {r.plugin : r \in shown'}
    BY <2>1 DEF Given
  <2>4. taken' = [taken EXCEPT ![s] = {}]
    <3>1. \A u \in Scrapers : Given(u)' = IF u = s THEN {} ELSE Given(u)
      BY <1>0, <2>1 DEF Given
    <3> QED BY <3>1
  <2>5. \A r \in shown' : r.count \in since[s][r.plugin]..allocations[r.plugin]
    <3> SUFFICES ASSUME NEW r \in samples[s]
                 PROVE  r.count \in since[s][r.plugin]..allocations[r.plugin]
      BY <2>1
    <3>1. r.count \in Nat /\ since[s][r.plugin] \in Nat /\ allocations[r.plugin] \in Nat
      BY <1>0
    <3>2. since[s][r.plugin] <= r.count /\ r.count <= allocations[r.plugin]
      BY DEF ReadInv
    <3> QED BY <3>1, <3>2
  <2>6. \A q, r \in shown' : q.plugin = r.plugin => q = r
    BY <2>1 DEF ReadInv
  <2>7. Atomic!Answer(s)
    BY <2>1, <2>2, <2>3, <2>4, <2>5, <2>6 DEF Atomic!Answer, Atomic!Zero, Zero
  <2> QED BY <2>7 DEF Atomic!Next
<1>7. ASSUME NEW i \in Inst, CountAllocation(i) PROVE [Atomic!Next]_(Atomic!vars)
  <2>1. /\ allocations' = [allocations EXCEPT ![i] = @ + 1]
        /\ UNCHANGED <<plugins, mu, spc, sources, samples, since, shown>>
    BY <1>7 DEF CountAllocation, metrics, vars, proc
  <2>2. Atomic!Count(i)
    BY <2>1 DEF Atomic!Count, Given
  <2> QED BY <2>2 DEF Atomic!Next
<1> QED BY <1>1, <1>2, <1>3, <1>4, <1>5, <1>6, <1>7 DEF ScrapeNext, ScrapeStep

\* A scrape answers for the plugins of one moment, all of them and each once,
\* however restarts, shutdowns and other scrapes fall between its reads.
THEOREM ScrapesAreAtomicHolds == ScrapeSpec => ScrapesAreAtomic
<1>1. ScrapeInit => ReadInv /\ Atomic!Init
  BY DEF ScrapeInit, Init, ReadInv, Given, Zero, Atomic!Init, Atomic!Zero
<1>2. ScrapeTypeOK /\ ScrapeInv /\ ReadInv /\ [ScrapeNext]_scrapeVars => ReadInv'
  BY ReadKept DEF ScrapeInv
<1>3. ScrapeTypeOK /\ ScrapeTypeOK' /\ ScrapeInv /\ ScrapeInv' /\ MuIsReleased'
        /\ ReadInv /\ [ScrapeNext]_scrapeVars => [Atomic!Next]_(Atomic!vars)
  BY ScrapeIsAtomic
<1>4. ScrapeSpec => []MuIsReleased
  BY ScrapeRunsLifecycle, MuIsReleasedHolds, PTL
<1> QED BY <1>1, <1>2, <1>3, <1>4, ScrapeTypeCorrect, ScrapeSafe, PTL
        DEF ScrapeSpec, ScrapesAreAtomic, Atomic!Spec
=============================================================================
