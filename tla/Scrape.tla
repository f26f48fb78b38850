------------------------------- MODULE Scrape -------------------------------
(* Metrics scrapes beside the life of the plugins: the provider of main      *)
(* (cmd/tt-device-plugin/main.go:47-57), serveMetrics (main.go:134-150), the *)
(* sources loop of Collect (internal/metrics/metrics.go:143-151) and the     *)
(* counter of Allocate, composed with PluginLifecycle.  Provider, restart()  *)
(* and shutdown meet in mu and in the list plugins; a scrape goes on to read *)
(* the plugins it was given while a restart stops and replaces them.         *)
EXTENDS PluginLifecycle
LOCAL INSTANCE FiniteSetsExt

CONSTANTS Scrapers,   \* requests for /metrics that may be under way at once
          MaxAllocs   \* bound: containers allocated in all

ASSUME ScrapeAssumption == MaxAllocs \in Nat /\ Scrapers \intersect Threads = {}

VARIABLES
    http,         \* the metrics server: "off", "up", "down"
    spc,          \* scraper -> where its handler is
    sources,      \* scraper -> the plugins it has still to read
    since,        \* history: scraper -> the counters when it was given them
    samples,      \* scraper -> what it has collected
    shown,        \* the samples of the last answer
    allocations   \* incarnation -> p.allocations

metrics    == <<http, spc, sources, since, samples, shown>>
scrapeVars == <<vars, metrics, allocations>>

\* The series of one plugin: its class, and its counter.
Reading(i) == [plugin |-> i, count |-> allocations[i]]

Zero == [i \in Inst |-> 0]

ScrapeInit ==
    /\ Init
    /\ http = "off" /\ spc = [s \in Scrapers |-> "idle"]
    /\ sources = [s \in Scrapers |-> {}] /\ samples = [s \in Scrapers |-> {}]
    /\ since = [s \in Scrapers |-> Zero]
    /\ shown = {} /\ allocations = Zero

ScrapeGo(s, from, to) == spc[s] = from /\ spc' = [spc EXCEPT ![s] = to]

-----------------------------------------------------------------------------
(* Variants: plausible bugs that stand in for the action they are named after  *)
(* when a property is put to the test.                                         *)

\* The provider reads the list without the mutex.
ProvideUnlocked(s) ==
    /\ ScrapeGo(s, "provide", "collect")
    /\ sources' = [sources EXCEPT ![s] = plugins]
    /\ since' = [since EXCEPT ![s] = allocations]
    /\ UNCHANGED <<vars, http, samples, shown, allocations>>

\* The provider returns without releasing the mutex.
ProvideKeepsLock(s) ==
    /\ mu = None /\ mu' = s
    /\ ScrapeGo(s, "provide", "collect")
    /\ sources' = [sources EXCEPT ![s] = plugins]
    /\ since' = [since EXCEPT ![s] = allocations]
    /\ UNCHANGED <<inst, threads, plugins, gen, ctxDone, events, sock, kubelet,
                   bounds, http, samples, shown, allocations>>

\* Collect looks a plugin up again by its class when its turn comes.
ReadSourceAnew(s, i) ==
    /\ spc[s] = "collect"
    /\ i \in sources[s] /\ sources' = [sources EXCEPT ![s] = @ \ {i}]
    /\ samples' = [samples EXCEPT ![s] =
         @ \union {Reading(j) : j \in {k \in plugins : k[1] = i[1]}}]
    /\ UNCHANGED <<vars, http, spc, since, shown, allocations>>

-----------------------------------------------------------------------------
(* The lifecycle moves *)

\* With the process go its handlers and its metrics; the counters of its
\* plugins are never read again.
LifecycleStep ==
    /\ Next
    /\ UNCHANGED allocations
    /\ IF pc'["main"] = "gone"
       THEN /\ http' = "off" /\ spc' = [s \in Scrapers |-> "idle"]
            /\ sources' = [s \in Scrapers |-> {}]
            /\ since' = [s \in Scrapers |-> Zero]
            /\ samples' = [s \in Scrapers |-> {}] /\ shown' = {}
       ELSE UNCHANGED metrics

-----------------------------------------------------------------------------
(* serveMetrics: started by main before the watcher *)

\* The port may be taken: logged, and the process goes on without metrics.
\* After a signal the server comes up all the same if the goroutine that shuts
\* it down has not run yet.
HttpListen ==
    /\ pc["main"] \notin {"start", "create", "gone"}
    /\ http = "off" /\ http' \in {"up", "down"}
    /\ UNCHANGED <<vars, spc, sources, since, samples, shown, allocations>>

\* Shutdown refuses new requests and lets those under way finish.
HttpShutdown ==
    /\ ctxDone
    /\ http = "up" /\ http' = "down"
    /\ UNCHANGED <<vars, spc, sources, since, samples, shown, allocations>>

-----------------------------------------------------------------------------
(* One scrape *)

Request(s) ==
    /\ http = "up"
    /\ ScrapeGo(s, "idle", "provide")
    /\ UNCHANGED <<vars, http, sources, since, samples, shown, allocations>>

\* The provider copies the list under mu, which it releases at once.
Provide(s) ==
    /\ mu = None
    /\ ScrapeGo(s, "provide", "collect")
    /\ sources' = [sources EXCEPT ![s] = plugins]
    /\ since' = [since EXCEPT ![s] = allocations]
    /\ UNCHANGED <<vars, http, samples, shown, allocations>>

\* Collect reads one source, whatever has become of it since.
ReadSource(s, i) ==
    /\ spc[s] = "collect"
    /\ i \in sources[s] /\ sources' = [sources EXCEPT ![s] = @ \ {i}]
    /\ samples' = [samples EXCEPT ![s] = @ \union {Reading(i)}]
    /\ UNCHANGED <<vars, http, spc, since, shown, allocations>>

Answer(s) ==
    /\ ScrapeGo(s, "collect", "idle") /\ sources[s] = {}
    /\ shown' = samples[s] /\ samples' = [samples EXCEPT ![s] = {}]
    /\ since' = [since EXCEPT ![s] = Zero]
    /\ UNCHANGED <<vars, http, sources, allocations>>

\* The kubelet has containers allocated by the plugin it holds a stream with.
CountAllocation(i) ==
    /\ endpoint[i[1]] = i /\ server[i] = "serving"
    /\ MapThenSumSet(LAMBDA j : allocations[j], Inst) < MaxAllocs
    /\ allocations' = [allocations EXCEPT ![i] = @ + 1]
    /\ UNCHANGED <<vars, metrics>>

-----------------------------------------------------------------------------

ServerStep == HttpListen \/ HttpShutdown

ScrapeStep(s) == Request(s) \/ Answer(s) \/ \E i \in Inst : ReadSource(s, i)

ScrapeNext ==
    \/ LifecycleStep
    \/ ServerStep
    \/ \E s \in Scrapers : ScrapeStep(s) \/ Provide(s)
    \/ \E i \in Inst : CountAllocation(i)

ScrapeSpec == ScrapeInit /\ [][ScrapeNext]_scrapeVars

\* Prometheus scrapes again and again.  Go's mutex hands itself to a waiter that
\* has been passed over, which is strong fairness of Provide.
ScrapeFairSpec ==
    /\ ScrapeSpec /\ Fairness
    /\ WF_scrapeVars(ServerStep)
    /\ \A s \in Scrapers : WF_scrapeVars(ScrapeStep(s)) /\ SF_scrapeVars(Provide(s))

-----------------------------------------------------------------------------
(* Correctness *)

Series == [plugin : Inst, count : Nat]

\* Every variable keeps its shape, those of the lifecycle included.
ScrapeTypeOK ==
    /\ TypeOK
    /\ http \in {"off", "up", "down"}
    /\ spc \in [Scrapers -> {"idle", "provide", "collect"}]
    /\ sources \in [Scrapers -> SUBSET Inst]
    /\ since \in [Scrapers -> [Inst -> Nat]]
    /\ samples \in [Scrapers -> SUBSET Series] /\ shown \in SUBSET Series
    /\ allocations \in [Inst -> Nat]

\* Until the process shuts down, a scrape is given exactly the plugins in
\* service: none that a restart has stopped, and none left out (main.go:47-57).
SourcesAreLive ==
    [][\A s \in Scrapers : spc[s] = "provide" /\ spc'[s] = "collect" /\ ~ctxDone
          => sources'[s] = {i \in Inst : Live(i)}]_scrapeVars

\* What a scrape was given: plugins still to be read, and plugins read.
Given(s) == sources[s] \union {r.plugin : r \in samples[s]}

\* A scrape never has two plugins of a class, even when a restart replaces them
\* half-way: Prometheus's registry refuses the whole answer when a series occurs
\* twice (metrics.go:146-158).
OneSeriesPerClass == \A s \in Scrapers :
    \A i, j \in Given(s) : i[1] = j[1] => i = j

\* A request that waits for mu, which a restart or a shutdown holds for as long
\* as it takes to stop every plugin, is answered or the process ends.
ScrapeCompletes == \A s \in Scrapers : spc[s] = "provide" ~> spc[s] = "idle"

\* "metrics follow kubelet-restart re-creation" (main.go:47-48): in the end the
\* answers show the plugins in service and their counters, and nothing else.
MetricsFollow ==
    <>[](http = "down" \/ shown = {Reading(i) : i \in {j \in Inst : Live(j)}})

\* A scrape reads one plugin at a time, outside mu, and yet its answer is that of
\* a moment: the plugins of the list it was given, all of them, with counters from
\* between the beginning and the end (metrics.go:146-153).
Atomic == INSTANCE AtomicScrapes WITH
    Plugins <- Inst, list <- plugins, free <- (mu = None),
    counts <- allocations, open <- {s \in Scrapers : spc[s] = "collect"},
    taken <- [s \in Scrapers |-> Given(s)]
ScrapesAreAtomic == Atomic!Spec

-----------------------------------------------------------------------------
(* The inductive invariant behind SourcesAreLive and OneSeriesPerClass.        *)

\* Unless the process is ending, the list that mu does not protect any more
\* names only plugins in service; so does the list under construction.
ListInv ==
    /\ mu = None /\ ~ctxDone => \A i \in plugins : Live(i)
    /\ "create" \in {pc["main"], pc["watch"]}
          => \A i \in ThisGeneration : Live(i)
    /\ pc["main"] \in Critical \union {"lock", "exit"} => ctxDone
    /\ pc["main"] \in {"start", "create", "gone"} => plugins = {}
    /\ \A i, j \in plugins : i[2] = j[2]

\* What a scrape has been given is of one generation, and nothing is asked of a
\* process that is not serving.
GivenInv ==
    /\ \A s \in Scrapers : \A i, j \in Given(s) : i[2] = j[2]
    /\ \A s \in Scrapers : spc[s] # "collect" => samples[s] = {} /\ sources[s] = {}
    /\ pc["main"] \in {"start", "create", "gone"} =>
          http = "off" /\ \A s \in Scrapers : spc[s] = "idle"

ScrapeInv == LifecycleInv /\ ListInv /\ GivenInv

\* Behind ScrapesAreAtomic: a plugin is still to be read or has been read once,
\* with a counter that was right at some time since the scrape began.
ReadInv == \A s \in Scrapers :
    /\ spc[s] # "collect" => since[s] = Zero
    /\ \A i \in Inst : since[s][i] <= allocations[i]
    /\ \A r \in samples[s] :
        /\ r.plugin \notin sources[s]
        /\ since[s][r.plugin] <= r.count /\ r.count <= allocations[r.plugin]
        /\ \A q \in samples[s] : q.plugin = r.plugin => q = r
=============================================================================
