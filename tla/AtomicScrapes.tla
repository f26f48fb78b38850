--------------------------- MODULE AtomicScrapes ---------------------------
(* What the metrics endpoint promises to its readers: although a scrape      *)
(* reads the plugins one after another, while they are stopped and replaced  *)
(* and containers are allocated, its answer is about the plugins of one      *)
(* moment: all of them, each once, with counters that are no older than the  *)
(* moment and no newer than the answer.                                      *)
EXTENDS Integers

CONSTANTS Plugins,    \* incarnations, pairs whose first element is the class
          Scrapers    \* requests that may be under way at once

VARIABLES list, free,   \* the plugins to show, and whether they may be read now
          counts,       \* plugin -> its counter
          open,         \* the scrapes that have begun
          taken, since, \* scraper -> the list, and the counters, it began with
          shown         \* the last answer

vars == <<list, free, counts, open, taken, since, shown>>

Zero == [i \in Plugins |-> 0]

Init == /\ list = {} /\ free = TRUE /\ counts = Zero
        /\ open = {} /\ shown = {}
        /\ taken = [s \in Scrapers |-> {}] /\ since = [s \in Scrapers |-> Zero]

\* A restart, a shutdown: what is to be shown never has a class twice.
Replace == /\ list' \subseteq Plugins /\ free' \in BOOLEAN
           /\ \A i, j \in list' : i[1] = j[1] => i = j
           /\ UNCHANGED <<counts, open, taken, since, shown>>

Count(i) == /\ counts' = [counts EXCEPT ![i] = @ + 1]
            /\ UNCHANGED <<list, free, open, taken, since, shown>>

\* A scrape takes the list of this moment.
Take(s) == /\ free /\ s \notin open /\ open' = open \union {s}
           /\ taken' = [taken EXCEPT ![s] = list]
           /\ since' = [since EXCEPT ![s] = counts]
           /\ UNCHANGED <<list, free, counts, shown>>

\* It answers for every plugin it has taken, once.
Answer(s) == /\ s \in open /\ open' = open \ {s}
             /\ {r.plugin : r \in shown'} = taken[s]
             /\ \A q, r \in shown' : q.plugin = r.plugin => q = r
             /\ \A r \in shown' :
                  r.count \in since[s][r.plugin]..counts[r.plugin]
             /\ taken' = [taken EXCEPT ![s] = {}]
             /\ since' = [since EXCEPT ![s] = Zero]
             /\ UNCHANGED <<list, free, counts>>

\* The process ends, and every request with it.
Cease == /\ list' = {} /\ free' = TRUE /\ open' = {} /\ shown' = {}
         /\ taken' = [s \in Scrapers |-> {}]
         /\ since' = [s \in Scrapers |-> Zero]
         /\ UNCHANGED counts

Next == \/ Replace \/ Cease
        \/ \E i \in Plugins : Count(i)
        \/ \E s \in Scrapers : Take(s) \/ Answer(s)

Spec == Init /\ [][Next]_vars
=============================================================================
