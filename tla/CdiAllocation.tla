--------------------------- MODULE CdiAllocation ---------------------------
(* How a container gets its cards: Discover (internal/device), the CDI spec   *)
(* files that WriteSpec installs (internal/cdi), the devices New gives a      *)
(* plugin, Allocate (internal/plugin/plugin.go:342-408), and the kubelet and  *)
(* the container runtime at the other end.                                    *)
(*                                                                            *)
(* The moments at which a kubelet restart may strike belong to                *)
(* PluginLifecycle; here it strikes a process at rest.  A spec file is the    *)
(* set of the device names it defines.                                        *)
EXTENDS Integers, Sequences, FiniteSets

CONSTANTS Ids,          \* device numbers under /dev/tenstorrent
          Classes,      \* resource classes
          None, Torn,   \* no class or no file; a file half written
          MaxChanges,   \* bound: hardware changes
          MaxGen,       \* bound: startPlugins calls
          MaxFaults,    \* bound: crashes and failed writes
          MaxAsks       \* bound: Allocate requests

ASSUME ConstantsAssumption ==
    /\ MaxChanges \in Nat /\ MaxGen \in Nat \ {0}
    /\ MaxFaults \in Nat /\ MaxAsks \in Nat
    /\ None \notin Classes /\ None # Torn
    /\ \A S \in SUBSET Ids : S # None /\ S # Torn

VARIABLES
    card,        \* id -> the class its sysfs entry shows, None if unreadable
    useCDI,      \* TT_CDI_ENABLED, set for good by the deployment
    pc, up,      \* control of startPlugins and restart(); startup is over
    left,        \* ids that discovery has still to look at
    grouped,     \* what it has found, as pairs of a class and an id
    todo, cur,   \* classes still to handle, the class whose spec is written
    failed,      \* classes whose WriteSpec failed in this startPlugins
    tmp, spec,   \* class -> the temporary and the installed spec file
    devices,     \* class -> byID of its plugin in service, {} for no plugin
    allocations, \* class -> the counter of its plugin
    gen,         \* startPlugins calls
    held,        \* kubelet: class -> the ids of the last list it received
    asked,       \* kubelet: class -> an Allocate under way, ids per container
    answers,     \* containers answered and not started yet
    started,     \* history: class -> containers its plugin answered, started
    served,      \* history: class -> requests its plugin has answered
    changes, faults, asks

files   == <<tmp, spec>>
start   == <<pc, up, left, grouped, todo, cur, failed, gen>>
counts  == <<allocations, started, served>>
plugin  == <<devices, counts>>
kubelet == <<held, asked, answers>>
bounds  == <<changes, faults, asks>>
vars    == <<card, useCDI, start, files, plugin, kubelet, bounds>>

Found(c) == {id \in Ids : <<c, id>> \in grouped}
FoundClasses == {c \in Classes : Found(c) # {}}

Fault == faults < MaxFaults /\ faults' = faults + 1

Nowhere == [c \in Classes |-> {}]

ZeroCounts == [c \in Classes |-> 0]

\* The counter of a new plugin starts at zero.
NewCounts(c) == /\ allocations' = [allocations EXCEPT ![c] = 0]
                /\ started' = [started EXCEPT ![c] = 0]
                /\ served' = [served EXCEPT ![c] = 0]

Init ==
    /\ card \in [Ids -> Classes \union {None}] /\ useCDI \in BOOLEAN
    /\ pc = "scan" /\ up = FALSE /\ left = Ids /\ grouped = {}
    /\ todo = {} /\ cur = None /\ failed = {} /\ gen = 1
    /\ tmp = [c \in Classes |-> None] /\ spec = [c \in Classes |-> None]
    /\ devices = Nowhere /\ allocations = ZeroCounts
    /\ started = ZeroCounts /\ served = ZeroCounts
    /\ held = Nowhere /\ asked = [c \in Classes |-> <<>>]
    /\ answers = {}
    /\ changes = 0 /\ faults = 0 /\ asks = 0

Go(from, to) == pc = from /\ pc' = to

-----------------------------------------------------------------------------
(* Variants: plausible bugs that stand in for the operator they are named      *)
(* after when a property is put to the test.                                   *)

\* An unknown card type is grouped under the empty class.
ScanUnclassified(id) ==
    /\ pc = "scan" /\ id \in left /\ left' = left \ {id}
    /\ grouped' = grouped \union {<<card[id], id>>}
    /\ UNCHANGED <<card, useCDI, pc, up, todo, cur, failed, gen, files, plugin,
                   kubelet, bounds>>

\* The spec is written where the runtime reads it.
OpenInPlace(c) ==
    /\ Go("specs", "write") /\ c \in todo /\ todo' = todo \ {c} /\ cur' = c
    /\ spec' = [spec EXCEPT ![c] = Torn]
    /\ UNCHANGED <<card, useCDI, up, left, grouped, failed, gen, tmp, plugin,
                   kubelet, bounds>>

\* New looks at the hardware again instead of taking what discovery found.
CreateRescanned(c) ==
    /\ pc = "plugins" /\ c \in todo /\ todo' = todo \ {c}
    /\ devices' = [devices EXCEPT ![c] = {id \in Ids : card[id] = c}]
    /\ NewCounts(c)
    /\ UNCHANGED <<card, useCDI, pc, up, left, grouped, cur, failed, gen,
                   files, kubelet, bounds>>

\* restart() goes on before every old plugin is stopped.
StoppedEarly ==
    /\ Go("stop", "scan") /\ gen < MaxGen /\ gen' = gen + 1
    /\ left' = Ids /\ grouped' = {} /\ failed' = {}
    /\ UNCHANGED <<card, useCDI, up, todo, cur, files, plugin, kubelet, bounds>>

-----------------------------------------------------------------------------
(* Discover *)

\* A card whose type cannot be read or is unknown is skipped.
Scan(id) ==
    /\ pc = "scan" /\ id \in left /\ left' = left \ {id}
    /\ grouped' = IF card[id] = None THEN grouped
                  ELSE grouped \union {<<card[id], id>>}
    /\ UNCHANGED <<card, useCDI, pc, up, todo, cur, failed, gen, files, plugin,
                   kubelet, bounds>>

\* No card at all ends the process at startup; after a kubelet restart the
\* process stays, without a plugin.
NothingFound ==
    /\ Go("scan", IF up THEN "idle" ELSE "off")
    /\ left = {} /\ grouped = {}
    /\ UNCHANGED <<card, useCDI, up, left, grouped, todo, cur, failed, gen,
                   files, plugin, kubelet, bounds>>

ScanDone ==
    /\ Go("scan", IF useCDI THEN "specs" ELSE "plugins")
    /\ left = {} /\ grouped # {}
    /\ todo' = FoundClasses
    /\ UNCHANGED <<card, useCDI, up, left, grouped, cur, failed, gen, files,
                   plugin, kubelet, bounds>>

-----------------------------------------------------------------------------
(* WriteSpec, class after class *)

OpenTmp(c) ==
    /\ Go("specs", "write") /\ c \in todo /\ todo' = todo \ {c} /\ cur' = c
    /\ tmp' = [tmp EXCEPT ![c] = Torn]
    /\ UNCHANGED <<card, useCDI, up, left, grouped, failed, gen, spec, plugin,
                   kubelet, bounds>>

FillTmp == /\ Go("write", "rename")
           /\ tmp' = [tmp EXCEPT ![cur] = Found(cur)]
           /\ UNCHANGED <<card, useCDI, up, left, grouped, todo, cur, failed,
                          gen, spec, plugin, kubelet, bounds>>

Rename == /\ Go("rename", "specs")
          /\ spec' = [spec EXCEPT ![cur] = tmp[cur]]
          /\ tmp' = [tmp EXCEPT ![cur] = None]
          /\ cur' = None
          /\ UNCHANGED <<card, useCDI, up, left, grouped, todo, failed, gen,
                         plugin, kubelet, bounds>>

\* The directory cannot be made: the error is logged, nothing is touched, and
\* the plugin of the class will be created all the same.
DirectoryFails(c) ==
    /\ pc = "specs" /\ c \in todo /\ todo' = todo \ {c} /\ Fault
    /\ failed' = failed \union {c}
    /\ UNCHANGED <<card, useCDI, pc, up, left, grouped, cur, gen, files, plugin,
                   kubelet, changes, asks>>

\* So it is when the write or the rename fails; the temporary file stays.
WriteFails ==
    /\ pc \in {"write", "rename"} /\ pc' = "specs" /\ Fault
    /\ failed' = failed \union {cur} /\ cur' = None
    /\ UNCHANGED <<card, useCDI, up, left, grouped, todo, gen, files, plugin,
                   kubelet, changes, asks>>

SpecsDone == /\ Go("specs", "plugins") /\ todo = {}
             /\ todo' = FoundClasses
             /\ UNCHANGED <<card, useCDI, up, left, grouped, cur, failed, gen,
                            files, plugin, kubelet, bounds>>

-----------------------------------------------------------------------------
(* New, and the restart that makes it happen again *)

Create(c) ==
    /\ pc = "plugins" /\ c \in todo /\ todo' = todo \ {c}
    /\ devices' = [devices EXCEPT ![c] = Found(c)]
    /\ NewCounts(c)
    /\ UNCHANGED <<card, useCDI, pc, up, left, grouped, cur, failed, gen,
                   files, kubelet, bounds>>

Started == /\ Go("plugins", "idle") /\ todo = {}
           /\ up' = TRUE
           /\ UNCHANGED <<card, useCDI, left, grouped, todo, cur, failed, gen,
                          files, plugin, kubelet, bounds>>

\* The kubelet restarts; its checkpoint keeps what it has been answered.
KubeletRestart ==
    /\ Go("idle", "stop") /\ gen < MaxGen
    /\ held' = Nowhere /\ asked' = [c \in Classes |-> <<>>]
    /\ UNCHANGED <<card, useCDI, up, left, grouped, todo, cur, failed, gen,
                   files, plugin, answers, bounds>>

StopPlugin(c) ==
    /\ pc = "stop" /\ devices[c] # {}
    /\ devices' = [devices EXCEPT ![c] = {}]
    /\ held' = [held EXCEPT ![c] = {}]
    /\ UNCHANGED <<card, useCDI, start, files, counts, asked, answers, bounds>>

StoppedAll ==
    /\ Go("stop", "scan") /\ gen < MaxGen /\ gen' = gen + 1
    /\ devices = Nowhere
    /\ left' = Ids /\ grouped' = {} /\ failed' = {}
    /\ UNCHANGED <<card, useCDI, up, todo, cur, files, plugin, kubelet, bounds>>

\* Nothing is cleaned up: both kinds of file outlive the process.
Crash ==
    /\ pc # "off" /\ pc' = "off" /\ Fault
    /\ devices' = Nowhere /\ held' = Nowhere
    /\ UNCHANGED <<card, useCDI, up, left, grouped, todo, cur, failed, gen,
                   files, counts, asked, answers, changes, asks>>

ProcessStart ==
    /\ Go("off", "scan") /\ gen < MaxGen /\ gen' = gen + 1
    /\ up' = FALSE /\ left' = Ids /\ grouped' = {} /\ failed' = {}
    /\ todo' = {} /\ cur' = None
    /\ UNCHANGED <<card, useCDI, files, plugin, kubelet, bounds>>

-----------------------------------------------------------------------------
(* Allocate, and what surrounds it *)

\* The kubelet receives the list of a plugin that has registered with it.
Report(c) == /\ pc # "stop" /\ devices[c] # {} /\ held[c] # devices[c]
             /\ held' = [held EXCEPT ![c] = devices[c]]
             /\ UNCHANGED <<card, useCDI, start, files, plugin, asked, answers, bounds>>

\* The kubelet gives an id of a resource to one container at a time.
Free(c) == held[c] \ UNION {a.ids : a \in {b \in answers : b.class = c}}

Ask(c, ids1, ids2) ==
    /\ asked[c] = <<>> /\ asks < MaxAsks /\ asks' = asks + 1
    /\ ids1 \subseteq Free(c) /\ ids1 # {}
    /\ ids2 \subseteq Free(c) \ ids1
    /\ asked' = [asked EXCEPT ![c] =
                   IF ids2 = {} THEN <<ids1>> ELSE <<ids1, ids2>>]
    /\ UNCHANGED <<card, useCDI, start, files, plugin, held, answers,
                   changes, faults>>

Answers(c) == {[class |-> c, ids |-> asked[c][k], gen |-> gen] :
                 k \in 1..Len(asked[c])}

\* The ids of a request are not looked up.
AllocateUnchecked(c) ==
    /\ asked[c] # <<>> /\ devices[c] # {}
    /\ answers' = answers \union Answers(c)
    /\ allocations' = [allocations EXCEPT ![c] = @ + Len(asked[c])]
    /\ served' = [served EXCEPT ![c] = @ + 1]
    /\ asked' = [asked EXCEPT ![c] = <<>>]
    /\ UNCHANGED <<card, useCDI, start, files, devices, held, started, bounds>>

\* Requests are counted, not containers.
AllocateCountsRequests(c) ==
    /\ asked[c] # <<>> /\ devices[c] # {}
    /\ IF \A k \in 1..Len(asked[c]) : asked[c][k] \subseteq devices[c]
       THEN /\ answers' = answers \union Answers(c)
            /\ allocations' = [allocations EXCEPT ![c] = @ + 1]
            /\ served' = [served EXCEPT ![c] = @ + 1]
       ELSE UNCHANGED <<answers, allocations, served>>
    /\ asked' = [asked EXCEPT ![c] = <<>>]
    /\ UNCHANGED <<card, useCDI, start, files, devices, held, started, bounds>>

\* One answer per container request; a single id the plugin does not know
\* refuses them all, and nothing is counted.
Allocate(c) ==
    /\ asked[c] # <<>> /\ devices[c] # {}
    /\ IF \A k \in 1..Len(asked[c]) : asked[c][k] \subseteq devices[c]
       THEN /\ answers' = answers \union Answers(c)
            /\ allocations' = [allocations EXCEPT ![c] = @ + Len(asked[c])]
            /\ served' = [served EXCEPT ![c] = @ + 1]
       ELSE UNCHANGED <<answers, allocations, served>>
    /\ asked' = [asked EXCEPT ![c] = <<>>]
    /\ UNCHANGED <<card, useCDI, start, files, devices, held, started, bounds>>

\* No plugin serves the endpoint the request is sent to.
AskFails(c) == /\ asked[c] # <<>> /\ devices[c] = {}
               /\ asked' = [asked EXCEPT ![c] = <<>>]
               /\ UNCHANGED <<card, useCDI, start, files, plugin, held, answers, bounds>>

\* The names are in the spec the runtime reads now.
Resolves(a) == spec[a.class] \notin {None, Torn} /\ a.ids \subseteq spec[a.class]

\* The runtime starts a container: in CDI mode it must resolve the names first.
StartContainer(a) ==
    /\ a \in answers /\ answers' = answers \ {a}
    /\ useCDI => Resolves(a)
    /\ started' = IF a.gen = gen THEN [started EXCEPT ![a.class] = @ + 1]
                  ELSE started
    /\ UNCHANGED <<card, useCDI, start, files, devices, allocations, served,
                   held, asked, bounds>>

\* A driver is loaded or unloaded, cards are renumbered.
HardwareChanges(id) ==
    /\ changes < MaxChanges /\ changes' = changes + 1
    /\ \E c \in (Classes \union {None}) \ {card[id]} :
         card' = [card EXCEPT ![id] = c]
    /\ UNCHANGED <<useCDI, start, files, plugin, kubelet, faults, asks>>

-----------------------------------------------------------------------------

StartPlugins == \/ \E id \in Ids : Scan(id)
                \/ \E c \in Classes : OpenTmp(c) \/ DirectoryFails(c) \/ Create(c)
                \/ NothingFound \/ ScanDone \/ FillTmp \/ Rename \/ WriteFails
                \/ SpecsDone \/ Started

Restart == StoppedAll \/ \E c \in Classes : StopPlugin(c)

Kubelet == \/ KubeletRestart
           \/ \E c \in Classes :
                \/ Report(c) \/ AskFails(c)
                \/ \E ids1, ids2 \in SUBSET Ids : Ask(c, ids1, ids2)

Next == \/ StartPlugins \/ Restart \/ Kubelet \/ Crash \/ ProcessStart
        \/ \E c \in Classes : Allocate(c)
        \/ \E a \in answers : StartContainer(a)
        \/ \E id \in Ids : HardwareChanges(id)

Spec == Init /\ [][Next]_vars

-----------------------------------------------------------------------------
(* Correctness *)

Contents == {None, Torn} \union SUBSET Ids
Requests == Seq(SUBSET Ids)

\* Every variable keeps its shape.
TypeOK ==
    /\ card \in [Ids -> Classes \union {None}] /\ useCDI \in BOOLEAN
    /\ pc \in {"scan", "specs", "write", "rename", "plugins", "idle", "stop",
               "off"}
    /\ up \in BOOLEAN /\ left \subseteq Ids /\ grouped \subseteq Classes \X Ids
    /\ todo \subseteq Classes /\ cur \in Classes \union {None}
    /\ pc \in {"write", "rename"} => cur \in Classes
    /\ failed \subseteq Classes /\ gen \in Nat
    /\ tmp \in [Classes -> Contents] /\ spec \in [Classes -> Contents]
    /\ devices \in [Classes -> SUBSET Ids] /\ allocations \in [Classes -> Nat]
    /\ started \in [Classes -> Nat] /\ served \in [Classes -> Nat]
    /\ held \in [Classes -> SUBSET Ids] /\ asked \in [Classes -> Requests]
    /\ answers \subseteq [class : Classes, ids : SUBSET Ids, gen : Nat]
    /\ changes \in Nat /\ faults \in Nat /\ asks \in Nat

\* A runtime never reads a half-written spec, whenever the process crashes or a
\* write fails (cdi.go:120).
SpecNeverTorn == \A c \in Classes : spec[c] # Torn

\* In CDI mode a plugin in service has exactly the devices of the installed
\* spec, unless the spec of its class could not be written (main.go:95-115).
SpecMatchesPlugin == \A c \in Classes :
    useCDI /\ devices[c] # {} /\ c \notin failed => spec[c] = devices[c]

\* Plugins in service never share a card: one number is advertised under one
\* resource, even when cards change while they are discovered.
OneResourcePerCard == \A c, d \in Classes :
    c # d => devices[c] \intersect devices[d] = {}

\* Whatever the plugins in service have answered can be resolved by the runtime,
\* unless a spec could not be written (plugin.go:342-346).
AnswersResolve == \A a \in answers :
    useCDI /\ a.gen = gen /\ devices[a.class] # {} /\ a.class \notin failed
        => Resolves(a)

\* A name that Allocate returns is one that the runtime can inject, because the
\* spec has been written by then (CONTROL_FLOW.md:110-113, plugin.go:343-345).
NamesResolve == \A a \in answers :
    useCDI /\ a.gen = gen /\ devices[a.class] # {} => Resolves(a)

\* Containers answered by the present plugin of a class and not started yet.
Told(c) == {a \in answers : a.class = c /\ a.gen = gen}

\* The counter of a plugin in service is the number of the containers it has
\* answered, those that wait and those that were started since; a request that
\* it refused adds nothing (plugin.go:375, device-metrics/spec.md:62-64).
CountsContainers == \A c \in Classes : devices[c] # {} =>
    allocations[c] = Cardinality(Told(c)) + started[c]

\* tt_allocations_total gives "the cumulative number of `Allocate` requests
\* served" by the plugin of the class (device-metrics/spec.md:54-56).
CountsRequests == \A c \in Classes : devices[c] # {} =>
    allocations[c] = served[c]

-----------------------------------------------------------------------------
(* The inductive invariant behind these properties.                            *)

Starting == {"scan", "specs", "write", "rename"}
Serving  == {"plugins", "idle", "stop"}

\* Plugins exist between their creation and the next restart only, and have what
\* discovery found, each number under one class.
FoundInv ==
    /\ \A c, d \in Classes : \A id \in Ids :
          <<c, id>> \in grouped /\ <<d, id>> \in grouped => c = d
    /\ pc = "scan" => \A c \in Classes : \A id \in left : <<c, id>> \notin grouped
    /\ \A c \in Classes : devices[c] # {} => pc \in Serving /\ devices[c] = Found(c)

\* The spec of a class found has been written, has failed, or is still to come.
SpecInv ==
    /\ pc = "rename" => tmp[cur] = Found(cur)
    /\ useCDI => \A c \in FoundClasses :
         /\ pc \in {"specs", "write", "rename"} =>
               \/ c \in todo \/ c \in failed \/ spec[c] = Found(c)
               \/ c = cur /\ pc # "specs"
         /\ pc \in Serving => c \in failed \/ spec[c] = Found(c)

\* Answers come from plugins of this generation or of an earlier one.
AnswerInv == \A a \in answers :
    /\ a.gen <= gen /\ (pc \in Starting => a.gen < gen)
    /\ a.gen = gen => a.ids \subseteq Found(a.class)

\* The containers of a request under way ask for ids that none of the others
\* has, nor any container answered, so that no two answers are the same.
AskInv == \A c \in Classes : \A k \in 1..Len(asked[c]) :
    /\ asked[c][k] # {}
    /\ \A l \in 1..Len(asked[c]) :
          k # l => asked[c][k] \intersect asked[c][l] = {}
    /\ \A a \in answers : a.class = c => asked[c][k] \intersect a.ids = {}

\* A plugin that is still to be created has answered nothing.
CountInv ==
    /\ IsFiniteSet(answers) /\ CountsContainers
    /\ pc = "plugins" => \A c \in todo :
          devices[c] = {} /\ \A a \in answers : a.class = c => a.gen < gen

AllocationInv == FoundInv /\ SpecInv /\ AnswerInv /\ AskInv /\ CountInv
=============================================================================
