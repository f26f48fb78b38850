---------------------------- MODULE DeviceHealth ----------------------------
(* The health of one plugin's devices: ListAndWatch, buildDeviceList and     *)
(* assess (internal/plugin/plugin.go:322-512), the sysfs files they read, the*)
(* list the kubelet holds and the snapshots the metrics collector reads.     *)
(*                                                                           *)
(* A heartbeat counter is modelled by what assess can tell of it: whether it *)
(* has moved since the value in lastHeartbeats was read.  A temperature is   *)
(* below the limit in force, at or above it, or unreadable.                  *)
EXTENDS Integers

CONSTANTS N,            \* the devices are 1..N, in the plugin's stable order
          Streams,      \* ListAndWatch handlers
          None,         \* no list, no stream
          Hwmon,        \* devices whose hwmon directory discovery found
          Sound, Sick,  \* devices that are always cool, and that never are
          Freezing,     \* devices whose firmware may freeze, none of them sound
          MaxRestarts   \* bound: kubelet restarts

Devices == 1..N

ASSUME ConstantsAssumption ==
    /\ N \in Nat \ {0} /\ MaxRestarts \in Nat
    /\ Hwmon \subseteq Devices /\ Sound \subseteq Devices
    /\ Sick \subseteq Hwmon /\ Sound \intersect Sick = {}
    /\ Freezing \subseteq Devices \ Sound
    /\ None \notin Streams /\ None \notin [Devices -> BOOLEAN]

VARIABLES
    temp, fw,          \* hardware: temperature and ARC firmware of a device
    lastHeartbeats,    \* device -> stored value: "none", "current" or "past"
    snapshots,         \* device -> Healthy, the map metrics read under p.mu
    stopped,           \* p.stop is closed
    pc, at, list,      \* per stream: control, device in hand, list being built
    tick, late,        \* per stream: the ticker and its channel; 2 if the last
                       \* tick found the handler busy, 1 if the one before did
    active, view,      \* kubelet: the stream it reads, the last list received
    restarts

hardware == <<temp, fw>>
plugin   == <<lastHeartbeats, snapshots, stopped>>
ticker   == <<tick, late>>
handlers == <<pc, at, list, ticker>>
kubelet  == <<active, view>>
vars     == <<hardware, plugin, handlers, kubelet, restarts>>

Temps(d) == IF d \in Sound THEN {"ok"}
            ELSE IF d \in Sick THEN {"hot", "unreadable"}
            ELSE {"ok", "hot", "unreadable"}
Firmware(d) == {"runs", "unreadable"}
               \union (IF d \in Freezing THEN {"frozen"} ELSE {})

\* New: no heartbeat is known and every device is presumed healthy.
Init ==
    /\ temp \in [Devices -> {"ok", "hot", "unreadable"}]
    /\ \A d \in Devices : temp[d] \in Temps(d)
    /\ fw = [d \in Devices |-> "runs"]
    /\ lastHeartbeats = [d \in Devices |-> "none"]
    /\ snapshots = [d \in Devices |-> TRUE]
    /\ stopped = FALSE
    /\ pc = [s \in Streams |-> "idle"] /\ at = [s \in Streams |-> 1]
    /\ list = [s \in Streams |-> [d \in Devices |-> TRUE]]
    /\ tick = [s \in Streams |-> "none"] /\ late = [s \in Streams |-> 0]
    /\ active = None /\ view = None
    /\ restarts = 0

Go(s, from, to) == pc[s] = from /\ pc' = [pc EXCEPT ![s] = to]

-----------------------------------------------------------------------------
(* Variants: plausible bugs that stand in for the operator they are named      *)
(* after when a property is put to the test.                                   *)

\* The index runs past the last device.
JudgedPastEnd(s, healthy) ==
    /\ list' = [list EXCEPT ![s][at[s]] = healthy]
    /\ at' = [at EXCEPT ![s] = @ + 1]
    /\ pc' = [pc EXCEPT ![s] = IF at[s] < N THEN "temp" ELSE "publish"]

\* A device once unhealthy is never looked at with fresh eyes.
JudgedSticky(s, healthy) ==
    /\ list' = [list EXCEPT ![s][at[s]] = healthy /\ snapshots[at[s]]]
    /\ IF at[s] < N
       THEN pc' = [pc EXCEPT ![s] = "temp"] /\ at' = [at EXCEPT ![s] = @ + 1]
       ELSE pc' = [pc EXCEPT ![s] = "publish"] /\ UNCHANGED at

\* The new map of snapshots is built and never stored.
PublishForgets(s) ==
    Go(s, "publish", "send")
    /\ UNCHANGED <<hardware, plugin, at, list, ticker, kubelet, restarts>>

\* The select has a default branch.
WakeAtOnce(s) ==
    /\ Go(s, "wait", "temp") /\ at' = [at EXCEPT ![s] = 1]
    /\ UNCHANGED <<hardware, plugin, list, ticker, kubelet, restarts>>

-----------------------------------------------------------------------------
(* Hardware: external *)

TempChanges(d) ==
    /\ \E t \in Temps(d) \ {temp[d]} : temp' = [temp EXCEPT ![d] = t]
    /\ UNCHANGED <<fw, plugin, handlers, kubelet, restarts>>

FirmwareChanges(d) ==
    /\ \E f \in Firmware(d) \ {fw[d]} : fw' = [fw EXCEPT ![d] = f]
    /\ UNCHANGED <<temp, plugin, handlers, kubelet, restarts>>

\* The counter moves: a stored value that was current no longer is.
Beat(d) ==
    /\ fw[d] # "frozen" /\ lastHeartbeats[d] = "current"
    /\ lastHeartbeats' = [lastHeartbeats EXCEPT ![d] = "past"]
    /\ UNCHANGED <<hardware, snapshots, stopped, handlers, kubelet, restarts>>

-----------------------------------------------------------------------------
(* ListAndWatch *)

\* The kubelet opens a stream; one it held before is cancelled, and its handler
\* finds out at its next Send.
Open(s) ==
    /\ Go(s, "idle", "temp") /\ ~stopped
    /\ at' = [at EXCEPT ![s] = 1]
    /\ active' = s
    /\ UNCHANGED <<hardware, plugin, list, ticker, view, restarts>>

\* assess is done with the device in hand: the next one, or the list is built.
Judged(s, healthy) ==
    /\ list' = [list EXCEPT ![s][at[s]] = healthy]
    /\ IF at[s] < N
       THEN pc' = [pc EXCEPT ![s] = "temp"] /\ at' = [at EXCEPT ![s] = @ + 1]
       ELSE pc' = [pc EXCEPT ![s] = "publish"] /\ UNCHANGED at

\* Variant: a sensor that fails is skipped, as a limit that is missing is.
AssessTempLenient(s) ==
    /\ pc[s] = "temp"
    /\ IF at[s] \in Hwmon /\ temp[at[s]] = "hot"
       THEN Judged(s, FALSE)
       ELSE pc' = [pc EXCEPT ![s] = "beat"] /\ UNCHANGED <<list, at>>
    /\ UNCHANGED <<hardware, plugin, ticker, kubelet, restarts>>

\* Variant: the value read is not stored.
AssessBeatForgets(s) ==
    /\ pc[s] = "beat"
    /\ Judged(s, fw[at[s]] = "unreadable" \/ lastHeartbeats[at[s]] # "current")
    /\ UNCHANGED <<hardware, plugin, ticker, kubelet, restarts>>

\* The temperature comes first; a sensor that fails or a limit that is reached
\* decides, and the heartbeat is not looked at.
AssessTemp(s) ==
    /\ pc[s] = "temp"
    /\ IF at[s] \in Hwmon /\ temp[at[s]] # "ok"
       THEN Judged(s, FALSE)
       ELSE pc' = [pc EXCEPT ![s] = "beat"] /\ UNCHANGED <<list, at>>
    /\ UNCHANGED <<hardware, plugin, ticker, kubelet, restarts>>

\* A heartbeat that cannot be read is ignored; one that equals the last value
\* read is a stall.
AssessBeat(s) ==
    LET d == at[s]
        readable == fw[d] # "unreadable" IN
    /\ pc[s] = "beat"
    /\ lastHeartbeats' = IF readable
         THEN [lastHeartbeats EXCEPT ![d] = "current"] ELSE lastHeartbeats
    /\ Judged(s, ~(readable /\ lastHeartbeats[d] = "current"))
    /\ UNCHANGED <<hardware, snapshots, stopped, ticker, kubelet, restarts>>

Publish(s) == /\ Go(s, "publish", "send")
              /\ snapshots' = list[s]
              /\ UNCHANGED <<hardware, lastHeartbeats, stopped, at, list, ticker,
                             kubelet, restarts>>

\* Send on a stream the kubelet no longer reads fails and ends the handler.  The
\* ticker is made after the first list.
Send(s) ==
    /\ IF active = s
       THEN /\ Go(s, "send", "wait") /\ view' = list[s]
            /\ tick' = [tick EXCEPT ![s] = IF @ = "none" THEN "empty" ELSE @]
       ELSE Go(s, "send", "ended") /\ UNCHANGED <<view, tick>>
    /\ UNCHANGED <<hardware, plugin, at, list, late, active, restarts>>

\* The ticker's channel holds one tick; a tick more is dropped.  A tick that finds
\* the handler building or sending is taken late, and the reads it leads to may
\* come just before the next tick.  A counter that was read after a tick taken at
\* once has moved by another one taken at once, unless it is frozen; of any other
\* two reads nothing is known.
TickFires(s) ==
    LET atOnce == pc[s] = "wait" IN
    /\ pc[s] # "ended" /\ tick[s] = "empty"
    /\ lastHeartbeats' = [d \in Devices |->
         IF lastHeartbeats[d] = "current" /\ fw[d] # "frozen"
            /\ atOnce /\ late[s] # 2
         THEN "past" ELSE lastHeartbeats[d]]
    /\ tick' = [tick EXCEPT ![s] = "full"]
    /\ late' = [late EXCEPT ![s] = IF ~atOnce THEN 2
                                   ELSE IF @ = 2 THEN 1 ELSE 0]
    /\ UNCHANGED <<hardware, snapshots, stopped, pc, at, list, kubelet, restarts>>

Wake(s) == /\ Go(s, "wait", "temp")
           /\ tick[s] = "full" /\ tick' = [tick EXCEPT ![s] = "empty"]
           /\ at' = [at EXCEPT ![s] = 1]
           /\ UNCHANGED <<hardware, plugin, list, late, kubelet, restarts>>

\* p.stop is closed: the stream ends, and the kubelet withdraws the devices.
SeeStop(s) ==
    /\ Go(s, "wait", "ended") /\ stopped
    /\ IF active = s THEN active' = None /\ view' = None
                     ELSE UNCHANGED kubelet
    /\ UNCHANGED <<hardware, plugin, at, list, ticker, restarts>>

-----------------------------------------------------------------------------
(* A kubelet restart, as far as this class is concerned *)

Stop == /\ ~stopped /\ stopped' = TRUE
        /\ restarts < MaxRestarts /\ restarts' = restarts + 1
        /\ UNCHANGED <<hardware, lastHeartbeats, snapshots, handlers, kubelet>>

\* Stop has returned, every connection is closed, and New makes the plugin that
\* takes over with maps of its own.
New ==
    /\ stopped /\ stopped' = FALSE
    /\ lastHeartbeats' = [d \in Devices |-> "none"]
    /\ snapshots' = [d \in Devices |-> TRUE]
    /\ pc' = [s \in Streams |-> "idle"] /\ at' = [s \in Streams |-> 1]
    /\ list' = [s \in Streams |-> [d \in Devices |-> TRUE]]
    /\ tick' = [s \in Streams |-> "none"] /\ late' = [s \in Streams |-> 0]
    /\ active' = None /\ view' = None
    /\ UNCHANGED <<hardware, restarts>>

-----------------------------------------------------------------------------

HandlerStep(s) == \/ AssessTemp(s) \/ AssessBeat(s) \/ Publish(s) \/ Send(s)
                  \/ Wake(s) \/ SeeStop(s)

Next == \/ \E d \in Devices : TempChanges(d) \/ FirmwareChanges(d) \/ Beat(d)
        \/ \E s \in Streams : Open(s) \/ HandlerStep(s) \/ TickFires(s)
        \/ Stop \/ New

Spec == Init /\ [][Next]_vars

\* Handlers run, tickers fire, a stopped plugin is replaced and the kubelet
\* opens its stream.  Nothing heats, cools, freezes or thaws by obligation.
Fairness ==
    /\ \A s \in Streams :
         WF_vars(HandlerStep(s)) /\ WF_vars(TickFires(s)) /\ WF_vars(Open(s))
    /\ WF_vars(New)

FairSpec == Spec /\ Fairness

-----------------------------------------------------------------------------
(* Correctness *)

\* Every variable keeps its shape.
TypeOK ==
    /\ temp \in [Devices -> {"ok", "hot", "unreadable"}]
    /\ \A d \in Devices : temp[d] \in Temps(d)
    /\ fw \in [Devices -> {"runs", "frozen", "unreadable"}]
    /\ \A d \in Devices : fw[d] \in Firmware(d)
    /\ lastHeartbeats \in [Devices -> {"none", "current", "past"}]
    /\ snapshots \in [Devices -> BOOLEAN] /\ stopped \in BOOLEAN
    /\ pc \in [Streams -> {"idle", "temp", "beat", "publish", "send", "wait",
                           "ended"}]
    /\ at \in [Streams -> Devices]
    /\ list \in [Streams -> [Devices -> BOOLEAN]]
    /\ tick \in [Streams -> {"none", "empty", "full"}]
    /\ late \in [Streams -> 0..2]
    /\ active \in Streams \union {None}
    /\ view \in [Devices -> BOOLEAN] \union {None}
    /\ restarts \in 0..MaxRestarts

\* The kubelet believes the device can be scheduled.
Offered(d) == view # None /\ view[d]

\* A device whose sensor fails or which is too hot is never offered, from the
\* first list of every plugin on (plugin.go:456-494).
SickNeverOffered == \A d \in Sick : ~Offered(d)

\* No handler was busy at its last tick or at the one before.
OnTime == \A s \in Streams : late[s] = 0

\* Two equal heartbeat reads are taken for frozen firmware (discover.go:33-34)
\* whatever the time between them (plugin.go:503).  A device whose temperature is
\* fine and whose firmware never freezes is called unhealthy, to the metrics or to
\* the kubelet, only by a list made soon after a tick that found a handler busy.
NoFalseAlarm == [][OnTime => \A d \in Sound :
    /\ snapshots[d] => snapshots'[d]
    /\ view' \notin {view, None} => view'[d]]_vars

\* Between two ticks the metrics say what the kubelet was told
\* (openspec/specs/device-metrics/spec.md:27-28).
MetricsMatchKubelet ==
    active # None => (pc[active] = "wait" => snapshots = view)

\* In the metrics a device recovers by an assessment only (spec.md:27-28).
RecoveryIsAssessed == [][\A d \in Devices :
    ~snapshots[d] /\ snapshots'[d] => \E s \in Streams : pc[s] = "publish"]_vars

\* A temperature problem that stays is reported, and stays reported.
HeatDetected == \A d \in Hwmon :
    <>[](temp[d] # "ok") => <>[]~Offered(d)

\* So is a frozen firmware, in spite of restarts that forget the last value.
FreezeDetected == \A d \in Devices :
    <>[](temp[d] = "ok" /\ fw[d] = "frozen") => <>[]~Offered(d)

\* A device that has been unhealthy is offered again once it is well
\* (CONTROL_FLOW.md:312-313), once ticks come to find the handlers waiting.
Recovers == \A d \in Devices :
    <>[](temp[d] = "ok" /\ fw[d] = "runs" /\ OnTime) => <>[]Offered(d)
=============================================================================
