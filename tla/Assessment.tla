----------------------------- MODULE Assessment -----------------------------
(* One assessment of one card, file by file: assess and readTelemetry        *)
(* (internal/plugin/plugin.go:456-572), the limit that New takes from the    *)
(* environment (plugin.go:154-165), the hwmon directory that discovery keeps *)
(* (internal/device/discover.go:233-239), and the series Collect makes of    *)
(* the snapshot (internal/metrics/metrics.go:153-195).  Between any two      *)
(* reads the temperature may change, a file may stop or start to be readable,*)
(* and the driver may be reloaded under another hwmon number.                *)
(*                                                                           *)
(* A file is named for what it holds.  Of a value that only metrics show,    *)
(* the module knows whether it was read.                                     *)
EXTENDS Integers, Sequences

CONSTANTS Dirs, None,    \* hwmon directories the driver may use, or has none
          Gone,          \* in the place of one: the driver is not loaded
          Temps,         \* temperatures of the card, in millidegrees
          CardLimit,     \* what temp1_max holds
          Configured,    \* values of TT_TEMP_MAX_C; one that is unset, or no
                         \* number, is 0
          Half, Milli,   \* integers are -Half..Half-1; millidegrees per degree
          Flaky,         \* files that stop and start to be readable
          MaxMoves       \* bound: changes of the driver in one assessment

\* readTelemetry, in its order.
Telemetry == <<"serial", "asic_id", "fw_bundle",
               "power", "power_max", "voltage", "current",
               "aiclk", "arcclk", "axiclk", "pcie_errors",
               "link_speed", "link_width">>

HwmonFiles == {"power", "power_max", "voltage", "current", "temp", "temp_max"}

Files == {Telemetry[k] : k \in 1..Len(Telemetry)} \union {"temp", "temp_max"}

\* Reads that are nested in the success of another.  A power limit of zero is
\* as good as none, and counts as unreadable.
Requires(f) == CASE f = "power_max" -> {"power"}
                 [] f = "link_width" -> {"link_speed"}
                 [] OTHER -> {}

ASSUME ConstantsAssumption ==
    /\ None \notin Dirs /\ Gone \notin Dirs \union {None} /\ Flaky \subseteq Files
    /\ Milli \in Nat \ {0} /\ Half \in Nat \ {0} /\ MaxMoves \in Nat
    /\ Temps \subseteq Int /\ Temps # {} /\ CardLimit \in Int
    /\ Configured \subseteq Int

VARIABLES
    where, readable, temp,    \* the card: hwmon directory, files, temperature
    configured, hwmonDir,     \* fixed by New and by discovery
    pc, next,                 \* assess: control, telemetry file to read
    got, reading, limit,      \* the snapshot: files read, TempMilliC, MaxMilliC
    verdict,                  \* its Healthy
    healthy,                  \* what has been published last
    assessed,                 \* the snapshot is a finished assessment
    stalled,                  \* it found the heartbeat stalled
    \* what happened since the assessment began: files readable at some time
    \* and all the time, lowest and highest temperature, changes of the driver
    ever, always, low, high, moves

hardware == <<where, readable, temp>>
fixed    == <<configured, hwmonDir>>
snapshot == <<got, reading, limit, verdict>>
told     == <<healthy, assessed, stalled>>
history  == <<ever, always, low, high, moves>>
vars     == <<hardware, fixed, pc, next, snapshot, told, history>>

\* A read of the file succeeds: the path is the one discovery found.  Every path
\* lies in what the driver makes in sysfs, and goes with it.
Answers(f) == /\ f \in readable /\ where # Gone
              /\ f \in HwmonFiles => hwmonDir # None /\ hwmonDir = where

Answering == {f \in Files : Answers(f)}

-----------------------------------------------------------------------------
(* parseTempMaxEnv *)

\* 64-bit multiplication, at the width Half stands for.
Wrap(n) == ((n + Half) % (2 * Half)) - Half

\* strconv.ParseInt succeeds and the value is positive.
Parsed(c) == 0 < c /\ c < Half

\* Variant: degrees taken for millidegrees.
ParseTempMaxEnvDegrees(c) == IF Parsed(c) THEN c ELSE 0

ParseTempMaxEnv(c) == IF Parsed(c) THEN Wrap(c * Milli) ELSE 0

\* Variant: the limit itself is still allowed.
TooHotBeyond(t, max) == max > 0 /\ t > max

TooHot(t, max) == max > 0 /\ t >= max

-----------------------------------------------------------------------------
(* Discovery and New *)

FindHwmonDir == where

Init ==
    /\ where \in Dirs \union {None} /\ readable = Files /\ temp \in Temps
    /\ configured \in Configured /\ hwmonDir = FindHwmonDir
    /\ pc = "idle" /\ next = 1
    /\ got = {} /\ reading = temp /\ limit = 0 /\ verdict = TRUE
    /\ healthy = TRUE /\ assessed = FALSE /\ stalled = FALSE
    /\ ever = {} /\ always = {} /\ low = temp /\ high = temp /\ moves = 0

\* The kubelet restarts: the card is discovered again and its plugin made anew.
\* Without the driver there is no card to discover.
Restart ==
    /\ where # Gone
    /\ hwmonDir' = FindHwmonDir
    /\ pc' = "idle" /\ next' = 1 /\ got' = {} /\ reading' = temp /\ limit' = 0
    /\ verdict' = TRUE /\ healthy' = TRUE /\ assessed' = FALSE /\ stalled' = FALSE
    /\ ever' = {} /\ always' = {} /\ low' = temp /\ high' = temp /\ moves' = 0
    /\ UNCHANGED <<hardware, configured>>

-----------------------------------------------------------------------------
(* The card: external *)

\* History goes on while an assessment is under way.
Observe ==
    IF pc = "idle" THEN UNCHANGED history
    ELSE /\ ever' = ever \union Answering' /\ always' = always \intersect Answering'
         /\ low' = (IF temp' < low THEN temp' ELSE low)
         /\ high' = (IF temp' > high THEN temp' ELSE high)
         /\ moves' = (IF where' # where THEN moves + 1 ELSE moves)

TempChanges ==
    /\ temp' \in Temps \ {temp} /\ UNCHANGED <<where, readable>>
    /\ UNCHANGED <<fixed, pc, next, snapshot, told>> /\ Observe

FileChanges(f) ==
    /\ readable' = IF f \in readable THEN readable \ {f} ELSE readable \union {f}
    /\ UNCHANGED <<where, temp, fixed, pc, next, snapshot, told>> /\ Observe

\* The driver is unloaded, loaded, or reloaded under another number.
DriverMoves ==
    /\ pc # "idle" => moves < MaxMoves
    /\ where' \in (Dirs \union {None, Gone}) \ {where} /\ UNCHANGED <<readable, temp>>
    /\ UNCHANGED <<fixed, pc, next, snapshot, told>> /\ Observe

-----------------------------------------------------------------------------
(* assess *)

Begin ==
    /\ pc = "idle" /\ pc' = "telemetry" /\ next' = 1
    /\ got' = {} /\ reading' = temp /\ limit' = 0 /\ verdict' = TRUE
    /\ assessed' = FALSE /\ stalled' = FALSE
    /\ ever' = Answering /\ always' = Answering
    /\ low' = temp /\ high' = temp /\ moves' = 0
    /\ UNCHANGED <<hardware, fixed, healthy>>

\* Variant: the loop runs past its last file.
ReadTelemetryPastEnd ==
    LET f == Telemetry[next] IN
    /\ pc = "telemetry"
    /\ got' = IF Requires(f) \subseteq got /\ Answers(f) THEN got \union {f} ELSE got
    /\ next' = next + 1
    /\ pc' = IF next < Len(Telemetry) THEN pc ELSE "temp"
    /\ UNCHANGED <<hardware, fixed, reading, limit, verdict, told, history>>

\* One best-effort read; nothing is lost of the others when it fails.
ReadTelemetry ==
    LET f == Telemetry[next] IN
    /\ pc = "telemetry"
    /\ got' = IF Requires(f) \subseteq got /\ Answers(f) THEN got \union {f} ELSE got
    /\ IF next < Len(Telemetry)
       THEN next' = next + 1 /\ UNCHANGED pc
       ELSE next' = 1 /\ pc' = "temp"
    /\ UNCHANGED <<hardware, fixed, reading, limit, verdict, told, history>>

\* Variant: an early return drops what was read.
RejectEmpty(read) == /\ verdict' = FALSE /\ pc' = "publish" /\ got' = {}

\* The early return of an unhealthy card, with what has been read so far.
Reject(read) == /\ verdict' = FALSE /\ pc' = "publish" /\ got' = read

\* temp1_input: without it the driver is taken for dead.
ReadTemp ==
    /\ pc = "temp"
    /\ IF hwmonDir = None
       THEN pc' = "beat" /\ UNCHANGED <<got, reading, verdict>>
       ELSE IF Answers("temp")
       THEN /\ pc' = "limit" /\ reading' = temp /\ got' = got \union {"temp"}
            /\ UNCHANGED verdict
       ELSE Reject(got) /\ UNCHANGED reading
    /\ UNCHANGED <<hardware, fixed, next, limit, told, history>>

\* The override, or else temp1_max when it can be read.
ReadLimit ==
    LET override == ParseTempMaxEnv(configured)
        max == IF override # 0 THEN override
               ELSE IF Answers("temp_max") THEN CardLimit ELSE 0 IN
    /\ pc = "limit" /\ limit' = max
    /\ IF TooHot(reading, max) THEN Reject(got)
       ELSE pc' = "beat" /\ UNCHANGED <<got, verdict>>
    /\ UNCHANGED <<hardware, fixed, next, reading, told, history>>

\* The heartbeat's verdict: module DeviceHealth has how it comes about.  One that
\* cannot be read is not held against the card.
ReadBeat ==
    /\ pc = "beat" /\ pc' = "publish"
    /\ stalled' \in BOOLEAN /\ (stalled' => where # Gone) /\ verdict' = ~stalled'
    /\ UNCHANGED <<hardware, fixed, next, got, reading, limit, healthy, assessed,
                   history>>

\* Variant: a card once withdrawn is not taken back.
PublishSticky ==
    /\ pc = "publish" /\ pc' = "idle"
    /\ healthy' = (healthy /\ verdict) /\ assessed' = TRUE
    /\ UNCHANGED <<hardware, fixed, next, snapshot, stalled, history>>

\* buildDeviceList stores the snapshot and the kubelet is told.
Publish ==
    /\ pc = "publish" /\ pc' = "idle"
    /\ healthy' = verdict /\ assessed' = TRUE
    /\ UNCHANGED <<hardware, fixed, next, snapshot, stalled, history>>

-----------------------------------------------------------------------------

AssessStep == Begin \/ ReadTelemetry \/ ReadTemp \/ ReadLimit \/ ReadBeat \/ Publish

Next == \/ AssessStep \/ Restart \/ TempChanges \/ DriverMoves
        \/ \E f \in Flaky : FileChanges(f)

Spec == Init /\ [][Next]_vars

\* The ticker fires again and again; hardware and kubelet are free.
FairSpec == Spec /\ WF_vars(AssessStep)

-----------------------------------------------------------------------------
(* What the metrics show of a finished assessment *)

\* Collect: link speed and width come together; the limit comes with a
\* temperature, when it is positive.
Emitted ==
    {f \in got : f = "link_speed" => "link_width" \in got}
    \union (IF "temp" \in got /\ limit > 0 THEN {"limit"} ELSE {})

-----------------------------------------------------------------------------
(* Correctness *)

\* Every variable keeps its shape.
TypeOK ==
    /\ where \in Dirs \union {None, Gone} /\ readable \subseteq Files
    /\ temp \in Temps /\ configured \in Configured /\ hwmonDir \in Dirs \union {None}
    /\ pc \in {"idle", "telemetry", "temp", "limit", "beat", "publish"}
    /\ next \in 1..Len(Telemetry)
    /\ got \subseteq Files /\ reading \in Temps /\ limit \in Int
    /\ verdict \in BOOLEAN
    /\ healthy \in BOOLEAN /\ assessed \in BOOLEAN /\ stalled \in BOOLEAN
    /\ ever \subseteq Files /\ always \subseteq Files
    /\ low \in Temps /\ high \in Temps /\ moves \in Nat

\* What a series is made of.
Parts(f) == IF f \in {"link_speed", "link_width"} THEN {"link_speed", "link_width"}
            ELSE {f} \union Requires(f)

\* A finished assessment shows every value that could be read while it lasted,
\* also when it ended early with an unhealthy card, and none that could not:
\* "an unreadable sensor leaves its Has* flag false so the metrics collector
\* omits that series rather than reporting a zero" (plugin.go:515-516).
SeriesHonest == assessed => \A f \in Files \ {"temp_max"} :
    /\ Parts(f) \subseteq always => f \in Emitted
    /\ f \in Emitted => Parts(f) \subseteq ever

\* The override is one that the multiplication leaves alone.
InRange(c) == 0 < c /\ c * Milli < Half

\* The card is at or above the limit it should be held to: the override, or else
\* the one it reports, as long as that can be read.
Above(t, known) ==
    \/ InRange(configured) /\ t >= configured * Milli
    \/ /\ ~Parsed(configured) /\ "temp_max" \in known
       /\ CardLimit > 0 /\ t >= CardLimit

\* A card at or above its limit all through an assessment is withdrawn
\* (plugin.go:456-461), also when its sensor or its driver goes meanwhile.
HeatCaught == assessed /\ hwmonDir # None /\ Above(low, always) => ~healthy

\* The card is below the limit it should be held to, if any.
Below(t) ==
    \/ InRange(configured) /\ t < configured * Milli
    \/ ~Parsed(configured) /\ (CardLimit > 0 => t < CardLimit)

\* A card whose sensor answers, that stays below its limit and whose heartbeat
\* moves is not withdrawn, however its other files come and go.
CoolNotBlamed ==
    assessed /\ ~stalled /\ (hwmonDir # None => "temp" \in always /\ Below(high))
        => healthy

\* "An unhealthy device returns to Healthy once the condition clears"
\* (CONTROL_FLOW.md:312): the driver is loaded, its sensor can be read and is
\* below the limit, and the heartbeat moves.
SensorRecovers ==
    <>[](where \notin {None, Gone} /\ "temp" \in readable /\ Below(temp) /\ ~stalled)
        => <>[]healthy

-----------------------------------------------------------------------------
(* The inductive invariant behind SeriesHonest, HeatCaught and CoolNotBlamed.  *)

\* An assessment is under way, or finished and on show.
Begun == pc # "idle" \/ assessed

\* Telemetry files whose turn has come.
Visited == IF pc = "telemetry" THEN {Telemetry[k] : k \in 1..(next - 1)}
           ELSE Files \ {"temp", "temp_max"}

\* The history is that of the present, which has not ended.
HistoryInv ==
    /\ assessed => pc = "idle" /\ (healthy <=> verdict)
    /\ pc # "idle" => /\ always \subseteq Answering /\ Answering \subseteq ever
                      /\ low <= temp /\ temp <= high
    /\ Begun /\ "temp" \in always => hwmonDir # None

\* What has been read could be, and what could be has been read.
GotInv == Begun =>
    /\ got \subseteq ever
    /\ \A f \in Visited : {f} \union Requires(f) \subseteq always => f \in got
    /\ \A f \in got : Requires(f) \subseteq got
    /\ pc \notin {"telemetry", "temp"} /\ "temp" \in always => "temp" \in got

\* A reading that has passed is below the limit; one that has not is to blame.
HeatInv ==
    /\ pc = "limit" => hwmonDir # None /\ low <= reading /\ reading <= high
    /\ pc = "beat" /\ hwmonDir # None => ~Above(low, always)
    /\ (pc = "publish" \/ assessed) /\ hwmonDir # None /\ Above(low, always)
          => ~verdict
    /\ (pc = "publish" \/ assessed) /\ ~verdict
          => stalled \/ (hwmonDir # None /\ ("temp" \notin always \/ ~Below(high)))

AssessInv == HistoryInv /\ GotInv /\ HeatInv
=============================================================================
