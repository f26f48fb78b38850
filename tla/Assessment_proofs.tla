------------------------- MODULE Assessment_proofs -------------------------
(* Theorems about Assessment, for every width of integers, every limit, every*)
(* set of temperatures, hwmon directories and files that come and go.        *)
EXTENDS Assessment, TLAPS

\* The multiplication of parseTempMaxEnv leaves an override in range alone: the
\* limit is the one asked for, and it is in force.
LEMMA OverrideFits == ASSUME NEW c \in Int, InRange(c)
                      PROVE  /\ Parsed(c) /\ ParseTempMaxEnv(c) = c * Milli
                             /\ c * Milli \in Int /\ c * Milli > 0
<1>1. Milli \in Int /\ Milli >= 1 /\ Half \in Int /\ Half > 0
  BY ConstantsAssumption
<1>2. c * Milli \in Int /\ c * Milli >= c
  BY <1>1 DEF InRange
<1>3. 0 < c /\ c * Milli < Half
  BY DEF InRange
<1>4. Parsed(c)
  BY <1>1, <1>2, <1>3 DEF Parsed
<1>5. Wrap(c * Milli) = c * Milli
  <2> DEFINE n == c * Milli
  <2>1. n \in Int /\ 0 < n /\ n < Half
    BY <1>2, <1>3
  <2> HIDE DEF n
  <2>2. (n + Half) % (2 * Half) = n + Half
    BY <1>1, <2>1
  <2>3. Wrap(n) = n
    BY <1>1, <2>1, <2>2 DEF Wrap
  <2> QED BY <2>3 DEF n
<1> QED BY <1>2, <1>3, <1>4, <1>5 DEF ParseTempMaxEnv

LEMMA LimitIsInt == ASSUME NEW c \in Int PROVE ParseTempMaxEnv(c) \in Int
  BY ConstantsAssumption DEF ParseTempMaxEnv, Parsed, Wrap

\* The order of readTelemetry.
LEMMA Order == /\ Len(Telemetry) = 13 /\ \A k \in 1..13 : Telemetry[k] \in Files
               /\ \A k \in 1..13 : Telemetry[k] \notin {"temp", "temp_max"}
               /\ Files = {Telemetry[k] : k \in 1..13} \union {"temp", "temp_max"}
  BY DEF Telemetry, Files

LEMMA RequiresBefore ==
    \A k \in 1..13 : /\ Requires(Telemetry[k]) \subseteq {Telemetry[m] : m \in 1..(k - 1)}
                     /\ \A f \in Requires(Telemetry[k]) : Requires(f) = {}
  BY DEF Telemetry, Requires

-----------------------------------------------------------------------------

\* Every variable keeps its shape.
THEOREM TypeCorrect == Spec => []TypeOK
<1>0. Len(Telemetry) = 13 /\ {"temp", "temp_max"} \subseteq Files
  BY Order
<1>1. Init => TypeOK
  <2> SUFFICES ASSUME Init PROVE TypeOK
    OBVIOUS
  <2>1. verdict \in BOOLEAN /\ healthy \in BOOLEAN /\ assessed \in BOOLEAN
        /\ stalled \in BOOLEAN
    BY DEF Init
  <2>2. next \in 1..Len(Telemetry) /\ limit \in Int
    BY <1>0 DEF Init
  <2> QED BY <2>1, <2>2 DEF Init, TypeOK, FindHwmonDir
<1>2. TypeOK /\ [Next]_vars => TypeOK'
  <2> SUFFICES ASSUME TypeOK, [Next]_vars PROVE TypeOK'
    OBVIOUS
  <2> USE DEF TypeOK, hardware, fixed, snapshot, told, history
  <2>0. Answering \subseteq Files /\ Answering' \subseteq Files
    BY DEF Answering
  <2>1. CASE Restart
    <3>1. verdict' \in BOOLEAN /\ healthy' \in BOOLEAN /\ assessed' \in BOOLEAN
          /\ stalled' \in BOOLEAN
      BY <2>1 DEF Restart
    <3>2. next' \in 1..Len(Telemetry) /\ limit' \in Int
      BY <1>0, <2>1 DEF Restart
    <3> QED BY <2>1, <3>1, <3>2 DEF Restart, FindHwmonDir
  <2>2. ASSUME Observe, UNCHANGED <<fixed, pc, next, snapshot, told>>,
               where' \in Dirs \union {None, Gone}, readable' \subseteq Files,
               temp' \in Temps
        PROVE  TypeOK'
    <3>1. /\ ever' \subseteq Files /\ always' \subseteq Files
          /\ low' \in Temps /\ high' \in Temps /\ moves' \in Nat
      <4>1. CASE pc = "idle"
        BY <2>2, <4>1 DEF Observe
      <4>2. CASE pc # "idle"
        BY <2>0, <2>2, <4>2 DEF Observe
      <4> QED BY <4>1, <4>2
    <3> QED BY <2>2, <3>1
  <2>3. CASE TempChanges
    BY <2>2, <2>3 DEF TempChanges
  <2>4. CASE DriverMoves
    BY <2>2, <2>4 DEF DriverMoves
  <2>5. ASSUME NEW f \in Flaky, FileChanges(f) PROVE TypeOK'
    <3>1. f \in Files
      BY ConstantsAssumption
    <3> QED BY <2>2, <2>5, <3>1 DEF FileChanges
  <2>6. CASE Begin
    <3>1. verdict' \in BOOLEAN /\ healthy' \in BOOLEAN /\ assessed' \in BOOLEAN
          /\ stalled' \in BOOLEAN
      BY <2>6 DEF Begin
    <3>2. next' \in 1..Len(Telemetry) /\ limit' \in Int
      BY <1>0, <2>6 DEF Begin
    <3> QED BY <2>0, <2>6, <3>1, <3>2 DEF Begin
  <2>7. CASE ReadTelemetry
    <3>1. Telemetry[next] \in Files
      BY <1>0, Order
    <3>2. next' \in 1..13 /\ pc' \in {"telemetry", "temp"}
      BY <1>0, <2>7 DEF ReadTelemetry
    <3> QED BY <1>0, <2>7, <3>1, <3>2 DEF ReadTelemetry
  <2>8. CASE ReadTemp
    BY <1>0, <2>8 DEF ReadTemp, Reject
  <2>9. CASE ReadLimit
    <3>1. limit' \in Int
      BY <2>9, LimitIsInt, ConstantsAssumption DEF ReadLimit
    <3> QED BY <2>9, <3>1 DEF ReadLimit, Reject
  <2>10. CASE ReadBeat
    BY <2>10 DEF ReadBeat
  <2>11. CASE Publish
    BY <2>11 DEF Publish
  <2>12. CASE UNCHANGED vars
    BY <2>12 DEF vars
  <2> QED BY <2>1, <2>3, <2>4, <2>5, <2>6, <2>7, <2>8, <2>9, <2>10, <2>11, <2>12
          DEF Next, AssessStep
<1> QED BY <1>1, <1>2, PTL DEF Spec

-----------------------------------------------------------------------------
(* The inductive invariant.                                                    *)

\* Limits and temperatures are integers.
LEMMA Numbers == ASSUME TypeOK
                 PROVE  /\ temp \in Int /\ reading \in Int /\ low \in Int
                        /\ high \in Int /\ configured \in Int
                        /\ configured * Milli \in Int
  BY ConstantsAssumption DEF TypeOK

\* Heat all the time is heat for a shorter time, and so is coolness.
LEMMA Monotone ==
    ASSUME TypeOK, NEW t \in Int, NEW u \in Int, t <= u,
           NEW known, NEW more, known \subseteq more
    PROVE  /\ Above(t, known) => Above(u, more)
           /\ Below(u) => Below(t)
  BY Numbers, ConstantsAssumption DEF Above, Below

\* The card changes; an assessment under way observes it.
LEMMA HardwareKeeps ==
    ASSUME TypeOK, AssessInv, Observe, temp' \in Temps,
           UNCHANGED <<fixed, pc, next, snapshot, told>>
    PROVE  AssessInv'
<1> USE DEF fixed, snapshot, told
<1>1. CASE pc = "idle"
  <2>1. UNCHANGED history
    BY <1>1 DEF Observe
  <2>2. (Above(low, always) <=> Above(low, always)')
        /\ (Below(high) <=> Below(high)')
    BY <2>1 DEF Above, Below, history
  <2> QED BY <1>1, <2>1, <2>2
          DEF AssessInv, HistoryInv, GotInv, HeatInv, Begun, Visited, history
<1>2. CASE pc # "idle"
  <2>0. /\ low \in Int /\ high \in Int /\ temp' \in Int /\ temp \in Int
        /\ reading \in Int
    BY Numbers, ConstantsAssumption
  <2>1. /\ ever' = ever \union Answering' /\ always' = always \intersect Answering'
        /\ low' = (IF temp' < low THEN temp' ELSE low)
        /\ high' = (IF temp' > high THEN temp' ELSE high)
    BY <1>2 DEF Observe
  <2>2. /\ low' <= low /\ high <= high' /\ low' <= temp' /\ temp' <= high'
        /\ low' \in Int /\ high' \in Int
    BY <2>0, <2>1
  <2>3. HistoryInv'
    BY <1>2, <2>1, <2>2 DEF AssessInv, HistoryInv, Begun
  <2>4. GotInv'
    BY <1>2, <2>1 DEF AssessInv, GotInv, Begun, Visited
  <2>5. /\ Above(low', always') => Above(low, always)
        /\ Below(high') => Below(high)
    BY <2>0, <2>1, <2>2, Monotone
  <2>6. /\ Above(low, always)' => Above(low, always)
        /\ Below(high)' => Below(high)
    BY <2>5 DEF Above, Below
  <2>7. HeatInv'
    BY <1>2, <2>0, <2>1, <2>2, <2>6 DEF AssessInv, HeatInv
  <2> QED BY <2>3, <2>4, <2>7 DEF AssessInv
<1> QED BY <1>1, <1>2

LEMMA BeginKeeps == ASSUME TypeOK, AssessInv, Begin PROVE AssessInv'
<1>1. Answering' = Answering
  BY DEF Begin, Answering, Answers, hardware, fixed
<1>2. "temp" \in Answering => hwmonDir # None
  BY DEF Answering, Answers, HwmonFiles
<1> QED BY <1>1, <1>2, Numbers
        DEF Begin, AssessInv, HistoryInv, GotInv, HeatInv, Begun, Visited,
            hardware, fixed

LEMMA ReadTelemetryKeeps ==
    ASSUME TypeOK, AssessInv, ReadTelemetry PROVE AssessInv'
<1> DEFINE f == Telemetry[next]
<1>0. /\ next \in 1..13 /\ f \in Files /\ f \notin {"temp", "temp_max"}
      /\ pc = "telemetry" /\ always \subseteq Answering /\ Answering \subseteq ever
      /\ Visited = {Telemetry[k] : k \in 1..(next - 1)}
      /\ got \subseteq ever
  BY Order DEF TypeOK, ReadTelemetry, AssessInv, HistoryInv, GotInv, Begun, Visited
<1>1. /\ got' = IF Requires(f) \subseteq got /\ Answers(f) THEN got \union {f} ELSE got
      /\ UNCHANGED <<where, readable, temp, configured, hwmonDir, reading, verdict,
                     healthy, assessed, stalled, ever, always, low, high>>
      /\ IF next < 13 THEN next' = next + 1 /\ pc' = "telemetry"
         ELSE next' = 1 /\ pc' = "temp"
  BY Order DEF ReadTelemetry, hardware, fixed, told, history
<1>2. Visited' = Visited \union {f}
  <2>1. CASE next < 13
    <3>1. 1..(next' - 1) = 1..(next - 1) \union {next} /\ pc' = "telemetry"
      BY <1>0, <1>1, <2>1
    <3> QED BY <1>0, <3>1 DEF Visited
  <2>2. CASE next = 13
    <3>1. pc' = "temp" /\ 1..13 = 1..(next - 1) \union {next}
      BY <1>0, <1>1, <2>2
    <3>2. Visited' = {Telemetry[k] : k \in 1..13}
      BY <3>1, Order DEF Visited
    <3> QED BY <1>0, <3>1, <3>2
  <2> QED BY <1>0, <2>1, <2>2
<1>3. Answering' = Answering
  BY <1>1 DEF Answering, Answers
<1>4. HistoryInv'
  BY <1>0, <1>1, <1>3 DEF AssessInv, HistoryInv, Begun
<1>5. Answers(f) <=> f \in Answering
  BY <1>0 DEF Answering
<1>6. got' \subseteq ever /\ got \subseteq got'
  BY <1>0, <1>1, <1>5
<1>7. /\ Requires(f) \subseteq Visited
      /\ \A r \in Requires(f) : Requires(r) = {}
  BY <1>0, RequiresBefore
<1>8. {f} \union Requires(f) \subseteq always => f \in got'
  <2> SUFFICES ASSUME {f} \union Requires(f) \subseteq always PROVE f \in got'
    OBVIOUS
  <2>1. \A r \in Requires(f) : r \in got
    BY <1>0, <1>7 DEF AssessInv, GotInv, Begun
  <2> QED BY <1>0, <1>1, <1>5, <2>1
<1>9. \A g \in Visited : {g} \union Requires(g) \subseteq always => g \in got'
  BY <1>0, <1>6 DEF AssessInv, GotInv, Begun
<1>10. \A g \in got' : Requires(g) \subseteq got'
  <2>1. \A g \in got : Requires(g) \subseteq got
    BY <1>0 DEF AssessInv, GotInv, Begun
  <2> QED BY <1>1, <1>6, <2>1
<1>11. GotInv'
  <2>1. UNCHANGED <<ever, always>> /\ pc' \in {"telemetry", "temp"}
    BY <1>0, <1>1
  <2> QED BY <1>2, <1>6, <1>8, <1>9, <1>10, <2>1 DEF GotInv
<1>12. HeatInv'
  BY <1>0, <1>1 DEF AssessInv, HistoryInv, HeatInv
<1> QED BY <1>4, <1>11, <1>12 DEF AssessInv

\* A read leaves the card and the history alone.
LEMMA SameCard ==
    ASSUME UNCHANGED <<hardware, fixed, history>>
    PROVE  /\ Answering' = Answering
           /\ UNCHANGED <<where, readable, temp, configured, hwmonDir, ever, always,
                          low, high>>
           /\ Above(low, always)' <=> Above(low, always)
           /\ Below(high)' <=> Below(high)
<1>1. UNCHANGED <<where, readable, temp, configured, hwmonDir, ever, always, low, high>>
  BY DEF hardware, fixed, history
<1>2. Answering' = Answering
  BY <1>1 DEF Answering, Answers
<1>3. Above(low, always)' <=> Above(low, always)
  BY <1>1 DEF Above
<1>4. Below(high)' <=> Below(high)
  BY <1>1 DEF Below
<1> QED BY <1>1, <1>2, <1>3, <1>4

LEMMA ReadTempKeeps == ASSUME TypeOK, AssessInv, ReadTemp PROVE AssessInv'
<1>0. /\ pc = "temp" /\ UNCHANGED <<hardware, fixed, next, limit, told, history>>
      /\ "temp" \in Files /\ Requires("temp") = {} /\ temp \in Temps
      /\ always \subseteq Answering /\ Answering \subseteq ever
      /\ low <= temp /\ temp <= high /\ ~assessed
      /\ got \subseteq ever /\ \A f \in got : Requires(f) \subseteq got
      /\ \A f \in Visited : {f} \union Requires(f) \subseteq always => f \in got
      /\ "temp" \in always => hwmonDir # None
  BY DEF ReadTemp, AssessInv, HistoryInv, GotInv, Begun, Requires, Files, TypeOK
<1>1. /\ Answering' = Answering
      /\ UNCHANGED <<temp, hwmonDir, ever, always, low, high, assessed, stalled, healthy>>
      /\ Above(low, always)' <=> Above(low, always)
      /\ Below(high)' <=> Below(high)
  BY <1>0, SameCard DEF told
<1>2. /\ pc' \in {"limit", "beat", "publish"} /\ got \subseteq got'
      /\ got' \subseteq got \union {"temp"}
      /\ "temp" \in got' => "temp" \in got \/ "temp" \in Answering
      /\ "temp" \in always => "temp" \in got'
      /\ pc' = "limit" => reading' = temp /\ hwmonDir # None
      /\ pc' = "beat" => hwmonDir = None
      /\ pc' = "publish" => ~verdict' /\ hwmonDir # None /\ "temp" \notin always
  BY <1>0 DEF ReadTemp, Reject, Answering
<1>3. Visited' = Visited
  BY <1>0, <1>2 DEF Visited
<1>4. HistoryInv'
  BY <1>0, <1>1, <1>2 DEF HistoryInv, Begun
<1>5. GotInv'
  BY <1>0, <1>1, <1>2, <1>3 DEF GotInv
<1>6. HeatInv'
  BY <1>0, <1>1, <1>2 DEF HeatInv
<1> QED BY <1>4, <1>5, <1>6 DEF AssessInv

\* Which reading is too hot: every one at or above the limit that the card should
\* be held to, and none that is below it.
LEMMA LimitIsRight ==
    ASSUME NEW c \in Int, NEW t \in Int, NEW known,
           NEW max, max = IF ParseTempMaxEnv(c) # 0 THEN ParseTempMaxEnv(c)
                          ELSE IF known THEN CardLimit ELSE 0
    PROVE  /\ InRange(c) => (TooHot(t, max) <=> t >= c * Milli)
           /\ ~Parsed(c) => (TooHot(t, max) <=> known /\ CardLimit > 0 /\ t >= CardLimit)
<1>1. CardLimit \in Int
  BY ConstantsAssumption
<1>2. ASSUME InRange(c) PROVE TooHot(t, max) <=> t >= c * Milli
  <2>1. ParseTempMaxEnv(c) = c * Milli /\ c * Milli \in Int /\ c * Milli > 0
    BY <1>2, OverrideFits
  <2>2. max = c * Milli
    BY <2>1
  <2> QED BY <2>1, <2>2 DEF TooHot
<1>3. ASSUME ~Parsed(c)
      PROVE  TooHot(t, max) <=> known /\ CardLimit > 0 /\ t >= CardLimit
  <2>1. ParseTempMaxEnv(c) = 0
    BY <1>3 DEF ParseTempMaxEnv
  <2>2. CASE known
    BY <1>1, <2>1, <2>2 DEF TooHot
  <2>3. CASE ~known
    BY <2>1, <2>3 DEF TooHot
  <2> QED BY <2>2, <2>3
<1> QED BY <1>2, <1>3

LEMMA ReadLimitKeeps == ASSUME TypeOK, AssessInv, ReadLimit PROVE AssessInv'
<1>0. /\ pc = "limit"
      /\ UNCHANGED <<hardware, fixed, next, reading, told, history>>
      /\ always \subseteq Answering /\ Answering \subseteq ever
      /\ low <= temp /\ temp <= high /\ low <= reading /\ reading <= high
      /\ ~assessed /\ got \subseteq ever /\ \A f \in got : Requires(f) \subseteq got
      /\ \A f \in Visited : {f} \union Requires(f) \subseteq always => f \in got
      /\ "temp" \in always => hwmonDir # None /\ "temp" \in got
  BY DEF ReadLimit, AssessInv, HistoryInv, GotInv, HeatInv, Begun
<1>1. /\ Answering' = Answering
      /\ UNCHANGED <<temp, hwmonDir, ever, always, low, high, assessed, stalled, healthy>>
      /\ Above(low, always)' <=> Above(low, always)
      /\ Below(high)' <=> Below(high)
  BY <1>0, SameCard DEF told
<1>2. /\ got' = got
      /\ IF TooHot(reading, limit') THEN verdict' = FALSE /\ pc' = "publish"
         ELSE pc' = "beat"
  BY DEF ReadLimit, Reject
<1>n. /\ reading \in Int /\ low \in Int /\ high \in Int /\ configured \in Int
      /\ configured * Milli \in Int /\ CardLimit \in Int
  BY Numbers, ConstantsAssumption
<1>3. /\ InRange(configured)
         => (TooHot(reading, limit') <=> reading >= configured * Milli)
      /\ ~Parsed(configured)
         => (TooHot(reading, limit')
             <=> Answers("temp_max") /\ CardLimit > 0 /\ reading >= CardLimit)
  <2>1. limit' = IF ParseTempMaxEnv(configured) # 0 THEN ParseTempMaxEnv(configured)
                 ELSE IF Answers("temp_max") THEN CardLimit ELSE 0
    BY DEF ReadLimit
  <2> QED BY <1>n, <2>1, LimitIsRight
<1>4. "temp_max" \in always => Answers("temp_max")
  BY <1>0 DEF Answering
<1>5. Above(low, always) => TooHot(reading, limit')
  BY <1>0, <1>n, <1>3, <1>4 DEF Above
<1>6. TooHot(reading, limit') => ~Below(high)
  BY <1>0, <1>n, <1>3 DEF Below
<1>7. TooHot(reading, limit') => hwmonDir # None
  BY <1>0 DEF AssessInv, HeatInv
<1>8. Visited' = Visited
  BY <1>0, <1>2 DEF Visited
<1>9. HistoryInv'
  BY <1>0, <1>1, <1>2 DEF HistoryInv, Begun
<1>10. GotInv'
  BY <1>0, <1>1, <1>2, <1>8 DEF GotInv
<1>11. HeatInv'
  BY <1>0, <1>1, <1>2, <1>5, <1>6, <1>7 DEF HeatInv
<1> QED BY <1>9, <1>10, <1>11 DEF AssessInv

LEMMA ReadBeatKeeps == ASSUME TypeOK, AssessInv, ReadBeat PROVE AssessInv'
<1>0. /\ pc = "beat" /\ pc' = "publish" /\ (verdict' <=> ~stalled')
      /\ UNCHANGED <<hardware, fixed, got, healthy, assessed, history>>
  BY DEF ReadBeat
<1>1. /\ Answering' = Answering
      /\ UNCHANGED <<temp, hwmonDir, ever, always, low, high, got>>
      /\ Above(low, always)' <=> Above(low, always)
      /\ Below(high)' <=> Below(high)
  BY <1>0, SameCard
<1>2. ~assessed /\ ~assessed'
  BY <1>0 DEF AssessInv, HistoryInv
<1>3. hwmonDir # None => ~Above(low, always)
  BY <1>0 DEF AssessInv, HeatInv
<1>4. Visited' = Visited
  BY <1>0 DEF Visited
<1>5. HistoryInv'
  BY <1>0, <1>1, <1>2 DEF AssessInv, HistoryInv, Begun
<1>6. GotInv'
  BY <1>0, <1>1, <1>2, <1>4 DEF AssessInv, GotInv, Begun
<1>7. HeatInv'
  BY <1>0, <1>1, <1>2, <1>3 DEF HeatInv
<1> QED BY <1>5, <1>6, <1>7 DEF AssessInv

LEMMA PublishKeeps == ASSUME TypeOK, AssessInv, Publish PROVE AssessInv'
<1>0. /\ pc = "publish" /\ pc' = "idle" /\ (healthy' <=> verdict) /\ assessed'
      /\ UNCHANGED <<hardware, fixed, got, verdict, stalled, history>>
  BY DEF Publish, snapshot
<1>1. /\ Answering' = Answering
      /\ UNCHANGED <<temp, hwmonDir, ever, always, low, high>>
      /\ Above(low, always)' <=> Above(low, always)
      /\ Below(high)' <=> Below(high)
  BY <1>0, SameCard
<1>2. Visited' = Visited
  BY <1>0 DEF Visited
<1>3. HistoryInv'
  BY <1>0, <1>1 DEF AssessInv, HistoryInv, Begun
<1>4. GotInv'
  BY <1>0, <1>1, <1>2 DEF AssessInv, GotInv, Begun
<1>5. HeatInv'
  BY <1>0, <1>1 DEF AssessInv, HeatInv
<1> QED BY <1>3, <1>4, <1>5 DEF AssessInv

LEMMA IdleIsFine == ASSUME pc = "idle", ~assessed PROVE AssessInv
  BY DEF AssessInv, HistoryInv, GotInv, HeatInv, Begun

LEMMA StepKeeps == ASSUME TypeOK, AssessInv, TypeOK', [Next]_vars PROVE AssessInv'
<1>1. CASE Restart
  <2>1. pc' = "idle" /\ ~assessed'
    BY <1>1 DEF Restart
  <2> QED BY <2>1 DEF AssessInv, HistoryInv, GotInv, HeatInv, Begun
<1>2. CASE TempChanges \/ DriverMoves \/ \E f \in Flaky : FileChanges(f)
  <2>1. Observe /\ UNCHANGED <<fixed, pc, next, snapshot, told>>
    BY <1>2 DEF TempChanges, DriverMoves, FileChanges
  <2>2. temp' \in Temps
    BY DEF TypeOK
  <2> QED BY <2>1, <2>2, HardwareKeeps
<1>3. CASE AssessStep
  BY <1>3, BeginKeeps, ReadTelemetryKeeps, ReadTempKeeps, ReadLimitKeeps,
     ReadBeatKeeps, PublishKeeps DEF AssessStep
<1>4. CASE UNCHANGED vars
  <2>1. /\ UNCHANGED <<hardware, fixed, snapshot, told, history>>
        /\ UNCHANGED <<pc, next>>
    BY <1>4 DEF vars
  <2>2. /\ Answering' = Answering
        /\ UNCHANGED <<temp, hwmonDir, ever, always, low, high>>
        /\ Above(low, always)' <=> Above(low, always)
        /\ Below(high)' <=> Below(high)
    BY <2>1, SameCard
  <2>3. Visited' = Visited /\ UNCHANGED <<pc, got, reading, limit, verdict, healthy,
                                         assessed, stalled>>
    BY <2>1 DEF Visited, snapshot, told
  <2> QED BY <2>2, <2>3 DEF AssessInv, HistoryInv, GotInv, HeatInv, Begun
<1> QED BY <1>1, <1>2, <1>3, <1>4 DEF Next

\* The history that an assessment keeps, what it has read and what it has found
\* too hot agree at every step, whatever the card does meanwhile.
THEOREM AssessSafe == Spec => []AssessInv
<1>1. Init => AssessInv
  BY IdleIsFine DEF Init
<1>2. AssessInv /\ TypeOK /\ TypeOK' /\ [Next]_vars => AssessInv'
  BY StepKeeps
<1> QED BY <1>1, <1>2, TypeCorrect, PTL DEF Spec

-----------------------------------------------------------------------------

\* Metrics never show a value that could not be read, and show every one that
\* could, of a card that is withdrawn too.
THEOREM SeriesHonestHolds == Spec => []SeriesHonest
<1>1. AssessInv => SeriesHonest
  <2> SUFFICES ASSUME AssessInv, assessed, NEW f \in Files \ {"temp_max"}
               PROVE  /\ Parts(f) \subseteq always => f \in Emitted
                      /\ f \in Emitted => Parts(f) \subseteq ever
    BY DEF SeriesHonest
  <2>1. /\ got \subseteq ever /\ \A g \in got : Requires(g) \subseteq got
        /\ \A g \in Files \ {"temp", "temp_max"} :
              {g} \union Requires(g) \subseteq always => g \in got
        /\ "temp" \in always => "temp" \in got
    BY DEF AssessInv, HistoryInv, GotInv, Begun, Visited
  <2>2. /\ f # "limit" /\ "link_speed" \in Files \ {"temp", "temp_max"}
        /\ "link_width" \in Files \ {"temp", "temp_max"}
    BY DEF Files, Telemetry
  <2>3. f \in Emitted <=> f \in got /\ (f = "link_speed" => "link_width" \in got)
    BY <2>2 DEF Emitted
  <2>4. Requires("link_speed") = {} /\ Requires("link_width") = {"link_speed"}
        /\ Requires("temp") = {}
    BY DEF Requires
  <2>5. CASE f \in {"link_speed", "link_width"}
    BY <2>1, <2>2, <2>3, <2>4, <2>5 DEF Parts
  <2>6. CASE f \notin {"link_speed", "link_width"}
    <3>1. Parts(f) = {f} \union Requires(f)
      BY <2>6 DEF Parts
    <3> QED BY <2>1, <2>3, <2>4, <2>6, <3>1
  <2> QED BY <2>5, <2>6
<1> QED BY <1>1, AssessSafe, PTL

\* A card at or above its limit all through an assessment is withdrawn.
THEOREM HeatCaughtHolds == Spec => []HeatCaught
<1>1. AssessInv => HeatCaught
  BY DEF AssessInv, HistoryInv, HeatInv, HeatCaught
<1> QED BY <1>1, AssessSafe, PTL

\* A card that was cool and whose sensor answered all through an assessment is
\* withdrawn for a stalled heartbeat only.
THEOREM CoolNotBlamedHolds == Spec => []CoolNotBlamed
<1>1. AssessInv => CoolNotBlamed
  BY DEF AssessInv, HistoryInv, HeatInv, CoolNotBlamed
<1> QED BY <1>1, AssessSafe, PTL
=============================================================================
