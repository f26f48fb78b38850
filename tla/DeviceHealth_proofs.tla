------------------------ MODULE DeviceHealth_proofs ------------------------
(* Theorems about DeviceHealth, for any number of devices and of restarts.   *)
EXTENDS DeviceHealth, TLAPS

USE DEF Devices

LEMMA Positive == N \in Nat /\ 1 \in 1..N
  BY ConstantsAssumption

\* What Judged does to a stream's control, place and list.
LEMMA JudgedType == ASSUME TypeOK, NEW s \in Streams, NEW h \in BOOLEAN,
                           Judged(s, h)
                    PROVE  /\ list' \in [Streams -> [Devices -> BOOLEAN]]
                           /\ at' \in [Streams -> Devices]
                           /\ pc' \in [Streams -> {"idle", "temp", "beat",
                                        "publish", "send", "wait", "ended"}]
<1>1. at[s] \in Devices /\ list[s] \in [Devices -> BOOLEAN]
  BY DEF TypeOK
<1>2. list' \in [Streams -> [Devices -> BOOLEAN]]
  <2>1. list' = [list EXCEPT ![s] = [list[s] EXCEPT ![at[s]] = h]]
    BY DEF Judged
  <2>2. [list[s] EXCEPT ![at[s]] = h] \in [Devices -> BOOLEAN]
    BY <1>1
  <2> QED BY <2>1, <2>2 DEF TypeOK
<1>3. at' \in [Streams -> Devices]
  <2>1. at[s] < N => at[s] + 1 \in Devices
    BY <1>1, Positive
  <2> QED BY <2>1 DEF Judged, TypeOK
<1>4. pc' \in [Streams -> {"idle", "temp", "beat", "publish", "send", "wait",
                           "ended"}]
  BY DEF Judged, TypeOK
<1> QED BY <1>2, <1>3, <1>4

\* Every variable keeps its shape.
THEOREM TypeCorrect == Spec => []TypeOK
<1>1. Init => TypeOK
  <2>1. \A d \in Devices : "runs" \in Firmware(d)
    BY DEF Firmware
  <2>2. 0 \in 0..MaxRestarts
    BY ConstantsAssumption
  <2> SUFFICES ASSUME Init PROVE TypeOK
    OBVIOUS
  <2>3. /\ fw \in [Devices -> {"runs", "frozen", "unreadable"}]
        /\ \A d \in Devices : fw[d] \in Firmware(d)
        /\ lastHeartbeats \in [Devices -> {"none", "current", "past"}]
        /\ snapshots \in [Devices -> BOOLEAN]
    BY <2>1 DEF Init
  <2>4. /\ at \in [Streams -> Devices] /\ late \in [Streams -> 0..2]
        /\ tick \in [Streams -> {"none", "empty", "full"}]
        /\ list \in [Streams -> [Devices -> BOOLEAN]]
        /\ pc \in [Streams -> {"idle", "temp", "beat", "publish", "send", "wait",
                               "ended"}]
    BY Positive DEF Init
  <2> QED BY <2>2, <2>3, <2>4 DEF Init, TypeOK
<1>2. TypeOK /\ [Next]_vars => TypeOK'
  <2> SUFFICES ASSUME TypeOK, [Next]_vars PROVE TypeOK'
    OBVIOUS
  <2> USE DEF plugin, ticker, handlers, kubelet, hardware, Go
  <2>1. ASSUME NEW d \in Devices, TempChanges(d) PROVE TypeOK'
    BY <2>1 DEF TempChanges, TypeOK, Temps
  <2>2. ASSUME NEW d \in Devices, FirmwareChanges(d) PROVE TypeOK'
    BY <2>2 DEF FirmwareChanges, TypeOK, Firmware
  <2>3. ASSUME NEW d \in Devices, Beat(d) PROVE TypeOK'
    BY <2>3 DEF Beat, TypeOK
  <2>4. ASSUME NEW s \in Streams, Open(s) PROVE TypeOK'
    BY <2>4, Positive DEF Open, TypeOK
  <2>5. ASSUME NEW s \in Streams, AssessTemp(s) PROVE TypeOK'
    <3>1. CASE Judged(s, FALSE)
      BY <2>5, <3>1, JudgedType DEF AssessTemp, TypeOK
    <3>2. CASE pc' = [pc EXCEPT ![s] = "beat"] /\ UNCHANGED <<list, at>>
      BY <2>5, <3>2 DEF AssessTemp, TypeOK
    <3> QED BY <2>5, <3>1, <3>2 DEF AssessTemp
  <2>6. ASSUME NEW s \in Streams, AssessBeat(s) PROVE TypeOK'
    <3>1. PICK h \in BOOLEAN : Judged(s, h)
      BY <2>6 DEF AssessBeat
    <3>2. lastHeartbeats' \in [Devices -> {"none", "current", "past"}]
      BY <2>6 DEF AssessBeat, TypeOK
    <3> QED BY <2>6, <3>1, <3>2, JudgedType DEF AssessBeat, TypeOK
  <2>7. ASSUME NEW s \in Streams, Publish(s) PROVE TypeOK'
    BY <2>7 DEF Publish, TypeOK
  <2>8. ASSUME NEW s \in Streams, Send(s) PROVE TypeOK'
    <3>1. list[s] \in [Devices -> BOOLEAN]
      BY DEF TypeOK
    <3>2. view' \in [Devices -> BOOLEAN] \union {None}
      BY <2>8, <3>1 DEF Send, TypeOK
    <3>3. \E p \in {"wait", "ended"} : pc' = [pc EXCEPT ![s] = p]
      BY <2>8 DEF Send
    <3>4. tick' \in [Streams -> {"none", "empty", "full"}]
      BY <2>8 DEF Send, TypeOK
    <3> QED BY <2>8, <3>2, <3>3, <3>4 DEF Send, TypeOK
  <2>9. ASSUME NEW s \in Streams, TickFires(s) PROVE TypeOK'
    <3>1. lastHeartbeats' \in [Devices -> {"none", "current", "past"}]
      BY <2>9 DEF TickFires, TypeOK
    <3> QED BY <2>9, <3>1 DEF TickFires, TypeOK
  <2>10. ASSUME NEW s \in Streams, Wake(s) PROVE TypeOK'
    BY <2>10, Positive DEF Wake, TypeOK
  <2>11. ASSUME NEW s \in Streams, SeeStop(s) PROVE TypeOK'
    BY <2>11 DEF SeeStop, TypeOK
  <2>12. CASE Stop
    BY <2>12, ConstantsAssumption DEF Stop, TypeOK
  <2>13. CASE New
    <3>1. at' \in [Streams -> Devices] /\ late' \in [Streams -> 0..2]
      BY <2>13, Positive DEF New
    <3>2. /\ lastHeartbeats' \in [Devices -> {"none", "current", "past"}]
          /\ list' \in [Streams -> [Devices -> BOOLEAN]]
          /\ tick' \in [Streams -> {"none", "empty", "full"}]
      BY <2>13 DEF New
    <3> QED BY <2>13, <3>1, <3>2 DEF New, TypeOK
  <2>14. CASE UNCHANGED vars
    BY <2>14 DEF vars, TypeOK
  <2> QED BY <2>1, <2>2, <2>3, <2>4, <2>5, <2>6, <2>7, <2>8, <2>9, <2>10, <2>11,
             <2>12, <2>13, <2>14 DEF Next, HandlerStep
<1> QED BY <1>1, <1>2, PTL DEF Spec

-----------------------------------------------------------------------------
(* A sick device is judged unhealthy in every list, whatever the handlers do.  *)

SickInv ==
    /\ \A s \in Streams : \A d \in Sick :
        /\ pc[s] \in {"publish", "send"} => ~list[s][d]
        /\ pc[s] \in {"temp", "beat"} /\ d < at[s] => ~list[s][d]
        /\ pc[s] = "beat" => at[s] # d
    /\ SickNeverOffered

\* The list of a stream that moves on to its next device keeps what it holds,
\* and the device in hand is as judged.
LEMMA JudgedList ==
    ASSUME TypeOK, NEW s \in Streams, NEW h \in BOOLEAN, Judged(s, h)
    PROVE  /\ \A u \in Streams \ {s} : /\ list'[u] = list[u] /\ at'[u] = at[u]
                                       /\ pc'[u] = pc[u]
           /\ \A d \in Devices : list'[s][d] = IF d = at[s] THEN h ELSE list[s][d]
           /\ \/ pc'[s] = "temp" /\ at'[s] = at[s] + 1
              \/ pc'[s] = "publish" /\ at[s] = N
  BY Positive DEF Judged, TypeOK

LEMMA JudgedSick ==
    ASSUME TypeOK, SickInv, NEW s \in Streams, NEW h \in BOOLEAN, Judged(s, h),
           pc[s] \in {"temp", "beat"}, at[s] \in Sick => ~h, view' = view
    PROVE  SickInv'
<1>1. Sick \subseteq Devices
  BY ConstantsAssumption
<1>2. at[s] \in Nat /\ N \in Nat /\ \A d \in Sick : d \in Nat /\ d <= N
  BY <1>1, Positive DEF TypeOK
<1>3. ASSUME NEW u \in Streams, NEW d \in Sick
      PROVE  /\ pc'[u] \in {"publish", "send"} => ~list'[u][d]
             /\ pc'[u] \in {"temp", "beat"} /\ d < at'[u] => ~list'[u][d]
             /\ pc'[u] = "beat" => at'[u] # d
  <2>1. CASE u # s
    BY <2>1, JudgedList DEF SickInv
  <2>2. CASE u = s
    <3>1. pc[s] \in {"temp", "beat"} => (d < at[s] => ~list[s][d])
      BY DEF SickInv
    <3> QED BY <1>1, <1>2, <2>2, <3>1, JudgedList
  <2> QED BY <2>1, <2>2
<1> QED BY <1>3 DEF SickInv, SickNeverOffered, Offered

\* For every number of devices, handlers and restarts, busy or not, a device
\* that is too hot or unreadable is never offered.
THEOREM SickNeverOfferedHolds == Spec => []SickNeverOffered
<1>1. Init => SickInv
  BY DEF Init, SickInv, SickNeverOffered, Offered
<1>2. TypeOK /\ SickInv /\ [Next]_vars => SickInv'
  <2> SUFFICES ASSUME TypeOK, SickInv, [Next]_vars PROVE SickInv'
    OBVIOUS
  <2> USE DEF plugin, ticker, handlers, kubelet, hardware, Go
  <2>0. Sick \subseteq Devices /\ Sick \subseteq Hwmon
    BY ConstantsAssumption
  <2>1. ASSUME NEW s \in Streams, AssessTemp(s) PROVE SickInv'
    <3>1. CASE Judged(s, FALSE)
      <4>1. view' = view /\ pc[s] \in {"temp", "beat"}
        BY <2>1 DEF AssessTemp
      <4> QED BY <2>0, <4>1, <3>1, JudgedSick DEF SickNeverOffered, Offered
    <3>2. CASE at[s] \notin Sick /\ pc' = [pc EXCEPT ![s] = "beat"]
               /\ UNCHANGED <<list, at, view>>
      BY <2>1, <3>2 DEF AssessTemp, SickInv, SickNeverOffered, Offered, TypeOK
    <3>3. \A d \in Sick : temp[d] # "ok"
      BY <2>0, ConstantsAssumption DEF TypeOK, Temps
    <3> QED BY <2>0, <2>1, <3>1, <3>2, <3>3 DEF AssessTemp
  <2>2. ASSUME NEW s \in Streams, AssessBeat(s) PROVE SickInv'
    <3>1. PICK h \in BOOLEAN : Judged(s, h)
      BY <2>2 DEF AssessBeat
    <3>2. at[s] \notin Sick /\ view' = view /\ pc[s] \in {"temp", "beat"}
      BY <2>2 DEF AssessBeat, SickInv
    <3> QED BY <3>1, <3>2, <2>0, JudgedSick
  <2>3. ASSUME NEW s \in Streams, Open(s) \/ Wake(s) PROVE SickInv'
    <3>1. /\ pc'[s] = "temp" /\ at'[s] = 1 /\ UNCHANGED <<list, view>>
          /\ \A u \in Streams \ {s} : pc'[u] = pc[u] /\ at'[u] = at[u]
      BY <2>3 DEF Open, Wake, TypeOK
    <3>2. \A d \in Sick : d \in Nat /\ ~(d < 1)
      BY <2>0, Positive
    <3> QED BY <3>1, <3>2 DEF SickInv, SickNeverOffered, Offered
  <2>4. ASSUME NEW s \in Streams, Publish(s) PROVE SickInv'
    BY <2>4 DEF Publish, SickInv, SickNeverOffered, Offered, TypeOK
  <2>5. ASSUME NEW s \in Streams, Send(s) PROVE SickInv'
    BY <2>5 DEF Send, SickInv, SickNeverOffered, Offered, TypeOK
  <2>6. ASSUME NEW s \in Streams, TickFires(s) \/ SeeStop(s) PROVE SickInv'
    BY <2>6 DEF TickFires, SeeStop, SickInv, SickNeverOffered, Offered, TypeOK
  <2>7. CASE New
    BY <2>7 DEF New, SickInv, SickNeverOffered, Offered
  <2>8. CASE UNCHANGED <<handlers, kubelet>>
    BY <2>8 DEF SickInv, SickNeverOffered, Offered
  <2> QED BY <2>1, <2>2, <2>3, <2>4, <2>5, <2>6, <2>7, <2>8
          DEF Next, HandlerStep, TempChanges, FirmwareChanges, Beat, Stop, vars
<1>3. SickInv => SickNeverOffered
  BY DEF SickInv
<1> QED BY TypeCorrect, <1>1, <1>2, <1>3, PTL DEF Spec

-----------------------------------------------------------------------------
(* What one handler guarantees: no false alarm as long as ticks come to find it *)
(* waiting, and metrics that agree with the kubelet.                            *)

AloneInv(s) ==
    /\ pc[s] # "wait" /\ tick[s] = "full" => pc[s] = "ended" \/ late[s] = 2
    /\ late[s] = 0 => \A d \in Sound :
        /\ pc[s] \in {"publish", "send"} => list[s][d]
        /\ pc[s] \in {"temp", "beat"} /\ d < at[s] => list[s][d]
        /\ pc[s] \in {"temp", "beat"} /\ d >= at[s] => lastHeartbeats[d] # "current"
        /\ pc[s] = "idle" => lastHeartbeats[d] # "current"
        /\ pc[s] = "wait" /\ tick[s] = "full" => lastHeartbeats[d] # "current"

LEMMA JudgedAlone ==
    ASSUME TypeOK, NEW s \in Streams, AloneInv(s), NEW h \in BOOLEAN, Judged(s, h),
           pc[s] \in {"temp", "beat"}, late[s] = 0 /\ at[s] \in Sound => h,
           UNCHANGED ticker,
           \A d \in Devices \ {at[s]} : lastHeartbeats'[d] = lastHeartbeats[d]
    PROVE  AloneInv(s)'
<1>1. Sound \subseteq Devices
  BY ConstantsAssumption
<1>2. at[s] \in Nat /\ N \in Nat /\ \A d \in Sound : d \in Nat /\ d <= N
  BY <1>1, Positive DEF TypeOK
<1>3. (tick[s] = "full" => late[s] = 2) /\ UNCHANGED <<tick, late>>
  BY DEF AloneInv, ticker
<1>4. ASSUME late[s] = 0, NEW d \in Sound
      PROVE  /\ pc'[s] \in {"publish", "send"} => list'[s][d]
             /\ pc'[s] \in {"temp", "beat"} /\ d < at'[s] => list'[s][d]
             /\ pc'[s] \in {"temp", "beat"} /\ d >= at'[s]
                   => lastHeartbeats'[d] # "current"
  <2>1. (d < at[s] => list[s][d]) /\ (d >= at[s] => lastHeartbeats[d] # "current")
    BY <1>4 DEF AloneInv
  <2> QED BY <1>1, <1>2, <1>4, <2>1, JudgedList
<1>5. pc'[s] \in {"temp", "publish"}
  BY DEF Judged, TypeOK
<1> QED BY <1>3, <1>4, <1>5 DEF AloneInv

LEMMA AloneStep == ASSUME NEW s \in Streams, Streams = {s},
                          TypeOK, AloneInv(s), [Next]_vars
                   PROVE  AloneInv(s)'
<1> USE DEF plugin, ticker, handlers, kubelet, hardware, Go
<1>0. /\ Sound \subseteq Devices /\ Sound \intersect Sick = {}
      /\ \A d \in Sound : temp[d] = "ok" /\ fw[d] # "frozen"
  BY ConstantsAssumption DEF TypeOK, Temps, Firmware
<1>1. CASE AssessTemp(s)
  <2>1. CASE Judged(s, FALSE)
    <3>1. at[s] \notin Sound
      BY <1>0, <1>1, <2>1, Positive DEF AssessTemp, Judged, TypeOK
    <3> QED BY <1>1, <2>1, <3>1, JudgedAlone DEF AssessTemp
  <2>2. CASE pc' = [pc EXCEPT ![s] = "beat"] /\ UNCHANGED <<list, at>>
    BY <1>1, <2>2 DEF AssessTemp, AloneInv, TypeOK
  <2> QED BY <1>1, <2>1, <2>2 DEF AssessTemp
<1>2. CASE AssessBeat(s)
  <2>1. late[s] = 0 /\ at[s] \in Sound => lastHeartbeats[at[s]] # "current"
    <3>1. at[s] >= at[s] /\ pc[s] = "beat"
      BY <1>2, Positive DEF AssessBeat, TypeOK
    <3> QED BY <3>1 DEF AloneInv
  <2>2. PICK h \in BOOLEAN : Judged(s, h) /\ (late[s] = 0 /\ at[s] \in Sound => h)
    BY <1>2, <2>1 DEF AssessBeat
  <2>3. \A d \in Devices \ {at[s]} : lastHeartbeats'[d] = lastHeartbeats[d]
    BY <1>2 DEF AssessBeat, TypeOK
  <2> QED BY <1>2, <2>2, <2>3, JudgedAlone DEF AssessBeat
<1>3. CASE Open(s) \/ Wake(s)
  BY <1>0, <1>3, Positive DEF Open, Wake, AloneInv, TypeOK
<1>4. CASE Publish(s)
  BY <1>4 DEF Publish, AloneInv, TypeOK
<1>5. CASE Send(s)
  <2>1. /\ late[s] = 2 \/ tick'[s] # "full" \/ pc'[s] = "ended"
        /\ pc'[s] \in {"wait", "ended"} /\ UNCHANGED <<late, lastHeartbeats>>
    BY <1>5 DEF Send, AloneInv, TypeOK
  <2> QED BY <2>1 DEF AloneInv
<1>6. CASE TickFires(s)
  <2>1. /\ pc' = pc /\ late'[s] \in 0..2 /\ (pc[s] # "wait" => late'[s] = 2)
        /\ late'[s] = 0 => pc[s] = "wait" /\ late[s] # 2
    BY <1>6 DEF TickFires, TypeOK
  <2>2. late'[s] = 0 => \A d \in Sound : lastHeartbeats'[d] # "current"
    BY <1>0, <1>6, <2>1 DEF TickFires, TypeOK
  <2> QED BY <2>1, <2>2 DEF AloneInv
<1>7. CASE SeeStop(s)
  BY <1>7 DEF SeeStop, AloneInv, TypeOK
<1>8. CASE New
  BY <1>0, <1>8 DEF New, AloneInv
<1>9. ASSUME NEW d \in Devices, Beat(d) PROVE AloneInv(s)'
  BY <1>9 DEF Beat, AloneInv, TypeOK
<1>10. CASE UNCHANGED <<lastHeartbeats, handlers>>
  BY <1>10 DEF AloneInv
<1> QED BY <1>1, <1>2, <1>3, <1>4, <1>5, <1>6, <1>7, <1>8, <1>9, <1>10
        DEF Next, HandlerStep, TempChanges, FirmwareChanges, Stop, vars

\* With one handler, whatever time its lists take, a sound device is reported
\* unhealthy to the kubelet or in the metrics only soon after a late tick.
THEOREM NoFalseAlarmHolds == ASSUME NEW s, Streams = {s}
                             PROVE  Spec => NoFalseAlarm
<1>1. s \in Streams
  OBVIOUS
<1>2. Init => AloneInv(s)
  BY <1>1, ConstantsAssumption DEF Init, AloneInv
<1>3. TypeOK /\ AloneInv(s) /\ [Next]_vars => AloneInv(s)'
  BY <1>1, AloneStep
<1>4. ASSUME TypeOK, AloneInv(s), [Next]_vars, OnTime, NEW d \in Sound
      PROVE  /\ snapshots[d] => snapshots'[d]
             /\ view' \notin {view, None} => view'[d]
  <2>1. /\ d \in Devices /\ late[s] = 0
        /\ pc[s] \in {"publish", "send"} => list[s][d]
    BY <1>1, <1>4, ConstantsAssumption DEF AloneInv, OnTime
  <2>2. CASE Publish(s)
    BY <2>1, <2>2 DEF Publish, Go, kubelet
  <2>3. CASE Send(s)
    BY <2>1, <2>3 DEF Send, Go, plugin
  <2>4. CASE New
    BY <2>1, <2>4 DEF New
  <2>5. CASE SeeStop(s)
    BY <2>5 DEF SeeStop, plugin, kubelet
  <2>6. CASE UNCHANGED <<snapshots, kubelet>>
    BY <2>6 DEF kubelet
  <2>7. CASE Open(s)
    BY <2>7 DEF Open, plugin
  <2> QED BY <1>1, <1>4, <2>2, <2>3, <2>4, <2>5, <2>6, <2>7
          DEF Next, HandlerStep, TempChanges, FirmwareChanges, Beat, AssessTemp,
              AssessBeat, Wake, TickFires, Stop, vars, plugin, kubelet
<1>5. TypeOK /\ AloneInv(s) /\ [Next]_vars =>
        [OnTime => \A d \in Sound : /\ snapshots[d] => snapshots'[d]
                                    /\ view' \notin {view, None} => view'[d]]_vars
  BY <1>4
<1> QED BY TypeCorrect, <1>2, <1>3, <1>5, PTL DEF Spec, NoFalseAlarm

\* A handler publishes the list it is about to send.
PublishedInv(s) == /\ pc[s] = "send" => snapshots = list[s]
                   /\ pc[s] = "wait" /\ active = s => snapshots = view

\* With one handler, the metrics agree with what the kubelet was last told.
THEOREM MetricsMatchKubeletHolds == ASSUME NEW s, Streams = {s}
                                    PROVE  Spec => []MetricsMatchKubelet
<1>1. s \in Streams
  OBVIOUS
<1>2. Init => PublishedInv(s)
  BY <1>1 DEF Init, PublishedInv
<1>3. TypeOK /\ PublishedInv(s) /\ [Next]_vars => PublishedInv(s)'
  <2> SUFFICES ASSUME TypeOK, PublishedInv(s), [Next]_vars PROVE PublishedInv(s)'
    OBVIOUS
  <2> USE <1>1 DEF plugin, ticker, handlers, kubelet, hardware, Go, TypeOK,
                   PublishedInv
  <2>1. CASE AssessTemp(s)  BY <2>1 DEF AssessTemp, Judged
  <2>2. CASE AssessBeat(s)  BY <2>2 DEF AssessBeat, Judged
  <2>3. CASE Open(s) \/ Wake(s) BY <2>3 DEF Open, Wake
  <2>4. CASE Publish(s)     BY <2>4 DEF Publish
  <2>5. CASE Send(s)        BY <2>5 DEF Send
  <2>6. CASE TickFires(s) \/ SeeStop(s) BY <2>6 DEF TickFires, SeeStop
  <2>7. CASE New            BY <2>7 DEF New
  <2>8. CASE UNCHANGED <<snapshots, handlers, kubelet>> BY <2>8
  <2> QED BY <2>1, <2>2, <2>3, <2>4, <2>5, <2>6, <2>7, <2>8
          DEF Next, HandlerStep, TempChanges, FirmwareChanges, Beat, Stop, vars
<1>4. TypeOK /\ PublishedInv(s) => MetricsMatchKubelet
  BY DEF TypeOK, PublishedInv, MetricsMatchKubelet
<1> QED BY TypeCorrect, <1>2, <1>3, <1>4, PTL DEF Spec
=============================================================================
