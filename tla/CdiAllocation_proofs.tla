------------------------ MODULE CdiAllocation_proofs ------------------------
(* Theorems about CdiAllocation, for every set of cards and classes and all   *)
(* bounds.                                                                    *)
EXTENDS CdiAllocation, SequenceTheorems, FiniteSetTheorems, TLAPS

LEMMA FoundType == ASSUME TypeOK, NEW c \in Classes
                   PROVE  Found(c) \in Contents /\ Found(c) \subseteq Ids
  BY DEF Found, Contents

\* The answers to a well-formed request are well-formed.
LEMMA AnswersType == ASSUME TypeOK, NEW c \in Classes
                     PROVE  /\ Len(asked[c]) \in Nat
                            /\ Answers(c) \subseteq [class : Classes,
                                                ids : SUBSET Ids, gen : Nat]
<1>1. asked[c] \in Seq(SUBSET Ids) /\ gen \in Nat
  BY DEF TypeOK, Requests
<1>2. \A k \in 1..Len(asked[c]) : asked[c][k] \in SUBSET Ids
  BY <1>1
<1> QED BY <1>1, <1>2 DEF Answers

\* Every variable keeps its shape along every behaviour.
THEOREM TypeCorrect == Spec => []TypeOK
<1> USE DEF TypeOK
<1>1. Init => TypeOK
  <2> SUFFICES ASSUME Init PROVE TypeOK
    OBVIOUS
  <2>1. <<>> \in Requests
    BY DEF Requests
  <2> QED BY <2>1 DEF Init, Nowhere, ZeroCounts, Contents
<1>2. TypeOK /\ [Next]_vars => TypeOK'
  <2> SUFFICES ASSUME TypeOK, [Next]_vars PROVE TypeOK'
    OBVIOUS
  <2>0. <<>> \in Requests
    BY DEF Requests
  <2> USE DEF Go, Fault, start, files, plugin, counts, kubelet, bounds
  <2>1. ASSUME NEW id \in Ids, Scan(id) PROVE TypeOK'
    BY <2>1 DEF Scan
  <2>2. CASE NothingFound \/ ScanDone \/ SpecsDone \/ Started
    BY <2>2 DEF NothingFound, ScanDone, SpecsDone, Started, FoundClasses
  <2>3. ASSUME NEW c \in Classes, OpenTmp(c) PROVE TypeOK'
    <3>1. Torn \in Contents
      BY DEF Contents
    <3> QED BY <2>3, <3>1 DEF OpenTmp
  <2>4. CASE FillTmp
    <3>1. tmp' \in [Classes -> Contents]
      BY <2>4, FoundType DEF FillTmp
    <3> QED BY <2>4, <3>1 DEF FillTmp
  <2>5. CASE Rename
    <3>1. None \in Contents
      BY DEF Contents
    <3> QED BY <2>5, <3>1 DEF Rename
  <2>6. ASSUME WriteFails \/ \E c \in Classes : DirectoryFails(c) PROVE TypeOK'
    BY <2>6 DEF WriteFails, DirectoryFails
  <2>7. ASSUME NEW c \in Classes, Create(c) PROVE TypeOK'
    BY <2>7, FoundType DEF Create, NewCounts
  <2>8. CASE KubeletRestart
    BY <2>0, <2>8 DEF KubeletRestart, Nowhere
  <2>9. ASSUME NEW c \in Classes, StopPlugin(c) PROVE TypeOK'
    BY <2>9 DEF StopPlugin
  <2>10. CASE StoppedAll
    BY <2>10 DEF StoppedAll
  <2>11. CASE Crash
    BY <2>11 DEF Crash, Nowhere
  <2>12. CASE ProcessStart
    <3>1. /\ pc' = "scan" /\ up' = FALSE /\ left' = Ids /\ grouped' = {}
          /\ failed' = {} /\ todo' = {} /\ cur' = None /\ gen' \in Nat
      BY <2>12 DEF ProcessStart
    <3>2. UNCHANGED <<card, useCDI, tmp, spec, devices, counts, held, asked,
                      answers, changes, faults, asks>>
      BY <2>12 DEF ProcessStart
    <3> QED BY <3>1, <3>2
  <2>13. ASSUME NEW c \in Classes, Report(c) PROVE TypeOK'
    BY <2>13 DEF Report
  <2>14. ASSUME NEW c \in Classes, AskFails(c) PROVE TypeOK'
    BY <2>0, <2>14 DEF AskFails
  <2>15. ASSUME NEW c \in Classes, NEW ids1 \in SUBSET Ids, NEW ids2 \in SUBSET Ids,
                Ask(c, ids1, ids2)
         PROVE  TypeOK'
    <3>1. <<ids1>> \in Requests /\ <<ids1, ids2>> \in Requests
      BY DEF Requests
    <3>2. asked' \in [Classes -> Requests]
      BY <2>15, <3>1 DEF Ask
    <3> QED BY <2>15, <3>2 DEF Ask
  <2>16. ASSUME NEW c \in Classes, Allocate(c) PROVE TypeOK'
    <3>1. Len(asked[c]) \in Nat
      BY AnswersType
    <3>2. answers' \subseteq [class : Classes, ids : SUBSET Ids, gen : Nat]
      BY <2>16, AnswersType DEF Allocate
    <3>3. allocations' \in [Classes -> Nat]
      <4>1. allocations' \in {allocations,
                             [allocations EXCEPT ![c] = @ + Len(asked[c])]}
        BY <2>16 DEF Allocate
      <4>2. allocations[c] + Len(asked[c]) \in Nat
        BY <3>1
      <4> QED BY <4>1, <4>2
    <3>4. asked' \in [Classes -> Requests]
      BY <2>0, <2>16 DEF Allocate
    <3>6. served' \in [Classes -> Nat]
      <4>1. served' \in {served, [served EXCEPT ![c] = @ + 1]}
        BY <2>16 DEF Allocate
      <4> QED BY <4>1
    <3>5. UNCHANGED <<card, useCDI, pc, up, left, grouped, todo, cur, failed, gen,
                      tmp, spec, devices, started, held, changes, faults, asks>>
      BY <2>16 DEF Allocate
    <3> QED BY <3>2, <3>3, <3>4, <3>5, <3>6
  <2>17. ASSUME NEW a \in answers, StartContainer(a) PROVE TypeOK'
    BY <2>17 DEF StartContainer
  <2>18. ASSUME NEW id \in Ids, HardwareChanges(id) PROVE TypeOK'
    BY <2>18 DEF HardwareChanges
  <2>19. CASE UNCHANGED vars
    BY <2>19 DEF vars
  <2> QED
    BY <2>1, <2>2, <2>3, <2>4, <2>5, <2>6, <2>7, <2>8, <2>9, <2>10, <2>11, <2>12,
       <2>13, <2>14, <2>15, <2>16, <2>17, <2>18, <2>19
    DEF Next, StartPlugins, Restart, Kubelet
<1> QED BY <1>1, <1>2, PTL DEF Spec

-----------------------------------------------------------------------------
(* AllocationInv is inductive, one part after the other.                       *)

\* What has been found changes when cards are scanned, and then only.
LEMMA FoundSame == ASSUME UNCHANGED grouped
                   PROVE  /\ FoundClasses' = FoundClasses
                          /\ FoundClasses \subseteq Classes
                          /\ \A c \in Classes : Found(c)' = Found(c)
  BY DEF FoundClasses, Found

LEMMA FoundStep == ASSUME TypeOK, FoundInv, [Next]_vars PROVE FoundInv'
<1> USE DEF TypeOK, Go, start, files, plugin, kubelet, bounds, Serving
<1>1. ASSUME NEW id \in Ids, Scan(id) PROVE FoundInv'
  <2>1. \A c \in Classes : devices[c] = {} /\ devices'[c] = {}
    BY <1>1 DEF Scan, FoundInv
  <2>2. \A c \in Classes : <<c, id>> \notin grouped
    BY <1>1 DEF Scan, FoundInv
  <2>3. \A c \in Classes, d \in Ids :
          <<c, d>> \in grouped' <=> <<c, d>> \in grouped \/ (c = card[id] /\ d = id)
    BY <1>1, ConstantsAssumption DEF Scan
  <2>4. left' = left \ {id} /\ pc = "scan"
    BY <1>1 DEF Scan
  <2>5. \A c \in Classes : \A d \in left' : <<c, d>> \notin grouped'
    BY <2>3, <2>4 DEF FoundInv
  <2>6. \A c, d \in Classes : \A e \in Ids :
          <<c, e>> \in grouped' /\ <<d, e>> \in grouped' => c = d
    BY <2>2, <2>3 DEF FoundInv
  <2> QED BY <2>1, <2>5, <2>6 DEF FoundInv
<1>2. CASE NothingFound \/ ScanDone \/ FillTmp \/ Rename \/ WriteFails \/ SpecsDone
           \/ \E c \in Classes : OpenTmp(c) \/ DirectoryFails(c)
  <2>1. /\ UNCHANGED <<grouped, devices>>
        /\ pc' # "scan" /\ pc \notin Serving
    BY <1>2 DEF NothingFound, ScanDone, FillTmp, Rename, WriteFails, SpecsDone,
                OpenTmp, DirectoryFails
  <2> QED BY <2>1, FoundSame DEF FoundInv
<1>3. ASSUME NEW c \in Classes, Create(c) PROVE FoundInv'
  <2>1. /\ pc = "plugins" /\ UNCHANGED <<grouped, pc>>
        /\ \A d \in Classes : devices'[d] = IF d = c THEN Found(c) ELSE devices[d]
    BY <1>3 DEF Create
  <2> QED BY <2>1, FoundSame DEF FoundInv
<1>4. CASE Started \/ KubeletRestart
  <2>1. UNCHANGED <<grouped, devices>> /\ pc' \in Serving /\ pc' # "scan"
    BY <1>4 DEF Started, KubeletRestart
  <2> QED BY <2>1, FoundSame DEF FoundInv
<1>5. ASSUME NEW c \in Classes, StopPlugin(c) PROVE FoundInv'
  <2>1. /\ pc = "stop" /\ UNCHANGED <<grouped, pc>>
        /\ \A d \in Classes : devices'[d] = IF d = c THEN {} ELSE devices[d]
    BY <1>5 DEF StopPlugin
  <2> QED BY <2>1, FoundSame DEF FoundInv
<1>6. CASE StoppedAll \/ ProcessStart
  <2>1. grouped' = {} /\ \A c \in Classes : devices'[c] = {}
    BY <1>6 DEF StoppedAll, ProcessStart, Nowhere, FoundInv
  <2> QED BY <2>1 DEF FoundInv
<1>7. CASE Crash
  <2>1. UNCHANGED grouped /\ pc' = "off" /\ \A c \in Classes : devices'[c] = {}
    BY <1>7 DEF Crash, Nowhere
  <2> QED BY <2>1 DEF FoundInv
<1>8. CASE UNCHANGED <<pc, left, grouped, devices>>
  BY <1>8, FoundSame DEF FoundInv
<1> QED
  BY <1>1, <1>2, <1>3, <1>4, <1>5, <1>6, <1>7, <1>8
  DEF Next, StartPlugins, Restart, Kubelet, Report, AskFails, Ask, Allocate,
      StartContainer, HardwareChanges, vars

LEMMA SpecStep == ASSUME TypeOK, SpecInv, [Next]_vars PROVE SpecInv'
<1> USE DEF TypeOK, Go, start, files, plugin, kubelet, bounds, Serving
<1>1. ASSUME pc' \in {"scan", "off"} PROVE SpecInv'
  BY <1>1 DEF SpecInv
<1>2. CASE NothingFound
  BY <1>2 DEF NothingFound, SpecInv, FoundClasses, Found
<1>3. CASE ScanDone
  BY <1>3, FoundSame DEF ScanDone, SpecInv
<1>4. ASSUME NEW c \in Classes, OpenTmp(c) PROVE SpecInv'
  BY <1>4, FoundSame DEF OpenTmp, SpecInv
<1>5. CASE FillTmp
  <2>1. cur \in Classes /\ Found(cur)' = Found(cur) /\ tmp'[cur] = Found(cur)
    BY <1>5, FoundSame DEF FillTmp
  <2> QED BY <1>5, <2>1, FoundSame DEF FillTmp, SpecInv
<1>6. CASE Rename
  <2>1. /\ pc = "rename" /\ pc' = "specs" /\ UNCHANGED <<grouped, todo, failed, useCDI>>
        /\ \A c \in Classes : spec'[c] = IF c = cur THEN Found(c) ELSE spec[c]
    BY <1>6 DEF Rename, SpecInv
  <2> QED BY <2>1, FoundSame DEF SpecInv, FoundClasses
<1>7. CASE WriteFails
  BY <1>7, FoundSame DEF WriteFails, SpecInv
<1>8. CASE SpecsDone
  BY <1>8, FoundSame DEF SpecsDone, SpecInv
<1>9. CASE UNCHANGED <<useCDI, cur, failed, grouped, spec>>
           /\ pc \in Serving /\ pc' \in Serving
  BY <1>9, FoundSame DEF SpecInv
<1>10. CASE UNCHANGED <<useCDI, pc, cur, failed, grouped, tmp, spec, todo>>
  BY <1>10, FoundSame DEF SpecInv
<1>11. ASSUME NEW c \in Classes, DirectoryFails(c) PROVE SpecInv'
  BY <1>11, FoundSame DEF DirectoryFails, SpecInv
<1> QED
  BY <1>1, <1>2, <1>3, <1>4, <1>5, <1>6, <1>7, <1>8, <1>9, <1>10,
     <1>11
  DEF Next, StartPlugins, Restart, Kubelet, Scan, Create, Started, KubeletRestart,
      StopPlugin, StoppedAll, Crash, ProcessStart, Report, AskFails, Ask, Allocate,
      StartContainer, HardwareChanges, vars

LEMMA AnswerStep == ASSUME TypeOK, FoundInv, AnswerInv, [Next]_vars
                    PROVE  AnswerInv'
<1> USE DEF TypeOK, Go, start, files, plugin, kubelet, bounds, Serving, Starting
<1>1. ASSUME NEW id \in Ids, Scan(id) PROVE AnswerInv'
  BY <1>1 DEF Scan, AnswerInv
<1>2. CASE /\ UNCHANGED <<gen, grouped>> /\ answers' \subseteq answers
           /\ pc' \in Starting => pc \in Starting
  BY <1>2, FoundSame DEF AnswerInv
<1>3. CASE gen' = gen + 1 /\ UNCHANGED answers
  BY <1>3 DEF AnswerInv
<1>4. ASSUME NEW c \in Classes, Allocate(c) PROVE AnswerInv'
  <2>1. UNCHANGED <<pc, gen, grouped>> /\ pc \notin Starting /\ devices[c] = Found(c)
    BY <1>4 DEF Allocate, FoundInv
  <2>2. \A a \in answers' : \/ a \in answers
                            \/ a.gen = gen /\ a.class = c /\ a.ids \subseteq devices[c]
    <3>1. ASSUME \A k \in 1..Len(asked[c]) : asked[c][k] \subseteq devices[c],
                 NEW a \in Answers(c)
          PROVE  a.gen = gen /\ a.class = c /\ a.ids \subseteq devices[c]
      <4>1. PICK k \in 1..Len(asked[c]) :
              a = [class |-> c, ids |-> asked[c][k], gen |-> gen]
        BY <3>1 DEF Answers
      <4> QED BY <3>1, <4>1
    <3>2. \/ answers' = answers
          \/ /\ answers' = answers \union Answers(c)
             /\ \A k \in 1..Len(asked[c]) : asked[c][k] \subseteq devices[c]
      BY <1>4 DEF Allocate
    <3> QED BY <3>1, <3>2
  <2>3. \A a \in answers' : a.gen <= gen /\ (a.gen = gen => a.ids \subseteq Found(a.class))
    BY <2>1, <2>2 DEF AnswerInv
  <2>4. \A d : Found(d)' = Found(d)
    BY <2>1 DEF Found
  <2> QED BY <2>1, <2>3, <2>4 DEF AnswerInv
<1>5. CASE StartPlugins \/ Restart \/ Kubelet \/ Crash \/ ProcessStart
  BY <1>1, <1>2, <1>3, <1>5
  DEF StartPlugins, Restart, Kubelet, NothingFound, ScanDone, OpenTmp, FillTmp, Rename,
      WriteFails, DirectoryFails, SpecsDone, Create, Started, KubeletRestart,
      StopPlugin, StoppedAll,
      Crash, ProcessStart, Report, AskFails, Ask
<1> QED
  BY <1>2, <1>4, <1>5 DEF Next, StartContainer, HardwareChanges, vars

\* The containers of a request stay apart from each other and from those that
\* have been answered.
LEMMA AskStep == ASSUME TypeOK, AskInv, [Next]_vars PROVE AskInv'
<1> USE DEF TypeOK, Requests
<1>1. ASSUME answers' \subseteq answers,
             \A c \in Classes : asked'[c] \in {asked[c], <<>>}
      PROVE  AskInv'
  BY <1>1 DEF AskInv
<1>2. ASSUME NEW c \in Classes, NEW ids1 \in SUBSET Ids, NEW ids2 \in SUBSET Ids,
             Ask(c, ids1, ids2)
      PROVE  AskInv'
  <2>1. /\ UNCHANGED answers /\ ids1 # {} /\ ids1 \intersect ids2 = {}
        /\ \A a \in answers : a.class = c =>
              ids1 \intersect a.ids = {} /\ ids2 \intersect a.ids = {}
    BY <1>2 DEF Ask, Free
  <2>2. ASSUME NEW d \in Classes, NEW k \in 1..Len(asked'[d])
        PROVE  /\ asked'[d][k] # {}
               /\ \A l \in 1..Len(asked'[d]) :
                     k # l => asked'[d][k] \intersect asked'[d][l] = {}
               /\ \A a \in answers : a.class = d => asked'[d][k] \intersect a.ids = {}
    <3>1. CASE d # c
      <4>1. asked'[d] = asked[d]
        BY <1>2, <3>1 DEF Ask
      <4> QED BY <2>2, <4>1 DEF AskInv
    <3>2. CASE d = c /\ ids2 = {}
      <4>1. asked'[c] = <<ids1>>
        BY <1>2, <3>2 DEF Ask
      <4>2. Len(asked'[d]) = 1 /\ k = 1 /\ asked'[d][1] = ids1
        BY <2>2, <3>2, <4>1
      <4> HIDE DEF TypeOK, Requests
      <4> QED BY <2>1, <3>2, <4>2
    <3>3. CASE d = c /\ ids2 # {}
      <4>1. asked'[c] = <<ids1, ids2>>
        BY <1>2, <3>3 DEF Ask
      <4>2. /\ Len(asked'[d]) = 2 /\ k \in {1, 2}
            /\ asked'[d][1] = ids1 /\ asked'[d][2] = ids2
        BY <2>2, <3>3, <4>1
      <4> HIDE DEF TypeOK, Requests
      <4> QED BY <2>1, <3>3, <4>2
    <3> QED BY <3>1, <3>2, <3>3
  <2> QED BY <2>1, <2>2 DEF AskInv
<1>3. ASSUME NEW c \in Classes, Allocate(c) PROVE AskInv'
  <2>1. /\ asked'[c] = <<>> /\ \A d \in Classes \ {c} : asked'[d] = asked[d]
        /\ \A a \in answers' : a \in answers \/ a.class = c
    BY <1>3 DEF Allocate, Answers
  <2>2. ASSUME NEW d \in Classes, NEW k \in 1..Len(asked'[d])
        PROVE  d # c /\ asked'[d] = asked[d]
    BY <2>1, <2>2
  <2> HIDE DEF TypeOK, Requests
  <2> QED BY <2>1, <2>2 DEF AskInv
<1>4. CASE \/ KubeletRestart
           \/ \E c \in Classes : AskFails(c)
           \/ \E a \in answers : StartContainer(a)
  BY <1>1, <1>4 DEF KubeletRestart, AskFails, StartContainer
<1>5. CASE UNCHANGED <<asked, answers>>
  BY <1>1, <1>5
<1> HIDE DEF TypeOK, Requests
<1> QED
  BY <1>2, <1>3, <1>4, <1>5
  DEF Next, StartPlugins, Restart, Kubelet, Scan, NothingFound, ScanDone, OpenTmp,
      FillTmp, Rename, WriteFails, DirectoryFails, SpecsDone, Create, Started,
      StopPlugin, StoppedAll, Crash, ProcessStart, Report, HardwareChanges, vars,
      kubelet

\* A request has as many answers as containers, none of them given before.
LEMMA AnswersCount ==
  ASSUME TypeOK, AskInv, NEW c \in Classes
  PROVE  /\ IsFiniteSet(Answers(c)) /\ Len(asked[c]) \in Nat
         /\ Cardinality(Answers(c)) = Len(asked[c])
         /\ Answers(c) \intersect answers = {}
<1> DEFINE n == Len(asked[c])
           f == [k \in 1..n |-> [class |-> c, ids |-> asked[c][k], gen |-> gen]]
<1>1. n \in Nat
  BY AnswersType
<1>2. IsFiniteSet(1..n) /\ Cardinality(1..n) = n
  BY <1>1, FS_Interval
<1>3. \A k, l \in 1..n : k # l => asked[c][k] # asked[c][l]
  BY DEF AskInv
<1>4. f \in Bijection(1..n, Answers(c))
  BY <1>3 DEF Bijection, Injection, Surjection, IsInjective, Answers
<1>5. Answers(c) \intersect answers = {}
  BY DEF AskInv, Answers
<1> HIDE DEF n, f
<1>6. IsFiniteSet(Answers(c)) /\ Cardinality(Answers(c)) = Cardinality(1..n)
  BY <1>2, <1>4, FS_Bijection DEF ExistsBijection
<1> QED BY <1>1, <1>2, <1>5, <1>6 DEF n

\* Union of two finite sets with nothing in common.
LEMMA DisjointUnion ==
  ASSUME NEW S, NEW T, IsFiniteSet(S), IsFiniteSet(T), S \intersect T = {}
  PROVE  /\ IsFiniteSet(S \union T)
         /\ Cardinality(S) \in Nat /\ Cardinality(T) \in Nat
         /\ Cardinality(S \union T) = Cardinality(S) + Cardinality(T)
<1>1. Cardinality(S) \in Nat /\ Cardinality(T) \in Nat
  BY FS_CardinalityType
<1>2. Cardinality(S \intersect T) = 0
  BY FS_EmptySet
<1>3. /\ IsFiniteSet(S \union T)
      /\ Cardinality(S \union T) =
           Cardinality(S) + Cardinality(T) - Cardinality(S \intersect T)
  BY FS_Union
<1> QED BY <1>1, <1>2, <1>3

LEMMA CountStep == ASSUME TypeOK, FoundInv, AnswerInv, AskInv, CountInv, [Next]_vars
                   PROVE  CountInv'
<1> USE DEF TypeOK, Go, start, files, plugin, counts, kubelet, bounds
<1> DEFINE Total(c) == Cardinality(Told(c)) + started[c]
           Fresh == pc = "plugins" => \A c \in todo :
                      devices[c] = {} /\ \A a \in answers : a.class = c => a.gen < gen
<1>0. /\ IsFiniteSet(answers) /\ Fresh
      /\ \A c \in Classes : devices[c] # {} => allocations[c] = Total(c)
  BY DEF CountInv, CountsContainers
<1>1. ASSUME UNCHANGED <<answers, gen, allocations, started>>,
             \A c \in Classes : devices'[c] \in {devices[c], {}},
             pc' = "plugins" => \/ pc = "plugins" /\ todo' \subseteq todo
                                \/ pc \in Starting /\ todo' \subseteq Classes
      PROVE  CountInv'
  <2>1. \A c \in Classes : devices'[c] # {} => allocations'[c] = Total(c)'
    BY <1>0, <1>1 DEF Told
  <2>2. Fresh'
    <3>1. pc \in Starting => /\ \A c \in Classes : devices[c] = {}
                             /\ \A a \in answers : a.gen < gen
      BY DEF FoundInv, AnswerInv, Starting, Serving
    <3> QED BY <1>0, <1>1, <3>1
  <2> QED BY <1>0, <1>1, <2>1, <2>2 DEF CountInv, CountsContainers
<1>2. ASSUME NEW c \in Classes, Create(c) PROVE CountInv'
  <2>0. /\ pc = "plugins" /\ c \in todo /\ todo' = todo \ {c}
        /\ UNCHANGED <<pc, gen, answers>>
    BY <1>2 DEF Create
  <2>1. \A d \in Classes : /\ devices'[d] = (IF d = c THEN Found(c) ELSE devices[d])
                           /\ allocations'[d] = (IF d = c THEN 0 ELSE allocations[d])
                           /\ started'[d] = (IF d = c THEN 0 ELSE started[d])
    BY <1>2 DEF Create, NewCounts
  <2>2. ASSUME NEW d \in Classes, devices'[d] # {}
        PROVE  allocations'[d] = Total(d)'
    <3>1. Told(d)' = Told(d)
      BY <2>0 DEF Told
    <3>2. CASE d = c
      <4>1. Told(c) = {}
        BY <1>0, <2>0 DEF Told
      <4>2. Cardinality(Told(d)') = 0
        BY <3>1, <3>2, <4>1, FS_EmptySet
      <4> QED BY <2>1, <3>2, <4>2
    <3>3. CASE d # c
      <4>1. allocations'[d] = allocations[d] /\ started'[d] = started[d] /\ devices[d] # {}
        BY <2>1, <2>2, <3>3
      <4> QED BY <1>0, <3>1, <4>1
    <3> QED BY <3>2, <3>3
  <2>3. Fresh'
    BY <1>0, <2>0, <2>1
  <2> QED BY <1>0, <2>0, <2>2, <2>3 DEF CountInv, CountsContainers
<1>3. ASSUME NEW c \in Classes, Allocate(c) PROVE CountInv'
  <2>1. /\ UNCHANGED <<pc, todo, gen, devices, started>> /\ devices[c] # {}
        /\ \/ UNCHANGED <<answers, allocations>>
           \/ /\ answers' = answers \union Answers(c)
              /\ \A d \in Classes : allocations'[d] =
                    IF d = c THEN allocations[c] + Len(asked[c]) ELSE allocations[d]
    BY <1>3 DEF Allocate
  <2>2. CASE UNCHANGED <<answers, allocations>>
    BY <1>1, <2>1, <2>2
  <2>3. CASE /\ answers' = answers \union Answers(c)
             /\ \A d \in Classes : allocations'[d] =
                   IF d = c THEN allocations[c] + Len(asked[c]) ELSE allocations[d]
    <3>1. IsFiniteSet(answers')
      BY <1>0, <2>3, AnswersCount, FS_Union
    <3>2. \A a \in Answers(c) : a.class = c /\ a.gen = gen
      BY DEF Answers
    <3>3. ASSUME NEW d \in Classes, devices'[d] # {}
          PROVE  allocations'[d] = Total(d)'
      <4>1. CASE d # c
        <5>1. Told(d)' = Told(d)
          BY <2>1, <2>3, <3>2, <4>1 DEF Told
        <5> QED BY <1>0, <2>1, <2>3, <3>3, <4>1, <5>1
      <4>2. CASE d = c
        <5>1. Told(c)' = Told(c) \union Answers(c)
          BY <2>1, <2>3, <3>2 DEF Told
        <5>2. IsFiniteSet(Told(c)) /\ Told(c) \intersect Answers(c) = {}
          BY <1>0, AnswersCount, FS_Subset DEF Told
        <5>3. /\ Cardinality(Told(c)') = Cardinality(Told(c)) + Len(asked[c])
              /\ Cardinality(Told(c)) \in Nat /\ Len(asked[c]) \in Nat
          BY <5>1, <5>2, AnswersCount, DisjointUnion
        <5>4. allocations[c] = Cardinality(Told(c)) + started[c]
          BY <1>0, <2>1
        <5>5. started[c] \in Nat /\ started'[c] = started[c]
              /\ allocations'[c] = allocations[c] + Len(asked[c])
          BY <2>1, <2>3
        <5> HIDE DEF TypeOK
        <5>6. allocations'[c] = Cardinality(Told(c)') + started'[c]
          BY <5>3, <5>4, <5>5
        <5> QED BY <4>2, <5>6
      <4> QED BY <4>1, <4>2
    <3>4. Fresh'
      BY <1>0, <2>1, <2>3, <3>2
    <3> QED BY <3>1, <3>3, <3>4 DEF CountInv, CountsContainers
  <2> QED BY <2>1, <2>2, <2>3
<1>4. ASSUME NEW a \in answers, StartContainer(a) PROVE CountInv'
  <2>1. /\ answers' = answers \ {a}
        /\ UNCHANGED <<pc, todo, gen, devices, allocations>>
        /\ a.class \in Classes
        /\ \A c \in Classes : started'[c] =
              IF a.gen = gen /\ c = a.class THEN started[c] + 1 ELSE started[c]
    BY <1>4 DEF StartContainer
  <2>2. IsFiniteSet(answers')
    BY <1>0, <2>1, FS_RemoveElement
  <2>3. ASSUME NEW c \in Classes, devices'[c] # {}
        PROVE  allocations'[c] = Total(c)'
    <3>1. CASE a.gen = gen /\ a.class = c
      <4>1. a \in Told(c) /\ Told(c)' = Told(c) \ {a} /\ IsFiniteSet(Told(c))
        BY <1>0, <2>1, <3>1, FS_Subset DEF Told
      <4>2. /\ Cardinality(Told(c)') = Cardinality(Told(c)) - 1
            /\ Cardinality(Told(c)) \in Nat
        BY <4>1, FS_RemoveElement, FS_CardinalityType
      <4>3. allocations[c] = Cardinality(Told(c)) + started[c] /\ started[c] \in Nat
            /\ allocations'[c] = allocations[c] /\ started'[c] = started[c] + 1
        BY <1>0, <2>1, <2>3, <3>1
      <4> HIDE DEF TypeOK
      <4> QED BY <4>2, <4>3
    <3>2. CASE ~(a.gen = gen /\ a.class = c)
      <4>1. Told(c)' = Told(c)
        BY <2>1, <3>2 DEF Told
      <4> QED BY <1>0, <2>1, <2>3, <3>2, <4>1
    <3> QED BY <3>1, <3>2
  <2>4. Fresh'
    BY <1>0, <2>1
  <2> QED BY <2>2, <2>3, <2>4 DEF CountInv, CountsContainers
<1>5. CASE StoppedAll \/ ProcessStart
  <2>1. /\ UNCHANGED answers /\ pc' = "scan"
        /\ \A c \in Classes : devices'[c] = {}
    BY <1>5 DEF StoppedAll, ProcessStart, Nowhere, FoundInv, Serving
  <2> QED BY <1>0, <2>1 DEF CountInv, CountsContainers
<1>6. CASE Crash \/ \E c \in Classes : StopPlugin(c)
  BY <1>1, <1>6 DEF Crash, StopPlugin, Nowhere
<1>7. CASE \/ ScanDone \/ SpecsDone \/ NothingFound \/ FillTmp \/ Rename \/ WriteFails
           \/ \E c \in Classes : OpenTmp(c) \/ DirectoryFails(c)
           \/ \E id \in Ids : Scan(id)
  BY <1>1, <1>7, FoundSame
  DEF ScanDone, SpecsDone, NothingFound, FillTmp, Rename, WriteFails, OpenTmp,
      DirectoryFails, Scan, Starting
<1>8. CASE \/ Started \/ Kubelet \/ UNCHANGED vars
           \/ \E id \in Ids : HardwareChanges(id)
  BY <1>1, <1>8
  DEF Started, Kubelet, KubeletRestart, Report, AskFails, Ask, HardwareChanges, vars
<1> HIDE DEF TypeOK, Go, start, files, plugin, counts, kubelet, bounds
<1>9. CASE StartPlugins
  BY <1>2, <1>7, <1>8, <1>9 DEF StartPlugins
<1>10. CASE Restart
  BY <1>5, <1>6, <1>10 DEF Restart
<1>11. CASE \/ \E c \in Classes : Allocate(c)
            \/ \E a \in answers : StartContainer(a)
  BY <1>3, <1>4, <1>11
<1> QED
  BY <1>5, <1>6, <1>8, <1>9, <1>10, <1>11 DEF Next

\* The invariant holds along every behaviour.
THEOREM AllocationSafe == Spec => []AllocationInv
<1>1. Init => AllocationInv
  <2> SUFFICES ASSUME Init PROVE AllocationInv
    OBVIOUS
  <2>1. FoundInv
    BY DEF Init, FoundInv, Nowhere
  <2>2. SpecInv /\ AnswerInv /\ AskInv
    BY DEF Init, SpecInv, AnswerInv, Serving, AskInv
  <2>3. CountInv
    <3>1. answers = {} /\ pc # "plugins" /\ \A c \in Classes : devices[c] = {}
      BY DEF Init, Nowhere
    <3> QED BY <3>1, FS_EmptySet DEF CountInv, CountsContainers
  <2> QED BY <2>1, <2>2, <2>3 DEF AllocationInv
<1>2. TypeOK /\ AllocationInv /\ [Next]_vars => AllocationInv'
  BY FoundStep, SpecStep, AnswerStep, AskStep, CountStep DEF AllocationInv
<1> QED BY TypeCorrect, <1>1, <1>2, PTL DEF Spec

-----------------------------------------------------------------------------
(* What follows from it.                                                       *)

\* In CDI mode a plugin in service and the spec the runtime reads agree.
THEOREM SpecMatchesPluginHolds == Spec => []SpecMatchesPlugin
<1>1. TypeOK /\ AllocationInv => SpecMatchesPlugin
  BY DEF AllocationInv, FoundInv, SpecInv, SpecMatchesPlugin, FoundClasses
<1> QED BY TypeCorrect, AllocationSafe, <1>1, PTL

\* Plugins in service never share a card.
THEOREM OneResourcePerCardHolds == Spec => []OneResourcePerCard
<1>1. FoundInv => OneResourcePerCard
  <2> SUFFICES ASSUME FoundInv, NEW c \in Classes, NEW d \in Classes, c # d,
                      NEW id \in devices[c], id \in devices[d]
               PROVE  FALSE
    BY DEF OneResourcePerCard
  <2>1. devices[c] = Found(c) /\ devices[d] = Found(d)
    BY DEF FoundInv
  <2> QED BY <2>1 DEF FoundInv, Found
<1>2. AllocationInv => OneResourcePerCard
  BY <1>1 DEF AllocationInv
<1> QED BY AllocationSafe, <1>2, PTL

\* What the plugins in service have answered can be resolved.
THEOREM AnswersResolveHolds == Spec => []AnswersResolve
<1>1. TypeOK /\ AllocationInv => AnswersResolve
  <2> SUFFICES ASSUME TypeOK, AllocationInv, NEW a \in answers, useCDI, a.gen = gen,
                      devices[a.class] # {}, a.class \notin failed
               PROVE  Resolves(a)
    BY DEF AnswersResolve
  <2>1. a.class \in Classes
    BY DEF TypeOK
  <2>2. spec[a.class] = Found(a.class)
    BY <2>1 DEF AllocationInv, FoundInv, SpecInv, FoundClasses
  <2>3. Found(a.class) \in SUBSET Ids /\ a.ids \subseteq Found(a.class)
    BY DEF AllocationInv, AnswerInv, Found
  <2> QED BY <2>2, <2>3, ConstantsAssumption DEF Resolves
<1> QED BY TypeCorrect, AllocationSafe, <1>1, PTL

\* The counter of a plugin in service is the number of the containers it has
\* answered.
THEOREM CountsContainersHolds == Spec => []CountsContainers
<1>1. AllocationInv => CountsContainers
  BY DEF AllocationInv, CountInv
<1> QED BY <1>1, AllocationSafe, PTL

\* A runtime never reads a half-written spec: what is installed was complete.
THEOREM SpecNeverTornHolds == Spec => []SpecNeverTorn
<1>1. Init => SpecNeverTorn
  BY ConstantsAssumption DEF Init, SpecNeverTorn
<1>2. TypeOK /\ AllocationInv /\ SpecNeverTorn /\ [Next]_vars => SpecNeverTorn'
  <2> SUFFICES ASSUME TypeOK, AllocationInv, SpecNeverTorn, [Next]_vars
               PROVE  SpecNeverTorn'
    OBVIOUS
  <2>1. CASE Rename
    <3>1. tmp[cur] = Found(cur) /\ Found(cur) # Torn
      BY <2>1, ConstantsAssumption DEF Rename, Go, AllocationInv, SpecInv, Found
    <3> QED BY <2>1, <3>1 DEF Rename, SpecNeverTorn, TypeOK
  <2>2. CASE UNCHANGED spec
    BY <2>2 DEF SpecNeverTorn
  <2> QED
    BY <2>1, <2>2
    DEF Next, StartPlugins, Restart, Kubelet, Scan, NothingFound, ScanDone, OpenTmp,
        FillTmp, WriteFails, DirectoryFails, SpecsDone, Create, Started, KubeletRestart, StopPlugin,
        StoppedAll, Crash, ProcessStart, Report, AskFails, Ask, Allocate,
        StartContainer, HardwareChanges, vars, files
<1> QED BY TypeCorrect, AllocationSafe, <1>1, <1>2, PTL DEF Spec
=============================================================================
