---------------------------- MODULE Incarnations ----------------------------
(* What the process promises about its plugins, whatever the kubelet does:   *)
(* every resource class has a sequence of incarnations (one per              *)
(* startPlugins call that found the class), each is created once, retired    *)
(* once, and a generation begins only when every incarnation of the          *)
(* generations before it has been retired.                                   *)
EXTENDS Integers

CONSTANTS Classes,   \* the resource classes ("n150", "n300", ...)
          MaxGen     \* the number of startPlugins calls considered

VARIABLES phase,     \* incarnation -> "fresh", "live" or "retired"
          gen        \* the generation of the last successful startPlugins

vars == <<phase, gen>>

Inst == Classes \X (1..MaxGen)

Live == {i \in Inst : phase[i] = "live"}

Init == phase = [i \in Inst |-> "fresh"] /\ gen = 0

\* startPlugins finds cards: nothing of an older generation is left live.
Begin == /\ Live = {}
         /\ gen' = gen + 1
         /\ UNCHANGED phase

\* plugin.New for one class of the generation that has begun.
Create(i) == /\ phase[i] = "fresh"
             /\ i[2] = gen
             /\ phase' = [phase EXCEPT ![i] = "live"]
             /\ UNCHANGED gen

\* Stop retires one incarnation, the end of the process all of them.
Retire(S) == /\ S # {}
             /\ phase' = [i \in Inst |-> IF i \in S THEN "retired" ELSE phase[i]]
             /\ UNCHANGED gen

Next == \/ Begin
        \/ \E i \in Inst : Create(i)
        \/ \E S \in SUBSET Live : Retire(S)

Spec == Init /\ [][Next]_vars

-----------------------------------------------------------------------------
\* A class never has two plugins that both believe they are in service: they
\* would share one socket path and one resource name (plugin.go:136-141).
OneLivePerClass == \A i, j \in Inst :
    phase[i] = "live" /\ phase[j] = "live" /\ i[1] = j[1] => i = j
=============================================================================
