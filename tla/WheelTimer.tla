------------------------------ MODULE WheelTimer ------------------------------
(***************************************************************************)
(* internal::WheelTimer<T> (million/src/internal/wheel_timer.hpp): the     *)
(* hierarchical timing wheel under SessionMonitor and Timer.  One thread   *)
(* calls Tick for ever; any thread may call AddTask.  A task is a name,    *)
(* added once.                                                             *)
(*                                                                         *)
(* Time is counted in ticks: Collect is the first half of Tick, up to the  *)
(* reading of the clock, which tells how many ticks have passed; Advance   *)
(* is one iteration of its loop.                                           *)
(***************************************************************************)
EXTENDS Naturals, FiniteSets

CONSTANTS SlotCount,    \* kSlotCount, 64
          CircleCount,  \* kCircleCount, 5
          Tasks,
          Delays,       \* the ticks that AddTask is called with
          MaxBatch      \* bound: ticks found to have passed in one call of Tick

ASSUME WheelAssumption ==
  /\ SlotCount \in Nat \ {0, 1}
  /\ CircleCount \in Nat \ {0}
  /\ Delays \subseteq Nat
  /\ MaxBatch \in Nat

Layers == 0 .. CircleCount - 1
Slots == Layers \X (0 .. SlotCount - 1)

VARIABLES
  adds,     \* adds_, as a set of tasks
  slots,    \* slots[<<layer, index>>]: slots_, as sets of tasks
  indexs,   \* indexs[layer]: indexs_
  tick,     \* tick[t]: DelayTask::tick
  todo,     \* iterations left of the loop in Tick
  crashed,  \* an exception left the thread
  delay,    \* history: delay[t], what AddTask was called with
  begin,    \* history: begin[t], what the layers below the one of t had gone in
            \* their turn when Tick took t over
  age,      \* history: age[t], ticks since then
  fired     \* history: fired[t], number of calls of the callback with t

vars == <<adds, slots, indexs, tick, todo, crashed, delay, begin, age, fired>>

\* Tasks that wait in the slots.
InSlots == UNION {slots[p] : p \in Slots}

\* The ticks of one turn of the layers below l: SlotCount to the power of l.
Turn[l \in 0..CircleCount] == IF l = 0 THEN 1 ELSE SlotCount * Turn[l - 1]

\* The ticks that the layers below l have gone in their turn, standing at ix.
Gone(ix, l) == LET part[k \in 0..CircleCount] ==
                     IF k = 0 THEN 0 ELSE ix[k - 1] * Turn[k - 1] + part[k - 1]
               IN  part[l]

Init ==
  /\ adds = {}
  /\ slots = [p \in Slots |-> {}]
  /\ indexs = [l \in Layers |-> 0]
  /\ tick = [t \in Tasks |-> 0]
  /\ todo = 0
  /\ crashed = FALSE
  /\ delay = [t \in Tasks |-> 0]
  /\ begin = [t \in Tasks |-> 0]
  /\ age = [t \in Tasks |-> 0]
  /\ fired = [t \in Tasks |-> 0]

\* GetLayer throws when the delay does not fit in the wheel.
TooLarge(d) == d >= Turn[CircleCount]

\* The layer of GetLayer: the lowest one whose turn is longer than the delay.
GetLayer(d) ==
  CHOOSE l \in Layers : d < Turn[l + 1] /\ (l > 0 => d >= Turn[l])

\* Mutant of SlotOf: the slot does not depend on where the layer stands.
SlotOfAbsolute(d, ix) ==
  LET l == GetLayer(d) IN <<l, (d \div Turn[l]) % SlotCount>>

\* The slot for a delay, when the wheel stands at ix.
SlotOf(d, ix) ==
  LET l == GetLayer(d) IN <<l, (d \div Turn[l] + ix[l]) % SlotCount>>

\* What is left of the delay for the layers below.
Rest(d) == d % Turn[GetLayer(d)]

\* Mutant of DispatchTasks: a task with nothing left of its delay is skipped.
DispatchTasksLeft(ts, from, ix) ==
  /\ slots' = [p \in Slots |->
                 from[p] \cup {t \in ts : tick[t] > 0 /\ SlotOf(tick[t], ix) = p}]
  /\ tick' = [t \in Tasks |-> IF t \in ts THEN Rest(tick[t]) ELSE tick[t]]

\* DispatchTasks of the tasks ts, to slots that hold from, at ix.
DispatchTasks(ts, from, ix) ==
  /\ slots' = [p \in Slots |-> from[p] \cup {t \in ts : SlotOf(tick[t], ix) = p}]
  /\ tick' = [t \in Tasks |-> IF t \in ts THEN Rest(tick[t]) ELSE tick[t]]

-----------------------------------------------------------------------------

AddTask(t, d) ==
  /\ ~crashed
  /\ t \notin adds \cup InSlots /\ fired[t] = 0
  /\ adds' = adds \cup {t}
  /\ tick' = [tick EXCEPT ![t] = d]
  /\ delay' = [delay EXCEPT ![t] = d]
  /\ age' = [age EXCEPT ![t] = 0]
  /\ UNCHANGED <<slots, indexs, todo, crashed, begin, fired>>

\* Mutant of Collect: adds_ is dispatched and not emptied.
CollectKeeps ==
  /\ ~crashed /\ todo = 0
  /\ \A t \in adds : ~TooLarge(tick[t])
  /\ DispatchTasks(adds, slots, indexs)
  /\ begin' = [t \in Tasks |->
                 IF t \in adds THEN Gone(indexs, GetLayer(tick[t])) ELSE begin[t]]
  /\ todo' \in 0..MaxBatch
  /\ UNCHANGED <<adds, indexs, crashed, delay, age, fired>>

\* Tick up to its loop: the swap of adds_, their dispatch, the clock.
Collect ==
  /\ ~crashed /\ todo = 0
  /\ adds' = {}
  /\ \/ /\ \A t \in adds : ~TooLarge(tick[t])
        /\ DispatchTasks(adds, slots, indexs)
        /\ begin' = [t \in Tasks |->
                       IF t \in adds THEN Gone(indexs, GetLayer(tick[t])) ELSE begin[t]]
        /\ todo' \in 0..MaxBatch
        /\ UNCHANGED crashed
     \/ /\ \E t \in adds : TooLarge(tick[t])
        /\ crashed' = TRUE
        /\ UNCHANGED <<slots, tick, begin, todo>>
  /\ UNCHANGED <<indexs, delay, age, fired>>

\* A layer moves when every layer below it completes a turn.
Moves(l) == \A k \in Layers : k < l => indexs[k] = SlotCount - 1

\* Mutant of Moved: the index of a layer is not reset after its turn.
MovedOver == [l \in Layers |-> IF Moves(l) THEN indexs[l] + 1 ELSE indexs[l]]

Moved == [l \in Layers |-> IF Moves(l) THEN (indexs[l] + 1) % SlotCount ELSE indexs[l]]

(***************************************************************************)
(* One tick: the slot of layer 0 fires, the layers move, and each layer    *)
(* above 0 that moved hands the slot it now stands at down.  The layers    *)
(* hand down one after the other, lowest first; the tasks of a layer go to *)
(* slots of lower layers that were handed down before, and stay there.     *)
(***************************************************************************)
Advance ==
  LET due  == slots[<<0, indexs[0]>>]
      down == {<<l, Moved[l]>> : l \in {k \in Layers \ {0} : Moves(k)}}
      left == [p \in Slots |->
                 IF p = <<0, indexs[0]>> \/ p \in down THEN {} ELSE slots[p]]
  IN
  /\ ~crashed /\ todo > 0
  /\ todo' = todo - 1
  /\ fired' = [t \in Tasks |-> fired[t] + (IF t \in due THEN 1 ELSE 0)]
  /\ age' = [t \in Tasks |-> age[t] + (IF t \in InSlots \ due THEN 1 ELSE 0)]
  /\ indexs' = Moved
  /\ DispatchTasks(UNION {slots[p] : p \in down}, left, Moved)
  /\ UNCHANGED <<adds, crashed, delay, begin>>

TickThread == Collect \/ Advance

Next ==
  \/ \E t \in Tasks, d \in Delays : AddTask(t, d)
  \/ TickThread

Spec == Init /\ [][Next]_vars

(***************************************************************************)
(* Fairness: the thread runs, and time passes: again and again it finds    *)
(* that ticks have passed (an endless run of calls of Tick within the same *)
(* tick is impossible, each one sleeps for a tick).                        *)
(***************************************************************************)
FairSpec == Spec /\ WF_vars(TickThread) /\ SF_vars(Collect /\ todo' > 0)

-----------------------------------------------------------------------------
(* Properties.                                                             *)

TypeOK ==
  /\ adds \subseteq Tasks
  /\ slots \in [Slots -> SUBSET Tasks]
  /\ indexs \in [Layers -> 0 .. SlotCount - 1]
  /\ tick \in [Tasks -> Nat]
  /\ todo \in 0..MaxBatch
  /\ crashed \in BOOLEAN
  /\ delay \in [Tasks -> Delays \cup {0}]
  /\ begin \in [Tasks -> Nat]
  /\ age \in [Tasks -> Nat]
  /\ fired \in [Tasks -> Nat]

\* A task is never in two places: in adds_, in one slot, or fired, once.  The
\* hand-over from adds_ and the cascade from layer to layer neither copy a
\* task nor fire it again.
TaskInOnePlace ==
  \A t \in Tasks :
    /\ fired[t] <= 1
    /\ \A p, q \in Slots : t \in slots[p] /\ t \in slots[q] => p = q
    /\ ~(t \in adds /\ t \in InSlots)
    /\ fired[t] = 1 => t \notin adds \cup InSlots

(***************************************************************************)
(* When the callback gets a task: never after its delay, and early by what *)
(* the lower layers had gone in their turn when Tick took it over, which   *)
(* is less than SlotCount^layer ticks.  A task of layer 0 is exact.        *)
(***************************************************************************)
FiresOnTime ==
  \A t \in Tasks : fired[t] = 1 =>
    age[t] + begin[t] = delay[t] /\ begin[t] < Turn[GetLayer(delay[t])]

\* Every task that was added fires, unless the thread died.
EveryTaskFires == \A t \in Tasks : t \in adds ~> (fired[t] = 1 \/ crashed)
=============================================================================
