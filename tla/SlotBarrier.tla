----------------------------- MODULE SlotBarrier -----------------------------
(***************************************************************************)
(* What the time-slot clock of timer.c promises to the threads that use    *)
(* it, without any of its locks: attached devices work in the current      *)
(* slot, each ends its share of the slot by arriving (next_slot) or by     *)
(* leaving for good (detach_event), and the clock moves to the next slot   *)
(* only when nobody is still working.  Timer.tla shows that the mutexes    *)
(* and condition variables of timer.c implement this; Kernel.tla uses it   *)
(* as the clock of the CPU and loader threads.                             *)
(***************************************************************************)
EXTENDS Naturals

CONSTANTS Devices,   \* the CPU threads and the loader thread
          ClockCap   \* a natural number, where the clock saturates: users only
                     \* compare it with start times

VARIABLES phase,     \* where each device is within the slot
          clock,     \* number of slots begun so far
          stage      \* life of the clock thread

vars == <<phase, clock, stage>>

Phases == {"absent", "working", "arrived", "left"}
Stages == {"setup", "running", "over"}

Init == /\ phase = [d \in Devices |-> "absent"]
        /\ clock = 0
        /\ stage = "setup"

Advance(t) == IF t < ClockCap THEN t + 1 ELSE t

Attach(d) == /\ stage = "setup"
             /\ phase[d] = "absent"
             /\ phase' = [phase EXCEPT ![d] = "working"]
             /\ UNCHANGED <<clock, stage>>

Start == /\ stage = "setup"
         /\ stage' = "running"
         /\ UNCHANGED <<phase, clock>>

Arrive(d) == /\ stage = "running"
             /\ phase[d] = "working"
             /\ phase' = [phase EXCEPT ![d] = "arrived"]
             /\ UNCHANGED <<clock, stage>>

Leave(d) == /\ stage = "running"
            /\ phase[d] = "working"
            /\ phase' = [phase EXCEPT ![d] = "left"]
            /\ UNCHANGED <<clock, stage>>

(* Everyone has ended its share of the slot: open the next one.            *)
Tick == /\ stage = "running"
        /\ \A d \in Devices : phase[d] # "working"
        /\ phase' = [d \in Devices |->
                       IF phase[d] = "arrived" THEN "working" ELSE phase[d]]
        /\ clock' = Advance(clock)
        /\ UNCHANGED stage

(* Nobody is left to wait for: the clock thread ends.                      *)
Close == /\ stage = "running"
         /\ \A d \in Devices : phase[d] \in {"absent", "left"}
         /\ stage' = "over"
         /\ UNCHANGED <<phase, clock>>

Next == \/ Start \/ Tick \/ Close
        \/ \E d \in Devices : Attach(d) \/ Arrive(d) \/ Leave(d)

Spec == Init /\ [][Next]_vars /\ WF_vars(Tick) /\ WF_vars(Close)

(* The safety part alone, which is what TimerProofs refines.               *)
SafeSpec == Init /\ [][Next]_vars
==============================================================================
