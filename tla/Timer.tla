-------------------------------- MODULE Timer --------------------------------
(***************************************************************************)
(* timer.c: one clock thread and one thread per device, synchronised by    *)
(* two mutexes and two condition variables per device.  The flag `done`    *)
(* of a device is set under its event_lock (next_slot) but cleared under   *)
(* its timer_lock (timer_routine): no single lock protects it, so that     *)
(* the two writes never collide is a consequence of the whole protocol.    *)
(*                                                                         *)
(* One step is one access to shared memory or one call of the pthread      *)
(* library.  A thread asleep on a condition variable is a program counter  *)
(* of its own; a signal, or a spurious wakeup, makes it compete for the    *)
(* mutex again.                                                            *)
(***************************************************************************)
EXTENDS Naturals, Sequences

CONSTANTS Devices,   \* the timer ids handed out by attach_event
          ClockCap   \* _time (64 bits) saturates here

ASSUME TimerAssumption == ClockCap \in Nat

VARIABLES dev_list,       \* the linked list of devices, newest first
          done, fsh,      \* flags of each timer_id_t
          event_lock, timer_lock,   \* holder of each mutex
          time,           \* _time
          timer_stop,
          tpc, temp, fsh_count, event_count,   \* timer_routine: pc and locals
          dpc,            \* pc of each device thread
          mpc             \* the main thread, which attaches, starts and stops

sharedVars == <<done, fsh, event_lock, timer_lock>>
timerVars  == <<tpc, temp, fsh_count, event_count>>
mainVars   == <<dev_list, timer_stop, mpc>>
vars == <<dev_list, done, fsh, event_lock, timer_lock, time, timer_stop,
          tpc, temp, fsh_count, event_count, dpc, mpc>>

Holders   == {"free", "timer", "device"}
ScanPcs   == {"lock_event", "test", "asleep", "woken", "unlock_event"}
ReleasePcs == {"lock_timer", "clear", "signal", "unlock_timer"}
TimerPcs  == {"unborn", "head", "tick", "compare", "exit"} \cup ScanPcs \cup ReleasePcs
NextSlotPcs == {"ns_lock_event", "ns_set", "ns_signal", "ns_unlock_event",
                "ns_lock_timer", "ns_test", "ns_asleep", "ns_woken", "ns_unlock_timer"}
DetachPcs == {"de_lock", "de_set", "de_signal", "de_unlock"}
DevicePcs == {"absent", "attached", "work", "exited"} \cup NextSlotPcs \cup DetachPcs
MainPcs   == {"setup", "running", "stopping", "freed"}

Advance(t) == IF t < ClockCap THEN t + 1 ELSE t
AtEnd   == temp > Len(dev_list)       \* temp == NULL
Current == dev_list[temp]             \* temp->id

Init == /\ dev_list = << >>
        /\ done = [d \in Devices |-> 0]
        /\ fsh = [d \in Devices |-> 0]
        /\ event_lock = [d \in Devices |-> "free"]
        /\ timer_lock = [d \in Devices |-> "free"]
        /\ time = 0
        /\ timer_stop = 0
        /\ tpc = "unborn" /\ temp = 1 /\ fsh_count = 0 /\ event_count = 0
        /\ dpc = [d \in Devices |-> "absent"]
        /\ mpc = "setup"

(***************************************************************************)
(* The main thread: attach_event, start_timer, creation of the device      *)
(* threads, and stop_timer once they have been joined.                     *)
(***************************************************************************)
AttachEvent(d) ==
    /\ mpc = "setup" /\ dpc[d] = "absent"
    /\ dev_list' = <<d>> \o dev_list
    /\ done' = [done EXCEPT ![d] = 0]
    /\ fsh' = [fsh EXCEPT ![d] = 0]
    /\ dpc' = [dpc EXCEPT ![d] = "attached"]
    /\ UNCHANGED <<event_lock, timer_lock, time, timer_stop, timerVars, mpc>>

StartTimer ==
    /\ mpc = "setup"
    /\ mpc' = "running"
    /\ tpc' = "head"
    /\ UNCHANGED <<dev_list, sharedVars, time, timer_stop, temp, fsh_count,
                   event_count, dpc>>

CreateThread(d) ==
    /\ mpc = "running" /\ dpc[d] = "attached"
    /\ dpc' = [dpc EXCEPT ![d] = "work"]
    /\ UNCHANGED <<mainVars, sharedVars, time, timerVars>>

StopTimer ==
    /\ mpc = "running"
    /\ \A d \in Devices : dpc[d] \in {"absent", "exited"}
    /\ mpc' = "stopping"
    /\ timer_stop' = 1
    /\ UNCHANGED <<dev_list, sharedVars, time, timerVars, dpc>>

JoinAndFree ==
    /\ mpc = "stopping" /\ tpc = "exit"
    /\ mpc' = "freed"
    /\ dev_list' = << >>
    /\ UNCHANGED <<sharedVars, time, timer_stop, timerVars, dpc>>

(***************************************************************************)
(* timer_routine, first loop: wait until each device is done or finished.  *)
(***************************************************************************)
LoopHead ==
    /\ tpc = "head"
    /\ \/ /\ timer_stop = 1
          /\ tpc' = "exit"
          /\ UNCHANGED <<temp, fsh_count, event_count>>
       \/ /\ timer_stop = 0
          /\ tpc' = "lock_event"
          /\ temp' = 1 /\ fsh_count' = 0 /\ event_count' = 0
    /\ UNCHANGED <<mainVars, sharedVars, time, dpc>>

LockEvent ==
    /\ tpc = "lock_event" /\ ~AtEnd
    /\ event_lock[Current] = "free"
    /\ event_lock' = [event_lock EXCEPT ![Current] = "timer"]
    /\ tpc' = "test"
    /\ UNCHANGED <<mainVars, done, fsh, timer_lock, time, temp, fsh_count,
                   event_count, dpc>>

ScanOver ==
    /\ tpc = "lock_event" /\ AtEnd
    /\ tpc' = "tick"
    /\ UNCHANGED <<mainVars, sharedVars, time, temp, fsh_count, event_count, dpc>>

WaitEvent ==                       \* pthread_cond_wait releases the mutex
    /\ tpc = "test" /\ done[Current] = 0 /\ fsh[Current] = 0
    /\ event_lock' = [event_lock EXCEPT ![Current] = "free"]
    /\ tpc' = "asleep"
    /\ UNCHANGED <<mainVars, done, fsh, timer_lock, time, temp, fsh_count,
                   event_count, dpc>>

(* Mutant: `if` instead of `while` around the wait.                        *)
WokenEvent_If ==
    /\ tpc = "woken" /\ event_lock[Current] = "free"
    /\ event_lock' = [event_lock EXCEPT ![Current] = "timer"]
    /\ fsh_count' = fsh_count + fsh[Current]
    /\ event_count' = event_count + 1
    /\ tpc' = "unlock_event"
    /\ UNCHANGED <<mainVars, done, fsh, timer_lock, time, temp, dpc>>

WokenEvent ==
    /\ tpc = "woken" /\ event_lock[Current] = "free"
    /\ event_lock' = [event_lock EXCEPT ![Current] = "timer"]
    /\ tpc' = "test"
    /\ UNCHANGED <<mainVars, done, fsh, timer_lock, time, temp, fsh_count,
                   event_count, dpc>>

CountEvent ==
    /\ tpc = "test" /\ (done[Current] = 1 \/ fsh[Current] = 1)
    /\ fsh_count' = fsh_count + fsh[Current]
    /\ event_count' = event_count + 1
    /\ tpc' = "unlock_event"
    /\ UNCHANGED <<mainVars, sharedVars, time, temp, dpc>>

UnlockEvent ==
    /\ tpc = "unlock_event"
    /\ event_lock' = [event_lock EXCEPT ![Current] = "free"]
    /\ temp' = temp + 1
    /\ tpc' = "lock_event"
    /\ UNCHANGED <<mainVars, done, fsh, timer_lock, time, fsh_count, event_count, dpc>>

(***************************************************************************)
(* timer_routine, second loop: advance the clock, release every device.    *)
(***************************************************************************)
TimeStep ==
    /\ tpc = "tick"
    /\ time' = Advance(time)
    /\ temp' = 1
    /\ tpc' = "lock_timer"
    /\ UNCHANGED <<mainVars, sharedVars, fsh_count, event_count, dpc>>

LockTimer ==
    /\ tpc = "lock_timer" /\ ~AtEnd
    /\ timer_lock[Current] = "free"
    /\ timer_lock' = [timer_lock EXCEPT ![Current] = "timer"]
    /\ tpc' = "clear"
    /\ UNCHANGED <<mainVars, done, fsh, event_lock, time, temp, fsh_count,
                   event_count, dpc>>

(* Mutant: the flag is counted down, also for a device that has detached.  *)
ClearDone_Decrement ==
    /\ tpc = "clear"
    /\ done' = [done EXCEPT ![Current] = @ - 1]
    /\ tpc' = "signal"
    /\ UNCHANGED <<mainVars, fsh, event_lock, timer_lock, time, temp, fsh_count,
                   event_count, dpc>>

ClearDone ==
    /\ tpc = "clear"
    /\ done' = [done EXCEPT ![Current] = 0]
    /\ tpc' = "signal"
    /\ UNCHANGED <<mainVars, fsh, event_lock, timer_lock, time, temp, fsh_count,
                   event_count, dpc>>

(* Mutant: the release loop signals nobody.                                *)
SignalTimer_Forgotten ==
    /\ tpc = "signal"
    /\ tpc' = "unlock_timer"
    /\ UNCHANGED <<mainVars, sharedVars, time, temp, fsh_count, event_count, dpc>>

SignalTimer ==
    /\ tpc = "signal"
    /\ dpc' = [dpc EXCEPT ![Current] = IF @ = "ns_asleep" THEN "ns_woken" ELSE @]
    /\ tpc' = "unlock_timer"
    /\ UNCHANGED <<mainVars, sharedVars, time, temp, fsh_count, event_count>>

UnlockTimer ==
    /\ tpc = "unlock_timer"
    /\ timer_lock' = [timer_lock EXCEPT ![Current] = "free"]
    /\ temp' = temp + 1
    /\ tpc' = "lock_timer"
    /\ UNCHANGED <<mainVars, done, fsh, event_lock, time, fsh_count, event_count, dpc>>

ReleaseOver ==
    /\ tpc = "lock_timer" /\ AtEnd
    /\ tpc' = "compare"
    /\ UNCHANGED <<mainVars, sharedVars, time, temp, fsh_count, event_count, dpc>>

Compare ==                          \* if (fsh == event) break;
    /\ tpc = "compare"
    /\ tpc' = IF fsh_count = event_count THEN "exit" ELSE "head"
    /\ UNCHANGED <<mainVars, sharedVars, time, temp, fsh_count, event_count, dpc>>

TimerStep == \/ LoopHead \/ LockEvent \/ ScanOver \/ WaitEvent \/ WokenEvent
             \/ CountEvent \/ UnlockEvent \/ TimeStep \/ LockTimer \/ ClearDone
             \/ SignalTimer \/ UnlockTimer \/ ReleaseOver \/ Compare

(***************************************************************************)
(* A device thread: any number of next_slot calls, then detach_event.      *)
(***************************************************************************)
DeviceGoto(d, from, to) == dpc[d] = from /\ dpc' = [dpc EXCEPT ![d] = to]

CallNextSlot(d) == /\ DeviceGoto(d, "work", "ns_lock_event")
                   /\ UNCHANGED <<mainVars, sharedVars, time, timerVars>>

CallDetach(d) == /\ DeviceGoto(d, "work", "de_lock")
                 /\ UNCHANGED <<mainVars, sharedVars, time, timerVars>>

DeviceLocksEvent(d) ==
    /\ \/ DeviceGoto(d, "ns_lock_event", "ns_set")
       \/ DeviceGoto(d, "de_lock", "de_set")
    /\ event_lock[d] = "free"
    /\ event_lock' = [event_lock EXCEPT ![d] = "device"]
    /\ UNCHANGED <<mainVars, done, fsh, timer_lock, time, timerVars>>

SetDone(d) ==
    /\ DeviceGoto(d, "ns_set", "ns_signal")
    /\ done' = [done EXCEPT ![d] = 1]
    /\ UNCHANGED <<mainVars, fsh, event_lock, timer_lock, time, timerVars>>

SetFsh(d) ==
    /\ DeviceGoto(d, "de_set", "de_signal")
    /\ fsh' = [fsh EXCEPT ![d] = 1]
    /\ UNCHANGED <<mainVars, done, event_lock, timer_lock, time, timerVars>>

(* Mutant: detach_event does not wake the clock thread.                    *)
SignalEvent_NextSlotOnly(d) ==
    /\ \/ DeviceGoto(d, "ns_signal", "ns_unlock_event") /\
             tpc' = IF tpc = "asleep" /\ Current = d THEN "woken" ELSE tpc
       \/ DeviceGoto(d, "de_signal", "de_unlock") /\ UNCHANGED tpc
    /\ UNCHANGED <<mainVars, sharedVars, time, temp, fsh_count, event_count>>

SignalEvent(d) ==                  \* wakes the timer if it sleeps on this device
    /\ \/ DeviceGoto(d, "ns_signal", "ns_unlock_event")
       \/ DeviceGoto(d, "de_signal", "de_unlock")
    /\ tpc' = IF tpc = "asleep" /\ Current = d THEN "woken" ELSE tpc
    /\ UNCHANGED <<mainVars, sharedVars, time, temp, fsh_count, event_count>>

DeviceUnlocksEvent(d) ==
    /\ \/ DeviceGoto(d, "ns_unlock_event", "ns_lock_timer")
       \/ DeviceGoto(d, "de_unlock", "exited")
    /\ event_lock' = [event_lock EXCEPT ![d] = "free"]
    /\ UNCHANGED <<mainVars, done, fsh, timer_lock, time, timerVars>>

DeviceLocksTimer(d) ==
    /\ \/ DeviceGoto(d, "ns_lock_timer", "ns_test")
       \/ DeviceGoto(d, "ns_woken", "ns_test")
    /\ timer_lock[d] = "free"
    /\ timer_lock' = [timer_lock EXCEPT ![d] = "device"]
    /\ UNCHANGED <<mainVars, done, fsh, event_lock, time, timerVars>>

WaitTimer(d) ==                    \* while (done) cond_wait: releases the mutex
    /\ done[d] = 1
    /\ DeviceGoto(d, "ns_test", "ns_asleep")
    /\ timer_lock' = [timer_lock EXCEPT ![d] = "free"]
    /\ UNCHANGED <<mainVars, done, fsh, event_lock, time, timerVars>>

(* Mutant: next_slot returns without waiting for the next slot.            *)
Released_Early(d) ==
    /\ DeviceGoto(d, "ns_test", "ns_unlock_timer")
    /\ UNCHANGED <<mainVars, sharedVars, time, timerVars>>

Released(d) ==
    /\ done[d] = 0
    /\ DeviceGoto(d, "ns_test", "ns_unlock_timer")
    /\ UNCHANGED <<mainVars, sharedVars, time, timerVars>>

DeviceUnlocksTimer(d) ==
    /\ DeviceGoto(d, "ns_unlock_timer", "work")
    /\ timer_lock' = [timer_lock EXCEPT ![d] = "free"]
    /\ UNCHANGED <<mainVars, done, fsh, event_lock, time, timerVars>>

(* The steps a device must take once it has called next_slot or            *)
(* detach_event; when to call them is its own affair.                      *)
DeviceSync(d) == \/ DeviceLocksEvent(d) \/ SetDone(d) \/ SetFsh(d) \/ SignalEvent(d)
                 \/ DeviceUnlocksEvent(d) \/ DeviceLocksTimer(d) \/ WaitTimer(d)
                 \/ Released(d) \/ DeviceUnlocksTimer(d)

(* pthread_cond_wait may return without a signal.                          *)
SpuriousTimer == /\ tpc = "asleep"
                 /\ tpc' = "woken"
                 /\ UNCHANGED <<mainVars, sharedVars, time, temp, fsh_count,
                                event_count, dpc>>

SpuriousDevice(d) == /\ DeviceGoto(d, "ns_asleep", "ns_woken")
                     /\ UNCHANGED <<mainVars, sharedVars, time, timerVars>>

MainStep == StartTimer \/ StopTimer \/ JoinAndFree

Terminated == mpc = "freed" /\ UNCHANGED vars

Next == \/ MainStep \/ TimerStep \/ SpuriousTimer \/ Terminated
        \/ \E d \in Devices : \/ AttachEvent(d) \/ CreateThread(d)
                              \/ CallNextSlot(d) \/ CallDetach(d)
                              \/ DeviceSync(d) \/ SpuriousDevice(d)

SafeSpec == Init /\ [][Next]_vars

(* Every thread keeps running (weak fairness); a mutex that is free again  *)
(* and again is eventually granted to a thread that waits for it (strong   *)
(* fairness: a spurious wakeup may take the mutex any number of times).    *)
(* Calls of next_slot and detach_event, and spurious wakeups, need not     *)
(* happen.                                                                 *)
Fairness == /\ WF_vars(TimerStep) /\ WF_vars(StopTimer) /\ WF_vars(JoinAndFree)
            /\ SF_vars(LockEvent) /\ SF_vars(LockTimer) /\ SF_vars(WokenEvent)
            /\ \A d \in Devices :
                  /\ WF_vars(CreateThread(d)) /\ WF_vars(DeviceSync(d))
                  /\ SF_vars(DeviceLocksEvent(d)) /\ SF_vars(DeviceLocksTimer(d))

Spec == SafeSpec /\ Fairness

-------------------------------------------------------------------------------
TypeOK ==
    /\ dev_list \in Seq(Devices)
    /\ done \in [Devices -> {0, 1}] /\ fsh \in [Devices -> {0, 1}]
    /\ event_lock \in [Devices -> Holders] /\ timer_lock \in [Devices -> Holders]
    /\ time \in 0..ClockCap
    /\ timer_stop \in {0, 1}
    /\ tpc \in TimerPcs
    /\ temp \in Nat \ {0} /\ fsh_count \in Nat /\ event_count \in Nat
    /\ dpc \in [Devices -> DevicePcs]
    /\ mpc \in MainPcs

(* No two threads are about to access the same flag, or the clock, at the  *)
(* same time, one of them to write it.  `done` is written under event_lock *)
(* at timer.c:64 and under timer_lock at timer.c:50, so these two writes   *)
(* are kept apart by the protocol only; `_time` is read without a lock by  *)
(* a device at work (current_time, os.c:159) and written without a lock.   *)
(* (timer_stop is the exception: stop_timer may set it during the test.)   *)
NoDataRace ==
    /\ tpc \in {"test", "clear"} /\ ~AtEnd => dpc[Current] # "ns_set"
    /\ tpc = "test" /\ ~AtEnd => dpc[Current] # "de_set"
    /\ tpc = "clear" /\ ~AtEnd => dpc[Current] # "ns_test"
    /\ tpc = "tick" => \A d \in Devices : dpc[d] # "work"

(* Positions of the device list whose flag the release loop has still to   *)
(* clear in this slot.                                                     *)
Positions == 1..Len(dev_list)
Unreleased == {i \in Positions :
              \/ tpc \in {"lock_timer", "clear"} /\ i >= temp
              \/ tpc \in {"signal", "unlock_timer"} /\ i > temp}

(* The abstract barrier.  A device whose flag is still to be cleared       *)
(* already belongs to the new slot.                                        *)
PhaseOf(d) == IF fsh[d] = 1 THEN "left"
              ELSE IF dpc[d] = "absent" THEN "absent"
              ELSE IF done[d] = 0 \/ \E i \in Unreleased : dev_list[i] = d
              THEN "working" ELSE "arrived"

phaseBar == [d \in Devices |-> PhaseOf(d)]
stageBar == IF mpc = "setup" THEN "setup" ELSE IF tpc = "exit" THEN "over" ELSE "running"

B == INSTANCE SlotBarrier WITH phase <- phaseBar, clock <- time, stage <- stageBar

(* The locks and condition variables implement the barrier: no arrival is  *)
(* erased by the release loop, nobody starts a slot before all have ended  *)
(* the previous one, the clock thread ends only when every device has      *)
(* left; and no wakeup is lost, so that a slot everyone has ended is       *)
(* followed by the next.                                                   *)
ImplementsBarrier == B!Spec

(* A call of next_slot returns if every other device keeps ending its      *)
(* slots: no thread sleeps on a signal that was sent too early.            *)
EveryArrivalReleased ==
    (\A d \in Devices : []<>(dpc[d] # "work")) =>
        \A d \in Devices : dpc[d] = "ns_lock_event" ~> dpc[d] = "work"

(* Once every device thread has detached, the clock thread ends and        *)
(* stop_timer's join returns, whatever the clock thread was doing.         *)
ShutsDown ==
    (mpc = "running" /\ \A d \in Devices : dpc[d] \in {"absent", "exited"})
        ~> (mpc = "freed")
==============================================================================
