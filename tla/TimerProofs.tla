----------------------------- MODULE TimerProofs -----------------------------
(***************************************************************************)
(* For every set of devices: the inductive invariant of the protocol of    *)
(* timer.c, its freedom from data races, and the proof that it implements  *)
(* the abstract barrier of SlotBarrier (the safety part).                  *)
(***************************************************************************)
EXTENDS Timer, TLAPS

(* The device list holds every attached device once, until it is freed.    *)
ListInv ==
    /\ \A i, j \in Positions : dev_list[i] = dev_list[j] => i = j
    /\ mpc # "freed" =>
         \A d \in Devices : dpc[d] # "absent" <=> \E i \in Positions : dev_list[i] = d
    /\ tpc \in {"test", "asleep", "woken", "unlock_event",
                "clear", "signal", "unlock_timer"} => temp <= Len(dev_list)

(* The flags of a device tell where its thread is.                         *)
DonePcs == {"ns_signal", "ns_unlock_event", "ns_lock_timer", "ns_test",
            "ns_asleep", "ns_woken"}
FlagInv == \A d \in Devices :
    /\ done[d] = 1 => dpc[d] \in DonePcs
    /\ fsh[d] = 1 <=> dpc[d] \in {"de_signal", "de_unlock", "exited"}

(* Who holds a mutex, by program counter.                                  *)
LockInv == \A d \in Devices :
    /\ event_lock[d] = "timer" <=>
         tpc \in {"test", "unlock_event"} /\ temp <= Len(dev_list) /\ dev_list[temp] = d
    /\ event_lock[d] = "device" <=>
         dpc[d] \in {"ns_set", "ns_signal", "ns_unlock_event",
                     "de_set", "de_signal", "de_unlock"}
    /\ timer_lock[d] = "timer" <=>
         tpc \in {"clear", "signal", "unlock_timer"} /\ temp <= Len(dev_list)
           /\ dev_list[temp] = d
    /\ timer_lock[d] = "device" <=> dpc[d] \in {"ns_test", "ns_unlock_timer"}

(* How far the whole system has come.                                      *)
StageInv ==
    /\ mpc = "setup" <=> tpc = "unborn"
    /\ mpc = "setup" => \A d \in Devices : dpc[d] \in {"absent", "attached"}
    /\ timer_stop = 1 => mpc \in {"stopping", "freed"}
    /\ mpc \in {"stopping", "freed"} =>
         \A d \in Devices : dpc[d] \in {"absent", "exited"}
    /\ mpc = "freed" => tpc = "exit"
    /\ tpc = "exit" => \A d \in Devices : dpc[d] = "absent" \/ fsh[d] = 1

(* Positions the scan of this slot has passed.                             *)
Scanned == {i \in Positions :
              \/ tpc \in {"lock_event", "test", "asleep", "woken"} /\ i < temp
              \/ tpc = "unlock_event" /\ i <= temp
              \/ tpc = "tick"}
Counted == Scanned \cup
           {i \in Positions : tpc \in ReleasePcs \cup {"compare"}}

SlotInv ==
    /\ \A i \in Scanned \cup Unreleased :
          done[dev_list[i]] = 1 \/ fsh[dev_list[i]] = 1
    /\ fsh_count <= event_count
    /\ fsh_count = event_count => \A i \in Counted : fsh[dev_list[i]] = 1

IInv == TypeOK /\ ListInv /\ FlagInv /\ LockInv /\ StageInv /\ SlotInv

USE TimerAssumption

(* The clock thread is born; no device works yet.                          *)
LEMMA StartTimerKeeps ==
    ASSUME IInv, StartTimer PROVE IInv'
<1>1. TypeOK'
  BY DEF IInv, StartTimer, TypeOK, sharedVars, TimerPcs, MainPcs
<1>2. ListInv'
  BY DEF IInv, StartTimer, ListInv, Positions
<1>3. LockInv'
  BY DEF IInv, StartTimer, LockInv, StageInv, sharedVars
<1>4. StageInv'
  BY DEF IInv, StartTimer, StageInv
<1>5. SlotInv'
  BY DEF IInv, StartTimer, SlotInv, Scanned, Unreleased, Counted, ReleasePcs
<1>6. FlagInv'
  BY DEF IInv, StartTimer, FlagInv, sharedVars
<1> QED BY <1>1, <1>2, <1>3, <1>4, <1>5, <1>6 DEF IInv

(* Every device has detached when the stop flag is set.                    *)
LEMMA StopTimerKeeps ==
    ASSUME IInv, StopTimer PROVE IInv'
<1>1. TypeOK'
  BY DEF IInv, StopTimer, TypeOK, sharedVars, timerVars, MainPcs
<1>2. ListInv'
  BY DEF IInv, StopTimer, ListInv, Positions, timerVars
<1>3. StageInv'
  BY DEF IInv, StopTimer, StageInv, sharedVars, timerVars
<1>4. FlagInv' /\ LockInv' /\ SlotInv'
  BY DEF IInv, StopTimer, FlagInv, LockInv, SlotInv, Positions, Scanned,
         Unreleased, Counted, sharedVars, timerVars
<1> QED BY <1>1, <1>2, <1>3, <1>4 DEF IInv

(* The list is freed once the clock thread has ended.                      *)
LEMMA JoinAndFreeKeeps ==
    ASSUME IInv, JoinAndFree PROVE IInv'
<1>1. TypeOK'
  BY DEF IInv, JoinAndFree, TypeOK, sharedVars, timerVars, MainPcs
<1>2. ListInv'
  BY DEF IInv, JoinAndFree, ListInv, Positions, timerVars
<1>3. LockInv'
  BY DEF IInv, JoinAndFree, LockInv, sharedVars, timerVars
<1>4. StageInv'
  BY DEF IInv, JoinAndFree, StageInv, sharedVars, timerVars
<1>5. SlotInv'
  BY DEF IInv, JoinAndFree, SlotInv, Scanned, Unreleased, Counted, timerVars,
         ReleasePcs
<1>6. FlagInv'
  BY DEF IInv, JoinAndFree, FlagInv, sharedVars
<1> QED BY <1>1, <1>2, <1>3, <1>4, <1>5, <1>6 DEF IInv

(* A new scan starts, with nothing scanned; or the stop flag ends the thread. *)
LEMMA LoopHeadKeeps ==
    ASSUME IInv, LoopHead PROVE IInv'
<1>1. TypeOK'
  BY DEF IInv, LoopHead, TypeOK, mainVars, sharedVars, ScanPcs, TimerPcs
<1>2. ListInv'
  BY DEF IInv, LoopHead, ListInv, Positions, mainVars
<1>3. LockInv'
  BY DEF IInv, LoopHead, LockInv, sharedVars
<1>4. StageInv'
  BY DEF IInv, LoopHead, FlagInv, StageInv, mainVars, sharedVars
<1>5. SlotInv'
  BY DEF IInv, LoopHead, SlotInv, Positions, Scanned, Unreleased, Counted,
         ReleasePcs
<1>6. FlagInv'
  BY DEF IInv, LoopHead, FlagInv, sharedVars
<1> QED BY <1>1, <1>2, <1>3, <1>4, <1>5, <1>6 DEF IInv

(* The scan takes the event_lock of its current device.                    *)
LEMMA LockEventKeeps ==
    ASSUME IInv, LockEvent PROVE IInv'
<1>1. TypeOK'
  BY DEF IInv, LockEvent, TypeOK, Current, AtEnd, mainVars, ScanPcs, TimerPcs,
         Holders
<1>2. ListInv'
  BY DEF IInv, LockEvent, TypeOK, ListInv, Positions, AtEnd, mainVars
<1>3. LockInv'
  BY DEF IInv, LockEvent, TypeOK, LockInv, Current, AtEnd, mainVars
<1>4. StageInv'
  BY DEF IInv, LockEvent, StageInv, mainVars
<1>5. SlotInv'
  BY DEF IInv, LockEvent, SlotInv, Positions, Scanned, Unreleased, Counted,
         mainVars, ReleasePcs
<1>6. FlagInv'
  BY DEF IInv, LockEvent, FlagInv
<1> QED BY <1>1, <1>2, <1>3, <1>4, <1>5, <1>6 DEF IInv

(* The end of the list: every position has been scanned.                   *)
LEMMA ScanOverKeeps ==
    ASSUME IInv, ScanOver PROVE IInv'
<1>1. TypeOK'
  BY DEF IInv, ScanOver, TypeOK, mainVars, sharedVars, TimerPcs
<1>2. ListInv'
  BY DEF IInv, ScanOver, ListInv, Positions, mainVars
<1>3. LockInv'
  BY DEF IInv, ScanOver, LockInv, sharedVars
<1>4. StageInv'
  BY DEF IInv, ScanOver, StageInv, mainVars
<1>5. SlotInv'
  BY DEF IInv, ScanOver, TypeOK, SlotInv, Positions, Scanned, Unreleased,
         Counted, AtEnd, mainVars, sharedVars
<1>6. FlagInv'
  BY DEF IInv, ScanOver, FlagInv, sharedVars
<1> QED BY <1>1, <1>2, <1>3, <1>4, <1>5, <1>6 DEF IInv

(* The scan goes to sleep and gives the lock up.                           *)
LEMMA WaitEventKeeps ==
    ASSUME IInv, WaitEvent PROVE IInv'
<1>1. TypeOK'
  BY DEF IInv, WaitEvent, TypeOK, ListInv, Current, mainVars, ScanPcs, TimerPcs,
         Holders
<1>2. ListInv'
  BY DEF IInv, WaitEvent, ListInv, Positions, mainVars
<1>3. LockInv'
  BY DEF IInv, WaitEvent, TypeOK, ListInv, LockInv, Current
<1>4. StageInv'
  BY DEF IInv, WaitEvent, StageInv, mainVars
<1>5. SlotInv'
  BY DEF IInv, WaitEvent, SlotInv, Positions, Scanned, Unreleased, Counted,
         mainVars, ReleasePcs
<1>6. FlagInv'
  BY DEF IInv, WaitEvent, FlagInv
<1> QED BY <1>1, <1>2, <1>3, <1>4, <1>5, <1>6 DEF IInv

(* The scan is awake again and takes the lock back.                        *)
LEMMA WokenEventKeeps ==
    ASSUME IInv, WokenEvent PROVE IInv'
<1>1. TypeOK'
  BY DEF IInv, WokenEvent, TypeOK, ListInv, Current, mainVars, ScanPcs,
         TimerPcs, Holders
<1>2. ListInv'
  BY DEF IInv, WokenEvent, ListInv, Positions, mainVars
<1>3. LockInv'
  BY DEF IInv, WokenEvent, TypeOK, ListInv, LockInv, Current, mainVars
<1>4. StageInv'
  BY DEF IInv, WokenEvent, StageInv, mainVars
<1>5. SlotInv'
  BY DEF IInv, WokenEvent, SlotInv, Positions, Scanned, Unreleased, Counted,
         mainVars, ReleasePcs
<1>6. FlagInv'
  BY DEF IInv, WokenEvent, FlagInv
<1> QED BY <1>1, <1>2, <1>3, <1>4, <1>5, <1>6 DEF IInv

(* The current device is done or finished: it may be counted.              *)
LEMMA CountEventKeeps ==
    ASSUME IInv, CountEvent PROVE IInv'
<1>1. TypeOK'
  BY DEF IInv, CountEvent, TypeOK, ListInv, Current, mainVars, sharedVars,
         ScanPcs, TimerPcs
<1>2. ListInv'
  BY DEF IInv, CountEvent, ListInv, Positions, mainVars
<1>3. LockInv'
  BY DEF IInv, CountEvent, LockInv, mainVars, sharedVars
<1>4. StageInv'
  BY DEF IInv, CountEvent, StageInv, mainVars
<1>5. SlotInv'
  BY DEF IInv, CountEvent, TypeOK, ListInv, SlotInv, Positions, Scanned,
         Unreleased, Counted, Current, mainVars, sharedVars, ReleasePcs
<1>6. FlagInv'
  BY DEF IInv, CountEvent, FlagInv, sharedVars
<1> QED BY <1>1, <1>2, <1>3, <1>4, <1>5, <1>6 DEF IInv

(* On to the next device; the one left behind stays done or finished.      *)
LEMMA UnlockEventKeeps ==
    ASSUME IInv, UnlockEvent PROVE IInv'
<1>1. TypeOK'
  BY DEF IInv, UnlockEvent, TypeOK, ListInv, Current, mainVars, ScanPcs,
         TimerPcs, Holders
<1>2. ListInv'
  BY DEF IInv, UnlockEvent, ListInv, Positions, mainVars
<1>3. LockInv'
  BY DEF IInv, UnlockEvent, TypeOK, ListInv, LockInv, Current
<1>4. StageInv'
  BY DEF IInv, UnlockEvent, StageInv, mainVars
<1>5. SlotInv'
  BY DEF IInv, UnlockEvent, TypeOK, SlotInv, Positions, Scanned, Unreleased,
         Counted, mainVars, ReleasePcs
<1>6. FlagInv'
  BY DEF IInv, UnlockEvent, FlagInv
<1> QED BY <1>1, <1>2, <1>3, <1>4, <1>5, <1>6 DEF IInv

(* The clock advances; every flag is still to be cleared.                  *)
LEMMA TimeStepKeeps ==
    ASSUME IInv, TimeStep PROVE IInv'
<1>1. TypeOK'
  BY DEF IInv, TimeStep, TypeOK, Advance, mainVars, sharedVars, ReleasePcs,
         TimerPcs
<1>2. ListInv'
  BY DEF IInv, TimeStep, ListInv, Positions, mainVars
<1>3. LockInv'
  BY DEF IInv, TimeStep, LockInv, sharedVars
<1>4. StageInv'
  BY DEF IInv, TimeStep, StageInv, mainVars
<1>5. SlotInv'
  BY DEF IInv, TimeStep, SlotInv, Positions, Scanned, Unreleased, Counted,
         mainVars, sharedVars
<1>6. FlagInv'
  BY DEF IInv, TimeStep, FlagInv, sharedVars
<1> QED BY <1>1, <1>2, <1>3, <1>4, <1>5, <1>6 DEF IInv

(* The release takes the timer_lock of its current device.                 *)
LEMMA LockTimerKeeps ==
    ASSUME IInv, LockTimer PROVE IInv'
<1>1. TypeOK'
  BY DEF IInv, LockTimer, TypeOK, Current, AtEnd, mainVars, ReleasePcs,
         TimerPcs, Holders
<1>2. ListInv'
  BY DEF IInv, LockTimer, TypeOK, ListInv, Positions, AtEnd, mainVars
<1>3. LockInv'
  BY DEF IInv, LockTimer, TypeOK, LockInv, Current, AtEnd, mainVars
<1>4. StageInv'
  BY DEF IInv, LockTimer, StageInv, mainVars
<1>5. SlotInv'
  BY DEF IInv, LockTimer, SlotInv, Positions, Scanned, Unreleased, Counted,
         mainVars, ReleasePcs
<1>6. FlagInv'
  BY DEF IInv, LockTimer, FlagInv
<1> QED BY <1>1, <1>2, <1>3, <1>4, <1>5, <1>6 DEF IInv

(* The current device is no longer among those to be released.             *)
LEMMA ClearDoneKeeps ==
    ASSUME IInv, ClearDone PROVE IInv'
<1>1. TypeOK'
  BY DEF IInv, ClearDone, TypeOK, ListInv, Current, mainVars, ReleasePcs,
         TimerPcs
<1>2. ListInv'
  BY DEF IInv, ClearDone, ListInv, Positions, mainVars
<1>3. FlagInv'
  BY DEF IInv, ClearDone, FlagInv
<1>4. LockInv'
  BY DEF IInv, ClearDone, LockInv, mainVars
<1>5. StageInv'
  BY DEF IInv, ClearDone, StageInv, mainVars
<1>6. SlotInv'
  BY DEF IInv, ClearDone, TypeOK, ListInv, SlotInv, Positions, Scanned,
         Unreleased, Counted, Current, mainVars, ReleasePcs
<1> QED BY <1>1, <1>2, <1>3, <1>4, <1>5, <1>6 DEF IInv

(* A sleeping device is woken under its timer_lock.                        *)
LEMMA SignalTimerKeeps ==
    ASSUME IInv, SignalTimer PROVE IInv'
<1>1. TypeOK'
  BY DEF IInv, SignalTimer, TypeOK, ListInv, Current, mainVars, sharedVars,
         ReleasePcs, TimerPcs, NextSlotPcs, DevicePcs
<1>2. ListInv'
  BY DEF IInv, SignalTimer, ListInv, Positions, mainVars
<1>3. FlagInv'
  BY DEF IInv, SignalTimer, FlagInv, DonePcs, sharedVars
<1>4. LockInv'
  BY DEF IInv, SignalTimer, LockInv, mainVars, sharedVars
<1>5. StageInv'
  BY DEF IInv, SignalTimer, StageInv, mainVars
<1>6. SlotInv'
  BY DEF IInv, SignalTimer, SlotInv, Positions, Scanned, Unreleased, Counted,
         mainVars, sharedVars, ReleasePcs
<1> QED BY <1>1, <1>2, <1>3, <1>4, <1>5, <1>6 DEF IInv

(* On to the next device to be released.                                   *)
LEMMA UnlockTimerKeeps ==
    ASSUME IInv, UnlockTimer PROVE IInv'
<1>1. TypeOK'
  BY DEF IInv, UnlockTimer, TypeOK, ListInv, Current, mainVars, ReleasePcs,
         TimerPcs, Holders
<1>2. ListInv'
  BY DEF IInv, UnlockTimer, ListInv, Positions, mainVars
<1>3. LockInv'
  BY DEF IInv, UnlockTimer, TypeOK, ListInv, LockInv, Current
<1>4. StageInv'
  BY DEF IInv, UnlockTimer, StageInv, mainVars
<1>5. SlotInv'
  BY DEF IInv, UnlockTimer, TypeOK, SlotInv, Positions, Scanned, Unreleased,
         Counted, mainVars, ReleasePcs
<1>6. FlagInv'
  BY DEF IInv, UnlockTimer, FlagInv
<1> QED BY <1>1, <1>2, <1>3, <1>4, <1>5, <1>6 DEF IInv

(* Every device has been released.                                         *)
LEMMA ReleaseOverKeeps ==
    ASSUME IInv, ReleaseOver PROVE IInv'
<1>1. TypeOK'
  BY DEF IInv, ReleaseOver, TypeOK, mainVars, sharedVars, TimerPcs
<1>2. ListInv'
  BY DEF IInv, ReleaseOver, ListInv, Positions, mainVars
<1>3. LockInv'
  BY DEF IInv, ReleaseOver, LockInv, sharedVars
<1>4. StageInv'
  BY DEF IInv, ReleaseOver, StageInv, mainVars
<1>5. SlotInv'
  BY DEF IInv, ReleaseOver, SlotInv, Positions, Scanned, Unreleased, Counted,
         mainVars, sharedVars, ReleasePcs
<1>6. FlagInv'
  BY DEF IInv, ReleaseOver, FlagInv, sharedVars
<1> QED BY <1>1, <1>2, <1>3, <1>4, <1>5, <1>6 DEF IInv

(* If all that were counted had finished, everybody has left.              *)
LEMMA CompareKeeps ==
    ASSUME IInv, Compare PROVE IInv'
<1>1. TypeOK'
  BY DEF IInv, Compare, TypeOK, mainVars, sharedVars, TimerPcs
<1>2. ListInv'
  BY DEF IInv, Compare, ListInv, Positions, mainVars
<1>3. LockInv'
  BY DEF IInv, Compare, LockInv, sharedVars
<1>4. StageInv'
  BY DEF IInv, Compare, ListInv, StageInv, SlotInv, Counted, mainVars,
         sharedVars
<1>5. SlotInv'
  BY DEF IInv, Compare, SlotInv, Scanned, Unreleased, Counted, ReleasePcs
<1>6. FlagInv'
  BY DEF IInv, Compare, FlagInv, sharedVars
<1> QED BY <1>1, <1>2, <1>3, <1>4, <1>5, <1>6 DEF IInv

(* A wakeup without signal only changes the clock thread's pc.             *)
LEMMA SpuriousTimerKeeps ==
    ASSUME IInv, SpuriousTimer PROVE IInv'
<1>1. TypeOK'
  BY DEF IInv, SpuriousTimer, TypeOK, mainVars, sharedVars, ScanPcs, TimerPcs
<1>2. ListInv'
  BY DEF IInv, SpuriousTimer, ListInv, Positions, mainVars
<1>3. LockInv'
  BY DEF IInv, SpuriousTimer, LockInv, sharedVars
<1>4. StageInv'
  BY DEF IInv, SpuriousTimer, StageInv, mainVars
<1>5. SlotInv'
  BY DEF IInv, SpuriousTimer, SlotInv, Positions, Scanned, Unreleased, Counted,
         mainVars, sharedVars, ReleasePcs
<1>6. FlagInv'
  BY DEF IInv, SpuriousTimer, FlagInv, sharedVars
<1> QED BY <1>1, <1>2, <1>3, <1>4, <1>5, <1>6 DEF IInv

(* A new device comes to the head of the list with both flags clear.       *)
LEMMA AttachEventKeeps ==
    ASSUME IInv, NEW d \in Devices, AttachEvent(d) PROVE IInv'
<1>1. TypeOK'
  BY DEF IInv, AttachEvent, TypeOK, timerVars, DevicePcs
<1>2. ListInv'
  <2>1. dev_list' = <<d>> \o dev_list /\ tpc' = "unborn" /\ mpc' = "setup"
    BY DEF IInv, StageInv, AttachEvent, timerVars
  <2>2. /\ Positions' = 1..Len(dev_list) + 1 /\ dev_list'[1] = d
        /\ \A i \in Positions : dev_list'[i + 1] = dev_list[i]
        /\ \A i \in Positions' \ {1} : i - 1 \in Positions /\ dev_list'[i] = dev_list[i - 1]
    BY <2>1 DEF IInv, TypeOK, Positions
  <2>3. \A i \in Positions : dev_list[i] # d
    BY DEF IInv, ListInv, AttachEvent
  <2>4. \A i, j \in Positions' : dev_list'[i] = dev_list'[j] => i = j
    <3> SUFFICES ASSUME NEW i \in Positions', NEW j \in Positions',
                        dev_list'[i] = dev_list'[j]
                 PROVE  i = j
      OBVIOUS
    <3>1. Positions' \subseteq Nat
      BY <2>1 DEF Positions
    <3>2. i = 1 <=> j = 1
      BY <2>2, <2>3
    <3>3. i # 1 /\ j # 1 => i - 1 = j - 1
      BY <2>2 DEF IInv, ListInv
    <3> QED BY <3>1, <3>2, <3>3
  <2>5. \A e \in Devices : dpc'[e] # "absent" <=> \E i \in Positions' : dev_list'[i] = e
    <3>1. \A e \in Devices : dpc'[e] # "absent" <=> e = d \/ dpc[e] # "absent"
      BY DEF IInv, TypeOK, AttachEvent
    <3>2. \A e \in Devices : (\E i \in Positions' : dev_list'[i] = e)
                            <=> e = d \/ \E i \in Positions : dev_list[i] = e
      <4>1. 1 \in Positions' /\ \A i \in Positions : i + 1 \in Positions'
        BY <2>1, <2>2 DEF IInv, TypeOK, Positions
      <4> QED BY <2>2, <4>1
    <3> QED BY <3>1, <3>2 DEF IInv, ListInv, AttachEvent
  <2> QED BY <2>1, <2>4, <2>5 DEF ListInv
<1>3. FlagInv'
  BY DEF IInv, AttachEvent, FlagInv, DonePcs
<1>4. LockInv'
  BY DEF IInv, AttachEvent, LockInv, StageInv, timerVars
<1>5. StageInv'
  BY DEF IInv, AttachEvent, StageInv, timerVars
<1>6. SlotInv'
  BY DEF IInv, AttachEvent, StageInv, SlotInv, Scanned, Unreleased, Counted,
         timerVars, ReleasePcs
<1> QED BY <1>1, <1>2, <1>3, <1>4, <1>5, <1>6 DEF IInv

(* The thread of an attached device starts.                                *)
LEMMA CreateThreadKeeps ==
    ASSUME IInv, NEW d \in Devices, CreateThread(d) PROVE IInv'
<1>1. TypeOK'
  BY DEF IInv, CreateThread, TypeOK, mainVars, sharedVars, timerVars, DevicePcs
<1>2. ListInv'
  BY DEF IInv, CreateThread, ListInv, Positions, mainVars, timerVars
<1>3. FlagInv'
  BY DEF IInv, CreateThread, FlagInv, DonePcs, sharedVars
<1>4. LockInv'
  BY DEF IInv, CreateThread, LockInv, mainVars, sharedVars, timerVars
<1>5. StageInv'
  BY DEF IInv, CreateThread, StageInv, mainVars, sharedVars, timerVars
<1>6. SlotInv'
  BY DEF IInv, CreateThread, SlotInv, Positions, Scanned, Unreleased, Counted,
         mainVars, sharedVars, timerVars
<1> QED BY <1>1, <1>2, <1>3, <1>4, <1>5, <1>6 DEF IInv

(* A device at work ends its share of the slot.                            *)
LEMMA CallNextSlotKeeps ==
    ASSUME IInv, NEW d \in Devices, CallNextSlot(d) PROVE IInv'
<1>1. TypeOK'
  BY DEF IInv, CallNextSlot, TypeOK, DeviceGoto, mainVars, sharedVars,
         timerVars, NextSlotPcs, DevicePcs
<1>2. ListInv'
  BY DEF IInv, CallNextSlot, ListInv, Positions, DeviceGoto, mainVars, timerVars
<1>3. FlagInv'
  BY DEF IInv, CallNextSlot, FlagInv, DonePcs, DeviceGoto, sharedVars
<1>4. LockInv'
  BY DEF IInv, CallNextSlot, LockInv, DeviceGoto, mainVars, sharedVars,
         timerVars
<1>5. StageInv'
  BY DEF IInv, CallNextSlot, StageInv, DeviceGoto, mainVars, sharedVars,
         timerVars
<1>6. SlotInv'
  BY DEF IInv, CallNextSlot, SlotInv, Positions, Scanned, Unreleased, Counted,
         mainVars, sharedVars, timerVars
<1> QED BY <1>1, <1>2, <1>3, <1>4, <1>5, <1>6 DEF IInv

(* A device at work leaves for good.                                       *)
LEMMA CallDetachKeeps ==
    ASSUME IInv, NEW d \in Devices, CallDetach(d) PROVE IInv'
<1>1. TypeOK'
  BY DEF IInv, CallDetach, TypeOK, DeviceGoto, mainVars, sharedVars, timerVars,
         DetachPcs, DevicePcs
<1>2. ListInv'
  BY DEF IInv, CallDetach, ListInv, Positions, DeviceGoto, mainVars, timerVars
<1>3. FlagInv'
  BY DEF IInv, CallDetach, FlagInv, DonePcs, DeviceGoto, sharedVars
<1>4. LockInv'
  BY DEF IInv, CallDetach, LockInv, DeviceGoto, mainVars, sharedVars, timerVars
<1>5. StageInv'
  BY DEF IInv, CallDetach, StageInv, DeviceGoto, mainVars, sharedVars, timerVars
<1>6. SlotInv'
  BY DEF IInv, CallDetach, SlotInv, Positions, Scanned, Unreleased, Counted,
         mainVars, sharedVars, timerVars
<1> QED BY <1>1, <1>2, <1>3, <1>4, <1>5, <1>6 DEF IInv

(* A device takes its event_lock, to set done or fsh.                      *)
LEMMA DeviceLocksEventKeeps ==
    ASSUME IInv, NEW d \in Devices, DeviceLocksEvent(d) PROVE IInv'
<1>1. TypeOK'
  BY DEF IInv, DeviceLocksEvent, TypeOK, DeviceGoto, mainVars, timerVars,
         NextSlotPcs, DetachPcs, DevicePcs, Holders
<1>2. ListInv'
  BY DEF IInv, DeviceLocksEvent, TypeOK, ListInv, Positions, DeviceGoto,
         mainVars, timerVars
<1>3. FlagInv'
  BY DEF IInv, DeviceLocksEvent, TypeOK, FlagInv, DonePcs, DeviceGoto
<1>4. LockInv'
  BY DEF IInv, DeviceLocksEvent, TypeOK, LockInv, DeviceGoto, mainVars,
         timerVars
<1>5. StageInv'
  BY DEF IInv, DeviceLocksEvent, FlagInv, StageInv, DeviceGoto, mainVars,
         timerVars
<1>6. SlotInv'
  BY DEF IInv, DeviceLocksEvent, SlotInv, Positions, Scanned, Unreleased,
         Counted, mainVars, timerVars
<1> QED BY <1>1, <1>2, <1>3, <1>4, <1>5, <1>6 DEF IInv

(* done is set by a device the release loop cannot be about to clear.      *)
LEMMA SetDoneKeeps ==
    ASSUME IInv, NEW d \in Devices, SetDone(d) PROVE IInv'
<1>1. TypeOK'
  BY DEF IInv, SetDone, TypeOK, DeviceGoto, mainVars, timerVars, NextSlotPcs,
         DevicePcs
<1>2. ListInv'
  BY DEF IInv, SetDone, ListInv, Positions, DeviceGoto, mainVars, timerVars
<1>3. FlagInv'
  BY DEF IInv, SetDone, TypeOK, FlagInv, DonePcs, DeviceGoto
<1>4. LockInv'
  BY DEF IInv, SetDone, LockInv, DeviceGoto, mainVars, timerVars
<1>5. StageInv'
  BY DEF IInv, SetDone, StageInv, DeviceGoto, mainVars, timerVars
<1>6. SlotInv'
  BY DEF IInv, SetDone, SlotInv, Positions, Scanned, Unreleased, Counted,
         mainVars, timerVars
<1> QED BY <1>1, <1>2, <1>3, <1>4, <1>5, <1>6 DEF IInv

(* fsh is set; the scan may meet it at once.                               *)
LEMMA SetFshKeeps ==
    ASSUME IInv, NEW d \in Devices, SetFsh(d) PROVE IInv'
<1>1. TypeOK'
  BY DEF IInv, SetFsh, TypeOK, DeviceGoto, mainVars, timerVars, DetachPcs,
         DevicePcs
<1>2. ListInv'
  BY DEF IInv, SetFsh, ListInv, Positions, DeviceGoto, mainVars, timerVars
<1>3. FlagInv'
  BY DEF IInv, SetFsh, TypeOK, FlagInv, DonePcs, DeviceGoto
<1>4. LockInv'
  BY DEF IInv, SetFsh, LockInv, DeviceGoto, mainVars, timerVars
<1>5. StageInv'
  BY DEF IInv, SetFsh, StageInv, DeviceGoto, mainVars, timerVars
<1>6. SlotInv'
  BY DEF IInv, SetFsh, SlotInv, Positions, Scanned, Unreleased, Counted,
         mainVars, timerVars
<1> QED BY <1>1, <1>2, <1>3, <1>4, <1>5, <1>6 DEF IInv

(* The signal wakes the scan if it sleeps on this device.                  *)
LEMMA SignalEventKeeps ==
    ASSUME IInv, NEW d \in Devices, SignalEvent(d) PROVE IInv'
<1>1. TypeOK'
  BY DEF IInv, SignalEvent, TypeOK, DeviceGoto, mainVars, sharedVars, ScanPcs,
         TimerPcs, NextSlotPcs, DetachPcs, DevicePcs
<1>2. ListInv'
  BY DEF IInv, SignalEvent, TypeOK, ListInv, Positions, DeviceGoto, mainVars
<1>3. FlagInv'
  BY DEF IInv, SignalEvent, TypeOK, ListInv, FlagInv, DonePcs, DeviceGoto,
         sharedVars
<1>4. LockInv'
  BY DEF IInv, SignalEvent, TypeOK, LockInv, DeviceGoto, mainVars, sharedVars
<1>5. StageInv'
  BY DEF IInv, SignalEvent, TypeOK, StageInv, DeviceGoto, mainVars, sharedVars
<1>6. SlotInv'
  BY DEF IInv, SignalEvent, SlotInv, Positions, Scanned, Unreleased, Counted,
         mainVars, sharedVars, ReleasePcs
<1> QED BY <1>1, <1>2, <1>3, <1>4, <1>5, <1>6 DEF IInv

(* The event_lock is given back.                                           *)
LEMMA DeviceUnlocksEventKeeps ==
    ASSUME IInv, NEW d \in Devices, DeviceUnlocksEvent(d) PROVE IInv'
<1>1. TypeOK'
  BY DEF IInv, DeviceUnlocksEvent, TypeOK, FlagInv, DeviceGoto, mainVars,
         timerVars, NextSlotPcs, DevicePcs, Holders
<1>2. ListInv'
  BY DEF IInv, DeviceUnlocksEvent, TypeOK, ListInv, Positions, DeviceGoto,
         mainVars, timerVars
<1>3. FlagInv'
  BY DEF IInv, DeviceUnlocksEvent, TypeOK, FlagInv, DonePcs, DeviceGoto
<1>4. LockInv'
  BY DEF IInv, DeviceUnlocksEvent, TypeOK, LockInv, DeviceGoto, mainVars,
         timerVars, DevicePcs
<1>5. StageInv'
  BY DEF IInv, DeviceUnlocksEvent, TypeOK, StageInv, DeviceGoto, mainVars,
         timerVars
<1>6. SlotInv'
  BY DEF IInv, DeviceUnlocksEvent, SlotInv, Positions, Scanned, Unreleased,
         Counted, mainVars, timerVars
<1> QED BY <1>1, <1>2, <1>3, <1>4, <1>5, <1>6 DEF IInv

(* A device takes its timer_lock, to test done.                            *)
LEMMA DeviceLocksTimerKeeps ==
    ASSUME IInv, NEW d \in Devices, DeviceLocksTimer(d) PROVE IInv'
<1>1. TypeOK'
  BY DEF IInv, DeviceLocksTimer, TypeOK, DeviceGoto, mainVars, timerVars,
         NextSlotPcs, DevicePcs, Holders
<1>2. ListInv'
  BY DEF IInv, DeviceLocksTimer, TypeOK, ListInv, Positions, DeviceGoto,
         mainVars, timerVars
<1>3. FlagInv'
  BY DEF IInv, DeviceLocksTimer, TypeOK, FlagInv, DonePcs, DeviceGoto
<1>4. LockInv'
  BY DEF IInv, DeviceLocksTimer, TypeOK, LockInv, DeviceGoto, mainVars,
         timerVars
<1>5. StageInv'
  BY DEF IInv, DeviceLocksTimer, FlagInv, StageInv, DeviceGoto, mainVars,
         timerVars
<1>6. SlotInv'
  BY DEF IInv, DeviceLocksTimer, SlotInv, Positions, Scanned, Unreleased,
         Counted, mainVars, timerVars
<1> QED BY <1>1, <1>2, <1>3, <1>4, <1>5, <1>6 DEF IInv

(* A device that is not released sleeps and gives the lock up.             *)
LEMMA WaitTimerKeeps ==
    ASSUME IInv, NEW d \in Devices, WaitTimer(d) PROVE IInv'
<1>1. TypeOK'
  BY DEF IInv, WaitTimer, TypeOK, DeviceGoto, mainVars, timerVars, NextSlotPcs,
         DevicePcs, Holders
<1>2. ListInv'
  BY DEF IInv, WaitTimer, ListInv, Positions, DeviceGoto, mainVars, timerVars
<1>3. FlagInv'
  BY DEF IInv, WaitTimer, FlagInv, DonePcs, DeviceGoto
<1>4. LockInv'
  BY DEF IInv, WaitTimer, TypeOK, LockInv, DeviceGoto, mainVars, timerVars
<1>5. StageInv'
  BY DEF IInv, WaitTimer, StageInv, DeviceGoto, mainVars, timerVars
<1>6. SlotInv'
  BY DEF IInv, WaitTimer, SlotInv, Positions, Scanned, Unreleased, Counted,
         mainVars, timerVars
<1> QED BY <1>1, <1>2, <1>3, <1>4, <1>5, <1>6 DEF IInv

(* A device whose flag was cleared goes on.                                *)
LEMMA ReleasedKeeps ==
    ASSUME IInv, NEW d \in Devices, Released(d) PROVE IInv'
<1>1. TypeOK'
  BY DEF IInv, Released, TypeOK, DeviceGoto, mainVars, sharedVars, timerVars,
         NextSlotPcs, DevicePcs
<1>2. ListInv'
  BY DEF IInv, Released, ListInv, Positions, DeviceGoto, mainVars, timerVars
<1>3. FlagInv'
  BY DEF IInv, Released, FlagInv, DeviceGoto, sharedVars
<1>4. LockInv'
  BY DEF IInv, Released, LockInv, DeviceGoto, mainVars, sharedVars, timerVars
<1>5. StageInv'
  BY DEF IInv, Released, StageInv, DeviceGoto, mainVars, sharedVars, timerVars
<1>6. SlotInv'
  BY DEF IInv, Released, SlotInv, Positions, Scanned, Unreleased, Counted,
         mainVars, sharedVars, timerVars
<1> QED BY <1>1, <1>2, <1>3, <1>4, <1>5, <1>6 DEF IInv

(* The timer_lock is given back, the next slot begins.                     *)
LEMMA DeviceUnlocksTimerKeeps ==
    ASSUME IInv, NEW d \in Devices, DeviceUnlocksTimer(d) PROVE IInv'
<1>1. TypeOK'
  BY DEF IInv, DeviceUnlocksTimer, TypeOK, DeviceGoto, mainVars, timerVars,
         DevicePcs, Holders
<1>2. ListInv'
  BY DEF IInv, DeviceUnlocksTimer, ListInv, Positions, DeviceGoto, mainVars,
         timerVars
<1>3. FlagInv'
  BY DEF IInv, DeviceUnlocksTimer, FlagInv, DonePcs, DeviceGoto
<1>4. LockInv'
  BY DEF IInv, DeviceUnlocksTimer, TypeOK, LockInv, DeviceGoto, mainVars,
         timerVars
<1>5. StageInv'
  BY DEF IInv, DeviceUnlocksTimer, StageInv, DeviceGoto, mainVars, timerVars
<1>6. SlotInv'
  BY DEF IInv, DeviceUnlocksTimer, SlotInv, Positions, Scanned, Unreleased,
         Counted, mainVars, timerVars
<1> QED BY <1>1, <1>2, <1>3, <1>4, <1>5, <1>6 DEF IInv

(* A wakeup without signal only changes the device's pc.                   *)
LEMMA SpuriousDeviceKeeps ==
    ASSUME IInv, NEW d \in Devices, SpuriousDevice(d) PROVE IInv'
<1>1. TypeOK'
  BY DEF IInv, SpuriousDevice, TypeOK, DeviceGoto, mainVars, sharedVars,
         timerVars, NextSlotPcs, DevicePcs
<1>2. ListInv'
  BY DEF IInv, SpuriousDevice, ListInv, Positions, DeviceGoto, mainVars,
         timerVars
<1>3. FlagInv'
  BY DEF IInv, SpuriousDevice, FlagInv, DonePcs, DeviceGoto, sharedVars
<1>4. LockInv'
  BY DEF IInv, SpuriousDevice, LockInv, DeviceGoto, mainVars, sharedVars,
         timerVars
<1>5. StageInv'
  BY DEF IInv, SpuriousDevice, StageInv, DeviceGoto, mainVars, sharedVars,
         timerVars
<1>6. SlotInv'
  BY DEF IInv, SpuriousDevice, SlotInv, Positions, Scanned, Unreleased, Counted,
         mainVars, sharedVars, timerVars
<1> QED BY <1>1, <1>2, <1>3, <1>4, <1>5, <1>6 DEF IInv

(* The inductive step, action by action.                                   *)
LEMMA NextKeeps == IInv /\ [Next]_vars => IInv'
<1> SUFFICES ASSUME IInv, [Next]_vars PROVE IInv'
  OBVIOUS
<1>1. CASE MainStep
  BY <1>1,
     StartTimerKeeps, StopTimerKeeps, JoinAndFreeKeeps DEF MainStep
<1>2. CASE TimerStep
  BY <1>2,
     LoopHeadKeeps, LockEventKeeps, ScanOverKeeps, WaitEventKeeps,
     WokenEventKeeps, CountEventKeeps, UnlockEventKeeps, TimeStepKeeps,
     LockTimerKeeps, ClearDoneKeeps, SignalTimerKeeps, UnlockTimerKeeps,
     ReleaseOverKeeps, CompareKeeps DEF TimerStep
<1>3. CASE SpuriousTimer
  BY <1>3, SpuriousTimerKeeps
<1>4. ASSUME NEW d \in Devices, DeviceSync(d) PROVE IInv'
  BY <1>4,
     DeviceLocksEventKeeps, SetDoneKeeps, SetFshKeeps, SignalEventKeeps,
     DeviceUnlocksEventKeeps, DeviceLocksTimerKeeps, WaitTimerKeeps,
     ReleasedKeeps, DeviceUnlocksTimerKeeps DEF DeviceSync
<1>5. ASSUME NEW d \in Devices,
             \/ AttachEvent(d) \/ CreateThread(d) \/ CallNextSlot(d)
             \/ CallDetach(d) \/ SpuriousDevice(d)
      PROVE  IInv'
  BY <1>5,
     AttachEventKeeps, CreateThreadKeeps, CallNextSlotKeeps,
     CallDetachKeeps, SpuriousDeviceKeeps
<1>6. CASE UNCHANGED vars
  BY <1>6 DEF IInv, TypeOK, ListInv, FlagInv, LockInv, StageInv, SlotInv, vars,
     Positions, Scanned, Unreleased, Counted
<1> QED BY <1>1, <1>2, <1>3, <1>4, <1>5, <1>6 DEF Next, Terminated

(* Before main has done anything the invariant holds.                      *)
LEMMA InitEstablishes == Init => IInv
<1> SUFFICES ASSUME Init PROVE IInv
  OBVIOUS
<1>1. dev_list = << >> /\ Positions = {}
  BY DEF Init, Positions
<1>2. TypeOK
  BY TimerAssumption DEF Init, TypeOK, Holders, TimerPcs, DevicePcs, MainPcs
<1>3. ListInv
  BY <1>1 DEF Init, ListInv
<1>4. FlagInv /\ LockInv
  BY DEF Init, FlagInv, LockInv, DonePcs
<1>5. StageInv
  BY DEF Init, StageInv
<1>6. SlotInv
  BY <1>1 DEF Init, SlotInv, Scanned, Unreleased, Counted
<1> QED BY <1>2, <1>3, <1>4, <1>5, <1>6 DEF IInv

(* The invariant holds in every reachable state.                           *)
LEMMA Inductive == SafeSpec => []IInv
  BY InitEstablishes, NextKeeps, PTL DEF SafeSpec

(* Every variable of the protocol keeps its type, for any devices.         *)
THEOREM TypeCorrect == SafeSpec => []TypeOK
<1>1. IInv => TypeOK
  BY DEF IInv
<1> QED BY <1>1, Inductive, PTL

(* done, fsh and _time are never written while another thread is at them,  *)
(* although done is written under two different locks and _time is read    *)
(* under none (timer.c:50, 64, 80).                                        *)
THEOREM RaceFree == SafeSpec => []NoDataRace
<1>1. IInv => NoDataRace
  <2> SUFFICES ASSUME IInv PROVE NoDataRace
    OBVIOUS
  <2>1. ASSUME ~AtEnd PROVE temp \in Positions /\ Current \in Devices
    BY <2>1 DEF IInv, TypeOK, AtEnd, Current, Positions
  <2>2. ASSUME tpc = "test", ~AtEnd PROVE dpc[Current] \notin {"ns_set", "de_set"}
    BY <2>1, <2>2 DEF IInv, LockInv, TypeOK, Holders, Current, Positions
  <2>3. ASSUME tpc = "clear", ~AtEnd PROVE dpc[Current] \notin {"ns_set", "ns_test"}
    <3>1. done[Current] = 1 \/ fsh[Current] = 1
      BY <2>1, <2>3 DEF IInv, SlotInv, TypeOK, Unreleased, Current, Positions
    <3>2. dpc[Current] # "ns_set"
      BY <2>1, <2>3, <3>1 DEF IInv, FlagInv, DonePcs
    <3>3. dpc[Current] # "ns_test"
      BY <2>1, <2>3 DEF IInv, LockInv, TypeOK, Current, Positions
    <3> QED BY <3>2, <3>3
  <2>4. ASSUME tpc = "tick", NEW d \in Devices PROVE dpc[d] # "work"
    <3>1. mpc # "freed" /\ Scanned = Positions
      BY <2>4 DEF IInv, StageInv, Scanned
    <3>2. \A i \in Positions : done[dev_list[i]] = 1 \/ fsh[dev_list[i]] = 1
      BY <3>1 DEF IInv, SlotInv
    <3>3. dpc[d] # "absent" => done[d] = 1 \/ fsh[d] = 1
      BY <3>1, <3>2 DEF IInv, ListInv
    <3> QED BY <3>3 DEF IInv, FlagInv, DonePcs
  <2> QED BY <2>2, <2>3, <2>4 DEF NoDataRace
<1> QED BY <1>1, Inductive, PTL

(***************************************************************************)
(* The mutexes and condition variables implement the barrier.              *)
(***************************************************************************)
StillToRelease(d) == \E i \in Unreleased : dev_list[i] = d

(* Nobody is attached yet, in either specification.                        *)
LEMMA BarrierInit == Init => B!Init
  BY DEF Init, B!Init, phaseBar, stageBar, PhaseOf

(* What the abstract state depends on.                                     *)
LEMMA SamePhases ==
    ASSUME UNCHANGED <<done, fsh>>,
           \A d \in Devices : dpc'[d] = "absent" <=> dpc[d] = "absent",
           \A d \in Devices : StillToRelease(d)' <=> StillToRelease(d)
    PROVE  phaseBar' = phaseBar
<1>1. \A d \in Devices : PhaseOf(d)' = PhaseOf(d)
  BY DEF PhaseOf, StillToRelease
<1> QED BY <1>1 DEF phaseBar

(* The steps of the clock thread that the barrier does not see.            *)
LEMMA TimerStutters ==
    ASSUME IInv,
           \/ LockEvent \/ ScanOver \/ WaitEvent \/ WokenEvent \/ CountEvent
           \/ UnlockEvent \/ LockTimer \/ SignalTimer \/ UnlockTimer \/ ReleaseOver
           \/ SpuriousTimer \/ (LoopHead /\ timer_stop = 0)
           \/ (Compare /\ fsh_count # event_count)
    PROVE  UNCHANGED <<phaseBar, time, stageBar>>
<1>1. UNCHANGED <<done, fsh, time, mpc>> /\ (tpc = "exit" <=> tpc' = "exit")
  BY DEF LockEvent, ScanOver, WaitEvent, WokenEvent, CountEvent, UnlockEvent, LockTimer,
     SignalTimer, UnlockTimer, ReleaseOver, SpuriousTimer, LoopHead, Compare,
     mainVars, sharedVars
<1>2. \A d \in Devices : dpc'[d] = "absent" <=> dpc[d] = "absent"
  BY DEF IInv, TypeOK, LockEvent, ScanOver, WaitEvent, WokenEvent, CountEvent, UnlockEvent,
     LockTimer, SignalTimer, UnlockTimer, ReleaseOver, SpuriousTimer, LoopHead, Compare,
     mainVars, sharedVars
<1>3. dev_list' = dev_list /\ Unreleased' = Unreleased
  <2>1. dev_list' = dev_list /\ Positions' = Positions /\ temp \in Nat /\ Len(dev_list) \in Nat
    BY DEF IInv, TypeOK, Positions, LockEvent, ScanOver, WaitEvent, WokenEvent, CountEvent,
       UnlockEvent, LockTimer, SignalTimer, UnlockTimer, ReleaseOver, SpuriousTimer,
       LoopHead, Compare, mainVars
  <2> QED BY <2>1 DEF Unreleased, Positions, AtEnd, LockEvent, ScanOver, WaitEvent,
          WokenEvent, CountEvent, UnlockEvent, LockTimer, SignalTimer, UnlockTimer,
          ReleaseOver, SpuriousTimer, LoopHead, Compare
<1>4. phaseBar' = phaseBar
  BY <1>1, <1>2, <1>3, SamePhases DEF StillToRelease
<1> QED BY <1>1, <1>4 DEF stageBar

(* The steps of the devices that the barrier does not see.                 *)
LEMMA DeviceStutters ==
    ASSUME IInv, NEW d \in Devices,
           \/ CreateThread(d) \/ CallNextSlot(d) \/ CallDetach(d) \/ DeviceLocksEvent(d)
           \/ SignalEvent(d) \/ DeviceUnlocksEvent(d) \/ DeviceLocksTimer(d)
           \/ WaitTimer(d) \/ Released(d) \/ DeviceUnlocksTimer(d) \/ SpuriousDevice(d)
    PROVE  UNCHANGED <<phaseBar, time, stageBar>>
<1>1. UNCHANGED <<done, fsh, time, mpc, dev_list, temp>>
  BY DEF CreateThread, CallNextSlot, CallDetach, DeviceLocksEvent, SignalEvent,
     DeviceUnlocksEvent, DeviceLocksTimer, WaitTimer, Released, DeviceUnlocksTimer,
     SpuriousDevice, mainVars, sharedVars, timerVars
<1>2. tpc' = tpc \/ (tpc = "asleep" /\ tpc' = "woken")
  BY DEF CreateThread, CallNextSlot, CallDetach, DeviceLocksEvent, SignalEvent,
     DeviceUnlocksEvent, DeviceLocksTimer, WaitTimer, Released, DeviceUnlocksTimer,
     SpuriousDevice, timerVars
<1>3. \A e \in Devices : dpc'[e] = "absent" <=> dpc[e] = "absent"
  BY DEF IInv, TypeOK, DeviceGoto, CreateThread, CallNextSlot, CallDetach, DeviceLocksEvent,
     SignalEvent, DeviceUnlocksEvent, DeviceLocksTimer, WaitTimer, Released,
     DeviceUnlocksTimer, SpuriousDevice
<1>4. Unreleased' = Unreleased
  BY <1>1, <1>2 DEF Unreleased, Positions
<1>5. phaseBar' = phaseBar
  BY <1>1, <1>3, <1>4, SamePhases DEF StillToRelease
<1> QED BY <1>1, <1>2, <1>5 DEF stageBar

(* Clearing a flag is not seen either: the device is released since the    *)
(* clock moved.                                                            *)
LEMMA ClearStutters == ASSUME IInv, ClearDone PROVE UNCHANGED <<phaseBar, time, stageBar>>
<1>1. /\ UNCHANGED <<fsh, time, mpc, dev_list, temp, dpc>>
      /\ done' = [done EXCEPT ![Current] = 0] /\ tpc = "clear" /\ tpc' = "signal"
  BY DEF ClearDone, mainVars
<1>2. temp \in Positions /\ Positions' = Positions /\ Positions \subseteq Nat
  BY <1>1 DEF IInv, TypeOK, ListInv, Positions
<1>3. Unreleased = Unreleased' \cup {temp} /\ temp \notin Unreleased'
  BY <1>1, <1>2 DEF IInv, TypeOK, Unreleased, Positions
<1>4. ASSUME NEW e \in Devices PROVE PhaseOf(e)' = PhaseOf(e)
  <2>1. CASE e = Current
    BY <1>1, <1>2, <1>3, <2>1 DEF IInv, TypeOK, PhaseOf, Current
  <2>2. CASE e # Current
    BY <1>1, <1>2, <1>3, <2>2 DEF IInv, TypeOK, PhaseOf, Current
  <2> QED BY <2>1, <2>2
<1> QED BY <1>1, <1>4 DEF phaseBar, stageBar

(* Every listed device is done or finished when the clock moves, and all   *)
(* of them are released at once.                                           *)
LEMMA TimeStepTicks == ASSUME IInv, TimeStep PROVE B!Tick
<1>1. /\ tpc = "tick" /\ tpc' = "lock_timer" /\ temp' = 1 /\ time' = Advance(time)
      /\ UNCHANGED <<done, fsh, mpc, dev_list, dpc>>
  BY DEF TimeStep, mainVars, sharedVars
<1>2. mpc \notin {"setup", "freed"}
  BY <1>1 DEF IInv, StageInv
<1>3. Unreleased = {} /\ Unreleased' = Positions
  BY <1>1 DEF IInv, TypeOK, Unreleased, Positions
<1>4. \A d \in Devices : dpc[d] # "absent" <=> \E i \in Positions : dev_list[i] = d
  BY <1>2 DEF IInv, ListInv
<1>5. \A i \in Positions : done[dev_list[i]] = 1 \/ fsh[dev_list[i]] = 1
  BY <1>1 DEF IInv, SlotInv, Scanned
<1>6. \A d \in Devices : fsh[d] \in {0, 1} /\ done[d] \in {0, 1}
  BY DEF IInv, TypeOK
<1>7. ASSUME NEW d \in Devices
      PROVE  /\ PhaseOf(d) # "working"
             /\ PhaseOf(d)' = IF PhaseOf(d) = "arrived" THEN "working" ELSE PhaseOf(d)
  BY <1>1, <1>3, <1>4, <1>5, <1>6 DEF PhaseOf
<1> QED BY <1>1, <1>2, <1>7 DEF B!Tick, B!Advance, Advance, phaseBar, stageBar

(* SetDone and SetFsh happen only to a device the barrier sees at work.    *)
LEMMA SetterWorks ==
    ASSUME IInv, NEW d \in Devices, dpc[d] \in {"ns_set", "de_set"}
    PROVE  fsh[d] = 0 /\ done[d] = 0 /\ ~StillToRelease(d) /\ stageBar = "running"
<1>1. fsh[d] = 0 /\ done[d] = 0
  BY DEF IInv, TypeOK, FlagInv, DonePcs
<1>2. ~StillToRelease(d)
  BY <1>1 DEF IInv, SlotInv, StillToRelease
<1>3. tpc # "exit" /\ mpc # "setup"
  BY <1>1 DEF IInv, StageInv
<1> QED BY <1>1, <1>2, <1>3 DEF stageBar

(* next_slot's store to done is the arrival at the barrier.                *)
LEMMA SetDoneArrives == ASSUME IInv, NEW d \in Devices, SetDone(d) PROVE B!Arrive(d)
<1>1. /\ dpc[d] = "ns_set" /\ dpc' = [dpc EXCEPT ![d] = "ns_signal"]
      /\ done' = [done EXCEPT ![d] = 1]
      /\ UNCHANGED <<fsh, time, mpc, tpc, temp, dev_list>>
  BY DEF SetDone, DeviceGoto, mainVars, timerVars
<1>2. fsh[d] = 0 /\ done[d] = 0 /\ ~StillToRelease(d) /\ stageBar = "running"
  BY <1>1, SetterWorks
<1>3. Unreleased' = Unreleased
  BY <1>1 DEF Unreleased, Positions
<1>4. PhaseOf(d) = "working" /\ PhaseOf(d)' = "arrived"
  BY <1>1, <1>2, <1>3 DEF IInv, TypeOK, PhaseOf, StillToRelease
<1>5. \A e \in Devices : e # d => PhaseOf(e)' = PhaseOf(e)
  BY <1>1, <1>3 DEF IInv, TypeOK, PhaseOf
<1>6. stageBar' = stageBar
  BY <1>1 DEF stageBar
<1>7. phaseBar' = [phaseBar EXCEPT ![d] = "arrived"]
  BY <1>4, <1>5 DEF phaseBar
<1>8. phaseBar[d] = "working"
  BY <1>4 DEF phaseBar
<1> QED BY <1>1, <1>2, <1>6, <1>7, <1>8 DEF B!Arrive

(* detach_event's store to fsh is the departure from the barrier.          *)
LEMMA SetFshLeaves == ASSUME IInv, NEW d \in Devices, SetFsh(d) PROVE B!Leave(d)
<1>1. /\ dpc[d] = "de_set" /\ dpc' = [dpc EXCEPT ![d] = "de_signal"]
      /\ fsh' = [fsh EXCEPT ![d] = 1]
      /\ UNCHANGED <<done, time, mpc, tpc, temp, dev_list>>
  BY DEF SetFsh, DeviceGoto, mainVars, timerVars
<1>2. fsh[d] = 0 /\ done[d] = 0 /\ ~StillToRelease(d) /\ stageBar = "running"
  BY <1>1, SetterWorks
<1>3. Unreleased' = Unreleased
  BY <1>1 DEF Unreleased, Positions
<1>4. PhaseOf(d) = "working" /\ PhaseOf(d)' = "left"
  BY <1>1, <1>2 DEF IInv, TypeOK, PhaseOf
<1>5. \A e \in Devices : e # d => PhaseOf(e)' = PhaseOf(e)
  BY <1>1, <1>3 DEF IInv, TypeOK, PhaseOf
<1>6. stageBar' = stageBar
  BY <1>1 DEF stageBar
<1>7. phaseBar' = [phaseBar EXCEPT ![d] = "left"]
  BY <1>4, <1>5 DEF phaseBar
<1>8. phaseBar[d] = "working"
  BY <1>4 DEF phaseBar
<1> QED BY <1>1, <1>2, <1>6, <1>7, <1>8 DEF B!Leave

(* attach_event makes its device a working member of the barrier.          *)
LEMMA AttachEventAttaches ==
    ASSUME IInv, NEW d \in Devices, AttachEvent(d) PROVE B!Attach(d)
<1>1. /\ dpc[d] = "absent" /\ dpc' = [dpc EXCEPT ![d] = "attached"]
      /\ done' = [done EXCEPT ![d] = 0] /\ fsh' = [fsh EXCEPT ![d] = 0]
      /\ mpc = "setup" /\ UNCHANGED <<time, mpc, tpc>>
  BY DEF AttachEvent, timerVars
<1>2. tpc = "unborn"
  BY <1>1 DEF IInv, StageInv
<1>3. Unreleased = {} /\ Unreleased' = {}
  BY <1>1, <1>2 DEF Unreleased
<1>4. fsh[d] = 0
  BY <1>1 DEF IInv, TypeOK, FlagInv
<1>5. PhaseOf(d) = "absent" /\ PhaseOf(d)' = "working"
  BY <1>1, <1>4 DEF IInv, TypeOK, PhaseOf
<1>6. \A e \in Devices : e # d => PhaseOf(e)' = PhaseOf(e)
  BY <1>1, <1>3 DEF IInv, TypeOK, PhaseOf
<1>7. phaseBar' = [phaseBar EXCEPT ![d] = "working"] /\ phaseBar[d] = "absent"
  BY <1>5, <1>6 DEF phaseBar
<1> QED BY <1>1, <1>7 DEF B!Attach, stageBar

(* The clock thread ends when all it counted had finished, or when it is   *)
(* stopped, which happens only once every device has detached.             *)
LEMMA EndCloses ==
    ASSUME IInv, \/ Compare /\ fsh_count = event_count
                 \/ LoopHead /\ timer_stop = 1
    PROVE  B!Close
<1>1. /\ UNCHANGED <<done, fsh, time, mpc, dev_list, dpc>>
      /\ tpc' = "exit" /\ tpc \in {"head", "compare"}
  BY DEF Compare, LoopHead, mainVars, sharedVars
<1>2. mpc \notin {"setup", "freed"}
  BY <1>1 DEF IInv, StageInv
<1>3. \A d \in Devices : dpc[d] = "absent" \/ fsh[d] = 1
  <2>1. CASE Compare /\ fsh_count = event_count
    BY <1>2, <2>1 DEF IInv, ListInv, SlotInv, Compare, Counted
  <2>2. CASE LoopHead /\ timer_stop = 1
    BY <2>2 DEF IInv, StageInv, FlagInv
  <2> QED BY <2>1, <2>2
<1>4. \A d \in Devices : PhaseOf(d) \in {"absent", "left"} /\ PhaseOf(d)' = PhaseOf(d)
  BY <1>1, <1>3 DEF PhaseOf
<1> QED BY <1>1, <1>2, <1>4 DEF B!Close, phaseBar, stageBar

(* Every step of timer.c is a step of the barrier, or none.                *)
LEMMA BarrierStep == IInv /\ [Next]_vars => [B!Next]_(B!vars)
<1> SUFFICES ASSUME IInv, [Next]_vars PROVE [B!Next]_(B!vars)
  OBVIOUS
<1> USE DEF B!vars
<1>1. CASE StartTimer
  <2>1. UNCHANGED <<done, fsh, dev_list, dpc, time>> /\ tpc' = "head" /\ mpc = "setup"
        /\ mpc' = "running"
    BY <1>1 DEF StartTimer, sharedVars
  <2>2. Unreleased = {} /\ Unreleased' = {}
    BY <2>1 DEF IInv, StageInv, Unreleased
  <2>3. phaseBar' = phaseBar
    BY <2>1, <2>2, SamePhases DEF StillToRelease
  <2> QED BY <2>1, <2>3 DEF B!Next, B!Start, stageBar
<1>2. CASE StopTimer \/ UNCHANGED vars
  <2>1. UNCHANGED <<done, fsh, dev_list, dpc, time, tpc, temp>> /\ (mpc = "setup" <=> mpc' = "setup")
    BY <1>2 DEF StopTimer, vars, sharedVars, timerVars
  <2>2. Unreleased' = Unreleased
    BY <2>1 DEF Unreleased, Positions
  <2>3. phaseBar' = phaseBar
    BY <2>1, <2>2, SamePhases DEF StillToRelease
  <2> QED BY <2>1, <2>3 DEF stageBar
<1>3. CASE JoinAndFree
  <2>1. UNCHANGED <<done, fsh, dpc, time, tpc>> /\ tpc = "exit" /\ mpc' = "freed"
        /\ mpc = "stopping"
    BY <1>3 DEF JoinAndFree, sharedVars, timerVars
  <2>2. Unreleased = {} /\ Unreleased' = {}
    BY <2>1 DEF Unreleased
  <2>3. phaseBar' = phaseBar
    BY <2>1, <2>2, SamePhases DEF StillToRelease
  <2> QED BY <2>1, <2>3 DEF stageBar
<1>4. CASE TimerStep \/ SpuriousTimer
  <2>1. CASE ClearDone
    BY <2>1, ClearStutters
  <2>2. CASE TimeStep
    BY <2>2, TimeStepTicks DEF B!Next
  <2>3. CASE \/ Compare /\ fsh_count = event_count
             \/ LoopHead /\ timer_stop = 1
    BY <2>3, EndCloses DEF B!Next
  <2>4. CASE \/ LockEvent \/ ScanOver \/ WaitEvent \/ WokenEvent \/ CountEvent
             \/ UnlockEvent \/ LockTimer \/ SignalTimer \/ UnlockTimer \/ ReleaseOver
             \/ SpuriousTimer \/ (LoopHead /\ timer_stop = 0)
             \/ (Compare /\ fsh_count # event_count)
    BY <2>4, TimerStutters
  <2>5. LoopHead => timer_stop = 0 \/ timer_stop = 1
    BY DEF IInv, TypeOK
  <2> QED BY <1>4, <2>1, <2>2, <2>3, <2>4, <2>5 DEF TimerStep
<1>5. ASSUME NEW d \in Devices, SetDone(d) PROVE [B!Next]_(B!vars)
  BY <1>5, SetDoneArrives DEF B!Next
<1>6. ASSUME NEW d \in Devices, SetFsh(d) PROVE [B!Next]_(B!vars)
  BY <1>6, SetFshLeaves DEF B!Next
<1>7. ASSUME NEW d \in Devices, AttachEvent(d) PROVE [B!Next]_(B!vars)
  BY <1>7, AttachEventAttaches DEF B!Next
<1>8. ASSUME NEW d \in Devices,
             \/ CreateThread(d) \/ CallNextSlot(d) \/ CallDetach(d) \/ DeviceLocksEvent(d)
             \/ SignalEvent(d) \/ DeviceUnlocksEvent(d) \/ DeviceLocksTimer(d)
             \/ WaitTimer(d) \/ Released(d) \/ DeviceUnlocksTimer(d) \/ SpuriousDevice(d)
      PROVE  [B!Next]_(B!vars)
  BY <1>8, DeviceStutters
<1> QED BY <1>1, <1>2, <1>3, <1>4, <1>5, <1>6, <1>7, <1>8
        DEF Next, MainStep, DeviceSync, Terminated

(* Every behaviour of timer.c is one of the abstract barrier: no arrival   *)
(* is erased by the release loop, no slot starts before all have ended the *)
(* previous one, and the clock ends only when every device has left.       *)
THEOREM TimerImplementsBarrier == SafeSpec => B!SafeSpec
  BY BarrierInit, BarrierStep, Inductive, PTL DEF SafeSpec, B!SafeSpec
==============================================================================
