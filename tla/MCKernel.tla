------------------------------- MODULE MCKernel -------------------------------
(* Workloads for Kernel: what a configuration file and the process files   *)
(* it names say, cut down to two CPUs and two priority levels.             *)
EXTENDS Kernel

CONSTANTS c1, c2

Work(n) == [i \in 1..n |-> Calc]

(* Three computations: two share the upper level; the loader has to wait   *)
(* some time slots for the third, of the lower level.                      *)
CalcCode == <<Work(3), Work(2), Work(2)>>
CalcName == <<<<"a">>, <<"b">>, <<"c">>>>
CalcPrio == <<0, 0, 1>>
CalcStart == <<0, 0, 3>>

(* A killer and two victims of one name, of as many letters as load keeps: *)
(* one may run beside it, one waits.                                       *)
KillCode == <<<<Calc, Syscall(101, <<"v", "i">>)>>, <<Syscall(440, << >>), Calc>>, Work(2)>>
KillName == <<<<"k">>, <<"v", "i">>, <<"v", "i">>>>
KillPrio == <<0, 0, 0>>
KillStart == <<0, 0, 0>>

(* A victim that outlives its quantum, so that its CPU puts it back while  *)
(* the killer looks for it.                                                *)
RaceCode == <<<<Calc, Syscall(101, <<"v">>)>>, Work(3)>>
RaceName == <<<<"k">>, <<"v">>>>
RacePrio == <<0, 0>>
RaceStart == <<0, 0>>

(* A victim loaded into the pcb of a process that has ended, and still     *)
(* waiting for a CPU when the killer looks for it.                         *)
RecycleCode == <<Work(1), <<Calc, Calc, Syscall(101, <<"v">>)>>, Work(2)>>
RecycleName == <<<<"a">>, <<"k">>, <<"v">>>>
RecyclePrio == <<0, 0, 0>>
RecycleStart == <<0, 0, 0>>

(* input/os_syscall_list: one process of one instruction.                  *)
ShortCode == <<<<Syscall(0, << >>)>>>>
ShortName == <<<<"s", "c">>>>
ShortPrio == <<0>>
ShortStart == <<1>>
==============================================================================
