------------------------------ MODULE Process ------------------------------
(***************************************************************************)
(* The process that serves: the clock its components read (siwx.Clock,     *)
(* whose production implementation is RealClock) and which incarnation is  *)
(* running.  Time is a natural number of ticks and only advances; a crash  *)
(* replaces the process by a new one with empty memory.                    *)
(***************************************************************************)
EXTENDS Naturals

CONSTANTS MaxTime,          \* bound: the last instant of a run
          MaxRestarts       \* bound: how often the process is replaced

ASSUME MaxTimeAssumption == MaxTime \in Nat
ASSUME MaxRestartsAssumption == MaxRestarts \in Nat

VARIABLES now,              \* what Clock.Now() returns
          run               \* how many processes served before this one

process == <<now, run>>

Empty == [x \in {} |-> 0]   \* a map just made

ProcessInit == now = 0 /\ run = 0

(* Time passes between two steps of anybody. *)
Tick == /\ now < MaxTime
        /\ now' = now + 1
        /\ UNCHANGED run

(* The process dies and main starts another. *)
Crash == /\ run < MaxRestarts
         /\ run' = run + 1
         /\ UNCHANGED now
=============================================================================
