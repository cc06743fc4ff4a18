------------------------------ MODULE MCKernel ------------------------------
(***************************************************************************)
(* The instances of Kernel that TLC checks: who exists at boot, which      *)
(* system calls are made and which signals are sent.                       *)
(***************************************************************************)
EXTENDS Kernel

\* Everything except signals: processes come, work, wait and go.
LifecycleCalls == {"yield", "sleep", "file", "console", "exit", "waitpid", "spawn"}

\* One parent that spawns, waits, and is signalled by its child; both exit.
SignalCalls == {"signal", "waitpid", "spawn", "exit"}
JobSignals  == {"STOP", "CONT", "KILL"}

\* Three processes in front of both gates and of the RP: a spawn asks for
\* FILE_IO while it holds PROC.
GateCalls == {"file", "spawn"}
=============================================================================
