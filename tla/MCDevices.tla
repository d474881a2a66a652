----------------------------- MODULE MCDevices -----------------------------
(***************************************************************************)
(* The instance of CpuKeys: the timer and keyboard programs of MCCpu with  *)
(* the history of what their handlers owe the keyboard.                    *)
(***************************************************************************)
EXTENDS MCPrograms, CpuKeys
=============================================================================
