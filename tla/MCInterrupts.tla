---------------------------- MODULE MCInterrupts ----------------------------
(***************************************************************************)
(* Constants for Interrupts: the serial port is COM2 and the sound card    *)
(* uses interrupt line 3 too, as ihda_api.rs:117 reports.  Firmware        *)
(* reports no override, the usual one of the PIT, or two of them.          *)
(***************************************************************************)
EXTENDS Interrupts, TLC

MCVector == Pit :> 32 @@ Keyboard :> 33 @@ Serial :> 35 @@ Sound :> 35 @@ ApicTimer :> 249
MCTables == {<<>>, 0 :> 2, 0 :> 2 @@ 3 :> 5}
=============================================================================
