------------------------ MODULE MCSoftwareInterrupts ------------------------
(* The path of the VSSIP bit; the interrupt handler of the confidential     *)
(* flow may or may not see mip.SSIP.                                        *)
EXTENDS SoftwareInterrupts
=============================================================================
