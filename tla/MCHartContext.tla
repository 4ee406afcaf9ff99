--------------------------- MODULE MCHartContext ---------------------------
(* The context switches of one hardware hart with two confidential harts.   *)
(* Their MMIO instructions access registers of every class the code treats  *)
(* differently, are of both lengths, and one cannot be decoded.             *)
EXTENDS HartContext

I(opcode, register, compressed) ==
    [opcode |-> opcode, funct3 |-> 3, register |-> register, compressed |-> compressed]

SampleInstructions ==
    {I("load", 0, FALSE), I("load", 10, TRUE), I("load", 17, FALSE), I("load", 31, FALSE),
     I("store", 0, FALSE), I("store", 12, TRUE), I("store", 31, FALSE),
     I("float load", 8, FALSE), I("float store", 10, TRUE)}
=============================================================================
