------------------------- MODULE FaultedInstruction -------------------------
(***************************************************************************)
(* The instruction of a confidential hart that accessed memory-mapped I/O: *)
(* how the processor describes it in mtinst, and what the monitor reads    *)
(* from mtinst: the register that takes part in the access and the number  *)
(* of bytes to skip once the hypervisor has emulated it.                   *)
(***************************************************************************)
EXTENDS Integers

\* The field of a word that is width bits wide and starts at bit low.
Field(word, low, width) == (word \div 2 ^ low) % 2 ^ width

\* Loads and stores as the program has them; compressed ones are two bytes long.
\* funct3 is the width of the access and the extension of the datum.
Instructions ==
    [opcode: {"load", "store", "float load", "float store"}, funct3: 0 .. 6, register: 0 .. 31, compressed: BOOLEAN]

IsStore(i) == i.opcode \in {"store", "float store"}

Length(i) == IF i.compressed THEN 2 ELSE 4

Opcode(i) == CASE i.opcode = "load"        -> 3
               [] i.opcode = "float load"  -> 7
               [] i.opcode = "store"       -> 35
               [] i.opcode = "float store" -> 39

\* A transformed instruction: address fields are zero, and bit 1 is zero if the
\* instruction was compressed.
mtinst(i) ==
    Opcode(i) + 2 ^ 12 * i.funct3
        + (IF IsStore(i) THEN 2 ^ 20 ELSE 2 ^ 7) * i.register
        - (IF i.compressed THEN 2 ELSE 0)

\* The encoded length of an instruction of 16 or 32 bits.
instruction_length(word) == IF Field(word, 0, 2) = 3 THEN 4 ELSE 2

NoRegister == -1

\* riscv_decode::decode followed by rd() of a load or rs2() of a store.
decode(word) ==
    CASE Field(word, 0, 7) = 3 /\ Field(word, 12, 3) <= 6  -> Field(word, 7, 5)
      [] Field(word, 0, 7) = 35 /\ Field(word, 12, 3) <= 3 -> Field(word, 20, 5)
      [] OTHER -> NoRegister

\* The fallback on the compressed encodings: C.LW, C.LD, C.SW, C.SD, then the stores
\* and loads relative to the stack pointer.
decode_compressed(word) ==
    LET funct3 == Field(word, 13, 3)
        quadrant == Field(word, 0, 2)
    IN CASE quadrant = 0 /\ funct3 \in {2, 3, 6, 7} -> 8 + Field(word, 2, 3)
         [] quadrant = 2 /\ funct3 \in {2, 3}       -> 0
         [] quadrant = 2 /\ funct3 \in {6, 7}       -> Field(word, 2, 5)
         [] OTHER -> NoRegister

decode_result_register(word) ==
    IF decode(word) # NoRegister THEN decode(word) ELSE decode_compressed(word)

\* The words that are no instruction: zero, and the pseudoinstructions for a fault in the
\* processor's own walk of the guest's page table.
OtherWords == {0, 8192, 8224, 12288, 12320}

\* The assertion of both requests.
has_instruction(word) == Field(word, 0, 1) = 1

\* Faulty variant: the length is taken from the word whose low bits are already set.
guest_page_fault_request_LongOnly(word) ==
    LET instruction == word - Field(word, 0, 2) + 3
    IN [instruction_length |-> instruction_length(instruction), gpr |-> decode_result_register(instruction)]

\* The common part of guest_load_page_fault_request and guest_store_page_fault_request.
\* It is asserted that bit 0 of mtinst is set; the low bits of the expanded
\* instruction are set before it is decoded, so the fallback never finds a register.
guest_page_fault_request(word) ==
    LET instruction == word - Field(word, 0, 2) + 3
    IN [instruction_length |-> IF Field(word, 1, 1) = 1 THEN instruction_length(instruction) ELSE 2,
        gpr |-> decode_result_register(instruction)]
=============================================================================
