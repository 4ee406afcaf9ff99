-------------------------- MODULE MCInitialization --------------------------
(***************************************************************************)
(* Small machines: addresses below 128, pages of 4 bytes, words of 2.      *)
(***************************************************************************)
EXTENDS Initialization

Tree(readable, base, size, harts) ==
    [readable |-> readable, base |-> base, size |-> size, harts |-> harts]

Two == <<"rv64ah", "rv64ah">>

\* Device trees with memory of every alignment and size, up to memory that
\* crosses the middle of the address space or wraps around, and with harts that
\* are missing, unfit, or fewer than the physical ones.
TestFdts ==
    {Tree(TRUE, base, size, Two) : base \in {0, 2, 3, 4, 56, 100, 126}, size \in 0 .. 64}
    \cup {Tree(TRUE, 4, 24, harts) : harts \in UNION {[1 .. n -> {"rv64ah", "rv64a", "rv32", "missing"}] : n \in 0 .. 3}}
    \cup {Tree(FALSE, 4, 24, Two)}
=============================================================================
