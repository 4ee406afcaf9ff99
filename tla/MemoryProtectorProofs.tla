----------------------- MODULE MemoryProtectorProofs ------------------------
(***************************************************************************)
(* The memory of confidential VMs is safe for any number of VMs, hardware  *)
(* harts and pages and any shape of the page tables.  The inductive        *)
(* invariant says of a copy in progress which entries are Pending: those   *)
(* that the recursion has not handled yet.  Pending entries are still the  *)
(* hypervisor's in the tables' memory and do not exist for the monitor;    *)
(* all others are the same for both.                                       *)
(***************************************************************************)
EXTENDS MemoryProtector, Integers, TLAPS

-----------------------------------------------------------------------------
(* Sequences and finite sets                                               *)

\* What a sequence is made of.
LEMMA LenProperties ==
    ASSUME NEW S, NEW seq \in Seq(S)
    PROVE  /\ Len(seq) \in Nat
           /\ seq \in [1 .. Len(seq) -> S]
           /\ DOMAIN seq = 1 .. Len(seq)
OBVIOUS

\* The empty sequence is the one of length zero.
LEMMA EmptySeq ==
    ASSUME NEW S
    PROVE  /\ <<>> \in Seq(S) /\ Len(<<>>) = 0
           /\ \A seq \in Seq(S) : seq # <<>> => Len(seq) \in Nat \ {0}
OBVIOUS

\* An element of a sequence has the type of the elements.
LEMMA ElementOfSeq ==
    ASSUME NEW S, NEW seq \in Seq(S), NEW n \in 1 .. Len(seq)
    PROVE  seq[n] \in S
OBVIOUS

\* Sequences with the same elements are equal.
LEMMA SeqEqual ==
    ASSUME NEW S, NEW s \in Seq(S), NEW t \in Seq(S),
           Len(s) = Len(t), \A i \in 1 .. Len(s) : s[i] = t[i]
    PROVE  s = t
OBVIOUS

\* The elements of a part of a sequence.
LEMMA SubSeqProperties ==
    ASSUME NEW S, NEW s, NEW m \in Int, NEW n \in Int,
           \A i \in m .. n : s[i] \in S
    PROVE  /\ SubSeq(s, m, n) \in Seq(S)
           /\ Len(SubSeq(s, m, n)) = IF m <= n THEN n - m + 1 ELSE 0
           /\ \A i \in 1 .. (n - m + 1) : SubSeq(s, m, n)[i] = s[m + i - 1]
OBVIOUS

\* The elements of a sequence that got one more.
LEMMA AppendProperties ==
    ASSUME NEW S, NEW seq \in Seq(S), NEW elt \in S
    PROVE  /\ Append(seq, elt) \in Seq(S) /\ Append(seq, elt) # <<>>
           /\ Len(Append(seq, elt)) = Len(seq) + 1
           /\ \A i \in 1 .. Len(seq) : Append(seq, elt)[i] = seq[i]
           /\ Append(seq, elt)[Len(seq) + 1] = elt
OBVIOUS

-----------------------------------------------------------------------------
(* Paths                                                                   *)

\* A path, said of its indices.
LEMMA PathMeaning ==
    ASSUME NEW p
    PROVE  p \in Paths <=> /\ p \in Seq(Nat) /\ Len(p) \in 1..Levels
                           /\ p[1] < RootEntries
                           /\ \A i \in 2..Len(p) : p[i] < Entries
<1>1. ASSUME p \in Paths
      PROVE  /\ p \in Seq(Nat) /\ Len(p) \in 1..Levels
             /\ p[1] < RootEntries
             /\ \A i \in 2..Len(p) : p[i] < Entries
  <2>1. PICK k \in 1..Levels : /\ p \in [1..k -> 0..(RootEntries - 1)]
                               /\ \A i \in 2..k : p[i] < Entries
    BY <1>1, Zenon DEF Paths, PathsOf
  <2>2. k \in Nat /\ RootEntries \in Nat
    BY LevelsAssumption, EntriesAssumption
  <2>3. p \in Seq(Nat) /\ Len(p) = k
    BY <2>1, <2>2
  <2> QED
    BY <2>1, <2>2, <2>3, LevelsAssumption
<1>2. ASSUME p \in Seq(Nat), Len(p) \in 1..Levels, p[1] < RootEntries,
             \A i \in 2..Len(p) : p[i] < Entries
      PROVE  p \in Paths
  <2>1. Entries \in Nat /\ RootEntries \in Nat /\ Entries <= RootEntries
    BY EntriesAssumption
  <2>2. \A i \in 1..Len(p) : p[i] \in 0..(RootEntries - 1)
    BY <1>2, <2>1
  <2>3. p \in [1..Len(p) -> 0..(RootEntries - 1)]
    BY <1>2, <2>2
  <2> QED
    BY <1>2, <2>3 DEF Paths, PathsOf
<1> QED
  BY <1>1, <1>2, Zenon

\* The table of an entry and the index in it.
LEMMA TableFacts ==
    ASSUME NEW c \in Seq(Nat), Len(c) > 0
    PROVE  /\ Table(c) \in Seq(Nat) /\ Len(Table(c)) = Len(c) - 1 /\ Len(c) \in Nat \ {0}
           /\ \A i \in 1..(Len(c) - 1) : Table(c)[i] = c[i]
           /\ Index(c) = c[Len(c)] /\ Index(c) \in Nat
           /\ Table(c) = <<>> <=> Len(c) = 1
<1> DEFINE n == Len(c)
<1>1. n \in Nat \ {0} /\ \A i \in 1..n : c[i] \in Nat
  BY LenProperties, ElementOfSeq
<1> HIDE DEF n
<1>2. 1 \in Int /\ n - 1 \in Int /\ \A i \in 1..(n - 1) : c[i] \in Nat
  BY <1>1
<1>3. /\ SubSeq(c, 1, n - 1) \in Seq(Nat)
      /\ Len(SubSeq(c, 1, n - 1)) = IF 1 <= n - 1 THEN (n - 1) - 1 + 1 ELSE 0
      /\ \A i \in 1..((n - 1) - 1 + 1) : SubSeq(c, 1, n - 1)[i] = c[1 + i - 1]
  BY <1>2, SubSeqProperties
<1> DEFINE t == SubSeq(c, 1, n - 1)
<1> HIDE DEF t
<1>4. Len(t) = n - 1 /\ t \in Seq(Nat)
  BY <1>1, <1>3 DEF t
<1>5. \A i \in 1..(n - 1) : t[i] = c[i]
  BY <1>1, <1>3 DEF t
<1>6. t = <<>> <=> n = 1
  BY <1>1, <1>4, EmptySeq
<1> QED
  BY <1>1, <1>4, <1>5, <1>6 DEF Table, Index, t, n

\* Sequences of the same length and the same members are the same.
LEMMA SameSeq ==
    ASSUME NEW c \in Seq(Nat), NEW d \in Seq(Nat)
    PROVE  c = d <=> Len(c) = Len(d) /\ \A i \in 1..Len(d) : c[i] = d[i]
BY SeqEqual, Zenon

\* What it takes for an entry to be in the table that the entry c points to.
LEMMA TableIs ==
    ASSUME NEW c \in Seq(Nat), NEW p \in Seq(Nat), Len(p) > 0
    PROVE  Table(p) = c <=> Len(p) = Len(c) + 1 /\ \A i \in 1..Len(c) : p[i] = c[i]
<1> DEFINE n == Len(c)
           m == Len(p)
           t == Table(p)
<1>1. /\ t \in Seq(Nat) /\ Len(t) = m - 1 /\ m \in Nat \ {0}
      /\ \A i \in 1..(m - 1) : t[i] = p[i]
  BY TableFacts, Zenon
<1>2. n \in Nat
  BY LenProperties, Zenon
<1>3. t = c <=> Len(t) = n /\ \A i \in 1..n : t[i] = c[i]
  <2>1. t \in Seq(Nat)
    BY <1>1, Zenon
  <2> HIDE DEF t
  <2> QED
    BY <2>1, SameSeq, Zenon
<1> HIDE DEF n, m, t
<1>4. (Len(t) = n <=> m = n + 1) /\ (m = n + 1 => m - 1 = n)
  BY <1>1, <1>2
<1>5. m = n + 1 => \A i \in 1..n : t[i] = p[i]
  BY <1>1, <1>4, Zenon
<1> QED
  BY <1>3, <1>4, <1>5, Zenon DEF n, m, t

\* The indices of a path, and the table it is in.
LEMMA PathIndices ==
    ASSUME NEW p \in Paths
    PROVE  /\ p \in Seq(Nat) /\ Len(p) \in Nat \ {0} /\ Len(p) <= Levels
           /\ \A i \in 1..Len(p) : p[i] \in Nat
           /\ p # <<>>
<1>1. p \in Seq(Nat) /\ Len(p) \in 1..Levels
  BY PathMeaning, Zenon
<1>2. \A i \in 1..Len(p) : p[i] \in Nat
  BY <1>1, ElementOfSeq, Zenon
<1>3. p # <<>>
  BY <1>1, EmptySeq
<1> QED
  BY <1>1, <1>2, <1>3, LevelsAssumption

\* Every entry has its place in a table of the right size.
LEMMA InItsTable ==
    ASSUME NEW p \in Paths
    PROVE  /\ Index(p) \in 0..(TableSize(Table(p)) - 1)
           /\ Table(p) \in Paths \cup {<<>>}
<1> DEFINE n == Len(p)
           t == Table(p)
           x == Index(p)
<1>1. /\ p \in Seq(Nat) /\ n \in 1..Levels
      /\ p[1] < RootEntries /\ \A i \in 2..n : p[i] < Entries
  BY PathMeaning, Zenon
<1>2. /\ Levels \in Nat /\ RootEntries \in Nat /\ Entries \in Nat
  BY LevelsAssumption, EntriesAssumption
<1>3. /\ t \in Seq(Nat) /\ Len(t) = n - 1 /\ \A i \in 1..(n - 1) : t[i] = p[i]
      /\ x = p[n] /\ x \in Nat /\ (t = <<>> <=> n = 1)
  BY <1>1, <1>2, TableFacts
<1> HIDE DEF n, t, x
<1>4. CASE n = 1
  BY <1>1, <1>2, <1>3, <1>4 DEF TableSize, t, x
<1>5. CASE n # 1
  <2>1. Len(t) \in 1..Levels /\ t[1] < RootEntries
    BY <1>1, <1>2, <1>3, <1>5, SMTT(30)
  <2>2. ASSUME NEW i \in 2..Len(t) PROVE t[i] < Entries
    <3>1. i \in 2..n /\ i \in 1..(n - 1)
      BY <1>1, <1>2, <1>3
    <3> QED
      BY <1>1, <1>3, <3>1, Zenon
  <2>3. t \in Paths
    BY <1>3, <2>1, <2>2, PathMeaning, SMTT(60)
  <2>4. x < Entries
    BY <1>1, <1>2, <1>3, <1>5
  <2> QED
    BY <1>2, <1>3, <1>5, <2>3, <2>4 DEF TableSize, t, x
<1> QED
  BY <1>4, <1>5, Zenon

\* An index of a table that is below its size makes a path.
LEMMA EntryOfTable ==
    ASSUME NEW c \in Seq(Nat), Len(c) \in 1..Levels,
           Table(c) \in Paths \cup {<<>>}, Index(c) < TableSize(Table(c))
    PROVE  c \in Paths
<1> DEFINE n == Len(c)
           t == Table(c)
           x == Index(c)
<1>1. /\ Levels \in Nat /\ RootEntries \in Nat /\ Entries \in Nat /\ n \in 1..Levels
  BY LevelsAssumption, EntriesAssumption
<1>2. /\ t \in Seq(Nat) /\ Len(t) = n - 1 /\ \A i \in 1..(n - 1) : t[i] = c[i]
      /\ x = c[n] /\ x \in Nat /\ (t = <<>> <=> n = 1)
  BY <1>1, TableFacts
<1>3. x < TableSize(t) /\ t \in Paths \cup {<<>>}
  BY Zenon
<1>4. ASSUME c[1] < RootEntries, \A i \in 2..n : c[i] < Entries PROVE c \in Paths
  BY <1>1, <1>4, PathMeaning, Zenon
<1> HIDE DEF n, t, x
<1>5. CASE n = 1
  <2>1. c[1] < RootEntries
    BY <1>2, <1>3, <1>5, Zenon DEF TableSize
  <2>2. \A i \in 2..n : c[i] < Entries
    BY <1>5
  <2> QED
    BY <1>4, <2>1, <2>2, Zenon
<1>6. CASE n # 1
  <2>1. /\ t[1] < RootEntries /\ \A i \in 2..Len(t) : t[i] < Entries
    BY <1>2, <1>3, <1>6, PathMeaning, Zenon
  <2>2. x < Entries
    BY <1>2, <1>3, <1>6, Zenon DEF TableSize
  <2>3. c[1] < RootEntries
    BY <1>1, <1>2, <1>6, <2>1
  <2>4. ASSUME NEW i \in 2..n PROVE c[i] < Entries
    <3>1. CASE i = n
      BY <1>2, <2>2, <3>1, Zenon
    <3>2. CASE i # n
      <4>1. i \in 2..Len(t) /\ i \in 1..(n - 1)
        BY <1>1, <1>2, <3>2
      <4> QED
        BY <1>2, <2>1, <4>1, Zenon
    <3> QED
      BY <3>1, <3>2, Zenon
  <2> QED
    BY <1>4, <2>3, <2>4, Zenon
<1> QED
  BY <1>5, <1>6, Zenon

-----------------------------------------------------------------------------
(* The entries that a copy has still to handle                             *)

\* The recursion of copy_from_non_confidential_memory is at the entry c of n indices.  In
\* every table on the way to it the entries p of m indices from there on are still to be
\* set: an entry that points to a table is set when the call for that table returns.
Below(c, n, p, m) ==
    /\ m <= n
    /\ \A i \in 1..(m - 1) : p[i] = c[i]
    /\ c[m] <= p[m]

\* Two positions with the same indices.
Same(c, n, p, m) == m = n /\ \A i \in 1..n : p[i] = c[i]

\* The entry p is still to be set when the recursion is at c.
Pending(c, p) == Below(c, Len(c), p, Len(p))

\* Where the recursion may be: at an entry of a table, or behind the last one.
Cursor(c) ==
    /\ c \in Seq(Nat) /\ Len(c) \in 1..Levels
    /\ Table(c) \in Paths \cup {<<>>}
    /\ Index(c) \in 0..TableSize(Table(c))

\* The indices of a cursor.
LEMMA CursorIndices ==
    ASSUME NEW c, Cursor(c)
    PROVE  /\ c \in Seq(Nat) /\ Len(c) \in Nat \ {0} /\ Len(c) <= Levels
           /\ \A i \in 1..Len(c) : c[i] \in Nat
           /\ c # <<>>
<1>1. c \in Seq(Nat) /\ Len(c) \in 1..Levels
  BY Zenon DEF Cursor
<1>2. \A i \in 1..Len(c) : c[i] \in Nat
  BY <1>1, ElementOfSeq, Zenon
<1>3. c # <<>>
  BY <1>1, EmptySeq
<1> QED
  BY <1>1, <1>2, <1>3, LevelsAssumption

\* Below under the three moves of the cursor: to the next entry of the table, to the table
\* that the entry points to, and back.
LEMMA BelowSibling ==
    ASSUME NEW n \in Nat \ {0}, NEW m \in Nat \ {0}, NEW c, NEW d, NEW p,
           \A i \in 1..n : c[i] \in Nat, \A i \in 1..m : p[i] \in Nat,
           d[n] = c[n] + 1, \A i \in 1..(n - 1) : d[i] = c[i]
    PROVE  Below(d, n, p, m) <=> Below(c, n, p, m) /\ ~Same(c, n, p, m)
<1>1. CASE m < n
  <2>1. d[m] = c[m] /\ \A i \in 1..(m - 1) : d[i] = c[i]
    BY <1>1
  <2> QED
    BY <1>1, <2>1 DEF Below, Same
<1>2. CASE m = n
  <2>1. (\A i \in 1..n : p[i] = c[i]) <=> p[n] = c[n] /\ \A i \in 1..(n - 1) : p[i] = c[i]
    OBVIOUS
  <2>2. c[n] \in Nat /\ p[n] \in Nat
    BY <1>2
  <2> QED
    BY <1>2, <2>1, <2>2 DEF Below, Same
<1>3. CASE m > n
  BY <1>3 DEF Below, Same
<1> QED
  BY <1>1, <1>2, <1>3

\* When the call for a table starts, the entries of that table become pending as well.
LEMMA BelowChild ==
    ASSUME NEW n \in Nat \ {0}, NEW m \in Nat \ {0}, NEW c, NEW d, NEW p,
           \A i \in 1..n : c[i] \in Nat, \A i \in 1..m : p[i] \in Nat,
           d[n + 1] = 0, \A i \in 1..n : d[i] = c[i]
    PROVE  Below(d, n + 1, p, m) <=> Below(c, n, p, m) \/ (m = n + 1 /\ \A i \in 1..n : p[i] = c[i])
<1>1. CASE m <= n
  <2>1. d[m] = c[m] /\ \A i \in 1..(m - 1) : d[i] = c[i]
    BY <1>1
  <2> QED
    BY <1>1, <2>1 DEF Below
<1>2. CASE m = n + 1
  <2>1. p[m] \in Nat /\ d[m] = 0 /\ m - 1 = n
    BY <1>2
  <2> QED
    BY <1>2, <2>1 DEF Below
<1>3. CASE m > n + 1
  BY <1>3 DEF Below
<1> QED
  BY <1>1, <1>2, <1>3

\* When it returns, what is pending above it does not change.
LEMMA BelowDone ==
    ASSUME NEW n \in Nat \ {0}, NEW m \in Nat \ {0}, NEW c, NEW t, NEW p,
           \A i \in 1..(n - 1) : t[i] = c[i],
           m = n => ~Below(c, n, p, m)
    PROVE  Below(c, n, p, m) <=> n # 1 /\ Below(t, n - 1, p, m)
<1>1. CASE m < n
  <2>1. t[m] = c[m] /\ n # 1 /\ m <= n - 1 /\ \A i \in 1..(m - 1) : t[i] = c[i]
    BY <1>1
  <2> QED
    BY <1>1, <2>1 DEF Below
<1>2. CASE m >= n
  BY <1>2 DEF Below
<1> QED
  BY <1>1, <1>2

\* The entry that the copy is at is to be handled.
LEMMA SelfPending ==
    ASSUME NEW c \in Paths
    PROVE  Pending(c, c)
<1> DEFINE n == Len(c)
<1>1. n \in Nat \ {0} /\ \A i \in 1..n : c[i] \in Nat
  BY PathIndices, Zenon
<1> HIDE DEF n
<1>2. c[n] \in Nat
  BY <1>1
<1>3. Below(c, n, c, n)
  BY <1>1, <1>2 DEF Below
<1> QED
  BY <1>3, Zenon DEF Pending, n

\* The copy starts at the first entry of the root: its entries are to be handled.
LEMMA PendingStart ==
    ASSUME NEW p \in Paths
    PROVE  Pending(<<0>>, p) <=> Table(p) = <<>>
<1> DEFINE m == Len(p)
           c == <<0>>
<1>1. m \in Nat \ {0} /\ \A i \in 1..m : p[i] \in Nat
  BY PathIndices, Zenon
<1>2. Table(p) = <<>> <=> m = 1
  BY PathIndices, TableFacts
<1>3. Len(c) = 1 /\ c[1] = 0
  BY Zenon
<1> HIDE DEF m, c
<1>4. Below(c, 1, p, m) <=> m = 1
  BY <1>1, <1>3 DEF Below
<1> QED
  BY <1>2, <1>3, <1>4, Zenon DEF Pending, m, c

\* The next entry of the same table: one entry less is to be handled.
LEMMA PendingSibling ==
    ASSUME NEW c \in Paths
    PROVE  /\ Cursor(Sibling(c))
           /\ Len(Sibling(c)) = Len(c) /\ Table(Sibling(c)) = Table(c)
           /\ \A i \in 1..(Len(c) - 1) : Sibling(c)[i] = c[i]
           /\ \A p \in Paths : Pending(Sibling(c), p) <=> Pending(c, p) /\ p # c
<1> DEFINE d == Sibling(c)
           n == Len(c)
<1>1. /\ c \in Seq(Nat) /\ n \in Nat \ {0} /\ n <= Levels
      /\ \A i \in 1..n : c[i] \in Nat
  BY PathIndices, Zenon
<1>2. /\ d \in Seq(Nat) /\ Len(d) = n /\ d[n] = c[n] + 1
      /\ \A i \in 1..(n - 1) : d[i] = c[i]
  BY <1>1 DEF Sibling
<1> HIDE DEF d
<1>3. Table(d) = Table(c)
  <2>1. /\ Table(c) \in Seq(Nat) /\ Len(Table(c)) = n - 1
        /\ \A i \in 1..(n - 1) : Table(c)[i] = c[i]
    BY <1>1, TableFacts
  <2> HIDE DEF n
  <2>2. n - 1 \in Nat /\ n = (n - 1) + 1 /\ n > 0
    BY <1>1
  <2>3. \A i \in 1..(n - 1) : d[i] = Table(c)[i]
    BY <1>2, <2>1, Zenon
  <2> QED
    BY <1>2, <2>1, <2>2, <2>3, TableIs, SMTT(30)
<1>4. Cursor(d)
  <2>1. /\ Table(c) \in Paths \cup {<<>>} /\ Index(c) \in 0..(TableSize(Table(c)) - 1)
    BY InItsTable, Zenon
  <2>2. Index(d) = Index(c) + 1
    BY <1>2, Zenon DEF Index
  <2>3. TableSize(Table(c)) \in Nat /\ Levels \in Nat
    BY EntriesAssumption, LevelsAssumption DEF TableSize
  <2>4. Index(d) \in 0..TableSize(Table(d)) /\ Len(d) \in 1..Levels
    BY <1>1, <1>2, <1>3, <2>1, <2>2, <2>3
  <2> QED
    BY <1>2, <1>3, <2>1, <2>4, Zenon DEF Cursor
<1>5. ASSUME NEW p \in Paths
      PROVE  Pending(d, p) <=> Pending(c, p) /\ p # c
  <2> DEFINE m == Len(p)
  <2>1. p \in Seq(Nat) /\ m \in Nat \ {0} /\ \A i \in 1..m : p[i] \in Nat
    BY PathIndices, Zenon
  <2>2. p = c <=> Same(c, n, p, m)
    BY <1>1, <2>1, SameSeq, Zenon DEF Same
  <2> HIDE DEF n, m
  <2>3. Below(d, n, p, m) <=> Below(c, n, p, m) /\ ~Same(c, n, p, m)
    BY <1>1, <1>2, <2>1, BelowSibling, Zenon
  <2> QED
    BY <1>2, <2>2, <2>3, Zenon DEF Pending, n, m
<1> QED
  BY <1>2, <1>3, <1>4, <1>5, Zenon DEF d

\* The recursive call for the table that the entry c points to: its entries come in addition.
LEMMA PendingChild ==
    ASSUME NEW c \in Paths, Len(c) < Levels
    PROVE  /\ Cursor(Append(c, 0))
           /\ Len(Append(c, 0)) = Len(c) + 1 /\ Table(Append(c, 0)) = c
           /\ \A i \in 1..Len(c) : Append(c, 0)[i] = c[i]
           /\ \A p \in Paths : Pending(Append(c, 0), p) <=> Pending(c, p) \/ Table(p) = c
<1> DEFINE d == Append(c, 0)
           n == Len(c)
<1>1. /\ c \in Seq(Nat) /\ n \in Nat \ {0}
      /\ \A i \in 1..n : c[i] \in Nat
  BY PathIndices, Zenon
<1>2. /\ d \in Seq(Nat) /\ Len(d) = n + 1 /\ d[n + 1] = 0
      /\ \A i \in 1..n : d[i] = c[i]
  BY <1>1, AppendProperties
<1> HIDE DEF d
<1>3. Table(d) = c /\ Index(d) = 0
  <2>1. Len(d) > 0 /\ Index(d) = 0
    BY <1>1, <1>2 DEF Index
  <2> QED
    BY <1>1, <1>2, <2>1, TableIs, Zenon
<1>4. Cursor(d)
  <2>1. TableSize(c) \in Nat /\ Levels \in Nat
    BY EntriesAssumption, LevelsAssumption DEF TableSize
  <2>2. Len(d) \in 1..Levels
    BY <1>1, <1>2, <2>1
  <2> QED
    BY <1>2, <1>3, <2>1, <2>2 DEF Cursor
<1>5. ASSUME NEW p \in Paths
      PROVE  Pending(d, p) <=> Pending(c, p) \/ Table(p) = c
  <2> DEFINE m == Len(p)
  <2>1. p \in Seq(Nat) /\ m \in Nat \ {0} /\ \A i \in 1..m : p[i] \in Nat
    BY PathIndices, Zenon
  <2>2. Table(p) = c <=> m = n + 1 /\ \A i \in 1..n : p[i] = c[i]
    BY <1>1, <2>1, TableIs
  <2> HIDE DEF n, m
  <2>3. Below(d, n + 1, p, m) <=> Below(c, n, p, m) \/ (m = n + 1 /\ \A i \in 1..n : p[i] = c[i])
    BY <1>1, <1>2, <2>1, BelowChild, ZenonT(60)
  <2> QED
    BY <1>2, <2>2, <2>3, Zenon DEF Pending, n, m
<1> QED
  BY <1>2, <1>3, <1>4, <1>5, Zenon DEF d

\* Behind the last entry of a table what is left to handle is what was left at the entry that
\* points to the table; behind the last entry of the root nothing is left.
LEMMA PendingDone ==
    ASSUME NEW c, Cursor(c), ~(Index(c) < TableSize(Table(c))), NEW p \in Paths
    PROVE  Pending(c, p) <=> Table(c) # <<>> /\ Pending(Table(c), p)
<1> DEFINE n == Len(c)
           m == Len(p)
           t == Table(c)
<1>1. c \in Seq(Nat) /\ n \in Nat \ {0} /\ \A i \in 1..n : c[i] \in Nat
  BY CursorIndices, Zenon
<1>2. p \in Seq(Nat) /\ m \in Nat \ {0} /\ \A i \in 1..m : p[i] \in Nat
  BY PathIndices, Zenon
<1>3. /\ t \in Seq(Nat) /\ Len(t) = n - 1 /\ \A i \in 1..(n - 1) : t[i] = c[i]
      /\ Index(c) = c[n] /\ (t = <<>> <=> n = 1)
  BY <1>1, TableFacts
<1>4. m = n => ~Below(c, n, p, m)
  <2> SUFFICES ASSUME m = n, Below(c, n, p, m) PROVE FALSE
    BY Zenon
  <2>1. Index(p) = p[m] /\ Index(p) < TableSize(Table(p)) /\ TableSize(Table(p)) \in Nat
    BY InItsTable, EntriesAssumption DEF TableSize, Index
  <2>2. Table(p) = t
    <3> HIDE DEF n, m, t
    <3>1. \A i \in 1..(n - 1) : p[i] = t[i]
      BY <1>3, Zenon DEF Below
    <3>2. m = (n - 1) + 1 /\ m > 0
      BY <1>1
    <3> QED
      BY <1>2, <1>3, <3>1, <3>2, TableIs, ZenonT(60) DEF m
  <2>3. c[n] <= p[m] /\ c[n] \in Nat /\ p[m] \in Nat
    BY <1>1, <1>2 DEF Below
  <2> HIDE DEF n, m, t
  <2>4. ~(c[n] < TableSize(t))
    BY <1>3, Zenon DEF t
  <2> QED
    BY <2>1, <2>2, <2>3, <2>4
<1> HIDE DEF n, m, t
<1>5. Below(c, n, p, m) <=> n # 1 /\ Below(t, n - 1, p, m)
  BY <1>1, <1>2, <1>3, <1>4, BelowDone, SMTT(30)
<1> QED
  BY <1>3, <1>5, Zenon DEF Pending, n, m, t

-----------------------------------------------------------------------------
(* The page table of one VM                                                *)

\* A copy in progress at the entry c: the tables above it are there and no others below
\* entries that are to be handled; such entries do not exist for the monitor yet, and
\* the hardware's view of all others is the monitor's.
InCopy(c, tok, ent, mem) ==
    /\ Cursor(c)
    /\ Table(c) \in DOMAIN tok
    /\ \A t \in DOMAIN tok : t = <<>> \/ Table(t) \in DOMAIN tok
    /\ \A t \in DOMAIN tok : t # <<>> /\ Pending(c, t) => Len(t) < Len(c) /\ \A i \in 1..Len(t) : t[i] = c[i]
    /\ \A p \in Paths : IF Pending(c, p) THEN ent[p] = NotValid ELSE mem[p] = ent[p]
    /\ \A p \in Paths : ent[p] # NotValid => Table(p) \in DOMAIN tok

\* The tables of one VM: the monitor's tokens and entries, and the tables' memory.
Shape(ph, c, tok, ent, mem) ==
    /\ DOMAIN tok \subseteq Paths \cup {<<>>} /\ \A t \in DOMAIN tok : tok[t] \in Pages
    /\ ent \in [Paths -> Entry] /\ mem \in [Paths -> Entry]
    /\ \A p \in Paths : ent[p].kind = "Leaf" => ent[p].page \in Pages /\ Table(p) \in DOMAIN tok
    /\ ph = None => c = <<>> /\ tok = NoTokens /\ ent = Empty /\ mem = Empty
    /\ ph = "ready" => c = <<>> /\ mem = ent
    /\ ph = "copying" => InCopy(c, tok, ent, mem)

\* Without tables the shape is the empty one.
LEMMA EmptyShape == Shape(None, <<>>, NoTokens, Empty, Empty)
<1>1. Empty \in [Paths -> Entry] /\ \A p \in Paths : Empty[p].kind # "Leaf"
  BY Zenon DEF Empty, Entry, NotValid
<1>2. DOMAIN NoTokens = {}
  BY Zenon DEF NoTokens
<1> QED
  BY <1>1, <1>2, Zenon DEF Shape, None

\* The token and the raw entries that copy_table adds.
Added(tok, t, page) == [x \in DOMAIN tok \cup {t} |-> IF x = t THEN page ELSE tok[x]]
Read(mem, t, raw) == [p \in Paths |-> IF Table(p) = t THEN raw[Index(p)] ELSE mem[p]]

\* What is read from the hypervisor's table are entries, and only of that table.
LEMMA ReadFacts ==
    ASSUME NEW t, NEW raw \in RawEntries(t), NEW mem \in [Paths -> Entry]
    PROVE  /\ Read(mem, t, raw) \in [Paths -> Entry]
           /\ \A p \in Paths : Table(p) # t => Read(mem, t, raw)[p] = mem[p]
<1>1. ASSUME NEW p \in Paths, Table(p) = t PROVE raw[Index(p)] \in Entry
  <2>1. Index(p) \in 0..(TableSize(t) - 1)
    BY <1>1, InItsTable, Zenon
  <2>2. raw[Index(p)] \in {NotValid} \cup [kind: {"Pointer", "Leaf"}, page: {Host}]
    BY <2>1, Zenon DEF RawEntries
  <2> QED
    BY <2>2 DEF Entry, NotValid
<1> QED
  BY <1>1, Zenon DEF Read

\* copy_mmu_configuration.
LEMMA StartShape ==
    ASSUME NEW page \in Pages, NEW raw \in RawEntries(<<>>)
    PROVE  Shape("copying", <<0>>, Added(NoTokens, <<>>, page), Empty, Read(Empty, <<>>, raw))
<1> DEFINE tok == Added(NoTokens, <<>>, page)
           mem == Read(Empty, <<>>, raw)
<1>1. Empty \in [Paths -> Entry] /\ \A p \in Paths : Empty[p] = NotValid /\ Empty[p].kind # "Leaf"
  BY Zenon DEF Empty, Entry, NotValid
<1>2. DOMAIN tok = {<<>>} /\ tok[<<>>] = page
  BY Zenon DEF NoTokens, Added
<1>3. /\ mem \in [Paths -> Entry]
      /\ \A p \in Paths : Table(p) # <<>> => mem[p] = Empty[p]
  BY <1>1, ReadFacts
<1> HIDE DEF tok, mem
<1>4. Cursor(<<0>>) /\ Table(<<0>>) = <<>>
  <2> DEFINE c == <<0>>
  <2>1. c \in Seq(Nat) /\ Len(c) = 1 /\ c[1] = 0
    OBVIOUS
  <2> HIDE DEF c
  <2>2. Table(c) = <<>> /\ Index(c) = 0
    BY <2>1, TableFacts, SMTT(60)
  <2>3. TableSize(<<>>) \in Nat
    BY EntriesAssumption, Zenon DEF TableSize
  <2> QED
    BY <2>1, <2>2, <2>3, LevelsAssumption DEF Cursor, c
<1>5. \A p \in Paths : IF Pending(<<0>>, p) THEN Empty[p] = NotValid ELSE mem[p] = Empty[p]
  BY <1>1, <1>3, PendingStart, Zenon
<1>6. InCopy(<<0>>, tok, Empty, mem)
  BY <1>1, <1>2, <1>4, <1>5, Zenon DEF InCopy
<1> QED
  BY <1>1, <1>2, <1>3, <1>6, Zenon DEF Shape, None, tok, mem

\* set_entry: the entry at c is handled.
LEMMA SetShape ==
    ASSUME NEW c \in Paths, NEW tok, NEW ent, NEW mem, Shape("copying", c, tok, ent, mem),
           NEW e \in Entry, e.kind = "Leaf" => e.page \in Pages,
           NEW after \in [Paths -> Entry], after[c] = e,
           \A p \in Paths : p # c => after[p] = mem[p]
    PROVE  Shape("copying", Sibling(c), tok, [ent EXCEPT ![c] = e], after)
<1> DEFINE d == Sibling(c)
           now == [ent EXCEPT ![c] = e]
<1>1. /\ DOMAIN tok \subseteq Paths \cup {<<>>} /\ \A t \in DOMAIN tok : tok[t] \in Pages
      /\ ent \in [Paths -> Entry] /\ mem \in [Paths -> Entry]
      /\ \A p \in Paths : ent[p].kind = "Leaf" => ent[p].page \in Pages /\ Table(p) \in DOMAIN tok
      /\ InCopy(c, tok, ent, mem)
  BY Zenon DEF Shape
<1>2. /\ now \in [Paths -> Entry] /\ now[c] = e
      /\ \A p \in Paths : p # c => now[p] = ent[p]
  BY <1>1, Zenon
<1>3. /\ Cursor(d) /\ Len(d) = Len(c) /\ Table(d) = Table(c)
      /\ \A i \in 1..(Len(c) - 1) : d[i] = c[i]
      /\ \A p \in Paths : Pending(d, p) <=> Pending(c, p) /\ p # c
  BY PendingSibling, Zenon
<1>4. Len(c) \in Nat \ {0}
  BY PathIndices, Zenon
<1> HIDE DEF d, now
<1>5. \A t \in DOMAIN tok : t # <<>> /\ Pending(d, t) => Len(t) < Len(d) /\ \A i \in 1..Len(t) : t[i] = d[i]
  <2> SUFFICES ASSUME NEW t \in DOMAIN tok, t # <<>>, Pending(d, t)
               PROVE  Len(t) < Len(d) /\ \A i \in 1..Len(t) : t[i] = d[i]
    BY Zenon
  <2>1. t \in Paths /\ Pending(c, t)
    BY <1>1, <1>3, Zenon
  <2>2. Len(t) < Len(c) /\ \A i \in 1..Len(t) : t[i] = c[i]
    BY <1>1, <2>1, Zenon DEF InCopy
  <2>3. Len(t) \in Nat
    BY <2>1, PathIndices, Zenon
  <2> QED
    BY <1>3, <1>4, <2>2, <2>3
<1>6. \A p \in Paths : IF Pending(d, p) THEN now[p] = NotValid ELSE after[p] = now[p]
  BY <1>1, <1>2, <1>3, SMTT(30) DEF InCopy
<1>7. \A p \in Paths : now[p] # NotValid => Table(p) \in DOMAIN tok
  BY <1>1, <1>2, Zenon DEF InCopy
<1>8. InCopy(d, tok, now, after)
  BY <1>1, <1>3, <1>5, <1>6, <1>7, Zenon DEF InCopy
<1>9. \A p \in Paths : now[p].kind = "Leaf" => now[p].page \in Pages /\ Table(p) \in DOMAIN tok
  <2>1. Table(c) \in DOMAIN tok
    BY <1>1, Zenon DEF InCopy
  <2> QED
    BY <1>1, <1>2, <2>1, Zenon
<1> QED
  BY <1>1, <1>2, <1>8, <1>9, Zenon DEF Shape, None, d, now

\* A table is copied only once: there is no token for the table that an entry still to be
\* handled points to, nor anything below it.
LEMMA NewTable ==
    ASSUME NEW c \in Paths, NEW tok, NEW ent, NEW mem, InCopy(c, tok, ent, mem),
           DOMAIN tok \subseteq Paths \cup {<<>>}
    PROVE  /\ c \notin DOMAIN tok /\ c # <<>>
           /\ \A p \in Paths : Table(p) = c => p \notin DOMAIN tok /\ ent[p] = NotValid
<1>1. c \in Seq(Nat) /\ Len(c) \in Nat \ {0} /\ \A i \in 1..Len(c) : c[i] \in Nat
  BY PathIndices, Zenon
<1>2. Pending(c, c) /\ c # <<>>
  BY <1>1, SelfPending, PathIndices, Zenon
<1>3. c \notin DOMAIN tok
  BY <1>1, <1>2 DEF InCopy
<1>4. ASSUME NEW p \in Paths, Table(p) = c PROVE p \notin DOMAIN tok /\ ent[p] = NotValid
  <2>1. p # <<>>
    BY PathIndices, Zenon
  <2> QED
    BY <1>3, <1>4, <2>1, Zenon DEF InCopy
<1> QED
  BY <1>2, <1>3, <1>4, Zenon

\* copy_pointer: the recursive call.
LEMMA ChildShape ==
    ASSUME NEW c \in Paths, Len(c) < Levels, NEW tok, NEW ent, NEW mem,
           Shape("copying", c, tok, ent, mem),
           NEW page \in Pages, NEW raw \in RawEntries(c)
    PROVE  Shape("copying", Append(c, 0), Added(tok, c, page), ent, Read(mem, c, raw))
<1> DEFINE d == Append(c, 0)
           more == Added(tok, c, page)
           after == Read(mem, c, raw)
<1>1. /\ DOMAIN tok \subseteq Paths \cup {<<>>} /\ \A t \in DOMAIN tok : tok[t] \in Pages
      /\ ent \in [Paths -> Entry] /\ mem \in [Paths -> Entry]
      /\ \A p \in Paths : ent[p].kind = "Leaf" => ent[p].page \in Pages /\ Table(p) \in DOMAIN tok
      /\ InCopy(c, tok, ent, mem)
  BY Zenon DEF Shape
<1>2. /\ DOMAIN more = DOMAIN tok \cup {c}
      /\ \A t \in DOMAIN more : more[t] \in Pages
  BY <1>1, Zenon DEF Added
<1>3. /\ after \in [Paths -> Entry]
      /\ \A p \in Paths : Table(p) # c => after[p] = mem[p]
  BY <1>1, ReadFacts, Zenon
<1>4. /\ Cursor(d) /\ Len(d) = Len(c) + 1 /\ Table(d) = c
      /\ \A i \in 1..Len(c) : d[i] = c[i]
      /\ \A p \in Paths : Pending(d, p) <=> Pending(c, p) \/ Table(p) = c
  BY PendingChild, Zenon
<1>5. Len(c) \in Nat \ {0}
  BY PathIndices, Zenon
<1>6. /\ c \notin DOMAIN tok /\ c # <<>>
      /\ \A p \in Paths : Table(p) = c => p \notin DOMAIN tok /\ ent[p] = NotValid
  BY <1>1, NewTable, Zenon
<1> HIDE DEF d, more, after
<1>7. \A t \in DOMAIN more : t = <<>> \/ Table(t) \in DOMAIN more
  BY <1>1, <1>2, Zenon DEF InCopy
<1>8. \A t \in DOMAIN more : t # <<>> /\ Pending(d, t) => Len(t) < Len(d) /\ \A i \in 1..Len(t) : t[i] = d[i]
  <2> SUFFICES ASSUME NEW t \in DOMAIN more, t # <<>>, Pending(d, t)
               PROVE  Len(t) < Len(d) /\ \A i \in 1..Len(t) : t[i] = d[i]
    BY Zenon
  <2>1. CASE t = c
    BY <1>4, <1>5, <2>1
  <2>2. CASE t \in DOMAIN tok
    <3>1. t \in Paths
      BY <1>1, <2>2, Zenon
    <3>2. Pending(c, t)
      BY <1>4, <1>6, <2>2, <3>1, Zenon
    <3>3. Len(t) < Len(c) /\ \A i \in 1..Len(t) : t[i] = c[i]
      BY <1>1, <2>2, <3>2, Zenon DEF InCopy
    <3>4. Len(t) \in Nat
      BY <3>1, PathIndices, Zenon
    <3> QED
      BY <1>4, <1>5, <3>3, <3>4
  <2> QED
    BY <1>2, <2>1, <2>2, Zenon
<1>9. \A p \in Paths : IF Pending(d, p) THEN ent[p] = NotValid ELSE after[p] = ent[p]
  BY <1>1, <1>3, <1>4, <1>6, Zenon DEF InCopy
<1>10. InCopy(d, more, ent, after)
  BY <1>1, <1>2, <1>4, <1>7, <1>8, <1>9, SMTT(30) DEF InCopy
<1> QED
  BY <1>1, <1>2, <1>3, <1>10, Zenon DEF Shape, None, d, more, after

\* copy_returns from the table t = Table(c): the entry that points to it is set.
LEMMA ReturnShape ==
    ASSUME NEW c, NEW tok, NEW ent, NEW mem, Shape("copying", c, tok, ent, mem),
           ~(Index(c) < TableSize(Table(c))), Table(c) # <<>>,
           NEW e, e = [kind |-> "Pointer", page |-> tok[Table(c)]]
    PROVE  Shape("copying", Sibling(Table(c)), tok, [ent EXCEPT ![Table(c)] = e],
                 [mem EXCEPT ![Table(c)] = e])
<1> DEFINE t == Table(c)
<1>1. /\ DOMAIN tok \subseteq Paths \cup {<<>>} /\ \A u \in DOMAIN tok : tok[u] \in Pages
      /\ ent \in [Paths -> Entry] /\ mem \in [Paths -> Entry]
      /\ \A p \in Paths : ent[p].kind = "Leaf" => ent[p].page \in Pages /\ Table(p) \in DOMAIN tok
      /\ InCopy(c, tok, ent, mem)
  BY Zenon DEF Shape
<1>2. /\ Cursor(c) /\ t \in DOMAIN tok /\ t \in Paths
  BY <1>1, Zenon DEF InCopy, Cursor
<1>3. e \in Entry /\ e.kind = "Pointer"
  BY <1>1, <1>2, Zenon DEF Entry
<1>4. \A p \in Paths : Pending(c, p) <=> Pending(t, p)
  BY <1>2, PendingDone, Zenon
<1>5. /\ Len(c) \in Nat \ {0} /\ Len(t) = Len(c) - 1 /\ Len(t) \in Nat
      /\ \A i \in 1..Len(t) : t[i] = c[i]
  <2> DEFINE n == Len(c)
  <2>1. c \in Seq(Nat) /\ n \in Nat \ {0}
    BY <1>2, CursorIndices, Zenon
  <2>2. Len(t) = n - 1 /\ \A i \in 1..(n - 1) : t[i] = c[i]
    BY <2>1, TableFacts
  <2> HIDE DEF n, t
  <2> QED
    BY <2>1, <2>2 DEF n
<1> HIDE DEF t
<1>6. \A u \in DOMAIN tok : u # <<>> /\ Pending(t, u) /\ u # t => Len(u) < Len(t) /\ \A i \in 1..Len(u) : u[i] = t[i]
  <2> SUFFICES ASSUME NEW u \in DOMAIN tok, u # <<>>, Pending(t, u), u # t
               PROVE  Len(u) < Len(t) /\ \A i \in 1..Len(u) : u[i] = t[i]
    BY Zenon
  <2>1. u \in Paths /\ Pending(c, u)
    BY <1>1, <1>4, Zenon
  <2>2. Len(u) < Len(c) /\ \A i \in 1..Len(u) : u[i] = c[i]
    BY <1>1, <2>1, Zenon DEF InCopy
  <2>3. u \in Seq(Nat) /\ t \in Seq(Nat) /\ Len(u) \in Nat
    BY <1>2, <2>1, PathIndices, Zenon
  <2> DEFINE m == Len(u)
             n == Len(t)
  <2>4. n \in Nat /\ m \in Nat /\ m <= n
    BY <1>5, <2>2, <2>3
  <2>5. \A i \in 1..m : u[i] = c[i] /\ \A j \in 1..n : t[j] = c[j]
    BY <1>5, <2>2, Zenon
  <2> HIDE DEF m, n
  <2>6. \A i \in 1..m : i \in 1..n
    BY <2>4
  <2>7. \A i \in 1..m : u[i] = t[i]
    BY <2>5, <2>6, Zenon
  <2>8. m # n
    BY <2>3, <2>7, SameSeq, Zenon DEF m, n
  <2>9. m < n
    BY <2>4, <2>8
  <2> QED
    BY <2>7, <2>9, Zenon DEF m, n
<1> DEFINE d == Sibling(t)
           now == [ent EXCEPT ![t] = e]
           after == [mem EXCEPT ![t] = e]
<1>7. /\ Cursor(d) /\ Len(d) = Len(t) /\ Table(d) = Table(t)
      /\ \A i \in 1..(Len(t) - 1) : d[i] = t[i]
      /\ \A p \in Paths : Pending(d, p) <=> Pending(t, p) /\ p # t
  BY <1>2, PendingSibling, Zenon
<1>8. /\ now \in [Paths -> Entry] /\ now[t] = e /\ after \in [Paths -> Entry] /\ after[t] = e
      /\ \A p \in Paths : p # t => now[p] = ent[p] /\ after[p] = mem[p]
  BY <1>1, <1>2, <1>3, SMTT(30)
<1> HIDE DEF d, now, after
<1>9. Table(t) \in DOMAIN tok
  BY <1>1, <1>2, PathIndices, Zenon DEF InCopy
<1>10. \A u \in DOMAIN tok : u # <<>> /\ Pending(d, u) => Len(u) < Len(d) /\ \A i \in 1..Len(u) : u[i] = d[i]
  <2> SUFFICES ASSUME NEW u \in DOMAIN tok, u # <<>>, Pending(d, u)
               PROVE  Len(u) < Len(d) /\ \A i \in 1..Len(u) : u[i] = d[i]
    BY Zenon
  <2>1. u \in Paths /\ Len(u) \in Nat
    BY <1>1, PathIndices, Zenon
  <2>2. Len(u) < Len(t) /\ \A i \in 1..Len(u) : u[i] = t[i]
    BY <1>6, <1>7, <2>1, SMTT(30)
  <2> QED
    BY <1>5, <1>7, <2>1, <2>2
<1>11. \A p \in Paths : IF Pending(d, p) THEN now[p] = NotValid ELSE after[p] = now[p]
  BY <1>1, <1>4, <1>7, <1>8, SMTT(30) DEF InCopy
<1>12. \A p \in Paths : now[p] # NotValid => Table(p) \in DOMAIN tok
  BY <1>1, <1>8, <1>9, SMTT(30) DEF InCopy
<1>13. InCopy(d, tok, now, after)
  BY <1>1, <1>7, <1>9, <1>10, <1>11, <1>12, Zenon DEF InCopy
<1>14. \A p \in Paths : now[p].kind = "Leaf" => now[p].page \in Pages /\ Table(p) \in DOMAIN tok
  BY <1>1, <1>3, <1>8, Zenon
<1> QED
  BY <1>1, <1>8, <1>13, <1>14, Zenon DEF Shape, None, d, now, after, t

\* copy_returns from the root: nothing is left to handle.
LEMMA FinishShape ==
    ASSUME NEW c, NEW tok, NEW ent, NEW mem, Shape("copying", c, tok, ent, mem),
           ~(Index(c) < TableSize(Table(c))), Table(c) = <<>>
    PROVE  Shape("ready", <<>>, tok, ent, mem)
<1>1. InCopy(c, tok, ent, mem) /\ ent \in [Paths -> Entry] /\ mem \in [Paths -> Entry]
  BY Zenon DEF Shape
<1>2. \A p \in Paths : ~Pending(c, p)
  BY <1>1, PendingDone, Zenon DEF InCopy
<1>3. mem = ent
  BY <1>1, <1>2 DEF InCopy
<1> QED
  BY <1>3, Zenon DEF Shape, None

\* map_shared_page: an entry of a complete table becomes a shared page.
LEMMA SharedShape ==
    ASSUME NEW tok, NEW ent, Shape("ready", <<>>, tok, ent, ent), NEW p \in Paths,
           NEW e \in Entry, e.kind = "Shared"
    PROVE  Shape("ready", <<>>, tok, [ent EXCEPT ![p] = e], [ent EXCEPT ![p] = e])
<1> DEFINE now == [ent EXCEPT ![p] = e]
<1>1. now \in [Paths -> Entry] /\ now[p] = e /\ \A q \in Paths : q # p => now[q] = ent[q]
  BY Zenon DEF Shape
<1> HIDE DEF now
<1>2. \A q \in Paths : now[q].kind = "Leaf" => now[q].page \in Pages /\ Table(q) \in DOMAIN tok
  BY <1>1, Zenon DEF Shape
<1>3. DOMAIN tok \subseteq Paths \cup {<<>>} /\ \A t \in DOMAIN tok : tok[t] \in Pages
  BY Zenon DEF Shape
<1>4. Shape("ready", <<>>, tok, now, now)
  BY <1>1, <1>2, <1>3, Zenon DEF Shape, None
<1> QED
  BY <1>4, Zenon DEF now

-----------------------------------------------------------------------------
(* The pages of one VM                                                     *)

\* The entries that own a page.
LeafSet(ent) == {p \in Paths : ent[p].kind = "Leaf"}

\* The pages a VM owns: those of its tables and of its leaves.
PagesOf(tok, ent) == {tok[t] : t \in DOMAIN tok} \cup {ent[p].page : p \in LeafSet(ent)}

\* Tables and leaves have different pages.
Apart(tok, ent) ==
    /\ \A t \in DOMAIN tok, p \in LeafSet(ent) : tok[t] # ent[p].page
    /\ \A t, u \in DOMAIN tok : t # u => tok[t] # tok[u]
    /\ \A p, q \in LeafSet(ent) : p # q => ent[p].page # ent[q].page

\* A new table.
LEMMA TableAdded ==
    ASSUME NEW tok, NEW ent, Apart(tok, ent), NEW t, t \notin DOMAIN tok,
           NEW page, page \notin PagesOf(tok, ent)
    PROVE  /\ Apart(Added(tok, t, page), ent)
           /\ PagesOf(Added(tok, t, page), ent) = PagesOf(tok, ent) \cup {page}
<1> DEFINE more == Added(tok, t, page)
<1>1. /\ DOMAIN more = DOMAIN tok \cup {t} /\ more[t] = page
      /\ \A u \in DOMAIN tok : more[u] = tok[u]
  BY Zenon DEF Added
<1> HIDE DEF more
<1>2. /\ \A u \in DOMAIN tok : tok[u] # page
      /\ \A p \in LeafSet(ent) : ent[p].page # page
  BY Zenon DEF PagesOf
<1>3. Apart(more, ent)
  BY <1>1, <1>2 DEF Apart
<1>4. PagesOf(more, ent) = PagesOf(tok, ent) \cup {page}
  BY <1>1 DEF PagesOf
<1> QED
  BY <1>3, <1>4, Zenon DEF more

\* An entry that was no leaf becomes one.
LEMMA LeafAdded ==
    ASSUME NEW tok, NEW ent, Apart(tok, ent), NEW p \in Paths, ent[p].kind # "Leaf",
           NEW e, e.kind = "Leaf", e.page \notin PagesOf(tok, ent),
           NEW now, now[p] = e, \A q \in Paths : q # p => now[q] = ent[q]
    PROVE  Apart(tok, now) /\ PagesOf(tok, now) = PagesOf(tok, ent) \cup {e.page}
<1>1. now[p] = e /\ \A q \in Paths : q # p => now[q] = ent[q]
  BY Zenon
<1>2. LeafSet(now) = LeafSet(ent) \cup {p} /\ p \notin LeafSet(ent) /\ LeafSet(ent) \subseteq Paths
  BY <1>1, Zenon DEF LeafSet
<1>3. /\ \A t \in DOMAIN tok : tok[t] # e.page
      /\ \A q \in LeafSet(ent) : ent[q].page # e.page
  BY Zenon DEF PagesOf
<1>4. \A q \in LeafSet(ent) : now[q] = ent[q]
  BY <1>1, <1>2, Zenon
<1>5. Apart(tok, now)
  BY <1>1, <1>2, <1>3, <1>4 DEF Apart
<1>6. PagesOf(tok, now) = PagesOf(tok, ent) \cup {e.page}
  <2>1. {now[q].page : q \in LeafSet(now)} = {ent[q].page : q \in LeafSet(ent)} \cup {e.page}
    BY <1>1, <1>2, <1>4
  <2> QED
    BY <2>1, Zenon DEF PagesOf
<1> QED
  BY <1>5, <1>6, Zenon

\* An entry becomes one that is no leaf.
LEMMA LeafSetAfter ==
    ASSUME NEW tok, NEW ent, Apart(tok, ent), NEW p \in Paths,
           NEW e, e.kind # "Leaf", NEW now, now[p] = e, \A q \in Paths : q # p => now[q] = ent[q]
    PROVE  /\ LeafSet(now) = LeafSet(ent) \ {p}
           /\ \A q \in LeafSet(now) : now[q] = ent[q]
           /\ Apart(tok, now)
<1>1. now[p] = e /\ \A q \in Paths : q # p => now[q] = ent[q]
  BY Zenon
<1>2. LeafSet(now) = LeafSet(ent) \ {p} /\ LeafSet(ent) \subseteq Paths
  BY <1>1, Zenon DEF LeafSet
<1>3. \A q \in LeafSet(now) : now[q] = ent[q]
  BY <1>1, <1>2, Zenon
<1>4. Apart(tok, now)
  BY <1>2, <1>3 DEF Apart
<1> QED
  BY <1>2, <1>3, <1>4, Zenon

\* If it was none before, the pages are the same.
LEMMA PagesKept ==
    ASSUME NEW tok, NEW ent, Apart(tok, ent), NEW p \in Paths, ent[p].kind # "Leaf",
           NEW e, e.kind # "Leaf", NEW now, now[p] = e, \A q \in Paths : q # p => now[q] = ent[q]
    PROVE  Apart(tok, now) /\ PagesOf(tok, now) = PagesOf(tok, ent)
<1>1. /\ LeafSet(now) = LeafSet(ent) \ {p} /\ Apart(tok, now)
      /\ \A q \in LeafSet(now) : now[q] = ent[q]
  BY LeafSetAfter
<1>2. LeafSet(now) = LeafSet(ent)
  BY <1>1, Zenon DEF LeafSet
<1> QED
  BY <1>1, <1>2, Zenon DEF PagesOf

\* If it was one, its page is given up.
LEMMA LeafRemoved ==
    ASSUME NEW tok, NEW ent, Apart(tok, ent), NEW p \in Paths, ent[p].kind = "Leaf",
           NEW e, e.kind # "Leaf", NEW now, now[p] = e, \A q \in Paths : q # p => now[q] = ent[q]
    PROVE  /\ Apart(tok, now) /\ PagesOf(tok, now) = PagesOf(tok, ent) \ {ent[p].page}
           /\ ent[p].page \in PagesOf(tok, ent)
<1>1. /\ LeafSet(now) = LeafSet(ent) \ {p} /\ Apart(tok, now)
      /\ \A q \in LeafSet(now) : now[q] = ent[q]
  BY LeafSetAfter
<1>2. p \in LeafSet(ent)
  BY Zenon DEF LeafSet
<1>3. /\ \A t \in DOMAIN tok : tok[t] # ent[p].page
      /\ \A q \in LeafSet(ent) : q # p => ent[q].page # ent[p].page
  BY <1>2, Zenon DEF Apart
<1>4. PagesOf(tok, now) = PagesOf(tok, ent) \ {ent[p].page}
  BY <1>1, <1>2, <1>3 DEF PagesOf
<1>5. ent[p].page \in PagesOf(tok, ent)
  BY <1>2, Zenon DEF PagesOf
<1> QED
  BY <1>1, <1>4, <1>5, Zenon

\* A VM without tables has no pages.
LEMMA NoPages == Apart(NoTokens, Empty) /\ PagesOf(NoTokens, Empty) = {}
<1>1. DOMAIN NoTokens = {} /\ LeafSet(Empty) = {}
  BY Zenon DEF NoTokens, LeafSet, Empty, NotValid
<1> QED
  BY <1>1, Zenon DEF Apart, PagesOf

-----------------------------------------------------------------------------
(* The invariant                                                           *)

\* The life of a page table.
Phases == {None, "copying", "ready"}

\* The types the model gives the state.
Types ==
    /\ free \subseteq Pages /\ leaked \subseteq Pages
    /\ phase \in [Vms -> Phases]
    /\ cursor \in [Vms -> Seq(Nat)]
    /\ tokens = [v \in Vms |-> tokens[v]]
    /\ entries \in [Vms -> [Paths -> Entry]]
    /\ memory \in [Vms -> [Paths -> Entry]]
    /\ running \in [Harts -> Vms \cup {None}]
    /\ pmp \in [Harts -> [tor : BOOLEAN, rwx : BOOLEAN]]
    /\ tlb \in [Harts -> SUBSET (Addresses \X Cached)]

\* The tables of a VM are in shape, and its pages are its own.
VmInv(v) ==
    /\ Shape(phase[v], cursor[v], tokens[v], entries[v], memory[v])
    /\ Apart(tokens[v], entries[v])
    /\ PagesOf(tokens[v], entries[v]) \cap (free \cup leaked) = {}
    /\ \A w \in Vms \ {v} : PagesOf(tokens[v], entries[v]) \cap PagesOf(tokens[w], entries[w]) = {}

\* Every page is free, lost or owned: no page is both free and lost.
AllPages ==
    /\ free \cap leaked = {}
    /\ \A x \in Pages : x \in free \/ x \in leaked \/ \E v \in Vms : x \in PagesOf(tokens[v], entries[v])

\* A VM that runs is complete, and the PMP of a hart is open when a VM runs on it.
HartInv(h) ==
    IF running[h] = None
    THEN ~pmp[h].rwx /\ tlb[h] = {}
    ELSE phase[running[h]] = "ready" /\ pmp[h].tor /\ pmp[h].rwx

\* The inductive invariant.
Inv == Types /\ AllPages /\ (\A v \in Vms : VmInv(v)) /\ (\A h \in Harts : HartInv(h))

\* At first every page is free.
LEMMA InitInv == Init => Inv
<1> SUFFICES ASSUME Init PROVE Inv
  BY Zenon
<1>1. Types
  <2>1. Empty \in [Paths -> Entry]
    BY Zenon DEF Empty, Entry, NotValid
  <2> QED
    BY <2>1 DEF Init, Types, Phases
<1>2. ASSUME NEW v \in Vms
      PROVE  /\ phase[v] = None /\ cursor[v] = <<>> /\ tokens[v] = NoTokens
             /\ entries[v] = Empty /\ memory[v] = Empty
  BY Zenon DEF Init
<1>3. \A v \in Vms : VmInv(v)
  BY <1>2, EmptyShape, NoPages, Zenon DEF VmInv
<1>4. AllPages
  BY Zenon DEF Init, AllPages
<1>5. \A h \in Harts : HartInv(h)
  BY SMTT(30) DEF Init, HartInv
<1> QED
  BY <1>1, <1>3, <1>4, <1>5, Zenon DEF Inv

-----------------------------------------------------------------------------
(* Steps on the table of one VM                                            *)

\* The pages of the VM, of the allocator and the lost ones are distributed anew among
\* them: nobody else notices.
LEMMA VmStep ==
    ASSUME Inv, NEW v \in Vms,
           NEW ph \in Phases, NEW c \in Seq(Nat), NEW tok, NEW ent, NEW mem,
           phase' = [phase EXCEPT ![v] = ph], cursor' = [cursor EXCEPT ![v] = c],
           tokens' = [tokens EXCEPT ![v] = tok], entries' = [entries EXCEPT ![v] = ent],
           memory' = [memory EXCEPT ![v] = mem],
           Shape(ph, c, tok, ent, mem), Apart(tok, ent),
           free' \cap leaked' = {}, PagesOf(tok, ent) \cap (free' \cup leaked') = {},
           free' \cup leaked' \cup PagesOf(tok, ent) =
              free \cup leaked \cup PagesOf(tokens[v], entries[v]),
           phase[v] = "ready" => ph = "ready" \/ \A h \in Harts : running[h] # v,
           running' = running, pmp' = pmp,
           tlb' \in [Harts -> SUBSET (Addresses \X Cached)], \A h \in Harts : tlb'[h] \subseteq tlb[h]
    PROVE  Inv'
<1>1. /\ phase'[v] = ph /\ cursor'[v] = c /\ tokens'[v] = tok /\ entries'[v] = ent /\ memory'[v] = mem
      /\ phase' \in [Vms -> Phases] /\ cursor' \in [Vms -> Seq(Nat)]
      /\ tokens' = [w \in Vms |-> tokens'[w]]
      /\ \A w \in Vms \ {v} : /\ phase'[w] = phase[w] /\ cursor'[w] = cursor[w] /\ tokens'[w] = tokens[w]
                              /\ entries'[w] = entries[w] /\ memory'[w] = memory[w]
  BY Zenon DEF Inv, Types
<1>2. entries' \in [Vms -> [Paths -> Entry]] /\ memory' \in [Vms -> [Paths -> Entry]]
  BY SMTT(30) DEF Inv, Types, Shape
<1>3. PagesOf(tokens[v], entries[v]) \subseteq Pages
  <2>1. Shape(phase[v], cursor[v], tokens[v], entries[v], memory[v])
    BY Zenon DEF Inv, VmInv
  <2> QED
    BY <2>1, SMTT(30) DEF Shape, PagesOf, LeafSet
<1>4. free' \subseteq Pages /\ leaked' \subseteq Pages
  BY <1>3, Zenon DEF Inv, Types
<1>5. Types'
  BY <1>1, <1>2, <1>4, SMTT(30) DEF Inv, Types
<1>6. \A w \in Vms \ {v} : /\ PagesOf(tokens[w], entries[w]) \cap (free \cup leaked) = {}
                           /\ PagesOf(tokens[w], entries[w]) \cap PagesOf(tokens[v], entries[v]) = {}
  BY Zenon DEF Inv, VmInv
<1>7. VmInv(v)'
  BY <1>1, <1>6, SMTT(60) DEF VmInv
<1>8. ASSUME NEW w \in Vms \ {v} PROVE VmInv(w)'
  <2>1. /\ Shape(phase[w], cursor[w], tokens[w], entries[w], memory[w])
        /\ Apart(tokens[w], entries[w])
        /\ \A u \in Vms \ {w} : PagesOf(tokens[w], entries[w]) \cap PagesOf(tokens[u], entries[u]) = {}
    BY Zenon DEF Inv, VmInv
  <2>2. PagesOf(tokens[w], entries[w]) \cap (free' \cup leaked' \cup PagesOf(tok, ent)) = {}
    BY <1>6, Zenon
  <2>3. ASSUME NEW u \in Vms \ {w}
        PROVE  PagesOf(tokens[w], entries[w]) \cap PagesOf(tokens'[u], entries'[u]) = {}
    BY <1>1, <2>1, <2>2, SMTT(30)
  <2> QED
    BY <1>1, <2>1, <2>2, <2>3, Zenon DEF VmInv
<1>9. AllPages'
  <2>1. ASSUME NEW x \in Pages
        PROVE  x \in free' \/ x \in leaked' \/ \E w \in Vms : x \in PagesOf(tokens'[w], entries'[w])
    <3>1. CASE x \in free \cup leaked \cup PagesOf(tokens[v], entries[v])
      BY <1>1, <3>1, Zenon
    <3>2. CASE \E w \in Vms \ {v} : x \in PagesOf(tokens[w], entries[w])
      BY <1>1, <3>2, SMTT(30)
    <3> QED
      BY <3>1, <3>2, Zenon DEF Inv, AllPages
  <2> QED
    BY <2>1, SMTT(30) DEF AllPages
<1>10. ASSUME NEW h \in Harts PROVE HartInv(h)'
  <2>1. HartInv(h) /\ running[h] \in Vms \cup {None}
    BY SMTT(30) DEF Inv, Types
  <2>2. CASE running[h] = None
    BY <2>1, <2>2, SMTT(30) DEF HartInv
  <2>3. CASE running[h] # None
    <3>1. phase'[running[h]] = "ready"
      BY <1>1, <2>1, <2>3, Zenon DEF HartInv
    <3> QED
      BY <2>1, <2>3, <3>1, Zenon DEF HartInv
  <2> QED
    BY <2>2, <2>3, Zenon
<1> QED
  BY <1>5, <1>7, <1>8, <1>9, <1>10, SMTT(30) DEF Inv

\* A component that a step leaves alone.
LEMMA Unchanged ==
    ASSUME Inv, NEW v \in Vms
    PROVE  /\ phase = [phase EXCEPT ![v] = phase[v]] /\ cursor = [cursor EXCEPT ![v] = cursor[v]]
           /\ tokens = [tokens EXCEPT ![v] = tokens[v]] /\ entries = [entries EXCEPT ![v] = entries[v]]
           /\ memory = [memory EXCEPT ![v] = memory[v]]
           /\ phase[v] \in Phases /\ cursor[v] \in Seq(Nat)
           /\ entries[v] \in [Paths -> Entry] /\ memory[v] \in [Paths -> Entry]
           /\ tlb \in [Harts -> SUBSET (Addresses \X Cached)]
BY Zenon DEF Inv, Types

\* What the invariant says of the pages that are free.
LEMMA FreePages ==
    ASSUME Inv, NEW v \in Vms
    PROVE  /\ Shape(phase[v], cursor[v], tokens[v], entries[v], memory[v])
           /\ Apart(tokens[v], entries[v])
           /\ free \subseteq Pages /\ free \cap leaked = {}
           /\ PagesOf(tokens[v], entries[v]) \cap (free \cup leaked) = {}
BY Zenon DEF Inv, Types, VmInv, AllPages

\* copy_table, called for the root or for the table of an entry.
LEMMA CopyTableStep ==
    ASSUME Inv, NEW v \in Vms, NEW table, copy_table(v, table), table \notin DOMAIN tokens[v],
           phase' = [phase EXCEPT ![v] = "copying"], phase[v] # "ready", Append(table, 0) \in Seq(Nat),
           \A page \in Pages, raw \in RawEntries(table) :
              Shape("copying", Append(table, 0), Added(tokens[v], table, page), entries[v],
                    Read(memory[v], table, raw))
    PROVE  Inv'
<1>1. PICK page \in free, raw \in RawEntries(table) :
         /\ free' = free \ {page}
         /\ tokens' = [tokens EXCEPT ![v] = Added(tokens[v], table, page)]
         /\ memory' = [memory EXCEPT ![v] = Read(memory[v], table, raw)]
  BY Zenon DEF copy_table, Added, Read
<1> DEFINE tok == Added(tokens[v], table, page)
           mem == Read(memory[v], table, raw)
<1>2. /\ cursor' = [cursor EXCEPT ![v] = Append(table, 0)]
      /\ leaked' = leaked /\ entries' = [entries EXCEPT ![v] = entries[v]]
      /\ running' = running /\ pmp' = pmp /\ tlb' = tlb
  BY Unchanged, Zenon DEF copy_table, hart_vars
<1>3. /\ free \subseteq Pages /\ free \cap leaked = {}
      /\ Apart(tokens[v], entries[v])
      /\ PagesOf(tokens[v], entries[v]) \cap (free \cup leaked) = {}
  BY FreePages, Zenon
<1>4. Shape("copying", Append(table, 0), tok, entries[v], mem)
  BY <1>3, SMTT(30)
<1>5. page \notin PagesOf(tokens[v], entries[v])
  BY <1>3, SMTT(30)
<1>6. /\ Apart(tok, entries[v])
      /\ PagesOf(tok, entries[v]) = PagesOf(tokens[v], entries[v]) \cup {page}
  BY <1>3, <1>5, TableAdded, SMTT(30)
<1> HIDE DEF tok, mem
<1>7. /\ free' \cap leaked' = {} /\ PagesOf(tok, entries[v]) \cap (free' \cup leaked') = {}
      /\ free' \cup leaked' \cup PagesOf(tok, entries[v]) = free \cup leaked \cup PagesOf(tokens[v], entries[v])
  BY <1>1, <1>2, <1>3, <1>6, Zenon
<1>8. tokens' = [tokens EXCEPT ![v] = tok] /\ memory' = [memory EXCEPT ![v] = mem]
  BY <1>1, Zenon DEF tok, mem
<1>9. "copying" \in Phases /\ tlb' \in [Harts -> SUBSET (Addresses \X Cached)]
  BY <1>2, Unchanged, SMTT(30) DEF Phases
<1> QED
  BY <1>2, <1>4, <1>6, <1>7, <1>8, <1>9, VmStep, Zenon

\* copy_mmu_configuration allocates and reads the root table.
LEMMA StartStep ==
    ASSUME Inv, NEW v \in Vms, copy_mmu_configuration(v)
    PROVE  Inv'
<1>1. phase[v] = None /\ phase' = [phase EXCEPT ![v] = "copying"] /\ copy_table(v, <<>>)
  BY SMTT(30) DEF copy_mmu_configuration
<1>2. tokens[v] = NoTokens /\ entries[v] = Empty /\ memory[v] = Empty
  BY <1>1, FreePages, Zenon DEF Shape
<1>3. Append(<<>>, 0) = <<0>> /\ <<0>> \in Seq(Nat) /\ phase[v] # "ready" /\ <<>> \notin DOMAIN NoTokens
  BY <1>1, SMTT(30) DEF NoTokens, None
<1> QED
  BY <1>1, <1>2, <1>3, StartShape, CopyTableStep, Zenon

\* The entry that a copy is at.
LEMMA AtEntry ==
    ASSUME Inv, NEW v \in Vms, InTable(v)
    PROVE  /\ cursor[v] \in Paths /\ phase[v] = "copying"
           /\ Shape("copying", cursor[v], tokens[v], entries[v], memory[v])
           /\ InCopy(cursor[v], tokens[v], entries[v], memory[v])
           /\ entries[v][cursor[v]] = NotValid
<1>1. phase[v] = "copying" /\ Index(cursor[v]) < TableSize(Table(cursor[v]))
  BY SMTT(30) DEF InTable
<1>2. /\ Shape("copying", cursor[v], tokens[v], entries[v], memory[v])
      /\ InCopy(cursor[v], tokens[v], entries[v], memory[v])
  BY <1>1, FreePages, SMTT(30) DEF Shape
<1>3. cursor[v] \in Paths
  BY <1>1, <1>2, EntryOfTable, Zenon DEF InCopy, Cursor
<1>4. Pending(cursor[v], cursor[v])
  BY <1>3, SelfPending, Zenon
<1> QED
  BY <1>1, <1>2, <1>3, <1>4, Zenon DEF InCopy

\* A pointer to a table: its page is copied and the recursion enters it.
LEMMA PointerStep ==
    ASSUME Inv, NEW v \in Vms, copy_pointer(v)
    PROVE  Inv'
<1>1. InTable(v) /\ Len(cursor[v]) < Levels /\ copy_table(v, cursor[v]) /\ phase' = phase
  BY SMTT(30) DEF copy_pointer
<1>2. /\ cursor[v] \in Paths /\ phase[v] = "copying"
      /\ Shape("copying", cursor[v], tokens[v], entries[v], memory[v])
      /\ InCopy(cursor[v], tokens[v], entries[v], memory[v])
  BY <1>1, AtEntry, SMTT(30)
<1>3. cursor[v] \notin DOMAIN tokens[v]
  BY <1>2, NewTable, Zenon DEF Shape
<1>4. Append(cursor[v], 0) \in Seq(Nat)
  BY <1>2, PathIndices
<1>5. phase' = [phase EXCEPT ![v] = "copying"]
  BY <1>1, <1>2, Unchanged, SMTT(30)
<1> QED
  BY <1>1, <1>2, <1>3, <1>4, <1>5, ChildShape, CopyTableStep, Zenon

\* set_entry on an entry that is no leaf, with a page that was free or none.
LEMMA SetEntryStep ==
    ASSUME Inv, NEW v \in Vms, InTable(v), NEW e \in Entry, set_entry(v, e),
           e = NotValid => memory[v][cursor[v]] = NotValid,
           IF e.kind = "Leaf" THEN e.page \in free /\ free' = free \ {e.page} ELSE free' = free,
           UNCHANGED <<leaked, phase, tokens, hart_vars>>
    PROVE  Inv'
<1> DEFINE c == cursor[v]
           ent == [entries[v] EXCEPT ![c] = e]
           mem == IF e = NotValid THEN memory[v] ELSE [memory[v] EXCEPT ![c] = e]
<1>1. /\ c \in Paths /\ phase[v] = "copying"
      /\ Shape("copying", c, tokens[v], entries[v], memory[v])
      /\ entries[v][c] = NotValid
  BY AtEntry, Zenon
<1>2. /\ entries[v] \in [Paths -> Entry] /\ memory[v] \in [Paths -> Entry]
      /\ free \subseteq Pages /\ free \cap leaked = {}
      /\ Apart(tokens[v], entries[v])
      /\ PagesOf(tokens[v], entries[v]) \cap (free \cup leaked) = {}
  BY FreePages, Unchanged, SMTT(30)
<1>3. /\ mem \in [Paths -> Entry] /\ mem[c] = e
      /\ \A p \in Paths : p # c => mem[p] = memory[v][p]
  BY <1>1, <1>2, SMTT(30)
<1>4. Shape("copying", Sibling(c), tokens[v], ent, mem)
  BY <1>1, <1>2, <1>3, SetShape, SMTT(30)
<1>5. /\ entries' = [entries EXCEPT ![v] = ent] /\ memory' = [memory EXCEPT ![v] = mem]
      /\ cursor' = [cursor EXCEPT ![v] = Sibling(c)]
      /\ phase' = [phase EXCEPT ![v] = "copying"] /\ tokens' = [tokens EXCEPT ![v] = tokens[v]]
      /\ leaked' = leaked /\ running' = running /\ pmp' = pmp /\ tlb' = tlb
      /\ tlb' \in [Harts -> SUBSET (Addresses \X Cached)]
  <2>1. entries' = [entries EXCEPT ![v] = ent] /\ cursor' = [cursor EXCEPT ![v] = Sibling(c)]
    BY Zenon DEF set_entry
  <2>2. memory' = [memory EXCEPT ![v] = mem]
    BY Unchanged, Zenon DEF set_entry
  <2> QED
    BY <1>1, <2>1, <2>2, Unchanged, Zenon DEF hart_vars
<1>6. Sibling(c) \in Seq(Nat) /\ "copying" \in Phases
  BY <1>1, PendingSibling, Zenon DEF Cursor, Phases
<1>7. /\ Apart(tokens[v], ent)
      /\ PagesOf(tokens[v], ent) = PagesOf(tokens[v], entries[v]) \cup (IF e.kind = "Leaf" THEN {e.page} ELSE {})
  <2>1. /\ entries[v][c].kind # "Leaf" /\ ent[c] = e
        /\ \A q \in Paths : q # c => ent[q] = entries[v][q]
    <3>1. entries[v][c].kind # "Leaf"
      BY <1>1 DEF NotValid
    <3>2. ent[c] = e /\ \A q \in Paths : q # c => ent[q] = entries[v][q]
      BY <1>1, <1>2, Zenon
    <3> QED
      BY <3>1, <3>2, Zenon
  <2>2. e.kind = "Leaf" => e.page \notin PagesOf(tokens[v], entries[v])
    BY <1>2, SMTT(30)
  <2> HIDE DEF c, ent
  <2>3. CASE e.kind = "Leaf"
    BY <1>1, <1>2, <2>1, <2>2, <2>3, LeafAdded, SMTT(60)
  <2>4. CASE e.kind # "Leaf"
    BY <1>1, <1>2, <2>1, <2>4, PagesKept, SMTT(30)
  <2> QED
    BY <2>3, <2>4, Zenon
<1> HIDE DEF c, ent, mem
<1>8. /\ free' \cap leaked' = {} /\ PagesOf(tokens[v], ent) \cap (free' \cup leaked') = {}
      /\ free' \cup leaked' \cup PagesOf(tokens[v], ent) = free \cup leaked \cup PagesOf(tokens[v], entries[v])
  BY <1>2, <1>5, <1>7
<1> QED
  BY <1>1, <1>4, <1>5, <1>6, <1>7, <1>8, VmStep, Zenon

\* An entry that is not valid, and a leaf whose page is copied into a confidential one.
LEMMA EntryStep ==
    ASSUME Inv, NEW v \in Vms, copy_not_valid(v) \/ copy_leaf(v)
    PROVE  Inv'
<1>1. InTable(v)
  BY Zenon DEF copy_not_valid, copy_leaf
<1>2. cursor[v] \in Paths /\ memory[v] \in [Paths -> Entry] /\ free \subseteq Pages
  BY <1>1, AtEntry, Unchanged, FreePages, ZenonT(60)
<1>3. CASE copy_not_valid(v)
  <2>1. /\ memory[v][cursor[v]].kind = "NotValid" /\ set_entry(v, NotValid)
        /\ UNCHANGED <<free, leaked, phase, tokens, hart_vars>>
    BY <1>3, Zenon DEF copy_not_valid
  <2>2. memory[v][cursor[v]] \in Entry
    BY <1>2, Zenon
  <2>3. memory[v][cursor[v]] = NotValid
    BY <2>1, <2>2, Zenon DEF Entry, NotValid
  <2>4. NotValid \in Entry /\ NotValid.kind # "Leaf"
    BY SMTT(60) DEF Entry, NotValid
  <2> QED
    BY <1>1, <2>1, <2>3, <2>4, SetEntryStep, SMTT(30)
<1>4. CASE copy_leaf(v)
  <2>1. PICK page \in free : free' = free \ {page} /\ set_entry(v, [kind |-> "Leaf", page |-> page])
    BY <1>4, Zenon DEF copy_leaf
  <2> DEFINE e == [kind |-> "Leaf", page |-> page]
  <2>2. e \in Entry /\ e.kind = "Leaf" /\ e.page = page /\ e # NotValid
    BY <1>2, Zenon DEF Entry, NotValid
  <2>3. UNCHANGED <<leaked, phase, tokens, hart_vars>>
    BY <1>4, Zenon DEF copy_leaf
  <2> HIDE DEF e
  <2>4. set_entry(v, e)
    BY <2>1, Zenon DEF e
  <2> QED
    BY <1>1, <2>1, <2>2, <2>3, <2>4, SetEntryStep, SMTT(30)
<1> QED
  BY <1>3, <1>4, SMTT(30)

\* The call for a table returns and its entry is set, or the root is complete.
LEMMA ReturnsStep ==
    ASSUME Inv, NEW v \in Vms, copy_returns(v)
    PROVE  Inv'
<1> DEFINE c == cursor[v]
           t == Table(c)
           e == [kind |-> "Pointer", page |-> tokens[v][t]]
<1>1. /\ phase[v] = "copying" /\ ~(Index(c) < TableSize(t))
      /\ free' = free /\ leaked' = leaked /\ tokens' = [tokens EXCEPT ![v] = tokens[v]]
      /\ running' = running /\ pmp' = pmp /\ tlb' = tlb
      /\ tlb' \in [Harts -> SUBSET (Addresses \X Cached)]
  BY Unchanged, SMTT(30) DEF copy_returns, InTable, hart_vars
<1>2. /\ Shape("copying", c, tokens[v], entries[v], memory[v])
      /\ InCopy(c, tokens[v], entries[v], memory[v])
      /\ entries[v] \in [Paths -> Entry] /\ Apart(tokens[v], entries[v])
      /\ free \cap leaked = {}
      /\ PagesOf(tokens[v], entries[v]) \cap (free \cup leaked) = {}
  <2>1. Shape("copying", c, tokens[v], entries[v], memory[v])
    BY <1>1, FreePages, SMTT(30)
  <2> QED
    BY <2>1, FreePages, Unchanged, Zenon DEF Shape
<1>3. CASE t = <<>>
  <2>1. /\ phase' = [phase EXCEPT ![v] = "ready"] /\ cursor' = [cursor EXCEPT ![v] = <<>>]
        /\ entries' = [entries EXCEPT ![v] = entries[v]] /\ memory' = [memory EXCEPT ![v] = memory[v]]
    BY <1>3, Unchanged, Zenon DEF copy_returns
  <2>2. Shape("ready", <<>>, tokens[v], entries[v], memory[v])
    BY <1>1, <1>2, <1>3, FinishShape, Zenon
  <2>3. "ready" \in Phases /\ <<>> \in Seq(Nat)
    BY DEF Phases
  <2> QED
    BY <1>1, <1>2, <2>1, <2>2, <2>3, VmStep, Zenon
<1>4. CASE t # <<>>
  <2> DEFINE ent == [entries[v] EXCEPT ![t] = e]
             mem == [memory[v] EXCEPT ![t] = e]
  <2>1. /\ phase' = [phase EXCEPT ![v] = "copying"] /\ cursor' = [cursor EXCEPT ![v] = Sibling(t)]
        /\ entries' = [entries EXCEPT ![v] = ent] /\ memory' = [memory EXCEPT ![v] = mem]
    BY <1>1, <1>4, Unchanged, SMTT(60) DEF copy_returns
  <2>2. Shape("copying", Sibling(t), tokens[v], ent, mem)
    BY <1>1, <1>2, <1>4, ReturnShape, SMTT(30)
  <2>3. t \in Paths /\ Sibling(t) \in Seq(Nat) /\ "copying" \in Phases
    <3>1. t \in Paths
      BY <1>2, <1>4, Zenon DEF InCopy, Cursor
    <3> QED
      BY <3>1, PendingSibling, SMTT(30) DEF Cursor, Phases
  <2>4. Pending(c, t)
    <3>1. c \in Seq(Nat) /\ Len(c) \in Nat \ {0}
      BY <1>2, CursorIndices, Zenon DEF InCopy
    <3>2. /\ Len(t) = Len(c) - 1 /\ \A i \in 1..(Len(c) - 1) : t[i] = c[i]
      <4>1. Len(c) > 0
        BY <3>1
      <4> QED
        BY <3>1, <4>1, TableFacts, Zenon
    <3>3. Len(t) \in Nat \ {0} /\ \A i \in 1..Len(t) : t[i] \in Nat
      BY <2>3, PathIndices, Zenon
    <3> DEFINE n == Len(c)
               m == Len(t)
    <3> HIDE DEF n, m, t, c
    <3>4. Below(c, n, t, m)
      <4>1. n \in Nat /\ m = n - 1 /\ m \in Nat \ {0} /\ t[m] \in Nat /\ \A i \in 1..m : t[i] = c[i]
        BY <3>1, <3>2, <3>3, SMTT(30) DEF n, m
      <4> QED
        BY <4>1 DEF Below
    <3> QED
      BY <3>4, SMTT(30) DEF Pending, n, m
  <2>5. entries[v][t].kind # "Leaf"
    <3>1. entries[v][t] = NotValid
      BY <1>2, <2>3, <2>4, Zenon DEF InCopy
    <3> QED
      BY <3>1 DEF NotValid
  <2>6. e.kind # "Leaf"
    BY Zenon
  <2>7. Apart(tokens[v], ent) /\ PagesOf(tokens[v], ent) = PagesOf(tokens[v], entries[v])
    <3>1. ent[t] = e /\ \A q \in Paths : q # t => ent[q] = entries[v][q]
      BY <1>2, <2>3, SMTT(30)
    <3> HIDE DEF ent, e, t
    <3> QED
      BY <1>2, <2>3, <2>5, <2>6, <3>1, PagesKept, SMTT(60)
  <2> HIDE DEF ent, mem
  <2> QED
    BY <1>1, <1>2, <2>1, <2>2, <2>3, <2>7, VmStep, Zenon
<1> QED
  BY <1>3, <1>4, Zenon

\* All pages of a VM: its tables' and its leaves'.
LEMMA AllLeaves ==
    ASSUME Inv, NEW v \in Vms
    PROVE  /\ TableTokens(v) \cup LeavesIn(v, DOMAIN tokens[v]) = PagesOf(tokens[v], entries[v])
           /\ \A S : LeavesIn(v, S) \subseteq PagesOf(tokens[v], entries[v])
<1>1. \A p \in Paths : entries[v][p].kind = "Leaf" => Table(p) \in DOMAIN tokens[v]
  BY FreePages, SMTT(30) DEF Shape
<1> QED
  BY <1>1, SMTT(30) DEF TableTokens, LeavesIn, PagesOf, LeafSet

\* The table is dropped, when a copy fails or with the VM.
LEMMA DropStep ==
    ASSUME Inv, NEW v \in Vms, phase[v] = "ready" => \A h \in Harts : running[h] # v,
           free' \cap leaked' = {},
           free' \cup leaked' = free \cup leaked \cup PagesOf(tokens[v], entries[v]),
           phase' = [phase EXCEPT ![v] = None], cursor' = [cursor EXCEPT ![v] = <<>>],
           tokens' = [tokens EXCEPT ![v] = NoTokens], entries' = [entries EXCEPT ![v] = Empty],
           memory' = [memory EXCEPT ![v] = Empty], UNCHANGED hart_vars
    PROVE  Inv'
<1>1. None \in Phases /\ <<>> \in Seq(Nat)
  BY DEF Phases
<1>2. running' = running /\ pmp' = pmp /\ tlb' = tlb /\ tlb' \in [Harts -> SUBSET (Addresses \X Cached)]
  BY Unchanged, Zenon DEF hart_vars
<1> QED
  BY <1>1, <1>2, EmptyShape, NoPages, VmStep, Zenon

\* The copy is given up in the middle: the tables give their tokens back, leaf pages are lost.
LEMMA FailsStep ==
    ASSUME Inv, NEW v \in Vms, copy_fails(v)
    PROVE  Inv'
<1>1. PICK dropped \in {{}} \cup {{page} : page \in free} :
         LET lost == LeavesIn(v, Unfinished(v)) \cup dropped
         IN /\ leaked' = leaked \cup lost
            /\ free' = (free \cup TableTokens(v) \cup LeavesIn(v, DOMAIN tokens[v])) \ lost
  BY Zenon DEF copy_fails
<1>2. /\ LeavesIn(v, Unfinished(v)) \subseteq PagesOf(tokens[v], entries[v])
      /\ TableTokens(v) \cup LeavesIn(v, DOMAIN tokens[v]) = PagesOf(tokens[v], entries[v])
      /\ dropped \subseteq free
  BY AllLeaves, Zenon
<1>3. /\ free \cap leaked = {} /\ PagesOf(tokens[v], entries[v]) \cap (free \cup leaked) = {}
  BY FreePages, Zenon
<1>4. /\ free' \cap leaked' = {}
      /\ free' \cup leaked' = free \cup leaked \cup PagesOf(tokens[v], entries[v])
  BY <1>1, <1>2, <1>3, SMTT(30)
<1>5. phase[v] # "ready"
  BY AtEntry, Zenon DEF copy_fails
<1> QED
  BY <1>4, <1>5, DropStep, Zenon DEF copy_fails

\* The drop of a whole page table gives all its pages back.
LEMMA RemoveStep ==
    ASSUME Inv, NEW v \in Vms, remove_confidential_vm(v)
    PROVE  Inv'
<1>1. /\ phase[v] = "ready" /\ \A h \in Harts : running[h] # v
      /\ free' = free \cup TableTokens(v) \cup LeavesIn(v, DOMAIN tokens[v]) /\ leaked' = leaked
      /\ UNCHANGED hart_vars
  BY Zenon DEF remove_confidential_vm
<1>2. cursor' = [cursor EXCEPT ![v] = <<>>]
  <2>1. cursor[v] = <<>>
    BY <1>1, FreePages, Zenon DEF Shape
  <2> QED
    BY <2>1, Unchanged, SMTT(30) DEF remove_confidential_vm
<1>3. TableTokens(v) \cup LeavesIn(v, DOMAIN tokens[v]) = PagesOf(tokens[v], entries[v])
  BY AllLeaves, SMTT(30)
<1>4. free \cap leaked = {} /\ PagesOf(tokens[v], entries[v]) \cap (free \cup leaked) = {}
  BY FreePages, SMTT(30)
<1>5. /\ free' \cap leaked' = {}
      /\ free' \cup leaked' = free \cup leaked \cup PagesOf(tokens[v], entries[v])
  BY <1>1, <1>3, <1>4, SMTT(30)
<1> QED
  BY <1>1, <1>2, <1>5, DropStep, Zenon DEF remove_confidential_vm

\* A token for the root that is dropped at once.
LEMMA RootFailsStep ==
    ASSUME Inv, NEW v \in Vms, copy_root_fails(v)
    PROVE  Inv'
<1>1. PICK page \in free : free' = free \ {page} /\ leaked' = leaked \cup {page}
  BY SMTT(30) DEF copy_root_fails
<1>2. /\ Shape(phase[v], cursor[v], tokens[v], entries[v], memory[v])
      /\ Apart(tokens[v], entries[v])
      /\ free \cap leaked = {} /\ PagesOf(tokens[v], entries[v]) \cap (free \cup leaked) = {}
  BY FreePages, Zenon
<1>3. /\ free' \cap leaked' = {} /\ PagesOf(tokens[v], entries[v]) \cap (free' \cup leaked') = {}
      /\ free' \cup leaked' \cup PagesOf(tokens[v], entries[v])
            = free \cup leaked \cup PagesOf(tokens[v], entries[v])
  BY <1>1, <1>2, Zenon
<1>4. UNCHANGED <<phase, cursor, tokens, entries, memory, running, pmp, tlb>>
  BY Zenon DEF copy_root_fails, hart_vars
<1> QED
  BY <1>2, <1>3, <1>4, Unchanged, VmStep, SMTT(30)

-----------------------------------------------------------------------------
(* Walks                                                                   *)

\* The walk along a path ends at depth k.
Ends(view, path, k) ==
    /\ view[SubSeq(path, 1, k)].kind # "Pointer" \/ k = Levels
    /\ \A j \in 1..(k - 1) : view[SubSeq(path, 1, j)].kind = "Pointer"

\* Well-founded induction, for the existence of a least number.
WF == INSTANCE WellFoundedInduction

\* A non-empty set of natural numbers has a least element.
LEMMA LeastNumber ==
    ASSUME NEW T, T \subseteq Nat, T # {}
    PROVE  \E x \in T : \A y \in T : x <= y
<1>1. PICK x \in T : \A y \in T : ~(<<y, x>> \in WF!OpToRel(<, Nat))
  BY WF!NatLessThanWellFounded, WF!WFMin, Zenon
<1>2. ASSUME NEW y \in T PROVE x <= y
  <2>1. ~(<<y, x>> \in WF!OpToRel(<, Nat))
    BY <1>1, Zenon
  <2> QED
    BY <2>1 DEF WF!OpToRel
<1> QED
  BY <1>2, Zenon

\* Every walk ends, at one depth.
LEMMA WalkEnds ==
    ASSUME NEW view, NEW path
    PROVE  /\ \E k \in 1..Levels : Ends(view, path, k) /\ EndOfWalk(view, path) = SubSeq(path, 1, k)
           /\ \A k, m \in 1..Levels : Ends(view, path, k) /\ Ends(view, path, m) => k = m
<1>1. Levels \in Nat \ {0}
  BY LevelsAssumption, Zenon
<1>2. \E k \in 1..Levels : Ends(view, path, k)
  <2> DEFINE T == {k \in 1..Levels : view[SubSeq(path, 1, k)].kind # "Pointer" \/ k = Levels}
  <2>1. Levels \in T /\ T \subseteq Nat
    BY <1>1
  <2>2. PICK k \in T : \A j \in T : k <= j
    BY <2>1, LeastNumber, ZenonT(60)
  <2>3. ASSUME NEW j \in 1..(k - 1) PROVE view[SubSeq(path, 1, j)].kind = "Pointer"
    BY <1>1, <2>2
  <2> QED
    BY <2>2, <2>3, ZenonT(60) DEF Ends
<1>3. EndOfWalk(view, path) = SubSeq(path, 1, CHOOSE k \in 1..Levels : Ends(view, path, k))
  BY Zenon DEF EndOfWalk, Ends
<1>4. ASSUME NEW k \in 1..Levels, NEW m \in 1..Levels, Ends(view, path, k), Ends(view, path, m), k < m
      PROVE  FALSE
  BY <1>1, <1>4 DEF Ends
<1>5. \A k, m \in 1..Levels : Ends(view, path, k) /\ Ends(view, path, m) => k = m
  BY <1>1, <1>4
<1> QED
  BY <1>2, <1>3, <1>5, Zenon

\* An address is a path through all levels; what is above it on the way is one as well.
LEMMA AddressFacts ==
    ASSUME NEW a \in Addresses
    PROVE  /\ a \in Paths /\ a \in Seq(Nat) /\ Len(a) = Levels
           /\ \A k \in 1..Levels : SubSeq(a, 1, k) \in Paths /\ Len(SubSeq(a, 1, k)) = k
           /\ SubSeq(a, 1, Levels) = a
           /\ vpn(a) \in Addresses
           /\ a[1] < VpnRange => vpn(a) = a
<1>1. /\ Levels \in Nat /\ Levels > 1 /\ RootEntries \in Nat /\ Entries \in Nat
      /\ VpnRange \in Nat /\ VpnRange > 0 /\ VpnRange <= RootEntries
  BY LevelsAssumption, EntriesAssumption
<1>2. /\ a \in [1..Levels -> 0..(RootEntries - 1)] /\ \A i \in 2..Levels : a[i] < Entries
  BY Zenon DEF Addresses, PathsOf
<1>3. a \in Seq(Nat) /\ Len(a) = Levels
  BY <1>1, <1>2
<1>4. a[1] \in Nat /\ a[1] < RootEntries
  BY <1>1, <1>2
<1>5. a \in Paths
  BY <1>1, <1>2, <1>3, <1>4, PathMeaning, SMTT(60)
<1>6. ASSUME NEW k \in 1..Levels PROVE SubSeq(a, 1, k) \in Paths /\ Len(SubSeq(a, 1, k)) = k
  <2> DEFINE p == SubSeq(a, 1, k)
  <2>1. p \in Seq(Nat) /\ Len(p) = k /\ \A i \in 1..k : p[i] = a[i]
    BY <1>1, <1>3, SMTT(60)
  <2> HIDE DEF p
  <2>2. p[1] < RootEntries
    BY <1>1, <1>4, <2>1
  <2>3. \A i \in 2..k : i \in 1..k /\ i \in 2..Levels
    BY <1>1
  <2>4. \A i \in 2..k : p[i] < Entries
    BY <1>2, <2>1, <2>3, Zenon
  <2>5. p \in Paths
    BY <2>1, <2>2, <2>4, PathMeaning, Zenon
  <2> QED
    BY <2>1, <2>5, Zenon DEF p
<1>7. SubSeq(a, 1, Levels) = a
  BY <1>1, <1>3
<1>8. a[1] % VpnRange \in 0..(RootEntries - 1) /\ (a[1] < VpnRange => a[1] % VpnRange = a[1])
  BY <1>1, <1>4
<1>9. vpn(a) \in Addresses
  <2>1. vpn(a) \in [1..Levels -> 0..(RootEntries - 1)]
    BY <1>2, <1>8, Zenon DEF vpn
  <2>2. \A i \in 2..Levels : vpn(a)[i] < Entries
    BY <1>1, <1>2 DEF vpn
  <2> QED
    BY <2>1, <2>2, Zenon DEF Addresses, PathsOf
<1>10. a[1] < VpnRange => vpn(a) = a
  BY <1>2, <1>8, Zenon DEF vpn
<1> QED
  BY <1>3, <1>5, <1>6, <1>7, <1>9, <1>10, SMTT(30)

\* A walk ends at an entry.
LEMMA EndIsEntry ==
    ASSUME NEW view, NEW a \in Addresses
    PROVE  EndOfWalk(view, a) \in Paths
<1>1. PICK k \in 1..Levels : EndOfWalk(view, a) = SubSeq(a, 1, k)
  BY WalkEnds, Zenon
<1>2. SubSeq(a, 1, k) \in Paths
  BY AddressFacts, Zenon
<1> QED
  BY <1>1, <1>2, Zenon

-----------------------------------------------------------------------------
(* Steps of the harts                                                      *)

\* Steps that leave the tables alone.
LEMMA HartStep ==
    ASSUME Inv, UNCHANGED table_vars,
           running' \in [Harts -> Vms \cup {None}], pmp' \in [Harts -> [tor : BOOLEAN, rwx : BOOLEAN]],
           tlb' \in [Harts -> SUBSET (Addresses \X Cached)], \A h \in Harts : HartInv(h)'
    PROVE  Inv'
<1>1. /\ free' = free /\ leaked' = leaked /\ phase' = phase /\ cursor' = cursor
      /\ tokens' = tokens /\ entries' = entries /\ memory' = memory
  BY Zenon DEF table_vars
<1>2. Types'
  BY <1>1, SMTT(30) DEF Inv, Types
<1>3. AllPages'
  BY <1>1, Zenon DEF Inv, AllPages
<1>4. ASSUME NEW v \in Vms PROVE VmInv(v)'
  <2>1. VmInv(v)
    BY Zenon DEF Inv
  <2> QED
    BY <1>1, <2>1, Zenon DEF VmInv
<1> QED
  BY <1>2, <1>3, <1>4, Zenon DEF Inv

\* A hart enters the VM: its PMP opens.
LEMMA ResumeStep ==
    ASSUME Inv, NEW h \in Harts, NEW v \in Vms, resume(h, v)
    PROVE  Inv'
<1>1. /\ phase[v] = "ready" /\ UNCHANGED table_vars
      /\ running' = [running EXCEPT ![h] = v]
      /\ pmp' = [pmp EXCEPT ![h] = [tor |-> TRUE, rwx |-> TRUE]]
      /\ tlb' = [tlb EXCEPT ![h] = {}]
  BY Zenon DEF resume, enable, open_access_to_confidential_memory, tlb_shutdown
<1>2. /\ running \in [Harts -> Vms \cup {None}] /\ pmp \in [Harts -> [tor : BOOLEAN, rwx : BOOLEAN]]
      /\ tlb \in [Harts -> SUBSET (Addresses \X Cached)] /\ phase' = phase
  BY <1>1, Zenon DEF Inv, Types, table_vars
<1>3. /\ running' \in [Harts -> Vms \cup {None}] /\ pmp' \in [Harts -> [tor : BOOLEAN, rwx : BOOLEAN]]
      /\ tlb' \in [Harts -> SUBSET (Addresses \X Cached)]
  BY <1>1, <1>2, Zenon
<1>4. ASSUME NEW g \in Harts PROVE HartInv(g)'
  <2>1. CASE g = h
    BY <1>1, <1>2, <2>1, VmsAssumption, SMTT(30) DEF HartInv
  <2>2. CASE g # h
    <3>1. HartInv(g)
      BY Zenon DEF Inv
    <3> QED
      BY <1>1, <1>2, <2>2, <3>1, Zenon DEF HartInv
  <2> QED
    BY <2>1, <2>2, Zenon
<1> QED
  BY <1>1, <1>3, <1>4, HartStep, SMTT(30)

\* A hart leaves the VM: its PMP closes and its TLB is flushed.
LEMMA ExitStep ==
    ASSUME Inv, NEW h \in Harts, exit(h)
    PROVE  Inv'
<1>1. /\ UNCHANGED table_vars
      /\ running' = [running EXCEPT ![h] = None]
      /\ pmp' = [pmp EXCEPT ![h].rwx = FALSE]
      /\ tlb' = [tlb EXCEPT ![h] = {}]
  BY Zenon DEF exit, enable_hypervisor, close_access_to_confidential_memory, tlb_shutdown
<1>2. /\ running \in [Harts -> Vms \cup {None}] /\ pmp \in [Harts -> [tor : BOOLEAN, rwx : BOOLEAN]]
      /\ tlb \in [Harts -> SUBSET (Addresses \X Cached)] /\ phase' = phase
  BY <1>1, Zenon DEF Inv, Types, table_vars
<1>3. /\ running' \in [Harts -> Vms \cup {None}] /\ pmp' \in [Harts -> [tor : BOOLEAN, rwx : BOOLEAN]]
      /\ tlb' \in [Harts -> SUBSET (Addresses \X Cached)]
  BY <1>1, <1>2, Zenon
<1>4. ASSUME NEW g \in Harts PROVE HartInv(g)'
  <2>1. CASE g = h
    BY <1>1, <1>2, <2>1, Zenon DEF HartInv
  <2>2. CASE g # h
    <3>1. HartInv(g)
      BY SMTT(30) DEF Inv
    <3> QED
      BY <1>1, <1>2, <2>2, <3>1, Zenon DEF HartInv
  <2> QED
    BY <2>1, <2>2, Zenon
<1> QED
  BY <1>1, <1>3, <1>4, HartStep, Zenon

\* A hart that runs a VM: the VM is complete and its two views are one.
LEMMA RunningVm ==
    ASSUME Inv, NEW h \in Harts, running[h] # None
    PROVE  /\ running[h] \in Vms /\ phase[running[h]] = "ready"
           /\ memory[running[h]] = entries[running[h]] /\ cursor[running[h]] = <<>>
           /\ entries[running[h]] \in [Paths -> Entry]
           /\ Shape("ready", <<>>, tokens[running[h]], entries[running[h]], entries[running[h]])
<1>1. running[h] \in Vms /\ phase[running[h]] = "ready"
  BY SMTT(30) DEF Inv, Types, HartInv
<1>2. Shape(phase[running[h]], cursor[running[h]], tokens[running[h]], entries[running[h]], memory[running[h]])
  BY <1>1, FreePages, SMTT(60)
<1>3. memory[running[h]] = entries[running[h]] /\ cursor[running[h]] = <<>>
  BY <1>1, <1>2, SMTT(30) DEF Shape
<1>4. entries[running[h]] \in [Paths -> Entry]
  BY <1>2, Zenon DEF Shape
<1> QED
  BY <1>1, <1>2, <1>3, <1>4, Zenon

\* A memory access may be cached.
LEMMA AccessStep ==
    ASSUME Inv, NEW h \in Harts, NEW a \in Addresses, access(h, a)
    PROVE  Inv'
<1> DEFINE e == HardwareWalk(running[h], a)
<1>1. /\ running[h] # None /\ UNCHANGED table_vars /\ running' = running /\ pmp' = pmp
      /\ tlb' = [tlb EXCEPT ![h] = @ \cup {<<a, e>>}]
  BY SMTT(30) DEF access
<1>2. e \in Cached
  <2>1. memory[running[h]][EndOfWalk(memory[running[h]], a)] \in Cached
    BY <1>1, RunningVm, EndIsEntry, SMTT(30) DEF Cached
  <2>2. [kind |-> "Shared", page |-> Unchecked] \in Cached
    BY Zenon DEF Cached
  <2> QED
    BY <2>1, <2>2, Zenon DEF HardwareWalk
<1> HIDE DEF e
<1>3. /\ running \in [Harts -> Vms \cup {None}] /\ pmp \in [Harts -> [tor : BOOLEAN, rwx : BOOLEAN]]
      /\ tlb \in [Harts -> SUBSET (Addresses \X Cached)] /\ phase' = phase
  BY <1>1, Zenon DEF Inv, Types, table_vars
<1>4. tlb' \in [Harts -> SUBSET (Addresses \X Cached)]
  BY <1>1, <1>2, <1>3, SMTT(30)
<1>5. ASSUME NEW g \in Harts PROVE HartInv(g)'
  <2>1. HartInv(g)
    BY Zenon DEF Inv
  <2>2. g # h => tlb'[g] = tlb[g]
    BY <1>1, <1>3, Zenon
  <2> QED
    BY <1>1, <1>3, <2>1, <2>2, SMTT(30) DEF HartInv
<1> QED
  BY <1>1, <1>3, <1>4, <1>5, HartStep, SMTT(30)

\* A step that changes nothing, such as a map_shared_page that fails.
LEMMA StutterStep ==
    ASSUME Inv, UNCHANGED vars
    PROVE  Inv'
<1>1. UNCHANGED table_vars /\ running' = running /\ pmp' = pmp /\ tlb' = tlb
  BY Zenon DEF vars, table_vars
<1>2. /\ running' \in [Harts -> Vms \cup {None}] /\ pmp' \in [Harts -> [tor : BOOLEAN, rwx : BOOLEAN]]
      /\ tlb' \in [Harts -> SUBSET (Addresses \X Cached)] /\ phase' = phase
  BY <1>1, Zenon DEF Inv, Types, table_vars
<1>3. ASSUME NEW h \in Harts PROVE HartInv(h)'
  <2>1. HartInv(h)
    BY Zenon DEF Inv
  <2> QED
    BY <1>1, <1>2, <2>1, Zenon DEF HartInv
<1> QED
  BY <1>1, <1>2, <1>3, HartStep, Zenon

\* The page that map_shared_page takes from an entry.
Replaced(v, p) == IF entries[v][p].kind = "Leaf" THEN {entries[v][p].page} ELSE {}

\* What map_shared_page does to the table of the VM.
SharedEntryFacts(h, a, page, v, p, e) ==
    /\ v = running[h] /\ p = EndOfWalk(entries[v], vpn(a)) /\ e = [kind |-> "Shared", page |-> page]
    /\ v \in Vms /\ p \in Paths /\ e \in Entry /\ e.kind = "Shared"
    /\ entries' = [entries EXCEPT ![v] = [entries[v] EXCEPT ![p] = e]]
    /\ memory' = [memory EXCEPT ![v] = [entries[v] EXCEPT ![p] = e]]
    /\ free' = free \cup Replaced(v, p) /\ stale' = GivenBack(h, Replaced(v, p))
    /\ tlb' = [tlb EXCEPT ![h] = {}]
    /\ leaked' = leaked /\ phase' = phase /\ cursor' = cursor /\ tokens' = tokens
    /\ running' = running /\ pmp' = pmp /\ used' = used

\* map_shared_page replaces the entry where the walk of the address ends.
LEMMA SharedEntry ==
    ASSUME Inv, NEW h \in Harts, NEW a \in Addresses, NEW page \in SharedPages, map_shared_page(h, a, page)
    PROVE  \E v, p, e : SharedEntryFacts(h, a, page, v, p, e)
<1>0. PICK v, p, e : v = running[h] /\ p = EndOfWalk(entries[v], vpn(a)) /\ e = [kind |-> "Shared", page |-> page]
  BY Zenon
<1>1. running[h] # None
  BY SMTT(30) DEF map_shared_page
<1>2. v \in Vms /\ memory[v] = entries[v] /\ entries[v] \in [Paths -> Entry]
  BY <1>0, <1>1, RunningVm, Zenon
<1>3. p \in Paths
  BY <1>0, <1>2, AddressFacts, EndIsEntry, Zenon
<1>4. e \in Entry /\ e.kind = "Shared"
  BY <1>0, Zenon DEF Entry
<1>5. /\ entries' = [entries EXCEPT ![v][p] = e] /\ memory' = [memory EXCEPT ![v][p] = e]
      /\ free' = free \cup Replaced(v, p) /\ stale' = GivenBack(h, Replaced(v, p))
  BY <1>0, Zenon DEF map_shared_page, Replaced
<1>6. /\ tlb' = [tlb EXCEPT ![h] = {}] /\ leaked' = leaked /\ phase' = phase /\ cursor' = cursor
      /\ tokens' = tokens /\ running' = running /\ pmp' = pmp /\ used' = used
  BY Zenon DEF map_shared_page, tlb_shutdown
<1>7. /\ entries' = [entries EXCEPT ![v] = [entries[v] EXCEPT ![p] = e]]
      /\ memory' = [memory EXCEPT ![v] = [entries[v] EXCEPT ![p] = e]]
  BY <1>2, <1>5, SMTT(30)
<1> QED
  BY <1>0, <1>2, <1>3, <1>4, <1>5, <1>6, <1>7, Zenon DEF SharedEntryFacts

\* map_shared_page replaces a leaf by the hypervisor's page and gives the leaf's page back.
LEMMA ShareStep ==
    ASSUME Inv, NEW h \in Harts, NEW a \in Addresses, NEW page \in SharedPages, map_shared_page(h, a, page)
    PROVE  Inv'
<1>0. PICK v, p, e : SharedEntryFacts(h, a, page, v, p, e)
  BY SharedEntry, Zenon
<1> DEFINE ent == [entries[v] EXCEPT ![p] = e]
<1>1. /\ v \in Vms /\ p \in Paths /\ e \in Entry /\ e.kind = "Shared"
      /\ entries' = [entries EXCEPT ![v] = ent] /\ memory' = [memory EXCEPT ![v] = ent]
      /\ free' = free \cup Replaced(v, p)
      /\ tlb' = [tlb EXCEPT ![h] = {}]
      /\ UNCHANGED <<leaked, phase, cursor, tokens, running, pmp>>
  BY <1>0, Zenon DEF SharedEntryFacts
<1>2. running[h] # None
  BY Zenon DEF map_shared_page
<1>3. /\ phase[v] = "ready" /\ cursor[v] = <<>> /\ entries[v] \in [Paths -> Entry]
      /\ Shape("ready", <<>>, tokens[v], entries[v], entries[v])
  BY <1>0, <1>2, RunningVm, Zenon DEF SharedEntryFacts
<1>4. /\ Apart(tokens[v], entries[v]) /\ free \cap leaked = {}
      /\ PagesOf(tokens[v], entries[v]) \cap (free \cup leaked) = {}
  BY <1>1, FreePages, SMTT(30)
<1>5. Shape("ready", <<>>, tokens[v], ent, ent)
  BY <1>1, <1>3, SharedShape, SMTT(30)
<1>6. e.kind # "Leaf" /\ ent[p] = e /\ \A q \in Paths : q # p => ent[q] = entries[v][q]
  BY <1>1, <1>3, SMTT(60)
<1> HIDE DEF ent
<1>7. /\ Apart(tokens[v], ent)
      /\ entries[v][p].kind = "Leaf" => /\ PagesOf(tokens[v], ent) = PagesOf(tokens[v], entries[v]) \ {entries[v][p].page}
                                        /\ entries[v][p].page \in PagesOf(tokens[v], entries[v])
      /\ entries[v][p].kind # "Leaf" => PagesOf(tokens[v], ent) = PagesOf(tokens[v], entries[v])
  <2>1. CASE entries[v][p].kind = "Leaf"
    BY <1>1, <1>3, <1>4, <1>6, <2>1, LeafRemoved, SMTT(60)
  <2>2. CASE entries[v][p].kind # "Leaf"
    BY <1>1, <1>3, <1>4, <1>6, <2>2, PagesKept, SMTT(60)
  <2> QED
    BY <2>1, <2>2, SMTT(60)
<1>8. /\ free' \cap leaked' = {} /\ PagesOf(tokens[v], ent) \cap (free' \cup leaked') = {}
      /\ free' \cup leaked' \cup PagesOf(tokens[v], ent) = free \cup leaked \cup PagesOf(tokens[v], entries[v])
  BY <1>1, <1>4, <1>7, SMTT(60) DEF Replaced
<1>9. /\ phase' = [phase EXCEPT ![v] = "ready"] /\ cursor' = [cursor EXCEPT ![v] = <<>>]
      /\ tokens' = [tokens EXCEPT ![v] = tokens[v]] /\ "ready" \in Phases /\ <<>> \in Seq(Nat)
  BY <1>1, <1>3, Unchanged, SMTT(30) DEF Phases
<1>10. /\ tlb' \in [Harts -> SUBSET (Addresses \X Cached)] /\ \A g \in Harts : tlb'[g] \subseteq tlb[g]
       /\ running' = running /\ pmp' = pmp
  BY <1>1, Unchanged, Zenon
<1> QED
  BY <1>1, <1>5, <1>7, <1>8, <1>9, <1>10, VmStep, ZenonT(60)

\* Every step keeps the invariant.
LEMMA NextStep == Inv /\ [Next]_vars => Inv'
<1> SUFFICES ASSUME Inv, [Next]_vars PROVE Inv'
  BY Zenon
<1>1. CASE UNCHANGED vars
  BY <1>1, StutterStep, Zenon
<1>2. ASSUME NEW v \in Vms,
             \/ copy_mmu_configuration(v) \/ copy_root_fails(v) \/ copy_not_valid(v) \/ copy_leaf(v) \/ copy_pointer(v)
             \/ copy_returns(v) \/ copy_fails(v) \/ remove_confidential_vm(v)
      PROVE  Inv'
  BY <1>2, StartStep, RootFailsStep, EntryStep, PointerStep, ReturnsStep, FailsStep, RemoveStep, ZenonT(60)
<1>3. ASSUME NEW h \in Harts, exit(h) PROVE Inv'
  BY <1>3, ExitStep, Zenon
<1>4. ASSUME NEW h \in Harts, NEW v \in Vms, resume(h, v) PROVE Inv'
  BY <1>4, ResumeStep, Zenon
<1>5. ASSUME NEW h \in Harts, NEW a \in Addresses, access(h, a) PROVE Inv'
  BY <1>5, AccessStep, Zenon
<1>6. ASSUME NEW h \in Harts, NEW a \in Addresses, share_page_result(h, a) PROVE Inv'
  BY <1>6, ShareStep, StutterStep, Zenon DEF share_page_result, map_shared_page_fails
<1> QED
  BY <1>1, <1>2, <1>3, <1>4, <1>5, <1>6, ZenonT(60) DEF Next

-----------------------------------------------------------------------------
(* Theorems                                                                *)

\* The inductive invariant holds in every reachable state.
THEOREM Invariance == Spec => []Inv
<1>1. Init => Inv
  BY InitInv, Zenon
<1>2. Inv /\ [Next]_vars => Inv'
  BY NextStep, Zenon
<1> QED
  BY <1>1, <1>2, PTL DEF Spec

\* Every page of the confidential memory is free, leaked, or one table or one leaf of one VM:
\* copies that fail half way, replaced leaves and removed VMs neither lose nor share one.
THEOREM OwnershipSafety == Spec => []PagesHaveOneOwner
<1>1. Inv => PagesHaveOneOwner
  <2> SUFFICES ASSUME Inv PROVE PagesHaveOneOwner
    BY Zenon
  <2>1. \A v \in Vms : Owned(v) = PagesOf(tokens[v], entries[v]) /\ LeafSet(entries[v]) = Leaves(v)
    BY Zenon DEF Owned, TableTokens, LeafPages, Leaves, PagesOf, LeafSet
  <2>2. free \cap leaked = {}
    BY SMTT(30) DEF Inv, AllPages
  <2>3. ASSUME NEW v \in Vms
        PROVE  /\ Owned(v) \subseteq Pages /\ Owned(v) \cap (free \cup leaked) = {}
               /\ \A w \in Vms \ {v} : Owned(v) \cap Owned(w) = {}
    <3>1. PagesOf(tokens[v], entries[v]) \subseteq Pages
      BY FreePages DEF Shape, PagesOf, LeafSet
    <3> QED
      BY <2>1, <3>1, ZenonT(60) DEF Inv, VmInv
  <2>4. Pages = free \cup leaked \cup UNION {Owned(v) : v \in Vms}
    <3>1. free \subseteq Pages /\ leaked \subseteq Pages
      BY Zenon DEF Inv, Types
    <3>2. \A x \in Pages : x \in free \/ x \in leaked \/ \E v \in Vms : x \in Owned(v)
      BY <2>1, SMTT(30) DEF Inv, AllPages
    <3> QED
      BY <2>3, <3>1, <3>2
  <2>5. ASSUME NEW v \in Vms
        PROVE  /\ TableTokens(v) \cap LeafPages(v) = {}
               /\ \A t, u \in DOMAIN tokens[v] : t # u => tokens[v][t] # tokens[v][u]
               /\ \A p, q \in Leaves(v) : p # q => entries[v][p].page # entries[v][q].page
    BY <2>1, FreePages, ZenonT(60) DEF Apart, TableTokens, LeafPages
  <2> QED
    BY <2>2, <2>3, <2>4, <2>5, Zenon DEF PagesHaveOneOwner
<1> QED
  BY <1>1, Invariance, PTL

\* The tables that the hardware walks for a complete VM are the monitor's: no valid entry
\* written by the hypervisor survives the copy.
THEOREM CopySafety == Spec => []MemoryMatchesEntries
<1>1. Inv => MemoryMatchesEntries
  BY FreePages, SMTT(30) DEF MemoryMatchesEntries, Shape
<1> QED
  BY <1>1, Invariance, PTL

-----------------------------------------------------------------------------
(* What the harts can reach                                                *)

\* Steps on the table of a VM leave the harts and the tables of the other VMs alone.
LEMMA VmSteps ==
    ASSUME Inv, NEW v \in Vms,
           \/ copy_mmu_configuration(v) \/ copy_root_fails(v) \/ copy_not_valid(v) \/ copy_leaf(v) \/ copy_pointer(v)
           \/ copy_returns(v) \/ copy_fails(v) \/ remove_confidential_vm(v)
    PROVE  /\ UNCHANGED hart_vars
           /\ \A w \in Vms \ {v} : tokens'[w] = tokens[w] /\ entries'[w] = entries[w] /\ memory'[w] = memory[w]
           /\ phase[v] # "ready" \/ \A h \in Harts : running[h] # v
<1> DEFINE Others == \A w \in Vms \ {v} : tokens'[w] = tokens[w] /\ entries'[w] = entries[w] /\ memory'[w] = memory[w]
<1>1. /\ tokens = [w \in Vms |-> tokens[w]] /\ entries \in [Vms -> [Paths -> Entry]]
      /\ memory \in [Vms -> [Paths -> Entry]]
  BY Zenon DEF Inv, Types
<1>2. ASSUME NEW table, copy_table(v, table) PROVE Others /\ UNCHANGED hart_vars
  BY <1>1, <1>2, Zenon DEF copy_table
<1>3. ASSUME NEW e, set_entry(v, e), tokens' = tokens PROVE Others
  <2>1. \A w \in Vms \ {v} : entries'[w] = entries[w]
    BY <1>1, <1>3, Zenon DEF set_entry
  <2>2. \A w \in Vms \ {v} : memory'[w] = memory[w]
    BY <1>1, <1>3, Zenon DEF set_entry
  <2> QED
    BY <1>3, <2>1, <2>2, Zenon
<1>4. ASSUME tokens' = [tokens EXCEPT ![v] = NoTokens], entries' = [entries EXCEPT ![v] = Empty],
             memory' = [memory EXCEPT ![v] = Empty]
      PROVE  Others
  BY <1>1, <1>4, Zenon
<1> HIDE DEF Others
<1>5. CASE copy_mmu_configuration(v)
  BY <1>2, <1>5, Zenon DEF copy_mmu_configuration, None, Others
<1>6. CASE copy_root_fails(v)
  BY <1>6, Zenon DEF copy_root_fails, None
<1>7. CASE copy_not_valid(v)
  BY <1>3, <1>7, Zenon DEF copy_not_valid, InTable, Others
<1>8. CASE copy_leaf(v)
  BY <1>3, <1>8, Zenon DEF copy_leaf, InTable, Others
<1>9. CASE copy_pointer(v)
  BY <1>2, <1>9, Zenon DEF copy_pointer, InTable, Others
<1>10. CASE copy_returns(v)
  <2>1. phase[v] # "ready" /\ tokens' = tokens /\ UNCHANGED hart_vars
    BY <1>10, Zenon DEF copy_returns
  <2>2. CASE Table(cursor[v]) = <<>>
    BY <1>10, <2>1, <2>2, Zenon DEF copy_returns
  <2>3. CASE Table(cursor[v]) # <<>>
    <3>1. \E e : /\ entries' = [entries EXCEPT ![v][Table(cursor[v])] = e]
                /\ memory' = [memory EXCEPT ![v][Table(cursor[v])] = e]
      BY <1>10, <2>3, Zenon DEF copy_returns
    <3>2. \A w \in Vms \ {v} : entries'[w] = entries[w] /\ memory'[w] = memory[w]
      BY <1>1, <3>1, Zenon
    <3> QED
      BY <2>1, <3>2, Zenon
  <2> QED
    BY <2>2, <2>3, Zenon
<1>11. CASE copy_fails(v)
  BY <1>4, <1>11, Zenon DEF copy_fails, InTable, Others
<1>12. CASE remove_confidential_vm(v)
  BY <1>4, <1>12, Zenon DEF remove_confidential_vm, Others
<1> QED
  BY <1>5, <1>6, <1>7, <1>8, <1>9, <1>10, <1>11, <1>12, Zenon

\* The page that a share takes from an entry is a page of the confidential memory, and the
\* only one that the VM loses.
LEMMA SharePages ==
    ASSUME Inv, NEW h \in Harts, NEW a \in Addresses, NEW page \in SharedPages, map_shared_page(h, a, page),
           NEW v, NEW p, NEW e, SharedEntryFacts(h, a, page, v, p, e)
    PROVE  /\ Replaced(v, p) \subseteq Pages
           /\ PagesOf(tokens[v], entries[v]) \subseteq PagesOf(tokens'[v], entries'[v]) \cup Replaced(v, p)
           /\ memory[v] = entries[v] /\ memory'[v] = entries'[v]
           /\ \A q \in Paths : entries[v][q].kind = "Shared" => entries'[v][q].kind = "Shared"
<1>2. /\ v \in Vms /\ p \in Paths /\ e.kind = "Shared" /\ tokens' = tokens
      /\ entries' = [entries EXCEPT ![v] = [entries[v] EXCEPT ![p] = e]]
      /\ memory' = [memory EXCEPT ![v] = [entries[v] EXCEPT ![p] = e]]
  BY Zenon DEF SharedEntryFacts
<1>3. /\ entries \in [Vms -> [Paths -> Entry]] /\ memory \in [Vms -> [Paths -> Entry]]
  BY Zenon DEF Inv, Types
<1>4. entries[v] \in [Paths -> Entry]
  BY <1>2, <1>3, Zenon
<1>5. entries'[v] = [entries[v] EXCEPT ![p] = e] /\ memory'[v] = [entries[v] EXCEPT ![p] = e]
  BY <1>2, <1>3, Zenon
<1>6. entries'[v][p] = e /\ \A q \in Paths : q # p => entries'[v][q] = entries[v][q]
  BY <1>2, <1>4, <1>5, Zenon
<1>7. running[h] # None
  BY Zenon DEF map_shared_page
<1>8. memory[v] = entries[v] /\ Shape("ready", <<>>, tokens[v], entries[v], entries[v])
  BY <1>7, RunningVm, Zenon DEF SharedEntryFacts
<1>9. Replaced(v, p) \subseteq Pages
  BY <1>2, <1>8, Zenon DEF Replaced, Shape
<1>10. ASSUME NEW x \in PagesOf(tokens[v], entries[v])
       PROVE  x \in PagesOf(tokens'[v], entries'[v]) \cup Replaced(v, p)
  <2>1. CASE \E t \in DOMAIN tokens[v] : x = tokens[v][t]
    BY <1>2, <2>1, Zenon DEF PagesOf
  <2>2. CASE \E q \in LeafSet(entries[v]) : x = entries[v][q].page
    <3>1. PICK q \in LeafSet(entries[v]) : x = entries[v][q].page
      BY <2>2, Zenon
    <3>2. CASE q = p
      BY <3>1, <3>2, Zenon DEF Replaced, LeafSet
    <3>3. CASE q # p
      <4>1. q \in LeafSet(entries'[v]) /\ entries'[v][q].page = x
        BY <1>6, <3>1, <3>3, Zenon DEF LeafSet
      <4> QED
        BY <4>1, Zenon DEF PagesOf
    <3> QED
      BY <3>2, <3>3, Zenon
  <2> QED
    BY <2>1, <2>2, Zenon DEF PagesOf
<1>11. \A q \in Paths : entries[v][q].kind = "Shared" => entries'[v][q].kind = "Shared"
  BY <1>2, <1>6, Zenon
<1> QED
  BY <1>5, <1>8, <1>9, <1>10, <1>11, Zenon

\* The pages that are given back are of the confidential memory, and the PMP entry of a hart
\* that has run a VM stays armed.
HistoryInv ==
    /\ stale \in [Harts -> SUBSET Pages] /\ used \subseteq Harts
    /\ \A h \in used : pmp[h].tor

\* Every step keeps the history in order.
LEMMA HistoryStep == Inv /\ HistoryInv /\ [Next]_vars => HistoryInv'
<1> SUFFICES ASSUME Inv, HistoryInv, [Next]_vars PROVE HistoryInv'
  BY Zenon
<1>1. ASSUME UNCHANGED hart_vars PROVE HistoryInv'
  BY <1>1, Zenon DEF hart_vars, HistoryInv
<1>2. CASE UNCHANGED vars
  BY <1>1, <1>2, Zenon DEF vars, hart_vars
<1>3. ASSUME NEW v \in Vms,
             \/ copy_mmu_configuration(v) \/ copy_root_fails(v) \/ copy_not_valid(v) \/ copy_leaf(v) \/ copy_pointer(v)
             \/ copy_returns(v) \/ copy_fails(v) \/ remove_confidential_vm(v)
      PROVE  HistoryInv'
  BY <1>1, <1>3, VmSteps, Zenon
<1>4. pmp \in [Harts -> [tor : BOOLEAN, rwx : BOOLEAN]]
  BY Zenon DEF Inv, Types
<1>5. ASSUME NEW h \in Harts, exit(h) PROVE HistoryInv'
  <2>1. pmp' = [pmp EXCEPT ![h].rwx = FALSE] /\ stale' = [stale EXCEPT ![h] = {}] /\ used' = used
    BY <1>5, Zenon DEF exit, enable_hypervisor, close_access_to_confidential_memory
  <2>2. \A g \in Harts : pmp'[g].tor = pmp[g].tor
    BY <1>4, <2>1, SMTT(30)
  <2>3. stale' \in [Harts -> SUBSET Pages]
    BY <2>1, Zenon DEF HistoryInv
  <2> QED
    BY <2>1, <2>2, <2>3, Zenon DEF HistoryInv
<1>6. ASSUME NEW h \in Harts, NEW v \in Vms, resume(h, v) PROVE HistoryInv'
  <2>1. /\ pmp' = [pmp EXCEPT ![h] = [tor |-> TRUE, rwx |-> TRUE]]
        /\ stale' = [stale EXCEPT ![h] = {}] /\ used' = used \cup {h}
    BY <1>6, Zenon DEF resume, enable, open_access_to_confidential_memory
  <2>2. pmp'[h].tor /\ \A g \in Harts \ {h} : pmp'[g] = pmp[g]
    BY <1>4, <2>1, SMTT(30)
  <2>3. stale' \in [Harts -> SUBSET Pages]
    BY <2>1, Zenon DEF HistoryInv
  <2>4. ASSUME NEW g \in used' PROVE pmp'[g].tor
    BY <2>1, <2>2, <2>4, SMTT(30) DEF HistoryInv
  <2> QED
    BY <2>1, <2>3, <2>4, Zenon DEF HistoryInv
<1>7. ASSUME NEW h \in Harts, NEW a \in Addresses, access(h, a) PROVE HistoryInv'
  BY <1>7, Zenon DEF access, HistoryInv
<1>8. ASSUME NEW h \in Harts, NEW a \in Addresses, share_page_result(h, a) PROVE HistoryInv'
  <2>1. CASE map_shared_page_fails(h, a)
    BY <1>2, <2>1, Zenon DEF map_shared_page_fails
  <2>2. ASSUME NEW page \in SharedPages, map_shared_page(h, a, page) PROVE HistoryInv'
    <3>1. PICK v, p, e : SharedEntryFacts(h, a, page, v, p, e)
      BY <2>2, SharedEntry, Zenon
    <3>2. stale' = GivenBack(h, Replaced(v, p)) /\ pmp' = pmp /\ used' = used
      BY <3>1, Zenon DEF SharedEntryFacts
    <3>3. Replaced(v, p) \subseteq Pages
      BY <2>2, <3>1, SharePages, Zenon
    <3>4. stale' \in [Harts -> SUBSET Pages]
      BY <3>2, <3>3, SMTT(30) DEF GivenBack, HistoryInv
    <3> QED
      BY <3>2, <3>4, Zenon DEF HistoryInv
  <2> QED
    BY <1>8, <2>1, <2>2, Zenon DEF share_page_result
<1> QED
  BY <1>2, <1>3, <1>5, <1>6, <1>7, <1>8, ZenonT(60) DEF Next

\* The history is in order in every reachable state.
THEOREM HistoryInvariance == Spec => []HistoryInv
<1>1. Init => HistoryInv
  BY Zenon DEF Init, HistoryInv
<1> QED
  BY <1>1, HistoryStep, Invariance, PTL DEF Spec

\* The variables keep their types and a copy never indexes past the entries of a table, for
\* every number of levels and every size of the tables.
THEOREM TypeCorrectness == Spec => []TypeOK
<1>1. Inv /\ HistoryInv => TypeOK
  <2> SUFFICES ASSUME Inv, HistoryInv PROVE TypeOK
    BY Zenon
  <2>1. Types
    BY SMTT(30) DEF Inv
  <2>2. ASSUME NEW v \in Vms, cursor[v] # <<>>
        PROVE  Table(cursor[v]) \in Paths \cup {<<>>} /\ Index(cursor[v]) \in 0..TableSize(Table(cursor[v]))
    <3>1. phase[v] \in Phases
      BY <2>1, SMTT(30) DEF Types
    <3> QED
      BY <2>2, <3>1, FreePages, Zenon DEF Shape, Phases, InCopy, Cursor
  <2>3. ASSUME NEW v \in Vms
        PROVE  DOMAIN tokens[v] \subseteq Paths \cup {<<>>} /\ \A t \in DOMAIN tokens[v] : tokens[v][t] \in Pages
    BY FreePages, Zenon DEF Shape
  <2>4. ASSUME NEW h \in Harts, NEW t \in tlb[h] PROVE t[1] \in Addresses /\ t[2] \in Cached
    BY <2>1 DEF Types
  <2> QED
    BY <2>1, <2>2, <2>3, <2>4, Zenon DEF TypeOK, Types, Phases, HistoryInv
<1> QED
  BY <1>1, Invariance, HistoryInvariance, PTL

\* A hart has cached only shared pages, pages that its VM has or gave back since the last
\* fence, and what lies behind a shared page in the place of a huge page.
Reachable(h, t) ==
    \/ t[2].page \in SharedPages \cup PagesOf(tokens[running[h]], entries[running[h]]) \cup stale[h]
    \/ t[2].page = Unchecked /\ InHugeShare(running[h], t[1])

CachedInv == \A h \in Harts : running[h] # None => \A t \in tlb[h] : Reachable(h, t)

\* What a hart may reach depends on its VM only.
LEMMA ReachableKept ==
    ASSUME NEW h, NEW t, running'[h] = running[h], tokens'[running[h]] = tokens[running[h]],
           entries'[running[h]] = entries[running[h]], memory'[running[h]] = memory[running[h]],
           stale'[h] = stale[h], Reachable(h, t)
    PROVE  Reachable(h, t)'
<1>1. PagesOf(tokens[running[h]], entries[running[h]])' = PagesOf(tokens[running[h]], entries[running[h]])
  BY Zenon DEF PagesOf, LeafSet
<1>2. InHugeShare(running[h], t[1])' <=> InHugeShare(running[h], t[1])
  BY Zenon DEF InHugeShare
<1> QED
  BY <1>1, <1>2, Zenon DEF Reachable

\* While a page table is created or removed no hart runs the VM.
LEMMA CachedVm ==
    ASSUME Inv, CachedInv, NEW v \in Vms,
           \/ copy_mmu_configuration(v) \/ copy_root_fails(v) \/ copy_not_valid(v) \/ copy_leaf(v) \/ copy_pointer(v)
           \/ copy_returns(v) \/ copy_fails(v) \/ remove_confidential_vm(v)
    PROVE  CachedInv'
<1>1. /\ running' = running /\ tlb' = tlb /\ stale' = stale
      /\ \A w \in Vms \ {v} : tokens'[w] = tokens[w] /\ entries'[w] = entries[w] /\ memory'[w] = memory[w]
      /\ phase[v] # "ready" \/ \A h \in Harts : running[h] # v
  BY VmSteps, Zenon DEF hart_vars
<1>2. v # None
  BY VmsAssumption, Zenon
<1>3. ASSUME NEW h \in Harts, running[h] # None
      PROVE  /\ tokens'[running[h]] = tokens[running[h]] /\ entries'[running[h]] = entries[running[h]]
             /\ memory'[running[h]] = memory[running[h]]
  <2>1. running[h] \in Vms \ {v}
    BY <1>1, <1>2, <1>3, RunningVm, Zenon
  <2> QED
    BY <1>1, <2>1, Zenon
<1>4. ASSUME NEW h \in Harts, running[h] # None, NEW t \in tlb[h] PROVE Reachable(h, t)'
  BY <1>1, <1>3, <1>4, ReachableKept, Zenon DEF CachedInv
<1> QED
  BY <1>1, <1>4, Zenon DEF CachedInv

\* A hart that enters a VM has cached nothing.
LEMMA CachedResume ==
    ASSUME Inv, CachedInv, HistoryInv, NEW h \in Harts, NEW v \in Vms, resume(h, v)
    PROVE  CachedInv'
<1>1. /\ running' = [running EXCEPT ![h] = v] /\ tlb' = [tlb EXCEPT ![h] = {}] /\ stale' = [stale EXCEPT ![h] = {}]
      /\ tokens' = tokens /\ entries' = entries /\ memory' = memory
  BY Zenon DEF resume, enable, tlb_shutdown, table_vars
<1>2. /\ running \in [Harts -> Vms \cup {None}] /\ tlb \in [Harts -> SUBSET (Addresses \X Cached)]
      /\ stale \in [Harts -> SUBSET Pages]
  BY Zenon DEF Inv, Types, HistoryInv
<1>3. tlb'[h] = {} /\ \A g \in Harts \ {h} : running'[g] = running[g] /\ tlb'[g] = tlb[g] /\ stale'[g] = stale[g]
  BY <1>1, <1>2, Zenon
<1>4. ASSUME NEW g \in Harts \ {h}, running[g] # None, NEW t \in tlb[g] PROVE Reachable(g, t)'
  BY <1>1, <1>3, <1>4, ReachableKept, Zenon DEF CachedInv
<1> QED
  BY <1>3, <1>4, Zenon DEF CachedInv

\* An access caches what the walk finds.
LEMMA CachedAccess ==
    ASSUME Inv, CachedInv, NEW h \in Harts, NEW a \in Addresses, access(h, a)
    PROVE  CachedInv'
<1>0. PICK v, p, e : v = running[h] /\ p = EndOfWalk(memory[v], a) /\ e = HardwareWalk(v, a)
  BY Zenon
<1>1. /\ v # None /\ e.kind \in {"Leaf", "Shared"} /\ tlb' = [tlb EXCEPT ![h] = @ \cup {<<a, e>>}]
      /\ running' = running /\ tokens' = tokens /\ entries' = entries /\ memory' = memory /\ stale' = stale
  BY <1>0, SMTT(30) DEF access, table_vars
<1>2. memory[v] = entries[v] /\ entries[v] \in [Paths -> Entry]
  BY <1>0, <1>1, RunningVm, Zenon
<1>3. PICK k \in 1..Levels : p = SubSeq(a, 1, k)
  BY <1>0, WalkEnds, Zenon
<1>4. p \in Paths /\ Len(p) = k
  BY <1>3, AddressFacts, Zenon
<1>5. Reachable(h, <<a, e>>)
  <2>1. CASE memory[v][p].kind = "Shared" /\ \E i \in (Len(p) + 1)..Levels : a[i] # 0
    <3>1. e.page = Unchecked
      BY <1>0, <2>1, Zenon DEF HardwareWalk
    <3>2. k \in 1..(Levels - 1)
      BY <1>3, <1>4, <2>1, LevelsAssumption, SMTT(30)
    <3>3. InHugeShare(v, a)
      BY <1>3, <2>1, <3>2, Zenon DEF InHugeShare
    <3> QED
      BY <1>0, <3>1, <3>3, Zenon DEF Reachable
  <2>2. CASE ~(memory[v][p].kind = "Shared" /\ \E i \in (Len(p) + 1)..Levels : a[i] # 0)
    <3>1. e = entries[v][p] /\ e \in Entry
      BY <1>0, <1>2, <1>4, <2>2, Zenon DEF HardwareWalk
    <3>2. CASE e.kind = "Leaf"
      <4>1. e.page \in PagesOf(tokens[v], entries[v])
        BY <1>4, <3>1, <3>2, Zenon DEF PagesOf, LeafSet
      <4> QED
        BY <1>0, <4>1, Zenon DEF Reachable
    <3>3. CASE e.kind = "Shared"
      <4>1. e.page \in SharedPages
        BY <3>1, <3>3, SMTT(30) DEF Entry
      <4> QED
        BY <4>1, Zenon DEF Reachable
    <3> QED
      BY <1>1, <3>2, <3>3, Zenon
  <2> QED
    BY <2>1, <2>2, Zenon
<1>6. tlb \in [Harts -> SUBSET (Addresses \X Cached)]
  BY Zenon DEF Inv, Types
<1>7. tlb'[h] = tlb[h] \cup {<<a, e>>} /\ \A g \in Harts \ {h} : tlb'[g] = tlb[g]
  BY <1>1, <1>6, Zenon
<1>8. ASSUME NEW g \in Harts, running[g] # None, NEW t \in tlb'[g] PROVE Reachable(g, t)'
  <2>1. Reachable(g, t)
    BY <1>5, <1>7, <1>8, Zenon DEF CachedInv
  <2> QED
    BY <1>1, <2>1, Zenon DEF Reachable, InHugeShare
<1> QED
  BY <1>1, <1>8, Zenon DEF CachedInv

\* The page that a share gives up stays in the caches of the other harts that run the VM.
LEMMA CachedShare ==
    ASSUME Inv, CachedInv, HistoryInv, NEW h \in Harts, NEW a \in Addresses, NEW page \in SharedPages,
           map_shared_page(h, a, page)
    PROVE  CachedInv'
<1>1. PICK v, p, e : SharedEntryFacts(h, a, page, v, p, e)
  BY SharedEntry, Zenon
<1>2. /\ v \in Vms /\ v = running[h] /\ tlb' = [tlb EXCEPT ![h] = {}] /\ running' = running /\ tokens' = tokens
      /\ stale' = GivenBack(h, Replaced(v, p))
      /\ entries' = [entries EXCEPT ![v] = [entries[v] EXCEPT ![p] = e]]
      /\ memory' = [memory EXCEPT ![v] = [entries[v] EXCEPT ![p] = e]]
  BY <1>1, Zenon DEF SharedEntryFacts
<1>3. /\ PagesOf(tokens[v], entries[v]) \subseteq PagesOf(tokens'[v], entries'[v]) \cup Replaced(v, p)
      /\ memory[v] = entries[v] /\ memory'[v] = entries'[v]
      /\ \A q \in Paths : entries[v][q].kind = "Shared" => entries'[v][q].kind = "Shared"
  BY <1>1, SharePages, Zenon
<1>4. tlb \in [Harts -> SUBSET (Addresses \X Cached)] /\ \A w \in Vms \ {v} : entries'[w] = entries[w] /\ memory'[w] = memory[w]
  BY <1>2, Zenon DEF Inv, Types
<1>5. tlb'[h] = {} /\ \A g \in Harts \ {h} : tlb'[g] = tlb[g]
  BY <1>2, <1>4, Zenon
<1>6. ASSUME NEW g \in Harts, running[g] # None, NEW t \in tlb'[g] PROVE Reachable(g, t)'
  <2>1. g # h /\ t \in tlb[g]
    BY <1>5, <1>6, Zenon
  <2>2. Reachable(g, t)
    BY <1>6, <2>1, Zenon DEF CachedInv
  <2>3. CASE running[g] = v
    <3>1. stale'[g] = stale[g] \cup Replaced(v, p)
      BY <1>2, <2>1, <2>3, Zenon DEF GivenBack
    <3>2. InHugeShare(v, t[1]) => InHugeShare(v, t[1])'
      <4>1. t[1] \in Addresses
        BY <1>4, <2>1, SMTT(30)
      <4>2. \A k \in 1..(Levels - 1) : k \in 1..Levels
        BY LevelsAssumption, SMTT(30)
      <4>3. \A k \in 1..(Levels - 1) : SubSeq(t[1], 1, k) \in Paths
        BY <4>1, <4>2, AddressFacts, Zenon
      <4> QED
        BY <1>3, <4>3, Zenon DEF InHugeShare
    <3> QED
      BY <1>2, <1>3, <2>2, <2>3, <3>1, <3>2, Zenon DEF Reachable
  <2>4. CASE running[g] # v
    <3>1. running[g] \in Vms \ {v}
      BY <1>6, <2>4, RunningVm, Zenon
    <3>2. stale'[g] = stale[g]
      BY <1>2, <2>1, <2>4, Zenon DEF GivenBack
    <3> QED
      BY <1>2, <1>4, <2>2, <3>1, <3>2, ZenonT(60) DEF Reachable, InHugeShare
  <2> QED
    BY <2>3, <2>4, Zenon
<1> QED
  BY <1>2, <1>6, Zenon DEF CachedInv

\* A hart that leaves the VM caches nothing.
LEMMA CachedExit ==
    ASSUME Inv, CachedInv, HistoryInv, NEW h \in Harts, exit(h)
    PROVE  CachedInv'
<1>1. /\ running' = [running EXCEPT ![h] = None] /\ tlb' = [tlb EXCEPT ![h] = {}] /\ stale' = [stale EXCEPT ![h] = {}]
      /\ tokens' = tokens /\ entries' = entries /\ memory' = memory
  BY Zenon DEF exit, enable_hypervisor, tlb_shutdown, table_vars
<1>2. /\ running \in [Harts -> Vms \cup {None}] /\ tlb \in [Harts -> SUBSET (Addresses \X Cached)]
      /\ stale \in [Harts -> SUBSET Pages]
  BY Zenon DEF Inv, Types, HistoryInv
<1>3. tlb'[h] = {} /\ \A g \in Harts \ {h} : running'[g] = running[g] /\ tlb'[g] = tlb[g] /\ stale'[g] = stale[g]
  BY <1>1, <1>2, Zenon
<1>4. ASSUME NEW g \in Harts \ {h}, running[g] # None, NEW t \in tlb[g] PROVE Reachable(g, t)'
  BY <1>1, <1>3, <1>4, ReachableKept, Zenon DEF CachedInv
<1> QED
  BY <1>3, <1>4, Zenon DEF CachedInv

\* For every number of confidential harts a hart reaches only shared pages and pages of the VM
\* that runs on it, and nothing of the confidential memory while it runs the hypervisor, up
\* to the exceptions that AccessStaysInOwnMemory names.
THEOREM AccessSafety == Spec => []AccessStaysInOwnMemory
<1>1. Init => CachedInv
  BY Zenon DEF Init, CachedInv
<1>2. Inv /\ HistoryInv /\ CachedInv /\ [Next]_vars => CachedInv'
  <2> SUFFICES ASSUME Inv, HistoryInv, CachedInv, [Next]_vars PROVE CachedInv'
    BY Zenon
  <2>1. CASE UNCHANGED vars
    BY <2>1, Zenon DEF vars, CachedInv, Reachable, InHugeShare
  <2>2. ASSUME NEW v \in Vms,
               \/ copy_mmu_configuration(v) \/ copy_root_fails(v) \/ copy_not_valid(v) \/ copy_leaf(v) \/ copy_pointer(v)
               \/ copy_returns(v) \/ copy_fails(v) \/ remove_confidential_vm(v)
        PROVE  CachedInv'
    BY <2>2, CachedVm, Zenon
  <2>3. ASSUME NEW h \in Harts, exit(h) PROVE CachedInv'
    BY <2>3, CachedExit, Zenon
  <2>4. ASSUME NEW h \in Harts, NEW v \in Vms, resume(h, v) PROVE CachedInv'
    BY <2>4, CachedResume, Zenon
  <2>5. ASSUME NEW h \in Harts, NEW a \in Addresses, access(h, a) PROVE CachedInv'
    BY <2>5, CachedAccess, Zenon
  <2>6. ASSUME NEW h \in Harts, NEW a \in Addresses, share_page_result(h, a) PROVE CachedInv'
    BY <2>1, <2>6, CachedShare, Zenon DEF share_page_result, map_shared_page_fails
  <2> QED
    BY <2>1, <2>2, <2>3, <2>4, <2>5, <2>6, ZenonT(60) DEF Next
<1>3. Inv /\ HistoryInv /\ CachedInv => AccessStaysInOwnMemory
  <2> SUFFICES ASSUME Inv, HistoryInv, CachedInv, NEW h \in Harts
               PROVE  IF running[h] = None
                      THEN ~pmp[h].rwx /\ tlb[h] = {} /\ (h \in used => pmp[h].tor)
                      ELSE /\ pmp[h].tor /\ pmp[h].rwx
                           /\ \A t \in tlb[h] :
                                 \/ t[2].page \in SharedPages \cup Owned(running[h]) \cup stale[h]
                                 \/ t[2].page = Unchecked /\ InHugeShare(running[h], t[1])
    BY Zenon DEF AccessStaysInOwnMemory
  <2>1. HartInv(h) /\ (h \in used => pmp[h].tor)
    BY Zenon DEF Inv, HistoryInv
  <2>2. Owned(running[h]) = PagesOf(tokens[running[h]], entries[running[h]])
    BY Zenon DEF Owned, TableTokens, LeafPages, Leaves, PagesOf, LeafSet
  <2>3. running[h] # None => \A t \in tlb[h] : Reachable(h, t)
    BY Zenon DEF CachedInv
  <2> QED
    BY <2>1, <2>2, <2>3, Zenon DEF HartInv, Reachable
<1> QED
  BY <1>1, <1>2, <1>3, Invariance, HistoryInvariance, PTL DEF Spec

-----------------------------------------------------------------------------
(* What a share does to the translation                                    *)

\* Walks along which two views agree end at the same entry.
SamePointers(view, other, path) ==
    \A k \in 1..(Levels - 1) : view[SubSeq(path, 1, k)] = other[SubSeq(path, 1, k)]

\* Walks that meet the same pointers end at the same entry.
LEMMA SameWalk ==
    ASSUME NEW view, NEW other, NEW path, SamePointers(view, other, path)
    PROVE  EndOfWalk(view, path) = EndOfWalk(other, path)
<1>1. Levels \in Nat
  BY LevelsAssumption, Zenon
<1>2. PICK k \in 1..Levels : Ends(view, path, k) /\ EndOfWalk(view, path) = SubSeq(path, 1, k)
  BY WalkEnds, Zenon
<1>3. PICK m \in 1..Levels : Ends(other, path, m) /\ EndOfWalk(other, path) = SubSeq(path, 1, m)
  BY WalkEnds, Zenon
<1>4. Ends(other, path, k)
  BY <1>1, <1>2, SMTT(30) DEF Ends, SamePointers
<1>5. k = m
  BY <1>3, <1>4, WalkEnds, SMTT(30)
<1> QED
  BY <1>2, <1>3, <1>5, Zenon

\* One last level entry changes: the address it is for is translated to it, and every other
\* address as before.
LEMMA OneEntry ==
    ASSUME NEW view, NEW a \in Addresses, EndOfWalk(view, a) = a,
           NEW e, NEW after, after[a] = e, \A p \in Paths : p # a => after[p] = view[p]
    PROVE  /\ after[EndOfWalk(after, a)] = e
           /\ \A b \in Addresses : EndOfWalk(after, b) = EndOfWalk(view, b)
           /\ \A b \in Addresses \ {a} : after[EndOfWalk(after, b)] = view[EndOfWalk(view, b)]
<1>1. a \in Paths /\ Len(a) = Levels /\ Levels \in Nat
  BY AddressFacts, LevelsAssumption, SMTT(30)
<1>2. after[a] = e /\ \A p \in Paths : p # a => after[p] = view[p]
  BY Zenon
<1>3. ASSUME NEW b \in Addresses PROVE EndOfWalk(after, b) = EndOfWalk(view, b)
  <2>1. ASSUME NEW k \in 1..(Levels - 1) PROVE view[SubSeq(b, 1, k)] = after[SubSeq(b, 1, k)]
    <3>1. k \in 1..Levels /\ k # Levels
      BY <1>1
    <3>2. SubSeq(b, 1, k) \in Paths /\ Len(SubSeq(b, 1, k)) = k
      BY <3>1, AddressFacts, SMTT(30)
    <3> DEFINE p == SubSeq(b, 1, k)
    <3> HIDE DEF p
    <3>3. p \in Paths /\ p # a
      BY <1>1, <3>1, <3>2, Zenon DEF p
    <3>4. after[p] = view[p]
      BY <1>2, <3>3, Zenon
    <3> QED
      BY <3>4, Zenon DEF p
  <2> QED
    <3>1. SamePointers(view, after, b)
      BY <2>1, Zenon DEF SamePointers
    <3> QED
      BY <3>1, SameWalk
<1>4. after[EndOfWalk(after, a)] = e
  BY <1>2, <1>3, Zenon
<1>5. ASSUME NEW b \in Addresses \ {a} PROVE after[EndOfWalk(after, b)] = view[EndOfWalk(view, b)]
  <2>1. PICK k \in 1..Levels : EndOfWalk(view, b) = SubSeq(b, 1, k)
    BY WalkEnds, Zenon
  <2>2. SubSeq(b, 1, k) \in Paths /\ Len(SubSeq(b, 1, k)) = k /\ SubSeq(b, 1, Levels) = b
    BY AddressFacts, Zenon
  <2>3. EndOfWalk(view, b) \in Paths /\ EndOfWalk(view, b) # a
    <3> DEFINE p == SubSeq(b, 1, k)
    <3>1. p = a => k = Levels
      BY <1>1, <2>2, Zenon
    <3>2. p # a
      BY <2>2, <3>1, Zenon
    <3> HIDE DEF p
    <3> QED
      BY <2>1, <2>2, <3>2, Zenon DEF p
  <2>4. EndOfWalk(after, b) = EndOfWalk(view, b)
    BY <1>3, Zenon
  <2> QED
    BY <1>2, <2>3, <2>4, Zenon
<1> QED
  BY <1>3, <1>4, <1>5, Zenon

\* A share whose walk ends at the address itself.
LEMMA ShareFacts ==
    ASSUME Inv, NEW h \in Harts, NEW a \in Addresses, NEW page \in SharedPages, map_shared_page(h, a, page),
           a[1] < VpnRange, EndOfWalk(memory[running[h]], a) = a
    PROVE  /\ HardwareWalk(running[h], a)' = [kind |-> "Shared", page |-> page]
           /\ \A b \in Addresses \ {a} : HardwareWalk(running[h], b)' = HardwareWalk(running[h], b)
<1>1. PICK v, e, p : /\ v = running[h] /\ e = [kind |-> "Shared", page |-> page]
                     /\ p = EndOfWalk(entries[v], vpn(a))
  BY ZenonT(60)
<1>2. running[h] # None
  BY SMTT(30) DEF map_shared_page
<1>3. v \in Vms /\ memory[v] = entries[v] /\ entries[v] \in [Paths -> Entry]
  BY <1>1, <1>2, RunningVm, Zenon
<1>4. vpn(a) = a
  BY AddressFacts, Zenon
<1>5. p = a /\ EndOfWalk(memory[v], a) = a
  BY <1>1, <1>3, <1>4, Zenon
<1>6. memory' = [memory EXCEPT ![v][p] = e] /\ running' = running
  <2>1. memory' = [memory EXCEPT ![v][p] = e]
    BY <1>1, Zenon DEF map_shared_page
  <2> QED
    BY <2>1, Zenon DEF map_shared_page
<1>7. PICK view, after : view = memory[v] /\ after = memory'[v]
  BY Zenon
<1>8. after[a] = e /\ (\A q \in Paths : q # a => after[q] = view[q]) /\ EndOfWalk(view, a) = a
  <2>1. memory'[v] = [memory[v] EXCEPT ![p] = e] /\ memory[v] \in [Paths -> Entry]
    BY <1>3, <1>6, SMTT(60) DEF Inv, Types
  <2>2. a \in Paths
    BY AddressFacts, SMTT(60)
  <2> QED
    BY <1>5, <1>7, <2>1, <2>2, SMTT(60)
<1>9. /\ after[EndOfWalk(after, a)] = e
      /\ \A b \in Addresses : EndOfWalk(after, b) = EndOfWalk(view, b)
      /\ \A b \in Addresses \ {a} : after[EndOfWalk(after, b)] = view[EndOfWalk(view, b)]
  BY <1>8, OneEntry
<1>10. running'[h] = v /\ running[h] = v
  BY <1>1, <1>6, Zenon
<1>11. ~ \E i \in (Len(a) + 1)..Levels : a[i] # 0
  BY AddressFacts, LevelsAssumption, SMTT(30)
<1>12. HardwareWalk(running[h], a)' = [kind |-> "Shared", page |-> page]
  BY <1>1, <1>7, <1>8, <1>9, <1>10, <1>11, ZenonT(60) DEF HardwareWalk
<1>13. \A b \in Addresses \ {a} : HardwareWalk(running[h], b)' = HardwareWalk(running[h], b)
  BY <1>1, <1>7, <1>9, <1>10, Zenon DEF HardwareWalk
<1> QED
  BY <1>12, <1>13, Zenon

\* A share maps the address that the VM asked for to the page of the hypervisor, and leaves
\* the translation of every other address of the VM as it was.
THEOREM ShareSafety == Spec => ShareMapsOneAddress
<1>1. Inv => \A h \in Harts, a \in Addresses, page \in SharedPages :
                /\ map_shared_page(h, a, page)
                /\ a[1] < VpnRange
                /\ EndOfWalk(memory[running[h]], a) = a
                => /\ HardwareWalk(running[h], a)' = [kind |-> "Shared", page |-> page]
                   /\ \A b \in Addresses \ {a} : HardwareWalk(running[h], b)' = HardwareWalk(running[h], b)
  BY ShareFacts, Zenon
<1> QED
  BY <1>1, Invariance, PTL DEF ShareMapsOneAddress
=============================================================================
