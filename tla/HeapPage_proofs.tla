-------------------------- MODULE HeapPage_proofs --------------------------
(***************************************************************************)
(* What the operators of HeapPage do to the bytes of a page, for every     *)
(* size of page, number and value: a row that heap_write fills in is held  *)
(* at its slot and, but for strings without a NUL, is what heap_scan::scan *)
(* reads there; rows that do not overlap it are held as before.  The sums  *)
(* of column widths and the bytes of a row are                             *)
(* recursive functions; the induction over them is done by hand, from the  *)
(* well-foundedness of <.                                                  *)
(***************************************************************************)
EXTENDS HeapPage, WellFoundedInduction, TLAPS

\* Induction, for a set of numbers.
LEMMA SetInduction ==
    ASSUME NEW S, 0 \in S, \A n \in Nat : n \in S => n + 1 \in S
    PROVE  \A n \in Nat : n \in S
<1> DEFINE R == {p \in Nat \X Nat : p[1] < p[2]}
           Bad == {n \in Nat : n \notin S}
<1>1. IsWellFoundedOn(R, Nat)
    BY NatLessThanWellFounded, Zenon DEF OpToRel
<1> SUFFICES ASSUME Bad # {} PROVE FALSE
    OBVIOUS
<1>2. \E m \in Bad : \A j \in Bad : <<j, m>> \notin R
    <2> HIDE DEF R
    <2> QED
        BY <1>1, WFMin
<1>3. PICK m \in Bad : \A j \in Bad : <<j, m>> \notin R
    BY <1>2
<1>4. m \in Nat /\ m # 0
    OBVIOUS
<1>5. m - 1 \in Nat /\ <<m - 1, m>> \in R
    BY <1>4
<1>6. m - 1 \in S
    BY <1>3, <1>5
<1> QED
    BY <1>4, <1>5, <1>6

-----------------------------------------------------------------------------
(* The size of a row.                                                      *)

LEMMA WidthPositive ==
    ASSUME NEW t
    PROVE  Width(t) \in Nat \ {0}
BY HeapPageAssumption DEF Width

\* A value's bytes are among those of its column, one of them a string's NUL unless it is
\* as long as the column.
LEMMA SizeInWidth ==
    ASSUME NEW t, NEW v
    PROVE  /\ ValueSize(t, v) \in 0 .. Width(t)
           /\ t = "STRING" /\ Delimited(t, v) => ValueSize(t, v) < Width(t)
<1>1. CASE t # "STRING"
    BY <1>1, HeapPageAssumption DEF ValueSize, Width
<1>2. CASE t = "STRING"
    <2>1. Width(t) = StringMaxSize /\ StringMaxSize \in Nat \ {0}
        BY <1>2, HeapPageAssumption DEF Width
    <2>2. \/ ValueSize(t, v) = 0
          \/ ValueSize(t, v) = StringMaxSize /\ v \in LongStrings
          \/ ValueSize(t, v) = StringMaxSize - 1
        BY <1>2 DEF ValueSize
    <2>3. Delimited(t, v) => v \notin LongStrings
        BY <1>2 DEF Delimited
    <2> QED
        BY <2>1, <2>2, <2>3
<1> QED
    BY <1>1, <1>2

\* Types of one width are read and written alike.
LEMMA SameWidth ==
    ASSUME NEW t, NEW u, Width(t) = Width(u), NEW v
    PROVE  ValueBytes(t, v) = ValueBytes(u, v)
<1>1. t = "STRING" <=> u = "STRING"
    BY HeapPageAssumption DEF Width
<1>2. ValueSize(t, v) = ValueSize(u, v)
    BY <1>1 DEF ValueSize
<1> QED
    BY <1>2 DEF ValueBytes

\* f holds the sizes of the first columns, one more at each index.
IsSizes(f, types) ==
    f = [n \in 0 .. Len(types) |-> IF n = 0 THEN 0 ELSE f[n - 1] + Width(types[n])]

\* Such a function exists, whatever the columns.
LEMMA SizesExist ==
    ASSUME NEW types, Len(types) \in Nat
    PROVE  \E f : IsSizes(f, types)
<1> DEFINE F(m) == \E f : f = [n \in 0 .. m |-> IF n = 0 THEN 0 ELSE f[n - 1] + Width(types[n])]
           S == {m \in Nat : F(m)}
<1>1. 0 \in S
    <2> DEFINE f == [n \in 0 .. 0 |-> 0]
    <2>1. f = [n \in 0 .. 0 |-> IF n = 0 THEN 0 ELSE f[n - 1] + Width(types[n])]
        OBVIOUS
    <2> QED BY <2>1
<1>2. ASSUME NEW m \in Nat, m \in S
      PROVE  m + 1 \in S
    <2>1. PICK f : f = [n \in 0 .. m |-> IF n = 0 THEN 0 ELSE f[n - 1] + Width(types[n])]
        BY <1>2
    <2> DEFINE g == [n \in 0 .. m + 1 |-> IF n = m + 1 THEN f[m] + Width(types[m + 1]) ELSE f[n]]
    <2>2. \A n \in 0 .. m + 1 : g[n] = IF n = 0 THEN 0 ELSE g[n - 1] + Width(types[n])
        BY <2>1
    <2>3. g = [n \in 0 .. m + 1 |-> IF n = 0 THEN 0 ELSE g[n - 1] + Width(types[n])]
        BY <2>2
    <2> HIDE DEF g
    <2>4. F(m + 1)
        BY <2>3
    <2> QED BY <2>4
<1> HIDE DEF S
<1>3. Len(types) \in S
    BY <1>1, <1>2, SetInduction
<1> QED
    BY <1>3 DEF S, IsSizes

\* They grow from 0 by each column's width, and RowSize is the last of them.
LEMMA Sizes ==
    ASSUME NEW types, Len(types) \in Nat, NEW f, IsSizes(f, types)
    PROVE  /\ f[0] = 0
           /\ \A n \in 1 .. Len(types) : f[n] = f[n - 1] + Width(types[n])
           /\ \A n \in 0 .. Len(types) : f[n] \in Nat
           /\ \A m, n \in 0 .. Len(types) : m <= n => f[m] <= f[n]
<1>1. \A n \in 0 .. Len(types) : f[n] = IF n = 0 THEN 0 ELSE f[n - 1] + Width(types[n])
    <2> DEFINE e(n) == IF n = 0 THEN 0 ELSE f[n - 1] + Width(types[n])
    <2>1. f = [n \in 0 .. Len(types) |-> e(n)]
        BY Zenon DEF IsSizes
    <2> HIDE DEF e
    <2>2. \A n \in 0 .. Len(types) : f[n] = e(n)
        BY <2>1
    <2> QED
        BY <2>2 DEF e
<1>2. f[0] = 0
    BY <1>1
<1>3. \A n \in 1 .. Len(types) : f[n] = f[n - 1] + Width(types[n])
    BY <1>1
<1> DEFINE S == {n \in Nat : n <= Len(types) => f[n] \in Nat}
<1>4. \A n \in Nat : n \in S
    <2>1. 0 \in S
        BY <1>2
    <2>2. ASSUME NEW n \in Nat, n \in S
          PROVE  n + 1 \in S
        <3>1. CASE n + 1 <= Len(types)
            <4>1. n + 1 \in 1 .. Len(types) /\ (n + 1) - 1 = n
                BY <3>1
            <4>2. f[n + 1] = f[n] + Width(types[n + 1])
                BY <1>3, <4>1
            <4> QED
                BY <2>2, <3>1, <4>2, WidthPositive
        <3> QED
            BY <3>1
    <2> HIDE DEF S
    <2> QED
        BY <2>1, <2>2, SetInduction
<1>5. \A n \in 0 .. Len(types) : f[n] \in Nat
    BY <1>4
<1>6. ASSUME NEW m \in 0 .. Len(types)
      PROVE  \A n \in 0 .. Len(types) : m <= n => f[m] <= f[n]
    <2> DEFINE G == {n \in Nat : n <= Len(types) /\ m <= n => f[m] <= f[n]}
    <2>1. 0 \in G
        BY <1>2
    <2>2. ASSUME NEW n \in Nat, n \in G
          PROVE  n + 1 \in G
        <3>1. CASE n + 1 <= Len(types) /\ m <= n + 1 /\ m # n + 1
            <4>1. n + 1 \in 1 .. Len(types) /\ (n + 1) - 1 = n /\ n \in 0 .. Len(types) /\ m <= n
                BY <3>1
            <4>2. f[n + 1] = f[n] + Width(types[n + 1])
                BY <1>3, <4>1
            <4>3. f[m] <= f[n]
                BY <2>2, <4>1
            <4>4. Width(types[n + 1]) \in Nat /\ f[n] \in Nat /\ f[m] \in Nat
                BY <1>5, <4>1, WidthPositive
            <4> QED
                BY <4>2, <4>3, <4>4
        <3>2. CASE m = n + 1
            BY <1>5, <3>2
        <3> QED
            BY <3>1, <3>2
    <2>3. \A n \in Nat : n \in G
        <3> HIDE DEF G
        <3> QED
            BY <2>1, <2>2, SetInduction
    <2> QED
        BY <2>3
<1> QED
    BY <1>2, <1>3, <1>5, <1>6

\* Columns that begin alike have the same sizes as far as they do.
LEMMA SizesAgree ==
    ASSUME NEW types, Len(types) \in Nat, NEW f, IsSizes(f, types),
           NEW others, Len(others) \in Nat, NEW g, IsSizes(g, others),
           Len(others) <= Len(types),
           \A n \in 1 .. Len(others) : others[n] = types[n]
    PROVE  \A n \in 0 .. Len(others) : g[n] = f[n]
<1> DEFINE S == {n \in Nat : n <= Len(others) => g[n] = f[n]}
<1>1. 0 \in S
    BY Sizes
<1>2. ASSUME NEW n \in Nat, n \in S
      PROVE  n + 1 \in S
    <2>1. CASE n + 1 <= Len(others)
        <3>1. n + 1 \in 1 .. Len(others) /\ n + 1 \in 1 .. Len(types) /\ (n + 1) - 1 = n
            BY <2>1
        <3>2. g[n + 1] = g[n] + Width(others[n + 1]) /\ f[n + 1] = f[n] + Width(types[n + 1])
            BY <3>1, Sizes
        <3> QED
            BY <1>2, <2>1, <3>1, <3>2
    <2> QED
        BY <2>1
<1>3. \A n \in Nat : n \in S
    <2> HIDE DEF S
    <2> QED
        BY <1>1, <1>2, SetInduction
<1> QED
    BY <1>3

LEMMA RowSizeIsLast ==
    ASSUME NEW types, Len(types) \in Nat
    PROVE  \E f : IsSizes(f, types) /\ RowSize(types) = f[Len(types)]
BY SizesExist DEF RowSize, IsSizes

\* A sequence, whatever of.
IsList(s) == \E T : s \in Seq(T)

\* RowSize is the sum of the widths, and a column is offset by what is before it.
LEMMA ColumnsInRow ==
    ASSUME NEW types, IsList(types), NEW f, IsSizes(f, types)
    PROVE  /\ RowSize(types) = f[Len(types)]
           /\ \A i \in 1 .. Len(types) : ColumnOffset(types, i) = f[i - 1]
<1> PICK T : types \in Seq(T)
    BY DEF IsList
<1>1. ASSUME NEW others, Len(others) \in Nat, Len(others) <= Len(types),
             \A n \in 1 .. Len(others) : others[n] = types[n]
      PROVE  RowSize(others) = f[Len(others)]
    <2>1. PICK g : IsSizes(g, others) /\ RowSize(others) = g[Len(others)]
        BY <1>1, RowSizeIsLast
    <2>2. Len(types) \in Nat
        OBVIOUS
    <2>3. \A n \in 0 .. Len(others) : g[n] = f[n]
        BY <1>1, <2>1, <2>2, SizesAgree
    <2> QED
        BY <1>1, <2>1, <2>3
<1>2. RowSize(types) = f[Len(types)]
    <2>1. Len(types) \in Nat /\ Len(types) <= Len(types)
        OBVIOUS
    <2> QED
        BY <1>1, <2>1
<1>3. ASSUME NEW i \in 1 .. Len(types)
      PROVE  ColumnOffset(types, i) = f[i - 1]
    <2> DEFINE others == SubSeq(types, 1, i - 1)
    <2>1. /\ Len(others) = i - 1
          /\ Len(others) \in Nat
          /\ Len(others) <= Len(types)
          /\ \A n \in 1 .. Len(others) : others[n] = types[n]
        OBVIOUS
    <2> HIDE DEF others
    <2>2. RowSize(others) = f[i - 1]
        BY <1>1, <2>1
    <2> QED
        BY <2>2 DEF ColumnOffset, others
<1> QED
    BY <1>2, <1>3

\* A row has room for each of its columns.
LEMMA ColumnFits ==
    ASSUME NEW types, IsList(types)
    PROVE  /\ Len(types) \in Nat
           /\ DOMAIN types = 1 .. Len(types)
           /\ RowSize(types) \in Nat
           /\ \A i \in 1 .. Len(types) :
                 /\ ColumnOffset(types, i) \in Nat
                 /\ ColumnOffset(types, i) + Width(types[i]) <= RowSize(types)
<1>1. PICK T : types \in Seq(T)
    BY DEF IsList
<1>2. Len(types) \in Nat /\ DOMAIN types = 1 .. Len(types)
    BY <1>1
<1>3. PICK f : IsSizes(f, types)
    BY <1>2, SizesExist
<1>4. RowSize(types) = f[Len(types)] /\ f[Len(types)] \in Nat
    BY <1>2, <1>3, ColumnsInRow, Sizes
<1>5. ASSUME NEW i \in 1 .. Len(types)
      PROVE  /\ ColumnOffset(types, i) \in Nat
             /\ ColumnOffset(types, i) + Width(types[i]) <= RowSize(types)
    <2>1. ColumnOffset(types, i) = f[i - 1]
        BY <1>3, ColumnsInRow
    <2>2. i - 1 \in 0 .. Len(types) /\ i \in 0 .. Len(types) /\ Len(types) \in 0 .. Len(types)
        BY <1>2
    <2>3. f[i - 1] \in Nat /\ f[i] = f[i - 1] + Width(types[i]) /\ f[i] <= f[Len(types)]
        BY <1>2, <1>3, <2>2, Sizes
    <2> QED
        BY <1>4, <2>1, <2>3
<1> QED
    BY <1>2, <1>4, <1>5

-----------------------------------------------------------------------------
(* The bytes of a row.                                                     *)

\* A row that gives each column as many bytes as it has.
FitsColumns(row, types) ==
    /\ DOMAIN row = 1 .. Len(types)
    /\ \A i \in 1 .. Len(types) : Width(row[i].type) = Width(types[i])

\* And whose values have codes.
IsRow(row, types) ==
    /\ FitsColumns(row, types)
    /\ \A i \in 1 .. Len(types) : row[i].val \in Nat

\* The bytes of each value.
Parts(row) == [i \in DOMAIN row |-> ValueBytes(row[i].type, row[i].val)]

\* h holds the bytes of the first columns, one more at each index.
IsFlattened(h, seqs, n) ==
    h = [i \in 1 .. n |-> IF i = 1 THEN seqs[i] ELSE h[i - 1] \o seqs[i]]

LEMMA FlattenedExist ==
    ASSUME NEW seqs, NEW n \in Nat
    PROVE  \E h : IsFlattened(h, seqs, n)
<1> DEFINE S == {m \in Nat : \E h : IsFlattened(h, seqs, m)}
<1>1. 0 \in S
    <2> DEFINE h == [i \in 1 .. 0 |-> 0]
    <2>1. h = [i \in 1 .. 0 |-> IF i = 1 THEN seqs[i] ELSE h[i - 1] \o seqs[i]]
        OBVIOUS
    <2>2. IsFlattened(h, seqs, 0)
        BY <2>1 DEF IsFlattened
    <2> QED BY <2>2
<1>2. ASSUME NEW m \in Nat, m \in S
      PROVE  m + 1 \in S
    <2>1. PICK h : IsFlattened(h, seqs, m)
        BY <1>2
    <2>2. h = [i \in 1 .. m |-> IF i = 1 THEN seqs[i] ELSE h[i - 1] \o seqs[i]]
        BY <2>1, Zenon DEF IsFlattened
    <2> DEFINE last == IF m = 0 THEN seqs[1] ELSE h[m] \o seqs[m + 1]
    <2>3. PICK y : y = last
        OBVIOUS
    <2> DEFINE g == [i \in 1 .. m + 1 |-> IF i = m + 1 THEN y ELSE h[i]]
    <2>4. ASSUME NEW i \in 1 .. m + 1
          PROVE  g[i] = IF i = 1 THEN seqs[i] ELSE g[i - 1] \o seqs[i]
        <3>1. CASE i = m + 1 /\ m = 0
            BY <2>3, <3>1
        <3>2. CASE i = m + 1 /\ m # 0
            <4>1. g[i - 1] = h[m] /\ g[i] = y
                BY <3>2
            <4>2. y = h[m] \o seqs[m + 1]
                BY <2>3, <3>2
            <4>3. i # 1
                BY <3>2
            <4> HIDE DEF g
            <4> QED
                BY <3>2, <4>1, <4>2, <4>3, Zenon
        <3>3. CASE i # m + 1
            <4>1. i \in 1 .. m /\ g[i] = h[i]
                BY <3>3
            <4>2. i # 1 => g[i - 1] = h[i - 1]
                BY <3>3
            <4>3. h[i] = IF i = 1 THEN seqs[i] ELSE h[i - 1] \o seqs[i]
                BY <2>2, <4>1
            <4> HIDE DEF g
            <4> QED
                BY <4>1, <4>2, <4>3
        <3> QED
            BY <3>1, <3>2, <3>3
    <2>5. g = [i \in 1 .. m + 1 |-> IF i = 1 THEN seqs[i] ELSE g[i - 1] \o seqs[i]]
        BY <2>4
    <2> HIDE DEF g
    <2>6. IsFlattened(g, seqs, m + 1)
        BY <2>5 DEF IsFlattened
    <2> QED BY <2>6
<1> HIDE DEF S
<1>3. n \in S
    BY <1>1, <1>2, SetInduction
<1> QED
    BY <1>3 DEF S

LEMMA FlattenSeqIsLast ==
    ASSUME NEW seqs, Len(seqs) \in Nat \ {0}
    PROVE  \E h : IsFlattened(h, seqs, Len(seqs)) /\ FlattenSeq(seqs) = h[Len(seqs)]
BY FlattenedExist DEF FlattenSeq, IsFlattened

LEMMA ConcatIndexed ==
    ASSUME NEW V, NEW a \in Seq(V), NEW b \in Seq(V)
    PROVE  /\ a \o b \in Seq(V)
           /\ Len(a \o b) = Len(a) + Len(b)
           /\ \A k \in 1 .. Len(a) : (a \o b)[k] = a[k]
           /\ \A k \in 1 .. Len(b) : (a \o b)[Len(a) + k] = b[k]
<1>1. Len(a) \in Nat /\ Len(b) \in Nat
    OBVIOUS
<1>2. a \o b \in Seq(V) /\ Len(a \o b) = Len(a) + Len(b)
    OBVIOUS
<1>3. \A k \in 1 .. Len(a) : (a \o b)[k] = a[k]
    OBVIOUS
<1>4. ASSUME NEW k \in 1 .. Len(b)
      PROVE  (a \o b)[Len(a) + k] = b[k]
    BY <1>1
<1> QED
    BY <1>2, <1>3, <1>4

\* The bytes of a row are as many as its columns have, and each column's, at its
\* offset, are those of its value.
LEMMA BytesInRow ==
    ASSUME NEW types, IsList(types), NEW row, FitsColumns(row, types)
    PROVE  /\ Len(RowBytes(row)) = RowSize(types)
           /\ \A c \in 1 .. Len(RowBytes(row)) :
                 RowBytes(row)[c] = 0 \/ \E i \in 1 .. Len(types) : RowBytes(row)[c] = row[i].val
           /\ \A i \in 1 .. Len(types) : \A k \in 1 .. Width(types[i]) :
                 RowBytes(row)[ColumnOffset(types, i) + k] = ValueBytes(types[i], row[i].val)[k]
<1> PICK T : types \in Seq(T)
    BY DEF IsList
<1> PICK f : IsSizes(f, types)
    BY SizesExist
<1>0. /\ RowSize(types) = f[Len(types)]
      /\ \A i \in 1 .. Len(types) : ColumnOffset(types, i) = f[i - 1]
    BY ColumnsInRow
<1> SUFFICES /\ Len(RowBytes(row)) = f[Len(types)]
             /\ \A c \in 1 .. Len(RowBytes(row)) :
                   RowBytes(row)[c] = 0 \/ \E i \in 1 .. Len(types) : RowBytes(row)[c] = row[i].val
             /\ \A i \in 1 .. Len(types) : \A k \in 1 .. Width(types[i]) :
                   RowBytes(row)[f[i - 1] + k] = ValueBytes(types[i], row[i].val)[k]
    BY <1>0
<1> DEFINE seqs == Parts(row)
           n == Len(types)
           V == {0} \cup {row[i].val : i \in 1 .. n}
           val == [i \in 1 .. n |-> ValueBytes(types[i], row[i].val)]
<1>1. n \in Nat
    OBVIOUS
<1>2. /\ seqs \in [1 .. n -> Seq(V)]
      /\ \A i \in 1 .. n : /\ Len(seqs[i]) = Width(types[i])
                           /\ \A k \in 1 .. Width(types[i]) : seqs[i][k] = val[i][k]
    <2>1. DOMAIN seqs = 1 .. n /\ seqs = [i \in 1 .. n |-> seqs[i]]
        BY DEF FitsColumns, Parts
    <2>2. ASSUME NEW i \in 1 .. n
          PROVE  /\ seqs[i] \in Seq(V)
                 /\ Len(seqs[i]) = Width(types[i])
                 /\ \A k \in 1 .. Width(types[i]) : seqs[i][k] = val[i][k]
        <3>1. PICK w \in Nat : w = Width(types[i])
            BY WidthPositive
        <3>2. seqs[i] = val[i]
            <4>1. i \in DOMAIN row /\ Width(row[i].type) = Width(types[i])
                BY DEF FitsColumns
            <4>2. ValueBytes(row[i].type, row[i].val) = ValueBytes(types[i], row[i].val)
                BY <4>1, SameWidth
            <4> QED
                BY <4>1, <4>2 DEF Parts
        <3>3. val[i] = [k \in 1 .. w |-> IF k <= ValueSize(types[i], row[i].val) THEN row[i].val ELSE 0]
            BY <3>1 DEF ValueBytes
        <3>4. row[i].val \in V /\ 0 \in V
            OBVIOUS
        <3> HIDE DEF seqs, V, val
        <3> QED
            BY <3>1, <3>2, <3>3, <3>4
    <2> HIDE DEF seqs, V, val
    <2> QED
        BY <2>1, <2>2
<1>3. RowBytes(row) = FlattenSeq(seqs)
    BY DEF RowBytes, Parts
<1> HIDE DEF seqs
<1>7. V = {0} \cup {row[i].val : i \in 1 .. Len(types)}
    OBVIOUS
<1>8. \A i \in 1 .. Len(types) : val[i] = ValueBytes(types[i], row[i].val)
    OBVIOUS
<1> HIDE DEF V, val
<1>4. Len(seqs) = n
    BY <1>1, <1>2
<1>5. CASE n = 0
    <2>1. FlattenSeq(seqs) = seqs
        BY <1>4, <1>5 DEF FlattenSeq
    <2>2. f[0] = 0
        BY <1>1, Sizes
    <2> QED
        BY <1>1, <1>3, <1>4, <1>5, <2>1, <2>2
<1>6. CASE n # 0
    <2>1. PICK h : IsFlattened(h, seqs, n) /\ FlattenSeq(seqs) = h[n]
        BY <1>1, <1>4, <1>6, FlattenSeqIsLast
    <2>2. h = [i \in 1 .. n |-> IF i = 1 THEN seqs[i] ELSE h[i - 1] \o seqs[i]]
        BY <2>1, Zenon DEF IsFlattened
    <2>3. h[1] = seqs[1]
        BY <1>1, <1>6, <2>2
    <2>4. \A i \in 1 .. n : i + 1 <= n => h[i + 1] = h[i] \o seqs[i + 1]
        <3> SUFFICES ASSUME NEW i \in 1 .. n, i + 1 <= n
                     PROVE  h[i + 1] = h[i] \o seqs[i + 1]
            OBVIOUS
        <3>1. i + 1 \in 1 .. n /\ i + 1 # 1 /\ (i + 1) - 1 = i
            BY <1>1
        <3> QED
            BY <2>2, <3>1
    <2> HIDE DEF n
    <2>5. n = Len(types)
        BY DEF n
    <2> DEFINE P(m) == /\ h[m] \in Seq(V)
                       /\ Len(h[m]) = f[m]
                       /\ \A i \in 1 .. m : \A k \in 1 .. Width(types[i]) : h[m][f[i - 1] + k] = val[i][k]
               S == {m \in Nat : m + 1 <= n => P(m + 1)}
    <2>6. 0 \in S
        <3>1. 1 \in 1 .. n
            BY <1>1, <1>6
        <3>2. f[0] = 0 /\ f[1] = f[0] + Width(types[1]) /\ Width(types[1]) \in Nat
            BY <2>5, <3>1, Sizes, WidthPositive
        <3>3. P(1)
            BY <1>2, <2>3, <3>1, <3>2
        <3> HIDE DEF P
        <3> QED
            BY <3>3
    <2>7. ASSUME NEW m \in Nat, m \in S
          PROVE  m + 1 \in S
        <3> SUFFICES ASSUME m + 2 <= n
                     PROVE  P(m + 2)
            OBVIOUS
        <3> DEFINE q == m + 1
        <3>1. q \in 1 .. n /\ q + 1 \in 1 .. n /\ q + 1 = m + 2
            BY <1>1
        <3>2. P(q)
            BY <2>7, <3>1
        <3>3. h[q + 1] = h[q] \o seqs[q + 1]
            BY <2>4, <3>1
        <3>4. PICK w \in Nat : w = Width(types[q + 1])
            BY WidthPositive
        <3>5. /\ f[q + 1] = f[q] + w
              /\ f[q] \in Nat
              /\ \A i \in 1 .. q : f[i - 1] \in Nat /\ f[i - 1] + Width(types[i]) <= f[q]
            <4>1. f[q + 1] = f[q] + w /\ f[q] \in Nat
                BY <2>5, <3>1, <3>4, Sizes
            <4>2. ASSUME NEW i \in 1 .. q
                  PROVE  f[i - 1] \in Nat /\ f[i - 1] + Width(types[i]) <= f[q]
                <5>1. i \in 1 .. n /\ i - 1 \in 0 .. n /\ i \in 0 .. n /\ q \in 0 .. n /\ i <= q
                    BY <1>1, <3>1
                <5> QED
                    BY <2>5, <5>1, Sizes
            <4> QED
                BY <4>1, <4>2
        <3>6. /\ seqs[q + 1] \in Seq(V)
              /\ Len(seqs[q + 1]) = w
              /\ \A k \in 1 .. w : seqs[q + 1][k] = val[q + 1][k]
            BY <1>2, <3>1, <3>4
        <3> HIDE DEF q
        <3>7. /\ h[q + 1] \in Seq(V)
              /\ Len(h[q + 1]) = f[q + 1]
              /\ \A k \in 1 .. f[q] : h[q + 1][k] = h[q][k]
              /\ \A k \in 1 .. w : h[q + 1][f[q] + k] = seqs[q + 1][k]
            <4>1. PICK a : a = h[q]
                OBVIOUS
            <4>2. PICK b : b = seqs[q + 1]
                OBVIOUS
            <4>3. Len(a) = f[q] /\ Len(b) = w
                BY <3>2, <3>6, <4>1, <4>2
            <4>4. a \in Seq(V) /\ b \in Seq(V)
                BY <3>2, <3>6, <4>1, <4>2
            <4> HIDE DEF P, S
            <4>5. /\ a \o b \in Seq(V)
                  /\ Len(a \o b) = f[q] + w
                  /\ \A k \in 1 .. f[q] : (a \o b)[k] = a[k]
                  /\ \A k \in 1 .. w : (a \o b)[f[q] + k] = b[k]
                <5>1. /\ a \o b \in Seq(V)
                      /\ Len(a \o b) = Len(a) + Len(b)
                      /\ \A k \in 1 .. Len(a) : (a \o b)[k] = a[k]
                      /\ \A k \in 1 .. Len(b) : (a \o b)[Len(a) + k] = b[k]
                    BY <4>4, ConcatIndexed
                <5> QED
                    BY <4>3, <5>1, Zenon
            <4>6. h[q + 1] = a \o b
                BY <3>3, <4>1, <4>2
            <4> QED
                BY <3>5, <4>1, <4>2, <4>5, <4>6
        <3>8. ASSUME NEW i \in 1 .. q + 1, NEW k \in 1 .. Width(types[i])
              PROVE  h[q + 1][f[i - 1] + k] = val[i][k]
            <4>1. CASE i \in 1 .. q
                <5>1. Width(types[i]) \in Nat
                    BY WidthPositive
                <5>2. f[i - 1] + k \in 1 .. f[q]
                    BY <3>5, <4>1, <5>1
                <5> QED
                    BY <3>2, <3>7, <4>1, <5>2
            <4>2. CASE i = q + 1
                <5>1. i - 1 = q
                    BY <3>1, <4>2
                <5> QED
                    BY <3>4, <3>6, <3>7, <4>2, <5>1
            <4> QED
                BY <3>1, <4>1, <4>2
        <3> QED
            BY <3>1, <3>7, <3>8
    <2>8. \A m \in Nat : m \in S
        <3> HIDE DEF S
        <3> QED
            BY <2>6, <2>7, SetInduction
    <2>9. P(n)
        <3>1. n - 1 \in Nat /\ (n - 1) + 1 = n
            BY <1>1, <1>6
        <3>2. n - 1 \in S
            BY <2>8, <3>1
        <3> HIDE DEF P
        <3> QED
            BY <1>1, <3>1, <3>2
    <2>10. h[n] \in Seq(V) => \A c \in 1 .. Len(h[n]) : h[n][c] \in V
        OBVIOUS
    <2>11. \A c \in 1 .. Len(h[n]) : h[n][c] = 0 \/ \E i \in 1 .. n : h[n][c] = row[i].val
        BY <1>7, <2>5, <2>9, <2>10
    <2> HIDE DEF S
    <2> QED
        BY <1>3, <1>8, <2>1, <2>5, <2>9, <2>11
<1> QED
    BY <1>5, <1>6

-----------------------------------------------------------------------------
(* A page under the steps of heap_write.                                   *)

LEMMA ZeroPageIsPage == ZeroPage \in Pages
BY HeapPageAssumption DEF ZeroPage, ZeroSlot, Pages, Slots, Cells

LEMMA Initialized ==
    ASSUME NEW p \in Pages
    PROVE  /\ initialize(p) \in Pages
           /\ initialize(p).is_initialized
           /\ initialize(p).slots = p.slots
           /\ initialize(p).data = p.data
           /\ p.is_initialized => initialize(p) = p
           /\ ~p.is_initialized => initialize(p).slot_count = 0
<1>1. CASE p.is_initialized
    BY <1>1 DEF initialize
<1>2. CASE ~p.is_initialized
    <2>1. initialize(p) = [p EXCEPT !.is_initialized = TRUE, !.free_size = HeapPayloadSize, !.slot_count = 0]
        BY <1>2 DEF initialize
    <2>2. 0 \in 0 .. MaxSlots /\ HeapPayloadSize \in 0 .. HeapPayloadSize
        BY HeapPageAssumption
    <2> QED
        BY <1>2, <2>1, <2>2 DEF Pages
<1> QED
    BY <1>1, <1>2

\* One slot more, if there is one.
LEMMA Counted ==
    ASSUME NEW p \in Pages, ~SlotsFull(p)
    PROVE  /\ SlotCounted(p) \in Pages
           /\ SlotCounted(p).is_initialized
           /\ SlotCounted(p).free_size = initialize(p).free_size
           /\ SlotCounted(p).slot_count = initialize(p).slot_count + 1
           /\ SlotCounted(p).slots = p.slots
           /\ SlotCounted(p).data = p.data
<1>1. PICK q : q = initialize(p)
    OBVIOUS
<1>2. q \in Pages /\ q.is_initialized /\ q.slots = p.slots /\ q.data = p.data
    BY <1>1, Initialized
<1>3. q.slot_count \in 0 .. MaxSlots /\ ~(q.slot_count >= MaxSlots)
    BY <1>1, <1>2 DEF SlotsFull, Pages
<1>4. SlotCounted(p) = [q EXCEPT !.slot_count = @ + 1]
    BY <1>1 DEF SlotCounted
<1>5. q.slot_count + 1 \in 0 .. MaxSlots
    BY <1>3, HeapPageAssumption
<1> QED
    BY <1>1, <1>2, <1>4, <1>5 DEF Pages

\* Only the newest slot gets its size.
LEMMA SizedNewest ==
    ASSUME NEW p \in Pages, p.slot_count # 0, NEW n \in Nat
    PROVE  /\ Sized(p, n) \in Pages
           /\ Sized(p, n).is_initialized = p.is_initialized
           /\ Sized(p, n).free_size = p.free_size
           /\ Sized(p, n).slot_count = p.slot_count
           /\ Sized(p, n).data = p.data
           /\ \A s \in 1 .. MaxSlots : s # p.slot_count => Sized(p, n).slots[s] = p.slots[s]
           /\ CurrentSlot(Sized(p, n)).slot_size = n
           /\ CurrentSlot(Sized(p, n)).slot_offset = CurrentSlot(p).slot_offset
<1>1. p.slot_count \in 1 .. MaxSlots
    BY HeapPageAssumption DEF Pages
<1>2. p.slots \in [1 .. MaxSlots -> Slots]
    BY DEF Pages
<1>3. PICK new : new = [p.slots EXCEPT ![p.slot_count].slot_size = n]
    OBVIOUS
<1>4. /\ new \in [1 .. MaxSlots -> Slots]
      /\ \A s \in 1 .. MaxSlots : s # p.slot_count => new[s] = p.slots[s]
      /\ new[p.slot_count].slot_size = n
      /\ new[p.slot_count].slot_offset = p.slots[p.slot_count].slot_offset
    BY <1>1, <1>2, <1>3 DEF Slots
<1>5. Sized(p, n) = [p EXCEPT !.slots = new]
    BY <1>3 DEF Sized
<1>6. /\ Sized(p, n).slots = new
      /\ Sized(p, n) \in Pages
      /\ Sized(p, n).is_initialized = p.is_initialized
      /\ Sized(p, n).free_size = p.free_size
      /\ Sized(p, n).slot_count = p.slot_count
      /\ Sized(p, n).data = p.data
    BY <1>4, <1>5 DEF Pages
<1> QED
    BY <1>4, <1>6 DEF CurrentSlot

\* The same, and its bytes are taken off the free ones.
LEMMA TakenSpace ==
    ASSUME NEW p \in Pages, p.slot_count # 0, NEW n \in Nat, Fits(p, n)
    PROVE  /\ SpaceTaken(p, n) \in Pages
           /\ SpaceTaken(p, n).is_initialized = p.is_initialized
           /\ SpaceTaken(p, n).free_size = p.free_size - n
           /\ SpaceTaken(p, n).slot_count = p.slot_count
           /\ SpaceTaken(p, n).data = p.data
           /\ SpaceTaken(p, n).slots = Sized(p, n).slots
<1>1. PICK q : q = Sized(p, n)
    OBVIOUS
<1>2. /\ q \in Pages
      /\ q.is_initialized = p.is_initialized
      /\ q.free_size = p.free_size
      /\ q.slot_count = p.slot_count
      /\ q.data = p.data
    BY <1>1, SizedNewest
<1>3. p.free_size \in 0 .. HeapPayloadSize /\ n <= p.free_size
    BY DEF Pages, Fits
<1>4. PICK left : left = p.free_size - n
    OBVIOUS
<1>5. left \in 0 .. HeapPayloadSize
    BY <1>3, <1>4, HeapPageAssumption
<1>6. SpaceTaken(p, n) = [q EXCEPT !.free_size = left]
    BY <1>1, <1>2, <1>4 DEF SpaceTaken
<1> QED
    BY <1>1, <1>2, <1>4, <1>5, <1>6 DEF Pages

\* Only the newest slot gets its offset: where the free bytes end.
LEMMA PlacedNewest ==
    ASSUME NEW p \in Pages, p.slot_count # 0
    PROVE  /\ Placed(p) \in Pages
           /\ Placed(p).is_initialized = p.is_initialized
           /\ Placed(p).free_size = p.free_size
           /\ Placed(p).slot_count = p.slot_count
           /\ Placed(p).data = p.data
           /\ \A s \in 1 .. MaxSlots : s # p.slot_count => Placed(p).slots[s] = p.slots[s]
           /\ CurrentSlot(Placed(p)).slot_size = CurrentSlot(p).slot_size
           /\ CurrentSlot(Placed(p)).slot_offset = p.free_size
<1>1. p.slot_count \in 1 .. MaxSlots /\ p.free_size \in 0 .. HeapPayloadSize
    BY HeapPageAssumption DEF Pages
<1>2. p.slots \in [1 .. MaxSlots -> Slots]
    BY DEF Pages
<1>3. PICK new : new = [p.slots EXCEPT ![p.slot_count].slot_offset = p.free_size]
    OBVIOUS
<1>4. /\ new \in [1 .. MaxSlots -> Slots]
      /\ \A s \in 1 .. MaxSlots : s # p.slot_count => new[s] = p.slots[s]
      /\ new[p.slot_count].slot_offset = p.free_size
      /\ new[p.slot_count].slot_size = p.slots[p.slot_count].slot_size
    BY <1>1, <1>2, <1>3 DEF Slots
<1>5. Placed(p) = [p EXCEPT !.slots = new]
    BY <1>3 DEF Placed
<1>6. /\ Placed(p).slots = new
      /\ Placed(p) \in Pages
      /\ Placed(p).is_initialized = p.is_initialized
      /\ Placed(p).free_size = p.free_size
      /\ Placed(p).slot_count = p.slot_count
      /\ Placed(p).data = p.data
    BY <1>4, <1>5 DEF Pages
<1> QED
    BY <1>4, <1>6 DEF CurrentSlot

-----------------------------------------------------------------------------
(* Rows in a page.                                                         *)

Bytes(start, size) == start .. start + size - 1

\* The values of a row.
ValuesOf(row, types) == [i \in DOMAIN types |-> row[i].val]

LEMMA CurrentSlotType ==
    ASSUME NEW p \in Pages, p.slot_count # 0
    PROVE  p.slot_count \in 1 .. MaxSlots /\ CurrentSlot(p) \in Slots
BY HeapPageAssumption DEF Pages, CurrentSlot

\* A row fills the bytes from its slot's offset on, and no others.
LEMMA FilledRow ==
    ASSUME NEW p \in Pages, p.slot_count # 0,
           NEW types, IsList(types),
           NEW row, IsRow(row, types),
           NEW o, o = CurrentSlot(p).slot_offset,
           NEW q, q = DataFilled(p, row)
    PROVE  /\ q \in Pages
           /\ q.is_initialized = p.is_initialized
           /\ q.free_size = p.free_size
           /\ q.slot_count = p.slot_count
           /\ q.slots = p.slots
           /\ \A c \in Cells : c \notin Bytes(o, RowSize(types)) => q.data[c] = p.data[c]
           /\ \A i \in 1 .. Len(types) : \A k \in 1 .. Width(types[i]) :
                 LET c == o + ColumnOffset(types, i) + k - 1
                 IN  c \in Cells => q.data[c] = ValueBytes(types[i], row[i].val)[k]
<1>1. o \in Nat
    BY CurrentSlotType, HeapPageAssumption DEF Slots
<1>2. PICK bytes : bytes = RowBytes(row)
    OBVIOUS
<1>3. PICK n \in Nat : n = RowSize(types)
    BY ColumnFits
<1>4. Len(bytes) = n
    BY <1>2, <1>3, BytesInRow DEF IsRow
<1>5. \A c \in 1 .. n : bytes[c] \in Nat
    <2>1. \A c \in 1 .. Len(RowBytes(row)) :
             RowBytes(row)[c] = 0 \/ \E i \in 1 .. Len(types) : RowBytes(row)[c] = row[i].val
        BY BytesInRow DEF IsRow
    <2> QED
        BY <1>2, <1>4, <2>1 DEF IsRow
<1>6. \A i \in 1 .. Len(types) : \A k \in 1 .. Width(types[i]) :
         bytes[ColumnOffset(types, i) + k] = ValueBytes(types[i], row[i].val)[k]
    BY <1>2, BytesInRow DEF IsRow
<1>7. p.data \in [Cells -> Nat] /\ p = [p EXCEPT !.data = p.data]
    BY DEF Pages
<1> DEFINE new == [c \in Cells |-> IF c \in o .. o + n - 1 THEN bytes[c - o + 1] ELSE p.data[c]]
<1>8. q = [p EXCEPT !.data = new]
    BY <1>2, <1>4 DEF DataFilled
<1>9. new \in [Cells -> Nat]
    <2> SUFFICES ASSUME NEW c \in Cells
                 PROVE  (IF c \in o .. o + n - 1 THEN bytes[c - o + 1] ELSE p.data[c]) \in Nat
        OBVIOUS
    <2>1. CASE c \in o .. o + n - 1
        <3>1. c - o + 1 \in 1 .. n
            BY <1>1, <1>3, <2>1, HeapPageAssumption DEF Cells
        <3> QED
            BY <1>5, <2>1, <3>1
    <2>2. CASE c \notin o .. o + n - 1
        BY <1>7, <2>2
    <2> QED
        BY <2>1, <2>2
<1>10. \A c \in Cells : c \notin Bytes(o, n) => new[c] = p.data[c]
    BY DEF Bytes
<1>11. ASSUME NEW i \in 1 .. Len(types), NEW k \in 1 .. Width(types[i]),
              NEW c, c = o + ColumnOffset(types, i) + k - 1, c \in Cells
       PROVE  new[c] = ValueBytes(types[i], row[i].val)[k]
    <2>1. PICK w \in Nat : w = Width(types[i])
        BY WidthPositive
    <2>2. PICK a \in Nat : a = ColumnOffset(types, i)
        BY ColumnFits
    <2>3. a + w <= n
        BY <1>3, <2>1, <2>2, ColumnFits
    <2>4. k \in 1 .. w /\ c = o + a + k - 1
        BY <1>11, <2>1, <2>2
    <2>5. c - o + 1 = a + k /\ c \in o .. o + n - 1
        BY ONLY <1>1, <2>3, <2>4, a \in Nat, w \in Nat, n \in Nat
    <2>6. new[c] = bytes[c - o + 1]
        BY <1>11, <2>5
    <2>7. bytes[a + k] = ValueBytes(types[i], row[i].val)[k]
        BY <1>6, <2>2
    <2> QED
        BY <2>5, <2>6, <2>7
<1> HIDE DEF new
<1>12. /\ q.data = new
       /\ q \in Pages
       /\ q.is_initialized = p.is_initialized
       /\ q.free_size = p.free_size
       /\ q.slot_count = p.slot_count
       /\ q.slots = p.slots
    BY <1>8, <1>9 DEF Pages
<1> QED
    BY <1>3, <1>10, <1>11, <1>12

\* Nothing else of the page changes.
LEMMA FilledPage ==
    ASSUME NEW p \in Pages, p.slot_count # 0,
           NEW types, IsList(types), NEW row, IsRow(row, types)
    PROVE  /\ DataFilled(p, row) \in Pages
           /\ DataFilled(p, row).is_initialized = p.is_initialized
           /\ DataFilled(p, row).free_size = p.free_size
           /\ DataFilled(p, row).slot_count = p.slot_count
           /\ DataFilled(p, row).slots = p.slots
<1>1. PICK o : o = CurrentSlot(p).slot_offset
    OBVIOUS
<1>2. PICK q : q = DataFilled(p, row)
    OBVIOUS
<1>3. /\ q \in Pages
      /\ q.is_initialized = p.is_initialized
      /\ q.free_size = p.free_size
      /\ q.slot_count = p.slot_count
      /\ q.slots = p.slots
    BY <1>1, <1>2, FilledRow
<1> QED
    BY <1>2, <1>3

\* Two pages agree on some bytes.
SameBytes(p, q, o, n) == \A c \in Bytes(o, n) : q.data[c] = p.data[c]

\* A value that is held and can be told from its bytes is read.
LEMMA ReadBack ==
    ASSUME NEW p, NEW types, IsList(types), NEW slot, slot.slot_offset \in Nat,
           slot.slot_offset + RowSize(types) <= HeapPayloadSize,
           NEW vals, HoldsRow(p, slot, types, vals),
           NEW i \in 1 .. Len(types), Delimited(types[i], vals[i])
    PROVE  ReadValue(p, slot, types, i) = vals[i]
<1>1. PICK w \in Nat \ {0} : w = Width(types[i])
    BY WidthPositive
<1>2. PICK a \in Nat : a = ColumnOffset(types, i)
    BY ColumnFits
<1>3. PICK o \in Nat : o = slot.slot_offset
    OBVIOUS
<1>4. PICK n \in Nat : n = RowSize(types)
    BY ColumnFits
<1>5. a + w <= n /\ o + n <= HeapPayloadSize
    BY <1>1, <1>2, <1>3, <1>4, ColumnFits
<1>6. PICK v : v = vals[i]
    OBVIOUS
<1>7. PICK size \in Nat : size = ValueSize(types[i], v)
    BY SizeInWidth, WidthPositive
<1>8. size <= w /\ (types[i] = "STRING" => size < w)
    BY <1>1, <1>6, <1>7, SizeInWidth
<1>9. \A k \in 1 .. w : p.data[o + a + k - 1] = IF k <= size THEN v ELSE 0
    <2>1. \A k \in 1 .. w : p.data[o + a + k - 1] = ValueBytes(types[i], v)[k]
        BY <1>1, <1>2, <1>3, <1>6, ColumnFits DEF HoldsRow
    <2> QED
        BY <1>1, <1>7, <2>1 DEF ValueBytes
<1>10. PICK start \in Nat : start = o + a
    OBVIOUS
<1>11. \A c \in start .. start + w - 1 : c \in Cells
    BY <1>5, <1>10, HeapPageAssumption DEF Cells
<1>12. \A c \in start .. start + w - 1 : p.data[c] = IF c - start < size THEN v ELSE 0
    <2> TAKE c \in start .. start + w - 1
    <2>1. c - start + 1 \in 1 .. w /\ o + a + (c - start + 1) - 1 = c
        BY <1>10
    <2>2. p.data[c] = IF c - start + 1 <= size THEN v ELSE 0
        BY <1>9, <2>1
    <2>3. c - start + 1 <= size <=> c - start < size
        BY <1>7, <1>10
    <2> QED
        BY <2>2, <2>3
<1>13. p.data[start] = v
    <2>1. p.data[start] = IF 0 < size THEN v ELSE 0
        BY <1>12
    <2>2. size = 0 => v = 0
        BY <1>7, HeapPageAssumption DEF ValueSize
    <2> QED
        BY <2>1, <2>2
<1>14. start \in Cells
    BY <1>11
<1>15. \A c \in start .. start + size - 1 : c \in Cells /\ p.data[c] = v
    BY <1>8, <1>11, <1>12
<1>16. types[i] = "STRING" => start + size \in Cells /\ p.data[start + size] = 0
    BY <1>8, <1>11, <1>12
<1>17. start = slot.slot_offset + ColumnOffset(types, i)
    BY <1>2, <1>3, <1>10
<1>18. ReadValue(p, slot, types, i) = v
    BY <1>7, <1>13, <1>14, <1>15, <1>16, <1>17 DEF ReadValue
<1> QED
    BY <1>6, <1>18

\* A row is held alike in pages that agree on its bytes.
LEMMA HeldSame ==
    ASSUME NEW p, NEW q, NEW types, IsList(types), NEW slot, slot.slot_offset \in Nat,
           SameBytes(p, q, slot.slot_offset, RowSize(types)),
           NEW vals, HoldsRow(p, slot, types, vals)
    PROVE  HoldsRow(q, slot, types, vals)
<1> SUFFICES ASSUME NEW i \in DOMAIN types, NEW k \in 1 .. Width(types[i])
             PROVE  q.data[slot.slot_offset + ColumnOffset(types, i) + k - 1]
                        = ValueBytes(types[i], vals[i])[k]
    BY DEF HoldsRow
<1>1. PICK w \in Nat : w = Width(types[i])
    BY WidthPositive
<1>2. PICK a \in Nat : a = ColumnOffset(types, i)
    BY ColumnFits
<1>3. PICK o \in Nat : o = slot.slot_offset
    OBVIOUS
<1>4. PICK n \in Nat : n = RowSize(types)
    BY ColumnFits
<1>5. a + w <= n
    BY <1>1, <1>2, <1>4, ColumnFits
<1>6. o + a + k - 1 \in Bytes(o, n)
    BY <1>1, <1>5 DEF Bytes
<1>7. q.data[o + a + k - 1] = p.data[o + a + k - 1]
    BY <1>3, <1>4, <1>6 DEF SameBytes
<1>8. p.data[o + a + k - 1] = ValueBytes(types[i], vals[i])[k]
    BY <1>2, <1>3 DEF HoldsRow
<1> QED
    BY <1>2, <1>3, <1>7, <1>8

\* heap_write leaves at the slot the bytes of the row it fills in, as long as the row is
\* within the payload and its values are as wide as its columns; and heap_scan::scan reads
\* them as these values, but for strings as long as their column, which no NUL ends
\* (heap_write, heap_scan::scan).
THEOREM WrittenIsRead ==
    ASSUME NEW p \in Pages, p.slot_count # 0,
           NEW types, IsList(types),
           NEW row, IsRow(row, types),
           NEW slot, slot.slot_offset = CurrentSlot(p).slot_offset,
           slot.slot_offset + RowSize(types) <= HeapPayloadSize
    PROVE  /\ HoldsRow(DataFilled(p, row), slot, types, ValuesOf(row, types))
           /\ \A i \in DOMAIN types :
                 Delimited(types[i], row[i].val) =>
                     ReadValue(DataFilled(p, row), slot, types, i) = row[i].val
<1>1. PICK o \in Nat : o = slot.slot_offset
    BY CurrentSlotType, HeapPageAssumption DEF Slots
<1>2. PICK q : q = DataFilled(p, row)
    OBVIOUS
<1>3. \A i \in 1 .. Len(types) : \A k \in 1 .. Width(types[i]) :
         LET c == o + ColumnOffset(types, i) + k - 1
         IN  c \in Cells => q.data[c] = ValueBytes(types[i], row[i].val)[k]
    BY <1>1, <1>2, FilledRow
<1>4. \A i \in DOMAIN types : ValuesOf(row, types)[i] = row[i].val
    BY DEF ValuesOf
<1>5. ASSUME NEW i \in DOMAIN types, NEW k \in 1 .. Width(types[i])
      PROVE  q.data[o + ColumnOffset(types, i) + k - 1] = ValueBytes(types[i], row[i].val)[k]
    <2>1. PICK w \in Nat : w = Width(types[i])
        BY WidthPositive
    <2>2. PICK a \in Nat : a = ColumnOffset(types, i)
        BY ColumnFits
    <2>3. PICK n \in Nat : n = RowSize(types)
        BY ColumnFits
    <2>4. a + w <= n /\ o + n <= HeapPayloadSize
        BY <1>1, <2>1, <2>2, <2>3, ColumnFits
    <2>5. o + a + k - 1 \in Cells
        BY <2>1, <2>4, HeapPageAssumption DEF Cells
    <2> QED
        BY <1>3, <2>2, <2>5, ColumnFits
<1>6. HoldsRow(q, slot, types, ValuesOf(row, types))
    BY <1>1, <1>4, <1>5 DEF HoldsRow
<1>7. ASSUME NEW i \in DOMAIN types, Delimited(types[i], row[i].val)
      PROVE  ReadValue(q, slot, types, i) = row[i].val
    <2>1. PICK vals : vals = ValuesOf(row, types)
        OBVIOUS
    <2>2. HoldsRow(q, slot, types, vals) /\ vals[i] = row[i].val
        BY <1>4, <1>6, <2>1
    <2>3. Delimited(types[i], vals[i]) /\ i \in 1 .. Len(types)
        BY <1>7, <2>2, ColumnFits
    <2> QED
        BY <1>1, <2>2, <2>3, ReadBack
<1> QED
    BY <1>2, <1>6, <1>7

\* A row that does not overlap the one that heap_write fills in is held as before, whatever
\* table it is of (heap_write).
THEOREM OtherRowsKept ==
    ASSUME NEW p \in Pages, p.slot_count # 0,
           NEW types, IsList(types),
           NEW row, IsRow(row, types),
           NEW others, IsList(others),
           NEW slot, NEW r \in Nat, slot.slot_offset = r,
           r + RowSize(others) <= HeapPayloadSize,
           \/ r + RowSize(others) <= CurrentSlot(p).slot_offset
           \/ CurrentSlot(p).slot_offset + RowSize(types) <= r,
           NEW vals, HoldsRow(p, slot, others, vals)
    PROVE  HoldsRow(DataFilled(p, row), slot, others, vals)
<1>1. PICK m \in Nat : m = RowSize(types)
    BY ColumnFits
<1>2. PICK n \in Nat : n = RowSize(others)
    BY ColumnFits
<1>3. PICK o \in Nat : o = CurrentSlot(p).slot_offset
    BY CurrentSlotType, HeapPageAssumption DEF Slots
<1>4. PICK q : q = DataFilled(p, row)
    OBVIOUS
<1>5. \A c \in Cells : c \notin Bytes(o, m) => q.data[c] = p.data[c]
    BY <1>1, <1>3, <1>4, FilledRow
<1>6. r + n <= HeapPayloadSize /\ (r + n <= o \/ o + m <= r)
    BY <1>1, <1>2, <1>3
<1>7. \A c \in Bytes(r, n) : c \in Cells /\ c \notin Bytes(o, m)
    BY <1>6, HeapPageAssumption DEF Bytes, Cells
<1>8. SameBytes(p, q, r, RowSize(others))
    BY <1>2, <1>5, <1>7 DEF SameBytes
<1> QED
    BY <1>4, <1>8, HeldSame
=============================================================================
