-------------------------- MODULE BPlusTree_proofs --------------------------
(***************************************************************************)
(* The B+ tree keeps its shape and its entries, for every number of keys a *)
(* node, every set of keys and every number of insertions; and while it is *)
(* a root above leaves, with no key twice, it keeps them in order and a    *)
(* search finds them.  The recursion of index_insert is a function on the  *)
(* depth of its calls; the induction over it is done by hand, from the     *)
(* well-foundedness of <.                                                  *)
(***************************************************************************)
EXTENDS BPlusTree, SequenceTheorems, FiniteSetTheorems, WellFoundedInduction, TLAPS

-----------------------------------------------------------------------------
(* Numbers and sequences.                                                  *)

LEMMA LeastNumber ==
    ASSUME NEW S \in SUBSET Nat, S # {}
    PROVE  \E m \in S : \A j \in S : m <= j
<1> DEFINE R == {p \in Nat \X Nat : p[1] < p[2]}
<1>1. IsWellFoundedOn(R, Nat)
    BY NatLessThanWellFounded, Zenon DEF OpToRel
<1>2. \E m \in S : \A j \in S : <<j, m>> \notin R
    <2> HIDE DEF R
    <2> QED
        BY <1>1, WFMin
<1>3. PICK m \in S : \A j \in S : <<j, m>> \notin R
    BY <1>2
<1>4. ASSUME NEW j \in S PROVE m <= j
    <2>1. ~(j < m)
        BY <1>3
    <2> QED
        BY <2>1
<1> QED
    BY <1>4

\* Induction, for a set of numbers.
LEMMA SetInduction ==
    ASSUME NEW S, 0 \in S, \A n \in Nat : n \in S => n + 1 \in S
    PROVE  \A n \in Nat : n \in S
<1> DEFINE Bad == {n \in Nat : n \notin S}
<1> SUFFICES ASSUME Bad # {} PROVE FALSE
    OBVIOUS
<1>1. PICK m \in Bad : \A j \in Bad : m <= j
    BY LeastNumber
<1>2. m \in Nat /\ m # 0
    BY <1>1
<1>3. m - 1 \in Nat /\ m - 1 \in S
    BY <1>1, <1>2
<1> QED
    BY <1>1, <1>2, <1>3

LEMMA MinIsLeast ==
    ASSUME NEW S \in SUBSET Nat, S # {}
    PROVE  Min(S) \in S /\ \A j \in S : Min(S) <= j
BY LeastNumber DEF Min

LEMMA MaxIsGreatest ==
    ASSUME NEW n \in Nat, NEW S \in SUBSET (0 .. n), S # {}
    PROVE  Max(S) \in S /\ \A j \in S : Max(S) >= j
<1> DEFINE Above == {b \in Nat : \A j \in S : b >= j}
<1>1. n \in Above
    OBVIOUS
<1>2. PICK m \in Above : \A b \in Above : m <= b
    BY <1>1, LeastNumber
<1>3. m \in S
    <2> SUFFICES ASSUME m \notin S PROVE FALSE
        OBVIOUS
    <2>1. \A j \in S : m > j
        BY <1>2
    <2>2. m # 0
        <3>1. PICK j \in S : TRUE
            OBVIOUS
        <3>2. j \in 0 .. n /\ m > j
            BY <2>1
        <3> QED
            BY <3>2
    <2>3. m - 1 \in Above
        BY <1>2, <2>1, <2>2
    <2> QED
        BY <1>2, <2>3
<1> QED
    BY <1>2, <1>3 DEF Max

LEMMA Cut ==
    ASSUME NEW S, NEW s \in Seq(S), NEW m \in 1 .. Len(s) + 1, NEW n \in m - 1 .. Len(s)
    PROVE  /\ SubSeq(s, m, n) \in Seq(S)
           /\ Len(SubSeq(s, m, n)) = n - m + 1
           /\ \A j \in 1 .. n - m + 1 : SubSeq(s, m, n)[j] = s[m + j - 1]
<1>1. Len(s) \in Nat /\ m \in Int /\ n \in Int
    OBVIOUS
<1>2. \A i \in m .. n : s[i] \in S
    BY <1>1
<1> QED
    BY <1>1, <1>2, SubSeqProperties

\* A sequence cut in two.
LEMMA CutLeft ==
    ASSUME NEW S, NEW s \in Seq(S), NEW m \in 1 .. Len(s)
    PROVE  Len(SubSeq(s, 1, m)) = m /\ \A j \in 1 .. m : SubSeq(s, 1, m)[j] = s[j]
<1>1. Len(s) \in Nat /\ 1 \in 1 .. Len(s) + 1 /\ m \in 1 - 1 .. Len(s)
    OBVIOUS
<1>2. Len(SubSeq(s, 1, m)) = m - 1 + 1
    BY <1>1, Cut
<1>3. \A j \in 1 .. m - 1 + 1 : SubSeq(s, 1, m)[j] = s[1 + j - 1]
    BY <1>1, Cut
<1>4. m - 1 + 1 = m /\ \A j \in 1 .. m : 1 + j - 1 = j
    BY <1>1
<1> DEFINE w == SubSeq(s, 1, m)
<1> HIDE DEF w
<1>5. Len(w) = m
    BY <1>2, <1>4 DEF w
<1>6. ASSUME NEW j \in 1 .. m PROVE w[j] = s[j]
    BY <1>3, <1>4 DEF w
<1> QED
    BY <1>5, <1>6 DEF w

LEMMA CutRight ==
    ASSUME NEW S, NEW s \in Seq(S), NEW m \in 1 .. Len(s)
    PROVE  /\ Len(SubSeq(s, m + 1, Len(s))) = Len(s) - m
           /\ \A j \in 1 .. Len(s) - m : SubSeq(s, m + 1, Len(s))[j] = s[m + j]
<1>1. Len(s) \in Nat /\ m + 1 \in 1 .. Len(s) + 1 /\ Len(s) \in (m + 1) - 1 .. Len(s)
    OBVIOUS
<1>2. Len(SubSeq(s, m + 1, Len(s))) = Len(s) - (m + 1) + 1
    BY <1>1, Cut
<1>3. \A j \in 1 .. Len(s) - (m + 1) + 1 : SubSeq(s, m + 1, Len(s))[j] = s[(m + 1) + j - 1]
    BY <1>1, Cut
<1> DEFINE w == SubSeq(s, m + 1, Len(s))
<1> HIDE DEF w
<1>4. Len(s) - (m + 1) + 1 = Len(s) - m
    BY <1>1
<1>5. Len(w) = Len(s) - m
    BY <1>2, <1>4 DEF w
<1>6. ASSUME NEW j \in 1 .. Len(s) - m PROVE w[j] = s[m + j]
    <2>1. (m + 1) + j - 1 = m + j
        BY <1>1
    <2>2. w[j] = s[(m + 1) + j - 1]
        BY <1>3, <1>4 DEF w
    <2> QED
        BY <2>1, <2>2
<1> QED
    BY <1>5, <1>6 DEF w

IsParted(s, size, m, l, r) ==
    /\ size \in Nat /\ Len(s) = size /\ m \in 0 .. size
    /\ Len(l) = m /\ \A j \in 1 .. m : l[j] = s[j]
    /\ Len(r) = size - m /\ \A j \in 1 .. size - m : r[j] = s[m + j]

LEMMA Parted ==
    ASSUME NEW S, NEW s \in Seq(S), NEW m \in 1 .. Len(s)
    PROVE  IsParted(s, Len(s), m, SubSeq(s, 1, m), SubSeq(s, m + 1, Len(s)))
<1> DEFINE l == SubSeq(s, 1, m)
           r == SubSeq(s, m + 1, Len(s))
<1>1. Len(l) = m /\ \A j \in 1 .. m : l[j] = s[j]
    BY CutLeft
<1>2. Len(r) = Len(s) - m /\ \A j \in 1 .. Len(s) - m : r[j] = s[m + j]
    BY CutRight
<1>3. Len(s) \in Nat /\ m \in 0 .. Len(s)
    OBVIOUS
<1> HIDE DEF l, r
<1>4. IsParted(s, Len(s), m, l, r)
    BY <1>1, <1>2, <1>3 DEF IsParted
<1> QED
    BY <1>4 DEF l, r

\* w is s with e put in at i.
Spread(w, s, i, e) == \A j \in 1 .. Len(s) + 1 : w[j] = IF j < i THEN s[j] ELSE IF j = i THEN e ELSE s[j - 1]

LEMMA Inserted ==
    ASSUME NEW S, NEW s \in Seq(S), NEW i \in 1 .. Len(s) + 1, NEW e \in S
    PROVE  /\ InsertAt(s, i, e) \in Seq(S)
           /\ Len(InsertAt(s, i, e)) = Len(s) + 1
           /\ Spread(InsertAt(s, i, e), s, i, e)
<1>1. Len(s) \in Nat /\ i \in Nat
    OBVIOUS
<1> DEFINE a == SubSeq(s, 1, i - 1)
           b == SubSeq(s, i, Len(s))
<1>2. a \in Seq(S) /\ Len(a) = i - 1 /\ \A j \in 1 .. i - 1 : a[j] = s[j]
    BY <1>1, Cut
<1>3. b \in Seq(S) /\ Len(b) = Len(s) - i + 1 /\ \A j \in 1 .. Len(s) - i + 1 : b[j] = s[i + j - 1]
    BY <1>1, Cut
<1> HIDE DEF a, b
<1>4. <<e>> \in Seq(S) /\ Len(<<e>>) = 1 /\ <<e>>[1] = e
    OBVIOUS
<1> DEFINE c == a \o <<e>>
<1>5. c \in Seq(S) /\ Len(c) = i /\ \A j \in 1 .. i : c[j] = IF j < i THEN s[j] ELSE e
    BY <1>1, <1>2, <1>4, ConcatProperties
<1> HIDE DEF c
<1>6. c \o b \in Seq(S) /\ Len(c \o b) = Len(s) + 1
    <2>1. c \in Seq(S) /\ b \in Seq(S)
        BY <1>3, <1>5
    <2>2. c \o b \in Seq(S) /\ Len(c \o b) = Len(c) + Len(b)
        BY <2>1, ConcatProperties
    <2>3. Len(c) + Len(b) = Len(s) + 1
        BY <1>1, <1>3, <1>5
    <2> QED
        BY <2>2, <2>3
<1>7. ASSUME NEW j \in 1 .. Len(s) + 1
      PROVE  (c \o b)[j] = IF j < i THEN s[j] ELSE IF j = i THEN e ELSE s[j - 1]
    <2>1. (c \o b)[j] = IF j <= Len(c) THEN c[j] ELSE b[j - Len(c)]
        BY <1>1, <1>3, <1>5, ConcatProperties
    <2>2. CASE j <= i
        BY <1>1, <1>5, <2>1, <2>2
    <2>3. CASE j > i
        <3>1. j - i \in 1 .. Len(s) - i + 1 /\ i + (j - i) - 1 = j - 1
            BY <1>1, <2>3
        <3>2. b[j - i] = s[j - 1]
            BY <1>3, <3>1
        <3> QED
            BY <1>1, <1>5, <2>1, <2>3, <3>2
    <2>4. j <= i \/ j > i
        BY <1>1
    <2> QED
        BY <2>2, <2>3, <2>4
<1>8. Spread(c \o b, s, i, e)
    BY <1>7 DEF Spread
<1>9. InsertAt(s, i, e) = c \o b
    BY DEF InsertAt, a, b, c
<1> QED
    BY <1>6, <1>8, <1>9

\* A key goes behind those not above it.
LEMMA Placed ==
    ASSUME NEW keys \in Seq(Keys), NEW key \in Keys
    PROVE  /\ Place(keys, key) \in 1 .. Len(keys) + 1
           /\ \A i \in 1 .. Len(keys) : i >= Place(keys, key) => keys[i] > key
           /\ Place(keys, key) > 1 => keys[Place(keys, key) - 1] <= key
<1> DEFINE S == {0} \cup {i \in DOMAIN keys : keys[i] <= key}
<1>1. Len(keys) \in Nat /\ DOMAIN keys = 1 .. Len(keys)
    OBVIOUS
<1>2. \A i \in 1 .. Len(keys) : keys[i] \in Int
    BY BPlusTreeAssumption, ElementOfSeq
<1>3. key \in Int
    BY BPlusTreeAssumption
<1>4. S \in SUBSET (0 .. Len(keys)) /\ S # {}
    BY <1>1
<1> DEFINE m == Max(S)
<1>5. m \in S /\ \A j \in S : m >= j
    BY <1>1, <1>4, MaxIsGreatest
<1>6. Place(keys, key) = m + 1
    BY DEF Place
<1> HIDE DEF m
<1> QED
    BY <1>1, <1>2, <1>3, <1>5, <1>6

-----------------------------------------------------------------------------
(* Entries of a leaf.                                                      *)

Pairs(keys, values) == {<<keys[i], values[i]>> : i \in 1 .. Len(keys)}
Once(values) == \A i, j \in 1 .. Len(values) : values[i] = values[j] => i = j
Lacks(values, rid) == \A i \in 1 .. Len(values) : values[i] # rid
Apart(values, others) == \A i \in 1 .. Len(values), j \in 1 .. Len(others) : values[i] # others[j]

LEMMA PairInserted ==
    ASSUME NEW keys \in Seq(Keys), NEW values \in Seq(Rids), Len(values) = Len(keys),
           NEW at \in 1 .. Len(keys) + 1, NEW key \in Keys, NEW rid \in Rids
    PROVE  /\ Pairs(InsertAt(keys, at, key), InsertAt(values, at, rid)) = Pairs(keys, values) \cup {<<key, rid>>}
           /\ Once(values) /\ Lacks(values, rid) => Once(InsertAt(values, at, rid))
<1> DEFINE ks == InsertAt(keys, at, key)
           vs == InsertAt(values, at, rid)
<1>1. Len(keys) \in Nat
    OBVIOUS
<1>6. Len(ks) = Len(keys) + 1 /\ Spread(ks, keys, at, key)
    BY Inserted
<1>7. at \in 1 .. Len(values) + 1
    OBVIOUS
<1>8. Len(vs) = Len(values) + 1 /\ Spread(vs, values, at, rid)
    BY <1>7, Inserted
<1> HIDE DEF ks, vs
<1>2. /\ Len(ks) = Len(keys) + 1
      /\ \A j \in 1 .. Len(keys) + 1 : ks[j] = IF j < at THEN keys[j] ELSE IF j = at THEN key ELSE keys[j - 1]
    BY <1>6 DEF Spread
<1>3. /\ Len(vs) = Len(keys) + 1
      /\ \A j \in 1 .. Len(keys) + 1 : vs[j] = IF j < at THEN values[j] ELSE IF j = at THEN rid ELSE values[j - 1]
    BY <1>8 DEF Spread
<1>4. Pairs(ks, vs) = Pairs(keys, values) \cup {<<key, rid>>}
    <2>1. ASSUME NEW j \in 1 .. Len(ks)
          PROVE  <<ks[j], vs[j]>> \in Pairs(keys, values) \cup {<<key, rid>>}
        <3>1. CASE j < at
            <4>1. j \in 1 .. Len(keys) /\ ks[j] = keys[j] /\ vs[j] = values[j]
                BY <1>1, <1>2, <1>3, <3>1
            <4> QED
                BY <4>1 DEF Pairs
        <3>2. CASE j = at
            BY <1>1, <1>2, <1>3, <3>2
        <3>3. CASE j > at
            <4>1. j - 1 \in 1 .. Len(keys) /\ ks[j] = keys[j - 1] /\ vs[j] = values[j - 1]
                BY <1>1, <1>2, <1>3, <3>3
            <4> QED
                BY <4>1 DEF Pairs
        <3> QED
            BY <1>1, <1>2, <3>1, <3>2, <3>3
    <2>2. ASSUME NEW j \in 1 .. Len(keys)
          PROVE  <<keys[j], values[j]>> \in Pairs(ks, vs)
        <3>1. CASE j < at
            <4>1. j \in 1 .. Len(ks) /\ ks[j] = keys[j] /\ vs[j] = values[j]
                BY <1>1, <1>2, <1>3, <3>1
            <4> QED
                BY <4>1 DEF Pairs
        <3>2. CASE j >= at
            <4>1. j + 1 \in 1 .. Len(ks) /\ ks[j + 1] = keys[j] /\ vs[j + 1] = values[j]
                BY <1>1, <1>2, <1>3, <3>2
            <4> QED
                BY <4>1 DEF Pairs
        <3> QED
            BY <1>1, <3>1, <3>2
    <2>3. at \in 1 .. Len(ks) /\ ks[at] = key /\ vs[at] = rid
        BY <1>1, <1>2, <1>3
    <2> QED
        BY <2>1, <2>2, <2>3 DEF Pairs
<1>5. ASSUME Once(values), Lacks(values, rid)
      PROVE  Once(vs)
    <2>1. \A j \in 1 .. Len(keys) : values[j] # rid
        BY <1>5 DEF Lacks
    <2>2. ASSUME NEW i \in 1 .. Len(keys) + 1, NEW j \in 1 .. Len(keys) + 1, vs[i] = vs[j]
          PROVE  i = j
        <3>1. \A k \in 1 .. Len(keys) + 1 : k # at =>
                 LET o == IF k < at THEN k ELSE k - 1
                 IN  o \in 1 .. Len(keys) /\ vs[k] = values[o]
            BY <1>1, <1>3
        <3>2. vs[at] = rid
            BY <1>3
        <3>3. CASE i = at
            <4>1. j # at => vs[j] # rid
                BY <2>1, <2>2, <3>1
            <4> QED
                BY <2>2, <3>2, <3>3, <4>1
        <3>4. CASE i # at
            <4>1. j # at
                BY <2>1, <2>2, <3>1, <3>2, <3>4
            <4>2. PICK o \in 1 .. Len(keys) : o = (IF i < at THEN i ELSE i - 1) /\ vs[i] = values[o]
                BY <2>2, <3>1, <3>4
            <4>3. PICK p \in 1 .. Len(keys) : p = (IF j < at THEN j ELSE j - 1) /\ vs[j] = values[p]
                BY <2>2, <3>1, <4>1
            <4>4. o = p
                <5>1. values[o] = values[p]
                    BY <2>2, <4>2, <4>3
                <5> QED
                    BY <1>1, <1>5, <5>1 DEF Once
            <4> QED
                BY <1>1, <2>2, <3>4, <4>1, <4>2, <4>3, <4>4
        <3> QED
            BY <3>3, <3>4
    <2> QED
        BY <1>3, <2>2 DEF Once
<1> QED
    BY <1>4, <1>5 DEF ks, vs

\* A leaf in two parts.
LEMMA PairsParted ==
    ASSUME NEW keys, NEW values, NEW size, NEW m, NEW lk, NEW lv, NEW rk, NEW rv,
           IsParted(keys, size, m, lk, rk), IsParted(values, size, m, lv, rv)
    PROVE  /\ Pairs(lk, lv) \cup Pairs(rk, rv) = Pairs(keys, values)
           /\ Once(values) => Once(lv) /\ Once(rv) /\ Apart(lv, rv)
<1>1. /\ size \in Nat /\ Len(keys) = size /\ m \in 0 .. size
      /\ Len(lk) = m /\ \A j \in 1 .. m : lk[j] = keys[j]
      /\ Len(rk) = size - m /\ \A j \in 1 .. size - m : rk[j] = keys[m + j]
    BY DEF IsParted
<1>2. /\ Len(values) = size
      /\ Len(lv) = m /\ \A j \in 1 .. m : lv[j] = values[j]
      /\ Len(rv) = size - m /\ \A j \in 1 .. size - m : rv[j] = values[m + j]
    BY DEF IsParted
<1>8. ASSUME NEW j \in 1 .. Len(keys)
      PROVE  <<keys[j], values[j]>> \in Pairs(lk, lv) \cup Pairs(rk, rv)
    <2>1. CASE j <= m
        <3>1. j \in 1 .. Len(lk) /\ <<keys[j], values[j]>> = <<lk[j], lv[j]>>
            BY <1>1, <1>2, <2>1
        <3> QED
            BY <3>1 DEF Pairs
    <2>2. CASE j > m
        <3>1. PICK i \in 1 .. size - m : i = j - m
            BY <1>1, <2>2
        <3>2. i \in 1 .. Len(rk) /\ m + i = j
            BY <1>1, <3>1
        <3>3. <<keys[j], values[j]>> = <<rk[i], rv[i]>>
            BY <1>1, <1>2, <3>1, <3>2
        <3> QED
            BY <3>2, <3>3 DEF Pairs
    <2> QED
        BY <1>1, <2>1, <2>2
<1>9. \A j \in 1 .. Len(lk) : j \in 1 .. Len(keys) /\ <<lk[j], lv[j]>> = <<keys[j], values[j]>>
    BY <1>1, <1>2
<1>10. ASSUME NEW j \in 1 .. Len(rk)
       PROVE  m + j \in 1 .. Len(keys) /\ <<rk[j], rv[j]>> = <<keys[m + j], values[m + j]>>
    BY <1>1, <1>2
<1>11. Pairs(lk, lv) \cup Pairs(rk, rv) = Pairs(keys, values)
    <2>1. \A j \in 1 .. Len(rk) : <<rk[j], rv[j]>> \in Pairs(keys, values)
        BY <1>10 DEF Pairs
    <2>2. \A j \in 1 .. Len(lk) : <<lk[j], lv[j]>> \in Pairs(keys, values)
        BY <1>9 DEF Pairs
    <2>3. Pairs(lk, lv) \subseteq Pairs(keys, values) /\ Pairs(rk, rv) \subseteq Pairs(keys, values)
        BY <2>1, <2>2 DEF Pairs
    <2>4. Pairs(keys, values) \subseteq Pairs(lk, lv) \cup Pairs(rk, rv)
        BY <1>8 DEF Pairs
    <2> QED
        BY <2>3, <2>4
<1>12. ASSUME Once(values)
       PROVE  Once(lv) /\ Once(rv) /\ Apart(lv, rv)
    <2>1. \A j \in 1 .. Len(lv) : j \in 1 .. Len(values) /\ j <= m /\ lv[j] = values[j]
        BY <1>1, <1>2
    <2>2. ASSUME NEW j \in 1 .. Len(rv)
          PROVE  m + j \in 1 .. Len(values) /\ m + j > m /\ rv[j] = values[m + j]
        BY <1>1, <1>2
    <2>3. Once(lv)
        <3> SUFFICES ASSUME NEW i \in 1 .. Len(lv), NEW j \in 1 .. Len(lv), lv[i] = lv[j] PROVE i = j
            BY DEF Once
        <3> QED
            BY <1>12, <2>1 DEF Once
    <2>4. Once(rv)
        <3> SUFFICES ASSUME NEW i \in 1 .. Len(rv), NEW j \in 1 .. Len(rv), rv[i] = rv[j] PROVE i = j
            BY DEF Once
        <3>1. m + i = m + j
            BY <1>12, <2>2 DEF Once
        <3> QED
            BY <1>1, <3>1
    <2>5. Apart(lv, rv)
        <3> SUFFICES ASSUME NEW i \in 1 .. Len(lv), NEW j \in 1 .. Len(rv), lv[i] = rv[j] PROVE FALSE
            BY DEF Apart
        <3>1. i = m + j
            BY <1>12, <2>1, <2>2 DEF Once
        <3> QED
            BY <1>1, <2>1, <2>2, <3>1
    <2> QED
        BY <2>3, <2>4, <2>5
<1> QED
    BY <1>11, <1>12

-----------------------------------------------------------------------------
(* The index file.                                                         *)

IndexFile(ns) == ns \in Seq(Nodes) /\ \A p \in 1 .. Len(ns) : NodeOK(ns[p], Len(ns))

LEMMA NodeAt ==
    ASSUME NEW ns, IndexFile(ns), NEW p \in 1 .. Len(ns)
    PROVE  /\ Len(ns) \in Nat
           /\ ns[p] \in Nodes
           /\ ns[p].is_leaf \in BOOLEAN /\ ns[p].next_leaf \in Nat
           /\ ns[p].keys \in Seq(Keys) /\ ns[p].values \in Seq(Rids) /\ ns[p].child_nodes \in Seq(Nat)
           /\ Len(ns[p].keys) \in 0 .. MAX_KEYS
           /\ ns[p].is_leaf => /\ Len(ns[p].values) = Len(ns[p].keys)
                               /\ ns[p].child_nodes = << >>
                               /\ ns[p].next_leaf \in 0 .. Len(ns)
           /\ ~ns[p].is_leaf => /\ Len(ns[p].child_nodes) = Len(ns[p].keys) + 1
                                /\ \A i \in 1 .. Len(ns[p].child_nodes) : ns[p].child_nodes[i] \in 1 .. Len(ns)
<1>1. Len(ns) \in Nat /\ ns[p] \in Nodes
    BY ElementOfSeq DEF IndexFile
<1>2. NodeOK(ns[p], Len(ns))
    BY DEF IndexFile
<1>3. /\ ns[p].is_leaf \in BOOLEAN /\ ns[p].next_leaf \in Nat
      /\ ns[p].keys \in Seq(Keys) /\ ns[p].values \in Seq(Rids) /\ ns[p].child_nodes \in Seq(Nat)
    BY <1>1 DEF Nodes
<1>4. Len(ns[p].keys) \in Nat
    BY <1>3
<1> QED
    BY <1>1, <1>2, <1>3, <1>4, BPlusTreeAssumption DEF NodeOK

LEMMA LeafNodeOK ==
    ASSUME NEW keys \in Seq(Keys), NEW values \in Seq(Rids), NEW next \in Nat, NEW pages \in Nat,
           Len(keys) <= MAX_KEYS, Len(values) = Len(keys), next <= pages,
           NEW n, n = LeafNode(keys, values, next)
    PROVE  /\ n \in Nodes /\ NodeOK(n, pages)
           /\ n.is_leaf /\ n.keys = keys /\ n.values = values /\ n.child_nodes = << >> /\ n.next_leaf = next
BY DEF LeafNode, Nodes, NodeOK

LEMMA InternalNodeOK ==
    ASSUME NEW keys \in Seq(Keys), NEW kids \in Seq(Nat), NEW pages \in Nat,
           Len(keys) <= MAX_KEYS, Len(kids) = Len(keys) + 1, \A i \in 1 .. Len(kids) : kids[i] \in 1 .. pages,
           NEW n, n = InternalNode(keys, kids)
    PROVE  /\ n \in Nodes /\ NodeOK(n, pages)
           /\ ~n.is_leaf /\ n.keys = keys /\ n.child_nodes = kids
BY DEF InternalNode, Nodes, NodeOK, INVALID_PAGE_ID

LEMMA MorePages ==
    ASSUME NEW n \in Nodes, NEW pages \in Nat, NEW more \in Nat, pages <= more, NodeOK(n, pages)
    PROVE  NodeOK(n, more)
BY DEF NodeOK, Nodes

LEMMA Appended ==
    ASSUME NEW ns, IndexFile(ns), NEW n \in Nodes, NodeOK(n, Len(ns) + 1)
    PROVE  /\ IndexFile(Append(ns, n))
           /\ Len(Append(ns, n)) = Len(ns) + 1
           /\ \A p \in 1 .. Len(ns) : Append(ns, n)[p] = ns[p]
           /\ Append(ns, n)[Len(ns) + 1] = n
<1>1. Len(ns) \in Nat /\ ns \in Seq(Nodes)
    BY DEF IndexFile
<1>2. /\ Append(ns, n) \in Seq(Nodes) /\ Len(Append(ns, n)) = Len(ns) + 1
      /\ \A p \in 1 .. Len(ns) : Append(ns, n)[p] = ns[p]
      /\ Append(ns, n)[Len(ns) + 1] = n
    BY <1>1, AppendProperties
<1>3. ASSUME NEW p \in 1 .. Len(ns) + 1
      PROVE  NodeOK(Append(ns, n)[p], Len(ns) + 1)
    <2>1. CASE p \in 1 .. Len(ns)
        <3>1. NodeOK(ns[p], Len(ns)) /\ ns[p] \in Nodes
            BY <1>1, <2>1, NodeAt DEF IndexFile
        <3> QED
            BY <1>1, <1>2, <2>1, <3>1, MorePages
    <2>2. CASE p = Len(ns) + 1
        BY <1>2, <2>2
    <2> QED
        BY <1>1, <2>1, <2>2
<1> QED
    BY <1>1, <1>2, <1>3 DEF IndexFile

LEMMA NewNodeOK ==
    ASSUME NEW pages \in Nat
    PROVE  /\ NewNode \in Nodes /\ NodeOK(NewNode, pages)
           /\ NewNode.is_leaf /\ NewNode.keys = << >> /\ NewNode.values = << >> /\ NewNode.child_nodes = << >>
           /\ NewNode.next_leaf = INVALID_PAGE_ID
<1>1. << >> \in Seq(Keys) /\ << >> \in Seq(Rids) /\ Len(<< >>) = 0
    OBVIOUS
<1> QED
    BY <1>1, BPlusTreeAssumption DEF NewNode, LeafNode, Nodes, NodeOK, INVALID_PAGE_ID

LEMMA Fetched ==
    ASSUME NEW ns, IndexFile(ns)
    PROVE  /\ IndexFile(fetch_page(ns))
           /\ Len(fetch_page(ns)) = Len(ns) + 1
           /\ \A p \in 1 .. Len(ns) : fetch_page(ns)[p] = ns[p]
           /\ fetch_page(ns)[Len(ns) + 1] = NewNode
<1>1. Len(ns) + 1 \in Nat
    BY DEF IndexFile
<1> QED
    BY <1>1, NewNodeOK, Appended DEF fetch_page

LEMMA Replaced ==
    ASSUME NEW ns, IndexFile(ns), NEW p \in 1 .. Len(ns), NEW n \in Nodes, NodeOK(n, Len(ns))
    PROVE  /\ IndexFile([ns EXCEPT ![p] = n])
           /\ Len([ns EXCEPT ![p] = n]) = Len(ns)
           /\ [ns EXCEPT ![p] = n][p] = n
           /\ \A q \in 1 .. Len(ns) : q # p => [ns EXCEPT ![p] = n][q] = ns[q]
<1>1. ns \in Seq(Nodes)
    BY DEF IndexFile
<1>2. /\ [ns EXCEPT ![p] = n] \in Seq(Nodes) /\ Len([ns EXCEPT ![p] = n]) = Len(ns)
      /\ \A q \in 1 .. Len(ns) : [ns EXCEPT ![p] = n][q] = IF q = p THEN n ELSE ns[q]
    BY <1>1, ExceptSeq
<1> QED
    BY <1>2 DEF IndexFile

-----------------------------------------------------------------------------
(* What the inserts and splits do to the file.                             *)

IsSplit(res, ns) == res.promoted_key \in Keys /\ res.child_pid \in 1 .. Len(ns) /\ res # NoSplit

OthersKept(ns, ms, pid) == \A q \in 1 .. Len(ns) : q # pid => ms[q] = ns[q]

\* The keys and values of a leaf, and the keys and children of an internal node, with
\* what it is to take in.
KeysWith(node, key)  == InsertAt(node.keys, Place(node.keys, key), key)
ValuesWith(node, key, rid) == InsertAt(node.values, Place(node.keys, key), rid)
KidsWith(node, split) == InsertAt(node.child_nodes, Place(node.keys, split.promoted_key) + 1, split.child_pid)

LeafGrown(ns, ms, pid, key, rid) ==
    /\ IndexFile(ms) /\ Len(ms) = Len(ns) /\ OthersKept(ns, ms, pid)
    /\ ms[pid].is_leaf /\ ms[pid].next_leaf = ns[pid].next_leaf
    /\ ms[pid].keys = KeysWith(ns[pid], key) /\ ms[pid].values = ValuesWith(ns[pid], key, rid)

LeafSplit(ns, ms, pid, key, rid, res) ==
    LET right  == Len(ns) + 1
        keys   == KeysWith(ns[pid], key)
        values == ValuesWith(ns[pid], key, rid)
        left_size == (MAX_KEYS + 2) \div 2
    IN  /\ IndexFile(ms) /\ Len(ms) = right /\ OthersKept(ns, ms, pid)
        /\ ms[pid].is_leaf /\ ms[pid].next_leaf = right
        /\ ms[pid].keys = SubSeq(keys, 1, left_size) /\ ms[pid].values = SubSeq(values, 1, left_size)
        /\ ms[right].is_leaf /\ ms[right].next_leaf = ns[pid].next_leaf
        /\ ms[right].keys = SubSeq(keys, left_size + 1, MAX_KEYS + 1)
        /\ ms[right].values = SubSeq(values, left_size + 1, MAX_KEYS + 1)
        /\ res.child_pid = right /\ res.promoted_key = ms[right].keys[1]

InternalGrown(ns, ms, pid, split) ==
    /\ IndexFile(ms) /\ Len(ms) = Len(ns) + 1 /\ OthersKept(ns, ms, pid)
    /\ ms[Len(ns) + 1] = NewNode
    /\ ~ms[pid].is_leaf
    /\ ms[pid].keys = KeysWith(ns[pid], split.promoted_key)
    /\ ms[pid].child_nodes = KidsWith(ns[pid], split)

InternalSplit(ns, ms, pid, split, res) ==
    LET right == Len(ns) + 1
        keys  == KeysWith(ns[pid], split.promoted_key)
        kids  == KidsWith(ns[pid], split)
        left_size == (MAX_KEYS + 1) \div 2
    IN  /\ IndexFile(ms) /\ Len(ms) = right /\ OthersKept(ns, ms, pid)
        /\ ~ms[pid].is_leaf
        /\ ms[pid].child_nodes = SubSeq(kids, 1, left_size + 1)
        /\ ~ms[right].is_leaf
        /\ ms[right].child_nodes = SubSeq(kids, left_size + 2, MAX_KEYS + 2)
        /\ res.child_pid = right /\ res.promoted_key \in Keys

LEMMA LeafWith ==
    ASSUME NEW ns, IndexFile(ns), NEW pid \in 1 .. Len(ns), ns[pid].is_leaf, NEW key \in Keys, NEW rid \in Rids
    PROVE  /\ KeysWith(ns[pid], key) \in Seq(Keys)
           /\ Len(KeysWith(ns[pid], key)) = Len(ns[pid].keys) + 1
           /\ ValuesWith(ns[pid], key, rid) \in Seq(Rids)
           /\ Len(ValuesWith(ns[pid], key, rid)) = Len(ns[pid].keys) + 1
           /\ Pairs(KeysWith(ns[pid], key), ValuesWith(ns[pid], key, rid))
                = Pairs(ns[pid].keys, ns[pid].values) \cup {<<key, rid>>}
           /\ Once(ns[pid].values) /\ Lacks(ns[pid].values, rid) => Once(ValuesWith(ns[pid], key, rid))
<1>1. /\ ns[pid].keys \in Seq(Keys) /\ ns[pid].values \in Seq(Rids)
      /\ Len(ns[pid].values) = Len(ns[pid].keys)
    BY NodeAt
<1>2. Place(ns[pid].keys, key) \in 1 .. Len(ns[pid].keys) + 1
    BY <1>1, Placed
<1>3. KeysWith(ns[pid], key) \in Seq(Keys) /\ Len(KeysWith(ns[pid], key)) = Len(ns[pid].keys) + 1
    BY <1>1, <1>2, Inserted DEF KeysWith
<1>4. Place(ns[pid].keys, key) \in 1 .. Len(ns[pid].values) + 1
    BY <1>1, <1>2
<1>5. /\ ValuesWith(ns[pid], key, rid) \in Seq(Rids)
      /\ Len(ValuesWith(ns[pid], key, rid)) = Len(ns[pid].values) + 1
    BY <1>1, <1>4, Inserted DEF ValuesWith
<1>6. /\ Pairs(KeysWith(ns[pid], key), ValuesWith(ns[pid], key, rid))
           = Pairs(ns[pid].keys, ns[pid].values) \cup {<<key, rid>>}
      /\ Once(ns[pid].values) /\ Lacks(ns[pid].values, rid) => Once(ValuesWith(ns[pid], key, rid))
    BY <1>1, <1>2, PairInserted DEF KeysWith, ValuesWith
<1> QED
    BY <1>1, <1>3, <1>5, <1>6

LEMMA LeafGrows ==
    ASSUME NEW ns, IndexFile(ns), NEW pid \in 1 .. Len(ns), ns[pid].is_leaf, NEW key \in Keys, NEW rid \in Rids,
           ~Full(ns[pid].keys),
           NEW r, r = bptree_leaf_insert(ns, pid, key, rid)
    PROVE  r.res = NoSplit /\ LeafGrown(ns, r.nodes, pid, key, rid)
<1> DEFINE keys == KeysWith(ns[pid], key)
           values == ValuesWith(ns[pid], key, rid)
           n == LeafNode(keys, values, ns[pid].next_leaf)
<1>1. r = [nodes |-> [ns EXCEPT ![pid] = n], res |-> NoSplit]
    BY DEF bptree_leaf_insert, KeysWith, ValuesWith
<1>2. /\ Len(ns) \in Nat /\ ns[pid].next_leaf \in Nat /\ ns[pid].next_leaf <= Len(ns)
      /\ Len(ns[pid].keys) \in Nat /\ Len(ns[pid].keys) < MAX_KEYS
    BY NodeAt, BPlusTreeAssumption DEF Full
<1>3. /\ keys \in Seq(Keys) /\ values \in Seq(Rids) /\ Len(keys) = Len(ns[pid].keys) + 1 /\ Len(values) = Len(keys)
    BY LeafWith
<1> HIDE DEF keys, values
<1>4. Len(keys) <= MAX_KEYS
    BY <1>2, <1>3, BPlusTreeAssumption
<1>5. /\ n \in Nodes /\ NodeOK(n, Len(ns))
      /\ n.is_leaf /\ n.keys = keys /\ n.values = values /\ n.next_leaf = ns[pid].next_leaf
    BY <1>2, <1>3, <1>4, LeafNodeOK
<1> HIDE DEF n
<1>6. /\ IndexFile(r.nodes) /\ Len(r.nodes) = Len(ns)
      /\ r.nodes[pid] = n
      /\ \A q \in 1 .. Len(ns) : q # pid => r.nodes[q] = ns[q]
    <2>1. r.nodes = [ns EXCEPT ![pid] = n]
        BY <1>1
    <2> QED
        BY <1>5, <2>1, Replaced
<1>7. r.res = NoSplit
    BY <1>1
<1> QED
    BY <1>5, <1>6, <1>7 DEF LeafGrown, OthersKept, keys, values

LEMMA LeafSplits ==
    ASSUME NEW ns, IndexFile(ns), NEW pid \in 1 .. Len(ns), ns[pid].is_leaf, NEW key \in Keys, NEW rid \in Rids,
           Full(ns[pid].keys),
           NEW r, r = bptree_leaf_insert(ns, pid, key, rid)
    PROVE  IsSplit(r.res, r.nodes) /\ LeafSplit(ns, r.nodes, pid, key, rid, r.res)
<1> DEFINE right == Len(ns) + 1
           keys == KeysWith(ns[pid], key)
           values == ValuesWith(ns[pid], key, rid)
           fs == fetch_page(ns)
<1>1. r = bptree_leaf_split(fs, pid, right, keys, values)
    BY DEF bptree_leaf_insert, KeysWith, ValuesWith
<1>2. /\ IndexFile(fs) /\ Len(fs) = right /\ \A q \in 1 .. Len(ns) : fs[q] = ns[q]
    BY Fetched
<1>3. /\ Len(ns) \in Nat /\ ns[pid].next_leaf \in Nat /\ ns[pid].next_leaf <= right /\ Len(ns[pid].keys) = MAX_KEYS
    BY NodeAt DEF Full
<1>4. /\ keys \in Seq(Keys) /\ values \in Seq(Rids) /\ Len(keys) = MAX_KEYS + 1 /\ Len(values) = MAX_KEYS + 1
    BY <1>3, LeafWith
<1> HIDE DEF keys, values, fs
<1> DEFINE left_size == (MAX_KEYS + 2) \div 2
           lk == SubSeq(keys, 1, left_size)
           lv == SubSeq(values, 1, left_size)
           rk == SubSeq(keys, left_size + 1, MAX_KEYS + 1)
           rv == SubSeq(values, left_size + 1, MAX_KEYS + 1)
           n == LeafNode(lk, lv, right)
           m == LeafNode(rk, rv, ns[pid].next_leaf)
<1>5. left_size \in 1 .. MAX_KEYS
    BY BPlusTreeAssumption
<1>6. (Len(keys) + 1) \div 2 = left_size /\ Len(keys) = MAX_KEYS + 1
    <2>1. (MAX_KEYS + 1) + 1 = MAX_KEYS + 2
        BY BPlusTreeAssumption
    <2> QED
        BY <1>4, <2>1
<1> HIDE DEF left_size
<1>7. lk \in Seq(Keys) /\ lv \in Seq(Rids) /\ Len(lk) = left_size /\ Len(lv) = left_size
    BY <1>4, <1>5, Cut, BPlusTreeAssumption
<1>8. rk \in Seq(Keys) /\ rv \in Seq(Rids) /\ Len(rk) = MAX_KEYS + 1 - left_size /\ Len(rv) = MAX_KEYS + 1 - left_size
    BY <1>4, <1>5, Cut, BPlusTreeAssumption
<1>9. fs[pid].next_leaf = ns[pid].next_leaf
    BY <1>2
<1>10. n.keys = lk /\ m.keys = rk
    BY DEF LeafNode
<1>11. r = [nodes |-> [fs EXCEPT ![pid] = n, ![right] = m],
            res |-> [promoted_key |-> rk[1], child_pid |-> right]]
    BY <1>1, <1>6, <1>9, <1>10 DEF bptree_leaf_split, Promoted, NextOfRight
<1> HIDE DEF lk, lv, rk, rv
<1>12. /\ n \in Nodes /\ NodeOK(n, right)
       /\ n.is_leaf /\ n.keys = lk /\ n.values = lv /\ n.next_leaf = right
    <2>1. Len(lk) <= MAX_KEYS /\ Len(lv) = Len(lk) /\ right \in Nat
        BY <1>3, <1>5, <1>7, BPlusTreeAssumption
    <2> QED
        BY <1>7, <2>1, LeafNodeOK
<1>13. /\ m \in Nodes /\ NodeOK(m, right)
       /\ m.is_leaf /\ m.keys = rk /\ m.values = rv /\ m.next_leaf = ns[pid].next_leaf
    <2>1. Len(rk) <= MAX_KEYS /\ Len(rv) = Len(rk) /\ right \in Nat
        BY <1>3, <1>5, <1>8, BPlusTreeAssumption
    <2> QED
        BY <1>3, <1>8, <2>1, LeafNodeOK
<1> HIDE DEF n, m
<1>14. pid \in 1 .. right /\ right \in 1 .. right /\ right # pid
    BY <1>3
<1> HIDE DEF right
<1>15. /\ IndexFile(r.nodes) /\ Len(r.nodes) = right
       /\ r.nodes[pid] = n /\ r.nodes[right] = m
       /\ \A q \in 1 .. right : q # pid /\ q # right => r.nodes[q] = fs[q]
    <2> DEFINE ks == [fs EXCEPT ![pid] = n]
    <2>1. r.nodes = [ks EXCEPT ![right] = m]
        BY <1>11
    <2>2. /\ pid \in 1 .. Len(fs) /\ right \in 1 .. Len(fs) /\ right # pid
          /\ NodeOK(n, Len(fs)) /\ NodeOK(m, Len(fs)) /\ n \in Nodes /\ m \in Nodes /\ IndexFile(fs)
        BY <1>2, <1>12, <1>13, <1>14
    <2>3. /\ IndexFile(ks) /\ Len(ks) = Len(fs) /\ ks[pid] = n
          /\ \A q \in 1 .. Len(fs) : q # pid => ks[q] = fs[q]
        BY <2>2, Replaced
    <2> HIDE DEF ks
    <2> DEFINE ms == [ks EXCEPT ![right] = m]
    <2>6. right \in 1 .. Len(ks) /\ NodeOK(m, Len(ks)) /\ m \in Nodes
        BY <2>2, <2>3
    <2>7. /\ IndexFile(ms) /\ Len(ms) = Len(ks) /\ ms[right] = m
          /\ \A q \in 1 .. Len(ks) : q # right => ms[q] = ks[q]
        BY <2>3, <2>6, Replaced
    <2> HIDE DEF ms
    <2>8. /\ IndexFile(ms) /\ Len(ms) = Len(fs)
          /\ ms[pid] = n /\ ms[right] = m
          /\ \A q \in 1 .. Len(fs) : q # pid /\ q # right => ms[q] = fs[q]
        BY <2>2, <2>3, <2>7
    <2>4. r.nodes = ms
        BY <2>1 DEF ms
    <2>5. /\ IndexFile(r.nodes) /\ Len(r.nodes) = Len(fs)
          /\ r.nodes[pid] = n /\ r.nodes[right] = m
          /\ \A q \in 1 .. Len(fs) : q # pid /\ q # right => r.nodes[q] = fs[q]
        BY <2>4, <2>8
    <2> QED
        BY <1>2, <2>5
<1>16. OthersKept(ns, r.nodes, pid)
    BY <1>2, <1>3, <1>15 DEF OthersKept, right
<1>17. r.res = [promoted_key |-> rk[1], child_pid |-> right]
    BY <1>11
<1>18. rk[1] \in Keys
    BY <1>5, <1>8, ElementOfSeq, BPlusTreeAssumption
<1>19. right # 0
    BY <1>3 DEF right
<1>20. IsSplit(r.res, r.nodes)
    BY <1>14, <1>15, <1>17, <1>18, <1>19 DEF IsSplit, NoSplit, INVALID_PAGE_ID
<1>21. r.nodes[pid] = n /\ r.nodes[right] = m
    BY <1>14, <1>15
<1>22. /\ n.keys = SubSeq(keys, 1, left_size) /\ n.values = SubSeq(values, 1, left_size)
       /\ m.keys = SubSeq(keys, left_size + 1, MAX_KEYS + 1)
       /\ m.values = SubSeq(values, left_size + 1, MAX_KEYS + 1)
    BY <1>12, <1>13 DEF lk, lv, rk, rv
<1>23. r.res.child_pid = right /\ r.res.promoted_key = m.keys[1]
    BY <1>13, <1>17
<1>24. LeafSplit(ns, r.nodes, pid, key, rid, r.res)
    BY <1>12, <1>13, <1>15, <1>16, <1>21, <1>22, <1>23, Zenon DEF LeafSplit, keys, values, left_size, right
<1> QED
    BY <1>20, <1>24

Elems(s) == {s[i] : i \in 1 .. Len(s)}

LEMMA ElemsInserted ==
    ASSUME NEW S, NEW s \in Seq(S), NEW i \in 1 .. Len(s) + 1, NEW e \in S
    PROVE  /\ Elems(InsertAt(s, i, e)) = Elems(s) \cup {e}
           /\ Once(s) /\ e \notin Elems(s) => Once(InsertAt(s, i, e))
<1> DEFINE w == InsertAt(s, i, e)
<1>1. Len(s) \in Nat
    OBVIOUS
<1>2. Len(w) = Len(s) + 1 /\ Spread(w, s, i, e)
    BY Inserted
<1> HIDE DEF w
<1>3. /\ Len(w) = Len(s) + 1
      /\ \A j \in 1 .. Len(s) + 1 : w[j] = IF j < i THEN s[j] ELSE IF j = i THEN e ELSE s[j - 1]
    BY <1>2 DEF Spread
<1>4. ASSUME NEW k \in 1 .. Len(w), k # i
      PROVE  LET o == IF k < i THEN k ELSE k - 1 IN o \in 1 .. Len(s) /\ w[k] = s[o]
    BY <1>1, <1>3, <1>4
<1>5. i \in 1 .. Len(w) /\ w[i] = e
    BY <1>1, <1>3
<1>6. ASSUME NEW k \in 1 .. Len(s)
      PROVE  \E j \in 1 .. Len(w) : w[j] = s[k]
    <2>1. CASE k < i
        BY <1>1, <1>3, <2>1
    <2>2. CASE k >= i
        <3>1. k + 1 \in 1 .. Len(w) /\ w[k + 1] = s[k]
            BY <1>1, <1>3, <2>2
        <3> QED
            BY <3>1
    <2> QED
        BY <1>1, <2>1, <2>2
<1>7. Elems(w) = Elems(s) \cup {e}
    <2>1. \A k \in 1 .. Len(w) : w[k] \in Elems(s) \cup {e}
        BY <1>4, <1>5 DEF Elems
    <2> QED
        BY <1>5, <1>6, <2>1 DEF Elems
<1>8. ASSUME Once(s), e \notin Elems(s), NEW j \in 1 .. Len(w), NEW k \in 1 .. Len(w), w[j] = w[k]
      PROVE  j = k
    <2>1. \A o \in 1 .. Len(s) : s[o] # e
        BY <1>8 DEF Elems
    <2>2. CASE j = i
        BY <1>4, <1>5, <1>8, <2>1, <2>2
    <2>3. CASE k = i
        BY <1>4, <1>5, <1>8, <2>1, <2>3
    <2>4. CASE j # i /\ k # i
        <3> DEFINE oj == IF j < i THEN j ELSE j - 1
                   ok == IF k < i THEN k ELSE k - 1
        <3>1. oj \in 1 .. Len(s) /\ ok \in 1 .. Len(s) /\ s[oj] = s[ok]
            BY <1>4, <1>8, <2>4
        <3>2. oj = ok
            <4> HIDE DEF oj, ok
            <4> QED
                BY <1>8, <3>1 DEF Once
        <3> QED
            BY <1>1, <1>3, <2>4, <3>2
    <2> QED
        BY <2>2, <2>3, <2>4
<1> QED
    BY <1>7, <1>8 DEF Once, w

LEMMA ElemsParted ==
    ASSUME NEW s, NEW size, NEW m, NEW l, NEW r, IsParted(s, size, m, l, r)
    PROVE  /\ Elems(l) \cup Elems(r) = Elems(s)
           /\ Once(s) => Once(l) /\ Once(r) /\ Elems(l) \cap Elems(r) = {}
<1>0. /\ size \in Nat /\ Len(s) = size /\ m \in 0 .. size
      /\ Len(l) = m /\ \A j \in 1 .. m : l[j] = s[j]
      /\ Len(r) = size - m /\ \A j \in 1 .. size - m : r[j] = s[m + j]
    BY DEF IsParted
<1>1. \A j \in 1 .. Len(l) : j \in 1 .. Len(s) /\ j <= m /\ l[j] = s[j]
    BY <1>0
<1>2. \A j \in 1 .. Len(r) : m + j \in 1 .. Len(s) /\ m + j > m /\ r[j] = s[m + j]
    BY <1>0
<1>3. ASSUME NEW j \in 1 .. Len(s)
      PROVE  s[j] \in Elems(l) \cup Elems(r)
    <2>1. CASE j <= m
        BY <1>0, <2>1 DEF Elems
    <2>2. CASE j > m
        <3>1. j - m \in 1 .. Len(r) /\ m + (j - m) = j
            BY <1>0, <2>2
        <3>2. r[j - m] = s[j]
            BY <1>2, <3>1
        <3> QED
            BY <3>1, <3>2 DEF Elems
    <2> QED
        BY <1>0, <2>1, <2>2
<1>4. Elems(l) \cup Elems(r) = Elems(s)
    <2>1. Elems(l) \subseteq Elems(s)
        BY <1>1 DEF Elems
    <2>2. Elems(r) \subseteq Elems(s)
        BY <1>2 DEF Elems
    <2>3. Elems(s) \subseteq Elems(l) \cup Elems(r)
        <3>1. \A x \in Elems(s) : \E j \in 1 .. Len(s) : x = s[j]
            BY DEF Elems
        <3> QED
            BY <1>3, <3>1
    <2> QED
        BY <2>1, <2>2, <2>3
<1>5. ASSUME Once(s)
      PROVE  Once(l) /\ Once(r) /\ Elems(l) \cap Elems(r) = {}
    <2>1. Once(l)
        BY <1>1, <1>5 DEF Once
    <2>2. Once(r)
        <3> SUFFICES ASSUME NEW i \in 1 .. Len(r), NEW j \in 1 .. Len(r), r[i] = r[j] PROVE i = j
            BY DEF Once
        <3>1. m + i = m + j
            BY <1>2, <1>5 DEF Once
        <3> QED
            BY <1>0, <3>1
    <2>3. ASSUME NEW i \in 1 .. Len(l), NEW j \in 1 .. Len(r), l[i] = r[j] PROVE FALSE
        <3>1. i = m + j
            BY <1>1, <1>2, <1>5, <2>3 DEF Once
        <3> QED
            BY <1>0, <1>1, <1>2, <3>1
    <2> QED
        BY <2>1, <2>2, <2>3 DEF Elems
<1> QED
    BY <1>4, <1>5

KidTaken(ns, pid, split) ==
    /\ KeysWith(ns[pid], split.promoted_key) \in Seq(Keys)
    /\ Len(KeysWith(ns[pid], split.promoted_key)) = Len(ns[pid].keys) + 1
    /\ KidsWith(ns[pid], split) \in Seq(Nat)
    /\ Len(KidsWith(ns[pid], split)) = Len(ns[pid].keys) + 2
    /\ KidsWith(ns[pid], split)[1] = ns[pid].child_nodes[1]
    /\ Elems(KidsWith(ns[pid], split)) = Elems(ns[pid].child_nodes) \cup {split.child_pid}
    /\ \A i \in 1 .. Len(ns[pid].keys) + 2 : KidsWith(ns[pid], split)[i] \in 1 .. Len(ns)
    /\ Once(ns[pid].child_nodes) /\ split.child_pid \notin Elems(ns[pid].child_nodes)
          => Once(KidsWith(ns[pid], split))

LEMMA InternalWith ==
    ASSUME NEW ns, IndexFile(ns), NEW pid \in 1 .. Len(ns), ~ns[pid].is_leaf, NEW split, IsSplit(split, ns)
    PROVE  KidTaken(ns, pid, split)
<1>1. /\ Len(ns) \in Nat
      /\ ns[pid].keys \in Seq(Keys) /\ ns[pid].child_nodes \in Seq(Nat)
      /\ Len(ns[pid].keys) \in Nat
      /\ Len(ns[pid].child_nodes) = Len(ns[pid].keys) + 1
      /\ \A i \in 1 .. Len(ns[pid].child_nodes) : ns[pid].child_nodes[i] \in 1 .. Len(ns)
    BY NodeAt
<1>3. split.promoted_key \in Keys /\ split.child_pid \in 1 .. Len(ns) /\ split.child_pid \in Nat
    BY <1>1 DEF IsSplit
<1> DEFINE at == Place(ns[pid].keys, split.promoted_key)
<1>4. at \in 1 .. Len(ns[pid].keys) + 1
    BY <1>1, <1>3, Placed
<1>5. at + 1 \in 1 .. Len(ns[pid].child_nodes) + 1 /\ 1 < at + 1
    BY <1>1, <1>4
<1> HIDE DEF at
<1>6. KeysWith(ns[pid], split.promoted_key) = InsertAt(ns[pid].keys, at, split.promoted_key)
    BY DEF KeysWith, at
<1>7. KidsWith(ns[pid], split) = InsertAt(ns[pid].child_nodes, at + 1, split.child_pid)
    BY DEF KidsWith, at
<1>8. /\ InsertAt(ns[pid].keys, at, split.promoted_key) \in Seq(Keys)
      /\ Len(InsertAt(ns[pid].keys, at, split.promoted_key)) = Len(ns[pid].keys) + 1
    BY <1>1, <1>3, <1>4, Inserted
<1> DEFINE kids == InsertAt(ns[pid].child_nodes, at + 1, split.child_pid)
<1>9. /\ kids \in Seq(Nat)
      /\ Len(kids) = Len(ns[pid].child_nodes) + 1
      /\ \A j \in 1 .. Len(ns[pid].child_nodes) + 1 :
            kids[j] = IF j < at + 1 THEN ns[pid].child_nodes[j]
                      ELSE IF j = at + 1 THEN split.child_pid ELSE ns[pid].child_nodes[j - 1]
    <2> DEFINE old == ns[pid].child_nodes
               new == split.child_pid
               k == at + 1
    <2>1. old \in Seq(Nat) /\ k \in 1 .. Len(old) + 1 /\ new \in Nat
        BY <1>1, <1>3, <1>5
    <2>2. kids = InsertAt(old, k, new)
        OBVIOUS
    <2> HIDE DEF old, new, k
    <2> HIDE DEF kids
    <2>3. kids \in Seq(Nat) /\ Len(kids) = Len(old) + 1 /\ Spread(kids, old, k, new)
        BY <2>1, <2>2, Inserted
    <2>4. Len(kids) = Len(old) + 1
        BY <2>3
    <2>5. \A j \in 1 .. Len(old) + 1 : kids[j] = IF j < k THEN old[j] ELSE IF j = k THEN new ELSE old[j - 1]
        BY <2>3 DEF Spread
    <2> QED
        BY <2>3, <2>4, <2>5 DEF old, new, k
<1>10. /\ Elems(kids) = Elems(ns[pid].child_nodes) \cup {split.child_pid}
       /\ Once(ns[pid].child_nodes) /\ split.child_pid \notin Elems(ns[pid].child_nodes) => Once(kids)
    BY <1>1, <1>3, <1>5, ElemsInserted
<1> HIDE DEF kids
<1>11. kids[1] = ns[pid].child_nodes[1]
    <2>1. 1 \in 1 .. Len(ns[pid].child_nodes) + 1
        BY <1>1
    <2> QED
        BY <1>5, <1>9, <2>1
<1>12. ASSUME NEW i \in 1 .. Len(ns[pid].keys) + 2
       PROVE  kids[i] \in 1 .. Len(ns)
    <2>1. i \in 1 .. Len(kids)
        BY <1>1, <1>9
    <2>2. kids[i] \in Elems(ns[pid].child_nodes) \cup {split.child_pid}
        BY <1>10, <2>1 DEF Elems
    <2> QED
        BY <1>1, <1>3, <2>2 DEF Elems
<1>13. KidsWith(ns[pid], split) = kids
    BY <1>7 DEF kids
<1>14. Len(kids) = Len(ns[pid].keys) + 2
    BY <1>1, <1>9
<1> QED
    BY <1>6, <1>8, <1>9, <1>10, <1>11, <1>12, <1>13, <1>14 DEF KidTaken

LEMMA InternalGrows ==
    ASSUME NEW ns, IndexFile(ns), NEW pid \in 1 .. Len(ns), ~ns[pid].is_leaf, NEW split, IsSplit(split, ns),
           ~Full(ns[pid].keys),
           NEW r, r = bptree_internal_insert(ns, pid, split)
    PROVE  r.res = NoSplit /\ InternalGrown(ns, r.nodes, pid, split)
<1> DEFINE keys == KeysWith(ns[pid], split.promoted_key)
           kids == KidsWith(ns[pid], split)
           n == InternalNode(keys, kids)
           ks == [ns EXCEPT ![pid] = n]
<1>1. r = [nodes |-> fetch_page(ks), res |-> NoSplit]
    BY DEF bptree_internal_insert, KeysWith, KidsWith
<1>2. Len(ns) \in Nat /\ Len(ns[pid].keys) \in Nat /\ Len(ns[pid].keys) < MAX_KEYS
    BY NodeAt, BPlusTreeAssumption DEF Full
<1>3. /\ keys \in Seq(Keys) /\ Len(keys) = Len(ns[pid].keys) + 1
      /\ kids \in Seq(Nat) /\ Len(kids) = Len(ns[pid].keys) + 2
      /\ \A i \in 1 .. Len(ns[pid].keys) + 2 : kids[i] \in 1 .. Len(ns)
    BY InternalWith DEF KidTaken
<1> HIDE DEF keys, kids
<1>4. /\ \A i \in 1 .. Len(kids) : kids[i] \in 1 .. Len(ns)
      /\ Len(keys) <= MAX_KEYS /\ Len(kids) = Len(keys) + 1
    BY <1>2, <1>3, BPlusTreeAssumption
<1>5. /\ n \in Nodes /\ NodeOK(n, Len(ns))
      /\ ~n.is_leaf /\ n.keys = keys /\ n.child_nodes = kids
    <2>1. keys \in Seq(Keys) /\ kids \in Seq(Nat) /\ Len(ns) \in Nat
        BY <1>2, <1>3
    <2>2. n = InternalNode(keys, kids)
        OBVIOUS
    <2> HIDE DEF n
    <2>3. n \in Nodes /\ NodeOK(n, Len(ns))
        BY <1>4, <2>1, <2>2, InternalNodeOK
    <2>4. ~n.is_leaf /\ n.keys = keys /\ n.child_nodes = kids
        BY <2>2 DEF InternalNode
    <2> QED
        BY <2>3, <2>4
<1> HIDE DEF n
<1>6. /\ IndexFile(ks) /\ Len(ks) = Len(ns) /\ ks[pid] = n
      /\ \A q \in 1 .. Len(ns) : q # pid => ks[q] = ns[q]
    BY <1>5, Replaced
<1> HIDE DEF ks
<1>7. /\ IndexFile(fetch_page(ks)) /\ Len(fetch_page(ks)) = Len(ns) + 1
      /\ \A p \in 1 .. Len(ns) : fetch_page(ks)[p] = ks[p]
      /\ fetch_page(ks)[Len(ns) + 1] = NewNode
    BY <1>6, Fetched
<1>8. r.nodes = fetch_page(ks) /\ r.res = NoSplit
    BY <1>1
<1> QED
    BY <1>5, <1>6, <1>7, <1>8 DEF InternalGrown, OthersKept, keys, kids

LEMMA InternalSplits ==
    ASSUME NEW ns, IndexFile(ns), NEW pid \in 1 .. Len(ns), ~ns[pid].is_leaf, NEW split, IsSplit(split, ns),
           Full(ns[pid].keys),
           NEW r, r = bptree_internal_insert(ns, pid, split)
    PROVE  IsSplit(r.res, r.nodes) /\ InternalSplit(ns, r.nodes, pid, split, r.res)
<1> DEFINE right == Len(ns) + 1
           keys == KeysWith(ns[pid], split.promoted_key)
           kids == KidsWith(ns[pid], split)
           fs == fetch_page(ns)
<1>1. r = bptree_internal_split(fs, pid, right, keys, kids)
    BY DEF bptree_internal_insert, KeysWith, KidsWith
<1>2. /\ IndexFile(fs) /\ Len(fs) = right /\ \A q \in 1 .. Len(ns) : fs[q] = ns[q]
    BY Fetched
<1>3. Len(ns) \in Nat /\ Len(ns[pid].keys) = MAX_KEYS
    BY NodeAt DEF Full
<1>4. /\ keys \in Seq(Keys) /\ Len(keys) = MAX_KEYS + 1
      /\ kids \in Seq(Nat) /\ Len(kids) = MAX_KEYS + 2
      /\ \A i \in 1 .. MAX_KEYS + 2 : kids[i] \in 1 .. Len(ns)
    BY <1>3, InternalWith DEF KidTaken
<1>5. \A i \in 1 .. Len(kids) : kids[i] \in 1 .. right
    BY <1>3, <1>4
<1> HIDE DEF keys, kids, fs
<1> DEFINE left_size == (MAX_KEYS + 1) \div 2
           right_size == MAX_KEYS + 1 - left_size - 1
           lk == SubSeq(keys, 1, left_size)
           lc == SubSeq(kids, 1, left_size + 1)
           rk == SubSeq(keys, left_size + 1, left_size + right_size)
           rc == SubSeq(kids, left_size + 2, MAX_KEYS + 2)
           n == InternalNode(lk, lc)
           m == InternalNode(rk, rc)
<1>6. left_size \in 1 .. MAX_KEYS /\ right_size = MAX_KEYS - left_size /\ left_size + right_size = MAX_KEYS
    BY BPlusTreeAssumption
<1>7. r = [nodes |-> [fs EXCEPT ![pid] = n, ![right] = m],
           res |-> [promoted_key |-> keys[left_size + 1], child_pid |-> right]]
    <2>2. Len(keys) = MAX_KEYS + 1
        BY <1>4
    <2>4. Len(keys) \div 2 = left_size
        BY <2>2, Zenon
    <2>3. Len(keys) - left_size - 1 = right_size
        <3>1. left_size \in Int /\ MAX_KEYS \in Int /\ right_size = MAX_KEYS - left_size
            BY <1>6, BPlusTreeAssumption
        <3> HIDE DEF left_size, right_size
        <3> QED
            BY <2>2, <3>1
    <2>1. Len(keys) \div 2 = left_size /\ Len(keys) - left_size - 1 = right_size /\ Len(kids) = MAX_KEYS + 2
        BY <1>4, <2>3, <2>4
    <2> HIDE DEF left_size, right_size
    <2> QED
        BY <1>1, <2>1, Zenon DEF bptree_internal_split, RightChildren
<1> HIDE DEF left_size, right_size
<1>8. /\ lk \in Seq(Keys) /\ Len(lk) = left_size
    BY <1>4, <1>6, Cut, BPlusTreeAssumption
<1>9. /\ lc \in Seq(Nat) /\ Len(lc) = left_size + 1 /\ \A i \in 1 .. left_size + 1 : lc[i] = kids[i]
    <2>1. 1 \in 1 .. Len(kids) + 1 /\ left_size + 1 \in 1 - 1 .. Len(kids)
        BY <1>4, <1>6, BPlusTreeAssumption
    <2>2. lc \in Seq(Nat)
        BY <1>4, <2>1, Cut
    <2>3. Len(lc) = (left_size + 1) - 1 + 1
        BY <1>4, <2>1, Cut
    <2>4. \A i \in 1 .. (left_size + 1) - 1 + 1 : lc[i] = kids[1 + i - 1]
        BY <1>4, <2>1, Cut
    <2>5. (left_size + 1) - 1 + 1 = left_size + 1 /\ \A i \in Nat : 1 + i - 1 = i
        BY <1>6
    <2> HIDE DEF lc
    <2> QED
        BY <2>2, <2>3, <2>4, <2>5
<1>10. rk \in Seq(Keys) /\ Len(rk) = MAX_KEYS - left_size
    BY <1>4, <1>6, Cut, BPlusTreeAssumption
<1>11. /\ rc \in Seq(Nat) /\ Len(rc) = MAX_KEYS - left_size + 1
       /\ \A i \in 1 .. MAX_KEYS - left_size + 1 : rc[i] = kids[left_size + 1 + i]
    <2>1. left_size + 2 \in 1 .. Len(kids) + 1 /\ MAX_KEYS + 2 \in (left_size + 2) - 1 .. Len(kids)
        BY <1>4, <1>6, BPlusTreeAssumption
    <2>2. rc \in Seq(Nat) /\ Len(rc) = (MAX_KEYS + 2) - (left_size + 2) + 1
        BY <1>4, <2>1, Cut
    <2>3. \A i \in 1 .. (MAX_KEYS + 2) - (left_size + 2) + 1 : rc[i] = kids[(left_size + 2) + i - 1]
        BY <1>4, <2>1, Cut
    <2> HIDE DEF rc
    <2>4. ASSUME NEW i \in 1 .. MAX_KEYS - left_size + 1
          PROVE  rc[i] = kids[left_size + 1 + i]
        <3>1. i \in 1 .. (MAX_KEYS + 2) - (left_size + 2) + 1 /\ (left_size + 2) + i - 1 = left_size + 1 + i
            BY <1>6, BPlusTreeAssumption
        <3> QED
            BY <2>3, <3>1
    <2>5. (MAX_KEYS + 2) - (left_size + 2) + 1 = MAX_KEYS - left_size + 1
        BY <1>6, BPlusTreeAssumption
    <2> QED
        BY <2>2, <2>4, <2>5
<1> HIDE DEF lk, lc, rk, rc
<1>12. /\ n \in Nodes /\ NodeOK(n, right)
       /\ ~n.is_leaf /\ n.keys = lk /\ n.child_nodes = lc
    <2>6. Len(lk) <= MAX_KEYS /\ Len(lc) = Len(lk) + 1 /\ right \in Nat
        BY <1>3, <1>6, <1>8, <1>9, BPlusTreeAssumption
    <2>7. ASSUME NEW i \in 1 .. Len(lc) PROVE lc[i] \in 1 .. right
        <3>1. i \in 1 .. Len(kids) /\ i \in 1 .. left_size + 1
            BY <1>4, <1>6, <1>9, BPlusTreeAssumption
        <3> QED
            BY <1>3, <1>5, <1>9, <3>1
    <2>1. /\ Len(lk) <= MAX_KEYS /\ Len(lc) = Len(lk) + 1 /\ right \in Nat
          /\ \A i \in 1 .. Len(lc) : lc[i] \in 1 .. right
        BY <2>6, <2>7
    <2>3. n = InternalNode(lk, lc)
        OBVIOUS
    <2> HIDE DEF n
    <2>4. n \in Nodes /\ NodeOK(n, right)
        BY <1>8, <1>9, <2>1, <2>3, InternalNodeOK
    <2>5. ~n.is_leaf /\ n.keys = lk /\ n.child_nodes = lc
        BY <2>3 DEF InternalNode
    <2> QED
        BY <2>4, <2>5
<1>13. /\ m \in Nodes /\ NodeOK(m, right)
       /\ ~m.is_leaf /\ m.keys = rk /\ m.child_nodes = rc
    <2>1. /\ Len(rk) <= MAX_KEYS /\ Len(rc) = Len(rk) + 1 /\ right \in Nat
        BY <1>3, <1>6, <1>10, <1>11, BPlusTreeAssumption
    <2>2. ASSUME NEW i \in 1 .. Len(rc) PROVE rc[i] \in 1 .. right
        <3>1. left_size + 1 + i \in 1 .. Len(kids) /\ i \in 1 .. MAX_KEYS - left_size + 1
            BY <1>4, <1>6, <1>11, BPlusTreeAssumption
        <3> QED
            BY <1>5, <1>11, <3>1
    <2>3. m = InternalNode(rk, rc)
        OBVIOUS
    <2> HIDE DEF m
    <2>4. m \in Nodes /\ NodeOK(m, right)
        BY <1>10, <1>11, <2>1, <2>2, <2>3, InternalNodeOK
    <2>5. ~m.is_leaf /\ m.keys = rk /\ m.child_nodes = rc
        BY <2>3 DEF InternalNode
    <2> QED
        BY <2>4, <2>5
<1> HIDE DEF n, m
<1>14. pid \in 1 .. right /\ right \in 1 .. right /\ right # pid
    BY <1>3
<1> HIDE DEF right
<1>15. /\ IndexFile(r.nodes) /\ Len(r.nodes) = right
       /\ r.nodes[pid] = n /\ r.nodes[right] = m
       /\ \A q \in 1 .. right : q # pid /\ q # right => r.nodes[q] = fs[q]
    <2> DEFINE ks == [fs EXCEPT ![pid] = n]
    <2>1. r.nodes = [ks EXCEPT ![right] = m]
        BY <1>7
    <2>2. /\ pid \in 1 .. Len(fs) /\ right \in 1 .. Len(fs) /\ right # pid
          /\ NodeOK(n, Len(fs)) /\ NodeOK(m, Len(fs)) /\ n \in Nodes /\ m \in Nodes /\ IndexFile(fs)
        BY <1>2, <1>12, <1>13, <1>14
    <2>3. /\ IndexFile(ks) /\ Len(ks) = Len(fs) /\ ks[pid] = n
          /\ \A q \in 1 .. Len(fs) : q # pid => ks[q] = fs[q]
        BY <2>2, Replaced
    <2> HIDE DEF ks
    <2> DEFINE ms == [ks EXCEPT ![right] = m]
    <2>4. right \in 1 .. Len(ks) /\ NodeOK(m, Len(ks)) /\ m \in Nodes
        BY <2>2, <2>3
    <2>5. /\ IndexFile(ms) /\ Len(ms) = Len(ks) /\ ms[right] = m
          /\ \A q \in 1 .. Len(ks) : q # right => ms[q] = ks[q]
        BY <2>3, <2>4, Replaced
    <2> HIDE DEF ms
    <2>6. /\ IndexFile(ms) /\ Len(ms) = Len(fs)
          /\ ms[pid] = n /\ ms[right] = m
          /\ \A q \in 1 .. Len(fs) : q # pid /\ q # right => ms[q] = fs[q]
        BY <2>2, <2>3, <2>5
    <2>7. r.nodes = ms
        BY <2>1 DEF ms
    <2> QED
        BY <1>2, <2>6, <2>7
<1>16. OthersKept(ns, r.nodes, pid)
    BY <1>2, <1>3, <1>15 DEF OthersKept, right
<1>17. r.res = [promoted_key |-> keys[left_size + 1], child_pid |-> right]
    BY <1>7
<1>18. keys[left_size + 1] \in Keys
    BY <1>4, <1>6, ElementOfSeq, BPlusTreeAssumption
<1>19. right # 0
    BY <1>3 DEF right
<1>20. IsSplit(r.res, r.nodes)
    BY <1>14, <1>15, <1>17, <1>18, <1>19 DEF IsSplit, NoSplit, INVALID_PAGE_ID
<1>21. /\ n.child_nodes = SubSeq(kids, 1, left_size + 1)
       /\ m.child_nodes = SubSeq(kids, left_size + 2, MAX_KEYS + 2)
    BY <1>12, <1>13 DEF lc, rc
<1>22. r.res.child_pid = right /\ r.res.promoted_key \in Keys
    BY <1>17, <1>18
<1>23. InternalSplit(ns, r.nodes, pid, split, r.res)
    BY <1>12, <1>13, <1>15, <1>16, <1>21, <1>22, Zenon DEF InternalSplit, keys, kids, left_size, right
<1> QED
    BY <1>20, <1>23

-----------------------------------------------------------------------------
(* The shape of the tree.  tops are the nodes that hang below no other: the *)
(* root and, while a split is on its way up, the node split off.            *)

Kids(ns, p) == Elems(ns[p].child_nodes)

\* Nodes have a height, a leaf's being 0, and children are one lower than their parent.
Ranked(ns, rank) ==
    /\ rank \in [1 .. Len(ns) -> Nat]
    /\ \A p \in 1 .. Len(ns) : rank[p] < Len(ns) /\ (ns[p].is_leaf <=> rank[p] = 0)
    /\ \A p \in 1 .. Len(ns) : \A c \in Kids(ns, p) : c \in 1 .. Len(ns) /\ rank[p] = rank[c] + 1

OneParent(ns, tops) ==
    /\ \A p \in 1 .. Len(ns) : Once(ns[p].child_nodes) /\ Kids(ns, p) \cap tops = {}
    /\ \A p, q \in 1 .. Len(ns) : p # q => Kids(ns, p) \cap Kids(ns, q) = {}

Hangs(ns, tops, p) == p \in tops \/ \E q \in 1 .. Len(ns) : p \in Kids(ns, q)

\* order: the leaves of the tree, from page 1 on, as next_leaf chains them.
Linked(ns, tops, order) ==
    /\ order \in Seq(Nat) /\ Len(order) >= 1 /\ order[1] = 1 /\ Once(order)
    /\ \A i \in 1 .. Len(order) :
          /\ order[i] \in 1 .. Len(ns) /\ ns[order[i]].is_leaf
          /\ ns[order[i]].next_leaf = IF i = Len(order) THEN INVALID_PAGE_ID ELSE order[i + 1]
    /\ \A p \in 1 .. Len(ns) : ns[p].is_leaf /\ Hangs(ns, tops, p) => p \in Elems(order)

\* left: the nodes on the left edge.
Leftmost(ns, root, left) ==
    /\ left \subseteq 1 .. Len(ns) /\ root \in left
    /\ \A p \in left : IF ns[p].is_leaf THEN p = 1 ELSE ns[p].child_nodes[1] \in left

EntriesOf(ns, p) == Pairs(ns[p].keys, ns[p].values)
Holds(ns, leaves, E) ==
    /\ UNION {EntriesOf(ns, p) : p \in leaves} = E
    /\ \A p \in leaves : Once(ns[p].values)
    /\ \A p, q \in leaves : p # q => \A a \in EntriesOf(ns, p), b \in EntriesOf(ns, q) : a[2] # b[2]

LEMMA KidPages ==
    ASSUME NEW ns, IndexFile(ns), NEW p \in 1 .. Len(ns)
    PROVE  /\ Kids(ns, p) \subseteq 1 .. Len(ns)
           /\ ns[p].is_leaf => Kids(ns, p) = {} /\ Once(ns[p].child_nodes)
<1>1. ~ns[p].is_leaf => \A i \in 1 .. Len(ns[p].child_nodes) : ns[p].child_nodes[i] \in 1 .. Len(ns)
    BY NodeAt
<1>2. ns[p].is_leaf => ns[p].child_nodes = << >>
    BY NodeAt
<1>3. ns[p].is_leaf \in BOOLEAN
    BY NodeAt
<1>4. Elems(<< >>) = {} /\ Once(<< >>)
    BY DEF Elems, Once
<1>5. CASE ns[p].is_leaf
    BY <1>2, <1>4, <1>5 DEF Kids
<1>6. CASE ~ns[p].is_leaf
    BY <1>1, <1>6 DEF Kids, Elems
<1> QED
    BY <1>3, <1>5, <1>6

\* Ranks stay when no node is added, and go on to a node added at the end.
LEMMA RankKept ==
    ASSUME NEW ns, NEW ms, NEW rank, Ranked(ns, rank), Len(ms) = Len(ns),
           \A q \in 1 .. Len(ns) : (ms[q].is_leaf <=> ns[q].is_leaf) /\ Kids(ms, q) = Kids(ns, q)
    PROVE  Ranked(ms, rank)
BY DEF Ranked

RankedWith(ns, rank, page, r, rank2) ==
    Ranked(ns, rank2) /\ (\A p \in 1 .. page - 1 : rank2[p] = rank[p]) /\ rank2[page] = r

LEMMA RankExtended ==
    ASSUME NEW ns, NEW ms, NEW rank, Ranked(ns, rank), Len(ns) \in Nat, Len(ms) = Len(ns) + 1,
           NEW pid \in 1 .. Len(ns), NEW r \in Nat, r < Len(ms),
           OthersKept(ns, ms, pid), ms[pid].is_leaf <=> ns[pid].is_leaf,
           ms[Len(ns) + 1].is_leaf <=> r = 0,
           \A c \in Kids(ms, pid) : c \in 1 .. Len(ns) /\ rank[pid] = rank[c] + 1,
           \A c \in Kids(ms, Len(ns) + 1) : c \in 1 .. Len(ns) /\ r = rank[c] + 1
    PROVE  \E rank2 : RankedWith(ms, rank, Len(ns) + 1, r, rank2)
<1> DEFINE rank2 == [p \in 1 .. Len(ns) + 1 |-> IF p = Len(ns) + 1 THEN r ELSE rank[p]]
<1>1. /\ \A p \in 1 .. Len(ns) : rank2[p] = rank[p]
      /\ rank2[Len(ns) + 1] = r
    OBVIOUS
<1>2. rank2 \in [1 .. Len(ms) -> Nat]
    <2>1. ASSUME NEW p \in 1 .. Len(ns) + 1
          PROVE  (IF p = Len(ns) + 1 THEN r ELSE rank[p]) \in Nat
        <3>1. p # Len(ns) + 1 => p \in 1 .. Len(ns)
            OBVIOUS
        <3>2. \A q \in 1 .. Len(ns) : rank[q] \in Nat
            BY DEF Ranked
        <3> QED
            BY <3>1, <3>2
    <2> QED
        BY <2>1
<1> HIDE DEF rank2
<1>3. ASSUME NEW p \in 1 .. Len(ms)
      PROVE  /\ rank2[p] < Len(ms) /\ (ms[p].is_leaf <=> rank2[p] = 0)
             /\ \A c \in Kids(ms, p) : c \in 1 .. Len(ms) /\ rank2[p] = rank2[c] + 1
    <2>1. CASE p = Len(ns) + 1
        BY <1>1, <2>1
    <2>2. CASE p = pid
        <3>1. rank[pid] < Len(ns) /\ rank[pid] \in Nat /\ (ns[pid].is_leaf <=> rank[pid] = 0)
            BY DEF Ranked
        <3> QED
            BY <1>1, <2>2, <3>1
    <2>3. CASE p \in 1 .. Len(ns) /\ p # pid
        <3>1. ms[p] = ns[p] /\ Kids(ms, p) = Kids(ns, p)
            BY <2>3 DEF OthersKept, Kids
        <3>2. /\ rank[p] < Len(ns) /\ rank[p] \in Nat /\ (ns[p].is_leaf <=> rank[p] = 0)
              /\ \A c \in Kids(ns, p) : c \in 1 .. Len(ns) /\ rank[p] = rank[c] + 1
            BY <2>3 DEF Ranked
        <3> QED
            BY <1>1, <2>3, <3>1, <3>2
    <2> QED
        BY <2>1, <2>2, <2>3
<1>4. Ranked(ms, rank2)
    BY <1>2, <1>3 DEF Ranked
<1>5. Len(ns) + 1 - 1 = Len(ns)
    OBVIOUS
<1>6. RankedWith(ms, rank, Len(ns) + 1, r, rank2)
    BY <1>1, <1>4, <1>5 DEF RankedWith
<1> QED
    BY <1>6

LEMMA ParentKept ==
    ASSUME NEW ns, NEW ms, NEW tops, OneParent(ns, tops), Len(ms) = Len(ns),
           \A q \in 1 .. Len(ns) : ms[q].child_nodes = ns[q].child_nodes
    PROVE  OneParent(ms, tops)
BY DEF OneParent, Kids

\* The children of pid and new, one of the tops, are dealt out to pid and the node added.
\* pid and the page added have the children of pid and new, which was among the tops.
KidsPassed(ns, ms, pid, tops, tops2, new) ==
    /\ new \subseteq tops /\ new \subseteq 1 .. Len(ns)
    /\ Kids(ms, pid) \cup Kids(ms, Len(ns) + 1) \subseteq Kids(ns, pid) \cup new
    /\ Kids(ms, pid) \cap Kids(ms, Len(ns) + 1) = {}
    /\ Once(ms[pid].child_nodes) /\ Once(ms[Len(ns) + 1].child_nodes)
    /\ tops2 \subseteq (tops \ new) \cup {Len(ns) + 1}

LEMMA ParentExtended ==
    ASSUME NEW ns, NEW ms, NEW tops, NEW tops2, NEW new, OneParent(ns, tops),
           Len(ns) \in Nat, Len(ms) = Len(ns) + 1,
           \A q \in 1 .. Len(ns) : Kids(ns, q) \subseteq 1 .. Len(ns),
           NEW pid \in 1 .. Len(ns), OthersKept(ns, ms, pid),
           KidsPassed(ns, ms, pid, tops, tops2, new)
    PROVE  OneParent(ms, tops2)
<1>0. /\ new \subseteq tops /\ new \subseteq 1 .. Len(ns)
      /\ Kids(ms, pid) \cup Kids(ms, Len(ns) + 1) \subseteq Kids(ns, pid) \cup new
      /\ Kids(ms, pid) \cap Kids(ms, Len(ns) + 1) = {}
      /\ Once(ms[pid].child_nodes) /\ Once(ms[Len(ns) + 1].child_nodes)
      /\ tops2 \subseteq (tops \ new) \cup {Len(ns) + 1}
    BY DEF KidsPassed
<1>1. \A q \in 1 .. Len(ns) : q # pid => Kids(ms, q) = Kids(ns, q) /\ Once(ms[q].child_nodes)
    BY DEF OthersKept, Kids, OneParent
<1>2. \A q \in 1 .. Len(ns) : q # pid => Kids(ns, q) \cap (Kids(ns, pid) \cup new) = {}
    BY <1>0 DEF OneParent
<1>3. ASSUME NEW q \in 1 .. Len(ms)
      PROVE  Once(ms[q].child_nodes) /\ Kids(ms, q) \cap tops2 = {}
    <2>1. CASE q # pid /\ q # Len(ns) + 1
        <3>1. q \in 1 .. Len(ns)
            BY <2>1
        <3>2. Kids(ns, q) \cap tops = {} /\ Len(ns) + 1 \notin Kids(ns, q)
            BY <3>1 DEF OneParent
        <3> QED
            BY <1>0, <1>1, <2>1, <3>1, <3>2
    <2>2. CASE q = pid \/ q = Len(ns) + 1
        <3>1. Kids(ns, pid) \cap tops = {}
            BY DEF OneParent
        <3>2. Len(ns) + 1 \notin Kids(ns, pid) \cup new
            BY <1>0
        <3> QED
            BY <1>0, <2>2, <3>1, <3>2
    <2> QED
        BY <2>1, <2>2
<1>4. ASSUME NEW p \in 1 .. Len(ms), NEW q \in 1 .. Len(ms), p # q
      PROVE  Kids(ms, p) \cap Kids(ms, q) = {}
    <2>1. CASE p # pid /\ p # Len(ns) + 1 /\ q # pid /\ q # Len(ns) + 1
        <3>1. p \in 1 .. Len(ns) /\ q \in 1 .. Len(ns)
            BY <2>1
        <3>2. Kids(ns, p) \cap Kids(ns, q) = {}
            BY <1>4, <3>1 DEF OneParent
        <3> QED
            BY <1>1, <2>1, <3>1, <3>2
    <2>2. CASE (p = pid \/ p = Len(ns) + 1) /\ (q = pid \/ q = Len(ns) + 1)
        BY <1>0, <1>4, <2>2
    <2>3. CASE (p = pid \/ p = Len(ns) + 1) /\ q # pid /\ q # Len(ns) + 1
        <3>1. q \in 1 .. Len(ns)
            BY <2>3
        <3> QED
            BY <1>0, <1>1, <1>2, <2>3, <3>1
    <2>4. CASE (q = pid \/ q = Len(ns) + 1) /\ p # pid /\ p # Len(ns) + 1
        <3>1. p \in 1 .. Len(ns)
            BY <2>4
        <3> QED
            BY <1>0, <1>1, <1>2, <2>4, <3>1
    <2> QED
        BY <2>1, <2>2, <2>3, <2>4
<1> QED
    BY <1>3, <1>4 DEF OneParent

LEMMA LinkKept ==
    ASSUME NEW ns, NEW ms, NEW tops, NEW tops2, NEW order, Linked(ns, tops, order),
           Len(ns) \in Nat, Len(ms) \in Nat, Len(ms) >= Len(ns),
           \A q \in 1 .. Len(ns) : ns[q].is_leaf => ms[q].is_leaf /\ ms[q].next_leaf = ns[q].next_leaf,
           \A p \in 1 .. Len(ms) : ms[p].is_leaf /\ Hangs(ms, tops2, p)
                                      => p \in 1 .. Len(ns) /\ ns[p].is_leaf /\ Hangs(ns, tops, p)
    PROVE  Linked(ms, tops2, order)
<1>1. ASSUME NEW i \in 1 .. Len(order)
      PROVE  /\ order[i] \in 1 .. Len(ms) /\ ms[order[i]].is_leaf
             /\ ms[order[i]].next_leaf = IF i = Len(order) THEN INVALID_PAGE_ID ELSE order[i + 1]
    <2>1. /\ order[i] \in 1 .. Len(ns) /\ ns[order[i]].is_leaf
          /\ ns[order[i]].next_leaf = IF i = Len(order) THEN INVALID_PAGE_ID ELSE order[i + 1]
        BY DEF Linked
    <2> QED
        BY <2>1
<1>2. \A p \in 1 .. Len(ms) : ms[p].is_leaf /\ Hangs(ms, tops2, p) => p \in Elems(order)
    BY DEF Linked
<1>3. order \in Seq(Nat) /\ Len(order) >= 1 /\ order[1] = 1 /\ Once(order)
    BY DEF Linked
<1> QED
    BY <1>1, <1>2, <1>3 DEF Linked

LEMMA LeftKept ==
    ASSUME NEW ns, NEW ms, NEW root, NEW left, Leftmost(ns, root, left),
           Len(ns) \in Nat, Len(ms) \in Nat, Len(ms) >= Len(ns),
           \A q \in 1 .. Len(ns) : /\ ms[q].is_leaf <=> ns[q].is_leaf
                                   /\ ~ns[q].is_leaf => ms[q].child_nodes[1] = ns[q].child_nodes[1]
    PROVE  Leftmost(ms, root, left)
<1>1. left \subseteq 1 .. Len(ns) /\ root \in left
    BY DEF Leftmost
<1>2. ASSUME NEW p \in left
      PROVE  IF ms[p].is_leaf THEN p = 1 ELSE ms[p].child_nodes[1] \in left
    <2>1. p \in 1 .. Len(ns)
        BY <1>1
    <2>2. IF ns[p].is_leaf THEN p = 1 ELSE ns[p].child_nodes[1] \in left
        BY DEF Leftmost
    <2> QED
        BY <2>1, <2>2
<1>3. left \subseteq 1 .. Len(ms)
    BY <1>1
<1> QED
    BY <1>1, <1>2, <1>3 DEF Leftmost

LEMMA HoldsKept ==
    ASSUME NEW ns, NEW ms, NEW leaves, NEW E, Holds(ns, leaves, E),
           \A p \in leaves : ms[p] = ns[p]
    PROVE  Holds(ms, leaves, E)
<1>1. \A p \in leaves : EntriesOf(ms, p) = EntriesOf(ns, p)
    BY DEF EntriesOf
<1>2. UNION {EntriesOf(ms, p) : p \in leaves} = UNION {EntriesOf(ns, p) : p \in leaves}
    BY <1>1
<1> QED
    BY <1>1, <1>2 DEF Holds

LEMMA HoldsGrown ==
    ASSUME NEW ns, NEW ms, NEW leaves, NEW E, Holds(ns, leaves, E), NEW pid \in leaves,
           \A p \in leaves : p # pid => ms[p] = ns[p],
           NEW e, \A a \in E : a[2] # e[2],
           EntriesOf(ms, pid) = EntriesOf(ns, pid) \cup {e}, Once(ms[pid].values)
    PROVE  Holds(ms, leaves, E \cup {e})
<1>1. \A p \in leaves : p # pid => EntriesOf(ms, p) = EntriesOf(ns, p)
    BY DEF EntriesOf
<1>2. \A p \in leaves : EntriesOf(ns, p) \subseteq E
    BY DEF Holds
<1>3. UNION {EntriesOf(ms, p) : p \in leaves} = E \cup {e}
    <2>1. \A p \in leaves : EntriesOf(ms, p) \subseteq E \cup {e}
        BY <1>1, <1>2
    <2>2. \A a \in E : \E p \in leaves : a \in EntriesOf(ns, p)
        BY DEF Holds
    <2>3. \A p \in leaves : EntriesOf(ns, p) \subseteq EntriesOf(ms, p)
        BY <1>1
    <2>4. e \in EntriesOf(ms, pid)
        OBVIOUS
    <2> QED
        BY <2>1, <2>2, <2>3, <2>4
<1>4. \A p \in leaves : Once(ms[p].values)
    BY DEF Holds
<1>5. ASSUME NEW p \in leaves, NEW q \in leaves, p # q, NEW a \in EntriesOf(ms, p), NEW b \in EntriesOf(ms, q)
      PROVE  a[2] # b[2]
    <2>1. CASE p # pid /\ q # pid
        BY <1>1, <1>5, <2>1 DEF Holds
    <2>2. CASE p = pid
        <3>1. b \in EntriesOf(ns, q) /\ b \in E
            BY <1>1, <1>2, <1>5, <2>2
        <3> QED
            BY <1>5, <2>2, <3>1 DEF Holds
    <2>3. CASE q = pid
        <3>1. a \in EntriesOf(ns, p) /\ a \in E
            BY <1>1, <1>2, <1>5, <2>3
        <3> QED
            BY <1>5, <2>3, <3>1 DEF Holds
    <2> QED
        BY <2>1, <2>2, <2>3
<1> QED
    BY <1>3, <1>4, <1>5 DEF Holds

\* The entries of a leaf are dealt out to it and a new one.
LEMMA HoldsParted ==
    ASSUME NEW ns, NEW ms, NEW leaves, NEW E, Holds(ns, leaves, E), NEW pid \in leaves, NEW right, right \notin leaves,
           \A p \in leaves : p # pid => ms[p] = ns[p],
           NEW e, \A a \in E : a[2] # e[2],
           EntriesOf(ms, pid) \cup EntriesOf(ms, right) = EntriesOf(ns, pid) \cup {e},
           Once(ms[pid].values), Once(ms[right].values),
           \A a \in EntriesOf(ms, pid), b \in EntriesOf(ms, right) : a[2] # b[2]
    PROVE  Holds(ms, leaves \cup {right}, E \cup {e})
<1>1. \A p \in leaves : p # pid => EntriesOf(ms, p) = EntriesOf(ns, p)
    BY DEF EntriesOf
<1>2. \A p \in leaves : EntriesOf(ns, p) \subseteq E
    BY DEF Holds
<1>3. UNION {EntriesOf(ms, p) : p \in leaves \cup {right}} = E \cup {e}
    <2>1. \A p \in leaves \cup {right} : EntriesOf(ms, p) \subseteq E \cup {e}
        BY <1>1, <1>2
    <2>2. \A a \in E : \E p \in leaves : a \in EntriesOf(ns, p)
        BY DEF Holds
    <2>3. \A p \in leaves : \A a \in EntriesOf(ns, p) : \E q \in leaves \cup {right} : a \in EntriesOf(ms, q)
        BY <1>1
    <2>4. \E q \in leaves \cup {right} : e \in EntriesOf(ms, q)
        OBVIOUS
    <2> QED
        BY <2>1, <2>2, <2>3, <2>4
<1>4. \A p \in leaves \cup {right} : Once(ms[p].values)
    BY DEF Holds
<1>5. ASSUME NEW p \in leaves, p # pid, NEW b \in EntriesOf(ns, pid) \cup {e}, NEW a \in EntriesOf(ms, p)
      PROVE  a[2] # b[2]
    <2>1. a \in EntriesOf(ns, p) /\ a \in E
        BY <1>1, <1>2, <1>5
    <2> QED
        BY <1>5, <2>1 DEF Holds
<1>6. ASSUME NEW p \in leaves \cup {right}, NEW q \in leaves \cup {right}, p # q,
             NEW a \in EntriesOf(ms, p), NEW b \in EntriesOf(ms, q)
      PROVE  a[2] # b[2]
    <2>1. CASE p # pid /\ p # right /\ q # pid /\ q # right
        BY <1>1, <1>6, <2>1 DEF Holds
    <2>2. CASE p # pid /\ p # right /\ (q = pid \/ q = right)
        <3>1. b \in EntriesOf(ns, pid) \cup {e}
            BY <1>6, <2>2
        <3> QED
            BY <1>5, <1>6, <2>2, <3>1
    <2>3. CASE q # pid /\ q # right /\ (p = pid \/ p = right)
        <3>1. a \in EntriesOf(ns, pid) \cup {e}
            BY <1>6, <2>3
        <3> QED
            BY <1>5, <1>6, <2>3, <3>1
    <2>4. CASE (p = pid \/ p = right) /\ (q = pid \/ q = right)
        BY <1>6, <2>4
    <2> QED
        BY <2>1, <2>2, <2>3, <2>4
<1> QED
    BY <1>3, <1>4, <1>6 DEF Holds

\* A sequence with new behind its k-th element.
IsPutBehind(w, order, k, new) ==
    /\ Len(w) = Len(order) + 1 /\ Elems(w) = Elems(order) \cup {new} /\ Once(w)
    /\ w[1] = order[1] /\ w[k] = order[k] /\ w[k + 1] = new
    /\ k # Len(order) => w[k + 2] = order[k + 1]
    /\ \A i \in 1 .. Len(w) : i # k /\ i # k + 1 =>
          \E o \in 1 .. Len(order) :
             /\ o # k /\ w[i] = order[o] /\ (o = Len(order) <=> i = Len(w))
             /\ i # Len(w) => w[i + 1] = order[o + 1]

LEMMA PutBehind ==
    ASSUME NEW S, NEW order \in Seq(S), NEW k \in 1 .. Len(order), NEW new \in S,
           new \notin Elems(order), Once(order)
    PROVE  \E w \in Seq(S) : IsPutBehind(w, order, k, new)
<1>1. Len(order) \in Nat
    OBVIOUS
<1> DEFINE pos == k + 1
           w == InsertAt(order, pos, new)
<1>2. pos \in 1 .. Len(order) + 1 /\ pos = k + 1
    BY <1>1
<1> HIDE DEF pos
<1>3. Elems(w) = Elems(order) \cup {new}
    BY <1>2, ElemsInserted
<1>4. Once(w)
    BY <1>2, ElemsInserted
<1>5. w \in Seq(S)
    BY <1>2, Inserted
<1>6. Len(w) = Len(order) + 1
    <2>1. order \in Seq(S) /\ pos \in 1 .. Len(order) + 1 /\ new \in S
        BY <1>2
    <2>2. Len(InsertAt(order, pos, new)) = Len(order) + 1
        BY <2>1, Inserted
    <2> QED
        BY <2>2
<1>7. Spread(w, order, pos, new)
    BY <1>2, Inserted
<1> HIDE DEF w
<1>8. \A j \in 1 .. Len(order) + 1 : w[j] = IF j < pos THEN order[j] ELSE IF j = pos THEN new ELSE order[j - 1]
    BY <1>7 DEF Spread
<1>9. ASSUME NEW j \in 1 .. k PROVE w[j] = order[j]
    BY <1>1, <1>2, <1>8
<1>10. w[k + 1] = new
    BY <1>1, <1>2, <1>8
<1>11. ASSUME NEW j \in k + 1 .. Len(order) PROVE w[j + 1] = order[j]
    <2>1. j + 1 \in 1 .. Len(order) + 1 /\ j + 1 > pos /\ j + 1 - 1 = j
        BY <1>1, <1>2
    <2> QED
        BY <1>1, <1>2, <1>8, <2>1
<1>12. ASSUME NEW i \in 1 .. Len(w), i # k, i # k + 1
       PROVE  \E o \in 1 .. Len(order) :
                 /\ o # k /\ w[i] = order[o] /\ (o = Len(order) <=> i = Len(w))
                 /\ i # Len(w) => w[i + 1] = order[o + 1]
    <2>1. CASE i < k
        <3>1. i \in 1 .. Len(order) /\ i + 1 \in 1 .. k /\ i \in 1 .. k /\ i # Len(order) /\ i # Len(w)
            BY <1>1, <1>6, <2>1
        <3> QED
            BY <1>9, <2>1, <3>1
    <2>2. CASE i > k + 1
        <3>1. PICK o \in Nat : o = i - 1
            BY <1>1, <2>2
        <3>2. o \in 1 .. Len(order) /\ o \in k + 1 .. Len(order) /\ o # k /\ i = o + 1
            BY <1>1, <1>6, <2>2, <3>1
        <3>3. w[i] = order[o]
            BY <1>11, <3>2
        <3>4. o = Len(order) <=> i = Len(w)
            BY <1>1, <1>6, <3>2
        <3>5. i # Len(w) => o + 1 \in k + 1 .. Len(order) /\ i + 1 = (o + 1) + 1
            BY <1>1, <1>6, <3>2
        <3>6. i # Len(w) => w[i + 1] = order[o + 1]
            BY <1>11, <3>5
        <3> QED
            BY <3>2, <3>3, <3>4, <3>6
    <2> QED
        BY <1>1, <1>6, <1>12, <2>1, <2>2
<1>13. w[1] = order[1] /\ w[k] = order[k]
    BY <1>1, <1>9
<1>14. k # Len(order) => w[k + 2] = order[k + 1]
    <2>1. k # Len(order) => k + 1 \in k + 1 .. Len(order) /\ (k + 1) + 1 = k + 2
        BY <1>1
    <2> QED
        BY <1>11, <2>1
<1>15. IsPutBehind(w, order, k, new)
    BY <1>3, <1>4, <1>6, <1>10, <1>12, <1>13, <1>14 DEF IsPutBehind
<1> QED
    BY <1>5, <1>15

\* A leaf split puts the new leaf behind the old one.
PutBehindLeaf(ns, ms, pid) ==
    /\ Len(ms) = Len(ns) + 1 /\ OthersKept(ns, ms, pid)
    /\ ms[pid].is_leaf /\ ms[pid].next_leaf = Len(ns) + 1
    /\ ms[Len(ns) + 1].is_leaf /\ ms[Len(ns) + 1].next_leaf = ns[pid].next_leaf

LinkedWith(ns, tops, order, page, order2) ==
    Linked(ns, tops, order2) /\ Elems(order2) = Elems(order) \cup {page}

LEMMA LinkSplit ==
    ASSUME NEW ns, NEW ms, NEW tops, NEW tops2, NEW order, Linked(ns, tops, order),
           Len(ns) \in Nat, NEW pid \in Elems(order), PutBehindLeaf(ns, ms, pid),
           \A p \in 1 .. Len(ns) : Hangs(ms, tops2, p) => Hangs(ns, tops, p)
    PROVE  \E order2 : LinkedWith(ms, tops2, order, Len(ns) + 1, order2)
<1>1. /\ order \in Seq(Nat) /\ Len(order) \in Nat /\ Len(order) >= 1 /\ order[1] = 1 /\ Once(order)
    BY DEF Linked
<1>2. ASSUME NEW i \in 1 .. Len(order)
      PROVE  /\ order[i] \in 1 .. Len(ns) /\ ns[order[i]].is_leaf
             /\ ns[order[i]].next_leaf = IF i = Len(order) THEN INVALID_PAGE_ID ELSE order[i + 1]
    BY DEF Linked
<1>3. \A p \in 1 .. Len(ns) : ns[p].is_leaf /\ Hangs(ns, tops, p) => p \in Elems(order)
    BY DEF Linked
<1>13. PICK k \in 1 .. Len(order) : order[k] = pid
    BY DEF Elems
<1>4. PICK right \in Nat : right = Len(ns) + 1
    OBVIOUS
<1>14. /\ Len(ms) = right /\ \A q \in 1 .. Len(ns) : q # pid => ms[q] = ns[q]
       /\ ms[pid].is_leaf /\ ms[pid].next_leaf = right
       /\ ms[right].is_leaf /\ ms[right].next_leaf = ns[pid].next_leaf
    BY <1>4 DEF PutBehindLeaf, OthersKept
<1>5. right \notin Elems(order)
    BY <1>2, <1>4 DEF Elems
<1>15. PICK w \in Seq(Nat) : IsPutBehind(w, order, k, right)
    <2>1. order \in Seq(Nat) /\ k \in 1 .. Len(order) /\ right \in Nat /\ right \notin Elems(order) /\ Once(order)
        BY <1>1, <1>5
    <2> QED
        BY <2>1, PutBehind
<1>6. /\ Len(w) = Len(order) + 1 /\ Elems(w) = Elems(order) \cup {right} /\ Once(w)
      /\ w[1] = order[1] /\ w[k] = order[k] /\ w[k + 1] = right
      /\ k # Len(order) => w[k + 2] = order[k + 1]
      /\ \A i \in 1 .. Len(w) : i # k /\ i # k + 1 =>
            \E o \in 1 .. Len(order) :
               /\ o # k /\ w[i] = order[o] /\ (o = Len(order) <=> i = Len(w))
               /\ i # Len(w) => w[i + 1] = order[o + 1]
    BY <1>15 DEF IsPutBehind
<1>7. pid \in 1 .. Len(ns)
    BY <1>2, <1>13
<1>8. \A p \in 1 .. Len(ns) : p \in 1 .. Len(ms)
    BY <1>4, <1>14
<1>9. ASSUME NEW i \in 1 .. Len(w)
      PROVE  /\ w[i] \in 1 .. Len(ms) /\ ms[w[i]].is_leaf
             /\ ms[w[i]].next_leaf = IF i = Len(w) THEN INVALID_PAGE_ID ELSE w[i + 1]
    <2>1. CASE i = k
        <3>1. w[i] = pid /\ i # Len(w) /\ w[i + 1] = right
            BY <1>1, <1>6, <1>13, <2>1
        <3> QED
            BY <1>7, <1>8, <1>14, <3>1
    <2>2. CASE i = k + 1
        <3>1. w[i] = right /\ right \in 1 .. Len(ms)
            BY <1>4, <1>6, <1>14, <2>2
        <3>2. ms[right].is_leaf
                /\ ms[right].next_leaf = IF k = Len(order) THEN INVALID_PAGE_ID ELSE order[k + 1]
            BY <1>2, <1>13, <1>14
        <3>3. (i = Len(w) <=> k = Len(order)) /\ i + 1 = k + 2
            BY <1>1, <1>6, <2>2
        <3> QED
            BY <1>6, <3>1, <3>2, <3>3
    <2>3. CASE i # k /\ i # k + 1
        <3>1. PICK o \in 1 .. Len(order) :
                 /\ o # k /\ w[i] = order[o] /\ (o = Len(order) <=> i = Len(w))
                 /\ i # Len(w) => w[i + 1] = order[o + 1]
            BY <1>6, <2>3
        <3>2. order[o] # pid
            <4>1. \A i1, j1 \in 1 .. Len(order) : order[i1] = order[j1] => i1 = j1
                BY <1>1 DEF Once
            <4> QED
                BY <1>13, <3>1, <4>1
        <3>3. /\ order[o] \in 1 .. Len(ns) /\ ns[order[o]].is_leaf
              /\ ns[order[o]].next_leaf = IF o = Len(order) THEN INVALID_PAGE_ID ELSE order[o + 1]
            BY <1>2
        <3>4. ms[order[o]] = ns[order[o]]
            BY <1>14, <3>2, <3>3
        <3> QED
            <4>1. w[i] \in 1 .. Len(ms) /\ ms[w[i]].is_leaf
                BY <1>8, <3>1, <3>3, <3>4
            <4>2. CASE i = Len(w)
                BY <3>1, <3>3, <3>4, <4>1, <4>2
            <4>3. CASE i # Len(w)
                BY <3>1, <3>3, <3>4, <4>1, <4>3
            <4> QED
                BY <4>2, <4>3
    <2> QED
        BY <2>1, <2>2, <2>3
<1>10. ASSUME NEW p \in 1 .. Len(ms), ms[p].is_leaf, Hangs(ms, tops2, p)
       PROVE  p \in Elems(w)
    <2>1. CASE p = right
        BY <1>6, <2>1
    <2>2. CASE p = pid
        BY <1>6, <2>2
    <2>3. CASE p # right /\ p # pid
        <3>1. p \in 1 .. Len(ns)
            BY <1>4, <1>14, <2>3
        <3>2. ns[p].is_leaf /\ Hangs(ns, tops, p)
            BY <1>10, <1>14, <2>3, <3>1
        <3> QED
            BY <1>3, <1>6, <3>1, <3>2
    <2> QED
        BY <2>1, <2>2, <2>3
<1>11. Len(w) >= 1 /\ w[1] = 1
    BY <1>1, <1>6
<1>12. Linked(ms, tops2, w)
    BY <1>6, <1>9, <1>10, <1>11 DEF Linked
<1>16. LinkedWith(ms, tops2, order, Len(ns) + 1, w)
    BY <1>4, <1>6, <1>12 DEF LinkedWith
<1> QED
    BY <1>16

-----------------------------------------------------------------------------
(* Entries and children under the inserts and splits.                      *)

LEMMA LeafGrownEntries ==
    ASSUME NEW ns, NEW ms, IndexFile(ns), NEW pid \in 1 .. Len(ns), ns[pid].is_leaf,
           NEW key \in Keys, NEW rid \in Rids, LeafGrown(ns, ms, pid, key, rid),
           Once(ns[pid].values), \A a \in EntriesOf(ns, pid) : a[2] # rid
    PROVE  EntriesOf(ms, pid) = EntriesOf(ns, pid) \cup {<<key, rid>>} /\ Once(ms[pid].values)
<1>1. Lacks(ns[pid].values, rid)
    <2>1. Len(ns[pid].values) = Len(ns[pid].keys)
        BY NodeAt
    <2>2. \A i \in 1 .. Len(ns[pid].values) : <<ns[pid].keys[i], ns[pid].values[i]>> \in EntriesOf(ns, pid)
        BY <2>1 DEF EntriesOf, Pairs
    <2> QED
        BY <2>2 DEF Lacks
<1>2. Pairs(KeysWith(ns[pid], key), ValuesWith(ns[pid], key, rid))
        = Pairs(ns[pid].keys, ns[pid].values) \cup {<<key, rid>>}
    BY LeafWith, SMTT(30)
<1>3. Once(ValuesWith(ns[pid], key, rid))
    BY <1>1, LeafWith
<1>4. ms[pid].keys = KeysWith(ns[pid], key) /\ ms[pid].values = ValuesWith(ns[pid], key, rid)
    BY DEF LeafGrown
<1> QED
    BY <1>2, <1>3, <1>4 DEF EntriesOf

LEMMA LeafSplitEntries ==
    ASSUME NEW ns, NEW ms, IndexFile(ns), NEW pid \in 1 .. Len(ns), ns[pid].is_leaf, Full(ns[pid].keys),
           NEW key \in Keys, NEW rid \in Rids, NEW res, LeafSplit(ns, ms, pid, key, rid, res),
           Once(ns[pid].values), \A a \in EntriesOf(ns, pid) : a[2] # rid
    PROVE  /\ EntriesOf(ms, pid) \cup EntriesOf(ms, Len(ns) + 1) = EntriesOf(ns, pid) \cup {<<key, rid>>}
           /\ Once(ms[pid].values) /\ Once(ms[Len(ns) + 1].values)
           /\ \A a \in EntriesOf(ms, pid), b \in EntriesOf(ms, Len(ns) + 1) : a[2] # b[2]
<1>1. Lacks(ns[pid].values, rid)
    <2>1. Len(ns[pid].values) = Len(ns[pid].keys)
        BY NodeAt
    <2>2. \A i \in 1 .. Len(ns[pid].values) : <<ns[pid].keys[i], ns[pid].values[i]>> \in EntriesOf(ns, pid)
        BY <2>1 DEF EntriesOf, Pairs
    <2> QED
        BY <2>2 DEF Lacks
<1> DEFINE keys == KeysWith(ns[pid], key)
           values == ValuesWith(ns[pid], key, rid)
           size == MAX_KEYS + 1
           half == (MAX_KEYS + 2) \div 2
           lk == SubSeq(keys, 1, half)
           lv == SubSeq(values, 1, half)
           rk == SubSeq(keys, half + 1, size)
           rv == SubSeq(values, half + 1, size)
<1>2. Pairs(keys, values) = Pairs(ns[pid].keys, ns[pid].values) \cup {<<key, rid>>}
    BY LeafWith
<1>3. Once(values)
    BY <1>1, LeafWith
<1>4. keys \in Seq(Keys) /\ values \in Seq(Rids) /\ Len(keys) = size /\ Len(values) = size
    BY LeafWith DEF Full
<1>5. /\ ms[pid].keys = lk /\ ms[pid].values = lv
      /\ ms[Len(ns) + 1].keys = rk /\ ms[Len(ns) + 1].values = rv
    BY Zenon DEF LeafSplit
<1>6. half \in 1 .. size /\ size \in Nat
    BY BPlusTreeAssumption
<1> HIDE DEF keys, values, half, size
<1>7. IsParted(keys, size, half, lk, rk)
    BY <1>4, <1>6, Parted
<1>8. IsParted(values, size, half, lv, rv)
    BY <1>4, <1>6, Parted
<1> HIDE DEF lk, lv, rk, rv
<1>11. Pairs(lk, lv) \cup Pairs(rk, rv) = Pairs(keys, values)
    BY <1>7, <1>8, PairsParted
<1>12. Once(lv) /\ Once(rv) /\ Apart(lv, rv)
    BY <1>3, <1>7, <1>8, PairsParted
<1>13. \A a \in Pairs(lk, lv), b \in Pairs(rk, rv) : a[2] # b[2]
    <2>1. Len(lk) = Len(lv) /\ Len(rk) = Len(rv)
        BY <1>7, <1>8 DEF IsParted
    <2> QED
        BY <1>12, <2>1 DEF Apart, Pairs
<1> QED
    BY <1>2, <1>5, <1>11, <1>12, <1>13 DEF EntriesOf

\* Node pid and the node added share the children of pid and c.
KidsDealt(ns, ms, pid, c) ==
    /\ Kids(ms, pid) \cup Kids(ms, Len(ns) + 1) = Kids(ns, pid) \cup {c}
    /\ Kids(ms, pid) \cap Kids(ms, Len(ns) + 1) = {}
    /\ Once(ms[pid].child_nodes) /\ Once(ms[Len(ns) + 1].child_nodes)
    /\ ms[pid].child_nodes[1] = ns[pid].child_nodes[1]

LEMMA InternalSplitKids ==
    ASSUME NEW ns, NEW ms, IndexFile(ns), NEW pid \in 1 .. Len(ns), ~ns[pid].is_leaf, Full(ns[pid].keys),
           NEW split, IsSplit(split, ns), NEW res, InternalSplit(ns, ms, pid, split, res),
           Once(ns[pid].child_nodes), split.child_pid \notin Kids(ns, pid)
    PROVE  KidsDealt(ns, ms, pid, split.child_pid)
<1>0. KidTaken(ns, pid, split)
    BY InternalWith
<1> DEFINE kids == KidsWith(ns[pid], split)
           size == MAX_KEYS + 2
           half == (MAX_KEYS + 1) \div 2
           part == half + 1
           l == SubSeq(kids, 1, part)
           r == SubSeq(kids, part + 1, size)
<1>1. Elems(kids) = Elems(ns[pid].child_nodes) \cup {split.child_pid}
    BY <1>0 DEF KidTaken
<1>2. Once(kids)
    BY <1>0 DEF KidTaken, Kids
<1>3. kids[1] = ns[pid].child_nodes[1]
    BY <1>0 DEF KidTaken
<1>4. kids \in Seq(Nat)
    BY <1>0 DEF KidTaken
<1>5. Len(kids) = size
    BY <1>0 DEF KidTaken, Full
<1>6. ms[pid].child_nodes = SubSeq(kids, 1, half + 1) /\ ms[Len(ns) + 1].child_nodes = SubSeq(kids, half + 2, size)
    BY Zenon DEF InternalSplit
<1>7. part \in 1 .. size /\ size \in Nat /\ half + 2 = part + 1 /\ part = half + 1
    BY BPlusTreeAssumption
<1>8. ms[pid].child_nodes = l /\ ms[Len(ns) + 1].child_nodes = r
    <2> HIDE DEF kids, half, size
    <2> QED
        BY <1>6, <1>7
<1> HIDE DEF kids, half, size, part
<1>9. IsParted(kids, size, part, l, r)
    BY <1>4, <1>5, <1>7, Parted
<1>10. l[1] = kids[1]
    BY <1>4, <1>5, <1>7, CutLeft
<1> HIDE DEF l, r
<1>11. Elems(l) \cup Elems(r) = Elems(kids)
    BY <1>9, ElemsParted
<1>12. Once(l) /\ Once(r) /\ Elems(l) \cap Elems(r) = {}
    BY <1>2, <1>9, ElemsParted
<1> QED
    BY <1>1, <1>3, <1>8, <1>11, <1>10, <1>12 DEF Kids, KidsDealt

-----------------------------------------------------------------------------
(* The tree under the inserts and splits.                                  *)

Tree(ns, root, tops, rank, order, left) ==
    /\ IndexFile(ns) /\ root \in tops /\ tops \subseteq 1 .. Len(ns)
    /\ Ranked(ns, rank) /\ OneParent(ns, tops) /\ Linked(ns, tops, order) /\ Leftmost(ns, root, left)

SameRanks(rank, rank2, pages) == \A p \in 1 .. pages : rank2[p] = rank[p]

LEMMA HangsKept ==
    ASSUME NEW ns, NEW ms, NEW tops, NEW tops2, NEW p,
           \A q \in 1 .. Len(ms) : \A c \in Kids(ms, q) : Hangs(ns, tops, c),
           p \in tops2 => p \in tops,
           Hangs(ms, tops2, p)
    PROVE  Hangs(ns, tops, p)
<1>1. CASE p \in tops2
    BY <1>1 DEF Hangs
<1>2. CASE \E q \in 1 .. Len(ms) : p \in Kids(ms, q)
    BY <1>2
<1> QED
    BY <1>1, <1>2 DEF Hangs

LEMMA ChainedLeaf ==
    ASSUME NEW ns, NEW tops, NEW order, Linked(ns, tops, order), NEW p \in Elems(order)
    PROVE  p \in 1 .. Len(ns) /\ ns[p].is_leaf
BY DEF Linked, Elems

LEMMA TreeLeafGrown ==
    ASSUME NEW ns, NEW ms, NEW root, NEW tops, NEW rank, NEW order, NEW left, NEW E,
           Tree(ns, root, tops, rank, order, left), Holds(ns, Elems(order), E),
           NEW pid \in Elems(order), NEW key \in Keys, NEW rid \in Rids, \A a \in E : a[2] # rid,
           LeafGrown(ns, ms, pid, key, rid)
    PROVE  Tree(ms, root, tops, rank, order, left) /\ Holds(ms, Elems(order), E \cup {<<key, rid>>})
<1>1. /\ IndexFile(ns) /\ root \in tops /\ tops \subseteq 1 .. Len(ns)
      /\ Ranked(ns, rank) /\ OneParent(ns, tops) /\ Linked(ns, tops, order) /\ Leftmost(ns, root, left)
    BY DEF Tree
<1>2. pid \in 1 .. Len(ns) /\ ns[pid].is_leaf
    BY <1>1, ChainedLeaf
<1>3. /\ IndexFile(ms) /\ Len(ms) = Len(ns) /\ OthersKept(ns, ms, pid)
      /\ ms[pid].is_leaf /\ ms[pid].next_leaf = ns[pid].next_leaf
    BY DEF LeafGrown
<1>4. Len(ns) \in Nat
    BY <1>1 DEF IndexFile
<1>5. pid \in 1 .. Len(ms)
    BY <1>2, <1>3
<1>6. ns[pid].child_nodes = << >> /\ ms[pid].child_nodes = << >>
    BY <1>1, <1>2, <1>3, <1>5, NodeAt
<1>7. ASSUME NEW q \in 1 .. Len(ns)
      PROVE  /\ ms[q].is_leaf <=> ns[q].is_leaf
             /\ ms[q].child_nodes = ns[q].child_nodes
             /\ ms[q].next_leaf = ns[q].next_leaf
    <2>1. CASE q = pid
        BY <1>2, <1>3, <1>6, <2>1
    <2>2. CASE q # pid
        BY <1>3, <2>2 DEF OthersKept
    <2> QED
        BY <2>1, <2>2
<1>8. \A q \in 1 .. Len(ns) : Kids(ms, q) = Kids(ns, q)
    BY <1>7 DEF Kids
<1>9. Ranked(ms, rank)
    BY <1>1, <1>3, <1>7, <1>8, RankKept
<1>10. OneParent(ms, tops)
    BY <1>1, <1>3, <1>7, ParentKept
<1>11. ASSUME NEW p \in 1 .. Len(ms), ms[p].is_leaf, Hangs(ms, tops, p)
       PROVE  p \in 1 .. Len(ns) /\ ns[p].is_leaf /\ Hangs(ns, tops, p)
    <2>1. p \in 1 .. Len(ns) /\ ns[p].is_leaf
        BY <1>3, <1>7, <1>11
    <2>2. Hangs(ns, tops, p)
        BY <1>3, <1>8, <1>11 DEF Hangs
    <2> QED
        BY <2>1, <2>2
<1>12. Linked(ms, tops, order)
    BY <1>1, <1>3, <1>4, <1>7, <1>11, LinkKept
<1>13. Leftmost(ms, root, left)
    BY <1>1, <1>3, <1>4, <1>7, LeftKept
<1>14. Tree(ms, root, tops, rank, order, left)
    BY <1>1, <1>3, <1>9, <1>10, <1>12, <1>13 DEF Tree
<1>15. Once(ns[pid].values) /\ EntriesOf(ns, pid) \subseteq E
    BY DEF Holds
<1>16. EntriesOf(ms, pid) = EntriesOf(ns, pid) \cup {<<key, rid>>} /\ Once(ms[pid].values)
    BY <1>1, <1>2, <1>15, LeafGrownEntries
<1>17. \A p \in Elems(order) : p # pid => ms[p] = ns[p]
    BY <1>1, <1>3, ChainedLeaf DEF OthersKept
<1>18. \A a \in E : a[2] # <<key, rid>>[2]
    OBVIOUS
<1>19. Holds(ms, Elems(order), E \cup {<<key, rid>>})
    <2> DEFINE e == <<key, rid>>
    <2> HIDE DEF e
    <2>1. \A a \in E : a[2] # e[2]
        BY <1>18 DEF e
    <2>2. EntriesOf(ms, pid) = EntriesOf(ns, pid) \cup {e}
        BY <1>16 DEF e
    <2>3. Holds(ms, Elems(order), E \cup {e})
        BY <1>16, <1>17, <2>1, <2>2, HoldsGrown
    <2> QED
        BY <2>3 DEF e
<1> QED
    BY <1>14, <1>19

\* The tree after a leaf split: its parent has yet to take in the leaf added.
SplitTree(ns, ms, root, rank, left, E) ==
    \E rank2, order2 :
        /\ Tree(ms, root, {root, Len(ns) + 1}, rank2, order2, left)
        /\ Holds(ms, Elems(order2), E)
        /\ SameRanks(rank, rank2, Len(ns)) /\ rank2[Len(ns) + 1] = 0

LEMMA TreeLeafSplit ==
    ASSUME NEW ns, NEW ms, NEW root, NEW rank, NEW order, NEW left, NEW E,
           Tree(ns, root, {root}, rank, order, left), Holds(ns, Elems(order), E),
           NEW pid \in Elems(order), Full(ns[pid].keys),
           NEW key \in Keys, NEW rid \in Rids, \A a \in E : a[2] # rid,
           NEW res, LeafSplit(ns, ms, pid, key, rid, res)
    PROVE  SplitTree(ns, ms, root, rank, left, E \cup {<<key, rid>>})
<1>1. /\ IndexFile(ns) /\ root \in 1 .. Len(ns)
      /\ Ranked(ns, rank) /\ OneParent(ns, {root}) /\ Linked(ns, {root}, order) /\ Leftmost(ns, root, left)
    BY DEF Tree
<1>2. pid \in 1 .. Len(ns) /\ ns[pid].is_leaf
    BY <1>1, ChainedLeaf
<1>4. Len(ns) \in Nat
    BY <1>1 DEF IndexFile
<1> DEFINE right == Len(ns) + 1
<1>3. /\ IndexFile(ms) /\ Len(ms) = right /\ OthersKept(ns, ms, pid)
      /\ ms[pid].is_leaf /\ ms[pid].next_leaf = right
      /\ ms[right].is_leaf /\ ms[right].next_leaf = ns[pid].next_leaf
    BY Zenon DEF LeafSplit
<1>5. right \in Nat /\ right = Len(ns) + 1 /\ right \in 1 .. right /\ pid \in 1 .. right
    BY <1>2, <1>4
<1>20. PutBehindLeaf(ns, ms, pid)
    BY <1>3 DEF PutBehindLeaf
<1> HIDE DEF right
<1>6. Kids(ns, pid) = {} /\ Once(ns[pid].child_nodes)
    BY <1>1, <1>2, KidPages
<1>7. Kids(ms, pid) = {} /\ Once(ms[pid].child_nodes)
    BY <1>3, <1>5, KidPages
<1>8. Kids(ms, right) = {} /\ Once(ms[right].child_nodes)
    BY <1>3, <1>5, KidPages
<1>9. ASSUME NEW q \in 1 .. Len(ns)
      PROVE  /\ ms[q].is_leaf <=> ns[q].is_leaf
             /\ Kids(ms, q) = Kids(ns, q)
             /\ ~ns[q].is_leaf => ms[q].child_nodes[1] = ns[q].child_nodes[1]
    <2>1. CASE q = pid
        BY <1>2, <1>3, <1>6, <1>7, <2>1
    <2>2. CASE q # pid
        <3>1. ms[q] = ns[q]
            BY <1>3, <2>2 DEF OthersKept
        <3> QED
            BY <3>1 DEF Kids
    <2> QED
        BY <2>1, <2>2
<1>10. \A q \in 1 .. Len(ns) : Kids(ns, q) \subseteq 1 .. Len(ns)
    BY <1>1, KidPages
<1>22. PICK rank2 : RankedWith(ms, rank, Len(ns) + 1, 0, rank2)
    <2>1. ms[pid].is_leaf <=> ns[pid].is_leaf
        BY <1>2, <1>3
    <2>2. ms[Len(ns) + 1].is_leaf <=> 0 = 0
        BY <1>3, <1>5
    <2>3. \A c \in Kids(ms, pid) : c \in 1 .. Len(ns) /\ rank[pid] = rank[c] + 1
        BY <1>7
    <2>4. \A c \in Kids(ms, Len(ns) + 1) : c \in 1 .. Len(ns) /\ 0 = rank[c] + 1
        BY <1>5, <1>8
    <2>5. Len(ms) = Len(ns) + 1 /\ 0 < Len(ms) /\ 0 \in Nat
        BY <1>3, <1>4, <1>5
    <2> QED
        BY <1>1, <1>2, <1>3, <1>4, <2>1, <2>2, <2>3, <2>4, <2>5, RankExtended
<1>11. Ranked(ms, rank2) /\ (\A p \in 1 .. Len(ns) : rank2[p] = rank[p]) /\ rank2[Len(ns) + 1] = 0
    <2>1. Len(ns) + 1 - 1 = Len(ns)
        BY <1>4
    <2> QED
        BY <1>22, <2>1 DEF RankedWith
<1> DEFINE tops2 == {root, right}
<1>12. OneParent(ms, tops2)
    <2>1. Kids(ms, pid) \cup Kids(ms, Len(ns) + 1) \subseteq Kids(ns, pid) \cup {}
        BY <1>5, <1>7, <1>8
    <2>2. Kids(ms, pid) \cap Kids(ms, Len(ns) + 1) = {}
        BY <1>7
    <2>3. tops2 \subseteq ({root} \ {}) \cup {Len(ns) + 1}
        BY <1>5
    <2>4. Len(ms) = Len(ns) + 1 /\ Once(ms[pid].child_nodes) /\ Once(ms[Len(ns) + 1].child_nodes)
        BY <1>3, <1>5, <1>7, <1>8
    <2>5. {} \subseteq {root} /\ {} \subseteq 1 .. Len(ns)
        OBVIOUS
    <2> DEFINE tops == {root}
               new == {}
               tops0 == tops2
    <2>6. KidsPassed(ns, ms, pid, tops, tops0, new)
        BY <2>1, <2>2, <2>3, <2>4, <2>5 DEF KidsPassed
    <2>7. OneParent(ns, tops)
        BY <1>1
    <2> HIDE DEF tops, new, tops0
    <2>8. OneParent(ms, tops0)
        BY <1>2, <1>3, <1>4, <1>10, <2>4, <2>6, <2>7, ParentExtended
    <2> QED
        BY <2>8 DEF tops0
<1>13. ASSUME NEW p \in 1 .. Len(ns), Hangs(ms, tops2, p)
       PROVE  Hangs(ns, {root}, p)
    <2>1. ASSUME NEW q \in 1 .. Len(ms), NEW c \in Kids(ms, q)
          PROVE  Hangs(ns, {root}, c)
        <3>1. q # right
            BY <1>8, <2>1
        <3>2. q \in 1 .. Len(ns)
            BY <1>3, <1>4, <1>5, <3>1
        <3>3. c \in Kids(ns, q)
            BY <1>9, <2>1, <3>2
        <3> QED
            BY <3>2, <3>3 DEF Hangs
    <2>2. p \in tops2 => p \in {root}
        BY <1>4, <1>5
    <2> HIDE DEF tops2
    <2> QED
        BY <1>13, <2>1, <2>2, HangsKept
<1>21. PICK order2 : LinkedWith(ms, tops2, order, Len(ns) + 1, order2)
    <2> HIDE DEF tops2
    <2>1. \A p \in 1 .. Len(ns) : Hangs(ms, tops2, p) => Hangs(ns, {root}, p)
        BY <1>13
    <2>2. Linked(ns, {root}, order)
        BY <1>1
    <2> QED
        BY <1>4, <1>20, <2>1, <2>2, LinkSplit
<1>14. Linked(ms, tops2, order2) /\ Elems(order2) = Elems(order) \cup {Len(ns) + 1}
    BY <1>21 DEF LinkedWith
<1>15. Leftmost(ms, root, left)
    <2>1. Len(ms) \in Nat /\ Len(ms) >= Len(ns)
        BY <1>3, <1>4, <1>5
    <2> QED
        BY <1>1, <1>4, <1>9, <2>1, LeftKept
<1>16. root \in tops2 /\ tops2 \subseteq 1 .. Len(ms)
    BY <1>1, <1>3, <1>4, <1>5
<1>17. Tree(ms, root, tops2, rank2, order2, left)
    BY <1>3, <1>11, <1>12, <1>14, <1>15, <1>16 DEF Tree
<1>18. Holds(ms, Elems(order2), E \cup {<<key, rid>>})
    <2>1. Once(ns[pid].values) /\ EntriesOf(ns, pid) \subseteq E
        BY DEF Holds
    <2> DEFINE e == <<key, rid>>
    <2>2. /\ EntriesOf(ms, pid) \cup EntriesOf(ms, Len(ns) + 1) = EntriesOf(ns, pid) \cup {e}
          /\ Once(ms[pid].values) /\ Once(ms[Len(ns) + 1].values)
          /\ \A a \in EntriesOf(ms, pid), b \in EntriesOf(ms, Len(ns) + 1) : a[2] # b[2]
        BY <1>1, <1>2, <2>1, LeafSplitEntries
    <2>3. \A a \in E : a[2] # e[2]
        OBVIOUS
    <2> HIDE DEF e
    <2>4. \A p \in Elems(order) : p \in 1 .. Len(ns)
        BY <1>1, ChainedLeaf
    <2>5. \A p \in Elems(order) : p # pid => ms[p] = ns[p]
        BY <1>3, <2>4 DEF OthersKept
    <2>6. Len(ns) + 1 \notin Elems(order)
        BY <1>4, <2>4
    <2>7. Holds(ms, Elems(order) \cup {Len(ns) + 1}, E \cup {e})
        BY <2>2, <2>3, <2>5, <2>6, HoldsParted
    <2> QED
        BY <1>14, <2>7 DEF e
<1>19. tops2 = {root, Len(ns) + 1}
    BY <1>5
<1> HIDE DEF tops2
<1> QED
    BY <1>11, <1>17, <1>18, <1>19 DEF SameRanks, SplitTree

\* An internal node takes in child c: it and the node added share the children.
Dealt(ns, ms, pid, c) ==
    /\ IndexFile(ms) /\ Len(ms) = Len(ns) + 1 /\ OthersKept(ns, ms, pid) /\ ~ms[pid].is_leaf
    /\ KidsDealt(ns, ms, pid, c)

\* The tops that are left, and the rank r of the node added.
TopsLeft(ns, ms, root, tops, rank, pid, r) ==
    /\ root \in tops /\ tops \subseteq {root, Len(ns) + 1}
    /\ ms[Len(ns) + 1].is_leaf => Len(ns) + 1 \notin tops
    /\ r = IF ms[Len(ns) + 1].is_leaf THEN 0 ELSE rank[pid]
StillTree(ns, ms, root, tops, rank, order, left, E, r) ==
    \E rank2 : /\ Tree(ms, root, tops, rank2, order, left) /\ Holds(ms, Elems(order), E)
               /\ SameRanks(rank, rank2, Len(ns)) /\ rank2[Len(ns) + 1] = r

LEMMA TreeDealt ==
    ASSUME NEW ns, NEW ms, NEW root, NEW c, NEW rank, NEW order, NEW left, NEW E,
           Tree(ns, root, {root, c}, rank, order, left), Holds(ns, Elems(order), E), c # root,
           NEW pid \in 1 .. Len(ns), ~ns[pid].is_leaf, rank[pid] = rank[c] + 1, Dealt(ns, ms, pid, c),
           NEW tops2, NEW r, TopsLeft(ns, ms, root, tops2, rank, pid, r)
    PROVE  StillTree(ns, ms, root, tops2, rank, order, left, E, r)
<1>1. /\ IndexFile(ns) /\ root \in 1 .. Len(ns) /\ c \in 1 .. Len(ns)
      /\ Ranked(ns, rank) /\ OneParent(ns, {root, c}) /\ Linked(ns, {root, c}, order) /\ Leftmost(ns, root, left)
    BY DEF Tree
<1>2. Len(ns) \in Nat
    BY <1>1 DEF IndexFile
<1> DEFINE right == Len(ns) + 1
<1>3. /\ IndexFile(ms) /\ Len(ms) = right /\ OthersKept(ns, ms, pid) /\ ~ms[pid].is_leaf
      /\ Kids(ms, pid) \cup Kids(ms, right) = Kids(ns, pid) \cup {c}
      /\ Kids(ms, pid) \cap Kids(ms, right) = {}
      /\ Once(ms[pid].child_nodes) /\ Once(ms[right].child_nodes)
      /\ ms[pid].child_nodes[1] = ns[pid].child_nodes[1]
    BY Zenon DEF Dealt, KidsDealt
<1>4. /\ tops2 \subseteq {root, right} /\ root \in tops2
      /\ ms[right].is_leaf => right \notin tops2
      /\ r = IF ms[right].is_leaf THEN 0 ELSE rank[pid]
    BY DEF TopsLeft
<1>5. right \in Nat /\ right = Len(ns) + 1 /\ right \in 1 .. right /\ pid \in 1 .. right
    BY <1>2
<1> HIDE DEF right
<1>6. ASSUME NEW q \in 1 .. Len(ns)
      PROVE  /\ ms[q].is_leaf <=> ns[q].is_leaf
             /\ ~ns[q].is_leaf => ms[q].child_nodes[1] = ns[q].child_nodes[1]
             /\ ns[q].is_leaf => ms[q] = ns[q]
             /\ q # pid => Kids(ms, q) = Kids(ns, q)
    <2>1. CASE q = pid
        BY <1>3, <2>1
    <2>2. CASE q # pid
        <3>1. ms[q] = ns[q]
            BY <1>3, <2>2 DEF OthersKept
        <3> QED
            BY <3>1 DEF Kids
    <2> QED
        BY <2>1, <2>2
<1>7. \A q \in 1 .. Len(ns) : Kids(ns, q) \subseteq 1 .. Len(ns)
    BY <1>1, KidPages
<1>8. /\ rank[pid] \in Nat /\ rank[pid] # 0 /\ rank[pid] < Len(ns)
      /\ \A k \in Kids(ns, pid) : k \in 1 .. Len(ns) /\ rank[pid] = rank[k] + 1
    BY <1>1 DEF Ranked
<1>9. ms[right].is_leaf \in BOOLEAN
    BY <1>3, <1>5, NodeAt
<1>10. ms[right].is_leaf => Kids(ms, right) = {}
    BY <1>3, <1>5, KidPages
<1>20. PICK rank2 : RankedWith(ms, rank, Len(ns) + 1, r, rank2)
    <2>1. r \in Nat /\ (ms[right].is_leaf <=> r = 0) /\ r < Len(ms) /\ Len(ms) = Len(ns) + 1
        BY <1>2, <1>3, <1>4, <1>5, <1>8, <1>9
    <2>2. \A k \in Kids(ms, pid) \cup Kids(ms, right) : k \in 1 .. Len(ns) /\ rank[pid] = rank[k] + 1
        BY <1>1, <1>3, <1>8
    <2>3. \A k \in Kids(ms, Len(ns) + 1) : k \in 1 .. Len(ns) /\ r = rank[k] + 1
        <3>1. CASE ms[right].is_leaf
            BY <1>5, <1>10, <3>1
        <3>2. CASE ~ms[right].is_leaf
            BY <1>4, <1>5, <2>2, <3>2
        <3> QED
            BY <3>1, <3>2
    <2>4. \A k \in Kids(ms, pid) : k \in 1 .. Len(ns) /\ rank[pid] = rank[k] + 1
        BY <2>2
    <2>5. (ms[pid].is_leaf <=> ns[pid].is_leaf) /\ (ms[Len(ns) + 1].is_leaf <=> r = 0)
        BY <1>3, <1>5, <2>1
    <2> QED
        BY <1>1, <1>2, <1>3, <2>1, <2>3, <2>4, <2>5, RankExtended
<1>11. Ranked(ms, rank2) /\ (\A p \in 1 .. Len(ns) : rank2[p] = rank[p]) /\ rank2[Len(ns) + 1] = r
    <2>1. Len(ns) + 1 - 1 = Len(ns)
        BY <1>2
    <2> QED
        BY <1>20, <2>1 DEF RankedWith
<1>12. OneParent(ms, tops2)
    <2>1. Kids(ms, pid) \cup Kids(ms, Len(ns) + 1) \subseteq Kids(ns, pid) \cup {c}
        BY <1>3, <1>5
    <2>2. Kids(ms, pid) \cap Kids(ms, Len(ns) + 1) = {}
        BY <1>3, <1>5
    <2>3. tops2 \subseteq ({root, c} \ {c}) \cup {Len(ns) + 1}
        BY <1>4, <1>5
    <2>4. Len(ms) = Len(ns) + 1 /\ Once(ms[pid].child_nodes) /\ Once(ms[Len(ns) + 1].child_nodes)
        BY <1>3, <1>5
    <2>5. {c} \subseteq {root, c} /\ {c} \subseteq 1 .. Len(ns)
        BY <1>1
    <2> DEFINE tops == {root, c}
               new == {c}
               tops0 == tops2
    <2>6. KidsPassed(ns, ms, pid, tops, tops0, new)
        BY <2>1, <2>2, <2>3, <2>4, <2>5 DEF KidsPassed
    <2>7. OneParent(ns, tops)
        BY <1>1
    <2> HIDE DEF tops, new, tops0
    <2>8. OneParent(ms, tops0)
        BY <1>2, <1>3, <1>7, <2>4, <2>6, <2>7, ParentExtended
    <2> QED
        BY <2>8 DEF tops0
<1>13. ASSUME NEW p \in 1 .. Len(ms), ms[p].is_leaf, Hangs(ms, tops2, p)
       PROVE  p \in 1 .. Len(ns) /\ ns[p].is_leaf /\ Hangs(ns, {root, c}, p)
    <2>1. ASSUME NEW q \in 1 .. Len(ms), NEW k \in Kids(ms, q)
          PROVE  k \in 1 .. Len(ns) /\ Hangs(ns, {root, c}, k)
        <3>1. CASE q = pid \/ q = right
            <4>1. k \in Kids(ns, pid) \cup {c}
                BY <1>3, <2>1, <3>1
            <4>2. k \in 1 .. Len(ns)
                BY <1>1, <1>7, <4>1
            <4> QED
                BY <4>1, <4>2 DEF Hangs
        <3>2. CASE q # pid /\ q # right
            <4>1. q \in 1 .. Len(ns)
                BY <1>2, <1>3, <1>5, <3>2
            <4>2. k \in Kids(ns, q)
                BY <1>6, <2>1, <3>2, <4>1
            <4> QED
                BY <1>7, <4>1, <4>2 DEF Hangs
        <3> QED
            BY <3>1, <3>2
    <2>2. p \in tops2 => p \in {root, c}
        BY <1>4, <1>13
    <2>3. Hangs(ns, {root, c}, p)
        BY <1>13, <2>1, <2>2, HangsKept
    <2>4. p # right
        <3>1. CASE p \in tops2
            BY <1>4, <1>13, <3>1
        <3>2. CASE \E q \in 1 .. Len(ms) : p \in Kids(ms, q)
            <4>1. p \in 1 .. Len(ns)
                BY <2>1, <3>2
            <4> QED
                BY <1>2, <1>5, <4>1
        <3> QED
            BY <1>13, <3>1, <3>2 DEF Hangs
    <2>5. p \in 1 .. Len(ns)
        BY <1>2, <1>3, <1>5, <2>4
    <2> QED
        BY <1>6, <1>13, <2>3, <2>5
<1>14. Len(ms) \in Nat /\ Len(ms) >= Len(ns)
    BY <1>2, <1>3, <1>5
<1>15. Linked(ms, tops2, order)
    <2>1. \A q \in 1 .. Len(ns) : ns[q].is_leaf => ms[q].is_leaf /\ ms[q].next_leaf = ns[q].next_leaf
        BY <1>6
    <2> QED
        BY <1>1, <1>2, <1>13, <1>14, <2>1, LinkKept
<1>16. Leftmost(ms, root, left)
    BY <1>1, <1>2, <1>6, <1>14, LeftKept
<1>17. tops2 \subseteq 1 .. Len(ms)
    BY <1>1, <1>2, <1>3, <1>4, <1>5
<1>18. Tree(ms, root, tops2, rank2, order, left)
    BY <1>3, <1>4, <1>11, <1>12, <1>15, <1>16, <1>17 DEF Tree
<1>19. Holds(ms, Elems(order), E)
    <2>1. \A p \in Elems(order) : ms[p] = ns[p]
        BY <1>1, <1>6, ChainedLeaf
    <2> QED
        BY <2>1, HoldsKept
<1> QED
    BY <1>11, <1>18, <1>19 DEF SameRanks, StillTree

LEMMA InternalGrownDealt ==
    ASSUME NEW ns, NEW ms, IndexFile(ns), NEW pid \in 1 .. Len(ns), ~ns[pid].is_leaf,
           NEW split, IsSplit(split, ns), InternalGrown(ns, ms, pid, split),
           Once(ns[pid].child_nodes), split.child_pid \notin Kids(ns, pid)
    PROVE  Dealt(ns, ms, pid, split.child_pid) /\ ms[Len(ns) + 1].is_leaf
<1>1. /\ IndexFile(ms) /\ Len(ms) = Len(ns) + 1 /\ OthersKept(ns, ms, pid) /\ ~ms[pid].is_leaf
      /\ ms[Len(ns) + 1] = NewNode
    BY DEF InternalGrown
<1>10. KidTaken(ns, pid, split)
    BY InternalWith
<1>11. ms[pid].child_nodes = KidsWith(ns[pid], split)
    BY DEF InternalGrown
<1>2. Kids(ms, pid) = Kids(ns, pid) \cup {split.child_pid}
    BY <1>10, <1>11 DEF KidTaken, Kids
<1>3. Once(ms[pid].child_nodes) /\ ms[pid].child_nodes[1] = ns[pid].child_nodes[1]
    BY <1>10, <1>11 DEF KidTaken, Kids
<1>4. Len(ns) \in Nat
    BY DEF IndexFile
<1>5. ms[Len(ns) + 1].is_leaf
    BY <1>1, <1>4, NewNodeOK
<1>6. Len(ns) + 1 \in 1 .. Len(ms)
    BY <1>1, <1>4
<1>7. Kids(ms, Len(ns) + 1) = {} /\ Once(ms[Len(ns) + 1].child_nodes)
    BY <1>1, <1>5, <1>6, KidPages
<1>8. Kids(ms, pid) \cup Kids(ms, Len(ns) + 1) = Kids(ns, pid) \cup {split.child_pid}
    BY <1>2, <1>7
<1>9. Kids(ms, pid) \cap Kids(ms, Len(ns) + 1) = {}
    BY <1>7
<1> QED
    BY <1>1, <1>3, <1>5, <1>7, <1>8, <1>9, Zenon DEF Dealt, KidsDealt

LEMMA InternalSplitDealt ==
    ASSUME NEW ns, NEW ms, IndexFile(ns), NEW pid \in 1 .. Len(ns), ~ns[pid].is_leaf, Full(ns[pid].keys),
           NEW split, IsSplit(split, ns), NEW res, InternalSplit(ns, ms, pid, split, res),
           Once(ns[pid].child_nodes), split.child_pid \notin Kids(ns, pid)
    PROVE  Dealt(ns, ms, pid, split.child_pid) /\ ~ms[Len(ns) + 1].is_leaf
<1>1. /\ IndexFile(ms) /\ Len(ms) = Len(ns) + 1 /\ OthersKept(ns, ms, pid) /\ ~ms[pid].is_leaf
      /\ ~ms[Len(ns) + 1].is_leaf
    BY Zenon DEF InternalSplit
<1>2. KidsDealt(ns, ms, pid, split.child_pid)
    BY InternalSplitKids
<1> QED
    BY <1>1, <1>2, Zenon DEF Dealt

\* A tree that holds E.
Whole(ns, root, E) ==
    \E rank, order, left : Tree(ns, root, {root}, rank, order, left) /\ Holds(ns, Elems(order), E)

\* A new root above the old one and the node split from it.
LEMMA TreeRootGrown ==
    ASSUME NEW ns, NEW root, NEW c, NEW rank, NEW order, NEW left, NEW E,
           Tree(ns, root, {root, c}, rank, order, left), Holds(ns, Elems(order), E), c # root,
           rank[c] = rank[root], NEW key \in Keys
    PROVE  Whole(Append(ns, InternalNode(<<key>>, <<root, c>>)), Len(ns) + 1, E)
<1>1. /\ IndexFile(ns) /\ root \in 1 .. Len(ns) /\ c \in 1 .. Len(ns)
      /\ Ranked(ns, rank) /\ OneParent(ns, {root, c}) /\ Linked(ns, {root, c}, order) /\ Leftmost(ns, root, left)
    BY DEF Tree
<1>2. Len(ns) \in Nat
    BY <1>1 DEF IndexFile
<1> DEFINE n == InternalNode(<<key>>, <<root, c>>)
           ms == Append(ns, n)
           kids == <<root, c>>
           top == Len(ns) + 1
<1>3. /\ <<key>> \in Seq(Keys) /\ Len(<<key>>) = 1
      /\ kids \in Seq(Nat) /\ Len(kids) = 2 /\ kids[1] = root /\ kids[2] = c
      /\ \A i \in 1 .. 2 : kids[i] \in 1 .. Len(ns)
    BY <1>1
<1>4. Elems(kids) = {root, c} /\ Once(kids)
    <2> HIDE DEF kids
    <2>1. \A i \in 1 .. 2 : i = 1 \/ i = 2
        OBVIOUS
    <2>2. 1 \in 1 .. 2 /\ 2 \in 1 .. 2
        OBVIOUS
    <2> QED
        BY <1>3, <2>1, <2>2 DEF Elems, Once
<1>5. n \in Nodes /\ NodeOK(n, top)
    <2>1. 1 <= MAX_KEYS /\ Len(kids) = Len(<<key>>) + 1 /\ top \in Nat
        BY <1>2, <1>3, BPlusTreeAssumption
    <2>2. \A i \in 1 .. Len(kids) : kids[i] \in 1 .. top
        BY <1>2, <1>3
    <2>3. n = InternalNode(<<key>>, kids)
        OBVIOUS
    <2> HIDE DEF kids, n, top
    <2> QED
        BY <1>3, <2>1, <2>2, <2>3, InternalNodeOK
<1>6. ~n.is_leaf /\ n.child_nodes = kids
    BY DEF InternalNode
<1>7. top = Len(ns) + 1 /\ top \in Nat
    BY <1>2
<1> HIDE DEF n, kids
<1>8. /\ IndexFile(ms) /\ Len(ms) = Len(ns) + 1
      /\ \A p \in 1 .. Len(ns) : ms[p] = ns[p]
      /\ ms[Len(ns) + 1] = n
    BY <1>1, <1>5, Appended
<1> HIDE DEF ms
<1>9. OthersKept(ns, ms, root)
    BY <1>8 DEF OthersKept
<1>10. \A q \in 1 .. Len(ns) : Kids(ms, q) = Kids(ns, q)
    BY <1>8 DEF Kids
<1>11. Kids(ms, top) = {root, c} /\ Once(ms[top].child_nodes) /\ ~ms[top].is_leaf /\ ms[top].child_nodes[1] = root
    BY <1>3, <1>4, <1>6, <1>8 DEF Kids
<1>12. \A q \in 1 .. Len(ns) : Kids(ns, q) \subseteq 1 .. Len(ns)
    BY <1>1, KidPages
<1>13. /\ rank[root] \in Nat /\ rank[root] < Len(ns)
       /\ \A k \in Kids(ns, root) : k \in 1 .. Len(ns) /\ rank[root] = rank[k] + 1
    BY <1>1 DEF Ranked
<1>14. PICK rank2 : RankedWith(ms, rank, Len(ns) + 1, rank[root] + 1, rank2)
    <2> DEFINE r == rank[root] + 1
    <2>1. r \in Nat /\ r # 0 /\ r < Len(ms) /\ Len(ms) = Len(ns) + 1 /\ r = rank[root] + 1 /\ r = rank[c] + 1
        BY <1>2, <1>8, <1>13
    <2> HIDE DEF r
    <2>2. \A k \in Kids(ms, root) : k \in 1 .. Len(ns) /\ rank[root] = rank[k] + 1
        BY <1>1, <1>10, <1>13
    <2>3. \A k \in Kids(ms, Len(ns) + 1) : k \in 1 .. Len(ns) /\ r = rank[k] + 1
        BY <1>1, <1>11, <2>1
    <2>4. ms[Len(ns) + 1].is_leaf <=> r = 0
        BY <1>11, <2>1
    <2>5. ms[root].is_leaf <=> ns[root].is_leaf
        BY <1>1, <1>8
    <2>6. \E rank2 : RankedWith(ms, rank, Len(ns) + 1, r, rank2)
        BY <1>1, <1>2, <1>9, <2>1, <2>2, <2>3, <2>4, <2>5, RankExtended
    <2> QED
        BY <2>6 DEF r
<1>15. Ranked(ms, rank2)
    BY <1>14 DEF RankedWith
<1>16. OneParent(ms, {top})
    <2>1. Kids(ms, root) \cup Kids(ms, Len(ns) + 1) \subseteq Kids(ns, root) \cup {root, c}
        BY <1>1, <1>10, <1>11
    <2>2. Kids(ms, root) \cap Kids(ms, Len(ns) + 1) = {}
        BY <1>1, <1>10, <1>11 DEF OneParent
    <2>3. {top} \subseteq ({root, c} \ {root, c}) \cup {Len(ns) + 1}
        OBVIOUS
    <2>4. Len(ms) = Len(ns) + 1 /\ Once(ms[root].child_nodes) /\ Once(ms[Len(ns) + 1].child_nodes)
        BY <1>1, <1>8, <1>11 DEF OneParent
    <2>5. {root, c} \subseteq {root, c} /\ {root, c} \subseteq 1 .. Len(ns)
        BY <1>1
    <2> DEFINE tops == {root, c}
               new == {root, c}
               tops0 == {top}
    <2>6. KidsPassed(ns, ms, root, tops, tops0, new)
        BY <2>1, <2>2, <2>3, <2>4, <2>5 DEF KidsPassed
    <2>7. OneParent(ns, tops)
        BY <1>1
    <2> HIDE DEF tops, new, tops0
    <2>8. OneParent(ms, tops0)
        BY <1>1, <1>2, <1>9, <1>12, <2>4, <2>6, <2>7, ParentExtended
    <2> QED
        BY <2>8 DEF tops0
<1> HIDE DEF top
<1>17. ASSUME NEW p \in 1 .. Len(ms), ms[p].is_leaf, Hangs(ms, {top}, p)
       PROVE  p \in 1 .. Len(ns) /\ ns[p].is_leaf /\ Hangs(ns, {root, c}, p)
    <2>1. p # top
        BY <1>11, <1>17
    <2>2. p \in 1 .. Len(ns)
        BY <1>2, <1>7, <1>8, <2>1
    <2>3. PICK q \in 1 .. Len(ms) : p \in Kids(ms, q)
        BY <1>17, <2>1 DEF Hangs
    <2>4. Hangs(ns, {root, c}, p)
        <3>1. CASE q = top
            BY <1>11, <2>3, <3>1 DEF Hangs
        <3>2. CASE q # top
            <4>1. q \in 1 .. Len(ns)
                BY <1>2, <1>7, <1>8, <3>2
            <4> QED
                BY <1>10, <2>3, <4>1 DEF Hangs
        <3> QED
            BY <3>1, <3>2
    <2> QED
        BY <1>8, <1>17, <2>2, <2>4
<1>18. Len(ms) \in Nat /\ Len(ms) >= Len(ns)
    BY <1>2, <1>8
<1>19. Linked(ms, {top}, order)
    <2>1. \A q \in 1 .. Len(ns) : ns[q].is_leaf => ms[q].is_leaf /\ ms[q].next_leaf = ns[q].next_leaf
        BY <1>8
    <2> QED
        BY <1>1, <1>2, <1>17, <1>18, <2>1, LinkKept
<1>20. Leftmost(ms, root, left)
    BY <1>1, <1>2, <1>8, <1>18, LeftKept
<1>21. Leftmost(ms, top, left \cup {top})
    <2> DEFINE edge == left \cup {top}
    <2>1. /\ left \subseteq 1 .. Len(ms) /\ root \in left
          /\ \A p \in left : IF ms[p].is_leaf THEN p = 1 ELSE ms[p].child_nodes[1] \in left
        BY <1>20 DEF Leftmost
    <2>2. top \in 1 .. Len(ms)
        BY <1>2, <1>7, <1>8
    <2>3. ~ms[top].is_leaf /\ ms[top].child_nodes[1] = root
        BY <1>11
    <2>4. edge \subseteq 1 .. Len(ms) /\ top \in edge
        BY <2>1, <2>2
    <2>5. ASSUME NEW p \in edge
          PROVE  IF ms[p].is_leaf THEN p = 1 ELSE ms[p].child_nodes[1] \in edge
        <3>1. CASE p = top
            BY <2>1, <2>3, <3>1
        <3>2. CASE p \in left
            BY <2>1, <3>2
        <3> QED
            BY <3>1, <3>2
    <2> HIDE DEF edge
    <2>6. Leftmost(ms, top, edge)
        BY <2>4, <2>5 DEF Leftmost
    <2> QED
        BY <2>6 DEF edge
<1>22. top \in {top} /\ {top} \subseteq 1 .. Len(ms)
    BY <1>2, <1>7, <1>8
<1>23. Tree(ms, top, {top}, rank2, order, left \cup {top})
    BY <1>8, <1>15, <1>16, <1>19, <1>21, <1>22 DEF Tree
<1>24. Holds(ms, Elems(order), E)
    <2>1. \A p \in Elems(order) : ms[p] = ns[p]
        BY <1>1, <1>8, ChainedLeaf
    <2> QED
        BY <2>1, HoldsKept
<1>25. Whole(ms, top, E)
    BY <1>23, <1>24 DEF Whole
<1> QED
    BY <1>25 DEF ms, n, kids, top

\* The first page.
LEMMA FirstLeaf ==
    ASSUME NEW ns, IndexFile(ns), Len(ns) = 0
    PROVE  Whole(fetch_page(ns), Len(ns) + 1, {})
<1> DEFINE ms == fetch_page(ns)
<1>2. IndexFile(ms) /\ Len(ms) = 1 /\ ms[1] = NewNode
    <2>1. 0 + 1 = 1
        OBVIOUS
    <2> QED
        BY <2>1, Fetched
<1> HIDE DEF ms
<1>3. /\ ms[1].is_leaf /\ ms[1].keys = << >> /\ ms[1].values = << >> /\ ms[1].child_nodes = << >>
      /\ ms[1].next_leaf = INVALID_PAGE_ID
    BY <1>2, NewNodeOK
<1>4. \A p \in 1 .. Len(ms) : p = 1
    BY <1>2
<1>5. Kids(ms, 1) = {} /\ Once(ms[1].child_nodes) /\ Once(ms[1].values)
    BY <1>3 DEF Kids, Elems, Once
<1> DEFINE rank == [p \in 1 .. 1 |-> 0]
           order == <<1>>
           left == {1}
<1>6. Ranked(ms, rank)
    BY <1>2, <1>3, <1>4, <1>5 DEF Ranked
<1>7. OneParent(ms, {1})
    BY <1>4, <1>5 DEF OneParent
<1>8. order \in Seq(Nat) /\ Len(order) = 1 /\ order[1] = 1 /\ \A i \in 1 .. Len(order) : i = 1
    OBVIOUS
<1>9. Leftmost(ms, 1, left)
    BY <1>2, <1>3 DEF Leftmost
<1> HIDE DEF order, rank, left
<1>10. Elems(order) = {1} /\ Once(order)
    BY <1>8 DEF Elems, Once
<1>11. Linked(ms, {1}, order)
    BY <1>2, <1>3, <1>4, <1>8, <1>10 DEF Linked
<1>12. Tree(ms, 1, {1}, rank, order, left)
    BY <1>2, <1>6, <1>7, <1>9, <1>11 DEF Tree
<1>13. EntriesOf(ms, 1) = {}
    BY <1>3 DEF EntriesOf, Pairs
<1>14. Holds(ms, {1}, {})
    BY <1>5, <1>13 DEF Holds
<1>15. Whole(ms, 1, {})
    BY <1>10, <1>12, <1>14 DEF Whole
<1>16. Len(ns) + 1 = 1
    OBVIOUS
<1> QED
    BY <1>15, <1>16 DEF ms

-----------------------------------------------------------------------------
(* Walks down the tree.                                                    *)

NextOf(ns, p, below) == IF ns[p].is_leaf THEN p ELSE below[p]
IsWalk(at, ns, pid, below, steps) ==
    at = [n \in 0 .. steps |-> IF n = 0 THEN pid ELSE NextOf(ns, at[n - 1], below)]

LEMMA WalkExists ==
    ASSUME NEW ns, NEW pid, NEW below, NEW steps \in Nat
    PROVE  \E at : IsWalk(at, ns, pid, below, steps)
<1> DEFINE F(m) == \E at : at = [n \in 0 .. m |-> IF n = 0 THEN pid ELSE NextOf(ns, at[n - 1], below)]
           S == {m \in Nat : F(m)}
<1>1. 0 \in S
    <2> DEFINE f == [n \in 0 .. 0 |-> pid]
    <2>1. f = [n \in 0 .. 0 |-> IF n = 0 THEN pid ELSE NextOf(ns, f[n - 1], below)]
        OBVIOUS
    <2> QED
        BY <2>1
<1>2. ASSUME NEW m \in Nat, m \in S
      PROVE  m + 1 \in S
    <2>1. PICK f : f = [n \in 0 .. m |-> IF n = 0 THEN pid ELSE NextOf(ns, f[n - 1], below)]
        BY <1>2
    <2> DEFINE g == [n \in 0 .. m + 1 |-> IF n = m + 1 THEN NextOf(ns, f[m], below) ELSE f[n]]
    <2>2. \A n \in 0 .. m + 1 : g[n] = IF n = 0 THEN pid ELSE NextOf(ns, g[n - 1], below)
        BY <2>1
    <2>3. g = [n \in 0 .. m + 1 |-> IF n = 0 THEN pid ELSE NextOf(ns, g[n - 1], below)]
        BY <2>2
    <2> HIDE DEF g
    <2>4. F(m + 1)
        BY <2>3
    <2> QED
        BY <2>4
<1> HIDE DEF S
<1>3. steps \in S
    BY <1>1, <1>2, SetInduction
<1> QED
    BY <1>3 DEF S, IsWalk

\* A walk from a page goes down to a leaf, one level at a step, and stays there.
Walked(at, ns, pid, below, steps) ==
    at[0] = pid /\ \A n \in 1 .. steps : at[n] = NextOf(ns, at[n - 1], below)

LEMMA WalkSteps ==
    ASSUME NEW ns, NEW pid, NEW below, Len(ns) \in Nat
    PROVE  Walked(Walk(ns, pid, below), ns, pid, below, Len(ns))
<1> DEFINE at == Walk(ns, pid, below)
<1>1. IsWalk(at, ns, pid, below, Len(ns))
    <2>1. \E f : IsWalk(f, ns, pid, below, Len(ns))
        BY WalkExists
    <2>2. at = CHOOSE f : IsWalk(f, ns, pid, below, Len(ns))
        BY Zenon DEF Walk, IsWalk, NextOf
    <2> HIDE DEF at
    <2> QED
        BY <2>1, <2>2
<1> HIDE DEF at
<1>2. \A n \in 0 .. Len(ns) : at[n] = IF n = 0 THEN pid ELSE NextOf(ns, at[n - 1], below)
    <2> DEFINE e(n) == IF n = 0 THEN pid ELSE NextOf(ns, at[n - 1], below)
    <2>1. at = [n \in 0 .. Len(ns) |-> e(n)]
        BY <1>1, Zenon DEF IsWalk
    <2> HIDE DEF e
    <2>2. \A n \in 0 .. Len(ns) : at[n] = e(n)
        BY <2>1
    <2> QED
        BY <2>2 DEF e
<1>3. at[0] = pid /\ \A n \in 1 .. Len(ns) : at[n] = NextOf(ns, at[n - 1], below)
    BY <1>2
<1> QED
    BY <1>3 DEF at, Walked

LEMMA WalkRanks ==
    ASSUME NEW ns, IndexFile(ns), NEW rank, Ranked(ns, rank), NEW pid \in 1 .. Len(ns), NEW below,
           \A p \in 1 .. Len(ns) : ~ns[p].is_leaf => below[p] \in Kids(ns, p),
           NEW at, Walked(at, ns, pid, below, Len(ns))
    PROVE  \A n \in 0 .. Len(ns) : at[n] \in 1 .. Len(ns) /\ rank[at[n]] = IF n <= rank[pid] THEN rank[pid] - n ELSE 0
<1>1. Len(ns) \in Nat
    BY DEF IndexFile
<1>2. \A p \in 1 .. Len(ns) : /\ rank[p] \in Nat /\ rank[p] < Len(ns) /\ (ns[p].is_leaf <=> rank[p] = 0)
                               /\ \A c \in Kids(ns, p) : c \in 1 .. Len(ns) /\ rank[p] = rank[c] + 1
    BY DEF Ranked
<1>3. at[0] = pid /\ \A n \in 1 .. Len(ns) : at[n] = NextOf(ns, at[n - 1], below)
    BY DEF Walked
<1> DEFINE S == {n \in Nat : n <= Len(ns) =>
                    at[n] \in 1 .. Len(ns) /\ rank[at[n]] = IF n <= rank[pid] THEN rank[pid] - n ELSE 0}
<1>4. 0 \in S
    BY <1>1, <1>2, <1>3
<1>5. ASSUME NEW n \in Nat, n \in S
      PROVE  n + 1 \in S
    <2> SUFFICES ASSUME n + 1 <= Len(ns)
                 PROVE  /\ at[n + 1] \in 1 .. Len(ns)
                        /\ rank[at[n + 1]] = IF n + 1 <= rank[pid] THEN rank[pid] - (n + 1) ELSE 0
        OBVIOUS
    <2>1. n + 1 \in 1 .. Len(ns) /\ (n + 1) - 1 = n /\ n <= Len(ns)
        BY <1>1
    <2>2. at[n + 1] = NextOf(ns, at[n], below)
        BY <1>3, <2>1
    <2>3. at[n] \in 1 .. Len(ns) /\ rank[at[n]] = IF n <= rank[pid] THEN rank[pid] - n ELSE 0
        BY <1>5, <2>1
    <2> HIDE DEF S
    <2>4. CASE ns[at[n]].is_leaf
        <3>1. at[n + 1] = at[n] /\ rank[at[n]] = 0
            BY <1>2, <2>2, <2>3, <2>4 DEF NextOf
        <3>2. ~(n < rank[pid])
            BY <1>2, <2>3, <3>1
        <3> QED
            BY <1>2, <2>3, <3>1, <3>2
    <2>5. CASE ~ns[at[n]].is_leaf
        <3>1. at[n + 1] \in Kids(ns, at[n])
            BY <2>2, <2>3, <2>5 DEF NextOf
        <3>2. at[n + 1] \in 1 .. Len(ns) /\ rank[at[n]] = rank[at[n + 1]] + 1 /\ rank[at[n + 1]] \in Nat
            BY <1>2, <2>3, <3>1
        <3>3. n < rank[pid] /\ rank[at[n]] = rank[pid] - n
            BY <1>2, <2>3, <3>2
        <3>4. rank[pid] \in Nat
            BY <1>2
        <3> DEFINE top == rank[pid]
                   kid == rank[at[n + 1]]
        <3>6. top \in Nat /\ kid \in Nat /\ n < top /\ top - n = kid + 1
            BY <3>2, <3>3, <3>4
        <3>7. kid = top - (n + 1) /\ n + 1 <= top
            <4> HIDE DEF top, kid
            <4> QED
                BY <3>6
        <3>5. rank[at[n + 1]] = rank[pid] - (n + 1) /\ n + 1 <= rank[pid]
            BY <3>7
        <3> QED
            BY <3>2, <3>5
    <2> QED
        BY <2>4, <2>5
<1>6. \A n \in Nat : n \in S
    <2> HIDE DEF S
    <2> QED
        BY <1>4, <1>5, SetInduction
<1> QED
    BY <1>1, <1>6

\* A walk from the root ends in a leaf of the chain.
LEMMA WalkHangs ==
    ASSUME NEW ns, IndexFile(ns), NEW rank, Ranked(ns, rank), NEW tops, NEW pid \in 1 .. Len(ns), pid \in tops, NEW below,
           \A p \in 1 .. Len(ns) : ~ns[p].is_leaf => below[p] \in Kids(ns, p),
           NEW at, Walked(at, ns, pid, below, Len(ns))
    PROVE  \A n \in 0 .. Len(ns) : Hangs(ns, tops, at[n])
<1>1. Len(ns) \in Nat
    BY DEF IndexFile
<1>2. at[0] = pid /\ \A n \in 1 .. Len(ns) : at[n] = NextOf(ns, at[n - 1], below)
    BY DEF Walked
<1>3. \A n \in 0 .. Len(ns) : at[n] \in 1 .. Len(ns)
    BY WalkRanks
<1> DEFINE S == {n \in Nat : n <= Len(ns) => Hangs(ns, tops, at[n])}
<1>4. 0 \in S
    BY <1>2 DEF Hangs
<1>5. ASSUME NEW n \in Nat, n \in S
      PROVE  n + 1 \in S
    <2> SUFFICES ASSUME n + 1 <= Len(ns)
                 PROVE  Hangs(ns, tops, at[n + 1])
        OBVIOUS
    <2>1. n + 1 \in 1 .. Len(ns) /\ (n + 1) - 1 = n /\ n \in 0 .. Len(ns)
        BY <1>1
    <2>2. at[n + 1] = NextOf(ns, at[n], below) /\ at[n] \in 1 .. Len(ns)
        BY <1>2, <1>3, <2>1
    <2>3. Hangs(ns, tops, at[n])
        BY <1>5, <2>1
    <2>4. CASE ns[at[n]].is_leaf
        BY <2>2, <2>3, <2>4 DEF NextOf
    <2>5. CASE ~ns[at[n]].is_leaf
        <3>1. at[n + 1] \in Kids(ns, at[n])
            BY <2>2, <2>5 DEF NextOf
        <3> QED
            BY <2>2, <3>1 DEF Hangs
    <2> QED
        BY <2>4, <2>5
<1>6. \A n \in Nat : n \in S
    <2> HIDE DEF S
    <2> QED
        BY <1>4, <1>5, SetInduction
<1> QED
    BY <1>1, <1>6

LEMMA InsertChildIsKid ==
    ASSUME NEW ns, IndexFile(ns), NEW p \in 1 .. Len(ns), ~ns[p].is_leaf, NEW key
    PROVE  InsertChild(ns[p], key) \in Kids(ns, p)
<1>1. /\ ns[p].keys \in Seq(Keys) /\ Len(ns[p].keys) \in Nat /\ Len(ns[p].child_nodes) = Len(ns[p].keys) + 1
    BY NodeAt
<1>2. DOMAIN ns[p].keys = 1 .. Len(ns[p].keys)
    BY <1>1
<1> DEFINE S == {i \in DOMAIN ns[p].keys : key <= ns[p].keys[i]} \cup {Len(ns[p].keys) + 1}
<1>3. S \in SUBSET Nat /\ S # {} /\ S \subseteq 1 .. Len(ns[p].keys) + 1
    BY <1>1, <1>2
<1> DEFINE m == Min(S)
<1>4. m \in S
    <2> HIDE DEF S
    <2> QED
        BY <1>3, MinIsLeast
<1>5. m \in 1 .. Len(ns[p].child_nodes)
    BY <1>1, <1>3, <1>4
<1>6. InsertChild(ns[p], key) = ns[p].child_nodes[m]
    BY DEF InsertChild
<1> HIDE DEF m
<1> QED
    BY <1>5, <1>6 DEF Kids, Elems

-----------------------------------------------------------------------------
(* The recursion of index_insert.                                          *)

\* What the call at height n hands up: a tree that holds E, and perhaps beside it a
\* node of that height.  The pages of ns keep their ranks.
HandedUp(ns, rank, root, left, E, n, r) ==
    \E rank2, order2 :
        /\ Holds(r.nodes, Elems(order2), E)
        /\ Len(r.nodes) >= Len(ns) /\ SameRanks(rank, rank2, Len(ns))
        /\ IF r.res = NoSplit
           THEN Tree(r.nodes, root, {root}, rank2, order2, left)
           ELSE /\ IsSplit(r.res, r.nodes) /\ r.res.child_pid # root /\ rank2[r.res.child_pid] = n
                /\ Tree(r.nodes, root, {root, r.res.child_pid}, rank2, order2, left)

LEMMA LeafHandsUp ==
    ASSUME NEW ns, NEW root, NEW rank, NEW order, NEW left, NEW E,
           Tree(ns, root, {root}, rank, order, left), Holds(ns, Elems(order), E),
           NEW pid \in Elems(order), NEW key \in Keys, NEW rid \in Rids, \A a \in E : a[2] # rid
    PROVE  HandedUp(ns, rank, root, left, E \cup {<<key, rid>>}, 0, bptree_leaf_insert(ns, pid, key, rid))
<1>1. /\ IndexFile(ns) /\ root \in 1 .. Len(ns) /\ Ranked(ns, rank) /\ Linked(ns, {root}, order)
    BY DEF Tree
<1>2. pid \in 1 .. Len(ns) /\ ns[pid].is_leaf
    BY <1>1, ChainedLeaf
<1>3. Len(ns) \in Nat
    BY <1>1 DEF IndexFile
<1> DEFINE r == bptree_leaf_insert(ns, pid, key, rid)
           F == E \cup {<<key, rid>>}
<1>4. CASE ~Full(ns[pid].keys)
    <2>1. r.res = NoSplit /\ LeafGrown(ns, r.nodes, pid, key, rid)
        BY <1>1, <1>2, <1>4, LeafGrows
    <2> HIDE DEF r
    <2>2. Tree(r.nodes, root, {root}, rank, order, left)
        <3> DEFINE ms == r.nodes
                   tops == {root}
        <3>1. /\ LeafGrown(ns, ms, pid, key, rid)
              /\ Tree(ns, root, tops, rank, order, left) /\ Holds(ns, Elems(order), E)
            BY <2>1
        <3> HIDE DEF ms, tops
        <3>2. Tree(ms, root, tops, rank, order, left)
            BY <3>1, TreeLeafGrown
        <3> QED
            BY <3>2 DEF ms, tops
    <2>3. Holds(r.nodes, Elems(order), F)
        BY <2>1, TreeLeafGrown
    <2>4. Len(r.nodes) >= Len(ns)
        BY <1>3, <2>1 DEF LeafGrown
    <2>5. SameRanks(rank, rank, Len(ns))
        BY DEF SameRanks
    <2> HIDE DEF F
    <2>6. HandedUp(ns, rank, root, left, F, 0, r)
        BY <2>1, <2>2, <2>3, <2>4, <2>5 DEF HandedUp
    <2> QED
        BY <2>6 DEF r, F
<1>5. CASE Full(ns[pid].keys)
    <2>1. IsSplit(r.res, r.nodes) /\ LeafSplit(ns, r.nodes, pid, key, rid, r.res)
        BY <1>1, <1>2, <1>5, LeafSplits
    <2> HIDE DEF r
    <2>2. Len(r.nodes) = Len(ns) + 1 /\ r.res.child_pid = Len(ns) + 1
        BY <2>1, Zenon DEF LeafSplit
    <2> DEFINE c == r.res.child_pid
    <2>3. SplitTree(ns, r.nodes, root, rank, left, F)
        BY <1>5, <2>1, TreeLeafSplit
    <2>4. PICK rank2, order2 :
              /\ Tree(r.nodes, root, {root, c}, rank2, order2, left)
              /\ Holds(r.nodes, Elems(order2), F)
              /\ SameRanks(rank, rank2, Len(ns)) /\ rank2[c] = 0
        BY <2>2, <2>3 DEF SplitTree
    <2>5. c # root /\ Len(r.nodes) >= Len(ns) /\ r.res # NoSplit
        BY <1>1, <1>3, <2>1, <2>2 DEF IsSplit
    <2> HIDE DEF F
    <2>6. HandedUp(ns, rank, root, left, F, 0, r)
        BY <2>1, <2>4, <2>5 DEF HandedUp
    <2> QED
        BY <2>6 DEF r, F
<1> QED
    BY <1>4, <1>5

TakeIn(below, pid) ==
    IF below.res = NoSplit THEN below ELSE bptree_internal_insert(below.nodes, pid, below.res)

LEMMA InternalHandsUp ==
    ASSUME NEW ns, Len(ns) \in Nat, NEW root, NEW rank, NEW left, NEW E, NEW n \in Nat, NEW below,
           HandedUp(ns, rank, root, left, E, n, below),
           NEW pid \in 1 .. Len(ns), rank[pid] = n + 1
    PROVE  HandedUp(ns, rank, root, left, E, n + 1, TakeIn(below, pid))
<1>1. PICK rank1, order :
        /\ Holds(below.nodes, Elems(order), E)
        /\ Len(below.nodes) >= Len(ns) /\ SameRanks(rank, rank1, Len(ns))
        /\ IF below.res = NoSplit
           THEN Tree(below.nodes, root, {root}, rank1, order, left)
           ELSE /\ IsSplit(below.res, below.nodes) /\ below.res.child_pid # root /\ rank1[below.res.child_pid] = n
                /\ Tree(below.nodes, root, {root, below.res.child_pid}, rank1, order, left)
    BY DEF HandedUp
<1>2. CASE below.res = NoSplit
    <2>1. TakeIn(below, pid) = below
        BY <1>2 DEF TakeIn
    <2>2. HandedUp(ns, rank, root, left, E, n + 1, below)
        BY <1>1, <1>2 DEF HandedUp
    <2> QED
        BY <2>1, <2>2
<1>3. CASE below.res # NoSplit
    <2> DEFINE ms == below.nodes
               split == below.res
               c == split.child_pid
               r == bptree_internal_insert(ms, pid, split)
    <2>1. TakeIn(below, pid) = r
        BY <1>3 DEF TakeIn
    <2>2. /\ Holds(ms, Elems(order), E) /\ Len(ms) >= Len(ns) /\ SameRanks(rank, rank1, Len(ns))
          /\ IsSplit(split, ms) /\ c # root /\ rank1[c] = n
          /\ Tree(ms, root, {root, c}, rank1, order, left)
        BY <1>1, <1>3
    <2> HIDE DEF ms, split
    <2>3. /\ IndexFile(ms) /\ root \in 1 .. Len(ms) /\ c \in 1 .. Len(ms) /\ c \in {root, c}
          /\ Ranked(ms, rank1) /\ OneParent(ms, {root, c})
        BY <2>2 DEF Tree
    <2>4. Len(ms) \in Nat
        BY <2>3 DEF IndexFile
    <2>5. pid \in 1 .. Len(ms) /\ rank1[pid] = n + 1 /\ rank1[pid] = rank1[c] + 1
        BY <2>2, <2>4 DEF SameRanks
    <2>6. ~ms[pid].is_leaf
        <3>1. ms[pid].is_leaf <=> rank1[pid] = 0
            BY <2>3, <2>5 DEF Ranked
        <3> QED
            BY <2>5, <3>1
    <2>7. Once(ms[pid].child_nodes) /\ c \notin Kids(ms, pid)
        BY <2>3, <2>5 DEF OneParent
    <2>8. CASE ~Full(ms[pid].keys)
        <3>1. r.res = NoSplit
            BY <2>2, <2>3, <2>5, <2>6, <2>8, InternalGrows
        <3>2. InternalGrown(ms, r.nodes, pid, split)
            BY <2>2, <2>3, <2>5, <2>6, <2>8, InternalGrows
        <3> HIDE DEF r
        <3>3. Dealt(ms, r.nodes, pid, c)
            BY <2>2, <2>3, <2>5, <2>6, <2>7, <3>2, InternalGrownDealt
        <3>4. r.nodes[Len(ms) + 1].is_leaf
            BY <2>2, <2>3, <2>5, <2>6, <2>7, <3>2, InternalGrownDealt
        <3> HIDE DEF c
        <3>5. Len(ms) + 1 \notin {root}
            BY <2>3, <2>4
        <3>6. StillTree(ms, r.nodes, root, {root}, rank1, order, left, E, 0)
            <4> DEFINE tops == {root}
            <4>1. root \in tops /\ tops \subseteq {root, Len(ms) + 1} /\ Len(ms) + 1 \notin tops
                BY <3>5
            <4> HIDE DEF tops
            <4>2. TopsLeft(ms, r.nodes, root, tops, rank1, pid, 0)
                BY <3>4, <4>1 DEF TopsLeft
            <4>3. StillTree(ms, r.nodes, root, tops, rank1, order, left, E, 0)
                BY <2>2, <2>5, <2>6, <3>3, <4>2, TreeDealt
            <4> QED
                BY <4>3 DEF tops
        <3>7. PICK rank2 :
                 /\ Tree(r.nodes, root, {root}, rank2, order, left) /\ Holds(r.nodes, Elems(order), E)
                 /\ SameRanks(rank1, rank2, Len(ms))
            BY <3>6 DEF StillTree
        <3>8. SameRanks(rank, rank2, Len(ns)) /\ Len(r.nodes) >= Len(ns)
            <4>1. Len(r.nodes) = Len(ms) + 1
                BY <3>2 DEF InternalGrown
            <4>2. \A p \in 1 .. Len(ns) : p \in 1 .. Len(ms)
                BY <2>2, <2>4
            <4> QED
                BY <2>2, <2>4, <3>7, <4>1, <4>2 DEF SameRanks
        <3>9. HandedUp(ns, rank, root, left, E, n + 1, r)
            BY <3>1, <3>7, <3>8 DEF HandedUp
        <3> QED
            BY <2>1, <3>9
    <2>9. CASE Full(ms[pid].keys)
        <3>1. IsSplit(r.res, r.nodes)
            BY <2>2, <2>3, <2>5, <2>6, <2>9, InternalSplits
        <3>2. InternalSplit(ms, r.nodes, pid, split, r.res)
            BY <2>2, <2>3, <2>5, <2>6, <2>9, InternalSplits
        <3> HIDE DEF r
        <3>3. Dealt(ms, r.nodes, pid, c)
            BY <2>2, <2>3, <2>5, <2>6, <2>7, <2>9, <3>2, InternalSplitDealt
        <3>4. ~r.nodes[Len(ms) + 1].is_leaf
            BY <2>2, <2>3, <2>5, <2>6, <2>7, <2>9, <3>2, InternalSplitDealt
        <3>5. Len(r.nodes) = Len(ms) + 1 /\ r.res.child_pid = Len(ms) + 1
            BY <3>2, Zenon DEF InternalSplit
        <3> HIDE DEF c
        <3> DEFINE d == r.res.child_pid
        <3>6. StillTree(ms, r.nodes, root, {root, Len(ms) + 1}, rank1, order, left, E, rank1[pid])
            <4> DEFINE tops == {root, Len(ms) + 1}
                       r1 == rank1[pid]
            <4>1. TopsLeft(ms, r.nodes, root, tops, rank1, pid, r1)
                BY <3>4 DEF TopsLeft
            <4> HIDE DEF tops, r1
            <4>2. StillTree(ms, r.nodes, root, tops, rank1, order, left, E, r1)
                BY <2>2, <2>5, <2>6, <3>3, <4>1, TreeDealt
            <4> QED
                BY <4>2 DEF tops, r1
        <3>7. PICK rank2 :
                 /\ Tree(r.nodes, root, {root, d}, rank2, order, left) /\ Holds(r.nodes, Elems(order), E)
                 /\ SameRanks(rank1, rank2, Len(ms)) /\ rank2[d] = n + 1
            BY <2>5, <3>5, <3>6 DEF StillTree
        <3>8. SameRanks(rank, rank2, Len(ns)) /\ Len(r.nodes) >= Len(ns) /\ d # root
            <4>1. \A p \in 1 .. Len(ns) : p \in 1 .. Len(ms)
                BY <2>2, <2>4
            <4>2. Len(r.nodes) >= Len(ns) /\ d # root
                BY <2>2, <2>3, <2>4, <3>5
            <4> QED
                BY <2>2, <3>7, <4>1, <4>2 DEF SameRanks
        <3>9. r.res # NoSplit
            BY <3>1 DEF IsSplit
        <3>10. HandedUp(ns, rank, root, left, E, n + 1, r)
            BY <3>1, <3>7, <3>8, <3>9 DEF HandedUp
        <3> QED
            BY <2>1, <3>10
    <2> QED
        BY <2>8, <2>9
<1> QED
    BY <1>2, <1>3

\* The calls of index_insert return from the leaf upwards.
IsReturned(f, first, path, depth) ==
    f = [n \in 0 .. depth |-> IF n = 0 THEN first ELSE TakeIn(f[n - 1], path[depth - n])]

LEMMA ReturnedExists ==
    ASSUME NEW first, NEW path, NEW depth \in Nat
    PROVE  \E f : IsReturned(f, first, path, depth)
<1> DEFINE F(m) == \E f : f = [n \in 0 .. m |-> IF n = 0 THEN first ELSE TakeIn(f[n - 1], path[depth - n])]
           S == {m \in Nat : F(m)}
<1>1. 0 \in S
    <2> DEFINE f == [n \in 0 .. 0 |-> first]
    <2>1. f = [n \in 0 .. 0 |-> IF n = 0 THEN first ELSE TakeIn(f[n - 1], path[depth - n])]
        OBVIOUS
    <2> QED
        BY <2>1
<1>2. ASSUME NEW m \in Nat, m \in S
      PROVE  m + 1 \in S
    <2>1. PICK f : f = [n \in 0 .. m |-> IF n = 0 THEN first ELSE TakeIn(f[n - 1], path[depth - n])]
        BY <1>2
    <2> DEFINE g == [n \in 0 .. m + 1 |-> IF n = m + 1 THEN TakeIn(f[m], path[depth - n]) ELSE f[n]]
    <2>2. \A n \in 0 .. m + 1 : g[n] = IF n = 0 THEN first ELSE TakeIn(g[n - 1], path[depth - n])
        BY <2>1
    <2>3. g = [n \in 0 .. m + 1 |-> IF n = 0 THEN first ELSE TakeIn(g[n - 1], path[depth - n])]
        BY <2>2
    <2> HIDE DEF g
    <2>4. F(m + 1)
        BY <2>3
    <2> QED
        BY <2>4
<1> HIDE DEF S
<1>3. depth \in S
    BY <1>1, <1>2, SetInduction
<1> QED
    BY <1>3 DEF S, IsReturned

CallsOf(ns, pid, key) == Walk(ns, pid, [p \in Internal(ns) |-> InsertChild(ns[p], key)])
DepthOf(ns, path) == Min({n \in 0 .. Len(ns) : ns[path[n]].is_leaf})

\* The pages of the calls, and what each call needs of its page.
GoesDown(ns, root, key, rank, order, path, depth) ==
    /\ path = CallsOf(ns, root, key) /\ depth = DepthOf(ns, path)
    /\ depth \in Nat /\ path[depth] \in Elems(order)
    /\ \A n \in 1 .. depth : path[depth - n] \in 1 .. Len(ns) /\ rank[path[depth - n]] = n

LEMMA InsertBelowReturned ==
    ASSUME NEW ns, NEW root, NEW key, NEW rid, NEW rank, NEW order, NEW path, NEW depth,
           GoesDown(ns, root, key, rank, order, path, depth)
    PROVE  \E f : /\ insert_below(ns, root, key, rid) = f[depth]
                  /\ f[0] = bptree_leaf_insert(ns, path[depth], key, rid)
                  /\ \A n \in 1 .. depth : f[n] = TakeIn(f[n - 1], path[depth - n])
<1> DEFINE first == bptree_leaf_insert(ns, path[depth], key, rid)
           f == CHOOSE g : IsReturned(g, first, path, depth)
<1>0. depth \in Nat /\ path = CallsOf(ns, root, key) /\ depth = DepthOf(ns, path)
    BY DEF GoesDown
<1>1. insert_below(ns, root, key, rid) = f[depth]
    BY <1>0, Zenon DEF insert_below, IsReturned, TakeIn, CallsOf, DepthOf
<1>2. IsReturned(f, first, path, depth)
    <2>1. \E g : IsReturned(g, first, path, depth)
        BY <1>0, ReturnedExists
    <2> HIDE DEF first
    <2> QED
        BY <2>1
<1> HIDE DEF f, first
<1>3. \A n \in 0 .. depth : f[n] = IF n = 0 THEN first ELSE TakeIn(f[n - 1], path[depth - n])
    <2> DEFINE e(n) == IF n = 0 THEN first ELSE TakeIn(f[n - 1], path[depth - n])
    <2>1. f = [n \in 0 .. depth |-> e(n)]
        BY <1>2, Zenon DEF IsReturned
    <2> HIDE DEF e
    <2>2. \A n \in 0 .. depth : f[n] = e(n)
        BY <2>1
    <2> QED
        BY <2>2 DEF e
<1>4. f[0] = first /\ \A n \in 1 .. depth : f[n] = TakeIn(f[n - 1], path[depth - n])
    BY <1>0, <1>3
<1> QED
    BY <1>1, <1>4 DEF first

\* The calls go down to a leaf of the chain: as many as the root is high.
LEMMA CallsGoDown ==
    ASSUME NEW ns, NEW root, NEW rank, NEW order, NEW left, NEW key,
           Tree(ns, root, {root}, rank, order, left)
    PROVE  GoesDown(ns, root, key, rank, order, CallsOf(ns, root, key), rank[root])
<1> DEFINE below == [p \in Internal(ns) |-> InsertChild(ns[p], key)]
           path == CallsOf(ns, root, key)
<1>1. /\ IndexFile(ns) /\ root \in 1 .. Len(ns) /\ root \in {root}
      /\ Ranked(ns, rank) /\ Linked(ns, {root}, order)
    BY DEF Tree
<1>2. Len(ns) \in Nat
    BY <1>1 DEF IndexFile
<1>3. \A p \in 1 .. Len(ns) : ~ns[p].is_leaf => below[p] \in Kids(ns, p)
    <2> SUFFICES ASSUME NEW p \in 1 .. Len(ns), ~ns[p].is_leaf
                 PROVE  below[p] \in Kids(ns, p)
        OBVIOUS
    <2>1. p \in Internal(ns)
        BY DEF Internal
    <2>2. below[p] = InsertChild(ns[p], key)
        BY <2>1
    <2>3. InsertChild(ns[p], key) \in Kids(ns, p)
        BY <1>1, InsertChildIsKid
    <2> QED
        BY <2>2, <2>3
<1>4. Walked(path, ns, root, below, Len(ns))
    BY <1>2, WalkSteps DEF CallsOf
<1> HIDE DEF below, path
<1>5. \A n \in 0 .. Len(ns) : path[n] \in 1 .. Len(ns) /\ rank[path[n]] = IF n <= rank[root] THEN rank[root] - n ELSE 0
    BY <1>1, <1>3, <1>4, WalkRanks
<1>6. \A n \in 0 .. Len(ns) : Hangs(ns, {root}, path[n])
    BY <1>1, <1>3, <1>4, WalkHangs
<1>7. /\ rank[root] \in Nat /\ rank[root] < Len(ns)
      /\ \A p \in 1 .. Len(ns) : ns[p].is_leaf <=> rank[p] = 0
    BY <1>1 DEF Ranked
<1> DEFINE d == rank[root]
<1> HIDE DEF d
<1>8. d \in Nat /\ d < Len(ns) /\ \A n \in 0 .. Len(ns) : rank[path[n]] = IF n <= d THEN d - n ELSE 0
    BY <1>5, <1>7 DEF d
<1>9. \A n \in 0 .. Len(ns) : ns[path[n]].is_leaf <=> n >= d
    BY <1>2, <1>5, <1>7, <1>8
<1>10. DepthOf(ns, path) = d
    <2> DEFINE T == {n \in 0 .. Len(ns) : ns[path[n]].is_leaf}
    <2>1. d \in T /\ T \in SUBSET Nat /\ \A n \in T : n >= d /\ n \in Nat
        BY <1>2, <1>8, <1>9
    <2> HIDE DEF T
    <2> DEFINE m == Min(T)
    <2>2. m \in T /\ \A j \in T : m <= j
        BY <2>1, MinIsLeast
    <2>3. DepthOf(ns, path) = m
        BY DEF DepthOf, T
    <2> HIDE DEF m
    <2>4. m <= d /\ m >= d /\ m \in Nat
        BY <2>1, <2>2
    <2>5. m = d
        BY <1>8, <2>4
    <2> QED
        BY <2>3, <2>5
<1>11. path[d] \in Elems(order)
    <2>1. d \in 0 .. Len(ns)
        BY <1>2, <1>8
    <2>2. path[d] \in 1 .. Len(ns)
        BY <1>5, <2>1
    <2>3. Hangs(ns, {root}, path[d])
        BY <1>6, <2>1
    <2>4. d >= d
        BY <1>8
    <2>5. ns[path[d]].is_leaf
        BY <1>9, <2>1, <2>4
    <2> QED
        BY <1>1, <2>2, <2>3, <2>5 DEF Linked
<1>12. ASSUME NEW n \in 1 .. d
       PROVE  path[d - n] \in 1 .. Len(ns) /\ rank[path[d - n]] = n
    <2>1. d - n \in 0 .. Len(ns) /\ d - n <= d /\ d - (d - n) = n
        BY <1>2, <1>8
    <2> QED
        BY <1>5, <1>8, <2>1
<1> QED
    <2>1. path = CallsOf(ns, root, key)
        BY DEF path
    <2>2. GoesDown(ns, root, key, rank, order, path, d)
        BY <1>8, <1>10, <1>11, <1>12, <2>1 DEF GoesDown
    <2> QED
        BY <2>2 DEF d, path

LEMMA InsertBelow ==
    ASSUME NEW ns, NEW root, NEW rank, NEW order, NEW left, NEW E,
           Tree(ns, root, {root}, rank, order, left), Holds(ns, Elems(order), E),
           NEW key \in Keys, NEW rid \in Rids, \A a \in E : a[2] # rid
    PROVE  HandedUp(ns, rank, root, left, E \cup {<<key, rid>>}, rank[root], insert_below(ns, root, key, rid))
<1> DEFINE path == CallsOf(ns, root, key)
           depth == rank[root]
           F == E \cup {<<key, rid>>}
<1>0. GoesDown(ns, root, key, rank, order, path, depth)
    BY CallsGoDown
<1> HIDE DEF path, depth
<1>1. /\ depth \in Nat /\ path[depth] \in Elems(order)
      /\ \A n \in 1 .. depth : path[depth - n] \in 1 .. Len(ns) /\ rank[path[depth - n]] = n
    BY <1>0 DEF GoesDown
<1>2. Len(ns) \in Nat
    BY DEF Tree, IndexFile
<1>3. \E f : /\ insert_below(ns, root, key, rid) = f[depth]
             /\ f[0] = bptree_leaf_insert(ns, path[depth], key, rid)
             /\ \A n \in 1 .. depth : f[n] = TakeIn(f[n - 1], path[depth - n])
    BY <1>0, InsertBelowReturned
<1>4. PICK f : /\ insert_below(ns, root, key, rid) = f[depth]
               /\ f[0] = bptree_leaf_insert(ns, path[depth], key, rid)
               /\ \A n \in 1 .. depth : f[n] = TakeIn(f[n - 1], path[depth - n])
    BY <1>3
<1> DEFINE S == {n \in Nat : n <= depth => HandedUp(ns, rank, root, left, F, n, f[n])}
<1>5. HandedUp(ns, rank, root, left, F, 0, f[0])
    BY <1>1, <1>4, LeafHandsUp
<1> HIDE DEF F
<1>6. 0 \in S
    BY <1>5
<1>7. ASSUME NEW n \in Nat, n \in S
      PROVE  n + 1 \in S
    <2> SUFFICES ASSUME n + 1 <= depth
                 PROVE  HandedUp(ns, rank, root, left, F, n + 1, f[n + 1])
        OBVIOUS
    <2> DEFINE pid == path[depth - (n + 1)]
    <2>1. n + 1 \in 1 .. depth /\ (n + 1) - 1 = n /\ n <= depth
        BY <1>1
    <2>2. f[n + 1] = TakeIn(f[n], pid) /\ pid \in 1 .. Len(ns) /\ rank[pid] = n + 1
        BY <1>1, <1>4, <2>1
    <2>3. HandedUp(ns, rank, root, left, F, n, f[n])
        BY <1>7, <2>1
    <2> HIDE DEF pid, S
    <2>4. HandedUp(ns, rank, root, left, F, n + 1, TakeIn(f[n], pid))
        BY <1>2, <2>2, <2>3, InternalHandsUp
    <2> QED
        BY <2>2, <2>4
<1>8. depth \in S
    <2> HIDE DEF S
    <2> QED
        BY <1>1, <1>6, <1>7, SetInduction
<1>9. HandedUp(ns, rank, root, left, F, depth, f[depth])
    BY <1>1, <1>8
<1> QED
    BY <1>4, <1>9 DEF F, depth

\* index_insert, whatever tree it is given and wherever the key goes: what it leaves is a
\* tree whose leaves hold what they held, and the new entry.
THEOREM IndexInsert ==
    ASSUME NEW ns, NEW root, NEW E, Whole(ns, root, E),
           NEW key \in Keys, NEW rid \in Rids, \A a \in E : a[2] # rid,
           NEW t, t = index_insert([nodes |-> ns, root_pid |-> root], key, rid)
    PROVE  Whole(t.nodes, t.root_pid, E \cup {<<key, rid>>})
<1>1. PICK rank, order, left : Tree(ns, root, {root}, rank, order, left) /\ Holds(ns, Elems(order), E)
    BY DEF Whole
<1> DEFINE r == insert_below(ns, root, key, rid)
           F == E \cup {<<key, rid>>}
           height == rank[root]
<1>2. HandedUp(ns, rank, root, left, F, height, r)
    BY <1>1, InsertBelow
<1>3. t = IF r.res = NoSplit THEN [nodes |-> r.nodes, root_pid |-> root]
          ELSE GrowRoot([nodes |-> r.nodes, root_pid |-> root], r.res)
    BY DEF index_insert
<1> HIDE DEF r, F
<1>4. PICK rank2, order2 :
        /\ Holds(r.nodes, Elems(order2), F)
        /\ Len(r.nodes) >= Len(ns) /\ SameRanks(rank, rank2, Len(ns))
        /\ IF r.res = NoSplit
           THEN Tree(r.nodes, root, {root}, rank2, order2, left)
           ELSE /\ IsSplit(r.res, r.nodes) /\ r.res.child_pid # root /\ rank2[r.res.child_pid] = height
                /\ Tree(r.nodes, root, {root, r.res.child_pid}, rank2, order2, left)
    BY <1>2 DEF HandedUp
<1>5. CASE r.res = NoSplit
    <2>1. t.nodes = r.nodes /\ t.root_pid = root
        BY <1>3, <1>5
    <2>2. Whole(r.nodes, root, F)
        BY <1>4, <1>5 DEF Whole
    <2> QED
        BY <2>1, <2>2 DEF F
<1>6. CASE r.res # NoSplit
    <2> DEFINE c == r.res.child_pid
               promoted == r.res.promoted_key
               ms == r.nodes
    <2>1. /\ t.nodes = Append(ms, InternalNode(<<promoted>>, <<root, c>>))
          /\ t.root_pid = Len(ms) + 1
        BY <1>3, <1>6 DEF GrowRoot
    <2>2. /\ promoted \in Keys /\ c # root /\ rank2[c] = height
          /\ Tree(ms, root, {root, c}, rank2, order2, left) /\ Holds(ms, Elems(order2), F)
        BY <1>4, <1>6 DEF IsSplit
    <2>3. rank2[root] = height
        <3>1. root \in 1 .. Len(ns)
            BY <1>1 DEF Tree
        <3> QED
            BY <1>4, <3>1 DEF SameRanks
    <2> HIDE DEF c, promoted, ms
    <2>4. Whole(Append(ms, InternalNode(<<promoted>>, <<root, c>>)), Len(ms) + 1, F)
        BY <2>2, <2>3, TreeRootGrown
    <2> QED
        BY <2>1, <2>4 DEF F
<1> QED
    BY <1>5, <1>6

-----------------------------------------------------------------------------
(* The inductive invariant.                                                *)

EntriesOK ==
    /\ entries \subseteq Keys \X Rids /\ IsFiniteSet(entries)
    /\ \A e \in entries : e[2] <= Cardinality(entries)

IInv ==
    /\ EntriesOK
    /\ root_pid = INVALID_PAGE_ID => nodes = << >> /\ entries = {}
    /\ root_pid # INVALID_PAGE_ID => Whole(nodes, root_pid, entries)

LEMMA InitTree == Init => IInv
<1> SUFFICES ASSUME Init PROVE IInv
    OBVIOUS
<1>1. EntriesOK
    BY FS_EmptySet DEF Init, EntriesOK
<1> QED
    BY <1>1 DEF Init, IInv

LEMMA InsertKeepsTree ==
    ASSUME IInv, NEW key \in Keys, Insert(key)
    PROVE  IInv'
<1> DEFINE rid == Cardinality(entries) + 1
           t == IF root_pid = INVALID_PAGE_ID
                THEN [nodes |-> fetch_page(nodes), root_pid |-> Len(nodes) + 1]
                ELSE tree
           new == index_insert(t, key, rid)
           added == entries \cup {<<key, rid>>}
<1>1. rid <= MaxInserts /\ nodes' = new.nodes /\ root_pid' = new.root_pid /\ entries' = added
    BY DEF Insert
<1>2. Cardinality(entries) \in Nat
    BY FS_CardinalityType DEF IInv, EntriesOK
<1>3. rid \in Rids /\ \A a \in entries : a[2] # rid
    <2>1. rid \in Rids
        BY <1>1, <1>2, BPlusTreeAssumption DEF Rids
    <2>2. ASSUME NEW a \in entries PROVE a[2] # rid
        <3>1. a[2] <= Cardinality(entries)
            BY DEF IInv, EntriesOK
        <3>2. a[2] \in Rids
            BY DEF IInv, EntriesOK
        <3> QED
            BY <1>2, <3>1, <3>2, BPlusTreeAssumption DEF Rids
    <2> QED
        BY <2>1, <2>2
<1>4. EntriesOK'
    <2>1. added \subseteq Keys \X Rids
        BY <1>3 DEF IInv, EntriesOK
    <2>2. IsFiniteSet(added) /\ Cardinality(added) = Cardinality(entries) + 1
        <3>1. <<key, rid>> \notin entries
            BY <1>3
        <3> QED
            BY <3>1, FS_AddElement DEF IInv, EntriesOK
    <2>3. ASSUME NEW e \in added PROVE e[2] <= Cardinality(added)
        <3>1. CASE e \in entries
            <4>1. e[2] <= Cardinality(entries) /\ e[2] \in Rids
                BY <3>1 DEF IInv, EntriesOK
            <4> QED
                BY <1>2, <2>2, <4>1, BPlusTreeAssumption DEF Rids
        <3>2. CASE e = <<key, rid>>
            BY <1>2, <2>2, <3>2
        <3> QED
            BY <3>1, <3>2
    <2> QED
        BY <1>1, <2>1, <2>2, <2>3 DEF EntriesOK
<1>5. PICK ns, root : t = [nodes |-> ns, root_pid |-> root] /\ Whole(ns, root, entries)
    <2>1. CASE root_pid = INVALID_PAGE_ID
        <3>1. nodes = << >> /\ entries = {} /\ IndexFile(nodes) /\ Len(nodes) = 0
            BY <2>1 DEF IInv, IndexFile
        <3>2. Whole(fetch_page(nodes), Len(nodes) + 1, entries)
            BY <3>1, FirstLeaf
        <3>3. t = [nodes |-> fetch_page(nodes), root_pid |-> Len(nodes) + 1]
            BY <2>1
        <3> HIDE DEF t
        <3> QED
            BY <3>2, <3>3
    <2>2. CASE root_pid # INVALID_PAGE_ID
        BY <2>2 DEF IInv, tree
    <2> QED
        BY <2>1, <2>2
<1> HIDE DEF t, rid
<1>6. Whole(new.nodes, new.root_pid, added)
    BY <1>3, <1>5, IndexInsert
<1>7. new.root_pid # INVALID_PAGE_ID
    <2> HIDE DEF new
    <2>1. PICK rank, order, left : Tree(new.nodes, new.root_pid, {new.root_pid}, rank, order, left)
        BY <1>6 DEF Whole
    <2>2. new.root_pid \in 1 .. Len(new.nodes) /\ Len(new.nodes) \in Nat
        BY <2>1 DEF Tree, IndexFile
    <2> QED
        BY <2>2 DEF INVALID_PAGE_ID
<1> HIDE DEF new, added
<1> QED
    BY <1>1, <1>4, <1>6, <1>7 DEF IInv

LEMMA TreeKept == Spec => []IInv
<1>1. IInv /\ [Next]_vars => IInv'
    <2> SUFFICES ASSUME IInv, [Next]_vars PROVE IInv'
        OBVIOUS
    <2>1. ASSUME NEW key \in Keys, Insert(key) PROVE IInv'
        BY <2>1, InsertKeepsTree
    <2>2. CASE UNCHANGED vars
        BY <2>2 DEF IInv, EntriesOK, vars
    <2> QED
        BY <2>1, <2>2 DEF Next, Done
<1> QED
    BY <1>1, InitTree, PTL DEF Spec

LEMMA TreeIsTyped == IInv => TypeOK
<1> SUFFICES ASSUME IInv PROVE TypeOK
    OBVIOUS
<1>1. IndexFile(nodes) /\ root_pid \in 0 .. Len(nodes)
    <2>1. CASE root_pid = INVALID_PAGE_ID
        BY <2>1 DEF IInv, IndexFile, INVALID_PAGE_ID
    <2>2. CASE root_pid # INVALID_PAGE_ID
        <3>1. PICK rank, order, left : Tree(nodes, root_pid, {root_pid}, rank, order, left)
            BY <2>2 DEF IInv, Whole
        <3>2. IndexFile(nodes) /\ root_pid \in 1 .. Len(nodes) /\ Len(nodes) \in Nat
            BY <3>1 DEF Tree, IndexFile
        <3> QED
            BY <3>2
    <2> QED
        BY <2>1, <2>2
<1> QED
    BY <1>1 DEF IInv, EntriesOK, IndexFile, TypeOK

\* Every page is a well-formed leaf or internal node whose children are pages of the
\* file, through any sequence of insertions.
THEOREM TreeTypesOK == Spec => []TypeOK
BY TreeKept, TreeIsTyped, PTL

-----------------------------------------------------------------------------
(* The chain of leaves.                                                    *)

LEMMA ChainLength ==
    ASSUME NEW ns, NEW tops, NEW order, Linked(ns, tops, order), Len(ns) \in Nat
    PROVE  Len(order) <= Len(ns)
<1> DEFINE S == 1 .. Len(order)
           T == 1 .. Len(ns)
           f == [i \in S |-> order[i]]
<1>1. order \in Seq(Nat) /\ Len(order) \in Nat /\ Once(order) /\ \A i \in S : order[i] \in T
    BY DEF Linked
<1> SUFFICES ASSUME Len(ns) < Len(order) PROVE FALSE
    BY <1>1
<1>2. IsFiniteSet(S) /\ IsFiniteSet(T) /\ Cardinality(S) = Len(order) /\ Cardinality(T) = Len(ns)
    <2>1. IsFiniteSet(S) /\ IsFiniteSet(T)
        BY <1>1, FS_Interval
    <2>2. Cardinality(S) = IF 1 > Len(order) THEN 0 ELSE Len(order) - 1 + 1
        BY <1>1, FS_Interval
    <2>3. Cardinality(T) = IF 1 > Len(ns) THEN 0 ELSE Len(ns) - 1 + 1
        <3> DEFINE pages == Len(ns)
        <3>1. 1 \in Int /\ pages \in Int
            OBVIOUS
        <3> HIDE DEF pages
        <3>2. Cardinality(1 .. pages) = IF 1 > pages THEN 0 ELSE pages - 1 + 1
            BY <3>1, FS_Interval
        <3> QED
            BY <3>2 DEF pages
    <2> QED
        BY <1>1, <2>1, <2>2, <2>3
<1>3. f \in [S -> T]
    BY <1>1
<1>4. \A i, j \in S : f[i] = f[j] => i = j
    BY <1>1 DEF Once
<1> HIDE DEF S, T, f
<1>5. Cardinality(T) < Cardinality(S)
    BY <1>2
<1>6. \E i, j \in S : i # j /\ f[i] = f[j]
    BY <1>2, <1>3, <1>5, FS_PigeonHole
<1> QED
    BY <1>4, <1>6

LEMMA LeftmostIsFirst ==
    ASSUME NEW rank, NEW order, NEW left, Tree(nodes, root_pid, {root_pid}, rank, order, left)
    PROVE  LeftmostLeaf = 1
<1> DEFINE ns == nodes
           below == [p \in Internal(ns) |-> ns[p].child_nodes[1]]
           at == Walk(ns, root_pid, below)
<1>1. /\ IndexFile(ns) /\ root_pid \in 1 .. Len(ns) /\ Ranked(ns, rank) /\ Leftmost(ns, root_pid, left)
    BY DEF Tree
<1>2. Len(ns) \in Nat
    BY <1>1 DEF IndexFile
<1>3. \A p \in 1 .. Len(ns) : ~ns[p].is_leaf => below[p] = ns[p].child_nodes[1]
    BY DEF Internal
<1>4. Walked(at, ns, root_pid, below, Len(ns))
    BY <1>2, WalkSteps
<1>5. LeftmostLeaf = at[Len(ns)]
    BY DEF LeftmostLeaf
<1> HIDE DEF ns, below, at
<1>6. \A p \in 1 .. Len(ns) : ~ns[p].is_leaf => below[p] \in Kids(ns, p)
    <2> SUFFICES ASSUME NEW p \in 1 .. Len(ns), ~ns[p].is_leaf
                 PROVE  below[p] \in Kids(ns, p)
        OBVIOUS
    <2>1. Len(ns[p].child_nodes) = Len(ns[p].keys) + 1 /\ Len(ns[p].keys) \in 0 .. MAX_KEYS
        BY <1>1, NodeAt
    <2>2. 1 \in 1 .. Len(ns[p].child_nodes)
        BY <2>1, BPlusTreeAssumption
    <2> QED
        BY <1>3, <2>2 DEF Kids, Elems
<1>7. \A n \in 0 .. Len(ns) : at[n] \in 1 .. Len(ns) /\ rank[at[n]] = IF n <= rank[root_pid] THEN rank[root_pid] - n ELSE 0
    BY <1>1, <1>4, <1>6, WalkRanks
<1>8. /\ rank[root_pid] \in Nat /\ rank[root_pid] < Len(ns)
      /\ \A p \in 1 .. Len(ns) : ns[p].is_leaf <=> rank[p] = 0
    BY <1>1 DEF Ranked
<1>9. at[Len(ns)] \in 1 .. Len(ns) /\ ns[at[Len(ns)]].is_leaf
    <2>1. Len(ns) \in 0 .. Len(ns) /\ ~(Len(ns) <= rank[root_pid])
        BY <1>2, <1>8
    <2> QED
        BY <1>7, <1>8, <2>1
<1> DEFINE S == {n \in Nat : n <= Len(ns) => at[n] \in left}
<1>10. 0 \in S
    BY <1>1, <1>4 DEF Walked, Leftmost
<1>11. ASSUME NEW n \in Nat, n \in S
       PROVE  n + 1 \in S
    <2> SUFFICES ASSUME n + 1 <= Len(ns) PROVE at[n + 1] \in left
        OBVIOUS
    <2>1. n + 1 \in 1 .. Len(ns) /\ (n + 1) - 1 = n /\ n \in 0 .. Len(ns) /\ n <= Len(ns)
        BY <1>2
    <2>2. at[n + 1] = NextOf(ns, at[n], below)
        BY <1>4, <2>1 DEF Walked
    <2>3. at[n] \in left /\ at[n] \in 1 .. Len(ns)
        BY <1>7, <1>11, <2>1
    <2>4. CASE ns[at[n]].is_leaf
        BY <2>2, <2>3, <2>4 DEF NextOf
    <2>5. CASE ~ns[at[n]].is_leaf
        BY <1>1, <1>3, <2>2, <2>3, <2>5 DEF NextOf, Leftmost
    <2> QED
        BY <2>4, <2>5
<1>12. \A n \in Nat : n \in S
    <2> HIDE DEF S
    <2> QED
        BY <1>10, <1>11, SetInduction
<1>13. at[Len(ns)] \in left
    BY <1>2, <1>12
<1> QED
    BY <1>1, <1>5, <1>9, <1>13 DEF Leftmost

LinkOf(ns, p) == IF p = INVALID_PAGE_ID THEN INVALID_PAGE_ID ELSE ns[p].next_leaf
IsChain(at, ns, first, steps) ==
    at = [n \in 0 .. steps |-> IF n = 0 THEN first ELSE LinkOf(ns, at[n - 1])]

LEMMA ChainExists ==
    ASSUME NEW ns, NEW first, NEW steps \in Nat
    PROVE  \E at : IsChain(at, ns, first, steps)
<1> DEFINE F(m) == \E at : at = [n \in 0 .. m |-> IF n = 0 THEN first ELSE LinkOf(ns, at[n - 1])]
           S == {m \in Nat : F(m)}
<1>1. 0 \in S
    <2> DEFINE f == [n \in 0 .. 0 |-> first]
    <2>1. f = [n \in 0 .. 0 |-> IF n = 0 THEN first ELSE LinkOf(ns, f[n - 1])]
        OBVIOUS
    <2> QED
        BY <2>1
<1>2. ASSUME NEW m \in Nat, m \in S
      PROVE  m + 1 \in S
    <2>1. PICK f : f = [n \in 0 .. m |-> IF n = 0 THEN first ELSE LinkOf(ns, f[n - 1])]
        BY <1>2
    <2> DEFINE g == [n \in 0 .. m + 1 |-> IF n = m + 1 THEN LinkOf(ns, f[m]) ELSE f[n]]
    <2>2. \A n \in 0 .. m + 1 : g[n] = IF n = 0 THEN first ELSE LinkOf(ns, g[n - 1])
        BY <2>1
    <2>3. g = [n \in 0 .. m + 1 |-> IF n = 0 THEN first ELSE LinkOf(ns, g[n - 1])]
        BY <2>2
    <2> HIDE DEF g
    <2>4. F(m + 1)
        BY <2>3
    <2> QED
        BY <2>4
<1> HIDE DEF S
<1>3. steps \in S
    BY <1>1, <1>2, SetInduction
<1> QED
    BY <1>3 DEF S, IsChain

ChainStart == IF root_pid = INVALID_PAGE_ID THEN INVALID_PAGE_ID ELSE LeftmostLeaf

LEMMA ChainSteps ==
    ASSUME Len(nodes) \in Nat
    PROVE  Chain[0] = ChainStart /\ \A n \in 1 .. Len(nodes) : Chain[n] = LinkOf(nodes, Chain[n - 1])
<1> DEFINE first == ChainStart
           at == Chain
<1>1. IsChain(at, nodes, first, Len(nodes))
    <2>1. \E f : IsChain(f, nodes, first, Len(nodes))
        BY ChainExists
    <2>2. at = CHOOSE f : IsChain(f, nodes, first, Len(nodes))
        BY Zenon DEF Chain, IsChain, LinkOf, ChainStart
    <2> HIDE DEF at, first
    <2> QED
        BY <2>1, <2>2
<1> HIDE DEF at, first
<1>2. \A n \in 0 .. Len(nodes) : at[n] = IF n = 0 THEN first ELSE LinkOf(nodes, at[n - 1])
    <2> DEFINE e(n) == IF n = 0 THEN first ELSE LinkOf(nodes, at[n - 1])
    <2>1. at = [n \in 0 .. Len(nodes) |-> e(n)]
        BY <1>1, Zenon DEF IsChain
    <2> HIDE DEF e
    <2>2. \A n \in 0 .. Len(nodes) : at[n] = e(n)
        BY <2>1
    <2> QED
        BY <2>2 DEF e
<1>3. at[0] = first /\ \A n \in 1 .. Len(nodes) : at[n] = LinkOf(nodes, at[n - 1])
    BY <1>2
<1> QED
    BY <1>3 DEF at, first

\* The chain visits the leaves of order and then ends.
InOrder(order) == \A n \in 0 .. Len(nodes) : Chain[n] = IF n < Len(order) THEN order[n + 1] ELSE INVALID_PAGE_ID

LinkAt(ns, row, i) ==
    /\ row[i] \in 1 .. Len(ns) /\ ns[row[i]].is_leaf
    /\ ns[row[i]].next_leaf = IF i = Len(row) THEN INVALID_PAGE_ID ELSE row[i + 1]

LEMMA ChainAlong ==
    ASSUME NEW rank, NEW order0, NEW left, Tree(nodes, root_pid, {root_pid}, rank, order0, left),
           NEW order \in Seq(Nat), Len(order) >= 1, order[1] = 1, \A i \in 1 .. Len(order) : LinkAt(nodes, order, i)
    PROVE  InOrder(order)
<1>1. IndexFile(nodes) /\ root_pid \in 1 .. Len(nodes)
    BY DEF Tree
<1>2. Len(nodes) \in Nat /\ root_pid # INVALID_PAGE_ID
    BY <1>1 DEF IndexFile, INVALID_PAGE_ID
<1>3. Chain[0] = 1 /\ \A n \in 1 .. Len(nodes) : Chain[n] = LinkOf(nodes, Chain[n - 1])
    BY <1>2, ChainSteps, LeftmostIsFirst DEF ChainStart
<1>4. /\ Len(order) \in Nat /\ Len(order) >= 1 /\ order[1] = 1
      /\ \A i \in 1 .. Len(order) :
          /\ order[i] \in 1 .. Len(nodes)
          /\ nodes[order[i]].next_leaf = IF i = Len(order) THEN INVALID_PAGE_ID ELSE order[i + 1]
    BY DEF LinkAt
<1> DEFINE e(n) == IF n < Len(order) THEN order[n + 1] ELSE INVALID_PAGE_ID
           S == {n \in Nat : n <= Len(nodes) => Chain[n] = e(n)}
<1>5. 0 \in S
    BY <1>3, <1>4
<1>6. ASSUME NEW n \in Nat, n \in S
      PROVE  n + 1 \in S
    <2> SUFFICES ASSUME n + 1 <= Len(nodes) PROVE Chain[n + 1] = e(n + 1)
        OBVIOUS
    <2>1. n + 1 \in 1 .. Len(nodes) /\ (n + 1) - 1 = n /\ n <= Len(nodes)
        BY <1>2
    <2>2. Chain[n + 1] = LinkOf(nodes, Chain[n]) /\ Chain[n] = e(n)
        BY <1>3, <1>6, <2>1
    <2>3. CASE n < Len(order)
        <3>1. n + 1 \in 1 .. Len(order)
            BY <1>4, <2>3
        <3>2. Chain[n] = order[n + 1] /\ order[n + 1] # INVALID_PAGE_ID
            BY <1>4, <2>2, <2>3, <3>1 DEF INVALID_PAGE_ID
        <3>3. Chain[n + 1] = nodes[order[n + 1]].next_leaf
            BY <2>2, <3>2 DEF LinkOf
        <3>4. nodes[order[n + 1]].next_leaf = IF n + 1 = Len(order) THEN INVALID_PAGE_ID ELSE order[(n + 1) + 1]
            BY <1>4, <3>1
        <3>5. n + 1 = Len(order) <=> ~(n + 1 < Len(order))
            BY <1>4, <2>3
        <3> QED
            BY <3>3, <3>4, <3>5
    <2>4. CASE ~(n < Len(order))
        <3>1. ~(n + 1 < Len(order))
            BY <1>4, <2>4
        <3> QED
            BY <2>2, <2>4, <3>1 DEF LinkOf
    <2> QED
        BY <2>3, <2>4
<1>7. \A n \in Nat : n \in S
    <2> HIDE DEF S
    <2> QED
        BY <1>5, <1>6, SetInduction
<1>8. \A n \in 0 .. Len(nodes) : Chain[n] = e(n)
    BY <1>2, <1>7
<1> QED
    BY <1>8 DEF InOrder

LEMMA ChainInOrder ==
    ASSUME NEW rank, NEW order, NEW left, Tree(nodes, root_pid, {root_pid}, rank, order, left)
    PROVE  InOrder(order)
<1>1. Linked(nodes, {root_pid}, order)
    BY DEF Tree
<1>2. order \in Seq(Nat) /\ Len(order) >= 1 /\ order[1] = 1
    BY <1>1, Zenon DEF Linked
<1>3. \A i \in 1 .. Len(order) : LinkAt(nodes, order, i)
    BY <1>1, Zenon DEF Linked, LinkAt
<1> QED
    BY <1>2, <1>3, ChainAlong

ChainLeaves == {Chain[n] : n \in 0 .. Len(nodes)} \ {INVALID_PAGE_ID}

LEMMA ChainEnds ==
    ASSUME NEW rank, NEW order, NEW left, Tree(nodes, root_pid, {root_pid}, rank, order, left)
    PROVE  Chain[Len(nodes)] = INVALID_PAGE_ID /\ ChainLeaves = Elems(order)
<1>1. Linked(nodes, {root_pid}, order) /\ IndexFile(nodes)
    BY DEF Tree
<1>2. Len(nodes) \in Nat
    BY <1>1 DEF IndexFile
<1>3. Len(order) \in Nat /\ \A i \in 1 .. Len(order) : order[i] \in 1 .. Len(nodes)
    <2>1. order \in Seq(Nat)
        BY <1>1, Zenon DEF Linked
    <2>2. \A i \in 1 .. Len(order) : order[i] \in 1 .. Len(nodes)
        BY <1>1, Zenon DEF Linked
    <2> QED
        BY <2>1, <2>2
<1>4. Len(order) <= Len(nodes)
    BY <1>1, <1>2, ChainLength
<1>5. \A n \in 0 .. Len(nodes) : Chain[n] = IF n < Len(order) THEN order[n + 1] ELSE INVALID_PAGE_ID
    BY ChainInOrder DEF InOrder
<1>6. Chain[Len(nodes)] = INVALID_PAGE_ID
    BY <1>2, <1>3, <1>4, <1>5
<1>7. ASSUME NEW p \in ChainLeaves PROVE p \in Elems(order)
    <2>1. PICK n \in 0 .. Len(nodes) : p = Chain[n] /\ p # INVALID_PAGE_ID
        BY <1>7 DEF ChainLeaves
    <2>2. n < Len(order) /\ p = order[n + 1]
        BY <1>5, <2>1
    <2>3. n + 1 \in 1 .. Len(order)
        BY <1>2, <1>3, <2>2
    <2> QED
        BY <2>2, <2>3 DEF Elems
<1>8. ASSUME NEW p \in Elems(order) PROVE p \in ChainLeaves
    <2>1. PICK i \in 1 .. Len(order) : p = order[i]
        BY <1>8 DEF Elems
    <2>2. i - 1 \in 0 .. Len(nodes) /\ i - 1 < Len(order) /\ (i - 1) + 1 = i
        BY <1>2, <1>3, <1>4
    <2>3. Chain[i - 1] = p
        BY <1>5, <2>1, <2>2
    <2>4. p # INVALID_PAGE_ID
        BY <1>3, <2>1 DEF INVALID_PAGE_ID
    <2> QED
        BY <2>2, <2>3, <2>4 DEF ChainLeaves
<1> QED
    BY <1>6, <1>7, <1>8

LEMMA TreeHoldsEntries == IInv => ChainHoldsEntries
<1> SUFFICES ASSUME IInv PROVE ChainHoldsEntries
    OBVIOUS
<1> DEFINE L == ChainLeaves
           found(p) == {<<nodes[p].keys[i], nodes[p].values[i]>> : i \in DOMAIN nodes[p].keys}
           Ends == Chain[Len(nodes)] = INVALID_PAGE_ID
           All == UNION {found(p) : p \in L} = entries
           Each == \A p, q \in L : \A i \in DOMAIN nodes[p].keys, j \in DOMAIN nodes[q].keys :
                      nodes[p].values[i] = nodes[q].values[j] => p = q /\ i = j
<1>1. CASE root_pid = INVALID_PAGE_ID
    <2>1. nodes = << >> /\ entries = {} /\ Len(nodes) = 0
        BY <1>1 DEF IInv
    <2>2. Chain[0] = INVALID_PAGE_ID
        BY <1>1, <2>1, ChainSteps DEF ChainStart
    <2>3. L = {}
        BY <2>1, <2>2 DEF ChainLeaves
    <2> HIDE DEF L
    <2>4. Ends /\ All /\ Each
        BY <2>1, <2>2, <2>3
    <2> QED
        BY <2>4, Zenon DEF ChainHoldsEntries, L, ChainLeaves
<1>2. CASE root_pid # INVALID_PAGE_ID
    <2>1. PICK rank, order, left :
            Tree(nodes, root_pid, {root_pid}, rank, order, left) /\ Holds(nodes, Elems(order), entries)
        BY <1>2 DEF IInv, Whole
    <2>2. Ends /\ L = Elems(order)
        BY <2>1, ChainEnds
    <2>3. IndexFile(nodes)
        BY <2>1 DEF Tree
    <2>4. ASSUME NEW p \in L
          PROVE  /\ DOMAIN nodes[p].keys = 1 .. Len(nodes[p].keys) /\ Len(nodes[p].values) = Len(nodes[p].keys)
                 /\ Once(nodes[p].values)
        <3>1. p \in 1 .. Len(nodes) /\ nodes[p].is_leaf
            BY <2>1, <2>2, <2>4, ChainedLeaf DEF Tree
        <3>2. nodes[p].keys \in Seq(Keys) /\ Len(nodes[p].values) = Len(nodes[p].keys)
            BY <2>3, <3>1, NodeAt
        <3> QED
            BY <2>1, <2>2, <2>4, <3>2 DEF Holds
    <2>5. \A p \in L : found(p) = EntriesOf(nodes, p)
        BY <2>4 DEF EntriesOf, Pairs
    <2> HIDE DEF L
    <2>6. All
        <3> HIDE DEF found
        <3>1. UNION {EntriesOf(nodes, p) : p \in L} = entries
            BY <2>1, <2>2 DEF Holds
        <3> QED
            BY <2>5, <3>1
    <2>7. Each
        <3> SUFFICES ASSUME NEW p \in L, NEW q \in L,
                            NEW i \in DOMAIN nodes[p].keys, NEW j \in DOMAIN nodes[q].keys,
                            nodes[p].values[i] = nodes[q].values[j]
                     PROVE  p = q /\ i = j
            OBVIOUS
        <3>1. <<nodes[p].keys[i], nodes[p].values[i]>> \in EntriesOf(nodes, p)
            BY <2>5
        <3>2. <<nodes[q].keys[j], nodes[q].values[j]>> \in EntriesOf(nodes, q)
            BY <2>5
        <3>3. \A a \in EntriesOf(nodes, p), b \in EntriesOf(nodes, q) : p # q => a[2] # b[2]
            BY <2>1, <2>2 DEF Holds
        <3>4. p = q
            BY <3>1, <3>2, <3>3
        <3>5. i \in 1 .. Len(nodes[p].values) /\ j \in 1 .. Len(nodes[p].values) /\ Once(nodes[p].values)
            BY <2>4, <3>4
        <3> QED
            BY <3>4, <3>5 DEF Once
    <2> HIDE DEF Ends, All, Each, found
    <2>8. Ends /\ All /\ Each
        BY <2>2, <2>6, <2>7
    <2> QED
        BY <2>8, Zenon DEF ChainHoldsEntries, L, ChainLeaves, Ends, All, Each, found
<1> QED
    BY <1>1, <1>2

\* Following next_leaf from the leftmost leaf comes to an end and meets every entry ever
\* inserted, and each once, for every capacity of a node, set of keys and number of
\* insertions: no leaf or internal split, up to a new root, drops or doubles an entry.
THEOREM ChainKept == Spec => []ChainHoldsEntries
BY TreeKept, TreeHoldsEntries, PTL

-----------------------------------------------------------------------------
(* The levels of the tree.                                                 *)

Below(ns, above) == UNION {ToSet(ns[p].child_nodes) : p \in above}
IsLevels(at, ns, first, steps) ==
    at = [n \in 0 .. steps |-> IF n = 0 THEN first ELSE Below(ns, at[n - 1])]

LEMMA LevelsExist ==
    ASSUME NEW ns, NEW first, NEW steps \in Nat
    PROVE  \E at : IsLevels(at, ns, first, steps)
<1> DEFINE F(m) == \E at : at = [n \in 0 .. m |-> IF n = 0 THEN first ELSE Below(ns, at[n - 1])]
           S == {m \in Nat : F(m)}
<1>1. 0 \in S
    <2> DEFINE f == [n \in 0 .. 0 |-> first]
    <2>1. f = [n \in 0 .. 0 |-> IF n = 0 THEN first ELSE Below(ns, f[n - 1])]
        OBVIOUS
    <2> QED
        BY <2>1
<1>2. ASSUME NEW m \in Nat, m \in S
      PROVE  m + 1 \in S
    <2>1. PICK f : f = [n \in 0 .. m |-> IF n = 0 THEN first ELSE Below(ns, f[n - 1])]
        BY <1>2
    <2> DEFINE g == [n \in 0 .. m + 1 |-> IF n = m + 1 THEN Below(ns, f[m]) ELSE f[n]]
    <2>2. \A n \in 0 .. m + 1 : g[n] = IF n = 0 THEN first ELSE Below(ns, g[n - 1])
        BY <2>1
    <2>3. g = [n \in 0 .. m + 1 |-> IF n = 0 THEN first ELSE Below(ns, g[n - 1])]
        BY <2>2
    <2> HIDE DEF g
    <2>4. F(m + 1)
        BY <2>3
    <2> QED
        BY <2>4
<1> HIDE DEF S
<1>3. steps \in S
    BY <1>1, <1>2, SetInduction
<1> QED
    BY <1>3 DEF S, IsLevels

LEMMA LevelSteps ==
    ASSUME Len(nodes) \in Nat
    PROVE  Levels[0] = {root_pid} /\ \A n \in 1 .. Len(nodes) : Levels[n] = Below(nodes, Levels[n - 1])
<1> DEFINE at == Levels
           first == {root_pid}
<1>1. IsLevels(at, nodes, first, Len(nodes))
    <2>1. \E f : IsLevels(f, nodes, first, Len(nodes))
        BY LevelsExist
    <2>2. at = CHOOSE f : IsLevels(f, nodes, first, Len(nodes))
        BY Zenon DEF Levels, IsLevels, Below
    <2> HIDE DEF at
    <2> QED
        BY <2>1, <2>2
<1> HIDE DEF at
<1>2. \A n \in 0 .. Len(nodes) : at[n] = IF n = 0 THEN first ELSE Below(nodes, at[n - 1])
    <2> DEFINE e(n) == IF n = 0 THEN first ELSE Below(nodes, at[n - 1])
    <2>1. at = [n \in 0 .. Len(nodes) |-> e(n)]
        BY <1>1, Zenon DEF IsLevels
    <2> HIDE DEF e
    <2>2. \A n \in 0 .. Len(nodes) : at[n] = e(n)
        BY <2>1
    <2> QED
        BY <2>2 DEF e
<1>3. at[0] = first /\ \A n \in 1 .. Len(nodes) : at[n] = Below(nodes, at[n - 1])
    <2> HIDE DEF first
    <2> QED
        BY <1>2
<1> QED
    BY <1>3 DEF at

LEMMA ChildSet ==
    ASSUME NEW ns, IndexFile(ns), NEW p \in 1 .. Len(ns)
    PROVE  DOMAIN ns[p].child_nodes = 1 .. Len(ns[p].child_nodes) /\ ToSet(ns[p].child_nodes) = Kids(ns, p)
<1>1. ns[p].child_nodes \in Seq(Nat)
    BY NodeAt
<1>2. DOMAIN ns[p].child_nodes = 1 .. Len(ns[p].child_nodes)
    BY <1>1
<1> QED
    BY <1>2 DEF ToSet, Kids, Elems

\* The nodes of a level have one rank.
LEMMA LevelRanks ==
    ASSUME IndexFile(nodes), root_pid \in 1 .. Len(nodes), NEW rank, Ranked(nodes, rank)
    PROVE  \A n \in 0 .. Len(nodes) : \A p \in Levels[n] : p \in 1 .. Len(nodes) /\ rank[p] = rank[root_pid] - n
<1>1. Len(nodes) \in Nat
    BY DEF IndexFile
<1>2. Levels[0] = {root_pid} /\ \A n \in 1 .. Len(nodes) : Levels[n] = Below(nodes, Levels[n - 1])
    BY <1>1, LevelSteps
<1>3. \A p \in 1 .. Len(nodes) : rank[p] \in Nat /\ \A c \in Kids(nodes, p) : c \in 1 .. Len(nodes) /\ rank[p] = rank[c] + 1
    BY DEF Ranked
<1> DEFINE S == {n \in Nat : n <= Len(nodes) =>
                    \A p \in Levels[n] : p \in 1 .. Len(nodes) /\ rank[p] = rank[root_pid] - n}
<1>4. 0 \in S
    BY <1>2, <1>3
<1>5. ASSUME NEW n \in Nat, n \in S
      PROVE  n + 1 \in S
    <2> SUFFICES ASSUME n + 1 <= Len(nodes), NEW c \in Levels[n + 1]
                 PROVE  c \in 1 .. Len(nodes) /\ rank[c] = rank[root_pid] - (n + 1)
        OBVIOUS
    <2>1. n + 1 \in 1 .. Len(nodes) /\ (n + 1) - 1 = n /\ n <= Len(nodes)
        BY <1>1
    <2>2. Levels[n + 1] = Below(nodes, Levels[n])
        BY <1>2, <2>1
    <2>3. PICK p \in Levels[n] : c \in ToSet(nodes[p].child_nodes)
        BY <2>2 DEF Below
    <2>4. p \in 1 .. Len(nodes) /\ rank[p] = rank[root_pid] - n
        BY <1>5, <2>1, <2>3
    <2>5. c \in Kids(nodes, p)
        BY <2>3, <2>4, ChildSet
    <2>6. c \in 1 .. Len(nodes) /\ rank[p] = rank[c] + 1 /\ rank[c] \in Nat
        BY <1>3, <2>4, <2>5
    <2>7. rank[c] + 1 = rank[root_pid] - n /\ rank[root_pid] \in Nat
        BY <1>3, <2>4, <2>6
    <2> QED
        BY <2>6, <2>7
<1>6. \A n \in Nat : n \in S
    <2> HIDE DEF S
    <2> QED
        BY <1>4, <1>5, SetInduction
<1> QED
    BY <1>1, <1>6

LEMMA TreeIsBalanced == IInv => Balanced
<1> SUFFICES ASSUME IInv, root_pid # INVALID_PAGE_ID
             PROVE  /\ \A n \in 0 .. Len(nodes) : \A p, q \in Levels[n] : nodes[p].is_leaf = nodes[q].is_leaf
                    /\ \A p, q \in DOMAIN nodes : \A i \in DOMAIN nodes[p].child_nodes :
                         \A j \in DOMAIN nodes[q].child_nodes :
                           nodes[p].child_nodes[i] = nodes[q].child_nodes[j] => p = q /\ i = j
    BY DEF Balanced
<1>1. PICK rank, order, left : Tree(nodes, root_pid, {root_pid}, rank, order, left)
    BY DEF IInv, Whole
<1>2. IndexFile(nodes) /\ root_pid \in 1 .. Len(nodes) /\ Ranked(nodes, rank) /\ OneParent(nodes, {root_pid})
    BY <1>1 DEF Tree
<1>3. DOMAIN nodes = 1 .. Len(nodes)
    BY <1>2 DEF IndexFile
<1>4. ASSUME NEW n \in 0 .. Len(nodes), NEW p \in Levels[n], NEW q \in Levels[n]
      PROVE  nodes[p].is_leaf = nodes[q].is_leaf
    <2>1. p \in 1 .. Len(nodes) /\ q \in 1 .. Len(nodes) /\ rank[p] = rank[q]
        BY <1>2, LevelRanks
    <2>2. nodes[p].is_leaf <=> nodes[q].is_leaf
        BY <1>2, <2>1 DEF Ranked
    <2>3. nodes[p].is_leaf \in BOOLEAN /\ nodes[q].is_leaf \in BOOLEAN
        BY <1>2, <2>1, NodeAt
    <2> QED
        BY <2>2, <2>3
<1>5. ASSUME NEW p \in DOMAIN nodes, NEW q \in DOMAIN nodes,
             NEW i \in DOMAIN nodes[p].child_nodes, NEW j \in DOMAIN nodes[q].child_nodes,
             nodes[p].child_nodes[i] = nodes[q].child_nodes[j]
      PROVE  p = q /\ i = j
    <2>1. p \in 1 .. Len(nodes) /\ q \in 1 .. Len(nodes)
        BY <1>3
    <2>2. i \in 1 .. Len(nodes[p].child_nodes) /\ j \in 1 .. Len(nodes[q].child_nodes)
        BY <1>2, <2>1, ChildSet
    <2>3. nodes[p].child_nodes[i] \in Kids(nodes, p) /\ nodes[q].child_nodes[j] \in Kids(nodes, q)
        BY <2>2 DEF Kids, Elems
    <2>4. p = q
        BY <1>2, <1>5, <2>1, <2>3 DEF OneParent
    <2> QED
        BY <1>2, <1>5, <2>1, <2>2, <2>4 DEF OneParent, Once
<1> QED
    BY <1>4, <1>5

\* Every leaf is as deep as every other and no page hangs below two nodes, for every
\* capacity of a node: however far the splits of an insertion run up, and when they put
\* a new root above the old one, the index stays a balanced tree.
THEOREM TreeBalanced == Spec => []Balanced
BY TreeKept, TreeIsBalanced, PTL

-----------------------------------------------------------------------------
(* Order, as long as the children of the root are leaves.                  *)

IsInserted(w, s, i, e) ==
    /\ Len(s) \in Nat /\ Len(w) = Len(s) + 1 /\ i \in 1 .. Len(s) + 1 /\ w[i] = e
    /\ \A j \in 1 .. i - 1 : w[j] = s[j]
    /\ \A j \in i .. Len(s) : w[j + 1] = s[j]

LEMMA InsertedAt ==
    ASSUME NEW S, NEW s \in Seq(S), NEW i \in 1 .. Len(s) + 1, NEW e \in S
    PROVE  IsInserted(InsertAt(s, i, e), s, i, e)
<1> DEFINE w == InsertAt(s, i, e)
<1>1. Len(s) \in Nat
    OBVIOUS
<1>2. Len(w) = Len(s) + 1 /\ Spread(w, s, i, e)
    BY Inserted
<1> HIDE DEF w
<1>3. \A j \in 1 .. Len(s) + 1 : w[j] = IF j < i THEN s[j] ELSE IF j = i THEN e ELSE s[j - 1]
    BY <1>2 DEF Spread
<1>4. ASSUME NEW j \in i .. Len(s) PROVE w[j + 1] = s[j]
    <2>1. j + 1 \in 1 .. Len(s) + 1 /\ ~(j + 1 < i) /\ j + 1 # i /\ (j + 1) - 1 = j
        BY <1>1
    <2> QED
        BY <1>3, <2>1
<1>5. ASSUME NEW j \in 1 .. i - 1 PROVE w[j] = s[j]
    <2>1. j \in 1 .. Len(s) + 1 /\ j < i
        BY <1>1
    <2> QED
        BY <1>3, <2>1
<1>6. w[i] = e
    BY <1>1, <1>3
<1>7. IsInserted(w, s, i, e)
    BY <1>1, <1>2, <1>4, <1>5, <1>6 DEF IsInserted
<1> QED
    BY <1>7 DEF w

Strict(s) == \A i, j \in 1 .. Len(s) : i < j => s[i] < s[j]

LEMMA StrictAt ==
    ASSUME NEW w, NEW S \in SUBSET Int, NEW s \in Seq(S), NEW i, NEW e \in Int, IsInserted(w, s, i, e), Strict(s),
           i > 1 => s[i - 1] < e, i <= Len(s) => e < s[i]
    PROVE  Strict(w)
<1>1. /\ Len(s) \in Nat /\ Len(w) = Len(s) + 1 /\ i \in 1 .. Len(s) + 1 /\ w[i] = e
      /\ \A j \in 1 .. i - 1 : w[j] = s[j]
      /\ \A j \in i .. Len(s) : w[j + 1] = s[j]
    BY DEF IsInserted
<1>2. \A j \in 1 .. Len(s) : s[j] \in Int
    BY ElementOfSeq
<1>3. ASSUME NEW j \in 1 .. i - 1 PROVE w[j] = s[j] /\ j \in 1 .. Len(s) /\ s[j] < e
    <2>1. j \in 1 .. Len(s) /\ i - 1 \in 1 .. Len(s) /\ i > 1 /\ (j = i - 1 \/ j < i - 1)
        BY <1>1
    <2>2. j = i - 1 \/ s[j] < s[i - 1]
        BY <2>1 DEF Strict
    <2>3. s[j] < e
        BY <1>2, <2>1, <2>2
    <2> QED
        BY <1>1, <2>1, <2>3
<1>4. ASSUME NEW j \in i .. Len(s) PROVE w[j + 1] = s[j] /\ j \in 1 .. Len(s) /\ e < s[j]
    <2>1. j \in 1 .. Len(s) /\ i \in 1 .. Len(s) /\ i <= Len(s) /\ (j = i \/ i < j)
        BY <1>1
    <2>2. j = i \/ s[i] < s[j]
        BY <2>1 DEF Strict
    <2>3. e < s[j]
        BY <1>2, <2>1, <2>2
    <2> QED
        BY <1>1, <2>1, <2>3
<1> SUFFICES ASSUME NEW a \in 1 .. Len(w), NEW b \in 1 .. Len(w), a < b PROVE w[a] < w[b]
    BY DEF Strict
<1>5. CASE b < i
    <2>1. a \in 1 .. i - 1 /\ b \in 1 .. i - 1
        BY <1>1, <1>5
    <2> QED
        BY <1>3, <2>1 DEF Strict
<1>6. CASE b = i
    <2>1. a \in 1 .. i - 1
        BY <1>1, <1>6
    <2> QED
        BY <1>1, <1>3, <1>6, <2>1
<1>7. CASE b > i
    <2>1. b - 1 \in i .. Len(s) /\ (b - 1) + 1 = b
        BY <1>1, <1>7
    <2>2. w[b] = s[b - 1] /\ e < s[b - 1] /\ b - 1 \in 1 .. Len(s)
        BY <1>4, <2>1
    <2>3. CASE a < i
        <3>1. a \in 1 .. i - 1
            BY <1>1, <2>3
        <3>2. w[a] = s[a] /\ s[a] < e /\ a \in 1 .. Len(s)
            BY <1>3, <3>1
        <3> QED
            BY <1>2, <2>2, <3>2
    <2>4. CASE a = i
        BY <1>1, <2>2, <2>4
    <2>5. CASE a > i
        <3>1. a - 1 \in i .. Len(s) /\ (a - 1) + 1 = a /\ a - 1 < b - 1
            BY <1>1, <1>7, <2>5
        <3>2. w[a] = s[a - 1] /\ a - 1 \in 1 .. Len(s)
            BY <1>4, <3>1
        <3> QED
            BY <2>2, <3>1, <3>2 DEF Strict
    <2> QED
        BY <1>1, <2>3, <2>4, <2>5
<1> QED
    BY <1>1, <1>5, <1>6, <1>7

\* A key that is not there yet goes in order.
LEMMA StrictWith ==
    ASSUME NEW keys \in Seq(Keys), NEW key \in Keys, Strict(keys), key \notin Elems(keys)
    PROVE  Strict(InsertAt(keys, Place(keys, key), key))
<1> DEFINE at == Place(keys, key)
           w == InsertAt(keys, at, key)
<1>1. /\ at \in 1 .. Len(keys) + 1
      /\ \A i \in 1 .. Len(keys) : i >= at => keys[i] > key
      /\ at > 1 => keys[at - 1] <= key
    BY Placed
<1> HIDE DEF at
<1>2. IsInserted(w, keys, at, key)
    BY <1>1, InsertedAt
<1> HIDE DEF w
<1>3. Len(keys) \in Nat /\ key \in Int /\ Keys \in SUBSET Int
    BY BPlusTreeAssumption
<1>4. \A i \in 1 .. Len(keys) : keys[i] \in Int /\ keys[i] # key
    BY <1>3, ElementOfSeq DEF Elems
<1>5. at > 1 => keys[at - 1] < key
    <2>1. at > 1 => at - 1 \in 1 .. Len(keys)
        BY <1>1, <1>3
    <2> QED
        BY <1>1, <1>3, <1>4, <2>1
<1>6. at <= Len(keys) => key < keys[at]
    <2>1. at <= Len(keys) => at \in 1 .. Len(keys) /\ at >= at
        BY <1>1, <1>3
    <2> QED
        BY <1>1, <1>3, <1>4, <2>1
<1>7. Strict(w)
    BY <1>2, <1>3, <1>5, <1>6, StrictAt
<1> QED
    BY <1>7 DEF w, at

LEMMA StrictParted ==
    ASSUME NEW S \in SUBSET Int, NEW s \in Seq(S), NEW size, NEW m, NEW l, NEW r, IsParted(s, size, m, l, r), Strict(s)
    PROVE  /\ Strict(l) /\ Strict(r)
           /\ \A a \in Elems(l), b \in Elems(r) : a < b
           /\ \A b \in Elems(r) : r[1] <= b
<1>1. /\ size \in Nat /\ Len(s) = size /\ m \in 0 .. size
      /\ Len(l) = m /\ \A j \in 1 .. m : l[j] = s[j]
      /\ Len(r) = size - m /\ \A j \in 1 .. size - m : r[j] = s[m + j]
    BY DEF IsParted
<1>2. \A j \in 1 .. size : s[j] \in Int
    BY <1>1, ElementOfSeq
<1>3. \A j \in 1 .. m : j \in 1 .. size
    BY <1>1
<1>4. \A j \in 1 .. size - m : m + j \in 1 .. size
    BY <1>1
<1>5. Strict(l)
    BY <1>1, <1>3 DEF Strict
<1>6. Strict(r)
    <2> SUFFICES ASSUME NEW i \in 1 .. Len(r), NEW j \in 1 .. Len(r), i < j PROVE r[i] < r[j]
        BY DEF Strict
    <2>1. m + i < m + j /\ m + i \in 1 .. size /\ m + j \in 1 .. size
        BY <1>1
    <2> QED
        BY <1>1, <2>1 DEF Strict
<1>7. ASSUME NEW a \in Elems(l), NEW b \in Elems(r) PROVE a < b
    <2>1. PICK i \in 1 .. m : a = s[i]
        BY <1>1 DEF Elems
    <2>0. PICK j \in 1 .. Len(r) : b = r[j]
        BY DEF Elems
    <2>2. j \in 1 .. size - m /\ b = s[m + j]
        BY <1>1, <2>0
    <2>3. i < m + j /\ i \in 1 .. size /\ m + j \in 1 .. size
        BY <1>1
    <2> QED
        BY <1>1, <2>1, <2>2, <2>3 DEF Strict
<1>8. ASSUME NEW b \in Elems(r) PROVE r[1] <= b
    <2>1. PICK j \in 1 .. Len(r) : b = r[j]
        BY DEF Elems
    <2>2. r[j] \in Int /\ Len(r) \in Nat
        BY <1>1, <1>2, <1>4
    <2>3. j = 1 \/ (1 < j /\ 1 \in 1 .. Len(r))
        BY <2>2
    <2>4. j = 1 \/ r[1] < r[j]
        BY <1>6, <2>3 DEF Strict
    <2>5. r[1] \in Int
        <3>1. 1 \in 1 .. size - m
            BY <1>1
        <3> QED
            BY <1>1, <1>2, <1>4, <3>1
    <2> QED
        BY <2>1, <2>2, <2>4, <2>5
<1> QED
    BY <1>5, <1>6, <1>7, <1>8

\* A key that belongs into the i-th of the leaves that the keys seps part.
Fits(k, seps, i) == (i > 1 => seps[i - 1] <= k) /\ (i <= Len(seps) => k < seps[i])
KeysFit(keys, seps, i, K) == Strict(keys) /\ Elems(keys) \subseteq K /\ \A k \in Elems(keys) : Fits(k, seps, i)

\* The leaves of a tree in a row, with the keys that part them: all keys are among K.
Parting(row, seps, K) ==
    /\ row \in Seq(Nat) /\ seps \in Seq(Keys) /\ Len(row) = Len(seps) + 1
    /\ row[1] = 1 /\ Once(row) /\ Strict(seps) /\ Elems(seps) \subseteq K
Row(ns, row, seps, K) ==
    /\ Parting(row, seps, K)
    /\ \A i \in 1 .. Len(row) : LinkAt(ns, row, i) /\ KeysFit(ns[row[i]].keys, seps, i, K)

LEMMA KeysGrow ==
    ASSUME NEW keys \in Seq(Keys), NEW seps, NEW i, NEW K, KeysFit(keys, seps, i, K),
           NEW key \in Keys, key \notin K, Fits(key, seps, i)
    PROVE  KeysFit(InsertAt(keys, Place(keys, key), key), seps, i, K \cup {key})
<1>1. Strict(keys) /\ Elems(keys) \subseteq K /\ \A k \in Elems(keys) : Fits(k, seps, i)
    BY DEF KeysFit
<1>2. key \notin Elems(keys)
    BY <1>1
<1> DEFINE w == InsertAt(keys, Place(keys, key), key)
<1>3. Strict(w)
    BY <1>1, <1>2, StrictWith
<1>4. Place(keys, key) \in 1 .. Len(keys) + 1
    BY Placed
<1>5. Elems(w) = Elems(keys) \cup {key}
    BY <1>4, ElemsInserted
<1> HIDE DEF w
<1>6. KeysFit(w, seps, i, K \cup {key})
    BY <1>1, <1>3, <1>5 DEF KeysFit
<1> QED
    BY <1>6 DEF w

LEMMA RowGrown ==
    ASSUME NEW ns, IndexFile(ns), NEW row, NEW seps, NEW K, Row(ns, row, seps, K),
           NEW m \in 1 .. Len(row), NEW key \in Keys, key \notin K, Fits(key, seps, m), NEW rid,
           NEW ms, LeafGrown(ns, ms, row[m], key, rid)
    PROVE  Row(ms, row, seps, K \cup {key})
<1>1. /\ Parting(row, seps, K)
      /\ \A i \in 1 .. Len(row) : LinkAt(ns, row, i) /\ KeysFit(ns[row[i]].keys, seps, i, K)
    BY DEF Row
<1>2. Parting(row, seps, K \cup {key}) /\ Once(row)
    BY <1>1 DEF Parting
<1>3. /\ Len(ms) = Len(ns) /\ \A q \in 1 .. Len(ns) : q # row[m] => ms[q] = ns[q]
      /\ ms[row[m]].is_leaf /\ ms[row[m]].next_leaf = ns[row[m]].next_leaf
      /\ ms[row[m]].keys = InsertAt(ns[row[m]].keys, Place(ns[row[m]].keys, key), key)
    BY DEF LeafGrown, OthersKept, KeysWith
<1>4. ASSUME NEW i \in 1 .. Len(row)
      PROVE  LinkAt(ms, row, i) /\ KeysFit(ms[row[i]].keys, seps, i, K \cup {key})
    <2>1. LinkAt(ns, row, i) /\ KeysFit(ns[row[i]].keys, seps, i, K)
        BY <1>1
    <2>2. row[i] \in 1 .. Len(ns)
        BY <2>1 DEF LinkAt
    <2>3. CASE i = m
        <3>1. LinkAt(ms, row, i)
            BY <1>3, <2>1, <2>3 DEF LinkAt
        <3>2. ns[row[i]].keys \in Seq(Keys)
            BY <2>2, NodeAt
        <3> DEFINE keys == ns[row[i]].keys
        <3>3. keys \in Seq(Keys) /\ KeysFit(keys, seps, i, K) /\ Fits(key, seps, i)
            BY <2>1, <2>3, <3>2
        <3> HIDE DEF keys
        <3>4. KeysFit(InsertAt(keys, Place(keys, key), key), seps, i, K \cup {key})
            BY <3>3, KeysGrow
        <3> QED
            BY <1>3, <2>3, <3>1, <3>4 DEF keys
    <2>4. CASE i # m
        <3>1. ms[row[i]] = ns[row[i]]
            BY <1>2, <1>3, <2>2, <2>4 DEF Once
        <3>2. LinkAt(ms, row, i)
            BY <1>3, <2>1, <3>1 DEF LinkAt
        <3>3. KeysFit(ms[row[i]].keys, seps, i, K \cup {key})
            BY <2>1, <3>1 DEF KeysFit
        <3> QED
            BY <3>2, <3>3
    <2> QED
        BY <2>3, <2>4
<1> QED
    BY <1>2, <1>4 DEF Row

\* Where the leaves stand behind the split of the m-th one.
Moved(row, seps, w, sp, m, i, o) ==
    /\ o # m /\ w[i] = row[o] /\ (i = Len(w) <=> o = Len(row))
    /\ i # Len(w) => w[i + 1] = row[o + 1]
    /\ \A k : Fits(k, seps, o) => Fits(k, sp, i)

LEMMA RowMoved ==
    ASSUME NEW row, NEW seps, NEW w, NEW sp, NEW m \in 1 .. Len(row), NEW new, NEW e,
           Len(row) = Len(seps) + 1, IsInserted(w, row, m + 1, new), IsInserted(sp, seps, m, e),
           NEW i \in 1 .. Len(w), i # m, i # m + 1
    PROVE  \E o \in 1 .. Len(row) : Moved(row, seps, w, sp, m, i, o)
<1>1. /\ Len(row) \in Nat /\ Len(w) = Len(row) + 1 /\ m + 1 \in 1 .. Len(row) + 1
      /\ \A j \in 1 .. (m + 1) - 1 : w[j] = row[j]
      /\ \A j \in m + 1 .. Len(row) : w[j + 1] = row[j]
    BY DEF IsInserted
<1>2. /\ Len(seps) \in Nat /\ Len(sp) = Len(seps) + 1
      /\ \A j \in 1 .. m - 1 : sp[j] = seps[j]
      /\ \A j \in m .. Len(seps) : sp[j + 1] = seps[j]
    BY DEF IsInserted
<1>3. CASE i < m
    <2>1. i \in 1 .. (m + 1) - 1 /\ i + 1 \in 1 .. (m + 1) - 1 /\ i # Len(w) /\ i # Len(row) /\ i \in 1 .. Len(row)
        BY <1>1, <1>3
    <2>2. w[i] = row[i] /\ w[i + 1] = row[i + 1]
        BY <1>1, <2>1
    <2>3. ASSUME NEW k, Fits(k, seps, i) PROVE Fits(k, sp, i)
        <3>1. i <= Len(seps) /\ sp[i] = seps[i]
            BY <1>1, <1>2, <1>3
        <3>2. i > 1 => sp[i - 1] = seps[i - 1]
            <4>1. i > 1 => i - 1 \in 1 .. m - 1
                BY <1>1, <1>3
            <4> QED
                BY <1>2, <4>1
        <3> QED
            BY <2>3, <3>1, <3>2 DEF Fits
    <2>4. Moved(row, seps, w, sp, m, i, i)
        BY <1>3, <2>1, <2>2, <2>3 DEF Moved
    <2> QED
        BY <2>1, <2>4
<1>4. CASE i > m + 1
    <2>1. PICK o \in Nat : i = o + 1
        <3>1. i - 1 \in Nat /\ i = (i - 1) + 1
            BY <1>1, <1>4
        <3> QED
            BY <3>1
    <2>2. o \in m + 1 .. Len(row) /\ o \in 1 .. Len(row) /\ o # m /\ (i = Len(w) <=> o = Len(row))
        BY <1>1, <1>4, <2>1
    <2>3. w[i] = row[o]
        BY <1>1, <2>1, <2>2
    <2>4. i # Len(w) => w[i + 1] = row[o + 1]
        <3>1. i # Len(w) => o + 1 \in m + 1 .. Len(row)
            <4>1. i # Len(w) => o # Len(row)
                BY <2>2
            <4> DEFINE l == Len(row)
            <4>2. l \in Nat /\ m + 1 \in Nat /\ o \in m + 1 .. l
                BY <1>1, <2>2
            <4> HIDE DEF l
            <4>3. o # l => o + 1 \in m + 1 .. l
                BY <4>2
            <4> QED
                BY <4>1, <4>3 DEF l
        <3> QED
            BY <1>1, <2>1, <3>1
    <2>5. ASSUME NEW k, Fits(k, seps, o) PROVE Fits(k, sp, i)
        <3>1. o - 1 \in m .. Len(seps) /\ i - 1 = (o - 1) + 1 /\ o > 1
            BY <1>1, <1>2, <2>1, <2>2
        <3>2. sp[i - 1] = seps[o - 1]
            BY <1>2, <3>1
        <3>3. i <= Len(sp) => o \in m .. Len(seps) /\ o <= Len(seps)
            BY <1>1, <1>2, <2>1, <2>2
        <3>4. i <= Len(sp) => sp[i] = seps[o]
            BY <1>2, <2>1, <3>3
        <3> QED
            BY <2>5, <3>1, <3>2, <3>3, <3>4 DEF Fits
    <2>6. Moved(row, seps, w, sp, m, i, o)
        BY <2>2, <2>3, <2>4, <2>5 DEF Moved
    <2> QED
        BY <2>2, <2>6
<1> QED
    BY <1>1, <1>3, <1>4

\* The keys l and r of a leaf that was the m-th and its new neighbour, and e between them.
KeysSplit(l, r, e, seps, m, K) ==
    /\ Strict(l) /\ Strict(r) /\ Elems(l) \subseteq K /\ Elems(r) \subseteq K /\ e \in K /\ e \in Keys
    /\ \A k \in Elems(l) : (m > 1 => seps[m - 1] <= k) /\ k < e
    /\ \A k \in Elems(r) : e <= k /\ (m <= Len(seps) => k < seps[m])
    /\ m > 1 => seps[m - 1] < e
    /\ m <= Len(seps) => e < seps[m]

LEMMA KeysOfSplit ==
    ASSUME NEW keys \in Seq(Keys), NEW seps \in Seq(Keys), NEW m \in 1 .. Len(seps) + 1, NEW K,
           KeysFit(keys, seps, m, K), NEW size \in 1 .. Len(keys) - 1, NEW l, NEW r, IsParted(keys, Len(keys), size, l, r)
    PROVE  KeysSplit(l, r, r[1], seps, m, K)
<1>1. Strict(keys) /\ Elems(keys) \subseteq K /\ \A k \in Elems(keys) : Fits(k, seps, m)
    BY DEF KeysFit
<1>2. Keys \in SUBSET Int
    BY BPlusTreeAssumption
<1>3. Strict(l) /\ Strict(r)
    BY <1>1, <1>2, StrictParted
<1>4. \A a \in Elems(l), b \in Elems(r) : a < b
    BY <1>1, <1>2, StrictParted
<1>5. \A b \in Elems(r) : r[1] <= b
    BY <1>1, <1>2, StrictParted
<1>6. Len(keys) \in Nat /\ \A j \in 1 .. Len(keys) : keys[j] \in Keys
    BY ElementOfSeq
<1>7. /\ Len(l) = size /\ \A j \in 1 .. size : l[j] = keys[j]
      /\ Len(r) = Len(keys) - size /\ \A j \in 1 .. Len(keys) - size : r[j] = keys[size + j]
    BY DEF IsParted
<1>8. ASSUME NEW k \in Elems(l) PROVE k \in Elems(keys)
    <2>1. PICK j \in 1 .. Len(l) : k = l[j]
        BY DEF Elems
    <2>2. j \in 1 .. Len(keys) /\ k = keys[j]
        BY <1>6, <1>7, <2>1
    <2> QED
        BY <2>2 DEF Elems
<1>9. ASSUME NEW k \in Elems(r) PROVE k \in Elems(keys)
    <2>1. PICK j \in 1 .. Len(r) : k = r[j]
        BY DEF Elems
    <2>2. size + j \in 1 .. Len(keys) /\ k = keys[size + j]
        BY <1>6, <1>7, <2>1
    <2> QED
        BY <2>2 DEF Elems
<1>10. \A k \in Elems(keys) : k \in Keys /\ k \in Int
    BY <1>2, <1>6 DEF Elems
<1>11. r[1] \in Elems(r) /\ l[1] \in Elems(l)
    <2>1. 1 \in 1 .. Len(r) /\ 1 \in 1 .. Len(l)
        BY <1>6, <1>7
    <2> QED
        BY <2>1 DEF Elems
<1>12. r[1] \in Keys /\ r[1] \in K /\ r[1] \in Int /\ l[1] \in Int /\ l[1] < r[1]
    BY <1>1, <1>4, <1>8, <1>9, <1>10, <1>11
<1>13. m > 1 => seps[m - 1] < r[1]
    <2> SUFFICES ASSUME m > 1 PROVE seps[m - 1] < r[1]
        OBVIOUS
    <2>1. m - 1 \in 1 .. Len(seps) /\ seps[m - 1] \in Int
        <3>1. m - 1 \in 1 .. Len(seps)
            OBVIOUS
        <3> QED
            BY <1>2, <3>1, ElementOfSeq
    <2>2. seps[m - 1] <= l[1]
        BY <1>1, <1>8, <1>11 DEF Fits
    <2> QED
        BY <1>12, <2>1, <2>2
<1>14. m <= Len(seps) => r[1] < seps[m]
    BY <1>1, <1>9, <1>11 DEF Fits
<1>15. \A k \in Elems(l) : (m > 1 => seps[m - 1] <= k) /\ k < r[1]
    BY <1>1, <1>4, <1>8, <1>11 DEF Fits
<1>16. \A k \in Elems(r) : r[1] <= k /\ (m <= Len(seps) => k < seps[m])
    BY <1>1, <1>5, <1>9 DEF Fits
<1>17. Elems(l) \subseteq K /\ Elems(r) \subseteq K
    BY <1>1, <1>8, <1>9
<1> QED
    BY <1>3, <1>12, <1>13, <1>14, <1>15, <1>16, <1>17 DEF KeysSplit

\* A leaf that splits as it takes in a key.
LeafKeysSplit(ms, pid, right, e, seps, m, K) ==
    KeysSplit(ms[pid].keys, ms[right].keys, e, seps, m, K)

LEMMA LeafSplitKeys ==
    ASSUME NEW ns, IndexFile(ns), NEW pid \in 1 .. Len(ns), ns[pid].is_leaf, Full(ns[pid].keys),
           NEW seps \in Seq(Keys), NEW m \in 1 .. Len(seps) + 1, NEW K, KeysFit(ns[pid].keys, seps, m, K),
           NEW key \in Keys, key \notin K, Fits(key, seps, m), NEW rid \in Rids,
           NEW ms, NEW res, LeafSplit(ns, ms, pid, key, rid, res)
    PROVE  LeafKeysSplit(ms, pid, Len(ns) + 1, res.promoted_key, seps, m, K \cup {key})
<1> DEFINE keys == KeysWith(ns[pid], key)
           size == (MAX_KEYS + 2) \div 2
           l == SubSeq(keys, 1, size)
           r == SubSeq(keys, size + 1, Len(keys))
           K2 == K \cup {key}
<1>1. keys \in Seq(Keys) /\ Len(keys) = Len(ns[pid].keys) + 1
    BY LeafWith
<1>2. Len(keys) = MAX_KEYS + 1
    BY <1>1 DEF Full
<1>3. ns[pid].keys \in Seq(Keys)
    BY NodeAt
<1>4. KeysFit(keys, seps, m, K2)
    BY <1>3, KeysGrow DEF KeysWith
<1>5. /\ ms[pid].keys = SubSeq(keys, 1, size)
      /\ ms[Len(ns) + 1].keys = SubSeq(keys, size + 1, MAX_KEYS + 1)
      /\ res.promoted_key = ms[Len(ns) + 1].keys[1]
    BY Zenon DEF LeafSplit
<1> HIDE DEF keys, K2
<1>6. size \in 1 .. MAX_KEYS
    BY BPlusTreeAssumption
<1> HIDE DEF size
<1>7. size \in 1 .. Len(keys) - 1 /\ size \in 1 .. Len(keys)
    BY <1>2, <1>6, BPlusTreeAssumption
<1>8. IsParted(keys, Len(keys), size, l, r)
    BY <1>1, <1>7, Parted
<1>9. ms[pid].keys = l /\ ms[Len(ns) + 1].keys = r
    BY <1>2, <1>5
<1> HIDE DEF l, r
<1>10. KeysSplit(l, r, r[1], seps, m, K2)
    BY <1>1, <1>4, <1>7, <1>8, KeysOfSplit
<1>11. res.promoted_key = r[1]
    BY <1>5, <1>9
<1> QED
    BY <1>9, <1>10, <1>11 DEF LeafKeysSplit, K2

LEMMA RowSplit ==
    ASSUME NEW ns, Len(ns) \in Nat, NEW row, NEW seps, NEW K, Row(ns, row, seps, K),
           NEW m \in 1 .. Len(row), NEW ms, PutBehindLeaf(ns, ms, row[m]), NEW e, NEW K2, K \subseteq K2,
           LeafKeysSplit(ms, row[m], Len(ns) + 1, e, seps, m, K2),
           NEW w \in Seq(Nat), IsInserted(w, row, m + 1, Len(ns) + 1),
           NEW sp \in Seq(Keys), IsInserted(sp, seps, m, e)
    PROVE  Row(ms, w, sp, K2)
<1>1. /\ Parting(row, seps, K)
      /\ \A i \in 1 .. Len(row) : LinkAt(ns, row, i) /\ KeysFit(ns[row[i]].keys, seps, i, K)
    BY DEF Row
<1>2. /\ row \in Seq(Nat) /\ seps \in Seq(Keys) /\ Len(row) = Len(seps) + 1
      /\ row[1] = 1 /\ Once(row) /\ Strict(seps) /\ Elems(seps) \subseteq K
    BY <1>1 DEF Parting
<1>3. /\ Len(row) \in Nat /\ Len(w) = Len(row) + 1 /\ m + 1 \in 1 .. Len(row) + 1 /\ w[m + 1] = Len(ns) + 1
      /\ \A j \in 1 .. (m + 1) - 1 : w[j] = row[j]
      /\ \A j \in m + 1 .. Len(row) : w[j + 1] = row[j]
    BY DEF IsInserted
<1>4. /\ Len(seps) \in Nat /\ Len(sp) = Len(seps) + 1 /\ sp[m] = e
      /\ \A j \in 1 .. m - 1 : sp[j] = seps[j]
      /\ \A j \in m .. Len(seps) : sp[j + 1] = seps[j]
    BY DEF IsInserted
<1> DEFINE pid == row[m]
           right == Len(ns) + 1
<1>5. KeysSplit(ms[pid].keys, ms[right].keys, e, seps, m, K2)
    BY DEF LeafKeysSplit
<1>6. pid \in 1 .. Len(ns)
    BY <1>1 DEF LinkAt
<1>7. /\ Len(ms) = right /\ \A q \in 1 .. Len(ns) : q # pid => ms[q] = ns[q]
      /\ ms[pid].is_leaf /\ ms[pid].next_leaf = right
      /\ ms[right].is_leaf /\ ms[right].next_leaf = ns[pid].next_leaf
    BY DEF PutBehindLeaf, OthersKept
<1>8. right \in Nat /\ right = Len(ns) + 1
    OBVIOUS
<1>23. pid = row[m]
    OBVIOUS
<1> HIDE DEF right, pid
<1>9. w[m] = pid /\ w[m + 1] = right /\ w[1] = 1
    <2>1. m \in 1 .. (m + 1) - 1 /\ 1 \in 1 .. (m + 1) - 1
        BY <1>3
    <2> QED
        BY <1>2, <1>3, <1>8, <1>23, <2>1
<1>10. m # Len(row) => w[m + 2] = row[m + 1]
    <2>1. m # Len(row) => m + 1 \in m + 1 .. Len(row) /\ (m + 1) + 1 = m + 2
        BY <1>3
    <2> QED
        BY <1>3, <2>1
<1>11. ASSUME NEW i \in 1 .. Len(w), i # m, i # m + 1
       PROVE  LinkAt(ms, w, i) /\ KeysFit(ms[w[i]].keys, sp, i, K2) /\ w[i] # pid /\ w[i] # right
    <2>1. PICK o \in 1 .. Len(row) : Moved(row, seps, w, sp, m, i, o)
        BY <1>2, <1>11, RowMoved
    <2>2. LinkAt(ns, row, o) /\ KeysFit(ns[row[o]].keys, seps, o, K)
        BY <1>1
    <2>3. /\ o # m /\ w[i] = row[o] /\ (i = Len(w) <=> o = Len(row))
          /\ i # Len(w) => w[i + 1] = row[o + 1]
          /\ \A k : Fits(k, seps, o) => Fits(k, sp, i)
        BY <2>1 DEF Moved
    <2>4. row[o] # pid /\ row[o] \in 1 .. Len(ns)
        <3>1. \A i1, j1 \in 1 .. Len(row) : row[i1] = row[j1] => i1 = j1
            BY <1>2 DEF Once
        <3> QED
            BY <1>23, <2>2, <2>3, <3>1 DEF LinkAt
    <2>5. ms[w[i]] = ns[row[o]]
        BY <1>7, <2>3, <2>4
    <2>6. KeysFit(ms[w[i]].keys, sp, i, K2)
        BY <2>2, <2>3, <2>5 DEF KeysFit
    <2>7. w[i] \in 1 .. Len(ms) /\ w[i] # pid /\ w[i] # right
        BY <1>7, <1>8, <2>3, <2>4
    <2>8. LinkAt(ms, w, i)
        <3>1. /\ ns[row[o]].is_leaf
              /\ ns[row[o]].next_leaf = IF o = Len(row) THEN INVALID_PAGE_ID ELSE row[o + 1]
            BY <2>2 DEF LinkAt
        <3>2. CASE i = Len(w)
            BY <2>3, <2>5, <2>7, <3>1, <3>2 DEF LinkAt
        <3>3. CASE i # Len(w)
            BY <2>3, <2>5, <2>7, <3>1, <3>3 DEF LinkAt
        <3> QED
            BY <3>2, <3>3
    <2> QED
        BY <2>6, <2>7, <2>8
<1>12. LinkAt(ms, w, m) /\ KeysFit(ms[w[m]].keys, sp, m, K2)
    <2>1. LinkAt(ms, w, m)
        <3>1. pid \in 1 .. Len(ms) /\ m # Len(w)
            BY <1>3, <1>6, <1>7, <1>8
        <3> QED
            BY <1>7, <1>9, <3>1 DEF LinkAt
    <2>2. m > 1 => sp[m - 1] = seps[m - 1]
        <3>1. m > 1 => m - 1 \in 1 .. m - 1
            BY <1>3
        <3> QED
            BY <1>4, <3>1
    <2>3. \A k \in Elems(ms[pid].keys) : Fits(k, sp, m)
        BY <1>4, <1>5, <2>2 DEF KeysSplit, Fits
    <2>4. KeysFit(ms[pid].keys, sp, m, K2)
        BY <1>5, <2>3 DEF KeysFit, KeysSplit
    <2> QED
        BY <1>9, <2>1, <2>4
<1>13. LinkAt(ms, w, m + 1) /\ KeysFit(ms[w[m + 1]].keys, sp, m + 1, K2)
    <2>1. LinkAt(ms, w, m + 1)
        <3>1. right \in 1 .. Len(ms) /\ (m + 1 = Len(w) <=> m = Len(row)) /\ (m + 1) + 1 = m + 2
            BY <1>3, <1>7, <1>8
        <3>2. ns[pid].next_leaf = IF m = Len(row) THEN INVALID_PAGE_ID ELSE row[m + 1]
            BY <1>1, <1>23 DEF LinkAt
        <3>3. CASE m = Len(row)
            BY <1>7, <1>9, <3>1, <3>2, <3>3 DEF LinkAt
        <3>4. CASE m # Len(row)
            BY <1>7, <1>9, <1>10, <3>1, <3>2, <3>4 DEF LinkAt
        <3> QED
            BY <3>3, <3>4
    <2>2. m + 1 <= Len(sp) => m <= Len(seps) /\ sp[m + 1] = seps[m]
        <3>1. m + 1 <= Len(sp) => m \in m .. Len(seps) /\ m <= Len(seps)
            BY <1>3, <1>4
        <3> QED
            BY <1>4, <3>1
    <2>3. (m + 1) - 1 = m
        BY <1>3
    <2>4. \A k \in Elems(ms[right].keys) : Fits(k, sp, m + 1)
        BY <1>4, <1>5, <2>2, <2>3 DEF KeysSplit, Fits
    <2>5. KeysFit(ms[right].keys, sp, m + 1, K2)
        BY <1>5, <2>4 DEF KeysFit, KeysSplit
    <2> QED
        BY <1>9, <2>1, <2>5
<1>14. Strict(sp)
    <2>1. Keys \in SUBSET Int /\ e \in Int
        BY <1>5, BPlusTreeAssumption DEF KeysSplit
    <2>2. (m > 1 => seps[m - 1] < e) /\ (m <= Len(seps) => e < seps[m])
        BY <1>5 DEF KeysSplit
    <2>3. seps \in Seq(Keys) /\ Strict(seps)
        BY <1>2
    <2> QED
        BY <2>1, <2>2, <2>3, StrictAt
<1>15. Elems(sp) \subseteq K2
    <2> SUFFICES ASSUME NEW j \in 1 .. Len(sp) PROVE sp[j] \in K2
        BY DEF Elems
    <2>1. \A n \in 1 .. Len(seps) : seps[n] \in K2
        BY <1>2 DEF Elems
    <2>2. CASE j < m
        <3>1. j \in 1 .. m - 1 /\ j \in 1 .. Len(seps)
            BY <1>2, <1>3, <1>4, <2>2
        <3> QED
            BY <1>4, <2>1, <3>1
    <2>3. CASE j = m
        BY <1>4, <1>5, <2>3 DEF KeysSplit
    <2>4. CASE j > m
        <3>1. j - 1 \in m .. Len(seps) /\ j - 1 \in 1 .. Len(seps) /\ (j - 1) + 1 = j
            BY <1>2, <1>3, <1>4, <2>4
        <3> QED
            BY <1>4, <2>1, <3>1
    <2> QED
        BY <1>4, <2>2, <2>3, <2>4
<1>16. Once(w)
    <2> SUFFICES ASSUME NEW i \in 1 .. Len(w), NEW j \in 1 .. Len(w), w[i] = w[j] PROVE i = j
        BY DEF Once
    <2>1. pid # right
        BY <1>6, <1>8
    <2>2. CASE i \in {m, m + 1} \/ j \in {m, m + 1}
        BY <1>9, <1>11, <2>1, <2>2
    <2>3. CASE i \notin {m, m + 1} /\ j \notin {m, m + 1}
        <3>1. \A n \in 1 .. Len(w) : n < m => n \in 1 .. (m + 1) - 1 /\ n \in 1 .. Len(row)
            BY <1>3
        <3>2. \A n \in 1 .. Len(w) : n > m + 1 => n - 1 \in m + 1 .. Len(row) /\ (n - 1) + 1 = n /\ n - 1 \in 1 .. Len(row)
            BY <1>3
        <3>3. \A n \in 1 .. Len(w) : n < m => w[n] = row[n]
            BY <1>3, <3>1
        <3>4. \A n \in 1 .. Len(w) : n > m + 1 => w[n] = row[n - 1]
            BY <1>3, <3>2
        <3>5. \A a, b \in 1 .. Len(row) : row[a] = row[b] => a = b
            BY <1>2 DEF Once
        <3>6. (i < m \/ i > m + 1) /\ (j < m \/ j > m + 1)
            BY <1>3, <2>3
        <3>7. CASE i < m /\ j < m
            BY <3>1, <3>3, <3>5, <3>7
        <3>8. CASE i < m /\ j > m + 1
            <4>1. row[i] = row[j - 1] /\ i \in 1 .. Len(row) /\ j - 1 \in 1 .. Len(row)
                BY <3>1, <3>2, <3>3, <3>4, <3>8
            <4>2. i = j - 1
                BY <3>5, <4>1
            <4> QED
                BY <1>3, <3>8, <4>2
        <3>9. CASE i > m + 1 /\ j < m
            <4>1. row[i - 1] = row[j] /\ j \in 1 .. Len(row) /\ i - 1 \in 1 .. Len(row)
                BY <3>1, <3>2, <3>3, <3>4, <3>9
            <4>2. i - 1 = j
                BY <3>5, <4>1
            <4> QED
                BY <1>3, <3>9, <4>2
        <3>10. CASE i > m + 1 /\ j > m + 1
            <4>1. row[i - 1] = row[j - 1] /\ j - 1 \in 1 .. Len(row) /\ i - 1 \in 1 .. Len(row)
                BY <3>2, <3>4, <3>10
            <4>2. i - 1 = j - 1
                BY <3>5, <4>1
            <4> QED
                BY <1>3, <4>2
        <3> QED
            BY <3>6, <3>7, <3>8, <3>9, <3>10
    <2> QED
        BY <2>2, <2>3
<1>17. Parting(w, sp, K2)
    <2>1. Len(w) = Len(sp) + 1
        BY <1>2, <1>3, <1>4
    <2> QED
        BY <1>9, <1>14, <1>15, <1>16, <2>1 DEF Parting
<1>18. \A i \in 1 .. Len(w) : LinkAt(ms, w, i) /\ KeysFit(ms[w[i]].keys, sp, i, K2)
    BY <1>11, <1>12, <1>13
<1> QED
    BY <1>17, <1>18 DEF Row

LEMMA RowKept ==
    ASSUME NEW ns, NEW ms, NEW row, NEW seps, NEW K, Row(ns, row, seps, K),
           Len(ns) \in Nat, Len(ms) \in Nat, Len(ms) >= Len(ns),
           \A p \in 1 .. Len(ns) : ns[p].is_leaf => ms[p] = ns[p]
    PROVE  Row(ms, row, seps, K)
<1>1. /\ Parting(row, seps, K)
      /\ \A i \in 1 .. Len(row) : LinkAt(ns, row, i) /\ KeysFit(ns[row[i]].keys, seps, i, K)
    BY DEF Row
<1>2. ASSUME NEW i \in 1 .. Len(row)
      PROVE  LinkAt(ms, row, i) /\ KeysFit(ms[row[i]].keys, seps, i, K)
    <2>1. LinkAt(ns, row, i) /\ KeysFit(ns[row[i]].keys, seps, i, K)
        BY <1>1
    <2>2. row[i] \in 1 .. Len(ns) /\ ms[row[i]] = ns[row[i]] /\ row[i] \in 1 .. Len(ms)
        BY <2>1 DEF LinkAt
    <2> QED
        BY <2>1, <2>2 DEF LinkAt
<1> QED
    BY <1>1, <1>2 DEF Row

\* Only one place keeps the keys in order.
LEMMA PlaceBetween ==
    ASSUME NEW keys \in Seq(Keys), Strict(keys), NEW e \in Keys, NEW m \in 1 .. Len(keys) + 1,
           m > 1 => keys[m - 1] < e, m <= Len(keys) => e < keys[m]
    PROVE  Place(keys, e) = m
<1> DEFINE at == Place(keys, e)
<1>1. /\ at \in 1 .. Len(keys) + 1
      /\ \A i \in 1 .. Len(keys) : i >= at => keys[i] > e
      /\ at > 1 => keys[at - 1] <= e
    BY Placed
<1> HIDE DEF at
<1>2. Len(keys) \in Nat /\ Keys \in SUBSET Int /\ e \in Int
    BY BPlusTreeAssumption
<1>3. \A i \in 1 .. Len(keys) : keys[i] \in Int
    BY <1>2, ElementOfSeq
<1>4. ~(at < m)
    <2> SUFFICES ASSUME at < m PROVE FALSE
        OBVIOUS
    <2>1. m - 1 \in 1 .. Len(keys) /\ m - 1 >= at /\ m > 1
        BY <1>1, <1>2
    <2> QED
        BY <1>1, <1>2, <1>3, <2>1
<1>5. ~(m < at)
    <2> SUFFICES ASSUME m < at PROVE FALSE
        OBVIOUS
    <2>1. at - 1 \in 1 .. Len(keys) /\ m \in 1 .. Len(keys) /\ (m = at - 1 \/ m < at - 1) /\ at > 1 /\ m <= Len(keys)
        BY <1>1, <1>2
    <2>2. m = at - 1 \/ keys[m] < keys[at - 1]
        BY <2>1 DEF Strict
    <2>3. keys[at - 1] <= e /\ e < keys[m]
        BY <1>1, <2>1
    <2> QED
        BY <1>2, <1>3, <2>1, <2>2, <2>3
<1>6. at = m
    BY <1>1, <1>2, <1>4, <1>5
<1> QED
    BY <1>6 DEF at

\* The child an insertion of a new key goes to.
ChildFits(node, key, m) == InsertChild(node, key) = node.child_nodes[m] /\ Fits(key, node.keys, m)

LEMMA InsertChildFits ==
    ASSUME NEW node, NEW keys \in Seq(Keys), node.keys = keys, NEW key \in Keys, key \notin Elems(keys)
    PROVE  \E m \in 1 .. Len(keys) + 1 : ChildFits(node, key, m)
<1> DEFINE S == {i \in DOMAIN keys : key <= keys[i]} \cup {Len(keys) + 1}
           m == Min(S)
<1>1. Len(keys) \in Nat /\ DOMAIN keys = 1 .. Len(keys) /\ key \in Int /\ Keys \in SUBSET Int
    BY BPlusTreeAssumption
<1>2. \A i \in 1 .. Len(keys) : keys[i] \in Int /\ keys[i] # key
    BY <1>1, ElementOfSeq DEF Elems
<1>3. S \in SUBSET Nat /\ S # {}
    BY <1>1
<1>4. \A i \in S : i \in 1 .. Len(keys) + 1 /\ (i <= Len(keys) => key <= keys[i])
    BY <1>1
<1>5. \A i \in 1 .. Len(keys) : i \notin S => keys[i] < key
    BY <1>1, <1>2
<1>6. InsertChild(node, key) = node.child_nodes[m]
    BY DEF InsertChild
<1> HIDE DEF S
<1>7. m \in S /\ \A j \in S : m <= j
    BY <1>3, MinIsLeast
<1> HIDE DEF m
<1>8. m \in 1 .. Len(keys) + 1 /\ m \in Nat
    BY <1>1, <1>4, <1>7
<1>9. m > 1 => keys[m - 1] <= key
    <2>1. m > 1 => m - 1 \in 1 .. Len(keys) /\ m - 1 \notin S
        BY <1>1, <1>7, <1>8
    <2> QED
        BY <1>1, <1>2, <1>5, <2>1
<1>10. m <= Len(keys) => key < keys[m]
    <2>1. m <= Len(keys) => m \in 1 .. Len(keys)
        BY <1>1, <1>8
    <2> QED
        BY <1>1, <1>2, <1>4, <1>7, <2>1
<1> QED
    BY <1>6, <1>8, <1>9, <1>10 DEF ChildFits, Fits

LEMMA FirstCalls ==
    ASSUME NEW ns, Len(ns) \in Nat, NEW root \in 1 .. Len(ns), NEW key
    PROVE  /\ CallsOf(ns, root, key)[0] = root
           /\ ~ns[root].is_leaf => CallsOf(ns, root, key)[1] = InsertChild(ns[root], key)
<1> DEFINE below == [p \in Internal(ns) |-> InsertChild(ns[p], key)]
           path == CallsOf(ns, root, key)
<1>1. Walked(path, ns, root, below, Len(ns))
    BY WalkSteps DEF CallsOf
<1>2. ~ns[root].is_leaf => below[root] = InsertChild(ns[root], key)
    BY DEF Internal
<1> HIDE DEF below, path
<1>3. path[0] = root /\ \A n \in 1 .. Len(ns) : path[n] = NextOf(ns, path[n - 1], below)
    BY <1>1 DEF Walked
<1>4. 1 \in 1 .. Len(ns) /\ 1 - 1 = 0
    OBVIOUS
<1>5. path[1] = NextOf(ns, path[0], below)
    BY <1>3, <1>4
<1>6. ~ns[root].is_leaf => path[1] = InsertChild(ns[root], key)
    BY <1>2, <1>3, <1>5 DEF NextOf
<1> QED
    BY <1>3, <1>6 DEF path

\* The recursion, when the root is a leaf or the children of the root are.
LEMMA InsertBelowLeaf ==
    ASSUME NEW ns, NEW root, NEW rank, NEW order, NEW left, Tree(ns, root, {root}, rank, order, left),
           ns[root].is_leaf, NEW key, NEW rid
    PROVE  insert_below(ns, root, key, rid) = bptree_leaf_insert(ns, root, key, rid)
<1>1. IndexFile(ns) /\ root \in 1 .. Len(ns) /\ Len(ns) \in Nat /\ rank[root] = 0
    BY DEF Tree, IndexFile, Ranked
<1> DEFINE path == CallsOf(ns, root, key)
<1>2. path[0] = root
    BY <1>1, FirstCalls
<1>3. GoesDown(ns, root, key, rank, order, path, 0)
    BY <1>1, CallsGoDown
<1> HIDE DEF path
<1>4. \E f : insert_below(ns, root, key, rid) = f[0] /\ f[0] = bptree_leaf_insert(ns, path[0], key, rid)
    BY <1>3, InsertBelowReturned
<1> QED
    BY <1>2, <1>4

LEMMA InsertBelowRoot ==
    ASSUME NEW ns, NEW root, NEW rank, NEW order, NEW left, Tree(ns, root, {root}, rank, order, left),
           ~ns[root].is_leaf, rank[root] = 1, NEW key, NEW rid
    PROVE  insert_below(ns, root, key, rid)
             = TakeIn(bptree_leaf_insert(ns, InsertChild(ns[root], key), key, rid), root)
<1>1. IndexFile(ns) /\ root \in 1 .. Len(ns) /\ Len(ns) \in Nat
    BY DEF Tree, IndexFile
<1> DEFINE path == CallsOf(ns, root, key)
<1>2. path[0] = root /\ path[1] = InsertChild(ns[root], key)
    BY <1>1, FirstCalls
<1>3. GoesDown(ns, root, key, rank, order, path, 1)
    BY CallsGoDown
<1> HIDE DEF path
<1>4. PICK f : /\ insert_below(ns, root, key, rid) = f[1]
               /\ f[0] = bptree_leaf_insert(ns, path[1], key, rid)
               /\ \A n \in 1 .. 1 : f[n] = TakeIn(f[n - 1], path[1 - n])
    BY <1>3, InsertBelowReturned
<1>5. 1 \in 1 .. 1 /\ 1 - 1 = 0
    OBVIOUS
<1>6. f[1] = TakeIn(f[0], path[0])
    BY <1>4, <1>5
<1> QED
    BY <1>2, <1>4, <1>6

\* No internal node but the root.
Shallow(ns, root) == \A p \in 1 .. Len(ns) : ~ns[p].is_leaf => p = root

\* The leaves of a shallow tree, in a row.
RootRow(ns, root, row, seps) ==
    IF ns[root].is_leaf THEN Len(row) = 1 /\ row[1] = root
    ELSE row = ns[root].child_nodes /\ seps = ns[root].keys
Ordered(ns, root, K) == \E row, seps : Row(ns, row, seps, K) /\ RootRow(ns, root, row, seps)

\* An insertion that leaves the tree shallow found it shallow, and splits no internal root.
StayedShallow(ns, root, r) == Shallow(ns, root) /\ (~ns[root].is_leaf => r.res = NoSplit)

LEMMA StaysShallow ==
    ASSUME NEW ns, NEW root, NEW rank, NEW order, NEW left, NEW E,
           Tree(ns, root, {root}, rank, order, left), Holds(ns, Elems(order), E),
           NEW key \in Keys, NEW rid \in Rids, \A a \in E : a[2] # rid,
           NEW t, t = index_insert([nodes |-> ns, root_pid |-> root], key, rid), Shallow(t.nodes, t.root_pid)
    PROVE  StayedShallow(ns, root, insert_below(ns, root, key, rid))
<1> DEFINE r == insert_below(ns, root, key, rid)
           F == E \cup {<<key, rid>>}
           height == rank[root]
<1>1. HandedUp(ns, rank, root, left, F, height, r)
    BY InsertBelow
<1>2. t = IF r.res = NoSplit THEN [nodes |-> r.nodes, root_pid |-> root]
          ELSE GrowRoot([nodes |-> r.nodes, root_pid |-> root], r.res)
    BY DEF index_insert
<1>3. IndexFile(ns) /\ root \in 1 .. Len(ns) /\ Len(ns) \in Nat /\ Ranked(ns, rank)
    BY DEF Tree, IndexFile
<1> HIDE DEF r, F, height
<1>4. PICK rank2, order2 :
        /\ Len(r.nodes) >= Len(ns) /\ SameRanks(rank, rank2, Len(ns))
        /\ IF r.res = NoSplit
           THEN Tree(r.nodes, root, {root}, rank2, order2, left)
           ELSE Tree(r.nodes, root, {root, r.res.child_pid}, rank2, order2, left)
    BY <1>1, Zenon DEF HandedUp
<1>5. IndexFile(r.nodes) /\ Ranked(r.nodes, rank2) /\ Len(r.nodes) \in Nat
    BY <1>4 DEF Tree, IndexFile
<1>6. ASSUME NEW p \in 1 .. Len(ns), ~ns[p].is_leaf
      PROVE  p \in 1 .. Len(r.nodes) /\ ~r.nodes[p].is_leaf
    <2>1. rank[p] # 0
        BY <1>3, <1>6 DEF Ranked
    <2>2. p \in 1 .. Len(r.nodes) /\ rank2[p] = rank[p]
        BY <1>3, <1>4, <1>5 DEF SameRanks
    <2> QED
        BY <1>5, <2>1, <2>2 DEF Ranked
<1>7. CASE r.res = NoSplit
    <2>1. t.nodes = r.nodes /\ t.root_pid = root
        BY <1>2, <1>7
    <2>2. Shallow(ns, root)
        BY <1>6, <2>1 DEF Shallow
    <2> QED
        BY <1>7, <2>2 DEF StayedShallow, r
<1>8. CASE r.res # NoSplit
    <2> DEFINE ms == r.nodes
               top == InternalNode(<<r.res.promoted_key>>, <<root, r.res.child_pid>>)
    <2>1. t.nodes = Append(ms, top) /\ t.root_pid = Len(ms) + 1
        BY <1>2, <1>8 DEF GrowRoot
    <2>2. ms \in Seq(Nodes)
        BY <1>5 DEF IndexFile
    <2>3. Len(ms) \in Nat /\ \A p \in 1 .. Len(ns) : ~ns[p].is_leaf => p \in 1 .. Len(ms) /\ ~ms[p].is_leaf
        BY <1>5, <1>6
    <2> HIDE DEF ms, top
    <2>4. Len(t.nodes) = Len(ms) + 1 /\ \A p \in 1 .. Len(ms) : t.nodes[p] = ms[p]
        BY <2>1, <2>2
    <2>5. ASSUME NEW p \in 1 .. Len(ns), ~ns[p].is_leaf PROVE FALSE
        <3>1. p \in 1 .. Len(ms) /\ ~ms[p].is_leaf
            BY <2>3, <2>5
        <3>2. p \in 1 .. Len(t.nodes) /\ ~t.nodes[p].is_leaf
            BY <2>3, <2>4, <3>1
        <3>3. p = Len(ms) + 1
            BY <2>1, <3>2 DEF Shallow
        <3> QED
            BY <2>3, <3>1, <3>3
    <2> QED
        BY <1>3, <2>5 DEF StayedShallow, Shallow
<1> QED
    BY <1>7, <1>8

\* An insertion into a tree that is one leaf.
LEMMA OrderedLeafRoot ==
    ASSUME NEW ns, NEW root, NEW K, IndexFile(ns), root \in 1 .. Len(ns), ns[root].is_leaf, Ordered(ns, root, K),
           NEW key \in Keys, key \notin K, NEW rid \in Rids,
           NEW r, r = bptree_leaf_insert(ns, root, key, rid),
           NEW t, t = IF r.res = NoSplit THEN [nodes |-> r.nodes, root_pid |-> root]
                      ELSE GrowRoot([nodes |-> r.nodes, root_pid |-> root], r.res)
    PROVE  Ordered(t.nodes, t.root_pid, K \cup {key})
<1>1. PICK row, seps : Row(ns, row, seps, K) /\ RootRow(ns, root, row, seps)
    BY DEF Ordered
<1>2. /\ row \in Seq(Nat) /\ seps \in Seq(Keys) /\ Len(row) = 1 /\ Len(row) = Len(seps) + 1 /\ row[1] = root
      /\ root = 1
    BY <1>1 DEF Row, Parting, RootRow
<1>3. Len(seps) = 0 /\ Len(ns) \in Nat /\ 1 \in 1 .. Len(row) /\ 1 \in 1 .. Len(seps) + 1
    BY <1>2 DEF IndexFile
<1>4. Fits(key, seps, 1)
    BY <1>3 DEF Fits
<1>5. KeysFit(ns[root].keys, seps, 1, K)
    BY <1>1, <1>2, <1>3 DEF Row
<1> DEFINE K2 == K \cup {key}
<1>6. CASE ~Full(ns[root].keys)
    <2>1. r.res = NoSplit /\ LeafGrown(ns, r.nodes, root, key, rid)
        BY <1>6, LeafGrows
    <2> DEFINE ms == r.nodes
    <2>2. t.nodes = ms /\ t.root_pid = root
        BY <2>1
    <2>3. LeafGrown(ns, ms, row[1], key, rid)
        BY <1>2, <2>1
    <2> HIDE DEF ms
    <2>4. Row(ms, row, seps, K2)
        BY <1>1, <1>3, <1>4, <2>3, RowGrown
    <2>5. RootRow(ms, root, row, seps)
        BY <1>2, <2>3 DEF RootRow, LeafGrown
    <2> HIDE DEF K2
    <2>6. Ordered(ms, root, K2)
        BY <2>4, <2>5 DEF Ordered
    <2> QED
        BY <2>2, <2>6 DEF K2
<1>7. CASE Full(ns[root].keys)
    <2> DEFINE ms == r.nodes
               split == r.res
               e == split.promoted_key
               c == Len(ns) + 1
               w == <<root, c>>
               sp == <<e>>
               top == InternalNode(sp, w)
    <2>1. IsSplit(split, ms) /\ LeafSplit(ns, ms, root, key, rid, split)
        BY <1>7, LeafSplits
    <2>2. split.child_pid = c /\ split # NoSplit /\ IndexFile(ms) /\ Len(ms) = c
        BY <2>1, Zenon DEF LeafSplit, IsSplit
    <2>3. t.nodes = Append(ms, top) /\ t.root_pid = Len(ms) + 1
        BY <2>2 DEF GrowRoot
    <2>4. PutBehindLeaf(ns, ms, root)
        BY <2>1, Zenon DEF LeafSplit, PutBehindLeaf
    <2>5. e \in Keys /\ c \in Nat
        BY <1>3, <2>1 DEF IsSplit
    <2>6. top \in Nodes /\ ~top.is_leaf /\ top.child_nodes = w /\ top.keys = sp
        <3>1. sp \in Seq(Keys) /\ w \in Seq(Nat)
            BY <1>2, <2>5
        <3> QED
            BY <3>1 DEF InternalNode, Nodes, INVALID_PAGE_ID
    <2> HIDE DEF ms, split, e, top
    <2>7. LeafKeysSplit(ms, root, Len(ns) + 1, e, seps, 1, K2)
        BY <1>2, <1>3, <1>4, <1>5, <1>7, <2>1, LeafSplitKeys DEF e
    <2>8. w \in Seq(Nat) /\ sp \in Seq(Keys) /\ w[1] = root /\ w[2] = c /\ sp[1] = e /\ Len(w) = 2 /\ Len(sp) = 1
        BY <1>2, <2>5
    <2> HIDE DEF w, sp, c
    <2>9. IsInserted(w, row, 1 + 1, Len(ns) + 1)
        BY <1>2, <2>8 DEF IsInserted, c
    <2>10. IsInserted(sp, seps, 1, e)
        BY <1>3, <2>8 DEF IsInserted
    <2> HIDE DEF K2
    <2>11. K \subseteq K2
        BY DEF K2
    <2>12. PutBehindLeaf(ns, ms, row[1]) /\ LeafKeysSplit(ms, row[1], Len(ns) + 1, e, seps, 1, K2)
        BY <1>2, <2>4, <2>7
    <2>13. Row(ms, w, sp, K2)
        BY <1>1, <1>3, <2>8, <2>9, <2>10, <2>11, <2>12, RowSplit
    <2>14. /\ Len(ms) \in Nat /\ Len(t.nodes) = Len(ms) + 1
           /\ \A p \in 1 .. Len(ms) : t.nodes[p] = ms[p]
           /\ t.nodes[t.root_pid] = top
        <3>1. ms \in Seq(Nodes)
            BY <2>2 DEF IndexFile
        <3> QED
            BY <2>3, <2>6, <3>1, AppendProperties
    <2>15. Row(t.nodes, w, sp, K2)
        <3>1. Len(t.nodes) \in Nat /\ Len(t.nodes) >= Len(ms)
            BY <2>14
        <3> QED
            BY <2>13, <2>14, <3>1, RowKept
    <2>16. RootRow(t.nodes, t.root_pid, w, sp)
        BY <2>6, <2>14 DEF RootRow
    <2>17. Ordered(t.nodes, t.root_pid, K2)
        BY <2>15, <2>16 DEF Ordered
    <2> QED
        BY <2>17 DEF K2
<1> QED
    BY <1>6, <1>7

\* An insertion into a tree whose root stands above the leaves, if the root does not split.
LEMMA OrderedInternalRoot ==
    ASSUME NEW ns, NEW root, NEW K, IndexFile(ns), root \in 1 .. Len(ns), ~ns[root].is_leaf, Ordered(ns, root, K),
           NEW key \in Keys, key \notin K, NEW rid \in Rids,
           NEW r, r = TakeIn(bptree_leaf_insert(ns, InsertChild(ns[root], key), key, rid), root), r.res = NoSplit
    PROVE  Ordered(r.nodes, root, K \cup {key})
<1>1. PICK row, seps : Row(ns, row, seps, K) /\ RootRow(ns, root, row, seps)
    BY DEF Ordered
<1>2. /\ row \in Seq(Nat) /\ seps \in Seq(Keys) /\ Len(row) = Len(seps) + 1 /\ Strict(seps) /\ Elems(seps) \subseteq K
      /\ row = ns[root].child_nodes /\ seps = ns[root].keys
    BY <1>1 DEF Row, Parting, RootRow
<1>3. Len(ns) \in Nat /\ Len(seps) \in Nat /\ Len(row) \in Nat
    BY <1>2 DEF IndexFile
<1>4. PICK m \in 1 .. Len(seps) + 1 : ChildFits(ns[root], key, m)
    <2> DEFINE node == ns[root]
    <2>1. seps \in Seq(Keys) /\ node.keys = seps /\ key \notin Elems(seps)
        BY <1>2
    <2> HIDE DEF node
    <2>2. \E m \in 1 .. Len(seps) + 1 : ChildFits(node, key, m)
        BY <2>1, InsertChildFits
    <2> QED
        BY <2>2 DEF node
<1>5. InsertChild(ns[root], key) = row[m] /\ Fits(key, seps, m) /\ m \in 1 .. Len(row)
    BY <1>2, <1>4 DEF ChildFits
<1> DEFINE pid == row[m]
           K2 == K \cup {key}
           below == bptree_leaf_insert(ns, pid, key, rid)
           ms == below.nodes
<1>6. LinkAt(ns, row, m) /\ KeysFit(ns[pid].keys, seps, m, K)
    BY <1>1, <1>5 DEF Row
<1>7. pid \in 1 .. Len(ns) /\ ns[pid].is_leaf /\ pid # root
    BY <1>6 DEF LinkAt
<1>8. r = TakeIn(below, root)
    BY <1>5
<1> HIDE DEF pid
<1>16. pid = row[m]
    BY DEF pid
<1>9. CASE ~Full(ns[pid].keys)
    <2>1. below.res = NoSplit /\ LeafGrown(ns, ms, pid, key, rid)
        BY <1>7, <1>9, LeafGrows
    <2>2. r.nodes = ms
        BY <1>8, <2>1 DEF TakeIn
    <2> HIDE DEF below, ms, K2
    <2>3. Row(ms, row, seps, K2)
        <3>1. LeafGrown(ns, ms, row[m], key, rid)
            BY <1>16, <2>1
        <3> QED
            BY <1>1, <1>5, <3>1, RowGrown DEF K2
    <2>4. ms[root] = ns[root]
        BY <1>7, <2>1 DEF LeafGrown, OthersKept
    <2>5. RootRow(ms, root, row, seps)
        BY <1>1, <2>4 DEF RootRow
    <2>6. Ordered(ms, root, K2)
        BY <2>3, <2>5 DEF Ordered
    <2> QED
        BY <2>2, <2>6 DEF K2
<1>10. CASE Full(ns[pid].keys)
    <2> DEFINE split == below.res
               e == split.promoted_key
               c == Len(ns) + 1
    <2>1. IsSplit(split, ms) /\ LeafSplit(ns, ms, pid, key, rid, split)
        BY <1>7, <1>10, LeafSplits
    <2> HIDE DEF below
    <2>2. split.child_pid = c /\ split # NoSplit /\ IndexFile(ms) /\ Len(ms) = c /\ OthersKept(ns, ms, pid)
        BY <2>1, Zenon DEF LeafSplit, IsSplit
    <2>3. r = bptree_internal_insert(ms, root, split)
        BY <1>8, <2>2 DEF TakeIn
    <2>4. PutBehindLeaf(ns, ms, pid)
        BY <2>1, Zenon DEF LeafSplit, PutBehindLeaf
    <2>5. LeafKeysSplit(ms, pid, Len(ns) + 1, e, seps, m, K2)
        BY <1>2, <1>5, <1>6, <1>7, <1>10, <2>1, LeafSplitKeys DEF e
    <2>6. ms[root] = ns[root] /\ root \in 1 .. Len(ms) /\ ~ms[root].is_leaf
        BY <1>3, <1>7, <2>2 DEF OthersKept
    <2> HIDE DEF ms, split, K2
    <2>7. ~Full(ms[root].keys)
        <3> SUFFICES ASSUME Full(ms[root].keys) PROVE FALSE
            OBVIOUS
        <3>1. IsSplit(r.res, r.nodes)
            BY <2>1, <2>2, <2>3, <2>6, InternalSplits
        <3> QED
            BY <3>1 DEF IsSplit
    <2>8. InternalGrown(ms, r.nodes, root, split)
        BY <2>1, <2>2, <2>3, <2>6, <2>7, InternalGrows
    <2>9. e \in Keys /\ c \in Nat
        BY <1>3, <2>1 DEF IsSplit
    <2>10. (m > 1 => seps[m - 1] < e) /\ (m <= Len(seps) => e < seps[m])
        BY <2>5 DEF LeafKeysSplit, KeysSplit
    <2> HIDE DEF e, c
    <2>11. Place(seps, e) = m
        BY <1>2, <1>4, <2>9, <2>10, PlaceBetween
    <2> DEFINE w == InsertAt(row, m + 1, c)
               sp == InsertAt(seps, m, e)
    <2>12. r.nodes[root].keys = sp /\ r.nodes[root].child_nodes = w
        <3>1. ms[root].keys = seps /\ ms[root].child_nodes = row /\ split.promoted_key = e /\ split.child_pid = c
            BY <1>2, <2>2, <2>6 DEF e
        <3>2. KeysWith(ms[root], e) = sp
            BY <2>11, <3>1 DEF KeysWith
        <3>3. KidsWith(ms[root], split) = w
            BY <2>11, <3>1 DEF KidsWith
        <3> QED
            BY <2>8, <3>1, <3>2, <3>3 DEF InternalGrown
    <2>13. m + 1 \in 1 .. Len(row) + 1
        BY <1>3, <1>5
    <2>14. w \in Seq(Nat) /\ IsInserted(w, row, m + 1, c)
        BY <1>2, <2>9, <2>13, Inserted, InsertedAt
    <2>15. sp \in Seq(Keys) /\ IsInserted(sp, seps, m, e)
        BY <1>2, <2>9, Inserted, InsertedAt
    <2> HIDE DEF w, sp
    <2>16. K \subseteq K2
        BY DEF K2
    <2>17. PutBehindLeaf(ns, ms, row[m]) /\ LeafKeysSplit(ms, row[m], Len(ns) + 1, e, seps, m, K2)
        BY <1>16, <2>4, <2>5
    <2>18. IsInserted(w, row, m + 1, Len(ns) + 1)
        BY <2>14 DEF c
    <2>19. Row(ms, w, sp, K2)
        BY <1>1, <1>3, <1>5, <2>14, <2>15, <2>16, <2>17, <2>18, RowSplit
    <2>20. /\ Len(r.nodes) = Len(ms) + 1 /\ ~r.nodes[root].is_leaf
           /\ \A q \in 1 .. Len(ms) : q # root => r.nodes[q] = ms[q]
        BY <2>8 DEF InternalGrown, OthersKept
    <2>21. Row(r.nodes, w, sp, K2)
        <3>1. Len(ms) \in Nat /\ Len(r.nodes) \in Nat /\ Len(r.nodes) >= Len(ms)
            BY <2>2, <2>9, <2>20
        <3>2. \A p \in 1 .. Len(ms) : ms[p].is_leaf => r.nodes[p] = ms[p]
            BY <2>6, <2>20
        <3> QED
            BY <2>19, <3>1, <3>2, RowKept
    <2>22. RootRow(r.nodes, root, w, sp)
        BY <2>12, <2>20 DEF RootRow
    <2>23. Ordered(r.nodes, root, K2)
        BY <2>21, <2>22 DEF Ordered
    <2> QED
        BY <2>23 DEF K2
<1> QED
    BY <1>9, <1>10

\* An insertion of a new key that leaves the tree shallow keeps its leaves in order.
LEMMA OrderedInsert ==
    ASSUME NEW ns, NEW root, NEW rank, NEW order, NEW left, NEW E,
           Tree(ns, root, {root}, rank, order, left), Holds(ns, Elems(order), E),
           NEW key \in Keys, NEW rid \in Rids, \A a \in E : a[2] # rid,
           NEW t, t = index_insert([nodes |-> ns, root_pid |-> root], key, rid), Shallow(t.nodes, t.root_pid),
           NEW K, key \notin K, Shallow(ns, root) => Ordered(ns, root, K)
    PROVE  Ordered(t.nodes, t.root_pid, K \cup {key})
<1> DEFINE r == insert_below(ns, root, key, rid)
<1>1. IndexFile(ns) /\ root \in 1 .. Len(ns) /\ Len(ns) \in Nat /\ Ranked(ns, rank)
    BY DEF Tree, IndexFile
<1>2. t = IF r.res = NoSplit THEN [nodes |-> r.nodes, root_pid |-> root]
          ELSE GrowRoot([nodes |-> r.nodes, root_pid |-> root], r.res)
    BY DEF index_insert
<1>3. StayedShallow(ns, root, r)
    BY StaysShallow
<1> HIDE DEF r
<1>4. Ordered(ns, root, K) /\ (~ns[root].is_leaf => r.res = NoSplit)
    BY <1>3 DEF StayedShallow
<1>5. CASE ns[root].is_leaf
    <2>1. r = bptree_leaf_insert(ns, root, key, rid)
        BY <1>5, InsertBelowLeaf DEF r
    <2> QED
        BY <1>1, <1>2, <1>4, <1>5, <2>1, OrderedLeafRoot
<1>6. CASE ~ns[root].is_leaf
    <2>1. PICK row, seps : Row(ns, row, seps, K) /\ RootRow(ns, root, row, seps)
        BY <1>4 DEF Ordered
    <2>2. row = ns[root].child_nodes /\ 1 \in 1 .. Len(row) /\ row[1] \in 1 .. Len(ns) /\ ns[row[1]].is_leaf
        <3>1. row = ns[root].child_nodes
            BY <1>6, <2>1 DEF RootRow
        <3>2. 1 \in 1 .. Len(row)
            BY <2>1 DEF Row, Parting
        <3> QED
            BY <2>1, <3>1, <3>2 DEF Row, LinkAt
    <2>3. row[1] \in Kids(ns, root)
        BY <2>2 DEF Kids, Elems
    <2>4. rank[root] = rank[row[1]] + 1 /\ rank[row[1]] = 0
        BY <1>1, <2>2, <2>3 DEF Ranked
    <2>5. rank[root] = 1
        BY <2>4
    <2>6. r = TakeIn(bptree_leaf_insert(ns, InsertChild(ns[root], key), key, rid), root)
        BY <1>6, <2>5, InsertBelowRoot DEF r
    <2>7. t.nodes = r.nodes /\ t.root_pid = root
        BY <1>2, <1>4, <1>6
    <2>8. Ordered(r.nodes, root, K \cup {key})
        BY <1>1, <1>4, <1>6, <2>6, OrderedInternalRoot
    <2> QED
        BY <2>7, <2>8
<1> QED
    BY <1>5, <1>6

LEMMA FirstLeafOrdered ==
    ASSUME NEW ns, IndexFile(ns), Len(ns) = 0
    PROVE  Ordered(fetch_page(ns), Len(ns) + 1, {})
<1> DEFINE ms == fetch_page(ns)
           row == <<1>>
           seps == << >>
<1>1. Len(ms) = 1 /\ ms[1] = NewNode
    <2>1. 0 + 1 = 1
        OBVIOUS
    <2> QED
        BY <2>1, Fetched
<1>2. ms[1].is_leaf /\ ms[1].keys = << >> /\ ms[1].next_leaf = INVALID_PAGE_ID
    <2>1. 0 \in Nat
        OBVIOUS
    <2> QED
        BY <1>1, <2>1, NewNodeOK
<1>3. Strict(<< >>) /\ Elems(<< >>) = {}
    BY DEF Strict, Elems
<1>4. /\ row \in Seq(Nat) /\ Len(row) = 1 /\ row[1] = 1 /\ \A i \in 1 .. Len(row) : i = 1
      /\ seps \in Seq(Keys) /\ Len(seps) = 0
    OBVIOUS
<1>5. Strict(seps) /\ Elems(seps) = {}
    BY <1>3
<1> HIDE DEF ms, row, seps
<1>6. Parting(row, seps, {})
    BY <1>4, <1>5 DEF Parting, Once
<1>7. LinkAt(ms, row, 1)
    BY <1>1, <1>2, <1>4 DEF LinkAt
<1>8. KeysFit(ms[row[1]].keys, seps, 1, {})
    BY <1>2, <1>3, <1>4 DEF KeysFit
<1>9. Row(ms, row, seps, {})
    BY <1>4, <1>6, <1>7, <1>8 DEF Row
<1>10. RootRow(ms, 1, row, seps)
    BY <1>2, <1>4 DEF RootRow
<1>11. Ordered(ms, 1, {})
    BY <1>9, <1>10 DEF Ordered
<1>12. Len(ns) + 1 = 1
    OBVIOUS
<1> QED
    BY <1>11, <1>12 DEF ms

KeysOf(E) == {e[1] : e \in E}

\* A key that leaves the keys distinct is new.
LEMMA DistinctBefore ==
    ASSUME NEW E, IsFiniteSet(E), NEW key, NEW rid, <<key, rid>> \notin E,
           Cardinality(KeysOf(E \cup {<<key, rid>>})) = Cardinality(E \cup {<<key, rid>>})
    PROVE  /\ key \notin KeysOf(E) /\ Cardinality(KeysOf(E)) = Cardinality(E)
           /\ KeysOf(E \cup {<<key, rid>>}) = KeysOf(E) \cup {key}
<1> DEFINE e == <<key, rid>>
           F == E \cup {e}
           T == KeysOf(E)
           f == [a \in E |-> a[1]]
<1>1. KeysOf(F) = T \cup {key}
    BY DEF KeysOf
<1>2. f \in Surjection(E, T)
    BY DEF Surjection, KeysOf
<1>3. Cardinality(F) = Cardinality(E) + 1 /\ Cardinality(E) \in Nat
    BY FS_AddElement, FS_CardinalityType
<1>4. Cardinality(KeysOf(F)) = Cardinality(F)
    OBVIOUS
<1> HIDE DEF F, T, f
<1>5. IsFiniteSet(T) /\ Cardinality(T) <= Cardinality(E)
    BY <1>2, FS_Surjection
<1>6. Cardinality(T) \in Nat
    BY <1>5, FS_CardinalityType
<1>7. key \notin T
    <2> SUFFICES ASSUME key \in T PROVE FALSE
        OBVIOUS
    <2>1. KeysOf(F) = T
        BY <1>1
    <2> QED
        BY <1>3, <1>4, <1>5, <1>6, <2>1
<1>8. Cardinality(T \cup {key}) = Cardinality(T) + 1
    BY <1>5, <1>7, FS_AddElement
<1>9. Cardinality(T) = Cardinality(E)
    BY <1>1, <1>3, <1>4, <1>6, <1>8
<1> QED
    BY <1>1, <1>7, <1>9 DEF T, F

\* As long as the tree is shallow and no key was inserted twice, its leaves are in order.
InOrderWhileShallow ==
    root_pid # INVALID_PAGE_ID /\ Shallow(nodes, root_pid) /\ DistinctKeys
        => Ordered(nodes, root_pid, KeysOf(entries))

LEMMA InsertKeepsOrder ==
    ASSUME IInv, InOrderWhileShallow, NEW key \in Keys, Insert(key)
    PROVE  InOrderWhileShallow'
<1> DEFINE rid == Cardinality(entries) + 1
           t == IF root_pid = INVALID_PAGE_ID
                THEN [nodes |-> fetch_page(nodes), root_pid |-> Len(nodes) + 1]
                ELSE tree
           new == index_insert(t, key, rid)
           added == entries \cup {<<key, rid>>}
<1>1. rid <= MaxInserts /\ nodes' = new.nodes /\ root_pid' = new.root_pid /\ entries' = added
    BY DEF Insert
<1>2. Cardinality(entries) \in Nat /\ IsFiniteSet(entries)
    BY FS_CardinalityType DEF IInv, EntriesOK
<1>3. rid \in Rids /\ \A a \in entries : a[2] # rid
    <2>1. rid \in Rids
        BY <1>1, <1>2, BPlusTreeAssumption DEF Rids
    <2>2. ASSUME NEW a \in entries PROVE a[2] # rid
        <3>1. a[2] <= Cardinality(entries)
            BY DEF IInv, EntriesOK
        <3>2. a[2] \in Rids
            BY DEF IInv, EntriesOK
        <3> QED
            BY <1>2, <3>1, <3>2, BPlusTreeAssumption DEF Rids
    <2> QED
        BY <2>1, <2>2
<1>4. <<key, rid>> \notin entries
    BY <1>3
<1> HIDE DEF rid
<1> SUFFICES ASSUME Shallow(new.nodes, new.root_pid), Cardinality(KeysOf(added)) = Cardinality(added)
             PROVE  Ordered(new.nodes, new.root_pid, KeysOf(added))
    BY <1>1 DEF InOrderWhileShallow, DistinctKeys, KeysOf
<1> DEFINE K == KeysOf(entries)
<1>5. key \notin K /\ Cardinality(K) = Cardinality(entries) /\ KeysOf(added) = K \cup {key}
    BY <1>2, <1>4, DistinctBefore
<1>6. DistinctKeys
    BY <1>5 DEF DistinctKeys, KeysOf
<1> HIDE DEF K
<1>7. PICK ns, root : /\ t = [nodes |-> ns, root_pid |-> root]
                      /\ Whole(ns, root, entries) /\ (Shallow(ns, root) => Ordered(ns, root, K))
    <2>1. CASE root_pid = INVALID_PAGE_ID
        <3>1. nodes = << >> /\ entries = {} /\ IndexFile(nodes) /\ Len(nodes) = 0
            BY <2>1 DEF IInv, IndexFile
        <3>2. Whole(fetch_page(nodes), Len(nodes) + 1, entries)
            BY <3>1, FirstLeaf
        <3>3. Ordered(fetch_page(nodes), Len(nodes) + 1, {})
            BY <3>1, FirstLeafOrdered
        <3>4. K = {}
            BY <3>1 DEF K, KeysOf
        <3>5. t = [nodes |-> fetch_page(nodes), root_pid |-> Len(nodes) + 1]
            BY <2>1
        <3> HIDE DEF t
        <3> QED
            BY <3>2, <3>3, <3>4, <3>5
    <2>2. CASE root_pid # INVALID_PAGE_ID
        <3>1. Whole(nodes, root_pid, entries)
            BY <2>2 DEF IInv
        <3>2. Shallow(nodes, root_pid) => Ordered(nodes, root_pid, K)
            BY <1>6, <2>2 DEF InOrderWhileShallow, K
        <3>3. t = [nodes |-> nodes, root_pid |-> root_pid]
            BY <2>2 DEF tree
        <3> HIDE DEF t
        <3> QED
            BY <3>1, <3>2, <3>3
    <2> QED
        BY <2>1, <2>2
<1>8. PICK rank, order, left : Tree(ns, root, {root}, rank, order, left) /\ Holds(ns, Elems(order), entries)
    BY <1>7 DEF Whole
<1>9. new = index_insert([nodes |-> ns, root_pid |-> root], key, rid)
    BY <1>7
<1> HIDE DEF t, new, added
<1>10. Ordered(new.nodes, new.root_pid, K \cup {key})
    BY <1>3, <1>5, <1>7, <1>8, <1>9, OrderedInsert
<1> QED
    BY <1>5, <1>10

LEMMA OrderKept == Spec => [](IInv /\ InOrderWhileShallow)
<1> DEFINE I == IInv /\ InOrderWhileShallow
<1>1. Init => I
    <2>1. Init => InOrderWhileShallow
        BY DEF Init, InOrderWhileShallow
    <2> QED
        BY <2>1, InitTree
<1>2. I /\ [Next]_vars => I'
    <2> SUFFICES ASSUME IInv, InOrderWhileShallow, [Next]_vars PROVE IInv' /\ InOrderWhileShallow'
        OBVIOUS
    <2>1. ASSUME NEW key \in Keys, Insert(key) PROVE IInv' /\ InOrderWhileShallow'
        BY <2>1, InsertKeepsTree, InsertKeepsOrder
    <2>2. CASE UNCHANGED vars
        BY <2>2 DEF IInv, EntriesOK, InOrderWhileShallow, DistinctKeys, vars
    <2> QED
        BY <2>1, <2>2 DEF Next, Done
<1> HIDE DEF I
<1>3. Spec => []I
    BY <1>1, <1>2, PTL DEF Spec
<1> QED
    BY <1>3, PTL DEF I

\* A key belongs into one leaf only.
LEMMA FitsOnce ==
    ASSUME NEW seps \in Seq(Keys), Strict(seps), NEW k \in Int, NEW i \in 1 .. Len(seps) + 1, NEW j \in 1 .. Len(seps) + 1,
           Fits(k, seps, i), Fits(k, seps, j)
    PROVE  i = j
<1>1. Len(seps) \in Nat /\ Keys \in SUBSET Int
    BY BPlusTreeAssumption
<1>2. \A n \in 1 .. Len(seps) : seps[n] \in Int
    BY <1>1, ElementOfSeq
<1>3. ASSUME NEW a \in 1 .. Len(seps) + 1, NEW b \in 1 .. Len(seps) + 1, a < b, Fits(k, seps, a), Fits(k, seps, b)
      PROVE  FALSE
    <2>1. a \in 1 .. Len(seps) /\ a <= Len(seps) /\ b > 1 /\ b - 1 \in 1 .. Len(seps) /\ (a = b - 1 \/ a < b - 1)
        BY <1>1, <1>3
    <2>2. k < seps[a] /\ seps[b - 1] <= k
        BY <1>3, <2>1 DEF Fits
    <2>3. a = b - 1 \/ seps[a] < seps[b - 1]
        BY <2>1 DEF Strict
    <2> QED
        BY <1>2, <2>1, <2>2, <2>3
<1>4. ~(i < j) /\ ~(j < i)
    BY <1>3
<1> QED
    BY <1>1, <1>4

\* The child a search goes to.
ScanFits(node, key, m) == ScanChild(node, key) = node.child_nodes[m] /\ Fits(key, node.keys, m)

LEMMA ScanChildFits ==
    ASSUME NEW node, NEW keys \in Seq(Keys), node.keys = keys, NEW key \in Keys
    PROVE  \E m \in 1 .. Len(keys) + 1 : ScanFits(node, key, m)
<1> DEFINE S == {i \in DOMAIN keys : key < keys[i]} \cup {Len(keys) + 1}
           m == Min(S)
<1>1. Len(keys) \in Nat /\ DOMAIN keys = 1 .. Len(keys) /\ key \in Int /\ Keys \in SUBSET Int
    BY BPlusTreeAssumption
<1>2. \A i \in 1 .. Len(keys) : keys[i] \in Int
    BY <1>1, ElementOfSeq
<1>3. S \in SUBSET Nat /\ S # {}
    BY <1>1
<1>4. \A i \in S : i \in 1 .. Len(keys) + 1 /\ (i <= Len(keys) => key < keys[i])
    BY <1>1
<1>5. \A i \in 1 .. Len(keys) : i \notin S => keys[i] <= key
    BY <1>1, <1>2
<1>6. ScanChild(node, key) = node.child_nodes[m]
    BY DEF ScanChild
<1> HIDE DEF S
<1>7. m \in S /\ \A j \in S : m <= j
    BY <1>3, MinIsLeast
<1> HIDE DEF m
<1>8. m \in 1 .. Len(keys) + 1 /\ m \in Nat
    BY <1>1, <1>4, <1>7
<1>9. m > 1 => keys[m - 1] <= key
    <2>1. m > 1 => m - 1 \in 1 .. Len(keys) /\ m - 1 \notin S
        BY <1>1, <1>7, <1>8
    <2> QED
        BY <1>5, <2>1
<1>10. m <= Len(keys) => key < keys[m]
    BY <1>4, <1>7
<1> QED
    BY <1>6, <1>8, <1>9, <1>10 DEF ScanFits, Fits

LEMMA WalkStays ==
    ASSUME NEW ns, Len(ns) \in Nat, NEW pid, NEW below, NEW at, Walked(at, ns, pid, below, Len(ns)),
           NEW k \in 0 .. Len(ns), ns[at[k]].is_leaf
    PROVE  at[Len(ns)] = at[k]
<1> DEFINE S == {n \in Nat : k + n <= Len(ns) => at[k + n] = at[k]}
<1>1. 0 \in S
    OBVIOUS
<1>2. ASSUME NEW n \in Nat, n \in S
      PROVE  n + 1 \in S
    <2> SUFFICES ASSUME k + (n + 1) <= Len(ns) PROVE at[k + (n + 1)] = at[k]
        OBVIOUS
    <2>1. k + (n + 1) \in 1 .. Len(ns) /\ (k + (n + 1)) - 1 = k + n /\ k + n <= Len(ns)
        OBVIOUS
    <2>2. at[k + n] = at[k]
        BY <1>2, <2>1
    <2>3. at[k + (n + 1)] = NextOf(ns, at[k + n], below)
        BY <2>1 DEF Walked
    <2> QED
        BY <2>2, <2>3 DEF NextOf
<1> HIDE DEF S
<1>3. Len(ns) - k \in S
    <2>1. Len(ns) - k \in Nat
        OBVIOUS
    <2> QED
        BY <1>1, <1>2, <2>1, SetInduction
<1> QED
    BY <1>3 DEF S

\* The leaf a search comes to.
ScanLeaf(key, row, seps, m) == LeafFor(root_pid, key) = nodes[row[m]] /\ Fits(key, seps, m)

LEMMA ScanComesTo ==
    ASSUME IndexFile(nodes), root_pid \in 1 .. Len(nodes), NEW row, NEW seps, NEW K, Row(nodes, row, seps, K),
           RootRow(nodes, root_pid, row, seps), NEW key \in Keys
    PROVE  \E m \in 1 .. Len(row) : ScanLeaf(key, row, seps, m)
<1> DEFINE below == [p \in Internal(nodes) |-> ScanChild(nodes[p], key)]
           at == Walk(nodes, root_pid, below)
<1>1. Len(nodes) \in Nat /\ 0 \in 0 .. Len(nodes) /\ 1 \in 0 .. Len(nodes)
    BY DEF IndexFile
<1>2. LeafFor(root_pid, key) = nodes[at[Len(nodes)]]
    BY DEF LeafFor
<1>3. Walked(at, nodes, root_pid, below, Len(nodes))
    BY <1>1, WalkSteps
<1>4. ~nodes[root_pid].is_leaf => below[root_pid] = ScanChild(nodes[root_pid], key)
    BY DEF Internal
<1> HIDE DEF below, at
<1>5. at[0] = root_pid /\ \A n \in 1 .. Len(nodes) : at[n] = NextOf(nodes, at[n - 1], below)
    BY <1>3 DEF Walked
<1>6. seps \in Seq(Keys) /\ Len(row) = Len(seps) + 1
    BY DEF Row, Parting
<1>7. CASE nodes[root_pid].is_leaf
    <2>1. Len(row) = 1 /\ row[1] = root_pid
        BY <1>7 DEF RootRow
    <2>2. at[Len(nodes)] = at[0]
        BY <1>1, <1>3, <1>5, <1>7, WalkStays
    <2>3. Fits(key, seps, 1)
        BY <1>6, <2>1 DEF Fits
    <2>4. ScanLeaf(key, row, seps, 1)
        BY <1>2, <1>5, <2>1, <2>2, <2>3 DEF ScanLeaf
    <2> QED
        BY <2>1, <2>4
<1>8. CASE ~nodes[root_pid].is_leaf
    <2>1. row = nodes[root_pid].child_nodes /\ seps = nodes[root_pid].keys
        BY <1>8 DEF RootRow
    <2>2. PICK m \in 1 .. Len(seps) + 1 : ScanFits(nodes[root_pid], key, m)
        <3> DEFINE node == nodes[root_pid]
        <3>1. node.keys = seps
            BY <2>1
        <3> HIDE DEF node
        <3>2. \E m \in 1 .. Len(seps) + 1 : ScanFits(node, key, m)
            BY <1>6, <3>1, ScanChildFits
        <3> QED
            BY <3>2 DEF node
    <2>3. m \in 1 .. Len(row) /\ ScanChild(nodes[root_pid], key) = row[m] /\ Fits(key, seps, m)
        BY <1>6, <2>1, <2>2 DEF ScanFits
    <2>4. 1 \in 1 .. Len(nodes) /\ 1 - 1 = 0
        BY <1>1
    <2>5. at[1] = NextOf(nodes, at[0], below)
        BY <1>5, <2>4
    <2>6. at[1] = row[m]
        BY <1>4, <1>5, <1>8, <2>3, <2>5 DEF NextOf
    <2>7. nodes[row[m]].is_leaf
        BY <2>3 DEF Row, LinkAt
    <2>8. at[Len(nodes)] = at[1]
        BY <1>1, <1>3, <2>6, <2>7, WalkStays
    <2>9. ScanLeaf(key, row, seps, m)
        BY <1>2, <2>3, <2>6, <2>8 DEF ScanLeaf
    <2> QED
        BY <2>3, <2>9
<1> QED
    BY <1>7, <1>8

LEMMA ScanIsRight ==
    ASSUME NEW rank, NEW order, NEW left, Tree(nodes, root_pid, {root_pid}, rank, order, left),
           Holds(nodes, Elems(order), entries), EntriesOK,
           NEW row, NEW seps, NEW K, Row(nodes, row, seps, K), RootRow(nodes, root_pid, row, seps), NEW key \in Keys
    PROVE  IF \E r \in Rids : <<key, r>> \in entries
           THEN <<key, bptree_scan(key)>> \in entries
           ELSE bptree_scan(key) = 0
<1>1. IndexFile(nodes) /\ root_pid \in 1 .. Len(nodes) /\ Linked(nodes, {root_pid}, order) /\ Len(nodes) \in Nat
    BY DEF Tree, IndexFile
<1>2. PICK m \in 1 .. Len(row) : ScanLeaf(key, row, seps, m)
    BY <1>1, ScanComesTo
<1>3. \A i \in 1 .. Len(row) : LinkAt(nodes, row, i) /\ KeysFit(nodes[row[i]].keys, seps, i, K)
    BY DEF Row
<1>4. /\ row \in Seq(Nat) /\ Len(row) >= 1 /\ row[1] = 1 /\ seps \in Seq(Keys) /\ Strict(seps)
      /\ Len(row) = Len(seps) + 1
    BY DEF Row, Parting
<1>5. ASSUME NEW i \in 1 .. Len(row) PROVE row[i] \in Elems(order)
    <2>1. row[i] \in 1 .. Len(nodes) /\ nodes[row[i]].is_leaf
        BY <1>3 DEF LinkAt
    <2>2. Hangs(nodes, {root_pid}, row[i])
        <3>1. CASE nodes[root_pid].is_leaf
            <4>1. Len(row) = 1 /\ row[1] = root_pid
                BY <3>1 DEF RootRow
            <4>2. row[i] \in {root_pid}
                BY <4>1
            <4> QED
                BY <4>2 DEF Hangs
        <3>2. CASE ~nodes[root_pid].is_leaf
            <4>1. row = nodes[root_pid].child_nodes
                BY <3>2 DEF RootRow
            <4>2. row[i] \in Kids(nodes, root_pid)
                BY <4>1 DEF Kids, Elems
            <4> QED
                BY <1>1, <4>2 DEF Hangs
        <3> QED
            BY <3>1, <3>2
    <2> QED
        BY <1>1, <2>1, <2>2 DEF Linked
<1>6. InOrder(row)
    BY <1>3, <1>4, ChainAlong
<1>7. ASSUME NEW p \in Elems(order) PROVE \E i \in 1 .. Len(row) : p = row[i]
    <2>1. ChainLeaves = Elems(order)
        BY ChainEnds
    <2>2. PICK n \in 0 .. Len(nodes) : p = Chain[n] /\ p # INVALID_PAGE_ID
        BY <2>1 DEF ChainLeaves
    <2>3. n < Len(row) /\ p = row[n + 1]
        BY <1>6, <2>2 DEF InOrder
    <2>4. n + 1 \in 1 .. Len(row)
        BY <1>1, <1>4, <2>2, <2>3
    <2> QED
        BY <2>3, <2>4
<1> DEFINE leaf == nodes[row[m]]
           hits == {i \in DOMAIN leaf.keys : leaf.keys[i] = key}
<1>8. LeafFor(root_pid, key) = leaf /\ Fits(key, seps, m)
    BY <1>2 DEF ScanLeaf
<1>9. bptree_scan(key) = IF hits = {} THEN 0 ELSE leaf.values[Min(hits)]
    BY <1>8 DEF bptree_scan
<1>10. /\ row[m] \in 1 .. Len(nodes) /\ row[m] \in Elems(order)
    BY <1>3, <1>5 DEF LinkAt
<1>11. leaf.keys \in Seq(Keys) /\ Len(leaf.keys) \in Nat /\ DOMAIN leaf.keys = 1 .. Len(leaf.keys)
    <2>1. leaf.keys \in Seq(Keys)
        BY <1>1, <1>10, NodeAt
    <2> HIDE DEF leaf
    <2> QED
        BY <2>1
<1>12. \A i \in 1 .. Len(leaf.keys) : <<leaf.keys[i], leaf.values[i]>> \in entries
    <2>1. EntriesOf(nodes, row[m]) \subseteq entries
        BY <1>10 DEF Holds
    <2> QED
        BY <2>1 DEF EntriesOf, Pairs
<1> HIDE DEF leaf
<1>13. hits \in SUBSET Nat /\ \A i \in hits : i \in 1 .. Len(leaf.keys) /\ leaf.keys[i] = key
    BY <1>11
<1> HIDE DEF hits
<1>14. CASE hits = {}
    <2>1. ASSUME NEW r \in Rids, <<key, r>> \in entries PROVE FALSE
        <3>1. PICK p \in Elems(order) : <<key, r>> \in EntriesOf(nodes, p)
            BY <2>1 DEF Holds
        <3>2. PICK i \in 1 .. Len(nodes[p].keys) : <<key, r>> = <<nodes[p].keys[i], nodes[p].values[i]>>
            BY <3>1 DEF EntriesOf, Pairs
        <3>3. PICK n \in 1 .. Len(row) : p = row[n]
            BY <1>7
        <3>4. nodes[row[n]].keys[i] = key /\ key \in Elems(nodes[row[n]].keys)
            BY <3>2, <3>3 DEF Elems
        <3>5. Fits(key, seps, n)
            BY <1>3, <3>4 DEF KeysFit
        <3>6. n = m
            <4>1. key \in Int /\ n \in 1 .. Len(seps) + 1 /\ m \in 1 .. Len(seps) + 1
                BY <1>4, BPlusTreeAssumption
            <4> QED
                BY <1>4, <1>8, <3>5, <4>1, FitsOnce
        <3>7. i \in 1 .. Len(leaf.keys) /\ leaf.keys[i] = key
            BY <3>2, <3>3, <3>4, <3>6 DEF leaf
        <3> QED
            BY <1>11, <1>14, <3>7 DEF hits
    <2>2. bptree_scan(key) = 0
        BY <1>9, <1>14
    <2> QED
        BY <2>1, <2>2
<1>15. CASE hits # {}
    <2> DEFINE h == Min(hits)
    <2>1. h \in hits
        BY <1>13, <1>15, MinIsLeast
    <2>2. bptree_scan(key) = leaf.values[h]
        BY <1>9, <1>15
    <2> HIDE DEF h
    <2>3. <<key, bptree_scan(key)>> \in entries
        BY <1>12, <1>13, <2>1, <2>2
    <2>4. bptree_scan(key) \in Rids
        BY <2>3 DEF EntriesOK
    <2> QED
        BY <2>3, <2>4
<1> QED
    BY <1>14, <1>15

\* The keys along the chain of leaves.
ChainSorted ==
    \A m, n \in 0 .. Len(nodes) : Chain[m] # INVALID_PAGE_ID /\ Chain[n] # INVALID_PAGE_ID =>
       \A i \in DOMAIN nodes[Chain[m]].keys, j \in DOMAIN nodes[Chain[n]].keys :
          m < n \/ (m = n /\ i < j) => nodes[Chain[m]].keys[i] < nodes[Chain[n]].keys[j]

LEMMA RowIsSorted ==
    ASSUME NEW rank, NEW order, NEW left, Tree(nodes, root_pid, {root_pid}, rank, order, left),
           NEW row, NEW seps, NEW K, Row(nodes, row, seps, K)
    PROVE  ChainSorted
<1>1. IndexFile(nodes) /\ Len(nodes) \in Nat
    BY DEF Tree, IndexFile
<1>2. \A i \in 1 .. Len(row) : LinkAt(nodes, row, i) /\ KeysFit(nodes[row[i]].keys, seps, i, K)
    BY DEF Row
<1>3. /\ row \in Seq(Nat) /\ Len(row) \in Nat /\ Len(row) >= 1 /\ row[1] = 1
      /\ seps \in Seq(Keys) /\ Len(seps) \in Nat /\ Strict(seps) /\ Len(row) = Len(seps) + 1
    BY DEF Row, Parting
<1>4. InOrder(row)
    BY <1>2, <1>3, ChainAlong
<1>5. \A n \in 1 .. Len(seps) : seps[n] \in Int
    BY <1>3, ElementOfSeq, BPlusTreeAssumption
<1> SUFFICES ASSUME NEW m \in 0 .. Len(nodes), NEW n \in 0 .. Len(nodes),
                    Chain[m] # INVALID_PAGE_ID, Chain[n] # INVALID_PAGE_ID,
                    NEW i \in DOMAIN nodes[Chain[m]].keys, NEW j \in DOMAIN nodes[Chain[n]].keys,
                    m < n \/ (m = n /\ i < j)
             PROVE  nodes[Chain[m]].keys[i] < nodes[Chain[n]].keys[j]
    BY DEF ChainSorted
<1>6. m < Len(row) /\ n < Len(row) /\ Chain[m] = row[m + 1] /\ Chain[n] = row[n + 1]
    BY <1>4 DEF InOrder
<1>7. m + 1 \in 1 .. Len(row) /\ n + 1 \in 1 .. Len(row)
    BY <1>1, <1>3, <1>6
<1> DEFINE a == nodes[row[m + 1]].keys
           b == nodes[row[n + 1]].keys
<1>8. a \in Seq(Keys) /\ b \in Seq(Keys) /\ KeysFit(a, seps, m + 1, K) /\ KeysFit(b, seps, n + 1, K)
    <2>1. row[m + 1] \in 1 .. Len(nodes) /\ row[n + 1] \in 1 .. Len(nodes)
        BY <1>2, <1>7 DEF LinkAt
    <2>2. KeysFit(a, seps, m + 1, K) /\ KeysFit(b, seps, n + 1, K)
        BY <1>2, <1>7
    <2> QED
        BY <1>1, <2>1, <2>2, NodeAt
<1>9. i \in DOMAIN a /\ j \in DOMAIN b
    BY <1>6
<1>10. m = n => a = b
    OBVIOUS
<1> HIDE DEF a, b
<1>11. i \in 1 .. Len(a) /\ j \in 1 .. Len(b) /\ a[i] \in Int /\ b[j] \in Int
    <2>1. i \in 1 .. Len(a) /\ j \in 1 .. Len(b)
        BY <1>8, <1>9
    <2> QED
        BY <1>8, <2>1, ElementOfSeq, BPlusTreeAssumption
<1>12. a[i] < b[j]
    <2>1. CASE m < n
        <3>1. m + 1 \in 1 .. Len(seps) /\ m + 1 <= Len(seps) /\ n \in 1 .. Len(seps) /\ n + 1 > 1 /\ (n + 1) - 1 = n
            <4>1. m \in Nat /\ n \in Nat /\ m + 1 <= n
                BY <1>1, <2>1
            <4>2. n <= Len(seps)
                BY <1>3, <1>7, <4>1
            <4> QED
                BY <1>3, <4>1, <4>2
        <3>2. a[i] < seps[m + 1]
            BY <1>8, <1>11, <3>1 DEF KeysFit, Fits, Elems
        <3>3. seps[n] <= b[j]
            BY <1>8, <1>11, <3>1 DEF KeysFit, Fits, Elems
        <3>4. m + 1 = n \/ m + 1 < n
            BY <1>1, <2>1
        <3>5. m + 1 = n \/ seps[m + 1] < seps[n]
            BY <1>3, <3>1, <3>4 DEF Strict
        <3> QED
            BY <1>5, <1>11, <3>1, <3>2, <3>3, <3>5
    <2>2. CASE m = n /\ i < j
        BY <1>8, <1>10, <1>11, <2>2 DEF KeysFit, Strict
    <2> QED
        BY <2>1, <2>2
<1> QED
    BY <1>6, <1>12 DEF a, b

LEMMA TreeIsOrdered == IInv /\ InOrderWhileShallow => OrderedWhileShallow
<1> SUFFICES ASSUME IInv, InOrderWhileShallow, \A p \in DOMAIN nodes : ~nodes[p].is_leaf => p = root_pid
             PROVE  ScanFindsEntries /\ (DistinctKeys => ChainSorted)
    BY Zenon DEF OrderedWhileShallow, ChainSorted
<1>1. CASE root_pid = INVALID_PAGE_ID
    <2>1. nodes = << >> /\ Len(nodes) = 0
        BY <1>1 DEF IInv
    <2>2. Chain[0] = INVALID_PAGE_ID
        BY <1>1, <2>1, ChainSteps DEF ChainStart
    <2>3. \A n \in 0 .. Len(nodes) : Chain[n] = INVALID_PAGE_ID
        BY <2>1, <2>2
    <2> QED
        BY <1>1, <2>3, Zenon DEF ScanFindsEntries, ChainSorted
<1>2. CASE root_pid # INVALID_PAGE_ID
    <2> SUFFICES ASSUME DistinctKeys
                 PROVE  /\ ChainSorted
                        /\ \A key \in Keys : IF \E r \in Rids : <<key, r>> \in entries
                                             THEN <<key, bptree_scan(key)>> \in entries
                                             ELSE bptree_scan(key) = 0
        BY Zenon DEF ScanFindsEntries
    <2>1. PICK rank, order, left :
            Tree(nodes, root_pid, {root_pid}, rank, order, left) /\ Holds(nodes, Elems(order), entries)
        BY <1>2 DEF IInv, Whole
    <2>2. Shallow(nodes, root_pid)
        <3>1. nodes \in Seq(Nodes)
            BY <2>1 DEF Tree, IndexFile
        <3>2. DOMAIN nodes = 1 .. Len(nodes)
            BY <3>1
        <3> QED
            BY <3>2 DEF Shallow
    <2> DEFINE K == KeysOf(entries)
    <2>3. PICK row, seps : Row(nodes, row, seps, K) /\ RootRow(nodes, root_pid, row, seps)
        BY <1>2, <2>2 DEF InOrderWhileShallow, Ordered
    <2> HIDE DEF K
    <2>4. EntriesOK
        BY DEF IInv
    <2>5. ChainSorted
        BY <2>1, <2>3, RowIsSorted
    <2>6. ASSUME NEW key \in Keys
          PROVE  IF \E r \in Rids : <<key, r>> \in entries
                 THEN <<key, bptree_scan(key)>> \in entries
                 ELSE bptree_scan(key) = 0
        BY <2>1, <2>3, <2>4, ScanIsRight
    <2> QED
        BY <2>5, <2>6
<1> QED
    BY <1>1, <1>2

\* As long as no internal node has been split and no key inserted twice, a search finds
\* the row inserted under a key, and nothing under any other key, and the chain of leaves
\* is sorted: for every capacity of a node, in whatever order the keys come, the key a
\* leaf split promotes parts the two halves, and both rules for choosing a child lead to
\* the one leaf a key belongs into.
THEOREM OrderedShallow == Spec => []OrderedWhileShallow
BY OrderKept, TreeIsOrdered, PTL
=============================================================================
