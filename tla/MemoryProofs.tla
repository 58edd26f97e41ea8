---------------------------- MODULE MemoryProofs ----------------------------
(***************************************************************************)
(* The memory of a plan.                                                    *)
(*                                                                          *)
(* First, the greedy planner keeps its arena partitioned: no byte is in two *)
(* blocks, none is lost, and the free list stays in order and merged.  The  *)
(* argument is about bytes.  Allocated and AfterAllocate, Refused and       *)
(* AfterDeallocate are each shown to do to the set of free bytes what they  *)
(* should (AllocateSound, DeallocateSound), by cutting the list at the      *)
(* place they work on (Parts) and putting it together again (Appended);     *)
(* that every byte of the arena is either free or in exactly one client's   *)
(* block (ArenaInv) is then inductive.                                      *)
(*                                                                          *)
(* Second, SizeCalculator's layout of a plan is sound for every plan.  What *)
(* one call of the planner does is restated for a set of blocks in use      *)
(* (Guarded, Full); every loop of the layout is a walk through states in    *)
(* each of which that holds for the tensors placed and needed so far        *)
(* (Holding), and for what must survive an execution (Lasting); one task    *)
(* laid out keeps Laid, the invariant of calculate_relations, unless        *)
(* set_v_block throws (LayInv).                                             *)
(*                                                                          *)
(* Third, executing a plan that is laid out so, any number of times, never  *)
(* overwrites what is still to be read: what memory holds (MemOf) is kept   *)
(* by every step of every execution, because blocks in use at once do not   *)
(* overlap (TaskApart), but for an operand that is worked on in place,      *)
(* which nobody reads afterwards.                                           *)
(***************************************************************************)
EXTENDS MemoryPlanner, MemoryPlan, FiniteSetTheorems, WellFoundedInduction, TLAPS

-----------------------------------------------------------------------------
(* Numbers and lists.                                                       *)

(* A set of numbers has a least one.                                        *)
LEMMA LeastNumber ==
  ASSUME NEW T \in SUBSET Nat, T # {}
  PROVE  /\ SmallestOf(T) \in T
         /\ \A m \in T : SmallestOf(T) <= m
<1> DEFINE R == OpToRel(<, Nat)
<1>1. IsWellFoundedOn(R, Nat)
  BY NatLessThanWellFounded
<1>2. \E n \in T : \A m \in T : ~(<<m, n>> \in R)
  BY <1>1, WFMin
<1>3. PICK n \in T : \A m \in T : ~(<<m, n>> \in R)
  BY <1>2
<1>4. \A m \in T : ~(m < n)
  BY <1>3 DEF OpToRel
<1>5. \E i \in T : \A j \in T : i <= j
  BY <1>4
<1> QED
  BY <1>5 DEF SmallestOf

(* An aligned position is at most one alignment further.                    *)
LEMMA AlignedBounds ==
  ASSUME NEW pos \in Nat, NEW alignment \in Nat \ {0}
  PROVE  /\ aligned_pos(pos, alignment) \in Nat
         /\ pos <= aligned_pos(pos, alignment)
<1> DEFINE x == pos + alignment - 1
           d == x \div alignment
           m == x % alignment
<1>1. x \in Nat /\ alignment \in Nat /\ alignment > 0
  OBVIOUS
<1>2. d \in Int /\ m \in 0 .. alignment - 1 /\ x = alignment * d + m
  BY <1>1
<1>3. d >= 0
  BY <1>1, <1>2
<1>4. alignment * d = d * alignment /\ d * alignment \in Nat
  BY <1>1, <1>2, <1>3
<1>5. pos <= d * alignment
  BY <1>1, <1>2, <1>4
<1> QED
  BY <1>4, <1>5 DEF aligned_pos

(* The blocks there can be: none is empty.                                  *)
Blocks == [offset : Nat, size : Nat \ {0}]

(* A block begins before it ends.                                           *)
LEMMA EndType ==
  ASSUME NEW b \in Blocks
  PROVE  /\ b.offset \in Nat /\ b.size \in Nat \ {0} /\ EndOf(b) \in Nat /\ b.offset < EndOf(b)
         /\ b = VirtualBlock(b.offset, b.size) /\ b = VirtualBlock(b.offset, EndOf(b) - b.offset)
BY DEF EndOf, Blocks, VirtualBlock

(* Blocks in order, no two of which overlap or meet.                        *)
Gapped(s) ==
  /\ s \in Seq(Blocks)
  /\ \A i, j \in DOMAIN s : i < j => EndOf(s[i]) < s[j].offset

(* The blocks of a list.                                                    *)
Elements(s) == {s[i] : i \in DOMAIN s}

(* Every block of s ends before every block of t begins.                    *)
Precedes(s, t) == \A b \in Elements(s), c \in Elements(t) : EndOf(b) < c.offset

(* Two lists in order, one before the other, are one list in order.         *)
LEMMA Appended ==
  ASSUME NEW s, NEW t, Gapped(s), Gapped(t), Precedes(s, t)
  PROVE  Gapped(s \o t) /\ Elements(s \o t) = Elements(s) \cup Elements(t)
<1> DEFINE u == s \o t
           m == Len(s)
<1>1. s \in Seq(Blocks) /\ t \in Seq(Blocks) /\ u \in Seq(Blocks)
  BY DEF Gapped
<1>2. m \in Nat /\ Len(t) \in Nat /\ Len(u) = m + Len(t)
      /\ DOMAIN s = 1 .. m /\ DOMAIN t = 1 .. Len(t) /\ DOMAIN u = 1 .. m + Len(t)
  BY <1>1
<1>3. \A i \in 1 .. m : u[i] = s[i]
  BY <1>1, <1>2
<1>4. \A i \in m + 1 .. m + Len(t) : u[i] = t[i - m] /\ i - m \in DOMAIN t
  BY <1>1, <1>2
<1>5. \A k \in DOMAIN t : k + m \in DOMAIN u /\ u[k + m] = t[k]
  BY <1>2, <1>4
<1> HIDE DEF u, m
<1>6. ASSUME NEW i \in DOMAIN u, NEW j \in DOMAIN u, i < j
      PROVE  EndOf(u[i]) < u[j].offset
  <2>1. CASE j \in 1 .. m
    <3>1. i \in 1 .. m
      BY <1>2, <1>6, <2>1
    <3> QED
      BY <1>2, <1>3, <1>6, <2>1, <3>1 DEF Gapped
  <2>2. CASE i \in m + 1 .. m + Len(t)
    <3>1. j \in m + 1 .. m + Len(t) /\ i - m < j - m
      BY <1>2, <1>6, <2>2
    <3> QED
      BY <1>4, <1>6, <2>2, <3>1 DEF Gapped
  <2>3. CASE i \in 1 .. m /\ j \in m + 1 .. m + Len(t)
    <3>1. u[i] \in Elements(s) /\ u[j] \in Elements(t)
      BY <1>2, <1>3, <1>4, <2>3 DEF Elements
    <3> QED
      BY <3>1 DEF Precedes
  <2> QED
    BY <1>2, <1>6, <2>1, <2>2, <2>3
<1>7. Gapped(u)
  BY <1>1, <1>6 DEF Gapped, u
<1>8. Elements(u) \subseteq Elements(s) \cup Elements(t)
  <2>1. ASSUME NEW i \in DOMAIN u PROVE u[i] \in Elements(s) \cup Elements(t)
    <3>1. i \in 1 .. m \/ i \in m + 1 .. m + Len(t)
      BY <1>2
    <3> QED
      BY <1>2, <1>3, <1>4, <3>1 DEF Elements
  <2> QED
    BY <2>1 DEF Elements
<1>9. Elements(s) \cup Elements(t) \subseteq Elements(u)
  <2>1. \A i \in DOMAIN s : i \in DOMAIN u /\ s[i] = u[i]
    BY <1>2, <1>3
  <2> QED
    BY <1>5, <2>1 DEF Elements
<1> QED
  BY <1>7, <1>8, <1>9 DEF u

(* A list of no block or one.                                               *)
LEMMA Single ==
  ASSUME NEW b, b.size = 0 \/ b \in Blocks
  PROVE  /\ Gapped(NonEmpty(b))
         /\ Elements(NonEmpty(b)) = {c \in {b} : c.size # 0}
<1>1. CASE b.size = 0
  BY <1>1 DEF NonEmpty, Gapped, Elements
<1>2. CASE b.size # 0
  <2>1. b \in Blocks /\ NonEmpty(b) = <<b>>
    BY <1>2 DEF NonEmpty
  <2>2. <<b>> \in Seq(Blocks) /\ DOMAIN <<b>> = {1} /\ <<b>>[1] = b
    BY <2>1
  <2>3. Gapped(NonEmpty(b))
    BY <2>1, <2>2 DEF Gapped
  <2>4. Elements(NonEmpty(b)) = {b}
    BY <2>1, <2>2 DEF Elements
  <2> QED
    BY <1>2, <2>3, <2>4
<1> QED
  BY <1>1, <1>2

(* The blocks from the i-th to the j-th.                                    *)
Slice(s, i, j) == {s[k] : k \in i .. j}

(* What comes before an element and after one.                              *)
LEMMA Parts ==
  ASSUME NEW s, Gapped(s), NEW i \in Nat, NEW j \in Nat, 1 <= i, i <= Len(s) + 1, j <= Len(s), i <= j + 1
  PROVE  /\ Gapped(Before(s, i)) /\ Gapped(After(s, j)) 
         /\ Elements(Before(s, i)) = Slice(s, 1, i - 1)
         /\ Elements(After(s, j)) = Slice(s, j + 1, Len(s))
         /\ Elements(s) = Elements(Before(s, i)) \cup Slice(s, i, j) \cup Elements(After(s, j))
<1>1. s \in Seq(Blocks) /\ Len(s) \in Nat /\ DOMAIN s = 1 .. Len(s)
  BY DEF Gapped
<1> DEFINE p == Before(s, i)
           q == After(s, j)
<1>2. p \in Seq(Blocks) /\ Len(p) = i - 1 /\ DOMAIN p = 1 .. i - 1 /\ \A k \in 1 .. i - 1 : p[k] = s[k]
  BY <1>1 DEF Before
<1>3. q \in Seq(Blocks) /\ Len(q) = Len(s) - j /\ DOMAIN q = 1 .. Len(s) - j
      /\ \A k \in 1 .. Len(s) - j : q[k] = s[k + j]
  <2>1. q = [k \in 1 .. Len(s) - (j + 1) + 1 |-> s[k + (j + 1) - 1]]
    BY <1>1 DEF After
  <2>2. Len(s) - (j + 1) + 1 = Len(s) - j /\ Len(s) - j \in Nat
    BY <1>1
  <2>3. \A k \in 1 .. Len(s) - j : k + (j + 1) - 1 = k + j /\ k + j \in DOMAIN s
    BY <1>1
  <2>4. q = [k \in 1 .. Len(s) - j |-> s[k + j]]
    BY <2>1, <2>2, <2>3
  <2>5. \A k \in DOMAIN s : s[k] \in Blocks
    BY <1>1
  <2> HIDE DEF q
  <2> QED
    BY <2>2, <2>3, <2>4, <2>5
<1> HIDE DEF p, q
<1>4. Gapped(p)
  BY <1>1, <1>2 DEF Gapped
<1>5. \A k \in 1 .. Len(s) - j : k + j \in DOMAIN s
  BY <1>1
<1>6. Gapped(q)
  <2>1. ASSUME NEW k \in DOMAIN q, NEW l \in DOMAIN q, k < l
        PROVE  EndOf(q[k]) < q[l].offset
    <3>1. k + j \in DOMAIN s /\ l + j \in DOMAIN s /\ k + j < l + j
      BY <1>3, <1>5, <2>1
    <3> QED
      BY <1>3, <2>1, <3>1 DEF Gapped
  <2> QED
    BY <1>3, <2>1 DEF Gapped
<1>7. Elements(p) = Slice(s, 1, i - 1)
  BY <1>2 DEF Elements, Slice
<1>8. Elements(q) = Slice(s, j + 1, Len(s))
  <2>1. \A k \in j + 1 .. Len(s) : k - j \in DOMAIN q /\ q[k - j] = s[k]
    BY <1>1, <1>3
  <2>2. \A k \in DOMAIN q : k + j \in j + 1 .. Len(s) /\ q[k] = s[k + j]
    BY <1>1, <1>3
  <2> QED
    BY <2>1, <2>2 DEF Elements, Slice
<1>9. DOMAIN s = (1 .. i - 1) \cup (i .. j) \cup (j + 1 .. Len(s))
  BY <1>1
<1>10. Elements(s) = Elements(p) \cup Slice(s, i, j) \cup Elements(q)
  BY <1>7, <1>8, <1>9 DEF Elements, Slice
<1> QED
  BY <1>4, <1>6, <1>7, <1>8, <1>10 DEF p, q

-----------------------------------------------------------------------------
(* A planner.                                                               *)

(* The list is in order and within the arena.                               *)
WellFormed(p) ==
  /\ p = [total_size |-> p.total_size, v_blocks |-> p.v_blocks]
  /\ p.total_size \in Nat
  /\ Gapped(p.v_blocks)
  /\ \A b \in Elements(p.v_blocks) : EndOf(b) <= p.total_size

(* Byte x is in block b.                                                    *)
Covers(b, x) == b.offset <= x /\ x < EndOf(b)

(* Byte x is free.                                                          *)
FreeByte(p, x) == \E b \in Elements(p.v_blocks) : Covers(b, x)

(* Padding at the end of the arena joins the list.                          *)
LEMMA PaddedList ==
  ASSUME NEW p, WellFormed(p), NEW n \in Nat
  PROVE  LET s == Padded(p, VirtualBlock(p.total_size, n))
         IN  /\ Gapped(s)
             /\ \A b \in Elements(s) : EndOf(b) <= p.total_size + n
             /\ \A x \in Nat : (\E b \in Elements(s) : Covers(b, x)) <=>
                                 \/ FreeByte(p, x)
                                 \/ p.total_size <= x /\ x < p.total_size + n
<1> DEFINE v == p.v_blocks
           t == p.total_size
           g == VirtualBlock(t, n)
           m == Len(v)
           s == Padded(p, g)
<1>1. t \in Nat /\ Gapped(v) /\ v \in Seq(Blocks) /\ m \in Nat /\ DOMAIN v = 1 .. m
      /\ \A b \in Elements(v) : EndOf(b) <= t
  BY DEF WellFormed, Gapped
<1>2. g.offset = t /\ g.size = n /\ EndOf(g) = t + n /\ (n > 0 => g \in Blocks)
  BY <1>1 DEF VirtualBlock, EndOf, Blocks
<1> HIDE DEF g, v, t
<1>3. CASE m > 0 /\ EndOf(v[m]) = t
  <2> DEFINE b == v[m]
             c == VirtualBlock(b.offset, b.size + n)
  <2>1. m \in DOMAIN v /\ b \in Blocks /\ b \in Elements(v)
    BY <1>1, <1>3 DEF Elements
  <2>2. b.offset \in Nat /\ b.size \in Nat \ {0} /\ EndOf(b) = t /\ t = b.offset + b.size
    BY <1>3, <2>1, EndType DEF EndOf
  <2>3. c.offset = b.offset /\ c.size = b.size + n /\ EndOf(c) = t + n /\ c \in Blocks
    <3>1. b.size + n \in Nat /\ b.size + n > 0 /\ b.offset + (b.size + n) = t + n
      BY <1>1, <2>2
    <3> QED
      BY <2>2, <3>1 DEF VirtualBlock, EndOf, Blocks
  <2>4. s = [v EXCEPT ![m] = c]
    <3>1. s = [v EXCEPT ![m].size = b.size + n]
      BY <1>2, <1>3 DEF Padded, v
    <3>2. b = [offset |-> b.offset, size |-> b.size]
      BY <2>1 DEF Blocks
    <3>3. [[offset |-> b.offset, size |-> b.size] EXCEPT !.size = b.size + n] = c
      BY DEF VirtualBlock
    <3>4. [b EXCEPT !.size = b.size + n] = c
      BY <3>2, <3>3, Zenon
    <3> HIDE DEF c, s, b
    <3> QED
      BY <3>1, <3>4 DEF b
  <2> HIDE DEF c, s
  <2>5. s \in Seq(Blocks) /\ DOMAIN s = DOMAIN v /\ s[m] = c /\ \A k \in DOMAIN v \ {m} : s[k] = v[k]
    BY <1>1, <2>1, <2>3, <2>4
  <2>6. Gapped(s)
    <3>1. ASSUME NEW i \in DOMAIN s, NEW j \in DOMAIN s, i < j
          PROVE  EndOf(s[i]) < s[j].offset
      <4>1. i # m /\ s[i] = v[i] /\ s[j].offset = v[j].offset
        BY <1>1, <2>3, <2>5, <3>1
      <4> QED
        BY <1>1, <2>5, <3>1, <4>1 DEF Gapped
    <3> QED
      BY <2>5, <3>1 DEF Gapped
  <2>7. \A e \in Elements(s) : e = c \/ e \in Elements(v)
    BY <2>5 DEF Elements
  <2>8. \A e \in Elements(v) : e = b \/ e \in Elements(s)
    BY <2>5 DEF Elements
  <2>9. c \in Elements(s)
    BY <2>1, <2>5 DEF Elements
  <2>10. \A e \in Elements(s) : EndOf(e) <= t + n
    <3>1. ASSUME NEW e \in Elements(v) PROVE EndOf(e) <= t + n
      <4>1. e \in Blocks
        BY <1>1 DEF Elements
      <4>2. EndOf(e) \in Nat /\ EndOf(e) <= t
        BY <1>1, <4>1, EndType
      <4> QED
        BY <1>1, <4>2
    <3>2. EndOf(c) <= t + n
      BY <1>1, <2>3
    <3> QED
      BY <2>7, <3>1, <3>2
  <2>11. \A x \in Nat : Covers(c, x) <=> Covers(b, x) \/ (t <= x /\ x < t + n)
    BY <1>1, <2>2, <2>3 DEF Covers
  <2>12. \A x \in Nat : (\E e \in Elements(s) : Covers(e, x)) <=>
                          (\E e \in Elements(v) : Covers(e, x)) \/ (t <= x /\ x < t + n)
    BY <2>1, <2>7, <2>8, <2>9, <2>11
  <2> QED
    BY <2>6, <2>10, <2>12 DEF FreeByte, s, g, v, t
<1>4. CASE ~(m > 0 /\ EndOf(v[m]) = t)
  <2>1. s = v \o NonEmpty(g)
    BY <1>2, <1>4 DEF Padded, v
  <2>2. Gapped(NonEmpty(g)) /\ Elements(NonEmpty(g)) = {c \in {g} : c.size # 0}
    BY <1>2, Single
  <2>3. \A e \in Elements(v) : EndOf(e) < t
    <3> SUFFICES ASSUME NEW i \in DOMAIN v PROVE EndOf(v[i]) < t
      BY DEF Elements
    <3>1. m > 0 /\ m \in DOMAIN v /\ v[i] \in Blocks /\ v[m] \in Blocks
      BY <1>1
    <3>2. EndOf(v[m]) \in Nat /\ EndOf(v[m]) <= t /\ EndOf(v[m]) # t
          /\ EndOf(v[i]) \in Nat /\ v[m].offset < EndOf(v[m]) /\ v[m].offset \in Nat
      BY <1>1, <1>4, <3>1, EndType DEF Elements
    <3>3. CASE i = m
      BY <1>1, <3>2, <3>3
    <3>4. CASE i # m
      <4>1. i < m
        BY <1>1, <3>4
      <4>2. EndOf(v[i]) < v[m].offset
        BY <1>1, <3>1, <4>1 DEF Gapped
      <4> QED
        BY <1>1, <3>2, <4>2
    <3> QED
      BY <3>3, <3>4
  <2>4. Precedes(v, NonEmpty(g))
    BY <1>2, <2>2, <2>3 DEF Precedes
  <2>5. Gapped(s) /\ Elements(s) = Elements(v) \cup {c \in {g} : c.size # 0}
    BY <1>1, <2>1, <2>2, <2>4, Appended
  <2> HIDE DEF s
  <2>6. \A e \in Elements(s) : EndOf(e) <= t + n
    <3>1. \A e \in Elements(v) : e \in Blocks
      BY <1>1 DEF Elements
    <3>2. \A e \in Elements(v) : EndOf(e) <= t + n
      BY <1>1, <2>3, <3>1, EndType
    <3>3. EndOf(g) <= t + n
      BY <1>1, <1>2
    <3> QED
      BY <2>5, <3>2, <3>3
  <2>7. \A x \in Nat : Covers(g, x) <=> (t <= x /\ x < t + n)
    BY <1>2 DEF Covers
  <2>8. n = 0 => \A x \in Nat : ~(t <= x /\ x < t + n)
    BY <1>1
  <2>9. \A x \in Nat : (\E e \in Elements(s) : Covers(e, x)) <=>
                          (\E e \in Elements(v) : Covers(e, x)) \/ (t <= x /\ x < t + n)
    BY <1>2, <2>5, <2>7, <2>8
  <2> QED
    BY <2>5, <2>6, <2>9 DEF FreeByte, s, g, v, t
<1> QED
  BY <1>3, <1>4

(* Another list in the same arena.                                          *)
LEMMA WithList ==
  ASSUME NEW p, WellFormed(p), NEW s
  PROVE  /\ [p EXCEPT !.v_blocks = s] = [total_size |-> p.total_size, v_blocks |-> s]
         /\ [p EXCEPT !.v_blocks = s].total_size = p.total_size
         /\ [p EXCEPT !.v_blocks = s].v_blocks = s
<1>1. [[total_size |-> p.total_size, v_blocks |-> p.v_blocks] EXCEPT !.v_blocks = s]
        = [total_size |-> p.total_size, v_blocks |-> s]
  OBVIOUS
<1>2. [p EXCEPT !.v_blocks = s] = [total_size |-> p.total_size, v_blocks |-> s]
  BY <1>1, Zenon DEF WellFormed
<1> QED
  BY <1>2

(* A free byte is a byte of the arena.                                      *)
LEMMA FreeWithin ==
  ASSUME NEW p, WellFormed(p), NEW x \in Nat, FreeByte(p, x)
  PROVE  x < p.total_size
<1>1. PICK b \in Elements(p.v_blocks) : Covers(b, x)
  BY DEF FreeByte
<1>2. b \in Blocks /\ EndOf(b) <= p.total_size /\ p.total_size \in Nat
  BY DEF WellFormed, Gapped, Elements
<1> QED
  BY <1>1, <1>2, EndType DEF Covers

(* A block is carved out of the i-th free block.                            *)
LEMMA CarvedList ==
  ASSUME NEW p, WellFormed(p), NEW i \in DOMAIN p.v_blocks, NEW b \in Blocks,
         p.v_blocks[i].offset <= b.offset, EndOf(b) <= EndOf(p.v_blocks[i])
  PROVE  /\ WellFormed(Carved(p, i, b))
         /\ Carved(p, i, b).total_size = p.total_size
         /\ \A x \in Nat : FreeByte(Carved(p, i, b), x) <=> FreeByte(p, x) /\ ~Covers(b, x)
         /\ \A x \in Nat : Covers(b, x) => FreeByte(p, x)
         /\ EndOf(b) <= p.total_size
<1> DEFINE v == p.v_blocks
           f == v[i]
           l == VirtualBlock(f.offset, b.offset - f.offset)
           r == VirtualBlock(EndOf(b), EndOf(f) - EndOf(b))
           s1 == Before(v, i)
           s2 == After(v, i)
           s == s1 \o NonEmpty(l) \o NonEmpty(r) \o s2
<1>1. v \in Seq(Blocks) /\ Gapped(v) /\ i \in 1 .. Len(v) /\ Len(v) \in Nat /\ DOMAIN v = 1 .. Len(v)
      /\ p.total_size \in Nat
  BY DEF WellFormed, Gapped
<1>2. f \in Blocks /\ f \in Elements(v)
  BY <1>1 DEF Elements
<1>3. /\ f.offset \in Nat /\ EndOf(f) \in Nat /\ f.offset < EndOf(f) /\ EndOf(f) <= p.total_size
      /\ b.offset \in Nat /\ EndOf(b) \in Nat /\ b.offset < EndOf(b)
      /\ f.offset <= b.offset /\ EndOf(b) <= EndOf(f)
  BY <1>2, EndType DEF WellFormed
<1> HIDE DEF f
<1>4. /\ l.offset = f.offset /\ l.size = b.offset - f.offset /\ l.size \in Nat /\ EndOf(l) = b.offset
      /\ (l.size # 0 => l \in Blocks)
  <2>1. b.offset - f.offset \in Nat /\ f.offset + (b.offset - f.offset) = b.offset
    BY <1>3
  <2> QED
    BY <1>3, <2>1 DEF VirtualBlock, EndOf, Blocks
<1>5. /\ r.offset = EndOf(b) /\ r.size = EndOf(f) - EndOf(b) /\ r.size \in Nat /\ EndOf(r) = EndOf(f)
      /\ (r.size # 0 => r \in Blocks)
  <2>1. EndOf(f) - EndOf(b) \in Nat /\ EndOf(b) + (EndOf(f) - EndOf(b)) = EndOf(f)
    BY <1>3
  <2> QED
    BY <1>3, <2>1 DEF VirtualBlock, EndOf, Blocks
<1> HIDE DEF l, r
<1>6. /\ Gapped(s1) /\ Gapped(s2)
      /\ Elements(s1) = Slice(v, 1, i - 1) /\ Elements(s2) = Slice(v, i + 1, Len(v))
      /\ Elements(v) = Elements(s1) \cup Slice(v, i, i) \cup Elements(s2)
  <2>1. i \in Nat /\ 1 <= i /\ i <= Len(v) + 1 /\ i <= Len(v) /\ i <= i + 1
    BY <1>1
  <2> QED
    BY <1>1, <2>1, Parts
<1>7. Slice(v, i, i) = {f}
  BY <1>1 DEF Slice, f
<1>8. /\ Gapped(NonEmpty(l)) /\ Elements(NonEmpty(l)) = {c \in {l} : c.size # 0}
      /\ Gapped(NonEmpty(r)) /\ Elements(NonEmpty(r)) = {c \in {r} : c.size # 0}
  BY <1>4, <1>5, Single
<1>9. \A c \in Elements(s1) : c \in Blocks /\ EndOf(c) < f.offset
  <2>1. \A k \in 1 .. i - 1 : k \in DOMAIN v /\ i \in DOMAIN v /\ k < i
    BY <1>1
  <2>2. \A k \in 1 .. i - 1 : v[k] \in Blocks /\ EndOf(v[k]) < f.offset
    BY <1>1, <2>1 DEF Gapped, f
  <2> HIDE DEF s1
  <2> QED
    BY <1>6, <2>2 DEF Slice
<1>10. \A c \in Elements(s2) : c \in Blocks /\ EndOf(f) < c.offset
  <2>1. \A k \in i + 1 .. Len(v) : k \in DOMAIN v /\ i \in DOMAIN v /\ i < k
    BY <1>1
  <2>2. \A k \in i + 1 .. Len(v) : v[k] \in Blocks /\ EndOf(f) < v[k].offset
    BY <1>1, <2>1 DEF Gapped, f
  <2> HIDE DEF s2
  <2> QED
    BY <1>6, <2>2 DEF Slice
<1> HIDE DEF s1, s2, v
<1>11. Gapped(s1 \o NonEmpty(l)) /\ Elements(s1 \o NonEmpty(l)) = Elements(s1) \cup {c \in {l} : c.size # 0}
  <2>1. Precedes(s1, NonEmpty(l))
    BY <1>4, <1>8, <1>9 DEF Precedes
  <2> QED
    BY <1>6, <1>8, <2>1, Appended
<1>12. /\ Gapped(s1 \o NonEmpty(l) \o NonEmpty(r))
       /\ Elements(s1 \o NonEmpty(l) \o NonEmpty(r))
            = Elements(s1) \cup {c \in {l} : c.size # 0} \cup {c \in {r} : c.size # 0}
  <2>1. Precedes(s1 \o NonEmpty(l), NonEmpty(r))
    <3> SUFFICES ASSUME NEW c \in Elements(s1) \cup {c \in {l} : c.size # 0} PROVE EndOf(c) < r.offset
      BY <1>8, <1>11 DEF Precedes
    <3>1. CASE c \in Elements(s1)
      BY <1>3, <1>5, <1>9, <3>1, EndType
    <3>2. CASE c = l
      BY <1>3, <1>4, <1>5, <3>2
    <3> QED
      BY <3>1, <3>2
  <2> QED
    BY <1>8, <1>11, <2>1, Appended
<1>13. /\ Gapped(s)
       /\ Elements(s) = Elements(s1) \cup {c \in {l} : c.size # 0} \cup {c \in {r} : c.size # 0} \cup Elements(s2)
  <2>1. Precedes(s1 \o NonEmpty(l) \o NonEmpty(r), s2)
    <3> SUFFICES ASSUME NEW c \in Elements(s1) \cup {c \in {l} : c.size # 0} \cup {c \in {r} : c.size # 0},
                        NEW d \in Elements(s2)
                 PROVE  EndOf(c) < d.offset
      BY <1>12 DEF Precedes
    <3>1. EndOf(f) < d.offset /\ d.offset \in Nat
      BY <1>10, EndType
    <3>2. CASE c \in Elements(s1)
      BY <1>3, <1>9, <3>1, <3>2, EndType
    <3>3. CASE c = l
      BY <1>3, <1>4, <3>1, <3>3
    <3>4. CASE c = r
      BY <1>3, <1>5, <3>1, <3>4
    <3> QED
      BY <3>2, <3>3, <3>4
  <2> QED
    BY <1>6, <1>12, <2>1, Appended
<1>14. Carved(p, i, b) = [p EXCEPT !.v_blocks = s]
  BY DEF Carved, s, s1, s2, v, l, r, f
<1> HIDE DEF s
<1>15. /\ Carved(p, i, b) = [total_size |-> p.total_size, v_blocks |-> s]
       /\ Carved(p, i, b).total_size = p.total_size
       /\ Carved(p, i, b).v_blocks = s
  BY <1>14, WithList
<1>16. \A c \in Elements(s) : EndOf(c) <= p.total_size
  <2> SUFFICES ASSUME NEW c \in Elements(s) PROVE EndOf(c) <= p.total_size
    OBVIOUS
  <2>1. CASE c = l
    BY <1>1, <1>3, <1>4, <2>1
  <2>2. CASE c = r
    BY <1>1, <1>3, <1>5, <2>2
  <2>3. CASE c \in Elements(s1) \/ c \in Elements(s2)
    BY <1>6, <2>3 DEF WellFormed, v
  <2> QED
    BY <1>13, <2>1, <2>2, <2>3
<1>17. WellFormed(Carved(p, i, b))
  BY <1>1, <1>13, <1>15, <1>16 DEF WellFormed
<1>18. \A x \in Nat : Covers(f, x) <=> Covers(l, x) \/ Covers(b, x) \/ Covers(r, x)
  BY <1>3, <1>4, <1>5 DEF Covers
<1>19. \A x \in Nat : /\ Covers(l, x) => ~Covers(b, x) /\ l.size # 0
                      /\ Covers(r, x) => ~Covers(b, x) /\ r.size # 0
  BY <1>3, <1>4, <1>5 DEF Covers
<1>20. \A x \in Nat, c \in Elements(s1) \cup Elements(s2) : Covers(c, x) => ~Covers(b, x)
  <2> SUFFICES ASSUME NEW x \in Nat, NEW c \in Elements(s1) \cup Elements(s2), Covers(c, x), Covers(b, x)
               PROVE  FALSE
    OBVIOUS
  <2>1. b.offset <= x /\ x < EndOf(b) /\ c.offset <= x /\ x < EndOf(c)
    BY DEF Covers
  <2>2. CASE c \in Elements(s1)
    BY <1>3, <1>9, <2>1, <2>2, EndType
  <2>3. CASE c \in Elements(s2)
    BY <1>3, <1>10, <2>1, <2>3, EndType
  <2> QED
    BY <2>2, <2>3
<1>21. \A x \in Nat : FreeByte(p, x) <=>
          (\E c \in Elements(s1) \cup Elements(s2) : Covers(c, x)) \/ Covers(f, x)
  BY <1>6, <1>7 DEF FreeByte, v
<1>22. \A x \in Nat : FreeByte(Carved(p, i, b), x) <=>
          (\E c \in Elements(s1) \cup Elements(s2) : Covers(c, x))
            \/ (Covers(l, x) /\ l.size # 0) \/ (Covers(r, x) /\ r.size # 0)
  BY <1>13, <1>15 DEF FreeByte
<1>23. \A x \in Nat : FreeByte(Carved(p, i, b), x) <=> FreeByte(p, x) /\ ~Covers(b, x)
  BY <1>18, <1>19, <1>20, <1>21, <1>22
<1>24. \A x \in Nat : Covers(b, x) => FreeByte(p, x)
  BY <1>18, <1>21
<1>25. EndOf(b) <= p.total_size
  BY <1>1, <1>3
<1> QED
  BY <1>15, <1>17, <1>23, <1>24, <1>25

(* What allocate returns was free or is new, and is free no more; nothing   *)
(* else changes.                                                            *)
LEMMA AllocateSound ==
  ASSUME NEW p, WellFormed(p), NEW size \in Nat \ {0}, NEW alignment \in Nat \ {0}
  PROVE  LET b == Allocated(p, size, alignment)
             q == AfterAllocate(p, size, alignment)
             New(x) == p.total_size <= x /\ x < q.total_size
         IN  /\ b \in Blocks /\ b.size = size
             /\ WellFormed(q) /\ p.total_size <= q.total_size /\ EndOf(b) <= q.total_size
             /\ \A x \in Nat : FreeByte(q, x) <=> (FreeByte(p, x) \/ New(x)) /\ ~Covers(b, x)
             /\ \A x \in Nat : Covers(b, x) => FreeByte(p, x) \/ New(x)
<1> DEFINE b == Allocated(p, size, alignment)
           q == AfterAllocate(p, size, alignment)
           S == Fitting(p, size, alignment)
           v == p.v_blocks
           t == p.total_size
<1>1. t \in Nat /\ Gapped(v) /\ v \in Seq(Blocks) /\ DOMAIN v \subseteq Nat
  BY DEF WellFormed, Gapped
<1>2. CASE S = {}
  <2> DEFINE o == aligned_pos(t, alignment)
             s == Padded(p, VirtualBlock(t, o - t))
  <2>1. o \in Nat /\ t <= o /\ o - t \in Nat
    <3>1. o \in Nat /\ t <= o
      BY <1>1, AlignedBounds
    <3> HIDE DEF o
    <3> QED BY <1>1, <3>1
  <2>2. b = VirtualBlock(o, size)
    BY <1>2 DEF Allocated
  <2>3. b \in Blocks /\ b.size = size /\ b.offset = o /\ EndOf(b) = o + size
    BY <2>1, <2>2 DEF VirtualBlock, EndOf, Blocks
  <2>4. q = [total_size |-> EndOf(b), v_blocks |-> s]
    BY <1>2, <2>3 DEF AfterAllocate, Grown
  <2>5. q.total_size = o + size /\ q.v_blocks = s
    BY <2>3, <2>4
  <2>6. /\ Gapped(s)
        /\ \A c \in Elements(s) : EndOf(c) <= t + (o - t)
        /\ \A x \in Nat : (\E c \in Elements(s) : Covers(c, x)) <=>
                            FreeByte(p, x) \/ (t <= x /\ x < t + (o - t))
    BY <2>1, PaddedList
  <2> HIDE DEF o, s, b, q
  <2>7. t + (o - t) = o
    BY <1>1, <2>1
  <2>8. \A c \in Elements(s) : c \in Blocks
    BY <2>6 DEF Elements, Gapped
  <2>9. \A c \in Elements(s) : EndOf(c) <= q.total_size
    BY <2>1, <2>5, <2>6, <2>7, <2>8, EndType
  <2>10. WellFormed(q)
    <3>1. q = [total_size |-> q.total_size, v_blocks |-> q.v_blocks] /\ q.total_size \in Nat
      BY <2>1, <2>3, <2>4, <2>5
    <3> QED
      BY <2>5, <2>6, <2>9, <3>1 DEF WellFormed
  <2>11. \A x \in Nat : FreeByte(q, x) <=> FreeByte(p, x) \/ (t <= x /\ x < o)
    BY <2>5, <2>6, <2>7 DEF FreeByte
  <2>12. \A x \in Nat : Covers(b, x) <=> o <= x /\ x < o + size
    BY <2>3 DEF Covers
  <2>13. \A x \in Nat : FreeByte(p, x) => x < t
    BY FreeWithin
  <2>14. \A x \in Nat : FreeByte(q, x) <=> (FreeByte(p, x) \/ (t <= x /\ x < q.total_size)) /\ ~Covers(b, x)
    BY <1>1, <2>1, <2>5, <2>11, <2>12, <2>13
  <2>15. \A x \in Nat : Covers(b, x) => t <= x /\ x < q.total_size
    BY <1>1, <2>1, <2>5, <2>12
  <2>16. t <= q.total_size /\ EndOf(b) <= q.total_size
    BY <1>1, <2>1, <2>3, <2>5
  <2> QED
    BY <2>3, <2>10, <2>14, <2>15, <2>16 DEF b, q
<1>3. CASE S # {}
  <2> DEFINE i == SmallestOf(S)
  <2>1. i \in DOMAIN v /\ FitsIn(v[i], size, alignment)
    <3>1. S \in SUBSET Nat /\ \A j \in S : j \in DOMAIN v /\ FitsIn(v[j], size, alignment)
      BY <1>1 DEF Fitting
    <3> HIDE DEF S
    <3> QED
      BY <1>3, <3>1, LeastNumber
  <2> DEFINE o == aligned_pos(v[i].offset, alignment)
  <2>2. b = VirtualBlock(o, size) /\ q = Carved(p, i, b)
    BY <1>3 DEF Allocated, AfterAllocate
  <2>3. v[i] \in Blocks /\ v[i].offset \in Nat
    BY <1>1, <2>1, EndType
  <2>4. o \in Nat /\ v[i].offset <= o
    BY <2>3, AlignedBounds
  <2>5. b \in Blocks /\ b.size = size /\ b.offset = o /\ EndOf(b) = o + size
    BY <2>2, <2>4 DEF VirtualBlock, EndOf, Blocks
  <2>6. EndOf(b) <= EndOf(v[i])
    BY <2>1, <2>5 DEF FitsIn
  <2> HIDE DEF o, i, b, q, S
  <2>7. /\ WellFormed(q) /\ q.total_size = t /\ EndOf(b) <= t
        /\ \A x \in Nat : FreeByte(q, x) <=> FreeByte(p, x) /\ ~Covers(b, x)
        /\ \A x \in Nat : Covers(b, x) => FreeByte(p, x)
    BY <2>1, <2>2, <2>4, <2>5, <2>6, CarvedList
  <2>8. \A x \in Nat : ~(t <= x /\ x < q.total_size)
    BY <1>1, <2>7
  <2> QED
    BY <1>1, <2>5, <2>7, <2>8 DEF b, q
<1> QED
  BY <1>2, <1>3

(* A block that is not free is not refused, and is free afterwards, with    *)
(* what was free before.                                                    *)
LEMMA DeallocateSound ==
  ASSUME NEW p, WellFormed(p), NEW b \in Blocks, EndOf(b) <= p.total_size,
         \A x \in Nat : Covers(b, x) => ~FreeByte(p, x)
  PROVE  LET q == AfterDeallocate(p, b)
         IN  /\ ~Refused(p, b)
             /\ WellFormed(q) /\ q.total_size = p.total_size
             /\ \A x \in Nat : FreeByte(q, x) <=> FreeByte(p, x) \/ Covers(b, x)
<1> DEFINE v == p.v_blocks
           t == p.total_size
           n == Len(v)
           i == Place(p, b)
           first == IF MeetsBefore(p, b, i) THEN i - 1 ELSE i
           last == IF MeetsAfter(p, b, i) THEN i ELSE i - 1
           offset == IF first < i THEN v[first].offset ELSE b.offset
           end == IF last = i THEN EndOf(v[last]) ELSE EndOf(b)
           m == VirtualBlock(offset, end - offset)
           s1 == Before(v, first)
           s2 == After(v, last)
           s == s1 \o <<m>> \o s2
           q == AfterDeallocate(p, b)
<1>1. /\ t \in Nat /\ Gapped(v) /\ v \in Seq(Blocks) /\ n \in Nat /\ DOMAIN v = 1 .. n
      /\ \A k \in 1 .. n : v[k] \in Blocks /\ v[k].offset \in Nat /\ EndOf(v[k]) \in Nat
                           /\ v[k].offset < EndOf(v[k]) /\ EndOf(v[k]) <= t
  <2>1. t \in Nat /\ Gapped(v) /\ v \in Seq(Blocks) /\ n \in Nat /\ DOMAIN v = 1 .. n
    BY DEF WellFormed, Gapped
  <2>2. ASSUME NEW k \in 1 .. n
        PROVE  v[k] \in Blocks /\ v[k] \in Elements(v)
    BY <2>1, <2>2 DEF Elements
  <2> QED
    BY <2>1, <2>2, EndType DEF WellFormed
<1>2. b.offset \in Nat /\ EndOf(b) \in Nat /\ b.offset < EndOf(b) /\ EndOf(b) <= t
  BY EndType
<1>3. \A k, l \in 1 .. n : k < l => EndOf(v[k]) < v[l].offset
  BY <1>1 DEF Gapped
<1>4. \A k \in 1 .. n : EndOf(v[k]) <= b.offset \/ EndOf(b) <= v[k].offset
  <2> SUFFICES ASSUME NEW k \in 1 .. n, ~(EndOf(v[k]) <= b.offset), ~(EndOf(b) <= v[k].offset)
               PROVE  FALSE
    OBVIOUS
  <2> DEFINE x == IF v[k].offset <= b.offset THEN b.offset ELSE v[k].offset
  <2>1. x \in Nat /\ Covers(b, x) /\ Covers(v[k], x)
    BY <1>1, <1>2 DEF Covers
  <2>2. FreeByte(p, x)
    BY <1>1, <2>1 DEF FreeByte, Elements
  <2> QED
    BY <2>1, <2>2
<1>5. /\ i \in 1 .. n + 1
      /\ i <= n => EndOf(b) <= v[i].offset
      /\ \A k \in 1 .. i - 1 : k \in 1 .. n /\ EndOf(v[k]) <= b.offset
  <2> DEFINE T == {k \in DOMAIN v : EndOf(b) <= v[k].offset} \cup {n + 1}
  <2>1. i = SmallestOf(T)
    BY DEF Place
  <2>2. T \in SUBSET Nat /\ T # {} /\ n + 1 \in T /\ T \subseteq 1 .. n + 1
    BY <1>1
  <2>3. i \in T /\ \A k \in T : i <= k
    <3> HIDE DEF T, i
    <3> QED
      BY <2>1, <2>2, LeastNumber
  <2>4. i \in 1 .. n + 1
    BY <2>2, <2>3
  <2>5. i <= n => EndOf(b) <= v[i].offset
    BY <1>1, <2>3
  <2>6. ASSUME NEW k \in 1 .. i - 1
        PROVE  k \in 1 .. n /\ EndOf(v[k]) <= b.offset
    <3>1. k \in 1 .. n /\ ~(i <= k)
      BY <1>1, <2>4
    <3>2. ~(EndOf(b) <= v[k].offset)
      BY <1>1, <2>3, <3>1
    <3> QED
      BY <1>4, <3>1, <3>2
  <2> QED
    BY <2>4, <2>5, <2>6
<1>6. ~Refused(p, b)
  <2>1. i > 1 => i - 1 \in 1 .. n /\ EndOf(v[i - 1]) <= b.offset
    BY <1>5
  <2> QED
    BY <1>1, <1>2, <2>1 DEF Refused
<1>7. MeetsBefore(p, b, i) <=> i > 1 /\ EndOf(v[i - 1]) = b.offset
  BY DEF MeetsBefore
<1>8. MeetsAfter(p, b, i) <=> i <= n /\ EndOf(b) = v[i].offset
  BY DEF MeetsAfter
<1>9. q = [p EXCEPT !.v_blocks = s]
  BY DEF AfterDeallocate, VirtualBlock
<1> HIDE DEF i
<1>10. /\ first \in 1 .. n + 1 /\ last \in 0 .. n /\ first <= last + 1 /\ last <= i /\ first <= i /\ i - 1 <= last
       /\ i - 1 <= first
  BY <1>1, <1>5, <1>7, <1>8
<1>11. /\ offset \in Nat /\ end \in Nat /\ offset <= b.offset /\ EndOf(b) <= end /\ end <= t
       /\ offset < end
  <2>1. first < i => first = i - 1 /\ first \in 1 .. n /\ EndOf(v[first]) = b.offset
    BY <1>5, <1>7, <1>10
  <2>2. last = i => last \in 1 .. n /\ EndOf(b) = v[last].offset
    BY <1>5, <1>8, <1>10
  <2>3. offset \in Nat /\ offset <= b.offset
    BY <1>1, <1>2, <2>1
  <2>4. end \in Nat /\ EndOf(b) <= end /\ end <= t
    BY <1>1, <1>2, <2>2
  <2> QED
    BY <1>2, <2>3, <2>4
<1>12. \A k \in 1 .. first - 1 : k \in 1 .. n /\ EndOf(v[k]) < offset
  <2> SUFFICES ASSUME NEW k \in 1 .. first - 1 PROVE k \in 1 .. n /\ EndOf(v[k]) < offset
    OBVIOUS
  <2>1. k \in 1 .. n /\ k \in 1 .. i - 1
    BY <1>5, <1>10
  <2>2. CASE first < i
    <3>1. first \in 1 .. n /\ k < first
      BY <1>5, <1>10, <2>2
    <3> QED
      BY <1>3, <2>1, <2>2, <3>1
  <2>3. CASE ~(first < i)
    <3>0. first = i
      BY <1>5, <1>10, <2>3
    <3>1. first = i /\ offset = b.offset
      BY <2>3, <3>0
    <3>2. ~MeetsBefore(p, b, i)
      BY <1>5, <3>1
    <3>3. EndOf(v[k]) <= b.offset
      BY <1>5, <2>1
    <3>4. CASE k = i - 1
      <4>1. EndOf(v[k]) # b.offset
        BY <1>5, <1>7, <2>1, <3>2, <3>4
      <4> QED
        BY <1>1, <1>2, <2>1, <3>1, <3>3, <4>1
    <3>5. CASE k # i - 1
      <4>1. k < i - 1 /\ i - 1 \in 1 .. i - 1 /\ i - 1 \in 1 .. n
        BY <1>5, <2>1, <3>5
      <4>2. EndOf(v[k]) < v[i - 1].offset /\ EndOf(v[i - 1]) <= b.offset
        BY <1>3, <1>5, <2>1, <4>1
      <4> QED
        BY <1>1, <1>2, <2>1, <3>1, <4>1, <4>2
    <3> QED
      BY <3>4, <3>5
  <2> QED
    BY <2>2, <2>3
<1>13. \A k \in last + 1 .. n : k \in 1 .. n /\ end < v[k].offset
  <2> SUFFICES ASSUME NEW k \in last + 1 .. n PROVE k \in 1 .. n /\ end < v[k].offset
    OBVIOUS
  <2>1. k \in 1 .. n
    BY <1>10
  <2>2. CASE last = i
    <3>1. i \in 1 .. n /\ i < k /\ end = EndOf(v[i])
      BY <1>5, <1>10, <2>1, <2>2
    <3> QED
      BY <1>3, <2>1, <3>1
  <2>3. CASE last # i
    <3>1. last = i - 1 /\ end = EndOf(b) /\ i <= k /\ i \in 1 .. n
      BY <1>5, <1>10, <2>1, <2>3
    <3>2. EndOf(b) <= v[i].offset /\ EndOf(b) # v[i].offset
      BY <1>5, <1>8, <3>1
    <3>3. CASE k = i
      BY <1>1, <1>2, <3>1, <3>2, <3>3, <2>1
    <3>4. CASE k # i
      <4>1. EndOf(v[i]) < v[k].offset
        BY <1>3, <1>5, <2>1, <3>1, <3>4
      <4> QED
        BY <1>1, <1>2, <2>1, <3>1, <3>2, <4>1
    <3> QED
      BY <3>3, <3>4
  <2> QED
    BY <2>2, <2>3
<1>14. \A x \in Nat : (offset <= x /\ x < end) <=>
          \/ Covers(b, x)
          \/ \E k \in first .. last : Covers(v[k], x)
  <2> SUFFICES ASSUME NEW x \in Nat
               PROVE  (offset <= x /\ x < end) <=>
                         Covers(b, x) \/ \E k \in first .. last : Covers(v[k], x)
    OBVIOUS
  <2>1. first < i => first = i - 1 /\ first \in 1 .. n /\ EndOf(v[first]) = b.offset /\ offset = v[first].offset
    BY <1>5, <1>7, <1>10
  <2>2. last = i => last \in 1 .. n /\ EndOf(b) = v[last].offset /\ end = EndOf(v[last])
    BY <1>5, <1>8, <1>10
  <2>3. ~(first < i) => first = i /\ offset = b.offset
    <3>1. ~(first < i) => first = i
      BY <1>5, <1>10
    <3> QED
      BY <3>1
  <2>4. last # i => last = i - 1 /\ end = EndOf(b)
    BY <1>5, <1>10
  <2>5. \A k \in first .. last : (k = first /\ first < i) \/ (k = last /\ last = i)
    BY <1>5, <1>10, <2>1, <2>2, <2>3, <2>4
  <2>6. first < i => first \in first .. last
    BY <1>5, <1>10
  <2>7. last = i => last \in first .. last
    BY <1>5, <1>10
  <2>8. (\E k \in first .. last : Covers(v[k], x)) <=>
           (first < i /\ Covers(v[first], x)) \/ (last = i /\ Covers(v[last], x))
    <3> HIDE DEF first, last
    <3> QED
      BY <2>5, <2>6, <2>7
  <2> HIDE DEF first, last, offset, end
  <2>9. first < i /\ Covers(v[first], x) <=> first < i /\ offset <= x /\ x < b.offset
    BY <2>1 DEF Covers
  <2>10. last = i /\ Covers(v[last], x) <=> last = i /\ EndOf(b) <= x /\ x < end
    BY <2>2 DEF Covers
  <2>11. Covers(b, x) <=> b.offset <= x /\ x < EndOf(b)
    BY DEF Covers
  <2> QED
    BY <1>2, <1>11, <2>3, <2>4, <2>8, <2>9, <2>10, <2>11
<1> HIDE DEF first, last, offset, end
<1>15. m.offset = offset /\ m.size = end - offset /\ EndOf(m) = end /\ m \in Blocks /\ m.size # 0
  BY <1>11 DEF VirtualBlock, EndOf, Blocks
<1> HIDE DEF m
<1>16. /\ Gapped(s1) /\ Gapped(s2)
       /\ Elements(s1) = Slice(v, 1, first - 1) /\ Elements(s2) = Slice(v, last + 1, n)
       /\ Elements(v) = Elements(s1) \cup Slice(v, first, last) \cup Elements(s2)
  <2>1. first \in Nat /\ last \in Nat /\ 1 <= first /\ first <= n + 1 /\ last <= n /\ first <= last + 1
    BY <1>1, <1>10
  <2> QED
    BY <1>1, <2>1, Parts
<1>17. Gapped(<<m>>) /\ Elements(<<m>>) = {m}
  <2>1. NonEmpty(m) = <<m>>
    BY <1>15 DEF NonEmpty
  <2> QED
    BY <1>15, <2>1, Single
<1> HIDE DEF s1, s2, v
<1>18. Gapped(s1 \o <<m>>) /\ Elements(s1 \o <<m>>) = Elements(s1) \cup {m}
  <2>1. Precedes(s1, <<m>>)
    BY <1>12, <1>15, <1>16, <1>17 DEF Precedes, Slice
  <2> QED
    BY <1>16, <1>17, <2>1, Appended
<1>19. Gapped(s) /\ Elements(s) = Elements(s1) \cup {m} \cup Elements(s2)
  <2>1. \A c \in Elements(s1), d \in Elements(s2) : EndOf(c) < d.offset
    <3> SUFFICES ASSUME NEW k \in 1 .. first - 1, NEW l \in last + 1 .. n
                 PROVE  EndOf(v[k]) < v[l].offset
      BY <1>16 DEF Slice
    <3> QED
      BY <1>1, <1>11, <1>12, <1>13
  <2>2. \A d \in Elements(s2) : EndOf(m) < d.offset
    BY <1>13, <1>15, <1>16 DEF Slice
  <2>3. Precedes(s1 \o <<m>>, s2)
    BY <1>18, <2>1, <2>2 DEF Precedes
  <2> QED
    BY <1>16, <1>18, <2>3, Appended
<1> HIDE DEF s, q
<1>20. /\ q = [total_size |-> t, v_blocks |-> s]
       /\ q.total_size = t /\ q.v_blocks = s
  BY <1>9, WithList
<1>21. \A c \in Elements(s) : EndOf(c) <= t
  <2>1. \A c \in Elements(s1) \cup Elements(s2) : EndOf(c) <= t
    BY <1>16 DEF WellFormed, v
  <2> QED
    BY <1>11, <1>15, <1>19, <2>1
<1>22. WellFormed(q)
  BY <1>1, <1>19, <1>20, <1>21 DEF WellFormed
<1>23. \A x \in Nat : Covers(m, x) <=> offset <= x /\ x < end
  BY <1>15 DEF Covers
<1>24. \A x \in Nat : FreeByte(q, x) <=> FreeByte(p, x) \/ Covers(b, x)
  <2>1. \A x \in Nat : FreeByte(q, x) <=> (\E c \in Elements(s1) \cup Elements(s2) : Covers(c, x)) \/ Covers(m, x)
    BY <1>19, <1>20 DEF FreeByte
  <2>2. \A x \in Nat : FreeByte(p, x) <=>
          (\E c \in Elements(s1) \cup Elements(s2) : Covers(c, x)) \/ \E k \in first .. last : Covers(v[k], x)
    BY <1>16 DEF FreeByte, Slice, v
  <2> QED
    BY <1>14, <1>23, <2>1, <2>2
<1> QED
  BY <1>6, <1>20, <1>22, <1>24 DEF q

-----------------------------------------------------------------------------
(* The planner and the clients' blocks.                                     *)

(* Byte x is in a block of a client.                                        *)
Taken(x) == \E b \in live : Covers(b, x)

(* A byte of the arena is free or in a block of a client, never both, and   *)
(* in one block only.                                                       *)
ArenaInv ==
  /\ WellFormed(planner)
  /\ live \subseteq Blocks
  /\ \A b \in live : EndOf(b) <= planner.total_size
  /\ \A x \in Nat : x < planner.total_size <=> FreeByte(planner, x) \/ Taken(x)
  /\ \A x \in Nat : ~(FreeByte(planner, x) /\ Taken(x))
  /\ \A b, c \in live, x \in Nat : Covers(b, x) /\ Covers(c, x) => b = c

(* The invariant says what the run checks.                                  *)
LEMMA ArenaInvSound == ArenaInv => ArenaSound
<1> SUFFICES ASSUME ArenaInv PROVE ArenaSound
  OBVIOUS
<1> DEFINE v == planner.v_blocks
           t == planner.total_size
<1>1. t \in Nat /\ v \in Seq(Blocks) /\ live \subseteq Blocks /\ Elements(v) \subseteq Blocks
      /\ FreeBlocks = Elements(v)
  BY DEF ArenaInv, WellFormed, Gapped, Elements, FreeBlocks
<1>2. \A b \in live \cup Elements(v) : b \in Blocks /\ EndOf(b) <= t
  BY <1>1 DEF ArenaInv, WellFormed
<1>3. \A b \in live \cup Elements(v) : \A x : x \in Bytes(b) <=> x \in Nat /\ Covers(b, x)
  <2> SUFFICES ASSUME NEW b \in live \cup Elements(v), NEW x
               PROVE  x \in Bytes(b) <=> x \in Nat /\ Covers(b, x)
    OBVIOUS
  <2>1. b.offset \in Nat /\ EndOf(b) \in Nat
    BY <1>2, EndType
  <2> QED
    BY <2>1 DEF Bytes, Covers
<1>4. \A x \in Nat : x < t <=> \E b \in live \cup Elements(v) : Covers(b, x)
  BY DEF ArenaInv, FreeByte, Taken
<1>5. UNION {Bytes(b) : b \in live \cup FreeBlocks} = 0 .. t - 1
  <2>1. ASSUME NEW x \in UNION {Bytes(b) : b \in live \cup Elements(v)} PROVE x \in 0 .. t - 1
    <3>1. PICK b \in live \cup Elements(v) : x \in Bytes(b)
      BY <2>1
    <3>2. x \in Nat /\ Covers(b, x)
      BY <1>3, <3>1
    <3>3. x < t
      BY <1>4, <3>2
    <3> QED
      BY <1>1, <3>2, <3>3
  <2>2. ASSUME NEW x \in 0 .. t - 1 PROVE x \in UNION {Bytes(b) : b \in live \cup Elements(v)}
    <3>1. x \in Nat /\ x < t
      BY <1>1, <2>2
    <3>2. PICK b \in live \cup Elements(v) : Covers(b, x)
      BY <1>4, <3>1
    <3>3. x \in Bytes(b)
      BY <1>3, <3>1, <3>2
    <3> QED
      BY <3>3
  <2> QED
    BY <1>1, <2>1, <2>2
<1>6. \A b \in live \cup Elements(v) : b.offset \in Nat /\ EndOf(b) \in Nat /\ b.offset < EndOf(b)
                                       /\ Covers(b, b.offset)
  <2> SUFFICES ASSUME NEW b \in live \cup Elements(v)
               PROVE  b.offset \in Nat /\ EndOf(b) \in Nat /\ b.offset < EndOf(b) /\ Covers(b, b.offset)
    OBVIOUS
  <2> QED
    BY <1>2, EndType DEF Covers
<1>7. \A b \in live, c \in Elements(v), x \in Nat : ~(Covers(b, x) /\ Covers(c, x))
  BY DEF ArenaInv, FreeByte, Taken
<1>8. live \cap FreeBlocks = {}
  BY <1>1, <1>6, <1>7
<1>9. \A b, c \in Elements(v), x \in Nat : Covers(b, x) /\ Covers(c, x) => b = c
  <2> SUFFICES ASSUME NEW i \in DOMAIN v, NEW j \in DOMAIN v, NEW x \in Nat,
                      Covers(v[i], x), Covers(v[j], x), v[i] # v[j]
               PROVE  FALSE
    BY DEF Elements
  <2>1. v[i] \in Elements(v) /\ v[j] \in Elements(v) /\ i \in Nat /\ j \in Nat /\ i # j
    BY <1>1 DEF Elements
  <2>2. v[i].offset \in Nat /\ EndOf(v[i]) \in Nat /\ v[j].offset \in Nat /\ EndOf(v[j]) \in Nat
    BY <1>6, <2>1
  <2>3. EndOf(v[i]) < v[j].offset \/ EndOf(v[j]) < v[i].offset
    BY <2>1 DEF ArenaInv, WellFormed, Gapped
  <2> QED
    BY <2>2, <2>3 DEF Covers
<1>10. ASSUME NEW b \in live \cup Elements(v), NEW c \in live \cup Elements(v), Overlap(b, c)
       PROVE  b = c
  <2>1. \E x \in Nat : Covers(b, x) /\ Covers(c, x)
    <3>1. /\ b.offset \in Nat /\ c.offset \in Nat /\ EndOf(b) \in Nat /\ EndOf(c) \in Nat
          /\ b.offset < EndOf(b) /\ c.offset < EndOf(c)
      BY <1>6
    <3>2. b.offset < EndOf(c) /\ c.offset < EndOf(b)
      BY <1>10 DEF Overlap
    <3>3. CASE b.offset <= c.offset
      BY <3>1, <3>2, <3>3 DEF Covers
    <3>4. CASE c.offset <= b.offset
      BY <3>1, <3>2, <3>4 DEF Covers
    <3> QED
      BY <3>1, <3>3, <3>4
  <2>2. PICK x \in Nat : Covers(b, x) /\ Covers(c, x)
    BY <2>1
  <2>3. b \in live /\ c \in live => b = c
    BY <2>2 DEF ArenaInv
  <2> QED
    BY <1>7, <1>9, <2>2, <2>3
<1>11. ArenaPartitioned
  BY <1>1, <1>5, <1>8, <1>10 DEF ArenaPartitioned
<1>12. Merged
  <2> SUFFICES ASSUME NEW i \in DOMAIN v
               PROVE  /\ v[i].size > 0
                      /\ i + 1 \in DOMAIN v => EndOf(v[i]) < v[i + 1].offset
    BY DEF Merged
  <2>1. v[i] \in Blocks /\ i \in Nat
    BY <1>1
  <2>2. v[i].size > 0
    BY <2>1, EndType
  <2>3. i + 1 \in DOMAIN v => EndOf(v[i]) < v[i + 1].offset
    BY <2>1 DEF ArenaInv, WellFormed, Gapped
  <2> QED
    BY <2>2, <2>3
<1> QED
  BY <1>11, <1>12 DEF ArenaSound

(* At first there is no arena.                                              *)
LEMMA InitArena == Init => ArenaInv
<1> SUFFICES ASSUME Init PROVE ArenaInv
  OBVIOUS
<1>1. planner = [total_size |-> 0, v_blocks |-> <<>>] /\ live = {}
  BY DEF Init, EmptyPlanner
<1>2. planner.total_size = 0 /\ planner.v_blocks = <<>>
  BY <1>1
<1>3. Elements(planner.v_blocks) = {} /\ Gapped(planner.v_blocks)
  BY <1>2 DEF Elements, Gapped
<1>4. WellFormed(planner)
  BY <1>1, <1>2, <1>3 DEF WellFormed
<1>5. \A x \in Nat : ~FreeByte(planner, x) /\ ~Taken(x)
  BY <1>1, <1>3 DEF FreeByte, Taken
<1> QED
  BY <1>1, <1>2, <1>4, <1>5 DEF ArenaInv

(* A new block is of free bytes or of bytes added to the arena.             *)
LEMMA AllocateArena ==
  ASSUME ArenaInv, NEW size \in Sizes, NEW alignment \in Alignments, Allocate(size, alignment)
  PROVE  ArenaInv'
<1> DEFINE b == Allocated(planner, size, alignment)
           q == AfterAllocate(planner, size, alignment)
           t == planner.total_size
<1>1. size \in Nat \ {0} /\ alignment \in Nat \ {0}
  BY PlannerAssumption
<1>2. WellFormed(planner) /\ t \in Nat /\ live \subseteq Blocks
  BY DEF ArenaInv, WellFormed
<1>3. /\ b \in Blocks
      /\ WellFormed(q) /\ t <= q.total_size /\ EndOf(b) <= q.total_size
      /\ \A x \in Nat : FreeByte(q, x) <=> (FreeByte(planner, x) \/ (t <= x /\ x < q.total_size)) /\ ~Covers(b, x)
      /\ \A x \in Nat : Covers(b, x) => FreeByte(planner, x) \/ (t <= x /\ x < q.total_size)
  BY <1>1, <1>2, AllocateSound
<1>4. planner' = q /\ live' = live \cup {b}
  BY DEF Allocate
<1> HIDE DEF b, q
<1>5. q.total_size \in Nat /\ EndOf(b) \in Nat
  BY <1>3, EndType DEF WellFormed
<1>6. \A x \in Nat : Taken(x)' <=> Taken(x) \/ Covers(b, x)
  BY <1>4 DEF Taken, Covers
<1>7. \A x \in Nat : FreeByte(planner, x)' <=> FreeByte(q, x)
  BY <1>4 DEF FreeByte, Elements, Covers
<1>8. \A x \in Nat : Taken(x) => x < t
  BY DEF ArenaInv
<1>9. \A x \in Nat : FreeByte(planner, x) => x < t
  BY DEF ArenaInv
<1>10. \A c \in live : EndOf(c) \in Nat /\ EndOf(c) <= t
  BY <1>2, EndType DEF ArenaInv
<1>11. WellFormed(planner)' /\ live' \subseteq Blocks
  BY <1>2, <1>3, <1>4 DEF WellFormed
<1>12. \A c \in live' : EndOf(c) <= planner'.total_size
  BY <1>2, <1>3, <1>4, <1>5, <1>10
<1>13. ASSUME NEW x \in Nat
       PROVE  /\ x < planner'.total_size <=> FreeByte(planner, x)' \/ Taken(x)'
              /\ ~(FreeByte(planner, x)' /\ Taken(x)')
  <2>1. x < q.total_size <=> x < t \/ (t <= x /\ x < q.total_size)
    BY <1>2, <1>3, <1>5
  <2>2. t <= x => ~Taken(x)
    BY <1>2, <1>8
  <2>3. x < t <=> FreeByte(planner, x) \/ Taken(x)
    BY DEF ArenaInv
  <2>4. ~(FreeByte(planner, x) /\ Taken(x))
    BY DEF ArenaInv
  <2>5. FreeByte(q, x) <=> (FreeByte(planner, x) \/ (t <= x /\ x < q.total_size)) /\ ~Covers(b, x)
    BY <1>3
  <2>6. Covers(b, x) => FreeByte(planner, x) \/ (t <= x /\ x < q.total_size)
    BY <1>3
  <2> QED
    BY <1>4, <1>6, <1>7, <2>1, <2>2, <2>3, <2>4, <2>5, <2>6
<1>14. ASSUME NEW c \in live', NEW d \in live', NEW x \in Nat, Covers(c, x), Covers(d, x)
       PROVE  c = d
  <2>1. Covers(b, x) => ~Taken(x)
    <3>1. Covers(b, x) => FreeByte(planner, x) \/ t <= x
      BY <1>3
    <3>2. Taken(x) => ~FreeByte(planner, x) /\ x < t
      BY <1>8 DEF ArenaInv
    <3> QED
      BY <1>2, <3>1, <3>2
  <2>2. c \in live /\ d \in live => c = d
    BY <1>14 DEF ArenaInv
  <2> QED
    BY <1>4, <1>14, <2>1, <2>2 DEF Taken
<1> QED
  BY <1>11, <1>12, <1>13, <1>14 DEF ArenaInv, Covers

(* A block given back is free and no longer taken.                          *)
LEMMA DeallocateArena ==
  ASSUME ArenaInv, NEW b \in live, Deallocate(b)
  PROVE  ArenaInv'
<1> DEFINE q == AfterDeallocate(planner, b)
           t == planner.total_size
<1>1. WellFormed(planner) /\ t \in Nat /\ live \subseteq Blocks /\ EndOf(b) <= t /\ b \in Blocks
  BY DEF ArenaInv, WellFormed
<1>2. \A x \in Nat : Covers(b, x) => ~FreeByte(planner, x)
  BY DEF ArenaInv, Taken
<1>3. /\ WellFormed(q) /\ q.total_size = t
      /\ \A x \in Nat : FreeByte(q, x) <=> FreeByte(planner, x) \/ Covers(b, x)
  BY <1>1, <1>2, DeallocateSound
<1>4. planner' = q /\ live' = live \ {b}
  BY DEF Deallocate
<1> HIDE DEF q
<1>5. \A x \in Nat : Taken(x) <=> Taken(x)' \/ Covers(b, x)
  BY <1>4 DEF Taken, Covers
<1>6. \A x \in Nat : Covers(b, x) => ~Taken(x)'
  BY <1>4 DEF Taken, Covers, ArenaInv
<1>7. \A x \in Nat : FreeByte(planner, x)' <=> FreeByte(q, x)
  BY <1>4 DEF FreeByte, Elements, Covers
<1>8. WellFormed(planner)' /\ live' \subseteq Blocks
  BY <1>1, <1>3, <1>4 DEF WellFormed
<1>9. \A c \in live' : EndOf(c) <= planner'.total_size
  BY <1>3, <1>4 DEF ArenaInv
<1>10. ASSUME NEW x \in Nat
       PROVE  /\ x < planner'.total_size <=> FreeByte(planner, x)' \/ Taken(x)'
              /\ ~(FreeByte(planner, x)' /\ Taken(x)')
  <2>1. x < t <=> FreeByte(planner, x) \/ Taken(x)
    BY DEF ArenaInv
  <2>2. ~(FreeByte(planner, x) /\ Taken(x))
    BY DEF ArenaInv
  <2>3. planner'.total_size = t
    BY <1>3, <1>4
  <2> QED
    BY <1>3, <1>5, <1>6, <1>7, <2>1, <2>2, <2>3
<1>11. \A c, d \in live', x \in Nat : Covers(c, x) /\ Covers(d, x) => c = d
  BY <1>4 DEF ArenaInv
<1> QED
  BY <1>3, <1>8, <1>9, <1>10, <1>11 DEF ArenaInv, Covers

(* The invariant holds whatever is asked for and in whatever order.         *)
LEMMA ArenaInvariant == Spec => []ArenaInv
<1>1. ArenaInv /\ [Next]_vars => ArenaInv'
  <2> SUFFICES ASSUME ArenaInv, [Next]_vars PROVE ArenaInv'
    OBVIOUS
  <2>1. CASE \E size \in Sizes, alignment \in Alignments : Allocate(size, alignment)
    BY <2>1, AllocateArena
  <2>2. CASE \E b \in live : Deallocate(b)
    BY <2>2, DeallocateArena
  <2>3. CASE UNCHANGED vars
    BY <2>3 DEF vars, ArenaInv, WellFormed, FreeByte, Taken, Elements, Covers
  <2> QED
    BY <2>1, <2>2, <2>3 DEF Next
<1> QED
  BY InitArena, <1>1, PTL DEF Spec

(* The free list and the clients' blocks partition the arena, and the free  *)
(* list is merged, whatever the sizes and alignments asked for and the      *)
(* order blocks are given back in: allocate and deallocate neither hand out *)
(* a byte twice nor lose one (greedy_memory_planer.cpp).                    *)
THEOREM ArenaCorrect == Spec => []ArenaSound
BY ArenaInvariant, ArenaInvSound, PTL

(* deallocate never throws on a block a client holds: no such block reaches *)
(* past the arena or overlaps a free block.                                 *)
THEOREM NeverRefused == Spec => [](\A b \in live : ~Refused(planner, b))
<1>1. ArenaInv => \A b \in live : ~Refused(planner, b)
  <2> SUFFICES ASSUME ArenaInv, NEW b \in live PROVE ~Refused(planner, b)
    OBVIOUS
  <2>1. WellFormed(planner) /\ b \in Blocks /\ EndOf(b) <= planner.total_size
    BY DEF ArenaInv
  <2>2. \A x \in Nat : Covers(b, x) => ~FreeByte(planner, x)
    BY DEF ArenaInv, Taken
  <2> QED
    BY <2>1, <2>2, DeallocateSound
<1> QED
  BY ArenaInvariant, <1>1, PTL

-----------------------------------------------------------------------------
(* Folds.  FoldLeft is a fold over sets of positions; each one the layout   *)
(* uses is shown to walk through the prefixes of its sequence.              *)

(* What a fold of the layout, or of the writes to memory, does next.        *)
Step(kind, i, l, e) ==
  CASE kind = "weight" -> AssignedInitializer(l, e)
    [] kind = "block" -> WithBlock(l, e)
    [] kind = "inner" -> WithInner(l, i, e)
    [] kind = "return" -> (IF e.exclusive THEN l ELSE GivenBack(l, e.v_block))
    [] kind = "used" -> Used(l, e)
    [] kind = "write" -> Written(l, TensorValue(e, i))
    [] kind = "assign" -> TaskAssigned(l, e)

(* h is the function by which FoldLeft is defined: what the fold makes of   *)
(* each set of the first n positions.                                       *)
IsFold(h, kind, i, base, s, n) ==
  /\ h = [T \in SUBSET (1 .. n) |-> h[T]]
  /\ h[{}] = base
  /\ \A T \in SUBSET (1 .. n) : T # {} => h[T] = Step(kind, i, h[T \ {Max(T)}], s[Max(T)])

(* What bounds a set of numbers and is in it is its maximum.                *)
LEMMA LargestIs ==
  ASSUME NEW S, S \subseteq Int, NEW x \in S, \A y \in S : y <= x
  PROVE  Max(S) = x
<1>1. \A z \in S : (\A y \in S : z >= y) => z = x
  OBVIOUS
<1>2. Max(S) \in S /\ \A y \in S : Max(S) >= y
  BY DEF Max
<1> QED
  BY <1>1, <1>2

(* A non-empty set of the first n numbers has its maximum.                  *)
LEMMA LargestOf ==
  ASSUME NEW n \in Nat, NEW s \in SUBSET (1 .. n), s # {}
  PROVE  Max(s) \in s /\ s \ {Max(s)} \in SUBSET (1 .. n)
<1> DEFINE T == {n - m : m \in s}
           d == SmallestOf(T)
<1>1. T \in SUBSET Nat /\ T # {}
  <2>1. \A m \in s : n - m \in Nat
    OBVIOUS
  <2> QED BY <2>1
<1>2. d \in T /\ \A e \in T : d <= e
  <2> HIDE DEF T
  <2> QED BY <1>1, LeastNumber
<1>3. PICK x \in s : d = n - x
  BY <1>2
<1>4. \A y \in s : n - x <= n - y
  BY <1>2, <1>3
<1>5. \A y \in s : y <= x
  BY <1>4
<1>6. Max(s) = x
  <2>1. s \subseteq Int
    OBVIOUS
  <2> QED BY <1>5, <2>1, LargestIs
<1> QED
  BY <1>6

(* Every fold there can be is one.                                          *)
LEMMA FoldExists ==
  ASSUME NEW kind, NEW i, NEW base, NEW s, NEW n \in Nat
  PROVE  \E h : IsFold(h, kind, i, base, s, n)
<1> DEFINE F(m) == \E h : IsFold(h, kind, i, base, s, m)
           T == {m \in 0 .. n : ~F(m)}
<1>0. F(0)
  <2> DEFINE h == [S \in SUBSET (1 .. 0) |-> base]
  <2>1. SUBSET (1 .. 0) = {{}}
    OBVIOUS
  <2>2. IsFold(h, kind, i, base, s, 0)
    BY <2>1 DEF IsFold
  <2> QED BY <2>2
<1>1. ASSUME NEW m \in Nat, F(m) PROVE F(m + 1)
  <2>1. PICK h : IsFold(h, kind, i, base, s, m)
    BY <1>1
  <2> DEFINE g == [S \in SUBSET (1 .. m + 1) |->
                     IF m + 1 \in S THEN Step(kind, i, h[S \ {m + 1}], s[m + 1]) ELSE h[S]]
  <2>2. g[{}] = base
    <3>1. {} \in SUBSET (1 .. m + 1) /\ m + 1 \notin {}
      OBVIOUS
    <3>2. g[{}] = h[{}]
      BY <3>1
    <3> QED BY <2>1, <3>2 DEF IsFold
  <2>3. ASSUME NEW S \in SUBSET (1 .. m + 1), S # {}
        PROVE  g[S] = Step(kind, i, g[S \ {Max(S)}], s[Max(S)])
    <3>1. CASE m + 1 \in S
      <4>1. Max(S) = m + 1
        <5>1. S \subseteq Int /\ \A y \in S : y <= m + 1
          OBVIOUS
        <5> QED BY <3>1, <5>1, LargestIs
      <4>2. S \ {m + 1} \in SUBSET (1 .. m + 1) /\ m + 1 \notin S \ {m + 1}
        OBVIOUS
      <4>3. g[S \ {m + 1}] = h[S \ {m + 1}]
        BY <4>2
      <4>4. g[S] = Step(kind, i, h[S \ {m + 1}], s[m + 1])
        BY <3>1
      <4> QED BY <4>1, <4>3, <4>4, Zenon
    <3>2. CASE m + 1 \notin S
      <4>1. S \in SUBSET (1 .. m)
        BY <3>2
      <4>2. Max(S) \in S /\ S \ {Max(S)} \in SUBSET (1 .. m)
        BY <2>3, <4>1, LargestOf
      <4>3. g[S] = h[S]
        BY <3>2
      <4>4. S \ {Max(S)} \in SUBSET (1 .. m + 1) /\ m + 1 \notin S \ {Max(S)}
        BY <3>2, <4>2
      <4>5. g[S \ {Max(S)}] = h[S \ {Max(S)}]
        BY <4>4
      <4>6. h[S] = Step(kind, i, h[S \ {Max(S)}], s[Max(S)])
        BY <2>1, <2>3, <4>1 DEF IsFold
      <4> QED BY <4>3, <4>5, <4>6, Zenon
    <3> QED BY <3>1, <3>2
  <2>4. g = [S \in SUBSET (1 .. m + 1) |-> g[S]]
    BY Zenon
  <2> HIDE DEF g
  <2>5. IsFold(g, kind, i, base, s, m + 1)
    BY <2>2, <2>3, <2>4 DEF IsFold
  <2> QED BY <2>5
<1> HIDE DEF F
<1>2. SUFFICES ASSUME T # {} PROVE FALSE
  <2>1. n \in 0 .. n
    OBVIOUS
  <2>2. F(n)
    BY <1>2, <2>1
  <2> QED BY <2>2 DEF F
<1>3. T \in SUBSET Nat
  OBVIOUS
<1> DEFINE d == SmallestOf(T)
<1>4. d \in T /\ \A e \in T : d <= e
  <2> HIDE DEF T
  <2> QED BY <1>2, <1>3, LeastNumber
<1> HIDE DEF d
<1>5. d # 0
  BY <1>0, <1>4
<1>6. d - 1 \in Nat /\ d - 1 \in 0 .. n /\ ~(d <= d - 1) /\ (d - 1) + 1 = d
  BY <1>4, <1>5
<1>7. F(d - 1)
  <2>1. d - 1 \notin T
    BY <1>4, <1>6
  <2> QED BY <1>6, <2>1
<1>8. F(d)
  BY <1>1, <1>6, <1>7
<1> QED
  BY <1>4, <1>8

(* The values a fold goes through.                                          *)
Stepwise(p, kind, i, base, s) ==
  /\ p[0] = base
  /\ \A d \in 1 .. Len(s) : p[d] = Step(kind, i, p[d - 1], s[d])

(* A fold goes through the prefixes of its sequence.                        *)
LEMMA FoldSteps ==
  ASSUME NEW kind, NEW i, NEW base, NEW s, Len(s) \in Nat, NEW h, IsFold(h, kind, i, base, s, Len(s))
  PROVE  \E p : Stepwise(p, kind, i, base, s) /\ p[Len(s)] = h[1 .. Len(s)]
<1> DEFINE n == Len(s)
           p == [d \in 0 .. n |-> h[1 .. d]]
<1>1. p[0] = base
  <2>1. 1 .. 0 = {} /\ 0 \in 0 .. n
    OBVIOUS
  <2> QED BY <2>1 DEF IsFold
<1>2. ASSUME NEW d \in 1 .. n PROVE p[d] = Step(kind, i, p[d - 1], s[d])
  <2>1. 1 .. d \in SUBSET (1 .. n) /\ 1 .. d # {} /\ 1 .. d \subseteq Int /\ d \in 1 .. d
        /\ \A y \in 1 .. d : y <= d
    OBVIOUS
  <2>2. Max(1 .. d) = d
    BY <2>1, LargestIs
  <2>3. (1 .. d) \ {d} = 1 .. d - 1
    OBVIOUS
  <2>4. h[1 .. d] = Step(kind, i, h[1 .. d - 1], s[d])
    <3>1. h[1 .. d] = Step(kind, i, h[(1 .. d) \ {Max(1 .. d)}], s[Max(1 .. d)])
      BY <2>1 DEF IsFold
    <3> QED BY <2>2, <2>3, <3>1
  <2>5. d \in 0 .. n /\ d - 1 \in 0 .. n
    OBVIOUS
  <2>6. p[d] = h[1 .. d] /\ p[d - 1] = h[1 .. d - 1]
    BY <2>5
  <2> QED BY <2>4, <2>6
<1>3. n \in 0 .. n
  OBVIOUS
<1>4. p[n] = h[1 .. n]
  BY <1>3
<1> HIDE DEF p
<1> QED BY <1>1, <1>2, <1>4 DEF Stepwise

(* Placing initializers is a walk.                                          *)
LEMMA WeightFold ==
  ASSUME NEW base, NEW s, Len(s) \in Nat, DOMAIN s = 1 .. Len(s), NEW i
  PROVE  \E p : Stepwise(p, "weight", i, base, s) /\ FoldLeft(AssignedInitializer, base, s) = p[Len(s)]
<1> DEFINE n == Len(s)
           P(h) == h = [T \in SUBSET DOMAIN s |-> IF T = {} THEN base ELSE AssignedInitializer(h[T \ {Max(T)}], s[Max(T)])]
           f == CHOOSE h : P(h)
<1>1. FoldLeft(AssignedInitializer, base, s) = f[DOMAIN s]
  BY DEF FoldLeft, MapThenFoldSet
<1>2. ASSUME NEW h, NEW T PROVE Step("weight", i, h[T \ {Max(T)}], s[Max(T)]) = AssignedInitializer(h[T \ {Max(T)}], s[Max(T)])
  BY DEF Step
<1>3. PICK h : IsFold(h, "weight", i, base, s, n)
  BY FoldExists
<1>4. P(h)
  <2>1. \A T \in SUBSET DOMAIN s : h[T] = IF T = {} THEN base ELSE AssignedInitializer(h[T \ {Max(T)}], s[Max(T)])
    BY <1>2, <1>3, Zenon DEF IsFold
  <2>2. h = [T \in SUBSET DOMAIN s |-> h[T]]
    BY <1>3, Zenon DEF IsFold
  <2> QED BY <2>1, <2>2, Zenon
<1>5. P(f)
  <2> HIDE DEF P
  <2> QED BY <1>4
<1> HIDE DEF f
<1>6. IsFold(f, "weight", i, base, s, n)
  <2>1. \A T \in SUBSET (1 .. n) : f[T] = IF T = {} THEN base ELSE AssignedInitializer(f[T \ {Max(T)}], s[Max(T)])
    BY <1>5, Zenon
  <2>2. f = [T \in SUBSET (1 .. n) |-> f[T]]
    BY <1>5, <2>1, Zenon
  <2>3. {} \in SUBSET (1 .. n)
    OBVIOUS
  <2>4. f[{}] = base
    BY <2>1, <2>3, Zenon
  <2>5. ASSUME NEW T \in SUBSET (1 .. n), T # {}
        PROVE  f[T] = Step("weight", i, f[T \ {Max(T)}], s[Max(T)])
    BY <1>2, <2>1, <2>5, Zenon
  <2> QED BY <2>2, <2>4, <2>5, Zenon DEF IsFold
<1>7. PICK p : Stepwise(p, "weight", i, base, s) /\ p[n] = f[1 .. n]
  BY <1>6, FoldSteps
<1> QED
  BY <1>1, <1>7

(* Placing tensors is a walk.                                               *)
LEMMA BlockFold ==
  ASSUME NEW base, NEW s, Len(s) \in Nat, DOMAIN s = 1 .. Len(s), NEW i
  PROVE  \E p : Stepwise(p, "block", i, base, s) /\ FoldLeft(WithBlock, base, s) = p[Len(s)]
<1> DEFINE n == Len(s)
           P(h) == h = [T \in SUBSET DOMAIN s |-> IF T = {} THEN base ELSE WithBlock(h[T \ {Max(T)}], s[Max(T)])]
           f == CHOOSE h : P(h)
<1>1. FoldLeft(WithBlock, base, s) = f[DOMAIN s]
  BY DEF FoldLeft, MapThenFoldSet
<1>2. ASSUME NEW h, NEW T PROVE Step("block", i, h[T \ {Max(T)}], s[Max(T)]) = WithBlock(h[T \ {Max(T)}], s[Max(T)])
  BY DEF Step
<1>3. PICK h : IsFold(h, "block", i, base, s, n)
  BY FoldExists
<1>4. P(h)
  <2>1. \A T \in SUBSET DOMAIN s : h[T] = IF T = {} THEN base ELSE WithBlock(h[T \ {Max(T)}], s[Max(T)])
    BY <1>2, <1>3, Zenon DEF IsFold
  <2>2. h = [T \in SUBSET DOMAIN s |-> h[T]]
    BY <1>3, Zenon DEF IsFold
  <2> QED BY <2>1, <2>2, Zenon
<1>5. P(f)
  <2> HIDE DEF P
  <2> QED BY <1>4
<1> HIDE DEF f
<1>6. IsFold(f, "block", i, base, s, n)
  <2>1. \A T \in SUBSET (1 .. n) : f[T] = IF T = {} THEN base ELSE WithBlock(f[T \ {Max(T)}], s[Max(T)])
    BY <1>5, Zenon
  <2>2. f = [T \in SUBSET (1 .. n) |-> f[T]]
    BY <1>5, <2>1, Zenon
  <2>3. {} \in SUBSET (1 .. n)
    OBVIOUS
  <2>4. f[{}] = base
    BY <2>1, <2>3, Zenon
  <2>5. ASSUME NEW T \in SUBSET (1 .. n), T # {}
        PROVE  f[T] = Step("block", i, f[T \ {Max(T)}], s[Max(T)])
    BY <1>2, <2>1, <2>5, Zenon
  <2> QED BY <2>2, <2>4, <2>5, Zenon DEF IsFold
<1>7. PICK p : Stepwise(p, "block", i, base, s) /\ p[n] = f[1 .. n]
  BY <1>6, FoldSteps
<1> QED
  BY <1>1, <1>7

(* Placing the private buffers of a kernel is a walk.                       *)
LEMMA InnerFold ==
  ASSUME NEW base, NEW s, Len(s) \in Nat, DOMAIN s = 1 .. Len(s), NEW i
  PROVE  s = Tasks[i].inner => \E p : Stepwise(p, "inner", i, base, s) /\ InnerPlaced(base, i) = p[Len(s)]
<1> DEFINE n == Len(s)
           P(h) == h = [T \in SUBSET DOMAIN s |-> IF T = {} THEN base ELSE WithInner(h[T \ {Max(T)}], i, s[Max(T)])]
           f == CHOOSE h : P(h)
<1>1. FoldLeft(LAMBDA m, buffer : WithInner(m, i, buffer), base, s) = f[DOMAIN s]
  BY DEF FoldLeft, MapThenFoldSet
<1>2. ASSUME NEW h, NEW T PROVE Step("inner", i, h[T \ {Max(T)}], s[Max(T)]) = WithInner(h[T \ {Max(T)}], i, s[Max(T)])
  BY DEF Step
<1>3. PICK h : IsFold(h, "inner", i, base, s, n)
  BY FoldExists
<1>4. P(h)
  <2>1. \A T \in SUBSET DOMAIN s : h[T] = IF T = {} THEN base ELSE WithInner(h[T \ {Max(T)}], i, s[Max(T)])
    BY <1>2, <1>3, Zenon DEF IsFold
  <2>2. h = [T \in SUBSET DOMAIN s |-> h[T]]
    BY <1>3, Zenon DEF IsFold
  <2> QED BY <2>1, <2>2, Zenon
<1>5. P(f)
  <2> HIDE DEF P
  <2> QED BY <1>4
<1> HIDE DEF f
<1>6. IsFold(f, "inner", i, base, s, n)
  <2>1. \A T \in SUBSET (1 .. n) : f[T] = IF T = {} THEN base ELSE WithInner(f[T \ {Max(T)}], i, s[Max(T)])
    BY <1>5, Zenon
  <2>2. f = [T \in SUBSET (1 .. n) |-> f[T]]
    BY <1>5, <2>1, Zenon
  <2>3. {} \in SUBSET (1 .. n)
    OBVIOUS
  <2>4. f[{}] = base
    BY <2>1, <2>3, Zenon
  <2>5. ASSUME NEW T \in SUBSET (1 .. n), T # {}
        PROVE  f[T] = Step("inner", i, f[T \ {Max(T)}], s[Max(T)])
    BY <1>2, <2>1, <2>5, Zenon
  <2> QED BY <2>2, <2>4, <2>5, Zenon DEF IsFold
<1>7. PICK p : Stepwise(p, "inner", i, base, s) /\ p[n] = f[1 .. n]
  BY <1>6, FoldSteps
<1>8. s = Tasks[i].inner => InnerPlaced(base, i) = f[DOMAIN s]
  <2> SUFFICES ASSUME s = Tasks[i].inner PROVE InnerPlaced(base, i) = f[DOMAIN s]
    OBVIOUS
  <2> QED BY <1>1 DEF InnerPlaced
<1> QED
  BY <1>7, <1>8

(* Giving private buffers back is a walk.                                   *)
LEMMA ReturnFold ==
  ASSUME NEW base, NEW s, Len(s) \in Nat, DOMAIN s = 1 .. Len(s), NEW i
  PROVE  \E p : Stepwise(p, "return", i, base, s) /\ FoldLeft(LAMBDA m, buffer : IF buffer.exclusive THEN m ELSE GivenBack(m, buffer.v_block), base, s) = p[Len(s)]
<1> DEFINE n == Len(s)
           P(h) == h = [T \in SUBSET DOMAIN s |-> IF T = {} THEN base ELSE (IF s[Max(T)].exclusive THEN h[T \ {Max(T)}] ELSE GivenBack(h[T \ {Max(T)}], s[Max(T)].v_block))]
           f == CHOOSE h : P(h)
<1>1. FoldLeft(LAMBDA m, buffer : IF buffer.exclusive THEN m ELSE GivenBack(m, buffer.v_block), base, s) = f[DOMAIN s]
  BY DEF FoldLeft, MapThenFoldSet
<1>2. ASSUME NEW h, NEW T PROVE Step("return", i, h[T \ {Max(T)}], s[Max(T)]) = (IF s[Max(T)].exclusive THEN h[T \ {Max(T)}] ELSE GivenBack(h[T \ {Max(T)}], s[Max(T)].v_block))
  BY DEF Step
<1>3. PICK h : IsFold(h, "return", i, base, s, n)
  BY FoldExists
<1>4. P(h)
  <2>1. \A T \in SUBSET DOMAIN s : h[T] = IF T = {} THEN base ELSE (IF s[Max(T)].exclusive THEN h[T \ {Max(T)}] ELSE GivenBack(h[T \ {Max(T)}], s[Max(T)].v_block))
    BY <1>2, <1>3, Zenon DEF IsFold
  <2>2. h = [T \in SUBSET DOMAIN s |-> h[T]]
    BY <1>3, Zenon DEF IsFold
  <2> QED BY <2>1, <2>2, Zenon
<1>5. P(f)
  <2> HIDE DEF P
  <2> QED BY <1>4
<1> HIDE DEF f
<1>6. IsFold(f, "return", i, base, s, n)
  <2>1. \A T \in SUBSET (1 .. n) : f[T] = IF T = {} THEN base ELSE (IF s[Max(T)].exclusive THEN f[T \ {Max(T)}] ELSE GivenBack(f[T \ {Max(T)}], s[Max(T)].v_block))
    BY <1>5, Zenon
  <2>2. f = [T \in SUBSET (1 .. n) |-> f[T]]
    BY <1>5, <2>1, Zenon
  <2>3. {} \in SUBSET (1 .. n)
    OBVIOUS
  <2>4. f[{}] = base
    BY <2>1, <2>3, Zenon
  <2>5. ASSUME NEW T \in SUBSET (1 .. n), T # {}
        PROVE  f[T] = Step("return", i, f[T \ {Max(T)}], s[Max(T)])
    BY <1>2, <2>1, <2>5, Zenon
  <2> QED BY <2>2, <2>4, <2>5, Zenon DEF IsFold
<1>7. PICK p : Stepwise(p, "return", i, base, s) /\ p[n] = f[1 .. n]
  BY <1>6, FoldSteps
<1> QED
  BY <1>1, <1>7

(* Counting down the operands of a task is a walk.                          *)
LEMMA UsedFold ==
  ASSUME NEW base, NEW s, Len(s) \in Nat, DOMAIN s = 1 .. Len(s), NEW i
  PROVE  \E p : Stepwise(p, "used", i, base, s) /\ FoldLeft(Used, base, s) = p[Len(s)]
<1> DEFINE n == Len(s)
           P(h) == h = [T \in SUBSET DOMAIN s |-> IF T = {} THEN base ELSE Used(h[T \ {Max(T)}], s[Max(T)])]
           f == CHOOSE h : P(h)
<1>1. FoldLeft(Used, base, s) = f[DOMAIN s]
  BY DEF FoldLeft, MapThenFoldSet
<1>2. ASSUME NEW h, NEW T PROVE Step("used", i, h[T \ {Max(T)}], s[Max(T)]) = Used(h[T \ {Max(T)}], s[Max(T)])
  BY DEF Step
<1>3. PICK h : IsFold(h, "used", i, base, s, n)
  BY FoldExists
<1>4. P(h)
  <2>1. \A T \in SUBSET DOMAIN s : h[T] = IF T = {} THEN base ELSE Used(h[T \ {Max(T)}], s[Max(T)])
    BY <1>2, <1>3, Zenon DEF IsFold
  <2>2. h = [T \in SUBSET DOMAIN s |-> h[T]]
    BY <1>3, Zenon DEF IsFold
  <2> QED BY <2>1, <2>2, Zenon
<1>5. P(f)
  <2> HIDE DEF P
  <2> QED BY <1>4
<1> HIDE DEF f
<1>6. IsFold(f, "used", i, base, s, n)
  <2>1. \A T \in SUBSET (1 .. n) : f[T] = IF T = {} THEN base ELSE Used(f[T \ {Max(T)}], s[Max(T)])
    BY <1>5, Zenon
  <2>2. f = [T \in SUBSET (1 .. n) |-> f[T]]
    BY <1>5, <2>1, Zenon
  <2>3. {} \in SUBSET (1 .. n)
    OBVIOUS
  <2>4. f[{}] = base
    BY <2>1, <2>3, Zenon
  <2>5. ASSUME NEW T \in SUBSET (1 .. n), T # {}
        PROVE  f[T] = Step("used", i, f[T \ {Max(T)}], s[Max(T)])
    BY <1>2, <2>1, <2>5, Zenon
  <2> QED BY <2>2, <2>4, <2>5, Zenon DEF IsFold
<1>7. PICK p : Stepwise(p, "used", i, base, s) /\ p[n] = f[1 .. n]
  BY <1>6, FoldSteps
<1> QED
  BY <1>1, <1>7

(* Writing tensors one after the other is a walk.                           *)
LEMMA WriteFold ==
  ASSUME NEW base, NEW s, Len(s) \in Nat, DOMAIN s = 1 .. Len(s), NEW i
  PROVE  \E p : Stepwise(p, "write", i, base, s) /\ AllWritten(base, s, i) = p[Len(s)]
<1> DEFINE n == Len(s)
           P(h) == h = [T \in SUBSET DOMAIN s |-> IF T = {} THEN base ELSE Written(h[T \ {Max(T)}], TensorValue(s[Max(T)], i))]
           f == CHOOSE h : P(h)
<1>1. AllWritten(base, s, i) = f[DOMAIN s]
  BY DEF AllWritten, FoldLeft, MapThenFoldSet
<1>2. ASSUME NEW h, NEW T PROVE Step("write", i, h[T \ {Max(T)}], s[Max(T)]) = Written(h[T \ {Max(T)}], TensorValue(s[Max(T)], i))
  BY DEF Step
<1>3. PICK h : IsFold(h, "write", i, base, s, n)
  BY FoldExists
<1>4. P(h)
  <2>1. \A T \in SUBSET DOMAIN s : h[T] = IF T = {} THEN base ELSE Written(h[T \ {Max(T)}], TensorValue(s[Max(T)], i))
    BY <1>2, <1>3, Zenon DEF IsFold
  <2>2. h = [T \in SUBSET DOMAIN s |-> h[T]]
    BY <1>3, Zenon DEF IsFold
  <2> QED BY <2>1, <2>2, Zenon
<1>5. P(f)
  <2> HIDE DEF P
  <2> QED BY <1>4
<1> HIDE DEF f
<1>6. IsFold(f, "write", i, base, s, n)
  <2>1. \A T \in SUBSET (1 .. n) : f[T] = IF T = {} THEN base ELSE Written(f[T \ {Max(T)}], TensorValue(s[Max(T)], i))
    BY <1>5, Zenon
  <2>2. f = [T \in SUBSET (1 .. n) |-> f[T]]
    BY <1>5, <2>1, Zenon
  <2>3. {} \in SUBSET (1 .. n)
    OBVIOUS
  <2>4. f[{}] = base
    BY <2>1, <2>3, Zenon
  <2>5. ASSUME NEW T \in SUBSET (1 .. n), T # {}
        PROVE  f[T] = Step("write", i, f[T \ {Max(T)}], s[Max(T)])
    BY <1>2, <2>1, <2>5, Zenon
  <2> QED BY <2>2, <2>4, <2>5, Zenon DEF IsFold
<1>7. PICK p : Stepwise(p, "write", i, base, s) /\ p[n] = f[1 .. n]
  BY <1>6, FoldSteps
<1> QED
  BY <1>1, <1>7

(* Copying the weights of every task is a walk.                             *)
LEMMA AssignFold ==
  ASSUME NEW base, NEW s, Len(s) \in Nat, DOMAIN s = 1 .. Len(s), NEW i
  PROVE  \E p : Stepwise(p, "assign", i, base, s) /\ FoldLeft(TaskAssigned, base, s) = p[Len(s)]
<1> DEFINE n == Len(s)
           P(h) == h = [T \in SUBSET DOMAIN s |-> IF T = {} THEN base ELSE TaskAssigned(h[T \ {Max(T)}], s[Max(T)])]
           f == CHOOSE h : P(h)
<1>1. FoldLeft(TaskAssigned, base, s) = f[DOMAIN s]
  BY DEF FoldLeft, MapThenFoldSet
<1>2. ASSUME NEW h, NEW T PROVE Step("assign", i, h[T \ {Max(T)}], s[Max(T)]) = TaskAssigned(h[T \ {Max(T)}], s[Max(T)])
  BY DEF Step
<1>3. PICK h : IsFold(h, "assign", i, base, s, n)
  BY FoldExists
<1>4. P(h)
  <2>1. \A T \in SUBSET DOMAIN s : h[T] = IF T = {} THEN base ELSE TaskAssigned(h[T \ {Max(T)}], s[Max(T)])
    BY <1>2, <1>3, Zenon DEF IsFold
  <2>2. h = [T \in SUBSET DOMAIN s |-> h[T]]
    BY <1>3, Zenon DEF IsFold
  <2> QED BY <2>1, <2>2, Zenon
<1>5. P(f)
  <2> HIDE DEF P
  <2> QED BY <1>4
<1> HIDE DEF f
<1>6. IsFold(f, "assign", i, base, s, n)
  <2>1. \A T \in SUBSET (1 .. n) : f[T] = IF T = {} THEN base ELSE TaskAssigned(f[T \ {Max(T)}], s[Max(T)])
    BY <1>5, Zenon
  <2>2. f = [T \in SUBSET (1 .. n) |-> f[T]]
    BY <1>5, <2>1, Zenon
  <2>3. {} \in SUBSET (1 .. n)
    OBVIOUS
  <2>4. f[{}] = base
    BY <2>1, <2>3, Zenon
  <2>5. ASSUME NEW T \in SUBSET (1 .. n), T # {}
        PROVE  f[T] = Step("assign", i, f[T \ {Max(T)}], s[Max(T)])
    BY <1>2, <2>1, <2>5, Zenon
  <2> QED BY <2>2, <2>4, <2>5, Zenon DEF IsFold
<1>7. PICK p : Stepwise(p, "assign", i, base, s) /\ p[n] = f[1 .. n]
  BY <1>6, FoldSteps
<1> QED
  BY <1>1, <1>7

-----------------------------------------------------------------------------
(* The planner with the blocks that are in use.                             *)

(* The blocks of L are in the arena, not free, and share no byte.           *)
Guarded(p, L) ==
  /\ WellFormed(p) /\ L \subseteq Blocks
  /\ \A b \in L : EndOf(b) <= p.total_size
  /\ \A b \in L, x \in Nat : Covers(b, x) => ~FreeByte(p, x)
  /\ \A b, c \in L, x \in Nat : Covers(b, x) /\ Covers(c, x) => b = c

(* Every byte of the arena that is in no block of L is free.                *)
Full(p, L) ==
  \A x \in Nat : x < p.total_size => FreeByte(p, x) \/ \E b \in L : Covers(b, x)

(* Of no arena there are no blocks.                                         *)
LEMMA GuardedEmpty == Guarded(EmptyPlanner, {}) /\ Full(EmptyPlanner, {})
<1>1. /\ EmptyPlanner = [total_size |-> 0, v_blocks |-> <<>>]
      /\ EmptyPlanner.total_size = 0 /\ EmptyPlanner.v_blocks = <<>>
  BY DEF EmptyPlanner
<1>2. Elements(EmptyPlanner.v_blocks) = {} /\ Gapped(EmptyPlanner.v_blocks)
  BY <1>1 DEF Elements, Gapped
<1>3. WellFormed(EmptyPlanner)
  BY <1>1, <1>2 DEF WellFormed
<1>4. \A x \in Nat : ~(x < EmptyPlanner.total_size)
  BY <1>1
<1> QED
  BY <1>3, <1>4 DEF Guarded, Full

(* A part of the blocks is guarded as they are.                             *)
LEMMA GuardedPart ==
  ASSUME NEW p, NEW L, NEW K \in SUBSET L, Guarded(p, L)
  PROVE  Guarded(p, K)
BY DEF Guarded

(* Two guarded blocks do not overlap.                                       *)
LEMMA GuardedApart ==
  ASSUME NEW p, NEW L, Guarded(p, L), NEW b \in L, NEW c \in L, b # c
  PROVE  ~Overlap(b, c)
<1>1. /\ b.offset \in Nat /\ c.offset \in Nat /\ EndOf(b) \in Nat /\ EndOf(c) \in Nat
      /\ b.offset < EndOf(b) /\ c.offset < EndOf(c)
  BY EndType DEF Guarded
<1>2. SUFFICES ASSUME Overlap(b, c) PROVE \E x \in Nat : Covers(b, x) /\ Covers(c, x)
  BY DEF Guarded
<1>3. b.offset < EndOf(c) /\ c.offset < EndOf(b)
  BY <1>2 DEF Overlap
<1>4. CASE b.offset <= c.offset
  BY <1>1, <1>3, <1>4 DEF Covers
<1>5. CASE c.offset <= b.offset
  BY <1>1, <1>3, <1>5 DEF Covers
<1> QED
  BY <1>1, <1>4, <1>5

(* A new block is of free bytes or of bytes added to the arena.             *)
LEMMA GuardedAllocate ==
  ASSUME NEW p, NEW L, Guarded(p, L), NEW size \in Nat \ {0}, NEW alignment \in Nat \ {0}
  PROVE  LET b == Allocated(p, size, alignment)
             q == AfterAllocate(p, size, alignment)
         IN  /\ b \notin L
             /\ Guarded(q, L \cup {b})
             /\ Full(p, L) => Full(q, L \cup {b})
<1> DEFINE b == Allocated(p, size, alignment)
           q == AfterAllocate(p, size, alignment)
           t == p.total_size
<1>1. WellFormed(p) /\ t \in Nat /\ L \subseteq Blocks
  BY DEF Guarded, WellFormed
<1>2. /\ b \in Blocks
      /\ WellFormed(q) /\ t <= q.total_size /\ EndOf(b) <= q.total_size
      /\ \A x \in Nat : FreeByte(q, x) <=> (FreeByte(p, x) \/ (t <= x /\ x < q.total_size)) /\ ~Covers(b, x)
      /\ \A x \in Nat : Covers(b, x) => FreeByte(p, x) \/ (t <= x /\ x < q.total_size)
  BY <1>1, AllocateSound
<1> HIDE DEF b, q
<1>3. q.total_size \in Nat /\ b.offset \in Nat /\ EndOf(b) \in Nat /\ Covers(b, b.offset)
  BY <1>2, EndType DEF WellFormed, Covers
<1>4. \A c \in L : EndOf(c) \in Nat /\ c.offset \in Nat /\ EndOf(c) <= t
  BY <1>1, EndType DEF Guarded
<1>5. \A c \in L, x \in Nat : Covers(c, x) => x < t
  BY <1>1, <1>4 DEF Covers
<1>6. \A c \in L, x \in Nat : ~(Covers(c, x) /\ Covers(b, x))
  <2> SUFFICES ASSUME NEW c \in L, NEW x \in Nat, Covers(c, x), Covers(b, x) PROVE FALSE
    OBVIOUS
  <2>1. ~FreeByte(p, x) /\ x < t
    BY <1>5 DEF Guarded
  <2>2. FreeByte(p, x) \/ t <= x
    BY <1>2
  <2> QED
    BY <1>1, <2>1, <2>2
<1>7. b \notin L
  BY <1>3, <1>6
<1>8. \A c \in L \cup {b}, x \in Nat : Covers(c, x) => ~FreeByte(q, x)
  <2> SUFFICES ASSUME NEW c \in L, NEW x \in Nat, Covers(c, x), FreeByte(q, x) PROVE FALSE
    BY <1>2
  <2>1. ~FreeByte(p, x) /\ x < t
    BY <1>5 DEF Guarded
  <2>2. FreeByte(p, x) \/ t <= x
    BY <1>2
  <2> QED
    BY <1>1, <2>1, <2>2
<1>9. \A c \in L \cup {b} : EndOf(c) <= q.total_size
  BY <1>1, <1>2, <1>3, <1>4
<1>10. \A c, d \in L \cup {b}, x \in Nat : Covers(c, x) /\ Covers(d, x) => c = d
  BY <1>6 DEF Guarded
<1>11. Guarded(q, L \cup {b})
  BY <1>1, <1>2, <1>8, <1>9, <1>10 DEF Guarded
<1>12. ASSUME Full(p, L), NEW x \in Nat, x < q.total_size, ~FreeByte(q, x)
       PROVE  \E c \in L \cup {b} : Covers(c, x)
  <2>1. FreeByte(p, x) \/ t <= x => Covers(b, x)
    BY <1>2, <1>12
  <2>2. x < t => FreeByte(p, x) \/ \E c \in L : Covers(c, x)
    BY <1>12 DEF Full
  <2> QED
    BY <1>1, <2>1, <2>2
<1> QED
  BY <1>7, <1>11, <1>12 DEF Full, b, q

(* A block given back is not refused; it is free then.                      *)
LEMMA GuardedDeallocate ==
  ASSUME NEW p, NEW L, Guarded(p, L), NEW b \in L
  PROVE  LET q == AfterDeallocate(p, b)
         IN  /\ ~Refused(p, b)
             /\ Guarded(q, L \ {b})
             /\ Full(p, L) => Full(q, L \ {b})
<1> DEFINE q == AfterDeallocate(p, b)
           t == p.total_size
<1>1. WellFormed(p) /\ t \in Nat /\ L \subseteq Blocks /\ EndOf(b) <= t /\ b \in Blocks
  BY DEF Guarded, WellFormed
<1>2. \A x \in Nat : Covers(b, x) => ~FreeByte(p, x)
  BY DEF Guarded
<1>3. /\ ~Refused(p, b)
      /\ WellFormed(q) /\ q.total_size = t
      /\ \A x \in Nat : FreeByte(q, x) <=> FreeByte(p, x) \/ Covers(b, x)
  BY <1>1, <1>2, DeallocateSound
<1> HIDE DEF q
<1>4. \A c \in L \ {b}, x \in Nat : Covers(c, x) => ~FreeByte(q, x)
  BY <1>3 DEF Guarded
<1>5. Guarded(q, L \ {b})
  BY <1>1, <1>3, <1>4 DEF Guarded
<1>6. Full(p, L) => Full(q, L \ {b})
  BY <1>3 DEF Full
<1> QED
  BY <1>3, <1>5, <1>6 DEF q

-----------------------------------------------------------------------------
(* Plans: what comes before what, and how many uses a tensor has left.      *)

(* The tensors that have their block when the first c - 1 tasks are laid    *)
(* out; those of them that are pinned; the weights of these tasks.          *)
PlacedBefore(p, c) ==
  InputsOf(p) \cup UNION {ToSet(p.tasks[j].outs) : j \in {m \in DOMAIN p.tasks : m < c}}
Pinned(p, c) ==
  UNION {ToSet(p.tasks[j].outs) : j \in {m \in DOMAIN p.tasks : m < c /\ p.tasks[m].pin}}
WeightsBefore(p, c) == UNION {WeightsOf(p.tasks[j]) : j \in {m \in DOMAIN p.tasks : m < c}}

(* Task i or a later one needs x, or it is an output of the graph.          *)
Needed(p, x, i) == Consumers(p, x) = {} \/ \E j \in Consumers(p, x) : j >= i

(* Where x is an operand, past operand d of task i.                         *)
Uses(p, x, i, d) == {o \in Operands(p, x) : o[1] > i \/ (o[1] = i /\ o[2] > d)}
Left(p, x, i, d) == Cardinality(Uses(p, x, i, d))

(* The types of a plan.                                                     *)
LEMMA PlanTypes ==
  ASSUME NEW p, IsPlan(p)
  PROVE  /\ Len(p.tasks) \in Nat /\ DOMAIN p.tasks = 1 .. Len(p.tasks)
         /\ \A i \in DOMAIN p.tasks :
              /\ p.tasks[i].ins \in Seq(DOMAIN p.size)
              /\ p.tasks[i].weights \in Seq(DOMAIN p.size)
              /\ p.tasks[i].outs \in Seq(DOMAIN p.size)
              /\ p.tasks[i].inplace \in Nat /\ p.tasks[i].inplace <= Len(p.tasks[i].ins)
              /\ p.tasks[i].pin \in BOOLEAN
              /\ p.tasks[i].inner \in Seq([name : STRING, exclusive : BOOLEAN, size : Nat \ {0}])
         /\ \A x \in DOMAIN p.size : p.size[x] \in Nat \ {0}
<1>1. p.tasks \in Seq(TasksOver(DOMAIN p.size)) /\ \A x \in DOMAIN p.size : p.size[x] \in Nat \ {0}
  BY DEF IsPlan
<1>2. Len(p.tasks) \in Nat /\ DOMAIN p.tasks = 1 .. Len(p.tasks)
  BY <1>1
<1>3. \A i \in DOMAIN p.tasks : p.tasks[i] \in TasksOver(DOMAIN p.size)
  BY <1>1
<1>4. \A i \in DOMAIN p.tasks : p.tasks[i].inplace <= Len(p.tasks[i].ins)
  BY DEF IsPlan
<1> QED
  BY <1>1, <1>2, <1>3, <1>4 DEF TasksOver

(* Who writes and who reads a tensor of a plan.                             *)
LEMMA PlanOrder ==
  ASSUME NEW p, IsPlan(p)
  PROVE  /\ \A i, j \in DOMAIN p.tasks : \A x \in ToSet(p.tasks[i].outs) :
              /\ x \in ToSet(p.tasks[j].outs) => i = j
              /\ x \in ToSet(p.tasks[j].ins) => i < j
         /\ \A i, j \in DOMAIN p.tasks : \A x \in WeightsOf(p.tasks[i]) :
              x \notin ToSet(p.tasks[j].ins) /\ x \notin ToSet(p.tasks[j].outs)
<1>1. \A i, j \in DOMAIN p.tasks : i \in Nat /\ j \in Nat
  BY PlanTypes
<1>2. \A i, j \in DOMAIN p.tasks :
       /\ i # j => ToSet(p.tasks[i].outs) \cap ToSet(p.tasks[j].outs) = {}
       /\ j <= i => ToSet(p.tasks[i].outs) \cap ToSet(p.tasks[j].ins) = {}
       /\ WeightsOf(p.tasks[i]) \cap (ToSet(p.tasks[j].ins) \cup ToSet(p.tasks[j].outs)) = {}
  BY DEF IsPlan
<1>3. \A i, j \in DOMAIN p.tasks : i < j \/ j <= i
  BY <1>1
<1> QED
  BY <1>2, <1>3

(* The places of an operand.                                                *)
LEMMA OperandsAre ==
  ASSUME NEW p, IsPlan(p), NEW x
  PROVE  \A o : o \in Operands(p, x) <=>
           \E i \in DOMAIN p.tasks : \E k \in DOMAIN p.tasks[i].ins : o = <<i, k>> /\ p.tasks[i].ins[k] = x
BY DEF Operands

(* They are finitely many.                                                  *)
LEMMA OperandsFinite ==
  ASSUME NEW p, IsPlan(p), NEW x
  PROVE  IsFiniteSet(Operands(p, x))
<1> DEFINE n == Len(p.tasks)
           At(i) == {<<i, k>> : k \in {m \in DOMAIN p.tasks[i].ins : p.tasks[i].ins[m] = x}}
           S == {At(i) : i \in DOMAIN p.tasks}
<1>1. n \in Nat /\ DOMAIN p.tasks = 1 .. n
  BY PlanTypes
<1>2. IsFiniteSet(S)
  <2> DEFINE f == [i \in 1 .. n |-> At(i)]
  <2>1. f \in Surjection(1 .. n, S)
    <3> HIDE DEF At
    <3> QED BY <1>1 DEF Surjection
  <2>2. IsFiniteSet(1 .. n)
    BY <1>1, FS_Interval
  <2> HIDE DEF f, S
  <2> QED BY <2>1, <2>2, FS_Surjection
<1>3. ASSUME NEW i \in DOMAIN p.tasks PROVE IsFiniteSet(At(i))
  <2> DEFINE m == Len(p.tasks[i].ins)
             g == {i} \X (1 .. m)
  <2>1. m \in Nat /\ DOMAIN p.tasks[i].ins = 1 .. m
    BY PlanTypes
  <2>2. IsFiniteSet(1 .. m)
    BY <2>1, FS_Interval
  <2>3. IsFiniteSet({i})
    BY FS_Singleton
  <2>4. IsFiniteSet(g)
    BY <2>2, <2>3, FS_Product
  <2>5. At(i) \in SUBSET g
    BY <2>1
  <2> HIDE DEF At, g
  <2> QED BY <2>4, <2>5, FS_Subset
<1>4. \A T \in S : IsFiniteSet(T)
  BY <1>3
<1>5. Operands(p, x) = UNION S
  BY DEF Operands
<1> HIDE DEF S
<1> QED
  BY <1>2, <1>4, <1>5, FS_UNION

(* The uses left are a number; it is 0 when there are none.                 *)
LEMMA LeftType ==
  ASSUME NEW p, IsPlan(p), NEW x, NEW i, NEW d
  PROVE  /\ IsFiniteSet(Uses(p, x, i, d)) /\ Left(p, x, i, d) \in Nat
         /\ Left(p, x, i, d) = 0 <=> Uses(p, x, i, d) = {}
<1>1. Uses(p, x, i, d) \in SUBSET Operands(p, x)
  BY DEF Uses
<1>2. IsFiniteSet(Uses(p, x, i, d))
  BY <1>1, OperandsFinite, FS_Subset
<1> QED
  BY <1>2, FS_CardinalityType, FS_EmptySet DEF Left

(* Operand d of task i is one use of the tensor it is.                      *)
LEMMA LeftStep ==
  ASSUME NEW p, IsPlan(p), NEW i \in DOMAIN p.tasks, NEW d \in DOMAIN p.tasks[i].ins, NEW x
  PROVE  Left(p, x, i, d - 1) = IF p.tasks[i].ins[d] = x THEN Left(p, x, i, d) + 1
                                ELSE Left(p, x, i, d)
<1> DEFINE U == Uses(p, x, i, d - 1)
           V == Uses(p, x, i, d)
<1>1. i \in Nat /\ d \in Nat
  BY PlanTypes
<1>2. \A o \in Operands(p, x) : o[1] \in Nat /\ o[2] \in Nat
  <2> SUFFICES ASSUME NEW j \in DOMAIN p.tasks, NEW k \in DOMAIN p.tasks[j].ins
               PROVE  <<j, k>>[1] \in Nat /\ <<j, k>>[2] \in Nat
    BY OperandsAre
  <2> QED BY PlanTypes
<1>3. \A o : o \in U <=> o \in V \/ (o \in Operands(p, x) /\ o[1] = i /\ o[2] = d)
  <2>1. \A k \in Nat : k > d - 1 <=> k > d \/ k = d
    BY <1>1
  <2> QED BY <1>2, <2>1 DEF Uses
<1>4. \A o : o \in Operands(p, x) /\ o[1] = i /\ o[2] = d <=> o = <<i, d>> /\ p.tasks[i].ins[d] = x
  BY OperandsAre
<1>5. <<i, d>> \notin V
  BY <1>1 DEF Uses
<1>6. CASE p.tasks[i].ins[d] = x
  <2>1. U = V \cup {<<i, d>>}
    BY <1>3, <1>4, <1>6
  <2>2. Cardinality(U) = Cardinality(V) + 1
    BY <1>5, <2>1, LeftType, FS_AddElement
  <2> QED BY <1>6, <2>2 DEF Left
<1>7. CASE p.tasks[i].ins[d] # x
  <2>1. U = V
    BY <1>3, <1>4, <1>7
  <2> QED BY <1>7, <2>1 DEF Left
<1> QED
  BY <1>6, <1>7

(* Past the last operand of a task comes the next task.                     *)
LEMMA LeftNext ==
  ASSUME NEW p, IsPlan(p), NEW i \in DOMAIN p.tasks, NEW x
  PROVE  Left(p, x, i, Len(p.tasks[i].ins)) = Left(p, x, i + 1, 0)
<1>1. \A o : o \in Uses(p, x, i, Len(p.tasks[i].ins)) <=> o \in Uses(p, x, i + 1, 0)
  <2> SUFFICES ASSUME NEW j \in DOMAIN p.tasks, NEW k \in DOMAIN p.tasks[j].ins
               PROVE  j > i \/ (j = i /\ k > Len(p.tasks[i].ins)) <=>
                      j > i + 1 \/ (j = i + 1 /\ k > 0)
    BY OperandsAre DEF Uses
  <2>1. i \in Nat /\ j \in Nat /\ k \in Nat \ {0} /\ Len(p.tasks[j].ins) \in Nat
        /\ (j = i => ~(k > Len(p.tasks[i].ins)))
    BY PlanTypes
  <2>2. j > i <=> j > i + 1 \/ j = i + 1
    BY <2>1
  <2> QED BY <2>1, <2>2
<1>2. Uses(p, x, i, Len(p.tasks[i].ins)) = Uses(p, x, i + 1, 0)
  BY <1>1
<1> QED
  BY <1>2 DEF Left

(* Before its producer, and before the first task, all uses are left.       *)
LEMMA LeftAll ==
  ASSUME NEW p, IsPlan(p), NEW x
  PROVE  /\ Left(p, x, 1, 0) = Dependence(p, x)
         /\ \A i \in DOMAIN p.tasks, d \in Nat :
              x \in ToSet(p.tasks[i].outs) => Left(p, x, i, d) = Dependence(p, x)
<1>1. Uses(p, x, 1, 0) = Operands(p, x)
  <2>1. \A o \in Operands(p, x) : o[1] > 1 \/ (o[1] = 1 /\ o[2] > 0)
    <3> SUFFICES ASSUME NEW j \in DOMAIN p.tasks, NEW k \in DOMAIN p.tasks[j].ins
                 PROVE  j > 1 \/ (j = 1 /\ k > 0)
      BY OperandsAre
    <3> QED BY PlanTypes
  <2> QED BY <2>1 DEF Uses
<1>2. ASSUME NEW i \in DOMAIN p.tasks, NEW d \in Nat, x \in ToSet(p.tasks[i].outs)
      PROVE  Uses(p, x, i, d) = Operands(p, x)
  <2>1. \A o \in Operands(p, x) : o[1] > i
    <3> SUFFICES ASSUME NEW j \in DOMAIN p.tasks, NEW k \in DOMAIN p.tasks[j].ins, p.tasks[j].ins[k] = x
                 PROVE  j > i
      BY OperandsAre
    <3>1. x \in ToSet(p.tasks[j].ins)
      BY DEF ToSet
    <3>2. i < j
      BY <1>2, <3>1, PlanOrder
    <3> QED BY <3>2, PlanTypes
  <2> QED BY <2>1 DEF Uses
<1> QED
  BY <1>1, <1>2 DEF Left, Dependence

(* Uses are left while a task needs the tensor.                             *)
LEMMA LeftNeeded ==
  ASSUME NEW p, IsPlan(p), NEW x, NEW i \in Nat
  PROVE  Left(p, x, i, 0) # 0 <=> \E j \in Consumers(p, x) : j >= i
<1>1. Left(p, x, i, 0) # 0 <=> \E o : o \in Uses(p, x, i, 0)
  BY LeftType
<1>2. \A o : o \in Uses(p, x, i, 0) <=>
        \E j \in DOMAIN p.tasks : \E k \in DOMAIN p.tasks[j].ins :
          o = <<j, k>> /\ p.tasks[j].ins[k] = x /\ j >= i
  <2>1. \A j \in DOMAIN p.tasks : \A k \in DOMAIN p.tasks[j].ins :
          j > i \/ (j = i /\ k > 0) <=> j >= i
    BY PlanTypes
  <2> QED BY <2>1, OperandsAre DEF Uses
<1>3. \A j : j \in Consumers(p, x) <=>
        j \in DOMAIN p.tasks /\ \E k \in DOMAIN p.tasks[j].ins : p.tasks[j].ins[k] = x
  BY DEF Consumers, ToSet
<1> QED
  BY <1>1, <1>2, <1>3

-----------------------------------------------------------------------------
(* What each step of the layout changes.                                    *)

(* What holds at first and of a number when it holds of the one before it   *)
(* holds up to the last.                                                    *)
LEMMA Ascent ==
  ASSUME NEW n \in Nat, NEW S, 0 \in S, \A d \in 1 .. n : d - 1 \in S => d \in S
  PROVE  n \in S
<1> DEFINE T == {d \in Nat : d <= n /\ d \notin S}
           e == SmallestOf(T)
<1>1. SUFFICES ASSUME n \notin S PROVE FALSE
  OBVIOUS
<1>2. T \in SUBSET Nat /\ T # {}
  BY <1>1
<1>3. e \in T /\ \A d \in T : e <= d
  <2> HIDE DEF T
  <2> QED BY <1>2, LeastNumber
<1> HIDE DEF e
<1>4. e # 0 /\ e \in Nat /\ e <= n
  BY <1>3
<1>5. e - 1 \in Nat /\ e - 1 <= n /\ ~(e <= e - 1) /\ e \in 1 .. n
  BY <1>4
<1>6. e - 1 \in S
  BY <1>3, <1>5
<1> QED
  BY <1>3, <1>5, <1>6

(* What the fields of SizeCalculator are.                                   *)
IsLayout(l) ==
  /\ l = [relations |-> l.relations, dynamic_gmp |-> l.dynamic_gmp, static_gmp |-> l.static_gmp,
          inner |-> l.inner, threw |-> l.threw]
  /\ l.relations = [x \in DOMAIN plan.size |-> l.relations[x]]
  /\ \A x \in DOMAIN plan.size : l.relations[x].exclusive \in BOOLEAN
  /\ l.inner = [i \in DOMAIN Tasks |-> l.inner[i]]

(* All but the relation of x, or of x and y, is as it was.                  *)
SameBut(m, l, S) ==
  /\ m.inner = l.inner /\ m.threw = l.threw
  /\ \A y \in DOMAIN plan.size \ S : m.relations[y] = l.relations[y]

(* A block of its own.                                                      *)
LEMMA WithBlockIs ==
  ASSUME NEW l, IsLayout(l), NEW x \in DOMAIN plan.size
  PROVE  LET m == WithBlock(l, x)
         IN  /\ IsLayout(m) /\ SameBut(m, l, {x})
             /\ m.static_gmp = l.static_gmp
             /\ m.dynamic_gmp = AfterAllocate(l.dynamic_gmp, plan.size[x], Align)
             /\ m.relations[x].v_block = Allocated(l.dynamic_gmp, plan.size[x], Align)
             /\ m.relations[x].dependence = l.relations[x].dependence
             /\ m.relations[x].exclusive = FALSE
<1> DEFINE m == WithBlock(l, x)
           g == AfterAllocate(l.dynamic_gmp, plan.size[x], Align)
           b == Allocated(l.dynamic_gmp, plan.size[x], Align)
           r == Relation(l.relations[x].dependence, b, FALSE)
           q == [l.relations EXCEPT ![x] = r]
<1>1. m = [relations |-> q, dynamic_gmp |-> g, static_gmp |-> l.static_gmp, inner |-> l.inner,
           threw |-> l.threw]
  <2> HIDE DEF g, r
  <2>1. m = [l EXCEPT !.relations[x] = r, !.dynamic_gmp = g]
    BY DEF WithBlock, g, r
  <2> HIDE DEF m
  <2> QED BY <2>1 DEF IsLayout
<1> HIDE DEF m, g, b
<1>2. /\ m.relations = q /\ m.dynamic_gmp = g /\ m.static_gmp = l.static_gmp
      /\ m.inner = l.inner /\ m.threw = l.threw
  BY <1>1
<1>3. /\ q = [y \in DOMAIN plan.size |-> q[y]]
      /\ q[x] = r /\ \A y \in DOMAIN plan.size \ {x} : q[y] = l.relations[y]
  BY DEF IsLayout
<1>4. r.v_block = b /\ r.exclusive = FALSE /\ r.dependence = l.relations[x].dependence
  BY DEF Relation
<1> HIDE DEF q, r
<1>5. IsLayout(m)
  BY <1>1, <1>2, <1>3, <1>4 DEF IsLayout
<1> QED
  BY <1>2, <1>3, <1>4, <1>5 DEF SameBut, m, b, g

(* A block of the static arena.                                             *)
LEMMA AssignedIs ==
  ASSUME NEW l, IsLayout(l), NEW x \in DOMAIN plan.size
  PROVE  LET m == AssignedInitializer(l, x)
         IN  /\ IsLayout(m) /\ SameBut(m, l, {x})
             /\ m.dynamic_gmp = l.dynamic_gmp
             /\ m.static_gmp = AfterAllocate(l.static_gmp, plan.size[x], Align)
             /\ m.relations[x].v_block = Allocated(l.static_gmp, plan.size[x], Align)
             /\ m.relations[x].dependence = 0
             /\ m.relations[x].exclusive = TRUE
<1> DEFINE m == AssignedInitializer(l, x)
           g == AfterAllocate(l.static_gmp, plan.size[x], Align)
           b == Allocated(l.static_gmp, plan.size[x], Align)
           r == Relation(0, b, TRUE)
           q == [l.relations EXCEPT ![x] = r]
<1>1. m = [relations |-> q, dynamic_gmp |-> l.dynamic_gmp, static_gmp |-> g, inner |-> l.inner,
           threw |-> l.threw]
  <2> HIDE DEF g, r
  <2>1. m = [l EXCEPT !.relations[x] = r, !.static_gmp = g]
    BY DEF AssignedInitializer, g, r
  <2> HIDE DEF m
  <2> QED BY <2>1 DEF IsLayout
<1> HIDE DEF m, g, b
<1>2. /\ m.relations = q /\ m.dynamic_gmp = l.dynamic_gmp /\ m.static_gmp = g
      /\ m.inner = l.inner /\ m.threw = l.threw
  BY <1>1
<1>3. /\ q = [y \in DOMAIN plan.size |-> q[y]]
      /\ q[x] = r /\ \A y \in DOMAIN plan.size \ {x} : q[y] = l.relations[y]
  BY DEF IsLayout
<1>4. r.v_block = b /\ r.exclusive = TRUE /\ r.dependence = 0
  BY DEF Relation
<1> HIDE DEF q, r
<1>5. IsLayout(m)
  BY <1>1, <1>2, <1>3, <1>4 DEF IsLayout
<1> QED
  BY <1>2, <1>3, <1>4, <1>5 DEF SameBut, m, b, g

(* The result takes the block of the operand over.                          *)
LEMMA InheritingIs ==
  ASSUME NEW l, IsLayout(l), NEW from \in DOMAIN plan.size, NEW to \in DOMAIN plan.size, from # to,
         ~l.relations[from].exclusive
  PROVE  LET m == Inheriting(l, from, to)
         IN  /\ IsLayout(m) /\ SameBut(m, l, {from, to})
             /\ m.dynamic_gmp = l.dynamic_gmp /\ m.static_gmp = l.static_gmp
             /\ m.relations[from].v_block = l.relations[from].v_block
             /\ m.relations[from].dependence = 0
             /\ m.relations[from].exclusive = FALSE
             /\ m.relations[to].v_block = l.relations[from].v_block
             /\ m.relations[to].dependence = l.relations[to].dependence
             /\ m.relations[to].exclusive = FALSE
<1> DEFINE m == Inheriting(l, from, to)
           r == Relation(0, l.relations[from].v_block, FALSE)
           s == Relation(l.relations[to].dependence, l.relations[from].v_block, FALSE)
           q == [l.relations EXCEPT ![from] = r, ![to] = s]
<1>1. m = [relations |-> q, dynamic_gmp |-> l.dynamic_gmp, static_gmp |-> l.static_gmp,
           inner |-> l.inner, threw |-> l.threw]
  <2> HIDE DEF r, s
  <2>1. m = [l EXCEPT !.relations[from] = r, !.relations[to] = s]
    BY DEF Inheriting, r, s
  <2> HIDE DEF m
  <2> QED BY <2>1 DEF IsLayout
<1> HIDE DEF m
<1>2. /\ m.relations = q /\ m.dynamic_gmp = l.dynamic_gmp /\ m.static_gmp = l.static_gmp
      /\ m.inner = l.inner /\ m.threw = l.threw
  BY <1>1
<1>3. /\ q = [y \in DOMAIN plan.size |-> q[y]]
      /\ q[from] = r /\ q[to] = s
      /\ \A y \in DOMAIN plan.size \ {from, to} : q[y] = l.relations[y]
  <2> HIDE DEF r, s
  <2> QED BY DEF IsLayout
<1>4. /\ r.v_block = l.relations[from].v_block /\ r.exclusive = FALSE /\ r.dependence = 0
      /\ s.v_block = l.relations[from].v_block /\ s.exclusive = FALSE
      /\ s.dependence = l.relations[to].dependence
  BY DEF Relation
<1> HIDE DEF q, r, s
<1>5. IsLayout(m)
  BY <1>1, <1>2, <1>3, <1>4 DEF IsLayout
<1> QED
  BY <1>2, <1>3, <1>4, <1>5 DEF SameBut, m

(* Uses are counted when a tensor is placed.                                *)
LEMMA CountedIs ==
  ASSUME NEW l, IsLayout(l), NEW S
  PROVE  LET m == Counted(l, S)
         IN  /\ IsLayout(m) /\ SameBut(m, l, S)
             /\ m.dynamic_gmp = l.dynamic_gmp /\ m.static_gmp = l.static_gmp
             /\ \A x \in S \cap DOMAIN plan.size :
                  /\ m.relations[x].dependence = Dependence(plan, x)
                  /\ m.relations[x].v_block = l.relations[x].v_block
                  /\ m.relations[x].exclusive = l.relations[x].exclusive
<1> DEFINE m == Counted(l, S)
           R(x) == Relation(Dependence(plan, x), l.relations[x].v_block, l.relations[x].exclusive)
           q == [x \in DOMAIN l.relations |-> IF x \in S THEN R(x) ELSE l.relations[x]]
<1>1. m = [relations |-> q, dynamic_gmp |-> l.dynamic_gmp, static_gmp |-> l.static_gmp,
           inner |-> l.inner, threw |-> l.threw]
  <2>1. m = [l EXCEPT !.relations = q]
    BY DEF Counted
  <2> HIDE DEF m, q
  <2> QED BY <2>1 DEF IsLayout
<1> HIDE DEF m
<1>2. /\ m.relations = q /\ m.dynamic_gmp = l.dynamic_gmp /\ m.static_gmp = l.static_gmp
      /\ m.inner = l.inner /\ m.threw = l.threw
  BY <1>1
<1>3. /\ q = [y \in DOMAIN plan.size |-> q[y]]
      /\ \A y \in DOMAIN plan.size \ S : q[y] = l.relations[y]
      /\ \A y \in S \cap DOMAIN plan.size : q[y] = R(y)
  <2>1. DOMAIN l.relations = DOMAIN plan.size
    BY DEF IsLayout
  <2> HIDE DEF R
  <2> QED BY <2>1
<1>4. \A x : /\ R(x).v_block = l.relations[x].v_block /\ R(x).exclusive = l.relations[x].exclusive
             /\ R(x).dependence = Dependence(plan, x)
  BY DEF Relation
<1> HIDE DEF q, R
<1>5. IsLayout(m)
  BY <1>1, <1>2, <1>3, <1>4 DEF IsLayout
<1> QED
  BY <1>2, <1>3, <1>4, <1>5 DEF SameBut, m

(* Private buffers with their blocks, and as the plan has them.             *)
Placements == [name : STRING, exclusive : BOOLEAN, v_block : Blocks]
Buffers == [name : STRING, exclusive : BOOLEAN, size : Nat \ {0}]

(* A private buffer.                                                        *)
LEMMA WithInnerIs ==
  ASSUME NEW l, IsLayout(l), NEW i \in DOMAIN Tasks, l.inner[i] \in Seq(Placements),
         NEW e \in Buffers, WellFormed(l.dynamic_gmp), WellFormed(l.static_gmp), Align \in Nat \ {0}
  PROVE  LET m == WithInner(l, i, e)
             n == Len(l.inner[i]) + 1
             b == m.inner[i][n].v_block
         IN  /\ IsLayout(m) /\ m.relations = l.relations /\ m.threw = l.threw
             /\ ~e.exclusive => /\ m.dynamic_gmp = AfterAllocate(l.dynamic_gmp, e.size, Align)
                                /\ m.static_gmp = l.static_gmp
                                /\ b = Allocated(l.dynamic_gmp, e.size, Align)
             /\ e.exclusive => /\ m.static_gmp = AfterAllocate(l.static_gmp, e.size, Align)
                               /\ m.dynamic_gmp = l.dynamic_gmp
                               /\ b = Allocated(l.static_gmp, e.size, Align)
             /\ \A j \in DOMAIN Tasks \ {i} : m.inner[j] = l.inner[j]
             /\ m.inner[i] \in Seq(Placements) /\ Len(m.inner[i]) = n
             /\ \A k \in 1 .. n - 1 : m.inner[i][k] = l.inner[i][k]
             /\ m.inner[i][n].name = e.name /\ m.inner[i][n].exclusive = e.exclusive
<1> DEFINE m == WithInner(l, i, e)
           g == IF e.exclusive THEN l.static_gmp ELSE l.dynamic_gmp
           b == Allocated(g, e.size, Align)
           a == AfterAllocate(g, e.size, Align)
           r == [name |-> e.name, exclusive |-> e.exclusive, v_block |-> b]
           s == Append(l.inner[i], r)
           q == [l.inner EXCEPT ![i] = s]
           d == IF e.exclusive THEN l.dynamic_gmp ELSE a
           f == IF e.exclusive THEN a ELSE l.static_gmp
<1>0. b \in Blocks
  <2>1. WellFormed(g)
    OBVIOUS
  <2>2. e.size \in Nat \ {0}
    BY DEF Buffers
  <2> HIDE DEF g
  <2> QED BY <2>1, <2>2, AllocateSound
<1>1. r \in Placements
  <2> HIDE DEF b
  <2> QED BY <1>0 DEF Placements, Buffers
<1>2. r.name = e.name /\ r.exclusive = e.exclusive /\ r.v_block = b
  <2> HIDE DEF b
  <2> QED OBVIOUS
<1> HIDE DEF g, b, a, r
<1>3. m = [relations |-> l.relations, dynamic_gmp |-> d, static_gmp |-> f, inner |-> q,
           threw |-> l.threw]
  <2>1. m = IF e.exclusive THEN [l EXCEPT !.inner[i] = s, !.static_gmp = a]
            ELSE [l EXCEPT !.inner[i] = s, !.dynamic_gmp = a]
    BY Zenon DEF WithInner, g, b, a, r
  <2> HIDE DEF m, s
  <2> QED BY <2>1 DEF IsLayout
<1> HIDE DEF m
<1>4. /\ m.relations = l.relations /\ m.dynamic_gmp = d /\ m.static_gmp = f
      /\ m.inner = q /\ m.threw = l.threw
  <2> HIDE DEF d, f, q
  <2> QED BY <1>3
<1>5. /\ q = [j \in DOMAIN Tasks |-> q[j]]
      /\ \A j \in DOMAIN Tasks \ {i} : q[j] = l.inner[j]
      /\ q[i] = s
  <2> HIDE DEF s
  <2> QED BY DEF IsLayout
<1>6. /\ s \in Seq(Placements) /\ Len(s) = Len(l.inner[i]) + 1
      /\ \A k \in 1 .. Len(l.inner[i]) : s[k] = l.inner[i][k]
      /\ s[Len(l.inner[i]) + 1] = r
  BY <1>1
<1>7. Len(l.inner[i]) + 1 - 1 = Len(l.inner[i])
  OBVIOUS
<1> HIDE DEF s, q
<1>8. IsLayout(m)
  <2> HIDE DEF d, f
  <2> QED BY <1>3, <1>4, <1>5 DEF IsLayout
<1> HIDE DEF d, f
<1>9. /\ m.inner[i] \in Seq(Placements) /\ Len(m.inner[i]) = Len(l.inner[i]) + 1
      /\ \A k \in 1 .. (Len(l.inner[i]) + 1 - 1) : m.inner[i][k] = l.inner[i][k]
      /\ m.inner[i][Len(l.inner[i]) + 1] = r
      /\ \A j \in DOMAIN Tasks \ {i} : m.inner[j] = l.inner[j]
  BY <1>4, <1>5, <1>6, <1>7
<1> USE DEF d, f
<1>10. /\ ~e.exclusive => m.dynamic_gmp = a /\ m.static_gmp = l.static_gmp
       /\ e.exclusive => m.static_gmp = a /\ m.dynamic_gmp = l.dynamic_gmp
  BY <1>4
<1>11. /\ ~e.exclusive => /\ a = AfterAllocate(l.dynamic_gmp, e.size, Align)
                           /\ b = Allocated(l.dynamic_gmp, e.size, Align)
       /\ e.exclusive => /\ a = AfterAllocate(l.static_gmp, e.size, Align)
                          /\ b = Allocated(l.static_gmp, e.size, Align)
  BY DEF a, b, g
<1>12. m.inner[i][Len(l.inner[i]) + 1].v_block = b
  BY <1>2, <1>9
<1> QED
  BY <1>2, <1>4, <1>8, <1>9, <1>10, <1>11, <1>12 DEF m

(* A block the dynamic arena takes back.                                    *)
LEMMA GivenBackIs ==
  ASSUME NEW l, IsLayout(l), NEW b, ~Refused(l.dynamic_gmp, b)
  PROVE  LET m == GivenBack(l, b)
         IN  /\ IsLayout(m) /\ m.relations = l.relations /\ m.threw = l.threw
             /\ m.inner = l.inner /\ m.static_gmp = l.static_gmp
             /\ m.dynamic_gmp = AfterDeallocate(l.dynamic_gmp, b)
<1> DEFINE m == GivenBack(l, b)
           g == AfterDeallocate(l.dynamic_gmp, b)
<1>1. m = [relations |-> l.relations, dynamic_gmp |-> g, static_gmp |-> l.static_gmp,
           inner |-> l.inner, threw |-> l.threw]
  <2>1. m = [l EXCEPT !.dynamic_gmp = g]
    BY DEF GivenBack
  <2> HIDE DEF m, g
  <2> QED BY <2>1 DEF IsLayout
<1> HIDE DEF m, g
<1>2. /\ m.relations = l.relations /\ m.dynamic_gmp = g /\ m.static_gmp = l.static_gmp
      /\ m.inner = l.inner /\ m.threw = l.threw
  BY <1>1
<1>3. IsLayout(m)
  BY <1>1, <1>2 DEF IsLayout
<1> QED
  BY <1>2, <1>3 DEF m, g

(* Another number of uses left for x.                                       *)
CountedTo(l, x, d) ==
  [l EXCEPT !.relations[x] = Relation(d, l.relations[x].v_block, l.relations[x].exclusive)]

(* It is all that changes.                                                  *)
LEMMA CountedDownIs ==
  ASSUME NEW l, IsLayout(l), NEW x \in DOMAIN plan.size, NEW d
  PROVE  LET m == CountedTo(l, x, d)
         IN  /\ IsLayout(m) /\ SameBut(m, l, {x})
             /\ m.dynamic_gmp = l.dynamic_gmp /\ m.static_gmp = l.static_gmp
             /\ m.relations[x].dependence = d
             /\ m.relations[x].v_block = l.relations[x].v_block
             /\ m.relations[x].exclusive = l.relations[x].exclusive
<1> DEFINE r == Relation(d, l.relations[x].v_block, l.relations[x].exclusive)
           m == [l EXCEPT !.relations[x] = r]
           q == [l.relations EXCEPT ![x] = r]
<1>1. m = [relations |-> q, dynamic_gmp |-> l.dynamic_gmp, static_gmp |-> l.static_gmp,
           inner |-> l.inner, threw |-> l.threw]
  <2> HIDE DEF r
  <2> QED BY DEF IsLayout
<1>2. r.v_block = l.relations[x].v_block /\ r.exclusive = l.relations[x].exclusive /\ r.dependence = d
  BY DEF Relation
<1> HIDE DEF m
<1>3. /\ m.relations = q /\ m.dynamic_gmp = l.dynamic_gmp /\ m.static_gmp = l.static_gmp
      /\ m.inner = l.inner /\ m.threw = l.threw
  BY <1>1
<1>4. /\ q = [y \in DOMAIN plan.size |-> q[y]]
      /\ q[x] = r /\ \A y \in DOMAIN plan.size \ {x} : q[y] = l.relations[y]
  <2> HIDE DEF r
  <2> QED BY DEF IsLayout
<1> HIDE DEF q, r
<1>5. IsLayout(m)
  BY <1>1, <1>2, <1>3, <1>4 DEF IsLayout
<1> QED
  BY <1>2, <1>3, <1>4, <1>5 DEF SameBut, m, r, CountedTo

-----------------------------------------------------------------------------
(* What each step of the layout keeps.                                      *)

(* The blocks of tensors T, and that no two tensors of T have the same.     *)
BlocksOf(l, T) == {l.relations[x].v_block : x \in T}
Distinct(l, T) == \A x, y \in T : l.relations[x].v_block = l.relations[y].v_block => x = y

(* The dynamic arena: its bytes are free or in the blocks of the tensors T  *)
(* and in the blocks K of private buffers, no two of which are the same.    *)
Holding(l, T, K) ==
  /\ Guarded(l.dynamic_gmp, BlocksOf(l, T) \cup K)
  /\ Full(l.dynamic_gmp, BlocksOf(l, T) \cup K)
  /\ Distinct(l, T)
  /\ \A x \in T : l.relations[x].v_block \notin K

(* The tensors, and the private buffers of task j, that are in the static   *)
(* arena.                                                                   *)
Exclusives(l) == {x \in DOMAIN plan.size : l.relations[x].exclusive}
LastingOf(l, j) == {k \in DOMAIN l.inner[j] : l.inner[j][k].exclusive}

(* The static arena: what survives an execution has blocks that are guarded *)
(* and different.                                                           *)
Lasting(l) ==
  \E L :
    /\ Guarded(l.static_gmp, L)
    /\ \A x \in Exclusives(l) : l.relations[x].v_block \in L
    /\ \A j \in DOMAIN Tasks : \A k \in LastingOf(l, j) : l.inner[j][k].v_block \in L
    /\ Distinct(l, Exclusives(l))
    /\ \A x \in Exclusives(l), j \in DOMAIN Tasks : \A k \in LastingOf(l, j) :
         l.inner[j][k].v_block # l.relations[x].v_block
    /\ \A i, j \in DOMAIN Tasks : \A h \in LastingOf(l, i), k \in LastingOf(l, j) :
         l.inner[i][h].v_block = l.inner[j][k].v_block => i = j /\ h = k

(* What does not touch the blocks of an arena.                              *)
LEMMA HoldingKept ==
  ASSUME NEW l, NEW m, NEW T, NEW K, Holding(l, T, K), m.dynamic_gmp = l.dynamic_gmp,
         \A x \in T : m.relations[x].v_block = l.relations[x].v_block
  PROVE  Holding(m, T, K)
<1>1. BlocksOf(m, T) = BlocksOf(l, T)
  BY DEF BlocksOf
<1> QED
  BY <1>1 DEF Holding, Distinct

(* What does not touch the static arena, nor what is in it, keeps it.       *)
LEMMA LastingKept ==
  ASSUME NEW l, NEW m, Lasting(l), m.static_gmp = l.static_gmp, m.inner = l.inner,
         Exclusives(m) = Exclusives(l),
         \A x \in Exclusives(l) : m.relations[x].v_block = l.relations[x].v_block
  PROVE  Lasting(m)
<1>1. \A j : LastingOf(m, j) = LastingOf(l, j)
  BY DEF LastingOf
<1> QED
  BY <1>1 DEF Lasting, Distinct

(* A tensor gets a block of the dynamic arena.                              *)
LEMMA BlockStep ==
  ASSUME NEW l, IsLayout(l), NEW T \in SUBSET DOMAIN plan.size, NEW K, Holding(l, T, K), Lasting(l),
         NEW x \in DOMAIN plan.size, x \notin T, ~l.relations[x].exclusive,
         plan.size[x] \in Nat \ {0}, Align \in Nat \ {0}
  PROVE  LET m == WithBlock(l, x) IN Holding(m, T \cup {x}, K) /\ Lasting(m)
<1> DEFINE m == WithBlock(l, x)
           b == Allocated(l.dynamic_gmp, plan.size[x], Align)
           L == BlocksOf(l, T) \cup K
           U == T \cup {x}
<1>1. /\ IsLayout(m) /\ SameBut(m, l, {x}) /\ m.static_gmp = l.static_gmp
      /\ m.dynamic_gmp = AfterAllocate(l.dynamic_gmp, plan.size[x], Align)
      /\ m.relations[x].v_block = b /\ m.relations[x].exclusive = FALSE
  BY WithBlockIs
<1>2. b \notin L /\ Guarded(m.dynamic_gmp, L \cup {b}) /\ Full(m.dynamic_gmp, L \cup {b})
  <2>1. Guarded(l.dynamic_gmp, L) /\ Full(l.dynamic_gmp, L)
    BY DEF Holding
  <2> HIDE DEF L, m
  <2> QED BY <1>1, <2>1, GuardedAllocate
<1> HIDE DEF m, b
<1>3. \A y \in T : m.relations[y] = l.relations[y]
  BY <1>1 DEF SameBut
<1>4. BlocksOf(m, U) = BlocksOf(l, T) \cup {b}
  BY <1>1, <1>3 DEF BlocksOf
<1>5. BlocksOf(m, U) \cup K = L \cup {b}
  BY <1>4
<1>6. \A y \in T : m.relations[y].v_block \in L /\ m.relations[y].v_block # b
  BY <1>2, <1>3 DEF BlocksOf
<1>7. Distinct(m, U)
  BY <1>1, <1>3, <1>6 DEF Distinct, Holding
<1>8. \A y \in U : m.relations[y].v_block \notin K
  BY <1>1, <1>2, <1>3 DEF Holding
<1>9. Holding(m, U, K)
  BY <1>2, <1>5, <1>7, <1>8 DEF Holding
<1>10. Exclusives(m) = Exclusives(l)
       /\ \A y \in Exclusives(l) : m.relations[y].v_block = l.relations[y].v_block
  BY <1>1 DEF Exclusives, SameBut
<1>11. Lasting(m)
  BY <1>1, <1>10, LastingKept DEF SameBut
<1> QED
  BY <1>9, <1>11 DEF m

(* A tensor gets a block of the static arena.                               *)
LEMMA AssignedStep ==
  ASSUME NEW l, IsLayout(l), Lasting(l), NEW x \in DOMAIN plan.size,
         plan.size[x] \in Nat \ {0}, Align \in Nat \ {0}
  PROVE  Lasting(AssignedInitializer(l, x))
<1> DEFINE m == AssignedInitializer(l, x)
           b == Allocated(l.static_gmp, plan.size[x], Align)
<1>1. /\ SameBut(m, l, {x})
      /\ m.static_gmp = AfterAllocate(l.static_gmp, plan.size[x], Align)
      /\ m.relations[x].v_block = b /\ m.relations[x].exclusive = TRUE
  BY AssignedIs
<1>2. PICK L :
        /\ Guarded(l.static_gmp, L)
        /\ \A y \in Exclusives(l) : l.relations[y].v_block \in L
        /\ \A j \in DOMAIN Tasks : \A k \in LastingOf(l, j) : l.inner[j][k].v_block \in L
        /\ Distinct(l, Exclusives(l))
        /\ \A y \in Exclusives(l), j \in DOMAIN Tasks : \A k \in LastingOf(l, j) :
             l.inner[j][k].v_block # l.relations[y].v_block
        /\ \A i, j \in DOMAIN Tasks : \A h \in LastingOf(l, i), k \in LastingOf(l, j) :
             l.inner[i][h].v_block = l.inner[j][k].v_block => i = j /\ h = k
  BY DEF Lasting
<1>3. b \notin L /\ Guarded(m.static_gmp, L \cup {b})
  <2> HIDE DEF m
  <2> QED BY <1>1, <1>2, GuardedAllocate
<1> HIDE DEF m, b
<1>4. m.inner = l.inner /\ \A j : LastingOf(m, j) = LastingOf(l, j)
  BY <1>1 DEF SameBut, LastingOf
<1>5. \A y \in Exclusives(m) : y = x \/ (y \in Exclusives(l) /\ m.relations[y] = l.relations[y])
  BY <1>1 DEF Exclusives, SameBut
<1>6. \A y \in Exclusives(m) : m.relations[y].v_block \in L \cup {b}
  BY <1>1, <1>2, <1>5
<1>7. Distinct(m, Exclusives(m))
  BY <1>1, <1>2, <1>3, <1>5 DEF Distinct
<1>8. \A y \in Exclusives(m), j \in DOMAIN Tasks : \A k \in LastingOf(m, j) :
        m.inner[j][k].v_block # m.relations[y].v_block
  BY <1>1, <1>2, <1>3, <1>4, <1>5
<1>9. \A j \in DOMAIN Tasks : \A k \in LastingOf(m, j) : m.inner[j][k].v_block \in L \cup {b}
  BY <1>2, <1>4
<1>10. \A i, j \in DOMAIN Tasks : \A h \in LastingOf(m, i), k \in LastingOf(m, j) :
         m.inner[i][h].v_block = m.inner[j][k].v_block => i = j /\ h = k
  BY <1>2, <1>4
<1> QED
  BY <1>3, <1>6, <1>7, <1>8, <1>9, <1>10 DEF Lasting, m

(* The block of an operand goes to the result.                              *)
LEMMA InheritingStep ==
  ASSUME NEW l, IsLayout(l), NEW T \in SUBSET DOMAIN plan.size, NEW K, Holding(l, T, K), Lasting(l),
         NEW from \in T, NEW to \in DOMAIN plan.size, to \notin T,
         ~l.relations[from].exclusive, ~l.relations[to].exclusive
  PROVE  LET m == Inheriting(l, from, to)
         IN  Holding(m, (T \ {from}) \cup {to}, K) /\ Lasting(m)
<1> DEFINE m == Inheriting(l, from, to)
           U == (T \ {from}) \cup {to}
           b == l.relations[from].v_block
<1>1. /\ SameBut(m, l, {from, to}) /\ m.dynamic_gmp = l.dynamic_gmp /\ m.static_gmp = l.static_gmp
      /\ m.relations[from].v_block = b /\ m.relations[to].v_block = b
      /\ m.relations[from].exclusive = FALSE /\ m.relations[to].exclusive = FALSE
  BY InheritingIs, ZenonT(30)
<1> HIDE DEF m
<1>2. \A y \in T \ {from} : m.relations[y] = l.relations[y]
  BY <1>1 DEF SameBut
<1>3. BlocksOf(m, U) = BlocksOf(l, T)
  BY <1>1, <1>2 DEF BlocksOf
<1>4. Distinct(m, U) /\ \A y \in U : m.relations[y].v_block \notin K
  BY <1>1, <1>2 DEF Distinct, Holding
<1>5. Holding(m, U, K)
  BY <1>1, <1>3, <1>4 DEF Holding
<1>6. Exclusives(m) = Exclusives(l)
      /\ \A y \in Exclusives(l) : m.relations[y].v_block = l.relations[y].v_block
  BY <1>1 DEF Exclusives, SameBut
<1>7. Lasting(m)
  BY <1>1, <1>6, LastingKept DEF SameBut
<1> QED
  BY <1>5, <1>7 DEF m

(* A private buffer gets a block of one of the arenas.                      *)
LEMMA InnerStep ==
  ASSUME NEW l, IsLayout(l), NEW T, NEW K, Holding(l, T, K), Lasting(l),
         NEW i \in DOMAIN Tasks, l.inner[i] \in Seq(Placements), NEW e \in Buffers, Align \in Nat \ {0}
  PROVE  LET m == WithInner(l, i, e)
             b == m.inner[i][Len(m.inner[i])].v_block
         IN  /\ Holding(m, T, IF e.exclusive THEN K ELSE K \cup {b}) /\ Lasting(m)
             /\ e.exclusive \/ b \notin K
<1> DEFINE m == WithInner(l, i, e)
           n == Len(l.inner[i]) + 1
           b == m.inner[i][n].v_block
<1>0. WellFormed(l.dynamic_gmp) /\ WellFormed(l.static_gmp) /\ e.size \in Nat \ {0} /\ e.exclusive \in BOOLEAN
  BY DEF Holding, Lasting, Guarded, Buffers
<1>1. /\ m.relations = l.relations
      /\ ~e.exclusive => /\ m.dynamic_gmp = AfterAllocate(l.dynamic_gmp, e.size, Align)
                         /\ m.static_gmp = l.static_gmp
                         /\ b = Allocated(l.dynamic_gmp, e.size, Align)
      /\ e.exclusive => /\ m.static_gmp = AfterAllocate(l.static_gmp, e.size, Align)
                        /\ m.dynamic_gmp = l.dynamic_gmp
                        /\ b = Allocated(l.static_gmp, e.size, Align)
      /\ \A j \in DOMAIN Tasks \ {i} : m.inner[j] = l.inner[j]
      /\ m.inner[i] \in Seq(Placements) /\ Len(m.inner[i]) = n
      /\ \A k \in 1 .. n - 1 : m.inner[i][k] = l.inner[i][k]
      /\ m.inner[i][n].exclusive = e.exclusive
  BY <1>0, WithInnerIs
<1> HIDE DEF m, b
<1>2. DOMAIN l.inner[i] = 1 .. n - 1 /\ DOMAIN m.inner[i] = 1 .. n /\ n \in Nat \ {0}
  BY <1>1
<1>3. DOMAIN m.inner[i] = DOMAIN l.inner[i] \cup {n} /\ n \notin DOMAIN l.inner[i]
  BY <1>2
<1>4. \A k \in DOMAIN l.inner[i] : m.inner[i][k] = l.inner[i][k]
  BY <1>1, <1>2
<1>5. Exclusives(m) = Exclusives(l)
  BY <1>1 DEF Exclusives
<1>6. \A j \in DOMAIN Tasks : \A k \in LastingOf(l, j) : k \in LastingOf(m, j) /\ m.inner[j][k] = l.inner[j][k]
  BY <1>1, <1>3, <1>4 DEF LastingOf
<1>7. \A j \in DOMAIN Tasks : \A k \in LastingOf(m, j) : k \in LastingOf(l, j) \/ (j = i /\ k = n /\ e.exclusive)
  BY <1>1, <1>3, <1>4 DEF LastingOf
<1>8. BlocksOf(m, T) = BlocksOf(l, T) /\ (Distinct(m, T) <=> Distinct(l, T))
  BY <1>1 DEF BlocksOf, Distinct
<1>9. PICK L :
        /\ Guarded(l.static_gmp, L)
        /\ \A y \in Exclusives(l) : l.relations[y].v_block \in L
        /\ \A j \in DOMAIN Tasks : \A k \in LastingOf(l, j) : l.inner[j][k].v_block \in L
        /\ Distinct(l, Exclusives(l))
        /\ \A y \in Exclusives(l), j \in DOMAIN Tasks : \A k \in LastingOf(l, j) :
             l.inner[j][k].v_block # l.relations[y].v_block
        /\ \A g, j \in DOMAIN Tasks : \A h \in LastingOf(l, g), k \in LastingOf(l, j) :
             l.inner[g][h].v_block = l.inner[j][k].v_block => g = j /\ h = k
  BY DEF Lasting
<1>10. CASE ~e.exclusive
  <2> DEFINE M == BlocksOf(l, T) \cup K
  <2>1. b \notin M /\ Guarded(m.dynamic_gmp, M \cup {b}) /\ Full(m.dynamic_gmp, M \cup {b})
    <3>1. Guarded(l.dynamic_gmp, M) /\ Full(l.dynamic_gmp, M)
      BY DEF Holding
    <3> HIDE DEF M
    <3> QED BY <1>0, <1>1, <1>10, <3>1, GuardedAllocate
  <2>2. BlocksOf(m, T) \cup (K \cup {b}) = M \cup {b}
    BY <1>8
  <2>3. \A x \in T : m.relations[x].v_block \notin K \cup {b}
    BY <1>1, <2>1 DEF Holding, BlocksOf
  <2>4. Holding(m, T, K \cup {b})
    BY <1>8, <2>1, <2>2, <2>3 DEF Holding
  <2>5. \A j \in DOMAIN Tasks : \A k : k \in LastingOf(m, j) <=> k \in LastingOf(l, j)
    BY <1>6, <1>7, <1>10
  <2>6. Lasting(m)
    <3>1. Guarded(m.static_gmp, L) /\ \A y \in Exclusives(m) : m.relations[y].v_block \in L
      BY <1>1, <1>5, <1>9, <1>10
    <3>2. Distinct(m, Exclusives(m))
      BY <1>1, <1>5, <1>9 DEF Distinct
    <3>3. \A j \in DOMAIN Tasks : \A k \in LastingOf(m, j) : m.inner[j][k] = l.inner[j][k] /\ k \in LastingOf(l, j)
      BY <1>6, <2>5
    <3>4. \A j \in DOMAIN Tasks : \A k \in LastingOf(m, j) : m.inner[j][k].v_block \in L
      BY <1>9, <3>3
    <3>5. \A y \in Exclusives(m), j \in DOMAIN Tasks : \A k \in LastingOf(m, j) :
            m.inner[j][k].v_block # m.relations[y].v_block
      BY <1>1, <1>5, <1>9, <3>3
    <3>6. \A g, j \in DOMAIN Tasks : \A h \in LastingOf(m, g), k \in LastingOf(m, j) :
            m.inner[g][h].v_block = m.inner[j][k].v_block => g = j /\ h = k
      BY <1>9, <3>3
    <3> QED BY <3>1, <3>2, <3>4, <3>5, <3>6 DEF Lasting
  <2> QED BY <1>1, <1>10, <2>1, <2>4, <2>6 DEF m, b
<1>11. CASE e.exclusive
  <2>1. b \notin L /\ Guarded(m.static_gmp, L \cup {b})
    <3>1. Guarded(l.static_gmp, L)
      BY <1>9
    <3>2. m.static_gmp = AfterAllocate(l.static_gmp, e.size, Align) /\ b = Allocated(l.static_gmp, e.size, Align)
      BY <1>1, <1>11
    <3>3. LET a == Allocated(l.static_gmp, e.size, Align)
          IN  a \notin L /\ Guarded(AfterAllocate(l.static_gmp, e.size, Align), L \cup {a})
      BY <1>0, <3>1, GuardedAllocate
    <3> QED BY <3>2, <3>3
  <2>2. Holding(m, T, K)
    BY <1>1, <1>11, HoldingKept
  <2>3. \A j \in DOMAIN Tasks : \A k \in LastingOf(m, j) :
          \/ k \in LastingOf(l, j) /\ m.inner[j][k].v_block = l.inner[j][k].v_block
                                   /\ m.inner[j][k].v_block \in L
          \/ j = i /\ k = n /\ m.inner[j][k].v_block = b
    BY <1>6, <1>7, <1>9 DEF b
  <2>4. \A j \in DOMAIN Tasks : \A k \in LastingOf(m, j) : m.inner[j][k].v_block \in L \cup {b}
    BY <2>3
  <2>5. \A y \in Exclusives(m) : m.relations[y].v_block \in L \cup {b}
    BY <1>1, <1>5, <1>9
  <2>6. Distinct(m, Exclusives(m))
    BY <1>1, <1>5, <1>9 DEF Distinct
  <2>7. \A y \in Exclusives(m), j \in DOMAIN Tasks : \A k \in LastingOf(m, j) :
          m.inner[j][k].v_block # m.relations[y].v_block
    BY <1>1, <1>5, <1>9, <2>1, <2>3
  <2>8. \A g, j \in DOMAIN Tasks : \A h \in LastingOf(m, g), k \in LastingOf(m, j) :
          m.inner[g][h].v_block = m.inner[j][k].v_block => g = j /\ h = k
    BY <1>9, <2>1, <2>3
  <2>9. Lasting(m)
    BY <2>1, <2>4, <2>5, <2>6, <2>7, <2>8 DEF Lasting
  <2> QED BY <1>1, <1>11, <2>2, <2>9 DEF m, b
<1> QED
  BY <1>10, <1>11

(* A block that is held is given back without complaint.                    *)
LEMMA ReturnStep ==
  ASSUME NEW l, IsLayout(l), NEW T, NEW K, Holding(l, T, K), Lasting(l), NEW b \in K
  PROVE  LET m == GivenBack(l, b)
         IN  /\ IsLayout(m) /\ m.relations = l.relations /\ m.threw = l.threw
             /\ m.inner = l.inner
             /\ Holding(m, T, K \ {b}) /\ Lasting(m)
<1> DEFINE m == GivenBack(l, b)
           M == BlocksOf(l, T) \cup K
<1>1. Guarded(l.dynamic_gmp, M) /\ Full(l.dynamic_gmp, M) /\ b \in M
  BY DEF Holding
<1>2. /\ ~Refused(l.dynamic_gmp, b)
      /\ Guarded(AfterDeallocate(l.dynamic_gmp, b), M \ {b})
      /\ Full(AfterDeallocate(l.dynamic_gmp, b), M \ {b})
  <2> HIDE DEF M
  <2> QED BY <1>1, GuardedDeallocate
<1>3. /\ IsLayout(m) /\ m.relations = l.relations /\ m.threw = l.threw
      /\ m.inner = l.inner /\ m.static_gmp = l.static_gmp
      /\ m.dynamic_gmp = AfterDeallocate(l.dynamic_gmp, b)
  BY <1>2, GivenBackIs
<1> HIDE DEF m
<1>4. BlocksOf(m, T) = BlocksOf(l, T) /\ (Distinct(m, T) <=> Distinct(l, T))
  BY <1>3 DEF BlocksOf, Distinct
<1>5. BlocksOf(m, T) \cup (K \ {b}) = M \ {b}
  BY <1>4 DEF Holding, BlocksOf
<1>6. Holding(m, T, K \ {b})
  BY <1>2, <1>3, <1>4, <1>5 DEF Holding
<1>7. Exclusives(m) = Exclusives(l)
  BY <1>3 DEF Exclusives
<1>8. Lasting(m)
  BY <1>3, <1>7, LastingKept
<1> QED
  BY <1>3, <1>6, <1>8 DEF m

(* The block of a tensor that is needed no more is given back.              *)
LEMMA FreedStep ==
  ASSUME NEW l, IsLayout(l), NEW T \in SUBSET DOMAIN plan.size, NEW K, Holding(l, T, K), Lasting(l),
         NEW x \in T
  PROVE  LET m == GivenBack(l, l.relations[x].v_block)
         IN  /\ IsLayout(m) /\ m.relations = l.relations /\ m.threw = l.threw
             /\ m.inner = l.inner
             /\ Holding(m, T \ {x}, K) /\ Lasting(m)
<1> DEFINE b == l.relations[x].v_block
           m == GivenBack(l, b)
<1>1. BlocksOf(l, T) \cup K = BlocksOf(l, T \ {x}) \cup (K \cup {b})
  BY DEF BlocksOf
<1>2. Distinct(l, T \ {x})
  BY DEF Distinct, Holding
<1>3. \A y \in T \ {x} : l.relations[y].v_block \notin K \cup {b}
  BY DEF Holding, Distinct
<1>4. Holding(l, T \ {x}, K \cup {b})
  BY <1>1, <1>2, <1>3 DEF Holding
<1>5. b \notin K
  BY DEF Holding
<1>6. (K \cup {b}) \ {b} = K
  BY <1>5
<1> HIDE DEF b
<1>7. /\ IsLayout(m) /\ m.relations = l.relations /\ m.threw = l.threw
      /\ m.inner = l.inner
      /\ Holding(m, T \ {x}, (K \cup {b}) \ {b}) /\ Lasting(m)
  <2>1. b \in K \cup {b}
    OBVIOUS
  <2> QED BY <1>4, <2>1, ReturnStep
<1> QED
  BY <1>6, <1>7 DEF b

-----------------------------------------------------------------------------
(* The loops of the layout.                                                 *)

(* The first d elements of a sequence.                                      *)
Firsts(s, d) == {s[k] : k \in 1 .. d}

(* They grow by one element at a time until they are all.                   *)
LEMMA FirstsAre ==
  ASSUME NEW D, NEW s \in Seq(D)
  PROVE  /\ Len(s) \in Nat /\ DOMAIN s = 1 .. Len(s)
         /\ Firsts(s, 0) = {} /\ Firsts(s, Len(s)) = ToSet(s)
         /\ \A d \in 1 .. Len(s) : /\ s[d] \in D /\ Firsts(s, d) = Firsts(s, d - 1) \cup {s[d]}
                                   /\ s[d] \in ToSet(s)
<1>1. Len(s) \in Nat /\ DOMAIN s = 1 .. Len(s) /\ \A d \in 1 .. Len(s) : s[d] \in D
  OBVIOUS
<1>2. Firsts(s, 0) = {} /\ Firsts(s, Len(s)) = ToSet(s)
  BY <1>1 DEF Firsts, ToSet
<1>3. ASSUME NEW d \in 1 .. Len(s)
      PROVE  Firsts(s, d) = Firsts(s, d - 1) \cup {s[d]} /\ s[d] \in ToSet(s)
  <2>1. \A k : k \in 1 .. d <=> k \in 1 .. d - 1 \/ k = d
    OBVIOUS
  <2> QED BY <1>1, <2>1 DEF Firsts, ToSet
<1> QED
  BY <1>1, <1>2, <1>3

(* Initializers, one after the other.                                       *)
LEMMA AssignedAll ==
  ASSUME NEW l, IsLayout(l), Lasting(l), NEW s \in Seq(DOMAIN plan.size),
         \A x \in DOMAIN plan.size : plan.size[x] \in Nat \ {0}, Align \in Nat \ {0}
  PROVE  LET m == FoldLeft(AssignedInitializer, l, s)
         IN  /\ IsLayout(m) /\ Lasting(m) /\ SameBut(m, l, ToSet(s))
             /\ m.dynamic_gmp = l.dynamic_gmp
             /\ \A x \in ToSet(s) : m.relations[x].exclusive = TRUE /\ m.relations[x].dependence = 0
<1> DEFINE n == Len(s)
<1>1. n \in Nat /\ DOMAIN s = 1 .. n
  BY FirstsAre
<1>2. PICK p : Stepwise(p, "weight", 0, l, s) /\ FoldLeft(AssignedInitializer, l, s) = p[n]
  BY <1>1, WeightFold
<1>3. p[0] = l /\ \A d \in 1 .. n : p[d] = AssignedInitializer(p[d - 1], s[d])
  BY <1>2 DEF Stepwise, Step
<1> DEFINE Good(d) ==
             /\ IsLayout(p[d]) /\ Lasting(p[d]) /\ SameBut(p[d], l, Firsts(s, d))
             /\ p[d].dynamic_gmp = l.dynamic_gmp
             /\ \A x \in Firsts(s, d) : p[d].relations[x].exclusive = TRUE /\ p[d].relations[x].dependence = 0
           S == {d \in 0 .. n : Good(d)}
<1>4. 0 \in S
  BY <1>1, <1>3, FirstsAre DEF SameBut
<1>5. ASSUME NEW d \in 1 .. n, d - 1 \in S PROVE d \in S
  <2> DEFINE q == p[d - 1]
             m == p[d]
             x == s[d]
             F == Firsts(s, d - 1)
  <2>1. /\ IsLayout(q) /\ Lasting(q) /\ SameBut(q, l, F) /\ q.dynamic_gmp = l.dynamic_gmp
        /\ \A y \in F : q.relations[y].exclusive = TRUE /\ q.relations[y].dependence = 0
    BY <1>5
  <2>2. x \in DOMAIN plan.size /\ Firsts(s, d) = F \cup {x} /\ m = AssignedInitializer(q, x) /\ d \in 0 .. n
    BY <1>3, FirstsAre
  <2> HIDE DEF q, m, x, F
  <2>3. /\ IsLayout(m) /\ SameBut(m, q, {x}) /\ m.dynamic_gmp = q.dynamic_gmp
        /\ m.relations[x].dependence = 0 /\ m.relations[x].exclusive = TRUE
    BY <2>1, <2>2, AssignedIs
  <2>4. Lasting(m)
    BY <2>1, <2>2, AssignedStep
  <2>5. SameBut(m, l, F \cup {x})
    BY <2>1, <2>3 DEF SameBut
  <2>6. F \subseteq DOMAIN plan.size
    <3>1. \A k \in 1 .. d - 1 : s[k] \in DOMAIN plan.size
      OBVIOUS
    <3> QED BY <3>1 DEF F, Firsts
  <2>7. \A y \in F \cup {x} : m.relations[y].exclusive = TRUE /\ m.relations[y].dependence = 0
    BY <2>1, <2>3, <2>6 DEF SameBut
  <2> QED BY <2>1, <2>2, <2>3, <2>4, <2>5, <2>7 DEF m
<1> HIDE DEF Good
<1>6. n \in S
  <2> HIDE DEF S
  <2> QED BY <1>1, <1>4, <1>5, Ascent
<1> USE DEF Good
<1> QED
  BY <1>2, <1>6, FirstsAre

(* Blocks of their own for the results of a task.                           *)
LEMMA BlockAll ==
  ASSUME NEW l, IsLayout(l), NEW T \in SUBSET DOMAIN plan.size, NEW K, Holding(l, T, K), Lasting(l),
         NEW s \in Seq(DOMAIN plan.size), IsInjective(s), ToSet(s) \cap T = {},
         \A x \in ToSet(s) : ~l.relations[x].exclusive,
         \A x \in DOMAIN plan.size : plan.size[x] \in Nat \ {0}, Align \in Nat \ {0}
  PROVE  LET m == FoldLeft(WithBlock, l, s)
         IN  /\ IsLayout(m) /\ Lasting(m) /\ SameBut(m, l, ToSet(s))
             /\ Holding(m, T \cup ToSet(s), K)
             /\ \A x \in ToSet(s) : /\ m.relations[x].exclusive = FALSE
                                    /\ m.relations[x].dependence = l.relations[x].dependence
<1> DEFINE n == Len(s)
<1>1. n \in Nat /\ DOMAIN s = 1 .. n
  BY FirstsAre
<1>2. PICK p : Stepwise(p, "block", 0, l, s) /\ FoldLeft(WithBlock, l, s) = p[n]
  BY <1>1, BlockFold
<1>3. p[0] = l /\ \A d \in 1 .. n : p[d] = WithBlock(p[d - 1], s[d])
  BY <1>2 DEF Stepwise, Step
<1> DEFINE Good(d) ==
             /\ IsLayout(p[d]) /\ Lasting(p[d]) /\ SameBut(p[d], l, Firsts(s, d))
             /\ Holding(p[d], T \cup Firsts(s, d), K)
             /\ \A x \in Firsts(s, d) : /\ p[d].relations[x].exclusive = FALSE
                                        /\ p[d].relations[x].dependence = l.relations[x].dependence
           S == {d \in 0 .. n : Good(d)}
<1>4. 0 \in S
  <2>1. Firsts(s, 0) = {} /\ T \cup {} = T /\ 0 \in 0 .. n
    BY <1>1, FirstsAre
  <2> QED BY <1>3, <2>1 DEF SameBut
<1>5. ASSUME NEW d \in 1 .. n, d - 1 \in S PROVE d \in S
  <2> DEFINE q == p[d - 1]
             m == p[d]
             x == s[d]
             F == Firsts(s, d - 1)
  <2>1. /\ IsLayout(q) /\ Lasting(q) /\ SameBut(q, l, F) /\ Holding(q, T \cup F, K)
        /\ \A y \in F : /\ q.relations[y].exclusive = FALSE
                        /\ q.relations[y].dependence = l.relations[y].dependence
    BY <1>5
  <2>2. x \in DOMAIN plan.size /\ Firsts(s, d) = F \cup {x} /\ m = WithBlock(q, x) /\ d \in 0 .. n
        /\ x \in ToSet(s)
    BY <1>3, FirstsAre
  <2>3. F \subseteq DOMAIN plan.size /\ x \notin F
    <3>1. \A k \in 1 .. d - 1 : k \in DOMAIN s /\ k # d /\ s[k] \in DOMAIN plan.size
      BY <1>1
    <3>2. d \in DOMAIN s
      BY <1>1
    <3> QED BY <3>1, <3>2 DEF F, x, Firsts, IsInjective
  <2> HIDE DEF q, m, x, F
  <2>4. T \cup F \in SUBSET DOMAIN plan.size /\ x \notin T \cup F
    BY <2>2, <2>3
  <2>5. q.relations[x] = l.relations[x] /\ ~l.relations[x].exclusive
    BY <2>1, <2>2, <2>3 DEF SameBut
  <2>6. plan.size[x] \in Nat \ {0}
    BY <2>2
  <2>7. /\ IsLayout(m) /\ SameBut(m, q, {x})
        /\ m.relations[x].dependence = q.relations[x].dependence /\ m.relations[x].exclusive = FALSE
    BY <2>1, <2>2, WithBlockIs
  <2>8. Holding(m, (T \cup F) \cup {x}, K) /\ Lasting(m)
    <3>1. ~q.relations[x].exclusive
      BY <2>5
    <3> QED BY <2>1, <2>2, <2>4, <2>6, <3>1, BlockStep
  <2>9. SameBut(m, l, F \cup {x})
    BY <2>1, <2>7 DEF SameBut
  <2>10. \A y \in F \cup {x} : /\ m.relations[y].exclusive = FALSE
                               /\ m.relations[y].dependence = l.relations[y].dependence
    BY <2>1, <2>3, <2>5, <2>7 DEF SameBut
  <2>11. (T \cup F) \cup {x} = T \cup (F \cup {x})
    OBVIOUS
  <2> QED BY <2>2, <2>7, <2>8, <2>9, <2>10, <2>11 DEF m
<1> HIDE DEF Good
<1>6. n \in S
  <2> HIDE DEF S
  <2> QED BY <1>1, <1>4, <1>5, Ascent
<1> USE DEF Good
<1>7. Good(n)
  BY <1>6
<1>8. Firsts(s, n) = ToSet(s)
  BY FirstsAre
<1> QED
  BY <1>2, <1>7, <1>8

(* The blocks of the dynamic buffers of a kernel past the first d.          *)
ScratchAfter(r, d) == {r[k].v_block : k \in {h \in DOMAIN r : h > d /\ ~r[h].exclusive}}

(* No two of the dynamic buffers of a kernel are the same.                  *)
OwnScratch(r) ==
  \A h, k \in DOMAIN r : ~r[h].exclusive /\ ~r[k].exclusive /\ r[h].v_block = r[k].v_block => h = k

(* The private buffers of a kernel.                                         *)
LEMMA InnerAll ==
  ASSUME NEW l, IsLayout(l), NEW T, Holding(l, T, {}), Lasting(l), NEW i \in DOMAIN Tasks,
         l.inner[i] = <<>>, NEW s \in Seq(Buffers), s = Tasks[i].inner, Align \in Nat \ {0}
  PROVE  LET m == InnerPlaced(l, i)
             r == m.inner[i]
         IN  /\ IsLayout(m) /\ Lasting(m) /\ m.relations = l.relations /\ m.threw = l.threw
             /\ \A j \in DOMAIN Tasks \ {i} : m.inner[j] = l.inner[j]
             /\ r \in Seq(Placements) /\ Len(r) = Len(s)
             /\ \A k \in 1 .. Len(s) : r[k].exclusive = s[k].exclusive /\ r[k].name = s[k].name
             /\ OwnScratch(r) /\ Holding(m, T, ScratchAfter(r, 0))
<1> DEFINE n == Len(s)
<1>1. n \in Nat /\ DOMAIN s = 1 .. n
  BY FirstsAre
<1>2. PICK p : Stepwise(p, "inner", i, l, s) /\ InnerPlaced(l, i) = p[n]
  BY <1>1, InnerFold
<1>3. p[0] = l /\ \A d \in 1 .. n : p[d] = WithInner(p[d - 1], i, s[d])
  BY <1>2 DEF Stepwise, Step
<1> DEFINE Good(d) ==
             /\ IsLayout(p[d]) /\ Lasting(p[d]) /\ p[d].relations = l.relations /\ p[d].threw = l.threw
             /\ \A j \in DOMAIN Tasks \ {i} : p[d].inner[j] = l.inner[j]
             /\ p[d].inner[i] \in Seq(Placements) /\ Len(p[d].inner[i]) = d
             /\ \A k \in 1 .. d : /\ p[d].inner[i][k].exclusive = s[k].exclusive
                                  /\ p[d].inner[i][k].name = s[k].name
             /\ OwnScratch(p[d].inner[i]) /\ Holding(p[d], T, ScratchAfter(p[d].inner[i], 0))
           S == {d \in 0 .. n : Good(d)}
<1>4. 0 \in S
  <2>1. ScratchAfter(<<>>, 0) = {} /\ OwnScratch(<<>>) /\ Len(<<>>) = 0 /\ <<>> \in Seq(Placements)
    BY DEF ScratchAfter, OwnScratch
  <2>2. 0 \in 0 .. n /\ 1 .. 0 = {}
    BY <1>1
  <2> QED BY <1>3, <2>1, <2>2
<1>5. ASSUME NEW d \in 1 .. n, d - 1 \in S PROVE d \in S
  <2> DEFINE q == p[d - 1]
             m == p[d]
             e == s[d]
             r == q.inner[i]
             u == m.inner[i]
             b == u[Len(u)].v_block
  <2>1. /\ IsLayout(q) /\ Lasting(q) /\ q.relations = l.relations /\ q.threw = l.threw
        /\ \A j \in DOMAIN Tasks \ {i} : q.inner[j] = l.inner[j]
        /\ r \in Seq(Placements) /\ Len(r) = d - 1
        /\ \A k \in 1 .. d - 1 : r[k].exclusive = s[k].exclusive /\ r[k].name = s[k].name
        /\ OwnScratch(r) /\ Holding(q, T, ScratchAfter(r, 0))
    BY <1>5
  <2>2. m = WithInner(q, i, e) /\ e \in Buffers /\ e.exclusive \in BOOLEAN /\ d \in 0 .. n /\ d \in Nat
    <3>1. s[d] \in Buffers
      OBVIOUS
    <3>2. s[d].exclusive \in BOOLEAN
      BY <3>1 DEF Buffers
    <3> QED BY <1>1, <1>3, <3>1, <3>2
  <2>3. d - 1 + 1 = d
    BY <2>2
  <2> HIDE DEF q, m, e
  <2>4. WellFormed(q.dynamic_gmp) /\ WellFormed(q.static_gmp)
    BY <2>1 DEF Holding, Lasting, Guarded
  <2>5. /\ IsLayout(m) /\ m.relations = q.relations /\ m.threw = q.threw
        /\ \A j \in DOMAIN Tasks \ {i} : m.inner[j] = q.inner[j]
        /\ u \in Seq(Placements) /\ Len(u) = d
        /\ \A k \in 1 .. d - 1 : u[k] = r[k]
        /\ u[d].name = e.name /\ u[d].exclusive = e.exclusive
    <3>1. /\ IsLayout(m) /\ m.relations = q.relations /\ m.threw = q.threw
          /\ \A j \in DOMAIN Tasks \ {i} : m.inner[j] = q.inner[j]
          /\ u \in Seq(Placements) /\ Len(u) = Len(r) + 1
          /\ \A k \in 1 .. (Len(r) + 1 - 1) : u[k] = r[k]
          /\ u[Len(r) + 1].name = e.name /\ u[Len(r) + 1].exclusive = e.exclusive
      <4> DEFINE w == WithInner(q, i, e)
      <4>1. IsLayout(q) /\ q.inner[i] \in Seq(Placements) /\ e \in Buffers /\ WellFormed(q.dynamic_gmp)
            /\ WellFormed(q.static_gmp)
        BY <2>1, <2>2, <2>4
      <4>2. /\ IsLayout(w) /\ w.relations = q.relations /\ w.threw = q.threw
            /\ \A j \in DOMAIN Tasks \ {i} : w.inner[j] = q.inner[j]
            /\ w.inner[i] \in Seq(Placements) /\ Len(w.inner[i]) = Len(q.inner[i]) + 1
            /\ \A k \in 1 .. (Len(q.inner[i]) + 1 - 1) : w.inner[i][k] = q.inner[i][k]
            /\ w.inner[i][Len(q.inner[i]) + 1].name = e.name
            /\ w.inner[i][Len(q.inner[i]) + 1].exclusive = e.exclusive
        BY ONLY <4>1, WithInnerIs, Align \in Nat \ {0}, i \in DOMAIN Tasks
      <4> HIDE DEF w
      <4>3. m = w
        BY <2>2 DEF w
      <4> QED BY <4>2, <4>3
    <3> QED BY <2>1, <2>3, <3>1
  <2>6. /\ Holding(m, T, IF e.exclusive THEN ScratchAfter(r, 0) ELSE ScratchAfter(r, 0) \cup {b})
        /\ Lasting(m)
        /\ e.exclusive \/ b \notin ScratchAfter(r, 0)
    BY <2>1, <2>2, InnerStep
  <2>7. b = u[d].v_block
    BY <2>5
  <2>8. DOMAIN r = 1 .. d - 1 /\ DOMAIN u = 1 .. d
    BY <2>1, <2>5
  <2> HIDE DEF r, u, b
  <2>9. \A k : k \in 1 .. d <=> k \in 1 .. d - 1 \/ k = d
    BY <2>2
  <2>10. ScratchAfter(u, 0) = IF e.exclusive THEN ScratchAfter(r, 0) ELSE ScratchAfter(r, 0) \cup {b}
    <3>1. \A c : c \in ScratchAfter(r, 0) <=> \E k \in 1 .. d - 1 : ~r[k].exclusive /\ c = r[k].v_block
      BY <2>8 DEF ScratchAfter
    <3>2. \A c : c \in ScratchAfter(u, 0) <=> \E k \in 1 .. d : ~u[k].exclusive /\ c = u[k].v_block
      BY <2>8 DEF ScratchAfter
    <3>3. \A c : c \in ScratchAfter(u, 0) <=> c \in ScratchAfter(r, 0) \/ (~e.exclusive /\ c = b)
      BY <2>5, <2>7, <2>9, <3>1, <3>2
    <3> QED BY <3>3
  <2>11. OwnScratch(u)
    <3>1. \A k \in 1 .. d - 1 : ~r[k].exclusive => r[k].v_block \in ScratchAfter(r, 0)
      BY <2>8 DEF ScratchAfter
    <3> QED BY <2>1, <2>5, <2>6, <2>7, <2>8, <2>9, <3>1 DEF OwnScratch
  <2>12. \A k \in 1 .. d : u[k].exclusive = s[k].exclusive /\ u[k].name = s[k].name
    BY <2>1, <2>5, <2>9 DEF e
  <2>13. \A j \in DOMAIN Tasks \ {i} : m.inner[j] = l.inner[j]
    BY <2>1, <2>5
  <2>14. Holding(m, T, ScratchAfter(u, 0))
    BY <2>6, <2>10
  <2> QED BY <2>1, <2>2, <2>5, <2>6, <2>11, <2>12, <2>13, <2>14 DEF m, u
<1> HIDE DEF Good
<1>6. n \in S
  <2> HIDE DEF S
  <2> QED BY <1>1, <1>4, <1>5, Ascent
<1> USE DEF Good
<1>7. Good(n)
  BY <1>6
<1> QED
  BY <1>2, <1>7

(* The dynamic ones are given back.                                         *)
LEMMA ReturnAll ==
  ASSUME NEW l, IsLayout(l), NEW T, Lasting(l), NEW i \in DOMAIN Tasks,
         l.inner[i] \in Seq(Placements), OwnScratch(l.inner[i]), Holding(l, T, ScratchAfter(l.inner[i], 0))
  PROVE  LET m == InnerReturned(l, i)
         IN  /\ IsLayout(m) /\ Lasting(m) /\ m.relations = l.relations /\ m.threw = l.threw
             /\ m.inner = l.inner /\ Holding(m, T, {})
<1> DEFINE s == l.inner[i]
           n == Len(s)
<1>1. n \in Nat /\ DOMAIN s = 1 .. n /\ \A d \in 1 .. n : s[d].exclusive \in BOOLEAN
  <2>1. s \in Seq(Placements)
    OBVIOUS
  <2>2. \A e \in Placements : e.exclusive \in BOOLEAN
    BY DEF Placements
  <2> HIDE DEF s
  <2> QED BY <2>1, <2>2
<1>2. PICK p : Stepwise(p, "return", i, l, s) /\ InnerReturned(l, i) = p[n]
  <2> HIDE DEF s
  <2>1. \E p : /\ Stepwise(p, "return", i, l, s)
               /\ FoldLeft(LAMBDA m, buffer : IF buffer.exclusive THEN m ELSE GivenBack(m, buffer.v_block), l, s) = p[n]
    BY <1>1, ReturnFold
  <2> QED BY <2>1 DEF InnerReturned, s
<1> HIDE DEF s
<1>3. p[0] = l /\ \A d \in 1 .. n :
        p[d] = IF s[d].exclusive THEN p[d - 1] ELSE GivenBack(p[d - 1], s[d].v_block)
  BY <1>2 DEF Stepwise, Step
<1> DEFINE Good(d) ==
             /\ IsLayout(p[d]) /\ Lasting(p[d]) /\ p[d].relations = l.relations /\ p[d].threw = l.threw
             /\ p[d].inner = l.inner /\ Holding(p[d], T, ScratchAfter(s, d))
           S == {d \in 0 .. n : Good(d)}
<1>4. 0 \in S
  BY <1>1, <1>3 DEF s
<1>5. ASSUME NEW d \in 1 .. n, d - 1 \in S PROVE d \in S
  <2> DEFINE q == p[d - 1]
             m == p[d]
             b == s[d].v_block
             K == ScratchAfter(s, d - 1)
  <2>1. /\ IsLayout(q) /\ Lasting(q) /\ q.relations = l.relations /\ q.threw = l.threw
        /\ q.inner = l.inner /\ Holding(q, T, K)
    BY <1>5
  <2>2. d \in 0 .. n /\ d \in Nat /\ m = IF s[d].exclusive THEN q ELSE GivenBack(q, b)
    BY <1>1, <1>3
  <2>3. \A k \in DOMAIN s : k > d - 1 <=> k > d \/ k = d
    BY <1>1, <2>2
  <2> HIDE DEF q, m
  <2>4. CASE s[d].exclusive
    <3>1. ScratchAfter(s, d) = K
      BY <2>3, <2>4 DEF ScratchAfter
    <3> QED BY <2>1, <2>2, <2>4, <3>1 DEF m
  <2>5. CASE ~s[d].exclusive
    <3>1. b \in K
      BY <1>1, <2>3, <2>5 DEF ScratchAfter
    <3>2. ScratchAfter(s, d) = K \ {b}
      <4>1. \A c : c \in K <=> c = b \/ c \in ScratchAfter(s, d)
        BY <1>1, <2>3, <2>5 DEF ScratchAfter
      <4>2. b \notin ScratchAfter(s, d)
        <5>1. \A k \in DOMAIN s : k > d => k # d
          BY <1>1, <2>2
        <5> QED BY <1>1, <2>5, <5>1 DEF ScratchAfter, OwnScratch, s
      <4> QED BY <4>1, <4>2
    <3> HIDE DEF b, K
    <3>3. /\ IsLayout(m) /\ m.relations = q.relations /\ m.threw = q.threw
          /\ m.inner = q.inner /\ Holding(m, T, K \ {b}) /\ Lasting(m)
      <4>1. m = GivenBack(q, b)
        BY <2>2, <2>5 DEF b
      <4> QED BY <2>1, <3>1, <4>1, ReturnStep
    <3> QED BY <2>1, <2>2, <3>2, <3>3 DEF m
  <2> QED BY <2>4, <2>5
<1> HIDE DEF Good
<1>6. n \in S
  <2> HIDE DEF S
  <2> QED BY <1>1, <1>4, <1>5, Ascent
<1> USE DEF Good
<1>7. Good(n)
  BY <1>6
<1>8. ScratchAfter(s, n) = {}
  BY <1>1 DEF ScratchAfter
<1> QED
  BY <1>2, <1>7, <1>8

(* The same but for how many uses are left.                                 *)
SameBlocks(m, l) ==
  /\ m.inner = l.inner /\ m.threw = l.threw
  /\ \A x \in DOMAIN plan.size : /\ m.relations[x].v_block = l.relations[x].v_block
                                 /\ m.relations[x].exclusive = l.relations[x].exclusive

(* A use counted down changes no block.                                     *)
LEMMA CountedDownStep ==
  ASSUME NEW l, IsLayout(l), NEW T \in SUBSET DOMAIN plan.size, Holding(l, T, {}), Lasting(l),
         NEW x \in DOMAIN plan.size
  PROVE  LET m == CountedTo(l, x, l.relations[x].dependence - 1)
         IN  /\ IsLayout(m) /\ SameBlocks(m, l) /\ Holding(m, T, {}) /\ Lasting(m)
             /\ m.relations[x].dependence = l.relations[x].dependence - 1
             /\ \A y \in DOMAIN plan.size \ {x} : m.relations[y].dependence = l.relations[y].dependence
<1> DEFINE d == l.relations[x].dependence - 1
           m == CountedTo(l, x, d)
<1>1. /\ IsLayout(m) /\ SameBut(m, l, {x})
      /\ m.dynamic_gmp = l.dynamic_gmp /\ m.static_gmp = l.static_gmp
      /\ m.relations[x].dependence = d
      /\ m.relations[x].v_block = l.relations[x].v_block
      /\ m.relations[x].exclusive = l.relations[x].exclusive
  <2> HIDE DEF d
  <2> QED BY CountedDownIs
<1> HIDE DEF m
<1>2. SameBlocks(m, l) /\ \A y \in DOMAIN plan.size \ {x} : m.relations[y].dependence = l.relations[y].dependence
  BY <1>1 DEF SameBlocks, SameBut
<1>3. Holding(m, T, {})
  <2>1. \A y \in T : m.relations[y].v_block = l.relations[y].v_block
    BY <1>2 DEF SameBlocks
  <2>2. m.dynamic_gmp = l.dynamic_gmp
    BY <1>1
  <2> QED BY ONLY Holding(l, T, {}), <2>1, <2>2, HoldingKept
<1>4. Lasting(m)
  <2>1. Exclusives(m) = Exclusives(l) /\ \A y \in Exclusives(l) : m.relations[y].v_block = l.relations[y].v_block
    BY <1>2 DEF SameBlocks, Exclusives
  <2> QED BY <1>1, <1>2, <2>1, LastingKept DEF SameBlocks
<1> QED
  BY <1>1, <1>2, <1>3, <1>4 DEF m, d

(* What is done when a task has used an operand.                            *)
LEMMA UsedStep ==
  ASSUME NEW l, IsLayout(l), NEW T \in SUBSET DOMAIN plan.size, Holding(l, T, {}), Lasting(l),
         NEW x \in T, l.relations[x].dependence \in Nat \ {0}, ~l.relations[x].exclusive
  PROVE  LET m == Used(l, x)
         IN  /\ IsLayout(m) /\ SameBlocks(m, l) /\ Lasting(m)
             /\ Holding(m, IF l.relations[x].dependence = 1 THEN T \ {x} ELSE T, {})
             /\ m.relations[x].dependence = l.relations[x].dependence - 1
             /\ \A y \in DOMAIN plan.size \ {x} : m.relations[y].dependence = l.relations[y].dependence
<1> DEFINE c == CountedTo(l, x, l.relations[x].dependence - 1)
           b == l.relations[x].v_block
<1>1. /\ IsLayout(c) /\ SameBlocks(c, l) /\ Holding(c, T, {}) /\ Lasting(c)
      /\ c.relations[x].dependence = l.relations[x].dependence - 1
      /\ \A y \in DOMAIN plan.size \ {x} : c.relations[y].dependence = l.relations[y].dependence
  BY CountedDownStep
<1>2. l.relations[x].dependence # 0
  OBVIOUS
<1>3. CASE l.relations[x].dependence = 1
  <2>1. Used(l, x) = GivenBack(c, b)
    BY <1>2, <1>3 DEF Used, CountedTo
  <2> HIDE DEF c, b
  <2>2. b = c.relations[x].v_block
    BY <1>1 DEF b, SameBlocks
  <2> DEFINE m == GivenBack(c, b)
  <2>3. /\ IsLayout(m) /\ m.relations = c.relations /\ m.threw = c.threw
        /\ m.inner = c.inner /\ Holding(m, T \ {x}, {}) /\ Lasting(m)
    BY <1>1, <2>2, FreedStep
  <2> HIDE DEF m
  <2>4. SameBlocks(m, l)
    BY <1>1, <2>3 DEF SameBlocks
  <2>5. Used(l, x) = m
    BY <2>1 DEF m
  <2> QED BY <1>1, <1>3, <2>3, <2>4, <2>5
<1>4. CASE l.relations[x].dependence # 1
  <2>1. Used(l, x) = c
    BY <1>2, <1>4 DEF Used, CountedTo
  <2> HIDE DEF c
  <2> QED BY <1>1, <1>4, <2>1
<1> QED
  BY <1>3, <1>4

(* The operands of task i have been used.  Those whose count is 0 before    *)
(* are pinned, or the one it works in place on.                             *)
LEMMA UsedAll ==
  ASSUME IsPlan(plan), NEW l, IsLayout(l), NEW T \in SUBSET DOMAIN plan.size,
         Holding(l, T, {}), Lasting(l), NEW i \in DOMAIN Tasks,
         \A x \in ToSet(Tasks[i].ins) :
           \/ l.relations[x].dependence = 0 /\ x \notin T
           \/ l.relations[x].dependence = Left(plan, x, i, 0) /\ ~l.relations[x].exclusive /\ x \in T
  PROVE  LET m == FoldLeft(Used, l, Tasks[i].ins)
         IN  /\ IsLayout(m) /\ SameBlocks(m, l) /\ Lasting(m)
             /\ Holding(m, {x \in T : x \in ToSet(Tasks[i].ins) => Left(plan, x, i + 1, 0) # 0}, {})
             /\ \A x \in DOMAIN plan.size :
                  m.relations[x].dependence =
                    IF x \in ToSet(Tasks[i].ins) /\ l.relations[x].dependence # 0
                      THEN Left(plan, x, i + 1, 0) ELSE l.relations[x].dependence
<1> DEFINE s == Tasks[i].ins
           n == Len(s)
           I == ToSet(s)
           F(d) == {x \in T : x \in I => Left(plan, x, i, d) # 0}
           Due(d) == [x \in DOMAIN plan.size |->
                        IF x \in I /\ l.relations[x].dependence # 0
                          THEN Left(plan, x, i, d) ELSE l.relations[x].dependence]
<1>0. s \in Seq(DOMAIN plan.size) /\ i \in Nat
  BY PlanTypes DEF Tasks
<1>1. n \in Nat /\ DOMAIN s = 1 .. n /\ I \subseteq DOMAIN plan.size
      /\ \A d \in 1 .. n : s[d] \in I
  <2> HIDE DEF s
  <2> QED BY <1>0 DEF ToSet
<1>2. PICK p : Stepwise(p, "used", i, l, s) /\ FoldLeft(Used, l, s) = p[n]
  <2> HIDE DEF s
  <2> QED BY <1>1, UsedFold
<1>3. p[0] = l /\ \A d \in 1 .. n : p[d] = Used(p[d - 1], s[d])
  BY <1>2 DEF Stepwise, Step
<1>4. \A x \in I : Left(plan, x, i, 0) # 0
  <2> SUFFICES ASSUME NEW x \in I PROVE Left(plan, x, i, 0) # 0
    OBVIOUS
  <2>1. i \in Consumers(plan, x) /\ i >= i
    BY <1>0 DEF Consumers, Tasks
  <2> QED BY <1>0, <2>1, LeftNeeded
<1>5. \A x, d : Left(plan, x, i, d) \in Nat
  BY LeftType
<1>6. \A d \in 1 .. n : \A x : Left(plan, x, i, d - 1) = IF s[d] = x THEN Left(plan, x, i, d) + 1
                                                         ELSE Left(plan, x, i, d)
  BY <1>1, LeftStep DEF Tasks
<1>7. \A x : Left(plan, x, i, n) = Left(plan, x, i + 1, 0)
  BY LeftNext DEF Tasks
<1>8. \A x \in I : \/ l.relations[x].dependence = 0 /\ x \notin T
                   \/ l.relations[x].dependence = Left(plan, x, i, 0) /\ ~l.relations[x].exclusive /\ x \in T
  OBVIOUS
<1> HIDE DEF s, I
<1> DEFINE Good(d) ==
             /\ IsLayout(p[d]) /\ SameBlocks(p[d], l) /\ Lasting(p[d])
             /\ Holding(p[d], F(d), {})
             /\ \A x \in DOMAIN plan.size : p[d].relations[x].dependence = Due(d)[x]
           S == {d \in 0 .. n : Good(d)}
<1>9. 0 \in S
  <2>1. F(0) = T
    BY <1>4
  <2>2. \A x \in DOMAIN plan.size : l.relations[x].dependence = Due(0)[x]
    BY <1>8
  <2>3. SameBlocks(l, l)
    BY DEF SameBlocks
  <2>4. 0 \in 0 .. n /\ IsLayout(p[0]) /\ Lasting(p[0]) /\ SameBlocks(p[0], l) /\ Holding(p[0], F(0), {})
    <3> HIDE DEF F
    <3> QED BY <1>1, <1>3, <2>1, <2>3
  <2>5. \A x \in DOMAIN plan.size : p[0].relations[x].dependence = Due(0)[x]
    <3> HIDE DEF Due
    <3> QED BY <1>3, <2>2
  <2> HIDE DEF F, Due
  <2> QED BY <2>4, <2>5
<1>10. ASSUME NEW d \in 1 .. n, d - 1 \in S PROVE d \in S
  <2> DEFINE q == p[d - 1]
             m == p[d]
             x == s[d]
             U == F(d - 1)
  <2>1. /\ IsLayout(q) /\ SameBlocks(q, l) /\ Lasting(q) /\ Holding(q, U, {})
        /\ \A y \in DOMAIN plan.size : q.relations[y].dependence = Due(d - 1)[y]
    BY <1>10
  <2>2. x \in I /\ x \in DOMAIN plan.size /\ m = Used(q, x) /\ d \in 0 .. n
    BY <1>1, <1>3
  <2>3. /\ Left(plan, x, i, d - 1) = Left(plan, x, i, d) + 1
        /\ \A y : y # x => Left(plan, y, i, d - 1) = Left(plan, y, i, d)
    BY <1>6
  <2>4. U \in SUBSET DOMAIN plan.size
    OBVIOUS
  <2>5. F(d) = IF Left(plan, x, i, d) = 0 THEN U \ {x} ELSE U
    <3>1. \A y : y # x => (y \in F(d) <=> y \in U)
      BY <2>3
    <3>2. x \in F(d) <=> x \in T /\ Left(plan, x, i, d) # 0
      BY <2>2
    <3>3. x \in U <=> x \in T
      BY <1>5, <2>2, <2>3
    <3> HIDE DEF F, U
    <3>4. CASE Left(plan, x, i, d) = 0
      <4>1. \A y : y \in F(d) <=> y \in U \ {x}
        BY <3>1, <3>2, <3>4
      <4> QED BY <3>4, <4>1
    <3>5. CASE Left(plan, x, i, d) # 0
      <4>1. \A y : y \in F(d) <=> y \in U
        BY <3>1, <3>2, <3>3, <3>5
      <4> QED BY <3>5, <4>1
    <3> QED BY <3>4, <3>5
  <2>6. \A y \in DOMAIN plan.size : y # x => Due(d)[y] = Due(d - 1)[y]
    BY <2>3
  <2>7. CASE l.relations[x].dependence = 0
    <3>1. q.relations[x].dependence = 0 /\ Due(d)[x] = 0
      BY <2>1, <2>2, <2>7
    <3>2. m = q
      BY <2>2, <3>1 DEF Used
    <3>3. x \notin T
      BY <1>4, <1>8, <2>2, <2>7
    <3>4. F(d) = U
      BY <2>5, <3>3
    <3>5. \A y \in DOMAIN plan.size : q.relations[y].dependence = Due(d)[y]
      BY <2>1, <2>6, <3>1
    <3> HIDE DEF F, U, Due
    <3> QED BY <2>1, <2>2, <3>2, <3>4, <3>5
  <2>8. CASE l.relations[x].dependence # 0
    <3>1. q.relations[x].dependence = Left(plan, x, i, d - 1) /\ Due(d)[x] = Left(plan, x, i, d)
      BY <2>1, <2>2, <2>8
    <3>2. x \in T /\ ~l.relations[x].exclusive
      BY <1>8, <2>2, <2>8
    <3>3. x \in U
      BY <1>5, <2>3, <3>2
    <3>4. q.relations[x].dependence \in Nat \ {0} /\ q.relations[x].dependence - 1 = Left(plan, x, i, d)
          /\ (q.relations[x].dependence = 1 <=> Left(plan, x, i, d) = 0)
      BY <1>5, <2>3, <3>1
    <3>5. ~q.relations[x].exclusive
      BY <2>1, <2>2, <3>2 DEF SameBlocks
    <3> HIDE DEF F, U, Due, m, q, x
    <3>6. /\ IsLayout(m) /\ SameBlocks(m, q) /\ Lasting(m)
          /\ Holding(m, IF q.relations[x].dependence = 1 THEN U \ {x} ELSE U, {})
          /\ m.relations[x].dependence = q.relations[x].dependence - 1
          /\ \A y \in DOMAIN plan.size \ {x} : m.relations[y].dependence = q.relations[y].dependence
      <4>1. /\ IsLayout(q) /\ Lasting(q) /\ Holding(q, U, {}) /\ U \in SUBSET DOMAIN plan.size /\ x \in U
            /\ q.relations[x].dependence \in Nat \ {0} /\ ~q.relations[x].exclusive
        BY <2>1, <2>4, <3>3, <3>4, <3>5
      <4> DEFINE w == Used(q, x)
      <4>2. /\ IsLayout(w) /\ SameBlocks(w, q) /\ Lasting(w)
            /\ Holding(w, IF q.relations[x].dependence = 1 THEN U \ {x} ELSE U, {})
            /\ w.relations[x].dependence = q.relations[x].dependence - 1
            /\ \A y \in DOMAIN plan.size \ {x} : w.relations[y].dependence = q.relations[y].dependence
        BY ONLY <4>1, UsedStep
      <4> HIDE DEF w
      <4>3. m = w
        BY <2>2 DEF w
      <4> QED BY <4>2, <4>3
    <3>7. Holding(m, F(d), {})
      BY <2>5, <3>4, <3>6
    <3>8. SameBlocks(m, l)
      BY <2>1, <3>6 DEF SameBlocks
    <3>9. \A y \in DOMAIN plan.size : m.relations[y].dependence = Due(d)[y]
      BY <2>1, <2>6, <3>1, <3>4, <3>6
    <3> QED BY <2>2, <3>6, <3>7, <3>8, <3>9 DEF m
  <2> QED BY <2>7, <2>8
<1> HIDE DEF Good
<1>11. n \in S
  <2> HIDE DEF S
  <2> QED BY <1>1, <1>9, <1>10, Ascent
<1> USE DEF Good
<1>12. Good(n)
  BY <1>11
<1>13. F(n) = {x \in T : x \in I => Left(plan, x, i + 1, 0) # 0}
  BY <1>7
<1>14. \A x \in DOMAIN plan.size :
         Due(n)[x] = IF x \in I /\ l.relations[x].dependence # 0
                       THEN Left(plan, x, i + 1, 0) ELSE l.relations[x].dependence
  BY <1>7
<1> HIDE DEF F, Due
<1> QED
  BY <1>2, <1>12, <1>13, <1>14 DEF s, I

-----------------------------------------------------------------------------
(* The layout of a task.                                                    *)

(* The tensors whose blocks are in use when task c is to be laid out; those *)
(* that are in use while task i runs.                                       *)
Holders(l, c, u) ==
  {x \in PlacedBefore(plan, c) \ u : ~l.relations[x].exclusive /\ Needed(plan, x, c)}
Live(l, i) ==
  {x \in PlacedBefore(plan, i + 1) : ~l.relations[x].exclusive /\ Needed(plan, x, i)}

(* Task i works in place: it is handed the block of x for y.                *)
Handed(i, x, y) ==
  Tasks[i].inplace > 0 /\ x = Tasks[i].ins[Tasks[i].inplace] /\ y = Tasks[i].outs[1]

(* Blocks in use at once do not overlap, but for the one that is handed on. *)
TaskApart(l, i) ==
  /\ \A x, y \in Live(l, i) :
       x # y => \/ ~Overlap(l.relations[x].v_block, l.relations[y].v_block)
                \/ Handed(i, x, y) \/ Handed(i, y, x)
  /\ \A x \in Live(l, i), k \in DOMAIN l.inner[i] :
       ~l.inner[i][k].exclusive => ~Overlap(l.relations[x].v_block, l.inner[i][k].v_block)
  /\ \A h, k \in DOMAIN l.inner[i] :
       h # k /\ ~l.inner[i][h].exclusive /\ ~l.inner[i][k].exclusive =>
         ~Overlap(l.inner[i][h].v_block, l.inner[i][k].v_block)

(* The private buffers of task i have been placed.                          *)
InnerOf(l, i) ==
  /\ l.inner[i] \in Seq(Placements) /\ Len(l.inner[i]) = Len(Tasks[i].inner)
  /\ \A k \in 1 .. Len(Tasks[i].inner) : /\ l.inner[i][k].exclusive = Tasks[i].inner[k].exclusive
                                         /\ l.inner[i][k].name = Tasks[i].inner[k].name

(* The inputs but u, and the first c - 1 tasks, are laid out.               *)
Laid(l, c, u) ==
  /\ IsLayout(l) /\ l.threw = FALSE
  /\ \A x \in PlacedBefore(plan, c) \ u :
       l.relations[x].dependence = IF x \in Pinned(plan, c) THEN 0 ELSE Left(plan, x, c, 0)
  /\ \A x \in DOMAIN plan.size :
       l.relations[x].exclusive <=> x \in Pinned(plan, c) \/ x \in WeightsBefore(plan, c)
  /\ Holding(l, Holders(l, c, u), {}) /\ Lasting(l)
  /\ \A i \in DOMAIN Tasks : i < c => TaskApart(l, i) /\ InnerOf(l, i)
  /\ \A i \in DOMAIN Tasks : i >= c => l.inner[i] = <<>>

(* A tensor a task does not read has as many uses left after it.            *)
LEMMA LeftSkip ==
  ASSUME NEW p, IsPlan(p), NEW i \in DOMAIN p.tasks, NEW x, x \notin ToSet(p.tasks[i].ins)
  PROVE  Left(p, x, i, 0) = Left(p, x, i + 1, 0)
<1>1. \A o : o \in Uses(p, x, i, 0) <=> o \in Uses(p, x, i + 1, 0)
  <2> SUFFICES ASSUME NEW j \in DOMAIN p.tasks, NEW k \in DOMAIN p.tasks[j].ins, p.tasks[j].ins[k] = x
               PROVE  j > i \/ (j = i /\ k > 0) <=> j > i + 1 \/ (j = i + 1 /\ k > 0)
    BY OperandsAre DEF Uses
  <2>1. i \in Nat /\ j \in Nat /\ k \in Nat \ {0}
    BY PlanTypes
  <2>2. j # i
    BY DEF ToSet
  <2> QED BY <2>1, <2>2
<1>2. Uses(p, x, i, 0) = Uses(p, x, i + 1, 0)
  BY <1>1
<1> QED
  BY <1>2 DEF Left

(* What one more task adds.                                                 *)
LEMMA PlacedNext ==
  ASSUME NEW p, IsPlan(p), NEW i \in DOMAIN p.tasks
  PROVE  /\ PlacedBefore(p, i + 1) = PlacedBefore(p, i) \cup ToSet(p.tasks[i].outs)
         /\ Pinned(p, i + 1) = Pinned(p, i) \cup (IF p.tasks[i].pin THEN ToSet(p.tasks[i].outs) ELSE {})
         /\ WeightsBefore(p, i + 1) = WeightsBefore(p, i) \cup WeightsOf(p.tasks[i])
         /\ i \in Nat
<1>1. i \in Nat /\ \A m \in DOMAIN p.tasks : m < i + 1 <=> m < i \/ m = i
  BY PlanTypes
<1>2. PlacedBefore(p, i + 1) = PlacedBefore(p, i) \cup ToSet(p.tasks[i].outs)
  BY <1>1 DEF PlacedBefore
<1>3. \A x : x \in Pinned(p, i + 1) <=> x \in Pinned(p, i) \/ (p.tasks[i].pin /\ x \in ToSet(p.tasks[i].outs))
  BY <1>1 DEF Pinned
<1>4. WeightsBefore(p, i + 1) = WeightsBefore(p, i) \cup WeightsOf(p.tasks[i])
  BY <1>1 DEF WeightsBefore
<1>5. Pinned(p, i + 1) = Pinned(p, i) \cup (IF p.tasks[i].pin THEN ToSet(p.tasks[i].outs) ELSE {})
  BY <1>3
<1> QED
  BY <1>1, <1>2, <1>4, <1>5

(* Where the tensors of a task are when it is laid out.                     *)
LEMMA PlacedWhere ==
  ASSUME NEW p, IsPlan(p), NEW i \in DOMAIN p.tasks
  PROVE  /\ PlacedBefore(p, i) \subseteq DOMAIN p.size /\ Pinned(p, i) \subseteq PlacedBefore(p, i)
         /\ ToSet(p.tasks[i].ins) \subseteq PlacedBefore(p, i)
         /\ ToSet(p.tasks[i].outs) \subseteq DOMAIN p.size
         /\ WeightsOf(p.tasks[i]) \subseteq DOMAIN p.size
         /\ ToSet(p.tasks[i].outs) \cap PlacedBefore(p, i) = {}
         /\ WeightsOf(p.tasks[i]) \cap PlacedBefore(p, i) = {}
         /\ WeightsOf(p.tasks[i]) \cap ToSet(p.tasks[i].outs) = {}
         /\ WeightsBefore(p, i) \cap (PlacedBefore(p, i) \cup ToSet(p.tasks[i].outs)) = {}
<1>1. \A j \in DOMAIN p.tasks : /\ j \in Nat
                                /\ ToSet(p.tasks[j].ins) \subseteq DOMAIN p.size
                                /\ ToSet(p.tasks[j].outs) \subseteq DOMAIN p.size
                                /\ WeightsOf(p.tasks[j]) \subseteq DOMAIN p.size
  <2> SUFFICES ASSUME NEW j \in DOMAIN p.tasks
               PROVE  /\ j \in Nat
                      /\ ToSet(p.tasks[j].ins) \subseteq DOMAIN p.size
                      /\ ToSet(p.tasks[j].outs) \subseteq DOMAIN p.size
                      /\ WeightsOf(p.tasks[j]) \subseteq DOMAIN p.size
    OBVIOUS
  <2>1. /\ p.tasks[j].ins \in Seq(DOMAIN p.size) /\ p.tasks[j].outs \in Seq(DOMAIN p.size)
        /\ p.tasks[j].weights \in Seq(DOMAIN p.size) /\ j \in Nat
    BY PlanTypes
  <2>2. \A s \in Seq(DOMAIN p.size) : ToSet(s) \subseteq DOMAIN p.size
    BY DEF ToSet
  <2> QED BY <2>1, <2>2 DEF WeightsOf
<1>2. \A x \in PlacedBefore(p, i) : \/ x \in InputsOf(p)
                                    \/ \E j \in DOMAIN p.tasks : j < i /\ x \in ToSet(p.tasks[j].outs)
  BY DEF PlacedBefore
<1>3. \A x \in InputsOf(p) : /\ \E j \in DOMAIN p.tasks : x \in ToSet(p.tasks[j].ins)
                             /\ \A j \in DOMAIN p.tasks : x \notin ToSet(p.tasks[j].outs)
  BY DEF InputsOf, Produced
<1>4. PlacedBefore(p, i) \subseteq DOMAIN p.size /\ Pinned(p, i) \subseteq PlacedBefore(p, i)
  BY <1>1, <1>2, <1>3 DEF Pinned, PlacedBefore
<1>5. ASSUME NEW x \in ToSet(p.tasks[i].ins) PROVE x \in PlacedBefore(p, i)
  <2>1. CASE \E j \in DOMAIN p.tasks : x \in ToSet(p.tasks[j].outs)
    BY <2>1, PlanOrder DEF PlacedBefore
  <2>2. CASE \A j \in DOMAIN p.tasks : x \notin ToSet(p.tasks[j].outs)
    BY <2>2 DEF PlacedBefore, InputsOf, Produced
  <2> QED BY <2>1, <2>2
<1>6. ToSet(p.tasks[i].outs) \cap PlacedBefore(p, i) = {}
  <2> SUFFICES ASSUME NEW x \in ToSet(p.tasks[i].outs), x \in PlacedBefore(p, i) PROVE FALSE
    OBVIOUS
  <2>1. PICK j \in DOMAIN p.tasks : j < i /\ x \in ToSet(p.tasks[j].outs)
    BY <1>2, <1>3
  <2>2. i = j
    BY <2>1, PlanOrder
  <2> QED BY <1>1, <2>1, <2>2
<1>7. \A j \in DOMAIN p.tasks : \A x \in WeightsOf(p.tasks[j]) : x \notin PlacedBefore(p, i)
  BY <1>2, <1>3, PlanOrder
<1>8. \A j \in DOMAIN p.tasks : WeightsOf(p.tasks[j]) \cap ToSet(p.tasks[i].outs) = {}
  BY PlanOrder
<1>9. WeightsBefore(p, i) \cap (PlacedBefore(p, i) \cup ToSet(p.tasks[i].outs)) = {}
  BY <1>7, <1>8 DEF WeightsBefore
<1> QED
  BY <1>1, <1>4, <1>5, <1>6, <1>7, <1>8, <1>9

(* A task keeps its blocks apart if none of them changes.                   *)
LEMMA ApartKept ==
  ASSUME NEW l, NEW m, NEW i, TaskApart(l, i), m.inner[i] = l.inner[i],
         \A x \in PlacedBefore(plan, i + 1) : /\ m.relations[x].exclusive = l.relations[x].exclusive
                                              /\ m.relations[x].v_block = l.relations[x].v_block
  PROVE  TaskApart(m, i)
<1>1. Live(m, i) = Live(l, i)
  BY DEF Live
<1>2. \A x \in Live(l, i) : m.relations[x].v_block = l.relations[x].v_block
  BY DEF Live
<1> QED
  BY <1>1, <1>2 DEF TaskApart

(* The first steps in laying out task i: its results are counted, its       *)
(* weights placed, and then its results.                                    *)
Weighted(l, i) == FoldLeft(AssignedInitializer, Counted(l, ToSet(Tasks[i].outs)), Tasks[i].weights)
InPlace(i) == ~Tasks[i].pin /\ Tasks[i].inplace > 0
From(i) == Tasks[i].ins[Tasks[i].inplace]
Result(i) == Tasks[i].outs[1]
OutsPlaced(w, i) ==
  IF Tasks[i].pin THEN FoldLeft(AssignedInitializer, w, Tasks[i].outs)
  ELSE IF Tasks[i].inplace > 0 THEN Inheriting(w, From(i), Result(i))
  ELSE FoldLeft(WithBlock, w, Tasks[i].outs)

(* The operands whose block goes to a result, and the tensors that have a   *)
(* block of the dynamic arena when the results have theirs.                 *)
Spending(i) == {x \in ToSet(Tasks[i].ins) : InPlace(i) /\ x = From(i)}
Having(l, i) ==
  (Holders(l, i, {}) \ Spending(i)) \cup {x \in ToSet(Tasks[i].outs) : ~Tasks[i].pin}

(* The layout of a task in terms of these.                                  *)
LEMMA VisitedIs ==
  ASSUME NEW l, NEW i
  PROVE  LET m == OutsPlaced(Weighted(l, i), i)
         IN  Visited(Counted(l, ToSet(Tasks[i].outs)), i) =
               IF Tasks[i].inner = <<>> THEN m ELSE InnerReturned(InnerPlaced(m, i), i)
BY DEF Visited, OutsPlaced, Weighted, From, Result

(* The weights of the task are in the static arena.                         *)
LEMMA WeightsPlaced ==
  ASSUME IsPlan(plan), Align \in Nat \ {0}, NEW i \in DOMAIN Tasks, NEW l, Laid(l, i, {})
  PROVE  LET w == Weighted(l, i)
         IN  /\ IsLayout(w) /\ Lasting(w) /\ w.threw = FALSE /\ w.inner = l.inner
             /\ Holding(w, Holders(l, i, {}), {})
             /\ \A x \in PlacedBefore(plan, i) : w.relations[x] = l.relations[x]
             /\ \A x \in ToSet(Tasks[i].outs) : w.relations[x].dependence = Dependence(plan, x)
             /\ \A x \in DOMAIN plan.size :
                  w.relations[x].exclusive <=> x \in Pinned(plan, i) \/ x \in WeightsBefore(plan, i + 1)
<1> DEFINE outs == ToSet(Tasks[i].outs)
           weights == WeightsOf(Tasks[i])
           s == Tasks[i].weights
           c == Counted(l, outs)
           w == FoldLeft(AssignedInitializer, c, s)
           T == Holders(l, i, {})
           P == PlacedBefore(plan, i)
<1>1. /\ P \subseteq DOMAIN plan.size /\ Pinned(plan, i) \subseteq P
      /\ outs \subseteq DOMAIN plan.size /\ weights \subseteq DOMAIN plan.size
      /\ outs \cap P = {} /\ weights \cap P = {} /\ weights \cap outs = {}
      /\ WeightsBefore(plan, i) \cap (P \cup outs) = {}
  BY PlacedWhere DEF Tasks
<1>2. /\ s \in Seq(DOMAIN plan.size) /\ \A x \in DOMAIN plan.size : plan.size[x] \in Nat \ {0}
  BY PlanTypes DEF Tasks
<1>3. /\ IsLayout(l) /\ l.threw = FALSE /\ Holding(l, T, {}) /\ Lasting(l)
      /\ \A x \in DOMAIN plan.size :
           l.relations[x].exclusive <=> x \in Pinned(plan, i) \/ x \in WeightsBefore(plan, i)
  BY DEF Laid
<1>4. T \subseteq P
  BY DEF Holders
<1>5. weights = ToSet(s)
  BY DEF WeightsOf
<1>6. WeightsBefore(plan, i + 1) = WeightsBefore(plan, i) \cup weights
  BY PlacedNext DEF Tasks
<1> HIDE DEF outs, weights, s, T, P
<1>7. /\ IsLayout(c) /\ SameBut(c, l, outs)
      /\ c.dynamic_gmp = l.dynamic_gmp /\ c.static_gmp = l.static_gmp
      /\ \A x \in outs \cap DOMAIN plan.size :
           /\ c.relations[x].dependence = Dependence(plan, x)
           /\ c.relations[x].v_block = l.relations[x].v_block
           /\ c.relations[x].exclusive = l.relations[x].exclusive
  BY <1>3, CountedIs
<1> HIDE DEF c
<1>8. \A x \in DOMAIN plan.size : /\ c.relations[x].v_block = l.relations[x].v_block
                                  /\ c.relations[x].exclusive = l.relations[x].exclusive
  BY <1>7 DEF SameBut
<1>9. Lasting(c)
  <2>1. Exclusives(c) = Exclusives(l) /\ \A x \in Exclusives(l) : c.relations[x].v_block = l.relations[x].v_block
    BY <1>8 DEF Exclusives
  <2>2. c.inner = l.inner
    BY <1>7 DEF SameBut
  <2> QED BY <1>3, <1>7, <2>1, <2>2, LastingKept
<1>10. /\ IsLayout(w) /\ Lasting(w) /\ SameBut(w, c, ToSet(s))
       /\ w.dynamic_gmp = c.dynamic_gmp
       /\ \A x \in ToSet(s) : w.relations[x].exclusive = TRUE /\ w.relations[x].dependence = 0
  BY <1>2, <1>7, <1>9, AssignedAll
<1> HIDE DEF w
<1>11. \A x \in DOMAIN plan.size \ weights : w.relations[x] = c.relations[x]
  BY <1>5, <1>10 DEF SameBut
<1>12. \A x \in P : w.relations[x] = l.relations[x]
  BY <1>1, <1>7, <1>11 DEF SameBut
<1>13. \A x \in outs : w.relations[x].dependence = Dependence(plan, x)
  BY <1>1, <1>7, <1>11
<1>14. \A x \in DOMAIN plan.size :
         w.relations[x].exclusive <=> x \in Pinned(plan, i) \/ x \in WeightsBefore(plan, i + 1)
  <2> SUFFICES ASSUME NEW x \in DOMAIN plan.size
               PROVE w.relations[x].exclusive <=> x \in Pinned(plan, i) \/ x \in WeightsBefore(plan, i + 1)
    OBVIOUS
  <2>1. CASE x \in weights
    BY <1>5, <1>6, <1>10, <2>1
  <2>2. CASE x \notin weights
    BY <1>3, <1>6, <1>8, <1>11, <2>2
  <2> QED BY <2>1, <2>2
<1>15. Holding(w, T, {})
  <2>1. \A x \in T : w.relations[x].v_block = l.relations[x].v_block
    BY <1>4, <1>12
  <2>2. w.dynamic_gmp = l.dynamic_gmp
    BY <1>7, <1>10
  <2> QED BY <1>3, <2>1, <2>2, HoldingKept
<1>16. w.threw = FALSE /\ w.inner = l.inner
  BY <1>3, <1>7, <1>10 DEF SameBut
<1> QED
  BY <1>10, <1>12, <1>13, <1>14, <1>15, <1>16 DEF Weighted, w, c, outs, weights, s, T, P

(* Where the results of task i are placed, unless it works in place on a    *)
(* tensor that must survive.                                                *)
ResultsPlaced(m, l, i) ==
  /\ IsLayout(m) /\ Lasting(m) /\ m.threw = FALSE /\ m.inner = l.inner
  /\ Holding(m, Having(l, i), {})
  /\ \A x \in PlacedBefore(plan, i) :
       /\ m.relations[x].v_block = l.relations[x].v_block
       /\ m.relations[x].exclusive = l.relations[x].exclusive
       /\ m.relations[x].dependence = IF x \in Spending(i) THEN 0 ELSE l.relations[x].dependence
  /\ \A x \in ToSet(Tasks[i].outs) :
       m.relations[x].dependence = IF Tasks[i].pin THEN 0 ELSE Dependence(plan, x)
  /\ InPlace(i) => m.relations[Result(i)].v_block = l.relations[From(i)].v_block
  /\ \A x \in DOMAIN plan.size :
       m.relations[x].exclusive <=> x \in Pinned(plan, i + 1) \/ x \in WeightsBefore(plan, i + 1)

(* The tensors a task works in place on.                                    *)
LEMMA InPlaceIs ==
  ASSUME IsPlan(plan), Valid(plan), NEW i \in DOMAIN Tasks, InPlace(i)
  PROVE  /\ From(i) \in ToSet(Tasks[i].ins) /\ Result(i) \in ToSet(Tasks[i].outs)
         /\ ToSet(Tasks[i].outs) = {Result(i)} /\ Spending(i) = {From(i)}
         /\ Consumers(plan, From(i)) = {i}
<1>1. /\ Tasks[i].ins \in Seq(DOMAIN plan.size) /\ Tasks[i].outs \in Seq(DOMAIN plan.size)
      /\ Tasks[i].inplace \in Nat \ {0} /\ Tasks[i].inplace <= Len(Tasks[i].ins)
  BY PlanTypes DEF Tasks, InPlace
<1>2. Len(Tasks[i].outs) = 1
  BY DEF IsPlan, InPlace, Tasks
<1>3. Tasks[i].inplace \in DOMAIN Tasks[i].ins
  BY <1>1
<1>4. From(i) \in ToSet(Tasks[i].ins)
  BY <1>3 DEF From, ToSet
<1>5. DOMAIN Tasks[i].outs = {1}
  BY <1>1, <1>2
<1>6. ToSet(Tasks[i].outs) = {Result(i)}
  BY <1>5 DEF Result, ToSet
<1>7. Consumers(plan, From(i)) = {i}
  BY DEF Valid, InPlace, From, Tasks
<1> QED
  BY <1>4, <1>6, <1>7 DEF Spending

(* The results of a task are placed, whichever way.                         *)
LEMMA OutsPlacedIs ==
  ASSUME IsPlan(plan), Valid(plan), Align \in Nat \ {0}, NEW i \in DOMAIN Tasks, NEW l, Laid(l, i, {}),
         InPlace(i) => From(i) \notin Pinned(plan, i)
  PROVE  ResultsPlaced(OutsPlaced(Weighted(l, i), i), l, i)
<1> DEFINE outs == ToSet(Tasks[i].outs)
           s == Tasks[i].outs
           w == Weighted(l, i)
           m == OutsPlaced(w, i)
           T == Holders(l, i, {})
           P == PlacedBefore(plan, i)
           Excl(x) == x \in Pinned(plan, i) \/ x \in WeightsBefore(plan, i + 1)
<1>1. /\ P \subseteq DOMAIN plan.size /\ Pinned(plan, i) \subseteq P
      /\ ToSet(Tasks[i].ins) \subseteq P
      /\ outs \subseteq DOMAIN plan.size /\ outs \cap P = {}
      /\ outs \cap WeightsOf(Tasks[i]) = {}
      /\ WeightsBefore(plan, i) \cap (P \cup outs) = {}
  BY PlacedWhere DEF Tasks
<1>2. /\ s \in Seq(DOMAIN plan.size) /\ \A x \in DOMAIN plan.size : plan.size[x] \in Nat \ {0}
      /\ IsInjective(s)
  BY PlanTypes DEF Tasks, IsPlan
<1>3. /\ IsLayout(w) /\ Lasting(w) /\ w.threw = FALSE /\ w.inner = l.inner
      /\ Holding(w, T, {})
      /\ \A x \in P : w.relations[x] = l.relations[x]
      /\ \A x \in outs : w.relations[x].dependence = Dependence(plan, x)
      /\ \A x \in DOMAIN plan.size : w.relations[x].exclusive <=> Excl(x)
  BY WeightsPlaced
<1>4. T \subseteq P /\ T \subseteq DOMAIN plan.size /\ outs \cap T = {}
  BY <1>1 DEF Holders
<1>5. WeightsBefore(plan, i + 1) = WeightsBefore(plan, i) \cup WeightsOf(Tasks[i])
      /\ Pinned(plan, i + 1) = Pinned(plan, i) \cup (IF Tasks[i].pin THEN outs ELSE {})
  BY PlacedNext DEF Tasks
<1>6. \A x \in outs : ~Excl(x) /\ ~w.relations[x].exclusive
  BY <1>1, <1>3, <1>5
<1>7. CASE Tasks[i].pin
  <2>1. Having(l, i) = T /\ Spending(i) = {} /\ ~InPlace(i)
    BY <1>7 DEF Having, Spending, InPlace
  <2> HIDE DEF w
  <2>2. m = FoldLeft(AssignedInitializer, w, s)
    BY <1>7 DEF OutsPlaced
  <2> HIDE DEF m, T, P, s
  <2>3. /\ IsLayout(m) /\ Lasting(m) /\ SameBut(m, w, ToSet(s))
        /\ m.dynamic_gmp = w.dynamic_gmp
        /\ \A x \in ToSet(s) : m.relations[x].exclusive = TRUE /\ m.relations[x].dependence = 0
    BY <1>2, <1>3, <2>2, AssignedAll
  <2>4. outs = ToSet(s)
    BY DEF s
  <2> HIDE DEF outs, Excl
  <2>5. \A x \in P : m.relations[x] = l.relations[x]
    BY <1>1, <1>3, <2>3, <2>4 DEF SameBut
  <2>6. Holding(m, T, {})
    <3>1. \A x \in T : m.relations[x].v_block = w.relations[x].v_block
      BY <1>3, <1>4, <2>5
    <3> QED BY <1>3, <2>3, <3>1, HoldingKept
  <2>7. \A x \in DOMAIN plan.size : m.relations[x].exclusive <=> Excl(x) \/ x \in outs
    <3> SUFFICES ASSUME NEW x \in DOMAIN plan.size
                 PROVE m.relations[x].exclusive <=> Excl(x) \/ x \in outs
      OBVIOUS
    <3>1. CASE x \in outs
      BY <2>3, <2>4, <3>1
    <3>2. CASE x \notin outs
      BY <1>3, <2>3, <2>4, <3>2 DEF SameBut
    <3> QED BY <3>1, <3>2
  <2>8. \A x : Excl(x) \/ x \in outs <=> x \in Pinned(plan, i + 1) \/ x \in WeightsBefore(plan, i + 1)
    BY <1>5, <1>7 DEF Excl
  <2>9. m.threw = FALSE /\ m.inner = l.inner
    BY <1>3, <2>3 DEF SameBut
  <2>10. \A x \in outs : m.relations[x].dependence = 0
    BY <2>3, <2>4
  <2>11. ResultsPlaced(m, l, i)
    BY <1>7, <2>1, <2>3, <2>5, <2>6, <2>7, <2>8, <2>9, <2>10 DEF ResultsPlaced, outs, P
  <2> QED BY <2>11 DEF m, w
<1>8. CASE InPlace(i)
  <2> DEFINE from == From(i)
             to == Result(i)
  <2>1. /\ from \in ToSet(Tasks[i].ins) /\ outs = {to} /\ Spending(i) = {from}
        /\ Consumers(plan, from) = {i} /\ ~Tasks[i].pin /\ i \in Nat
    <3>1. ~Tasks[i].pin
      BY <1>8 DEF InPlace
    <3>2. i \in Nat
      BY PlanTypes DEF Tasks
    <3> QED BY <1>8, <3>1, <3>2, InPlaceIs
  <2>2. from \in P /\ from \notin Pinned(plan, i) /\ from \notin WeightsBefore(plan, i)
    BY <1>1, <1>8, <2>1
  <2>3. ~l.relations[from].exclusive
    BY <1>1, <2>2 DEF Laid
  <2>4. from \in T
    BY <2>1, <2>2, <2>3 DEF Holders, Needed
  <2>5. to \in DOMAIN plan.size /\ to \notin T /\ from # to /\ from \in DOMAIN plan.size
    BY <1>1, <1>4, <2>1, <2>2
  <2>6. ~w.relations[from].exclusive /\ ~w.relations[to].exclusive
    BY <1>3, <1>6, <2>1, <2>2, <2>3
  <2>7. Having(l, i) = (T \ {from}) \cup {to}
    BY <2>1 DEF Having
  <2> HIDE DEF w
  <2>8. m = Inheriting(w, from, to)
    BY <1>8 DEF OutsPlaced, InPlace
  <2> HIDE DEF m, T, P, from, to
  <2>9. /\ IsLayout(m) /\ SameBut(m, w, {from, to})
        /\ m.dynamic_gmp = w.dynamic_gmp /\ m.static_gmp = w.static_gmp
        /\ m.relations[from].v_block = w.relations[from].v_block
        /\ m.relations[from].dependence = 0
        /\ m.relations[from].exclusive = FALSE
        /\ m.relations[to].v_block = w.relations[from].v_block
        /\ m.relations[to].dependence = w.relations[to].dependence
        /\ m.relations[to].exclusive = FALSE
    <3> DEFINE v == Inheriting(w, from, to)
    <3>1. /\ IsLayout(v) /\ SameBut(v, w, {from, to})
          /\ v.dynamic_gmp = w.dynamic_gmp /\ v.static_gmp = w.static_gmp
          /\ v.relations[from].v_block = w.relations[from].v_block
          /\ v.relations[from].dependence = 0
          /\ v.relations[from].exclusive = FALSE
          /\ v.relations[to].v_block = w.relations[from].v_block
          /\ v.relations[to].dependence = w.relations[to].dependence
          /\ v.relations[to].exclusive = FALSE
      <4>1. IsLayout(w)
        BY <1>3
      <4> QED BY ONLY <4>1, <2>5, <2>6, InheritingIs
    <3> HIDE DEF v
    <3>2. m = v
      BY <2>8 DEF v
    <3> QED BY <3>1, <3>2
  <2>10. Holding(m, (T \ {from}) \cup {to}, {}) /\ Lasting(m)
    BY <1>3, <1>4, <2>4, <2>5, <2>6, <2>8, InheritingStep
  <2> HIDE DEF outs, Excl
  <2>11. \A x \in P : /\ m.relations[x].v_block = l.relations[x].v_block
                      /\ m.relations[x].exclusive = l.relations[x].exclusive
                      /\ m.relations[x].dependence = IF x = from THEN 0 ELSE l.relations[x].dependence
    <3> SUFFICES ASSUME NEW x \in P
                 PROVE  /\ m.relations[x].v_block = l.relations[x].v_block
                        /\ m.relations[x].exclusive = l.relations[x].exclusive
                        /\ m.relations[x].dependence = IF x = from THEN 0 ELSE l.relations[x].dependence
      OBVIOUS
    <3>1. CASE x = from
      <4>1. l.relations[x].exclusive \in BOOLEAN
        BY <1>1 DEF Laid, IsLayout
      <4> QED BY <1>3, <2>3, <2>9, <3>1, <4>1
    <3>2. CASE x # from
      <4>1. x # to /\ x \in DOMAIN plan.size
        BY <1>1, <2>1
      <4>2. m.relations[x] = l.relations[x]
        BY <1>3, <2>9, <3>2, <4>1 DEF SameBut
      <4> QED BY <3>2, <4>2
    <3> QED BY <3>1, <3>2
  <2>12. \A x \in DOMAIN plan.size : m.relations[x].exclusive <=> w.relations[x].exclusive
    <3> SUFFICES ASSUME NEW x \in DOMAIN plan.size
                 PROVE m.relations[x].exclusive <=> w.relations[x].exclusive
      OBVIOUS
    <3>1. CASE x \in {from, to}
      BY <2>6, <2>9, <3>1
    <3>2. CASE x \notin {from, to}
      BY <2>9, <3>2 DEF SameBut
    <3> QED BY <3>1, <3>2
  <2>13. \A x \in DOMAIN plan.size :
           m.relations[x].exclusive <=> x \in Pinned(plan, i + 1) \/ x \in WeightsBefore(plan, i + 1)
    BY <1>3, <1>5, <2>1, <2>12 DEF Excl
  <2>14. m.threw = FALSE /\ m.inner = l.inner
    BY <1>3, <2>9 DEF SameBut
  <2>15. \A x \in outs : m.relations[x].dependence = Dependence(plan, x)
    BY <1>3, <2>1, <2>9
  <2>16. m.relations[to].v_block = l.relations[from].v_block
    BY <1>3, <2>2, <2>9
  <2>17. \A x \in P : m.relations[x].dependence = IF x \in Spending(i) THEN 0 ELSE l.relations[x].dependence
    BY <2>1, <2>11
  <2>18. \A x \in outs : m.relations[x].dependence = IF Tasks[i].pin THEN 0 ELSE Dependence(plan, x)
    BY <2>1, <2>15
  <2>19. ResultsPlaced(m, l, i)
    BY <2>7, <2>9, <2>10, <2>11, <2>13, <2>14, <2>16, <2>17, <2>18 DEF ResultsPlaced, outs, P, from, to
  <2> QED BY <2>19 DEF m, w
<1>9. CASE ~Tasks[i].pin /\ ~InPlace(i)
  <2>1. Having(l, i) = T \cup outs /\ Spending(i) = {}
    BY <1>9 DEF Having, Spending
  <2>2. ~(Tasks[i].inplace > 0)
    BY <1>9 DEF InPlace
  <2> HIDE DEF w
  <2>3. m = FoldLeft(WithBlock, w, s)
    BY <1>9, <2>2 DEF OutsPlaced
  <2>4. outs = ToSet(s)
    OBVIOUS
  <2> HIDE DEF m, T, P, s, outs
  <2>5. /\ IsLayout(m) /\ Lasting(m) /\ SameBut(m, w, ToSet(s))
        /\ Holding(m, T \cup ToSet(s), {})
        /\ \A x \in ToSet(s) : /\ m.relations[x].exclusive = FALSE
                               /\ m.relations[x].dependence = w.relations[x].dependence
    <3>1. ToSet(s) \cap T = {} /\ \A x \in ToSet(s) : ~w.relations[x].exclusive
      BY <1>4, <1>6, <2>4
    <3>2. T \in SUBSET DOMAIN plan.size
      BY <1>4
    <3> DEFINE v == FoldLeft(WithBlock, w, s)
    <3>3. IsLayout(w) /\ Lasting(w) /\ Holding(w, T, {})
      BY <1>3
    <3>4. /\ IsLayout(v) /\ Lasting(v) /\ SameBut(v, w, ToSet(s))
          /\ Holding(v, T \cup ToSet(s), {})
          /\ \A x \in ToSet(s) : /\ v.relations[x].exclusive = FALSE
                                 /\ v.relations[x].dependence = w.relations[x].dependence
      BY ONLY <1>2, <3>1, <3>2, <3>3, BlockAll, Align \in Nat \ {0}
    <3> HIDE DEF v
    <3>5. m = v
      BY <2>3 DEF v
    <3> QED BY <3>4, <3>5
  <2> HIDE DEF Excl
  <2>6. \A x \in P : m.relations[x] = l.relations[x]
    BY <1>1, <1>3, <2>4, <2>5 DEF SameBut
  <2>7. \A x \in DOMAIN plan.size : m.relations[x].exclusive <=> w.relations[x].exclusive
    <3> SUFFICES ASSUME NEW x \in DOMAIN plan.size
                 PROVE m.relations[x].exclusive <=> w.relations[x].exclusive
      OBVIOUS
    <3>1. CASE x \in outs
      BY <1>6, <2>4, <2>5, <3>1
    <3>2. CASE x \notin outs
      BY <2>4, <2>5, <3>2 DEF SameBut
    <3> QED BY <3>1, <3>2
  <2>8. \A x \in DOMAIN plan.size :
          m.relations[x].exclusive <=> x \in Pinned(plan, i + 1) \/ x \in WeightsBefore(plan, i + 1)
    BY <1>3, <1>5, <1>9, <2>7 DEF Excl
  <2>9. m.threw = FALSE /\ m.inner = l.inner
    BY <1>3, <2>5 DEF SameBut
  <2>10. \A x \in outs : m.relations[x].dependence = Dependence(plan, x)
    BY <1>3, <2>4, <2>5
  <2>11. ResultsPlaced(m, l, i)
    BY <1>9, <2>1, <2>4, <2>5, <2>6, <2>8, <2>9, <2>10 DEF ResultsPlaced, outs, P
  <2> QED BY <2>11 DEF m, w
<1> QED
  BY <1>7, <1>8, <1>9

(* What is in use while task i runs has a block then.                       *)
LEMMA LiveHas ==
  ASSUME IsPlan(plan), NEW i \in DOMAIN Tasks, NEW l, Laid(l, i, {}), NEW m, ResultsPlaced(m, l, i)
  PROVE  \A x \in Live(m, i) : x \in Having(l, i) \/ x \in Spending(i)
<1> SUFFICES ASSUME NEW x \in Live(m, i) PROVE x \in Having(l, i) \/ x \in Spending(i)
  OBVIOUS
<1>1. x \in PlacedBefore(plan, i + 1) /\ ~m.relations[x].exclusive /\ Needed(plan, x, i)
  BY DEF Live
<1>2. x \in PlacedBefore(plan, i) \/ x \in ToSet(Tasks[i].outs)
  BY <1>1, PlacedNext DEF Tasks
<1>3. CASE x \in PlacedBefore(plan, i)
  <2>1. ~l.relations[x].exclusive
    BY <1>1, <1>3 DEF ResultsPlaced
  <2>2. x \in Holders(l, i, {})
    BY <1>1, <1>3, <2>1 DEF Holders
  <2> QED BY <2>2 DEF Having
<1>4. CASE x \in ToSet(Tasks[i].outs)
  <2>1. x \in DOMAIN plan.size
    BY <1>4, PlacedWhere DEF Tasks
  <2>2. x \notin Pinned(plan, i + 1)
    BY <1>1, <2>1 DEF ResultsPlaced
  <2>3. Pinned(plan, i + 1) = Pinned(plan, i) \cup (IF Tasks[i].pin THEN ToSet(Tasks[i].outs) ELSE {})
    BY PlacedNext DEF Tasks
  <2>4. ~Tasks[i].pin
    BY <1>4, <2>2, <2>3
  <2> QED BY <1>4, <2>4 DEF Having
<1> QED
  BY <1>2, <1>3, <1>4

(* Blocks in use while task i runs are apart.                               *)
LEMMA ApartThen ==
  ASSUME IsPlan(plan), Valid(plan), NEW i \in DOMAIN Tasks, NEW l, Laid(l, i, {}),
         NEW p, ResultsPlaced(p, l, i), NEW m, m.relations = p.relations,
         m.inner[i] \in Seq(Placements), OwnScratch(m.inner[i]),
         Holding(m, Having(l, i), ScratchAfter(m.inner[i], 0))
  PROVE  TaskApart(m, i)
<1> DEFINE K == ScratchAfter(m.inner[i], 0)
           T == Having(l, i)
           b(x) == m.relations[x].v_block
           G == BlocksOf(m, T) \cup K
<1>1. Guarded(m.dynamic_gmp, G) /\ Distinct(m, T) /\ \A x \in T : b(x) \notin K
  BY DEF Holding
<1>2. \A x \in T : b(x) \in G
  BY DEF BlocksOf
<1>3. \A c, d \in G : c # d => ~Overlap(c, d)
  <2> HIDE DEF G
  <2> QED BY <1>1, GuardedApart
<1>4. \A x, y \in T : x # y => ~Overlap(b(x), b(y))
  BY <1>1, <1>2, <1>3 DEF Distinct
<1>5. \A x \in Live(m, i) : x \in T \/ x \in Spending(i)
  <2>1. Live(m, i) = Live(p, i)
    BY DEF Live
  <2> QED BY <2>1, LiveHas
<1>6. ASSUME InPlace(i)
      PROVE  /\ Spending(i) = {From(i)} /\ Result(i) \in T
             /\ b(From(i)) = b(Result(i)) /\ From(i) # Result(i)
             /\ Handed(i, From(i), Result(i))
  <2>1. Spending(i) = {From(i)} /\ From(i) \in ToSet(Tasks[i].ins) /\ Result(i) \in ToSet(Tasks[i].outs)
    BY <1>6, InPlaceIs
  <2>2. ToSet(Tasks[i].ins) \subseteq PlacedBefore(plan, i) /\ ToSet(Tasks[i].outs) \cap PlacedBefore(plan, i) = {}
    BY PlacedWhere DEF Tasks
  <2>3. p.relations[From(i)].v_block = l.relations[From(i)].v_block
    BY <2>1, <2>2 DEF ResultsPlaced
  <2>4. p.relations[Result(i)].v_block = l.relations[From(i)].v_block
    BY <1>6 DEF ResultsPlaced
  <2>5. Result(i) \in T
    BY <1>6, <2>1 DEF Having, InPlace
  <2>6. Handed(i, From(i), Result(i))
    BY <1>6 DEF Handed, InPlace, From, Result
  <2> QED BY <2>1, <2>2, <2>3, <2>4, <2>5, <2>6
<1>7. \A x \in Spending(i) : InPlace(i)
  BY DEF Spending
<1>8. ASSUME NEW x \in Live(m, i), NEW y \in Live(m, i), x # y
      PROVE  ~Overlap(b(x), b(y)) \/ Handed(i, x, y) \/ Handed(i, y, x)
  <2> HIDE DEF T, b, G, K
  <2>1. CASE x \in T /\ y \in T
    BY <1>4, <1>8, <2>1
  <2>2. CASE x \in Spending(i) /\ y \in T
    BY <1>4, <1>6, <1>7, <2>2
  <2>3. CASE y \in Spending(i) /\ x \in T
    BY <1>4, <1>6, <1>7, <2>3
  <2>4. CASE x \in Spending(i) /\ y \in Spending(i)
    BY <1>6, <1>7, <1>8, <2>4
  <2> QED BY <1>5, <2>1, <2>2, <2>3, <2>4
<1>9. \A k \in DOMAIN m.inner[i] : ~m.inner[i][k].exclusive => m.inner[i][k].v_block \in K
  <2>1. DOMAIN m.inner[i] \subseteq Nat \ {0}
    OBVIOUS
  <2> QED BY <2>1 DEF ScratchAfter
<1>10. ASSUME NEW x \in Live(m, i), NEW k \in DOMAIN m.inner[i], ~m.inner[i][k].exclusive
       PROVE  ~Overlap(b(x), m.inner[i][k].v_block)
  <2>1. \A z \in T : ~Overlap(b(z), m.inner[i][k].v_block)
    <3>1. m.inner[i][k].v_block \in K
      BY <1>9, <1>10
    <3> HIDE DEF T, b, K
    <3> QED BY <1>1, <1>2, <1>3, <3>1 DEF G
  <2> HIDE DEF T, b, K, G
  <2>2. CASE x \in T
    BY <2>1, <2>2
  <2>3. CASE x \in Spending(i)
    BY <1>6, <1>7, <2>1, <2>3
  <2> QED BY <1>5, <2>2, <2>3
<1>11. ASSUME NEW h \in DOMAIN m.inner[i], NEW k \in DOMAIN m.inner[i], h # k,
              ~m.inner[i][h].exclusive, ~m.inner[i][k].exclusive
       PROVE  ~Overlap(m.inner[i][h].v_block, m.inner[i][k].v_block)
  <2>1. m.inner[i][h].v_block \in K /\ m.inner[i][k].v_block \in K
    BY <1>9, <1>11
  <2>2. m.inner[i][h].v_block # m.inner[i][k].v_block
    BY <1>11 DEF OwnScratch
  <2> HIDE DEF K
  <2> QED BY <1>3, <2>1, <2>2
<1> QED
  BY <1>8, <1>10, <1>11 DEF TaskApart

(* The kernel of task i has been visited.                                   *)
LEMMA VisitedAs ==
  ASSUME IsPlan(plan), Valid(plan), Align \in Nat \ {0}, NEW i \in DOMAIN Tasks, NEW l, Laid(l, i, {}),
         InPlace(i) => From(i) \notin Pinned(plan, i)
  PROVE  LET m == Visited(Counted(l, ToSet(Tasks[i].outs)), i)
             p == OutsPlaced(Weighted(l, i), i)
         IN  /\ IsLayout(m) /\ Lasting(m) /\ m.threw = FALSE /\ m.relations = p.relations
             /\ \A j \in DOMAIN Tasks \ {i} : m.inner[j] = l.inner[j]
             /\ Holding(m, Having(l, i), {}) /\ TaskApart(m, i) /\ InnerOf(m, i)
<1> DEFINE p == OutsPlaced(Weighted(l, i), i)
           m == Visited(Counted(l, ToSet(Tasks[i].outs)), i)
           q == InnerPlaced(p, i)
           r == InnerReturned(q, i)
           s == Tasks[i].inner
           T == Having(l, i)
<1>1. ResultsPlaced(p, l, i)
  BY OutsPlacedIs
<1>2. m = IF s = <<>> THEN p ELSE r
  BY VisitedIs
<1>3. s \in Seq(Buffers) /\ l.inner[i] = <<>> /\ i \in Nat
  <2>1. i \in Nat /\ s \in Seq([name : STRING, exclusive : BOOLEAN, size : Nat \ {0}])
    BY PlanTypes DEF Tasks
  <2> QED BY <2>1 DEF Laid, Buffers
<1>4. /\ IsLayout(p) /\ Lasting(p) /\ p.threw = FALSE /\ p.inner = l.inner /\ Holding(p, T, {})
  BY <1>1 DEF ResultsPlaced
<1> HIDE DEF p, q, r, m, T
<1>5. CASE s = <<>>
  <2>1. m = p
    BY <1>2, <1>5
  <2>2. ScratchAfter(p.inner[i], 0) = {} /\ OwnScratch(p.inner[i]) /\ p.inner[i] \in Seq(Placements)
        /\ Len(p.inner[i]) = 0
    <3>1. ScratchAfter(<<>>, 0) = {} /\ OwnScratch(<<>>) /\ Len(<<>>) = 0 /\ <<>> \in Seq(Placements)
      BY DEF ScratchAfter, OwnScratch
    <3>2. p.inner[i] = <<>>
      BY <1>3, <1>4
    <3> QED BY <3>1, <3>2
  <2>3. TaskApart(p, i)
    BY <1>1, <1>4, <2>2, ApartThen DEF T
  <2>4. InnerOf(p, i)
    BY <1>5, <2>2 DEF InnerOf
  <2> QED BY <1>4, <2>1, <2>3, <2>4 DEF m, p, T
<1>6. CASE s # <<>>
  <2>1. m = r
    BY <1>2, <1>6
  <2>2. /\ IsLayout(q) /\ Lasting(q) /\ q.relations = p.relations /\ q.threw = p.threw
        /\ \A j \in DOMAIN Tasks \ {i} : q.inner[j] = p.inner[j]
        /\ q.inner[i] \in Seq(Placements) /\ Len(q.inner[i]) = Len(s)
        /\ \A k \in 1 .. Len(s) : q.inner[i][k].exclusive = s[k].exclusive /\ q.inner[i][k].name = s[k].name
        /\ OwnScratch(q.inner[i]) /\ Holding(q, T, ScratchAfter(q.inner[i], 0))
    BY <1>3, <1>4, InnerAll DEF q
  <2>3. TaskApart(q, i)
    BY <1>1, <2>2, ApartThen DEF T
  <2>4. /\ IsLayout(r) /\ Lasting(r) /\ r.relations = q.relations /\ r.threw = q.threw
        /\ r.inner = q.inner /\ Holding(r, T, {})
    BY <2>2, ReturnAll DEF r
  <2>5. TaskApart(r, i)
    BY <2>3, <2>4, ApartKept
  <2>6. InnerOf(r, i)
    BY <2>2, <2>4 DEF InnerOf
  <2> QED BY <1>4, <2>1, <2>2, <2>4, <2>5, <2>6 DEF m, p, T
<1> QED
  BY <1>5, <1>6

(* One turn of the loop of calculate_relations over the tasks.              *)
LaidOut(l, i) ==
  FoldLeft(Used, Visited(Counted(l, ToSet(Tasks[i].outs)), i), Tasks[i].ins)

(* The operands of a task before they are used: pinned, handed on, or with  *)
(* uses left and a block.                                                   *)
LEMMA OperandsBefore ==
  ASSUME IsPlan(plan), Valid(plan), NEW i \in DOMAIN Tasks, NEW l, Laid(l, i, {}),
         NEW m, ResultsPlaced(m, l, i)
  PROVE  \A x \in ToSet(Tasks[i].ins) :
           \/ m.relations[x].dependence = 0 /\ x \notin Having(l, i)
           \/ m.relations[x].dependence = Left(plan, x, i, 0) /\ ~m.relations[x].exclusive
                /\ x \in Having(l, i)
<1> SUFFICES ASSUME NEW x \in ToSet(Tasks[i].ins)
             PROVE  \/ m.relations[x].dependence = 0 /\ x \notin Having(l, i)
                    \/ m.relations[x].dependence = Left(plan, x, i, 0) /\ ~m.relations[x].exclusive
                         /\ x \in Having(l, i)
  OBVIOUS
<1>1. /\ x \in PlacedBefore(plan, i) /\ x \in DOMAIN plan.size /\ x \notin ToSet(Tasks[i].outs)
      /\ x \notin WeightsBefore(plan, i)
  BY PlacedWhere DEF Tasks
<1>2. Needed(plan, x, i)
  <2>1. i \in Consumers(plan, x) /\ i \in Nat
    BY PlanTypes DEF Consumers, Tasks
  <2> QED BY <2>1 DEF Needed
<1>3. /\ l.relations[x].dependence = IF x \in Pinned(plan, i) THEN 0 ELSE Left(plan, x, i, 0)
      /\ l.relations[x].exclusive <=> x \in Pinned(plan, i)
  BY <1>1 DEF Laid
<1>4. /\ m.relations[x].exclusive = l.relations[x].exclusive
      /\ m.relations[x].dependence = IF x \in Spending(i) THEN 0 ELSE l.relations[x].dependence
  BY <1>1 DEF ResultsPlaced
<1>5. x \in Having(l, i) <=> x \in Holders(l, i, {}) /\ x \notin Spending(i)
  BY <1>1 DEF Having
<1>6. x \in Holders(l, i, {}) <=> x \notin Pinned(plan, i)
  BY <1>1, <1>2, <1>3 DEF Holders
<1> QED
  BY <1>3, <1>4, <1>5, <1>6

(* A tensor written before or by a task is needed after it by the tasks     *)
(* that have uses left then.                                                *)
LEMMA NeededNext ==
  ASSUME NEW p, IsPlan(p), NEW i \in DOMAIN p.tasks, NEW x
  PROVE  /\ Needed(p, x, i + 1) => Needed(p, x, i)
         /\ Needed(p, x, i + 1) <=> Consumers(p, x) = {} \/ Left(p, x, i + 1, 0) # 0
         /\ x \notin ToSet(p.tasks[i].ins) => (Needed(p, x, i) <=> Needed(p, x, i + 1))
         /\ x \in ToSet(p.tasks[i].outs) => Needed(p, x, i + 1)
         /\ x \in ToSet(p.tasks[i].ins) => Consumers(p, x) # {}
<1>1. i \in Nat /\ \A j \in DOMAIN p.tasks : j \in Nat
  BY PlanTypes
<1>2. \A j \in DOMAIN p.tasks : j >= i + 1 <=> j >= i /\ j # i
  BY <1>1
<1>3. \A j \in Consumers(p, x) : j \in DOMAIN p.tasks /\ x \in ToSet(p.tasks[j].ins)
  BY DEF Consumers
<1>4. i + 1 \in Nat
  BY <1>1
<1>5. Needed(p, x, i + 1) <=> Consumers(p, x) = {} \/ Left(p, x, i + 1, 0) # 0
  BY <1>4, LeftNeeded DEF Needed
<1>6. Needed(p, x, i + 1) => Needed(p, x, i)
  BY <1>2, <1>3 DEF Needed
<1>7. x \notin ToSet(p.tasks[i].ins) => (Needed(p, x, i) <=> Needed(p, x, i + 1))
  BY <1>2, <1>3 DEF Needed
<1>8. x \in ToSet(p.tasks[i].ins) => Consumers(p, x) # {}
  BY DEF Consumers
<1>9. x \in ToSet(p.tasks[i].outs) => Needed(p, x, i + 1)
  <2>1. x \in ToSet(p.tasks[i].outs) => \A j \in Consumers(p, x) : i < j
    BY <1>3, PlanOrder
  <2>2. \A j \in Consumers(p, x) : i < j => j >= i + 1
    BY <1>1, <1>3
  <2> QED BY <2>1, <2>2 DEF Needed
<1> QED
  BY <1>5, <1>6, <1>7, <1>8, <1>9

(* What has a block when task i is laid out is what is in use after it.     *)
LEMMA HoldersNext ==
  ASSUME IsPlan(plan), Valid(plan), NEW i \in DOMAIN Tasks, NEW l, Laid(l, i, {}),
         NEW m, ResultsPlaced(m, l, i), NEW n,
         \A x \in DOMAIN plan.size : n.relations[x].exclusive = m.relations[x].exclusive
  PROVE  Holders(n, i + 1, {}) =
           {x \in Having(l, i) : x \in ToSet(Tasks[i].ins) => Left(plan, x, i + 1, 0) # 0}
<1> DEFINE P == PlacedBefore(plan, i)
           outs == ToSet(Tasks[i].outs)
           ins == ToSet(Tasks[i].ins)
<1>1. /\ P \subseteq DOMAIN plan.size /\ ins \subseteq P /\ outs \subseteq DOMAIN plan.size
      /\ outs \cap P = {} /\ Pinned(plan, i) \subseteq P
      /\ WeightsOf(Tasks[i]) \cap outs = {} /\ WeightsBefore(plan, i) \cap (P \cup outs) = {}
  BY PlacedWhere DEF Tasks
<1>2. /\ PlacedBefore(plan, i + 1) = P \cup outs
      /\ Pinned(plan, i + 1) = Pinned(plan, i) \cup (IF Tasks[i].pin THEN outs ELSE {})
      /\ WeightsBefore(plan, i + 1) = WeightsBefore(plan, i) \cup WeightsOf(Tasks[i])
  BY PlacedNext DEF Tasks
<1>3. \A x \in P : n.relations[x].exclusive <=> l.relations[x].exclusive
  BY <1>1 DEF ResultsPlaced
<1>4. \A x \in outs : n.relations[x].exclusive <=> Tasks[i].pin
  <2> SUFFICES ASSUME NEW x \in outs PROVE n.relations[x].exclusive <=> Tasks[i].pin
    OBVIOUS
  <2>1. x \in DOMAIN plan.size /\ x \notin Pinned(plan, i) /\ x \notin WeightsBefore(plan, i + 1)
    BY <1>1, <1>2
  <2>2. n.relations[x].exclusive <=> x \in Pinned(plan, i + 1)
    BY <2>1 DEF ResultsPlaced
  <2> QED BY <1>2, <2>1, <2>2
<1>5. \A x : /\ Needed(plan, x, i + 1) => Needed(plan, x, i)
             /\ Needed(plan, x, i + 1) <=> Consumers(plan, x) = {} \/ Left(plan, x, i + 1, 0) # 0
             /\ x \notin ins => (Needed(plan, x, i) <=> Needed(plan, x, i + 1))
             /\ x \in outs => Needed(plan, x, i + 1)
             /\ x \in ins => Consumers(plan, x) # {}
  BY NeededNext DEF Tasks
<1>6. \A x \in Spending(i) : ~Needed(plan, x, i + 1)
  <2> SUFFICES ASSUME NEW x \in Spending(i) PROVE ~Needed(plan, x, i + 1)
    OBVIOUS
  <2>1. Consumers(plan, x) = {i} /\ i \in Nat
    BY InPlaceIs, PlanTypes DEF Spending, Tasks
  <2> QED BY <2>1 DEF Needed
<1>7. Spending(i) \subseteq ins
  BY DEF Spending
<1> HIDE DEF P, outs, ins
<1>8. \A x : x \in Holders(n, i + 1, {}) <=>
        /\ x \in P \/ x \in outs
        /\ ~n.relations[x].exclusive /\ Needed(plan, x, i + 1)
  BY <1>2 DEF Holders
<1>9. \A x : x \in Having(l, i) <=>
        \/ x \in P /\ ~l.relations[x].exclusive /\ Needed(plan, x, i) /\ x \notin Spending(i)
        \/ x \in outs /\ ~Tasks[i].pin
  BY DEF Having, Holders, P, outs
<1>10. ASSUME NEW x
       PROVE  x \in Holders(n, i + 1, {}) <=>
                x \in Having(l, i) /\ (x \in ins => Left(plan, x, i + 1, 0) # 0)
  <2>1. CASE x \in P
    <3>1. x \notin outs
      BY <1>1, <2>1
    <3>2. x \in Holders(n, i + 1, {}) <=> ~l.relations[x].exclusive /\ Needed(plan, x, i + 1)
      BY <1>3, <1>8, <2>1
    <3>3. x \in Having(l, i) <=> ~l.relations[x].exclusive /\ Needed(plan, x, i) /\ x \notin Spending(i)
      BY <1>9, <2>1, <3>1
    <3> QED BY <1>5, <1>6, <3>2, <3>3
  <2>2. CASE x \in outs
    <3>1. x \notin P /\ x \notin ins
      BY <1>1, <2>2
    <3> QED BY <1>4, <1>5, <1>8, <1>9, <2>2, <3>1
  <2>3. CASE x \notin P /\ x \notin outs
    BY <1>8, <1>9, <2>3
  <2> QED BY <2>1, <2>2, <2>3
<1> QED
  BY <1>10 DEF ins

(* The uses left of the tensors that have their block after task i.         *)
LEMMA CountedNext ==
  ASSUME IsPlan(plan), Valid(plan), NEW i \in DOMAIN Tasks, NEW l, Laid(l, i, {}),
         NEW m, ResultsPlaced(m, l, i), NEW n,
         \A x \in DOMAIN plan.size :
           n.relations[x].dependence =
             IF x \in ToSet(Tasks[i].ins) /\ m.relations[x].dependence # 0
               THEN Left(plan, x, i + 1, 0) ELSE m.relations[x].dependence
  PROVE  \A x \in PlacedBefore(plan, i + 1) \ {} :
           n.relations[x].dependence = IF x \in Pinned(plan, i + 1) THEN 0 ELSE Left(plan, x, i + 1, 0)
<1> DEFINE P == PlacedBefore(plan, i)
           outs == ToSet(Tasks[i].outs)
           ins == ToSet(Tasks[i].ins)
<1>1. /\ P \subseteq DOMAIN plan.size /\ ins \subseteq P /\ outs \subseteq DOMAIN plan.size
      /\ outs \cap P = {} /\ Pinned(plan, i) \subseteq P
  BY PlacedWhere DEF Tasks
<1>2. /\ PlacedBefore(plan, i + 1) = P \cup outs /\ i \in Nat
      /\ Pinned(plan, i + 1) = Pinned(plan, i) \cup (IF Tasks[i].pin THEN outs ELSE {})
  BY PlacedNext DEF Tasks
<1>3. ASSUME NEW x \in outs
      PROVE  n.relations[x].dependence = IF x \in Pinned(plan, i + 1) THEN 0 ELSE Left(plan, x, i + 1, 0)
  <2>1. x \notin ins /\ x \in DOMAIN plan.size /\ (x \in Pinned(plan, i + 1) <=> Tasks[i].pin)
    BY <1>1, <1>2
  <2>2. n.relations[x].dependence = IF Tasks[i].pin THEN 0 ELSE Dependence(plan, x)
    BY <2>1 DEF ResultsPlaced
  <2>3. Dependence(plan, x) = Left(plan, x, i + 1, 0)
    <3>1. Left(plan, x, i, 0) = Dependence(plan, x)
      BY LeftAll DEF Tasks
    <3>2. Left(plan, x, i, 0) = Left(plan, x, i + 1, 0)
      BY <2>1, LeftSkip DEF Tasks
    <3> QED BY <3>1, <3>2
  <2> QED BY <2>1, <2>2, <2>3
<1>4. ASSUME NEW x \in P
      PROVE  n.relations[x].dependence = IF x \in Pinned(plan, i + 1) THEN 0 ELSE Left(plan, x, i + 1, 0)
  <2>1. x \notin outs /\ x \in DOMAIN plan.size /\ (x \in Pinned(plan, i + 1) <=> x \in Pinned(plan, i))
    BY <1>1, <1>2
  <2>2. m.relations[x].dependence =
          IF x \in Spending(i) \/ x \in Pinned(plan, i) THEN 0 ELSE Left(plan, x, i, 0)
    BY DEF ResultsPlaced, Laid
  <2>3. x \in ins => Left(plan, x, i, 0) # 0
    <3> SUFFICES ASSUME x \in ins PROVE Left(plan, x, i, 0) # 0
      OBVIOUS
    <3>1. i \in Consumers(plan, x) /\ i >= i
      BY <1>2 DEF Consumers, Tasks
    <3> QED BY <1>2, <3>1, LeftNeeded
  <2>4. x \notin ins => Left(plan, x, i, 0) = Left(plan, x, i + 1, 0)
    BY LeftSkip DEF Tasks
  <2>5. x \in Spending(i) => Left(plan, x, i + 1, 0) = 0
    <3> SUFFICES ASSUME x \in Spending(i) PROVE Left(plan, x, i + 1, 0) = 0
      OBVIOUS
    <3>1. Consumers(plan, x) = {i}
      BY InPlaceIs DEF Spending
    <3>2. ~\E j \in Consumers(plan, x) : j >= i + 1
      BY <1>2, <3>1
    <3> QED BY <1>2, <3>2, LeftNeeded
  <2>6. Spending(i) \subseteq ins
    BY DEF Spending
  <2> HIDE DEF P, outs, ins
  <2>7. n.relations[x].dependence = IF x \in ins /\ m.relations[x].dependence # 0
               THEN Left(plan, x, i + 1, 0) ELSE m.relations[x].dependence
    BY <2>1 DEF ins
  <2>8. CASE x \in Pinned(plan, i)
    BY <2>1, <2>2, <2>7, <2>8
  <2>9. CASE x \notin Pinned(plan, i) /\ x \in Spending(i)
    BY <2>1, <2>2, <2>5, <2>7, <2>9
  <2>10. CASE x \notin Pinned(plan, i) /\ x \notin Spending(i)
    BY <2>1, <2>2, <2>3, <2>4, <2>7, <2>10
  <2> QED BY <2>8, <2>9, <2>10
<1> QED
  BY <1>2, <1>3, <1>4

(* The layout of one more task, unless it works in place on a tensor that   *)
(* must survive.                                                            *)
LEMMA TaskLaid ==
  ASSUME IsPlan(plan), Valid(plan), Align \in Nat \ {0}, NEW i \in DOMAIN Tasks, NEW l, Laid(l, i, {}),
         InPlace(i) => From(i) \notin Pinned(plan, i)
  PROVE  Laid(LaidOut(l, i), i + 1, {})
<1> DEFINE p == OutsPlaced(Weighted(l, i), i)
           m == Visited(Counted(l, ToSet(Tasks[i].outs)), i)
           n == LaidOut(l, i)
           T == Having(l, i)
<1>1. ResultsPlaced(p, l, i)
  BY OutsPlacedIs
<1>2. /\ IsLayout(m) /\ Lasting(m) /\ m.threw = FALSE /\ m.relations = p.relations
      /\ \A j \in DOMAIN Tasks \ {i} : m.inner[j] = l.inner[j]
      /\ Holding(m, T, {}) /\ TaskApart(m, i) /\ InnerOf(m, i)
  BY VisitedAs
<1>3. \A x \in ToSet(Tasks[i].ins) :
        \/ m.relations[x].dependence = 0 /\ x \notin T
        \/ m.relations[x].dependence = Left(plan, x, i, 0) /\ ~m.relations[x].exclusive /\ x \in T
  <2> HIDE DEF p, m
  <2> QED BY <1>1, <1>2, OperandsBefore
<1>4. T \in SUBSET DOMAIN plan.size
  BY PlacedWhere DEF Having, Holders, Tasks
<1>5. n = FoldLeft(Used, m, Tasks[i].ins)
  BY DEF LaidOut
<1> HIDE DEF p, m, n, T
<1>6. /\ IsLayout(n) /\ SameBlocks(n, m) /\ Lasting(n)
      /\ Holding(n, {x \in T : x \in ToSet(Tasks[i].ins) => Left(plan, x, i + 1, 0) # 0}, {})
      /\ \A x \in DOMAIN plan.size :
           n.relations[x].dependence =
             IF x \in ToSet(Tasks[i].ins) /\ m.relations[x].dependence # 0
               THEN Left(plan, x, i + 1, 0) ELSE m.relations[x].dependence
  <2> DEFINE w == FoldLeft(Used, m, Tasks[i].ins)
  <2>1. /\ IsLayout(w) /\ SameBlocks(w, m) /\ Lasting(w)
        /\ Holding(w, {x \in T : x \in ToSet(Tasks[i].ins) => Left(plan, x, i + 1, 0) # 0}, {})
        /\ \A x \in DOMAIN plan.size :
             w.relations[x].dependence =
               IF x \in ToSet(Tasks[i].ins) /\ m.relations[x].dependence # 0
                 THEN Left(plan, x, i + 1, 0) ELSE m.relations[x].dependence
    BY <1>2, <1>3, <1>4, UsedAll
  <2> HIDE DEF w
  <2>2. n = w
    BY <1>5 DEF w
  <2> QED BY <2>1, <2>2
<1>7. \A x \in DOMAIN plan.size : /\ n.relations[x].v_block = p.relations[x].v_block
                                  /\ n.relations[x].exclusive = p.relations[x].exclusive
  BY <1>2, <1>6 DEF SameBlocks
<1>8. \A x \in PlacedBefore(plan, i + 1) \ {} :
        n.relations[x].dependence = IF x \in Pinned(plan, i + 1) THEN 0 ELSE Left(plan, x, i + 1, 0)
  BY <1>1, <1>2, <1>6, CountedNext
<1>9. Holders(n, i + 1, {}) = {x \in T : x \in ToSet(Tasks[i].ins) => Left(plan, x, i + 1, 0) # 0}
  <2>1. Holders(n, i + 1, {}) = {x \in Having(l, i) : x \in ToSet(Tasks[i].ins) => Left(plan, x, i + 1, 0) # 0}
    BY <1>1, <1>7, HoldersNext
  <2> QED BY <2>1 DEF T
<1>10. \A x \in DOMAIN plan.size :
         n.relations[x].exclusive <=> x \in Pinned(plan, i + 1) \/ x \in WeightsBefore(plan, i + 1)
  BY <1>1, <1>7 DEF ResultsPlaced
<1>11. n.threw = FALSE /\ \A j \in DOMAIN Tasks \ {i} : n.inner[j] = l.inner[j]
  BY <1>2, <1>6 DEF SameBlocks
<1>12. i \in Nat /\ \A j \in DOMAIN Tasks : j \in Nat
  BY PlanTypes DEF Tasks
<1>13. PlacedBefore(plan, i + 1) \subseteq DOMAIN plan.size
  BY PlacedWhere, PlacedNext DEF Tasks
<1>14. ASSUME NEW j \in DOMAIN Tasks, j < i + 1
       PROVE  TaskApart(n, j) /\ InnerOf(n, j)
  <2>1. CASE j = i
    <3>1. n.inner[i] = m.inner[i]
      BY <1>6 DEF SameBlocks
    <3>2. \A x \in PlacedBefore(plan, i + 1) : /\ n.relations[x].exclusive = m.relations[x].exclusive
                                               /\ n.relations[x].v_block = m.relations[x].v_block
      BY <1>6, <1>13 DEF SameBlocks
    <3>3. TaskApart(n, i)
      BY <1>2, <3>1, <3>2, ApartKept
    <3>4. InnerOf(n, i)
      BY <1>2, <3>1 DEF InnerOf
    <3> QED BY <2>1, <3>3, <3>4
  <2>2. CASE j # i
    <3>1. j < i /\ j + 1 <= i
      BY <1>12, <1>14, <2>2
    <3>2. PlacedBefore(plan, j + 1) \subseteq PlacedBefore(plan, i)
      <4>1. \A k \in DOMAIN Tasks : k < j + 1 => k < i
        BY <1>12, <3>1
      <4> QED BY <4>1 DEF PlacedBefore, Tasks
    <3>3. \A x \in PlacedBefore(plan, j + 1) : /\ n.relations[x].exclusive = l.relations[x].exclusive
                                               /\ n.relations[x].v_block = l.relations[x].v_block
      <4>1. PlacedBefore(plan, i) \subseteq DOMAIN plan.size
        BY PlacedWhere DEF Tasks
      <4> QED BY <1>1, <1>7, <3>2, <4>1 DEF ResultsPlaced
    <3>4. TaskApart(l, j) /\ InnerOf(l, j)
      BY <3>1 DEF Laid
    <3>5. n.inner[j] = l.inner[j]
      BY <1>11, <2>2
    <3>6. TaskApart(n, j)
      BY <3>3, <3>4, <3>5, ApartKept
    <3>7. InnerOf(n, j)
      BY <3>4, <3>5 DEF InnerOf
    <3> QED BY <3>6, <3>7
  <2> QED BY <2>1, <2>2
<1>15. ASSUME NEW j \in DOMAIN Tasks, j >= i + 1 PROVE n.inner[j] = <<>>
  <2>1. j # i /\ j >= i
    BY <1>12, <1>15
  <2> QED BY <1>11, <2>1 DEF Laid
<1> QED
  BY <1>6, <1>8, <1>9, <1>10, <1>11, <1>14, <1>15 DEF Laid, n

-----------------------------------------------------------------------------
(* The layout of a plan.                                                    *)

(* An operation works in place on a tensor that must survive.               *)
Conflict ==
  \E i \in DOMAIN Tasks, j \in DOMAIN Tasks :
    /\ Tasks[i].inplace > 0 /\ Tasks[j].pin
    /\ Tasks[i].ins[Tasks[i].inplace] \in ToSet(Tasks[j].outs)

(* The layout with the check of set_v_block failed.                         *)
Thrown(l) == [l EXCEPT !.threw = TRUE]

(* Nothing else changes.                                                    *)
LEMMA ThrownIs ==
  ASSUME NEW l, IsLayout(l)
  PROVE  LET m == Thrown(l)
         IN  /\ IsLayout(m) /\ m.threw = TRUE /\ m.relations = l.relations /\ m.inner = l.inner
             /\ m.dynamic_gmp = l.dynamic_gmp /\ m.static_gmp = l.static_gmp
<1> DEFINE m == Thrown(l)
<1>1. m = [relations |-> l.relations, dynamic_gmp |-> l.dynamic_gmp, static_gmp |-> l.static_gmp,
           inner |-> l.inner, threw |-> TRUE]
  <2>1. ASSUME NEW t
        PROVE  [l EXCEPT !.threw = t] =
                 [relations |-> l.relations, dynamic_gmp |-> l.dynamic_gmp,
                  static_gmp |-> l.static_gmp, inner |-> l.inner, threw |-> t]
    BY DEF IsLayout
  <2> QED BY <2>1, Zenon DEF Thrown
<1> HIDE DEF m
<1>2. /\ m.relations = l.relations /\ m.dynamic_gmp = l.dynamic_gmp /\ m.static_gmp = l.static_gmp
      /\ m.inner = l.inner /\ m.threw = TRUE
  BY <1>1
<1>3. IsLayout(m)
  BY <1>1, <1>2 DEF IsLayout
<1> QED
  BY <1>2, <1>3 DEF m

(* A task that works in place on a pinned tensor throws.                    *)
LEMMA ConflictThrows ==
  ASSUME IsPlan(plan), Valid(plan), Align \in Nat \ {0}, NEW i \in DOMAIN Tasks, NEW l, Laid(l, i, {}),
         InPlace(i), From(i) \in Pinned(plan, i)
  PROVE  LaidOut(l, i).threw = TRUE /\ Conflict
<1> DEFINE w == Weighted(l, i)
           p == Thrown(w)
           q == InnerPlaced(p, i)
           r == InnerReturned(q, i)
           m == Visited(Counted(l, ToSet(Tasks[i].outs)), i)
           n == LaidOut(l, i)
           s == Tasks[i].inner
           T == Holders(l, i, {})
           ins == ToSet(Tasks[i].ins)
<1>1. /\ IsLayout(w) /\ Lasting(w) /\ w.inner = l.inner /\ Holding(w, T, {})
      /\ \A x \in PlacedBefore(plan, i) : w.relations[x] = l.relations[x]
  BY WeightsPlaced, ZenonT(30)
<1>2. /\ PlacedBefore(plan, i) \subseteq DOMAIN plan.size /\ ins \subseteq PlacedBefore(plan, i)
      /\ Pinned(plan, i) \subseteq PlacedBefore(plan, i)
      /\ WeightsBefore(plan, i) \cap PlacedBefore(plan, i) = {}
  BY PlacedWhere DEF Tasks
<1>3. w.relations[From(i)].exclusive
  <2>1. From(i) \in PlacedBefore(plan, i) /\ From(i) \in DOMAIN plan.size
    BY <1>2
  <2>2. l.relations[From(i)].exclusive
    BY <2>1 DEF Laid
  <2> QED BY <1>1, <2>1, <2>2
<1>4. OutsPlaced(w, i) = p
  BY <1>3 DEF OutsPlaced, InPlace, Inheriting, Thrown
<1>5. m = IF s = <<>> THEN p ELSE r
  BY <1>4, VisitedIs
<1>6. n = FoldLeft(Used, m, Tasks[i].ins)
  BY DEF LaidOut
<1>7. s \in Seq(Buffers) /\ l.inner[i] = <<>> /\ i \in Nat
  <2>1. i \in Nat /\ s \in Seq([name : STRING, exclusive : BOOLEAN, size : Nat \ {0}])
    BY PlanTypes DEF Tasks
  <2> QED BY <2>1 DEF Laid, Buffers
<1> HIDE DEF w, m, n, q, r
<1>8. /\ IsLayout(p) /\ p.threw = TRUE /\ p.relations = w.relations /\ p.inner = w.inner
      /\ p.dynamic_gmp = w.dynamic_gmp /\ p.static_gmp = w.static_gmp
  BY <1>1, ThrownIs
<1> HIDE DEF p
<1>9. Holding(p, T, {}) /\ Lasting(p)
  <2>1. Exclusives(p) = Exclusives(w) /\ \A x \in Exclusives(w) : p.relations[x].v_block = w.relations[x].v_block
    BY <1>8 DEF Exclusives
  <2>2. Lasting(p)
    BY <1>1, <1>8, <2>1, LastingKept
  <2>3. Holding(p, T, {})
    BY <1>1, <1>8, HoldingKept
  <2> QED BY <2>2, <2>3
<1> HIDE DEF T
<1>10. /\ IsLayout(m) /\ Lasting(m) /\ Holding(m, T, {}) /\ m.threw = TRUE
       /\ m.relations = w.relations
  <2>1. CASE s = <<>>
    BY <1>5, <1>8, <1>9, <2>1
  <2>2. CASE s # <<>>
    <3>1. /\ IsLayout(q) /\ Lasting(q) /\ q.relations = p.relations /\ q.threw = p.threw
          /\ q.inner[i] \in Seq(Placements) /\ OwnScratch(q.inner[i])
          /\ Holding(q, T, ScratchAfter(q.inner[i], 0))
      BY <1>1, <1>7, <1>8, <1>9, InnerAll DEF q
    <3>2. /\ IsLayout(r) /\ Lasting(r) /\ r.relations = q.relations /\ r.threw = q.threw
          /\ Holding(r, T, {})
      BY <3>1, ReturnAll DEF r
    <3> QED BY <1>5, <1>8, <2>2, <3>1, <3>2
  <2> QED BY <2>1, <2>2
<1>11. ASSUME NEW x \in ins
       PROVE  \/ m.relations[x].dependence = 0 /\ x \notin T
              \/ m.relations[x].dependence = Left(plan, x, i, 0) /\ ~m.relations[x].exclusive /\ x \in T
  <2>1. x \in PlacedBefore(plan, i) /\ x \in DOMAIN plan.size /\ x \notin WeightsBefore(plan, i)
    BY <1>2
  <2>2. /\ m.relations[x].dependence = IF x \in Pinned(plan, i) THEN 0 ELSE Left(plan, x, i, 0)
        /\ m.relations[x].exclusive <=> x \in Pinned(plan, i)
        /\ m.relations[x].exclusive <=> l.relations[x].exclusive
    BY <1>1, <1>10, <2>1 DEF Laid
  <2>3. Needed(plan, x, i)
    BY <1>7 DEF Needed, Consumers, Tasks, ins
  <2>4. x \in T <=> ~l.relations[x].exclusive
    BY <2>1, <2>3 DEF T, Holders
  <2> QED BY <2>2, <2>4
<1>12. T \in SUBSET DOMAIN plan.size
  BY <1>2 DEF T, Holders
<1>13. n.threw = TRUE
  <2> DEFINE v == FoldLeft(Used, m, Tasks[i].ins)
  <2>1. SameBlocks(v, m)
    BY <1>10, <1>11, <1>12, UsedAll DEF ins
  <2> HIDE DEF v
  <2>2. n = v
    BY <1>6 DEF v
  <2> QED BY <1>10, <2>1, <2>2 DEF SameBlocks
<1>14. Conflict
  <2>1. PICK j \in DOMAIN Tasks : Tasks[j].pin /\ From(i) \in ToSet(Tasks[j].outs)
    BY DEF Pinned, Tasks
  <2> QED BY <2>1 DEF Conflict, From, InPlace
<1> QED
  BY <1>13, <1>14 DEF n

(* What a layout is depends on the plan only.                               *)
LEMMA LaidSame ==
  ASSUME plan' = plan, NEW l, NEW c, NEW u
  PROVE  Laid(l, c, u)' = Laid(l, c, u) /\ Conflict' = Conflict
<1>1. Tasks' = Tasks
  BY DEF Tasks
<1>2. Exclusives(l)' = Exclusives(l)
  BY DEF Exclusives
<1>3. Lasting(l)' = Lasting(l)
  BY <1>1, <1>2 DEF Lasting
<1>4. Holders(l, c, u)' = Holders(l, c, u)
  BY DEF Holders
<1>5. IsLayout(l)' = IsLayout(l)
  BY <1>1 DEF IsLayout
<1>6. \A i : Live(l, i)' = Live(l, i)
  BY DEF Live
<1>7. \A i : TaskApart(l, i)' = TaskApart(l, i)
  BY <1>1, <1>6 DEF TaskApart, Handed
<1>8. \A i : InnerOf(l, i)' = InnerOf(l, i)
  BY <1>1 DEF InnerOf
<1> QED
  BY <1>1, <1>3, <1>4, <1>5, <1>7, <1>8 DEF Laid, Conflict

(* Before the first task.                                                   *)
LEMMA PlacedFirst ==
  ASSUME IsPlan(plan)
  PROVE  /\ PlacedBefore(plan, 1) = InputsOf(plan) /\ Pinned(plan, 1) = {} /\ WeightsBefore(plan, 1) = {}
         /\ \A j \in DOMAIN Tasks : j \in Nat /\ ~(j < 1)
         /\ InputsOf(plan) \subseteq DOMAIN plan.size
         /\ \A x \in InputsOf(plan) : Needed(plan, x, 1)
<1>1. \A j \in DOMAIN plan.tasks : j \in Nat /\ ~(j < 1) /\ j >= 1
  BY PlanTypes
<1>2. PlacedBefore(plan, 1) = InputsOf(plan) /\ Pinned(plan, 1) = {} /\ WeightsBefore(plan, 1) = {}
  BY <1>1 DEF PlacedBefore, Pinned, WeightsBefore
<1>3. \A x \in InputsOf(plan) : \E j \in DOMAIN plan.tasks : x \in ToSet(plan.tasks[j].ins)
  BY DEF InputsOf
<1>4. \A x \in InputsOf(plan) : Needed(plan, x, 1)
  BY <1>1, <1>3 DEF Needed, Consumers
<1>5. InputsOf(plan) \subseteq DOMAIN plan.size
  <2>1. \A j \in DOMAIN plan.tasks : ToSet(plan.tasks[j].ins) \subseteq DOMAIN plan.size
    <3> SUFFICES ASSUME NEW j \in DOMAIN plan.tasks PROVE ToSet(plan.tasks[j].ins) \subseteq DOMAIN plan.size
      OBVIOUS
    <3>1. plan.tasks[j].ins \in Seq(DOMAIN plan.size)
      BY PlanTypes
    <3>2. \A s \in Seq(DOMAIN plan.size) : ToSet(s) \subseteq DOMAIN plan.size
      BY DEF ToSet
    <3> QED BY <3>1, <3>2
  <2> QED BY <1>3, <2>1
<1> QED
  BY <1>1, <1>2, <1>4, <1>5 DEF Tasks

(* Nothing is laid out.                                                     *)
LEMMA StartLaid ==
  ASSUME IsPlan(plan)
  PROVE  Laid(EmptyLayout(plan), 1, InputsOf(plan))
<1> DEFINE l == EmptyLayout(plan)
           r == Relation(0, VirtualBlock(0, 0), FALSE)
           q == [x \in DOMAIN plan.size |-> r]
           s == [i \in DOMAIN plan.tasks |-> <<>>]
<1>1. l = [relations |-> q, dynamic_gmp |-> EmptyPlanner, static_gmp |-> EmptyPlanner,
           inner |-> s, threw |-> FALSE]
  BY DEF EmptyLayout
<1>2. r.exclusive = FALSE
  BY DEF Relation
<1> HIDE DEF l, r, q, s
<1>3. /\ l.relations = q /\ l.dynamic_gmp = EmptyPlanner /\ l.static_gmp = EmptyPlanner
      /\ l.inner = s
  BY <1>1
<1>4. l.threw = FALSE
  BY <1>1
<1>5. /\ q = [x \in DOMAIN plan.size |-> q[x]] /\ \A x \in DOMAIN plan.size : q[x] = r
  BY DEF q
<1>6. /\ s = [i \in DOMAIN Tasks |-> s[i]] /\ \A i \in DOMAIN Tasks : s[i] = <<>>
  BY DEF s, Tasks
<1>7. IsLayout(l)
  BY <1>1, <1>2, <1>3, <1>4, <1>5, <1>6 DEF IsLayout
<1>8. \A x \in DOMAIN plan.size : ~l.relations[x].exclusive
  BY <1>2, <1>3, <1>5
<1>9. Exclusives(l) = {} /\ \A j \in DOMAIN Tasks : LastingOf(l, j) = {}
  BY <1>3, <1>6, <1>8 DEF Exclusives, LastingOf
<1>10. Lasting(l)
  BY <1>3, <1>9, GuardedEmpty DEF Lasting, Distinct
<1>11. Holders(l, 1, InputsOf(plan)) = {}
  BY PlacedFirst DEF Holders
<1>12. Holding(l, {}, {})
  <2>1. BlocksOf(l, {}) \cup {} = {}
    BY DEF BlocksOf
  <2> QED BY <1>3, <2>1, GuardedEmpty DEF Holding, Distinct
<1> QED
  BY <1>3, <1>4, <1>6, <1>7, <1>8, <1>10, <1>11, <1>12, PlacedFirst DEF Laid, l

(* One more input is placed.                                                *)
InputLaidOut(l, x) == WithBlock(Counted(l, {x}), x)

(* The layout stays sound, with one input less to place.                    *)
LEMMA InputLaid ==
  ASSUME IsPlan(plan), Align \in Nat \ {0}, NEW u \in SUBSET InputsOf(plan), NEW x \in u,
         NEW l, Laid(l, 1, u)
  PROVE  Laid(InputLaidOut(l, x), 1, u \ {x})
<1> DEFINE c == Counted(l, {x})
           m == WithBlock(c, x)
           T == Holders(l, 1, u)
<1>1. /\ x \in DOMAIN plan.size /\ plan.size[x] \in Nat \ {0} /\ InputsOf(plan) \subseteq DOMAIN plan.size
  BY PlacedFirst, PlanTypes
<1>2. /\ IsLayout(l) /\ l.threw = FALSE /\ Holding(l, T, {}) /\ Lasting(l)
      /\ \A y \in DOMAIN plan.size : ~l.relations[y].exclusive
      /\ \A y \in InputsOf(plan) \ u : l.relations[y].dependence = Left(plan, y, 1, 0)
      /\ \A i \in DOMAIN Tasks : l.inner[i] = <<>>
  BY PlacedFirst DEF Laid
<1>3. T = InputsOf(plan) \ u
  BY <1>1, <1>2, PlacedFirst DEF Holders
<1> HIDE DEF T, c, m
<1>4. /\ IsLayout(c) /\ SameBut(c, l, {x})
      /\ c.dynamic_gmp = l.dynamic_gmp /\ c.static_gmp = l.static_gmp
      /\ c.relations[x].dependence = Dependence(plan, x)
      /\ c.relations[x].v_block = l.relations[x].v_block
      /\ c.relations[x].exclusive = l.relations[x].exclusive
  BY <1>1, <1>2, CountedIs DEF c
<1>5. \A y \in DOMAIN plan.size : /\ c.relations[y].v_block = l.relations[y].v_block
                                  /\ c.relations[y].exclusive = l.relations[y].exclusive
  BY <1>4 DEF SameBut
<1>6. Holding(c, T, {}) /\ Lasting(c)
  <2>1. Exclusives(c) = Exclusives(l) /\ \A y \in Exclusives(l) : c.relations[y].v_block = l.relations[y].v_block
    BY <1>5 DEF Exclusives
  <2>2. Lasting(c)
    BY <1>2, <1>4, <2>1, LastingKept DEF SameBut
  <2>3. Holding(c, T, {})
    BY <1>1, <1>2, <1>3, <1>4, <1>5, HoldingKept
  <2> QED BY <2>2, <2>3
<1>7. /\ IsLayout(m) /\ SameBut(m, c, {x})
      /\ m.relations[x].dependence = c.relations[x].dependence
      /\ m.relations[x].exclusive = FALSE
  BY <1>1, <1>4, WithBlockIs DEF m
<1>8. Holding(m, T \cup {x}, {}) /\ Lasting(m)
  <2>1. T \in SUBSET DOMAIN plan.size /\ x \notin T /\ ~c.relations[x].exclusive
    BY <1>1, <1>2, <1>3, <1>5
  <2> QED BY <1>1, <1>4, <1>6, <2>1, BlockStep DEF m
<1>9. \A y \in DOMAIN plan.size : ~m.relations[y].exclusive
  BY <1>2, <1>5, <1>7 DEF SameBut
<1>10. \A y \in InputsOf(plan) \ (u \ {x}) : m.relations[y].dependence = Left(plan, y, 1, 0)
  <2>1. Dependence(plan, x) = Left(plan, x, 1, 0)
    BY LeftAll
  <2>2. m.relations[x].dependence = Left(plan, x, 1, 0)
    BY <1>4, <1>7, <2>1
  <2>3. \A y \in InputsOf(plan) \ u : m.relations[y] = l.relations[y]
    BY <1>1, <1>4, <1>7 DEF SameBut
  <2> QED BY <1>2, <2>2, <2>3
<1>11. Holders(m, 1, u \ {x}) = T \cup {x}
  <2>1. Holders(m, 1, u \ {x}) = InputsOf(plan) \ (u \ {x})
    BY <1>1, <1>9, PlacedFirst DEF Holders
  <2> QED BY <1>3, <2>1
<1>12. m.threw = FALSE /\ m.inner = l.inner
  BY <1>2, <1>4, <1>7 DEF SameBut
<1>13. Laid(m, 1, u \ {x})
  BY <1>2, <1>7, <1>8, <1>9, <1>10, <1>11, <1>12, PlacedFirst DEF Laid
<1> QED
  BY <1>13 DEF m, c, InputLaidOut

(* Up to which task the layout is made.                                     *)
Made == IF run > 0 THEN TaskNum + 1 ELSE cur

(* The layout is that of the tasks before Made, or it threw, for a reason.  *)
LayInv ==
  /\ TaskNum \in Nat /\ cur \in Nat /\ run \in Nat
  /\ TaskNum > 0 => IsPlan(plan) /\ Valid(plan)
  /\ Made = 0 => layout.threw = FALSE /\ unplaced = {}
  /\ Made > 0 =>
       /\ TaskNum > 0 /\ Made <= TaskNum + 1
       /\ unplaced \in SUBSET InputsOf(plan)
       /\ unplaced # {} => Made = 1
       /\ \/ layout.threw = TRUE /\ Conflict /\ unplaced = {} /\ run = 0
          \/ Laid(layout, Made, unplaced)

(* It holds before a layout is begun.                                       *)
LEMMA InitLay == LInit => LayInv
<1> SUFFICES ASSUME LInit PROVE LayInv
  OBVIOUS
<1>1. plan.tasks = <<>> /\ cur = 0 /\ run = 0 /\ unplaced = {} /\ layout = EmptyLayout(plan)
  BY PlanAssumption DEF LInit
<1>2. TaskNum = 0
  BY <1>1 DEF TaskNum, Tasks
<1>3. layout.threw = FALSE
  BY <1>1 DEF EmptyLayout
<1>4. Made = 0
  BY <1>1 DEF Made
<1> QED
  BY <1>1, <1>2, <1>3, <1>4 DEF LayInv

(* Every step of the layout keeps it, and execution leaves it alone.        *)
LEMMA NextLay == LayInv /\ [LNext]_lvars => LayInv'
<1> SUFFICES ASSUME LayInv, [LNext]_lvars PROVE LayInv'
  OBVIOUS
<1>0. TaskNum \in Nat /\ cur \in Nat /\ run \in Nat /\ Align \in Nat \ {0}
  BY PlanAssumption DEF LayInv
<1>1. ASSUME plan' = plan, layout' = layout, unplaced' = unplaced, Made' = Made, cur' \in Nat, run' \in Nat,
             run' = 0 <=> run = 0
      PROVE  LayInv'
  <2>1. TaskNum' = TaskNum /\ Conflict' = Conflict
    BY <1>1, LaidSame DEF TaskNum, Tasks
  <2>2. PICK l, c, u : l = layout /\ c = Made /\ u = unplaced
    OBVIOUS
  <2>3. Laid(l, c, u)' = Laid(l, c, u)
    BY <1>1, LaidSame
  <2>4. (Laid(layout, Made, unplaced))' = Laid(layout, Made, unplaced)
    <3>1. layout' = l /\ Made' = c /\ unplaced' = u
      BY <1>1, <2>2
    <3>2. (Laid(layout, Made, unplaced))' = Laid(l, c, u)'
      BY <3>1
    <3> QED BY <2>2, <2>3, <3>2
  <2> QED BY <1>1, <2>1, <2>4 DEF LayInv
<1>2. CASE UNCHANGED lvars
  <2>1. Made' = Made
    BY <1>2 DEF lvars, Made, TaskNum, Tasks
  <2> QED BY <1>0, <1>1, <1>2, <2>1 DEF lvars
<1>3. CASE AddTask
  <2>1. run' = 0 /\ cur' = 0 /\ IsPlan(plan') /\ Valid(plan') /\ Made = 0
        /\ layout' = layout /\ unplaced' = unplaced /\ run = 0 /\ cur = 0
    BY <1>3 DEF AddTask, Made
  <2>2. TaskNum' \in Nat
    <3>1. plan'.tasks \in Seq(TasksOver(DOMAIN plan'.size))
      BY <2>1 DEF IsPlan
    <3> QED BY <3>1 DEF TaskNum, Tasks
  <2>3. Made' = 0
    BY <2>1 DEF Made
  <2>4. layout.threw = FALSE /\ unplaced = {}
    BY <2>1 DEF LayInv
  <2> QED BY <2>1, <2>2, <2>3, <2>4 DEF LayInv
<1>4. CASE StartLayout
  <2>1. /\ run = 0 /\ TaskNum > 0 /\ run' = 0 /\ cur' = 1 /\ plan' = plan
        /\ layout' = EmptyLayout(plan) /\ unplaced' = InputsOf(plan)
    BY <1>4 DEF StartLayout
  <2>2. IsPlan(plan) /\ Valid(plan)
    BY <2>1 DEF LayInv
  <2>3. Made' = 1 /\ TaskNum' = TaskNum
    BY <2>1 DEF Made, TaskNum, Tasks
  <2>4. PICK l, c, u : l = EmptyLayout(plan) /\ c = 1 /\ u = InputsOf(plan)
    OBVIOUS
  <2>5. Laid(l, c, u)
    BY <2>2, <2>4, StartLaid
  <2>6. Laid(l, c, u)'
    BY <2>1, <2>5, LaidSame
  <2>7. (Laid(layout, Made, unplaced))'
    <3>1. layout' = l /\ Made' = c /\ unplaced' = u
      BY <2>1, <2>3, <2>4
    <3> QED BY <2>6, <3>1
  <2> QED BY <1>0, <2>1, <2>2, <2>3, <2>7 DEF LayInv
<1>5. ASSUME NEW x \in unplaced, PlaceInput(x) PROVE LayInv'
  <2>1. /\ layout' = InputLaidOut(layout, x) /\ unplaced' = unplaced \ {x}
        /\ plan' = plan /\ cur' = cur /\ run' = run
    BY <1>5 DEF PlaceInput, InputLaidOut
  <2>2. /\ Made = 1 /\ TaskNum > 0 /\ IsPlan(plan) /\ Valid(plan) /\ unplaced \in SUBSET InputsOf(plan)
        /\ Laid(layout, 1, unplaced)
    BY <1>0 DEF LayInv, Made
  <2>3. Made' = 1 /\ TaskNum' = TaskNum
    BY <2>1, <2>2 DEF Made, TaskNum, Tasks
  <2>4. PICK l, c, u : l = InputLaidOut(layout, x) /\ c = 1 /\ u = unplaced \ {x}
    OBVIOUS
  <2>5. Laid(l, c, u)
    BY <1>0, <2>2, <2>4, InputLaid
  <2>6. Laid(l, c, u)'
    BY <2>1, <2>5, LaidSame
  <2>7. (Laid(layout, Made, unplaced))'
    <3>1. layout' = l /\ Made' = c /\ unplaced' = u
      BY <2>1, <2>3, <2>4
    <3> QED BY <2>6, <3>1
  <2> QED BY <1>0, <2>1, <2>2, <2>3, <2>7 DEF LayInv
<1>6. CASE LayOutTask
  <2>1. /\ run = 0 /\ unplaced = {} /\ cur \in 1 .. TaskNum /\ layout.threw # TRUE
        /\ layout' = LaidOut(layout, cur) /\ cur' = cur + 1
        /\ plan' = plan /\ unplaced' = unplaced /\ run' = run
    BY <1>6 DEF LayOutTask, LaidOut
  <2>2. Made = cur /\ Made' = cur + 1 /\ TaskNum' = TaskNum /\ TaskNum > 0 /\ cur > 0
    BY <1>0, <2>1 DEF Made, TaskNum, Tasks
  <2>3. IsPlan(plan) /\ Valid(plan) /\ Laid(layout, cur, {})
    BY <2>1, <2>2 DEF LayInv
  <2>4. cur \in DOMAIN Tasks
    BY <2>1, <2>3, PlanTypes DEF TaskNum, Tasks
  <2>5. CASE InPlace(cur) /\ From(cur) \in Pinned(plan, cur)
    <3>1. LaidOut(layout, cur).threw = TRUE /\ Conflict
      BY <1>0, <2>3, <2>4, <2>5, ConflictThrows
    <3>2. Conflict'
      BY <2>1, <3>1, LaidSame
    <3>3. layout'.threw = TRUE
      BY <2>1, <3>1
    <3> QED BY <1>0, <2>1, <2>2, <2>3, <3>2, <3>3 DEF LayInv
  <2>6. CASE ~(InPlace(cur) /\ From(cur) \in Pinned(plan, cur))
    <3>1. PICK l, c, u : l = LaidOut(layout, cur) /\ c = cur + 1 /\ u = {}
      OBVIOUS
    <3>2. Laid(l, c, u)
      BY <1>0, <2>3, <2>4, <2>6, <3>1, TaskLaid
    <3>3. Laid(l, c, u)'
      BY <2>1, <3>2, LaidSame
    <3>4. (Laid(layout, Made, unplaced))'
      <4>1. layout' = l /\ Made' = c /\ unplaced' = u
        BY <2>1, <2>2, <3>1
      <4> QED BY <3>3, <4>1
    <3> QED BY <1>0, <2>1, <2>2, <2>3, <3>4 DEF LayInv
  <2> QED BY <2>5, <2>6
<1>7. CASE AssignWeights
  <2>1. /\ run = 0 /\ cur = TaskNum + 1 /\ ~layout.threw /\ run' = 1 /\ cur' = 0
        /\ plan' = plan /\ layout' = layout /\ unplaced' = unplaced
    BY <1>7 DEF AssignWeights
  <2>2. Made = TaskNum + 1 /\ Made' = TaskNum + 1 /\ TaskNum' = TaskNum /\ Made > 0
    BY <1>0, <2>1 DEF Made, TaskNum, Tasks
  <2>3. TaskNum > 0 /\ IsPlan(plan) /\ Valid(plan) /\ unplaced \in SUBSET InputsOf(plan)
        /\ (unplaced # {} => Made = 1) /\ Laid(layout, Made, unplaced)
    BY <2>1, <2>2 DEF LayInv
  <2>4. PICK l, c, u : l = layout /\ c = Made /\ u = unplaced
    OBVIOUS
  <2>5. Laid(l, c, u)'
    BY <2>1, <2>3, <2>4, LaidSame
  <2>6. (Laid(layout, Made, unplaced))'
    <3>1. layout' = l /\ Made' = c /\ unplaced' = u
      BY <2>1, <2>2, <2>4
    <3> QED BY <2>5, <3>1
  <2> QED BY <1>0, <2>1, <2>2, <2>3, <2>6 DEF LayInv
<1>8. CASE CopyInputs \/ FillInner \/ WriteOutputs \/ NextTask \/ NextRun
  <2>1. run > 0 /\ plan' = plan /\ layout' = layout /\ unplaced' = unplaced
        /\ (run' = run \/ run' = run + 1) /\ cur' \in Nat
    BY <1>0, <1>8 DEF CopyInputs, FillInner, WriteOutputs, NextTask, NextRun
  <2>2. Made' = Made /\ run' \in Nat /\ (run' = 0 <=> run = 0)
    BY <1>0, <2>1 DEF Made, TaskNum, Tasks
  <2> QED BY <1>1, <2>1, <2>2
<1> QED
  BY <1>2, <1>3, <1>4, <1>5, <1>6, <1>7, <1>8 DEF LNext

(* The layout is sound at every step of making and using it.                *)
LEMMA LayInvariant == LSpec => []LayInv
BY InitLay, NextLay, PTL DEF LSpec

(* The allocator's own checks never fail while a valid graph is laid out:   *)
(* set_v_block throws, and for one reason only.                             *)
THEOREM ThrowsCorrect == LSpec => []ThrowsOnPinnedOnly
<1>1. LayInv => ThrowsOnPinnedOnly
  <2> SUFFICES ASSUME LayInv, layout.threw PROVE Conflict
    BY DEF ThrowsOnPinnedOnly, Conflict
  <2>1. Made > 0
    BY DEF LayInv, Made
  <2> QED BY <2>1 DEF LayInv, Laid
<1> QED
  BY <1>1, LayInvariant, PTL

(* What holds a block in the end is what nobody consumes.                   *)
LEMMA HoldersLast ==
  ASSUME IsPlan(plan), NEW l
  PROVE  Holders(l, TaskNum + 1, {}) =
           {x \in Produced(plan) : Consumers(plan, x) = {} /\ ~l.relations[x].exclusive}
<1>1. \A j \in DOMAIN plan.tasks : j < TaskNum + 1 /\ ~(j >= TaskNum + 1)
  BY PlanTypes DEF TaskNum, Tasks
<1>2. PlacedBefore(plan, TaskNum + 1) = InputsOf(plan) \cup Produced(plan)
  BY <1>1 DEF PlacedBefore, Produced
<1>3. \A x : Needed(plan, x, TaskNum + 1) <=> Consumers(plan, x) = {}
  BY <1>1 DEF Needed, Consumers
<1>4. \A x \in InputsOf(plan) : Consumers(plan, x) # {}
  BY DEF InputsOf, Consumers
<1> QED
  BY <1>2, <1>3, <1>4 DEF Holders

(* When the layout is made, the arena has every block back but those of     *)
(* the tensors nobody consumes.                                             *)
THEOREM BlocksReturnedCorrect == LSpec => []BlocksReturned
<1>1. LayInv => BlocksReturned
  <2> DEFINE gmp == layout.dynamic_gmp
             kept == {x \in Produced(plan) :
                        Consumers(plan, x) = {} /\ ~layout.relations[x].exclusive}
             free == UNION {Bytes(gmp.v_blocks[i]) : i \in DOMAIN gmp.v_blocks}
             held == UNION {Bytes(layout.relations[x].v_block) : x \in kept}
  <2> SUFFICES ASSUME LayInv, cur = TaskNum + 1, ~layout.threw
               PROVE  (0 .. gmp.total_size - 1) \ free = held
    BY DEF BlocksReturned
  <2>1. Made = TaskNum + 1 /\ TaskNum \in Nat /\ Made > 0
    BY DEF LayInv, Made
  <2>2. IsPlan(plan) /\ unplaced = {} /\ Laid(layout, TaskNum + 1, {})
    BY <2>1 DEF LayInv
  <2>3. Holders(layout, TaskNum + 1, {}) = kept
    BY <2>2, HoldersLast
  <2>4. Holding(layout, kept, {})
    BY <2>2, <2>3 DEF Laid
  <2>5. BlocksOf(layout, kept) \cup {} = BlocksOf(layout, kept)
    OBVIOUS
  <2>6. Guarded(gmp, BlocksOf(layout, kept)) /\ Full(gmp, BlocksOf(layout, kept))
    BY <2>4, <2>5 DEF Holding
  <2>7. /\ gmp.total_size \in Nat /\ BlocksOf(layout, kept) \subseteq Blocks
        /\ \A b \in BlocksOf(layout, kept) : EndOf(b) <= gmp.total_size
        /\ \A i \in DOMAIN gmp.v_blocks : gmp.v_blocks[i] \in Blocks
    <3>1. Guarded(gmp, BlocksOf(layout, kept))
      BY <2>6
    <3> HIDE DEF gmp, kept
    <3>2. gmp.v_blocks \in Seq(Blocks)
      BY <3>1 DEF Guarded, WellFormed, Gapped
    <3>3. \A i \in DOMAIN gmp.v_blocks : gmp.v_blocks[i] \in Blocks
      BY <3>2
    <3> QED BY <3>1, <3>3 DEF Guarded, WellFormed
  <2>8. \A b \in Blocks : \A x : x \in Bytes(b) <=> x \in Nat /\ Covers(b, x)
    BY EndType DEF Bytes, Covers
  <2> HIDE DEF gmp, kept
  <2>9. \A x : x \in held <=> x \in Nat /\ \E b \in BlocksOf(layout, kept) : Covers(b, x)
    BY <2>7, <2>8 DEF BlocksOf
  <2>10. \A x : x \in free <=> x \in Nat /\ FreeByte(gmp, x)
    BY <2>7, <2>8 DEF FreeByte, Elements
  <2>11. \A x \in Nat : \A b \in BlocksOf(layout, kept) : Covers(b, x) => x < gmp.total_size /\ ~FreeByte(gmp, x)
    <3> SUFFICES ASSUME NEW x \in Nat, NEW b \in BlocksOf(layout, kept), Covers(b, x)
                 PROVE  x < gmp.total_size /\ ~FreeByte(gmp, x)
      OBVIOUS
    <3>1. EndOf(b) \in Nat /\ EndOf(b) <= gmp.total_size /\ x < EndOf(b)
      BY <2>7, EndType DEF Covers
    <3>2. ~FreeByte(gmp, x)
      BY <2>6 DEF Guarded
    <3> QED BY <2>7, <3>1, <3>2
  <2>12. \A x : x \in 0 .. gmp.total_size - 1 <=> x \in Nat /\ x < gmp.total_size
    BY <2>7
  <2> HIDE DEF held, free
  <2>13. \A x : x \in (0 .. gmp.total_size - 1) \ free <=> x \in held
    BY <2>6, <2>9, <2>10, <2>11, <2>12 DEF Full
  <2> QED BY <2>13
<1> QED
  BY <1>1, LayInvariant, PTL

-----------------------------------------------------------------------------
(* Execution: values that do not overwrite each other.                      *)

(* The plan is laid out.                                                    *)
Ready ==
  /\ IsPlan(plan) /\ Valid(plan) /\ TaskNum \in Nat \ {0}
  /\ Laid(layout, TaskNum + 1, {})

(* The buffers of task i in the plan, of which the layout has the blocks.   *)
InnerAt(i) == DOMAIN Tasks[i].inner

(* What being laid out gives.                                               *)
LEMMA ReadyIs ==
  ASSUME Ready
  PROVE  /\ IsLayout(layout) /\ Lasting(layout)
         /\ DOMAIN Tasks = 1 .. TaskNum
         /\ \A x \in DOMAIN plan.size :
              /\ layout.relations[x].exclusive \in BOOLEAN
              /\ layout.relations[x].exclusive <=>
                   x \in Pinned(plan, TaskNum + 1) \/ x \in Weights
         /\ \A i \in DOMAIN Tasks :
              /\ TaskApart(layout, i) /\ InnerAt(i) = 1 .. Len(Tasks[i].inner)
              /\ DOMAIN layout.inner[i] = InnerAt(i) /\ Len(Tasks[i].inner) \in Nat
              /\ \A k \in InnerAt(i) : /\ layout.inner[i][k].exclusive = Tasks[i].inner[k].exclusive
                                       /\ Tasks[i].inner[k].exclusive \in BOOLEAN
<1>1. IsPlan(plan) /\ Laid(layout, TaskNum + 1, {}) /\ TaskNum \in Nat
  BY DEF Ready
<1>2. DOMAIN Tasks = 1 .. TaskNum /\ \A i \in DOMAIN Tasks : i < TaskNum + 1
  BY <1>1, PlanTypes DEF Tasks, TaskNum
<1>3. WeightsBefore(plan, TaskNum + 1) = Weights
  BY <1>2 DEF WeightsBefore, Weights, Tasks
<1>4. IsLayout(layout) /\ Lasting(layout)
  BY <1>1 DEF Laid
<1>5. \A x \in DOMAIN plan.size :
              /\ layout.relations[x].exclusive \in BOOLEAN
              /\ layout.relations[x].exclusive <=> x \in Pinned(plan, TaskNum + 1) \/ x \in Weights
  BY <1>1, <1>3, <1>4 DEF Laid, IsLayout
<1>6. ASSUME NEW i \in DOMAIN Tasks
      PROVE   /\ TaskApart(layout, i) /\ InnerAt(i) = 1 .. Len(Tasks[i].inner)
              /\ DOMAIN layout.inner[i] = InnerAt(i) /\ Len(Tasks[i].inner) \in Nat
              /\ \A k \in InnerAt(i) : /\ layout.inner[i][k].exclusive = Tasks[i].inner[k].exclusive
                                       /\ Tasks[i].inner[k].exclusive \in BOOLEAN
  <2>1. TaskApart(layout, i) /\ InnerOf(layout, i)
    BY <1>1, <1>2 DEF Laid
  <2>2. Tasks[i].inner \in Seq(Buffers)
    BY <1>1, PlanTypes DEF Tasks, Buffers
  <2>3. InnerAt(i) = 1 .. Len(Tasks[i].inner) /\ Len(Tasks[i].inner) \in Nat
        /\ \A k \in InnerAt(i) : Tasks[i].inner[k] \in Buffers
    BY <2>2 DEF InnerAt
  <2>4. \A k \in InnerAt(i) : Tasks[i].inner[k].exclusive \in BOOLEAN
    BY <2>3 DEF Buffers
  <2>5. layout.inner[i] \in Seq(Placements) /\ Len(layout.inner[i]) = Len(Tasks[i].inner)
    BY <2>1 DEF InnerOf
  <2>6. DOMAIN layout.inner[i] = InnerAt(i)
    BY <2>3, <2>5
  <2>7. \A k \in InnerAt(i) : layout.inner[i][k].exclusive = Tasks[i].inner[k].exclusive
    BY <2>1, <2>3 DEF InnerOf
  <2> QED BY <2>1, <2>3, <2>4, <2>6, <2>7
<1> QED
  BY <1>2, <1>4, <1>5, <1>6

(* A value overwrites another or neither does.                              *)
LEMMA OverwrittenBoth ==
  ASSUME NEW v, NEW w
  PROVE  Overwritten(v, w) <=> Overwritten(w, v)
BY DEF Overwritten, Overlap

(* What has a block of its own in the static arena is not overwritten.      *)
LEMMA LastingApart ==
  ASSUME Ready
  PROVE  /\ \A x, y \in Exclusives(layout) :
              x # y => ~Overlap(layout.relations[x].v_block, layout.relations[y].v_block)
         /\ \A x \in Exclusives(layout), j \in DOMAIN Tasks : \A k \in LastingOf(layout, j) :
              ~Overlap(layout.relations[x].v_block, layout.inner[j][k].v_block)
         /\ \A i, j \in DOMAIN Tasks : \A h \in LastingOf(layout, i), k \in LastingOf(layout, j) :
              i # j \/ h # k => ~Overlap(layout.inner[i][h].v_block, layout.inner[j][k].v_block)
<1>1. PICK L :
    /\ Guarded(layout.static_gmp, L)
    /\ \A x \in Exclusives(layout) : layout.relations[x].v_block \in L
    /\ \A j \in DOMAIN Tasks : \A k \in LastingOf(layout, j) : layout.inner[j][k].v_block \in L
    /\ Distinct(layout, Exclusives(layout))
    /\ \A x \in Exclusives(layout), j \in DOMAIN Tasks : \A k \in LastingOf(layout, j) :
         layout.inner[j][k].v_block # layout.relations[x].v_block
    /\ \A i, j \in DOMAIN Tasks : \A h \in LastingOf(layout, i), k \in LastingOf(layout, j) :
         layout.inner[i][h].v_block = layout.inner[j][k].v_block => i = j /\ h = k
  BY ReadyIs DEF Lasting
<1>2. \A b, c \in L : b # c => ~Overlap(b, c)
  BY <1>1, GuardedApart
<1>3. \A x, y \in Exclusives(layout) :
        x # y => ~Overlap(layout.relations[x].v_block, layout.relations[y].v_block)
  BY <1>1, <1>2 DEF Distinct
<1>4. \A x \in Exclusives(layout), j \in DOMAIN Tasks : \A k \in LastingOf(layout, j) :
        ~Overlap(layout.relations[x].v_block, layout.inner[j][k].v_block)
  BY <1>1, <1>2
<1>5. \A i, j \in DOMAIN Tasks : \A h \in LastingOf(layout, i), k \in LastingOf(layout, j) :
        i # j \/ h # k => ~Overlap(layout.inner[i][h].v_block, layout.inner[j][k].v_block)
  BY <1>1, <1>2
<1> QED
  BY <1>3, <1>4, <1>5

(* Values of tensors that do not overwrite each other.                      *)
LEMMA TensorsApart ==
  ASSUME Ready, NEW x \in DOMAIN plan.size, NEW y \in DOMAIN plan.size, NEW q, NEW r,
         \/ layout.relations[x].exclusive # layout.relations[y].exclusive
         \/ layout.relations[x].exclusive /\ layout.relations[y].exclusive /\ x # y
         \/ \E i \in DOMAIN Tasks : /\ x \in Live(layout, i) /\ y \in Live(layout, i) /\ x # y
                                    /\ ~Handed(i, x, y) /\ ~Handed(i, y, x)
  PROVE  ~Overwritten(TensorValue(x, q), TensorValue(y, r))
<1>1. /\ TensorValue(x, q).exclusive = layout.relations[x].exclusive
      /\ TensorValue(x, q).v_block = layout.relations[x].v_block
      /\ TensorValue(y, r).exclusive = layout.relations[y].exclusive
      /\ TensorValue(y, r).v_block = layout.relations[y].v_block
  BY DEF TensorValue
<1>2. CASE layout.relations[x].exclusive # layout.relations[y].exclusive
  BY <1>1, <1>2 DEF Overwritten
<1>3. CASE layout.relations[x].exclusive /\ layout.relations[y].exclusive /\ x # y
  <2>1. x \in Exclusives(layout) /\ y \in Exclusives(layout)
    BY <1>3 DEF Exclusives
  <2> QED BY <1>1, <1>3, <2>1, LastingApart DEF Overwritten
<1>4. CASE \E i \in DOMAIN Tasks : /\ x \in Live(layout, i) /\ y \in Live(layout, i) /\ x # y
                                   /\ ~Handed(i, x, y) /\ ~Handed(i, y, x)
  <2>1. ~Overlap(layout.relations[x].v_block, layout.relations[y].v_block)
    BY <1>4, ReadyIs DEF TaskApart
  <2> QED BY <1>1, <2>1 DEF Overwritten
<1> QED
  BY <1>2, <1>3, <1>4

(* A value of a tensor and one of a private buffer.                         *)
LEMMA TensorInnerApart ==
  ASSUME Ready, NEW x \in DOMAIN plan.size, NEW i \in DOMAIN Tasks, NEW k \in InnerAt(i), NEW q, NEW r,
         \/ layout.relations[x].exclusive # Tasks[i].inner[k].exclusive
         \/ layout.relations[x].exclusive /\ Tasks[i].inner[k].exclusive
         \/ x \in Live(layout, i) /\ ~Tasks[i].inner[k].exclusive
  PROVE  ~Overwritten(TensorValue(x, q), InnerValue(i, k, r))
<1>1. /\ TensorValue(x, q).exclusive = layout.relations[x].exclusive
      /\ TensorValue(x, q).v_block = layout.relations[x].v_block
      /\ InnerValue(i, k, r).exclusive = layout.inner[i][k].exclusive
      /\ InnerValue(i, k, r).v_block = layout.inner[i][k].v_block
  BY DEF TensorValue, InnerValue
<1>2. layout.inner[i][k].exclusive = Tasks[i].inner[k].exclusive /\ k \in DOMAIN layout.inner[i]
  BY ReadyIs
<1>3. CASE layout.relations[x].exclusive # Tasks[i].inner[k].exclusive
  BY <1>1, <1>2, <1>3 DEF Overwritten
<1>4. CASE layout.relations[x].exclusive /\ Tasks[i].inner[k].exclusive
  <2>1. x \in Exclusives(layout) /\ k \in LastingOf(layout, i)
    BY <1>2, <1>4 DEF Exclusives, LastingOf
  <2> QED BY <1>1, <2>1, LastingApart DEF Overwritten
<1>5. CASE x \in Live(layout, i) /\ ~Tasks[i].inner[k].exclusive
  <2>1. ~Overlap(layout.relations[x].v_block, layout.inner[i][k].v_block)
    BY <1>2, <1>5, ReadyIs DEF TaskApart
  <2> QED BY <1>1, <2>1 DEF Overwritten
<1> QED
  BY <1>3, <1>4, <1>5

(* Values of two private buffers.                                           *)
LEMMA InnersApart ==
  ASSUME Ready, NEW i \in DOMAIN Tasks, NEW h \in InnerAt(i), NEW j \in DOMAIN Tasks, NEW k \in InnerAt(j),
         NEW q, NEW r, i # j \/ h # k,
         \/ Tasks[i].inner[h].exclusive # Tasks[j].inner[k].exclusive
         \/ Tasks[i].inner[h].exclusive /\ Tasks[j].inner[k].exclusive
         \/ i = j /\ ~Tasks[i].inner[h].exclusive /\ ~Tasks[j].inner[k].exclusive
  PROVE  ~Overwritten(InnerValue(i, h, q), InnerValue(j, k, r))
<1>1. /\ InnerValue(i, h, q).exclusive = layout.inner[i][h].exclusive
      /\ InnerValue(i, h, q).v_block = layout.inner[i][h].v_block
      /\ InnerValue(j, k, r).exclusive = layout.inner[j][k].exclusive
      /\ InnerValue(j, k, r).v_block = layout.inner[j][k].v_block
  BY DEF InnerValue
<1>2. /\ layout.inner[i][h].exclusive = Tasks[i].inner[h].exclusive /\ h \in DOMAIN layout.inner[i]
      /\ layout.inner[j][k].exclusive = Tasks[j].inner[k].exclusive /\ k \in DOMAIN layout.inner[j]
  BY ReadyIs
<1>3. CASE Tasks[i].inner[h].exclusive # Tasks[j].inner[k].exclusive
  BY <1>1, <1>2, <1>3 DEF Overwritten
<1>4. CASE Tasks[i].inner[h].exclusive /\ Tasks[j].inner[k].exclusive
  <2>1. h \in LastingOf(layout, i) /\ k \in LastingOf(layout, j)
    BY <1>2, <1>4 DEF LastingOf
  <2> QED BY <1>1, <2>1, LastingApart DEF Overwritten
<1>5. CASE i = j /\ ~Tasks[i].inner[h].exclusive /\ ~Tasks[j].inner[k].exclusive
  <2>1. ~Overlap(layout.inner[i][h].v_block, layout.inner[j][k].v_block)
    BY <1>2, <1>5, ReadyIs DEF TaskApart
  <2> QED BY <1>1, <2>1 DEF Overwritten
<1> QED
  BY <1>3, <1>4, <1>5

(* What a series of writes leaves.                                          *)
LEMMA WritesAll ==
  ASSUME NEW held, NEW D, NEW s \in Seq(D), NEW when
  PROVE  LET m == AllWritten(held, s, when)
         IN  /\ \A c \in held :
                  (\A x \in ToSet(s) : ~Overwritten(c, TensorValue(x, when))) => c \in m
             /\ (\A x, y \in ToSet(s) :
                   x # y => ~Overwritten(TensorValue(x, when), TensorValue(y, when))) =>
                \A x \in ToSet(s) : TensorValue(x, when) \in m
<1> DEFINE n == Len(s)
           Apart == \A x, y \in ToSet(s) : x # y => ~Overwritten(TensorValue(x, when), TensorValue(y, when))
<1>1. n \in Nat /\ DOMAIN s = 1 .. n
  BY FirstsAre
<1>2. PICK p : Stepwise(p, "write", when, held, s) /\ AllWritten(held, s, when) = p[n]
  BY <1>1, WriteFold
<1>3. p[0] = held /\ \A d \in 1 .. n : p[d] = Written(p[d - 1], TensorValue(s[d], when))
  BY <1>2 DEF Stepwise, Step
<1> DEFINE Good(d) ==
             /\ \A c \in held :
                  (\A x \in ToSet(s) : ~Overwritten(c, TensorValue(x, when))) => c \in p[d]
             /\ Apart => \A x \in Firsts(s, d) : TensorValue(x, when) \in p[d]
           S == {d \in 0 .. n : Good(d)}
<1>4. 0 \in S
  BY <1>1, <1>3, FirstsAre
<1>5. ASSUME NEW d \in 1 .. n, d - 1 \in S PROVE d \in S
  <2>1. /\ \A c \in held :
             (\A x \in ToSet(s) : ~Overwritten(c, TensorValue(x, when))) => c \in p[d - 1]
        /\ Apart => \A x \in Firsts(s, d - 1) : TensorValue(x, when) \in p[d - 1]
    BY <1>5
  <2>2. /\ d \in 0 .. n /\ Firsts(s, d) = Firsts(s, d - 1) \cup {s[d]} /\ s[d] \in ToSet(s)
        /\ p[d] = Written(p[d - 1], TensorValue(s[d], when))
    BY <1>3, FirstsAre
  <2>3. Firsts(s, d - 1) \subseteq ToSet(s)
    <3>1. \A k \in 1 .. d - 1 : k \in DOMAIN s
      BY <1>1
    <3> QED BY <3>1 DEF Firsts, ToSet
  <2>4. \A c \in p[d - 1] : ~Overwritten(c, TensorValue(s[d], when)) => c \in p[d]
    BY <2>2 DEF Written
  <2>5. TensorValue(s[d], when) \in p[d]
    BY <2>2 DEF Written
  <2> DEFINE a == s[d]
             F == Firsts(s, d - 1)
  <2> HIDE DEF a, F
  <2>6. \A c \in held : (\A x \in ToSet(s) : ~Overwritten(c, TensorValue(x, when))) => c \in p[d]
    BY <2>1, <2>2, <2>4
  <2>7. ASSUME Apart, NEW x \in Firsts(s, d) PROVE TensorValue(x, when) \in p[d]
    <3>1. CASE x = s[d]
      BY <2>5, <3>1
    <3>2. CASE x # s[d]
      <4>1. x \in Firsts(s, d - 1)
        BY <2>2, <3>2
      <4>2. x \in ToSet(s) /\ s[d] \in ToSet(s)
        BY <2>2, <2>3, <4>1
      <4>3. ~Overwritten(TensorValue(x, when), TensorValue(s[d], when))
        BY <2>7, <3>2, <4>2
      <4> QED BY <2>1, <2>4, <2>7, <4>1, <4>3
    <3> QED BY <3>1, <3>2
  <2> QED BY <2>2, <2>6, <2>7
<1> HIDE DEF Good
<1>6. n \in S
  <2> HIDE DEF S
  <2> QED BY <1>1, <1>4, <1>5, Ascent
<1> USE DEF Good
<1>7. Good(n) /\ Firsts(s, n) = ToSet(s)
  BY <1>6, FirstsAre
<1> QED
  BY <1>2, <1>7

(* A finite set in some order.                                              *)
LEMMA SetInOrder ==
  ASSUME NEW S, IsFiniteSet(S)
  PROVE  SetToSeq(S) \in Seq(S) /\ ToSet(SetToSeq(S)) = S
<1> DEFINE n == Cardinality(S)
           s == SetToSeq(S)
<1>1. n \in Nat /\ ExistsBijection(1 .. n, S)
  BY FS_CardinalityType
<1>2. \E f \in [1 .. n -> S] : IsInjective(f)
  <2>1. PICK f : f \in Bijection(1 .. n, S)
    BY <1>1 DEF ExistsBijection
  <2> QED BY <2>1 DEF Bijection, Injection, IsInjective
<1>3. s \in [1 .. n -> S] /\ IsInjective(s)
  BY <1>2 DEF SetToSeq
<1> HIDE DEF s
<1>4. s \in Injection(1 .. n, S)
  BY <1>3 DEF Injection, IsInjective
<1>5. IsFiniteSet(1 .. n) /\ Cardinality(1 .. n) = n
  BY <1>1, FS_Interval
<1>6. s \in Surjection(1 .. n, S)
  BY <1>4, <1>5, FS_Injection
<1>7. ToSet(s) = S
  BY <1>3, <1>6 DEF Surjection, ToSet
<1>8. s \in Seq(S)
  BY <1>1, <1>3
<1> QED
  BY <1>7, <1>8 DEF s

(* The inputs of a plan are finitely many.                                  *)
LEMMA InputsFinite ==
  ASSUME NEW p, IsPlan(p)
  PROVE  IsFiniteSet(InputsOf(p))
<1> DEFINE n == Len(p.tasks)
           I(i) == ToSet(p.tasks[i].ins)
           S == {I(i) : i \in DOMAIN p.tasks}
<1>1. n \in Nat /\ DOMAIN p.tasks = 1 .. n
  BY PlanTypes
<1>2. IsFiniteSet(S)
  <2> DEFINE f == [i \in 1 .. n |-> I(i)]
  <2>1. f \in Surjection(1 .. n, S)
    <3> HIDE DEF I
    <3> QED BY <1>1 DEF Surjection
  <2>2. IsFiniteSet(1 .. n)
    BY <1>1, FS_Interval
  <2> HIDE DEF f, S
  <2> QED BY <2>1, <2>2, FS_Surjection
<1>3. ASSUME NEW i \in DOMAIN p.tasks PROVE IsFiniteSet(I(i))
  <2> DEFINE s == p.tasks[i].ins
  <2>1. s \in Seq(DOMAIN p.size)
    BY PlanTypes
  <2> HIDE DEF s
  <2>2. Len(s) \in Nat /\ DOMAIN s = 1 .. Len(s) /\ s \in [DOMAIN s -> ToSet(s)]
    BY <2>1 DEF ToSet
  <2>3. s \in Surjection(1 .. Len(s), ToSet(s))
    BY <2>2 DEF Surjection, ToSet
  <2>4. IsFiniteSet(1 .. Len(s))
    BY <2>2, FS_Interval
  <2>5. IsFiniteSet(ToSet(s))
    BY <2>3, <2>4, FS_Surjection
  <2> QED BY <2>5 DEF s
<1>4. \A T \in S : IsFiniteSet(T)
  BY <1>3
<1>5. InputsOf(p) \in SUBSET UNION S
  BY DEF InputsOf
<1> HIDE DEF S
<1>6. IsFiniteSet(UNION S)
  BY <1>2, <1>4, FS_UNION
<1> QED
  BY <1>5, <1>6, FS_Subset

-----------------------------------------------------------------------------
(* What memory holds.                                                       *)

(* Task j has written its results, when task c has written s buffers.       *)
Done(j, c, s) == j < c \/ (j = c /\ s = Stages(j))

(* x has been written in the current execution.                             *)
Computed(x, c, s) ==
  /\ c > 0
  /\ x \in InputsOf(plan) \/ \E j \in DOMAIN Tasks : Done(j, c, s) /\ x \in ToSet(Tasks[j].outs)

(* Task c has overwritten x, the operand it works in place on.              *)
Spent(x, c, s) == c \in DOMAIN Tasks /\ s = Stages(c) /\ Tasks[c].inplace > 0 /\ x = From(c)

(* What memory holds in execution r, when task c has written s buffers: the *)
(* tensors of the dynamic arena that are still needed; the pinned ones,     *)
(* since the first execution; the weights; and the private buffers.         *)
TensorsHeld(held, r, c, s) ==
  \A x \in DOMAIN plan.size :
    Computed(x, c, s) /\ ~layout.relations[x].exclusive /\ Needed(plan, x, c) /\ ~Spent(x, c, s)
      => TensorValue(x, r) \in held
PinnedHeld(held, r, c, s) ==
  \A x \in Pinned(plan, TaskNum + 1) : r > 1 \/ Computed(x, c, s) => TensorValue(x, 1) \in held
WeightsHeld(held) == \A w \in Weights : TensorValue(w, 0) \in held
ScratchHeld(held, r, c, s) ==
  c \in DOMAIN Tasks =>
    \A k \in InnerAt(c) : ~Tasks[c].inner[k].exclusive /\ k <= s => InnerValue(c, k, r) \in held
PrivateHeld(held, r, c, s) ==
  \A i \in DOMAIN Tasks : \A k \in InnerAt(i) :
    Tasks[i].inner[k].exclusive /\ (r > 1 \/ i < c \/ (i = c /\ k <= s))
      => \E q : InnerValue(i, k, q) \in held
MemOf(held, r, c, s) ==
  /\ TensorsHeld(held, r, c, s) /\ PinnedHeld(held, r, c, s) /\ WeightsHeld(held)
  /\ ScratchHeld(held, r, c, s) /\ PrivateHeld(held, r, c, s)

(* It depends on the plan and on the layout.                                *)
LEMMA MemSame ==
  ASSUME plan' = plan, layout' = layout, NEW h, NEW r, NEW c, NEW s
  PROVE  MemOf(h, r, c, s)' = MemOf(h, r, c, s)
<1>1. Tasks' = Tasks /\ TaskNum' = TaskNum
  BY DEF Tasks, TaskNum
<1>2. \A x, q : TensorValue(x, q)' = TensorValue(x, q)
  BY DEF TensorValue
<1>3. \A i, k, q : InnerValue(i, k, q)' = InnerValue(i, k, q)
  BY DEF InnerValue
<1>4. Weights' = Weights /\ \A i : InnerAt(i)' = InnerAt(i)
  BY <1>1 DEF Weights, InnerAt
<1>5. \A x : Computed(x, c, s)' = Computed(x, c, s)
  BY <1>1 DEF Computed, Done, Stages
<1>6. \A x : Spent(x, c, s)' = Spent(x, c, s)
  BY <1>1 DEF Spent, Stages, From
<1>7. TensorsHeld(h, r, c, s)' = TensorsHeld(h, r, c, s)
  BY <1>2, <1>5, <1>6 DEF TensorsHeld
<1>8. PinnedHeld(h, r, c, s)' = PinnedHeld(h, r, c, s)
  BY <1>1, <1>2, <1>5 DEF PinnedHeld
<1>9. WeightsHeld(h)' = WeightsHeld(h)
  BY <1>2, <1>4 DEF WeightsHeld
<1>10. ScratchHeld(h, r, c, s)' = ScratchHeld(h, r, c, s)
  BY <1>1, <1>3, <1>4 DEF ScratchHeld
<1>11. PrivateHeld(h, r, c, s)' = PrivateHeld(h, r, c, s)
  BY <1>1, <1>3, <1>4 DEF PrivateHeld
<1> QED
  BY <1>7, <1>8, <1>9, <1>10, <1>11 DEF MemOf

(* The results of a task in a finished layout.                              *)
LEMMA OutsAre ==
  ASSUME Ready, NEW c \in DOMAIN Tasks, NEW x \in ToSet(Tasks[c].outs)
  PROVE  /\ x \in DOMAIN plan.size /\ x \notin ToSet(Tasks[c].ins) /\ x \notin Weights
         /\ layout.relations[x].exclusive <=> Tasks[c].pin
         /\ x \in Pinned(plan, TaskNum + 1) <=> Tasks[c].pin
         /\ ~Tasks[c].pin => x \in Live(layout, c)
<1>1. IsPlan(plan) /\ TaskNum \in Nat /\ Tasks = plan.tasks
  BY DEF Ready, Tasks
<1>2. x \in DOMAIN plan.size
  <2>1. Tasks[c].outs \in Seq(DOMAIN plan.size)
    BY <1>1, PlanTypes
  <2> QED BY <2>1 DEF ToSet
<1>3. c \in 1 .. TaskNum /\ \A j \in DOMAIN Tasks : j \in Nat /\ j < TaskNum + 1
  BY <1>1, ReadyIs
<1>4. x \notin ToSet(Tasks[c].ins)
  BY <1>1, <1>3, PlanOrder
<1>5. x \notin Weights
  BY <1>1, PlanOrder DEF Weights
<1>6. x \in Pinned(plan, TaskNum + 1) <=> Tasks[c].pin
  BY <1>1, <1>3, PlanOrder DEF Pinned
<1>7. layout.relations[x].exclusive <=> Tasks[c].pin
  BY <1>2, <1>5, <1>6, ReadyIs
<1>8. ~Tasks[c].pin => x \in Live(layout, c)
  <2>1. Needed(plan, x, c)
    BY <1>1, NeededNext
  <2>2. x \in PlacedBefore(plan, c + 1)
    BY <1>1, <1>3 DEF PlacedBefore
  <2> QED BY <1>7, <2>1, <2>2 DEF Live
<1> QED
  BY <1>2, <1>4, <1>5, <1>6, <1>7, <1>8

(* What has been written and is needed is live.                             *)
LEMMA ComputedLive ==
  ASSUME Ready, NEW c \in DOMAIN Tasks, NEW s, NEW x, Computed(x, c, s),
         ~layout.relations[x].exclusive, Needed(plan, x, c)
  PROVE  x \in Live(layout, c)
<1>1. IsPlan(plan) /\ TaskNum \in Nat /\ Tasks = plan.tasks
  BY DEF Ready, Tasks
<1>2. c \in Nat /\ \A j \in DOMAIN Tasks : j \in Nat
  BY <1>1, ReadyIs
<1>3. \A j \in DOMAIN Tasks : Done(j, c, s) => j < c + 1
  BY <1>2 DEF Done
<1>4. x \in PlacedBefore(plan, c + 1)
  BY <1>1, <1>3 DEF Computed, PlacedBefore
<1> QED
  BY <1>4 DEF Live

(* What must survive lies in the static arena.                              *)
LEMMA LastingIs ==
  ASSUME Ready
  PROVE  /\ \A x \in Pinned(plan, TaskNum + 1) \cup Weights : x \in DOMAIN plan.size /\ layout.relations[x].exclusive
         /\ \A x \in InputsOf(plan) : /\ x \in DOMAIN plan.size /\ ~layout.relations[x].exclusive
                                      /\ x \notin Pinned(plan, TaskNum + 1) /\ x \notin Weights
<1>1. IsPlan(plan) /\ TaskNum \in Nat /\ Tasks = plan.tasks
  BY DEF Ready, Tasks
<1>2. \A j \in DOMAIN Tasks : /\ ToSet(Tasks[j].ins) \subseteq DOMAIN plan.size
                              /\ ToSet(Tasks[j].outs) \subseteq DOMAIN plan.size
                              /\ WeightsOf(Tasks[j]) \subseteq DOMAIN plan.size
  <2> SUFFICES ASSUME NEW j \in DOMAIN Tasks
               PROVE  /\ ToSet(Tasks[j].ins) \subseteq DOMAIN plan.size
                      /\ ToSet(Tasks[j].outs) \subseteq DOMAIN plan.size
                      /\ WeightsOf(Tasks[j]) \subseteq DOMAIN plan.size
    OBVIOUS
  <2>1. /\ Tasks[j].ins \in Seq(DOMAIN plan.size) /\ Tasks[j].outs \in Seq(DOMAIN plan.size)
        /\ Tasks[j].weights \in Seq(DOMAIN plan.size)
    BY <1>1, PlanTypes
  <2> QED BY <2>1 DEF ToSet, WeightsOf
<1>3. Pinned(plan, TaskNum + 1) \cup Weights \subseteq DOMAIN plan.size
  BY <1>1, <1>2 DEF Pinned, Weights
<1>4. \A x \in InputsOf(plan) : x \in DOMAIN plan.size
  BY <1>1, <1>2 DEF InputsOf
<1>5. \A x \in InputsOf(plan) : x \notin Pinned(plan, TaskNum + 1)
  BY <1>1 DEF InputsOf, Pinned, Produced
<1>6. \A x \in InputsOf(plan) : x \notin Weights
  BY <1>1, PlanOrder DEF InputsOf, Weights
<1> QED
  BY <1>3, <1>4, <1>5, <1>6, ReadyIs

(* A private buffer is filled.                                              *)
LEMMA FillStep ==
  ASSUME Ready, NEW held, NEW r \in Nat, NEW c \in DOMAIN Tasks, NEW s \in Nat, s < Stages(c) - 1,
         MemOf(held, r, c, s)
  PROVE  MemOf(Written(held, InnerValue(c, s + 1, r)), r, c, s + 1)
<1> DEFINE k == s + 1
           v == InnerValue(c, k, r)
           m == Written(held, v)
<1>1. /\ Len(Tasks[c].inner) \in Nat /\ InnerAt(c) = 1 .. Len(Tasks[c].inner) /\ c \in Nat
      /\ DOMAIN Tasks = 1 .. TaskNum /\ TaskNum \in Nat
      /\ \A i \in DOMAIN Tasks : \A h \in InnerAt(i) : Tasks[i].inner[h].exclusive \in BOOLEAN
      /\ \A x \in DOMAIN plan.size : layout.relations[x].exclusive \in BOOLEAN
  <2>1. DOMAIN Tasks = 1 .. TaskNum /\ TaskNum \in Nat
    BY ReadyIs DEF Ready
  <2> QED BY <2>1, ReadyIs
<1>2. k \in InnerAt(c) /\ k \in Nat /\ k # Stages(c) /\ s # Stages(c) /\ s < k
  BY <1>1 DEF Stages
<1>3. v \in m /\ \A w \in held : ~Overwritten(w, v) => w \in m
  BY DEF Written
<1> HIDE DEF v, m, k
<1>4. \A x : Computed(x, c, k) => Computed(x, c, s)
  BY <1>2 DEF Computed, Done
<1>5. \A x : ~Spent(x, c, s)
  BY <1>2 DEF Spent
<1>6. TensorsHeld(m, r, c, k)
  <2> SUFFICES ASSUME NEW x \in DOMAIN plan.size, Computed(x, c, k), ~layout.relations[x].exclusive,
                      Needed(plan, x, c)
               PROVE  TensorValue(x, r) \in m
    BY DEF TensorsHeld
  <2>1. TensorValue(x, r) \in held
    BY <1>4, <1>5 DEF MemOf, TensorsHeld
  <2>2. x \in Live(layout, c)
    BY <1>4, ComputedLive
  <2>3. ~Overwritten(TensorValue(x, r), InnerValue(c, k, r))
    BY <1>1, <1>2, <2>2, TensorInnerApart
  <2> QED BY <1>3, <2>1, <2>3 DEF v
<1>7. ASSUME NEW x \in DOMAIN plan.size, layout.relations[x].exclusive, NEW q
      PROVE  TensorValue(x, q) \in held => TensorValue(x, q) \in m
  <2>1. ~Overwritten(TensorValue(x, q), InnerValue(c, k, r))
    BY <1>1, <1>2, <1>7, TensorInnerApart
  <2> QED BY <1>3, <2>1 DEF v
<1>8. PinnedHeld(m, r, c, k)
  BY <1>4, <1>7, LastingIs DEF MemOf, PinnedHeld
<1>9. WeightsHeld(m)
  BY <1>7, LastingIs DEF MemOf, WeightsHeld
<1>10. ScratchHeld(m, r, c, k)
  <2> SUFFICES ASSUME NEW h \in InnerAt(c), ~Tasks[c].inner[h].exclusive, h <= k
               PROVE  InnerValue(c, h, r) \in m
    BY DEF ScratchHeld
  <2>1. CASE h = k
    BY <1>3, <2>1 DEF v
  <2>2. CASE h # k
    <3>1. h <= s
      BY <1>1, <2>2 DEF k
    <3>2. InnerValue(c, h, r) \in held
      BY <3>1 DEF MemOf, ScratchHeld
    <3>3. ~Overwritten(InnerValue(c, h, r), InnerValue(c, k, r))
      BY <1>1, <1>2, <2>2, InnersApart
    <3> QED BY <1>3, <3>2, <3>3 DEF v
  <2> QED BY <2>1, <2>2
<1>11. PrivateHeld(m, r, c, k)
  <2> SUFFICES ASSUME NEW i \in DOMAIN Tasks, NEW h \in InnerAt(i), Tasks[i].inner[h].exclusive,
                      r > 1 \/ i < c \/ (i = c /\ h <= k)
               PROVE  \E q : InnerValue(i, h, q) \in m
    BY DEF PrivateHeld
  <2>1. CASE i = c /\ h = k
    BY <1>3, <2>1 DEF v
  <2>2. CASE i # c \/ h # k
    <3>1. r > 1 \/ i < c \/ (i = c /\ h <= s)
      BY <1>1, <2>2 DEF k
    <3>2. PICK q : InnerValue(i, h, q) \in held
      BY <3>1 DEF MemOf, PrivateHeld
    <3>3. ~Overwritten(InnerValue(i, h, q), InnerValue(c, k, r))
      BY <1>1, <1>2, <2>2, InnersApart
    <3> QED BY <1>3, <3>2, <3>3 DEF v
  <2> QED BY <2>1, <2>2
<1>12. MemOf(m, r, c, k)
  BY <1>6, <1>8, <1>9, <1>10, <1>11 DEF MemOf
<1> QED
  BY <1>12 DEF m, v, k

(* The results are written.                                                 *)
LEMMA WriteStep ==
  ASSUME Ready, NEW held, NEW r \in Nat \ {0}, NEW c \in DOMAIN Tasks, NEW s \in Nat, s = Stages(c) - 1,
         MemOf(held, r, c, s)
  PROVE  MemOf(IF Tasks[c].pin /\ r > 1 THEN held ELSE AllWritten(held, Tasks[c].outs, r), r, c, s + 1)
<1> DEFINE k == s + 1
           outs == ToSet(Tasks[c].outs)
           m == IF Tasks[c].pin /\ r > 1 THEN held ELSE AllWritten(held, Tasks[c].outs, r)
<1>1. /\ Len(Tasks[c].inner) \in Nat /\ InnerAt(c) = 1 .. Len(Tasks[c].inner) /\ c \in Nat
      /\ DOMAIN Tasks = 1 .. TaskNum /\ TaskNum \in Nat /\ IsPlan(plan) /\ Tasks = plan.tasks
      /\ \A i \in DOMAIN Tasks : \A h \in InnerAt(i) : Tasks[i].inner[h].exclusive \in BOOLEAN
      /\ \A x \in DOMAIN plan.size : layout.relations[x].exclusive \in BOOLEAN
  <2>1. DOMAIN Tasks = 1 .. TaskNum /\ TaskNum \in Nat /\ IsPlan(plan) /\ Tasks = plan.tasks
    BY ReadyIs DEF Ready, Tasks
  <2> QED BY <2>1, ReadyIs
<1>2. k = Stages(c) /\ s # Stages(c) /\ s = Len(Tasks[c].inner)
  BY <1>1 DEF Stages
<1>3. \A y \in outs :
        /\ y \in DOMAIN plan.size /\ y \notin ToSet(Tasks[c].ins) /\ y \notin Weights
        /\ layout.relations[y].exclusive <=> Tasks[c].pin
        /\ y \in Pinned(plan, TaskNum + 1) <=> Tasks[c].pin
        /\ ~Tasks[c].pin => y \in Live(layout, c)
  BY OutsAre
<1>4. \A x : Computed(x, c, k) => Computed(x, c, s) \/ x \in outs
  BY <1>2 DEF Computed, Done
<1>5. \A x : ~Spent(x, c, s)
  BY <1>2 DEF Spent
<1>6. Tasks[c].inplace > 0 => From(c) \in ToSet(Tasks[c].ins)
  <2>1. /\ Tasks[c].inplace \in Nat /\ Tasks[c].inplace <= Len(Tasks[c].ins)
        /\ Tasks[c].ins \in Seq(DOMAIN plan.size)
    BY <1>1, PlanTypes
  <2> QED BY <2>1 DEF From, ToSet
<1>7. \A x, y \in outs : x # y => ~Overwritten(TensorValue(x, r), TensorValue(y, r))
  <2> SUFFICES ASSUME NEW x \in outs, NEW y \in outs, x # y
               PROVE  ~Overwritten(TensorValue(x, r), TensorValue(y, r))
    OBVIOUS
  <2>1. x \in DOMAIN plan.size /\ y \in DOMAIN plan.size
    BY <1>3
  <2>2. CASE Tasks[c].pin
    <3>1. layout.relations[x].exclusive /\ layout.relations[y].exclusive
      BY <1>3, <2>2
    <3> QED BY <2>1, <3>1, TensorsApart
  <2>3. CASE ~Tasks[c].pin
    <3>1. x \in Live(layout, c) /\ y \in Live(layout, c)
      BY <1>3, <2>3
    <3>2. ~Handed(c, x, y) /\ ~Handed(c, y, x)
      BY <1>3, <1>6 DEF Handed, From
    <3> QED BY <2>1, <3>1, <3>2, TensorsApart
  <2> QED BY <2>2, <2>3
<1>8. Tasks[c].outs \in Seq(DOMAIN plan.size)
  BY <1>1, PlanTypes
<1>9. /\ ~(Tasks[c].pin /\ r > 1) => \A y \in outs : TensorValue(y, r) \in m
      /\ \A w \in held : (\A y \in outs : ~Overwritten(w, TensorValue(y, r))) => w \in m
  BY <1>7, <1>8, WritesAll
<1>10. Tasks[c].pin /\ r > 1 => m = held
  OBVIOUS
<1> HIDE DEF m, k, outs
<1>11. TensorsHeld(m, r, c, k)
  <2> SUFFICES ASSUME NEW x \in DOMAIN plan.size, Computed(x, c, k), ~layout.relations[x].exclusive,
                      Needed(plan, x, c), ~Spent(x, c, k)
               PROVE  TensorValue(x, r) \in m
    BY DEF TensorsHeld
  <2>1. CASE x \in outs
    <3>1. ~Tasks[c].pin
      BY <1>3, <2>1
    <3> QED BY <1>9, <2>1, <3>1
  <2>2. CASE x \notin outs
    <3>1. Computed(x, c, s) /\ x \in Live(layout, c)
      BY <1>4, <2>2, ComputedLive
    <3>2. TensorValue(x, r) \in held
      BY <1>5, <3>1 DEF MemOf, TensorsHeld
    <3>3. ASSUME NEW y \in outs PROVE ~Overwritten(TensorValue(x, r), TensorValue(y, r))
      <4>1. y \in DOMAIN plan.size /\ x # y
        BY <1>3, <2>2, <3>3
      <4>2. CASE Tasks[c].pin
        <5>1. layout.relations[x].exclusive # layout.relations[y].exclusive
          BY <1>3, <3>3, <4>2
        <5> QED BY <4>1, <5>1, TensorsApart
      <4>3. CASE ~Tasks[c].pin
        <5>1. y \in Live(layout, c)
          BY <1>3, <3>3, <4>3
        <5>2. ~Handed(c, y, x)
          BY <1>3, <1>6, <3>3 DEF Handed, From
        <5>3. ~Handed(c, x, y)
          BY <1>2 DEF Handed, Spent, From
        <5> QED BY <3>1, <4>1, <5>1, <5>2, <5>3, TensorsApart
      <4> QED BY <4>2, <4>3
    <3> QED BY <1>9, <3>2, <3>3
  <2> QED BY <2>1, <2>2
<1>12. ASSUME NEW x \in DOMAIN plan.size, layout.relations[x].exclusive, x \notin outs, NEW q
       PROVE  TensorValue(x, q) \in held => TensorValue(x, q) \in m
  <2>1. ASSUME NEW y \in outs PROVE ~Overwritten(TensorValue(x, q), TensorValue(y, r))
    <3>1. y \in DOMAIN plan.size /\ x # y /\ layout.relations[y].exclusive \in BOOLEAN
      BY <1>1, <1>3, <1>12, <2>1
    <3>2. CASE layout.relations[y].exclusive
      BY <1>12, <3>1, <3>2, TensorsApart
    <3>3. CASE ~layout.relations[y].exclusive
      <4>1. layout.relations[x].exclusive # layout.relations[y].exclusive
        BY <1>12, <3>3
      <4> QED BY <3>1, <4>1, TensorsApart
    <3> QED BY <3>2, <3>3
  <2> QED BY <1>9, <2>1
<1>13. PinnedHeld(m, r, c, k)
  <2> SUFFICES ASSUME NEW x \in Pinned(plan, TaskNum + 1), r > 1 \/ Computed(x, c, k)
               PROVE  TensorValue(x, 1) \in m
    BY DEF PinnedHeld
  <2>1. x \in DOMAIN plan.size /\ layout.relations[x].exclusive
    BY LastingIs
  <2>2. CASE r > 1
    <3>1. TensorValue(x, 1) \in held
      BY <2>2 DEF MemOf, PinnedHeld
    <3>2. CASE x \in outs
      <4>1. Tasks[c].pin
        BY <1>3, <3>2
      <4> QED BY <1>10, <2>2, <3>1, <4>1
    <3> QED BY <1>12, <2>1, <3>1, <3>2
  <2>3. CASE ~(r > 1)
    <3>1. r = 1
      BY <2>3
    <3>2. CASE x \in outs
      BY <1>9, <3>1, <3>2
    <3>3. CASE x \notin outs
      <4>1. TensorValue(x, 1) \in held
        BY <1>4, <2>3, <3>3 DEF MemOf, PinnedHeld
      <4> QED BY <1>12, <2>1, <3>3, <4>1
    <3> QED BY <3>2, <3>3
  <2> QED BY <2>2, <2>3
<1>14. WeightsHeld(m)
  <2> SUFFICES ASSUME NEW x \in Weights PROVE TensorValue(x, 0) \in m
    BY DEF WeightsHeld
  <2>1. x \in DOMAIN plan.size /\ layout.relations[x].exclusive /\ x \notin outs
    BY <1>3, LastingIs
  <2>2. TensorValue(x, 0) \in held
    BY DEF MemOf, WeightsHeld
  <2> QED BY <1>12, <2>1, <2>2
<1>15. ASSUME NEW i \in DOMAIN Tasks, NEW h \in InnerAt(i), Tasks[i].inner[h].exclusive \/ i = c, NEW q
       PROVE  InnerValue(i, h, q) \in held => InnerValue(i, h, q) \in m
  <2>1. ASSUME NEW y \in outs PROVE ~Overwritten(InnerValue(i, h, q), TensorValue(y, r))
    <3>1. y \in DOMAIN plan.size /\ layout.relations[y].exclusive \in BOOLEAN
          /\ Tasks[i].inner[h].exclusive \in BOOLEAN
      BY <1>1, <1>3, <2>1
    <3>2. \/ layout.relations[y].exclusive # Tasks[i].inner[h].exclusive
          \/ layout.relations[y].exclusive /\ Tasks[i].inner[h].exclusive
          \/ y \in Live(layout, i) /\ ~Tasks[i].inner[h].exclusive
      <4>1. CASE layout.relations[y].exclusive
        BY <3>1, <4>1
      <4>2. CASE ~layout.relations[y].exclusive
        <5>1. y \in Live(layout, c)
          BY <1>3, <2>1, <4>2
        <5> QED BY <1>15, <3>1, <4>2, <5>1
      <4> QED BY <4>1, <4>2
    <3>3. ~Overwritten(TensorValue(y, r), InnerValue(i, h, q))
      BY <3>1, <3>2, TensorInnerApart
    <3> QED BY <3>3, OverwrittenBoth
  <2> QED BY <1>9, <2>1
<1>16. ScratchHeld(m, r, c, k)
  <2> SUFFICES ASSUME NEW h \in InnerAt(c), ~Tasks[c].inner[h].exclusive
               PROVE  InnerValue(c, h, r) \in m
    BY DEF ScratchHeld
  <2>1. h <= s
    BY <1>1, <1>2
  <2>2. InnerValue(c, h, r) \in held
    BY <2>1 DEF MemOf, ScratchHeld
  <2> QED BY <1>15, <2>2
<1>17. PrivateHeld(m, r, c, k)
  <2> SUFFICES ASSUME NEW i \in DOMAIN Tasks, NEW h \in InnerAt(i), Tasks[i].inner[h].exclusive,
                      r > 1 \/ i < c \/ (i = c /\ h <= k)
               PROVE  \E q : InnerValue(i, h, q) \in m
    BY DEF PrivateHeld
  <2>1. r > 1 \/ i < c \/ (i = c /\ h <= s)
    BY <1>1, <1>2
  <2>2. PICK q : InnerValue(i, h, q) \in held
    BY <2>1 DEF MemOf, PrivateHeld
  <2> QED BY <1>15, <2>2
<1>18. MemOf(m, r, c, k)
  BY <1>11, <1>13, <1>14, <1>16, <1>17 DEF MemOf
<1> QED
  BY <1>18 DEF m, k

(* The next task begins.                                                    *)
LEMMA AdvanceStep ==
  ASSUME Ready, NEW held, NEW r \in Nat, NEW c \in DOMAIN Tasks, NEW s, s = Stages(c), MemOf(held, r, c, s)
  PROVE  MemOf(held, r, c + 1, 0)
<1>1. /\ \A i \in DOMAIN Tasks : /\ Len(Tasks[i].inner) \in Nat /\ InnerAt(i) = 1 .. Len(Tasks[i].inner)
                                 /\ i \in Nat
      /\ IsPlan(plan) /\ Valid(plan) /\ Tasks = plan.tasks /\ c > 0
  <2>1. DOMAIN Tasks = 1 .. TaskNum /\ TaskNum \in Nat
    BY ReadyIs DEF Ready
  <2> QED BY <2>1, ReadyIs DEF Ready, Tasks
<1>2. \A j \in DOMAIN Tasks : Done(j, c + 1, 0) => Done(j, c, s)
  BY <1>1 DEF Done, Stages
<1>3. \A x : Computed(x, c + 1, 0) => Computed(x, c, s)
  BY <1>1, <1>2 DEF Computed
<1>4. \A x : Needed(plan, x, c + 1) => Needed(plan, x, c) /\ ~Spent(x, c, s)
  <2> SUFFICES ASSUME NEW x, Needed(plan, x, c + 1) PROVE Needed(plan, x, c) /\ ~Spent(x, c, s)
    OBVIOUS
  <2>1. Needed(plan, x, c)
    BY <1>1, NeededNext
  <2>2. ASSUME Spent(x, c, s) PROVE FALSE
    <3>1. Consumers(plan, x) = {c}
      BY <1>1, <2>2 DEF Valid, Spent, From
    <3>2. c \in Nat /\ ~(c >= c + 1)
      BY <1>1
    <3> QED BY <3>1, <3>2 DEF Needed
  <2> QED BY <2>1, <2>2
<1>5. TensorsHeld(held, r, c + 1, 0)
  BY <1>3, <1>4 DEF MemOf, TensorsHeld
<1>6. PinnedHeld(held, r, c + 1, 0)
  BY <1>3 DEF MemOf, PinnedHeld
<1>7. ScratchHeld(held, r, c + 1, 0)
  <2>1. c + 1 \in DOMAIN Tasks => \A k \in InnerAt(c + 1) : ~(k <= 0)
    BY <1>1
  <2> QED BY <2>1 DEF ScratchHeld
<1>8. PrivateHeld(held, r, c + 1, 0)
  <2> SUFFICES ASSUME NEW i \in DOMAIN Tasks, NEW h \in InnerAt(i), Tasks[i].inner[h].exclusive,
                      r > 1 \/ i < c + 1 \/ (i = c + 1 /\ h <= 0)
               PROVE  \E q : InnerValue(i, h, q) \in held
    BY DEF PrivateHeld
  <2>1. h \in 1 .. Len(Tasks[i].inner) /\ i \in Nat /\ c \in Nat /\ Len(Tasks[i].inner) \in Nat
    BY <1>1
  <2>2. i = c => h <= s
    BY <2>1 DEF Stages
  <2>3. r > 1 \/ i < c \/ (i = c /\ h <= s)
    BY <2>1, <2>2
  <2> QED BY <2>3 DEF MemOf, PrivateHeld
<1> QED
  BY <1>5, <1>6, <1>7, <1>8 DEF MemOf

(* The next execution begins.                                               *)
LEMMA AgainStep ==
  ASSUME Ready, NEW held, NEW r \in Nat \ {0}, NEW s, NEW t, MemOf(held, r, TaskNum + 1, s)
  PROVE  MemOf(held, r + 1, 0, t)
<1>1. /\ DOMAIN Tasks = 1 .. TaskNum /\ TaskNum \in Nat /\ Tasks = plan.tasks
      /\ \A i \in DOMAIN Tasks : i \in Nat /\ i < TaskNum + 1
  BY ReadyIs DEF Ready, Tasks
<1>2. \A x \in Pinned(plan, TaskNum + 1) : Computed(x, TaskNum + 1, s)
  <2>1. \A j \in DOMAIN Tasks : Done(j, TaskNum + 1, s)
    BY <1>1 DEF Done
  <2> QED BY <1>1, <2>1 DEF Pinned, Computed
<1>3. TensorsHeld(held, r + 1, 0, t)
  BY DEF TensorsHeld, Computed
<1>4. PinnedHeld(held, r + 1, 0, t)
  BY <1>2 DEF MemOf, PinnedHeld
<1>5. ScratchHeld(held, r + 1, 0, t)
  BY <1>1 DEF ScratchHeld
<1>6. PrivateHeld(held, r + 1, 0, t)
  BY <1>1 DEF MemOf, PrivateHeld
<1> QED
  BY <1>3, <1>4, <1>5, <1>6 DEF MemOf

(* The inputs are copied in.                                                *)
LEMMA CopyStep ==
  ASSUME Ready, NEW held, NEW r \in Nat \ {0}, NEW s, MemOf(held, r, 0, s)
  PROVE  MemOf(AllWritten(held, SetToSeq(InputsOf(plan)), r), r, 1, 0)
<1> DEFINE inputs == InputsOf(plan)
           m == AllWritten(held, SetToSeq(inputs), r)
<1>1. /\ \A i \in DOMAIN Tasks : /\ Len(Tasks[i].inner) \in Nat /\ InnerAt(i) = 1 .. Len(Tasks[i].inner)
                                 /\ i \in Nat /\ i >= 1
      /\ IsPlan(plan) /\ Tasks = plan.tasks /\ DOMAIN Tasks = 1 .. TaskNum /\ TaskNum \in Nat \ {0}
      /\ 1 \in DOMAIN Tasks
  <2>1. DOMAIN Tasks = 1 .. TaskNum /\ TaskNum \in Nat \ {0}
    BY ReadyIs DEF Ready
  <2> QED BY <2>1, ReadyIs DEF Ready, Tasks
<1>2. IsFiniteSet(inputs)
  BY <1>1, InputsFinite
<1>3. SetToSeq(inputs) \in Seq(inputs) /\ ToSet(SetToSeq(inputs)) = inputs
  BY <1>2, SetInOrder
<1>4. \A x \in inputs : /\ x \in DOMAIN plan.size /\ ~layout.relations[x].exclusive
                        /\ x \notin Pinned(plan, TaskNum + 1) /\ x \notin Weights
  BY LastingIs
<1>5. \A x \in inputs : x \in Live(layout, 1) /\ x \notin ToSet(Tasks[1].outs)
  <2> SUFFICES ASSUME NEW x \in inputs PROVE x \in Live(layout, 1) /\ x \notin ToSet(Tasks[1].outs)
    OBVIOUS
  <2>1. x \in PlacedBefore(plan, 1 + 1)
    BY DEF PlacedBefore
  <2>2. Needed(plan, x, 1)
    <3>1. PICK j \in DOMAIN Tasks : x \in ToSet(Tasks[j].ins)
      BY <1>1 DEF InputsOf
    <3> QED BY <1>1, <3>1 DEF Needed, Consumers
  <2>3. x \notin ToSet(Tasks[1].outs)
    BY <1>1 DEF InputsOf, Produced
  <2> QED BY <1>4, <2>1, <2>2, <2>3 DEF Live
<1>6. \A x, y \in inputs : ~Handed(1, x, y)
  <2>1. Tasks[1].inplace > 0 => Tasks[1].outs[1] \in ToSet(Tasks[1].outs)
    <3>1. Tasks[1].inplace > 0 => Len(Tasks[1].outs) = 1
      BY <1>1 DEF IsPlan
    <3>2. Tasks[1].outs \in Seq(DOMAIN plan.size)
      BY <1>1, PlanTypes
    <3> QED BY <3>1, <3>2 DEF ToSet
  <2> QED BY <1>5, <2>1 DEF Handed
<1>7. \A x, y \in inputs : x # y => ~Overwritten(TensorValue(x, r), TensorValue(y, r))
  <2> SUFFICES ASSUME NEW x \in inputs, NEW y \in inputs, x # y
               PROVE  ~Overwritten(TensorValue(x, r), TensorValue(y, r))
    OBVIOUS
  <2>1. x \in DOMAIN plan.size /\ y \in DOMAIN plan.size /\ x \in Live(layout, 1) /\ y \in Live(layout, 1)
        /\ ~Handed(1, x, y) /\ ~Handed(1, y, x)
    BY <1>4, <1>5, <1>6
  <2> QED BY <1>1, <2>1, TensorsApart
<1>8. /\ \A y \in inputs : TensorValue(y, r) \in m
      /\ \A w \in held : (\A y \in inputs : ~Overwritten(w, TensorValue(y, r))) => w \in m
  <2> DEFINE q == SetToSeq(inputs)
  <2> HIDE DEF q, inputs
  <2>1. q \in Seq(inputs) /\ ToSet(q) = inputs
    BY <1>3 DEF q
  <2>2. /\ \A y \in inputs : TensorValue(y, r) \in AllWritten(held, q, r)
        /\ \A w \in held : (\A y \in inputs : ~Overwritten(w, TensorValue(y, r))) =>
             w \in AllWritten(held, q, r)
    BY <1>7, <2>1, WritesAll
  <2> QED BY <2>2 DEF q
<1> HIDE DEF m, inputs
<1>9. ASSUME NEW x \in DOMAIN plan.size, layout.relations[x].exclusive, NEW q
      PROVE  TensorValue(x, q) \in held => TensorValue(x, q) \in m
  <2>1. ASSUME NEW y \in inputs PROVE ~Overwritten(TensorValue(x, q), TensorValue(y, r))
    <3>1. y \in DOMAIN plan.size /\ layout.relations[x].exclusive # layout.relations[y].exclusive
      BY <1>4, <1>9, <2>1
    <3> QED BY <3>1, TensorsApart
  <2> QED BY <1>8, <2>1
<1>10. \A x : Computed(x, 1, 0) => x \in inputs
  <2>1. \A j \in DOMAIN Tasks : ~Done(j, 1, 0)
    BY <1>1 DEF Done, Stages
  <2> QED BY <2>1 DEF Computed, inputs
<1>11. TensorsHeld(m, r, 1, 0)
  BY <1>8, <1>10 DEF TensorsHeld
<1>12. PinnedHeld(m, r, 1, 0)
  <2> SUFFICES ASSUME NEW x \in Pinned(plan, TaskNum + 1), r > 1 \/ Computed(x, 1, 0)
               PROVE  TensorValue(x, 1) \in m
    BY DEF PinnedHeld
  <2>1. r > 1
    BY <1>4, <1>10
  <2>2. TensorValue(x, 1) \in held
    BY <2>1 DEF MemOf, PinnedHeld
  <2>3. x \in DOMAIN plan.size /\ layout.relations[x].exclusive
    BY LastingIs
  <2> QED BY <1>9, <2>2, <2>3
<1>13. WeightsHeld(m)
  <2>1. \A x \in Weights : x \in DOMAIN plan.size /\ layout.relations[x].exclusive
    BY LastingIs
  <2> QED BY <1>9, <2>1 DEF MemOf, WeightsHeld
<1>14. ScratchHeld(m, r, 1, 0)
  <2>1. \A k \in InnerAt(1) : ~(k <= 0)
    BY <1>1
  <2> QED BY <2>1 DEF ScratchHeld
<1>15. PrivateHeld(m, r, 1, 0)
  <2> SUFFICES ASSUME NEW i \in DOMAIN Tasks, NEW h \in InnerAt(i), Tasks[i].inner[h].exclusive,
                      r > 1 \/ i < 1 \/ (i = 1 /\ h <= 0)
               PROVE  \E q : InnerValue(i, h, q) \in m
    BY DEF PrivateHeld
  <2>1. r > 1
    BY <1>1
  <2>2. PICK q : InnerValue(i, h, q) \in held
    BY <2>1 DEF MemOf, PrivateHeld
  <2>3. ASSUME NEW y \in inputs PROVE ~Overwritten(InnerValue(i, h, q), TensorValue(y, r))
    <3>1. y \in DOMAIN plan.size /\ layout.relations[y].exclusive # Tasks[i].inner[h].exclusive
      BY <1>4, <2>3
    <3>2. ~Overwritten(TensorValue(y, r), InnerValue(i, h, q))
      BY <3>1, TensorInnerApart
    <3> QED BY <3>2, OverwrittenBoth
  <2> QED BY <1>8, <2>2, <2>3
<1>16. MemOf(m, r, 1, 0)
  BY <1>11, <1>12, <1>13, <1>14, <1>15 DEF MemOf
<1> QED
  BY <1>16 DEF m, inputs

(* The weights are copied, and stay: each has a block of its own.           *)
LEMMA AssignStep ==
  ASSUME Ready, NEW held, NEW t
  PROVE  MemOf(FoldLeft(TaskAssigned, held, Tasks), 1, 0, t)
<1> DEFINE m == FoldLeft(TaskAssigned, held, Tasks)
           W(d) == UNION {WeightsOf(Tasks[j]) : j \in 1 .. d}
<1>1. /\ DOMAIN Tasks = 1 .. TaskNum /\ TaskNum \in Nat /\ TaskNum = Len(Tasks)
      /\ \A i \in DOMAIN Tasks : Tasks[i].weights \in Seq(DOMAIN plan.size) /\ i \in Nat /\ ~(i < 0) /\ i # 0
  <2>1. DOMAIN Tasks = 1 .. TaskNum /\ TaskNum \in Nat /\ Tasks = plan.tasks /\ IsPlan(plan)
    BY ReadyIs DEF Ready, Tasks
  <2> QED BY <2>1, PlanTypes DEF TaskNum
<1>2. PICK p : Stepwise(p, "assign", 0, held, Tasks) /\ m = p[TaskNum]
  BY <1>1, AssignFold
<1>3. \A d \in 1 .. TaskNum : p[d] = AllWritten(p[d - 1], Tasks[d].weights, 0)
  BY <1>1, <1>2 DEF Stepwise, Step, TaskAssigned
<1>4. \A x, y \in Weights : x # y => ~Overwritten(TensorValue(x, 0), TensorValue(y, 0))
  <2> SUFFICES ASSUME NEW x \in Weights, NEW y \in Weights, x # y
               PROVE  ~Overwritten(TensorValue(x, 0), TensorValue(y, 0))
    OBVIOUS
  <2>1. /\ x \in DOMAIN plan.size /\ layout.relations[x].exclusive
        /\ y \in DOMAIN plan.size /\ layout.relations[y].exclusive
    BY LastingIs
  <2> QED BY <2>1, TensorsApart
<1> DEFINE S == {d \in 0 .. TaskNum : \A x \in W(d) : TensorValue(x, 0) \in p[d]}
<1>5. 0 \in S
  BY <1>1
<1>6. ASSUME NEW d \in 1 .. TaskNum, d - 1 \in S PROVE d \in S
  <2> DEFINE s == Tasks[d].weights
             h == p[d - 1]
  <2>1. d \in 0 .. TaskNum /\ d \in DOMAIN Tasks
    BY <1>1
  <2>2. \A x \in W(d - 1) : TensorValue(x, 0) \in h
    BY <1>6
  <2>3. ToSet(s) \subseteq Weights /\ ToSet(s) = WeightsOf(Tasks[d])
    BY <2>1 DEF Weights, WeightsOf
  <2>4. s \in Seq(DOMAIN plan.size)
    BY <1>1, <2>1
  <2>5. p[d] = AllWritten(h, s, 0)
    BY <1>3
  <2>6. W(d) = W(d - 1) \cup ToSet(s) /\ W(d - 1) \subseteq Weights
    <3>1. 1 .. d = 1 .. d - 1 \cup {d} /\ 1 .. d - 1 \subseteq DOMAIN Tasks
      BY <1>1
    <3> QED BY <2>3, <3>1 DEF Weights
  <2> HIDE DEF s, h, W
  <2>7. /\ \A w \in h : (\A x \in ToSet(s) : ~Overwritten(w, TensorValue(x, 0))) => w \in p[d]
        /\ \A x \in ToSet(s) : TensorValue(x, 0) \in p[d]
    <3>1. \A x, y \in ToSet(s) : x # y => ~Overwritten(TensorValue(x, 0), TensorValue(y, 0))
      BY <1>4, <2>3
    <3> QED BY <2>4, <2>5, <3>1, WritesAll
  <2>8. ASSUME NEW x \in W(d) PROVE TensorValue(x, 0) \in p[d]
    <3>1. CASE x \in ToSet(s)
      BY <2>7, <3>1
    <3>2. CASE x \notin ToSet(s)
      <4>1. x \in W(d - 1) /\ x \in Weights
        BY <2>6, <3>2
      <4>2. \A y \in ToSet(s) : ~Overwritten(TensorValue(x, 0), TensorValue(y, 0))
        BY <1>4, <2>3, <3>2, <4>1
      <4> QED BY <2>2, <2>7, <4>1, <4>2
    <3> QED BY <3>1, <3>2
  <2> QED BY <2>1, <2>8
<1>7. TaskNum \in S
  <2> HIDE DEF S
  <2> QED BY <1>1, <1>5, <1>6, Ascent
<1>8. WeightsHeld(m)
  <2>1. \A x \in W(TaskNum) : TensorValue(x, 0) \in p[TaskNum]
    BY <1>7
  <2>2. W(TaskNum) = Weights
    BY <1>1 DEF Weights
  <2> QED BY <1>2, <2>1, <2>2 DEF WeightsHeld
<1> HIDE DEF m
<1>9. TensorsHeld(m, 1, 0, t) /\ PinnedHeld(m, 1, 0, t)
  BY DEF TensorsHeld, PinnedHeld, Computed
<1>10. ScratchHeld(m, 1, 0, t)
  BY <1>1 DEF ScratchHeld
<1>11. PrivateHeld(m, 1, 0, t)
  BY <1>1 DEF PrivateHeld
<1>12. MemOf(m, 1, 0, t)
  BY <1>8, <1>9, <1>10, <1>11 DEF MemOf
<1> QED
  BY <1>12 DEF m

(* While the plan is executed, memory holds what the kernels rely on.       *)
MemInv ==
  /\ stage \in Nat
  /\ run > 0 => cur <= TaskNum + 1 /\ MemOf(content, run, cur, stage)

(* The layout is complete when it is executed.                              *)
LEMMA ReadyWhenRun ==
  ASSUME LayInv, run > 0 \/ (cur = TaskNum + 1 /\ ~layout.threw)
  PROVE  Ready
<1>1. Made = TaskNum + 1 /\ TaskNum \in Nat /\ Made > 0
  BY DEF LayInv, Made
<1>2. TaskNum > 0 /\ unplaced = {} /\ Laid(layout, Made, unplaced) /\ IsPlan(plan) /\ Valid(plan)
  BY <1>1 DEF LayInv
<1> QED
  BY <1>1, <1>2 DEF Ready

(* Every step of an execution keeps it, when the layout is sound.           *)
LEMMA NextMem == LayInv /\ MemInv /\ [LNext]_lvars => MemInv'
<1> SUFFICES ASSUME LayInv, MemInv, [LNext]_lvars PROVE MemInv'
  OBVIOUS
<1>0. TaskNum \in Nat /\ cur \in Nat /\ run \in Nat /\ stage \in Nat
  BY DEF LayInv, MemInv
<1>1. ASSUME run > 0, plan' = plan, layout' = layout, run' \in Nat, cur' \in Nat, stage' \in Nat,
             cur' <= TaskNum + 1, MemOf(content', run', cur', stage')
      PROVE  MemInv'
  <2>1. PICK h, r, c, s : h = content' /\ r = run' /\ c = cur' /\ s = stage'
    OBVIOUS
  <2>2. MemOf(h, r, c, s)
    BY <1>1, <2>1
  <2>3. MemOf(h, r, c, s)'
    BY <1>1, <2>2, MemSame
  <2>4. (MemOf(content, run, cur, stage))'
    BY <2>1, <2>3
  <2>5. TaskNum' = TaskNum
    BY <1>1 DEF TaskNum, Tasks
  <2> QED BY <1>1, <2>4, <2>5 DEF MemInv
<1>2. CASE UNCHANGED lvars
  <2>1. CASE run = 0
    BY <1>2, <2>1, <1>0 DEF lvars, MemInv
  <2>2. CASE run > 0
    BY <1>0, <1>1, <1>2, <2>2 DEF lvars, MemInv
  <2> QED BY <1>0, <2>1, <2>2
<1>3. CASE AddTask
  BY <1>0, <1>3 DEF AddTask, MemInv
<1>4. CASE StartLayout
  BY <1>0, <1>4 DEF StartLayout, MemInv
<1>5. ASSUME NEW x \in unplaced, PlaceInput(x) PROVE MemInv'
  <2>1. run = 0
    <3>1. Made > 0 => (unplaced # {} => Made = 1)
      BY DEF LayInv
    <3>2. Made > 0 /\ (run > 0 => Made = TaskNum + 1)
      BY <1>0 DEF LayInv, Made
    <3>3. Made > 0 => TaskNum > 0
      BY DEF LayInv
    <3> QED BY <1>0, <3>1, <3>2, <3>3
  <2> QED BY <1>0, <1>5, <2>1 DEF PlaceInput, MemInv
<1>6. CASE LayOutTask
  BY <1>0, <1>6 DEF LayOutTask, MemInv
<1>7. CASE AssignWeights
  <2>1. /\ run = 0 /\ cur = TaskNum + 1 /\ ~layout.threw
        /\ content' = FoldLeft(TaskAssigned, content, Tasks)
        /\ run' = 1 /\ cur' = 0 /\ plan' = plan /\ layout' = layout /\ stage' = stage
    BY <1>7 DEF AssignWeights
  <2>2. Ready
    BY <2>1, ReadyWhenRun
  <2>3. MemOf(content', 1, 0, stage)
    BY <2>1, <2>2, AssignStep
  <2>4. PICK h, r, c, s : h = content' /\ r = 1 /\ c = 0 /\ s = stage
    OBVIOUS
  <2>5. MemOf(h, r, c, s)'
    BY <2>1, <2>3, <2>4, MemSame
  <2>6. (MemOf(content, run, cur, stage))'
    <3>1. content' = h /\ run' = r /\ cur' = c /\ stage' = s
      BY <2>1, <2>4
    <3> QED BY <2>5, <3>1
  <2>7. TaskNum' = TaskNum
    BY <2>1 DEF TaskNum, Tasks
  <2> QED BY <1>0, <2>1, <2>6, <2>7 DEF MemInv
<1>8. CASE CopyInputs
  <2>1. /\ run > 0 /\ cur = 0 /\ cur' = 1 /\ stage' = 0
        /\ content' = AllWritten(content, SetToSeq(InputsOf(plan)), run)
        /\ plan' = plan /\ layout' = layout /\ run' = run
    BY <1>8 DEF CopyInputs
  <2>2. Ready /\ MemOf(content, run, 0, stage)
    BY <2>1, ReadyWhenRun DEF MemInv
  <2>3. MemOf(content', run', cur', stage')
    BY <1>0, <2>1, <2>2, CopyStep
  <2> QED BY <1>0, <1>1, <2>1, <2>3
<1>9. CASE FillInner
  <2>1. /\ run > 0 /\ cur \in 1 .. TaskNum /\ stage < Stages(cur) - 1
        /\ stage' = stage + 1 /\ content' = Written(content, InnerValue(cur, stage + 1, run))
        /\ plan' = plan /\ layout' = layout /\ run' = run /\ cur' = cur
    BY <1>9 DEF FillInner
  <2>2. Ready /\ MemOf(content, run, cur, stage)
    BY <2>1, ReadyWhenRun DEF MemInv
  <2>3. cur \in DOMAIN Tasks
    BY <2>1, <2>2, ReadyIs
  <2>4. MemOf(content', run', cur', stage')
    BY <1>0, <2>1, <2>2, <2>3, FillStep
  <2> QED BY <1>0, <1>1, <2>1, <2>4
<1>10. CASE WriteOutputs
  <2>1. /\ run > 0 /\ cur \in 1 .. TaskNum /\ stage = Stages(cur) - 1 /\ stage' = stage + 1
        /\ content' = IF Tasks[cur].pin /\ run > 1 THEN content
                      ELSE AllWritten(content, Tasks[cur].outs, run)
        /\ plan' = plan /\ layout' = layout /\ run' = run /\ cur' = cur
    BY <1>10 DEF WriteOutputs, Skips
  <2>2. Ready /\ MemOf(content, run, cur, stage)
    BY <2>1, ReadyWhenRun DEF MemInv
  <2>3. cur \in DOMAIN Tasks
    BY <2>1, <2>2, ReadyIs
  <2>4. MemOf(content', run', cur', stage')
    BY <1>0, <2>1, <2>2, <2>3, WriteStep
  <2> QED BY <1>0, <1>1, <2>1, <2>4
<1>11. CASE NextTask
  <2>1. /\ run > 0 /\ cur \in 1 .. TaskNum /\ stage = Stages(cur) /\ cur' = cur + 1 /\ stage' = 0
        /\ content' = content /\ plan' = plan /\ layout' = layout /\ run' = run
    BY <1>11 DEF NextTask
  <2>2. Ready /\ MemOf(content, run, cur, stage)
    BY <2>1, ReadyWhenRun DEF MemInv
  <2>3. cur \in DOMAIN Tasks
    BY <2>1, <2>2, ReadyIs
  <2>4. MemOf(content', run', cur', stage')
    BY <1>0, <2>1, <2>2, <2>3, AdvanceStep
  <2> QED BY <1>0, <1>1, <2>1, <2>4
<1>12. CASE NextRun
  <2>1. /\ run > 0 /\ cur = TaskNum + 1 /\ run' = run + 1 /\ cur' = 0 /\ stage' = stage
        /\ content' = content /\ plan' = plan /\ layout' = layout
    BY <1>0, PlanAssumption, <1>12 DEF NextRun
  <2>2. Ready /\ MemOf(content, run, TaskNum + 1, stage)
    BY <2>1, ReadyWhenRun DEF MemInv
  <2>3. MemOf(content', run', cur', stage')
    BY <1>0, <2>1, <2>2, AgainStep
  <2> QED BY <1>0, <1>1, <2>1, <2>3
<1> QED
  BY <1>2, <1>3, <1>4, <1>5, <1>6, <1>7, <1>8, <1>9, <1>10, <1>11, <1>12 DEF LNext

(* Memory holds what the kernels rely on at every step of every execution.  *)
LEMMA MemInvariant == LSpec => []MemInv
<1>1. LInit => MemInv
  BY DEF LInit, MemInv
<1> QED
  BY <1>1, NextMem, LayInvariant, PTL DEF LSpec

(* A value that is held is intact, and so is one of the static arena that   *)
(* an earlier execution wrote.                                              *)
LEMMA IntactIs ==
  /\ \A x, r : TensorValue(x, r) \in content => Intact(TensorValue(x, r))
  /\ \A x, r, q : layout.relations[x].exclusive /\ TensorValue(x, q) \in content
       => Intact(TensorValue(x, r))
  /\ \A i, k, r : InnerValue(i, k, r) \in content => Intact(InnerValue(i, k, r))
  /\ \A i, k, r, q : layout.inner[i][k].exclusive /\ InnerValue(i, k, q) \in content
       => Intact(InnerValue(i, k, r))
<1>1. \A x, r, q : /\ TensorValue(x, q).name = TensorValue(x, r).name
                   /\ TensorValue(x, q).owner = TensorValue(x, r).owner
                   /\ TensorValue(x, q).exclusive = TensorValue(x, r).exclusive
                   /\ TensorValue(x, q).v_block = TensorValue(x, r).v_block
                   /\ TensorValue(x, q).exclusive = layout.relations[x].exclusive
  BY DEF TensorValue
<1>2. \A i, k, r, q : /\ InnerValue(i, k, q).name = InnerValue(i, k, r).name
                      /\ InnerValue(i, k, q).owner = InnerValue(i, k, r).owner
                      /\ InnerValue(i, k, q).exclusive = InnerValue(i, k, r).exclusive
                      /\ InnerValue(i, k, q).v_block = InnerValue(i, k, r).v_block
                      /\ InnerValue(i, k, q).exclusive = layout.inner[i][k].exclusive
  BY DEF InnerValue
<1> QED
  BY <1>1, <1>2 DEF Intact

(* A kernel finds every operand, weight and private buffer as it was last   *)
(* written: reusing memory is invisible to it.                              *)
THEOREM OperandsCorrect == LSpec => []OperandsIntact
<1>1. LayInv /\ MemInv => OperandsIntact
  <2> SUFFICES ASSUME LayInv, MemInv, run > 0, cur \in 1 .. TaskNum
               PROVE  /\ \A k \in DOMAIN Tasks[cur].ins :
                           \/ stage = Stages(cur) /\ Tasks[cur].inplace > 0
                                /\ Tasks[cur].ins[k] = Tasks[cur].ins[Tasks[cur].inplace]
                           \/ Intact(TensorValue(Tasks[cur].ins[k], run))
                      /\ \A w \in WeightsOf(Tasks[cur]) : Intact(TensorValue(w, 0))
                      /\ \A k \in DOMAIN Tasks[cur].inner :
                           (k <= stage \/ (Tasks[cur].inner[k].exclusive /\ run > 1))
                             => Intact(InnerValue(cur, k, run))
    BY DEF OperandsIntact
  <2>1. Ready /\ MemOf(content, run, cur, stage)
    BY ReadyWhenRun DEF MemInv
  <2>2. /\ cur \in DOMAIN Tasks /\ IsPlan(plan) /\ Tasks = plan.tasks /\ TaskNum \in Nat
        /\ \A j \in DOMAIN Tasks : j \in Nat /\ j < TaskNum + 1
        /\ Tasks[cur].ins \in Seq(DOMAIN plan.size)
    <3>1. IsPlan(plan) /\ Tasks = plan.tasks /\ TaskNum \in Nat /\ DOMAIN Tasks = 1 .. TaskNum
      BY <2>1, ReadyIs DEF Ready, Tasks
    <3>2. cur \in DOMAIN Tasks
      BY <3>1
    <3> QED BY <3>1, <3>2, PlanTypes
  <2>3. ASSUME NEW k \in DOMAIN Tasks[cur].ins
        PROVE  \/ stage = Stages(cur) /\ Tasks[cur].inplace > 0
                    /\ Tasks[cur].ins[k] = Tasks[cur].ins[Tasks[cur].inplace]
               \/ Intact(TensorValue(Tasks[cur].ins[k], run))
    <3> DEFINE x == Tasks[cur].ins[k]
    <3>1. x \in ToSet(Tasks[cur].ins) /\ x \in DOMAIN plan.size
      BY <2>2, <2>3 DEF ToSet
    <3> HIDE DEF x
    <3>2. Computed(x, cur, stage)
      <4>1. CASE x \in Produced(plan)
        <5>1. PICK j \in DOMAIN Tasks : x \in ToSet(Tasks[j].outs)
          BY <2>2, <4>1 DEF Produced
        <5>2. j < cur
          BY <2>2, <3>1, <5>1, PlanOrder
        <5> QED BY <2>2, <5>1, <5>2 DEF Computed, Done
      <4>2. CASE x \notin Produced(plan)
        BY <2>2, <3>1, <4>2 DEF Computed, InputsOf
      <4> QED BY <4>1, <4>2
    <3>3. Needed(plan, x, cur)
      BY <2>2, <3>1 DEF Needed, Consumers
    <3>4. CASE layout.relations[x].exclusive
      <4>1. x \notin Weights
        <5>1. \A i \in DOMAIN Tasks : \A w \in WeightsOf(Tasks[i]) : w \notin ToSet(Tasks[cur].ins)
          BY <2>2, PlanOrder
        <5> QED BY <3>1, <5>1 DEF Weights
      <4>2. x \in Pinned(plan, TaskNum + 1)
        BY <2>1, <3>1, <3>4, <4>1, ReadyIs
      <4>3. TensorValue(x, 1) \in content
        BY <2>1, <3>2, <4>2 DEF MemOf, PinnedHeld
      <4>4. Intact(TensorValue(x, run))
        BY <3>4, <4>3, IntactIs
      <4> QED BY <4>4 DEF x
    <3>5. CASE ~layout.relations[x].exclusive /\ ~Spent(x, cur, stage)
      <4>1. TensorValue(x, run) \in content
        BY <2>1, <3>1, <3>2, <3>3, <3>5 DEF MemOf, TensorsHeld
      <4>2. Intact(TensorValue(x, run))
        BY <4>1, IntactIs
      <4> QED BY <4>2 DEF x
    <3>6. CASE Spent(x, cur, stage)
      BY <3>6 DEF Spent, From, x
    <3> QED BY <3>4, <3>5, <3>6
  <2>4. ASSUME NEW w \in WeightsOf(Tasks[cur]) PROVE Intact(TensorValue(w, 0))
    <3>1. w \in Weights
      BY <2>2, <2>4 DEF Weights
    <3>2. TensorValue(w, 0) \in content
      BY <2>1, <3>1 DEF MemOf, WeightsHeld
    <3> QED BY <3>2, IntactIs
  <2>5. ASSUME NEW k \in DOMAIN Tasks[cur].inner, k <= stage \/ (Tasks[cur].inner[k].exclusive /\ run > 1)
        PROVE  Intact(InnerValue(cur, k, run))
    <3>1. /\ k \in InnerAt(cur) /\ layout.inner[cur][k].exclusive = Tasks[cur].inner[k].exclusive
          /\ Tasks[cur].inner[k].exclusive \in BOOLEAN
      <4>1. k \in InnerAt(cur)
        BY DEF InnerAt
      <4> QED BY <2>1, <2>2, <4>1, ReadyIs
    <3>2. CASE Tasks[cur].inner[k].exclusive
      <4>1. PICK q : InnerValue(cur, k, q) \in content
        BY <2>1, <2>2, <2>5, <3>1, <3>2 DEF MemOf, PrivateHeld
      <4>2. layout.inner[cur][k].exclusive
        BY <3>1, <3>2
      <4> QED BY <4>1, <4>2, IntactIs
    <3>3. CASE ~Tasks[cur].inner[k].exclusive
      <4>1. InnerValue(cur, k, run) \in content
        BY <2>1, <2>2, <2>5, <3>1, <3>3 DEF MemOf, ScratchHeld
      <4> QED BY <4>1, IntactIs
    <3> QED BY <3>1, <3>2, <3>3
  <2> QED BY <2>3, <2>4, <2>5
<1> QED
  BY <1>1, LayInvariant, MemInvariant, PTL

(* When an execution has ended, every output of the graph holds what it     *)
(* computed.                                                                *)
THEOREM OutputsCorrect == LSpec => []OutputsIntact
<1>1. LayInv /\ MemInv => OutputsIntact
  <2> SUFFICES ASSUME LayInv, MemInv, run > 0, cur = TaskNum + 1,
                      NEW x \in Produced(plan), Consumers(plan, x) = {}
               PROVE  Intact(TensorValue(x, run))
    BY DEF OutputsIntact
  <2>1. Ready /\ MemOf(content, run, TaskNum + 1, stage)
    BY ReadyWhenRun DEF MemInv
  <2>2. /\ IsPlan(plan) /\ Tasks = plan.tasks /\ TaskNum \in Nat /\ DOMAIN Tasks = 1 .. TaskNum
        /\ TaskNum + 1 \notin DOMAIN Tasks
        /\ \A j \in DOMAIN Tasks : j \in Nat /\ j < TaskNum + 1
    BY <2>1, ReadyIs DEF Ready, Tasks
  <2>3. PICK j \in DOMAIN Tasks : x \in ToSet(Tasks[j].outs)
    BY <2>2 DEF Produced
  <2>4. x \in DOMAIN plan.size /\ x \notin Weights
    BY <2>1, <2>3, OutsAre
  <2>5. Computed(x, TaskNum + 1, stage)
    BY <2>2, <2>3 DEF Computed, Done
  <2>6. CASE layout.relations[x].exclusive
    <3>1. x \in Pinned(plan, TaskNum + 1)
      BY <2>1, <2>4, <2>6, ReadyIs
    <3>2. TensorValue(x, 1) \in content
      BY <2>1, <2>5, <3>1 DEF MemOf, PinnedHeld
    <3> QED BY <2>6, <3>2, IntactIs
  <2>7. CASE ~layout.relations[x].exclusive
    <3>1. Needed(plan, x, TaskNum + 1) /\ ~Spent(x, TaskNum + 1, stage)
      BY <2>2 DEF Needed, Spent
    <3>2. TensorValue(x, run) \in content
      BY <2>1, <2>4, <2>5, <2>7, <3>1 DEF MemOf, TensorsHeld
    <3> QED BY <3>2, IntactIs
  <2> QED BY <2>6, <2>7
<1> QED
  BY <1>1, LayInvariant, MemInvariant, PTL
=============================================================================
