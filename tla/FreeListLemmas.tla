--------------------------- MODULE FreeListLemmas ---------------------------
(***************************************************************************)
(* Lemmas about the free list of a page pool: what allocating and freeing   *)
(* do to the elements of the list and to the partition of the pages.        *)
(***************************************************************************)
EXTENDS FreeList, TLAPS

-----------------------------------------------------------------------------
(* Facts about the elements of sequences.                                   *)

(* Membership in Range, by an index.                                     *)
LEMMA InRange ==
  ASSUME NEW S, NEW s \in Seq(S), NEW x
  PROVE  x \in Range(s) <=> \E i \in 1 .. Len(s) : s[i] = x
BY DEF Range

(* IsInjective, by indices.                                                   *)
LEMMA InjectiveByIndex ==
  ASSUME NEW S, NEW s \in Seq(S)
  PROVE  IsInjective(s) <=> \A i, j \in 1 .. Len(s) : s[i] = s[j] => i = j
BY DEF IsInjective

(* A sequence that is a followed by b has the elements of both, and is      *)
(* distinct exactly when both are and they have none in common.             *)
LEMMA Concatenation ==
  ASSUME NEW S, NEW s \in Seq(S), NEW a \in Seq(S), NEW b \in Seq(S),
         Len(s) = Len(a) + Len(b),
         \A i \in 1 .. Len(a) : s[i] = a[i],
         \A i \in 1 .. Len(b) : s[Len(a) + i] = b[i]
  PROVE  /\ Range(s) = Range(a) \cup Range(b)
         /\ IsInjective(s) <=>
              (IsInjective(a) /\ IsInjective(b) /\ Range(a) \cap Range(b) = {})
<1>1. Len(a) \in Nat /\ Len(b) \in Nat
  OBVIOUS
<1>2. ASSUME NEW i \in 1 .. Len(s)
      PROVE  \/ i \in 1 .. Len(a) /\ s[i] = a[i]
             \/ i - Len(a) \in 1 .. Len(b) /\ s[i] = b[i - Len(a)]
  <2>1. CASE i <= Len(a)
    BY <1>1, <2>1
  <2>2. CASE i > Len(a)
    <3>1. i - Len(a) \in 1 .. Len(b) /\ Len(a) + (i - Len(a)) = i
      BY <1>1, <2>2
    <3> QED BY <3>1
  <2> QED BY <1>1, <2>1, <2>2
<1>3. Range(s) \subseteq Range(a) \cup Range(b)
  <2> SUFFICES ASSUME NEW x \in Range(s)
               PROVE  x \in Range(a) \/ x \in Range(b)
    OBVIOUS
  <2>1. PICK i \in 1 .. Len(s) : s[i] = x
    BY InRange
  <2> QED BY <1>2, <2>1, InRange
<1>4. ASSUME NEW i \in 1 .. Len(b)
      PROVE  Len(a) + i \in 1 .. Len(s)
  BY <1>1
<1>5. Range(a) \subseteq Range(s)
  <2> SUFFICES ASSUME NEW x \in Range(a) PROVE x \in Range(s)
    OBVIOUS
  <2>1. PICK i \in 1 .. Len(a) : a[i] = x
    BY InRange
  <2>2. i \in 1 .. Len(s) /\ s[i] = x
    BY <1>1, <2>1
  <2> QED BY <2>2, InRange
<1>6. Range(b) \subseteq Range(s)
  <2> SUFFICES ASSUME NEW x \in Range(b) PROVE x \in Range(s)
    OBVIOUS
  <2>1. PICK i \in 1 .. Len(b) : b[i] = x
    BY InRange
  <2> QED BY <1>4, <2>1, InRange
<1>7. ASSUME IsInjective(s)
      PROVE  IsInjective(a) /\ IsInjective(b) /\ Range(a) \cap Range(b) = {}
  <2>0. \A i, j \in 1 .. Len(s) : s[i] = s[j] => i = j
    BY <1>7, InjectiveByIndex
  <2>1. IsInjective(a)
    <3> SUFFICES ASSUME NEW i \in 1 .. Len(a), NEW j \in 1 .. Len(a), a[i] = a[j]
                 PROVE  i = j
      BY InjectiveByIndex
    <3>1. i \in 1 .. Len(s) /\ j \in 1 .. Len(s) /\ s[i] = s[j]
      BY <1>1
    <3> QED BY <2>0, <3>1
  <2>2. IsInjective(b)
    <3> SUFFICES ASSUME NEW i \in 1 .. Len(b), NEW j \in 1 .. Len(b), b[i] = b[j]
                 PROVE  i = j
      BY InjectiveByIndex
    <3>1. Len(a) + i = Len(a) + j
      BY <1>4, <2>0
    <3> QED BY <1>1, <3>1
  <2>3. Range(a) \cap Range(b) = {}
    <3> SUFFICES ASSUME NEW x \in Range(a), x \in Range(b) PROVE FALSE
      OBVIOUS
    <3>1. PICK i \in 1 .. Len(a) : a[i] = x
      BY InRange
    <3>2. PICK j \in 1 .. Len(b) : b[j] = x
      BY InRange
    <3>3. i \in 1 .. Len(s) /\ s[i] = s[Len(a) + j]
      BY <1>1, <3>1, <3>2
    <3>4. i = Len(a) + j
      BY <1>4, <2>0, <3>3
    <3> QED BY <1>1, <3>4
  <2> QED BY <2>1, <2>2, <2>3
<1>8. ASSUME IsInjective(a), IsInjective(b), Range(a) \cap Range(b) = {}
      PROVE  IsInjective(s)
  <2>0. /\ \A i, j \in 1 .. Len(a) : a[i] = a[j] => i = j
        /\ \A i, j \in 1 .. Len(b) : b[i] = b[j] => i = j
    BY <1>8, InjectiveByIndex
  <2>1. ASSUME NEW i \in 1 .. Len(a), NEW j \in 1 .. Len(b)
        PROVE  a[i] # b[j]
    BY <1>8, InRange
  <2> SUFFICES ASSUME NEW i \in 1 .. Len(s), NEW j \in 1 .. Len(s), s[i] = s[j]
               PROVE  i = j
    BY InjectiveByIndex
  <2>2. CASE i - Len(a) \in 1 .. Len(b) /\ j - Len(a) \in 1 .. Len(b)
                /\ s[i] = b[i - Len(a)] /\ s[j] = b[j - Len(a)]
    <3>1. i - Len(a) = j - Len(a)
      BY <2>0, <2>2
    <3> QED BY <1>1, <3>1
  <2>3. CASE i \in 1 .. Len(a) /\ j \in 1 .. Len(a) /\ s[i] = a[i] /\ s[j] = a[j]
    BY <2>0, <2>3
  <2>4. CASE /\ i \in 1 .. Len(a) /\ s[i] = a[i]
             /\ j - Len(a) \in 1 .. Len(b) /\ s[j] = b[j - Len(a)]
    BY <2>1, <2>4
  <2>5. CASE /\ j \in 1 .. Len(a) /\ s[j] = a[j]
             /\ i - Len(a) \in 1 .. Len(b) /\ s[i] = b[i - Len(a)]
    BY <2>1, <2>5
  <2> QED BY <1>2, <2>2, <2>3, <2>4, <2>5
<1> QED
  BY <1>3, <1>5, <1>6, <1>7, <1>8

(* Cutting a sequence after its first k elements.                           *)
LEMMA Cut ==
  ASSUME NEW S, NEW s \in Seq(S), NEW k \in 0 .. Len(s)
  PROVE  LET front == SubSeq(s, 1, k)
             back == SubSeq(s, k + 1, Len(s))
         IN  /\ front \in Seq(S) /\ back \in Seq(S)
             /\ Range(s) = Range(front) \cup Range(back)
             /\ IsInjective(s) <=>
              (IsInjective(front) /\ IsInjective(back) /\ Range(front) \cap Range(back) = {})
<1> DEFINE front == SubSeq(s, 1, k)
           back == SubSeq(s, k + 1, Len(s))
<1>0. Len(front) = k /\ Len(back) = Len(s) - k /\ Len(s) \in Nat /\ k \in Nat
  OBVIOUS
<1>1. front \in Seq(S) /\ back \in Seq(S)
  OBVIOUS
<1>2. \A i \in 1 .. Len(front) : s[i] = front[i]
  OBVIOUS
<1>3. \A i \in 1 .. Len(back) : s[Len(front) + i] = back[i]
  OBVIOUS
<1> HIDE DEF front, back
<1>4. Len(s) = Len(front) + Len(back)
  BY <1>0
<1>5. /\ Range(s) = Range(front) \cup Range(back)
      /\ IsInjective(s) <=>
              (IsInjective(front) /\ IsInjective(back) /\ Range(front) \cap Range(back) = {})
  BY <1>1, <1>2, <1>3, <1>4, Concatenation, SMTT(60)
<1> QED
  BY <1>1, <1>5 DEF front, back

(* Cutting after the last element.                                          *)
LEMMA WholeSequence ==
  ASSUME NEW S, NEW s \in Seq(S)
  PROVE  SubSeq(s, 1, Len(s)) = s /\ SubSeq(s, Len(s) + 1, Len(s)) = <<>>
<1>1. SubSeq(s, 1, Len(s)) = s
  OBVIOUS
<1>2. SubSeq(s, Len(s) + 1, Len(s)) = <<>>
  OBVIOUS
<1> QED
  BY <1>1, <1>2

(* Joining two sequences.                                                   *)
LEMMA Join ==
  ASSUME NEW S, NEW a \in Seq(S), NEW b \in Seq(S)
  PROVE  /\ a \o b \in Seq(S)
         /\ Range(a \o b) = Range(a) \cup Range(b)
         /\ IsInjective(a \o b) <=>
              (IsInjective(a) /\ IsInjective(b) /\ Range(a) \cap Range(b) = {})
<1> DEFINE ab == a \o b
<1>1. ab \in Seq(S) /\ Len(ab) = Len(a) + Len(b)
  OBVIOUS
<1>2. \A i \in 1 .. Len(a) : ab[i] = a[i]
  OBVIOUS
<1>3. \A i \in 1 .. Len(b) : ab[Len(a) + i] = b[i]
  OBVIOUS
<1> HIDE DEF ab
<1>4. /\ Range(ab) = Range(a) \cup Range(b)
      /\ IsInjective(ab) <=>
              (IsInjective(a) /\ IsInjective(b) /\ Range(a) \cap Range(b) = {})
  BY <1>1, <1>2, <1>3, Concatenation, SMTT(60)
<1> QED
  BY <1>1, <1>4 DEF ab

LEMMA JoinedLength ==
  ASSUME NEW S, NEW a \in Seq(S), NEW b \in Seq(S)
  PROVE  Len(a \o b) = Len(a) + Len(b)
OBVIOUS

(* allocate_pages splits the list: the pages it returns and those it keeps  *)
(* make up the list, and have none in common when the list was distinct.    *)
LEMMA AllocateSplits ==
  ASSUME NEW S, NEW fl \in Seq(S), NEW n \in 0 .. Len(fl)
  PROVE  LET got == Popped(fl, n)
             kept == AfterAllocate(fl, n)
         IN  /\ got \in Seq(S) /\ Len(got) = n
             /\ kept \in Seq(S) /\ Len(kept) = Len(fl) - n
             /\ Range(fl) = Range(kept) \cup Range(got)
             /\ IsInjective(fl) =>
              (IsInjective(kept) /\ IsInjective(got) /\ Range(kept) \cap Range(got) = {})
<1> DEFINE k == Len(fl) - n
           got == Popped(fl, n)
           kept == SubSeq(fl, 1, k)
           tail == SubSeq(fl, k + 1, Len(fl))
<1>0. Len(fl) \in Nat /\ n \in Nat /\ k \in 0 .. Len(fl)
  OBVIOUS
<1>1. /\ kept \in Seq(S) /\ tail \in Seq(S)
      /\ Range(fl) = Range(kept) \cup Range(tail)
      /\ IsInjective(fl) =>
              (IsInjective(kept) /\ IsInjective(tail) /\ Range(kept) \cap Range(tail) = {})
  <2> HIDE DEF k
  <2> QED BY <1>0, Cut
<1>2. got \in Seq(S) /\ Len(got) = n /\ \A i \in 1 .. n : got[i] = fl[Len(fl) - i + 1]
  BY <1>0 DEF Popped
<1>3. Len(tail) = n /\ Len(kept) = k /\ \A i \in 1 .. n : tail[i] = fl[k + i]
  BY <1>0
<1>4. kept = AfterAllocate(fl, n)
  BY DEF AfterAllocate
<1> HIDE DEF got, kept, tail
<1>5. \A i \in 1 .. n : n - i + 1 \in 1 .. n /\ got[i] = tail[n - i + 1]
  <2> SUFFICES ASSUME NEW i \in 1 .. n
               PROVE  n - i + 1 \in 1 .. n /\ got[i] = tail[n - i + 1]
    OBVIOUS
  <2>1. n - i + 1 \in 1 .. n /\ k + (n - i + 1) = Len(fl) - i + 1
    BY <1>0
  <2> QED BY <1>2, <1>3, <2>1
<1>6. Range(got) = Range(tail)
  <2>1. ASSUME NEW x \in Range(got) PROVE x \in Range(tail)
    <3>1. PICK i \in 1 .. n : got[i] = x
      BY <1>2, InRange
    <3> QED BY <1>1, <1>3, <1>5, <3>1, InRange
  <2>2. ASSUME NEW x \in Range(tail) PROVE x \in Range(got)
    <3>1. PICK i \in 1 .. n : tail[i] = x
      BY <1>1, <1>3, InRange
    <3>2. n - i + 1 \in 1 .. n /\ n - (n - i + 1) + 1 = i
      BY <1>0
    <3>3. got[n - i + 1] = x
      BY <1>5, <3>1, <3>2
    <3> QED BY <1>2, <3>2, <3>3, InRange
  <2> QED BY <2>1, <2>2
<1>7. IsInjective(tail) => IsInjective(got)
  <2> SUFFICES ASSUME IsInjective(tail),
                      NEW i \in 1 .. n, NEW j \in 1 .. n, got[i] = got[j]
               PROVE  i = j
    BY <1>2, InjectiveByIndex
  <2>0. \A x, y \in 1 .. n : tail[x] = tail[y] => x = y
    BY <1>1, <1>3, InjectiveByIndex
  <2>1. n - i + 1 = n - j + 1
    BY <1>5, <2>0
  <2> QED BY <1>0, <2>1
<1> QED
  BY <1>1, <1>2, <1>3, <1>4, <1>6, <1>7 DEF got


-----------------------------------------------------------------------------
(* The partition of the pages.                                              *)

(* A fresh list holds every page once.                                      *)
LEMMA InitialPartition ==
  ASSUME NEW N \in Nat, NEW Owners
  PROVE  LET fl == InitialFreeList(N)
             held == [o \in Owners |-> <<>>]
         IN  /\ fl \in Seq(0 .. N - 1) /\ Len(fl) = N
             /\ Range(fl) = 0 .. N - 1
             /\ Unshared(fl, held)
             /\ Covered(0 .. N - 1, fl, held)
<1> DEFINE fl == InitialFreeList(N)
           held == [o \in Owners |-> <<>>]
<1>1. fl \in Seq(0 .. N - 1) /\ Len(fl) = N /\ \A i \in 1 .. N : fl[i] = N - i
  BY DEF InitialFreeList
<1> HIDE DEF fl
<1>2. IsInjective(fl)
  <2> SUFFICES ASSUME NEW i \in 1 .. N, NEW j \in 1 .. N, fl[i] = fl[j]
               PROVE  i = j
    BY <1>1, InjectiveByIndex
  <2> QED BY <1>1
<1>3. Range(fl) = 0 .. N - 1
  <2>1. ASSUME NEW p \in 0 .. N - 1 PROVE p \in Range(fl)
    <3>1. N - p \in 1 .. N /\ N - (N - p) = p
      OBVIOUS
    <3> QED BY <1>1, <3>1, InRange
  <2>2. ASSUME NEW p \in Range(fl) PROVE p \in 0 .. N - 1
    <3>1. PICK i \in 1 .. N : fl[i] = p
      BY <1>1, InRange
    <3> QED BY <1>1, <3>1
  <2> QED BY <2>1, <2>2
<1>4. /\ DOMAIN held = Owners
      /\ \A o \in Owners : held[o] = <<>> /\ IsInjective(held[o]) /\ Range(held[o]) = {}
  BY DEF IsInjective, Range
<1> HIDE DEF held
<1>5. Unshared(fl, held)
  BY <1>2, <1>4 DEF Unshared
<1>6. Covered(0 .. N - 1, fl, held)
  BY <1>3, <1>4 DEF Covered
<1> QED
  BY <1>1, <1>3, <1>5, <1>6 DEF fl, held

(* fl and held, with nothing shared, become fl2 and held2 when owner o is   *)
(* given n pages / gives its first k back.                                  *)
Allocated(P, Owners, fl, held, o, n, fl2, held2) ==
  /\ fl \in Seq(P) /\ held \in [Owners -> Seq(P)]
  /\ Unshared(fl, held)
  /\ o \in Owners /\ n \in 0 .. Len(fl)
  /\ fl2 = AfterAllocate(fl, n)
  /\ held2 = [held EXCEPT ![o] = held[o] \o Popped(fl, n)]

Freed(P, Owners, fl, held, o, k, gone, fl2, held2) ==
  /\ fl \in Seq(P) /\ held \in [Owners -> Seq(P)]
  /\ Unshared(fl, held)
  /\ o \in Owners /\ k \in 0 .. Len(held[o])
  /\ gone = SubSeq(held[o], 1, k)
  /\ fl2 = AfterFree(fl, gone)
  /\ held2 = [held EXCEPT ![o] = SubSeq(held[o], k + 1, Len(held[o]))]

(* allocate_pages keeps the partition: the pages it returns leave the list  *)
(* and join the vector of the caller.                                       *)
LEMMA AllocateKeepsPartition ==
  ASSUME NEW P, NEW Owners, NEW fl, NEW held, NEW o, NEW n, NEW fl2, NEW held2,
         Allocated(P, Owners, fl, held, o, n, fl2, held2)
  PROVE  /\ fl2 \in Seq(P) /\ held2 \in [Owners -> Seq(P)]
         /\ Unshared(fl2, held2)
         /\ Covered(P, fl, held) => Covered(P, fl2, held2)
         /\ Range(Popped(fl, n)) \subseteq Range(fl)
         /\ Range(fl2) = Range(fl) \ Range(Popped(fl, n))
         /\ Range(held2[o]) = Range(held[o]) \cup Range(Popped(fl, n))
         /\ \A p \in Owners \ {o} : held2[p] = held[p]
<1> DEFINE new == Popped(fl, n)
           mine == held[o] \o new
<1>0. /\ fl \in Seq(P) /\ held \in [Owners -> Seq(P)] /\ o \in Owners /\ n \in 0 .. Len(fl)
      /\ IsInjective(fl) /\ DOMAIN held = Owners
      /\ \A q \in Owners :
           /\ held[q] \in Seq(P)
           /\ IsInjective(held[q])
           /\ Range(held[q]) \cap Range(fl) = {}
           /\ \A p \in Owners \ {q} : Range(held[q]) \cap Range(held[p]) = {}
  BY DEF Unshared, Allocated
<1>1. /\ new \in Seq(P) /\ fl2 \in Seq(P)
      /\ Range(fl) = Range(fl2) \cup Range(new)
      /\ IsInjective(fl2) /\ IsInjective(new) /\ Range(fl2) \cap Range(new) = {}
  BY <1>0, AllocateSplits DEF Allocated
<1> HIDE DEF new
<1>2. Range(held[o]) \cap Range(new) = {}
  BY <1>0, <1>1
<1>3. /\ mine \in Seq(P) /\ IsInjective(mine)
      /\ Range(mine) = Range(held[o]) \cup Range(new)
  BY <1>0, <1>1, <1>2, Join
<1> HIDE DEF mine
<1>4. /\ held2 \in [Owners -> Seq(P)] /\ DOMAIN held2 = Owners
      /\ held2[o] = mine /\ \A q \in Owners \ {o} : held2[q] = held[q]
  BY <1>0, <1>3 DEF Allocated, mine, new
<1>5. Unshared(fl2, held2)
  <2> SUFFICES ASSUME NEW q \in Owners
               PROVE  /\ IsInjective(held2[q])
                      /\ Range(held2[q]) \cap Range(fl2) = {}
                      /\ \A p \in Owners \ {q} : Range(held2[q]) \cap Range(held2[p]) = {}
    BY <1>1, <1>4 DEF Unshared
  <2>1. CASE q = o
    BY <1>0, <1>1, <1>3, <1>4, <2>1
  <2>2. CASE q # o
    BY <1>0, <1>1, <1>3, <1>4, <2>2
  <2> QED BY <2>1, <2>2
<1>6. Covered(P, fl, held) => Covered(P, fl2, held2)
  <2> SUFFICES ASSUME P = Range(fl) \cup UNION {Range(held[q]) : q \in Owners}
               PROVE  P = Range(fl2) \cup UNION {Range(held2[q]) : q \in Owners}
    BY <1>0, <1>4 DEF Covered
  <2> QED BY <1>0, <1>1, <1>3, <1>4
<1> QED
  BY <1>1, <1>3, <1>4, <1>5, <1>6 DEF new

(* free_pages keeps the partition: the first k pages of the caller leave    *)
(* its vector and join the list.                                            *)
LEMMA FreeKeepsPartition ==
  ASSUME NEW P, NEW Owners, NEW fl, NEW held, NEW o, NEW k, NEW gone, NEW fl2, NEW held2,
         Freed(P, Owners, fl, held, o, k, gone, fl2, held2)
  PROVE  /\ CanFree(fl, gone)
         /\ fl2 \in Seq(P) /\ held2 \in [Owners -> Seq(P)]
         /\ Unshared(fl2, held2)
         /\ Covered(P, fl, held) => Covered(P, fl2, held2)
         /\ Range(gone) \subseteq Range(held[o])
         /\ Range(fl2) = Range(fl) \cup Range(gone)
         /\ Range(held2[o]) = Range(held[o]) \ Range(gone)
         /\ \A p \in Owners \ {o} : held2[p] = held[p]
<1> DEFINE rest == SubSeq(held[o], k + 1, Len(held[o]))
<1>0. /\ fl \in Seq(P) /\ held \in [Owners -> Seq(P)] /\ o \in Owners /\ k \in 0 .. Len(held[o])
      /\ IsInjective(fl) /\ DOMAIN held = Owners
      /\ \A q \in Owners :
           /\ held[q] \in Seq(P)
           /\ IsInjective(held[q])
           /\ Range(held[q]) \cap Range(fl) = {}
           /\ \A p \in Owners \ {q} : Range(held[q]) \cap Range(held[p]) = {}
  BY DEF Unshared, Freed
<1>1. /\ gone \in Seq(P) /\ rest \in Seq(P)
      /\ Range(held[o]) = Range(gone) \cup Range(rest)
      /\ IsInjective(gone) /\ IsInjective(rest) /\ Range(gone) \cap Range(rest) = {}
  BY <1>0, Cut DEF Freed
<1> HIDE DEF rest
<1>2. Range(gone) \cap Range(fl) = {}
  BY <1>0, <1>1
<1>3. /\ fl2 \in Seq(P) /\ IsInjective(fl2)
      /\ Range(fl2) = Range(fl) \cup Range(gone)
  <2>1. fl2 = fl \o gone
    BY DEF Freed, AfterFree
  <2> QED BY <1>0, <1>1, <1>2, <2>1, Join
<1>4. /\ held2 \in [Owners -> Seq(P)] /\ DOMAIN held2 = Owners
      /\ held2[o] = rest /\ \A q \in Owners \ {o} : held2[q] = held[q]
  BY <1>0, <1>1 DEF Freed, rest
<1>5. Unshared(fl2, held2)
  <2> SUFFICES ASSUME NEW q \in Owners
               PROVE  /\ IsInjective(held2[q])
                      /\ Range(held2[q]) \cap Range(fl2) = {}
                      /\ \A p \in Owners \ {q} : Range(held2[q]) \cap Range(held2[p]) = {}
    BY <1>3, <1>4 DEF Unshared
  <2>1. CASE q = o
    BY <1>0, <1>1, <1>3, <1>4, <2>1
  <2>2. CASE q # o
    BY <1>0, <1>1, <1>3, <1>4, <2>2
  <2> QED BY <2>1, <2>2
<1>6. Covered(P, fl, held) => Covered(P, fl2, held2)
  <2> SUFFICES ASSUME P = Range(fl) \cup UNION {Range(held[q]) : q \in Owners}
               PROVE  P = Range(fl2) \cup UNION {Range(held2[q]) : q \in Owners}
    BY <1>0, <1>4 DEF Covered
  <2> QED BY <1>0, <1>1, <1>3, <1>4
<1>7. CanFree(fl, gone)
  BY <1>2 DEF CanFree
<1> QED
  BY <1>1, <1>3, <1>4, <1>5, <1>6, <1>7
=============================================================================
