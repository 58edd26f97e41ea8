---------------------------- MODULE LogitProcessors ----------------------------
(***************************************************************************)
(* The processors that pick the next token from the logits of a request     *)
(* (tiny_llm/logit_processors): temperature, the top_k most likely tokens,  *)
(* of these the fewest that make up top_p, and one of them at random; or    *)
(* the most likely token.                                                   *)
(*                                                                         *)
(* The requests of a batch are processed each like the other: a row is the  *)
(* logits of one, the ids they belong to and valid_size, how many of them   *)
(* are left.  The code's two arrays are changed in place, by swaps.  Logits *)
(* are integers, and so is Exp of one, which only has to be positive and    *)
(* not to fall.  Probabilities are in parts of Parts.  Indices are from 1.  *)
(***************************************************************************)
EXTENDS Naturals, SequencesExt

CONSTANTS
  VocabSize,
  Logits,        \* bound: the values of a logit
  Inverses,      \* bound: one over the temperature
  Parts,         \* bound: how finely top_p is divided
  Exp            \* std::exp, of the logits there are when scaled

ASSUME ProcessorsAssumption ==
  /\ VocabSize \in Nat \ {0} /\ Parts \in Nat \ {0}
  /\ Logits \subseteq Nat /\ Inverses \subseteq Nat \ {0}
  /\ \A logit \in Logits, inverse \in Inverses : logit * inverse \in DOMAIN Exp
  /\ \A x \in DOMAIN Exp : /\ Exp[x] \in Nat \ {0}
                           /\ \A y \in DOMAIN Exp : x <= y => Exp[x] <= Exp[y]

(* What Pipeline::apply makes of the logits.                                *)
Row(logits) == [logit |-> logits, id |-> [i \in 1 .. VocabSize |-> i], valid_size |-> VocabSize]

Swapped(s, i, j) == [s EXCEPT ![i] = s[j], ![j] = s[i]]

Swap(row, i, j) == [row EXCEPT !.logit = Swapped(@, i, j), !.id = Swapped(@, i, j)]

Weights(row) == [i \in 1 .. row.valid_size |-> Exp[row.logit[i]]]

(* The sum of the weights of the positions in S.                            *)
Mass(weights, S) ==
  LET sum[n \in 0 .. Len(weights)] ==
        IF n = 0 THEN 0 ELSE sum[n - 1] + IF n \in S THEN weights[n] ELSE 0
  IN  sum[Len(weights)]

Total(weights) == Mass(weights, DOMAIN weights)

-----------------------------------------------------------------------------
(* What is larger than the pivot goes to the left of it.                    *)
partition(row, left, right, pivot_index) ==
  LET pivot_value == row.logit[pivot_index]
      Visit(a, i) ==
        IF a.row.logit[i] > pivot_value
          THEN [row |-> Swap(a.row, a.store_index, i), store_index |-> a.store_index + 1]
          ELSE a
      visited[i \in left - 1 .. right - 1] ==
        IF i < left THEN [row |-> Swap(row, pivot_index, right), store_index |-> left]
        ELSE Visit(visited[i - 1], i)
      all == visited[right - 1]
  IN  [all EXCEPT !.row = Swap(@, all.store_index, right)]

Middle(left, right) == left + (right - left) \div 2

(* (fault) one more than k are known to be the largest, not which k.        *)
SelectEnds_TooEarly(pivot_index, k) == pivot_index \in {k, k + 1, k + 2}

(* The k largest are to the left of the pivot, or end with it.              *)
SelectEnds(pivot_index, k) == pivot_index \in {k, k + 1}

(* The rows there are, and the ends of a range, which may be empty.         *)
Arrays == [logit : [1 .. VocabSize -> Nat], id : [1 .. VocabSize -> 1 .. VocabSize], valid_size : Nat]
Lefts == 1 .. VocabSize + 1
Rights == 0 .. VocabSize

quick_select[call \in Arrays \X Lefts \X Rights \X Nat] ==
  LET row == call[1]
      left == call[2]
      right == call[3]
      k == call[4]
      p == partition(row, left, right, Middle(left, right))
  IN  IF left >= right THEN row
      ELSE IF SelectEnds(p.store_index, k) THEN p.row
      ELSE IF p.store_index > k + 1 THEN quick_select[<<p.row, left, p.store_index - 1, k>>]
      ELSE quick_select[<<p.row, p.store_index + 1, right, k>>]

quick_sort[call \in Arrays \X Lefts \X Rights] ==
  LET row == call[1]
      left == call[2]
      right == call[3]
      p == partition(row, left, right, Middle(left, right))
  IN  IF left >= right THEN row
      ELSE quick_sort[<<quick_sort[<<p.row, left, p.store_index - 1>>], p.store_index + 1, right>>]

-----------------------------------------------------------------------------
(* The processors.  A check that fails throws before any row is changed.    *)

Temperature(row, inverse) ==
  [row EXCEPT !.logit = [i \in DOMAIN @ |-> @[i] * inverse]]

TopKApplies(row, top_k) == row.valid_size >= top_k

TopK(row, top_k) ==
  [(IF top_k = 0 THEN row ELSE quick_select[<<row, 1, row.valid_size, top_k>>])
     EXCEPT !.valid_size = top_k]

TopPApplies(row, min_tokens_to_keep) == row.valid_size >= min_tokens_to_keep

(* To drop the n-th token and what follows is to drop more than 1 - top_p.  *)
StillNeeded(weights, n, top_p) ==
  Mass(weights, n .. Len(weights)) * Parts > (Parts - top_p) * Total(weights)

(* From the least likely token on, tokens are dropped while they may be.    *)
TopP(row, top_p, min_tokens_to_keep) ==
  LET sorted == quick_sort[<<row, 1, row.valid_size>>]
      weights == Weights(sorted)
      Kept(n) == n > min_tokens_to_keep => StillNeeded(weights, n, top_p)
  IN  [sorted EXCEPT !.valid_size = CHOOSE n \in min_tokens_to_keep .. @ :
         Kept(n) /\ \A m \in n + 1 .. @ : ~Kept(m)]

(* The random number is in units of a weight of 1; Total is what rounding   *)
(* may leave of it, and is taken for the last token.                        *)
RandomNumbers(row) == 0 .. Total(Weights(row))

MultinomialApplies(row) == row.valid_size >= 1

SampledId(row, random_number) ==
  LET Before(i) == random_number < Mass(Weights(row), 1 .. i)
  IN  CHOOSE i \in 1 .. row.valid_size :
        /\ Before(i) \/ i = row.valid_size
        /\ \A j \in 1 .. i - 1 : ~Before(j)

Multinomial(row, random_number) ==
  [Swap(row, 1, SampledId(row, random_number)) EXCEPT !.valid_size = 1]

MaxId(row) ==
  CHOOSE i \in 1 .. row.valid_size :
    \A j \in 1 .. row.valid_size :
      row.logit[i] > row.logit[j] \/ (row.logit[i] = row.logit[j] /\ i <= j)

Argmax(row) == [Swap(row, 1, MaxId(row)) EXCEPT !.valid_size = 1]

-----------------------------------------------------------------------------
(* The wrappers of Pipeline::apply, one after another, with and without     *)
(* do_sample, and the token that is read after the last.                    *)

Rows == [1 .. VocabSize -> Logits]

MinTokensToKeep == 1

(* None of the checks throws.                                               *)
Applies(row, top_k) ==
  /\ TopKApplies(row, top_k)
  /\ TopPApplies(TopK(row, top_k), MinTokensToKeep)

LeftToSample(logits, inverse, top_k, top_p) ==
  TopP(TopK(Temperature(Row(logits), inverse), top_k), top_p, MinTokensToKeep)

Sampled(logits, inverse, top_k, top_p) ==
  LET left == LeftToSample(logits, inverse, top_k, top_p)
  IN  {Multinomial(left, number).id[1] : number \in RandomNumbers(left)}

Greedy(logits) == Argmax(Row(logits)).id[1]

-----------------------------------------------------------------------------
(* The tokens that make up top_p of the top_k most likely ones, told        *)
(* without an order: fewer than top_k are more likely, and these do not     *)
(* make up top_p of what the top_k weigh.                                   *)
Above(logits, t) == {u \in DOMAIN logits : logits[u] > logits[t]}

TopMass(weights, top_k) ==
  LET masses == {Mass(weights, S) : S \in kSubset(top_k, DOMAIN weights)}
  IN  CHOOSE m \in masses : \A n \in masses : n <= m

Nucleus(logits, top_k, top_p) ==
  LET weights == [t \in DOMAIN logits |-> Exp[logits[t]]]
  IN  {t \in DOMAIN logits :
         /\ Cardinality(Above(logits, t)) < top_k
         /\ \/ Above(logits, t) = {}
            \/ Mass(weights, Above(logits, t)) * Parts < top_p * TopMass(weights, top_k)}

(* Whatever the logits - equal ones too - and wherever the in-place select  *)
(* and sort leave them, the chain of processors picks a token of the        *)
(* nucleus, by its own id, and may pick any of it, but for one as likely in *)
(* its place; and without do_sample, a most likely one.                     *)
ChainPicksNucleus ==
  \A logits \in Rows :
    /\ Above(logits, Greedy(logits)) = {}
    /\ \A inverse \in Inverses, top_k \in 0 .. VocabSize + 1, top_p \in 0 .. Parts :
         Applies(Row(logits), top_k) =>
           LET scaled == [t \in DOMAIN logits |-> logits[t] * inverse]
               nucleus == Nucleus(scaled, top_k, top_p)
               sampled == Sampled(logits, inverse, top_k, top_p)
           IN  /\ sampled \subseteq nucleus
               /\ \A t \in nucleus : \E u \in sampled : logits[u] = logits[t]
=============================================================================
