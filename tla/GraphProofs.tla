------------------------------ MODULE GraphProofs ------------------------------
(***************************************************************************)
(* Of the order of a plan: topological_order returns a topological order,   *)
(* and throws only on a cycle, for any graph.                               *)
(*                                                                         *)
(* Of the graph: the two ways in which it is kept, by id and by name, and   *)
(* the edges that nodes and tensors list, agree after any calls.  The       *)
(* invariant is Whole; every operation on a graph, the parser and DCEPass   *)
(* included, keeps it.  And DCEPass keeps what each output means.           *)
(*                                                                         *)
(* Of the plan: it is sound in every order its tasks may be put in, and     *)
(* that of a valid graph is what the memory layout takes for granted.  The  *)
(* invariant is PlanInv.                                                    *)
(***************************************************************************)
EXTENDS TopoOrder, PlanExecution, FiniteSetTheorems, WellFoundedInduction, TLAPS

(***************************************************************************)
(* The order.                                                               *)
(***************************************************************************)

White(n) == status[n] = "white"
Gray(n) == status[n] = "gray"
Black(n) == status[n] = "black"

(* A position of the stack from which its node was entered: the highest one *)
(* of a gray node.  The entered positions are the path of the search.       *)
Entered(i) ==
  /\ i \in DOMAIN stack
  /\ Gray(stack[i])
  /\ \A j \in DOMAIN stack : i < j => stack[j] # stack[i]

NoneBetween(i, k) == \A j \in DOMAIN stack : i < j /\ j < k => ~Entered(j)
Innermost(i) == Entered(i) /\ \A j \in DOMAIN stack : Entered(j) => j <= i

Typed ==
  /\ consumers \in [Nodes -> Seq(Nodes)]
  /\ status \in [Nodes -> {"white", "gray", "black"}]
  /\ stack \in Seq(Nodes)
  /\ id \in 0 .. NodeNum
  /\ pc = "scan" => node_id \in Nodes /\ seen \in 0 .. Len(consumers[node_id])
  /\ res \in Seq(Nodes)
  /\ pc \in {"search", "scan", "done", "threw"}

(* Gray nodes are on the stack.                                             *)
OnStack == \A n \in Nodes : Gray(n) => \E i \in DOMAIN stack : Entered(i) /\ stack[i] = n

(* What lies on the stack was pushed as a consumer of the last node of the  *)
(* path below it.                                                           *)
Parents ==
  \A i, k \in DOMAIN stack :
    i < k /\ Entered(i) /\ NoneBetween(i, k) => stack[k] \in Range(consumers[stack[i]])

(* The path has no gap, and what is scanned is its end.                     *)
Path ==
  \A i \in DOMAIN stack :
    Entered(i) => Innermost(i) \/ \E k \in DOMAIN stack : i < k /\ Entered(k) /\ NoneBetween(i, k)

AtEnd == pc = "scan" => \E i \in DOMAIN stack : Innermost(i) /\ stack[i] = node_id

(* Every consumer of a gray node that was looked at has been finished or    *)
(* will be before the node: it is on the stack above it.                    *)
Awaited(n, m) ==
  \E i \in DOMAIN stack : stack[i] = m /\ \A j \in DOMAIN stack : stack[j] = n => j < i

Pending ==
  \A n \in Nodes : Gray(n) =>
    \A k \in DOMAIN consumers[n] :
      \/ pc # "search" /\ n = node_id /\ k > seen
      \/ Black(consumers[n][k])
      \/ Awaited(n, consumers[n][k])

(* The consumers of a finished node are finished ...                        *)
Closed == \A n \in Nodes : Black(n) => \A m \in Range(consumers[n]) : Black(m)

(* ... and come before it in res, which has every finished node once.       *)
Finished ==
  pc # "done" =>
    /\ IsInjective(res)
    /\ Range(res) = {n \in Nodes : Black(n)}
    /\ \A i, j \in DOMAIN res : res[j] \in Range(consumers[res[i]]) => j < i

Passed == \A n \in Nodes : n < id => ~White(n)

Inv ==
  /\ Typed
  /\ OnStack /\ Parents /\ Path /\ AtEnd
  /\ Pending /\ Closed /\ Finished /\ Passed
  /\ OrderIsTopological /\ ThrowsOnlyOnCycle

-----------------------------------------------------------------------------
(* The top of the stack.                                                    *)
LEMMA TopFacts ==
  ASSUME Typed, stack # <<>>
  PROVE  /\ Len(stack) \in Nat \ {0}
         /\ DOMAIN stack = 1 .. Len(stack)
         /\ Top \in Nodes
         /\ \A i \in DOMAIN stack : stack[i] \in Nodes
BY DEF Typed, Top

(* The consumers of a node are nodes.                                       *)
LEMMA ConsumerFacts ==
  ASSUME Typed, NEW n \in Nodes
  PROVE  /\ Len(consumers[n]) \in Nat
         /\ DOMAIN consumers[n] = 1 .. Len(consumers[n])
         /\ \A k \in DOMAIN consumers[n] :
              consumers[n][k] \in Nodes /\ consumers[n][k] \in Range(consumers[n])
         /\ \A m \in Range(consumers[n]) : \E k \in DOMAIN consumers[n] : consumers[n][k] = m
BY DEF Typed, Range

(* What popping leaves.                                                     *)
LEMMA PopFacts ==
  ASSUME Typed, stack # <<>>, Pop
  PROVE  /\ stack' \in Seq(Nodes)
         /\ DOMAIN stack' = 1 .. Len(stack) - 1
         /\ \A i \in DOMAIN stack' : stack'[i] = stack[i]
BY TopFacts DEF Typed, Pop

LEMMA InitInv == Init => Inv
<1> SUFFICES ASSUME Init PROVE Inv
  OBVIOUS
<1>1. Typed
  BY TopoAssumption DEF Init, Typed
<1>2. OnStack /\ Parents /\ Path /\ AtEnd /\ Pending /\ Closed /\ Passed
  BY TopoAssumption
  DEF Init, OnStack, Parents, Path, AtEnd, Pending, Closed, Passed, White, Gray, Black, Nodes
<1>3. Finished
  BY DEF Init, Finished, IsInjective, Range, Black
<1>4. OrderIsTopological /\ ThrowsOnlyOnCycle
  BY DEF Init, OrderIsTopological, ThrowsOnlyOnCycle
<1> QED
  BY <1>1, <1>2, <1>3, <1>4 DEF Inv

LEMMA NextTyped == Typed /\ [Next]_vars => Typed'
<1> SUFFICES ASSUME Typed, [Next]_vars PROVE Typed'
  OBVIOUS
<1>1. CASE StartAt
  <2>1. id \in Nodes
    BY <1>1, TopoAssumption DEF StartAt, Typed, Nodes
  <2>2. stack' \in Seq(Nodes)
    BY <1>1, <2>1 DEF StartAt
  <2> QED BY <1>1, <2>2 DEF StartAt, Typed, graphVars, scanVars
<1>2. CASE PassBy
  BY <1>2, TopoAssumption DEF PassBy, Typed, scanVars
<1>3. CASE Return
  <2>1. res' \in Seq(Nodes)
    BY <1>3 DEF Return, Typed, Reverse
  <2> QED BY <1>3, <2>1 DEF Return, Typed, graphVars, scanVars
<1>4. CASE Enter
  <2>1. Top \in Nodes
    BY <1>4, TopFacts DEF Enter, At
  <2> QED BY <1>4, <2>1, ConsumerFacts DEF Enter, Typed, graphVars
<1>5. CASE Finish
  <2>1. Top \in Nodes /\ stack' \in Seq(Nodes)
    BY <1>5, TopFacts, PopFacts DEF Finish, At
  <2>2. res' \in Seq(Nodes)
    BY <1>5, <2>1 DEF Finish, Typed
  <2>3. status' \in [Nodes -> {"white", "gray", "black"}]
    BY <1>5, <2>1 DEF Finish, Typed
  <2> QED BY <1>5, <2>1, <2>2, <2>3 DEF Finish, Typed, graphVars, scanVars, At
<1>6. CASE Duplicate
  BY <1>6, PopFacts DEF Duplicate, PopDuplicate, At, Typed, graphVars, scanVars
<1>7. CASE Push
  <2>1. Consumer \in Nodes /\ Len(consumers[node_id]) \in Nat
    BY <1>7, ConsumerFacts DEF Push, Scanning, Consumer, Typed
  <2>2. stack' \in Seq(Nodes)
    BY <1>7, <2>1 DEF Push, Typed
  <2> QED BY <1>7, <2>1, <2>2 DEF Push, Scanning, Typed, graphVars
<1>8. CASE Throw
  BY <1>8 DEF Throw, Typed, graphVars, scanVars
<1>9. CASE SkipOver
  <2>1. Len(consumers[node_id]) \in Nat
    BY <1>9, ConsumerFacts DEF SkipOver, Scanning, Typed
  <2> QED BY <1>9, <2>1 DEF SkipOver, Scanning, Typed, graphVars
<1>10. CASE Scanned
  BY <1>10 DEF Scanned, Typed, graphVars, scanVars
<1>11. CASE UNCHANGED vars
  BY <1>11 DEF vars, Typed, graphVars, scanVars
<1> QED
  BY <1>1, <1>2, <1>3, <1>4, <1>5, <1>6, <1>7, <1>8, <1>9, <1>10, <1>11 DEF Next

-----------------------------------------------------------------------------
(* The stack and the path.                                                  *)

Search == OnStack /\ Parents /\ Path

(* How each kind of step changes the path: not at all, ...                  *)
LEMMA Unmoved ==
  ASSUME UNCHANGED <<consumers, status, stack>>
  PROVE  /\ Search => Search'
         /\ \A i : Innermost(i) => Innermost(i)'
BY DEF Search, OnStack, Parents, Path, Innermost, NoneBetween, Entered, Gray

(* ... by the node that is entered, ...                                     *)
LEMMA EnterSearch ==
  ASSUME Typed, Search, Enter
  PROVE  Search' /\ AtEnd'
<1>0. PICK L \in Nat \ {0} : L = Len(stack)
  BY TopFacts DEF Enter, At
<1>1. /\ DOMAIN stack = 1 .. L /\ Top \in Nodes
      /\ \A i \in DOMAIN stack : stack[i] \in Nodes
  BY <1>0, TopFacts DEF Enter, At
<1>2. /\ stack' = stack /\ consumers' = consumers /\ stack[L] = Top
      /\ status' = [status EXCEPT ![Top] = "gray"]
      /\ node_id' = Top
      /\ ~Gray(Top)
  BY <1>0 DEF Enter, At, Top, Gray, graphVars
<1>3. \A n \in Nodes : Gray(n)' <=> Gray(n) \/ n = Top
  BY <1>1, <1>2 DEF Gray, Typed
<1>4. \A i : Entered(i)' <=> Entered(i) \/ i = L
  BY <1>1, <1>2, <1>3 DEF Entered
<1>5. \A i \in DOMAIN stack : Entered(i) => i < L
  BY <1>1, <1>2 DEF Entered
<1>6. OnStack'
  BY <1>1, <1>2, <1>3, <1>4 DEF Search, OnStack
<1>7. Parents'
  <2> SUFFICES ASSUME NEW i \in DOMAIN stack, NEW k \in DOMAIN stack,
                      i < k, Entered(i)', NoneBetween(i, k)'
               PROVE  stack[k] \in Range(consumers[stack[i]])
    BY <1>2 DEF Parents
  <2>1. Entered(i)
    BY <1>1, <1>4
  <2>2. NoneBetween(i, k)
    BY <1>2, <1>4 DEF NoneBetween
  <2> QED BY <2>1, <2>2 DEF Search, Parents
<1>8. Innermost(L)'
  BY <1>1, <1>2, <1>4, <1>5 DEF Innermost
<1>9. Path'
  <2> SUFFICES ASSUME NEW i \in DOMAIN stack, Entered(i)', i # L
               PROVE  \E k \in DOMAIN stack : i < k /\ Entered(k)' /\ NoneBetween(i, k)'
    BY <1>2, <1>8 DEF Path
  <2>1. Entered(i) /\ i < L
    BY <1>4, <1>5
  <2>2. CASE Innermost(i)
    <3>1. NoneBetween(i, L)'
      BY <1>1, <1>2, <1>4, <2>2 DEF NoneBetween, Innermost
    <3> QED BY <1>1, <1>4, <2>1, <3>1
  <2>3. ASSUME NEW k \in DOMAIN stack, i < k, Entered(k), NoneBetween(i, k)
        PROVE  Entered(k)' /\ NoneBetween(i, k)'
    BY <1>1, <1>2, <1>4, <1>5, <2>3 DEF NoneBetween
  <2> QED BY <2>1, <2>2, <2>3 DEF Search, Path
<1> QED
  BY <1>1, <1>2, <1>6, <1>7, <1>8, <1>9 DEF Search, AtEnd

(* ... by the node that is popped, if it was on the path, ...               *)
LEMMA PopSearch ==
  ASSUME Typed, Search, stack # <<>>, Pop, UNCHANGED consumers,
         \A n \in Nodes : Gray(n)' <=> Gray(n) /\ n # Top
  PROVE  Search'
<1> DEFINE L == Len(stack)
<1>1. /\ L \in Nat \ {0} /\ DOMAIN stack = 1 .. L /\ Top \in Nodes /\ stack[L] = Top
      /\ \A i \in DOMAIN stack : stack[i] \in Nodes
  BY TopFacts DEF Top
<1>2. DOMAIN stack' = 1 .. L - 1 /\ \A i \in DOMAIN stack' : stack'[i] = stack[i]
  BY PopFacts
<1> HIDE DEF L
<1>3. \A i : Entered(i)' => Entered(i) /\ i < L
  <2> SUFFICES ASSUME NEW i, Entered(i)' PROVE Entered(i) /\ i < L
    OBVIOUS
  <2>1. /\ i \in 1 .. L - 1 /\ Gray(stack[i]) /\ stack[i] # Top
        /\ \A j \in 1 .. L - 1 : i < j => stack[j] # stack[i]
    BY <1>1, <1>2 DEF Entered, Gray
  <2> QED BY <1>1, <2>1 DEF Entered
<1>4. \A i : Entered(i) /\ i < L => Entered(i)'
  <2> SUFFICES ASSUME NEW i, Entered(i), i < L PROVE Entered(i)'
    OBVIOUS
  <2>1. i \in DOMAIN stack' /\ stack[i] # Top /\ stack[i] \in Nodes /\ Gray(stack[i])
    BY <1>1, <1>2 DEF Entered
  <2>2. status'[stack'[i]] = "gray"
    BY <1>2, <2>1 DEF Gray
  <2>3. \A j \in DOMAIN stack' : i < j => stack'[j] # stack'[i]
    BY <1>1, <1>2, <2>1 DEF Entered
  <2> QED BY <2>1, <2>2, <2>3 DEF Entered, Gray
<1>5. OnStack'
  <2> SUFFICES ASSUME NEW n \in Nodes, Gray(n)'
               PROVE  \E i \in DOMAIN stack' : Entered(i)' /\ stack'[i] = n
    BY DEF OnStack
  <2>1. PICK i \in DOMAIN stack : Entered(i) /\ stack[i] = n
    BY DEF Search, OnStack
  <2>2. i \in DOMAIN stack' /\ i < L
    BY <1>1, <1>2, <2>1
  <2> QED BY <1>2, <1>4, <2>1, <2>2
<1>6. \A i, k \in DOMAIN stack' : NoneBetween(i, k)' <=> NoneBetween(i, k)
  BY <1>1, <1>2, <1>3, <1>4 DEF NoneBetween
<1>7. Parents'
  BY <1>1, <1>2, <1>3, <1>6 DEF Search, Parents
<1>8. Path'
  <2> SUFFICES ASSUME NEW i \in DOMAIN stack', Entered(i)'
               PROVE  \/ Innermost(i)'
                      \/ \E k \in DOMAIN stack' : i < k /\ Entered(k)' /\ NoneBetween(i, k)'
    BY DEF Path
  <2>1. i \in DOMAIN stack /\ Entered(i) /\ i < L
    BY <1>1, <1>2, <1>3
  <2>2. CASE Innermost(i)
    BY <1>1, <1>2, <1>3, <2>2 DEF Innermost
  <2>3. ASSUME NEW k \in DOMAIN stack, i < k, Entered(k), NoneBetween(i, k)
        PROVE  \/ Innermost(i)'
               \/ k \in DOMAIN stack' /\ Entered(k)' /\ NoneBetween(i, k)'
    <3>1. CASE k = L
      BY <1>1, <1>2, <1>3, <2>3, <3>1 DEF Innermost, NoneBetween
    <3>2. CASE k # L
      BY <1>1, <1>2, <1>4, <1>6, <2>3, <3>2
    <3> QED BY <3>1, <3>2
  <2> QED BY <2>1, <2>2, <2>3 DEF Search, Path
<1> QED
  BY <1>5, <1>7, <1>8 DEF Search

(* ... and not by pushing a white node above the path's end.                *)
LEMMA PushSearch ==
  ASSUME Typed, Search, AtEnd, Push
  PROVE  Search' /\ AtEnd'
<1> DEFINE L == Len(stack)
<1>1. /\ L \in Nat /\ DOMAIN stack = 1 .. L
      /\ \A i \in DOMAIN stack : stack[i] \in Nodes
  BY DEF Typed
<1>2. /\ Consumer \in Nodes /\ Consumer \in Range(consumers[node_id])
      /\ ~Gray(Consumer)
  <2>1. node_id \in Nodes /\ seen + 1 \in 1 .. Len(consumers[node_id])
    BY ConsumerFacts DEF Push, Scanning, Typed
  <2> QED BY <2>1, ConsumerFacts DEF Push, ToVisit, Gray, Consumer
<1>3. /\ DOMAIN stack' = 1 .. L + 1 /\ stack'[L + 1] = Consumer
      /\ \A i \in DOMAIN stack : stack'[i] = stack[i]
      /\ consumers' = consumers /\ node_id' = node_id /\ status' = status
  BY <1>1, <1>2 DEF Push, graphVars, Typed
<1> HIDE DEF L
<1>4. \A i : Entered(i)' <=> Entered(i)
  <2> SUFFICES ASSUME NEW i PROVE Entered(i)' <=> Entered(i)
    OBVIOUS
  <2>1. CASE i \in DOMAIN stack
    BY <1>1, <1>2, <1>3, <2>1 DEF Entered, Gray
  <2>2. CASE i = L + 1
    BY <1>1, <1>2, <1>3, <2>2 DEF Entered, Gray
  <2>3. CASE i \notin DOMAIN stack'
    BY <1>1, <1>3, <2>3 DEF Entered
  <2> QED BY <1>1, <1>3, <2>1, <2>2, <2>3
<1>5. \A i : Innermost(i)' <=> Innermost(i)
  BY <1>1, <1>3, <1>4 DEF Innermost, Entered
<1>6. PICK e \in DOMAIN stack : Innermost(e) /\ stack[e] = node_id
  BY DEF AtEnd, Push, Scanning
<1>7. OnStack'
  BY <1>1, <1>3, <1>4 DEF Search, OnStack, Gray
<1>8. Parents'
  <2> SUFFICES ASSUME NEW i \in DOMAIN stack', NEW k \in DOMAIN stack',
                      i < k, Entered(i)', NoneBetween(i, k)'
               PROVE  stack'[k] \in Range(consumers[stack'[i]])
    BY <1>3 DEF Parents
  <2>1. i \in DOMAIN stack /\ Entered(i)
    BY <1>4 DEF Entered
  <2>2. CASE k = L + 1
    <3>1. i = e
      BY <1>1, <1>3, <1>4, <1>6, <2>1, <2>2 DEF NoneBetween, Innermost
    <3> QED BY <1>2, <1>3, <1>6, <2>2, <3>1
  <2>3. CASE k \in DOMAIN stack
    <3>1. NoneBetween(i, k)
      BY <1>1, <1>3, <1>4 DEF NoneBetween
    <3> QED BY <1>3, <2>1, <2>3, <3>1 DEF Search, Parents
  <2> QED BY <1>1, <1>3, <2>2, <2>3
<1>9. Path'
  <2> SUFFICES ASSUME NEW i \in DOMAIN stack, Entered(i)
               PROVE  \/ Innermost(i)'
                      \/ \E k \in DOMAIN stack' : i < k /\ Entered(k)' /\ NoneBetween(i, k)'
    BY <1>4 DEF Path, Entered
  <2>1. ASSUME NEW k \in DOMAIN stack, NoneBetween(i, k)
        PROVE  k \in DOMAIN stack' /\ NoneBetween(i, k)'
    BY <1>1, <1>3, <1>4, <2>1 DEF NoneBetween, Entered
  <2> QED BY <1>4, <1>5, <2>1 DEF Search, Path
<1>10. AtEnd'
  BY <1>1, <1>3, <1>5, <1>6 DEF AtEnd
<1> QED
  BY <1>7, <1>8, <1>9, <1>10 DEF Search

(* A search that starts has no path yet.                                    *)
LEMMA StartSearch ==
  ASSUME Typed, Search, StartAt
  PROVE  Search'
<1>1. \A n \in Nodes : ~Gray(n)'
  BY DEF Search, OnStack, StartAt, Gray
<1>2. stack' = <<id>> /\ id \in Nodes
  BY TopoAssumption DEF StartAt, Nodes, Typed
<1>3. \A i : ~Entered(i)'
  BY <1>1, <1>2 DEF Entered
<1> QED
  BY <1>1, <1>3 DEF Search, OnStack, Parents, Path

LEMMA NextSearch ==
  ASSUME Typed, Search, AtEnd, [Next]_vars
  PROVE  Search' /\ AtEnd'
<1>1. CASE StartAt
  BY <1>1, StartSearch DEF StartAt, AtEnd
<1>2. CASE PassBy \/ Return
  <2>1. UNCHANGED <<consumers, status, stack>> /\ pc' # "scan"
    BY <1>2 DEF PassBy, Return, graphVars
  <2> QED BY <2>1, Unmoved DEF AtEnd
<1>3. CASE Enter
  BY <1>3, EnterSearch
<1>4. CASE Finish
  <2>1. stack # <<>> /\ Pop /\ UNCHANGED consumers /\ pc' # "scan"
    BY <1>4 DEF Finish, At, graphVars
  <2>2. \A n \in Nodes : Gray(n)' <=> Gray(n) /\ n # Top
    BY <1>4, TopFacts DEF Finish, At, Gray, Typed
  <2> QED BY <2>1, <2>2, PopSearch DEF AtEnd
<1>5. CASE Duplicate
  <2>1. stack # <<>> /\ Pop /\ UNCHANGED consumers /\ pc' # "scan"
    BY <1>5 DEF Duplicate, PopDuplicate, At, graphVars
  <2>2. \A n \in Nodes : Gray(n)' <=> Gray(n) /\ n # Top
    BY <1>5 DEF Duplicate, At, Gray
  <2> QED BY <2>1, <2>2, PopSearch DEF AtEnd
<1>6. CASE Push
  BY <1>6, PushSearch
<1>7. CASE Throw \/ Scanned
  <2>1. UNCHANGED <<consumers, status, stack>> /\ pc' # "scan"
    BY <1>7 DEF Throw, Scanned, graphVars
  <2> QED BY <2>1, Unmoved DEF AtEnd
<1>8. CASE SkipOver \/ UNCHANGED vars
  <2>1. UNCHANGED <<consumers, status, stack>> /\ UNCHANGED <<node_id, pc>>
    BY <1>8 DEF SkipOver, vars, graphVars, scanVars
  <2>2. AtEnd'
    <3> SUFFICES ASSUME pc = "scan"
                 PROVE  \E i \in DOMAIN stack : Innermost(i)' /\ stack[i] = node_id
      BY <2>1 DEF AtEnd
    <3> QED BY <2>1, Unmoved DEF AtEnd
  <2> QED BY <2>1, <2>2, Unmoved
<1> QED
  BY <1>1, <1>2, <1>3, <1>4, <1>5, <1>6, <1>7, <1>8 DEF Next

-----------------------------------------------------------------------------
(* What awaits its turn.                                                    *)

(* A consumer of n that was looked at is finished or awaited.               *)
Looked(n, k) == Black(consumers[n][k]) \/ Awaited(n, consumers[n][k])

(* A popped node that is or gets finished is no longer awaited.             *)
LEMMA PopPending ==
  ASSUME Typed, Pending, stack # <<>>, Pop, pc = "search", pc' = "search",
         UNCHANGED consumers,
         \A n \in Nodes : Gray(n)' => Gray(n),
         \A n \in Nodes : Black(n)' <=> Black(n) \/ n = Top
  PROVE  Pending'
<1>0. PICK L \in Nat \ {0} : L = Len(stack)
  BY TopFacts
<1>1. DOMAIN stack = 1 .. L /\ stack[L] = Top
  BY <1>0, TopFacts DEF Top
<1>2. DOMAIN stack' = 1 .. L - 1 /\ \A i \in DOMAIN stack' : stack'[i] = stack[i]
  BY <1>0, PopFacts
<1> SUFFICES ASSUME NEW n \in Nodes, Gray(n), NEW k \in DOMAIN consumers[n]
             PROVE  Looked(n, k)'
  BY DEF Pending, Looked
<1> DEFINE c == consumers[n][k]
<1>3. c \in Nodes
  BY ConsumerFacts
<1>4. Black(c) \/ Awaited(n, c)
  BY DEF Pending
<1>5. CASE Black(c) \/ c = Top
  BY <1>3, <1>5 DEF Looked
<1>6. CASE Awaited(n, c) /\ c # Top
  <2>1. PICK i \in DOMAIN stack :
          stack[i] = c /\ \A j \in DOMAIN stack : stack[j] = n => j < i
    BY <1>6 DEF Awaited
  <2>2. i \in DOMAIN stack'
    BY <1>1, <1>2, <1>6, <2>1
  <2>3. Awaited(n, c)'
    BY <1>1, <1>2, <2>1, <2>2 DEF Awaited
  <2> QED BY <2>3 DEF Looked
<1> QED
  BY <1>4, <1>5, <1>6

LEMMA PushPending ==
  ASSUME Typed, Pending, Push
  PROVE  Pending'
<1>0. PICK L \in Nat : L = Len(stack)
  BY DEF Typed
<1>1. DOMAIN stack = 1 .. L
  BY <1>0 DEF Typed
<1>2. Consumer \in Nodes /\ ~Gray(Consumer) /\ seen \in Nat
  <2>1. node_id \in Nodes /\ seen \in Nat /\ seen + 1 \in 1 .. Len(consumers[node_id])
    BY ConsumerFacts DEF Push, Scanning, Typed
  <2> QED BY <2>1, ConsumerFacts DEF Push, ToVisit, Gray, Consumer
<1>3. /\ DOMAIN stack' = 1 .. L + 1 /\ stack'[L + 1] = Consumer
      /\ \A i \in DOMAIN stack : stack'[i] = stack[i]
  BY <1>0, <1>1, <1>2 DEF Push, Typed
<1>4. /\ consumers' = consumers /\ node_id' = node_id /\ status' = status
      /\ seen' = seen + 1 /\ pc = "scan" /\ pc' = "scan"
  BY DEF Push, Scanning, graphVars
<1> SUFFICES ASSUME NEW n \in Nodes, Gray(n), NEW k \in DOMAIN consumers[n]
             PROVE  (n = node_id /\ k > seen + 1) \/ Looked(n, k)'
  BY <1>4 DEF Pending, Looked, Gray
<1> DEFINE c == consumers[n][k]
<1>5. \A j \in DOMAIN stack' : stack'[j] = n => j \in DOMAIN stack /\ stack[j] = n
  BY <1>1, <1>2, <1>3
<1>6. CASE n = node_id /\ k > seen
  <2>1. CASE k = seen + 1
    <3>1. stack'[L + 1] = c
      BY <1>3, <1>6, <2>1 DEF Consumer
    <3>2. Awaited(n, c)'
      BY <1>1, <1>3, <1>4, <1>5, <3>1 DEF Awaited
    <3> QED BY <3>2 DEF Looked
  <2>2. k \in Nat
    BY ConsumerFacts
  <2> QED BY <1>2, <1>6, <2>1, <2>2
<1>7. CASE Black(c)
  BY <1>4, <1>7 DEF Looked, Black
<1>8. CASE Awaited(n, c)
  <2>1. PICK i \in DOMAIN stack :
          stack[i] = c /\ \A j \in DOMAIN stack : stack[j] = n => j < i
    BY <1>8 DEF Awaited
  <2>2. i \in DOMAIN stack' /\ stack'[i] = c
    BY <1>1, <1>3, <2>1
  <2>3. Awaited(n, c)'
    BY <1>4, <1>5, <2>1, <2>2 DEF Awaited
  <2> QED BY <2>3 DEF Looked
<1> QED
  BY <1>6, <1>7, <1>8 DEF Pending

LEMMA NextPending ==
  ASSUME Typed, Search, Pending, [Next]_vars
  PROVE  Pending'
<1>1. CASE StartAt
  BY <1>1 DEF StartAt, Search, OnStack, Pending, Gray
<1>2. CASE PassBy \/ Return \/ Throw \/ UNCHANGED vars
  <2>1. /\ UNCHANGED <<consumers, status, stack>> /\ UNCHANGED <<node_id, seen>>
        /\ pc # "search" => pc' # "search"
    BY <1>2 DEF PassBy, Return, Throw, Scanning, vars, graphVars, scanVars
  <2> QED BY <2>1 DEF Pending, Awaited, Gray, Black
<1>3. CASE Enter
  <2>1. /\ UNCHANGED <<consumers, stack>> /\ node_id' = Top /\ seen' = 0
        /\ pc = "search" /\ pc' = "scan" /\ White(Top)
        /\ status' = [status EXCEPT ![Top] = "gray"]
    BY <1>3 DEF Enter, At, White, graphVars
  <2>2. \A n \in Nodes : (Gray(n)' <=> Gray(n) \/ n = Top) /\ (Black(n) => Black(n)')
    BY <2>1 DEF Typed, White, Gray, Black
  <2> SUFFICES ASSUME NEW n \in Nodes, Gray(n)', NEW k \in DOMAIN consumers[n]
               PROVE  (n = Top /\ k > 0) \/ Looked(n, k)'
    BY <2>1 DEF Pending, Looked
  <2>3. k \in Nat \ {0} /\ consumers[n][k] \in Nodes
    BY ConsumerFacts
  <2>4. CASE n = Top
    BY <2>3, <2>4
  <2>5. CASE n # Top
    <3>1. Black(consumers[n][k]) \/ Awaited(n, consumers[n][k])
      BY <2>1, <2>2, <2>5 DEF Pending
    <3> QED BY <2>1, <2>2, <2>3, <3>1 DEF Looked, Awaited
  <2> QED BY <2>4, <2>5
<1>4. CASE Finish
  <2>1. /\ stack # <<>> /\ Pop /\ UNCHANGED consumers /\ pc = "search" /\ pc' = "search"
        /\ status' = [status EXCEPT ![Top] = "black"]
    BY <1>4 DEF Finish, At, graphVars
  <2>2. \A n \in Nodes : (Gray(n)' => Gray(n)) /\ (Black(n)' <=> Black(n) \/ n = Top)
    BY <2>1 DEF Typed, Gray, Black
  <2> QED BY <2>1, <2>2, PopPending
<1>5. CASE Duplicate
  <2>1. /\ stack # <<>> /\ Pop /\ UNCHANGED consumers /\ pc = "search" /\ pc' = "search"
        /\ UNCHANGED status /\ Black(Top)
    BY <1>5 DEF Duplicate, PopDuplicate, At, Black, graphVars
  <2>2. \A n \in Nodes : (Gray(n)' => Gray(n)) /\ (Black(n)' <=> Black(n) \/ n = Top)
    BY <2>1 DEF Gray, Black
  <2> QED BY <2>1, <2>2, PopPending
<1>6. CASE Push
  BY <1>6, PushPending
<1>7. CASE SkipOver
  <2>1. /\ UNCHANGED <<consumers, status, stack>> /\ node_id' = node_id
        /\ seen' = seen + 1 /\ pc = "scan" /\ pc' = "scan"
    BY <1>7 DEF SkipOver, Scanning, graphVars
  <2>2. node_id \in Nodes /\ seen \in Nat /\ seen + 1 \in DOMAIN consumers[node_id]
    BY <1>7, ConsumerFacts DEF SkipOver, Scanning, Typed
  <2>3. Black(Consumer)
    BY <1>7, <2>2, ConsumerFacts DEF SkipOver, ToVisit, ClosesCycle, Black, Consumer, Typed
  <2> SUFFICES ASSUME NEW n \in Nodes, Gray(n), NEW k \in DOMAIN consumers[n]
               PROVE  (n = node_id /\ k > seen + 1) \/ Looked(n, k)
    BY <2>1 DEF Pending, Looked, Gray, Black, Awaited
  <2>4. k \in Nat
    BY ConsumerFacts
  <2>5. CASE n = node_id /\ k = seen + 1
    BY <2>3, <2>5 DEF Looked, Consumer
  <2> QED BY <2>2, <2>4, <2>5 DEF Pending, Looked
<1>8. CASE Scanned
  <2>1. /\ UNCHANGED <<consumers, status, stack>> /\ seen = Len(consumers[node_id])
        /\ pc = "scan"
    BY <1>8 DEF Scanned, graphVars
  <2> SUFFICES ASSUME NEW n \in Nodes, Gray(n), NEW k \in DOMAIN consumers[n]
               PROVE  Looked(n, k)
    BY <2>1 DEF Pending, Looked, Gray, Black, Awaited
  <2>2. ~(n = node_id /\ k > seen)
    BY <2>1, ConsumerFacts
  <2> QED BY <2>2 DEF Pending, Looked
<1> QED
  BY <1>1, <1>2, <1>3, <1>4, <1>5, <1>6, <1>7, <1>8 DEF Next

-----------------------------------------------------------------------------
(* The order.                                                               *)

Order == Closed /\ Finished /\ Passed

(* Nothing is above the top, so a node that is finished awaits no consumer. *)
LEMMA TopDone ==
  ASSUME Typed, Pending, At("gray")
  PROVE  \A m \in Range(consumers[Top]) : Black(m)
<1>1. stack # <<>> /\ pc = "search" /\ Gray(Top)
  BY DEF At, Gray
<1>2. PICK L \in Nat \ {0} : L = Len(stack)
  BY <1>1, TopFacts
<1>3. DOMAIN stack = 1 .. L /\ stack[L] = Top /\ Top \in Nodes
  BY <1>1, <1>2, TopFacts DEF Top
<1>4. \A m : ~Awaited(Top, m)
  BY <1>3 DEF Awaited
<1>5. \A k \in DOMAIN consumers[Top] : Black(consumers[Top][k])
  BY <1>1, <1>3, <1>4 DEF Pending
<1> QED
  BY <1>3, <1>5, ConsumerFacts

LEMMA FinishOrder ==
  ASSUME Typed, Pending, Order, Finish
  PROVE  Order'
<1>1. /\ At("gray") /\ stack # <<>> /\ pc = "search" /\ Top \in Nodes
      /\ consumers' = consumers /\ id' = id
      /\ status' = [status EXCEPT ![Top] = "black"]
      /\ res' = Append(res, Top)
  BY TopFacts DEF Finish, At, graphVars
<1>2. \A m \in Range(consumers[Top]) : Black(m)
  BY <1>1, TopDone
<1>3. Gray(Top) /\ ~Black(Top)
  BY <1>1 DEF At, Gray, Black
<1>4. /\ \A n \in Nodes : Black(n)' <=> Black(n) \/ n = Top
      /\ \A n \in Nodes : White(n)' => White(n)
  BY <1>1 DEF White, Black, Typed
<1>5. \A n \in Nodes : Range(consumers[n]) \subseteq Nodes
  BY ConsumerFacts
<1>6. Closed'
  <2> SUFFICES ASSUME NEW n \in Nodes, Black(n)', NEW m \in Range(consumers[n])
               PROVE  Black(m)'
    BY <1>1 DEF Closed
  <2>1. Black(m)
    BY <1>2, <1>4 DEF Order, Closed
  <2> QED BY <1>4, <1>5, <2>1
<1>7. Passed'
  BY <1>1, <1>4 DEF Order, Passed
<1>8. Finished'
  <2>0. PICK r \in Nat : r = Len(res)
    BY DEF Typed
  <2>1. /\ DOMAIN res = 1 .. r /\ DOMAIN res' = 1 .. r + 1 /\ res'[r + 1] = Top
        /\ \A i \in DOMAIN res : res'[i] = res[i] /\ res[i] \in Nodes
    BY <1>1, <2>0 DEF Typed
  <2>2. /\ \A i \in DOMAIN res : Black(res[i])
        /\ \A n \in Nodes : Black(n) => \E i \in DOMAIN res : res[i] = n
        /\ \A i, j \in DOMAIN res : res[i] = res[j] => i = j
        /\ \A i, j \in DOMAIN res : res[j] \in Range(consumers[res[i]]) => j < i
    BY <1>1 DEF Order, Finished, IsInjective, Range
  <2>3. \A i \in DOMAIN res : res[i] # Top
    BY <1>3, <2>2
  <2>4. IsInjective(res')
    <3> SUFFICES ASSUME NEW i \in DOMAIN res', NEW j \in DOMAIN res', res'[i] = res'[j]
                 PROVE  i = j
      BY DEF IsInjective
    <3>1. (i \in DOMAIN res \/ i = r + 1) /\ (j \in DOMAIN res \/ j = r + 1)
      BY <2>1
    <3> QED BY <2>1, <2>2, <2>3, <3>1
  <2>5. Range(res)' = {n \in Nodes : Black(n)'}
    <3>1. ASSUME NEW n \in Range(res') PROVE n \in Nodes /\ Black(n)'
      <4>1. PICK i \in DOMAIN res' : res'[i] = n
        BY <3>1 DEF Range
      <4>2. CASE i \in DOMAIN res
        BY <1>4, <2>1, <2>2, <4>1, <4>2
      <4>3. CASE i = r + 1
        BY <1>1, <1>4, <2>1, <4>1, <4>3
      <4> QED BY <2>1, <4>2, <4>3
    <3>2. ASSUME NEW n \in Nodes, Black(n)' PROVE n \in Range(res')
      <4>1. CASE n = Top
        BY <2>1, <4>1 DEF Range
      <4>2. CASE n # Top
        <5>1. PICK i \in DOMAIN res : res[i] = n
          BY <1>4, <2>2, <3>2, <4>2
        <5> QED BY <2>1, <5>1 DEF Range
      <4> QED BY <4>1, <4>2
    <3> QED BY <3>1, <3>2
  <2>6. ASSUME NEW i \in DOMAIN res', NEW j \in DOMAIN res',
               res'[j] \in Range(consumers[res'[i]])
        PROVE  j < i
    <3>1. CASE i = r + 1
      <4>1. j # r + 1
        BY <1>2, <1>3, <2>1, <2>6, <3>1
      <4> QED BY <2>1, <3>1, <4>1
    <3>2. CASE i \in DOMAIN res /\ j \in DOMAIN res
      BY <2>1, <2>2, <2>6, <3>2
    <3>3. CASE i \in DOMAIN res /\ j = r + 1
      BY <1>3, <2>1, <2>2, <2>6, <3>3 DEF Order, Closed
    <3> QED BY <2>1, <3>1, <3>2, <3>3
  <2> QED BY <1>1, <2>4, <2>5, <2>6 DEF Finished
<1> QED
  BY <1>6, <1>7, <1>8 DEF Order

LEMMA NextOrder ==
  ASSUME Typed, Pending, Order, [Next]_vars
  PROVE  Order'
<1>1. CASE StartAt \/ Duplicate \/ Push \/ Throw \/ SkipOver \/ Scanned \/ UNCHANGED vars
  <2>1. /\ UNCHANGED <<consumers, status>> /\ UNCHANGED <<id, res>>
        /\ pc = "done" => pc' = "done"
        /\ pc # "done" => pc' # "done"
    BY <1>1 DEF StartAt, Duplicate, At, Push, Throw, SkipOver, Scanned, Scanning, vars, graphVars, scanVars
  <2> QED BY <2>1 DEF Order, Closed, Finished, Passed, White, Black
<1>2. CASE PassBy
  <2>1. /\ UNCHANGED <<consumers, status>> /\ res' = res /\ pc' = pc /\ id' = id + 1
        /\ id \in Nodes /\ ~White(id)
    BY <1>2, TopoAssumption DEF PassBy, scanVars, Typed, Nodes, White
  <2>2. Closed' /\ Finished'
    BY <2>1 DEF Order, Closed, Finished, Black
  <2>3. Passed'
    <3> SUFFICES ASSUME NEW n \in Nodes, n < id + 1 PROVE ~White(n)
      BY <2>1 DEF Passed, White
    <3>1. n < id \/ n = id
      BY <2>1, TopoAssumption DEF Nodes
    <3> QED BY <2>1, <3>1 DEF Order, Passed
  <2> QED BY <2>2, <2>3 DEF Order
<1>3. CASE Return
  <2>1. UNCHANGED <<consumers, status>> /\ id' = id /\ pc' = "done"
    BY <1>3 DEF Return, graphVars
  <2> QED BY <2>1 DEF Order, Closed, Finished, Passed, White, Black
<1>4. CASE Enter
  <2>1. /\ consumers' = consumers /\ id' = id /\ res' = res /\ pc # "done" /\ White(Top)
        /\ status' = [status EXCEPT ![Top] = "gray"]
    BY <1>4 DEF Enter, At, White, graphVars
  <2>2. \A n \in Nodes : (Black(n)' <=> Black(n)) /\ (White(n)' => White(n))
    BY <2>1 DEF Typed, White, Black
  <2>3. \A n \in Nodes : Range(consumers[n]) \subseteq Nodes
    BY ConsumerFacts
  <2>4. Closed'
    BY <2>1, <2>2, <2>3 DEF Order, Closed
  <2>5. Finished'
    BY <2>1, <2>2 DEF Order, Finished
  <2>6. Passed'
    BY <2>1, <2>2 DEF Order, Passed
  <2> QED BY <2>4, <2>5, <2>6 DEF Order
<1>5. CASE Finish
  BY <1>5, FinishOrder
<1> QED
  BY <1>1, <1>2, <1>3, <1>4, <1>5 DEF Next

-----------------------------------------------------------------------------
(* What is returned, and when it throws.                                    *)

LEMMA ReturnTopological ==
  ASSUME Typed, OnStack, Order, Return
  PROVE  IsTopological(res)'
<1>1. /\ consumers' = consumers /\ stack = <<>> /\ id = NodeNum /\ pc # "done"
      /\ res' = Reverse(res)
  BY DEF Return, graphVars
<1>2. \A n \in Nodes : Black(n)
  <2> TAKE n \in Nodes
  <2>1. n < id
    BY <1>1, TopoAssumption DEF Nodes
  <2>2. ~White(n) /\ ~Gray(n)
    BY <1>1, <2>1 DEF Order, Passed, OnStack
  <2> QED BY <2>2 DEF Typed, White, Gray, Black
<1>3. PICK r \in Nat : r = Len(res)
  BY DEF Typed
<1>4. /\ DOMAIN res = 1 .. r /\ \A i \in DOMAIN res : res[i] \in Nodes
      /\ \A n \in Nodes : \E i \in DOMAIN res : res[i] = n
      /\ \A i, j \in DOMAIN res : res[i] = res[j] => i = j
      /\ \A i, j \in DOMAIN res : res[j] \in Range(consumers[res[i]]) => j < i
  BY <1>1, <1>2, <1>3 DEF Order, Finished, IsInjective, Range, Typed
<1>5. /\ DOMAIN res' = 1 .. r
      /\ \A i \in 1 .. r : r - i + 1 \in 1 .. r /\ res'[i] = res[r - i + 1]
  BY <1>1, <1>3 DEF Reverse
<1>6. IsInjective(res')
  <2> SUFFICES ASSUME NEW i \in 1 .. r, NEW j \in 1 .. r, res'[i] = res'[j]
               PROVE  i = j
    BY <1>5 DEF IsInjective
  <2>1. r - i + 1 = r - j + 1
    BY <1>4, <1>5
  <2> QED BY <2>1
<1>7. Range(res') = Nodes
  <2>1. ASSUME NEW n \in Range(res') PROVE n \in Nodes
    <3>1. PICK i \in 1 .. r : res'[i] = n
      BY <1>5, <2>1 DEF Range
    <3> QED BY <1>4, <1>5, <3>1
  <2>2. ASSUME NEW n \in Nodes PROVE n \in Range(res')
    <3>1. PICK i \in 1 .. r : res[i] = n
      BY <1>4
    <3>2. r - i + 1 \in 1 .. r /\ r - (r - i + 1) + 1 = i
      OBVIOUS
    <3>3. res'[r - i + 1] = n
      BY <1>5, <3>1, <3>2
    <3> QED BY <1>5, <3>2, <3>3 DEF Range
  <2> QED BY <2>1, <2>2
<1>8. ASSUME NEW i \in DOMAIN res', NEW j \in DOMAIN res',
             res'[j] \in Range(consumers[res'[i]])
      PROVE  i < j
  <2>1. r - j + 1 < r - i + 1
    BY <1>4, <1>5, <1>8
  <2> QED BY <1>5, <2>1
<1> QED
  BY <1>1, <1>6, <1>7, <1>8 DEF IsTopological

(* The nodes of the path have a cycle among them.                           *)
LEMMA ThrowCyclic ==
  ASSUME Typed, Search, AtEnd, Throw
  PROVE  Cyclic
<1> DEFINE S == {n \in Nodes : Gray(n)}
<1>1. /\ node_id \in Nodes /\ Consumer \in Range(consumers[node_id]) /\ Consumer \in S
  <2>1. node_id \in Nodes /\ seen + 1 \in 1 .. Len(consumers[node_id])
    BY ConsumerFacts DEF Throw, Scanning, Typed
  <2> QED BY <2>1, ConsumerFacts DEF Throw, ClosesCycle, Gray, Consumer
<1>2. PICK e \in DOMAIN stack : Innermost(e) /\ stack[e] = node_id
  BY DEF AtEnd, Throw, Scanning
<1>3. \A i \in DOMAIN stack : i \in Nat /\ stack[i] \in Nodes
  BY DEF Typed
<1>4. ASSUME NEW n \in S PROVE Range(consumers[n]) \cap S # {}
  <2>1. PICK i \in DOMAIN stack : Entered(i) /\ stack[i] = n
    BY DEF Search, OnStack
  <2>2. CASE Innermost(i)
    <3>1. i = e
      BY <1>2, <1>3, <2>1, <2>2 DEF Innermost
    <3> QED BY <1>1, <1>2, <2>1, <3>1
  <2>3. CASE \E k \in DOMAIN stack : i < k /\ Entered(k) /\ NoneBetween(i, k)
    <3>1. PICK k \in DOMAIN stack : i < k /\ Entered(k) /\ NoneBetween(i, k)
      BY <2>3
    <3>2. stack[k] \in Range(consumers[n])
      BY <2>1, <3>1 DEF Search, Parents
    <3>3. stack[k] \in S
      BY <1>3, <3>1 DEF Entered
    <3> QED BY <3>2, <3>3
  <2> QED BY <2>1, <2>2, <2>3 DEF Search, Path
<1>5. S \in SUBSET Nodes /\ S # {}
  BY <1>1
<1> QED
  BY <1>4, <1>5 DEF Cyclic

LEMMA NextInv == Inv /\ [Next]_vars => Inv'
<1> SUFFICES ASSUME Inv, [Next]_vars PROVE Inv'
  OBVIOUS
<1>1. Typed /\ Search /\ AtEnd /\ Pending /\ Order
  BY DEF Inv, Search, Order
<1>2. Typed'
  BY <1>1, NextTyped
<1>3. Search' /\ AtEnd'
  BY <1>1, NextSearch
<1>4. Pending'
  BY <1>1, NextPending
<1>5. Order'
  BY <1>1, NextOrder
<1>6. OrderIsTopological'
  <2>1. CASE Return
    BY <1>1, <2>1, ReturnTopological DEF Search, OrderIsTopological
  <2>2. CASE UNCHANGED vars
    BY <2>2 DEF Inv, OrderIsTopological, IsTopological, vars, graphVars
  <2>3. CASE Next /\ ~Return
    <3>1. pc' # "done"
      BY <2>3 DEF Next, StartAt, PassBy, Enter, Finish, Duplicate, At, Push, Throw,
                  SkipOver, Scanned, Scanning
    <3> QED BY <3>1 DEF OrderIsTopological
  <2> QED BY <2>1, <2>2, <2>3
<1>7. ThrowsOnlyOnCycle'
  <2>1. CASE Throw
    <3>1. Cyclic /\ consumers' = consumers
      BY <1>1, <2>1, ThrowCyclic DEF Throw, graphVars
    <3> QED BY <3>1 DEF ThrowsOnlyOnCycle, Cyclic
  <2>2. CASE UNCHANGED vars
    BY <2>2 DEF Inv, ThrowsOnlyOnCycle, Cyclic, vars, graphVars
  <2>3. CASE Next /\ ~Throw
    <3>1. pc' # "threw"
      BY <2>3 DEF Next, StartAt, PassBy, Return, Enter, Finish, Duplicate, At, Push,
                  SkipOver, Scanned, Scanning
    <3> QED BY <3>1 DEF ThrowsOnlyOnCycle
  <2> QED BY <2>1, <2>2, <2>3
<1> QED
  BY <1>2, <1>3, <1>4, <1>5, <1>6, <1>7 DEF Inv, Search, Order

LEMMA SpecInv == Spec => []Inv
<1> QED
  BY InitInv, NextInv, PTL DEF Spec

(* The plan's tasks are in a topological order of the graph's nodes: a task *)
(* runs after those whose outputs it reads, and every node has one task.    *)
THEOREM OrderCorrect == Spec => []OrderIsTopological
<1>1. Inv => OrderIsTopological
  BY DEF Inv
<1> QED
  BY <1>1, SpecInv, PTL

(* "Cycle in graph." is thrown only for a graph with a cycle.               *)
THEOREM ThrowCorrect == Spec => []ThrowsOnlyOnCycle
<1>1. Inv => ThrowsOnlyOnCycle
  BY DEF Inv
<1> QED
  BY <1>1, SpecInv, PTL

(***************************************************************************)
(* The graph.                                                               *)
(***************************************************************************)

(* Lists.                                                                   *)
IsSeq(s) == s \in Seq(Range(s))

LEMMA SeqIs ==
  ASSUME NEW s, IsSeq(s)
  PROVE  /\ Len(s) \in Nat /\ DOMAIN s = 1 .. Len(s) /\ s = [k \in 1 .. Len(s) |-> s[k]]
         /\ \A k \in 1 .. Len(s) : s[k] \in Range(s)
<1> DEFINE T == Range(s)
<1>1. s \in Seq(T)
  BY DEF IsSeq
<1> HIDE DEF T
<1>2. Len(s) \in Nat /\ DOMAIN s = 1 .. Len(s)
  BY <1>1
<1>3. s = [k \in 1 .. Len(s) |-> s[k]]
  BY <1>1
<1> QED
  BY <1>2, <1>3 DEF T, Range

LEMMA ListIs ==
  ASSUME NEW n \in Nat, NEW s, s = [k \in 1 .. n |-> s[k]]
  PROVE  IsSeq(s) /\ Len(s) = n /\ DOMAIN s = 1 .. n
<1>1. DOMAIN s = 1 .. n
  OBVIOUS
<1>2. \A k \in 1 .. n : s[k] \in Range(s)
  BY <1>1 DEF Range
<1> DEFINE T == Range(s)
<1> HIDE DEF T
<1>3. s \in [1 .. n -> T]
  BY <1>2 DEF T
<1>4. s \in Seq(T)
  BY <1>3
<1>5. Len(s) = n
  BY <1>3, <1>4
<1>6. IsSeq(s)
  BY <1>4, Zenon DEF IsSeq, T
<1> QED
  BY <1>1, <1>5, <1>6, Zenon

LEMMA AppendIs ==
  ASSUME NEW s, IsSeq(s), NEW x
  PROVE  /\ IsSeq(Append(s, x)) /\ Len(Append(s, x)) = Len(s) + 1
         /\ DOMAIN Append(s, x) = 1 .. Len(s) + 1
         /\ \A k \in 1 .. Len(s) : Append(s, x)[k] = s[k]
         /\ Append(s, x)[Len(s) + 1] = x
         /\ Range(Append(s, x)) = Range(s) \cup {x}
<1> DEFINE T == Range(s) \cup {x}
           a == Append(s, x)
           n == Len(s)
<1>1. s \in Seq(T) /\ x \in T
  BY SeqIs DEF IsSeq
<1> HIDE DEF T
<1>2. /\ a \in Seq(T) /\ Len(a) = n + 1 /\ n \in Nat
      /\ \A k \in 1 .. n : a[k] = s[k]
      /\ a[n + 1] = x
  BY <1>1
<1> HIDE DEF a, n
<1>3. DOMAIN a = 1 .. n + 1 /\ a = [k \in 1 .. n + 1 |-> a[k]]
  BY <1>2
<1>4. IsSeq(a)
  <2>1. n + 1 \in Nat
    BY <1>2
  <2> QED BY <1>3, <2>1, ListIs, Zenon
<1>5. Range(a) = Range(s) \cup {x}
  <2>1. DOMAIN s = 1 .. n
    BY SeqIs DEF n
  <2>2. \A k \in 1 .. n + 1 : k \in 1 .. n \/ k = n + 1
    BY <1>2
  <2>3. n + 1 \in 1 .. n + 1 /\ \A k \in 1 .. n : k \in 1 .. n + 1
    BY <1>2
  <2>4. \A y : y \in Range(a) <=> \E k \in 1 .. n + 1 : a[k] = y
    BY <1>3 DEF Range
  <2>5. \A y : y \in Range(s) <=> \E k \in 1 .. n : s[k] = y
    BY <2>1 DEF Range
  <2> QED BY <1>2, <2>2, <2>3, <2>4, <2>5
<1> QED
  BY <1>2, <1>3, <1>4, <1>5 DEF a, n

LEMMA JoinIs ==
  ASSUME NEW s, IsSeq(s), NEW t, IsSeq(t)
  PROVE  IsSeq(s \o t) /\ Range(s \o t) = Range(s) \cup Range(t)
<1> DEFINE T == Range(s) \cup Range(t)
           a == s \o t
           n == Len(s)
           m == Len(t)
<1>1. s \in Seq(T) /\ t \in Seq(T)
  BY SeqIs DEF IsSeq
<1> HIDE DEF T
<1>2. /\ a \in Seq(T) /\ Len(a) = n + m /\ n \in Nat /\ m \in Nat
      /\ \A k \in 1 .. n + m : a[k] = IF k <= n THEN s[k] ELSE t[k - n]
  BY <1>1
<1>0. DOMAIN s = 1 .. n /\ DOMAIN t = 1 .. m
  BY SeqIs
<1> HIDE DEF a, n, m
<1>3. DOMAIN a = 1 .. n + m /\ a = [k \in 1 .. n + m |-> a[k]]
  BY <1>2
<1>4. IsSeq(a)
  <2>1. n + m \in Nat
    BY <1>2
  <2> QED BY <1>3, <2>1, ListIs, Zenon
<1>5. \A k \in 1 .. m : n + k \in 1 .. n + m /\ ~(n + k <= n) /\ (n + k) - n = k
  BY <1>2
<1>6. \A k \in 1 .. n : k \in 1 .. n + m
  BY <1>2
<1>7. \A k \in 1 .. n + m : ~(k <= n) => k - n \in 1 .. m
  BY <1>2
<1>8. \A k \in 1 .. n + m : k <= n => k \in 1 .. n
  BY <1>2
<1>12. /\ \A y : y \in Range(a) <=> \E k \in 1 .. n + m : a[k] = y
       /\ \A y : y \in Range(s) <=> \E k \in 1 .. n : s[k] = y
       /\ \A y : y \in Range(t) <=> \E k \in 1 .. m : t[k] = y
  BY <1>0, <1>3 DEF Range
<1>9. Range(a) \subseteq Range(s) \cup Range(t)
  BY <1>2, <1>7, <1>8, <1>12
<1>13. \A k \in 1 .. n : k <= n
  BY <1>2
<1>10. Range(s) \subseteq Range(a)
  BY <1>2, <1>6, <1>12, <1>13
<1>11. Range(t) \subseteq Range(a)
  <2>1. ASSUME NEW y \in Range(t) PROVE y \in Range(a)
    <3>1. PICK k \in 1 .. m : t[k] = y
      BY <1>12
    <3>2. a[n + k] = t[k]
      BY <1>2, <1>5
    <3> QED BY <1>5, <1>12, <3>1, <3>2
  <2> QED BY <2>1
<1> QED
  BY <1>4, <1>9, <1>10, <1>11 DEF a

LEMMA EmptyIs == IsSeq(<<>>) /\ Len(<<>>) = 0 /\ Range(<<>>) = {}
BY DEF IsSeq, Range

(* How often a value is in a list.                                          *)
LEMMA OccurrencesType ==
  ASSUME NEW s, IsSeq(s), NEW x
  PROVE  /\ Occurrences(s, x) \in Nat /\ IsFiniteSet({k \in DOMAIN s : s[k] = x})
         /\ x \in Range(s) <=> Occurrences(s, x) # 0
<1> DEFINE S == {k \in DOMAIN s : s[k] = x}
<1>1. Len(s) \in Nat /\ DOMAIN s = 1 .. Len(s)
  BY SeqIs
<1>2. IsFiniteSet(S)
  <2>1. S \subseteq 1 .. Len(s) /\ IsFiniteSet(1 .. Len(s))
    BY <1>1, FS_Interval
  <2> HIDE DEF S
  <2> QED BY <2>1, FS_Subset
<1>3. Cardinality(S) \in Nat /\ (Cardinality(S) = 0 <=> S = {})
  BY <1>2, FS_CardinalityType, FS_EmptySet
<1>4. x \in Range(s) <=> S # {}
  BY DEF Range
<1>5. Occurrences(s, x) = Cardinality(S)
  BY DEF Occurrences
<1> HIDE DEF S
<1>6. Occurrences(s, x) \in Nat /\ (x \in Range(s) <=> Occurrences(s, x) # 0)
  BY <1>3, <1>4, <1>5
<1> QED
  BY <1>2, <1>6 DEF S

LEMMA OccurrencesAppend ==
  ASSUME NEW s, IsSeq(s), NEW x, NEW y
  PROVE  Occurrences(Append(s, y), x) = Occurrences(s, x) + IF x = y THEN 1 ELSE 0
<1> DEFINE a == Append(s, y)
           n == Len(s)
           S == {k \in DOMAIN s : s[k] = x}
           T == {k \in DOMAIN a : a[k] = x}
<1>1. n \in Nat /\ DOMAIN s = 1 .. n
  BY SeqIs
<1>2. DOMAIN a = 1 .. n + 1 /\ a[n + 1] = y /\ \A k \in 1 .. n : a[k] = s[k]
  BY AppendIs
<1> HIDE DEF a, n
<1>3. IsFiniteSet(S) /\ Cardinality(S) \in Nat
  BY OccurrencesType, FS_CardinalityType
<1>4. 1 .. n + 1 = (1 .. n) \cup {n + 1} /\ n + 1 \notin 1 .. n
  BY <1>1
<1>5. CASE x = y
  <2>1. T = S \cup {n + 1} /\ n + 1 \notin S
    BY <1>1, <1>2, <1>4, <1>5
  <2>2. Cardinality(T) = Cardinality(S) + 1
    <3> HIDE DEF S, T
    <3> QED BY <1>3, <2>1, FS_AddElement
  <2> QED BY <1>5, <2>2 DEF Occurrences, a
<1>6. CASE x # y
  <2>1. T = S
    BY <1>1, <1>2, <1>4, <1>6
  <2> QED BY <1>3, <1>6, <2>1 DEF Occurrences, a
<1> QED BY <1>5, <1>6

LEMMA OccurrencesNone ==
  ASSUME NEW x
  PROVE  Occurrences(<<>>, x) = 0
<1>1. {k \in DOMAIN <<>> : <<>>[k] = x} = {}
  OBVIOUS
<1> QED BY <1>1, FS_EmptySet DEF Occurrences

-----------------------------------------------------------------------------
(* A graph whose two records agree.                                         *)

IsNode(x) ==
  /\ x = [name |-> x.name, param |-> x.param,
          input_tensors |-> x.input_tensors, output_tensors |-> x.output_tensors]
  /\ IsSeq(x.input_tensors) /\ IsSeq(x.output_tensors)

IsInfo(x) ==
  /\ x = [name |-> x.name, has_explicit_added |-> x.has_explicit_added, dtype |-> x.dtype,
          shape |-> x.shape, consumer_nodes |-> x.consumer_nodes, producer_node |-> x.producer_node]
  /\ IsSeq(x.consumer_nodes)

IsGraph(g) ==
  /\ g = [nodes |-> g.nodes, tensor_infos |-> g.tensor_infos,
          node_name_to_idx |-> g.node_name_to_idx, tensor_name_to_idx |-> g.tensor_name_to_idx,
          input_names |-> g.input_names, output_names |-> g.output_names]
  /\ IsSeq(g.nodes) /\ \A n \in DOMAIN g.nodes : IsNode(g.nodes[n])
  /\ IsSeq(g.tensor_infos) /\ \A t \in DOMAIN g.tensor_infos : IsInfo(g.tensor_infos[t])

(* A map from names to positions is the inverse of the list.                *)
NamesAgree(map, list) ==
  /\ DOMAIN map = {list[k].name : k \in DOMAIN list}
  /\ \A k \in DOMAIN list : map[list[k].name] = k

(* Nodes and tensors list each other.                                       *)
Paired(nodes, infos, t, n) ==
  /\ Occurrences(infos[t].consumer_nodes, n) = Occurrences(nodes[n].input_tensors, t)
  /\ Occurrences(nodes[n].output_tensors, t) = (IF infos[t].producer_node = n THEN 1 ELSE 0)

Edges(nodes, infos) ==
  /\ \A n \in DOMAIN nodes : TouchedBy(nodes[n]) \subseteq DOMAIN infos
  /\ \A t \in DOMAIN infos : /\ Range(infos[t].consumer_nodes) \subseteq DOMAIN nodes
                             /\ infos[t].producer_node \in DOMAIN nodes \cup {None}
  /\ \A t \in DOMAIN infos, n \in DOMAIN nodes : Paired(nodes, infos, t, n)

Whole(g) ==
  /\ IsGraph(g)
  /\ NamesAgree(g.tensor_name_to_idx, g.tensor_infos)
  /\ NamesAgree(g.node_name_to_idx, g.nodes)
  /\ Edges(g.nodes, g.tensor_infos)
  /\ g.input_names \cup g.output_names \subseteq DOMAIN g.tensor_name_to_idx

LEMMA WholeReferenced == Whole(graph) => CrossReferenced
BY DEF Whole, NamesAgree, Edges, Paired, CrossReferenced

LEMMA EmptyWhole == Whole(EmptyGraph)
<1> DEFINE g == EmptyGraph
<1>1. /\ g.nodes = <<>> /\ g.tensor_infos = <<>> /\ g.node_name_to_idx = <<>>
      /\ g.tensor_name_to_idx = <<>> /\ g.input_names = {} /\ g.output_names = {}
  BY DEF EmptyGraph
<1>2. IsGraph(g)
  BY <1>1, EmptyIs DEF IsGraph, EmptyGraph
<1>3. DOMAIN <<>> = {}
  OBVIOUS
<1> HIDE DEF g
<1> QED BY <1>1, <1>2, <1>3 DEF Whole, NamesAgree, Edges, g

(* The map grows with the list.                                             *)
LEMMA NamesAppend ==
  ASSUME NEW map, NEW list, IsSeq(list), NamesAgree(map, list),
         NEW x, x.name \notin DOMAIN map
  PROVE  NamesAgree(Emplaced(map, x.name, Len(list) + 1), Append(list, x))
<1> DEFINE m == Emplaced(map, x.name, Len(list) + 1)
           l == Append(list, x)
           n == Len(list)
<1>1. n \in Nat /\ DOMAIN list = 1 .. n
  BY SeqIs
<1>2. /\ DOMAIN l = 1 .. n + 1 /\ l[n + 1] = x
      /\ \A k \in 1 .. n : l[k] = list[k]
  BY AppendIs
<1>3. /\ DOMAIN m = {x.name} \cup DOMAIN map
      /\ m[x.name] = n + 1
      /\ \A y \in DOMAIN map : m[y] = map[y]
  BY DEF Emplaced
<1> HIDE DEF m, l, n
<1>4. \A k \in 1 .. n + 1 : k \in 1 .. n \/ k = n + 1
  BY <1>1
<1>5. n + 1 \in 1 .. n + 1 /\ \A k \in 1 .. n : k \in 1 .. n + 1
  BY <1>1
<1>6. DOMAIN m = {l[k].name : k \in DOMAIN l}
  BY <1>1, <1>2, <1>3, <1>4, <1>5 DEF NamesAgree
<1>7. \A k \in DOMAIN l : m[l[k].name] = k
  BY <1>1, <1>2, <1>3, <1>4, <1>5 DEF NamesAgree
<1> QED BY <1>6, <1>7 DEF NamesAgree, m, l, n

(* What a list says of names is all the map depends on.                     *)
LEMMA NamesKept ==
  ASSUME NEW map, NEW list, NEW other, NamesAgree(map, list), DOMAIN other = DOMAIN list,
         \A k \in DOMAIN list : other[k].name = list[k].name
  PROVE  NamesAgree(map, other)
BY DEF NamesAgree

(* A value that is changed at one place.                                    *)
LEMMA ExceptIs ==
  ASSUME NEW s, IsSeq(s), NEW k \in DOMAIN s, NEW x
  PROVE  LET r == [s EXCEPT ![k] = x]
         IN  /\ IsSeq(r) /\ DOMAIN r = DOMAIN s /\ Len(r) = Len(s)
             /\ r[k] = x /\ \A j \in DOMAIN s : j # k => r[j] = s[j]
<1> DEFINE r == [s EXCEPT ![k] = x]
           n == Len(s)
<1>1. n \in Nat /\ DOMAIN s = 1 .. n
  BY SeqIs
<1>2. DOMAIN r = DOMAIN s /\ r[k] = x /\ \A j \in DOMAIN s : j # k => r[j] = s[j]
  OBVIOUS
<1>3. r = [j \in DOMAIN s |-> r[j]]
  OBVIOUS
<1> HIDE DEF r, n
<1>4. r = [j \in 1 .. n |-> r[j]]
  BY <1>1, <1>3
<1>5. IsSeq(r) /\ Len(r) = n
  BY <1>1, <1>4, ListIs, Zenon
<1> QED BY <1>1, <1>2, <1>5 DEF r, n

-----------------------------------------------------------------------------
(* What each call does to the lists keeps the edges paired.                 *)

LEMMA OccurrencesAbsent ==
  ASSUME NEW s, IsSeq(s), NEW x, x \notin Range(s)
  PROVE  Occurrences(s, x) = 0
BY OccurrencesType

LEMMA EdgesNewTensor ==
  ASSUME NEW nodes, NEW infos, IsSeq(infos), Edges(nodes, infos),
         \A n \in DOMAIN nodes : IsNode(nodes[n]), NEW name, None \notin DOMAIN nodes
  PROVE  Edges(nodes, Append(infos, NewTensor(name)))
<1> DEFINE new == Append(infos, NewTensor(name))
           m == Len(infos) + 1
           x == NewTensor(name)
<1>1. /\ DOMAIN new = DOMAIN infos \cup {m} /\ m \notin DOMAIN infos
      /\ new[m] = x /\ \A t \in DOMAIN infos : new[t] = infos[t]
  <2>1. Len(infos) \in Nat /\ DOMAIN infos = 1 .. Len(infos)
    BY SeqIs
  <2>2. 1 .. Len(infos) + 1 = (1 .. Len(infos)) \cup {Len(infos) + 1} /\ Len(infos) + 1 \notin 1 .. Len(infos)
    BY <2>1
  <2> QED BY <2>1, <2>2, AppendIs
<1>2. x.consumer_nodes = <<>> /\ x.producer_node = None
  BY DEF NewTensor
<1> HIDE DEF new, m, x
<1>3. ASSUME NEW n \in DOMAIN nodes PROVE Paired(nodes, new, m, n)
  <2>1. m \notin Range(nodes[n].input_tensors) /\ m \notin Range(nodes[n].output_tensors)
    BY <1>1 DEF Edges, TouchedBy
  <2>2. Occurrences(nodes[n].input_tensors, m) = 0 /\ Occurrences(nodes[n].output_tensors, m) = 0
    BY <2>1, OccurrencesAbsent DEF IsNode
  <2>3. Occurrences(new[m].consumer_nodes, n) = 0
    BY <1>1, <1>2, OccurrencesNone
  <2>4. new[m].producer_node # n
    BY <1>1, <1>2
  <2> QED BY <2>2, <2>3, <2>4 DEF Paired
<1>4. ASSUME NEW n \in DOMAIN nodes, NEW t \in DOMAIN infos PROVE Paired(nodes, new, t, n)
  BY <1>1 DEF Edges, Paired
<1>5. Range(new[m].consumer_nodes) = {}
  BY <1>1, <1>2, EmptyIs
<1>6. \A t \in DOMAIN new, n \in DOMAIN nodes : Paired(nodes, new, t, n)
  BY <1>1, <1>3, <1>4
<1>7. \A t \in DOMAIN new : /\ Range(new[t].consumer_nodes) \subseteq DOMAIN nodes
                            /\ new[t].producer_node \in DOMAIN nodes \cup {None}
  BY <1>1, <1>2, <1>5 DEF Edges
<1>8. \A n \in DOMAIN nodes : TouchedBy(nodes[n]) \subseteq DOMAIN new
  BY <1>1 DEF Edges
<1> QED BY <1>6, <1>7, <1>8 DEF Edges, new, x

LEMMA EdgesNewNode ==
  ASSUME NEW nodes, NEW infos, IsSeq(nodes), Edges(nodes, infos),
         \A t \in DOMAIN infos : IsInfo(infos[t]), NEW name, NEW param
  PROVE  Edges(Append(nodes, NewNode(name, param)), infos)
<1> DEFINE new == Append(nodes, NewNode(name, param))
           m == Len(nodes) + 1
           x == NewNode(name, param)
<1>1. /\ DOMAIN new = DOMAIN nodes \cup {m} /\ m \notin DOMAIN nodes /\ m # None
      /\ new[m] = x /\ \A n \in DOMAIN nodes : new[n] = nodes[n]
  <2>1. Len(nodes) \in Nat /\ DOMAIN nodes = 1 .. Len(nodes)
    BY SeqIs
  <2>2. /\ 1 .. Len(nodes) + 1 = (1 .. Len(nodes)) \cup {Len(nodes) + 1}
        /\ Len(nodes) + 1 \notin 1 .. Len(nodes) /\ Len(nodes) + 1 # None
    BY <2>1 DEF None
  <2> QED BY <2>1, <2>2, AppendIs
<1>2. x.input_tensors = <<>> /\ x.output_tensors = <<>>
  BY DEF NewNode
<1> HIDE DEF new, m, x
<1>3. ASSUME NEW t \in DOMAIN infos PROVE Paired(new, infos, t, m)
  <2>1. m \notin Range(infos[t].consumer_nodes) /\ infos[t].producer_node # m
    BY <1>1 DEF Edges
  <2>2. Occurrences(infos[t].consumer_nodes, m) = 0
    BY <2>1, OccurrencesAbsent DEF IsInfo
  <2>3. Occurrences(new[m].input_tensors, t) = 0 /\ Occurrences(new[m].output_tensors, t) = 0
    BY <1>1, <1>2, OccurrencesNone
  <2> QED BY <2>1, <2>2, <2>3 DEF Paired
<1>4. ASSUME NEW n \in DOMAIN nodes, NEW t \in DOMAIN infos PROVE Paired(new, infos, t, n)
  BY <1>1 DEF Edges, Paired
<1>5. TouchedBy(new[m]) = {}
  BY <1>1, <1>2, EmptyIs DEF TouchedBy
<1>6. \A t \in DOMAIN infos, n \in DOMAIN new : Paired(new, infos, t, n)
  BY <1>1, <1>3, <1>4
<1>7. \A t \in DOMAIN infos : /\ Range(infos[t].consumer_nodes) \subseteq DOMAIN new
                              /\ infos[t].producer_node \in DOMAIN new \cup {None}
  BY <1>1 DEF Edges
<1>8. \A n \in DOMAIN new : TouchedBy(new[n]) \subseteq DOMAIN infos
  BY <1>1, <1>5 DEF Edges
<1> QED BY <1>6, <1>7, <1>8 DEF Edges, new, x

(* Another operand of a node, another consumer of a tensor.                 *)
LEMMA EdgesRead ==
  ASSUME NEW nodes, NEW infos, Edges(nodes, infos),
         NEW n \in DOMAIN nodes, NEW t \in DOMAIN infos, NEW nodes_, NEW infos_,
         IsNode(nodes[n]), IsInfo(infos[t]),
         DOMAIN nodes_ = DOMAIN nodes, \A k \in DOMAIN nodes : k # n => nodes_[k] = nodes[k],
         DOMAIN infos_ = DOMAIN infos, \A k \in DOMAIN infos : k # t => infos_[k] = infos[k],
         nodes_[n].input_tensors = Append(nodes[n].input_tensors, t),
         nodes_[n].output_tensors = nodes[n].output_tensors,
         infos_[t].consumer_nodes = Append(infos[t].consumer_nodes, n),
         infos_[t].producer_node = infos[t].producer_node
  PROVE  Edges(nodes_, infos_)
<1>1. /\ Range(nodes_[n].input_tensors) = Range(nodes[n].input_tensors) \cup {t}
      /\ Range(infos_[t].consumer_nodes) = Range(infos[t].consumer_nodes) \cup {n}
  BY AppendIs DEF IsNode, IsInfo
<1>2. \A u \in DOMAIN infos : Occurrences(nodes_[n].input_tensors, u)
                                = Occurrences(nodes[n].input_tensors, u) + IF u = t THEN 1 ELSE 0
  BY OccurrencesAppend DEF IsNode
<1>3. \A k \in DOMAIN nodes : Occurrences(infos_[t].consumer_nodes, k)
                                = Occurrences(infos[t].consumer_nodes, k) + IF k = n THEN 1 ELSE 0
  BY OccurrencesAppend DEF IsInfo
<1>6. \A u \in DOMAIN infos : Occurrences(nodes[n].input_tensors, u) \in Nat
  BY OccurrencesType DEF IsNode
<1>7. \A k \in DOMAIN nodes : Occurrences(infos[t].consumer_nodes, k) \in Nat
  BY OccurrencesType DEF IsInfo
<1>4. ASSUME NEW u \in DOMAIN infos, NEW k \in DOMAIN nodes PROVE Paired(nodes_, infos_, u, k)
  <2>1. Paired(nodes, infos, u, k)
    BY DEF Edges
  <2>2. CASE u = t /\ k = n
    BY <1>2, <1>3, <2>1, <2>2 DEF Paired
  <2>3. CASE u = t /\ k # n
    <3>1. Occurrences(infos_[t].consumer_nodes, k) = Occurrences(infos[t].consumer_nodes, k)
      BY <1>3, <1>7, <2>3
    <3> QED BY <2>1, <2>3, <3>1 DEF Paired
  <2>4. CASE u # t /\ k = n
    <3>1. Occurrences(nodes_[n].input_tensors, u) = Occurrences(nodes[n].input_tensors, u)
      BY <1>2, <1>6, <2>4
    <3> QED BY <2>1, <2>4, <3>1 DEF Paired
  <2>5. CASE u # t /\ k # n
    BY <2>1, <2>5 DEF Paired
  <2> QED BY <2>2, <2>3, <2>4, <2>5
<1>5. /\ \A k \in DOMAIN nodes_ : TouchedBy(nodes_[k]) \subseteq DOMAIN infos_
      /\ \A u \in DOMAIN infos_ : /\ Range(infos_[u].consumer_nodes) \subseteq DOMAIN nodes_
                                  /\ infos_[u].producer_node \in DOMAIN nodes_ \cup {None}
  <2>1. ASSUME NEW k \in DOMAIN nodes PROVE TouchedBy(nodes_[k]) \subseteq DOMAIN infos
    <3>1. TouchedBy(nodes[k]) \subseteq DOMAIN infos
      BY DEF Edges
    <3>2. CASE k = n
      BY <1>1, <3>1, <3>2 DEF TouchedBy
    <3>3. CASE k # n
      BY <3>1, <3>3
    <3> QED BY <3>2, <3>3
  <2>2. ASSUME NEW u \in DOMAIN infos
        PROVE  /\ Range(infos_[u].consumer_nodes) \subseteq DOMAIN nodes
               /\ infos_[u].producer_node \in DOMAIN nodes \cup {None}
    <3>1. /\ Range(infos[u].consumer_nodes) \subseteq DOMAIN nodes
          /\ infos[u].producer_node \in DOMAIN nodes \cup {None}
      BY DEF Edges
    <3>2. CASE u = t
      BY <1>1, <3>1, <3>2
    <3>3. CASE u # t
      BY <3>1, <3>3
    <3> QED BY <3>2, <3>3
  <2> QED BY <2>1, <2>2
<1> QED BY <1>4, <1>5 DEF Edges

(* A result of a node, the producer of a tensor that had none.              *)
LEMMA EdgesWritten ==
  ASSUME NEW nodes, NEW infos, Edges(nodes, infos),
         NEW n \in DOMAIN nodes, NEW t \in DOMAIN infos, NEW nodes_, NEW infos_,
         IsNode(nodes[n]), infos[t].producer_node = None, None \notin DOMAIN nodes,
         DOMAIN nodes_ = DOMAIN nodes, \A k \in DOMAIN nodes : k # n => nodes_[k] = nodes[k],
         DOMAIN infos_ = DOMAIN infos, \A k \in DOMAIN infos : k # t => infos_[k] = infos[k],
         nodes_[n].output_tensors = Append(nodes[n].output_tensors, t),
         nodes_[n].input_tensors = nodes[n].input_tensors,
         infos_[t].producer_node = n,
         infos_[t].consumer_nodes = infos[t].consumer_nodes
  PROVE  Edges(nodes_, infos_)
<1>1. Range(nodes_[n].output_tensors) = Range(nodes[n].output_tensors) \cup {t}
  BY AppendIs DEF IsNode
<1>2. \A u \in DOMAIN infos : Occurrences(nodes_[n].output_tensors, u)
                                = Occurrences(nodes[n].output_tensors, u) + IF u = t THEN 1 ELSE 0
  BY OccurrencesAppend DEF IsNode
<1>6. \A u \in DOMAIN infos : Occurrences(nodes[n].output_tensors, u) \in Nat
  BY OccurrencesType DEF IsNode
<1>4. ASSUME NEW u \in DOMAIN infos, NEW k \in DOMAIN nodes PROVE Paired(nodes_, infos_, u, k)
  <2>1. Paired(nodes, infos, u, k)
    BY DEF Edges
  <2>2. CASE u = t /\ k = n
    <3>1. Occurrences(nodes[n].output_tensors, t) = 0
      BY <2>1, <2>2 DEF Paired
    <3>2. Occurrences(nodes_[n].output_tensors, t) = 1
      BY <1>2, <3>1
    <3> QED BY <2>1, <2>2, <3>2 DEF Paired
  <2>3. CASE u = t /\ k # n
    BY <2>1, <2>3 DEF Paired
  <2>4. CASE u # t /\ k = n
    <3>1. Occurrences(nodes_[n].output_tensors, u) = Occurrences(nodes[n].output_tensors, u)
      BY <1>2, <1>6, <2>4
    <3> QED BY <2>1, <2>4, <3>1 DEF Paired
  <2>5. CASE u # t /\ k # n
    BY <2>1, <2>5 DEF Paired
  <2> QED BY <2>2, <2>3, <2>4, <2>5
<1>5. /\ \A k \in DOMAIN nodes_ : TouchedBy(nodes_[k]) \subseteq DOMAIN infos_
      /\ \A u \in DOMAIN infos_ : /\ Range(infos_[u].consumer_nodes) \subseteq DOMAIN nodes_
                                  /\ infos_[u].producer_node \in DOMAIN nodes_ \cup {None}
  <2>1. ASSUME NEW k \in DOMAIN nodes PROVE TouchedBy(nodes_[k]) \subseteq DOMAIN infos
    <3>1. TouchedBy(nodes[k]) \subseteq DOMAIN infos
      BY DEF Edges
    <3>2. CASE k = n
      BY <1>1, <3>1, <3>2 DEF TouchedBy
    <3>3. CASE k # n
      BY <3>1, <3>3
    <3> QED BY <3>2, <3>3
  <2>2. ASSUME NEW u \in DOMAIN infos
        PROVE  /\ Range(infos_[u].consumer_nodes) \subseteq DOMAIN nodes
               /\ infos_[u].producer_node \in DOMAIN nodes \cup {None}
    BY DEF Edges
  <2> QED BY <2>1, <2>2
<1> QED BY <1>4, <1>5 DEF Edges

-----------------------------------------------------------------------------
(* Every call keeps a graph whole, one that throws included.                *)

(* The record of a graph with these lists.                                  *)
WithLists(g, nodes, infos) ==
  [nodes |-> nodes, tensor_infos |-> infos,
   node_name_to_idx |-> g.node_name_to_idx, tensor_name_to_idx |-> g.tensor_name_to_idx,
   input_names |-> g.input_names, output_names |-> g.output_names]

LEMMA WholeWithLists ==
  ASSUME NEW g, Whole(g), NEW nodes, NEW infos,
         IsSeq(nodes), DOMAIN nodes = DOMAIN g.nodes,
         \A n \in DOMAIN nodes : IsNode(nodes[n]) /\ nodes[n].name = g.nodes[n].name,
         IsSeq(infos), DOMAIN infos = DOMAIN g.tensor_infos,
         \A t \in DOMAIN infos : IsInfo(infos[t]) /\ infos[t].name = g.tensor_infos[t].name,
         Edges(nodes, infos)
  PROVE  Whole(WithLists(g, nodes, infos))
<1> DEFINE r == WithLists(g, nodes, infos)
<1>1. /\ r.nodes = nodes /\ r.tensor_infos = infos
      /\ r.node_name_to_idx = g.node_name_to_idx /\ r.tensor_name_to_idx = g.tensor_name_to_idx
      /\ r.input_names = g.input_names /\ r.output_names = g.output_names
      /\ IsGraph(r)
  BY DEF WithLists, IsGraph
<1> HIDE DEF r
<1>2. NamesAgree(r.tensor_name_to_idx, r.tensor_infos) /\ NamesAgree(r.node_name_to_idx, r.nodes)
  BY <1>1, NamesKept DEF Whole
<1>3. Edges(r.nodes, r.tensor_infos) /\ r.input_names \cup r.output_names \subseteq DOMAIN r.tensor_name_to_idx
  BY <1>1 DEF Whole
<1> QED BY <1>1, <1>2, <1>3 DEF Whole, r

LEMMA NotNone ==
  ASSUME NEW s, IsSeq(s)
  PROVE  None \notin DOMAIN s
<1>1. Len(s) \in Nat /\ DOMAIN s = 1 .. Len(s)
  BY SeqIs
<1> QED BY <1>1 DEF None

LEMMA WithTensorWhole ==
  ASSUME NEW g, Whole(g), NEW name
  PROVE  LET h == WithTensor(g, name)
         IN  /\ Whole(h) /\ h.nodes = g.nodes
             /\ name \in DOMAIN h.tensor_name_to_idx
             /\ h.tensor_name_to_idx[name] \in DOMAIN h.tensor_infos
<1> DEFINE h == WithTensor(g, name)
<1>1. ASSUME NEW r, Whole(r), name \in DOMAIN r.tensor_name_to_idx
      PROVE  r.tensor_name_to_idx[name] \in DOMAIN r.tensor_infos
  BY <1>1 DEF Whole, NamesAgree
<1>2. CASE name \in DOMAIN g.tensor_name_to_idx
  BY <1>1, <1>2 DEF WithTensor
<1>3. CASE name \notin DOMAIN g.tensor_name_to_idx
  <2> DEFINE x == NewTensor(name)
             new == Append(g.tensor_infos, x)
             map == Emplaced(g.tensor_name_to_idx, name, Len(g.tensor_infos) + 1)
  <2>1. h = [nodes |-> g.nodes, tensor_infos |-> new,
             node_name_to_idx |-> g.node_name_to_idx, tensor_name_to_idx |-> map,
             input_names |-> g.input_names, output_names |-> g.output_names]
    <3> HIDE DEF x, new, map
    <3>1. h = [g EXCEPT !.tensor_infos = new, !.tensor_name_to_idx = map]
      BY <1>3, Zenon DEF WithTensor, new, map, x
    <3> HIDE DEF h
    <3> QED BY <3>1 DEF Whole, IsGraph
  <2>2. x.name = name /\ IsInfo(x)
    BY EmptyIs DEF NewTensor, IsInfo
  <2>3. IsSeq(g.tensor_infos) /\ IsSeq(g.nodes)
    BY DEF Whole, IsGraph
  <2>4. IsSeq(new) /\ DOMAIN new = 1 .. Len(g.tensor_infos) + 1
        /\ (\A t \in 1 .. Len(g.tensor_infos) : new[t] = g.tensor_infos[t])
        /\ new[Len(g.tensor_infos) + 1] = x
    <3> HIDE DEF x
    <3> QED BY <2>3, AppendIs
  <2>5. NamesAgree(map, new)
    <3> HIDE DEF x
    <3> QED BY <1>3, <2>2, <2>3, NamesAppend DEF Whole
  <2>6. Edges(g.nodes, new)
    BY <2>3, EdgesNewTensor, NotNone DEF Whole, IsGraph
  <2>7. \A t \in DOMAIN new : IsInfo(new[t])
    <3> HIDE DEF x, new
    <3>1. Len(g.tensor_infos) \in Nat /\ DOMAIN g.tensor_infos = 1 .. Len(g.tensor_infos)
      BY <2>3, SeqIs
    <3>2. \A t \in 1 .. Len(g.tensor_infos) + 1 : t \in 1 .. Len(g.tensor_infos) \/ t = Len(g.tensor_infos) + 1
      BY <3>1
    <3> QED BY <2>2, <2>4, <3>1, <3>2 DEF Whole, IsGraph
  <2>8. DOMAIN map = DOMAIN g.tensor_name_to_idx \cup {name}
    BY DEF Emplaced
  <2> HIDE DEF x, new, map, h
  <2>9. Whole(h)
    <3>1. IsGraph(h)
      BY <2>1, <2>4, <2>7 DEF Whole, IsGraph
    <3> QED BY <2>1, <2>5, <2>6, <2>8, <3>1 DEF Whole
  <2> QED BY <1>1, <2>1, <2>8, <2>9 DEF h
<1> QED BY <1>2, <1>3

LEMMA AddTensorWhole ==
  ASSUME NEW g, Whole(g), NEW name, NEW dtype, NEW shape
  PROVE  Whole(add_tensor(g, name, dtype, shape).graph)
<1> DEFINE h == WithTensor(g, name)
           at == h.tensor_name_to_idx[name]
           info == h.tensor_infos[at]
           x == [name |-> info.name, has_explicit_added |-> TRUE, dtype |-> dtype, shape |-> shape,
                 consumer_nodes |-> info.consumer_nodes, producer_node |-> info.producer_node]
           infos == [h.tensor_infos EXCEPT ![at] = x]
           r == [h EXCEPT !.tensor_infos[at].has_explicit_added = TRUE,
                          !.tensor_infos[at].dtype = dtype,
                          !.tensor_infos[at].shape = shape]
<1>1. Whole(h) /\ at \in DOMAIN h.tensor_infos
  BY WithTensorWhole
<1>2. add_tensor(g, name, dtype, shape).graph \in {h, r}
  BY DEF add_tensor, Checked, Returned, Threw
<1> HIDE DEF h, at
<1>3. r = WithLists(h, h.nodes, infos)
  <2>1. /\ h = WithLists(h, h.nodes, h.tensor_infos) /\ IsInfo(info)
        /\ IsSeq(h.tensor_infos)
    BY <1>1 DEF Whole, IsGraph, WithLists
  <2> DEFINE i1 == [h.tensor_infos EXCEPT ![at].has_explicit_added = TRUE]
             i2 == [i1 EXCEPT ![at].dtype = dtype]
             i3 == [i2 EXCEPT ![at].shape = shape]
  <2>2. r = WithLists(h, h.nodes, i3)
    <3> DEFINE h1 == [h EXCEPT !.tensor_infos[at].has_explicit_added = TRUE]
               h2 == [h1 EXCEPT !.tensor_infos[at].dtype = dtype]
               h3 == [h2 EXCEPT !.tensor_infos[at].shape = shape]
    <3> HIDE DEF info
    <3>1. h1 = WithLists(h, h.nodes, i1)
      <4>1. ASSUME NEW v
            PROVE  [h EXCEPT !.tensor_infos[at].has_explicit_added = v]
                     = WithLists(h, h.nodes, [h.tensor_infos EXCEPT ![at].has_explicit_added = v])
        BY <2>1 DEF WithLists
      <4> QED BY <4>1, Zenon
    <3>2. h2 = WithLists(h, h.nodes, i2)
      <4> HIDE DEF h1, i1
      <4> QED BY <3>1 DEF WithLists
    <3>3. h3 = WithLists(h, h.nodes, i3)
      <4> HIDE DEF h2, i2
      <4> QED BY <3>2 DEF WithLists
    <3>4. r = h3
      OBVIOUS
    <3> QED BY <3>3, <3>4, Zenon
  <2>3. i1[at] = [info EXCEPT !.has_explicit_added = TRUE]
    BY <1>1
  <2>4. i2[at] = [i1[at] EXCEPT !.dtype = dtype]
    BY <1>1
  <2>5. i3[at] = [i2[at] EXCEPT !.shape = shape]
    BY <1>1
  <2>6. i3[at] = x
    <3> HIDE DEF i1, i2, i3, info
    <3> QED BY <2>1, <2>3, <2>4, <2>5 DEF IsInfo
  <2>7. i3 = [t \in DOMAIN h.tensor_infos |-> i3[t]]
        /\ \A t \in DOMAIN h.tensor_infos : t # at => i3[t] = h.tensor_infos[t]
    OBVIOUS
  <2>8. i3 = infos
    <3> HIDE DEF i3, x
    <3> QED BY <2>6, <2>7
  <2> QED BY <2>2, <2>8
<1>4. IsInfo(info) /\ IsInfo(x) /\ x.name = info.name
  BY <1>1 DEF Whole, IsGraph, IsInfo
<1>5. /\ IsSeq(infos) /\ DOMAIN infos = DOMAIN h.tensor_infos
      /\ infos[at] = x /\ \A t \in DOMAIN infos : t # at => infos[t] = h.tensor_infos[t]
  <2> HIDE DEF x
  <2> QED BY <1>1, ExceptIs DEF Whole, IsGraph
<1>6. x.consumer_nodes = info.consumer_nodes /\ x.producer_node = info.producer_node
  OBVIOUS
<1> HIDE DEF x, infos
<1>7. Edges(h.nodes, infos)
  <2>1. Edges(h.nodes, h.tensor_infos)
    BY <1>1 DEF Whole
  <2>2. \A t \in DOMAIN infos : /\ infos[t].consumer_nodes = h.tensor_infos[t].consumer_nodes
                                /\ infos[t].producer_node = h.tensor_infos[t].producer_node
    BY <1>5, <1>6
  <2> QED BY <1>5, <2>1, <2>2 DEF Edges, Paired
<1>8. \A t \in DOMAIN infos : IsInfo(infos[t]) /\ infos[t].name = h.tensor_infos[t].name
  BY <1>1, <1>4, <1>5 DEF Whole, IsGraph
<1>9. /\ IsSeq(h.nodes) /\ \A n \in DOMAIN h.nodes : IsNode(h.nodes[n])
  BY <1>1 DEF Whole, IsGraph
<1>10. Whole(r)
  <2> HIDE DEF r
  <2> QED BY <1>1, <1>3, <1>5, <1>7, <1>8, <1>9, WholeWithLists
<1> QED BY <1>1, <1>2, <1>10

(* The records of a node and of a tensor, by their fields.                  *)
NodeOf(name, param, input_tensors, output_tensors) ==
  [name |-> name, param |-> param, input_tensors |-> input_tensors, output_tensors |-> output_tensors]

InfoOf(name, has_explicit_added, dtype, shape, consumer_nodes, producer_node) ==
  [name |-> name, has_explicit_added |-> has_explicit_added, dtype |-> dtype, shape |-> shape,
   consumer_nodes |-> consumer_nodes, producer_node |-> producer_node]

LEMMA NodeOfIs ==
  ASSUME NEW a, NEW b, NEW c, NEW d, IsSeq(c), IsSeq(d), NEW y, y = NodeOf(a, b, c, d)
  PROVE  IsNode(y) /\ y.name = a /\ y.param = b /\ y.input_tensors = c /\ y.output_tensors = d
BY DEF IsNode, NodeOf

LEMMA InfoOfIs ==
  ASSUME NEW a, NEW b, NEW c, NEW d, NEW e, NEW f, IsSeq(e), NEW y, y = InfoOf(a, b, c, d, e, f)
  PROVE  IsInfo(y) /\ y.name = a /\ y.consumer_nodes = e /\ y.producer_node = f
BY DEF IsInfo, InfoOf

LEMMA NodeEdited ==
  ASSUME NEW x, IsNode(x), NEW v
  PROVE  /\ [x EXCEPT !.input_tensors = v] = NodeOf(x.name, x.param, v, x.output_tensors)
         /\ [x EXCEPT !.output_tensors = v] = NodeOf(x.name, x.param, x.input_tensors, v)
BY DEF IsNode, NodeOf

LEMMA ConsumersEdited ==
  ASSUME NEW x, IsInfo(x), NEW v
  PROVE  [x EXCEPT !.consumer_nodes = v]
           = InfoOf(x.name, x.has_explicit_added, x.dtype, x.shape, v, x.producer_node)
BY DEF IsInfo, InfoOf

LEMMA ProducerEdited ==
  ASSUME NEW x, IsInfo(x), NEW v
  PROVE  [x EXCEPT !.producer_node = v]
           = InfoOf(x.name, x.has_explicit_added, x.dtype, x.shape, x.consumer_nodes, v)
BY DEF IsInfo, InfoOf

LEMMA ConsumingWhole ==
  ASSUME NEW g, Whole(g), NEW n \in DOMAIN g.nodes, NEW name
  PROVE  /\ Whole(Consuming(g, n, name))
         /\ DOMAIN Consuming(g, n, name).nodes = DOMAIN g.nodes
<1> DEFINE h == WithTensor(g, name)
           at == h.tensor_name_to_idx[name]
           nodes == [h.nodes EXCEPT ![n].input_tensors = Append(@, at)]
           infos == [h.tensor_infos EXCEPT ![at].consumer_nodes = Append(@, n)]
           r == [h EXCEPT !.tensor_infos[at].consumer_nodes = Append(@, n),
                          !.nodes[n].input_tensors = Append(@, at)]
<1>1. Whole(h) /\ at \in DOMAIN h.tensor_infos /\ h.nodes = g.nodes
  BY WithTensorWhole
<1>2. Consuming(g, n, name) = r
  BY DEF Consuming
<1> HIDE DEF h, at
<1>3. /\ h = WithLists(h, h.nodes, h.tensor_infos)
      /\ IsInfo(h.tensor_infos[at]) /\ IsNode(h.nodes[n])
      /\ IsSeq(h.tensor_infos) /\ IsSeq(h.nodes)
      /\ \A t \in DOMAIN h.tensor_infos : IsInfo(h.tensor_infos[t])
      /\ \A k \in DOMAIN h.nodes : IsNode(h.nodes[k])
      /\ Edges(h.nodes, h.tensor_infos)
  BY <1>1 DEF Whole, IsGraph, WithLists
<1>4. r = WithLists(h, nodes, infos)
  <2> DEFINE q == [h EXCEPT !.tensor_infos[at].consumer_nodes = Append(@, n)]
  <2>1. q = WithLists(h, h.nodes, infos)
    BY <1>3 DEF WithLists
  <2>2. r = [q EXCEPT !.nodes[n].input_tensors = Append(@, at)]
    OBVIOUS
  <2> HIDE DEF q, infos
  <2> QED BY <2>1, <2>2 DEF WithLists
<1>5. /\ nodes[n] = [h.nodes[n] EXCEPT !.input_tensors = Append(@, at)]
      /\ infos[at] = [h.tensor_infos[at] EXCEPT !.consumer_nodes = Append(@, n)]
  BY <1>1
<1>6. /\ IsSeq(nodes) /\ DOMAIN nodes = DOMAIN h.nodes
      /\ \A k \in DOMAIN h.nodes : k # n => nodes[k] = h.nodes[k]
  <2>1. nodes = [h.nodes EXCEPT ![n] = nodes[n]]
    BY <1>1
  <2> HIDE DEF nodes
  <2> QED BY <1>1, <1>3, <2>1, ExceptIs
<1>7. /\ IsSeq(infos) /\ DOMAIN infos = DOMAIN h.tensor_infos
      /\ \A k \in DOMAIN h.tensor_infos : k # at => infos[k] = h.tensor_infos[k]
  <2>1. infos = [h.tensor_infos EXCEPT ![at] = infos[at]]
    BY <1>1
  <2> HIDE DEF infos
  <2> QED BY <1>1, <1>3, <2>1, ExceptIs
<1> HIDE DEF nodes, infos, r
<1>8. /\ IsNode(nodes[n]) /\ nodes[n].name = h.nodes[n].name
      /\ nodes[n].input_tensors = Append(h.nodes[n].input_tensors, at)
      /\ nodes[n].output_tensors = h.nodes[n].output_tensors
  <2> DEFINE v == Append(h.nodes[n].input_tensors, at)
  <2>1. IsSeq(v)
    BY <1>3, AppendIs DEF IsNode
  <2>2. nodes[n] = [h.nodes[n] EXCEPT !.input_tensors = v]
    BY <1>5
  <2> HIDE DEF v
  <2>3. /\ IsNode(nodes[n]) /\ nodes[n].name = h.nodes[n].name
        /\ nodes[n].input_tensors = v /\ nodes[n].output_tensors = h.nodes[n].output_tensors
    <3> DEFINE a == h.nodes[n]
    <3>1. IsNode(a) /\ nodes[n] = [a EXCEPT !.input_tensors = v] /\ IsSeq(a.output_tensors)
      BY <1>3, <2>2 DEF IsNode
    <3> HIDE DEF a
    <3>2. nodes[n] = NodeOf(a.name, a.param, v, a.output_tensors)
      BY <3>1, NodeEdited
    <3>3. /\ IsNode(nodes[n]) /\ nodes[n].name = a.name
          /\ nodes[n].input_tensors = v /\ nodes[n].output_tensors = a.output_tensors
      BY <2>1, <3>1, <3>2, NodeOfIs
    <3> QED BY <3>3 DEF a
  <2> QED BY <2>3 DEF v
<1>9. /\ IsInfo(infos[at]) /\ infos[at].name = h.tensor_infos[at].name
      /\ infos[at].consumer_nodes = Append(h.tensor_infos[at].consumer_nodes, n)
      /\ infos[at].producer_node = h.tensor_infos[at].producer_node
  <2> DEFINE v == Append(h.tensor_infos[at].consumer_nodes, n)
  <2>1. IsSeq(v)
    BY <1>3, AppendIs DEF IsInfo
  <2>2. infos[at] = [h.tensor_infos[at] EXCEPT !.consumer_nodes = v]
    BY <1>5
  <2> HIDE DEF v
  <2>3. /\ IsInfo(infos[at]) /\ infos[at].name = h.tensor_infos[at].name
        /\ infos[at].consumer_nodes = v
        /\ infos[at].producer_node = h.tensor_infos[at].producer_node
    <3> DEFINE a == h.tensor_infos[at]
    <3>1. IsInfo(a) /\ infos[at] = [a EXCEPT !.consumer_nodes = v]
      BY <1>3, <2>2
    <3> HIDE DEF a
    <3>2. infos[at] = InfoOf(a.name, a.has_explicit_added, a.dtype, a.shape, v, a.producer_node)
      BY <3>1, ConsumersEdited
    <3>3. /\ IsInfo(infos[at]) /\ infos[at].name = a.name
          /\ infos[at].consumer_nodes = v /\ infos[at].producer_node = a.producer_node
      BY <2>1, <3>2, InfoOfIs
    <3> QED BY <3>3 DEF a
  <2> QED BY <2>3 DEF v
<1>10. Edges(nodes, infos)
  <2>1. n \in DOMAIN h.nodes
    BY <1>1
  <2>2. IsNode(h.nodes[n]) /\ IsInfo(h.tensor_infos[at]) /\ Edges(h.nodes, h.tensor_infos)
        /\ at \in DOMAIN h.tensor_infos
    BY <1>1, <1>3
  <2> QED BY <1>6, <1>7, <1>8, <1>9, <2>1, <2>2, EdgesRead
<1>11. /\ \A k \in DOMAIN nodes : IsNode(nodes[k]) /\ nodes[k].name = h.nodes[k].name
       /\ \A k \in DOMAIN infos : IsInfo(infos[k]) /\ infos[k].name = h.tensor_infos[k].name
  BY <1>3, <1>6, <1>7, <1>8, <1>9
<1>12. Whole(r)
  BY <1>1, <1>4, <1>6, <1>7, <1>10, <1>11, WholeWithLists
<1>13. DOMAIN r.nodes = DOMAIN g.nodes
  BY <1>1, <1>4, <1>6 DEF WithLists
<1> QED BY <1>2, <1>12, <1>13

LEMMA ProducingWhole ==
  ASSUME NEW g, Whole(g), NEW n \in DOMAIN g.nodes, NEW name
  PROVE  /\ Whole(Producing(g, n, name).graph)
         /\ DOMAIN Producing(g, n, name).graph.nodes = DOMAIN g.nodes
<1> DEFINE h == WithTensor(g, name)
           at == h.tensor_name_to_idx[name]
           nodes == [h.nodes EXCEPT ![n].output_tensors = Append(@, at)]
           infos == [h.tensor_infos EXCEPT ![at].producer_node = n]
           r == [h EXCEPT !.tensor_infos[at].producer_node = n,
                          !.nodes[n].output_tensors = Append(@, at)]
<1>1. Whole(h) /\ at \in DOMAIN h.tensor_infos /\ h.nodes = g.nodes
  BY WithTensorWhole
<1>2. Producing(g, n, name).graph = IF h.tensor_infos[at].producer_node = None THEN r ELSE h
  BY DEF Producing, Checked, Returned, Threw
<1> HIDE DEF h, at
<1>14. CASE h.tensor_infos[at].producer_node # None
  BY <1>1, <1>2, <1>14
<1>15. CASE h.tensor_infos[at].producer_node = None
  <2>3. /\ h = WithLists(h, h.nodes, h.tensor_infos)
        /\ IsInfo(h.tensor_infos[at]) /\ IsNode(h.nodes[n])
        /\ IsSeq(h.tensor_infos) /\ IsSeq(h.nodes)
        /\ \A t \in DOMAIN h.tensor_infos : IsInfo(h.tensor_infos[t])
        /\ \A k \in DOMAIN h.nodes : IsNode(h.nodes[k])
        /\ Edges(h.nodes, h.tensor_infos)
    BY <1>1 DEF Whole, IsGraph, WithLists
  <2>4. r = WithLists(h, nodes, infos)
    <3> DEFINE q == [h EXCEPT !.tensor_infos[at].producer_node = n]
    <3>1. q = WithLists(h, h.nodes, infos)
      BY <2>3 DEF WithLists
    <3>2. r = [q EXCEPT !.nodes[n].output_tensors = Append(@, at)]
      OBVIOUS
    <3> HIDE DEF q, infos
    <3> QED BY <3>1, <3>2 DEF WithLists
  <2>5. /\ nodes[n] = [h.nodes[n] EXCEPT !.output_tensors = Append(@, at)]
        /\ infos[at] = [h.tensor_infos[at] EXCEPT !.producer_node = n]
    BY <1>1
  <2>6. /\ IsSeq(nodes) /\ DOMAIN nodes = DOMAIN h.nodes
        /\ \A k \in DOMAIN h.nodes : k # n => nodes[k] = h.nodes[k]
    <3>1. nodes = [h.nodes EXCEPT ![n] = nodes[n]]
      BY <1>1
    <3> HIDE DEF nodes
    <3> QED BY <1>1, <2>3, <3>1, ExceptIs
  <2>7. /\ IsSeq(infos) /\ DOMAIN infos = DOMAIN h.tensor_infos
        /\ \A k \in DOMAIN h.tensor_infos : k # at => infos[k] = h.tensor_infos[k]
    <3>1. infos = [h.tensor_infos EXCEPT ![at] = infos[at]]
      BY <1>1
    <3> HIDE DEF infos
    <3> QED BY <1>1, <2>3, <3>1, ExceptIs
  <2> HIDE DEF nodes, infos, r
  <2>8. /\ IsNode(nodes[n]) /\ nodes[n].name = h.nodes[n].name
        /\ nodes[n].output_tensors = Append(h.nodes[n].output_tensors, at)
        /\ nodes[n].input_tensors = h.nodes[n].input_tensors
    <3> DEFINE v == Append(h.nodes[n].output_tensors, at)
    <3>1. IsSeq(v)
      BY <2>3, AppendIs DEF IsNode
    <3>2. nodes[n] = [h.nodes[n] EXCEPT !.output_tensors = v]
      BY <2>5
    <3> HIDE DEF v
    <3>3. /\ IsNode(nodes[n]) /\ nodes[n].name = h.nodes[n].name
          /\ nodes[n].output_tensors = v /\ nodes[n].input_tensors = h.nodes[n].input_tensors
      <4> DEFINE a == h.nodes[n]
      <4>1. IsNode(a) /\ nodes[n] = [a EXCEPT !.output_tensors = v] /\ IsSeq(a.input_tensors)
        BY <2>3, <3>2 DEF IsNode
      <4> HIDE DEF a
      <4>2. nodes[n] = NodeOf(a.name, a.param, a.input_tensors, v)
        BY <4>1, NodeEdited
      <4>3. /\ IsNode(nodes[n]) /\ nodes[n].name = a.name
            /\ nodes[n].output_tensors = v /\ nodes[n].input_tensors = a.input_tensors
        BY <3>1, <4>1, <4>2, NodeOfIs
      <4> QED BY <4>3 DEF a
    <3> QED BY <3>3 DEF v
  <2>9. /\ IsInfo(infos[at]) /\ infos[at].name = h.tensor_infos[at].name
        /\ infos[at].consumer_nodes = h.tensor_infos[at].consumer_nodes
        /\ infos[at].producer_node = n
    BY <2>3, <2>5 DEF IsInfo
  <2>10. Edges(nodes, infos)
    <3>1. None \notin DOMAIN h.nodes
      BY <2>3, NotNone
    <3> QED BY <1>1, <1>15, <2>3, <2>6, <2>7, <2>8, <2>9, <3>1, EdgesWritten
  <2>11. /\ \A k \in DOMAIN nodes : IsNode(nodes[k]) /\ nodes[k].name = h.nodes[k].name
         /\ \A k \in DOMAIN infos : IsInfo(infos[k]) /\ infos[k].name = h.tensor_infos[k].name
    BY <2>3, <2>6, <2>7, <2>8, <2>9
  <2>12. Whole(r)
    BY <1>1, <2>4, <2>6, <2>7, <2>10, <2>11, WholeWithLists
  <2>13. DOMAIN r.nodes = DOMAIN g.nodes
    BY <1>1, <2>4, <2>6 DEF WithLists
  <2> QED BY <1>2, <1>15, <2>12, <2>13
<1> QED BY <1>14, <1>15

(* The node that is added, before its operands are.                         *)
AddedNode(g, name, param) ==
  [g EXCEPT !.nodes = Append(@, NewNode(name, param)),
            !.node_name_to_idx = Emplaced(@, name, Len(g.nodes) + 1)]

LEMMA AddedNodeWhole ==
  ASSUME NEW g, Whole(g), NEW name, name \notin DOMAIN g.node_name_to_idx, NEW param
  PROVE  /\ Whole(AddedNode(g, name, param))
         /\ Len(g.nodes) + 1 \in DOMAIN AddedNode(g, name, param).nodes
<1> DEFINE x == NewNode(name, param)
           new == Append(g.nodes, x)
           map == Emplaced(g.node_name_to_idx, name, Len(g.nodes) + 1)
           h == AddedNode(g, name, param)
<1>1. h = [nodes |-> new, tensor_infos |-> g.tensor_infos,
           node_name_to_idx |-> map, tensor_name_to_idx |-> g.tensor_name_to_idx,
           input_names |-> g.input_names, output_names |-> g.output_names]
  <2> HIDE DEF x, new, map
  <2>1. h = [g EXCEPT !.nodes = new, !.node_name_to_idx = map]
    BY Zenon DEF AddedNode, new, map, x
  <2> HIDE DEF h
  <2> QED BY <2>1 DEF Whole, IsGraph
<1>2. x.name = name /\ IsNode(x)
  BY EmptyIs DEF NewNode, IsNode
<1>3. IsSeq(g.tensor_infos) /\ IsSeq(g.nodes)
  BY DEF Whole, IsGraph
<1>4. IsSeq(new) /\ DOMAIN new = 1 .. Len(g.nodes) + 1
      /\ (\A t \in 1 .. Len(g.nodes) : new[t] = g.nodes[t])
      /\ new[Len(g.nodes) + 1] = x
  <2> HIDE DEF x
  <2> QED BY <1>3, AppendIs
<1>5. NamesAgree(map, new)
  <2> HIDE DEF x
  <2> QED BY <1>2, <1>3, NamesAppend DEF Whole
<1>6. Edges(new, g.tensor_infos)
  BY <1>3, EdgesNewNode DEF Whole, IsGraph
<1>9. Len(g.nodes) \in Nat /\ DOMAIN g.nodes = 1 .. Len(g.nodes)
  BY <1>3, SeqIs
<1>7. \A t \in DOMAIN new : IsNode(new[t])
  <2> HIDE DEF x, new
  <2>2. \A t \in 1 .. Len(g.nodes) + 1 : t \in 1 .. Len(g.nodes) \/ t = Len(g.nodes) + 1
    BY <1>9
  <2> QED BY <1>2, <1>4, <1>9, <2>2 DEF Whole, IsGraph
<1> HIDE DEF x, new, map, h
<1>8. Whole(h)
  <2>1. IsGraph(h)
    BY <1>1, <1>3, <1>4, <1>7 DEF Whole, IsGraph
  <2> QED BY <1>1, <1>5, <1>6, <2>1 DEF Whole
<1>10. Len(g.nodes) + 1 \in 1 .. Len(g.nodes) + 1
  BY <1>9
<1> QED BY <1>1, <1>4, <1>8, <1>10 DEF h

-----------------------------------------------------------------------------
(* Folds.  FoldLeft is a fold over sets of positions; each one the graph is *)
(* built with is shown to walk through the prefixes of its sequence.        *)

(* A set of numbers has a least one.                                        *)
LEMMA LeastNumber ==
  ASSUME NEW T \in SUBSET Nat, T # {}
  PROVE  \E n \in T : \A m \in T : n <= m
<1> DEFINE R == OpToRel(<, Nat)
<1>1. IsWellFoundedOn(R, Nat)
  BY NatLessThanWellFounded
<1>2. \E n \in T : \A m \in T : ~(<<m, n>> \in R)
  BY <1>1, WFMin
<1>3. PICK n \in T : \A m \in T : ~(<<m, n>> \in R)
  BY <1>2
<1>4. \A m \in T : ~(m < n)
  BY <1>3 DEF OpToRel
<1> QED
  BY <1>4

(* The nodes found, and those that write what they read.                    *)
Further(g, found) ==
  found \cup ({g.tensor_infos[t].producer_node :
                 t \in UNION {Range(g.nodes[at].input_tensors) : at \in found}} \ {None})

(* The beginnings of an order, each with one node more that may come next.  *)
Longer(g, orders) ==
  LET Ready(order) ==
        {n \in Ids(g.nodes) \ Range(order) :
           \A m \in Ids(g.nodes) : n \in ConsumersOf(g, m) => m \in Range(order)}
  IN  UNION {{Append(o, m) : m \in Ready(o)} : o \in orders}

(* The plan with one operand more bound, and with one task more.            *)
WithOperand(p, g, ranges, operand) ==
  IF p.threw # "no" THEN p ELSE BindOperand(p, g, ranges, operand)

WithTaskOf(p, g, ranges, mapping, n) ==
  IF p.threw # "no" THEN p
  ELSE LET created == create_task(p, g, n, mapping)
       IN  IF created.threw # "no" THEN created ELSE bind_descs(created, g, ranges, n)

(* The tensors found, and those written by what reads them.                 *)
Spread(g, constant, found) == found \cup UNION {NextTensors(g, t) : t \in found \ constant}

(* The terms of all tensors, and the names of the nodes in them, from those  *)
(* one level below.                                                         *)
TermsOver(g, below) ==
  [u \in DOMAIN g.tensor_infos |->
     LET producer == g.tensor_infos[u].producer_node
         node == g.nodes[producer]
     IN  IF producer = None THEN <<g.tensor_infos[u].name, 0, <<>>>>
         ELSE <<node.name, CHOOSE k \in DOMAIN node.output_tensors : node.output_tensors[k] = u,
                [k \in DOMAIN node.input_tensors |-> below[node.input_tensors[k]]]>>]

NodesOver(g, below) ==
  [u \in DOMAIN g.tensor_infos |->
     LET producer == g.tensor_infos[u].producer_node
     IN  IF producer = None THEN {}
         ELSE {g.nodes[producer].name} \cup UNION {below[v] : v \in Range(g.nodes[producer].input_tensors)}]

(* What a loop over operands, weights or calls does next.                   *)
Turn(kind, i, e, x) ==
  CASE kind = "consume" -> Consuming(e, i, x)
    [] kind = "produce" -> (IF e.threw THEN e ELSE Producing(e.graph, i, x))
    [] kind = "declare" -> Then(e, LAMBDA g : add_tensor(g, x.name, "kFloat32", x.shape))
    [] kind = "call" -> llama_add_node(e, x)
    [] kind = "need" -> Further(i, e)
    [] kind = "order" -> Longer(i, e)
    [] kind = "operand" -> WithOperand(e, i[1], i[2], x)
    [] kind = "task" -> WithTaskOf(e, i[1], i[2], i[3], x)
    [] kind = "reach" -> Spread(i[1], i[2], e)
    [] kind = "term" -> TermsOver(i, e)
    [] kind = "within" -> NodesOver(i, e)

(* h is the function by which FoldLeft is defined: what the fold makes of   *)
(* each set of the first n positions.                                       *)
IsFold(h, kind, i, base, s, n) ==
  /\ h = [T \in SUBSET (1 .. n) |-> h[T]]
  /\ h[{}] = base
  /\ \A T \in SUBSET (1 .. n) : T # {} => h[T] = Turn(kind, i, h[T \ {Max(T)}], s[Max(T)])

(* What bounds a set of numbers and is in it is its maximum.                *)
LEMMA LargestIs ==
  ASSUME NEW S, S \subseteq Int, NEW x \in S, \A y \in S : y <= x
  PROVE  Max(S) = x
<1>1. \A z \in S : (\A y \in S : z >= y) => z = x
  OBVIOUS
<1>2. Max(S) \in S /\ \A y \in S : Max(S) >= y
  BY DEF Max
<1> QED
  BY <1>1, <1>2

(* A non-empty set of the first n numbers has its maximum.                  *)
LEMMA LargestOf ==
  ASSUME NEW n \in Nat, NEW s \in SUBSET (1 .. n), s # {}
  PROVE  Max(s) \in s /\ s \ {Max(s)} \in SUBSET (1 .. n)
<1> DEFINE T == {n - m : m \in s}
<1>1. T \in SUBSET Nat /\ T # {}
  <2>1. \A m \in s : n - m \in Nat
    OBVIOUS
  <2> QED BY <2>1
<1>2. PICK d \in T : \A e \in T : d <= e
  <2> HIDE DEF T
  <2> QED BY <1>1, LeastNumber
<1>3. PICK x \in s : d = n - x
  BY <1>2
<1>4. \A y \in s : n - x <= n - y
  BY <1>2, <1>3
<1>5. \A y \in s : y <= x
  BY <1>4
<1>6. Max(s) = x
  <2>1. s \subseteq Int
    OBVIOUS
  <2> QED BY <1>5, <2>1, LargestIs
<1> QED
  BY <1>6

(* Every fold there can be is one.                                          *)
LEMMA FoldExists ==
  ASSUME NEW kind, NEW i, NEW base, NEW s, NEW n \in Nat
  PROVE  \E h : IsFold(h, kind, i, base, s, n)
<1> DEFINE F(m) == \E h : IsFold(h, kind, i, base, s, m)
           T == {m \in 0 .. n : ~F(m)}
<1>0. F(0)
  <2> DEFINE h == [S \in SUBSET (1 .. 0) |-> base]
  <2>1. SUBSET (1 .. 0) = {{}}
    OBVIOUS
  <2>2. IsFold(h, kind, i, base, s, 0)
    BY <2>1 DEF IsFold
  <2> QED BY <2>2
<1>1. ASSUME NEW m \in Nat, F(m) PROVE F(m + 1)
  <2>1. PICK h : IsFold(h, kind, i, base, s, m)
    BY <1>1
  <2> DEFINE g == [S \in SUBSET (1 .. m + 1) |->
                     IF m + 1 \in S THEN Turn(kind, i, h[S \ {m + 1}], s[m + 1]) ELSE h[S]]
  <2>2. g[{}] = base
    <3>1. {} \in SUBSET (1 .. m + 1) /\ m + 1 \notin {}
      OBVIOUS
    <3>2. g[{}] = h[{}]
      BY <3>1
    <3> QED BY <2>1, <3>2 DEF IsFold
  <2>3. ASSUME NEW S \in SUBSET (1 .. m + 1), S # {}
        PROVE  g[S] = Turn(kind, i, g[S \ {Max(S)}], s[Max(S)])
    <3>1. CASE m + 1 \in S
      <4>1. Max(S) = m + 1
        <5>1. S \subseteq Int /\ \A y \in S : y <= m + 1
          OBVIOUS
        <5> QED BY <3>1, <5>1, LargestIs
      <4>2. S \ {m + 1} \in SUBSET (1 .. m + 1) /\ m + 1 \notin S \ {m + 1}
        OBVIOUS
      <4>3. g[S \ {m + 1}] = h[S \ {m + 1}]
        BY <4>2
      <4>4. g[S] = Turn(kind, i, h[S \ {m + 1}], s[m + 1])
        BY <3>1
      <4> QED BY <4>1, <4>3, <4>4, Zenon
    <3>2. CASE m + 1 \notin S
      <4>1. S \in SUBSET (1 .. m)
        BY <3>2
      <4>2. Max(S) \in S /\ S \ {Max(S)} \in SUBSET (1 .. m)
        BY <2>3, <4>1, LargestOf
      <4>3. g[S] = h[S]
        BY <3>2
      <4>4. S \ {Max(S)} \in SUBSET (1 .. m + 1) /\ m + 1 \notin S \ {Max(S)}
        BY <3>2, <4>2
      <4>5. g[S \ {Max(S)}] = h[S \ {Max(S)}]
        BY <4>4
      <4>6. h[S] = Turn(kind, i, h[S \ {Max(S)}], s[Max(S)])
        BY <2>1, <2>3, <4>1 DEF IsFold
      <4> QED BY <4>3, <4>5, <4>6, Zenon
    <3> QED BY <3>1, <3>2
  <2>4. g = [S \in SUBSET (1 .. m + 1) |-> g[S]]
    BY Zenon
  <2> HIDE DEF g
  <2>5. IsFold(g, kind, i, base, s, m + 1)
    BY <2>2, <2>3, <2>4 DEF IsFold
  <2> QED BY <2>5
<1> HIDE DEF F
<1>2. SUFFICES ASSUME T # {} PROVE FALSE
  <2>1. n \in 0 .. n
    OBVIOUS
  <2>2. F(n)
    BY <1>2, <2>1
  <2> QED BY <2>2 DEF F
<1>3. T \in SUBSET Nat
  OBVIOUS
<1>4. PICK d \in T : \A e \in T : d <= e
  <2> HIDE DEF T
  <2> QED BY <1>2, <1>3, LeastNumber
<1>5. d # 0
  BY <1>0, <1>4
<1>6. d - 1 \in Nat /\ d - 1 \in 0 .. n /\ ~(d <= d - 1) /\ (d - 1) + 1 = d
  BY <1>4, <1>5
<1>7. F(d - 1)
  <2>1. d - 1 \notin T
    BY <1>4, <1>6
  <2> QED BY <1>6, <2>1
<1>8. F(d)
  BY <1>1, <1>6, <1>7
<1> QED
  BY <1>4, <1>8

(* The values a fold goes through.                                          *)
Stepwise(p, kind, i, base, s) ==
  /\ p[0] = base
  /\ \A d \in 1 .. Len(s) : p[d] = Turn(kind, i, p[d - 1], s[d])

(* A fold goes through the prefixes of its sequence.                        *)
LEMMA FoldSteps ==
  ASSUME NEW kind, NEW i, NEW base, NEW s, Len(s) \in Nat, NEW h, IsFold(h, kind, i, base, s, Len(s))
  PROVE  \E p : Stepwise(p, kind, i, base, s) /\ p[Len(s)] = h[1 .. Len(s)]
<1> DEFINE n == Len(s)
           p == [d \in 0 .. n |-> h[1 .. d]]
<1>1. p[0] = base
  <2>1. 1 .. 0 = {} /\ 0 \in 0 .. n
    OBVIOUS
  <2> QED BY <2>1 DEF IsFold
<1>2. ASSUME NEW d \in 1 .. n PROVE p[d] = Turn(kind, i, p[d - 1], s[d])
  <2>1. 1 .. d \in SUBSET (1 .. n) /\ 1 .. d # {} /\ 1 .. d \subseteq Int /\ d \in 1 .. d
        /\ \A y \in 1 .. d : y <= d
    OBVIOUS
  <2>2. Max(1 .. d) = d
    BY <2>1, LargestIs
  <2>3. (1 .. d) \ {d} = 1 .. d - 1
    OBVIOUS
  <2>4. h[1 .. d] = Turn(kind, i, h[1 .. d - 1], s[d])
    <3>1. h[1 .. d] = Turn(kind, i, h[(1 .. d) \ {Max(1 .. d)}], s[Max(1 .. d)])
      BY <2>1 DEF IsFold
    <3> QED BY <2>2, <2>3, <3>1
  <2>5. d \in 0 .. n /\ d - 1 \in 0 .. n
    OBVIOUS
  <2>6. p[d] = h[1 .. d] /\ p[d - 1] = h[1 .. d - 1]
    BY <2>5
  <2> QED BY <2>4, <2>6
<1>3. n \in 0 .. n
  OBVIOUS
<1>4. p[n] = h[1 .. n]
  BY <1>3
<1> HIDE DEF p
<1> QED BY <1>1, <1>2, <1>4 DEF Stepwise

(* The loop over the inputs of a node is a walk.                            *)
AllConsuming(g, n, names) == FoldLeft(LAMBDA h, x : Consuming(h, n, x), g, names)

LEMMA ConsumeFold ==
  ASSUME NEW base, NEW s, Len(s) \in Nat, DOMAIN s = 1 .. Len(s), NEW i
  PROVE  \E p : Stepwise(p, "consume", i, base, s) /\ AllConsuming(base, i, s) = p[Len(s)]
<1> DEFINE n == Len(s)
           Op(e, x) == Consuming(e, i, x)
           P(h) == h = [T \in SUBSET DOMAIN s |-> IF T = {} THEN base ELSE Op(h[T \ {Max(T)}], s[Max(T)])]
           f == CHOOSE h : P(h)
<1>1. AllConsuming(base, i, s) = f[DOMAIN s]
  BY DEF AllConsuming, FoldLeft, MapThenFoldSet
<1>2. ASSUME NEW h, NEW T PROVE Turn("consume", i, h[T \ {Max(T)}], s[Max(T)]) = Op(h[T \ {Max(T)}], s[Max(T)])
  BY DEF Turn
<1> HIDE DEF Op
<1>3. PICK h : IsFold(h, "consume", i, base, s, n)
  BY FoldExists
<1>4. P(h)
  <2>1. \A T \in SUBSET DOMAIN s : h[T] = IF T = {} THEN base ELSE Op(h[T \ {Max(T)}], s[Max(T)])
    BY <1>2, <1>3, Zenon DEF IsFold
  <2>2. h = [T \in SUBSET DOMAIN s |-> h[T]]
    BY <1>3, Zenon DEF IsFold
  <2> QED BY <2>1, <2>2, Zenon
<1>5. P(f)
  <2> HIDE DEF P
  <2> QED BY <1>4
<1> HIDE DEF f
<1>6. IsFold(f, "consume", i, base, s, n)
  <2>1. \A T \in SUBSET (1 .. n) : f[T] = IF T = {} THEN base ELSE Op(f[T \ {Max(T)}], s[Max(T)])
    BY <1>5, Zenon
  <2>2. f = [T \in SUBSET (1 .. n) |-> f[T]]
    BY <1>5, <2>1, Zenon
  <2>3. {} \in SUBSET (1 .. n)
    OBVIOUS
  <2>4. f[{}] = base
    BY <2>1, <2>3, Zenon
  <2>5. ASSUME NEW T \in SUBSET (1 .. n), T # {}
        PROVE  f[T] = Turn("consume", i, f[T \ {Max(T)}], s[Max(T)])
    BY <1>2, <2>1, <2>5, Zenon
  <2> QED BY <2>2, <2>4, <2>5, Zenon DEF IsFold
<1>7. PICK p : Stepwise(p, "consume", i, base, s) /\ p[n] = f[1 .. n]
  BY <1>6, FoldSteps
<1> QED
  BY <1>1, <1>7

(* The loop over its outputs is a walk.                                     *)
AllProducing(outcome_, n, names) ==
  FoldLeft(LAMBDA o, x : IF o.threw THEN o ELSE Producing(o.graph, n, x), outcome_, names)

LEMMA ProduceFold ==
  ASSUME NEW base, NEW s, Len(s) \in Nat, DOMAIN s = 1 .. Len(s), NEW i
  PROVE  \E p : Stepwise(p, "produce", i, base, s) /\ AllProducing(base, i, s) = p[Len(s)]
<1> DEFINE n == Len(s)
           Op(e, x) == IF e.threw THEN e ELSE Producing(e.graph, i, x)
           P(h) == h = [T \in SUBSET DOMAIN s |-> IF T = {} THEN base ELSE Op(h[T \ {Max(T)}], s[Max(T)])]
           f == CHOOSE h : P(h)
<1>1. AllProducing(base, i, s) = f[DOMAIN s]
  BY DEF AllProducing, FoldLeft, MapThenFoldSet
<1>2. ASSUME NEW h, NEW T PROVE Turn("produce", i, h[T \ {Max(T)}], s[Max(T)]) = Op(h[T \ {Max(T)}], s[Max(T)])
  BY DEF Turn
<1> HIDE DEF Op
<1>3. PICK h : IsFold(h, "produce", i, base, s, n)
  BY FoldExists
<1>4. P(h)
  <2>1. \A T \in SUBSET DOMAIN s : h[T] = IF T = {} THEN base ELSE Op(h[T \ {Max(T)}], s[Max(T)])
    BY <1>2, <1>3, Zenon DEF IsFold
  <2>2. h = [T \in SUBSET DOMAIN s |-> h[T]]
    BY <1>3, Zenon DEF IsFold
  <2> QED BY <2>1, <2>2, Zenon
<1>5. P(f)
  <2> HIDE DEF P
  <2> QED BY <1>4
<1> HIDE DEF f
<1>6. IsFold(f, "produce", i, base, s, n)
  <2>1. \A T \in SUBSET (1 .. n) : f[T] = IF T = {} THEN base ELSE Op(f[T \ {Max(T)}], s[Max(T)])
    BY <1>5, Zenon
  <2>2. f = [T \in SUBSET (1 .. n) |-> f[T]]
    BY <1>5, <2>1, Zenon
  <2>3. {} \in SUBSET (1 .. n)
    OBVIOUS
  <2>4. f[{}] = base
    BY <2>1, <2>3, Zenon
  <2>5. ASSUME NEW T \in SUBSET (1 .. n), T # {}
        PROVE  f[T] = Turn("produce", i, f[T \ {Max(T)}], s[Max(T)])
    BY <1>2, <2>1, <2>5, Zenon
  <2> QED BY <2>2, <2>4, <2>5, Zenon DEF IsFold
<1>7. PICK p : Stepwise(p, "produce", i, base, s) /\ p[n] = f[1 .. n]
  BY <1>6, FoldSteps
<1> QED
  BY <1>1, <1>7

(* Declaring the weights is a walk.                                         *)
AllDeclared(outcome_, weights) ==
  FoldLeft(LAMBDA o, w : Then(o, LAMBDA g : add_tensor(g, w.name, "kFloat32", w.shape)), outcome_, weights)

LEMMA DeclareFold ==
  ASSUME NEW base, NEW s, Len(s) \in Nat, DOMAIN s = 1 .. Len(s), NEW i
  PROVE  \E p : Stepwise(p, "declare", i, base, s) /\ AllDeclared(base, s) = p[Len(s)]
<1> DEFINE n == Len(s)
           Op(e, x) == Then(e, LAMBDA g : add_tensor(g, x.name, "kFloat32", x.shape))
           P(h) == h = [T \in SUBSET DOMAIN s |-> IF T = {} THEN base ELSE Op(h[T \ {Max(T)}], s[Max(T)])]
           f == CHOOSE h : P(h)
<1>1. AllDeclared(base, s) = f[DOMAIN s]
  BY DEF AllDeclared, FoldLeft, MapThenFoldSet, Then
<1>2. ASSUME NEW h, NEW T PROVE Turn("declare", i, h[T \ {Max(T)}], s[Max(T)]) = Op(h[T \ {Max(T)}], s[Max(T)])
  BY DEF Turn, Then
<1> HIDE DEF Op
<1>3. PICK h : IsFold(h, "declare", i, base, s, n)
  BY FoldExists
<1>4. P(h)
  <2>1. \A T \in SUBSET DOMAIN s : h[T] = IF T = {} THEN base ELSE Op(h[T \ {Max(T)}], s[Max(T)])
    BY <1>2, <1>3, Zenon DEF IsFold
  <2>2. h = [T \in SUBSET DOMAIN s |-> h[T]]
    BY <1>3, Zenon DEF IsFold
  <2> QED BY <2>1, <2>2, Zenon
<1>5. P(f)
  <2> HIDE DEF P
  <2> QED BY <1>4
<1> HIDE DEF f
<1>6. IsFold(f, "declare", i, base, s, n)
  <2>1. \A T \in SUBSET (1 .. n) : f[T] = IF T = {} THEN base ELSE Op(f[T \ {Max(T)}], s[Max(T)])
    BY <1>5, Zenon
  <2>2. f = [T \in SUBSET (1 .. n) |-> f[T]]
    BY <1>5, <2>1, Zenon
  <2>3. {} \in SUBSET (1 .. n)
    OBVIOUS
  <2>4. f[{}] = base
    BY <2>1, <2>3, Zenon
  <2>5. ASSUME NEW T \in SUBSET (1 .. n), T # {}
        PROVE  f[T] = Turn("declare", i, f[T \ {Max(T)}], s[Max(T)])
    BY <1>2, <2>1, <2>5, Zenon
  <2> QED BY <2>2, <2>4, <2>5, Zenon DEF IsFold
<1>7. PICK p : Stepwise(p, "declare", i, base, s) /\ p[n] = f[1 .. n]
  BY <1>6, FoldSteps
<1> QED
  BY <1>1, <1>7

(* The calls of llama_add_node are a walk.                                  *)
AllCalled(outcome_, calls) == FoldLeft(llama_add_node, outcome_, calls)

LEMMA CallFold ==
  ASSUME NEW base, NEW s, Len(s) \in Nat, DOMAIN s = 1 .. Len(s), NEW i
  PROVE  \E p : Stepwise(p, "call", i, base, s) /\ AllCalled(base, s) = p[Len(s)]
<1> DEFINE n == Len(s)
           Op(e, x) == llama_add_node(e, x)
           P(h) == h = [T \in SUBSET DOMAIN s |-> IF T = {} THEN base ELSE Op(h[T \ {Max(T)}], s[Max(T)])]
           f == CHOOSE h : P(h)
<1>1. AllCalled(base, s) = f[DOMAIN s]
  BY DEF AllCalled, FoldLeft, MapThenFoldSet
<1>2. ASSUME NEW h, NEW T PROVE Turn("call", i, h[T \ {Max(T)}], s[Max(T)]) = Op(h[T \ {Max(T)}], s[Max(T)])
  BY DEF Turn
<1> HIDE DEF Op
<1>3. PICK h : IsFold(h, "call", i, base, s, n)
  BY FoldExists
<1>4. P(h)
  <2>1. \A T \in SUBSET DOMAIN s : h[T] = IF T = {} THEN base ELSE Op(h[T \ {Max(T)}], s[Max(T)])
    BY <1>2, <1>3, Zenon DEF IsFold
  <2>2. h = [T \in SUBSET DOMAIN s |-> h[T]]
    BY <1>3, Zenon DEF IsFold
  <2> QED BY <2>1, <2>2, Zenon
<1>5. P(f)
  <2> HIDE DEF P
  <2> QED BY <1>4
<1> HIDE DEF f
<1>6. IsFold(f, "call", i, base, s, n)
  <2>1. \A T \in SUBSET (1 .. n) : f[T] = IF T = {} THEN base ELSE Op(f[T \ {Max(T)}], s[Max(T)])
    BY <1>5, Zenon
  <2>2. f = [T \in SUBSET (1 .. n) |-> f[T]]
    BY <1>5, <2>1, Zenon
  <2>3. {} \in SUBSET (1 .. n)
    OBVIOUS
  <2>4. f[{}] = base
    BY <2>1, <2>3, Zenon
  <2>5. ASSUME NEW T \in SUBSET (1 .. n), T # {}
        PROVE  f[T] = Turn("call", i, f[T \ {Max(T)}], s[Max(T)])
    BY <1>2, <2>1, <2>5, Zenon
  <2> QED BY <2>2, <2>4, <2>5, Zenon DEF IsFold
<1>7. PICK p : Stepwise(p, "call", i, base, s) /\ p[n] = f[1 .. n]
  BY <1>6, FoldSteps
<1> QED
  BY <1>1, <1>7

(* The search from the outputs is a walk.                                   *)
AllFurther(g, start, nodes) == FoldLeft(LAMBDA found, n : Further(g, found), start, nodes)

LEMMA NeedFold ==
  ASSUME NEW base, NEW s, Len(s) \in Nat, DOMAIN s = 1 .. Len(s), NEW i
  PROVE  \E p : Stepwise(p, "need", i, base, s) /\ AllFurther(i, base, s) = p[Len(s)]
<1> DEFINE n == Len(s)
           Op(e, x) == Further(i, e)
           P(h) == h = [T \in SUBSET DOMAIN s |-> IF T = {} THEN base ELSE Op(h[T \ {Max(T)}], s[Max(T)])]
           f == CHOOSE h : P(h)
<1>1. AllFurther(i, base, s) = f[DOMAIN s]
  BY DEF AllFurther, FoldLeft, MapThenFoldSet
<1>2. ASSUME NEW h, NEW T PROVE Turn("need", i, h[T \ {Max(T)}], s[Max(T)]) = Op(h[T \ {Max(T)}], s[Max(T)])
  BY DEF Turn
<1> HIDE DEF Op
<1>3. PICK h : IsFold(h, "need", i, base, s, n)
  BY FoldExists
<1>4. P(h)
  <2>1. \A T \in SUBSET DOMAIN s : h[T] = IF T = {} THEN base ELSE Op(h[T \ {Max(T)}], s[Max(T)])
    BY <1>2, <1>3, Zenon DEF IsFold
  <2>2. h = [T \in SUBSET DOMAIN s |-> h[T]]
    BY <1>3, Zenon DEF IsFold
  <2> QED BY <2>1, <2>2, Zenon
<1>5. P(f)
  <2> HIDE DEF P
  <2> QED BY <1>4
<1> HIDE DEF f
<1>6. IsFold(f, "need", i, base, s, n)
  <2>1. \A T \in SUBSET (1 .. n) : f[T] = IF T = {} THEN base ELSE Op(f[T \ {Max(T)}], s[Max(T)])
    BY <1>5, Zenon
  <2>2. f = [T \in SUBSET (1 .. n) |-> f[T]]
    BY <1>5, <2>1, Zenon
  <2>3. {} \in SUBSET (1 .. n)
    OBVIOUS
  <2>4. f[{}] = base
    BY <2>1, <2>3, Zenon
  <2>5. ASSUME NEW T \in SUBSET (1 .. n), T # {}
        PROVE  f[T] = Turn("need", i, f[T \ {Max(T)}], s[Max(T)])
    BY <1>2, <2>1, <2>5, Zenon
  <2> QED BY <2>2, <2>4, <2>5, Zenon DEF IsFold
<1>7. PICK p : Stepwise(p, "need", i, base, s) /\ p[n] = f[1 .. n]
  BY <1>6, FoldSteps
<1> QED
  BY <1>1, <1>7

-----------------------------------------------------------------------------
(* Every loop keeps a graph whole.                                          *)

(* A set that goes on reaches the end.                                      *)
LEMMA Upwards ==
  ASSUME NEW n \in Nat, NEW S, 0 \in S, \A d \in 1 .. n : d - 1 \in S => d \in S
  PROVE  \A d \in 0 .. n : d \in S
<1> DEFINE T == {d \in 0 .. n : d \notin S}
<1>1. SUFFICES ASSUME T # {} PROVE FALSE
  OBVIOUS
<1>2. T \in SUBSET Nat
  OBVIOUS
<1>3. PICK d \in T : \A e \in T : d <= e
  <2> HIDE DEF T
  <2> QED BY <1>1, <1>2, LeastNumber
<1>4. d # 0
  OBVIOUS
<1>5. d \in 1 .. n /\ d - 1 \in 0 .. n /\ ~(d <= d - 1)
  BY <1>4
<1>6. d - 1 \in S
  <2>1. d - 1 \notin T
    BY <1>3, <1>5
  <2> QED BY <1>5, <2>1
<1> QED
  BY <1>5, <1>6

LEMMA AllConsumed ==
  ASSUME NEW g, Whole(g), NEW n \in DOMAIN g.nodes, NEW names, IsSeq(names)
  PROVE  LET r == AllConsuming(g, n, names)
         IN  Whole(r) /\ n \in DOMAIN r.nodes
<1> DEFINE L == Len(names)
<1>1. L \in Nat /\ DOMAIN names = 1 .. L
  BY SeqIs
<1>2. PICK p : /\ Stepwise(p, "consume", n, g, names)
               /\ AllConsuming(g, n, names) = p[L]
  BY <1>1, ConsumeFold
<1> DEFINE S == {d \in 0 .. L : Whole(p[d]) /\ n \in DOMAIN p[d].nodes}
<1>3. 0 \in S
  <2>1. p[0] = g
    BY <1>2 DEF Stepwise
  <2>2. 0 \in 0 .. L
    BY <1>1
  <2> QED BY <2>1, <2>2
<1>4. ASSUME NEW d \in 1 .. L, d - 1 \in S PROVE d \in S
  <2>1. p[d] = Consuming(p[d - 1], n, names[d])
    <3>1. p[d] = Turn("consume", n, p[d - 1], names[d])
      BY <1>2 DEF Stepwise
    <3> QED BY <3>1 DEF Turn
  <2>2. Whole(p[d - 1]) /\ n \in DOMAIN p[d - 1].nodes
    BY <1>4
  <2>3. Whole(p[d]) /\ n \in DOMAIN p[d].nodes
    BY <2>1, <2>2, ConsumingWhole
  <2> QED BY <1>1, <2>3
<1>5. \A d \in 0 .. L : d \in S
  <2> HIDE DEF S, L
  <2> QED BY <1>1, <1>3, <1>4, Upwards
<1>6. L \in 0 .. L
  BY <1>1
<1> QED BY <1>2, <1>5, <1>6

LEMMA AllProduced ==
  ASSUME NEW o, Whole(o.graph), NEW n \in DOMAIN o.graph.nodes, NEW names, IsSeq(names)
  PROVE  LET r == AllProducing(o, n, names)
         IN  Whole(r.graph)
<1> DEFINE L == Len(names)
<1>1. L \in Nat /\ DOMAIN names = 1 .. L
  BY SeqIs
<1>2. PICK p : /\ Stepwise(p, "produce", n, o, names)
               /\ AllProducing(o, n, names) = p[L]
  BY <1>1, ProduceFold
<1> DEFINE S == {d \in 0 .. L : Whole(p[d].graph) /\ n \in DOMAIN p[d].graph.nodes}
<1>3. 0 \in S
  <2>1. p[0] = o
    BY <1>2 DEF Stepwise
  <2>2. 0 \in 0 .. L
    BY <1>1
  <2> QED BY <2>1, <2>2
<1>4. ASSUME NEW d \in 1 .. L, d - 1 \in S PROVE d \in S
  <2>1. p[d] = IF p[d - 1].threw THEN p[d - 1] ELSE Producing(p[d - 1].graph, n, names[d])
    <3>1. p[d] = Turn("produce", n, p[d - 1], names[d])
      BY <1>2 DEF Stepwise
    <3> QED BY <3>1 DEF Turn
  <2>2. Whole(p[d - 1].graph) /\ n \in DOMAIN p[d - 1].graph.nodes
    BY <1>4
  <2>3. Whole(p[d].graph) /\ n \in DOMAIN p[d].graph.nodes
    BY <2>1, <2>2, ProducingWhole
  <2> QED BY <1>1, <2>3
<1>5. \A d \in 0 .. L : d \in S
  <2> HIDE DEF S, L
  <2> QED BY <1>1, <1>3, <1>4, Upwards
<1>6. L \in 0 .. L
  BY <1>1
<1> QED BY <1>2, <1>5, <1>6

LEMMA AddNodeWhole ==
  ASSUME NEW g, Whole(g), NEW name, NEW ins, IsSeq(ins), NEW outs, IsSeq(outs), NEW param
  PROVE  Whole(add_node(g, name, ins, outs, param).graph)
<1> DEFINE at == Len(g.nodes) + 1
           h == AddedNode(g, name, param)
           reading == AllConsuming(h, at, ins)
           r == AllProducing(Returned(reading), at, outs)
<1>1. \/ add_node(g, name, ins, outs, param) = Threw(g)
      \/ add_node(g, name, ins, outs, param) = r /\ name \notin DOMAIN g.node_name_to_idx
  BY Zenon DEF add_node, AddedNode, AllConsuming, AllProducing
<1>2. CASE add_node(g, name, ins, outs, param) = Threw(g)
  BY <1>2 DEF Threw
<1>3. CASE add_node(g, name, ins, outs, param) = r /\ name \notin DOMAIN g.node_name_to_idx
  <2>1. Whole(h) /\ at \in DOMAIN h.nodes
    BY <1>3, AddedNodeWhole
  <2> HIDE DEF h, at
  <2>2. Whole(reading) /\ at \in DOMAIN reading.nodes
    BY <2>1, AllConsumed
  <2> HIDE DEF reading
  <2>3. Returned(reading).graph = reading
    BY DEF Returned
  <2>4. Whole(r.graph)
    BY <2>2, <2>3, AllProduced
  <2> QED BY <1>3, <2>4
<1> QED BY <1>1, <1>2, <1>3

LEMMA SetNamesWhole ==
  ASSUME NEW g, Whole(g), NEW names
  PROVE  /\ Whole(set_input_names(g, names).graph)
         /\ Whole(set_output_names(g, names).graph)
<1>1. ASSUME NEW r, NEW ins, NEW outs, ins \cup outs \subseteq DOMAIN g.tensor_name_to_idx,
             r = [nodes |-> g.nodes, tensor_infos |-> g.tensor_infos,
                  node_name_to_idx |-> g.node_name_to_idx, tensor_name_to_idx |-> g.tensor_name_to_idx,
                  input_names |-> ins, output_names |-> outs]
      PROVE  Whole(r)
  <2>1. /\ r.nodes = g.nodes /\ r.tensor_infos = g.tensor_infos
        /\ r.node_name_to_idx = g.node_name_to_idx /\ r.tensor_name_to_idx = g.tensor_name_to_idx
        /\ r.input_names = ins /\ r.output_names = outs
    BY <1>1
  <2>2. IsGraph(r)
    BY <1>1, <2>1 DEF Whole, IsGraph
  <2> QED BY <1>1, <2>1, <2>2 DEF Whole
<1>2. g.input_names \cup g.output_names \subseteq DOMAIN g.tensor_name_to_idx
  BY DEF Whole
<1>3. /\ [g EXCEPT !.input_names = names]
           = [nodes |-> g.nodes, tensor_infos |-> g.tensor_infos,
              node_name_to_idx |-> g.node_name_to_idx, tensor_name_to_idx |-> g.tensor_name_to_idx,
              input_names |-> names, output_names |-> g.output_names]
      /\ [g EXCEPT !.output_names = names]
           = [nodes |-> g.nodes, tensor_infos |-> g.tensor_infos,
              node_name_to_idx |-> g.node_name_to_idx, tensor_name_to_idx |-> g.tensor_name_to_idx,
              input_names |-> g.input_names, output_names |-> names]
  BY DEF Whole, IsGraph
<1>4. names \subseteq DOMAIN g.tensor_name_to_idx
        => Whole([g EXCEPT !.input_names = names]) /\ Whole([g EXCEPT !.output_names = names])
  BY <1>1, <1>2, <1>3
<1>5. /\ set_input_names(g, names).graph
           \in {g} \cup (IF names \subseteq DOMAIN g.tensor_name_to_idx THEN {[g EXCEPT !.input_names = names]} ELSE {})
      /\ set_output_names(g, names).graph
           \in {g} \cup (IF names \subseteq DOMAIN g.tensor_name_to_idx THEN {[g EXCEPT !.output_names = names]} ELSE {})
  BY DEF set_input_names, set_output_names, Checked, Returned, Threw
<1> QED BY <1>4, <1>5

LEMMA DeclaredWhole ==
  ASSUME NEW o, Whole(o.graph), NEW weights, IsSeq(weights)
  PROVE  Whole(AllDeclared(o, weights).graph)
<1> DEFINE L == Len(weights)
<1>1. L \in Nat /\ DOMAIN weights = 1 .. L
  BY SeqIs
<1>2. PICK p : /\ Stepwise(p, "declare", 0, o, weights)
               /\ AllDeclared(o, weights) = p[L]
  BY <1>1, DeclareFold
<1> DEFINE S == {d \in 0 .. L : Whole(p[d].graph)}
<1>3. 0 \in S
  <2>1. p[0] = o
    BY <1>2 DEF Stepwise
  <2>2. 0 \in 0 .. L
    BY <1>1
  <2> QED BY <2>1, <2>2
<1>4. ASSUME NEW d \in 1 .. L, d - 1 \in S PROVE d \in S
  <2> DEFINE float == "kFloat32"
  <2>1. p[d] = IF p[d - 1].threw THEN p[d - 1]
               ELSE add_tensor(p[d - 1].graph, weights[d].name, float, weights[d].shape)
    <3>1. p[d] = Turn("declare", 0, p[d - 1], weights[d])
      BY <1>2 DEF Stepwise
    <3> QED BY <3>1 DEF Turn, Then
  <2> HIDE DEF float
  <2>2. Whole(p[d - 1].graph)
    BY <1>4
  <2>3. Whole(p[d].graph)
    BY <2>1, <2>2, AddTensorWhole
  <2> QED BY <1>1, <2>3
<1>5. \A d \in 0 .. L : d \in S
  <2> HIDE DEF S, L
  <2> QED BY <1>1, <1>3, <1>4, Upwards
<1>6. L \in 0 .. L
  BY <1>1
<1> QED BY <1>2, <1>5, <1>6

(* Short lists.                                                             *)
LEMMA ShortLists ==
  ASSUME NEW a, NEW b, NEW c, NEW d
  PROVE  IsSeq(<<>>) /\ IsSeq(<<a>>) /\ IsSeq(<<a, b>>) /\ IsSeq(<<a, b, c, d>>)
<1> DEFINE T == {a, b, c, d}
<1>1. \A s : s \in Seq(T) => IsSeq(s)
  <2> SUFFICES ASSUME NEW s \in Seq(T) PROVE IsSeq(s)
    OBVIOUS
  <2> HIDE DEF T
  <2>1. Len(s) \in Nat /\ s = [k \in 1 .. Len(s) |-> s[k]]
    OBVIOUS
  <2> QED BY <2>1, ListIs
<1>2. <<>> \in Seq(T) /\ <<a>> \in Seq(T) /\ <<a, b>> \in Seq(T) /\ <<a, b, c, d>> \in Seq(T)
  OBVIOUS
<1> HIDE DEF T
<1> QED BY <1>1, <1>2

LEMMA WeightsAre ==
  ASSUME NEW node, NEW param
  PROVE  IsSeq(Weights(node, param))
<1> DEFINE dims == param.dims
           q == dims.q_head * dims.head_dim
           kv == dims.kv_head * dims.head_dim
<1> DEFINE w1 == Weight(node, "q_proj.weight", <<q, q>>)
           w2 == Weight(node, "k_proj.weight", <<kv, q>>)
           w3 == Weight(node, "v_proj.weight", <<kv, q>>)
           w4 == Weight(node, "o_proj.weight", <<q, q>>)
           w5 == Weight(node, "weight", <<dims.num_embeddings, dims.hidden_size>>)
           w6 == Weight(node, "weight", <<dims.hidden_size>>)
           w7 == Weight(node, "weight", <<dims.out_dim, dims.in_dim>>)
<1>1. Weights(node, param) \in {<<w1, w2, w3, w4>>, <<w5>>, <<w6>>, <<w7>>, <<>>}
  BY Zenon DEF Weights
<1> HIDE DEF w1, w2, w3, w4, w5, w6, w7
<1> QED BY <1>1, ShortLists

LEMMA LlamaAddNodeWhole ==
  ASSUME NEW o, Whole(o.graph), NEW call, IsSeq(call.extern_inputs)
  PROVE  Whole(llama_add_node(o, call).graph)
<1> DEFINE weights == Weights(call.node, call.param)
           names == [k \in DOMAIN weights |-> weights[k].name]
           declared == AllDeclared(o, weights)
           outs == OutputNames(call.node, call.param)
<1>1. \/ llama_add_node(o, call) = Threw(o.graph)
      \/ llama_add_node(o, call) = declared
      \/ llama_add_node(o, call)
           = add_node(declared.graph, call.node, call.extern_inputs \o names, outs, call.param)
  BY Zenon DEF llama_add_node, AllDeclared, Then
<1>2. IsSeq(weights)
  BY WeightsAre
<1> HIDE DEF weights
<1>3. Whole(declared.graph)
  BY <1>2, DeclaredWhole
<1>4. IsSeq(names)
  <2>1. Len(weights) \in Nat /\ DOMAIN weights = 1 .. Len(weights)
    BY <1>2, SeqIs
  <2>2. names = [k \in 1 .. Len(weights) |-> names[k]]
    BY <2>1
  <2> HIDE DEF names
  <2> QED BY <2>1, <2>2, ListIs
<1> HIDE DEF names, declared
<1>5. IsSeq(call.extern_inputs \o names)
  BY <1>4, JoinIs
<1>6. IsSeq(outs)
  <2> DEFINE a == Part(call.node, "cos")
             b == Part(call.node, "sin")
             c == Out(call.node)
  <2>1. outs \in {<<a, b>>, <<c>>}
    BY DEF OutputNames
  <2> HIDE DEF a, b, c, outs
  <2> QED BY <2>1, ShortLists
<1> HIDE DEF outs
<1>7. Whole(add_node(declared.graph, call.node, call.extern_inputs \o names, outs, call.param).graph)
  BY <1>3, <1>5, <1>6, AddNodeWhole
<1>8. Threw(o.graph).graph = o.graph
  BY DEF Threw
<1> QED BY <1>1, <1>3, <1>7, <1>8

(* A list of calls.                                                         *)
AreCalls(calls) == IsSeq(calls) /\ \A k \in DOMAIN calls : IsSeq(calls[k].extern_inputs)

LEMMA CalledWhole ==
  ASSUME NEW o, Whole(o.graph), NEW calls, AreCalls(calls)
  PROVE  Whole(AllCalled(o, calls).graph)
<1> DEFINE L == Len(calls)
<1>1. L \in Nat /\ DOMAIN calls = 1 .. L
  BY SeqIs DEF AreCalls
<1>2. PICK p : Stepwise(p, "call", 0, o, calls) /\ AllCalled(o, calls) = p[L]
  BY <1>1, CallFold
<1> DEFINE S == {d \in 0 .. L : Whole(p[d].graph)}
<1>3. 0 \in S
  <2>1. p[0] = o
    BY <1>2 DEF Stepwise
  <2>2. 0 \in 0 .. L
    BY <1>1
  <2> QED BY <2>1, <2>2
<1>4. ASSUME NEW d \in 1 .. L, d - 1 \in S PROVE d \in S
  <2>1. p[d] = llama_add_node(p[d - 1], calls[d])
    <3>1. p[d] = Turn("call", 0, p[d - 1], calls[d])
      BY <1>2 DEF Stepwise
    <3> QED BY <3>1 DEF Turn
  <2>2. Whole(p[d - 1].graph)
    BY <1>4
  <2>3. Whole(p[d].graph)
    BY <1>1, <2>1, <2>2, LlamaAddNodeWhole DEF AreCalls
  <2> QED BY <1>1, <2>3
<1>5. \A d \in 0 .. L : d \in S
  <2> HIDE DEF S, L
  <2> QED BY <1>1, <1>3, <1>4, Upwards
<1>6. L \in 0 .. L
  BY <1>1
<1> QED BY <1>2, <1>5, <1>6

LEMMA CallsJoined ==
  ASSUME NEW s, AreCalls(s), NEW t, AreCalls(t)
  PROVE  AreCalls(s \o t)
<1> DEFINE u == s \o t
<1>1. IsSeq(u) /\ Range(u) = Range(s) \cup Range(t)
  BY JoinIs DEF AreCalls
<1> HIDE DEF u
<1>2. \A k \in DOMAIN u : u[k] \in Range(s) \/ u[k] \in Range(t)
  BY <1>1 DEF Range
<1>3. \A c : c \in Range(s) \/ c \in Range(t) => IsSeq(c.extern_inputs)
  BY DEF AreCalls, Range
<1> QED BY <1>1, <1>2, <1>3 DEF AreCalls, u

(* Joining lists of calls, one after another, makes a list of calls.        *)
LEMMA CallsFlat ==
  ASSUME NEW n \in Nat, NEW seqs, IsSeq(seqs), Len(seqs) = n,
         \A k \in 1 .. n : AreCalls(seqs[k])
  PROVE  AreCalls(FlattenSeq(seqs))
<1>0. DOMAIN seqs = 1 .. n
  BY SeqIs
<1>1. CASE n = 0
  <2>1. FlattenSeq(seqs) = seqs
    BY <1>1 DEF FlattenSeq
  <2>2. DOMAIN seqs = {}
    BY <1>0, <1>1
  <2> QED BY <2>1, <2>2 DEF AreCalls
<1>2. CASE n # 0
  <2> DEFINE Flat(h, m) == h = [i \in 1 .. m |-> IF i = 1 THEN seqs[i] ELSE h[i - 1] \o seqs[i]]
             f == CHOOSE h : Flat(h, n)
             S == {m \in 0 .. n : \E h : Flat(h, m)}
  <2>1. FlattenSeq(seqs) = f[n]
    BY <1>2 DEF FlattenSeq
  <2>2. 0 \in S
    <3>1. Flat([i \in 1 .. 0 |-> 0], 0)
      OBVIOUS
    <3>2. 0 \in 0 .. n
      OBVIOUS
    <3> HIDE DEF Flat
    <3> QED BY <3>1, <3>2
  <2>3. ASSUME NEW m \in 1 .. n, m - 1 \in S PROVE m \in S
    <3>1. PICK h : Flat(h, m - 1)
      BY <2>3
    <3> DEFINE e == [i \in 1 .. m |-> IF i = m THEN IF m = 1 THEN seqs[m] ELSE h[m - 1] \o seqs[m] ELSE h[i]]
    <3>2. ASSUME NEW i \in 1 .. m PROVE e[i] = IF i = 1 THEN seqs[i] ELSE e[i - 1] \o seqs[i]
      <4>1. CASE i = m
        <5>1. m # 1 => m - 1 \in 1 .. m /\ m - 1 # m
          OBVIOUS
        <5>2. m # 1 => e[m - 1] = h[m - 1]
          BY <5>1
        <5>3. e[m] = IF m = 1 THEN seqs[m] ELSE h[m - 1] \o seqs[m]
          OBVIOUS
        <5> HIDE DEF e
        <5> QED BY <4>1, <5>2, <5>3
      <4>2. CASE i # m
        <5>1. i \in 1 .. m - 1 /\ (i # 1 => i - 1 \in 1 .. m /\ i - 1 # m)
          BY <4>2
        <5>2. h[i] = IF i = 1 THEN seqs[i] ELSE h[i - 1] \o seqs[i]
          BY <3>1, <5>1, Zenon
        <5>3. e[i] = h[i] /\ (i # 1 => e[i - 1] = h[i - 1])
          BY <4>2, <5>1
        <5> HIDE DEF e
        <5> QED BY <5>2, <5>3
      <4> QED BY <4>1, <4>2
    <3>3. e = [i \in 1 .. m |-> e[i]]
      BY Zenon
    <3> HIDE DEF e
    <3>4. Flat(e, m)
      BY <3>2, <3>3, Zenon
    <3> HIDE DEF Flat
    <3> QED BY <3>4
  <2> HIDE DEF Flat
  <2>4. n \in S
    <3>1. \A m \in 0 .. n : m \in S
      <4> HIDE DEF S
      <4> QED BY <2>2, <2>3, Upwards
    <3> QED BY <3>1
  <2>5. Flat(f, n)
    BY <2>4
  <2> HIDE DEF f, S
  <2>6. \A i \in 1 .. n : f[i] = IF i = 1 THEN seqs[i] ELSE f[i - 1] \o seqs[i]
    BY <2>5, Zenon DEF Flat
  <2> DEFINE U == {m \in 0 .. n : m # 0 => AreCalls(f[m])}
  <2>7. \A m \in 0 .. n : m \in U
    <3>1. 0 \in U
      OBVIOUS
    <3>2. ASSUME NEW m \in 1 .. n, m - 1 \in U PROVE m \in U
      <4>1. CASE m = 1
        BY <2>6, <4>1
      <4>2. CASE m # 1
        <5>1. AreCalls(f[m - 1]) /\ AreCalls(seqs[m])
          BY <3>2, <4>2
        <5>2. f[m] = f[m - 1] \o seqs[m]
          BY <2>6, <4>2, Zenon
        <5>3. AreCalls(f[m])
          BY <5>1, <5>2, CallsJoined
        <5> QED BY <5>3
      <4> QED BY <4>1, <4>2
    <3> HIDE DEF U
    <3> QED BY <3>1, <3>2, Upwards
  <2>8. AreCalls(f[n])
    BY <1>2, <2>7
  <2> QED BY <2>1, <2>8
<1> QED BY <1>1, <1>2

LEMMA CallsOf ==
  ASSUME NEW T, NEW s \in Seq(T), \A c \in T : IsSeq(c.extern_inputs)
  PROVE  AreCalls(s)
<1>1. Len(s) \in Nat /\ s = [k \in 1 .. Len(s) |-> s[k]] /\ DOMAIN s = 1 .. Len(s)
      /\ \A k \in 1 .. Len(s) : s[k] \in T
  OBVIOUS
<1> QED BY <1>1, ListIs DEF AreCalls

LEMMA CallIs ==
  ASSUME NEW node, NEW param, NEW ins, IsSeq(ins)
  PROVE  IsSeq(Call(node, param, ins).extern_inputs)
BY DEF Call

LEMMA LayerCallsAre ==
  ASSUME NEW config, NEW layer, NEW paged
  PROVE  AreCalls(LayerCalls(config, layer, paged))
<1> DEFINE size == config.hidden_size
           hidden == last_hidden_state(layer - 1)
           norm == In(layer, "input_layernorm")
           attn == In(layer, "self_attn")
           attn_residual == In(layer, "attn_residual")
           mlp_norm == In(layer, "post_attention_layernorm")
           gate == In(layer, "mlp.gate_proj")
           act == In(layer, "mlp.act")
           up == In(layer, "mlp.up_proj")
           mul == In(layer, "mlp.mul")
           down == In(layer, "mlp.down_proj")
           Linear(in_dim, out_dim) == Sized("Linear", [in_dim |-> in_dim, out_dim |-> out_dim])
           c1 == Call(norm, RMSNorm(config), <<hidden>>)
           c2 == Call(attn, [Attention(config) EXCEPT !.paged = paged],
                      <<Out(norm), Part(rope, "cos"), Part(rope, "sin"), pos_ids>>)
           c3 == Call(attn_residual, AttnResidual(layer), <<hidden, Out(attn)>>)
           c4 == Call(mlp_norm, RMSNorm(config), <<Out(attn_residual)>>)
           c5 == Call(gate, Linear(size, config.intermediate_size), <<Out(mlp_norm)>>)
           c6 == Call(act, [Param("SiLU") EXCEPT !.inplace = TRUE], <<Out(gate)>>)
           c7 == Call(up, Linear(size, config.intermediate_size), <<Out(mlp_norm)>>)
           c8 == Call(mul, Arithmetic("Mul", 1), <<Out(act), Out(up)>>)
           c9 == Call(down, Linear(config.intermediate_size, size), <<Out(mul)>>)
           c10 == Call(In(layer, "mlp_residual"), Arithmetic("Add", 1), <<Out(attn_residual), Out(down)>>)
           T == {c1, c2, c3, c4, c5, c6, c7, c8, c9, c10}
<1>1. LayerCalls(config, layer, paged) = <<c1, c2, c3, c4, c5, c6, c7, c8, c9, c10>>
  BY Zenon DEF LayerCalls
<1>2. /\ IsSeq(c1.extern_inputs) /\ IsSeq(c4.extern_inputs) /\ IsSeq(c5.extern_inputs)
      /\ IsSeq(c6.extern_inputs) /\ IsSeq(c7.extern_inputs) /\ IsSeq(c9.extern_inputs)
  <2>1. \A node, param, a : IsSeq(Call(node, param, <<a>>).extern_inputs)
    BY CallIs, ShortLists
  <2> QED BY <2>1, Zenon
<1>3. IsSeq(c3.extern_inputs) /\ IsSeq(c8.extern_inputs) /\ IsSeq(c10.extern_inputs)
  <2>1. \A node, param, a, b : IsSeq(Call(node, param, <<a, b>>).extern_inputs)
    BY CallIs, ShortLists
  <2> QED BY <2>1, Zenon
<1>4. IsSeq(c2.extern_inputs)
  <2>1. \A node, param, a, b, c, d : IsSeq(Call(node, param, <<a, b, c, d>>).extern_inputs)
    BY CallIs, ShortLists
  <2> QED BY <2>1, Zenon
<1> HIDE DEF c1, c2, c3, c4, c5, c6, c7, c8, c9, c10
<1>5. <<c1, c2, c3, c4, c5, c6, c7, c8, c9, c10>> \in Seq(T)
  OBVIOUS
<1>6. \A c \in T : IsSeq(c.extern_inputs)
  BY <1>2, <1>3, <1>4
<1> HIDE DEF T
<1> QED BY <1>1, <1>5, <1>6, CallsOf

LEMMA ModelCallsAre ==
  ASSUME NEW config, NEW paged, config.num_hidden_layers \in Nat
  PROVE  AreCalls(ModelCalls(config, paged))
<1> DEFINE layers == config.num_hidden_layers
           c1 == Call(embed_tokens,
                      Sized("Embedding", [num_embeddings |-> config.vocab_size,
                                          hidden_size |-> config.hidden_size]), <<token_ids>>)
           c2 == Call(rope,
                      [Sized("Rope", [max_len |-> config.max_position_embeddings,
                                      head_dim |-> head_dim(config)]) EXCEPT !.pin = TRUE], <<>>)
           c3 == Call(model_norm, [RMSNorm(config) EXCEPT !.inplace = TRUE],
                      <<last_hidden_state(layers)>>)
           c4 == Call(lm_head,
                      [Sized("SliceLinear", [in_dim |-> config.hidden_size, only_last_q |-> 1,
                                             out_dim |-> config.vocab_size]) EXCEPT !.paged = paged],
                      <<Out(model_norm)>>)
           seqs == [layer \in 1 .. layers |-> LayerCalls(config, layer, paged)]
<1>1. ModelCalls(config, paged) = <<c1, c2>> \o FlattenSeq(seqs) \o <<c3, c4>>
  BY Zenon DEF ModelCalls
<1>2. /\ IsSeq(c1.extern_inputs) /\ IsSeq(c2.extern_inputs)
      /\ IsSeq(c3.extern_inputs) /\ IsSeq(c4.extern_inputs)
  <2>1. /\ \A node, param, a : IsSeq(Call(node, param, <<a>>).extern_inputs)
        /\ \A node, param : IsSeq(Call(node, param, <<>>).extern_inputs)
    BY CallIs, ShortLists
  <2> QED BY <2>1, Zenon
<1>3. AreCalls(FlattenSeq(seqs))
  <2>1. seqs = [k \in 1 .. layers |-> seqs[k]]
    OBVIOUS
  <2>2. \A k \in 1 .. layers : AreCalls(seqs[k])
    BY LayerCallsAre
  <2> HIDE DEF seqs
  <2>3. IsSeq(seqs) /\ Len(seqs) = layers
    BY <2>1, ListIs
  <2> QED BY <2>2, <2>3, CallsFlat
<1> HIDE DEF c1, c2, c3, c4, seqs
<1>4. AreCalls(<<c1, c2>>) /\ AreCalls(<<c3, c4>>)
  <2> DEFINE T == {c1, c2, c3, c4}
  <2>1. <<c1, c2>> \in Seq(T) /\ <<c3, c4>> \in Seq(T)
    OBVIOUS
  <2>2. \A c \in T : IsSeq(c.extern_inputs)
    BY <1>2
  <2> HIDE DEF T
  <2> QED BY <2>1, <2>2, CallsOf
<1> QED BY <1>1, <1>3, <1>4, CallsJoined

LEMMA ParserWhole ==
  ASSUME NEW config, NEW paged, config.num_hidden_layers \in Nat
  PROVE  Whole(llama_parser(config, paged).graph)
<1> DEFINE first == add_tensor(EmptyGraph, token_ids, "kUint32", <<1, 2>>)
           start == IF first.threw THEN first ELSE add_tensor(first.graph, pos_ids, "kUint32", <<1, 2>>)
           built == AllCalled(start, ModelCalls(config, paged))
           ins == IF built.threw THEN built ELSE set_input_names(built.graph, {token_ids, pos_ids})
           named == IF ins.threw THEN ins ELSE set_output_names(ins.graph, {Out(lm_head)})
<1>1. \/ llama_parser(config, paged) = Threw(EmptyGraph)
      \/ llama_parser(config, paged) = named
  BY Zenon DEF llama_parser, Then, AllCalled
<1>2. Whole(first.graph)
  BY EmptyWhole, AddTensorWhole
<1> HIDE DEF first
<1>3. Whole(start.graph)
  BY <1>2, AddTensorWhole
<1> HIDE DEF start
<1>4. Whole(built.graph)
  BY <1>3, ModelCallsAre, CalledWhole
<1> HIDE DEF built
<1>5. Whole(ins.graph)
  BY <1>4, SetNamesWhole
<1> HIDE DEF ins
<1>6. Whole(named.graph)
  BY <1>5, SetNamesWhole
<1> HIDE DEF named
<1>7. Threw(EmptyGraph).graph = EmptyGraph
  BY DEF Threw
<1> QED BY <1>1, <1>6, <1>7, EmptyWhole

-----------------------------------------------------------------------------
(* Renumbering.                                                             *)

(* What is kept is numbered from 1 on, in its order, and no number is used  *)
(* twice.                                                                   *)
LEMMA Renumbering ==
  ASSUME NEW N \in Nat, NEW R \in SUBSET (1 .. N)
  PROVE  /\ IsFiniteSet(R) /\ Cardinality(R) \in Nat
         /\ DOMAIN OriginToNew(R) = R
         /\ \A i \in R : /\ OriginToNew(R)[i] \in 1 .. Cardinality(R)
                         /\ AntiFunction(OriginToNew(R))[OriginToNew(R)[i]] = i
         /\ \A k \in 1 .. Cardinality(R) : /\ AntiFunction(OriginToNew(R))[k] \in R
                                           /\ OriginToNew(R)[AntiFunction(OriginToNew(R))[k]] = k
<1> DEFINE O == OriginToNew(R)
           C == Cardinality(R)
           A == AntiFunction(O)
           Upto(i) == {k \in R : k <= i}
<1>1. IsFiniteSet(R) /\ C \in Nat
  <2>1. IsFiniteSet(1 .. N)
    BY FS_Interval
  <2> QED BY <2>1, FS_Subset, FS_CardinalityType
<1>2. DOMAIN O = R /\ \A i \in R : O[i] = Cardinality(Upto(i))
  BY DEF OriginToNew
<1> HIDE DEF O
<1>3. ASSUME NEW i \in R
      PROVE  IsFiniteSet(Upto(i)) /\ Cardinality(Upto(i)) \in 1 .. C
  <2> DEFINE U == Upto(i)
  <2>1. U \in SUBSET R /\ U # {}
    OBVIOUS
  <2> HIDE DEF U
  <2>2. IsFiniteSet(U) /\ Cardinality(U) <= C /\ Cardinality(U) \in Nat /\ Cardinality(U) # 0
    <3>1. IsFiniteSet(U) /\ Cardinality(U) <= C
      BY <1>1, <2>1, FS_Subset
    <3>2. Cardinality(U) \in Nat
      BY <3>1, FS_CardinalityType
    <3>3. Cardinality(U) # 0
      BY <2>1, <3>1, FS_EmptySet
    <3> QED BY <3>1, <3>2, <3>3
  <2>3. Cardinality(U) \in 1 .. C
    BY <1>1, <2>2
  <2> QED BY <2>2, <2>3 DEF U
<1>4. ASSUME NEW i \in R, NEW j \in R, i < j
      PROVE  O[i] # O[j]
  <2> DEFINE U == Upto(i)
             V == Upto(j)
  <2>1. U \in SUBSET V /\ j \in V /\ j \notin U
    <3>1. \A k \in R : k \in Int
      OBVIOUS
    <3>2. \A k \in R : k <= i => k <= j /\ k # j
      BY <1>4, <3>1
    <3>3. j <= j
      BY <3>1
    <3> QED BY <3>2, <3>3
  <2>2. IsFiniteSet(V)
    BY <1>3, Zenon
  <2>3. O[i] = Cardinality(U) /\ O[j] = Cardinality(V)
    BY <1>2
  <2> HIDE DEF U, V
  <2>4. Cardinality(V) = Cardinality(U) => U = V
    BY <2>1, <2>2, FS_Subset
  <2> QED BY <2>1, <2>3, <2>4
<1>5. \A i, j \in R : O[i] = O[j] => i = j
  <2>1. \A i, j \in R : i < j \/ j < i \/ i = j
    OBVIOUS
  <2> QED BY <1>4, <2>1
<1>6. O = [i \in R |-> O[i]]
  BY DEF O, OriginToNew
<1>7. O \in [R -> 1 .. C]
  <2>1. \A i \in R : O[i] \in 1 .. C
    BY <1>2, <1>3, Zenon
  <2> HIDE DEF C
  <2> QED BY <1>6, <2>1
<1>8. O \in Injection(R, 1 .. C)
  BY <1>2, <1>5, <1>7 DEF Injection, IsInjective
<1>9. Cardinality(1 .. C) = C /\ IsFiniteSet(1 .. C)
  BY <1>1, FS_Interval
<1>10. O \in Surjection(R, 1 .. C)
  <2> DEFINE T == 1 .. C
  <2> HIDE DEF T
  <2>1. Cardinality(T) = Cardinality(R) /\ IsFiniteSet(T) /\ O \in Injection(R, T)
    BY <1>8, <1>9 DEF T
  <2>2. O \in Surjection(R, T)
    BY <2>1, FS_Injection
  <2> QED BY <2>2 DEF T
<1>11. \A t \in 1 .. C : \E s \in R : O[s] = t
  BY <1>10 DEF Surjection
<1>12. Range(O) = 1 .. C
  BY <1>2, <1>7, <1>11 DEF Range
<1>13. A = [t \in 1 .. C |-> CHOOSE s \in R : t \in Range(O) => O[s] = t]
  BY <1>2, <1>12 DEF AntiFunction, Inverse
<1> HIDE DEF A
<1>14. ASSUME NEW t \in 1 .. C PROVE A[t] \in R /\ O[A[t]] = t
  <2>1. A[t] = CHOOSE s \in R : t \in Range(O) => O[s] = t
    BY <1>13
  <2>2. \E s \in R : t \in Range(O) => O[s] = t
    BY <1>11
  <2>3. A[t] \in R /\ (t \in Range(O) => O[A[t]] = t)
    BY <2>1, <2>2, Zenon
  <2> QED BY <1>12, <2>3
<1>15. ASSUME NEW i \in R PROVE O[i] \in 1 .. C /\ A[O[i]] = i
  <2>1. O[i] \in 1 .. C
    BY <1>7
  <2>2. A[O[i]] \in R /\ O[A[O[i]]] = O[i]
    BY <1>14, <2>1
  <2> QED BY <1>5, <2>1, <2>2
<1> QED BY <1>1, <1>2, <1>14, <1>15 DEF O, A

(* new is a numbering of R, one to one, and old its inverse.                *)
Renumbers(new, old, R) ==
  /\ IsFiniteSet(R) /\ Cardinality(R) \in Nat
  /\ DOMAIN new = R
  /\ \A i \in R : new[i] \in 1 .. Cardinality(R) /\ old[new[i]] = i
  /\ \A k \in 1 .. Cardinality(R) : old[k] \in R /\ new[old[k]] = k

LEMMA Renumbered ==
  ASSUME NEW N \in Nat, NEW R \in SUBSET (1 .. N)
  PROVE  Renumbers(OriginToNew(R), AntiFunction(OriginToNew(R)), R)
BY Renumbering DEF Renumbers

LEMMA ThroughIs ==
  ASSUME NEW R, NEW new, NEW old, Renumbers(new, old, R), NEW ids, IsSeq(ids), Range(ids) \subseteq R
  PROVE  /\ IsSeq(Through(new, ids))
         /\ Range(Through(new, ids)) = {new[i] : i \in Range(ids)}
         /\ \A i \in R : Occurrences(Through(new, ids), new[i]) = Occurrences(ids, i)
<1> DEFINE T == Through(new, ids)
           n == Len(ids)
<1>1. n \in Nat /\ DOMAIN ids = 1 .. n
  BY SeqIs
<1>2. DOMAIN T = DOMAIN ids /\ \A k \in DOMAIN ids : T[k] = new[ids[k]]
  BY DEF Through
<1>3. IsSeq(T)
  <2>1. T = [k \in 1 .. n |-> T[k]]
    BY <1>1 DEF Through
  <2> HIDE DEF T, n
  <2> QED BY <1>1, <2>1, ListIs
<1> HIDE DEF T, n
<1>4. Range(T) = {new[i] : i \in Range(ids)}
  BY <1>2 DEF Range
<1>5. ASSUME NEW i \in R PROVE Occurrences(T, new[i]) = Occurrences(ids, i)
  <2>1. \A k \in DOMAIN ids : ids[k] \in R
    BY DEF Range
  <2>2. \A k \in DOMAIN ids : new[ids[k]] = new[i] <=> ids[k] = i
    BY <2>1 DEF Renumbers
  <2>3. {k \in DOMAIN T : T[k] = new[i]} = {k \in DOMAIN ids : ids[k] = i}
    BY <1>2, <2>2
  <2> QED BY <2>3 DEF Occurrences
<1> QED BY <1>3, <1>4, <1>5 DEF T

LEMMA ConsumersLeftIs ==
  ASSUME NEW R, NEW new, NEW old, Renumbers(new, old, R), NEW ids, IsSeq(ids)
  PROVE  /\ IsSeq(ConsumersLeft(ids, new))
         /\ Range(ConsumersLeft(ids, new)) \subseteq 1 .. Cardinality(R)
         /\ \A i \in R : Occurrences(ConsumersLeft(ids, new), new[i]) = Occurrences(ids, i)
<1> DEFINE left == {k \in DOMAIN ids : ids[k] \in R}
           O == OriginToNew(left)
           A == AntiFunction(O)
           C == Cardinality(left)
           T == ConsumersLeft(ids, new)
           n == Len(ids)
<1>1. n \in Nat /\ DOMAIN ids = 1 .. n
  BY SeqIs
<1>2. T = [k \in 1 .. C |-> new[ids[A[k]]]]
  <2>1. DOMAIN new = R
    BY DEF Renumbers
  <2> QED BY <2>1 DEF ConsumersLeft
<1>3. Renumbers(O, A, left)
  <2>1. left \in SUBSET (1 .. n)
    BY <1>1
  <2> HIDE DEF left, n
  <2> QED BY <1>1, <2>1, Renumbered
<1>4. \A k \in left : k \in DOMAIN ids /\ ids[k] \in R
  OBVIOUS
<1>5. \A k \in DOMAIN ids : ids[k] \in R => k \in left
  OBVIOUS
<1> HIDE DEF left, O, A, C, T, n
<1>6. C \in Nat /\ (\A k \in 1 .. C : A[k] \in left /\ O[A[k]] = k)
      /\ \A k \in left : O[k] \in 1 .. C /\ A[O[k]] = k
  BY <1>3 DEF Renumbers, C
<1>7. IsSeq(T) /\ DOMAIN T = 1 .. C /\ \A k \in 1 .. C : T[k] = new[ids[A[k]]]
  <2>1. T = [k \in 1 .. C |-> T[k]]
    BY <1>2
  <2>2. DOMAIN T = 1 .. C /\ \A k \in 1 .. C : T[k] = new[ids[A[k]]]
    BY <1>2
  <2> QED BY <1>6, <2>1, <2>2, ListIs, Zenon
<1>8. Range(T) \subseteq 1 .. Cardinality(R)
  <2>1. \A k \in 1 .. C : ids[A[k]] \in R
    BY <1>4, <1>6
  <2>2. \A i \in R : new[i] \in 1 .. Cardinality(R)
    BY DEF Renumbers
  <2> QED BY <1>7, <2>1, <2>2 DEF Range
<1>9. ASSUME NEW i \in R PROVE Occurrences(T, new[i]) = Occurrences(ids, i)
  <2> DEFINE S == {k \in DOMAIN T : T[k] = new[i]}
             U == {k \in DOMAIN ids : ids[k] = i}
             f == [k \in S |-> A[k]]
  <2>1. \A a, b \in R : new[a] = new[b] => a = b
    BY DEF Renumbers
  <2>2. ASSUME NEW k \in S PROVE f[k] \in U /\ A[k] \in left /\ k = O[A[k]]
    <3>1. k \in 1 .. C /\ A[k] \in left /\ O[A[k]] = k /\ new[ids[A[k]]] = new[i]
      BY <1>6, <1>7
    <3>2. A[k] \in DOMAIN ids /\ ids[A[k]] \in R
      BY <1>4, <3>1
    <3>3. ids[A[k]] = i
      BY <2>1, <3>1, <3>2
    <3> QED BY <3>1, <3>2, <3>3
  <2>3. ASSUME NEW u \in U PROVE \E k \in S : f[k] = u
    <3>1. u \in left
      BY <1>5
    <3>2. O[u] \in 1 .. C /\ A[O[u]] = u
      BY <1>6, <3>1
    <3>3. O[u] \in S
      BY <1>7, <3>2
    <3> QED BY <3>2, <3>3
  <2>4. f \in [S -> U]
    BY <2>2
  <2>5. \A a, b \in S : f[a] = f[b] => a = b
    BY <2>2
  <2>6. DOMAIN f = S
    OBVIOUS
  <2>7. IsFiniteSet(S) /\ Occurrences(T, new[i]) = Cardinality(S) /\ Occurrences(ids, i) = Cardinality(U)
    BY <1>7, OccurrencesType DEF Occurrences
  <2> HIDE DEF S, U, f
  <2>8. f \in Bijection(S, U)
    BY <2>3, <2>4, <2>5, <2>6 DEF Bijection, Injection, Surjection, IsInjective
  <2>9. Cardinality(U) = Cardinality(S)
    BY <2>7, <2>8, FS_Bijection DEF ExistsBijection
  <2> QED BY <2>7, <2>9
<1> QED BY <1>7, <1>8, <1>9 DEF T

-----------------------------------------------------------------------------
(* Shrinking.                                                               *)

Touched(g, R) == UNION {TouchedBy(g.nodes[at]) : at \in R}

(* What is kept includes what it needs, and what the outputs need.          *)
SelfContained(g, R) ==
  /\ R \subseteq DOMAIN g.nodes
  /\ \A n \in R : \A t \in Range(g.nodes[n].input_tensors) :
       g.tensor_infos[t].producer_node \in R \cup {None}
  /\ \A name \in g.output_names : Named(g, name).producer_node \in R

(* The one node that writes a tensor.                                       *)
LEMMA Producers ==
  ASSUME NEW g, Whole(g), NEW n \in DOMAIN g.nodes, NEW t \in DOMAIN g.tensor_infos
  PROVE  /\ t \in Range(g.nodes[n].output_tensors) <=> g.tensor_infos[t].producer_node = n
         /\ t \in Range(g.nodes[n].input_tensors) <=> n \in Range(g.tensor_infos[t].consumer_nodes)
<1>1. /\ IsSeq(g.nodes[n].output_tensors) /\ IsSeq(g.nodes[n].input_tensors)
      /\ IsSeq(g.tensor_infos[t].consumer_nodes) /\ Paired(g.nodes, g.tensor_infos, t, n)
  BY DEF Whole, IsGraph, IsNode, IsInfo, Edges
<1>2. t \in Range(g.nodes[n].output_tensors) <=> Occurrences(g.nodes[n].output_tensors, t) # 0
  BY <1>1, OccurrencesType
<1>3. t \in Range(g.nodes[n].input_tensors) <=> Occurrences(g.nodes[n].input_tensors, t) # 0
  BY <1>1, OccurrencesType
<1>4. n \in Range(g.tensor_infos[t].consumer_nodes) <=> Occurrences(g.tensor_infos[t].consumer_nodes, n) # 0
  BY <1>1, OccurrencesType
<1> QED BY <1>1, <1>2, <1>3, <1>4 DEF Paired

(* What is touched has its producer kept, if it has one.                    *)
LEMMA TouchedProducers ==
  ASSUME NEW g, Whole(g), NEW R, SelfContained(g, R), NEW t \in Touched(g, R)
  PROVE  t \in DOMAIN g.tensor_infos /\ g.tensor_infos[t].producer_node \in R \cup {None}
<1>1. PICK n \in R : t \in TouchedBy(g.nodes[n])
  BY DEF Touched
<1>2. n \in DOMAIN g.nodes
  BY DEF SelfContained
<1>3. t \in DOMAIN g.tensor_infos
  BY <1>1, <1>2 DEF Whole, Edges
<1>4. CASE t \in Range(g.nodes[n].input_tensors)
  BY <1>3, <1>4 DEF SelfContained
<1>5. CASE t \in Range(g.nodes[n].output_tensors)
  BY <1>2, <1>3, <1>5, Producers
<1> QED BY <1>1, <1>3, <1>4, <1>5 DEF TouchedBy

(* Two entries of a list that agrees with its map have two names.           *)
LEMMA NamesInjective ==
  ASSUME NEW map, NEW list, NamesAgree(map, list), NEW j \in DOMAIN list, NEW k \in DOMAIN list,
         list[j].name = list[k].name
  PROVE  j = k
BY DEF NamesAgree

(* A list of those that are kept, and a map made of it anew.                *)
KeptNames(map, list, R, new, old, m, kept) ==
  /\ NamesAgree(map, list) /\ R \subseteq DOMAIN list /\ Renumbers(new, old, R)
  /\ DOMAIN kept = 1 .. Cardinality(R)
  /\ \A k \in DOMAIN kept : kept[k].name = list[old[k]].name
  /\ DOMAIN m = {kept[k].name : k \in DOMAIN kept}
  /\ \A name \in DOMAIN m : m[name] \in DOMAIN kept /\ kept[m[name]].name = name

LEMMA NamesRebuilt ==
  ASSUME NEW map, NEW list, NEW R, NEW new, NEW old, NEW m, NEW kept,
         KeptNames(map, list, R, new, old, m, kept)
  PROVE  NamesAgree(m, kept)
<1> USE DEF KeptNames
<1>1. ASSUME NEW j \in DOMAIN kept, NEW k \in DOMAIN kept, kept[j].name = kept[k].name
      PROVE  j = k
  <2>1. old[j] \in R /\ new[old[j]] = j /\ old[k] \in R /\ new[old[k]] = k
    BY DEF Renumbers
  <2>2. old[j] = old[k]
    BY <1>1, <2>1, NamesInjective
  <2> QED BY <2>1, <2>2
<1>2. ASSUME NEW k \in DOMAIN kept PROVE m[kept[k].name] = k
  BY <1>1
<1> QED BY <1>2 DEF NamesAgree

(* A node and a tensor as they are kept.                                    *)
NodeThrough(a, new) ==
  [a EXCEPT !.input_tensors = Through(new, @), !.output_tensors = Through(new, @)]

InfoLeft(a, new) ==
  [a EXCEPT !.consumer_nodes = ConsumersLeft(@, new),
            !.producer_node = IF @ = None THEN None ELSE new[@]]

LEMMA NodeThroughIs ==
  ASSUME NEW a, IsNode(a), NEW R, NEW new, NEW old, Renumbers(new, old, R),
         Range(a.input_tensors) \subseteq R, Range(a.output_tensors) \subseteq R
  PROVE  LET b == NodeThrough(a, new)
         IN  /\ IsNode(b) /\ b.name = a.name /\ b.param = a.param
             /\ b.input_tensors = Through(new, a.input_tensors)
             /\ b.output_tensors = Through(new, a.output_tensors)
<1> DEFINE ins == Through(new, a.input_tensors)
           outs == Through(new, a.output_tensors)
<1>1. IsSeq(ins) /\ IsSeq(outs)
  BY ThroughIs DEF IsNode
<1>2. NodeThrough(a, new) = [a EXCEPT !.input_tensors = ins, !.output_tensors = outs]
  BY DEF NodeThrough
<1> HIDE DEF ins, outs
<1>4. NodeThrough(a, new) = NodeOf(a.name, a.param, ins, outs)
  BY <1>2 DEF IsNode, NodeOf
<1>3. LET b == NodeOf(a.name, a.param, ins, outs)
      IN  /\ IsNode(b) /\ b.name = a.name /\ b.param = a.param
          /\ b.input_tensors = ins /\ b.output_tensors = outs
  BY <1>1, NodeOfIs
<1> QED BY <1>3, <1>4 DEF ins, outs

LEMMA InfoLeftIs ==
  ASSUME NEW a, IsInfo(a), NEW R, NEW new, NEW old, Renumbers(new, old, R)
  PROVE  LET b == InfoLeft(a, new)
         IN  /\ IsInfo(b) /\ b.name = a.name /\ b.has_explicit_added = a.has_explicit_added
             /\ b.consumer_nodes = ConsumersLeft(a.consumer_nodes, new)
             /\ b.producer_node = IF a.producer_node = None THEN None ELSE new[a.producer_node]
<1> DEFINE left == ConsumersLeft(a.consumer_nodes, new)
           by == IF a.producer_node = None THEN None ELSE new[a.producer_node]
<1>1. IsSeq(left)
  BY ConsumersLeftIs DEF IsInfo
<1>2. InfoLeft(a, new) = [a EXCEPT !.consumer_nodes = left, !.producer_node = by]
  BY DEF InfoLeft
<1> HIDE DEF left, by
<1>4. InfoLeft(a, new) = InfoOf(a.name, a.has_explicit_added, a.dtype, a.shape, left, by)
  BY <1>2 DEF IsInfo, InfoOf
<1>3. LET b == InfoOf(a.name, a.has_explicit_added, a.dtype, a.shape, left, by)
      IN  /\ IsInfo(b) /\ b.name = a.name /\ b.has_explicit_added = a.has_explicit_added
          /\ b.consumer_nodes = left /\ b.producer_node = by
  BY <1>1, InfoOfIs DEF InfoOf
<1> QED BY <1>3, <1>4 DEF left, by

LEMMA ShrinkWhole ==
  ASSUME NEW g, Whole(g), NEW R, SelfContained(g, R)
  PROVE  Whole(shrink(g, R))
<1> DEFINE Rt == Touched(g, R)
           nodeNew == OriginToNew(R)
           nodeOld == AntiFunction(nodeNew)
           tensorNew == OriginToNew(Rt)
           tensorOld == AntiFunction(tensorNew)
           node(k) == g.nodes[nodeOld[k]]
           info(k) == g.tensor_infos[tensorOld[k]]
           nodes == [k \in 1 .. Cardinality(R) |-> NodeThrough(node(k), tensorNew)]
           infos == [k \in 1 .. Cardinality(Rt) |-> InfoLeft(info(k), nodeNew)]
           names == {infos[k].name : k \in DOMAIN infos}
           nodemap == [name \in {nodes[k].name : k \in DOMAIN nodes} |->
                         CHOOSE k \in DOMAIN nodes : nodes[k].name = name]
           tensormap == [name \in names |-> CHOOSE k \in DOMAIN infos : infos[k].name = name]
           r == shrink(g, R)
<1>1. r = [nodes |-> nodes, tensor_infos |-> infos,
           node_name_to_idx |-> nodemap, tensor_name_to_idx |-> tensormap,
           input_names |-> g.input_names \cap names, output_names |-> g.output_names]
  BY Zenon DEF shrink, Touched, NodeThrough, InfoLeft
<1>2. IsSeq(g.nodes) /\ IsSeq(g.tensor_infos)
  BY DEF Whole, IsGraph
<1>3. R \subseteq DOMAIN g.nodes /\ Renumbers(nodeNew, nodeOld, R)
  <2>1. Len(g.nodes) \in Nat /\ DOMAIN g.nodes = 1 .. Len(g.nodes)
    BY <1>2, SeqIs
  <2>2. R \in SUBSET (1 .. Len(g.nodes))
    BY <2>1 DEF SelfContained
  <2> QED BY <2>1, <2>2, Renumbered
<1>4. Rt \subseteq DOMAIN g.tensor_infos /\ Renumbers(tensorNew, tensorOld, Rt)
  <2>1. Len(g.tensor_infos) \in Nat /\ DOMAIN g.tensor_infos = 1 .. Len(g.tensor_infos)
    BY <1>2, SeqIs
  <2>2. Rt \subseteq DOMAIN g.tensor_infos
    BY TouchedProducers
  <2>3. Rt \in SUBSET (1 .. Len(g.tensor_infos))
    BY <2>1, <2>2
  <2> HIDE DEF Rt
  <2> QED BY <2>1, <2>2, <2>3, Renumbered
<1> DEFINE Cn == Cardinality(R)
           Ct == Cardinality(Rt)
<1>5. \A t \in Rt : g.tensor_infos[t].producer_node \in R \cup {None}
  BY TouchedProducers
<1>6. \A n \in R : Range(g.nodes[n].input_tensors) \cup Range(g.nodes[n].output_tensors) \subseteq Rt
  BY DEF Touched, TouchedBy
<1>7. DOMAIN nodes = 1 .. Cn /\ DOMAIN infos = 1 .. Ct
  OBVIOUS
<1>8. /\ \A k \in 1 .. Cn : nodes[k] = NodeThrough(node(k), tensorNew)
      /\ \A k \in 1 .. Ct : infos[k] = InfoLeft(info(k), nodeNew)
  OBVIOUS
<1>9. nodes = [k \in 1 .. Cn |-> nodes[k]] /\ infos = [k \in 1 .. Ct |-> infos[k]]
  BY Zenon
<1> HIDE DEF Rt, nodeNew, nodeOld, tensorNew, tensorOld, nodes, infos, Cn, Ct
<1>10. /\ Cn \in Nat /\ Ct \in Nat
       /\ \A k \in 1 .. Cn : nodeOld[k] \in R /\ nodeNew[nodeOld[k]] = k
       /\ \A k \in 1 .. Ct : tensorOld[k] \in Rt /\ tensorNew[tensorOld[k]] = k
       /\ \A n \in R : nodeNew[n] \in 1 .. Cn /\ nodeOld[nodeNew[n]] = n
       /\ \A t \in Rt : tensorNew[t] \in 1 .. Ct /\ tensorOld[tensorNew[t]] = t
  BY <1>3, <1>4 DEF Renumbers, Cn, Ct
<1>11. ASSUME NEW k \in 1 .. Cn
       PROVE  /\ IsNode(nodes[k]) /\ nodes[k].name = node(k).name
              /\ nodes[k].input_tensors = Through(tensorNew, node(k).input_tensors)
              /\ nodes[k].output_tensors = Through(tensorNew, node(k).output_tensors)
  <2> DEFINE a == g.nodes[nodeOld[k]]
  <2>1. nodeOld[k] \in R /\ nodeOld[k] \in DOMAIN g.nodes
    BY <1>3, <1>10
  <2>2. IsNode(a) /\ Range(a.input_tensors) \subseteq Rt /\ Range(a.output_tensors) \subseteq Rt
    BY <1>6, <2>1 DEF Whole, IsGraph
  <2>3. nodes[k] = NodeThrough(a, tensorNew)
    BY <1>8
  <2> HIDE DEF a
  <2>4. /\ IsNode(nodes[k]) /\ nodes[k].name = a.name
        /\ nodes[k].input_tensors = Through(tensorNew, a.input_tensors)
        /\ nodes[k].output_tensors = Through(tensorNew, a.output_tensors)
    BY <1>4, <2>2, <2>3, NodeThroughIs
  <2> QED BY <2>4 DEF a
<1>12. ASSUME NEW k \in 1 .. Ct
       PROVE  /\ IsInfo(infos[k]) /\ infos[k].name = info(k).name
              /\ infos[k].consumer_nodes = ConsumersLeft(info(k).consumer_nodes, nodeNew)
              /\ infos[k].producer_node = IF info(k).producer_node = None THEN None ELSE nodeNew[info(k).producer_node]
  <2> DEFINE a == g.tensor_infos[tensorOld[k]]
  <2>1. tensorOld[k] \in DOMAIN g.tensor_infos
    BY <1>4, <1>10
  <2>2. IsInfo(a)
    BY <2>1 DEF Whole, IsGraph
  <2>3. infos[k] = InfoLeft(a, nodeNew)
    BY <1>8
  <2> HIDE DEF a
  <2>4. /\ IsInfo(infos[k]) /\ infos[k].name = a.name
        /\ infos[k].consumer_nodes = ConsumersLeft(a.consumer_nodes, nodeNew)
        /\ infos[k].producer_node = IF a.producer_node = None THEN None ELSE nodeNew[a.producer_node]
    BY <1>3, <2>2, <2>3, InfoLeftIs
  <2> QED BY <2>4 DEF a
<1>13. IsSeq(nodes) /\ IsSeq(infos)
  BY <1>9, <1>10, ListIs, Zenon
<1>14. NamesAgree(nodemap, nodes)
  <2>1. \A k \in DOMAIN nodes : nodes[k].name = g.nodes[nodeOld[k]].name
    BY <1>7, <1>11
  <2>2. NamesAgree(g.node_name_to_idx, g.nodes) /\ DOMAIN nodes = 1 .. Cardinality(R)
    BY <1>7 DEF Whole, Cn
  <2>3. DOMAIN nodemap = {nodes[k].name : k \in DOMAIN nodes}
    OBVIOUS
  <2>4. ASSUME NEW name \in DOMAIN nodemap
        PROVE  nodemap[name] \in DOMAIN nodes /\ nodes[nodemap[name]].name = name
    <3>1. PICK k \in DOMAIN nodes : nodes[k].name = name
      BY <2>3, <2>4
    <3>2. nodemap[name] = CHOOSE j \in DOMAIN nodes : nodes[j].name = name
      BY <2>3, <2>4
    <3> DEFINE c == CHOOSE j \in DOMAIN nodes : nodes[j].name = name
    <3>3. c \in DOMAIN nodes /\ nodes[c].name = name
      BY <3>1, Zenon
    <3> QED BY <3>2, <3>3, Zenon
  <2> HIDE DEF nodemap
  <2>5. KeptNames(g.node_name_to_idx, g.nodes, R, nodeNew, nodeOld, nodemap, nodes)
    BY <1>3, <2>1, <2>2, <2>3, <2>4 DEF KeptNames
  <2> QED BY <2>5, NamesRebuilt
<1>15. NamesAgree(tensormap, infos)
  <2>1. \A k \in DOMAIN infos : infos[k].name = g.tensor_infos[tensorOld[k]].name
    BY <1>7, <1>12
  <2>2. NamesAgree(g.tensor_name_to_idx, g.tensor_infos) /\ DOMAIN infos = 1 .. Cardinality(Rt)
    BY <1>7 DEF Whole, Ct
  <2>3. DOMAIN tensormap = {infos[k].name : k \in DOMAIN infos}
    OBVIOUS
  <2>4. ASSUME NEW name \in DOMAIN tensormap
        PROVE  tensormap[name] \in DOMAIN infos /\ infos[tensormap[name]].name = name
    <3>1. PICK k \in DOMAIN infos : infos[k].name = name
      BY <2>3, <2>4
    <3>2. tensormap[name] = CHOOSE j \in DOMAIN infos : infos[j].name = name
      BY <2>3, <2>4
    <3> DEFINE c == CHOOSE j \in DOMAIN infos : infos[j].name = name
    <3>3. c \in DOMAIN infos /\ infos[c].name = name
      BY <3>1, Zenon
    <3> QED BY <3>2, <3>3, Zenon
  <2> HIDE DEF tensormap
  <2>5. KeptNames(g.tensor_name_to_idx, g.tensor_infos, Rt, tensorNew, tensorOld, tensormap, infos)
    BY <1>4, <2>1, <2>2, <2>3, <2>4 DEF KeptNames
  <2> QED BY <2>5, NamesRebuilt
<1>16. ASSUME NEW n \in 1 .. Cn PROVE TouchedBy(nodes[n]) \subseteq 1 .. Ct
  <2>1. nodeOld[n] \in R /\ nodeOld[n] \in DOMAIN g.nodes
    BY <1>3, <1>10
  <2>2. /\ Range(node(n).input_tensors) \subseteq Rt /\ Range(node(n).output_tensors) \subseteq Rt
        /\ IsSeq(node(n).input_tensors) /\ IsSeq(node(n).output_tensors)
    BY <1>6, <2>1 DEF Whole, IsGraph, IsNode
  <2>3. /\ Range(nodes[n].input_tensors) = {tensorNew[i] : i \in Range(node(n).input_tensors)}
        /\ Range(nodes[n].output_tensors) = {tensorNew[i] : i \in Range(node(n).output_tensors)}
    BY <1>4, <1>11, <2>2, ThroughIs
  <2> QED BY <1>10, <2>2, <2>3 DEF TouchedBy
<1>17. ASSUME NEW t \in 1 .. Ct
       PROVE  /\ Range(infos[t].consumer_nodes) \subseteq 1 .. Cn
              /\ infos[t].producer_node \in (1 .. Cn) \cup {None}
  <2>1. tensorOld[t] \in Rt /\ tensorOld[t] \in DOMAIN g.tensor_infos
    BY <1>4, <1>10
  <2>2. IsSeq(info(t).consumer_nodes)
    BY <2>1 DEF Whole, IsGraph, IsInfo
  <2>3. Range(infos[t].consumer_nodes) \subseteq 1 .. Cn
    BY <1>3, <1>12, <2>2, ConsumersLeftIs DEF Cn
  <2>4. info(t).producer_node \in R \cup {None}
    BY <1>5, <2>1
  <2> QED BY <1>10, <1>12, <2>3, <2>4
<1>18. ASSUME NEW t \in 1 .. Ct, NEW n \in 1 .. Cn PROVE Paired(nodes, infos, t, n)
  <2> DEFINE u == tensorOld[t]
             m == nodeOld[n]
  <2>1. /\ u \in Rt /\ u \in DOMAIN g.tensor_infos /\ tensorNew[u] = t
        /\ m \in R /\ m \in DOMAIN g.nodes /\ nodeNew[m] = n
    BY <1>3, <1>4, <1>10
  <2>2. /\ IsSeq(g.nodes[m].input_tensors) /\ IsSeq(g.nodes[m].output_tensors)
        /\ IsSeq(g.tensor_infos[u].consumer_nodes)
        /\ Paired(g.nodes, g.tensor_infos, u, m)
    BY <2>1 DEF Whole, IsGraph, IsNode, IsInfo, Edges
  <2>3. Range(g.nodes[m].input_tensors) \subseteq Rt /\ Range(g.nodes[m].output_tensors) \subseteq Rt
    BY <1>6, <2>1
  <2>4. /\ nodes[n].input_tensors = Through(tensorNew, g.nodes[m].input_tensors)
        /\ nodes[n].output_tensors = Through(tensorNew, g.nodes[m].output_tensors)
        /\ infos[t].consumer_nodes = ConsumersLeft(g.tensor_infos[u].consumer_nodes, nodeNew)
        /\ infos[t].producer_node = IF g.tensor_infos[u].producer_node = None THEN None
                                    ELSE nodeNew[g.tensor_infos[u].producer_node]
    BY <1>11, <1>12
  <2> HIDE DEF u, m
  <2>5. Occurrences(nodes[n].input_tensors, t) = Occurrences(g.nodes[m].input_tensors, u)
    BY <1>4, <2>1, <2>2, <2>3, <2>4, ThroughIs
  <2>6. Occurrences(nodes[n].output_tensors, t) = Occurrences(g.nodes[m].output_tensors, u)
    BY <1>4, <2>1, <2>2, <2>3, <2>4, ThroughIs
  <2>7. Occurrences(infos[t].consumer_nodes, n) = Occurrences(g.tensor_infos[u].consumer_nodes, m)
    BY <1>3, <2>1, <2>2, <2>4, ConsumersLeftIs
  <2>8. infos[t].producer_node = n <=> g.tensor_infos[u].producer_node = m
    <3>1. g.tensor_infos[u].producer_node \in R \cup {None}
      BY <1>5, <2>1
    <3>2. None \notin DOMAIN g.nodes /\ n # None /\ m # None
      <4>1. None \notin DOMAIN g.nodes /\ None \notin DOMAIN nodes
        BY <1>2, <1>13, NotNone
      <4> QED BY <1>7, <2>1, <4>1
    <3>3. CASE g.tensor_infos[u].producer_node = None
      BY <2>4, <3>2, <3>3
    <3>4. CASE g.tensor_infos[u].producer_node \in R /\ g.tensor_infos[u].producer_node # None
      <4>1. infos[t].producer_node = nodeNew[g.tensor_infos[u].producer_node]
        BY <2>4, <3>4
      <4>2. \A p \in R : nodeNew[p] = n <=> p = m
        BY <1>10, <2>1
      <4> QED BY <3>4, <4>1, <4>2
    <3> QED BY <3>1, <3>3, <3>4
  <2> QED BY <2>2, <2>5, <2>6, <2>7, <2>8 DEF Paired
<1>19. Edges(nodes, infos)
  BY <1>7, <1>16, <1>17, <1>18 DEF Edges
<1>20. g.output_names \subseteq names
  <2> SUFFICES ASSUME NEW name \in g.output_names PROVE name \in names
    OBVIOUS
  <2> DEFINE t == g.tensor_name_to_idx[name]
  <2>1. t \in DOMAIN g.tensor_infos /\ g.tensor_infos[t].name = name
    BY DEF Whole, NamesAgree
  <2>2. g.tensor_infos[t].producer_node \in R
    BY DEF SelfContained, Named
  <2> HIDE DEF t
  <2>3. t \in Range(g.nodes[g.tensor_infos[t].producer_node].output_tensors)
    BY <1>3, <2>1, <2>2, Producers
  <2>4. t \in Rt
    BY <1>6, <2>2, <2>3
  <2>5. tensorNew[t] \in DOMAIN infos /\ infos[tensorNew[t]].name = name
    BY <1>7, <1>10, <1>12, <2>1, <2>4
  <2> QED BY <2>5
<1>21. DOMAIN tensormap = names
  OBVIOUS
<1> HIDE DEF nodemap, tensormap, names, r
<1>22. /\ r.nodes = nodes /\ r.tensor_infos = infos /\ r.node_name_to_idx = nodemap
       /\ r.tensor_name_to_idx = tensormap /\ r.input_names = g.input_names \cap names
       /\ r.output_names = g.output_names
  BY <1>1
<1>23. IsGraph(r)
  BY <1>1, <1>7, <1>11, <1>12, <1>13, <1>22 DEF IsGraph
<1>24. r.input_names \cup r.output_names \subseteq DOMAIN r.tensor_name_to_idx
  BY <1>20, <1>21, <1>22
<1> QED BY <1>14, <1>15, <1>19, <1>22, <1>23, <1>24 DEF Whole, r

-----------------------------------------------------------------------------
(* What the outputs need.                                                   *)

LEMMA FurtherIs ==
  ASSUME NEW g, Whole(g), NEW F, F \subseteq DOMAIN g.nodes
  PROVE  F \subseteq Further(g, F) /\ Further(g, F) \subseteq DOMAIN g.nodes
<1>1. \A n \in F : \A t \in Range(g.nodes[n].input_tensors) :
        g.tensor_infos[t].producer_node \in DOMAIN g.nodes \cup {None}
  BY DEF Whole, Edges, TouchedBy
<1> QED BY <1>1 DEF Further

(* No more is found.                                                        *)
Settled(g, F) == Further(g, F) = F

(* Each turn finds a node more, until there is none more to find, and there *)
(* are as many turns as nodes.                                              *)
LEMMA NeededSettled ==
  ASSUME NEW g, Whole(g), NEW start, start \subseteq DOMAIN g.nodes
  PROVE  LET r == AllFurther(g, start, g.nodes)
         IN  start \subseteq r /\ r \subseteq DOMAIN g.nodes /\ Settled(g, r)
<1> DEFINE N == Len(g.nodes)
<1>1. N \in Nat /\ DOMAIN g.nodes = 1 .. N
  BY SeqIs DEF Whole, IsGraph
<1>2. PICK p : /\ Stepwise(p, "need", g, start, g.nodes)
               /\ AllFurther(g, start, g.nodes) = p[N]
  BY <1>1, NeedFold
<1> DEFINE S == {d \in 0 .. N : /\ start \subseteq p[d] /\ p[d] \subseteq 1 .. N
                                /\ Settled(g, p[d]) \/ Cardinality(p[d]) >= d}
<1>3. IsFiniteSet(1 .. N) /\ Cardinality(1 .. N) = N
  BY <1>1, FS_Interval
<1>4. \A F : F \subseteq 1 .. N => IsFiniteSet(F) /\ Cardinality(F) \in Nat
  <2> SUFFICES ASSUME NEW F \in SUBSET (1 .. N) PROVE IsFiniteSet(F) /\ Cardinality(F) \in Nat
    OBVIOUS
  <2> QED BY <1>3, FS_Subset, FS_CardinalityType
<1>5. 0 \in S
  <2>1. p[0] = start
    BY <1>2 DEF Stepwise
  <2>2. Cardinality(p[0]) \in Nat
    BY <1>1, <1>4, <2>1
  <2> QED BY <1>1, <2>1, <2>2
<1>6. ASSUME NEW d \in 1 .. N, d - 1 \in S PROVE d \in S
  <2> DEFINE F == p[d - 1]
             G == p[d]
  <2>1. G = Further(g, F)
    BY <1>2, Zenon DEF Stepwise, Turn
  <2>2. start \subseteq F /\ F \subseteq 1 .. N /\ (Settled(g, F) \/ Cardinality(F) >= d - 1)
    BY <1>6
  <2> HIDE DEF F, G
  <2>3. F \subseteq G /\ G \subseteq 1 .. N
    BY <1>1, <2>1, <2>2, FurtherIs
  <2>4. Settled(g, G) \/ Cardinality(G) >= d
    <3>1. CASE Settled(g, F)
      BY <2>1, <3>1 DEF Settled
    <3>2. CASE ~Settled(g, F)
      <4>1. F # G /\ Cardinality(F) >= d - 1
        BY <2>1, <2>2, <3>2 DEF Settled
      <4>2. IsFiniteSet(G) /\ Cardinality(G) \in Nat /\ Cardinality(F) \in Nat
        BY <1>4, <2>2, <2>3
      <4>3. Cardinality(F) <= Cardinality(G) /\ Cardinality(F) # Cardinality(G)
        <5>1. F \in SUBSET G
          BY <2>3
        <5> QED BY <4>1, <4>2, <5>1, FS_Subset
      <4> QED BY <4>1, <4>2, <4>3
    <3> QED BY <3>1, <3>2
  <2>5. start \subseteq G
    BY <2>2, <2>3
  <2>6. d \in 0 .. N
    BY <1>1
  <2> QED BY <2>3, <2>4, <2>5, <2>6 DEF F, G
<1>7. N \in S
  <2>1. N \in 0 .. N
    BY <1>1
  <2> HIDE DEF S, N
  <2>2. \A d \in 0 .. N : d \in S
    BY <1>1, <1>5, <1>6, Upwards
  <2> QED BY <2>1, <2>2
<1> DEFINE r == p[N]
<1>8. start \subseteq r /\ r \subseteq 1 .. N /\ (Settled(g, r) \/ Cardinality(r) >= N)
  BY <1>7
<1> HIDE DEF r, N
<1>9. Settled(g, r)
  <2>1. CASE Settled(g, r)
    BY <2>1
  <2>2. CASE Cardinality(r) >= N
    <3>1. r \in SUBSET (1 .. N) /\ Cardinality(r) \in Nat
      BY <1>4, <1>8
    <3>2. Cardinality(r) <= N
      BY <1>3, <3>1, FS_Subset
    <3>3. r = 1 .. N
      <4>1. Cardinality(r) = N
        BY <1>1, <2>2, <3>1, <3>2
      <4> QED BY <1>3, <3>1, <4>1, FS_Subset
    <3> QED BY <1>1, <3>3, FurtherIs DEF Settled
  <2> QED BY <1>8, <2>1, <2>2
<1> QED BY <1>1, <1>2, <1>8, <1>9 DEF r

LEMMA NeededIs ==
  ASSUME NEW g
  PROVE  Needed(g) = AllFurther(g, {Named(g, name).producer_node : name \in g.output_names}, g.nodes)
BY Zenon DEF Needed, AllFurther, Further

LEMMA NeededClosed ==
  ASSUME NEW g, Whole(g), \A name \in g.output_names : Named(g, name).producer_node # None
  PROVE  SelfContained(g, Needed(g)) /\ Settled(g, Needed(g))
<1> DEFINE start == {Named(g, name).producer_node : name \in g.output_names}
<1>1. start \subseteq DOMAIN g.nodes
  <2> SUFFICES ASSUME NEW name \in g.output_names PROVE Named(g, name).producer_node \in DOMAIN g.nodes
    OBVIOUS
  <2>1. g.tensor_name_to_idx[name] \in DOMAIN g.tensor_infos
    BY DEF Whole, NamesAgree
  <2> QED BY <2>1 DEF Named, Whole, Edges
<1> HIDE DEF start
<1>2. start \subseteq Needed(g) /\ Needed(g) \subseteq DOMAIN g.nodes /\ Settled(g, Needed(g))
  BY <1>1, NeededSettled, NeededIs DEF start
<1>3. \A n \in Needed(g) : \A t \in Range(g.nodes[n].input_tensors) :
        g.tensor_infos[t].producer_node \in Needed(g) \cup {None}
  BY <1>2 DEF Settled, Further
<1> QED BY <1>2, <1>3 DEF SelfContained, start

LEMMA RunDCEWhole ==
  ASSUME NEW g, Whole(g)
  PROVE  Whole(RunDCE(g).graph)
<1>1. CASE \E name \in g.output_names : Named(g, name).producer_node = None
  BY <1>1 DEF RunDCE, Threw
<1>2. CASE \A name \in g.output_names : Named(g, name).producer_node # None
  <2>1. Whole(shrink(g, Needed(g)))
    BY <1>2, NeededClosed, ShrinkWhole
  <2> QED BY <1>2, <2>1 DEF RunDCE, RetainNodes, Returned
<1> QED BY <1>1, <1>2

-----------------------------------------------------------------------------
(* The steps.                                                               *)

LEMMA OperandsAre ==
  ASSUME NEW num \in Nat, NEW s \in Operands(num)
  PROVE  IsSeq(s)
<1>1. s = [k \in 1 .. num |-> s[k]]
  BY DEF Operands
<1> QED BY <1>1, ListIs

LEMMA GraphKept ==
  ASSUME Whole(graph), [GNext]_gvars
  PROVE  Whole(graph')
<1>1. ASSUME NEW name \in TensorNames, NEW desc \in Shapes(graph), AddTensor(name, desc.dtype, desc.cur_shape)
      PROVE  Whole(graph')
  BY <1>1, AddTensorWhole DEF AddTensor, Becomes
<1>2. ASSUME NEW name \in NodeNames(graph), NEW param \in Params(graph),
             NEW inputs \in Operands(input_num(param)), NEW outputs \in Operands(output_num(param)),
             AddNode(name, param, inputs, outputs)
      PROVE  Whole(graph')
  <2>1. input_num(param) \in Nat /\ output_num(param) \in Nat
    BY DEF input_num, extern_input_num, weight_num, output_num
  <2>2. IsSeq(inputs) /\ IsSeq(outputs)
    BY <2>1, OperandsAre
  <2> QED BY <1>2, <2>2, AddNodeWhole DEF AddNode, Becomes
<1>3. ASSUME NEW names \in InputSets(graph), SetInputNames(names)
      PROVE  Whole(graph')
  BY <1>3, SetNamesWhole DEF SetInputNames, Becomes
<1>4. ASSUME NEW names \in OutputSets(graph), SetOutputNames(names)
      PROVE  Whole(graph')
  BY <1>4, SetNamesWhole DEF SetOutputNames, Becomes
<1>5. ASSUME NEW config \in LlamaConfigs, NEW paged \in BOOLEAN, Parse(config, paged)
      PROVE  Whole(graph')
  BY <1>5, GraphPlanAssumption, ParserWhole DEF Parse, Becomes
<1>6. CASE Optimize
  BY <1>6, RunDCEWhole DEF Optimize, Becomes
<1>7. ASSUME NEW ranges \in Ranges(graph), CreatePlan(ranges)
      PROVE  Whole(graph')
  BY <1>7 DEF CreatePlan
<1>8. CASE UNCHANGED gvars
  BY <1>8 DEF gvars
<1> QED BY <1>1, <1>2, <1>3, <1>4, <1>5, <1>6, <1>7, <1>8 DEF GNext

(* Whatever calls there have been, those that threw half-way included, and  *)
(* whatever was optimised: the vectors and the maps of the graph agree, and *)
(* so do the edges its nodes and its tensors list (graph.cpp,               *)
(* graph_optimizer.cpp, llama_parser.cpp).                                  *)
THEOREM CrossReferencedCorrect == XSpec => []CrossReferenced
<1>1. XInit => Whole(graph)
  BY EmptyWhole DEF XInit, GInit
<1>2. Whole(graph) /\ [XNext]_xvars => Whole(graph)'
  <2> SUFFICES ASSUME Whole(graph), [XNext]_xvars PROVE Whole(graph')
    OBVIOUS
  <2>1. CASE GNext
    BY <2>1, GraphKept
  <2>2. CASE MakeRuntime
    BY <2>2, EmptyWhole DEF MakeRuntime
  <2>3. CASE UNCHANGED gvars
    BY <2>3 DEF gvars
  <2>4. GNext \/ MakeRuntime \/ UNCHANGED gvars
    BY DEF XNext, xvars, CopyInput, SetPrefill, BindRequests, Execute
  <2> QED BY <2>1, <2>2, <2>3, <2>4
<1> QED BY <1>1, <1>2, WholeReferenced, PTL DEF XSpec

-----------------------------------------------------------------------------
(* More folds.                                                              *)

(* The search for orders is a walk.                                         *)
AllLonger(g, orders, nodes) ==
  LET Ready(order) ==
        {n \in Ids(g.nodes) \ Range(order) :
           \A m \in Ids(g.nodes) : n \in ConsumersOf(g, m) => m \in Range(order)}
  IN  FoldLeft(LAMBDA found, n : UNION {{Append(o, m) : m \in Ready(o)} : o \in found}, orders, nodes)

LEMMA OrderFold ==
  ASSUME NEW base, NEW s, Len(s) \in Nat, DOMAIN s = 1 .. Len(s), NEW g
  PROVE  \E p : Stepwise(p, "order", g, base, s) /\ AllLonger(g, base, s) = p[Len(s)]
<1> DEFINE n == Len(s)
           Op(e, x) == Longer(g, e)
           P(h) == h = [T \in SUBSET DOMAIN s |-> IF T = {} THEN base ELSE Op(h[T \ {Max(T)}], s[Max(T)])]
           f == CHOOSE h : P(h)
<1>1. AllLonger(g, base, s) = f[DOMAIN s]
  BY DEF AllLonger, FoldLeft, MapThenFoldSet, Longer
<1>2. ASSUME NEW h, NEW T PROVE Turn("order", g, h[T \ {Max(T)}], s[Max(T)]) = Op(h[T \ {Max(T)}], s[Max(T)])
  BY DEF Turn, Longer
<1> HIDE DEF Op
<1>3. PICK h : IsFold(h, "order", g, base, s, n)
  BY FoldExists
<1>4. P(h)
  <2>1. \A T \in SUBSET DOMAIN s : h[T] = IF T = {} THEN base ELSE Op(h[T \ {Max(T)}], s[Max(T)])
    BY <1>2, <1>3, Zenon DEF IsFold
  <2>2. h = [T \in SUBSET DOMAIN s |-> h[T]]
    BY <1>3, Zenon DEF IsFold
  <2> QED BY <2>1, <2>2, Zenon
<1>5. P(f)
  <2> HIDE DEF P
  <2> QED BY <1>4
<1> HIDE DEF f
<1>6. IsFold(f, "order", g, base, s, n)
  <2>1. \A T \in SUBSET (1 .. n) : f[T] = IF T = {} THEN base ELSE Op(f[T \ {Max(T)}], s[Max(T)])
    BY <1>5, Zenon
  <2>2. f = [T \in SUBSET (1 .. n) |-> f[T]]
    BY <1>5, <2>1, Zenon
  <2>3. {} \in SUBSET (1 .. n)
    OBVIOUS
  <2>4. f[{}] = base
    BY <2>1, <2>3, Zenon
  <2>5. ASSUME NEW T \in SUBSET (1 .. n), T # {}
        PROVE  f[T] = Turn("order", g, f[T \ {Max(T)}], s[Max(T)])
    BY <1>2, <2>1, <2>5, Zenon
  <2> QED BY <2>2, <2>4, <2>5, Zenon DEF IsFold
<1>7. PICK p : Stepwise(p, "order", g, base, s) /\ p[n] = f[1 .. n]
  BY <1>6, FoldSteps
<1> QED
  BY <1>1, <1>7

(* Binding the operands of a task is a walk.                                *)
AllOperands(bound, g, ranges, operands) ==
  FoldLeft(LAMBDA p, o : IF p.threw # "no" THEN p ELSE BindOperand(p, g, ranges, o), bound, operands)

LEMMA OperandFold ==
  ASSUME NEW base, NEW s, Len(s) \in Nat, DOMAIN s = 1 .. Len(s), NEW g, NEW ranges
  PROVE  \E p : Stepwise(p, "operand", <<g, ranges>>, base, s) /\ AllOperands(base, g, ranges, s) = p[Len(s)]
<1> DEFINE n == Len(s)
           Op(e, x) == WithOperand(e, g, ranges, x)
           P(h) == h = [T \in SUBSET DOMAIN s |-> IF T = {} THEN base ELSE Op(h[T \ {Max(T)}], s[Max(T)])]
           f == CHOOSE h : P(h)
<1>1. AllOperands(base, g, ranges, s) = f[DOMAIN s]
  BY DEF AllOperands, FoldLeft, MapThenFoldSet, WithOperand
<1>2. ASSUME NEW h, NEW T PROVE Turn("operand", <<g, ranges>>, h[T \ {Max(T)}], s[Max(T)]) = Op(h[T \ {Max(T)}], s[Max(T)])
  BY DEF Turn, WithOperand
<1> HIDE DEF Op
<1>3. PICK h : IsFold(h, "operand", <<g, ranges>>, base, s, n)
  BY FoldExists
<1>4. P(h)
  <2>1. \A T \in SUBSET DOMAIN s : h[T] = IF T = {} THEN base ELSE Op(h[T \ {Max(T)}], s[Max(T)])
    BY <1>2, <1>3, Zenon DEF IsFold
  <2>2. h = [T \in SUBSET DOMAIN s |-> h[T]]
    BY <1>3, Zenon DEF IsFold
  <2> QED BY <2>1, <2>2, Zenon
<1>5. P(f)
  <2> HIDE DEF P
  <2> QED BY <1>4
<1> HIDE DEF f
<1>6. IsFold(f, "operand", <<g, ranges>>, base, s, n)
  <2>1. \A T \in SUBSET (1 .. n) : f[T] = IF T = {} THEN base ELSE Op(f[T \ {Max(T)}], s[Max(T)])
    BY <1>5, Zenon
  <2>2. f = [T \in SUBSET (1 .. n) |-> f[T]]
    BY <1>5, <2>1, Zenon
  <2>3. {} \in SUBSET (1 .. n)
    OBVIOUS
  <2>4. f[{}] = base
    BY <2>1, <2>3, Zenon
  <2>5. ASSUME NEW T \in SUBSET (1 .. n), T # {}
        PROVE  f[T] = Turn("operand", <<g, ranges>>, f[T \ {Max(T)}], s[Max(T)])
    BY <1>2, <2>1, <2>5, Zenon
  <2> QED BY <2>2, <2>4, <2>5, Zenon DEF IsFold
<1>7. PICK p : Stepwise(p, "operand", <<g, ranges>>, base, s) /\ p[n] = f[1 .. n]
  BY <1>6, FoldSteps
<1> QED
  BY <1>1, <1>7

(* Making the tasks is a walk.                                              *)
AllTasks(made, g, ranges, mapping, order) ==
  LET WithTask(p, n) ==
        LET created == create_task(p, g, n, mapping)
        IN  IF created.threw # "no" THEN created ELSE bind_descs(created, g, ranges, n)
  IN  FoldLeft(LAMBDA p, n : IF p.threw # "no" THEN p ELSE WithTask(p, n), made, order)

LEMMA TaskFold ==
  ASSUME NEW base, NEW s, Len(s) \in Nat, DOMAIN s = 1 .. Len(s), NEW g, NEW ranges, NEW mapping
  PROVE  \E p : Stepwise(p, "task", <<g, ranges, mapping>>, base, s) /\ AllTasks(base, g, ranges, mapping, s) = p[Len(s)]
<1> DEFINE n == Len(s)
           Op(e, x) == WithTaskOf(e, g, ranges, mapping, x)
           P(h) == h = [T \in SUBSET DOMAIN s |-> IF T = {} THEN base ELSE Op(h[T \ {Max(T)}], s[Max(T)])]
           f == CHOOSE h : P(h)
<1>1. AllTasks(base, g, ranges, mapping, s) = f[DOMAIN s]
  BY DEF AllTasks, FoldLeft, MapThenFoldSet, WithTaskOf
<1>2. ASSUME NEW h, NEW T PROVE Turn("task", <<g, ranges, mapping>>, h[T \ {Max(T)}], s[Max(T)]) = Op(h[T \ {Max(T)}], s[Max(T)])
  BY DEF Turn, WithTaskOf
<1> HIDE DEF Op
<1>3. PICK h : IsFold(h, "task", <<g, ranges, mapping>>, base, s, n)
  BY FoldExists
<1>4. P(h)
  <2>1. \A T \in SUBSET DOMAIN s : h[T] = IF T = {} THEN base ELSE Op(h[T \ {Max(T)}], s[Max(T)])
    BY <1>2, <1>3, Zenon DEF IsFold
  <2>2. h = [T \in SUBSET DOMAIN s |-> h[T]]
    BY <1>3, Zenon DEF IsFold
  <2> QED BY <2>1, <2>2, Zenon
<1>5. P(f)
  <2> HIDE DEF P
  <2> QED BY <1>4
<1> HIDE DEF f
<1>6. IsFold(f, "task", <<g, ranges, mapping>>, base, s, n)
  <2>1. \A T \in SUBSET (1 .. n) : f[T] = IF T = {} THEN base ELSE Op(f[T \ {Max(T)}], s[Max(T)])
    BY <1>5, Zenon
  <2>2. f = [T \in SUBSET (1 .. n) |-> f[T]]
    BY <1>5, <2>1, Zenon
  <2>3. {} \in SUBSET (1 .. n)
    OBVIOUS
  <2>4. f[{}] = base
    BY <2>1, <2>3, Zenon
  <2>5. ASSUME NEW T \in SUBSET (1 .. n), T # {}
        PROVE  f[T] = Turn("task", <<g, ranges, mapping>>, f[T \ {Max(T)}], s[Max(T)])
    BY <1>2, <2>1, <2>5, Zenon
  <2> QED BY <2>2, <2>4, <2>5, Zenon DEF IsFold
<1>7. PICK p : Stepwise(p, "task", <<g, ranges, mapping>>, base, s) /\ p[n] = f[1 .. n]
  BY <1>6, FoldSteps
<1> QED
  BY <1>1, <1>7

(* The search from the inputs is a walk.                                    *)
AllSpread(g, constant, start, infos) ==
  FoldLeft(LAMBDA found, t : found \cup UNION {NextTensors(g, k) : k \in found \ constant}, start, infos)

LEMMA ReachFold ==
  ASSUME NEW base, NEW s, Len(s) \in Nat, DOMAIN s = 1 .. Len(s), NEW g, NEW constant
  PROVE  \E p : Stepwise(p, "reach", <<g, constant>>, base, s) /\ AllSpread(g, constant, base, s) = p[Len(s)]
<1> DEFINE n == Len(s)
           Op(e, x) == Spread(g, constant, e)
           P(h) == h = [T \in SUBSET DOMAIN s |-> IF T = {} THEN base ELSE Op(h[T \ {Max(T)}], s[Max(T)])]
           f == CHOOSE h : P(h)
<1>1. AllSpread(g, constant, base, s) = f[DOMAIN s]
  BY DEF AllSpread, FoldLeft, MapThenFoldSet, Spread
<1>2. ASSUME NEW h, NEW T PROVE Turn("reach", <<g, constant>>, h[T \ {Max(T)}], s[Max(T)]) = Op(h[T \ {Max(T)}], s[Max(T)])
  BY DEF Turn, Spread
<1> HIDE DEF Op
<1>3. PICK h : IsFold(h, "reach", <<g, constant>>, base, s, n)
  BY FoldExists
<1>4. P(h)
  <2>1. \A T \in SUBSET DOMAIN s : h[T] = IF T = {} THEN base ELSE Op(h[T \ {Max(T)}], s[Max(T)])
    BY <1>2, <1>3, Zenon DEF IsFold
  <2>2. h = [T \in SUBSET DOMAIN s |-> h[T]]
    BY <1>3, Zenon DEF IsFold
  <2> QED BY <2>1, <2>2, Zenon
<1>5. P(f)
  <2> HIDE DEF P
  <2> QED BY <1>4
<1> HIDE DEF f
<1>6. IsFold(f, "reach", <<g, constant>>, base, s, n)
  <2>1. \A T \in SUBSET (1 .. n) : f[T] = IF T = {} THEN base ELSE Op(f[T \ {Max(T)}], s[Max(T)])
    BY <1>5, Zenon
  <2>2. f = [T \in SUBSET (1 .. n) |-> f[T]]
    BY <1>5, <2>1, Zenon
  <2>3. {} \in SUBSET (1 .. n)
    OBVIOUS
  <2>4. f[{}] = base
    BY <2>1, <2>3, Zenon
  <2>5. ASSUME NEW T \in SUBSET (1 .. n), T # {}
        PROVE  f[T] = Turn("reach", <<g, constant>>, f[T \ {Max(T)}], s[Max(T)])
    BY <1>2, <2>1, <2>5, Zenon
  <2> QED BY <2>2, <2>4, <2>5, Zenon DEF IsFold
<1>7. PICK p : Stepwise(p, "reach", <<g, constant>>, base, s) /\ p[n] = f[1 .. n]
  BY <1>6, FoldSteps
<1> QED
  BY <1>1, <1>7

-----------------------------------------------------------------------------
(* Orders.                                                                  *)

(* d nodes, none of them twice, each after those whose outputs it reads.    *)
IsOrder(g, order, d) ==
  /\ IsSeq(order) /\ Len(order) = d
  /\ \A i \in 1 .. d : order[i] \in DOMAIN g.nodes
  /\ \A i, j \in 1 .. d : order[i] = order[j] => i = j
  /\ \A i \in 1 .. d, m \in DOMAIN g.nodes :
       order[i] \in ConsumersOf(g, m) => \E j \in 1 .. d : j < i /\ order[j] = m

LEMMA OrderLonger ==
  ASSUME NEW g, NEW d \in Nat, NEW order, IsOrder(g, order, d), NEW n \in DOMAIN g.nodes,
         n \notin Range(order), \A m \in DOMAIN g.nodes : n \in ConsumersOf(g, m) => m \in Range(order)
  PROVE  IsOrder(g, Append(order, n), d + 1)
<1> DEFINE a == Append(order, n)
<1>1. /\ IsSeq(a) /\ Len(a) = d + 1 /\ \A k \in 1 .. d : a[k] = order[k]
      /\ a[d + 1] = n
  BY AppendIs DEF IsOrder
<1>2. DOMAIN order = 1 .. d
  BY SeqIs DEF IsOrder
<1>3. \A m : m \in Range(order) <=> \E j \in 1 .. d : order[j] = m
  BY <1>2 DEF Range
<1> HIDE DEF a
<1>4. \A k \in 1 .. d + 1 : (k \in 1 .. d /\ k < d + 1 /\ k # d + 1) \/ k = d + 1
  OBVIOUS
<1>5. \A k \in 1 .. d : k \in 1 .. d + 1 /\ k < d + 1
  OBVIOUS
<1>6. \A i \in 1 .. d + 1 : a[i] \in DOMAIN g.nodes
  BY <1>1, <1>4 DEF IsOrder
<1>7. ASSUME NEW i \in 1 .. d + 1, NEW j \in 1 .. d + 1, a[i] = a[j]
      PROVE  i = j
  <2>1. CASE i \in 1 .. d /\ j \in 1 .. d
    BY <1>1, <1>7, <2>1 DEF IsOrder
  <2>2. CASE i = d + 1 /\ j \in 1 .. d
    BY <1>1, <1>3, <1>7, <2>2
  <2>3. CASE i \in 1 .. d /\ j = d + 1
    BY <1>1, <1>3, <1>7, <2>3
  <2> QED BY <1>4, <2>1, <2>2, <2>3
<1>8. ASSUME NEW i \in 1 .. d + 1, NEW m \in DOMAIN g.nodes, a[i] \in ConsumersOf(g, m)
      PROVE  \E j \in 1 .. d + 1 : j < i /\ a[j] = m
  <2>1. CASE i \in 1 .. d
    <3>1. PICK j \in 1 .. d : j < i /\ order[j] = m
      BY <1>1, <1>8, <2>1 DEF IsOrder
    <3> QED BY <1>1, <1>5, <3>1
  <2>2. CASE i = d + 1
    <3>1. PICK j \in 1 .. d : order[j] = m
      BY <1>1, <1>3, <1>8, <2>2
    <3> QED BY <1>1, <1>5, <2>2, <3>1
  <2> QED BY <1>4, <2>1, <2>2
<1> QED BY <1>1, <1>6, <1>7, <1>8 DEF a, IsOrder

LEMMA OrdersAre ==
  ASSUME NEW g, Whole(g), NEW order \in TopologicalOrders(g)
  PROVE  IsOrder(g, order, Len(g.nodes))
<1> DEFINE N == Len(g.nodes)
<1>1. N \in Nat /\ DOMAIN g.nodes = 1 .. N
  BY SeqIs DEF Whole, IsGraph
<1>2. TopologicalOrders(g) = AllLonger(g, {<<>>}, g.nodes)
  BY Zenon DEF TopologicalOrders, AllLonger
<1>3. PICK p : Stepwise(p, "order", g, {<<>>}, g.nodes) /\ AllLonger(g, {<<>>}, g.nodes) = p[N]
  BY <1>1, OrderFold
<1> DEFINE S == {d \in 0 .. N : \A o \in p[d] : IsOrder(g, o, d)}
<1>4. 0 \in S
  <2>1. p[0] = {<<>>}
    BY <1>3 DEF Stepwise
  <2>2. IsOrder(g, <<>>, 0)
    BY EmptyIs DEF IsOrder
  <2> QED BY <1>1, <2>1, <2>2
<1>5. ASSUME NEW d \in 1 .. N, d - 1 \in S PROVE d \in S
  <2>1. p[d] = Longer(g, p[d - 1])
    BY <1>3, Zenon DEF Stepwise, Turn
  <2>2. d - 1 \in Nat /\ (d - 1) + 1 = d /\ d \in 0 .. N
    BY <1>1
  <2>3. ASSUME NEW o \in p[d] PROVE IsOrder(g, o, d)
    <3>1. PICK q \in p[d - 1], n \in DOMAIN g.nodes :
            /\ o = Append(q, n) /\ n \notin Range(q)
            /\ \A m \in DOMAIN g.nodes : n \in ConsumersOf(g, m) => m \in Range(q)
      BY <2>1 DEF Longer, Ids
    <3>2. IsOrder(g, q, d - 1)
      BY <1>5
    <3>3. IsOrder(g, Append(q, n), (d - 1) + 1)
      BY <2>2, <3>1, <3>2, OrderLonger
    <3> QED BY <2>2, <3>1, <3>3
  <2> QED BY <2>2, <2>3
<1> HIDE DEF S
<1>6. \A d \in 0 .. N : d \in S
  BY <1>1, <1>4, <1>5, Upwards
<1>7. N \in 0 .. N
  BY <1>1
<1> QED BY <1>2, <1>3, <1>6, <1>7 DEF S

(* All nodes are in the order, at one place each.                           *)
LEMMA OrderWhole ==
  ASSUME NEW g, NEW N \in Nat, DOMAIN g.nodes = 1 .. N, NEW order, IsOrder(g, order, N)
  PROVE  /\ DOMAIN order = 1 .. N /\ Range(order) = 1 .. N
         /\ \A n \in 1 .. N : \E i \in 1 .. N : order[i] = n
<1> DEFINE T == 1 .. N
<1>1. IsFiniteSet(T)
  <2>1. 1 \in Int /\ N \in Int
    OBVIOUS
  <2>2. IsFiniteSet(1 .. N)
    BY <2>1, FS_Interval
  <2> QED BY <2>2
<1>2. DOMAIN order = T /\ order = [i \in T |-> order[i]]
  BY SeqIs, Zenon DEF IsOrder
<1>3. /\ \A i \in T : order[i] \in T
      /\ \A i, j \in T : order[i] = order[j] => i = j
  BY DEF IsOrder
<1> HIDE DEF T
<1>4. order \in Injection(T, T)
  BY <1>2, <1>3 DEF Injection, IsInjective
<1>5. order \in Surjection(T, T)
  BY <1>1, <1>4, FS_Injection
<1>6. \A n \in T : \E i \in T : order[i] = n
  BY <1>5 DEF Surjection
<1>7. Range(order) = T
  BY <1>2, <1>3, <1>6 DEF Range
<1> QED BY <1>2, <1>6, <1>7 DEF T

-----------------------------------------------------------------------------
(* Binding the operands of a task.                                          *)

IsPlanRecord(p) ==
  p = [tasks |-> p.tasks, tensor_descs |-> p.tensor_descs, tensor_dependence |-> p.tensor_dependence,
       guessed |-> p.guessed, input_infos |-> p.input_infos, output_infos |-> p.output_infos,
       plan_config |-> p.plan_config, threw |-> p.threw]

PlanOf(tasks, tensor_descs, tensor_dependence, guessed, input_infos, output_infos, plan_config, threw) ==
  [tasks |-> tasks, tensor_descs |-> tensor_descs, tensor_dependence |-> tensor_dependence,
   guessed |-> guessed, input_infos |-> input_infos, output_infos |-> output_infos,
   plan_config |-> plan_config, threw |-> threw]

LEMMA PlanOfIs ==
  ASSUME NEW a, NEW b, NEW c, NEW d, NEW e, NEW f, NEW h, NEW w
  PROVE  LET p == PlanOf(a, b, c, d, e, f, h, w)
         IN  /\ IsPlanRecord(p)
             /\ p.tasks = a /\ p.tensor_descs = b /\ p.tensor_dependence = c /\ p.guessed = d
             /\ p.input_infos = e /\ p.output_infos = f /\ p.plan_config = h /\ p.threw = w
BY DEF PlanOf, IsPlanRecord

(* A plan in which only descriptions and inputs differ.                     *)
Binding(p, descs_, infos) ==
  PlanOf(p.tasks, descs_, p.tensor_dependence, p.guessed, infos, p.output_infos, p.plan_config, p.threw)

LEMMA BindingIs ==
  ASSUME NEW p, IsPlanRecord(p), NEW D, NEW I
  PROVE  /\ [p EXCEPT !.tensor_descs = D] = Binding(p, D, p.input_infos)
         /\ [[p EXCEPT !.tensor_descs = D] EXCEPT !.input_infos = I] = Binding(p, D, I)
         /\ p = Binding(p, p.tensor_descs, p.input_infos)
<1>1. /\ \A X : [p EXCEPT !.tensor_descs = X] = Binding(p, X, p.input_infos)
      /\ \A X : [p EXCEPT !.input_infos = X] = Binding(p, p.tensor_descs, X)
  BY DEF IsPlanRecord, Binding, PlanOf
<1>2. p = Binding(p, p.tensor_descs, p.input_infos)
  BY Zenon DEF IsPlanRecord, Binding, PlanOf
<1> DEFINE q == [p EXCEPT !.tensor_descs = D]
<1>3. q = Binding(p, D, p.input_infos)
  BY <1>1
<1>4. /\ IsPlanRecord(q) /\ q.tasks = p.tasks /\ q.tensor_descs = D
      /\ q.tensor_dependence = p.tensor_dependence /\ q.guessed = p.guessed
      /\ q.input_infos = p.input_infos /\ q.output_infos = p.output_infos
      /\ q.plan_config = p.plan_config /\ q.threw = p.threw
  <2> HIDE DEF q
  <2>1. q = PlanOf(p.tasks, D, p.tensor_dependence, p.guessed, p.input_infos, p.output_infos, p.plan_config, p.threw)
    BY <1>3, Zenon DEF Binding
  <2> QED BY <2>1, PlanOfIs
<1> HIDE DEF q
<1>5. [q EXCEPT !.input_infos = I] = Binding(q, q.tensor_descs, I)
  BY <1>4 DEF IsPlanRecord, Binding, PlanOf
<1>6. Binding(q, q.tensor_descs, I) = Binding(p, D, I)
  BY <1>4, Zenon DEF Binding
<1> QED BY <1>1, <1>2, <1>5, <1>6 DEF q

IsInputTensor(g, t) ==
  g.tensor_infos[t].producer_node = None /\ g.tensor_infos[t].name \in g.input_names

Inputs(g, order, i) == g.nodes[order[i]].input_tensors
Outputs(g, order, i) == g.nodes[order[i]].output_tensors

(* Where a tensor is an operand, up to the e-th operand of the d-th task.   *)
Places(g, order, d, e, t) ==
  {io \in [task_id : 1 .. d, io_id : 1 .. 16] :
     /\ io.io_id \in DOMAIN Inputs(g, order, io.task_id)
     /\ Inputs(g, order, io.task_id)[io.io_id] = t
     /\ io.task_id < d \/ io.io_id <= e}

InputsBound(g, order, infos, d, e) ==
  /\ \A name \in DOMAIN infos :
       /\ name \in g.input_names /\ infos[name].desc_id = g.tensor_name_to_idx[name]
       /\ Named(g, name).producer_node = None
       /\ IsSeq(infos[name].ios) /\ IsInjective(infos[name].ios)
       /\ Range(infos[name].ios) = Places(g, order, d, e, g.tensor_name_to_idx[name])
  /\ \A t \in DOMAIN g.tensor_infos :
       IsInputTensor(g, t) /\ Places(g, order, d, e, t) # {} => g.tensor_infos[t].name \in DOMAIN infos

DescsBound(g, order, described, d, e) ==
  /\ \A i \in 1 .. d : i < d => Range(Outputs(g, order, i)) \subseteq described
  /\ \A k \in 1 .. e :
       k \in DOMAIN Inputs(g, order, d) /\ g.tensor_infos[Inputs(g, order, d)[k]].producer_node = None
         => Inputs(g, order, d)[k] \in described

LEMMA PlacesStep ==
  ASSUME NEW g, NEW order, NEW d \in Nat, d # 0, NEW k \in 1 .. 16, k \in DOMAIN Inputs(g, order, d), NEW t
  PROVE  /\ Places(g, order, d, k, t)
              = Places(g, order, d, k - 1, t) \cup (IF Inputs(g, order, d)[k] = t THEN {TaskIO(d, k)} ELSE {})
         /\ TaskIO(d, k) \notin Places(g, order, d, k - 1, t)
<1> DEFINE io == TaskIO(d, k)
<1>1. io \in [task_id : 1 .. d, io_id : 1 .. 16] /\ io.task_id = d /\ io.io_id = k
  BY DEF TaskIO
<1>2. \A x \in [task_id : 1 .. d, io_id : 1 .. 16] :
        /\ x.task_id \in 1 .. d /\ x.io_id \in 1 .. 16
        /\ x.task_id = d /\ x.io_id = k => x = io
  BY DEF TaskIO
<1> HIDE DEF io
<1>3. \A i \in 1 .. d, j \in 1 .. 16 :
        (i < d \/ j <= k) <=> (i < d \/ j <= k - 1 \/ (i = d /\ j = k))
  OBVIOUS
<1>4. ~(d < d) /\ ~(k <= k - 1) /\ k <= k
  OBVIOUS
<1>5. io \notin Places(g, order, d, k - 1, t)
  BY <1>1, <1>4 DEF Places
<1>6. ASSUME NEW x \in [task_id : 1 .. d, io_id : 1 .. 16]
      PROVE  x \in Places(g, order, d, k, t) <=>
               (x \in Places(g, order, d, k - 1, t) \/ (Inputs(g, order, d)[k] = t /\ x = io))
  <2>1. x \in Places(g, order, d, k, t) <=>
          /\ x.io_id \in DOMAIN Inputs(g, order, x.task_id)
          /\ Inputs(g, order, x.task_id)[x.io_id] = t
          /\ x.task_id < d \/ x.io_id <= k
    BY DEF Places
  <2>2. x \in Places(g, order, d, k - 1, t) <=>
          /\ x.io_id \in DOMAIN Inputs(g, order, x.task_id)
          /\ Inputs(g, order, x.task_id)[x.io_id] = t
          /\ x.task_id < d \/ x.io_id <= k - 1
    BY DEF Places
  <2>3. (x.task_id < d \/ x.io_id <= k) <=>
          (x.task_id < d \/ x.io_id <= k - 1 \/ (x.task_id = d /\ x.io_id = k))
    BY <1>2, <1>3
  <2>4. (x.task_id = d /\ x.io_id = k) <=> x = io
    BY <1>1, <1>2
  <2>5. x = io => /\ x.io_id \in DOMAIN Inputs(g, order, x.task_id)
                  /\ Inputs(g, order, x.task_id)[x.io_id] = Inputs(g, order, d)[k]
    BY <1>1
  <2> QED BY <2>1, <2>2, <2>3, <2>4, <2>5
<1>7. /\ Places(g, order, d, k, t) \subseteq [task_id : 1 .. d, io_id : 1 .. 16]
      /\ Places(g, order, d, k - 1, t) \subseteq [task_id : 1 .. d, io_id : 1 .. 16]
  BY DEF Places
<1> QED BY <1>1, <1>5, <1>6, <1>7 DEF io

LEMMA BindingBoth ==
  ASSUME NEW p, IsPlanRecord(p)
  PROVE  \A D, I : [[p EXCEPT !.tensor_descs = D] EXCEPT !.input_infos = I] = Binding(p, D, I)
<1> TAKE D, I
<1> DEFINE q == [p EXCEPT !.tensor_descs = D]
<1>1. q = Binding(p, D, p.input_infos)
  BY DEF IsPlanRecord, Binding, PlanOf
<1>2. q = PlanOf(p.tasks, D, p.tensor_dependence, p.guessed, p.input_infos, p.output_infos, p.plan_config, p.threw)
  BY <1>1, Zenon DEF Binding
<1> HIDE DEF q
<1>3. /\ IsPlanRecord(q) /\ q.tasks = p.tasks /\ q.tensor_descs = D
      /\ q.tensor_dependence = p.tensor_dependence /\ q.guessed = p.guessed
      /\ q.input_infos = p.input_infos /\ q.output_infos = p.output_infos
      /\ q.plan_config = p.plan_config /\ q.threw = p.threw
  BY <1>2, PlanOfIs
<1>4. [q EXCEPT !.input_infos = I] = Binding(q, q.tensor_descs, I)
  BY <1>3 DEF IsPlanRecord, Binding, PlanOf
<1>5. Binding(q, q.tensor_descs, I) = Binding(p, D, I)
  BY <1>3, Zenon DEF Binding
<1>6. [q EXCEPT !.input_infos = I] = Binding(p, D, I)
  BY <1>4, <1>5, Zenon
<1> QED BY <1>6, Zenon DEF q

(* What binding one operand makes of a plan, unless it throws.              *)
LEMMA BindOperandIs ==
  ASSUME NEW p, IsPlanRecord(p), p.threw = "no", NEW g, NEW ranges, NEW t, NEW k,
         BindOperand(p, g, ranges, [id |-> t, io_id |-> k]).threw = "no"
  PROVE  LET q == BindOperand(p, g, ranges, [id |-> t, io_id |-> k])
             info == g.tensor_infos[t]
         IN  \/ info.producer_node # None /\ q = p
             \/ /\ IsInputTensor(g, t)
                /\ \E x : q = Binding(p, Emplaced(p.tensor_descs, t, x),
                                      WithInput(p.input_infos, info.name, t, TaskIO(Len(p.tasks), k)))
             \/ /\ info.producer_node = None /\ ~IsInputTensor(g, t)
                /\ \E x : q = Binding(p, Emplaced(p.tensor_descs, t, x), p.input_infos)
<1> DEFINE operand == [id |-> t, io_id |-> k]
           q == BindOperand(p, g, ranges, operand)
           info == g.tensor_infos[t]
           io == TaskIO(Len(p.tasks), k)
           D(shape) == [p EXCEPT !.tensor_descs = Emplaced(@, t, Describe(info.dtype, shape))]
           E(shape) == [D(shape) EXCEPT !.input_infos = WithInput(@, info.name, t, io)]
           threw(v) == [p EXCEPT !.threw = v]
<1>1. operand.id = t /\ operand.io_id = k
  OBVIOUS
<1> HIDE DEF operand
<1>2. \/ info.producer_node # None /\ q = p
      \/ /\ info.producer_node = None /\ info.name \in g.input_names
         /\ q = threw("input") \/ q = E(ranges[info.name].max_shape)
      \/ /\ info.producer_node = None /\ info.name \notin g.input_names
         /\ q = threw("shape") \/ q = D(info.shape)
  <2>1. q = CASE info.producer_node # None -> p
              [] info.producer_node = None /\ info.name \in g.input_names ->
                   (IF info.name \notin DOMAIN ranges THEN threw("input") ELSE E(ranges[info.name].max_shape))
              [] OTHER ->
                   (IF \E j \in DOMAIN info.shape : info.shape[j] <= 0 THEN threw("shape") ELSE D(info.shape))
    BY <1>1, Zenon DEF BindOperand
  <2> HIDE DEF q, info, D, E, threw
  <2>2. CASE info.producer_node # None
    BY <2>1, <2>2
  <2>3. CASE info.producer_node = None /\ info.name \in g.input_names
    BY <2>1, <2>3
  <2>4. CASE info.producer_node = None /\ info.name \notin g.input_names
    BY <2>1, <2>4
  <2> QED BY <2>2, <2>3, <2>4
<1>3. ASSUME NEW v PROVE threw(v).threw = v
  BY DEF IsPlanRecord
<1>4. "input" # "no" /\ "shape" # "no"
  OBVIOUS
<1>5. q # threw("input") /\ q # threw("shape")
  <2>1. q.threw = "no"
    BY DEF operand
  <2> HIDE DEF q, threw
  <2> QED BY <1>3, <1>4, <2>1
<1>6. ASSUME NEW shape
      PROVE  D(shape) = Binding(p, Emplaced(p.tensor_descs, t, Describe(info.dtype, shape)), p.input_infos)
  BY BindingIs, Zenon
<1>7. ASSUME NEW shape
      PROVE  E(shape) = Binding(p, Emplaced(p.tensor_descs, t, Describe(info.dtype, shape)),
                                WithInput(p.input_infos, info.name, t, io))
  <2> DEFINE X == Emplaced(p.tensor_descs, t, Describe(info.dtype, shape))
  <2>1. D(shape) = [p EXCEPT !.tensor_descs = X]
    BY Zenon
  <2> HIDE DEF X
  <2>2. [p EXCEPT !.tensor_descs = X].input_infos = p.input_infos
    <3>1. [p EXCEPT !.tensor_descs = X] = Binding(p, X, p.input_infos)
      BY BindingIs
    <3> DEFINE q1 == [p EXCEPT !.tensor_descs = X]
    <3> HIDE DEF q1
    <3>2. q1 = PlanOf(p.tasks, X, p.tensor_dependence, p.guessed, p.input_infos, p.output_infos, p.plan_config, p.threw)
      BY <3>1, Zenon DEF Binding, q1
    <3>3. q1.input_infos = p.input_infos
      BY <3>2, PlanOfIs
    <3> QED BY <3>3 DEF q1
  <2> DEFINE I == WithInput(p.input_infos, info.name, t, io)
  <2>3. E(shape) = [[p EXCEPT !.tensor_descs = X] EXCEPT !.input_infos = I]
    BY <2>1, <2>2, Zenon
  <2> HIDE DEF I, E, D
  <2>4. [[p EXCEPT !.tensor_descs = X] EXCEPT !.input_infos = I] = Binding(p, X, I)
    BY BindingBoth, Zenon
  <2> QED BY <2>3, <2>4, Zenon DEF X, I
<1> HIDE DEF q, D, E, threw
<1>8. q = BindOperand(p, g, ranges, [id |-> t, io_id |-> k])
  BY DEF q, operand
<1> QED BY <1>2, <1>5, <1>6, <1>7, <1>8, Zenon DEF IsInputTensor

(* The e-th operand of the d-th task is bound, q is what it makes of p.      *)
OperandTurn(g, order, d, k, p, ranges, q) ==
  /\ Whole(g) /\ d \in Nat /\ d # 0 /\ k \in 1 .. 16
  /\ IsSeq(Inputs(g, order, d)) /\ k \in DOMAIN Inputs(g, order, d)
  /\ Inputs(g, order, d)[k] \in DOMAIN g.tensor_infos
  /\ IsPlanRecord(p) /\ p.threw = "no" /\ Len(p.tasks) = d
  /\ InputsBound(g, order, p.input_infos, d, k - 1)
  /\ DescsBound(g, order, DOMAIN p.tensor_descs, d, k - 1)
  /\ q = BindOperand(p, g, ranges, [id |-> Inputs(g, order, d)[k], io_id |-> k])
  /\ q.threw = "no"

(* Binding leaves the rest of a plan alone.                                 *)
OnlyBound(p, q) ==
  /\ IsPlanRecord(q)
  /\ q.tasks = p.tasks /\ q.tensor_dependence = p.tensor_dependence /\ q.guessed = p.guessed
  /\ q.output_infos = p.output_infos

LEMMA OperandBound ==
  ASSUME NEW g, NEW order, NEW d, NEW k, NEW p, NEW ranges, NEW q,
         OperandTurn(g, order, d, k, p, ranges, q)
  PROVE  /\ OnlyBound(p, q)
         /\ InputsBound(g, order, q.input_infos, d, k)
         /\ DescsBound(g, order, DOMAIN q.tensor_descs, d, k)
<1> USE DEF OnlyBound
<1>0. /\ Whole(g) /\ d \in Nat /\ d # 0 /\ k \in 1 .. 16
      /\ IsSeq(Inputs(g, order, d)) /\ k \in DOMAIN Inputs(g, order, d)
      /\ Inputs(g, order, d)[k] \in DOMAIN g.tensor_infos
      /\ IsPlanRecord(p) /\ p.threw = "no" /\ Len(p.tasks) = d
      /\ InputsBound(g, order, p.input_infos, d, k - 1)
      /\ DescsBound(g, order, DOMAIN p.tensor_descs, d, k - 1)
      /\ q = BindOperand(p, g, ranges, [id |-> Inputs(g, order, d)[k], io_id |-> k])
      /\ q.threw = "no"
  BY DEF OperandTurn
<1> USE <1>0
<1> DEFINE t == Inputs(g, order, d)[k]
           info == g.tensor_infos[t]
           io == TaskIO(d, k)
           P(e, u) == Places(g, order, d, e, u)
<1>1. /\ P(k, t) = P(k - 1, t) \cup {io} /\ io \notin P(k - 1, t)
      /\ \A u : u # t => P(k, u) = P(k - 1, u)
  <2>1. \A u : /\ P(k, u) = P(k - 1, u) \cup (IF t = u THEN {io} ELSE {})
               /\ io \notin P(k - 1, u)
    BY PlacesStep
  <2> HIDE DEF P, t, io
  <2> QED BY <2>1
<1>2. /\ g.tensor_name_to_idx[info.name] = t
      /\ \A name \in DOMAIN g.tensor_name_to_idx :
           g.tensor_infos[g.tensor_name_to_idx[name]].name = name
      /\ g.input_names \subseteq DOMAIN g.tensor_name_to_idx
  BY DEF Whole, NamesAgree
<1> HIDE DEF t, P
<1>3. \/ info.producer_node # None /\ q = p
      \/ /\ IsInputTensor(g, t)
         /\ \E x : q = Binding(p, Emplaced(p.tensor_descs, t, x), WithInput(p.input_infos, info.name, t, io))
      \/ /\ info.producer_node = None /\ ~IsInputTensor(g, t)
         /\ \E x : q = Binding(p, Emplaced(p.tensor_descs, t, x), p.input_infos)
  <2>1. p.threw = "no" /\ q.threw = "no" /\ q = BindOperand(p, g, ranges, [id |-> t, io_id |-> k])
    BY Zenon DEF t
  <2>2. LET r == BindOperand(p, g, ranges, [id |-> t, io_id |-> k])
        IN  \/ info.producer_node # None /\ r = p
            \/ /\ IsInputTensor(g, t)
               /\ \E x : r = Binding(p, Emplaced(p.tensor_descs, t, x),
                                     WithInput(p.input_infos, info.name, t, TaskIO(Len(p.tasks), k)))
            \/ /\ info.producer_node = None /\ ~IsInputTensor(g, t)
               /\ \E x : r = Binding(p, Emplaced(p.tensor_descs, t, x), p.input_infos)
    BY <2>1, BindOperandIs
  <2>3. io = TaskIO(Len(p.tasks), k)
    BY Zenon
  <2> HIDE DEF io, info
  <2> QED BY <2>1, <2>2, <2>3, Zenon
<1>4. ASSUME NEW D, NEW I, q = Binding(p, D, I)
      PROVE  /\ IsPlanRecord(q)
             /\ q.tasks = p.tasks /\ q.tensor_dependence = p.tensor_dependence /\ q.guessed = p.guessed
             /\ q.output_infos = p.output_infos /\ q.tensor_descs = D /\ q.input_infos = I
  <2>1. q = PlanOf(p.tasks, D, p.tensor_dependence, p.guessed, I, p.output_infos, p.plan_config, p.threw)
    BY <1>4, Zenon DEF Binding
  <2> QED BY <2>1, PlanOfIs
<1>5. ASSUME NEW D, DOMAIN p.tensor_descs \subseteq D, info.producer_node = None => t \in D
      PROVE  DescsBound(g, order, D, d, k)
  <2>1. \A j \in 1 .. k : j \in 1 .. k - 1 \/ j = k
    OBVIOUS
  <2> QED BY <1>5, <2>1 DEF DescsBound, t
<1>6. ASSUME NEW x PROVE DOMAIN Emplaced(p.tensor_descs, t, x) = DOMAIN p.tensor_descs \cup {t}
  BY DEF Emplaced
<1>7. \A u \in DOMAIN g.tensor_infos : u # t => P(k, u) = P(k - 1, u)
  BY <1>1
<1>8. InputsBound(g, order, p.input_infos, d, k - 1) <=>
        /\ \A name \in DOMAIN p.input_infos :
             /\ name \in g.input_names /\ p.input_infos[name].desc_id = g.tensor_name_to_idx[name]
             /\ Named(g, name).producer_node = None
             /\ IsSeq(p.input_infos[name].ios) /\ IsInjective(p.input_infos[name].ios)
             /\ Range(p.input_infos[name].ios) = P(k - 1, g.tensor_name_to_idx[name])
        /\ \A u \in DOMAIN g.tensor_infos :
             IsInputTensor(g, u) /\ P(k - 1, u) # {} => g.tensor_infos[u].name \in DOMAIN p.input_infos
  BY Zenon DEF InputsBound, P
<1>9. \A I : InputsBound(g, order, I, d, k) <=>
        /\ \A name \in DOMAIN I :
             /\ name \in g.input_names /\ I[name].desc_id = g.tensor_name_to_idx[name]
             /\ Named(g, name).producer_node = None
             /\ IsSeq(I[name].ios) /\ IsInjective(I[name].ios)
             /\ Range(I[name].ios) = P(k, g.tensor_name_to_idx[name])
        /\ \A u \in DOMAIN g.tensor_infos :
             IsInputTensor(g, u) /\ P(k, u) # {} => g.tensor_infos[u].name \in DOMAIN I
  BY Zenon DEF InputsBound, P
<1>10. ~IsInputTensor(g, t) => InputsBound(g, order, p.input_infos, d, k)
  <2> SUFFICES ASSUME ~IsInputTensor(g, t) PROVE InputsBound(g, order, p.input_infos, d, k)
    OBVIOUS
  <2>1. \A name \in DOMAIN p.input_infos : g.tensor_name_to_idx[name] # t
    BY <1>2, <1>8 DEF IsInputTensor, Named
  <2> QED BY <1>1, <1>8, <1>9, <2>1
<1>11. CASE info.producer_node # None /\ q = p
  <2>1. InputsBound(g, order, q.input_infos, d, k)
    BY <1>10, <1>11 DEF IsInputTensor
  <2> QED BY <1>5, <1>11, <2>1
<1>12. CASE /\ IsInputTensor(g, t)
            /\ \E x : q = Binding(p, Emplaced(p.tensor_descs, t, x), WithInput(p.input_infos, info.name, t, io))
  <2> DEFINE I == WithInput(p.input_infos, info.name, t, io)
             J == p.input_infos
             ios == IF info.name \in DOMAIN J THEN J[info.name].ios ELSE <<>>
  <2>1. PICK x : q = Binding(p, Emplaced(p.tensor_descs, t, x), I)
    BY <1>12
  <2>2. I = Emplaced(J, info.name, [desc_id |-> t, ios |-> Append(ios, io)])
    BY Zenon DEF WithInput
  <2>3. /\ DOMAIN I = DOMAIN J \cup {info.name}
        /\ I[info.name].desc_id = t /\ I[info.name].ios = Append(ios, io)
        /\ \A name \in DOMAIN J : name # info.name => I[name] = J[name]
    <3> HIDE DEF I, J, ios
    <3> QED BY <2>2 DEF Emplaced
  <2>4. IsSeq(ios) /\ IsInjective(ios) /\ Range(ios) = P(k - 1, t)
    <3>1. CASE info.name \in DOMAIN J
      BY <1>2, <1>8, <3>1
    <3>2. CASE info.name \notin DOMAIN J
      <4>1. P(k - 1, t) = {}
        BY <1>8, <1>12, <3>2 DEF t
      <4>2. ios = <<>>
        BY <3>2
      <4>3. IsInjective(<<>>)
        BY DEF IsInjective
      <4> HIDE DEF ios
      <4> QED BY <4>1, <4>2, <4>3, EmptyIs
    <3> QED BY <3>1, <3>2
  <2> HIDE DEF I, ios
  <2>5. IsSeq(Append(ios, io)) /\ Range(Append(ios, io)) = P(k, t) /\ IsInjective(Append(ios, io))
    <3> DEFINE a == Append(ios, io)
               n == Len(ios)
    <3>1. /\ IsSeq(a) /\ DOMAIN a = 1 .. n + 1 /\ \A j \in 1 .. n : a[j] = ios[j]
          /\ a[n + 1] = io /\ Range(a) = Range(ios) \cup {io}
      BY <2>4, AppendIs
    <3>2. n \in Nat /\ DOMAIN ios = 1 .. n /\ \A j \in 1 .. n : ios[j] \in Range(ios)
      BY <2>4, SeqIs
    <3> HIDE DEF a, n
    <3>3. \A j \in 1 .. n + 1 : j \in 1 .. n \/ j = n + 1
      BY <3>2
    <3>4. \A j \in 1 .. n : ios[j] # io
      BY <1>1, <2>4, <3>2
    <3>5. \A i, j \in 1 .. n : ios[i] = ios[j] => i = j
      BY <2>4, <3>2 DEF IsInjective
    <3>6. \A i, j \in 1 .. n + 1 : a[i] = a[j] => i = j
      BY <3>1, <3>3, <3>4, <3>5
    <3> QED BY <1>1, <2>4, <3>1, <3>6 DEF a, IsInjective
  <2>6. ASSUME NEW name \in DOMAIN I
        PROVE  /\ name \in g.input_names /\ I[name].desc_id = g.tensor_name_to_idx[name]
               /\ Named(g, name).producer_node = None
               /\ IsSeq(I[name].ios) /\ IsInjective(I[name].ios)
               /\ Range(I[name].ios) = P(k, g.tensor_name_to_idx[name])
    <3>1. CASE name = info.name
      BY <1>2, <1>12, <2>3, <2>5, <3>1 DEF IsInputTensor, Named
    <3>2. CASE name # info.name
      <4>1. name \in DOMAIN J /\ I[name] = J[name]
        BY <2>3, <3>2
      <4>2. g.tensor_name_to_idx[name] # t
        BY <1>2, <1>8, <3>2, <4>1
      <4> QED BY <1>1, <1>8, <4>1, <4>2
    <3> QED BY <3>1, <3>2
  <2>7. ASSUME NEW u \in DOMAIN g.tensor_infos, IsInputTensor(g, u), P(k, u) # {}
        PROVE  g.tensor_infos[u].name \in DOMAIN I
    BY <1>1, <1>8, <2>3, <2>7
  <2>8. InputsBound(g, order, I, d, k)
    BY <1>9, <2>6, <2>7
  <2> QED BY <1>4, <1>5, <1>6, <2>1, <2>8
<1>13. CASE /\ info.producer_node = None /\ ~IsInputTensor(g, t)
            /\ \E x : q = Binding(p, Emplaced(p.tensor_descs, t, x), p.input_infos)
  <2>1. PICK x : q = Binding(p, Emplaced(p.tensor_descs, t, x), p.input_infos)
    BY <1>13
  <2>2. q.tensor_descs = Emplaced(p.tensor_descs, t, x) /\ q.input_infos = p.input_infos
    BY <1>4, <2>1
  <2> QED BY <1>4, <1>5, <1>6, <1>10, <1>13, <2>1, <2>2
<1> QED BY <1>3, <1>11, <1>12, <1>13

OperandsOf(ids) == [k \in DOMAIN ids |-> [id |-> ids[k], io_id |-> k]]

(* Binding all operands of a task.                                          *)
LEMMA OperandsBound ==
  ASSUME NEW g, Whole(g), NEW order, NEW d \in Nat, d # 0,
         IsSeq(Inputs(g, order, d)), Len(Inputs(g, order, d)) <= 16,
         Range(Inputs(g, order, d)) \subseteq DOMAIN g.tensor_infos,
         NEW p, IsPlanRecord(p), p.threw = "no", Len(p.tasks) = d, NEW ranges,
         InputsBound(g, order, p.input_infos, d, 0),
         DescsBound(g, order, DOMAIN p.tensor_descs, d, 0),
         NEW q, q = AllOperands(p, g, ranges, OperandsOf(Inputs(g, order, d))), q.threw = "no"
  PROVE  /\ OnlyBound(p, q)
         /\ InputsBound(g, order, q.input_infos, d, Len(Inputs(g, order, d)))
         /\ DescsBound(g, order, DOMAIN q.tensor_descs, d, Len(Inputs(g, order, d)))
<1> DEFINE ids == Inputs(g, order, d)
           L == Len(ids)
           operands == OperandsOf(ids)
           Good(r, e) == /\ OnlyBound(p, r)
                         /\ InputsBound(g, order, r.input_infos, d, e)
                         /\ DescsBound(g, order, DOMAIN r.tensor_descs, d, e)
<1>1. L \in Nat /\ DOMAIN ids = 1 .. L
  BY SeqIs
<1>2. DOMAIN operands = 1 .. L /\ Len(operands) = L
  <2>1. operands = [k \in 1 .. L |-> operands[k]]
    <3>1. DOMAIN operands = 1 .. L
      BY <1>1 DEF OperandsOf
    <3>2. operands = [k \in DOMAIN operands |-> operands[k]]
      BY DEF OperandsOf
    <3> HIDE DEF operands
    <3> QED BY <3>1, <3>2
  <2> HIDE DEF operands
  <2> QED BY <1>1, <2>1, ListIs
<1>3. PICK w : /\ Stepwise(w, "operand", <<g, ranges>>, p, operands)
               /\ AllOperands(p, g, ranges, operands) = w[L]
  <2> HIDE DEF operands
  <2> QED BY <1>1, <1>2, OperandFold
<1> DEFINE S == {e \in 0 .. L : w[e].threw = "no" => Good(w[e], e)}
<1>4. 0 \in S
  <2>1. w[0] = p
    BY <1>3 DEF Stepwise
  <2>2. OnlyBound(p, p)
    BY Zenon DEF OnlyBound
  <2> QED BY <1>1, <2>1, <2>2
<1>5. ASSUME NEW e \in 1 .. L, e - 1 \in S PROVE e \in S
  <2>1. w[e] = WithOperand(w[e - 1], g, ranges, operands[e])
    <3>1. /\ w[e] = Turn("operand", <<g, ranges>>, w[e - 1], operands[e])
          /\ <<g, ranges>>[1] = g /\ <<g, ranges>>[2] = ranges
      BY <1>2, <1>3 DEF Stepwise
    <3> QED BY <3>1, Zenon DEF Turn
  <2>2. operands[e] = [id |-> ids[e], io_id |-> e]
    BY <1>1 DEF OperandsOf
  <2>3. e \in 0 .. L /\ e \in 1 .. 16 /\ e \in DOMAIN ids /\ ids[e] \in DOMAIN g.tensor_infos
    BY <1>1 DEF Range
  <2> SUFFICES ASSUME w[e].threw = "no" PROVE Good(w[e], e)
    BY <2>3
  <2> HIDE DEF operands, Good
  <2>4. w[e - 1].threw = "no" /\ w[e] = BindOperand(w[e - 1], g, ranges, [id |-> ids[e], io_id |-> e])
    BY <2>1, <2>2, Zenon DEF WithOperand
  <2>5. Good(w[e - 1], e - 1)
    BY <1>5, <2>4
  <2> USE DEF Good
  <2>6. Len(w[e - 1].tasks) = d
    BY <2>5, Zenon DEF OnlyBound
  <2>9. w[e] = BindOperand(w[e - 1], g, ranges, [id |-> Inputs(g, order, d)[e], io_id |-> e])
    BY <2>4
  <2> DEFINE r == w[e - 1]
             q1 == w[e]
  <2> HIDE DEF r, q1
  <2>7. /\ OnlyBound(p, r) /\ IsPlanRecord(r) /\ r.threw = "no" /\ Len(r.tasks) = d
        /\ InputsBound(g, order, r.input_infos, d, e - 1)
        /\ DescsBound(g, order, DOMAIN r.tensor_descs, d, e - 1)
        /\ q1.threw = "no" /\ q1 = BindOperand(r, g, ranges, [id |-> Inputs(g, order, d)[e], io_id |-> e])
    <3>1. OnlyBound(p, r) /\ IsPlanRecord(r) /\ InputsBound(g, order, r.input_infos, d, e - 1)
          /\ DescsBound(g, order, DOMAIN r.tensor_descs, d, e - 1)
      BY <2>5, Zenon DEF r, OnlyBound
    <3>2. r.threw = "no" /\ Len(r.tasks) = d /\ q1.threw = "no"
      BY <2>4, <2>6, Zenon DEF r, q1
    <3>3. q1 = BindOperand(r, g, ranges, [id |-> Inputs(g, order, d)[e], io_id |-> e])
      BY <2>9, Zenon DEF r, q1
    <3> QED BY <3>1, <3>2, <3>3, Zenon
  <2>8. /\ OnlyBound(r, q1)
        /\ InputsBound(g, order, q1.input_infos, d, e)
        /\ DescsBound(g, order, DOMAIN q1.tensor_descs, d, e)
    <3>1. e \in 1 .. 16 /\ e \in DOMAIN Inputs(g, order, d) /\ Inputs(g, order, d)[e] \in DOMAIN g.tensor_infos
      BY <2>3, Zenon
    <3> HIDE DEF ids, L, Good, operands
    <3>2. OperandTurn(g, order, d, e, r, ranges, q1)
      BY <3>1, <2>7, Zenon DEF OperandTurn
    <3> QED BY <3>2, OperandBound
  <2>10. OnlyBound(p, q1)
    BY <2>7, <2>8, Zenon DEF OnlyBound
  <2> QED BY <2>8, <2>10, Zenon DEF q1
<1> HIDE DEF S
<1>6. \A e \in 0 .. L : e \in S
  BY <1>1, <1>4, <1>5, Upwards
<1>7. L \in 0 .. L
  BY <1>1
<1> QED BY <1>3, <1>6, <1>7 DEF S

(* What a task reads that some node writes, an earlier task writes.         *)
LEMMA InputsThere ==
  ASSUME NEW g, Whole(g), NEW N \in Nat, DOMAIN g.nodes = 1 .. N, NEW order, IsOrder(g, order, N),
         NEW d \in 1 .. N, NEW described,
         DescsBound(g, order, described, d, Len(Inputs(g, order, d)))
  PROVE  Range(Inputs(g, order, d)) \subseteq described
<1> DEFINE ids == Inputs(g, order, d)
           L == Len(ids)
<1>1. order[d] \in DOMAIN g.nodes
  BY DEF IsOrder
<1>2. IsSeq(ids) /\ Range(ids) \subseteq DOMAIN g.tensor_infos
  BY <1>1 DEF Whole, IsGraph, IsNode, Edges, TouchedBy, Inputs
<1>3. L \in Nat /\ DOMAIN ids = 1 .. L
  BY <1>2, SeqIs
<1>4. ASSUME NEW k \in DOMAIN ids PROVE ids[k] \in described
  <2> DEFINE t == ids[k]
             m == g.tensor_infos[t].producer_node
  <2>1. t \in Range(ids) /\ t \in DOMAIN g.tensor_infos
    BY <1>2 DEF Range
  <2>2. CASE m = None
    BY <1>3, <2>2 DEF DescsBound
  <2>3. CASE m # None
    <3>1. m \in DOMAIN g.nodes
      BY <2>1, <2>3 DEF Whole, Edges
    <3>2. t \in Range(g.nodes[m].output_tensors)
      <4>1. Occurrences(g.nodes[m].output_tensors, t) = 1
        BY <2>1, <3>1 DEF Whole, Edges, Paired
      <4>2. IsSeq(g.nodes[m].output_tensors)
        BY <3>1 DEF Whole, IsGraph, IsNode
      <4> DEFINE outs == g.nodes[m].output_tensors
      <4> HIDE DEF outs, t, m
      <4>3. t \in Range(outs) <=> Occurrences(outs, t) # 0
        BY <4>2, OccurrencesType DEF outs
      <4>4. Occurrences(outs, t) = 1
        BY <4>1, Zenon DEF outs
      <4> QED BY <4>3, <4>4 DEF outs
    <3>3. order[d] \in Range(g.tensor_infos[t].consumer_nodes)
      <4>1. Occurrences(g.tensor_infos[t].consumer_nodes, order[d]) = Occurrences(ids, t)
        BY <1>1, <2>1 DEF Whole, Edges, Paired, Inputs
      <4>2. IsSeq(g.tensor_infos[t].consumer_nodes)
        BY <2>1 DEF Whole, IsGraph, IsInfo
      <4> HIDE DEF ids, t
      <4> QED BY <1>2, <2>1, <4>1, <4>2, OccurrencesType
    <3>4. order[d] \in ConsumersOf(g, m)
      <4> HIDE DEF t
      <4> QED BY <3>2, <3>3 DEF ConsumersOf
    <3>5. PICK j \in 1 .. N : j < d /\ order[j] = m
      BY <3>1, <3>4 DEF IsOrder
    <3>6. j \in 1 .. d
      BY <3>5
    <3> QED BY <3>2, <3>5, <3>6 DEF DescsBound, Outputs
  <2> QED BY <2>2, <2>3
<1> QED BY <1>4 DEF Range

LEMMA PlanWith ==
  ASSUME NEW p, IsPlanRecord(p), NEW X
  PROVE  /\ [p EXCEPT !.tasks = X]
              = PlanOf(X, p.tensor_descs, p.tensor_dependence, p.guessed, p.input_infos, p.output_infos,
                       p.plan_config, p.threw)
         /\ [p EXCEPT !.output_infos = X]
              = PlanOf(p.tasks, p.tensor_descs, p.tensor_dependence, p.guessed, p.input_infos, X,
                       p.plan_config, p.threw)
         /\ [p EXCEPT !.guessed = X]
              = PlanOf(p.tasks, p.tensor_descs, p.tensor_dependence, X, p.input_infos, p.output_infos,
                       p.plan_config, p.threw)
         /\ [p EXCEPT !.tensor_descs = X]
              = PlanOf(p.tasks, X, p.tensor_dependence, p.guessed, p.input_infos, p.output_infos,
                       p.plan_config, p.threw)
         /\ [p EXCEPT !.tensor_dependence = X]
              = PlanOf(p.tasks, p.tensor_descs, X, p.guessed, p.input_infos, p.output_infos,
                       p.plan_config, p.threw)
         /\ [p EXCEPT !.threw = X].threw = X
<1>1. [p EXCEPT !.tasks = X]
        = PlanOf(X, p.tensor_descs, p.tensor_dependence, p.guessed, p.input_infos, p.output_infos,
                 p.plan_config, p.threw)
  BY DEF IsPlanRecord, PlanOf
<1>3. [p EXCEPT !.output_infos = X]
        = PlanOf(p.tasks, p.tensor_descs, p.tensor_dependence, p.guessed, p.input_infos, X,
                 p.plan_config, p.threw)
  BY DEF IsPlanRecord, PlanOf
<1>4. [p EXCEPT !.threw = X].threw = X
  BY DEF IsPlanRecord
<1>5. [p EXCEPT !.guessed = X]
        = PlanOf(p.tasks, p.tensor_descs, p.tensor_dependence, X, p.input_infos, p.output_infos,
                 p.plan_config, p.threw)
  BY DEF IsPlanRecord, PlanOf
<1>6. [p EXCEPT !.tensor_descs = X]
        = PlanOf(p.tasks, X, p.tensor_dependence, p.guessed, p.input_infos, p.output_infos,
                 p.plan_config, p.threw)
  BY DEF IsPlanRecord, PlanOf
<1>7. [p EXCEPT !.tensor_dependence = X]
        = PlanOf(p.tasks, p.tensor_descs, X, p.guessed, p.input_infos, p.output_infos,
                 p.plan_config, p.threw)
  BY DEF IsPlanRecord, PlanOf
<1> QED BY <1>1, <1>3, <1>4, <1>5, <1>6, <1>7

(* The task a node becomes.                                                 *)
TaskOf(g, n, mapping) ==
  [name |-> g.nodes[n].name, param |-> g.nodes[n].param,
   input_descs |-> g.nodes[n].input_tensors, output_descs |-> g.nodes[n].output_tensors,
   predecessors |-> TasksOf(mapping, ProducersOf(g, n)),
   successors |-> TasksOf(mapping, ConsumersOf(g, n))]

LEMMA CreatedIs ==
  ASSUME NEW p, IsPlanRecord(p), NEW g, NEW n, NEW mapping,
         NEW q, q = create_task(p, g, n, mapping), q.threw = "no"
  PROVE  /\ HasItsTensors(g.nodes[n]) /\ IsPlanRecord(q)
         /\ q.tasks = Append(p.tasks, TaskOf(g, n, mapping))
         /\ q.tensor_descs = p.tensor_descs /\ q.tensor_dependence = p.tensor_dependence
         /\ q.guessed = p.guessed /\ q.input_infos = p.input_infos /\ q.output_infos = p.output_infos
<1> DEFINE X == Append(p.tasks, TaskOf(g, n, mapping))
           v == "arity"
<1>1. \/ ~HasItsTensors(g.nodes[n]) /\ q = [p EXCEPT !.threw = v]
      \/ HasItsTensors(g.nodes[n]) /\ q = [p EXCEPT !.tasks = X]
  BY Zenon DEF create_task, TaskOf
<1>2. v # "no"
  OBVIOUS
<1> HIDE DEF X, v
<1>3. HasItsTensors(g.nodes[n]) /\ q = [p EXCEPT !.tasks = X]
  <2>1. [p EXCEPT !.threw = v].threw = v
    BY PlanWith
  <2> QED BY <1>1, <1>2, <2>1, Zenon
<1>4. q = PlanOf(X, p.tensor_descs, p.tensor_dependence, p.guessed, p.input_infos, p.output_infos,
                 p.plan_config, p.threw)
  <2>1. [p EXCEPT !.tasks = X]
         = PlanOf(X, p.tensor_descs, p.tensor_dependence, p.guessed, p.input_infos, p.output_infos,
                 p.plan_config, p.threw)
    BY PlanWith
  <2> QED BY <1>3, <2>1, Zenon
<1>5. /\ IsPlanRecord(q) /\ q.tasks = X
      /\ q.tensor_descs = p.tensor_descs /\ q.tensor_dependence = p.tensor_dependence
      /\ q.guessed = p.guessed /\ q.input_infos = p.input_infos /\ q.output_infos = p.output_infos
  BY <1>4, PlanOfIs
<1> QED BY <1>3, <1>5 DEF X

LEMMA InferredIs ==
  ASSUME NEW p, IsPlanRecord(p), NEW node, Range(node.input_tensors) \subseteq DOMAIN p.tensor_descs,
         NEW q, q = Infer(p, node), q.threw = "no"
  PROVE  /\ IsPlanRecord(q)
         /\ q.tasks = p.tasks /\ q.tensor_dependence = p.tensor_dependence /\ q.guessed = p.guessed
         /\ q.input_infos = p.input_infos /\ q.output_infos = p.output_infos
         /\ DOMAIN q.tensor_descs = DOMAIN p.tensor_descs \cup Range(node.output_tensors)
<1> DEFINE inferred == dtype_shape_infer(node.param, DescsOf(p.tensor_descs, node.input_tensors), MetaAtPlanning)
           ids == node.output_tensors
           new == [t \in Range(ids) |-> LET out == inferred.outs[CHOOSE k \in DOMAIN ids : ids[k] = t]
                                        IN  Describe(out.dtype, out.cur_shape)]
           X == p.guessed \cup (Range(node.input_tensors) \ DOMAIN p.tensor_descs)
           Y == Updated(p.tensor_descs, new)
           v == "infer"
<1>1. q = [p EXCEPT !.threw = v] \/ q = [p EXCEPT !.guessed = X, !.tensor_descs = Y]
  BY Zenon DEF Infer
<1>2. v # "no"
  OBVIOUS
<1>3. X = p.guessed
  OBVIOUS
<1>4. DOMAIN Y = DOMAIN p.tensor_descs \cup Range(ids)
  BY DEF Updated
<1> HIDE DEF X, Y, v
<1>5. q = [p EXCEPT !.guessed = X, !.tensor_descs = Y]
  <2>1. [p EXCEPT !.threw = v].threw = v
    BY PlanWith
  <2> QED BY <1>1, <1>2, <2>1, Zenon
<1>6. q = PlanOf(p.tasks, Y, p.tensor_dependence, X, p.input_infos, p.output_infos, p.plan_config, p.threw)
  <2> DEFINE r == [p EXCEPT !.guessed = X]
  <2>1. r = PlanOf(p.tasks, p.tensor_descs, p.tensor_dependence, X, p.input_infos, p.output_infos,
                   p.plan_config, p.threw)
    BY PlanWith
  <2>2. q = [r EXCEPT !.tensor_descs = Y]
    BY <1>5, Zenon
  <2> HIDE DEF r
  <2>3. /\ IsPlanRecord(r) /\ r.tasks = p.tasks
        /\ r.tensor_dependence = p.tensor_dependence
        /\ r.guessed = X /\ r.input_infos = p.input_infos /\ r.output_infos = p.output_infos
        /\ r.plan_config = p.plan_config /\ r.threw = p.threw
    BY <2>1, PlanOfIs
  <2>4. [r EXCEPT !.tensor_descs = Y]
          = PlanOf(r.tasks, Y, r.tensor_dependence, r.guessed, r.input_infos, r.output_infos, r.plan_config, r.threw)
    BY <2>3, PlanWith
  <2> QED BY <2>2, <2>3, <2>4, Zenon
<1>7. /\ IsPlanRecord(q) /\ q.tasks = p.tasks /\ q.tensor_descs = Y
      /\ q.tensor_dependence = p.tensor_dependence
      /\ q.guessed = X /\ q.input_infos = p.input_infos /\ q.output_infos = p.output_infos
  BY <1>6, PlanOfIs
<1> QED BY <1>3, <1>4, <1>7

(* The outputs recorded, with the first d tasks made.                       *)
OutputsRecorded(g, order, infos, d) ==
  /\ \A name \in DOMAIN infos :
       /\ name \in g.output_names /\ infos[name].desc_id = g.tensor_name_to_idx[name]
       /\ infos[name].io.task_id \in 1 .. d
       /\ infos[name].io.io_id \in DOMAIN Outputs(g, order, infos[name].io.task_id)
       /\ Outputs(g, order, infos[name].io.task_id)[infos[name].io.io_id] = infos[name].desc_id
  /\ \A i \in 1 .. d : \A t \in Range(Outputs(g, order, i)) :
       g.tensor_infos[t].name \in g.output_names => g.tensor_infos[t].name \in DOMAIN infos

OutputsTurn(g, order, d, p, q) ==
  /\ Whole(g) /\ d \in Nat /\ d # 0
  /\ Range(Outputs(g, order, d)) \subseteq DOMAIN g.tensor_infos
  /\ IsPlanRecord(p) /\ Len(p.tasks) = d /\ OutputsRecorded(g, order, p.output_infos, d - 1)
  /\ q = BindOutputs(p, g, g.nodes[order[d]])

LEMMA OutputsAre ==
  ASSUME NEW g, NEW order, NEW d, NEW p, NEW q, OutputsTurn(g, order, d, p, q)
  PROVE  /\ IsPlanRecord(q)
         /\ q.tasks = p.tasks /\ q.tensor_dependence = p.tensor_dependence /\ q.guessed = p.guessed
         /\ q.input_infos = p.input_infos /\ q.tensor_descs = p.tensor_descs
         /\ OutputsRecorded(g, order, q.output_infos, d)
<1>0. /\ Whole(g) /\ d \in Nat /\ d # 0
      /\ Range(Outputs(g, order, d)) \subseteq DOMAIN g.tensor_infos
      /\ IsPlanRecord(p) /\ Len(p.tasks) = d /\ OutputsRecorded(g, order, p.output_infos, d - 1)
      /\ q = BindOutputs(p, g, g.nodes[order[d]])
  BY DEF OutputsTurn
<1> USE <1>0
<1> DEFINE ids == Outputs(g, order, d)
           name_of(k) == g.tensor_infos[ids[k]].name
           Marked == {k \in DOMAIN ids : name_of(k) \in g.output_names}
           infos == [name \in {name_of(k) : k \in Marked} |->
                       LET io_id == CHOOSE k \in Marked : name_of(k) = name
                       IN  [desc_id |-> ids[io_id], io |-> TaskIO(d, io_id)]]
           X == Updated(p.output_infos, infos)
<1>1. q = [p EXCEPT !.output_infos = X]
  BY Zenon DEF BindOutputs, Outputs
<1>2. q = PlanOf(p.tasks, p.tensor_descs, p.tensor_dependence, p.guessed, p.input_infos, X, p.plan_config, p.threw)
  <2> HIDE DEF X
  <2>1. [p EXCEPT !.output_infos = X]
          = PlanOf(p.tasks, p.tensor_descs, p.tensor_dependence, p.guessed, p.input_infos, X, p.plan_config, p.threw)
    BY PlanWith
  <2> QED BY <1>1, <2>1, Zenon
<1>3. /\ IsPlanRecord(q) /\ q.tasks = p.tasks /\ q.tensor_descs = p.tensor_descs
      /\ q.tensor_dependence = p.tensor_dependence
      /\ q.guessed = p.guessed /\ q.input_infos = p.input_infos /\ q.output_infos = X
  <2> HIDE DEF X
  <2> QED BY <1>2, PlanOfIs
<1>4. ASSUME NEW name \in DOMAIN infos
      PROVE  /\ name \in g.output_names /\ infos[name].desc_id = g.tensor_name_to_idx[name]
             /\ infos[name].io.task_id = d
             /\ infos[name].io.io_id \in DOMAIN ids
             /\ ids[infos[name].io.io_id] = infos[name].desc_id
  <2> DEFINE c == CHOOSE k \in Marked : name_of(k) = name
  <2>1. \E k \in Marked : name_of(k) = name
    OBVIOUS
  <2>2. c \in Marked /\ name_of(c) = name
    BY <2>1, Zenon
  <2>3. infos[name] = [desc_id |-> ids[c], io |-> TaskIO(d, c)]
    OBVIOUS
  <2>4. c \in DOMAIN ids /\ name \in g.output_names /\ ids[c] \in DOMAIN g.tensor_infos
        /\ g.tensor_infos[ids[c]].name = name
    BY <2>2 DEF Range
  <2> HIDE DEF c, infos, ids
  <2>5. g.tensor_name_to_idx[name] = ids[c]
    BY <2>4 DEF Whole, NamesAgree
  <2> QED BY <2>3, <2>4, <2>5 DEF TaskIO
<1>5. \A t \in Range(ids) : g.tensor_infos[t].name \in g.output_names => g.tensor_infos[t].name \in DOMAIN infos
  BY DEF Range
<1>6. /\ DOMAIN X = DOMAIN p.output_infos \cup DOMAIN infos
      /\ \A name \in DOMAIN infos : X[name] = infos[name]
      /\ \A name \in DOMAIN p.output_infos : name \notin DOMAIN infos => X[name] = p.output_infos[name]
  <2> HIDE DEF infos
  <2> QED BY DEF Updated
<1>7. d \in 1 .. d /\ \A i \in 1 .. d : i \in 1 .. d - 1 \/ i = d
  OBVIOUS
<1>8. \A i \in 1 .. d - 1 : i \in 1 .. d
  OBVIOUS
<1>9. OutputsRecorded(g, order, X, d)
  <2> DEFINE Right(x, name) == /\ name \in g.output_names /\ x.desc_id = g.tensor_name_to_idx[name]
                               /\ x.io.task_id \in 1 .. d
                               /\ x.io.io_id \in DOMAIN Outputs(g, order, x.io.task_id)
                               /\ Outputs(g, order, x.io.task_id)[x.io.io_id] = x.desc_id
  <2>1. \A name \in DOMAIN infos : Right(infos[name], name)
    <3> HIDE DEF infos
    <3> QED BY <1>4, <1>7
  <2>2. \A name \in DOMAIN p.output_infos : Right(p.output_infos[name], name)
    BY <1>8 DEF OutputsRecorded
  <2>3. \A i \in 1 .. d - 1 : \A t \in Range(Outputs(g, order, i)) :
          g.tensor_infos[t].name \in g.output_names => g.tensor_infos[t].name \in DOMAIN p.output_infos
    BY DEF OutputsRecorded
  <2>4. OutputsRecorded(g, order, X, d) <=>
          /\ \A name \in DOMAIN X : Right(X[name], name)
          /\ \A i \in 1 .. d : \A t \in Range(Outputs(g, order, i)) :
               g.tensor_infos[t].name \in g.output_names => g.tensor_infos[t].name \in DOMAIN X
    BY Zenon DEF OutputsRecorded
  <2> HIDE DEF infos, X, Right
  <2>5. \A name \in DOMAIN X : Right(X[name], name)
    BY <1>6, <2>1, <2>2
  <2>6. \A i \in 1 .. d : \A t \in Range(Outputs(g, order, i)) :
               g.tensor_infos[t].name \in g.output_names => g.tensor_infos[t].name \in DOMAIN X
    BY <1>5, <1>6, <1>7, <2>3
  <2> QED BY <2>4, <2>5, <2>6
<1> QED BY <1>3, <1>9

LEMMA InputNum ==
  ASSUME NEW param
  PROVE  input_num(param) \in Nat /\ input_num(param) <= 12
<1>1. extern_input_num(param) \in {0, 1, 2, 4} /\ (extern_input_num(param) = 4 <=> param.kind = "CausalAttention")
  BY DEF extern_input_num
<1>2. weight_num(param) \in {0, 1, 2, 4, 8}
  BY DEF weight_num
<1> QED BY <1>1, <1>2 DEF input_num

(* The places of a tensor, between two tasks.                               *)
LEMMA PlacesBetween ==
  ASSUME NEW g, NEW order, NEW d \in Nat, NEW t,
         d # 0 => IsSeq(Inputs(g, order, d))
  PROVE  Places(g, order, d + 1, 0, t)
           = (IF d = 0 THEN {} ELSE Places(g, order, d, Len(Inputs(g, order, d)), t))
<1> DEFINE R == [task_id : 1 .. d + 1, io_id : 1 .. 16]
           Q == [task_id : 1 .. d, io_id : 1 .. 16]
           L == Len(Inputs(g, order, d))
<1>1. /\ \A x \in R : x.task_id \in 1 .. d + 1 /\ x.io_id \in 1 .. 16
      /\ \A x \in Q : x.task_id \in 1 .. d /\ x.io_id \in 1 .. 16
  OBVIOUS
<1>2. \A x \in R : x.task_id \in 1 .. d => x \in Q
  <2> TAKE x \in R
  <2>1. x = [task_id |-> x.task_id, io_id |-> x.io_id]
    OBVIOUS
  <2> QED BY <1>1
<1>3. Q \subseteq R
  OBVIOUS
<1>4. /\ \A i \in 1 .. d + 1, k \in 1 .. 16 : (i < d + 1 \/ k <= 0) <=> i \in 1 .. d
      /\ \A i \in 1 .. d : i # d => i < d
  OBVIOUS
<1>5. d # 0 => DOMAIN Inputs(g, order, d) = 1 .. L /\ L \in Nat
  BY SeqIs
<1>6. \A k \in 1 .. 16 : d # 0 /\ k \in DOMAIN Inputs(g, order, d) => k <= L
  BY <1>5
<1> DEFINE A == Places(g, order, d + 1, 0, t)
           B == Places(g, order, d, L, t)
           T(x) == x.io_id \in DOMAIN Inputs(g, order, x.task_id) /\ Inputs(g, order, x.task_id)[x.io_id] = t
<1>7. A \subseteq R /\ \A x \in R : x \in A <=> T(x) /\ (x.task_id < d + 1 \/ x.io_id <= 0)
  BY DEF Places
<1>8. B \subseteq Q /\ \A x \in Q : x \in B <=> T(x) /\ (x.task_id < d \/ x.io_id <= L)
  BY DEF Places
<1>9. A \subseteq Q /\ \A x \in Q : x \in A <=> T(x)
  <2> HIDE DEF A, R, Q, T
  <2> QED BY <1>1, <1>2, <1>3, <1>4, <1>7
<1>10. d # 0 => \A x \in Q : x \in B <=> T(x)
  <2>1. \A x \in Q : d # 0 /\ T(x) => (x.task_id < d \/ x.io_id <= L)
    <3> SUFFICES ASSUME NEW x \in Q, d # 0, T(x), x.task_id = d PROVE x.io_id <= L
      BY <1>1, <1>4
    <3> QED BY <1>1, <1>6
  <2> HIDE DEF B, Q, T, L
  <2> QED BY <1>8, <2>1
<1>11. CASE d = 0
  <2>1. Q = {}
    BY <1>11
  <2> QED BY <1>9, <1>11, <2>1
<1>12. CASE d # 0
  <2> HIDE DEF A, B, Q, T
  <2>1. A = B
    BY <1>8, <1>9, <1>10, <1>12
  <2> QED BY <1>12, <2>1 DEF A, B
<1> QED BY <1>11, <1>12

LEMMA BetweenTasks ==
  ASSUME NEW g, NEW order, NEW d \in Nat, d # 0, IsSeq(Inputs(g, order, d)), NEW infos,
         InputsBound(g, order, infos, d, Len(Inputs(g, order, d)))
  PROVE  InputsBound(g, order, infos, d + 1, 0)
<1>1. \A t : Places(g, order, d + 1, 0, t) = Places(g, order, d, Len(Inputs(g, order, d)), t)
  BY PlacesBetween
<1> QED BY <1>1 DEF InputsBound

LEMMA BeforeTasks ==
  ASSUME NEW g, NEW order
  PROVE  /\ InputsBound(g, order, <<>>, 1, 0) /\ OutputsRecorded(g, order, <<>>, 0)
         /\ DescsBound(g, order, {}, 1, 0)
<1>1. \A t : Places(g, order, 1, 0, t) = {}
  <2>1. \A t : Places(g, order, 0 + 1, 0, t) = {}
    BY PlacesBetween
  <2> QED BY <2>1
<1>2. DOMAIN <<>> = {}
  OBVIOUS
<1>3. InputsBound(g, order, <<>>, 1, 0)
  BY <1>1, <1>2 DEF InputsBound
<1>4. OutputsRecorded(g, order, <<>>, 0)
  BY <1>2 DEF OutputsRecorded
<1>5. DescsBound(g, order, {}, 1, 0)
  BY DEF DescsBound
<1> QED BY <1>3, <1>4, <1>5

(* A plan with the first d tasks made.                                      *)
MadeUpTo(g, order, mapping, p, d) ==
  /\ IsPlanRecord(p) /\ IsSeq(p.tasks) /\ Len(p.tasks) = d
  /\ \A i \in 1 .. d : HasItsTensors(g.nodes[order[i]]) /\ p.tasks[i] = TaskOf(g, order[i], mapping)
  /\ p.guessed = {}
  /\ p.tensor_dependence = [t \in DOMAIN g.tensor_infos |-> Len(g.tensor_infos[t].consumer_nodes)]
  /\ InputsBound(g, order, p.input_infos, d + 1, 0)
  /\ DescsBound(g, order, DOMAIN p.tensor_descs, d + 1, 0)
  /\ OutputsRecorded(g, order, p.output_infos, d)

LEMMA TaskMade ==
  ASSUME NEW g, Whole(g), NEW N \in Nat, DOMAIN g.nodes = 1 .. N, NEW order, IsOrder(g, order, N),
         NEW d \in 1 .. N, NEW mapping, NEW ranges, NEW p, p.threw = "no",
         MadeUpTo(g, order, mapping, p, d - 1),
         NEW q, q = WithTaskOf(p, g, ranges, mapping, order[d]), q.threw = "no"
  PROVE  MadeUpTo(g, order, mapping, q, d)
<1> DEFINE n == order[d]
           node == g.nodes[n]
           ids == Inputs(g, order, d)
           L == Len(ids)
           c == create_task(p, g, n, mapping)
           b == AllOperands(c, g, ranges, OperandsOf(ids))
           f == Infer(b, node)
<1>0. (d - 1) + 1 = d /\ d - 1 \in Nat /\ d \in Nat /\ d # 0
  OBVIOUS
<1>1. n \in DOMAIN g.nodes /\ ids = node.input_tensors /\ Outputs(g, order, d) = node.output_tensors
  BY DEF IsOrder, Inputs, Outputs
<1>2. IsSeq(ids) /\ Range(ids) \subseteq DOMAIN g.tensor_infos
      /\ Range(node.output_tensors) \subseteq DOMAIN g.tensor_infos
  BY <1>1 DEF Whole, IsGraph, IsNode, Edges, TouchedBy
<1>3. c.threw = "no" /\ q = bind_descs(c, g, ranges, n)
  BY Zenon DEF WithTaskOf
<1>4. bind_descs(c, g, ranges, n) = IF b.threw # "no" THEN b
                                    ELSE IF f.threw # "no" THEN f ELSE BindOutputs(f, g, node)
  BY Zenon DEF bind_descs, AllOperands, OperandsOf, Inputs
<1> HIDE DEF f, b, c, node, n
<1>5. b.threw = "no" /\ f.threw = "no" /\ q = BindOutputs(f, g, node)
  BY <1>3, <1>4, Zenon
<1>6. /\ HasItsTensors(node) /\ IsPlanRecord(c)
      /\ c.tasks = Append(p.tasks, TaskOf(g, n, mapping))
      /\ c.tensor_descs = p.tensor_descs /\ c.tensor_dependence = p.tensor_dependence
      /\ c.guessed = p.guessed /\ c.input_infos = p.input_infos /\ c.output_infos = p.output_infos
  <2>1. IsPlanRecord(p)
    BY DEF MadeUpTo
  <2>2. c = create_task(p, g, n, mapping)
    BY Zenon DEF c
  <2>3. c.threw = "no"
    BY <1>3
  <2> QED BY <2>1, <2>2, <2>3, CreatedIs DEF node
<1>7. L <= 16 /\ L \in Nat
  BY <1>1, <1>2, <1>6, InputNum, SeqIs DEF HasItsTensors
<1>8. /\ IsSeq(c.tasks) /\ Len(c.tasks) = d /\ c.tasks[d] = TaskOf(g, n, mapping)
      /\ \A i \in 1 .. d - 1 : c.tasks[i] = p.tasks[i]
  BY <1>0, <1>6, AppendIs DEF MadeUpTo
<1>9. /\ InputsBound(g, order, c.input_infos, d, 0)
      /\ DescsBound(g, order, DOMAIN c.tensor_descs, d, 0)
      /\ OutputsRecorded(g, order, c.output_infos, d - 1)
      /\ c.guessed = {}
      /\ c.tensor_dependence = [t \in DOMAIN g.tensor_infos |-> Len(g.tensor_infos[t].consumer_nodes)]
  BY <1>0, <1>6 DEF MadeUpTo
<1>10. /\ OnlyBound(c, b)
       /\ InputsBound(g, order, b.input_infos, d, L)
       /\ DescsBound(g, order, DOMAIN b.tensor_descs, d, L)
  <2>1. b = AllOperands(c, g, ranges, OperandsOf(Inputs(g, order, d)))
    BY Zenon DEF b
  <2> QED BY <1>0, <1>2, <1>3, <1>5, <1>6, <1>7, <1>8, <1>9, <2>1, OperandsBound
<1>11. /\ IsPlanRecord(b) /\ b.tasks = c.tasks /\ b.tensor_dependence = c.tensor_dependence
       /\ b.guessed = c.guessed /\ b.output_infos = c.output_infos
  BY <1>10 DEF OnlyBound
<1>12. Range(ids) \subseteq DOMAIN b.tensor_descs
  BY <1>10, InputsThere
<1>13. /\ IsPlanRecord(f)
       /\ f.tasks = b.tasks /\ f.tensor_dependence = b.tensor_dependence /\ f.guessed = b.guessed
       /\ f.input_infos = b.input_infos /\ f.output_infos = b.output_infos
       /\ DOMAIN f.tensor_descs = DOMAIN b.tensor_descs \cup Range(node.output_tensors)
  <2>1. f = Infer(b, node)
    BY Zenon DEF f
  <2>2. Range(node.input_tensors) \subseteq DOMAIN b.tensor_descs
    BY <1>1, <1>12
  <2> QED BY <1>5, <1>11, <2>1, <2>2, InferredIs
<1>14. /\ IsPlanRecord(q)
       /\ q.tasks = f.tasks /\ q.tensor_dependence = f.tensor_dependence /\ q.guessed = f.guessed
       /\ q.input_infos = f.input_infos /\ q.tensor_descs = f.tensor_descs
       /\ OutputsRecorded(g, order, q.output_infos, d)
  <2>1. q = BindOutputs(f, g, g.nodes[order[d]])
    BY <1>5, Zenon DEF node, n
  <2>2. Range(Outputs(g, order, d)) \subseteq DOMAIN g.tensor_infos
    BY <1>1, <1>2
  <2>3. Len(f.tasks) = d
    BY <1>8, <1>11, <1>13
  <2>4. OutputsRecorded(g, order, f.output_infos, d - 1)
    BY <1>9, <1>11, <1>13
  <2>5. OutputsTurn(g, order, d, f, q)
    BY <1>0, <1>13, <2>1, <2>2, <2>3, <2>4, Zenon DEF OutputsTurn
  <2> QED BY <2>5, OutputsAre
<1>15. InputsBound(g, order, q.input_infos, d + 1, 0)
  <2>1. InputsBound(g, order, q.input_infos, d, L)
    BY <1>10, <1>13, <1>14
  <2> QED BY <1>0, <1>2, <2>1, BetweenTasks
<1>16. DescsBound(g, order, DOMAIN q.tensor_descs, d + 1, 0)
  <2> DEFINE D == DOMAIN q.tensor_descs
  <2>1. D = DOMAIN b.tensor_descs \cup Range(Outputs(g, order, d))
    BY <1>1, <1>13, <1>14
  <2>2. \A i \in 1 .. d + 1 : i < d + 1 => (i \in 1 .. d /\ i < d) \/ i = d
    BY <1>0
  <2>3. \A i \in 1 .. d : i < d => Range(Outputs(g, order, i)) \subseteq DOMAIN b.tensor_descs
    BY <1>10 DEF DescsBound
  <2> HIDE DEF D
  <2>4. \A i \in 1 .. d + 1 : i < d + 1 => Range(Outputs(g, order, i)) \subseteq D
    BY <2>1, <2>2, <2>3
  <2>5. 1 .. 0 = {}
    OBVIOUS
  <2> QED BY <2>4, <2>5 DEF DescsBound, D
<1>17. \A i \in 1 .. d : HasItsTensors(g.nodes[order[i]]) /\ q.tasks[i] = TaskOf(g, order[i], mapping)
  <2>1. \A i \in 1 .. d : i \in 1 .. d - 1 \/ i = d
    BY <1>0
  <2>2. q.tasks = c.tasks
    BY <1>11, <1>13, <1>14
  <2>3. \A i \in 1 .. d - 1 : HasItsTensors(g.nodes[order[i]]) /\ p.tasks[i] = TaskOf(g, order[i], mapping)
    BY DEF MadeUpTo
  <2>4. HasItsTensors(g.nodes[order[d]]) /\ c.tasks[d] = TaskOf(g, order[d], mapping)
    BY <1>6, <1>8 DEF n, node
  <2> QED BY <1>8, <2>1, <2>2, <2>3, <2>4
<1> QED
  BY <1>8, <1>9, <1>11, <1>13, <1>14, <1>15, <1>16, <1>17 DEF MadeUpTo

(* Where each node is in an order.                                          *)
Mapping(order) == [n \in Range(order) |-> CHOOSE i \in DOMAIN order : order[i] = n]

(* One says of each place what the other says of each value.                *)
Undoes(map, order, N) ==
  /\ \A i \in 1 .. N : map[order[i]] = i
  /\ \A n \in 1 .. N : map[n] \in 1 .. N /\ order[map[n]] = n

LEMMA MappingIs ==
  ASSUME NEW g, NEW N \in Nat, DOMAIN g.nodes = 1 .. N, NEW order, IsOrder(g, order, N)
  PROVE  Undoes(Mapping(order), order, N)
<1> DEFINE M == Mapping(order)
<1>1. DOMAIN order = 1 .. N /\ Range(order) = 1 .. N /\ \A n \in 1 .. N : \E i \in 1 .. N : order[i] = n
  BY OrderWhole
<1>2. ASSUME NEW n \in 1 .. N PROVE M[n] \in 1 .. N /\ order[M[n]] = n
  <2>1. M[n] = CHOOSE i \in DOMAIN order : order[i] = n
    BY <1>1 DEF Mapping
  <2>2. \E i \in DOMAIN order : order[i] = n
    BY <1>1
  <2> HIDE DEF M
  <2> QED BY <1>1, <2>1, <2>2, Zenon
<1> HIDE DEF M
<1>3. \A i, j \in 1 .. N : order[i] = order[j] => i = j
  BY DEF IsOrder
<1>4. \A i \in 1 .. N : order[i] \in 1 .. N
  BY DEF IsOrder
<1>5. Undoes(M, order, N)
  BY <1>2, <1>3, <1>4 DEF Undoes
<1> QED BY <1>5 DEF M

PlanIs(g, p) ==
  \E order : /\ IsOrder(g, order, Len(g.nodes))
             /\ MadeUpTo(g, order, Mapping(order), p, Len(g.nodes))

LEMMA TasksAre ==
  ASSUME NEW g, Whole(g), NEW ranges, NEW order \in TopologicalOrders(g),
         PlanInOrder(g, ranges, order).threw = "no"
  PROVE  PlanIs(g, PlanInOrder(g, ranges, order))
<1> DEFINE N == Len(g.nodes)
           M == Mapping(order)
           Dep == [t \in DOMAIN g.tensor_infos |-> Len(g.tensor_infos[t].consumer_nodes)]
           empty == [NoPlan EXCEPT !.plan_config = ranges, !.tensor_dependence = Dep]
<1>1. N \in Nat /\ DOMAIN g.nodes = 1 .. N
  BY SeqIs DEF Whole, IsGraph
<1>2. IsOrder(g, order, N)
  BY OrdersAre
<1>3. PlanInOrder(g, ranges, order) = AllTasks(empty, g, ranges, M, order)
  BY Zenon DEF PlanInOrder, AllTasks, Mapping
<1>4. IsSeq(order) /\ Len(order) = N /\ DOMAIN order = 1 .. N
  BY <1>2, SeqIs DEF IsOrder
<1>5. /\ IsPlanRecord(empty) /\ empty.tasks = <<>> /\ empty.tensor_descs = <<>>
      /\ empty.tensor_dependence = Dep /\ empty.guessed = {}
      /\ empty.input_infos = <<>> /\ empty.output_infos = <<>>
  <2> DEFINE r == [NoPlan EXCEPT !.plan_config = ranges]
             x == NoPlan.threw
  <2> HIDE DEF Dep
  <2>1. r = PlanOf(<<>>, <<>>, <<>>, {}, <<>>, <<>>, ranges, x)
    BY DEF NoPlan, PlanOf
  <2>2. empty = [r EXCEPT !.tensor_dependence = Dep]
    BY Zenon
  <2> HIDE DEF empty, r, x
  <2>3. /\ IsPlanRecord(r) /\ r.tasks = <<>> /\ r.tensor_descs = <<>> /\ r.guessed = {}
        /\ r.input_infos = <<>> /\ r.output_infos = <<>> /\ r.plan_config = ranges /\ r.threw = x
    BY <2>1, PlanOfIs
  <2>4. [r EXCEPT !.tensor_dependence = Dep]
          = PlanOf(r.tasks, r.tensor_descs, Dep, r.guessed, r.input_infos, r.output_infos, r.plan_config, r.threw)
    BY <2>3, PlanWith
  <2>5. empty = PlanOf(<<>>, <<>>, Dep, {}, <<>>, <<>>, ranges, x)
    BY <2>2, <2>3, <2>4, Zenon
  <2> QED BY <2>5, PlanOfIs
<1> HIDE DEF M, empty
<1>6. PICK w : /\ Stepwise(w, "task", <<g, ranges, M>>, empty, order)
               /\ AllTasks(empty, g, ranges, M, order) = w[N]
  BY <1>1, <1>4, TaskFold
<1> DEFINE S == {d \in 0 .. N : w[d].threw = "no" => MadeUpTo(g, order, M, w[d], d)}
<1>7. 0 \in S
  <2>1. w[0] = empty
    BY <1>6 DEF Stepwise
  <2>2. DOMAIN empty.tensor_descs = {} /\ 0 \in 0 .. N /\ 0 + 1 = 1 /\ 1 .. 0 = {}
    BY <1>1, <1>5
  <2>3. IsSeq(empty.tasks) /\ Len(empty.tasks) = 0
    BY <1>5, EmptyIs
  <2>4. /\ InputsBound(g, order, empty.input_infos, 1, 0)
        /\ OutputsRecorded(g, order, empty.output_infos, 0)
        /\ DescsBound(g, order, DOMAIN empty.tensor_descs, 1, 0)
    BY <1>5, <2>2, BeforeTasks
  <2>5. MadeUpTo(g, order, M, empty, 0)
    BY <1>5, <2>2, <2>3, <2>4 DEF MadeUpTo
  <2> QED BY <2>1, <2>2, <2>5
<1>8. ASSUME NEW d \in 1 .. N, d - 1 \in S PROVE d \in S
  <2>1. w[d] = WithTaskOf(w[d - 1], g, ranges, M, order[d])
    <3>1. /\ w[d] = Turn("task", <<g, ranges, M>>, w[d - 1], order[d])
          /\ <<g, ranges, M>>[1] = g /\ <<g, ranges, M>>[2] = ranges /\ <<g, ranges, M>>[3] = M
      BY <1>4, <1>6 DEF Stepwise
    <3> QED BY <3>1, Zenon DEF Turn
  <2>2. d \in 0 .. N
    OBVIOUS
  <2> SUFFICES ASSUME w[d].threw = "no" PROVE MadeUpTo(g, order, M, w[d], d)
    BY <2>2
  <2>3. w[d - 1].threw = "no"
    BY <2>1, Zenon DEF WithTaskOf
  <2>4. MadeUpTo(g, order, M, w[d - 1], d - 1)
    BY <1>8, <2>3
  <2> HIDE DEF S, N
  <2> QED BY <1>1, <1>2, <2>1, <2>3, <2>4, TaskMade
<1> HIDE DEF S
<1>9. \A d \in 0 .. N : d \in S
  BY <1>1, <1>7, <1>8, Upwards
<1>10. N \in 0 .. N
  BY <1>1
<1>11. MadeUpTo(g, order, M, w[N], N)
  BY <1>3, <1>6, <1>9, <1>10 DEF S
<1> QED BY <1>2, <1>3, <1>6, <1>11, Zenon DEF PlanIs, M

LEMMA CreatedPlanIs ==
  ASSUME NEW g, Whole(g), NEW ranges, NEW p \in create_cuda_plan(g, ranges),
         p.tasks # <<>>, p.threw = "no"
  PROVE  PlanIs(g, p)
<1>1. \/ \E v : p = [NoPlan EXCEPT !.threw = v]
      \/ \E order \in TopologicalOrders(g) : p = PlanInOrder(g, ranges, order)
  <2> DEFINE r == \E name \in DOMAIN ranges : ~IsRange(ranges[name])
             c == TopologicalOrders(g) = {}
             rr == \A name \in DOMAIN ranges : IsRange(ranges[name])
             others == {PlanInOrder(g, ranges, order) : order \in TopologicalOrders(g)}
             all == create_cuda_plan(g, ranges)
  <2>1. all = CASE r -> {[NoPlan EXCEPT !.threw = "range"]}
                      [] rr /\ c -> {[NoPlan EXCEPT !.threw = "cycle"]}
                      [] OTHER -> others
    BY Zenon DEF create_cuda_plan
  <2>2. r \/ rr
    OBVIOUS
  <2>3. ~(r /\ rr)
    OBVIOUS
  <2>4. CASE r
    <3> HIDE DEF r, rr, c
    <3> QED BY <2>1, <2>3, <2>4, Zenon
  <2>5. CASE rr /\ c
    <3> HIDE DEF r, rr, c
    <3>1. ~r
      BY <2>3, <2>5
    <3> QED BY <2>1, <2>5, <3>1
  <2>6. CASE rr /\ ~c
    <3> HIDE DEF r, rr, c
    <3>1. ~r
      BY <2>3, <2>6
    <3> HIDE DEF others, all
    <3>2. all = others
      BY <2>1, <2>6, <3>1
    <3> QED BY <3>2, Zenon DEF others, all
  <2> QED BY <2>2, <2>4, <2>5, <2>6
<1>2. \A v : [NoPlan EXCEPT !.threw = v].tasks = <<>>
  BY DEF NoPlan
<1>3. PICK order \in TopologicalOrders(g) : p = PlanInOrder(g, ranges, order)
  BY <1>1, <1>2, Zenon
<1>4. PlanInOrder(g, ranges, order).threw = "no"
  BY <1>3
<1> DEFINE q == PlanInOrder(g, ranges, order)
<1> HIDE DEF q
<1>5. PlanIs(g, q)
  BY <1>4, TasksAre DEF q
<1> QED BY <1>3, <1>5 DEF q

-----------------------------------------------------------------------------
(* Who reads and who writes.                                                *)

LEMMA WritesIs ==
  ASSUME NEW g, Whole(g), NEW n \in DOMAIN g.nodes, NEW t \in DOMAIN g.tensor_infos
  PROVE  /\ t \in Range(g.nodes[n].output_tensors) <=> g.tensor_infos[t].producer_node = n
         /\ t \in Range(g.nodes[n].input_tensors) <=> n \in Range(g.tensor_infos[t].consumer_nodes)
<1> DEFINE outs == g.nodes[n].output_tensors
           ins == g.nodes[n].input_tensors
           cons == g.tensor_infos[t].consumer_nodes
<1>1. IsSeq(outs) /\ IsSeq(ins) /\ IsSeq(cons)
  BY DEF Whole, IsGraph, IsNode, IsInfo
<1>2. /\ Occurrences(outs, t) = (IF g.tensor_infos[t].producer_node = n THEN 1 ELSE 0)
      /\ Occurrences(cons, n) = Occurrences(ins, t)
  BY DEF Whole, Edges, Paired
<1> HIDE DEF outs, ins, cons
<1>3. /\ t \in Range(outs) <=> Occurrences(outs, t) # 0
      /\ t \in Range(ins) <=> Occurrences(ins, t) # 0
      /\ n \in Range(cons) <=> Occurrences(cons, n) # 0
  BY <1>1, OccurrencesType
<1> QED BY <1>2, <1>3 DEF outs, ins, cons

LEMMA FollowsIs ==
  ASSUME NEW g, Whole(g), NEW m \in DOMAIN g.nodes, NEW n \in DOMAIN g.nodes
  PROVE  /\ m \in ProducersOf(g, n) <=> Range(g.nodes[m].output_tensors) \cap Range(g.nodes[n].input_tensors) # {}
         /\ n \in ConsumersOf(g, m) <=> Range(g.nodes[m].output_tensors) \cap Range(g.nodes[n].input_tensors) # {}
<1>1. /\ \A k \in DOMAIN g.nodes : Range(g.nodes[k].input_tensors) \subseteq DOMAIN g.tensor_infos
                                /\ Range(g.nodes[k].output_tensors) \subseteq DOMAIN g.tensor_infos
      /\ m # None
  <2>1. \A k \in DOMAIN g.nodes : TouchedBy(g.nodes[k]) \subseteq DOMAIN g.tensor_infos
    BY DEF Whole, Edges
  <2>2. m # None
    BY SeqIs DEF Whole, IsGraph, None
  <2> QED BY <2>1, <2>2 DEF TouchedBy
<1>2. \A t \in DOMAIN g.tensor_infos :
        /\ t \in Range(g.nodes[m].output_tensors) <=> g.tensor_infos[t].producer_node = m
        /\ t \in Range(g.nodes[n].input_tensors) <=> n \in Range(g.tensor_infos[t].consumer_nodes)
  BY WritesIs
<1>3. m \in ProducersOf(g, n) <=> \E t \in Range(g.nodes[n].input_tensors) : g.tensor_infos[t].producer_node = m
  BY <1>1 DEF ProducersOf
<1>4. n \in ConsumersOf(g, m) <=> \E t \in Range(g.nodes[m].output_tensors) : n \in Range(g.tensor_infos[t].consumer_nodes)
  BY DEF ConsumersOf
<1> QED BY <1>1, <1>2, <1>3, <1>4

LEMMA FollowersAre ==
  ASSUME NEW g, Whole(g), NEW n \in DOMAIN g.nodes
  PROVE  ProducersOf(g, n) \subseteq DOMAIN g.nodes /\ ConsumersOf(g, n) \subseteq DOMAIN g.nodes
<1>1. /\ Range(g.nodes[n].input_tensors) \subseteq DOMAIN g.tensor_infos
      /\ Range(g.nodes[n].output_tensors) \subseteq DOMAIN g.tensor_infos
  BY DEF Whole, Edges, TouchedBy
<1>2. \A t \in DOMAIN g.tensor_infos : /\ Range(g.tensor_infos[t].consumer_nodes) \subseteq DOMAIN g.nodes
                                       /\ g.tensor_infos[t].producer_node \in DOMAIN g.nodes \cup {None}
  BY DEF Whole, Edges
<1>3. ProducersOf(g, n) \subseteq DOMAIN g.nodes
  BY <1>1, <1>2 DEF ProducersOf
<1>4. ConsumersOf(g, n) \subseteq DOMAIN g.nodes
  BY <1>1, <1>2 DEF ConsumersOf
<1> QED BY <1>3, <1>4

(* The tasks before and after a task.                                       *)
LEMMA NeighboursAre ==
  ASSUME NEW g, Whole(g), NEW N \in Nat, DOMAIN g.nodes = 1 .. N, NEW order, IsOrder(g, order, N),
         NEW i \in 1 .. N, NEW j \in 1 .. N
  PROVE  LET M == Mapping(order)
             Meet == Range(g.nodes[order[j]].output_tensors) \cap Range(g.nodes[order[i]].input_tensors) # {}
         IN  /\ j \in TasksOf(M, ProducersOf(g, order[i])) <=> Meet
             /\ i \in TasksOf(M, ConsumersOf(g, order[j])) <=> Meet
             /\ Meet => j < i
<1> DEFINE M == Mapping(order)
           Meet == Range(g.nodes[order[j]].output_tensors) \cap Range(g.nodes[order[i]].input_tensors) # {}
<1>1. /\ \A k \in 1 .. N : M[order[k]] = k
      /\ \A n \in 1 .. N : M[n] \in 1 .. N /\ order[M[n]] = n
  <2>1. Undoes(M, order, N)
    BY MappingIs
  <2> HIDE DEF M
  <2> QED BY <2>1 DEF Undoes
<1>2. order[i] \in 1 .. N /\ order[j] \in 1 .. N
  BY DEF IsOrder
<1>3. /\ order[j] \in ProducersOf(g, order[i]) <=> Meet
      /\ order[i] \in ConsumersOf(g, order[j]) <=> Meet
  <2> DEFINE m == order[j]
             n == order[i]
  <2>1. m \in DOMAIN g.nodes /\ n \in DOMAIN g.nodes
    BY <1>2
  <2> HIDE DEF m, n
  <2>2. /\ m \in ProducersOf(g, n) <=> Range(g.nodes[m].output_tensors) \cap Range(g.nodes[n].input_tensors) # {}
        /\ n \in ConsumersOf(g, m) <=> Range(g.nodes[m].output_tensors) \cap Range(g.nodes[n].input_tensors) # {}
    BY <2>1, FollowsIs
  <2> QED BY <2>2 DEF m, n
<1>4. ProducersOf(g, order[i]) \subseteq 1 .. N /\ ConsumersOf(g, order[j]) \subseteq 1 .. N
  BY <1>2, FollowersAre
<1> HIDE DEF M, Meet
<1>5. j \in TasksOf(M, ProducersOf(g, order[i])) <=> Meet
  BY <1>1, <1>2, <1>3, <1>4 DEF TasksOf
<1>6. i \in TasksOf(M, ConsumersOf(g, order[j])) <=> Meet
  BY <1>1, <1>2, <1>3, <1>4 DEF TasksOf
<1>7. Meet => j < i
  <2> SUFFICES ASSUME Meet PROVE j < i
    OBVIOUS
  <2>1. PICK l \in 1 .. N : l < i /\ order[l] = order[j]
    BY <1>2, <1>3 DEF IsOrder
  <2>2. l = j
    BY <1>1, <2>1
  <2> QED BY <2>1, <2>2
<1> QED BY <1>5, <1>6, <1>7 DEF M, Meet

-----------------------------------------------------------------------------
(* A tensor is an operand as often as it lists a consumer.                  *)

Pairs(S, T, b) ==
  /\ b \in [S -> T]
  /\ \A x, y \in S : b[x] = b[y] => x = y
  /\ \A z \in T : \E x \in S : b[x] = z

LEMMA AsManyAs ==
  ASSUME NEW S, NEW T, IsFiniteSet(S), IsFiniteSet(T), Cardinality(S) = Cardinality(T)
  PROVE  \E b : Pairs(S, T, b)
<1>1. ExistsBijection(S, T)
  BY FS_SameCardinalityBij
<1>2. PICK b : b \in Bijection(S, T)
  BY <1>1 DEF ExistsBijection
<1>3. Pairs(S, T, b)
  BY <1>2 DEF Bijection, Injection, Surjection, IsInjective, Pairs
<1> QED BY <1>3

LEMMA OneToOne ==
  ASSUME NEW S, IsFiniteSet(S), NEW T, NEW f, \A x \in S : f[x] \in T, f = [x \in S |-> f[x]],
         \A x, y \in S : f[x] = f[y] => x = y, \A z \in T : \E x \in S : f[x] = z
  PROVE  IsFiniteSet(T) /\ Cardinality(T) = Cardinality(S)
<1>1. f \in [S -> T]
  OBVIOUS
<1>2. f \in Bijection(S, T)
  BY <1>1 DEF Bijection, Injection, Surjection, IsInjective
<1>3. ExistsBijection(S, T)
  BY <1>2 DEF ExistsBijection
<1> QED BY <1>3, FS_Bijection

(* The operands of the tasks that are the tensor.                           *)
OperandsThat(g, order, t) ==
  {io \in [task_id : 1 .. Len(g.nodes), io_id : 1 .. 16] :
     /\ io.io_id \in DOMAIN Inputs(g, order, io.task_id)
     /\ Inputs(g, order, io.task_id)[io.io_id] = t}

LEMMA OperandsCounted ==
  ASSUME NEW g, Whole(g), NEW order, IsOrder(g, order, Len(g.nodes)),
         \A n \in DOMAIN g.nodes : Len(g.nodes[n].input_tensors) <= 16,
         NEW t \in DOMAIN g.tensor_infos
  PROVE  Cardinality(OperandsThat(g, order, t)) = Len(g.tensor_infos[t].consumer_nodes)
<1> DEFINE N == Len(g.nodes)
           M == Mapping(order)
           cons == g.tensor_infos[t].consumer_nodes
           C == DOMAIN cons
           ins(n) == g.nodes[n].input_tensors
           From(n) == {k \in C : cons[k] = n}
           To(n) == {k \in DOMAIN ins(n) : ins(n)[k] = t}
           Maps(n, b) == Pairs(From(n), To(n), b)
           B(n) == CHOOSE b : Maps(n, b)
           T == OperandsThat(g, order, t)
           f == [k \in C |-> [task_id |-> M[cons[k]], io_id |-> B(cons[k])[k]]]
<1>1. N \in Nat /\ DOMAIN g.nodes = 1 .. N
  BY SeqIs DEF Whole, IsGraph
<1>2. /\ \A i \in 1 .. N : M[order[i]] = i
      /\ \A n \in 1 .. N : M[n] \in 1 .. N /\ order[M[n]] = n
  <2>1. Undoes(M, order, N)
    BY <1>1, MappingIs
  <2> HIDE DEF M
  <2> QED BY <2>1 DEF Undoes
<1>3. IsSeq(cons) /\ Len(cons) \in Nat /\ C = 1 .. Len(cons)
  BY SeqIs DEF Whole, IsGraph, IsInfo
<1>4. IsFiniteSet(C) /\ Cardinality(C) = Len(cons)
  <2>1. IsFiniteSet(1 .. Len(cons)) /\ Cardinality(1 .. Len(cons)) = Len(cons)
    BY <1>3, FS_Interval
  <2> QED BY <1>3, <2>1
<1>5. \A k \in C : cons[k] \in 1 .. N
  BY <1>1 DEF Whole, Edges, Range
<1>6. ASSUME NEW n \in 1 .. N PROVE Maps(n, B(n))
  <2>1. Occurrences(cons, n) = Occurrences(ins(n), t)
    BY <1>1 DEF Whole, Edges, Paired
  <2>2. IsSeq(ins(n))
    BY <1>1 DEF Whole, IsGraph, IsNode
  <2>3. IsFiniteSet(From(n)) /\ IsFiniteSet(To(n))
    BY <1>3, <2>2, OccurrencesType
  <2>4. Cardinality(From(n)) = Cardinality(To(n))
    BY <2>1, Zenon DEF Occurrences
  <2>5. \E b : Maps(n, b)
    <3> DEFINE X == From(n)
               Y == To(n)
    <3>1. IsFiniteSet(X) /\ IsFiniteSet(Y) /\ Cardinality(X) = Cardinality(Y)
      BY <2>3, <2>4, Zenon
    <3> HIDE DEF X, Y
    <3>2. \E b : Pairs(X, Y, b)
      BY <3>1, AsManyAs
    <3> QED BY <3>2, Zenon DEF X, Y
  <2> HIDE DEF Maps
  <2> QED BY <2>5, Zenon
<1> HIDE DEF M, B
<1>7. \A n \in 1 .. N : DOMAIN ins(n) \subseteq 1 .. 16
  <2> TAKE n \in 1 .. N
  <2>1. IsSeq(ins(n)) /\ Len(ins(n)) <= 16
    BY <1>1 DEF Whole, IsGraph, IsNode
  <2> HIDE DEF ins
  <2>2. DOMAIN ins(n) = 1 .. Len(ins(n)) /\ Len(ins(n)) \in Nat
    BY <2>1, SeqIs
  <2> QED BY <2>1, <2>2
<1>8. \A n \in 1 .. N : \A x \in C : cons[x] = n => B(n)[x] \in DOMAIN ins(n) /\ ins(n)[B(n)[x]] = t
  <2> TAKE n \in 1 .. N
  <2>1. \A x \in From(n) : B(n)[x] \in To(n)
    BY <1>6 DEF Pairs
  <2> QED BY <2>1
<1>9. \A n \in 1 .. N : \A x, y \in C : cons[x] = n /\ cons[y] = n /\ B(n)[x] = B(n)[y] => x = y
  BY <1>6 DEF Pairs
<1>10. \A n \in 1 .. N : \A z \in DOMAIN ins(n) : ins(n)[z] = t => \E x \in C : cons[x] = n /\ B(n)[x] = z
  <2> TAKE n \in 1 .. N
  <2>1. \A z \in To(n) : \E x \in From(n) : B(n)[x] = z
    BY <1>6 DEF Pairs
  <2> QED BY <2>1
<1> HIDE DEF cons, C, From, To, Maps
<1>11. /\ DOMAIN f = C
       /\ \A k \in C : f[k].task_id = M[cons[k]] /\ f[k].io_id = B(cons[k])[k]
  OBVIOUS
<1>12. \A io : io \in T <=> /\ io \in [task_id : 1 .. N, io_id : 1 .. 16]
                            /\ io.io_id \in DOMAIN ins(order[io.task_id])
                            /\ ins(order[io.task_id])[io.io_id] = t
  BY DEF OperandsThat, Inputs
<1> HIDE DEF T
<1>13. ASSUME NEW k \in C PROVE f[k] \in T
  <2> DEFINE n == cons[k]
             i == M[n]
             x == B(n)[k]
  <2>1. n \in 1 .. N /\ i \in 1 .. N /\ order[i] = n
    BY <1>2, <1>5
  <2>2. x \in DOMAIN ins(n) /\ ins(n)[x] = t /\ x \in 1 .. 16
    BY <1>7, <1>8, <2>1
  <2>3. f[k] = [task_id |-> i, io_id |-> x]
    OBVIOUS
  <2> HIDE DEF n, i, x, f, ins, N
  <2>4. f[k] \in [task_id : 1 .. N, io_id : 1 .. 16] /\ f[k].task_id = i /\ f[k].io_id = x
    BY <2>1, <2>2, <2>3
  <2> QED BY <1>12, <2>1, <2>2, <2>4
<1>14. ASSUME NEW k \in C, NEW l \in C, f[k] = f[l] PROVE k = l
  <2>1. M[cons[k]] = M[cons[l]] /\ B(cons[k])[k] = B(cons[l])[l]
    BY <1>11, <1>14
  <2>2. cons[k] = cons[l]
    BY <1>2, <1>5, <2>1
  <2> QED BY <1>5, <1>9, <2>1, <2>2
<1>15. ASSUME NEW io \in T PROVE \E k \in C : f[k] = io
  <2> DEFINE i == io.task_id
             z == io.io_id
  <2>1. /\ io \in [task_id : 1 .. N, io_id : 1 .. 16]
        /\ z \in DOMAIN ins(order[i]) /\ ins(order[i])[z] = t
    BY <1>12
  <2>2. i \in 1 .. N /\ io = [task_id |-> i, io_id |-> z]
    <3> HIDE DEF N
    <3> QED BY <2>1
  <2>3. order[i] \in 1 .. N
    BY <1>1, <2>2 DEF IsOrder
  <2>4. PICK k \in C : cons[k] = order[i] /\ B(order[i])[k] = z
    <3> HIDE DEF N, ins, i, z
    <3> QED BY <1>10, <2>1, <2>3
  <2>5. f[k] = [task_id |-> M[order[i]], io_id |-> z]
    BY <2>4
  <2>6. M[order[i]] = i
    BY <1>2, <2>2
  <2> HIDE DEF i, z, f
  <2> QED BY <2>2, <2>5, <2>6
<1>16. f = [k \in C |-> f[k]]
  OBVIOUS
<1> HIDE DEF f
<1>17. IsFiniteSet(T) /\ Cardinality(T) = Cardinality(C)
  BY <1>4, <1>13, <1>14, <1>15, <1>16, OneToOne
<1> QED BY <1>4, <1>17 DEF T, cons

-----------------------------------------------------------------------------
(* The plan of the graph there is.                                          *)

PlannedIn(order) ==
  /\ IsOrder(graph, order, Len(graph.nodes))
  /\ MadeUpTo(graph, order, Mapping(order), plan, Len(graph.nodes))

TasksMade(order, N) ==
  /\ N \in Nat /\ DOMAIN graph.nodes = 1 .. N /\ DOMAIN plan.tasks = 1 .. N /\ Len(plan.tasks) = N
  /\ \A i \in 1 .. N : /\ order[i] \in 1 .. N /\ HasItsTensors(graph.nodes[order[i]])
                       /\ plan.tasks[i] = TaskOf(graph, order[i], Mapping(order))
  /\ \A n \in 1 .. N : \E i \in 1 .. N : order[i] = n

LEMMA TaskOfIs ==
  ASSUME NEW g, NEW n, NEW mapping
  PROVE  /\ TaskOf(g, n, mapping).name = g.nodes[n].name
         /\ TaskOf(g, n, mapping).param = g.nodes[n].param
         /\ TaskOf(g, n, mapping).input_descs = g.nodes[n].input_tensors
         /\ TaskOf(g, n, mapping).output_descs = g.nodes[n].output_tensors
         /\ TaskOf(g, n, mapping).predecessors = TasksOf(mapping, ProducersOf(g, n))
         /\ TaskOf(g, n, mapping).successors = TasksOf(mapping, ConsumersOf(g, n))
BY DEF TaskOf

LEMMA PlannedTasks ==
  ASSUME Whole(graph), NEW order, PlannedIn(order)
  PROVE  TasksMade(order, Len(graph.nodes))
<1> DEFINE N == Len(graph.nodes)
<1>1. N \in Nat /\ DOMAIN graph.nodes = 1 .. N
  BY SeqIs DEF Whole, IsGraph
<1>2. IsSeq(plan.tasks) /\ Len(plan.tasks) = N
  BY DEF PlannedIn, MadeUpTo
<1>3. DOMAIN plan.tasks = 1 .. N
  BY <1>2, SeqIs
<1>4. \A i \in 1 .. N : HasItsTensors(graph.nodes[order[i]]) /\ plan.tasks[i] = TaskOf(graph, order[i], Mapping(order))
  BY DEF PlannedIn, MadeUpTo
<1>5. IsOrder(graph, order, N)
  BY DEF PlannedIn
<1>6. \A n \in 1 .. N : \E i \in 1 .. N : order[i] = n
  <2>1. /\ DOMAIN order = 1 .. N /\ Range(order) = 1 .. N
        /\ \A n \in 1 .. N : \E i \in 1 .. N : order[i] = n
    <3> HIDE DEF N
    <3> QED BY <1>1, <1>5, OrderWhole
  <2> QED BY <2>1
<1>7. \A i \in 1 .. N : order[i] \in 1 .. N
  BY <1>1, <1>5 DEF IsOrder
<1> HIDE DEF N
<1>8. TasksMade(order, N)
  BY <1>1, <1>2, <1>3, <1>4, <1>6, <1>7 DEF TasksMade
<1> QED BY <1>8 DEF N

LEMMA PlannedOperands ==
  ASSUME Whole(graph), NEW order, PlannedIn(order), NEW t
  PROVE  /\ OperandIs(t) = OperandsThat(graph, order, t)
         /\ OperandIs(t) = Places(graph, order, Len(graph.nodes) + 1, 0, t)
<1> DEFINE N == Len(graph.nodes)
           A == OperandIs(t)
           B == OperandsThat(graph, order, t)
           C == Places(graph, order, N + 1, 0, t)
           R == [task_id : 1 .. N, io_id : 1 .. 16]
           T(io) == io.io_id \in DOMAIN Inputs(graph, order, io.task_id) /\ Inputs(graph, order, io.task_id)[io.io_id] = t
<1>0. TasksMade(order, N)
  BY PlannedTasks
<1>1. N \in Nat /\ DOMAIN graph.nodes = 1 .. N /\ DOMAIN plan.tasks = 1 .. N
  BY <1>0 DEF TasksMade
<1>2. \A i \in 1 .. N : plan.tasks[i].input_descs = Inputs(graph, order, i)
  <2>1. \A i \in 1 .. N : plan.tasks[i] = TaskOf(graph, order[i], Mapping(order))
    BY <1>0 DEF TasksMade
  <2>2. \A n, m : TaskOf(graph, n, m).input_descs = graph.nodes[n].input_tensors
    BY TaskOfIs
  <2> QED BY <2>1, <2>2 DEF Inputs
<1>3. \A io \in R : io.task_id \in 1 .. N /\ io.io_id \in 1 .. 16
  OBVIOUS
<1>4. A \subseteq R /\ \A io \in R : io \in A <=> T(io)
  <2>1. A = {io \in R : /\ io.io_id \in DOMAIN plan.tasks[io.task_id].input_descs
                        /\ plan.tasks[io.task_id].input_descs[io.io_id] = t}
    BY <1>1 DEF OperandIs
  <2> HIDE DEF A, R
  <2> QED BY <1>2, <1>3, <2>1
<1>5. B \subseteq R /\ \A io \in R : io \in B <=> T(io)
  BY DEF OperandsThat
<1>6. C \subseteq R /\ \A io \in R : io \in C <=> T(io)
  <2> DEFINE Q == [task_id : 1 .. N + 1, io_id : 1 .. 16]
  <2>1. C \subseteq Q /\ \A io \in Q : io \in C <=> T(io) /\ (io.task_id < N + 1 \/ io.io_id <= 0)
    BY DEF Places
  <2>2. /\ \A i \in 1 .. N + 1, k \in 1 .. 16 : (i < N + 1 \/ k <= 0) => i \in 1 .. N
        /\ \A i \in 1 .. N : i < N + 1 /\ i \in 1 .. N + 1
    BY <1>1
  <2>3. \A io \in Q : io.task_id \in 1 .. N + 1 /\ io.io_id \in 1 .. 16 /\ io = [task_id |-> io.task_id, io_id |-> io.io_id]
    <3> HIDE DEF N
    <3> QED OBVIOUS
  <2>4. R \subseteq Q
    <3> HIDE DEF N
    <3> QED BY <1>1
  <2>5. \A io \in Q : io.task_id \in 1 .. N => io \in R
    <3> HIDE DEF N
    <3> TAKE io \in Q
    <3> QED BY <2>3
  <2> HIDE DEF C, Q, R, T, N
  <2> QED BY <1>3, <2>1, <2>2, <2>3, <2>4, <2>5
<1> HIDE DEF A, B, C, R, T
<1>7. A = B /\ A = C
  BY <1>4, <1>5, <1>6
<1> QED BY <1>7 DEF A, B, C

LEMMA SoundInOrder ==
  ASSUME Whole(graph), NEW order, PlannedIn(order)
  PROVE  PlanSound
<1> DEFINE N == Len(graph.nodes)
           M == Mapping(order)
<1>0. TasksMade(order, N)
  BY PlannedTasks
<1>1. /\ N \in Nat /\ DOMAIN graph.nodes = 1 .. N /\ DOMAIN plan.tasks = 1 .. N /\ Len(plan.tasks) = N
      /\ \A i \in 1 .. N : /\ order[i] \in 1 .. N /\ HasItsTensors(graph.nodes[order[i]])
                           /\ plan.tasks[i] = TaskOf(graph, order[i], M)
      /\ \A n \in 1 .. N : \E i \in 1 .. N : order[i] = n
  BY <1>0 DEF TasksMade
<1>2. IsOrder(graph, order, N)
  BY DEF PlannedIn
<1>3. \A i \in 1 .. N : /\ plan.tasks[i].name = graph.nodes[order[i]].name
                        /\ plan.tasks[i].input_descs = graph.nodes[order[i]].input_tensors
                        /\ plan.tasks[i].output_descs = graph.nodes[order[i]].output_tensors
                        /\ plan.tasks[i].predecessors = TasksOf(M, ProducersOf(graph, order[i]))
                        /\ plan.tasks[i].successors = TasksOf(M, ConsumersOf(graph, order[i]))
  <2> TAKE i \in 1 .. N
  <2>1. plan.tasks[i] = TaskOf(graph, order[i], M)
    BY <1>1
  <2> QED BY <2>1, TaskOfIs
<1> HIDE DEF N, M
<1>11. DOMAIN graph.nodes = 1 .. N /\ DOMAIN plan.tasks = 1 .. N
       /\ (\A i \in 1 .. N : order[i] \in 1 .. N) /\ \A n \in 1 .. N : \E i \in 1 .. N : order[i] = n
  BY <1>1
<1>4. {plan.tasks[i].name : i \in DOMAIN plan.tasks} = DOMAIN graph.node_name_to_idx
  <2>1. DOMAIN graph.node_name_to_idx = {graph.nodes[n].name : n \in 1 .. N}
    BY <1>11 DEF Whole, NamesAgree
  <2>2. \A i \in 1 .. N : plan.tasks[i].name = graph.nodes[order[i]].name
    BY <1>3
  <2>3. \A i \in 1 .. N : \E n \in 1 .. N : plan.tasks[i].name = graph.nodes[n].name
    BY <1>11, <2>2
  <2>4. \A n \in 1 .. N : \E i \in 1 .. N : plan.tasks[i].name = graph.nodes[n].name
    <3> TAKE n \in 1 .. N
    <3>1. PICK i \in 1 .. N : order[i] = n
      BY <1>11
    <3> QED BY <2>2, <3>1
  <2> DEFINE T == plan.tasks
             U == graph.nodes
             D == DOMAIN graph.node_name_to_idx
  <2>5. DOMAIN T = 1 .. N
    BY <1>11
  <2> HIDE DEF T, U, D
  <2>6. \A x : x \in {T[i].name : i \in DOMAIN T} <=> \E i \in 1 .. N : T[i].name = x
    BY <2>5
  <2>7. \A x : x \in D <=> \E n \in 1 .. N : U[n].name = x
    BY <2>1 DEF D, U
  <2>8. {T[i].name : i \in DOMAIN T} = D
    BY <2>3, <2>4, <2>6, <2>7 DEF T, U
  <2> QED BY <2>8 DEF T, D
<1>5. plan.guessed = {}
  BY DEF PlannedIn, MadeUpTo
<1>6. ASSUME NEW i \in 1 .. N, NEW j \in 1 .. N
      PROVE  /\ j \in plan.tasks[i].predecessors <=> i \in plan.tasks[j].successors
             /\ j \in plan.tasks[i].predecessors => j < i
             /\ j \in plan.tasks[i].predecessors <=>
                  Range(plan.tasks[j].output_descs) \cap Range(plan.tasks[i].input_descs) # {}
  <2> DEFINE Meet == Range(graph.nodes[order[j]].output_tensors) \cap Range(graph.nodes[order[i]].input_tensors) # {}
  <2>1. /\ j \in TasksOf(M, ProducersOf(graph, order[i])) <=> Meet
        /\ i \in TasksOf(M, ConsumersOf(graph, order[j])) <=> Meet
        /\ Meet => j < i
    BY <1>1, <1>2, NeighboursAre DEF M
  <2> QED BY <1>3, <2>1
<1>7. ASSUME NEW name \in DOMAIN plan.input_infos
      PROVE  LET ios == plan.input_infos[name].ios
             IN  IsInjective(ios) /\ Range(ios) = OperandIs(plan.input_infos[name].desc_id)
  <2>1. InputsBound(graph, order, plan.input_infos, N + 1, 0)
    BY DEF PlannedIn, MadeUpTo, N
  <2>2. /\ plan.input_infos[name].desc_id = graph.tensor_name_to_idx[name]
        /\ IsInjective(plan.input_infos[name].ios)
        /\ Range(plan.input_infos[name].ios) = Places(graph, order, N + 1, 0, graph.tensor_name_to_idx[name])
    BY <2>1 DEF InputsBound
  <2>3. \A t : OperandIs(t) = Places(graph, order, N + 1, 0, t)
    BY PlannedOperands DEF N
  <2> QED BY <2>2, <2>3
<1>8. ASSUME NEW t \in DOMAIN plan.tensor_dependence
      PROVE  plan.tensor_dependence[t] = Cardinality(OperandIs(t))
  <2>1. plan.tensor_dependence = [u \in DOMAIN graph.tensor_infos |-> Len(graph.tensor_infos[u].consumer_nodes)]
    BY DEF PlannedIn, MadeUpTo
  <2>2. t \in DOMAIN graph.tensor_infos /\ plan.tensor_dependence[t] = Len(graph.tensor_infos[t].consumer_nodes)
    BY <2>1
  <2>3. \A n \in DOMAIN graph.nodes : Len(graph.nodes[n].input_tensors) <= 16
    <3> TAKE n \in DOMAIN graph.nodes
    <3>1. HasItsTensors(graph.nodes[n])
      BY <1>1
    <3> QED BY <3>1, InputNum DEF HasItsTensors
  <2>4. Cardinality(OperandsThat(graph, order, t)) = Len(graph.tensor_infos[t].consumer_nodes)
    BY <1>2, <2>2, <2>3, OperandsCounted DEF N
  <2>5. OperandIs(t) = OperandsThat(graph, order, t)
    BY PlannedOperands
  <2> QED BY <2>2, <2>4, <2>5
<1>9. \A i, j \in DOMAIN plan.tasks :
        /\ j \in plan.tasks[i].predecessors <=> i \in plan.tasks[j].successors
        /\ j \in plan.tasks[i].predecessors => j < i
        /\ j \in plan.tasks[i].predecessors <=>
             Range(plan.tasks[j].output_descs) \cap Range(plan.tasks[i].input_descs) # {}
  BY <1>1, <1>6
<1>10. Len(plan.tasks) = Len(graph.nodes)
  BY <1>1 DEF N
<1> QED BY <1>4, <1>5, <1>7, <1>8, <1>9, <1>10, Zenon DEF PlanSound

(* Where a tensor that a node reads, or writes, is in the plan.             *)
LEMMA ReadSomewhere ==
  ASSUME Whole(graph), NEW order, PlannedIn(order), NEW t \in DOMAIN graph.tensor_infos
  PROVE  /\ \A n \in Range(graph.tensor_infos[t].consumer_nodes) :
              \E io \in OperandIs(t) : order[io.task_id] = n
         /\ \A io \in OperandIs(t) :
              /\ io.task_id \in DOMAIN plan.tasks
              /\ order[io.task_id] \in Range(graph.tensor_infos[t].consumer_nodes)
<1> DEFINE N == Len(graph.nodes)
           cons == graph.tensor_infos[t].consumer_nodes
<1>0. TasksMade(order, N)
  BY PlannedTasks
<1>1. DOMAIN graph.nodes = 1 .. N /\ DOMAIN plan.tasks = 1 .. N
  BY <1>0 DEF TasksMade
<1>2. /\ \A i \in 1 .. N : order[i] \in 1 .. N /\ HasItsTensors(graph.nodes[order[i]])
      /\ \A n \in 1 .. N : \E i \in 1 .. N : order[i] = n
  BY <1>0 DEF TasksMade
<1>3. OperandIs(t) = OperandsThat(graph, order, t)
  BY PlannedOperands
<1>4. \A n \in 1 .. N : t \in Range(graph.nodes[n].input_tensors) <=> n \in Range(cons)
  BY <1>1, WritesIs
<1>5. Range(cons) \subseteq 1 .. N
  BY <1>1 DEF Whole, Edges
<1> HIDE DEF cons
<1>6. ASSUME NEW n \in Range(cons)
      PROVE  \E io \in OperandIs(t) : order[io.task_id] = n
  <2> DEFINE ids == graph.nodes[n].input_tensors
  <2>1. PICK i \in 1 .. N : order[i] = n
    BY <1>2, <1>5
  <2>2. t \in Range(ids)
    BY <1>4, <1>5
  <2>3. IsSeq(ids)
    BY <1>1, <1>5 DEF Whole, IsGraph, IsNode
  <2>4. Len(ids) <= 16 /\ Len(ids) \in Nat /\ DOMAIN ids = 1 .. Len(ids)
    <3>1. HasItsTensors(graph.nodes[n])
      BY <1>2, <2>1
    <3> QED BY <2>3, <3>1, InputNum, SeqIs DEF HasItsTensors
  <2> HIDE DEF ids, N
  <2>5. PICK k \in DOMAIN ids : ids[k] = t
    BY <2>2 DEF Range
  <2>6. k \in 1 .. 16
    BY <2>4
  <2> DEFINE io == [task_id |-> i, io_id |-> k]
  <2>7. io \in [task_id : 1 .. N, io_id : 1 .. 16] /\ io.task_id = i /\ io.io_id = k
    BY <2>1, <2>6
  <2> HIDE DEF io
  <2>8. io \in OperandsThat(graph, order, t)
    BY <2>1, <2>5, <2>7 DEF OperandsThat, Inputs, ids, N
  <2> QED BY <1>3, <2>1, <2>7, <2>8
<1>7. ASSUME NEW io \in OperandIs(t)
      PROVE  io.task_id \in DOMAIN plan.tasks /\ order[io.task_id] \in Range(cons)
  <2>1. io \in OperandsThat(graph, order, t)
    BY <1>3
  <2>2. io.task_id \in 1 .. N /\ io.io_id \in DOMAIN Inputs(graph, order, io.task_id)
        /\ Inputs(graph, order, io.task_id)[io.io_id] = t
    BY <2>1 DEF OperandsThat
  <2>3. t \in Range(graph.nodes[order[io.task_id]].input_tensors)
    BY <2>2 DEF Inputs, Range
  <2> HIDE DEF N
  <2> QED BY <1>1, <1>2, <1>4, <2>2, <2>3
<1> QED BY <1>6, <1>7 DEF cons

LEMMA InPlaceIs ==
  ASSUME NEW param, NEW k \in 0 .. 1, k \in get_inplace_input_ids(param)
  PROVE  k + 1 \in 1 .. input_num(param)
<1>1. CASE param.kind = "SiLU"
  <2>1. extern_input_num(param) = 1 /\ weight_num(param) = 0 /\ k = 0
    BY <1>1 DEF extern_input_num, weight_num, get_inplace_input_ids
  <2> QED BY <2>1 DEF input_num
<1>2. CASE param.kind = "RMSNorm"
  <2>1. extern_input_num(param) = 1 /\ weight_num(param) = 1 /\ k = 0
    BY <1>2 DEF extern_input_num, weight_num, get_inplace_input_ids
  <2> QED BY <2>1 DEF input_num
<1>3. CASE param.kind \in {"Add", "Mul"}
  <2>1. extern_input_num(param) = 2 /\ weight_num(param) = 0
    BY <1>3 DEF extern_input_num, weight_num
  <2> QED BY <2>1 DEF input_num
<1>4. param.kind \in {"SiLU", "RMSNorm", "Add", "Mul"}
  BY DEF get_inplace_input_ids
<1> QED BY <1>1, <1>2, <1>3, <1>4

LEMMA ValidInOrder ==
  ASSUME Whole(graph), NEW order, PlannedIn(order), is_valid(graph)
  PROVE  ValidGraphPlan
<1> DEFINE N == Len(graph.nodes)
           idx == graph.tensor_name_to_idx
           infos == graph.tensor_infos
<1>0. TasksMade(order, N)
  BY PlannedTasks
<1>1. N \in Nat /\ DOMAIN graph.nodes = 1 .. N /\ DOMAIN plan.tasks = 1 .. N
  BY <1>0 DEF TasksMade
<1>2. /\ \A i \in 1 .. N : order[i] \in 1 .. N /\ HasItsTensors(graph.nodes[order[i]])
      /\ \A n \in 1 .. N : \E i \in 1 .. N : order[i] = n
  BY <1>0 DEF TasksMade
<1>3. \A i \in 1 .. N : /\ plan.tasks[i].param = graph.nodes[order[i]].param
                        /\ plan.tasks[i].input_descs = graph.nodes[order[i]].input_tensors
                        /\ plan.tasks[i].output_descs = graph.nodes[order[i]].output_tensors
  <2> TAKE i \in 1 .. N
  <2>1. plan.tasks[i] = TaskOf(graph, order[i], Mapping(order))
    BY <1>0 DEF TasksMade
  <2> QED BY <2>1, TaskOfIs
<1>4. /\ InputsBound(graph, order, plan.input_infos, N + 1, 0)
      /\ OutputsRecorded(graph, order, plan.output_infos, N)
  BY DEF PlannedIn, MadeUpTo
<1>5. /\ \A name \in graph.input_names : IsInput(graph, name)
      /\ \A name \in graph.output_names : IsOutput(graph, name)
      /\ is_valid_nodes(graph)
  BY DEF is_valid
<1>6. \A name \in DOMAIN idx : idx[name] \in DOMAIN infos /\ infos[idx[name]].name = name
  BY DEF Whole, NamesAgree
<1>7. \A t : OperandIs(t) = Places(graph, order, N + 1, 0, t)
  BY PlannedOperands
<1> HIDE DEF N
<1>8. DOMAIN plan.input_infos = graph.input_names
  <2>1. DOMAIN plan.input_infos \subseteq graph.input_names
    BY <1>4 DEF InputsBound
  <2>2. ASSUME NEW name \in graph.input_names PROVE name \in DOMAIN plan.input_infos
    <3> DEFINE t == idx[name]
               cons == infos[t].consumer_nodes
    <3>1. name \in DOMAIN idx /\ infos[t].producer_node = None /\ cons # <<>>
      BY <1>5 DEF IsInput, Named
    <3>2. t \in DOMAIN infos /\ infos[t].name = name
      BY <1>6, <3>1
    <3>3. IsSeq(cons)
      BY <3>2 DEF Whole, IsGraph, IsInfo
    <3> HIDE DEF cons
    <3>4. Range(cons) # {}
      <4>1. Len(cons) \in Nat /\ DOMAIN cons = 1 .. Len(cons) /\ cons = [k \in 1 .. Len(cons) |-> cons[k]]
        BY <3>3, SeqIs
      <4>2. CASE Len(cons) = 0
        <5>1. cons \in Seq(Range(cons)) /\ Len(cons) = 0
          BY <3>3, <4>2 DEF IsSeq
        <5>2. cons = <<>>
          BY <5>1
        <5> QED BY <3>1, <5>2 DEF cons
      <4>3. CASE Len(cons) # 0
        <5>1. 1 \in DOMAIN cons
          BY <4>1, <4>3
        <5> QED BY <5>1 DEF Range
      <4> QED BY <4>2, <4>3
    <3>5. PICK n : n \in Range(cons)
      BY <3>4
    <3>6. \E io \in OperandIs(t) : order[io.task_id] = n
      <4> HIDE DEF t
      <4> QED BY <3>2, <3>5, ReadSomewhere DEF cons
    <3>7. Places(graph, order, N + 1, 0, t) # {}
      BY <1>7, <3>6
    <3> HIDE DEF t
    <3>8. IsInputTensor(graph, t)
      BY <3>1, <3>2 DEF IsInputTensor
    <3> QED BY <1>4, <3>2, <3>7, <3>8 DEF InputsBound
  <2> QED BY <2>1, <2>2
<1>9. DOMAIN plan.output_infos = graph.output_names
  <2>1. DOMAIN plan.output_infos \subseteq graph.output_names
    BY <1>4 DEF OutputsRecorded
  <2>2. ASSUME NEW name \in graph.output_names PROVE name \in DOMAIN plan.output_infos
    <3> DEFINE t == idx[name]
               m == infos[t].producer_node
    <3>1. name \in DOMAIN idx /\ m # None
      BY <1>5 DEF IsOutput, Named
    <3>2. t \in DOMAIN infos /\ infos[t].name = name
      BY <1>6, <3>1
    <3>3. m \in 1 .. N
      BY <1>1, <3>1, <3>2 DEF Whole, Edges
    <3> HIDE DEF t
    <3>4. t \in Range(graph.nodes[m].output_tensors)
      BY <1>1, <3>2, <3>3, WritesIs
    <3>5. PICK i \in 1 .. N : order[i] = m
      BY <1>2, <3>3
    <3>6. t \in Range(Outputs(graph, order, i))
      BY <3>4, <3>5 DEF Outputs
    <3> QED BY <1>4, <3>2, <3>6 DEF OutputsRecorded
  <2> QED BY <2>1, <2>2
<1>10. ASSUME NEW name \in graph.output_names
       PROVE  LET info == plan.output_infos[name]
              IN  /\ plan.tasks[info.io.task_id].output_descs[info.io.io_id] = info.desc_id
                  /\ info.desc_id = graph.tensor_name_to_idx[name]
                  /\ OperandIs(info.desc_id) = {}
  <2> DEFINE info == plan.output_infos[name]
             i == info.io.task_id
  <2>1. /\ info.desc_id = idx[name] /\ i \in 1 .. N
        /\ Outputs(graph, order, i)[info.io.io_id] = info.desc_id
    BY <1>4, <1>9 DEF OutputsRecorded
  <2>2. plan.tasks[i].output_descs = Outputs(graph, order, i)
    BY <1>3, <2>1 DEF Outputs
  <2>3. OperandIs(info.desc_id) = {}
    <3> DEFINE t == idx[name]
    <3>1. name \in DOMAIN idx /\ infos[t].consumer_nodes = <<>>
      BY <1>5 DEF IsOutput, Named
    <3>2. t \in DOMAIN infos
      BY <1>6, <3>1
    <3>3. Range(infos[t].consumer_nodes) = {}
      BY <3>1, EmptyIs
    <3> HIDE DEF t
    <3>4. \A io \in OperandIs(t) : order[io.task_id] \in Range(infos[t].consumer_nodes)
      BY <3>2, ReadSomewhere
    <3>5. OperandIs(t) = {}
      BY <3>3, <3>4
    <3> QED BY <2>1, <3>5 DEF t
  <2> QED BY <2>1, <2>2, <2>3
<1>11. ASSUME NEW i \in DOMAIN plan.tasks, NEW k \in 0 .. 1, k \in get_inplace_input_ids(plan.tasks[i].param)
       PROVE  {io.task_id : io \in OperandIs(plan.tasks[i].input_descs[k + 1])} = {i}
  <2> DEFINE node == graph.nodes[order[i]]
             t == node.input_tensors[k + 1]
             cons == infos[t].consumer_nodes
  <2>1. i \in 1 .. N /\ order[i] \in DOMAIN graph.nodes /\ HasItsTensors(node)
    BY <1>1, <1>2
  <2>2. k \in get_inplace_input_ids(node.param) /\ plan.tasks[i].input_descs = node.input_tensors
    BY <1>3, <1>11, <2>1
  <2>3. k + 1 \in DOMAIN node.input_tensors
    <3>1. IsSeq(node.input_tensors) /\ Len(node.input_tensors) = input_num(node.param)
      BY <2>1 DEF Whole, IsGraph, IsNode, HasItsTensors
    <3>2. k + 1 \in 1 .. input_num(node.param)
      BY <2>2, InPlaceIs
    <3> HIDE DEF node
    <3> QED BY <3>1, <3>2, SeqIs
  <2>4. t \in Range(node.input_tensors) /\ t \in DOMAIN infos
    <3>1. t \in Range(node.input_tensors)
      BY <2>3 DEF Range
    <3>2. Range(node.input_tensors) \subseteq DOMAIN infos
      BY <2>1 DEF Whole, Edges, TouchedBy
    <3> QED BY <3>1, <3>2
  <2>5. Cardinality(Range(cons)) = 1
    <3>1. OverwritesItsOwn(graph, node)
      BY <1>5, <2>1 DEF is_valid_nodes, Ids
    <3> QED BY <2>2, <3>1 DEF OverwritesItsOwn
  <2>6. order[i] \in Range(cons)
    BY <2>1, <2>4, WritesIs
  <2>7. \A n \in Range(cons) : n = order[i]
    <3>1. IsFiniteSet(Range(cons))
      <4>1. Range(cons) \subseteq 1 .. N
        BY <1>1, <2>4 DEF Whole, Edges
      <4>2. IsFiniteSet(1 .. N)
        BY <1>1, FS_Interval
      <4> QED BY <4>1, <4>2, FS_Subset
    <3> DEFINE C == Range(cons)
    <3> HIDE DEF C
    <3>2. \E x : C = {x}
      BY <2>5, <3>1, FS_Singleton DEF C
    <3> QED BY <2>6, <3>2 DEF C
  <2>8. /\ \A n \in Range(cons) : \E io \in OperandIs(t) : order[io.task_id] = n
        /\ \A io \in OperandIs(t) : io.task_id \in DOMAIN plan.tasks /\ order[io.task_id] \in Range(cons)
    <3> HIDE DEF t
    <3> QED BY <2>4, ReadSomewhere
  <2>9. \A j \in 1 .. N : order[j] = order[i] => j = i
    BY <2>1 DEF PlannedIn, IsOrder, N
  <2> HIDE DEF t, cons
  <2>10. \A io \in OperandIs(t) : io.task_id = i
    BY <1>1, <2>7, <2>8, <2>9
  <2>11. \E io \in OperandIs(t) : io.task_id = i
    BY <2>6, <2>8, <2>10
  <2>12. {io.task_id : io \in OperandIs(t)} = {i}
    BY <2>10, <2>11
  <2> QED BY <2>2, <2>12 DEF t
<1> QED BY <1>8, <1>9, <1>10, <1>11, Zenon DEF ValidGraphPlan

-----------------------------------------------------------------------------
(* A plan is one of the graph there is, which does not change any more.     *)
PlanInv ==
  /\ Whole(graph)
  /\ plan # NoPlan => graph.nodes # <<>>
  /\ Planned => PlanIs(graph, plan)

LEMMA NoneYet == NoPlan.tasks = <<>>
BY DEF NoPlan

LEMMA PlanKept ==
  ASSUME PlanInv, [XNext]_xvars
  PROVE  PlanInv'
<1>1. Whole(graph)
  BY DEF PlanInv
<1>2. ASSUME plan' = NoPlan, Whole(graph') PROVE PlanInv'
  BY <1>2, NoneYet DEF PlanInv, Planned
<1>3. ASSUME UNCHANGED gvars PROVE PlanInv'
  BY <1>3 DEF PlanInv, Planned, gvars
<1>4. CASE GNext
  <2>1. Whole(graph')
    BY <1>1, <1>4, GraphKept
  <2>2. EmptyGraph.nodes = <<>>
    BY DEF EmptyGraph
  <2>3. ASSUME plan = NoPlan, UNCHANGED plan PROVE PlanInv'
    BY <1>2, <2>1, <2>3
  <2>4. ASSUME NEW name \in TensorNames, NEW desc \in Shapes(graph), AddTensor(name, desc.dtype, desc.cur_shape)
        PROVE  PlanInv'
    BY <2>3, <2>4 DEF AddTensor, Building, Becomes
  <2>5. ASSUME NEW name \in NodeNames(graph), NEW param \in Params(graph),
               NEW inputs \in Operands(input_num(param)), NEW outputs \in Operands(output_num(param)),
               AddNode(name, param, inputs, outputs)
        PROVE  PlanInv'
    BY <2>3, <2>5 DEF AddNode, Building, Becomes
  <2>6. ASSUME NEW names, SetInputNames(names) \/ SetOutputNames(names)
        PROVE  PlanInv'
    BY <2>3, <2>6 DEF SetInputNames, SetOutputNames, Naming, Becomes
  <2>7. ASSUME NEW config \in LlamaConfigs, NEW paged \in BOOLEAN, Parse(config, paged)
        PROVE  PlanInv'
    <3>1. graph = EmptyGraph /\ UNCHANGED plan
      BY <2>7 DEF Parse, Becomes
    <3>2. plan = NoPlan
      BY <2>2, <3>1 DEF PlanInv
    <3> QED BY <2>3, <3>1, <3>2
  <2>8. CASE Optimize
    BY <2>3, <2>8 DEF Optimize, Becomes
  <2>9. ASSUME NEW ranges \in Ranges(graph), CreatePlan(ranges)
        PROVE  PlanInv'
    <3>1. graph.nodes # <<>> /\ graph' = graph /\ plan' \in create_cuda_plan(graph, ranges)
      BY <2>9 DEF CreatePlan
    <3>2. ASSUME plan'.tasks # <<>>, plan'.threw = "no" PROVE PlanIs(graph, plan')
      <4> DEFINE p == plan'
      <4>1. p \in create_cuda_plan(graph, ranges) /\ p.tasks # <<>> /\ p.threw = "no"
        BY <3>1, <3>2
      <4> HIDE DEF p
      <4>2. PlanIs(graph, p)
        BY <1>1, <4>1, CreatedPlanIs
      <4> QED BY <4>2 DEF p
    <3> QED BY <2>1, <3>1, <3>2 DEF PlanInv, Planned
  <2> QED BY <1>4, <2>4, <2>5, <2>6, <2>7, <2>8, <2>9 DEF GNext
<1>5. CASE MakeRuntime
  <2>1. graph' = EmptyGraph /\ plan' = NoPlan
    BY <1>5 DEF MakeRuntime
  <2> QED BY <1>2, <2>1, EmptyWhole
<1>6. GNext \/ MakeRuntime \/ UNCHANGED gvars
  BY DEF XNext, xvars, CopyInput, SetPrefill, BindRequests, Execute
<1> QED BY <1>3, <1>4, <1>5, <1>6

LEMMA PlanInvHolds == XSpec => []PlanInv
<1>1. XInit => PlanInv
  BY EmptyWhole, NoneYet DEF XInit, GInit, PlanInv, Planned
<1>2. PlanInv /\ [XNext]_xvars => PlanInv'
  BY PlanKept
<1> QED BY <1>1, <1>2, PTL DEF XSpec

LEMMA InSomeOrder ==
  ASSUME PlanInv, Planned
  PROVE  Whole(graph) /\ \E order : PlannedIn(order)
BY DEF PlanInv, PlanIs, PlannedIn

(* The tasks of a plan can be executed in their order, whatever calls there *)
(* have been and whichever order topological_order chose: no kernel derived *)
(* its shapes from a tensor that was not described, dependences point back  *)
(* and agree, and every operand that is an input of the graph is recorded   *)
(* once (create_cuda_plan, cuda_plan.cpp).                                  *)
THEOREM PlanSoundCorrect == XSpec => []PlanSound
<1>1. PlanInv => PlanSound
  <2> SUFFICES ASSUME PlanInv, Planned PROVE PlanSound
    BY Zenon DEF PlanSound
  <2> QED BY InSomeOrder, SoundInOrder
<1> QED BY <1>1, PlanInvHolds, PTL

(* The plan of a graph that is_valid accepts is what the memory layout      *)
(* takes for granted: every input and output was found and is recorded      *)
(* where it is, no task reads an output, and what a task works in place on  *)
(* no other reads (graph.cpp, cuda_plan.cpp).                               *)
THEOREM ValidGraphPlanCorrect == XSpec => []ValidGraphPlan
<1>1. PlanInv => ValidGraphPlan
  <2> SUFFICES ASSUME PlanInv, Planned, is_valid(graph) PROVE ValidGraphPlan
    BY Zenon DEF ValidGraphPlan
  <2> QED BY InSomeOrder, ValidInOrder
<1> QED BY <1>1, PlanInvHolds, PTL

-----------------------------------------------------------------------------
(* What DCEPass leaves of a graph.                                          *)

NamesOf(list) == {list[k].name : k \in DOMAIN list}

(* h is what shrink leaves of g, with the numberings of what is kept.       *)
Smaller(g, R, Rt, h, nodeNew, nodeOld, tensorNew, tensorOld) ==
  /\ Whole(g) /\ Whole(h) /\ SelfContained(g, R) /\ Rt = Touched(g, R)
  /\ R \subseteq DOMAIN g.nodes /\ Rt \subseteq DOMAIN g.tensor_infos
  /\ Renumbers(nodeNew, nodeOld, R) /\ Renumbers(tensorNew, tensorOld, Rt)
  /\ DOMAIN h.nodes = 1 .. Cardinality(R) /\ DOMAIN h.tensor_infos = 1 .. Cardinality(Rt)
  /\ \A n \in R : h.nodes[nodeNew[n]] = NodeThrough(g.nodes[n], tensorNew)
  /\ \A t \in Rt : h.tensor_infos[tensorNew[t]] = InfoLeft(g.tensor_infos[t], nodeNew)
  /\ h.input_names = g.input_names \cap NamesOf(h.tensor_infos)
  /\ h.output_names = g.output_names

LEMMA ShrinkIs ==
  ASSUME NEW g, Whole(g), NEW R, SelfContained(g, R), NEW h, h = shrink(g, R)
  PROVE  \E Rt, nodeNew, nodeOld, tensorNew, tensorOld :
           Smaller(g, R, Rt, h, nodeNew, nodeOld, tensorNew, tensorOld)
<1> DEFINE Rt == Touched(g, R)
           nodeNew == OriginToNew(R)
           nodeOld == AntiFunction(nodeNew)
           tensorNew == OriginToNew(Rt)
           tensorOld == AntiFunction(tensorNew)
           node(k) == g.nodes[nodeOld[k]]
           info(k) == g.tensor_infos[tensorOld[k]]
           nodes == [k \in 1 .. Cardinality(R) |-> NodeThrough(node(k), tensorNew)]
           infos == [k \in 1 .. Cardinality(Rt) |-> InfoLeft(info(k), nodeNew)]
           names == {infos[k].name : k \in DOMAIN infos}
           nodemap == [name \in {nodes[k].name : k \in DOMAIN nodes} |->
                         CHOOSE k \in DOMAIN nodes : nodes[k].name = name]
           tensormap == [name \in names |-> CHOOSE k \in DOMAIN infos : infos[k].name = name]
<1>1. h = [nodes |-> nodes, tensor_infos |-> infos,
           node_name_to_idx |-> nodemap, tensor_name_to_idx |-> tensormap,
           input_names |-> g.input_names \cap names, output_names |-> g.output_names]
  BY Zenon DEF shrink, Touched, NodeThrough, InfoLeft
<1>2. IsSeq(g.nodes) /\ IsSeq(g.tensor_infos)
  BY DEF Whole, IsGraph
<1>3. R \subseteq DOMAIN g.nodes /\ Renumbers(nodeNew, nodeOld, R)
  <2>1. Len(g.nodes) \in Nat /\ DOMAIN g.nodes = 1 .. Len(g.nodes)
    BY <1>2, SeqIs
  <2>2. R \in SUBSET (1 .. Len(g.nodes))
    BY <2>1 DEF SelfContained
  <2> QED BY <2>1, <2>2, Renumbered
<1>4. Rt \subseteq DOMAIN g.tensor_infos /\ Renumbers(tensorNew, tensorOld, Rt)
  <2>1. Len(g.tensor_infos) \in Nat /\ DOMAIN g.tensor_infos = 1 .. Len(g.tensor_infos)
    BY <1>2, SeqIs
  <2>2. Rt \subseteq DOMAIN g.tensor_infos
    BY TouchedProducers
  <2>3. Rt \in SUBSET (1 .. Len(g.tensor_infos))
    BY <2>1, <2>2
  <2> HIDE DEF Rt
  <2> QED BY <2>1, <2>2, <2>3, Renumbered
<1>5. DOMAIN nodes = 1 .. Cardinality(R) /\ DOMAIN infos = 1 .. Cardinality(Rt)
  OBVIOUS
<1>6. /\ \A k \in 1 .. Cardinality(R) : nodes[k] = NodeThrough(node(k), tensorNew)
      /\ \A k \in 1 .. Cardinality(Rt) : infos[k] = InfoLeft(info(k), nodeNew)
  OBVIOUS
<1>7. Whole(h)
  BY ShrinkWhole
<1> HIDE DEF nodes, infos, nodemap, tensormap
<1>8. /\ h.nodes = nodes /\ h.tensor_infos = infos /\ h.output_names = g.output_names
      /\ h.input_names = g.input_names \cap NamesOf(infos)
  BY <1>1 DEF NamesOf
<1> HIDE DEF Rt, nodeNew, nodeOld, tensorNew, tensorOld
<1>9. ASSUME NEW n \in R PROVE h.nodes[nodeNew[n]] = NodeThrough(g.nodes[n], tensorNew)
  BY <1>3, <1>6, <1>8 DEF Renumbers
<1>10. ASSUME NEW t \in Rt PROVE h.tensor_infos[tensorNew[t]] = InfoLeft(g.tensor_infos[t], nodeNew)
  BY <1>4, <1>6, <1>8 DEF Renumbers
<1>11. Rt = Touched(g, R)
  BY DEF Rt
<1>12. Smaller(g, R, Rt, h, nodeNew, nodeOld, tensorNew, tensorOld)
  BY <1>3, <1>4, <1>5, <1>7, <1>8, <1>9, <1>10, <1>11 DEF Smaller
<1> QED BY <1>12

(* What is kept, as it is afterwards.                                       *)
LEMMA KeptNode ==
  ASSUME NEW g, NEW R, NEW Rt, NEW h, NEW nodeNew, NEW nodeOld, NEW tensorNew, NEW tensorOld,
         Smaller(g, R, Rt, h, nodeNew, nodeOld, tensorNew, tensorOld), NEW n \in R
  PROVE  LET a == g.nodes[n]
             b == h.nodes[nodeNew[n]]
         IN  /\ n \in DOMAIN g.nodes /\ nodeNew[n] \in DOMAIN h.nodes
             /\ b.name = a.name /\ b.param = a.param
             /\ IsSeq(a.input_tensors) /\ IsSeq(a.output_tensors)
             /\ b.input_tensors = Through(tensorNew, a.input_tensors)
             /\ b.output_tensors = Through(tensorNew, a.output_tensors)
             /\ Range(a.input_tensors) \cup Range(a.output_tensors) \subseteq Rt
<1> DEFINE a == g.nodes[n]
<1>1. n \in DOMAIN g.nodes /\ nodeNew[n] \in DOMAIN h.nodes
  BY DEF Smaller, Renumbers
<1>2. IsNode(a) /\ Range(a.input_tensors) \cup Range(a.output_tensors) \subseteq Rt
  BY <1>1 DEF Smaller, Whole, IsGraph, Touched, TouchedBy
<1>3. h.nodes[nodeNew[n]] = NodeThrough(a, tensorNew) /\ Renumbers(tensorNew, tensorOld, Rt)
  BY DEF Smaller
<1>4. IsSeq(a.input_tensors) /\ IsSeq(a.output_tensors)
  BY <1>2 DEF IsNode
<1> HIDE DEF a
<1> QED BY <1>1, <1>2, <1>3, <1>4, NodeThroughIs DEF a

LEMMA KeptTensor ==
  ASSUME NEW g, NEW R, NEW Rt, NEW h, NEW nodeNew, NEW nodeOld, NEW tensorNew, NEW tensorOld,
         Smaller(g, R, Rt, h, nodeNew, nodeOld, tensorNew, tensorOld), NEW t \in Rt
  PROVE  LET a == g.tensor_infos[t]
             b == h.tensor_infos[tensorNew[t]]
         IN  /\ t \in DOMAIN g.tensor_infos /\ tensorNew[t] \in DOMAIN h.tensor_infos
             /\ b.name = a.name /\ b.has_explicit_added = a.has_explicit_added
             /\ a.producer_node \in R \cup {None}
             /\ b.producer_node = IF a.producer_node = None THEN None ELSE nodeNew[a.producer_node]
<1> DEFINE a == g.tensor_infos[t]
<1>1. t \in DOMAIN g.tensor_infos /\ tensorNew[t] \in DOMAIN h.tensor_infos
  BY DEF Smaller, Renumbers
<1>2. IsInfo(a)
  BY <1>1 DEF Smaller, Whole, IsGraph
<1>3. h.tensor_infos[tensorNew[t]] = InfoLeft(a, nodeNew) /\ Renumbers(nodeNew, nodeOld, R)
  BY DEF Smaller
<1>4. a.producer_node \in R \cup {None}
  BY TouchedProducers DEF Smaller
<1> HIDE DEF a
<1> QED BY <1>1, <1>2, <1>3, <1>4, InfoLeftIs DEF a

(* The edges between what is kept are the same.                             *)
LEMMA KeptEdges ==
  ASSUME NEW g, NEW R, NEW Rt, NEW h, NEW nodeNew, NEW nodeOld, NEW tensorNew, NEW tensorOld,
         Smaller(g, R, Rt, h, nodeNew, nodeOld, tensorNew, tensorOld),
         NEW n \in R, NEW t \in Rt
  PROVE  LET m == nodeNew[n]
             u == tensorNew[t]
         IN  /\ u \in Range(h.nodes[m].input_tensors) <=> t \in Range(g.nodes[n].input_tensors)
             /\ u \in Range(h.nodes[m].output_tensors) <=> t \in Range(g.nodes[n].output_tensors)
             /\ m \in Range(h.tensor_infos[u].consumer_nodes) <=> n \in Range(g.tensor_infos[t].consumer_nodes)
<1> DEFINE a == g.nodes[n]
           b == h.nodes[nodeNew[n]]
<1>1. /\ n \in DOMAIN g.nodes /\ nodeNew[n] \in DOMAIN h.nodes
      /\ IsSeq(a.input_tensors) /\ IsSeq(a.output_tensors)
      /\ b.input_tensors = Through(tensorNew, a.input_tensors)
      /\ b.output_tensors = Through(tensorNew, a.output_tensors)
      /\ Range(a.input_tensors) \subseteq Rt /\ Range(a.output_tensors) \subseteq Rt
  BY KeptNode
<1>2. t \in DOMAIN g.tensor_infos /\ tensorNew[t] \in DOMAIN h.tensor_infos
  BY KeptTensor
<1>3. Renumbers(tensorNew, tensorOld, Rt) /\ Whole(g) /\ Whole(h)
  BY DEF Smaller
<1> HIDE DEF a, b
<1>4. /\ Range(b.input_tensors) = {tensorNew[i] : i \in Range(a.input_tensors)}
      /\ Range(b.output_tensors) = {tensorNew[i] : i \in Range(a.output_tensors)}
  BY <1>1, <1>3, ThroughIs
<1>5. \A i \in Rt : tensorNew[i] = tensorNew[t] => i = t
  BY <1>3 DEF Renumbers
<1>6. /\ tensorNew[t] \in Range(b.input_tensors) <=> t \in Range(a.input_tensors)
      /\ tensorNew[t] \in Range(b.output_tensors) <=> t \in Range(a.output_tensors)
  BY <1>1, <1>4, <1>5
<1>7. /\ t \in Range(a.input_tensors) <=> n \in Range(g.tensor_infos[t].consumer_nodes)
      /\ tensorNew[t] \in Range(b.input_tensors) <=> nodeNew[n] \in Range(h.tensor_infos[tensorNew[t]].consumer_nodes)
  BY <1>1, <1>2, <1>3, WritesIs DEF a, b
<1> QED BY <1>6, <1>7 DEF a, b

-----------------------------------------------------------------------------
(* What is reached from the inputs.                                         *)

ConstantsOf(g) ==
  UNION {Range(g.nodes[n].output_tensors) : n \in {k \in Ids(g.nodes) : input_num(g.nodes[k].param) = 0}}

StartOf(g) == {g.tensor_name_to_idx[name] : name \in g.input_names}

LEMMA ReachedIs ==
  ASSUME NEW g
  PROVE  Reached(g) = ConstantsOf(g) \cup AllSpread(g, ConstantsOf(g), StartOf(g), g.tensor_infos)
BY Zenon DEF Reached, AllSpread, ConstantsOf, StartOf

LEMMA NextIs ==
  ASSUME NEW g, Whole(g), NEW t \in DOMAIN g.tensor_infos, NEW u
  PROVE  u \in NextTensors(g, t) <=>
           /\ u \in DOMAIN g.tensor_infos
           /\ \E n \in DOMAIN g.nodes : /\ t \in Range(g.nodes[n].input_tensors)
                                        /\ u \in Range(g.nodes[n].output_tensors)
<1>1. Range(g.tensor_infos[t].consumer_nodes) \subseteq DOMAIN g.nodes
  BY DEF Whole, Edges
<1>2. \A n \in DOMAIN g.nodes : Range(g.nodes[n].output_tensors) \subseteq DOMAIN g.tensor_infos
  BY DEF Whole, Edges, TouchedBy
<1>3. \A n \in DOMAIN g.nodes :
        t \in Range(g.nodes[n].input_tensors) <=> n \in Range(g.tensor_infos[t].consumer_nodes)
  BY WritesIs
<1> QED BY <1>1, <1>2, <1>3 DEF NextTensors

LEMMA SpreadIs ==
  ASSUME NEW g, Whole(g), NEW constant, NEW F, F \subseteq DOMAIN g.tensor_infos
  PROVE  F \subseteq Spread(g, constant, F) /\ Spread(g, constant, F) \subseteq DOMAIN g.tensor_infos
<1>1. \A t \in F : NextTensors(g, t) \subseteq DOMAIN g.tensor_infos
  BY NextIs
<1> QED BY <1>1 DEF Spread

(* As of what the outputs need: each turn finds a tensor more, until there  *)
(* is none more to find.                                                    *)
LEMMA ReachSettled ==
  ASSUME NEW g, Whole(g), NEW constant, NEW start, start \subseteq DOMAIN g.tensor_infos
  PROVE  LET r == AllSpread(g, constant, start, g.tensor_infos)
         IN  start \subseteq r /\ r \subseteq DOMAIN g.tensor_infos /\ Spread(g, constant, r) = r
<1> DEFINE N == Len(g.tensor_infos)
           Done(F) == Spread(g, constant, F) = F
<1>1. N \in Nat /\ DOMAIN g.tensor_infos = 1 .. N
  BY SeqIs DEF Whole, IsGraph
<1>2. PICK p : /\ Stepwise(p, "reach", <<g, constant>>, start, g.tensor_infos)
               /\ AllSpread(g, constant, start, g.tensor_infos) = p[N]
  BY <1>1, ReachFold
<1> DEFINE S == {d \in 0 .. N : /\ start \subseteq p[d] /\ p[d] \subseteq 1 .. N
                                /\ Done(p[d]) \/ Cardinality(p[d]) >= d}
<1>3. IsFiniteSet(1 .. N) /\ Cardinality(1 .. N) = N
  BY <1>1, FS_Interval
<1>4. \A F : F \subseteq 1 .. N => IsFiniteSet(F) /\ Cardinality(F) \in Nat
  <2> SUFFICES ASSUME NEW F \in SUBSET (1 .. N) PROVE IsFiniteSet(F) /\ Cardinality(F) \in Nat
    OBVIOUS
  <2> QED BY <1>3, FS_Subset, FS_CardinalityType
<1> HIDE DEF Done
<1>5. 0 \in S
  <2>1. p[0] = start
    BY <1>2 DEF Stepwise
  <2>2. Cardinality(p[0]) \in Nat
    BY <1>1, <1>4, <2>1
  <2> QED BY <1>1, <2>1, <2>2
<1>6. ASSUME NEW d \in 1 .. N, d - 1 \in S PROVE d \in S
  <2> DEFINE F == p[d - 1]
             G == p[d]
  <2>1. G = Spread(g, constant, F)
    <3>1. G = Turn("reach", <<g, constant>>, F, g.tensor_infos[d])
      BY <1>2, Zenon DEF Stepwise
    <3> HIDE DEF F, G
    <3> QED BY <3>1 DEF Turn
  <2>2. start \subseteq F /\ F \subseteq 1 .. N /\ (Done(F) \/ Cardinality(F) >= d - 1)
    BY <1>6
  <2> HIDE DEF F, G
  <2>3. F \subseteq G /\ G \subseteq 1 .. N
    BY <1>1, <2>1, <2>2, SpreadIs
  <2>4. Done(G) \/ Cardinality(G) >= d
    <3>1. CASE Done(F)
      BY <2>1, <3>1 DEF Done
    <3>2. CASE ~Done(F)
      <4>1. F # G /\ Cardinality(F) >= d - 1
        BY <2>1, <2>2, <3>2 DEF Done
      <4>2. IsFiniteSet(G) /\ Cardinality(G) \in Nat /\ Cardinality(F) \in Nat
        BY <1>4, <2>2, <2>3
      <4>3. Cardinality(F) <= Cardinality(G) /\ Cardinality(F) # Cardinality(G)
        <5>1. F \in SUBSET G
          BY <2>3
        <5> QED BY <4>1, <4>2, <5>1, FS_Subset
      <4> QED BY <4>1, <4>2, <4>3
    <3> QED BY <3>1, <3>2
  <2>5. start \subseteq G
    BY <2>2, <2>3
  <2>6. d \in 0 .. N
    BY <1>1
  <2> QED BY <2>3, <2>4, <2>5, <2>6 DEF F, G
<1>7. N \in S
  <2>1. N \in 0 .. N
    BY <1>1
  <2> HIDE DEF S, N
  <2>2. \A d \in 0 .. N : d \in S
    BY <1>1, <1>5, <1>6, Upwards
  <2> QED BY <2>1, <2>2
<1> DEFINE r == p[N]
<1>8. start \subseteq r /\ r \subseteq 1 .. N /\ (Done(r) \/ Cardinality(r) >= N)
  BY <1>7
<1> HIDE DEF r, N
<1>9. Done(r)
  <2>1. CASE Done(r)
    BY <2>1
  <2>2. CASE Cardinality(r) >= N
    <3>1. r \in SUBSET (1 .. N) /\ Cardinality(r) \in Nat
      BY <1>4, <1>8
    <3>2. Cardinality(r) <= N
      BY <1>3, <3>1, FS_Subset
    <3>3. r = 1 .. N
      <4>1. Cardinality(r) = N
        BY <1>1, <2>2, <3>1, <3>2
      <4> QED BY <1>3, <3>1, <4>1, FS_Subset
    <3>4. r \subseteq Spread(g, constant, r) /\ Spread(g, constant, r) \subseteq 1 .. N
      BY <1>1, <1>8, SpreadIs
    <3>5. Spread(g, constant, r) = r
      BY <3>3, <3>4
    <3> QED BY <3>5 DEF Done
  <2> QED BY <1>8, <2>1, <2>2
<1> QED BY <1>1, <1>2, <1>8, <1>9 DEF r, Done

(* Nothing is reached but what must be.                                     *)
LEMMA ReachLeast ==
  ASSUME NEW g, Whole(g), NEW constant, NEW start, NEW Q, start \subseteq Q,
         Spread(g, constant, Q) \subseteq Q
  PROVE  AllSpread(g, constant, start, g.tensor_infos) \subseteq Q
<1> DEFINE N == Len(g.tensor_infos)
<1>1. N \in Nat /\ DOMAIN g.tensor_infos = 1 .. N
  BY SeqIs DEF Whole, IsGraph
<1>2. PICK p : /\ Stepwise(p, "reach", <<g, constant>>, start, g.tensor_infos)
               /\ AllSpread(g, constant, start, g.tensor_infos) = p[N]
  BY <1>1, ReachFold
<1> DEFINE S == {d \in 0 .. N : p[d] \subseteq Q}
<1>3. 0 \in S
  <2>1. p[0] = start
    BY <1>2 DEF Stepwise
  <2> QED BY <1>1, <2>1
<1>4. ASSUME NEW d \in 1 .. N, d - 1 \in S PROVE d \in S
  <2> DEFINE F == p[d - 1]
             G == p[d]
  <2>1. G = Spread(g, constant, F)
    <3>1. G = Turn("reach", <<g, constant>>, F, g.tensor_infos[d])
      BY <1>2, Zenon DEF Stepwise
    <3> HIDE DEF F, G
    <3> QED BY <3>1 DEF Turn
  <2>2. F \subseteq Q
    BY <1>4
  <2> HIDE DEF F, G
  <2>3. Spread(g, constant, F) \subseteq Spread(g, constant, Q)
    BY <2>2 DEF Spread
  <2> QED BY <1>1, <2>1, <2>3 DEF F, G
<1>5. N \in S
  <2>1. N \in 0 .. N
    BY <1>1
  <2> HIDE DEF S, N
  <2>2. \A d \in 0 .. N : d \in S
    BY <1>1, <1>3, <1>4, Upwards
  <2> QED BY <2>1, <2>2
<1> QED BY <1>2, <1>5

-----------------------------------------------------------------------------
(* What DCEPass leaves of a valid graph is valid.                           *)

(* The names that are kept are those of what is touched.                    *)
LEMMA KeptName ==
  ASSUME NEW g, NEW R, NEW Rt, NEW h, NEW nodeNew, NEW nodeOld, NEW tensorNew, NEW tensorOld,
         Smaller(g, R, Rt, h, nodeNew, nodeOld, tensorNew, tensorOld), NEW name
  PROVE  /\ name \in DOMAIN h.tensor_name_to_idx <=>
              name \in DOMAIN g.tensor_name_to_idx /\ g.tensor_name_to_idx[name] \in Rt
         /\ name \in DOMAIN h.tensor_name_to_idx =>
              h.tensor_name_to_idx[name] = tensorNew[g.tensor_name_to_idx[name]]
<1>1. /\ NamesAgree(g.tensor_name_to_idx, g.tensor_infos)
      /\ NamesAgree(h.tensor_name_to_idx, h.tensor_infos)
  BY DEF Smaller, Whole
<1>2. /\ DOMAIN h.tensor_infos = 1 .. Cardinality(Rt)
      /\ \A k \in 1 .. Cardinality(Rt) : tensorOld[k] \in Rt /\ tensorNew[tensorOld[k]] = k
  BY DEF Smaller, Renumbers
<1>3. \A t \in Rt : /\ t \in DOMAIN g.tensor_infos /\ tensorNew[t] \in DOMAIN h.tensor_infos
                    /\ h.tensor_infos[tensorNew[t]].name = g.tensor_infos[t].name
  BY KeptTensor
<1>4. ASSUME NEW t \in Rt, name = g.tensor_infos[t].name
      PROVE  /\ name \in DOMAIN g.tensor_name_to_idx /\ g.tensor_name_to_idx[name] = t
             /\ name \in DOMAIN h.tensor_name_to_idx /\ h.tensor_name_to_idx[name] = tensorNew[t]
  BY <1>1, <1>3, <1>4 DEF NamesAgree
<1>5. ASSUME name \in DOMAIN g.tensor_name_to_idx, g.tensor_name_to_idx[name] \in Rt
      PROVE  \E t \in Rt : name = g.tensor_infos[t].name
  BY <1>1, <1>5 DEF NamesAgree
<1>6. ASSUME name \in DOMAIN h.tensor_name_to_idx
      PROVE  \E t \in Rt : name = g.tensor_infos[t].name
  <2>1. PICK k \in DOMAIN h.tensor_infos : h.tensor_infos[k].name = name
    BY <1>1, <1>6 DEF NamesAgree
  <2>2. tensorOld[k] \in Rt /\ tensorNew[tensorOld[k]] = k
    BY <1>2, <2>1
  <2> QED BY <1>3, <2>1, <2>2
<1> QED BY <1>4, <1>5, <1>6

(* Outputs are kept, with the nodes that write them.                        *)
LEMMA OutputsKept ==
  ASSUME NEW g, NEW R, NEW Rt, NEW h, NEW nodeNew, NEW nodeOld, NEW tensorNew, NEW tensorOld,
         Smaller(g, R, Rt, h, nodeNew, nodeOld, tensorNew, tensorOld), NEW name \in g.output_names
  PROVE  /\ name \in DOMAIN g.tensor_name_to_idx
         /\ g.tensor_name_to_idx[name] \in Rt
         /\ Named(g, name).producer_node \in R
         /\ name \in DOMAIN h.tensor_name_to_idx
         /\ h.tensor_name_to_idx[name] = tensorNew[g.tensor_name_to_idx[name]]
<1> DEFINE t == g.tensor_name_to_idx[name]
<1>1. Whole(g) /\ SelfContained(g, R) /\ Rt = Touched(g, R) /\ R \subseteq DOMAIN g.nodes
  BY DEF Smaller
<1>2. name \in DOMAIN g.tensor_name_to_idx /\ t \in DOMAIN g.tensor_infos
  BY <1>1 DEF Whole, NamesAgree
<1>3. Named(g, name).producer_node \in R /\ Named(g, name) = g.tensor_infos[t]
  BY <1>1 DEF SelfContained, Named
<1> HIDE DEF t
<1>4. t \in Range(g.nodes[g.tensor_infos[t].producer_node].output_tensors)
  BY <1>1, <1>2, <1>3, WritesIs
<1>5. t \in Rt
  BY <1>1, <1>3, <1>4 DEF Touched, TouchedBy
<1> QED BY <1>2, <1>3, <1>5, KeptName DEF t

(* What was reached still is.                                               *)
LEMMA ReachedKept ==
  ASSUME NEW g, NEW R, NEW Rt, NEW h, NEW nodeNew, NEW nodeOld, NEW tensorNew, NEW tensorOld,
         Smaller(g, R, Rt, h, nodeNew, nodeOld, tensorNew, tensorOld),
         NEW t \in Rt, t \in Reached(g)
  PROVE  tensorNew[t] \in Reached(h)
<1> DEFINE C == ConstantsOf(g)
           D == ConstantsOf(h)
           F == AllSpread(h, D, StartOf(h), h.tensor_infos)
           Q == {u \in DOMAIN g.tensor_infos : u \in Rt => tensorNew[u] \in D \cup F}
<1>1. Whole(g) /\ Whole(h) /\ Rt = Touched(g, R) /\ Renumbers(nodeNew, nodeOld, R)
      /\ Renumbers(tensorNew, tensorOld, Rt) /\ R \subseteq DOMAIN g.nodes
  BY DEF Smaller
(* The node that writes what is kept is kept, and what it reads.            *)
<1>2. ASSUME NEW n \in DOMAIN g.nodes, NEW u \in Rt, u \in Range(g.nodes[n].output_tensors)
      PROVE  n \in R
  <2>1. u \in DOMAIN g.tensor_infos /\ g.tensor_infos[u].producer_node \in R \cup {None}
    BY KeptTensor
  <2>2. g.tensor_infos[u].producer_node = n
    BY <1>1, <1>2, <2>1, WritesIs
  <2>3. n # None
    BY <1>1, NotNone DEF Whole, IsGraph
  <2> QED BY <2>1, <2>2, <2>3
<1>3. ASSUME NEW u \in Rt PROVE tensorNew[u] \in D <=> u \in C
  <2>1. ASSUME u \in C PROVE tensorNew[u] \in D
    <3>1. PICK n \in DOMAIN g.nodes : input_num(g.nodes[n].param) = 0 /\ u \in Range(g.nodes[n].output_tensors)
      BY <2>1 DEF ConstantsOf, Ids
    <3>2. n \in R
      BY <1>2, <3>1
    <3>3. /\ nodeNew[n] \in DOMAIN h.nodes /\ h.nodes[nodeNew[n]].param = g.nodes[n].param
          /\ tensorNew[u] \in Range(h.nodes[nodeNew[n]].output_tensors)
      BY <3>1, <3>2, KeptNode, KeptEdges
    <3> QED BY <3>1, <3>3 DEF ConstantsOf, Ids
  <2>2. ASSUME tensorNew[u] \in D PROVE u \in C
    <3>1. PICK m \in DOMAIN h.nodes : input_num(h.nodes[m].param) = 0 /\ tensorNew[u] \in Range(h.nodes[m].output_tensors)
      BY <2>2 DEF ConstantsOf, Ids
    <3>2. PICK n \in R : nodeNew[n] = m
      BY <1>1, <3>1 DEF Smaller, Renumbers
    <3>3. /\ n \in DOMAIN g.nodes /\ h.nodes[m].param = g.nodes[n].param
          /\ u \in Range(g.nodes[n].output_tensors)
      BY <3>1, <3>2, KeptNode, KeptEdges
    <3> QED BY <3>1, <3>3 DEF ConstantsOf, Ids
  <2> QED BY <2>1, <2>2
<1> HIDE DEF C, D
<1>4. StartOf(h) \subseteq F /\ F \subseteq DOMAIN h.tensor_infos /\ Spread(h, D, F) = F
  <2>1. StartOf(h) \subseteq DOMAIN h.tensor_infos
    BY <1>1 DEF StartOf, Whole, NamesAgree
  <2> QED BY <1>1, <2>1, ReachSettled
<1> HIDE DEF F
<1>5. StartOf(g) \subseteq Q
  <2> SUFFICES ASSUME NEW name \in g.input_names PROVE g.tensor_name_to_idx[name] \in Q
    BY DEF StartOf
  <2> DEFINE u == g.tensor_name_to_idx[name]
  <2>1. u \in DOMAIN g.tensor_infos /\ g.tensor_infos[u].name = name /\ name \in DOMAIN g.tensor_name_to_idx
    BY <1>1 DEF Whole, NamesAgree
  <2>2. CASE u \in Rt
    <3>1. name \in DOMAIN h.tensor_name_to_idx /\ h.tensor_name_to_idx[name] = tensorNew[u]
      BY <2>1, <2>2, KeptName
    <3>2. name \in h.input_names
      BY <1>1, <3>1 DEF Smaller, NamesOf, Whole, NamesAgree
    <3> QED BY <1>4, <2>1, <3>1, <3>2 DEF StartOf
  <2> QED BY <2>1, <2>2
<1>6. Spread(g, C, Q) \subseteq Q
  <2> SUFFICES ASSUME NEW v \in Q, v \notin C, NEW u \in NextTensors(g, v) PROVE u \in Q
    BY DEF Spread
  <2>1. u \in DOMAIN g.tensor_infos
    BY <1>1, NextIs
  <2>2. PICK n \in DOMAIN g.nodes : v \in Range(g.nodes[n].input_tensors) /\ u \in Range(g.nodes[n].output_tensors)
    BY <1>1, NextIs
  <2>3. CASE u \in Rt
    <3>1. n \in R
      BY <1>2, <2>2, <2>3
    <3>2. v \in Rt
      BY <2>2, <3>1, KeptNode
    <3>3. tensorNew[v] \in F
      BY <1>3, <3>2
    <3>4. /\ nodeNew[n] \in DOMAIN h.nodes
          /\ tensorNew[v] \in Range(h.nodes[nodeNew[n]].input_tensors)
          /\ tensorNew[u] \in Range(h.nodes[nodeNew[n]].output_tensors)
      BY <2>2, <2>3, <3>1, <3>2, KeptNode, KeptEdges
    <3>5. tensorNew[v] \in DOMAIN h.tensor_infos /\ tensorNew[u] \in DOMAIN h.tensor_infos
      BY <2>3, <3>2, KeptTensor
    <3>6. tensorNew[u] \in NextTensors(h, tensorNew[v])
      BY <1>1, <3>4, <3>5, NextIs
    <3>7. tensorNew[u] \in Spread(h, D, F)
      BY <1>3, <3>2, <3>3, <3>6 DEF Spread
    <3> QED BY <1>4, <2>1, <3>7
  <2> QED BY <2>1, <2>3
<1>7. t \in Q
  <2> HIDE DEF Q
  <2>1. AllSpread(g, C, StartOf(g), g.tensor_infos) \subseteq Q
    BY <1>1, <1>5, <1>6, ReachLeast
  <2>2. CASE t \in C
    <3>1. t \in DOMAIN g.tensor_infos /\ tensorNew[t] \in D
      BY <1>3, <2>2, KeptTensor
    <3> QED BY <3>1 DEF Q
  <2> QED BY <2>1, <2>2, ReachedIs DEF C
<1> QED BY <1>7, ReachedIs DEF D, F

LEMMA MapIsValid ==
  ASSUME NEW map, NEW list, IsSeq(list), NamesAgree(map, list)
  PROVE  is_valid_map(map) /\ Cardinality(DOMAIN map) = Len(list)
<1> DEFINE n == Len(list)
           f == [k \in 1 .. n |-> list[k].name]
<1>1. n \in Nat /\ DOMAIN list = 1 .. n
  BY SeqIs
<1>2. /\ \A k \in 1 .. n : f[k] \in DOMAIN map /\ map[f[k]] = k
      /\ \A z \in DOMAIN map : \E k \in 1 .. n : f[k] = z
  <2>1. \A k \in 1 .. n : f[k] = list[k].name
    OBVIOUS
  <2> HIDE DEF f
  <2>2. \A k \in 1 .. n : f[k] \in DOMAIN map /\ map[f[k]] = k
    BY <1>1, <2>1 DEF NamesAgree
  <2>3. \A z \in DOMAIN map : \E k \in 1 .. n : f[k] = z
    BY <1>1, <2>1 DEF NamesAgree
  <2> QED BY <2>2, <2>3
<1>3. f = [k \in 1 .. n |-> f[k]]
  OBVIOUS
<1> HIDE DEF f, n
<1>4. IsFiniteSet(1 .. n) /\ Cardinality(1 .. n) = n
  BY <1>1, FS_Interval
<1>5. ASSUME NEW j \in 1 .. n, NEW k \in 1 .. n, f[j] = f[k] PROVE j = k
  <2>1. map[f[j]] = j /\ map[f[k]] = k
    BY <1>2
  <2> QED BY <1>5, <2>1
<1>6. Cardinality(DOMAIN map) = n
  <2>1. \A j, k \in 1 .. n : f[j] = f[k] => j = k
    BY <1>5
  <2>2. \A k \in 1 .. n : f[k] \in DOMAIN map
    BY <1>2
  <2> DEFINE T == DOMAIN map
  <2> HIDE DEF T
  <2>3. (\A k \in 1 .. n : f[k] \in T) /\ (\A z \in T : \E k \in 1 .. n : f[k] = z)
    BY <1>2, <2>2 DEF T
  <2>4. Cardinality(T) = Cardinality(1 .. n)
    BY <1>3, <1>4, <2>1, <2>3, OneToOne
  <2> QED BY <1>4, <2>4 DEF T
<1>7. {map[name] : name \in DOMAIN map} = 1 .. n
  BY <1>2
<1> QED BY <1>6, <1>7 DEF is_valid_map, n

LEMMA InfosStayValid ==
  ASSUME NEW g, NEW R, NEW Rt, NEW h, NEW nodeNew, NEW nodeOld, NEW tensorNew, NEW tensorOld,
         Smaller(g, R, Rt, h, nodeNew, nodeOld, tensorNew, tensorOld), is_valid_tensor_infos(g)
  PROVE  is_valid_tensor_infos(h)
<1> SUFFICES ASSUME NEW u \in DOMAIN h.tensor_infos
             PROVE  /\ h.tensor_infos[u].name \in DOMAIN h.tensor_name_to_idx
                    /\ Range(h.tensor_infos[u].consumer_nodes) \subseteq DOMAIN h.nodes
                    /\ \/ h.tensor_infos[u].producer_node \in DOMAIN h.nodes
                       \/ h.tensor_infos[u].producer_node = None /\ h.tensor_infos[u].has_explicit_added
  BY DEF is_valid_tensor_infos, Ids
<1>1. Whole(h)
  BY DEF Smaller
<1>2. /\ h.tensor_infos[u].name \in DOMAIN h.tensor_name_to_idx
      /\ Range(h.tensor_infos[u].consumer_nodes) \subseteq DOMAIN h.nodes
      /\ h.tensor_infos[u].producer_node \in DOMAIN h.nodes \cup {None}
  BY <1>1 DEF Whole, NamesAgree, Edges
<1>3. PICK t \in Rt : u = tensorNew[t]
  BY DEF Smaller, Renumbers
<1>4. CASE h.tensor_infos[u].producer_node = None
  <2>1. /\ t \in DOMAIN g.tensor_infos
        /\ h.tensor_infos[u].has_explicit_added = g.tensor_infos[t].has_explicit_added
        /\ g.tensor_infos[t].producer_node \in R \cup {None}
        /\ h.tensor_infos[u].producer_node
             = IF g.tensor_infos[t].producer_node = None THEN None ELSE nodeNew[g.tensor_infos[t].producer_node]
    BY <1>3, KeptTensor
  <2>2. \A n \in R : nodeNew[n] \in DOMAIN h.nodes
    BY KeptNode
  <2>3. None \notin DOMAIN h.nodes /\ None \notin DOMAIN g.nodes
    BY <1>1, NotNone DEF Smaller, Whole, IsGraph
  <2>4. g.tensor_infos[t].producer_node = None
    BY <1>4, <2>1, <2>2, <2>3
  <2>5. g.tensor_infos[t].has_explicit_added
    BY <2>1, <2>3, <2>4 DEF is_valid_tensor_infos, Ids
  <2> QED BY <1>2, <1>4, <2>1, <2>5
<1> QED BY <1>2, <1>4

(* A node that was the only one to read its operand still is.               *)
LEMMA NodesStayValid ==
  ASSUME NEW g, NEW R, NEW Rt, NEW h, NEW nodeNew, NEW nodeOld, NEW tensorNew, NEW tensorOld,
         Smaller(g, R, Rt, h, nodeNew, nodeOld, tensorNew, tensorOld), is_valid_nodes(g)
  PROVE  is_valid_nodes(h)
<1>0. Whole(g) /\ Whole(h) /\ R \subseteq DOMAIN g.nodes /\ Renumbers(tensorNew, tensorOld, Rt)
  BY DEF Smaller
<1> SUFFICES ASSUME NEW m \in DOMAIN h.nodes
             PROVE  /\ h.nodes[m].name \in DOMAIN h.node_name_to_idx
                    /\ Range(h.nodes[m].input_tensors) \cup Range(h.nodes[m].output_tensors) \subseteq DOMAIN h.tensor_infos
                    /\ OverwritesItsOwn(h, h.nodes[m])
  BY DEF is_valid_nodes, Ids
<1>1. /\ h.nodes[m].name \in DOMAIN h.node_name_to_idx
      /\ Range(h.nodes[m].input_tensors) \cup Range(h.nodes[m].output_tensors) \subseteq DOMAIN h.tensor_infos
  BY <1>0 DEF Whole, NamesAgree, Edges, TouchedBy
<1>2. PICK n \in R : m = nodeNew[n]
  BY DEF Smaller, Renumbers
<1>3. /\ h.nodes[m].param = g.nodes[n].param
      /\ h.nodes[m].input_tensors = Through(tensorNew, g.nodes[n].input_tensors)
      /\ Range(g.nodes[n].input_tensors) \subseteq Rt
  BY <1>2, KeptNode
<1>4. OverwritesItsOwn(g, g.nodes[n])
  BY <1>0 DEF is_valid_nodes, Ids
<1>5. ASSUME NEW k \in get_inplace_input_ids(h.nodes[m].param)
      PROVE  /\ k + 1 \in DOMAIN h.nodes[m].input_tensors
             /\ Cardinality(Range(h.tensor_infos[h.nodes[m].input_tensors[k + 1]].consumer_nodes)) = 1
  <2> DEFINE t == g.nodes[n].input_tensors[k + 1]
             C == Range(g.tensor_infos[t].consumer_nodes)
             D == Range(h.tensor_infos[tensorNew[t]].consumer_nodes)
  <2>1. k + 1 \in DOMAIN g.nodes[n].input_tensors /\ Cardinality(C) = 1
    BY <1>3, <1>4, <1>5 DEF OverwritesItsOwn
  <2>2. k + 1 \in DOMAIN h.nodes[m].input_tensors /\ h.nodes[m].input_tensors[k + 1] = tensorNew[t]
    BY <1>3, <2>1 DEF Through
  <2>3. t \in Range(g.nodes[n].input_tensors) /\ t \in Rt
    BY <1>3, <2>1 DEF Range
  <2> HIDE DEF t
  <2>4. t \in DOMAIN g.tensor_infos /\ tensorNew[t] \in DOMAIN h.tensor_infos
    BY <2>3, KeptTensor
  <2>5. n \in C
    BY <1>0, <2>3, <2>4, WritesIs
  <2>6. IsFiniteSet(C)
    <3>1. C \subseteq DOMAIN g.nodes /\ IsSeq(g.nodes)
      BY <1>0, <2>4 DEF Whole, Edges, IsGraph
    <3>2. Len(g.nodes) \in Nat /\ DOMAIN g.nodes = 1 .. Len(g.nodes)
      BY <3>1, SeqIs
    <3> HIDE DEF C
    <3>3. C \in SUBSET (1 .. Len(g.nodes)) /\ IsFiniteSet(1 .. Len(g.nodes))
      BY <3>1, <3>2, FS_Interval
    <3> QED BY <3>3, FS_Subset
  <2>7. C = {n}
    <3> HIDE DEF C
    <3>1. PICK x : C = {x}
      BY <2>1, <2>6, FS_Singleton
    <3> QED BY <2>5, <3>1
  <2>8. D = {m}
    <3>1. D \subseteq DOMAIN h.nodes
      BY <1>0, <2>4 DEF Whole, Edges
    <3>2. m \in D
      BY <1>2, <2>3, <2>5, KeptEdges
    <3>3. ASSUME NEW i \in D PROVE i = m
      <4>1. PICK j \in R : i = nodeNew[j]
        BY <3>1 DEF Smaller, Renumbers
      <4>2. j \in C
        BY <2>3, <4>1, KeptEdges
      <4> QED BY <1>2, <2>7, <4>1, <4>2
    <3> QED BY <3>2, <3>3
  <2>9. Cardinality(D) = 1
    <3> HIDE DEF D
    <3> QED BY <2>8, FS_Singleton
  <2> QED BY <2>2, <2>9
<1>6. OverwritesItsOwn(h, h.nodes[m])
  BY <1>5 DEF OverwritesItsOwn
<1> QED BY <1>1, <1>6

(* An input that is kept is read by a node that is kept.                    *)
LEMMA InputsStay ==
  ASSUME NEW g, NEW R, NEW Rt, NEW h, NEW nodeNew, NEW nodeOld, NEW tensorNew, NEW tensorOld,
         Smaller(g, R, Rt, h, nodeNew, nodeOld, tensorNew, tensorOld),
         \A name \in g.input_names : IsInput(g, name), NEW name \in h.input_names
  PROVE  IsInput(h, name)
<1> DEFINE t == g.tensor_name_to_idx[name]
<1>0. Whole(g) /\ Whole(h) /\ R \subseteq DOMAIN g.nodes /\ Rt = Touched(g, R)
  BY DEF Smaller
<1>1. name \in g.input_names /\ name \in DOMAIN h.tensor_name_to_idx
  BY <1>0 DEF Smaller, Whole
<1>2. t \in Rt /\ h.tensor_name_to_idx[name] = tensorNew[t]
  BY <1>1, KeptName
<1>3. IsInput(g, name)
  BY <1>1
<1>4. g.tensor_infos[t].producer_node = None
  BY <1>3 DEF IsInput, Named
<1> HIDE DEF t
<1>5. /\ h.tensor_infos[tensorNew[t]].producer_node = None
      /\ t \in DOMAIN g.tensor_infos /\ tensorNew[t] \in DOMAIN h.tensor_infos
  BY <1>2, <1>4, KeptTensor
<1>6. PICK n \in R : t \in TouchedBy(g.nodes[n])
  BY <1>0, <1>2 DEF Touched
<1>7. None \notin DOMAIN g.nodes
  BY <1>0, NotNone DEF Whole, IsGraph
<1>8. t \in Range(g.nodes[n].input_tensors)
  BY <1>0, <1>4, <1>5, <1>6, <1>7, WritesIs DEF TouchedBy
<1>9. n \in Range(g.tensor_infos[t].consumer_nodes)
  BY <1>0, <1>5, <1>8, WritesIs
<1>10. nodeNew[n] \in Range(h.tensor_infos[tensorNew[t]].consumer_nodes)
  BY <1>2, <1>9, KeptEdges
<1>11. h.tensor_infos[tensorNew[t]].consumer_nodes # <<>>
  BY <1>10, EmptyIs
<1> QED BY <1>1, <1>2, <1>5, <1>11 DEF IsInput, Named

LEMMA OutputsStay ==
  ASSUME NEW g, NEW R, NEW Rt, NEW h, NEW nodeNew, NEW nodeOld, NEW tensorNew, NEW tensorOld,
         Smaller(g, R, Rt, h, nodeNew, nodeOld, tensorNew, tensorOld),
         NEW name \in g.output_names, IsOutput(g, name)
  PROVE  IsOutput(h, name)
<1> DEFINE t == g.tensor_name_to_idx[name]
<1>0. Whole(g) /\ Whole(h)
  BY DEF Smaller
<1>1. /\ t \in Rt /\ g.tensor_infos[t].producer_node \in R
      /\ name \in DOMAIN h.tensor_name_to_idx /\ h.tensor_name_to_idx[name] = tensorNew[t]
  BY OutputsKept DEF Named
<1>2. g.tensor_infos[t].consumer_nodes = <<>>
  BY DEF IsOutput, Named
<1> HIDE DEF t
<1>3. /\ t \in DOMAIN g.tensor_infos /\ tensorNew[t] \in DOMAIN h.tensor_infos
      /\ h.tensor_infos[tensorNew[t]].producer_node
           = IF g.tensor_infos[t].producer_node = None THEN None ELSE nodeNew[g.tensor_infos[t].producer_node]
  BY <1>1, KeptTensor
<1>4. None \notin DOMAIN g.nodes /\ None \notin DOMAIN h.nodes
  BY <1>0, NotNone DEF Whole, IsGraph
<1>5. /\ g.tensor_infos[t].producer_node \in DOMAIN g.nodes
      /\ nodeNew[g.tensor_infos[t].producer_node] \in DOMAIN h.nodes
  BY <1>1, KeptNode
<1>6. h.tensor_infos[tensorNew[t]].producer_node # None
  BY <1>3, <1>4, <1>5
<1>7. h.tensor_infos[tensorNew[t]].consumer_nodes = <<>>
  <2> DEFINE s == h.tensor_infos[tensorNew[t]].consumer_nodes
  <2>1. IsSeq(s) /\ Range(s) \subseteq DOMAIN h.nodes
    BY <1>0, <1>3 DEF Whole, IsGraph, IsInfo, Edges
  <2>2. ASSUME NEW i \in Range(s) PROVE FALSE
    <3>1. PICK n \in R : i = nodeNew[n]
      BY <2>1 DEF Smaller, Renumbers
    <3>2. n \in Range(g.tensor_infos[t].consumer_nodes)
      BY <1>1, <3>1, KeptEdges
    <3> QED BY <1>2, <3>2, EmptyIs
  <2> HIDE DEF s
  <2>3. Len(s) \in Nat /\ DOMAIN s = 1 .. Len(s)
    BY <2>1, SeqIs
  <2>4. Len(s) = 0
    <3>1. ASSUME Len(s) # 0 PROVE FALSE
      <4>1. 1 \in DOMAIN s
        BY <2>3, <3>1
      <4>2. s[1] \in Range(s)
        BY <4>1 DEF Range
      <4> QED BY <2>2, <4>2
    <3> QED BY <3>1
  <2>5. s \in Seq(Range(s))
    BY <2>1 DEF IsSeq
  <2> QED BY <2>4, <2>5 DEF s
<1> QED BY <1>1, <1>6, <1>7 DEF IsOutput, Named

LEMMA ValidKept ==
  ASSUME NEW g, NEW R, NEW Rt, NEW h, NEW nodeNew, NEW nodeOld, NEW tensorNew, NEW tensorOld,
         Smaller(g, R, Rt, h, nodeNew, nodeOld, tensorNew, tensorOld), is_valid(g)
  PROVE  is_valid(h)
<1>1. h.output_names = g.output_names /\ Whole(g) /\ Whole(h)
  BY DEF Smaller
<1>2. /\ is_valid_map(h.tensor_name_to_idx) /\ Cardinality(DOMAIN h.tensor_name_to_idx) = Len(h.tensor_infos)
      /\ is_valid_map(h.node_name_to_idx) /\ Cardinality(DOMAIN h.node_name_to_idx) = Len(h.nodes)
  BY <1>1, MapIsValid DEF Whole, IsGraph
<1>3. is_valid_tensor_infos(h)
  BY InfosStayValid DEF is_valid
<1>4. is_valid_nodes(h)
  BY NodesStayValid DEF is_valid
<1>5. \A name \in h.input_names : IsInput(h, name)
  BY InputsStay DEF is_valid
<1>6. \A name \in h.output_names : IsOutput(h, name)
  BY <1>1, OutputsStay DEF is_valid
<1>7. {h.tensor_name_to_idx[name] : name \in h.output_names} \subseteq Reached(h)
  <2> SUFFICES ASSUME NEW name \in g.output_names PROVE h.tensor_name_to_idx[name] \in Reached(h)
    BY <1>1
  <2>1. g.tensor_name_to_idx[name] \in Reached(g)
    BY DEF is_valid
  <2>2. g.tensor_name_to_idx[name] \in Rt /\ h.tensor_name_to_idx[name] = tensorNew[g.tensor_name_to_idx[name]]
    BY OutputsKept
  <2> QED BY <2>1, <2>2, ReachedKept
<1>8. h.output_names # {}
  BY <1>1 DEF is_valid
<1> QED BY <1>2, <1>3, <1>4, <1>5, <1>6, <1>7, <1>8 DEF is_valid

-----------------------------------------------------------------------------
(* Terms, level by level.                                                   *)

Leaves(g) == [u \in DOMAIN g.tensor_infos |-> <<g.tensor_infos[u].name, 0, <<>>>>]

(* What the recursive function of Term is at one depth.                     *)
TermsAt(g, term, d) ==
  [u \in DOMAIN g.tensor_infos |->
     LET producer == g.tensor_infos[u].producer_node
         node == g.nodes[producer]
     IN  IF producer = None \/ d = 0 THEN <<g.tensor_infos[u].name, 0, <<>>>>
         ELSE <<node.name, CHOOSE k \in DOMAIN node.output_tensors : node.output_tensors[k] = u,
                [k \in DOMAIN node.input_tensors |-> term[d - 1][node.input_tensors[k]]]>>]

LEMMA TermsLevel ==
  ASSUME NEW g, NEW term, NEW d \in Nat
  PROVE  TermsAt(g, term, d) = IF d = 0 THEN Leaves(g) ELSE TermsOver(g, term[d - 1])
<1>1. CASE d = 0
  BY <1>1, Zenon DEF TermsAt, Leaves
<1>2. CASE d # 0
  <2> DEFINE below == term[d - 1]
             node(u) == g.nodes[g.tensor_infos[u].producer_node]
             X(u) == <<node(u).name, CHOOSE k \in DOMAIN node(u).output_tensors : node(u).output_tensors[k] = u,
                       [k \in DOMAIN node(u).input_tensors |-> below[node(u).input_tensors[k]]]>>
             leaf(u) == <<g.tensor_infos[u].name, 0, <<>>>>
             A(u) == IF g.tensor_infos[u].producer_node = None \/ d = 0 THEN leaf(u) ELSE X(u)
             B(u) == IF g.tensor_infos[u].producer_node = None THEN leaf(u) ELSE X(u)
  <2>1. TermsAt(g, term, d) = [u \in DOMAIN g.tensor_infos |-> A(u)]
    BY Zenon DEF TermsAt
  <2>2. TermsOver(g, below) = [u \in DOMAIN g.tensor_infos |-> B(u)]
    BY Zenon DEF TermsOver
  <2> HIDE DEF X, leaf
  <2>3. \A u : A(u) = B(u)
    BY <1>2
  <2> HIDE DEF A, B
  <2>4. [u \in DOMAIN g.tensor_infos |-> A(u)] = [u \in DOMAIN g.tensor_infos |-> B(u)]
    BY <2>3
  <2> QED BY <1>2, <2>1, <2>2, <2>4
<1> QED BY <1>1, <1>2

LEMMA TermIs ==
  ASSUME NEW g, NEW D \in Nat
  PROVE  \E term : /\ term[0] = Leaves(g)
                   /\ \A d \in 1 .. D : term[d] = TermsOver(g, term[d - 1])
                   /\ \A t : Term(g, t, D) = term[D][t]
<1> DEFINE P(term) == term = [d \in 0 .. D |-> TermsAt(g, term, d)]
           c == CHOOSE term : P(term)
           s == [k \in 1 .. D |-> k]
<1>1. \A t : Term(g, t, D) = c[D][t]
  BY Zenon DEF Term, TermsAt
<1>2. Len(s) = D
  OBVIOUS
<1> HIDE DEF s
<1>3. PICK h : IsFold(h, "term", g, Leaves(g), s, D)
  BY FoldExists
<1>4. PICK p : Stepwise(p, "term", g, Leaves(g), s)
  BY <1>2, <1>3, FoldSteps
<1> DEFINE f == [d \in 0 .. D |-> p[d]]
<1>5. ASSUME NEW d \in 0 .. D PROVE f[d] = TermsAt(g, f, d)
  <2>1. CASE d = 0
    <3>1. f[d] = Leaves(g)
      BY <1>4, <2>1 DEF Stepwise
    <3> HIDE DEF f
    <3> QED BY <2>1, <3>1, TermsLevel
  <2>2. CASE d # 0
    <3>1. d \in 1 .. D /\ d - 1 \in 0 .. D
      BY <2>2
    <3>2. p[d] = Turn("term", g, p[d - 1], s[d])
      BY <1>2, <1>4, <3>1 DEF Stepwise
    <3>3. p[d] = TermsOver(g, p[d - 1])
      BY <3>2, Zenon DEF Turn
    <3>4. f[d] = p[d] /\ f[d - 1] = p[d - 1]
      BY <3>1
    <3> HIDE DEF f
    <3>5. f[d] = TermsOver(g, f[d - 1])
      BY <3>3, <3>4
    <3> QED BY <2>2, <3>5, TermsLevel
  <2> QED BY <2>1, <2>2
<1>6. P(f)
  <2>1. f = [d \in 0 .. D |-> f[d]]
    OBVIOUS
  <2> HIDE DEF f
  <2> QED BY <1>5, <2>1
<1>7. P(c)
  <2> HIDE DEF P
  <2> QED BY <1>6
<1> HIDE DEF c
<1>8. c[0] = Leaves(g)
  <2>1. c[0] = TermsAt(g, c, 0)
    BY <1>7
  <2> QED BY <2>1, TermsLevel
<1>9. ASSUME NEW d \in 1 .. D PROVE c[d] = TermsOver(g, c[d - 1])
  <2>1. c[d] = TermsAt(g, c, d)
    BY <1>7
  <2>2. d \in Nat /\ d # 0
    OBVIOUS
  <2> QED BY <2>1, <2>2, TermsLevel
<1> QED BY <1>1, <1>8, <1>9

-----------------------------------------------------------------------------
(* What is kept means what it meant.                                        *)

(* The place of a tensor among the outputs of its producer.                 *)
PlaceOf(node, u) == CHOOSE k \in DOMAIN node.output_tensors : node.output_tensors[k] = u

LEMMA ThePlace ==
  ASSUME NEW s, NEW x, Occurrences(s, x) = 1, IsSeq(s)
  PROVE  \E place \in DOMAIN s : s[place] = x /\ \A k \in DOMAIN s : s[k] = x => k = place
<1> DEFINE S == {k \in DOMAIN s : s[k] = x}
<1>1. IsFiniteSet(S) /\ Cardinality(S) = 1
  BY OccurrencesType DEF Occurrences
<1> HIDE DEF S
<1>2. PICK place : S = {place}
  BY <1>1, FS_Singleton
<1> QED BY <1>2 DEF S

LEMMA PlaceIs ==
  ASSUME NEW node, NEW u, NEW place \in DOMAIN node.output_tensors, node.output_tensors[place] = u,
         \A k \in DOMAIN node.output_tensors : node.output_tensors[k] = u => k = place
  PROVE  PlaceOf(node, u) = place
<1> DEFINE c == CHOOSE k \in DOMAIN node.output_tensors : node.output_tensors[k] = u
<1>1. c \in DOMAIN node.output_tensors /\ node.output_tensors[c] = u
  BY Zenon
<1> HIDE DEF c
<1>2. c = place
  BY <1>1
<1> QED BY <1>2 DEF c, PlaceOf

LEMMA LeafOf ==
  ASSUME NEW g, NEW below, NEW u \in DOMAIN g.tensor_infos, g.tensor_infos[u].producer_node = None
  PROVE  TermsOver(g, below)[u] = <<g.tensor_infos[u].name, 0, <<>>>>
<1> DEFINE node == g.nodes[g.tensor_infos[u].producer_node]
           X == <<node.name, CHOOSE k \in DOMAIN node.output_tensors : node.output_tensors[k] = u,
                  [k \in DOMAIN node.input_tensors |-> below[node.input_tensors[k]]]>>
<1>1. TermsOver(g, below)[u] = IF g.tensor_infos[u].producer_node = None
                                 THEN <<g.tensor_infos[u].name, 0, <<>>>> ELSE X
  BY Zenon DEF TermsOver
<1> HIDE DEF X
<1> QED BY <1>1

LEMMA TermOf ==
  ASSUME NEW g, NEW below, NEW u \in DOMAIN g.tensor_infos, NEW n, g.tensor_infos[u].producer_node = n, n # None
  PROVE  TermsOver(g, below)[u]
           = <<g.nodes[n].name, PlaceOf(g.nodes[n], u),
               [k \in DOMAIN g.nodes[n].input_tensors |-> below[g.nodes[n].input_tensors[k]]]>>
<1> DEFINE node == g.nodes[g.tensor_infos[u].producer_node]
           X == <<node.name, CHOOSE k \in DOMAIN node.output_tensors : node.output_tensors[k] = u,
                  [k \in DOMAIN node.input_tensors |-> below[node.input_tensors[k]]]>>
           leaf == <<g.tensor_infos[u].name, 0, <<>>>>
<1>1. TermsOver(g, below)[u] = IF g.tensor_infos[u].producer_node = None THEN leaf ELSE X
  BY Zenon DEF TermsOver
<1>2. X = <<g.nodes[n].name, PlaceOf(g.nodes[n], u),
            [k \in DOMAIN g.nodes[n].input_tensors |-> below[g.nodes[n].input_tensors[k]]]>>
  BY Zenon DEF PlaceOf
<1> HIDE DEF X, leaf
<1>3. TermsOver(g, below)[u] = X
  BY <1>1
<1> QED BY <1>2, <1>3, Zenon

LEMMA TermWith ==
  ASSUME NEW g, NEW below, NEW u \in DOMAIN g.tensor_infos, NEW n, g.tensor_infos[u].producer_node = n, n # None,
         NEW x, x = g.nodes[n], NEW name, name = x.name, NEW place, place = PlaceOf(x, u),
         NEW ops, ops = [k \in DOMAIN x.input_tensors |-> below[x.input_tensors[k]]]
  PROVE  TermsOver(g, below)[u] = <<name, place, ops>>
<1>1. TermsOver(g, below)[u]
        = <<g.nodes[n].name, PlaceOf(g.nodes[n], u),
            [k \in DOMAIN g.nodes[n].input_tensors |-> below[g.nodes[n].input_tensors[k]]]>>
  BY TermOf
<1> QED BY <1>1, Zenon

LEMMA TermKept ==
  ASSUME NEW g, NEW R, NEW Rt, NEW h, NEW nodeNew, NEW nodeOld, NEW tensorNew, NEW tensorOld,
         Smaller(g, R, Rt, h, nodeNew, nodeOld, tensorNew, tensorOld),
         NEW a, NEW b, \A t \in Rt : a[t] = b[tensorNew[t]], NEW t \in Rt
  PROVE  TermsOver(g, a)[t] = TermsOver(h, b)[tensorNew[t]]
<1> DEFINE u == tensorNew[t]
           n == g.tensor_infos[t].producer_node
           m == nodeNew[n]
<1>0. Whole(g) /\ Whole(h) /\ Renumbers(tensorNew, tensorOld, Rt)
  BY DEF Smaller
<1>1. /\ t \in DOMAIN g.tensor_infos /\ u \in DOMAIN h.tensor_infos
      /\ h.tensor_infos[u].name = g.tensor_infos[t].name
      /\ n \in R \cup {None}
      /\ h.tensor_infos[u].producer_node = IF n = None THEN None ELSE m
  BY KeptTensor
<1>2. CASE n = None
  <2>1. h.tensor_infos[u].producer_node = None
    BY <1>1, <1>2
  <2> QED BY <1>1, <1>2, <2>1, LeafOf
<1>3. CASE n # None
  <2> DEFINE x == g.nodes[n]
             y == h.nodes[m]
  <2>1. n \in R
    BY <1>1, <1>3
  <2>2. /\ n \in DOMAIN g.nodes /\ m \in DOMAIN h.nodes
        /\ y.name = x.name
        /\ IsSeq(x.output_tensors)
        /\ y.input_tensors = Through(tensorNew, x.input_tensors)
        /\ y.output_tensors = Through(tensorNew, x.output_tensors)
        /\ Range(x.input_tensors) \subseteq Rt /\ Range(x.output_tensors) \subseteq Rt
    BY <2>1, KeptNode
  <2>3. m # None /\ h.tensor_infos[u].producer_node = m
    BY <1>0, <1>1, <1>3, <2>2, NotNone DEF Whole, IsGraph
  <2>4. Occurrences(x.output_tensors, t) = 1
    BY <1>0, <1>1, <2>2 DEF Whole, Edges, Paired
  <2> HIDE DEF x, y, u, m, n
  <2>5. PICK place \in DOMAIN x.output_tensors :
          x.output_tensors[place] = t /\ \A k \in DOMAIN x.output_tensors : x.output_tensors[k] = t => k = place
    BY <2>2, <2>4, ThePlace
  <2>6. PlaceOf(x, t) = place
    BY <2>5, PlaceIs
  <2>7. PlaceOf(y, u) = place
    <3>1. /\ DOMAIN y.output_tensors = DOMAIN x.output_tensors
          /\ \A k \in DOMAIN x.output_tensors : y.output_tensors[k] = tensorNew[x.output_tensors[k]]
      BY <2>2 DEF Through
    <3>2. \A k \in DOMAIN x.output_tensors : x.output_tensors[k] \in Rt
      BY <2>2 DEF Range
    <3>3. \A v \in Rt : tensorNew[v] = u => v = t
      BY <1>0 DEF Renumbers, u
    <3>4. place \in DOMAIN y.output_tensors /\ y.output_tensors[place] = u
      BY <2>5, <3>1 DEF u
    <3>5. \A k \in DOMAIN y.output_tensors : y.output_tensors[k] = u => k = place
      BY <2>5, <3>1, <3>2, <3>3
    <3> QED BY <3>4, <3>5, PlaceIs
  <2> DEFINE ops == [k \in DOMAIN x.input_tensors |-> a[x.input_tensors[k]]]
  <2>8. ops = [k \in DOMAIN y.input_tensors |-> b[y.input_tensors[k]]]
    <3> DEFINE xs == x.input_tensors
               ys == y.input_tensors
    <3>1. Range(xs) \subseteq Rt /\ ys = Through(tensorNew, xs)
      BY <2>2
    <3> HIDE DEF xs, ys
    <3>2. [k \in DOMAIN xs |-> a[xs[k]]] = [k \in DOMAIN ys |-> b[ys[k]]]
      <4>1. DOMAIN ys = DOMAIN xs /\ \A k \in DOMAIN xs : ys[k] = tensorNew[xs[k]]
        BY <3>1 DEF Through
      <4>2. \A k \in DOMAIN xs : a[xs[k]] = b[ys[k]]
        BY <3>1, <4>1 DEF Range
      <4> QED BY <4>1, <4>2
    <3> QED BY <3>2 DEF xs, ys
  <2>9. x = g.nodes[n] /\ y = h.nodes[m] /\ g.tensor_infos[t].producer_node = n
    BY DEF x, y, n
  <2>10. ops = [k \in DOMAIN x.input_tensors |-> a[x.input_tensors[k]]]
    OBVIOUS
  <2> HIDE DEF ops
  <2>11. TermsOver(g, a)[t] = <<x.name, place, ops>>
    BY <1>1, <1>3, <2>6, <2>9, <2>10, TermWith
  <2>12. TermsOver(h, b)[u] = <<x.name, place, ops>>
    BY <1>1, <2>2, <2>3, <2>7, <2>8, <2>9, TermWith
  <2>13. TermsOver(g, a)[t] = TermsOver(h, b)[u]
    BY <2>11, <2>12
  <2> QED BY <2>13 DEF u
<1> QED BY <1>2, <1>3

LEMMA TermsKept ==
  ASSUME NEW g, NEW R, NEW Rt, NEW h, NEW nodeNew, NEW nodeOld, NEW tensorNew, NEW tensorOld,
         Smaller(g, R, Rt, h, nodeNew, nodeOld, tensorNew, tensorOld), NEW D \in Nat, NEW t \in Rt
  PROVE  Term(g, t, D) = Term(h, tensorNew[t], D)
<1>1. PICK p : /\ p[0] = Leaves(g) /\ \A d \in 1 .. D : p[d] = TermsOver(g, p[d - 1])
               /\ \A u : Term(g, u, D) = p[D][u]
  BY TermIs
<1>2. PICK q : /\ q[0] = Leaves(h) /\ \A d \in 1 .. D : q[d] = TermsOver(h, q[d - 1])
               /\ \A u : Term(h, u, D) = q[D][u]
  BY TermIs
<1> DEFINE Same(d) == \A u \in Rt : p[d][u] = q[d][tensorNew[u]]
           S == {d \in 0 .. D : Same(d)}
<1>3. 0 \in S
  <2> SUFFICES ASSUME NEW u \in Rt PROVE p[0][u] = q[0][tensorNew[u]]
    OBVIOUS
  <2>1. /\ u \in DOMAIN g.tensor_infos /\ tensorNew[u] \in DOMAIN h.tensor_infos
        /\ h.tensor_infos[tensorNew[u]].name = g.tensor_infos[u].name
    BY KeptTensor
  <2> QED BY <1>1, <1>2, <2>1 DEF Leaves
<1>4. ASSUME NEW d \in 1 .. D, d - 1 \in S PROVE d \in S
  <2>1. Same(d - 1)
    BY <1>4
  <2>2. ASSUME NEW u \in Rt PROVE p[d][u] = q[d][tensorNew[u]]
    <3>1. p[d] = TermsOver(g, p[d - 1]) /\ q[d] = TermsOver(h, q[d - 1])
      BY <1>1, <1>2
    <3>2. TermsOver(g, p[d - 1])[u] = TermsOver(h, q[d - 1])[tensorNew[u]]
      BY <2>1, TermKept
    <3> QED BY <3>1, <3>2
  <2> QED BY <2>2
<1>5. D \in S
  <2>1. D \in 0 .. D
    OBVIOUS
  <2> HIDE DEF S
  <2>2. \A d \in 0 .. D : d \in S
    BY <1>3, <1>4, Upwards
  <2> QED BY <2>1, <2>2
<1>6. p[D][t] = q[D][tensorNew[t]]
  BY <1>5
<1> QED BY <1>1, <1>2, <1>6

-----------------------------------------------------------------------------
(* The nodes a term takes, level by level.                                  *)

NodesAt(g, within, d) ==
  [u \in DOMAIN g.tensor_infos |->
     LET producer == g.tensor_infos[u].producer_node
     IN  IF producer = None \/ d = 0 THEN {}
         ELSE {g.nodes[producer].name} \cup
                UNION {within[d - 1][v] : v \in Range(g.nodes[producer].input_tensors)}]

Nowhere(g) == [u \in DOMAIN g.tensor_infos |-> {}]

LEMMA NodesLevel ==
  ASSUME NEW g, NEW within, NEW d \in Nat
  PROVE  NodesAt(g, within, d) = IF d = 0 THEN Nowhere(g) ELSE NodesOver(g, within[d - 1])
<1>1. CASE d = 0
  BY <1>1, Zenon DEF NodesAt, Nowhere
<1>2. CASE d # 0
  <2> DEFINE below == within[d - 1]
             node(u) == g.nodes[g.tensor_infos[u].producer_node]
             X(u) == {node(u).name} \cup UNION {below[v] : v \in Range(node(u).input_tensors)}
             A(u) == IF g.tensor_infos[u].producer_node = None \/ d = 0 THEN {} ELSE X(u)
             B(u) == IF g.tensor_infos[u].producer_node = None THEN {} ELSE X(u)
  <2>1. NodesAt(g, within, d) = [u \in DOMAIN g.tensor_infos |-> A(u)]
    BY Zenon DEF NodesAt
  <2>2. NodesOver(g, below) = [u \in DOMAIN g.tensor_infos |-> B(u)]
    BY Zenon DEF NodesOver
  <2> HIDE DEF X
  <2>3. \A u : A(u) = B(u)
    BY <1>2
  <2> HIDE DEF A, B
  <2>4. [u \in DOMAIN g.tensor_infos |-> A(u)] = [u \in DOMAIN g.tensor_infos |-> B(u)]
    BY <2>3
  <2> QED BY <1>2, <2>1, <2>2, <2>4
<1> QED BY <1>1, <1>2

(* The nodes in the terms of every depth up to D, level over level.         *)
NodeLevels(g, D, within) ==
  /\ within[0] = Nowhere(g)
  /\ \A d \in 1 .. D : within[d] = NodesOver(g, within[d - 1])
  /\ \A t : NodesIn(g, t, D) = within[D][t]

LEMMA NodesIs ==
  ASSUME NEW g, NEW D \in Nat
  PROVE  \E within : NodeLevels(g, D, within)
<1> DEFINE P(within) == within = [d \in 0 .. D |-> NodesAt(g, within, d)]
           c == CHOOSE within : P(within)
           s == [k \in 1 .. D |-> k]
<1>1. \A t : NodesIn(g, t, D) = c[D][t]
  BY Zenon DEF NodesIn, NodesAt
<1>2. Len(s) = D
  OBVIOUS
<1> HIDE DEF s
<1>3. PICK h : IsFold(h, "within", g, Nowhere(g), s, D)
  BY FoldExists
<1>4. PICK p : Stepwise(p, "within", g, Nowhere(g), s)
  BY <1>2, <1>3, FoldSteps
<1> DEFINE f == [d \in 0 .. D |-> p[d]]
<1>5. ASSUME NEW d \in 0 .. D PROVE f[d] = NodesAt(g, f, d)
  <2>1. CASE d = 0
    <3>1. f[d] = Nowhere(g)
      BY <1>4, <2>1 DEF Stepwise
    <3> HIDE DEF f
    <3> QED BY <2>1, <3>1, NodesLevel
  <2>2. CASE d # 0
    <3>1. d \in 1 .. D /\ d - 1 \in 0 .. D
      BY <2>2
    <3>2. p[d] = Turn("within", g, p[d - 1], s[d])
      BY <1>2, <1>4, <3>1 DEF Stepwise
    <3>3. p[d] = NodesOver(g, p[d - 1])
      BY <3>2, Zenon DEF Turn
    <3>4. f[d] = p[d] /\ f[d - 1] = p[d - 1]
      BY <3>1
    <3> HIDE DEF f
    <3>5. f[d] = NodesOver(g, f[d - 1])
      BY <3>3, <3>4
    <3> QED BY <2>2, <3>5, NodesLevel
  <2> QED BY <2>1, <2>2
<1>6. P(f)
  <2>1. f = [d \in 0 .. D |-> f[d]]
    OBVIOUS
  <2> HIDE DEF f
  <2> QED BY <1>5, <2>1
<1>7. P(c)
  <2> HIDE DEF P
  <2> QED BY <1>6
<1> HIDE DEF c
<1>8. c[0] = Nowhere(g)
  <2>1. c[0] = NodesAt(g, c, 0)
    BY <1>7
  <2> QED BY <2>1, NodesLevel
<1>9. ASSUME NEW d \in 1 .. D PROVE c[d] = NodesOver(g, c[d - 1])
  <2>1. c[d] = NodesAt(g, c, d)
    BY <1>7
  <2>2. d \in Nat /\ d # 0
    OBVIOUS
  <2> QED BY <2>1, <2>2, NodesLevel
<1>10. NodeLevels(g, D, c)
  BY <1>1, <1>8, <1>9 DEF NodeLevels
<1> QED BY <1>10

(* What a node's own term takes, when its operands take what is below.      *)
OwnNodes(g, below, n) == {g.nodes[n].name} \cup UNION {below[v] : v \in Range(g.nodes[n].input_tensors)}

LEMMA OverIs ==
  ASSUME NEW g, NEW below, NEW u \in DOMAIN g.tensor_infos, NEW n, g.tensor_infos[u].producer_node = n, n # None
  PROVE  NodesOver(g, below)[u] = OwnNodes(g, below, n)
<1>1. NodesOver(g, below)[u]
        = IF g.tensor_infos[u].producer_node = None THEN {} ELSE OwnNodes(g, below, g.tensor_infos[u].producer_node)
  BY Zenon DEF NodesOver, OwnNodes
<1> QED BY <1>1

(* Every node that is needed is in the term of some output: it was found at *)
(* a turn that is less than the number of nodes, and is as deep.            *)
LEMMA NeededWithin ==
  ASSUME NEW g, Whole(g), g.output_names # {},
         \A name \in g.output_names : Named(g, name).producer_node # None, NEW n \in Needed(g)
  PROVE  g.nodes[n].name
           \in UNION {NodesIn(g, g.tensor_name_to_idx[name], Len(g.nodes)) : name \in g.output_names}
<1> DEFINE N == Len(g.nodes)
           start == {Named(g, name).producer_node : name \in g.output_names}
<1>1. N \in Nat /\ DOMAIN g.nodes = 1 .. N
  BY SeqIs DEF Whole, IsGraph
<1>2. \A name \in g.output_names :
        /\ g.tensor_name_to_idx[name] \in DOMAIN g.tensor_infos
        /\ Named(g, name) = g.tensor_infos[g.tensor_name_to_idx[name]]
        /\ Named(g, name).producer_node \in DOMAIN g.nodes
  <2> SUFFICES ASSUME NEW name \in g.output_names
               PROVE  /\ g.tensor_name_to_idx[name] \in DOMAIN g.tensor_infos
                      /\ Named(g, name) = g.tensor_infos[g.tensor_name_to_idx[name]]
                      /\ Named(g, name).producer_node \in DOMAIN g.nodes
    OBVIOUS
  <2>1. g.tensor_name_to_idx[name] \in DOMAIN g.tensor_infos
    BY DEF Whole, NamesAgree
  <2> QED BY <2>1 DEF Named, Whole, Edges
<1>3. PICK p : /\ Stepwise(p, "need", g, start, g.nodes)
               /\ AllFurther(g, start, g.nodes) = p[N]
  BY <1>1, NeedFold
<1>4. n \in p[N]
  BY <1>3, NeededIs
<1>5. p[0] = start /\ \A d \in 1 .. N : p[d] = Further(g, p[d - 1])
  BY <1>3, Zenon DEF Stepwise, Turn
<1>6. start # {} /\ start \subseteq 1 .. N
  BY <1>1, <1>2
<1>7. PICK f : NodeLevels(g, N, f)
  <2>1. N \in Nat
    BY <1>1
  <2> HIDE DEF N, start
  <2> QED BY <2>1, NodesIs
<1>70. /\ f[0] = Nowhere(g)
       /\ \A d \in 1 .. N : f[d] = NodesOver(g, f[d - 1])
       /\ \A t : NodesIn(g, t, N) = f[N][t]
  BY <1>7 DEF NodeLevels
<1> HIDE DEF N
(* Whether a node that was found by turn j is as deep in some output.       *)
<1> DEFINE Deep(m, j) ==
             \E name \in g.output_names : \E i \in 0 .. j : \A d \in 1 .. N - i :
               OwnNodes(g, f[d - 1], m) \subseteq f[d + i][g.tensor_name_to_idx[name]]
           S == {j \in 0 .. N : /\ p[j] \subseteq 1 .. N
                                /\ Settled(g, p[j]) \/ Cardinality(p[j]) >= j + 1
                                /\ \A m \in p[j] : Deep(m, j)}
<1>8. 0 \in S
  <2>1. IsFiniteSet(p[0]) /\ Cardinality(p[0]) \in Nat /\ Cardinality(p[0]) # 0
    <3>1. start \in SUBSET (1 .. N) /\ IsFiniteSet(1 .. N)
      BY <1>1, <1>6, FS_Interval
    <3> HIDE DEF start
    <3> QED BY <1>5, <1>6, <3>1, FS_Subset, FS_CardinalityType, FS_EmptySet
  <2>2. ASSUME NEW m \in p[0] PROVE Deep(m, 0)
    <3>1. PICK name \in g.output_names : m = Named(g, name).producer_node
      BY <1>5
    <3> DEFINE o == g.tensor_name_to_idx[name]
    <3>2. o \in DOMAIN g.tensor_infos /\ g.tensor_infos[o].producer_node = m /\ m # None
      BY <1>2, <3>1
    <3> HIDE DEF o
    <3>3. ASSUME NEW d \in 1 .. N PROVE OwnNodes(g, f[d - 1], m) \subseteq f[d][o]
      BY <1>70, <3>2, OverIs
    <3>4. \A d \in 1 .. N - 0 : OwnNodes(g, f[d - 1], m) \subseteq f[d + 0][o]
      BY <1>1, <3>3
    <3> QED BY <3>4 DEF o
  <2>3. p[0] \subseteq 1 .. N
    <3> HIDE DEF start
    <3> QED BY <1>5, <1>6
  <2>4. Cardinality(p[0]) >= 0 + 1
    BY <2>1
  <2>5. 0 \in 0 .. N
    BY <1>1
  <2> HIDE DEF Deep
  <2> QED BY <2>2, <2>3, <2>4, <2>5
<1>9. ASSUME NEW j \in 1 .. N, j - 1 \in S PROVE j \in S
  <2> DEFINE F == p[j - 1]
             G == p[j]
  <2>1. G = Further(g, F)
    BY <1>5
  <2>2. F \subseteq 1 .. N /\ (Settled(g, F) \/ Cardinality(F) >= j)
    BY <1>9
  <2>3. \A m \in F : Deep(m, j - 1)
    BY <1>9
  <2> HIDE DEF F, G, S
  <2>4. F \subseteq G /\ G \subseteq 1 .. N
    BY <1>1, <2>1, <2>2, FurtherIs
  <2>5. Settled(g, G) \/ Cardinality(G) >= j + 1
    <3>1. CASE Settled(g, F)
      BY <2>1, <3>1 DEF Settled
    <3>2. CASE ~Settled(g, F)
      <4>1. F # G /\ Cardinality(F) >= j
        BY <2>1, <2>2, <3>2 DEF Settled
      <4>2. IsFiniteSet(G) /\ Cardinality(G) \in Nat /\ Cardinality(F) \in Nat
        <5>1. F \in SUBSET (1 .. N) /\ G \in SUBSET (1 .. N)
          BY <2>2, <2>4
        <5>2. IsFiniteSet(1 .. N)
          BY <1>1, FS_Interval
        <5>3. IsFiniteSet(F) /\ IsFiniteSet(G)
          BY <5>1, <5>2, FS_Subset
        <5> QED BY <5>3, FS_CardinalityType
      <4>3. Cardinality(F) <= Cardinality(G) /\ Cardinality(F) # Cardinality(G)
        <5>1. F \in SUBSET G
          BY <2>4
        <5> QED BY <4>1, <4>2, <5>1, FS_Subset
      <4> QED BY <4>1, <4>2, <4>3
    <3> QED BY <3>1, <3>2
  <2>6. ASSUME NEW m \in G PROVE Deep(m, j)
    <3>1. CASE m \in F
      <4>1. PICK name \in g.output_names, i \in 0 .. j - 1 : \A d \in 1 .. N - i :
              OwnNodes(g, f[d - 1], m) \subseteq f[d + i][g.tensor_name_to_idx[name]]
        BY <2>3, <3>1
      <4>2. i \in 0 .. j
        BY <1>1
      <4> QED BY <4>1, <4>2
    <3>2. CASE m \notin F
      <4>1. PICK k \in F : \E t \in Range(g.nodes[k].input_tensors) :
              g.tensor_infos[t].producer_node = m /\ m # None
        BY <2>1, <3>2 DEF Further
      <4>2. PICK t \in Range(g.nodes[k].input_tensors) : g.tensor_infos[t].producer_node = m /\ m # None
        BY <4>1
      <4>3. t \in DOMAIN g.tensor_infos
        BY <1>1, <2>2, <4>1, <4>2 DEF Whole, Edges, TouchedBy
      <4>4. PICK name \in g.output_names, i \in 0 .. j - 1 : \A d \in 1 .. N - i :
              OwnNodes(g, f[d - 1], k) \subseteq f[d + i][g.tensor_name_to_idx[name]]
        BY <2>3, <4>1
      <4> DEFINE o == g.tensor_name_to_idx[name]
      <4>5. i + 1 \in 0 .. j
        BY <1>1
      <4>6. ASSUME NEW d \in 1 .. N - (i + 1)
            PROVE  OwnNodes(g, f[d - 1], m) \subseteq f[d + (i + 1)][o]
        <5>1. d \in 1 .. N /\ d + 1 \in 1 .. N - i /\ d + 1 - 1 = d /\ d + 1 + i = d + (i + 1)
          BY <1>1
        <5>2. OwnNodes(g, f[d], k) \subseteq f[d + (i + 1)][o]
          <6>1. OwnNodes(g, f[d + 1 - 1], k) \subseteq f[d + 1 + i][o]
            BY <4>4, <5>1
          <6> QED BY <5>1, <6>1
        <5>3. f[d][t] = OwnNodes(g, f[d - 1], m)
          BY <1>70, <4>2, <4>3, <5>1, OverIs
        <5>4. f[d][t] \subseteq OwnNodes(g, f[d], k)
          BY <4>2 DEF OwnNodes
        <5> QED BY <5>2, <5>3, <5>4
      <4> HIDE DEF o
      <4>7. \A d \in 1 .. N - (i + 1) : OwnNodes(g, f[d - 1], m) \subseteq f[d + (i + 1)][o]
        BY <4>6
      <4> QED BY <4>5, <4>7 DEF o
    <3> QED BY <3>1, <3>2
  <2>7. j \in 0 .. N
    BY <1>1
  <2> HIDE DEF Deep
  <2> QED BY <2>4, <2>5, <2>6, <2>7 DEF S, G
<1>10. \A j \in 0 .. N : j \in S
  <2> HIDE DEF S
  <2> QED BY <1>1, <1>8, <1>9, Upwards
<1>11. N >= 1 /\ N - 1 \in 0 .. N /\ N \in 1 .. N
  <2> HIDE DEF start
  <2>1. PICK k : k \in start
    BY <1>6
  <2>2. k \in 1 .. N
    BY <1>6, <2>1
  <2> QED BY <1>1, <2>2
<1> DEFINE F == p[N - 1]
<1>12. /\ F \subseteq 1 .. N /\ (Settled(g, F) \/ Cardinality(F) >= N)
       /\ \A m \in F : Deep(m, N - 1)
  <2> HIDE DEF Deep
  <2> QED BY <1>1, <1>10, <1>11
<1>13. p[N] \subseteq 1 .. N /\ p[N] = Further(g, F)
  <2> HIDE DEF Deep
  <2> QED BY <1>5, <1>10, <1>11
<1> HIDE DEF F, S
<1>14. n \in F
  <2>1. CASE Settled(g, F)
    BY <1>4, <1>13, <2>1 DEF Settled
  <2>2. CASE Cardinality(F) >= N
    <3>1. F \in SUBSET (1 .. N) /\ IsFiniteSet(1 .. N) /\ Cardinality(1 .. N) = N
      BY <1>1, <1>12, FS_Interval
    <3>2. Cardinality(F) \in Nat /\ Cardinality(F) <= N
      BY <3>1, FS_Subset, FS_CardinalityType
    <3>3. Cardinality(F) = N
      BY <1>1, <2>2, <3>2
    <3>4. F = 1 .. N
      BY <3>1, <3>3, FS_Subset
    <3> QED BY <1>4, <1>13, <3>4
  <2> QED BY <1>12, <2>1, <2>2
<1>15. PICK name \in g.output_names, i \in 0 .. N - 1 : \A d \in 1 .. N - i :
         OwnNodes(g, f[d - 1], n) \subseteq f[d + i][g.tensor_name_to_idx[name]]
  BY <1>12, <1>14
<1> DEFINE o == g.tensor_name_to_idx[name]
<1>16. N - i \in 1 .. N - i /\ N - i + i = N
  BY <1>1, <1>11
<1>17. OwnNodes(g, f[N - i - 1], n) \subseteq f[N][o]
  <2>1. OwnNodes(g, f[N - i - 1], n) \subseteq f[N - i + i][o]
    BY <1>15, <1>16
  <2> QED BY <1>16, <2>1
<1>18. g.nodes[n].name \in NodesIn(g, o, N)
  <2> HIDE DEF o, Deep
  <2>1. NodesIn(g, o, N) = f[N][o]
    BY <1>70
  <2>2. g.nodes[n].name \in OwnNodes(g, f[N - i - 1], n)
    BY DEF OwnNodes
  <2> QED BY <1>17, <2>1, <2>2
<1> QED BY <1>18 DEF N

-----------------------------------------------------------------------------
(* A call of DCEPass that returned.                                         *)
LEMMA DCEReturned ==
  ASSUME NEW g, ~RunDCE(g).threw
  PROVE  /\ \A name \in g.output_names : Named(g, name).producer_node # None
         /\ RunDCE(g).graph = shrink(g, Needed(g))
<1> DEFINE stop == \E name \in g.output_names : Named(g, name).producer_node = None
           left == shrink(g, Needed(g))
<1>1. RunDCE(g) = IF stop THEN Threw(g) ELSE Returned(left)
  BY Zenon DEF RunDCE, RetainNodes
<1>2. Threw(g).threw
  BY DEF Threw
<1>3. Returned(left).graph = left
  BY DEF Returned
<1> HIDE DEF stop, left
<1>4. ~stop
  BY <1>1, <1>2, Zenon
<1>5. RunDCE(g).graph = left
  BY <1>1, <1>3, <1>4, Zenon
<1> QED BY <1>4, <1>5 DEF stop, left

LEMMA MeansTheSame ==
  ASSUME NEW g, Whole(g), g.output_names # {}, ~RunDCE(g).threw, NEW h, h = RunDCE(g).graph
  PROVE  /\ \A name \in g.output_names : Meaning(h, name, Len(g.nodes)) = Meaning(g, name, Len(g.nodes))
         /\ DOMAIN h.node_name_to_idx
              \subseteq UNION {NodesIn(g, g.tensor_name_to_idx[name], Len(g.nodes)) : name \in g.output_names}
         /\ is_valid(g) => is_valid(h)
<1>1. /\ \A name \in g.output_names : Named(g, name).producer_node # None
      /\ h = shrink(g, Needed(g))
  BY DCEReturned
<1> DEFINE R == Needed(g)
<1>2. SelfContained(g, R)
  BY <1>1, NeededClosed
<1>3. PICK Rt, nodeNew, nodeOld, tensorNew, tensorOld :
        Smaller(g, R, Rt, h, nodeNew, nodeOld, tensorNew, tensorOld)
  BY <1>1, <1>2, ShrinkIs
<1>4. Len(g.nodes) \in Nat
  BY SeqIs DEF Whole, IsGraph
<1>5. ASSUME NEW name \in g.output_names
      PROVE  Meaning(h, name, Len(g.nodes)) = Meaning(g, name, Len(g.nodes))
  <2> DEFINE t == g.tensor_name_to_idx[name]
             D == Len(g.nodes)
  <2>1. t \in Rt /\ h.tensor_name_to_idx[name] = tensorNew[t]
    BY <1>3, OutputsKept
  <2> HIDE DEF t, D, R
  <2>2. Term(g, t, D) = Term(h, tensorNew[t], D)
    BY <1>3, <1>4, <2>1, TermsKept DEF D
  <2> QED BY <2>1, <2>2 DEF Meaning, t, D
<1>6. ASSUME NEW name \in DOMAIN h.node_name_to_idx
      PROVE  \E n \in R : name = g.nodes[n].name
  <2> HIDE DEF R
  <2>1. NamesAgree(h.node_name_to_idx, h.nodes) /\ Renumbers(nodeNew, nodeOld, R)
        /\ DOMAIN h.nodes = 1 .. Cardinality(R)
    BY <1>3 DEF Smaller, Whole
  <2>2. PICK m \in DOMAIN h.nodes : h.nodes[m].name = name
    BY <1>6, <2>1 DEF NamesAgree
  <2>3. PICK n \in R : nodeNew[n] = m
    BY <2>1, <2>2 DEF Renumbers
  <2>4. h.nodes[m].name = g.nodes[n].name
    BY <1>3, <2>3, KeptNode
  <2> QED BY <2>2, <2>4
<1>7. \A n \in R : g.nodes[n].name
           \in UNION {NodesIn(g, g.tensor_name_to_idx[name], Len(g.nodes)) : name \in g.output_names}
  BY <1>1, NeededWithin
<1>8. is_valid(g) => is_valid(h)
  BY <1>3, ValidKept
<1> QED BY <1>5, <1>6, <1>7, <1>8

(* Removing dead code changes no output, whatever graph was built: each     *)
(* output is computed from the same nodes and inputs as before, every node  *)
(* that is left is needed by some output, and a graph that was valid still  *)
(* is (DCEPass::run, graph_optimizer.cpp; Graph::shrink, graph.cpp).        *)
THEOREM KeepsMeaningCorrect == XSpec => DCEKeepsMeaning
<1> DEFINE Kept ==
             LET depth == Len(graph.nodes)
             IN  /\ \A name \in graph.output_names :
                      Meaning(graph', name, depth) = Meaning(graph, name, depth)
                 /\ DOMAIN graph'.node_name_to_idx \subseteq
                      UNION {NodesIn(graph, graph.tensor_name_to_idx[name], depth) : name \in graph.output_names}
                 /\ is_valid(graph) => is_valid(graph')
<1>1. PlanInv /\ [XNext]_xvars => [(Optimize /\ ~RunDCE(graph).threw) => Kept]_gvars
  <2> SUFFICES ASSUME PlanInv, Optimize, ~RunDCE(graph).threw
               PROVE  Kept
    BY Zenon
  <2> DEFINE g == graph
             h == graph'
  <2>1. Whole(g) /\ g.output_names # {} /\ ~RunDCE(g).threw /\ h = RunDCE(g).graph
    BY DEF PlanInv, Optimize, Becomes
  <2> HIDE DEF g, h
  <2>2. /\ \A name \in g.output_names : Meaning(h, name, Len(g.nodes)) = Meaning(g, name, Len(g.nodes))
        /\ DOMAIN h.node_name_to_idx
             \subseteq UNION {NodesIn(g, g.tensor_name_to_idx[name], Len(g.nodes)) : name \in g.output_names}
        /\ is_valid(g) => is_valid(h)
    BY <2>1, MeansTheSame
  <2> QED BY <2>2 DEF g, h
<1> QED BY <1>1, PlanInvHolds, PTL DEF XSpec, DCEKeepsMeaning
=============================================================================
