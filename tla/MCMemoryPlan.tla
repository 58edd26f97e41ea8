----------------------------- MODULE MCMemoryPlan -----------------------------
(* MemoryPlan on every valid plan of a few tasks over one or two inputs:     *)
(* operations with one and two operands, in place or not, linear layers that *)
(* share their weights, rope tables pinned or not, both attention kernels.   *)
EXTENDS MemoryPlan

InputSizes == [x |-> 1, y |-> 3]
Outs == <<"t1", "t2", "t3", "t4">>
Tables == <<"s1", "s2", "s3", "s4">>
WeightSizes == [w |-> 2, b |-> 1]

Task(ins, weights, outs, inplace, pin, inner) ==
  [ins |-> ins, weights |-> weights, outs |-> outs, inplace |-> inplace,
   pin |-> pin, inner |-> inner]

Scratch(name, size) == [name |-> name, exclusive |-> FALSE, size |-> size]
Cache(name, size) == [name |-> name, exclusive |-> TRUE, size |-> size]
Buffers(size) ==
  {<<Scratch("q", size), Scratch("o", size)>>,
   <<Scratch("q", size), Cache("k", 1), Cache("v", 1), Scratch("o", size)>>}

(* A tensor that is not a rope table.                                       *)
Hidden(p) == DOMAIN p.size \ (ToSet(Tables) \cup DOMAIN WeightSizes
                              \cup UNION {ToSet(p.tasks[i].outs) :
                                            i \in {j \in DOMAIN p.tasks : p.tasks[j].ins = <<>>}})
Ropes(p) == {p.tasks[i].outs : i \in {j \in DOMAIN p.tasks : p.tasks[j].ins = <<>>}}

(* The plan with one more task, whose first output has the given size.      *)
With(p, task, size) ==
  [tasks |-> Append(p.tasks, task),
   size |-> [x \in DOMAIN p.size \cup ToSet(task.outs) |->
               IF x \in ToSet(task.outs) THEN size ELSE p.size[x]]]

(* The plans that continue p with one task.                                 *)
MCExtensions(p) ==
  LET n == Len(p.tasks) + 1
      out == <<Outs[n]>>
  IN  (* SiLU, RMSNorm *)
      {With(p, Task(<<x>>, <<>>, out, i, FALSE, <<>>), p.size[x]) :
         x \in Hidden(p), i \in 0 .. 1}
      (* Add, Mul *)
      \cup {With(p, Task(<<xy[1], xy[2]>>, <<>>, out, i, FALSE, <<>>), p.size[xy[1]]) :
              xy \in {pair \in Hidden(p) \X Hidden(p) : p.size[pair[1]] = p.size[pair[2]]},
              i \in 0 .. 2}
      (* Linear, Embedding, SliceLinear: the result is of another size *)
      \cup {With(p, Task(<<x>>, <<"w", "b">>, out, 0, FALSE, <<>>), 4 - p.size[x]) :
              x \in Hidden(p)}
      (* Rope *)
      \cup {With(p, Task(<<>>, <<>>, out \o <<Tables[n]>>, 0, pin, <<>>), 1) :
              pin \in BOOLEAN}
      (* CausalAttention *)
      \cup UNION {{With(p, Task(<<x, tables[1], tables[2], "x">>, <<"w">>, out, 0, FALSE, inner),
                        p.size[x]) : inner \in Buffers(p.size[x])} :
                    x \in Hidden(p), tables \in Ropes(p)}

MCEmptyPlan == [tasks |-> <<>>, size |-> InputSizes @@ WeightSizes]
=============================================================================
