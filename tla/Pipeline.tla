------------------------------ MODULE Pipeline ------------------------------
(***************************************************************************)
(* Pipeline::apply (tiny_llm/pipeline/pipeline.cpp): prefill of all prompts *)
(* at once, then rounds of sampling and decode until every request has      *)
(* generated the end token or max_new_tokens is reached.  It is the client  *)
(* of the runtime, whose steps run inside its calls: PagedRuntime when the  *)
(* pipeline was made with pages, DenseAttention, for one prompt, when not.  *)
(*                                                                         *)
(* A prompt is its number of tokens.  A generated token is the end token or *)
(* not: the one the logit processors pick from any logits.  The i-th        *)
(* request of call c is <<c, i>>; its RequestMeta lives until apply returns *)
(* or throws.                                                               *)
(***************************************************************************)
EXTENDS DenseAttention, LogitProcessors

CONSTANTS
  MaxCalls,      \* bound: calls of apply
  MaxPrompts,    \* bound: prompts of a call
  MaxNewTokens,  \* bound: max_new_tokens
  EosTokenId     \* eos_token_id_; VocabSize or more when the model has none

ASSUME PipelineAssumption ==
  /\ MaxCalls \in Nat /\ MaxPrompts \in Nat /\ MaxNewTokens \in Nat
  /\ Requests = (1 .. MaxCalls) \X (1 .. MaxPrompts)
  /\ EosTokenId \in Nat \ {0}
  /\ \A l, m \in Layers : MaxLen[l] = MaxLen[m]  \* max_position_embeddings

VARIABLES
  paged_,          \* how the pipeline was made
  phase,           \* where apply is
  calls,           \* how many calls have been made
  prompts,         \* the lengths of the tokenised prompts
  max_new_tokens,
  from_prefill,    \* the logits at hand are those of the prefill
  generated,       \* generated_tokens: for each prompt, whether each is eos
  unfinished,      \* the requests whose unfinished_ is 1
  pos_ids,         \* the positions of the tokens of the next decode
  outcome          \* how each finished call ended

applyVars == <<calls, prompts, max_new_tokens>>
loopVars == <<from_prefill, generated, unfinished, pos_ids>>
pvars == <<vars, denseVars, paged_, phase, applyVars, loopVars, outcome>>

NumPrompts == Len(prompts)
request_metas == [i \in 1 .. NumPrompts |-> <<calls, i>>]
Eos == TRUE

PInit ==
  /\ Init /\ DInit
  /\ paged_ \in BOOLEAN
  /\ phase = "idle" /\ calls = 0
  /\ prompts = <<>> /\ max_new_tokens = 0
  /\ from_prefill = FALSE /\ generated = <<>> /\ unfinished = {} /\ pos_ids = <<>>
  /\ outcome = <<>>

-----------------------------------------------------------------------------
(* The metas are filled in and the runtime is set to prefill.               *)
Apply ==
  /\ phase = "idle" /\ calls < MaxCalls
  /\ calls' = calls + 1
  /\ \E n \in 1 .. MaxPrompts : prompts' \in [1 .. n -> SeqLens]
  /\ max_new_tokens' \in 0 .. MaxNewTokens
  /\ is_prefill_' = TRUE
  /\ phase' = "prefill"
  /\ UNCHANGED <<free_list_, seq_len, kv_len, kv_pages, callVars, broken, denseVars, paged_,
                 loopVars, outcome>>

(* Without a prompt there is no token, and no tensor of none can be made.   *)
ApplyToNothing ==
  /\ phase = "idle" /\ calls < MaxCalls
  /\ calls' = calls + 1 /\ prompts' = <<>>
  /\ outcome' = Append(outcome, "nothing to do")
  /\ UNCHANGED <<vars, denseVars, paged_, phase, max_new_tokens, loopVars>>

(* bind_request_meta refuses more prompts than max_request_num.             *)
TooManyPrompts == phase = "prefill" /\ paged_ /\ NumPrompts > MaxRequestNum

Prefill ==
  /\ phase = "prefill" /\ paged_ /\ ~TooManyPrompts
  /\ Bind(request_metas, [r \in Range(request_metas) |-> prompts[r[2]]])
  /\ phase' = "runtime" /\ from_prefill' = TRUE
  /\ UNCHANGED <<denseVars, paged_, applyVars, generated, unfinished, pos_ids, outcome>>

(* Without pages nothing is bound, and nothing looks at how many prompts    *)
(* there are.                                                               *)
PrefillDense ==
  /\ phase = "prefill" /\ ~paged_
  /\ seq_len' = [r \in Requests |->
                   IF r \in Range(request_metas) THEN prompts[r[2]] ELSE seq_len[r]]
  /\ phase' = "runtime" /\ from_prefill' = TRUE
  /\ UNCHANGED <<is_prefill_, free_list_, kv_len, kv_pages, callVars, broken, denseVars, paged_,
                 applyVars, generated, unfinished, pos_ids, outcome>>

(* bind_request_meta at work, then execute.                                 *)
Runtime ==
  /\ phase = "runtime" /\ paged_
  /\ EnterMeta \/ (\E l \in Layers : VisitLayer(l)) \/ Publish
  /\ UNCHANGED <<denseVars, paged_, phase, applyVars, loopVars, outcome>>

(* The tokens of the first prompts.                                         *)
TokensUpTo[i \in 0 .. NumPrompts] == IF i = 0 THEN 0 ELSE TokensUpTo[i - 1] + prompts[i]

(* The requests the runtime was made for, the tokens of its inputs, and the *)
(* check on the largest shape an input may have.                            *)
max_requests == IF paged_ THEN MaxRequestNum ELSE 1
InputTokens == IF from_prefill THEN TokensUpTo[NumPrompts] ELSE NumPrompts
InputsFit == \A l \in Layers : InputTokens <= max_requests * MaxLen[l]

AfterExecute == phase' = IF from_prefill THEN "prefilled" ELSE "sample"

Executed ==
  /\ phase = "runtime" /\ paged_ /\ InputsFit
  /\ Execute
  /\ AfterExecute
  /\ UNCHANGED <<denseVars, paged_, applyVars, loopVars, outcome>>

ExecuteLayer ==
  /\ phase = "runtime" /\ ~paged_ /\ InputsFit
  /\ RunLayer(InputTokens)
  /\ UNCHANGED <<vars, paged_, phase, applyVars, loopVars, outcome>>

ExecutedDense ==
  /\ phase = "runtime" /\ ~paged_
  /\ LayersDone
  /\ AfterExecute
  /\ UNCHANGED <<vars, paged_, applyVars, loopVars, outcome>>

(* Anything the runtime throws leaves apply, and the metas are gone; the    *)
(* pages they hold are not given back.                                      *)
Leave(how) ==
  /\ outcome' = Append(outcome, how)
  /\ phase' = "idle"
  /\ UNCHANGED <<paged_, applyVars, loopVars>>

BindThrew ==
  /\ phase = "runtime" /\ paged_
  /\ MetaThrows \/ \E l \in Layers : TooLongThrows(l) \/ ExhaustedThrows(l)
  /\ UNCHANGED denseVars
  /\ Leave("bind threw")

Refused == TooManyPrompts /\ UNCHANGED <<vars, denseVars>> /\ Leave("bind threw")

(* An input is larger than the runtime was made for: with pages, the bind   *)
(* has made sure that it is not.                                            *)
CopyThrew ==
  /\ phase = "runtime" /\ ~paged_ /\ ~InputsFit
  /\ UNCHANGED <<vars, denseVars>>
  /\ Leave("copy threw")

(* The sequence has outgrown a layer.                                       *)
LayerThrew ==
  /\ phase = "runtime" /\ ~paged_ /\ InputsFit
  /\ LayerThrows(InputTokens)
  /\ UNCHANGED vars
  /\ Leave("layer threw")

(* A call of CUDA fails.                                                    *)
ExecuteThrew ==
  /\ phase = "runtime"
  /\ IF paged_ THEN ExecuteThrows /\ UNCHANGED denseVars ELSE LayersAbandoned /\ UNCHANGED vars
  /\ Leave("execute threw")

(* After the prefill: one token at a time from here.                        *)
StartDecoding ==
  /\ phase = "prefilled"
  /\ seq_len' = [r \in Requests |-> IF r \in Range(request_metas) THEN 1 ELSE seq_len[r]]
  /\ is_prefill_' = FALSE
  /\ generated' = [i \in 1 .. NumPrompts |-> <<>>]
  /\ unfinished' = 1 .. NumPrompts
  /\ phase' = "loop"
  /\ UNCHANGED <<free_list_, kv_len, kv_pages, callVars, broken, denseVars, paged_, applyVars,
                 from_prefill, pos_ids, outcome>>

(* The condition of the loop.                                               *)
Continues == Len(generated[1]) < max_new_tokens /\ unfinished # {}

UsePrefillLogits ==
  /\ phase = "loop" /\ Continues /\ from_prefill
  /\ phase' = "sample"
  /\ UNCHANGED <<vars, denseVars, paged_, applyVars, loopVars, outcome>>

Decode ==
  /\ phase = "loop" /\ Continues /\ ~from_prefill
  /\ IF paged_ THEN Bind(request_metas, [r \in Range(request_metas) |-> 1]) ELSE UNCHANGED vars
  /\ phase' = "runtime"
  /\ UNCHANGED <<denseVars, paged_, applyVars, loopVars, outcome>>

(* Whether the processors may pick eos, or another token, from any logits.  *)
Picks ==
  {t = EosTokenId : t \in {Greedy(logits) : logits \in Rows}
     \cup UNION {Sampled(logits, inverse, VocabSize, Parts) : logits \in Rows, inverse \in Inverses}}

(* A finished request is only ever given eos.                               *)
NextTokens ==
  {s \in [1 .. NumPrompts -> Picks \cup {Eos}] :
     \A i \in 1 .. NumPrompts \ unfinished : s[i] = Eos}

(* (fault) the position of the token after the one sampled.                 *)
PosId_OneAhead(i, tokens) == prompts[i] + Len(tokens)

PosId(i, tokens) == prompts[i] + Len(tokens) - 1

(* The logits have a row for each request, but one row without pages.       *)
RowsMatch == paged_ \/ NumPrompts = 1

(* They cannot be reshaped to a row for each prompt.                        *)
ReshapeThrew ==
  /\ phase = "sample" /\ ~RowsMatch
  /\ UNCHANGED <<vars, denseVars>>
  /\ Leave("reshape threw")

(* One round of sampling.                                                   *)
Sample ==
  /\ phase = "sample" /\ RowsMatch
  /\ \E next_token \in NextTokens :
       /\ generated' = [i \in 1 .. NumPrompts |-> Append(generated[i], next_token[i])]
       /\ unfinished' = {i \in 1 .. NumPrompts : next_token[i] # Eos}
  /\ pos_ids' = [i \in 1 .. NumPrompts |-> PosId(i, generated'[i])]
  /\ from_prefill' = FALSE
  /\ phase' = "loop"
  /\ UNCHANGED <<vars, denseVars, paged_, applyVars, outcome>>

(* A processor throws: top_k is more than the vocabulary, say; or, before   *)
(* the first round, cannot be made of its parameters.                       *)
SampleThrew ==
  /\ (phase = "sample" /\ RowsMatch) \/ (phase = "loop" /\ from_prefill)
  /\ UNCHANGED <<vars, denseVars>>
  /\ Leave("sampling threw")

LoopEnds ==
  /\ phase = "loop" /\ ~Continues
  /\ phase' = "destroy"
  /\ UNCHANGED <<vars, denseVars, paged_, applyVars, loopVars, outcome>>

(* (fault) the last request of the call is not destroyed.                   *)
Left_AllButLast == {i \in 1 .. NumPrompts - 1 : seq_len[<<calls, i>>] # 0}

(* (fault) the loop does not get past the first meta.                       *)
Left_NoProgress == 1 .. NumPrompts

(* destroy_request_meta takes the metas one after another.                  *)
Left == {i \in 1 .. NumPrompts : seq_len[<<calls, i>>] # 0}

DestroyNext ==
  /\ phase = "destroy" /\ Left # {}
  /\ \E i \in Left : (\A j \in Left : i <= j) /\ Destroy(<<calls, i>>)
  /\ UNCHANGED <<denseVars, paged_, phase, applyVars, loopVars, outcome>>

Return ==
  /\ phase = "destroy" /\ Left = {}
  /\ UNCHANGED <<vars, denseVars>>
  /\ Leave("returned")

Step ==
  \/ Prefill \/ PrefillDense \/ Runtime \/ Executed \/ ExecuteLayer \/ ExecutedDense
  \/ BindThrew \/ Refused \/ CopyThrew \/ LayerThrew \/ ExecuteThrew
  \/ StartDecoding \/ UsePrefillLogits \/ Decode \/ ReshapeThrew \/ Sample \/ SampleThrew
  \/ LoopEnds \/ DestroyNext \/ Return

PNext == Apply \/ ApplyToNothing \/ Step

(* Callers need not call apply; a call, once made, goes on.                 *)
PSpec == PInit /\ [][PNext]_pvars /\ WF_pvars(Step)

-----------------------------------------------------------------------------
(* Each decoded token is rotated for the position whose slot its K and V    *)
(* go to: apply counts positions from the prompt and the generated tokens,  *)
(* the runtime counts kv_len, or each layer its cache_length, in different  *)
(* steps, and they never drift, whatever a call that threw left behind.     *)
(* Without pages there is one sequence: prompts that were prefilled as one  *)
(* are never decoded.                                                       *)
PosMatchesSlot ==
  phase = "runtime" /\ ~from_prefill =>
    /\ op = "bound" => \A i \in 1 .. NumPrompts : pos_ids[i] = kv_len[request_metas[i]] - 1
    /\ ~paged_ => /\ NumPrompts = 1
                  /\ \A k \in DOMAIN AttnTasks :
                       cache_length[AttnTasks[k]] = IF k <= ran THEN pos_ids[1] + 1 ELSE pos_ids[1]

(* When a token is to be picked, the processors pick one of the nucleus,    *)
(* whatever the logits: see ChainPicksNucleus.                              *)
PicksNucleus == phase = "sample" => ChainPicksNucleus

(* A call within the limits - no more prompts than max_requests, and every  *)
(* prompt with its new tokens but the last, which is never fed back, within *)
(* max_len - is not refused by any check of the runtime: by none if there   *)
(* are no pages; with pages, as long as no earlier call has thrown.         *)
WithinLimits ==
  /\ NumPrompts <= max_requests
  /\ \A i \in 1 .. NumPrompts, l \in Layers :
       /\ prompts[i] <= MaxLen[l]
       /\ prompts[i] + max_new_tokens - 1 <= MaxLen[l]

ThrewBefore(n) == \E c \in 1 .. n - 1 : outcome[c] \notin {"returned", "nothing to do"}

Refusals == {"bind threw", "copy threw", "layer threw", "reshape threw"}

WithinLimitsBinds ==
  Len(outcome) = calls /\ calls > 0 /\ WithinLimits /\ (paged_ => ~ThrewBefore(calls))
    => outcome[calls] \notin Refusals

(* Between calls every page is back in its pool, unless some call threw.    *)
NoLeakUnlessThrown ==
  phase = "idle" /\ ~ThrewBefore(calls + 1)
    => \A l \in Layers : Range(free_list_[l]) = Pages(l)

(* Every call returns or throws.                                            *)
ApplyEnds == phase # "idle" ~> phase = "idle"
=============================================================================
