------------------------------ MODULE ModelCall ------------------------------
(***************************************************************************)
(* The model calls of one investigation: LlmClient.complete of             *)
(* agent/llm.py, the transport of agent/transport.py with the fallback     *)
(* rules of agent/cascade.py and agent/models.py, and the ceilings of      *)
(* agent/budget.py the calls are charged to.                               *)
(*                                                                         *)
(* A request is one step, from the checks before it to the use of what     *)
(* came back, and so is each wait before a retry.  Tokens, dollars and     *)
(* seconds are small numbers; a payload is only its size.                  *)
(***************************************************************************)
EXTENDS Integers, Sequences

CONSTANTS
  Models,
  Candidates,            \* the models of each tier, in the order they are tried
  Price,                 \* dollars a token, or Unpriced
  MaxTokens, MaxUsd, MaxClock,
  MaxAttempts,           \* max_attempts_per_model
  BaseDelay, MaxDelay,
  MaxRepairs,            \* escalate_after_schema_failures
  Retryable,             \* the failures the rules retry: retry_on_status, retry_on_timeout
  OutputLimit,           \* the transport's own cap on an answer
  PromptSize,            \* bound on what the first messages take, in tokens
  Lapse,                 \* bound: the longest a request or the time between two calls takes
  MaxCalls,              \* bound: calls of one investigation
  Modes                  \* the modes a run explores

Unpriced == -1

Tiers == {"small", "strong", "judge"}

Failures == {"timeout", "busy", "rejected"}  \* no status; 429 or 5xx; any other status

Ceilings == {"budget_tokens", "budget_usd", "budget_wall_clock"}

Verdicts == {"answer", "llm_error", "model_unavailable", "crash"} \cup Ceilings

(***************************************************************************)
(* What the validators of the configuration accept: every tier declared, a *)
(* rejected request never in the retry list, delays ordered, limits        *)
(* positive.                                                               *)
(***************************************************************************)
ASSUME ConfigAssumption ==
  /\ Candidates \in [Tiers -> Seq(Models)]
  /\ Price \in [Models -> Nat \cup {Unpriced}]
  /\ Retryable \subseteq Failures \ {"rejected"}
  /\ {MaxTokens, MaxUsd, MaxClock, MaxAttempts, MaxRepairs, BaseDelay, OutputLimit} \subseteq Nat \ {0}
  /\ MaxDelay \in Nat /\ MaxDelay >= BaseDelay
  /\ {PromptSize, Lapse, MaxCalls} \subseteq Nat
  /\ Modes \subseteq {"stub", "replay", "local", "api"}

VARIABLES
  client,   \* mode, tier_override ("" for none), whether an endpoint is configured
  spent,    \* BudgetState: tokens, usd, and the clock
  call,     \* the call under way: its tiers, the place in them, what it has used
  phase,    \* idle, local (a stub or a recording answers), asking, waiting
  verdict,  \* what the last call came to
  completion, \* the Completion of the last answer of an endpoint
  calls,    \* len(client.calls)
  served    \* history: the tokens the endpoint has reported

vars == <<client, spent, call, phase, verdict, completion, calls, served>>

NoCall ==
  [tiers |-> <<"small">>, at |-> 1, repair |-> 0, cand |-> 1, attempt |-> 0, extra |-> 0, tokens |-> 0]

NoCompletion == [tokens |-> 0, tier |-> "small", sure |-> TRUE]

Init ==
  /\ client \in [mode : Modes, override : {"", "small", "strong"}, endpoint : BOOLEAN]
  /\ spent = [tokens |-> 0, usd |-> 0, clock |-> 0]
  /\ call = NoCall /\ phase = "idle" /\ verdict = "none" /\ completion = NoCompletion
  /\ calls = 0 /\ served = 0

-----------------------------------------------------------------------------
(***************************************************************************)
(* BudgetState.exhausted, of the ceilings a call reaches.                  *)
(***************************************************************************)
Exhausted ==
  IF spent.tokens >= MaxTokens THEN "budget_tokens"
  ELSE IF spent.usd >= MaxUsd THEN "budget_usd"
  ELSE IF spent.clock >= MaxClock THEN "budget_wall_clock" ELSE "none"

EffectiveTier(requested) ==
  IF client.override = "" \/ requested = "judge" THEN requested ELSE client.override

(***************************************************************************)
(* A small call may move to strong, once, unless an override pins it.      *)
(***************************************************************************)
TiersFor(requested) ==
  IF EffectiveTier(requested) = "small" /\ client.override = ""
  THEN <<"small", "strong">> ELSE <<EffectiveTier(requested)>>

Tier == call.tiers[call.at]

Model == Candidates[Tier][call.cand]

Incoming == PromptSize + call.extra

Least(a, b) == IF a <= b THEN a ELSE b

\* Mutant: an answer is given the transport's cap whatever is left of the budget.
Output_Unbounded == OutputLimit

Output == Least(OutputLimit, MaxTokens - spent.tokens - Incoming)

Cost(m, n) == IF Price[m] = Unpriced THEN 0 ELSE Price[m] * n

(***************************************************************************)
(* Why a request is not sent: the budget is spent, or this request could   *)
(* take it past a ceiling, or its price is not known.                      *)
(***************************************************************************)
Refusal ==
  IF Exhausted # "none" THEN Exhausted
  ELSE IF Output < 1 THEN "budget_tokens"
  ELSE IF Price[Model] = Unpriced /\ client.mode = "api" THEN "model_unavailable"
  ELSE IF Cost(Model, Incoming + Output) > MaxUsd - spent.usd THEN "budget_usd" ELSE "none"

End(result) ==
  phase' = "idle" /\ verdict' = result /\ call' = NoCall

-----------------------------------------------------------------------------
\* Mutant: the ceilings are counted per call and not per investigation.
Complete_Fresh(requested) ==
  /\ phase = "idle" /\ calls < MaxCalls /\ client.endpoint
  /\ spent' = [tokens |-> 0, usd |-> 0, clock |-> 0]
  /\ calls' = calls + 1 /\ phase' = "asking" /\ verdict' = "none"
  /\ call' = [NoCall EXCEPT !.tiers = TiersFor(requested)]
  /\ UNCHANGED <<client, completion, served>>

(***************************************************************************)
(* LlmClient.complete.  A call the budget refuses is not counted.          *)
(***************************************************************************)
Complete(requested) ==
  /\ phase = "idle" /\ calls < MaxCalls
  /\ \E d \in 0 .. Lapse :
       spent' = [spent EXCEPT !.clock = IF @ >= MaxClock THEN @ ELSE @ + d]
  /\ IF Exhausted' # "none"
     THEN /\ verdict' = Exhausted'
          /\ UNCHANGED <<call, phase, calls>>
     ELSE /\ calls' = calls + 1
          /\ IF client.mode \in {"stub", "replay"} THEN phase' = "local" /\ verdict' = "none" /\ call' = NoCall
             ELSE IF ~client.endpoint THEN phase' = "idle" /\ verdict' = "model_unavailable" /\ call' = NoCall
             ELSE /\ phase' = "asking" /\ verdict' = "none"
                  /\ call' = [NoCall EXCEPT !.tiers = TiersFor(requested)]
  /\ UNCHANGED <<client, completion, served>>

(***************************************************************************)
(* A stub answers, or its purpose or its shape is unknown.                 *)
(***************************************************************************)
Stub ==
  /\ phase = "local" /\ client.mode = "stub"
  /\ \E result \in {"answer", "llm_error"} : End(result)
  /\ UNCHANGED <<client, spent, completion, calls, served>>

(***************************************************************************)
(* A recorded answer is charged as it was recorded.  One of the wrong      *)
(* shape raises a validation error, which no caller expects.               *)
(***************************************************************************)
Replay ==
  /\ phase = "local" /\ client.mode = "replay"
  /\ \/ \E n \in 0 .. PromptSize + OutputLimit :
          /\ End("answer")
          /\ spent' = [spent EXCEPT !.tokens = @ + n, !.usd = @ + n]
          /\ served' = served + n
     \/ \E result \in {"llm_error", "crash"} : End(result) /\ UNCHANGED <<spent, served>>
  /\ UNCHANGED <<client, completion, calls>>

-----------------------------------------------------------------------------
NextTier(charged) ==
  IF call.at < Len(call.tiers)
  THEN /\ call' = [call EXCEPT !.at = @ + 1, !.repair = 0, !.cand = 1, !.attempt = 0, !.tokens = @ + charged]
       /\ UNCHANGED <<phase, verdict>>
  ELSE End("model_unavailable")

(***************************************************************************)
(* A tier without models: models_for refuses it.                           *)
(***************************************************************************)
Unconfigured ==
  /\ phase = "asking" /\ Candidates[Tier] = <<>>
  /\ End("model_unavailable")
  /\ UNCHANGED <<client, spent, completion, calls, served>>

Refuse ==
  /\ phase = "asking" /\ Candidates[Tier] # <<>> /\ Refusal # "none"
  /\ End(Refusal)
  /\ UNCHANGED <<client, spent, completion, calls, served>>

Posting == phase = "asking" /\ Candidates[Tier] # <<>> /\ Refusal = "none"

(***************************************************************************)
(* A request that fails is retried after a wait when the rules say so, and *)
(* then the next model of the tier is tried; past the last the call fails. *)
(***************************************************************************)
Fail(failure) ==
  /\ Posting
  /\ \E d \in 0 .. Lapse : spent' = [spent EXCEPT !.clock = @ + d]
  /\ IF failure \in Retryable /\ call.attempt + 1 < MaxAttempts
     THEN phase' = "waiting" /\ UNCHANGED <<call, verdict>>
     ELSE IF call.cand < Len(Candidates[Tier])
     THEN call' = [call EXCEPT !.cand = @ + 1, !.attempt = 0] /\ UNCHANGED <<phase, verdict>>
     ELSE End("model_unavailable")
  /\ UNCHANGED <<client, completion, calls, served>>

Doubled[n \in Nat] == IF n = 0 THEN BaseDelay ELSE 2 * Doubled[n - 1]

\* Mutant: a wait that takes exactly what is left is waited out.
Wait_ToTheEnd ==
  /\ phase = "waiting"
  /\ \E delay \in 0 .. MaxDelay :
       /\ delay <= Doubled[call.attempt]
       /\ delay <= MaxClock - spent.clock
       /\ spent' = [spent EXCEPT !.clock = @ + delay]
  /\ call' = [call EXCEPT !.attempt = @ + 1] /\ phase' = "asking"
  /\ UNCHANGED <<client, verdict, completion, calls, served>>

\* Mutant: the attempt is not counted, so a retry never runs out of them.
Wait_Uncounted ==
  /\ phase = "waiting" /\ phase' = "asking"
  /\ UNCHANGED <<client, spent, call, verdict, completion, calls, served>>

(***************************************************************************)
(* The wait before a retry: not one the clock has no room for.             *)
(***************************************************************************)
Wait ==
  /\ phase = "waiting"
  /\ IF Exhausted # "none" THEN End(Exhausted) /\ UNCHANGED spent
     ELSE \E delay \in 0 .. MaxDelay :
            /\ delay <= Doubled[call.attempt]
            /\ IF delay >= MaxClock - spent.clock
               THEN End("budget_wall_clock") /\ UNCHANGED spent
               ELSE /\ spent' = [spent EXCEPT !.clock = @ + delay]
                    /\ call' = [call EXCEPT !.attempt = @ + 1]
                    /\ phase' = "asking" /\ UNCHANGED verdict
  /\ UNCHANGED <<client, completion, calls, served>>

(***************************************************************************)
(* What a response may be: not JSON or not an object; or one that reports  *)
(* its usage or does not, around an answer of the wrong shape, or a right  *)
(* one the model is sure of or not.  The endpoint keeps to max_tokens, and *)
(* the bytes of the messages bound their tokens.                           *)
(***************************************************************************)
NoUsage == -1

Responses ==
  [shape : {"object"}, usage : {NoUsage} \cup 0 .. Incoming + Output, answer : {"invalid", "unsure", "sure"}]
    \cup {[shape |-> "other", usage |-> NoUsage, answer |-> "invalid"]}

(***************************************************************************)
(* Usage is charged before the answer is looked at.                        *)
(***************************************************************************)
Charge(r) == IF r.usage = NoUsage THEN 0 ELSE r.usage

SchemaFailure(r) == r.usage = NoUsage \/ r.answer = "invalid"

Escalates(r) == r.answer = "unsure" /\ Tier = "small" /\ Len(call.tiers) > 1

(***************************************************************************)
(* A tier is asked again with the complaint added to the messages, then    *)
(* the next tier is asked.                                                 *)
(***************************************************************************)
Repair(charged) ==
  IF call.repair + 1 < MaxRepairs
  THEN /\ call' = [call EXCEPT !.repair = @ + 1, !.extra = @ + 1, !.cand = 1, !.attempt = 0, !.tokens = @ + charged]
       /\ UNCHANGED <<phase, verdict>>
  ELSE NextTier(charged)

Receive(r) ==
  /\ Posting /\ r \in Responses
  /\ \E d \in 0 .. Lapse :
       spent' = [tokens |-> spent.tokens + Charge(r), usd |-> spent.usd + Cost(Model, Charge(r)),
                 clock |-> spent.clock + d]
  /\ served' = served + (IF r.usage = NoUsage THEN 0 ELSE r.usage)
  /\ IF r.shape = "other" THEN End("model_unavailable") /\ UNCHANGED completion
     ELSE IF SchemaFailure(r) THEN Repair(Charge(r)) /\ UNCHANGED completion
     ELSE IF Escalates(r) THEN NextTier(Charge(r)) /\ UNCHANGED completion
     ELSE /\ End("answer")
          /\ completion' = [tokens |-> call.tokens + Charge(r), tier |-> Tier, sure |-> r.answer = "sure"]
  /\ UNCHANGED <<client, calls>>

-----------------------------------------------------------------------------
Step ==
  \/ Stub \/ Replay \/ Unconfigured \/ Refuse \/ Wait
  \/ \E failure \in Failures : Fail(failure)
  \/ \E r \in Responses : Receive(r)

Next == (\E requested \in Tiers : Complete(requested)) \/ Step

(***************************************************************************)
(* A call that is under way is run by its own thread, to its end.          *)
(***************************************************************************)
Spec == Init /\ [][Next]_vars /\ WF_vars(Step)

-----------------------------------------------------------------------------
Remote == client.mode \in {"local", "api"}

TierLists == {<<t>> : t \in Tiers} \cup {<<"small", "strong">>}

CallOK ==
  /\ call \in [tiers : TierLists, at : {1, 2},
              repair : 0 .. MaxRepairs - 1, cand : Nat \ {0}, attempt : 0 .. MaxAttempts - 1,
              extra : Nat, tokens : Nat]
  /\ call.at <= Len(call.tiers)
  /\ phase # "idle" => call.cand = 1 \/ call.cand \in DOMAIN Candidates[Tier]

(***************************************************************************)
(* The state keeps its shape: in particular the place in the tiers is      *)
(* always one the configuration has.                                       *)
(***************************************************************************)
TypeOK ==
  /\ client \in [mode : Modes, override : {"", "small", "strong"}, endpoint : BOOLEAN]
  /\ spent \in [tokens : Nat, usd : Nat, clock : Nat]
  /\ CallOK
  /\ phase \in {"idle", "local", "asking", "waiting"}
  /\ verdict \in Verdicts \cup {"none"}
  /\ completion \in [tokens : Nat, tier : Tiers, sure : BOOLEAN]
  /\ calls \in 0 .. MaxCalls /\ served \in Nat

(***************************************************************************)
(* However many retries, repairs, models and tiers a call goes through, it *)
(* never takes the investigation past its tokens or its dollars.           *)
(***************************************************************************)
SpendWithinCeilings == Remote => spent.tokens <= MaxTokens /\ spent.usd <= MaxUsd

(***************************************************************************)
(* "Count all successful HTTP responses, including invalid model answers": *)
(* what the budget was charged is what the endpoint said it used.          *)
(***************************************************************************)
NothingUncounted == spent.tokens = served

(***************************************************************************)
(* An answer the small model was not sure of is never the one returned     *)
(* when the strong model may be asked.                                     *)
(***************************************************************************)
UnsureOnlyWhenPinned == completion.sure \/ completion.tier # "small" \/ client.override = "small"

(***************************************************************************)
(* A wait before a retry never outlives the clock: the retry it was for is *)
(* still allowed when it ends.                                             *)
(***************************************************************************)
WaitsFitTheClock ==
  [][phase = "waiting" /\ phase' = "asking" => spent'.clock < MaxClock]_vars

(***************************************************************************)
(* Every call ends: in an answer or in a refusal the caller handles.       *)
(***************************************************************************)
EveryCallEnds == phase # "idle" ~> phase = "idle"

(***************************************************************************)
(* A call keeps the promise its callers rest on.  A recorded answer was    *)
(* paid for when it was recorded and is charged whatever is left.          *)
(***************************************************************************)
Promise == INSTANCE BudgetedCall WITH
  TokenCeiling <- MaxTokens + PromptSize + OutputLimit, UsdCeiling <- MaxUsd + PromptSize + OutputLimit,
  open <- phase # "idle", tokens <- spent.tokens, usd <- spent.usd

KeepsPromise == Promise!Spec

(***************************************************************************)
(* The budget is charged all that was used and is still never past a ceiling, *)
(* through retries, fallbacks, repairs and tiers.                          *)
(***************************************************************************)
SpendIsAccounted == SpendWithinCeilings /\ NothingUncounted
=============================================================================
