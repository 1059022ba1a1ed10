--------------------------- MODULE ModelCallProofs ---------------------------
(***************************************************************************)
(* The ceilings of an investigation, for every configuration: any tiers,   *)
(* models, prices, limits and number of calls.  A request is sent only     *)
(* when its worst case fits what is left, so the ceilings are inductive    *)
(* once the type of a call ties the place in the tiers to the models the   *)
(* configuration has.  A stubbed or recorded call may pass them, by one    *)
(* answer at most.                                                         *)
(***************************************************************************)
EXTENDS ModelCall, TLAPS

(***************************************************************************)
(* What the phase says of the call under way: only a remote call is asked, *)
(* one that waits has an attempt left, and only an override keeps a call   *)
(* to the small models.                                                    *)
(***************************************************************************)
UnderWay ==
  /\ phase \in {"asking", "waiting"} =>
       Remote /\ (call.tiers = <<"small">> => client.override = "small")
  /\ phase = "waiting" => call.attempt + 1 < MaxAttempts

(***************************************************************************)
(* A call that is answered here was admitted below the ceilings.           *)
(***************************************************************************)
LocalAdmitted ==
  phase = "local" =>
    client.mode \in {"stub", "replay"} /\ spent.tokens < MaxTokens /\ spent.usd < MaxUsd

UnderCeilings ==
  /\ spent.tokens <= MaxTokens + PromptSize + OutputLimit
  /\ spent.usd <= MaxUsd + PromptSize + OutputLimit

Inv ==
  /\ TypeOK /\ UnderWay /\ LocalAdmitted /\ UnderCeilings
  /\ SpendWithinCeilings /\ NothingUncounted /\ UnsureOnlyWhenPinned

LEMMA Limits ==
  /\ MaxTokens \in Nat \ {0} /\ MaxUsd \in Nat \ {0} /\ MaxClock \in Nat \ {0}
  /\ MaxAttempts \in Nat \ {0} /\ MaxRepairs \in Nat \ {0} /\ OutputLimit \in Nat \ {0}
  /\ PromptSize \in Nat /\ Lapse \in Nat /\ MaxCalls \in Nat /\ MaxDelay \in Nat
BY ConfigAssumption

CallShape ==
  [tiers : TierLists, at : {1, 2}, repair : 0 .. MaxRepairs - 1, cand : Nat \ {0},
   attempt : 0 .. MaxAttempts - 1, extra : Nat, tokens : Nat]

LEMMA NoCallTyped ==
  NoCall \in CallShape /\ NoCall.at = 1 /\ NoCall.cand = 1 /\ Len(NoCall.tiers) = 1
<1>1. Len(<<"small">>) = 1 /\ "small" \in Tiers
  BY DEF Tiers
<1>. QED  BY <1>1, Limits DEF NoCall, CallShape, TierLists

LEMMA TiersTyped ==
  ASSUME NEW ts \in TierLists
  PROVE  Len(ts) \in {1, 2} /\ \A i \in 1 .. Len(ts) : ts[i] \in Tiers
<1>1. CASE \E t \in Tiers : ts = <<t>>
  <2>1. PICK t \in Tiers : ts = <<t>>
    BY <1>1
  <2>2. Len(ts) = 1 /\ ts[1] = t
    BY <2>1
  <2>. QED  BY <2>2
<1>2. CASE ts = <<"small", "strong">>
  <2>1. Len(ts) = 2 /\ ts[1] = "small" /\ ts[2] = "strong"
    BY <1>2
  <2>. QED  BY <2>1 DEF Tiers
<1>. QED  BY <1>1, <1>2 DEF TierLists

LEMMA CallTyped ==
  ASSUME TypeOK
  PROVE  /\ call \in CallShape /\ call.tiers \in TierLists /\ Len(call.tiers) \in {1, 2}
         /\ call.at \in 1 .. Len(call.tiers)
<1>1. call \in CallShape /\ call.at <= Len(call.tiers)
  BY DEF TypeOK, CallOK, CallShape
<1>2. call.tiers \in TierLists /\ call.at \in {1, 2}
  BY <1>1 DEF CallShape
<1>. QED  BY <1>1, <1>2, TiersTyped

LEMMA TierTyped ==
  ASSUME TypeOK
  PROVE  Tier \in Tiers /\ Candidates[Tier] \in Seq(Models)
<1>1. Tier \in Tiers
  BY TiersTyped, CallTyped DEF Tier
<1>. QED  BY <1>1, ConfigAssumption

LEMMA ModelTyped ==
  ASSUME TypeOK, phase # "idle", Candidates[Tier] # <<>>
  PROVE  call.cand \in 1 .. Len(Candidates[Tier]) /\ Model \in Models
<1>1. Candidates[Tier] \in Seq(Models) /\ Candidates[Tier] # <<>>
  BY TierTyped
<1>2. call.cand \in 1 .. Len(Candidates[Tier])
  <2>1. call.cand = 1 \/ call.cand \in DOMAIN Candidates[Tier]
    BY DEF TypeOK, CallOK
  <2>2. DOMAIN Candidates[Tier] = 1 .. Len(Candidates[Tier]) /\ Len(Candidates[Tier]) \in Nat
    BY <1>1
  <2>3. Len(Candidates[Tier]) # 0
    BY <1>1
  <2>. QED  BY <2>1, <2>2, <2>3
<1>. QED  BY <1>1, <1>2 DEF Model

(***************************************************************************)
(* A dearer answer never costs less.                                       *)
(***************************************************************************)
LEMMA CostGrows ==
  ASSUME NEW m \in Models, NEW n \in Nat, NEW k \in 0 .. n
  PROVE  Cost(m, k) \in Nat /\ Cost(m, n) \in Nat /\ Cost(m, k) <= Cost(m, n)
<1>1. CASE Price[m] = Unpriced
  BY <1>1 DEF Cost
<1>2. CASE Price[m] # Unpriced
  <2>1. Price[m] \in Nat
    BY <1>2, ConfigAssumption
  <2>2. \A p, a, b \in Nat : a <= b => p * a <= p * b /\ p * a \in Nat /\ p * b \in Nat
    OBVIOUS
  <2>3. Cost(m, k) = Price[m] * k /\ Cost(m, n) = Price[m] * n
    BY <1>2 DEF Cost
  <2>. QED  BY <2>1, <2>2, <2>3
<1>. QED  BY <1>1, <1>2

-----------------------------------------------------------------------------
(***************************************************************************)
(* The ways a step leaves the call.                                        *)
(***************************************************************************)
Left == phase' = "idle" /\ call' = NoCall

LEMMA EndedCall ==
  ASSUME Left
  PROVE  CallOK' /\ UnderWay' /\ LocalAdmitted'
BY NoCallTyped DEF Left, CallOK, CallShape, UnderWay, LocalAdmitted

(***************************************************************************)
(* The call as the rules keep it between two requests.                     *)
(***************************************************************************)
LEMMA KeptCall ==
  ASSUME TypeOK, UnderWay, phase \in {"asking", "waiting"}, phase' \in {"asking", "waiting"},
         UNCHANGED client,
         call' \in CallShape, call'.tiers = call.tiers, call'.at <= Len(call.tiers),
         \/ call'.cand = 1
         \/ call'.at = call.at /\ call'.cand \in DOMAIN Candidates[Tier],
         phase' = "waiting" => call'.attempt + 1 < MaxAttempts
  PROVE  CallOK' /\ UnderWay' /\ LocalAdmitted'
BY DEF CallOK, CallShape, UnderWay, LocalAdmitted, Tier, Remote

LEMMA NextTierKeeps ==
  ASSUME Inv, phase = "asking", UNCHANGED client, NEW n \in Nat, NextTier(n)
  PROVE  /\ CallOK' /\ UnderWay' /\ LocalAdmitted'
         /\ \/ phase' = "asking" /\ verdict' = verdict
            \/ phase' = "idle" /\ verdict' = "model_unavailable"
<1>. USE DEF Inv
<1>1. CASE call.at < Len(call.tiers)
  <2>1. call' = [call EXCEPT !.at = @ + 1, !.repair = 0, !.cand = 1, !.attempt = 0, !.tokens = @ + n]
        /\ phase' = phase /\ verdict' = verdict
    BY <1>1 DEF NextTier
  <2>2. call' \in CallShape /\ call'.tiers = call.tiers /\ call'.at = call.at + 1 /\ call'.cand = 1
    <3>1. call \in CallShape /\ call.at \in {1, 2} /\ Len(call.tiers) \in {1, 2}
      BY CallTyped DEF CallShape
    <3>2. call' = [tiers |-> call.tiers, at |-> call.at + 1, repair |-> 0, cand |-> 1,
                   attempt |-> 0, extra |-> call.extra, tokens |-> call.tokens + n]
      BY <2>1, <3>1 DEF CallShape
    <3>3. call.at + 1 \in {1, 2}
      <4>1. \A x, y \in {1, 2} : x < y => x + 1 \in {1, 2}
        OBVIOUS
      <4>. QED  BY <1>1, <3>1, <4>1, Zenon
    <3>4. /\ call.tiers \in TierLists /\ call.extra \in Nat
          /\ call.tokens + n \in Nat /\ 0 \in 0 .. MaxRepairs - 1 /\ 0 \in 0 .. MaxAttempts - 1
      BY <3>1, Limits DEF CallShape
    <3>. QED  BY <3>2, <3>3, <3>4 DEF CallShape
  <2>3. call'.at <= Len(call.tiers)
    BY <2>2, <1>1, CallTyped DEF CallShape
  <2>. QED  BY <2>1, <2>2, <2>3, KeptCall
<1>2. CASE ~(call.at < Len(call.tiers))
  BY <1>2, EndedCall DEF NextTier, End, Left
<1>. QED  BY <1>1, <1>2

LEMMA RepairKeeps ==
  ASSUME Inv, phase = "asking", UNCHANGED client, NEW n \in Nat, Repair(n)
  PROVE  /\ CallOK' /\ UnderWay' /\ LocalAdmitted'
         /\ \/ phase' = "asking" /\ verdict' = verdict
            \/ phase' = "idle" /\ verdict' = "model_unavailable"
<1>1. CASE call.repair + 1 < MaxRepairs
  <2>1. call' = [call EXCEPT !.repair = @ + 1, !.extra = @ + 1, !.cand = 1, !.attempt = 0,
                             !.tokens = @ + n]
        /\ phase' = phase /\ verdict' = verdict
    BY <1>1 DEF Repair
  <2>2. /\ call' \in CallShape /\ call'.tiers = call.tiers
        /\ call'.at = call.at /\ call'.cand = 1
    <3>1. call \in CallShape
      BY CallTyped DEF Inv
    <3>2. call' = [tiers |-> call.tiers, at |-> call.at, repair |-> call.repair + 1, cand |-> 1,
                   attempt |-> 0, extra |-> call.extra + 1, tokens |-> call.tokens + n]
      BY <2>1, <3>1 DEF CallShape
    <3>3. /\ call.tiers \in TierLists /\ call.at \in {1, 2} /\ call.extra + 1 \in Nat
          /\ call.tokens + n \in Nat /\ call.repair + 1 \in 0 .. MaxRepairs - 1
          /\ 0 \in 0 .. MaxAttempts - 1
      BY <1>1, <3>1, Limits DEF CallShape
    <3>. QED  BY <3>2, <3>3 DEF CallShape
  <2>. QED  BY <2>1, <2>2, CallTyped, KeptCall DEF Inv
<1>2. CASE ~(call.repair + 1 < MaxRepairs)
  BY <1>2, NextTierKeeps DEF Repair
<1>. QED  BY <1>1, <1>2

-----------------------------------------------------------------------------
(***************************************************************************)
(* What a step that is not a request leaves of the spending.               *)
(***************************************************************************)
LEMMA SpendingKept ==
  ASSUME Inv, UNCHANGED <<client, completion, served>>,
         spent' \in [tokens : Nat, usd : Nat, clock : Nat],
         spent'.tokens = spent.tokens, spent'.usd = spent.usd
  PROVE  UnderCeilings' /\ SpendWithinCeilings' /\ NothingUncounted' /\ UnsureOnlyWhenPinned'
BY DEF Inv, UnderCeilings, SpendWithinCeilings, NothingUncounted, UnsureOnlyWhenPinned, Remote

LEMMA VerdictsOf ==
  /\ \A v \in {"answer", "llm_error", "model_unavailable", "crash"} \cup Ceilings : v \in Verdicts
  /\ Exhausted \in Ceilings \cup {"none"}
  /\ Refusal \in Verdicts \cup {"none"}
BY DEF Verdicts, Ceilings, Exhausted, Refusal

LEMMA ExhaustedMeans ==
  ASSUME TypeOK, Exhausted = "none"
  PROVE  spent.tokens < MaxTokens /\ spent.usd < MaxUsd /\ spent.clock < MaxClock
<1>1. spent.tokens \in Nat /\ spent.usd \in Nat /\ spent.clock \in Nat
  BY DEF TypeOK
<1>2. ~(spent.tokens >= MaxTokens) /\ ~(spent.usd >= MaxUsd) /\ ~(spent.clock >= MaxClock)
  BY DEF Exhausted
<1>. QED  BY <1>1, <1>2, Limits

LEMMA LatenessTyped ==
  ASSUME TypeOK, NEW d \in Nat, spent' = [spent EXCEPT !.clock = @ + d]
  PROVE  /\ spent' \in [tokens : Nat, usd : Nat, clock : Nat]
         /\ spent'.tokens = spent.tokens /\ spent'.usd = spent.usd
         /\ spent'.clock = spent.clock + d
<1>1. spent \in [tokens : Nat, usd : Nat, clock : Nat]
  BY DEF TypeOK
<1>2. spent' = [tokens |-> spent.tokens, usd |-> spent.usd, clock |-> spent.clock + d]
  BY <1>1
<1>. QED  BY <1>1, <1>2

-----------------------------------------------------------------------------
LEMMA CompleteStep ==
  ASSUME Inv, NEW requested \in Tiers, Complete(requested)
  PROVE  /\ Inv'
         /\ \/ phase' = "idle" /\ verdict' \in Verdicts
            \/ phase' \in {"local", "asking"} /\ verdict' = "none"
<1>1. TypeOK
  BY DEF Inv
<1>2. PICK d \in 0 .. Lapse : spent' = [spent EXCEPT !.clock = IF @ >= MaxClock THEN @ ELSE @ + d]
  BY DEF Complete
<1>3. PICK e \in Nat : spent' = [spent EXCEPT !.clock = @ + e]
  <2>1. spent.clock \in Nat
    BY <1>1 DEF TypeOK
  <2>2. d \in Nat /\ 0 \in Nat /\ spent.clock + 0 = spent.clock
    BY <2>1, Limits
  <2>3. CASE spent.clock >= MaxClock
    BY <1>2, <2>2, <2>3
  <2>4. CASE ~(spent.clock >= MaxClock)
    BY <1>2, <2>2, <2>4
  <2>. QED  BY <2>3, <2>4
<1>4. /\ spent' \in [tokens : Nat, usd : Nat, clock : Nat]
      /\ spent'.tokens = spent.tokens /\ spent'.usd = spent.usd
  BY <1>1, <1>3, LatenessTyped
<1>5. phase = "idle" /\ calls < MaxCalls /\ UNCHANGED <<client, completion, served>>
  BY DEF Complete
<1>6. UnderCeilings' /\ SpendWithinCeilings' /\ NothingUncounted' /\ UnsureOnlyWhenPinned'
  BY <1>4, <1>5, SpendingKept
<1>7. CASE Exhausted' # "none"
  <2>1. verdict' = Exhausted' /\ UNCHANGED <<call, phase, calls>>
    BY <1>7 DEF Complete
  <2>2. verdict' \in Ceilings
    BY <1>7, <2>1 DEF Exhausted, Ceilings
  <2>3. verdict' \in Verdicts
    BY <2>2 DEF Verdicts
  <2>4. TypeOK'
    BY <1>1, <1>4, <1>5, <2>1, <2>3 DEF TypeOK, CallOK, Tier
  <2>5. UnderWay' /\ LocalAdmitted'
    BY <1>5, <2>1 DEF UnderWay, LocalAdmitted
  <2>. QED  BY <1>5, <1>6, <2>1, <2>3, <2>4, <2>5 DEF Inv
<1>8. CASE Exhausted' = "none"
  <2>1. calls' = calls + 1 /\ calls' \in 0 .. MaxCalls
    <3>1. calls \in 0 .. MaxCalls
      BY <1>1 DEF TypeOK
    <3>2. calls' = calls + 1
      BY <1>8 DEF Complete
    <3>. QED  BY <1>5, <3>1, <3>2, Limits
  <2>2. spent'.tokens < MaxTokens /\ spent'.usd < MaxUsd
    <3>1. ~(spent'.tokens >= MaxTokens) /\ ~(spent'.usd >= MaxUsd)
      BY <1>8 DEF Exhausted
    <3>. QED  BY <1>4, <3>1, Limits
  <2>3. CASE client.mode \in {"stub", "replay"}
    <3>1. phase' = "local" /\ verdict' = "none" /\ call' = NoCall
      BY <1>8, <2>3 DEF Complete
    <3>2. CallOK' /\ UnderWay'
      BY <3>1, NoCallTyped DEF CallOK, CallShape, UnderWay
    <3>3. LocalAdmitted'
      BY <1>5, <2>2, <2>3 DEF LocalAdmitted
    <3>4. TypeOK'
      BY <1>1, <1>4, <1>5, <2>1, <3>1, <3>2 DEF TypeOK
    <3>. QED  BY <1>6, <3>1, <3>2, <3>3, <3>4 DEF Inv
  <2>4. CASE client.mode \notin {"stub", "replay"} /\ ~client.endpoint
    <3>1. phase' = "idle" /\ verdict' = "model_unavailable" /\ call' = NoCall
      BY <1>8, <2>4 DEF Complete
    <3>2. CallOK' /\ UnderWay' /\ LocalAdmitted'
      BY <3>1, EndedCall DEF Left
    <3>3. verdict' \in Verdicts
      BY <3>1 DEF Verdicts
    <3>4. TypeOK'
      BY <1>1, <1>4, <1>5, <2>1, <3>1, <3>2, <3>3 DEF TypeOK
    <3>. QED  BY <1>6, <3>1, <3>2, <3>3, <3>4 DEF Inv
  <2>5. CASE client.mode \notin {"stub", "replay"} /\ client.endpoint
    <3>1. phase' = "asking" /\ verdict' = "none"
          /\ call' = [NoCall EXCEPT !.tiers = TiersFor(requested)]
      BY <1>8, <2>5 DEF Complete
    <3>2. /\ TiersFor(requested) \in TierLists
          /\ TiersFor(requested) = <<"small">> => client.override = "small"
      <4>1. client.override \in {"", "small", "strong"}
        BY <1>1 DEF TypeOK
      <4>2. EffectiveTier(requested) \in Tiers
        BY <4>1 DEF EffectiveTier, Tiers
      <4>3. CASE EffectiveTier(requested) = "small" /\ client.override = ""
        <5>1. TiersFor(requested) = <<"small", "strong">>
          BY <4>3 DEF TiersFor
        <5>2. <<"small", "strong">> # <<"small">>
          <6>1. Len(<<"small", "strong">>) = 2 /\ Len(<<"small">>) = 1
            OBVIOUS
          <6>. QED  BY <6>1
        <5>. QED  BY <5>1, <5>2 DEF TierLists
      <4>4. CASE ~(EffectiveTier(requested) = "small" /\ client.override = "")
        <5>1. TiersFor(requested) = <<EffectiveTier(requested)>>
          BY <4>4 DEF TiersFor
        <5>2. TiersFor(requested) \in TierLists
          BY <4>2, <5>1 DEF TierLists
        <5>3. ASSUME TiersFor(requested) = <<"small">> PROVE client.override = "small"
          <6>1. EffectiveTier(requested) = "small"
            BY <5>1, <5>3
          <6>. QED  BY <4>1, <4>4, <6>1 DEF EffectiveTier
        <5>. QED  BY <5>2, <5>3
      <4>. QED  BY <4>3, <4>4
    <3>3. call' \in CallShape /\ call'.at = 1 /\ call'.cand = 1 /\ call'.tiers = TiersFor(requested)
      BY <3>1, <3>2, NoCallTyped DEF CallShape
    <3>4. Len(call'.tiers) \in {1, 2}
      BY <3>2, <3>3, TiersTyped
    <3>5. CallOK'
      <4>1. call'.at <= Len(call'.tiers)
        <5>1. \A n \in {1, 2} : 1 <= n
          OBVIOUS
        <5>. QED  BY <3>3, <3>4, <5>1, Zenon
      <4>. QED  BY <3>3, <4>1 DEF CallOK, CallShape
    <3>6. Remote
      BY <1>1, <2>5, ConfigAssumption DEF TypeOK, Remote
    <3>7. UnderWay' /\ LocalAdmitted'
      BY <1>5, <3>1, <3>2, <3>3, <3>6 DEF UnderWay, LocalAdmitted, Remote
    <3>8. TypeOK'
      BY <1>1, <1>4, <1>5, <2>1, <3>1, <3>5 DEF TypeOK
    <3>. QED  BY <1>6, <3>1, <3>7, <3>8 DEF Inv
  <2>. QED  BY <2>3, <2>4, <2>5
<1>. QED  BY <1>7, <1>8

LEMMA StubStep ==
  ASSUME Inv, Stub
  PROVE  Inv' /\ phase' = "idle" /\ verdict' \in Verdicts
<1>1. Left /\ verdict' \in {"answer", "llm_error"} /\ UNCHANGED <<client, spent, completion, calls, served>>
  BY DEF Stub, End, Left
<1>2. verdict' \in Verdicts
  BY <1>1 DEF Verdicts
<1>3. TypeOK'
  BY <1>1, <1>2, EndedCall DEF Inv, TypeOK, Left
<1>4. UnderCeilings' /\ SpendWithinCeilings' /\ NothingUncounted' /\ UnsureOnlyWhenPinned'
  BY <1>1, SpendingKept DEF Inv, TypeOK
<1>. QED  BY <1>1, <1>2, <1>3, <1>4, EndedCall DEF Inv, Left

LEMMA ReplayStep ==
  ASSUME Inv, Replay
  PROVE  /\ Inv' /\ phase' = "idle" /\ verdict' \in Verdicts
         /\ spent'.tokens >= spent.tokens /\ spent'.usd >= spent.usd
<1>1. Left /\ verdict' \in {"answer", "llm_error", "crash"} /\ UNCHANGED <<client, completion, calls>>
  BY DEF Replay, End, Left
<1>2. verdict' \in Verdicts
  BY <1>1 DEF Verdicts
<1>3. PICK n \in 0 .. PromptSize + OutputLimit :
        /\ spent' = [tokens |-> spent.tokens + n, usd |-> spent.usd + n, clock |-> spent.clock]
        /\ served' = served + n
  <2>1. spent \in [tokens : Nat, usd : Nat, clock : Nat] /\ served \in Nat
    BY DEF Inv, TypeOK
  <2>2. CASE UNCHANGED <<spent, served>>
    <3>1. 0 \in 0 .. PromptSize + OutputLimit
      BY Limits
    <3>2. spent.tokens + 0 = spent.tokens /\ spent.usd + 0 = spent.usd /\ served + 0 = served
      BY <2>1
    <3>3. spent = [tokens |-> spent.tokens, usd |-> spent.usd, clock |-> spent.clock]
      BY <2>1
    <3>. QED  BY <2>2, <3>1, <3>2, <3>3
  <2>3. ASSUME NEW n \in 0 .. PromptSize + OutputLimit,
               spent' = [spent EXCEPT !.tokens = @ + n, !.usd = @ + n]
        PROVE  spent' = [tokens |-> spent.tokens + n, usd |-> spent.usd + n, clock |-> spent.clock]
    BY <2>1, <2>3
  <2>. QED  BY <2>2, <2>3 DEF Replay
<1>4. /\ spent.tokens < MaxTokens /\ spent.usd < MaxUsd /\ client.mode = "replay"
      /\ spent \in [tokens : Nat, usd : Nat, clock : Nat] /\ served \in Nat
      /\ spent.tokens = served
  BY DEF Inv, TypeOK, LocalAdmitted, Replay, NothingUncounted
<1>5. n \in Nat /\ n <= PromptSize + OutputLimit
  BY Limits
<1>6. /\ spent' \in [tokens : Nat, usd : Nat, clock : Nat] /\ served' \in Nat
      /\ UnderCeilings' /\ NothingUncounted'
      /\ spent'.tokens >= spent.tokens /\ spent'.usd >= spent.usd
  BY <1>3, <1>4, <1>5, Limits DEF UnderCeilings, NothingUncounted
<1>7. SpendWithinCeilings' /\ UnsureOnlyWhenPinned'
  BY <1>1, <1>4 DEF Inv, SpendWithinCeilings, Remote, UnsureOnlyWhenPinned
<1>8. TypeOK'
  BY <1>1, <1>2, <1>6, EndedCall DEF Inv, TypeOK, Left
<1>. QED  BY <1>1, <1>2, <1>6, <1>7, <1>8, EndedCall DEF Inv, Left

(***************************************************************************)
(* A tier without models and a request the budget refuses end the call     *)
(* where it stands.                                                        *)
(***************************************************************************)
LEMMA RefusedStep ==
  ASSUME Inv, Unconfigured \/ Refuse
  PROVE  Inv' /\ phase' = "idle" /\ verdict' \in Verdicts /\ UNCHANGED spent
<1>1. Left /\ UNCHANGED <<client, spent, completion, calls, served>>
  BY DEF Unconfigured, Refuse, End, Left
<1>2. verdict' \in Verdicts
  <2>1. CASE Unconfigured
    BY <2>1 DEF Unconfigured, End, Verdicts
  <2>2. CASE Refuse
    BY <2>2, VerdictsOf DEF Refuse, End
  <2>. QED  BY <2>1, <2>2
<1>3. TypeOK'
  BY <1>1, <1>2, EndedCall DEF Inv, TypeOK, Left
<1>4. UnderCeilings' /\ SpendWithinCeilings' /\ NothingUncounted' /\ UnsureOnlyWhenPinned'
  BY <1>1, SpendingKept DEF Inv, TypeOK
<1>. QED  BY <1>1, <1>2, <1>3, <1>4, EndedCall DEF Inv, Left

-----------------------------------------------------------------------------
LEMMA FailStep ==
  ASSUME Inv, NEW failure \in Failures, Fail(failure)
  PROVE  /\ Inv' /\ spent'.tokens = spent.tokens /\ spent'.usd = spent.usd
         /\ \/ phase' \in {"asking", "waiting"} /\ verdict' = verdict
            \/ phase' = "idle" /\ verdict' \in Verdicts
<1>1. /\ phase = "asking" /\ Candidates[Tier] # <<>> /\ TypeOK
      /\ UNCHANGED <<client, completion, calls, served>>
  BY DEF Inv, Fail, Posting
<1>2. PICK d \in 0 .. Lapse : spent' = [spent EXCEPT !.clock = @ + d]
  BY DEF Fail
<1>3. /\ spent' \in [tokens : Nat, usd : Nat, clock : Nat]
      /\ spent'.tokens = spent.tokens /\ spent'.usd = spent.usd
  BY <1>1, <1>2, Limits, LatenessTyped
<1>4. UnderCeilings' /\ SpendWithinCeilings' /\ NothingUncounted' /\ UnsureOnlyWhenPinned'
  BY <1>1, <1>3, SpendingKept
<1>5. /\ CallOK' /\ UnderWay' /\ LocalAdmitted'
      /\ \/ phase' \in {"asking", "waiting"} /\ verdict' = verdict
         \/ phase' = "idle" /\ verdict' \in Verdicts
  <2>1. CASE failure \in Retryable /\ call.attempt + 1 < MaxAttempts
    <3>1. phase' = "waiting" /\ UNCHANGED <<call, verdict>>
      BY <2>1 DEF Fail
    <3>2. CallOK'
      BY <1>1, <3>1 DEF TypeOK, CallOK, Tier
    <3>3. UnderWay' /\ LocalAdmitted'
      BY <1>1, <2>1, <3>1 DEF Inv, UnderWay, LocalAdmitted, Remote
    <3>. QED  BY <3>1, <3>2, <3>3
  <2>2. CASE /\ ~(failure \in Retryable /\ call.attempt + 1 < MaxAttempts)
             /\ call.cand < Len(Candidates[Tier])
    <3>1. /\ call' = [call EXCEPT !.cand = @ + 1, !.attempt = 0]
          /\ phase' = "asking" /\ verdict' = verdict
      BY <1>1, <2>2 DEF Fail
    <3>2. call \in CallShape /\ call.at <= Len(call.tiers)
      BY <1>1 DEF TypeOK, CallOK, CallShape
    <3>3. call.cand \in 1 .. Len(Candidates[Tier]) /\ Candidates[Tier] \in Seq(Models)
      BY <1>1, ModelTyped, TierTyped
    <3>4. call.cand + 1 \in DOMAIN Candidates[Tier] /\ call.cand + 1 \in Nat \ {0}
      BY <2>2, <3>3
    <3>5. call' = [tiers |-> call.tiers, at |-> call.at, repair |-> call.repair,
                   cand |-> call.cand + 1, attempt |-> 0, extra |-> call.extra,
                   tokens |-> call.tokens]
      BY <3>1, <3>2 DEF CallShape
    <3>6. 0 \in 0 .. MaxAttempts - 1
      BY Limits
    <3>7. /\ call' \in CallShape /\ call'.tiers = call.tiers /\ call'.at = call.at
          /\ call'.cand = call.cand + 1
      BY <3>2, <3>4, <3>5, <3>6 DEF CallShape
    <3>. QED  BY <1>1, <3>1, <3>2, <3>4, <3>7, KeptCall DEF Inv
  <2>3. CASE /\ ~(failure \in Retryable /\ call.attempt + 1 < MaxAttempts)
             /\ ~(call.cand < Len(Candidates[Tier]))
    <3>1. Left /\ verdict' = "model_unavailable"
      BY <2>3 DEF Fail, End, Left
    <3>. QED  BY <3>1, EndedCall DEF Left, Verdicts
  <2>. QED  BY <2>1, <2>2, <2>3
<1>6. TypeOK'
  BY <1>1, <1>3, <1>5 DEF TypeOK
<1>. QED  BY <1>3, <1>4, <1>5, <1>6 DEF Inv

LEMMA WaitStep ==
  ASSUME Inv, Wait
  PROVE  /\ Inv' /\ spent'.tokens = spent.tokens /\ spent'.usd = spent.usd
         /\ \/ phase' = "asking" /\ verdict' = verdict /\ spent'.clock < MaxClock
            \/ phase' = "idle" /\ verdict' \in Verdicts
<1>1. /\ phase = "waiting" /\ TypeOK /\ spent \in [tokens : Nat, usd : Nat, clock : Nat]
      /\ UNCHANGED <<client, completion, calls, served>>
  BY DEF Inv, Wait, TypeOK
<1>2. CASE phase' = "idle"
  <2>1. Left /\ verdict' \in Ceilings /\ spent' = spent
    BY <1>1, <1>2, VerdictsOf DEF Wait, End, Left, Ceilings
  <2>2. verdict' \in Verdicts
    BY <2>1 DEF Verdicts
  <2>3. TypeOK'
    BY <1>1, <2>1, <2>2, EndedCall DEF TypeOK, Left
  <2>4. UnderCeilings' /\ SpendWithinCeilings' /\ NothingUncounted' /\ UnsureOnlyWhenPinned'
    BY <1>1, <2>1, SpendingKept
  <2>. QED  BY <2>1, <2>2, <2>3, <2>4, EndedCall DEF Inv, Left
<1>3. CASE phase' # "idle"
  <2>1. PICK delay \in 0 .. MaxDelay :
          /\ ~(delay >= MaxClock - spent.clock)
          /\ spent' = [spent EXCEPT !.clock = @ + delay]
          /\ call' = [call EXCEPT !.attempt = @ + 1]
          /\ phase' = "asking" /\ verdict' = verdict
    BY <1>3 DEF Wait, End
  <2>2. /\ spent' \in [tokens : Nat, usd : Nat, clock : Nat]
        /\ spent'.tokens = spent.tokens /\ spent'.usd = spent.usd
        /\ spent'.clock = spent.clock + delay
    BY <1>1, <2>1, Limits, LatenessTyped
  <2>3. spent'.clock < MaxClock
    BY <1>1, <2>1, <2>2, Limits
  <2>4. call \in CallShape /\ call.at <= Len(call.tiers)
    BY <1>1 DEF TypeOK, CallOK, CallShape
  <2>5. call.attempt + 1 \in 0 .. MaxAttempts - 1
    BY <1>1, <2>4, Limits DEF Inv, UnderWay, CallShape
  <2>6. call' = [tiers |-> call.tiers, at |-> call.at, repair |-> call.repair,
                 cand |-> call.cand, attempt |-> call.attempt + 1, extra |-> call.extra,
                 tokens |-> call.tokens]
    BY <2>1, <2>4 DEF CallShape
  <2>7. /\ call' \in CallShape /\ call'.tiers = call.tiers /\ call'.at = call.at
        /\ call'.cand = call.cand
    BY <2>4, <2>5, <2>6 DEF CallShape
  <2>8. call.cand = 1 \/ call.cand \in DOMAIN Candidates[Tier]
    BY <1>1 DEF TypeOK, CallOK
  <2>9. CallOK' /\ UnderWay' /\ LocalAdmitted'
    BY <1>1, <2>1, <2>4, <2>7, <2>8, KeptCall DEF Inv
  <2>10. TypeOK'
    BY <1>1, <2>1, <2>2, <2>9 DEF TypeOK
  <2>11. UnderCeilings' /\ SpendWithinCeilings' /\ NothingUncounted' /\ UnsureOnlyWhenPinned'
    BY <1>1, <2>2, SpendingKept
  <2>. QED  BY <2>1, <2>2, <2>3, <2>9, <2>10, <2>11 DEF Inv
<1>. QED  BY <1>2, <1>3

(***************************************************************************)
(* A request that was sent had room for all it could use.                  *)
(***************************************************************************)
LEMMA ChargeFits ==
  ASSUME Inv, Posting, NEW r \in Responses
  PROVE  /\ Charge(r) \in Nat /\ Cost(Model, Charge(r)) \in Nat
         /\ spent.tokens + Charge(r) <= MaxTokens
         /\ spent.usd + Cost(Model, Charge(r)) <= MaxUsd
<1>1. /\ TypeOK /\ phase # "idle" /\ Candidates[Tier] # <<>> /\ Refusal = "none"
  BY DEF Inv, Posting
<1>2. Model \in Models
  BY <1>1, ModelTyped
<1>3. spent.tokens \in Nat /\ spent.usd \in Nat /\ Incoming \in Nat
  <2>1. spent.tokens \in Nat /\ spent.usd \in Nat
    BY <1>1 DEF TypeOK
  <2>2. call.extra \in Nat
    BY <1>1, CallTyped DEF CallShape
  <2>. QED  BY <2>1, <2>2, Limits DEF Incoming
<1>4. /\ Exhausted = "none" /\ ~(Output < 1)
      /\ ~(Cost(Model, Incoming + Output) > MaxUsd - spent.usd)
  BY <1>1, VerdictsOf DEF Refusal
<1>5. Output \in Nat /\ Output <= MaxTokens - spent.tokens - Incoming
  BY <1>3, <1>4, Limits DEF Output, Least
<1>6. r.usage \in {NoUsage} \cup 0 .. Incoming + Output
  BY DEF Responses
<1>7. Charge(r) \in 0 .. Incoming + Output
  BY <1>3, <1>5, <1>6 DEF Charge, NoUsage
<1>8. /\ Cost(Model, Charge(r)) \in Nat /\ Cost(Model, Incoming + Output) \in Nat
      /\ Cost(Model, Charge(r)) <= Cost(Model, Incoming + Output)
  <2>1. Incoming + Output \in Nat
    BY <1>3, <1>5
  <2>. QED  BY <1>2, <1>7, <2>1, CostGrows
<1>9. spent.tokens + Charge(r) <= MaxTokens
  BY <1>3, <1>5, <1>7, Limits
<1>10. spent.usd + Cost(Model, Charge(r)) <= MaxUsd
  BY <1>3, <1>4, <1>8, Limits
<1>. QED  BY <1>3, <1>5, <1>7, <1>8, <1>9, <1>10

LEMMA ReceiveStep ==
  ASSUME Inv, NEW r \in Responses, Receive(r)
  PROVE  /\ Inv' /\ spent'.tokens >= spent.tokens /\ spent'.usd >= spent.usd
         /\ \/ phase' = "asking" /\ verdict' = verdict
            \/ phase' = "idle" /\ verdict' \in Verdicts
<1>1. /\ phase = "asking" /\ TypeOK /\ Posting /\ UNCHANGED <<client, calls>>
      /\ spent.tokens \in Nat /\ spent.usd \in Nat /\ spent.clock \in Nat
      /\ spent.tokens = served /\ served \in Nat
  BY DEF Inv, Receive, Posting, TypeOK, NothingUncounted
<1>2. PICK d \in 0 .. Lapse :
        spent' = [tokens |-> spent.tokens + Charge(r), usd |-> spent.usd + Cost(Model, Charge(r)),
                  clock |-> spent.clock + d]
  BY DEF Receive
<1>3. /\ Charge(r) \in Nat /\ Cost(Model, Charge(r)) \in Nat
      /\ spent.tokens + Charge(r) <= MaxTokens
      /\ spent.usd + Cost(Model, Charge(r)) <= MaxUsd
  BY <1>1, ChargeFits
<1>4. served' = served + Charge(r)
  BY DEF Receive, Charge
<1>5. /\ spent' \in [tokens : Nat, usd : Nat, clock : Nat] /\ served' \in Nat
      /\ spent'.tokens >= spent.tokens /\ spent'.usd >= spent.usd
      /\ spent'.tokens <= MaxTokens /\ spent'.usd <= MaxUsd /\ spent'.tokens = served'
  BY <1>1, <1>2, <1>3, <1>4, Limits
<1>6. UnderCeilings' /\ SpendWithinCeilings' /\ NothingUncounted'
  BY <1>5, Limits DEF UnderCeilings, SpendWithinCeilings, NothingUncounted
<1>7. /\ CallOK' /\ UnderWay' /\ LocalAdmitted' /\ UnsureOnlyWhenPinned'
      /\ completion' \in [tokens : Nat, tier : Tiers, sure : BOOLEAN]
      /\ \/ phase' = "asking" /\ verdict' = verdict
         \/ phase' = "idle" /\ verdict' \in Verdicts
  <2>1. ASSUME UNCHANGED completion
        PROVE  UnsureOnlyWhenPinned' /\ completion' \in [tokens : Nat, tier : Tiers, sure : BOOLEAN]
    BY <1>1, <2>1 DEF Inv, UnsureOnlyWhenPinned, TypeOK
  <2>2. CASE r.shape = "other"
    <3>1. Left /\ verdict' = "model_unavailable" /\ UNCHANGED completion
      BY <2>2 DEF Receive, End, Left
    <3>. QED  BY <2>1, <3>1, EndedCall DEF Left, Verdicts
  <2>3. CASE r.shape # "other" /\ SchemaFailure(r)
    <3>1. Repair(Charge(r)) /\ UNCHANGED completion
      BY <2>3 DEF Receive
    <3>. QED  BY <1>1, <1>3, <2>1, <3>1, RepairKeeps DEF Verdicts
  <2>4. CASE r.shape # "other" /\ ~SchemaFailure(r) /\ Escalates(r)
    <3>1. NextTier(Charge(r)) /\ UNCHANGED completion
      BY <2>4 DEF Receive
    <3>. QED  BY <1>1, <1>3, <2>1, <3>1, NextTierKeeps DEF Verdicts
  <2>5. CASE r.shape # "other" /\ ~SchemaFailure(r) /\ ~Escalates(r)
    <3>1. /\ Left /\ verdict' = "answer"
          /\ completion' = [tokens |-> call.tokens + Charge(r), tier |-> Tier,
                            sure |-> r.answer = "sure"]
      BY <2>5 DEF Receive, End, Left
    <3>2. Tier \in Tiers /\ call.tokens \in Nat
      BY <1>1, TierTyped, CallTyped DEF CallShape
    <3>3. completion' \in [tokens : Nat, tier : Tiers, sure : BOOLEAN]
      <4>1. call.tokens + Charge(r) \in Nat
        BY <1>3, <3>2
      <4>. QED  BY <3>1, <3>2, <4>1
    <3>4. UnsureOnlyWhenPinned'
      <4>1. SUFFICES ASSUME r.answer # "sure", Tier = "small" PROVE client.override = "small"
        BY <1>1, <3>1 DEF UnsureOnlyWhenPinned
      <4>2. r.answer = "unsure"
        BY <2>5, <4>1 DEF Responses, SchemaFailure
      <4>3. ~(Len(call.tiers) > 1)
        BY <2>5, <4>1, <4>2 DEF Escalates
      <4>4. call.tiers = <<"small">>
        <5>1. call.tiers \in TierLists /\ call.at \in 1 .. Len(call.tiers) /\ Len(call.tiers) \in {1, 2}
          BY <1>1, CallTyped
        <5>2. Len(<<"small", "strong">>) = 2
          OBVIOUS
        <5>3. PICK t \in Tiers : call.tiers = <<t>>
          <6>1. 2 > 1
            OBVIOUS
          <6>2. call.tiers # <<"small", "strong">>
            BY <4>3, <5>2, <6>1, Zenon
          <6>. QED  BY <5>1, <6>2 DEF TierLists
        <5>4. Tier = t
          <6>1. Len(call.tiers) = 1 /\ call.tiers[1] = t
            BY <5>3
          <6>2. call.at = 1
            BY <5>1, <6>1
          <6>. QED  BY <6>1, <6>2 DEF Tier
        <5>. QED  BY <4>1, <5>3, <5>4
      <4>. QED  BY <1>1, <4>4 DEF Inv, UnderWay
    <3>. QED  BY <3>1, <3>3, <3>4, EndedCall DEF Left, Verdicts
  <2>. QED  BY <2>2, <2>3, <2>4, <2>5
<1>8. TypeOK'
  BY <1>1, <1>5, <1>7 DEF TypeOK
<1>. QED  BY <1>5, <1>6, <1>7, <1>8 DEF Inv

-----------------------------------------------------------------------------
LEMMA InitInv == Init => Inv
<1>. SUFFICES ASSUME Init PROVE Inv
  OBVIOUS
<1>1. /\ client \in [mode : Modes, override : {"", "small", "strong"}, endpoint : BOOLEAN]
      /\ spent = [tokens |-> 0, usd |-> 0, clock |-> 0] /\ call = NoCall /\ phase = "idle"
      /\ verdict = "none" /\ completion = NoCompletion /\ calls = 0 /\ served = 0
  BY DEF Init
<1>2. CallOK
  <2>1. call.at <= Len(call.tiers)
    <3>1. 1 <= 1
      OBVIOUS
    <3>. QED  BY <1>1, <3>1, NoCallTyped, Zenon
  <2>. QED  BY <1>1, <2>1, NoCallTyped DEF CallOK, CallShape
<1>3. completion \in [tokens : Nat, tier : Tiers, sure : BOOLEAN] /\ completion.sure
  BY <1>1 DEF NoCompletion, Tiers
<1>4. TypeOK
  <2>1. 0 \in 0 .. MaxCalls /\ 0 \in Nat
    BY Limits
  <2>2. spent \in [tokens : Nat, usd : Nat, clock : Nat]
    BY <1>1
  <2>. QED  BY <1>1, <1>2, <1>3, <2>1, <2>2 DEF TypeOK
<1>5. UnderCeilings /\ SpendWithinCeilings /\ NothingUncounted
  <2>1. spent.tokens = 0 /\ spent.usd = 0
    BY <1>1
  <2>2. /\ 0 <= MaxTokens + PromptSize + OutputLimit /\ 0 <= MaxUsd + PromptSize + OutputLimit
        /\ 0 <= MaxTokens /\ 0 <= MaxUsd
    BY Limits
  <2>. QED  BY <1>1, <2>1, <2>2, Zenon DEF UnderCeilings, SpendWithinCeilings, NothingUncounted
<1>. QED
  BY <1>1, <1>3, <1>4, <1>5 DEF Inv, UnderWay, LocalAdmitted, UnsureOnlyWhenPinned

LEMMA StepsAre ==
  ASSUME Next
  PROVE  \/ \E requested \in Tiers : Complete(requested)
         \/ Stub \/ Replay \/ Unconfigured \/ Refuse \/ Wait
         \/ \E failure \in Failures : Fail(failure)
         \/ \E r \in Responses : Receive(r)
BY DEF Next, Step

LEMMA StutterInv == Inv /\ UNCHANGED vars => Inv'
BY DEF Inv, vars, TypeOK, CallOK, Tier, UnderWay, LocalAdmitted, UnderCeilings, SpendWithinCeilings,
       NothingUncounted, UnsureOnlyWhenPinned, Remote

LEMMA InvStep == Inv /\ [Next]_vars => Inv'
<1>. SUFFICES ASSUME Inv, [Next]_vars PROVE Inv'
  OBVIOUS
<1>1. ASSUME NEW requested \in Tiers, Complete(requested) PROVE Inv'
  BY <1>1, CompleteStep
<1>2. CASE Stub
  BY <1>2, StubStep
<1>3. CASE Replay
  BY <1>3, ReplayStep
<1>4. CASE Unconfigured \/ Refuse
  BY <1>4, RefusedStep
<1>5. CASE Wait
  BY <1>5, WaitStep
<1>6. ASSUME NEW failure \in Failures, Fail(failure) PROVE Inv'
  BY <1>6, FailStep
<1>7. ASSUME NEW r \in Responses, Receive(r) PROVE Inv'
  BY <1>7, ReceiveStep
<1>. QED  BY <1>1, <1>2, <1>3, <1>4, <1>5, <1>6, <1>7, StepsAre, StutterInv

LEMMA InvHolds == Spec => []Inv
BY InitInv, InvStep, PTL DEF Spec

(***************************************************************************)
(* The state of the client keeps its shape: above all, the place of a call *)
(* in the tiers, the models, the repairs and the attempts is one the       *)
(* configuration has (llm.py, cascade.py and transport.py).                *)
(***************************************************************************)
THEOREM TypeCorrect == Spec => []TypeOK
<1>1. Inv => TypeOK
  BY DEF Inv
<1>. QED  BY <1>1, InvHolds, PTL

(***************************************************************************)
(* No sequence of calls, retries, repairs, fallbacks and tiers takes an    *)
(* investigation past its tokens or its dollars (budget.py, and the checks *)
(* of transport.py before a request).                                      *)
(***************************************************************************)
THEOREM CeilingsHold == Spec => []SpendWithinCeilings
<1>1. Inv => SpendWithinCeilings
  BY DEF Inv
<1>. QED  BY <1>1, InvHolds, PTL

(***************************************************************************)
(* Every token the endpoint reported is charged, also around an answer     *)
(* that is thrown away (transport.py).                                     *)
(***************************************************************************)
THEOREM EveryTokenCounts == Spec => []NothingUncounted
<1>1. Inv => NothingUncounted
  BY DEF Inv
<1>. QED  BY <1>1, InvHolds, PTL

(***************************************************************************)
(* The cascade never returns an unsure answer of the small model unless an *)
(* override keeps the call there (transport.py, models.py).                *)
(***************************************************************************)
THEOREM DoubtEscalates == Spec => []UnsureOnlyWhenPinned
<1>1. Inv => UnsureOnlyWhenPinned
  BY DEF Inv
<1>. QED  BY <1>1, InvHolds, PTL

(***************************************************************************)
(* A wait that is waited out leaves time for the retry it was for          *)
(* (cascade.py).                                                           *)
(***************************************************************************)
THEOREM RetriesHaveTime == Spec => WaitsFitTheClock
<1>1. Inv /\ [Next]_vars => [phase = "waiting" /\ phase' = "asking" => spent'.clock < MaxClock]_vars
  <2>. SUFFICES ASSUME Inv, Next, phase = "waiting", phase' = "asking" PROVE spent'.clock < MaxClock
    OBVIOUS
  <2>1. ASSUME NEW requested \in Tiers, Complete(requested) PROVE FALSE
    BY <2>1 DEF Complete
  <2>2. ~Stub /\ ~Replay /\ ~Unconfigured /\ ~Refuse
    BY DEF Stub, Replay, Unconfigured, Refuse
  <2>3. ASSUME NEW failure \in Failures, Fail(failure) PROVE FALSE
    BY <2>3 DEF Fail, Posting
  <2>4. ASSUME NEW r \in Responses, Receive(r) PROVE FALSE
    BY <2>4 DEF Receive, Posting
  <2>5. Wait
    BY <2>1, <2>2, <2>3, <2>4, StepsAre
  <2>. QED  BY <2>5, WaitStep
<1>. QED  BY <1>1, InvHolds, PTL DEF Spec, WaitsFitTheClock

-----------------------------------------------------------------------------
LEMMA ChargedIs ==
  ASSUME Inv, Inv', spent'.tokens >= spent.tokens, spent'.usd >= spent.usd
  PROVE  Promise!Charged
<1>1. spent.tokens \in Nat /\ spent.usd \in Nat
  BY DEF Inv, TypeOK
<1>2. spent'.tokens \in Nat /\ spent'.usd \in Nat
  BY DEF Inv, TypeOK
<1>3. /\ spent'.tokens <= MaxTokens + PromptSize + OutputLimit
      /\ spent'.usd <= MaxUsd + PromptSize + OutputLimit
  BY DEF Inv, UnderCeilings
<1>. QED  BY <1>1, <1>2, <1>3, Limits DEF Promise!Charged

LEMMA PromiseStep ==
  ASSUME Inv, [Next]_vars
  PROVE  [Promise!Next]_(Promise!cvars)
<1>. DEFINE Goal == Promise!Next \/ UNCHANGED <<phase, verdict, spent>>
<1>1. Inv'
  BY InvStep
<1>2. ASSUME NEW requested \in Tiers, Complete(requested) PROVE Goal
  <2>1. phase = "idle" /\ spent'.tokens = spent.tokens /\ spent'.usd = spent.usd
    <3>1. spent \in [tokens : Nat, usd : Nat, clock : Nat]
      BY DEF Inv, TypeOK
    <3>. QED  BY <1>2, <3>1 DEF Complete
  <2>2. \/ phase' = "idle" /\ verdict' \in Verdicts
        \/ phase' \in {"local", "asking"} /\ verdict' = "none"
    BY <1>2, CompleteStep
  <2>. QED  BY <2>1, <2>2 DEF Promise!Next, Promise!Refuse, Promise!Ask
<1>3. ASSUME phase # "idle", spent'.tokens >= spent.tokens, spent'.usd >= spent.usd,
             \/ phase' # "idle" /\ verdict' = verdict
             \/ phase' = "idle" /\ verdict' \in Verdicts
      PROVE  Goal
  BY <1>1, <1>3, ChargedIs DEF Promise!Next, Promise!Charge, Promise!Close
<1>4. ASSUME spent'.tokens = spent.tokens, spent'.usd = spent.usd
      PROVE  spent'.tokens >= spent.tokens /\ spent'.usd >= spent.usd
  <2>1. spent.tokens \in Nat /\ spent.usd \in Nat
    BY DEF Inv, TypeOK
  <2>. QED  BY <1>4, <2>1
<1>5. ASSUME Stub PROVE Goal
  BY <1>3, <1>4, <1>5, StubStep DEF Stub
<1>6. ASSUME Replay PROVE Goal
  BY <1>3, <1>6, ReplayStep DEF Replay
<1>7. ASSUME Unconfigured \/ Refuse PROVE Goal
  BY <1>3, <1>4, <1>7, RefusedStep DEF Unconfigured, Refuse
<1>8. ASSUME Wait PROVE Goal
  BY <1>3, <1>4, <1>8, WaitStep DEF Wait
<1>9. ASSUME NEW failure \in Failures, Fail(failure) PROVE Goal
  <2>1. phase # "idle"
    BY <1>9 DEF Fail, Posting
  <2>. QED  BY <1>3, <1>4, <1>9, <2>1, FailStep
<1>10. ASSUME NEW r \in Responses, Receive(r) PROVE Goal
  <2>1. phase # "idle"
    BY <1>10 DEF Receive, Posting
  <2>. QED  BY <1>3, <1>10, <2>1, ReceiveStep
<1>11. Goal
  <2>. HIDE DEF Goal
  <2>1. CASE UNCHANGED vars
    BY <2>1 DEF vars, Goal
  <2>2. ASSUME Next PROVE Goal
    BY <1>2, <1>5, <1>6, <1>7, <1>8, <1>9, <1>10, <2>2, StepsAre
  <2>. QED  BY <2>1, <2>2
<1>. QED  BY <1>11 DEF Promise!cvars

(***************************************************************************)
(* What llm.py's callers rest on: a call is refused at once or ends in one *)
(* verdict, and the budget is charged only while it is open and never past *)
(* the ceiling of one answer more.                                         *)
(***************************************************************************)
THEOREM CallKeepsPromise == Spec => KeepsPromise
<1>1. Init => Promise!Init
  <2>1. ASSUME Init PROVE spent.tokens = 0 /\ spent.usd = 0 /\ (phase # "idle") = FALSE /\ verdict = "none"
    BY <2>1 DEF Init
  <2>. QED  BY <2>1 DEF Promise!Init
<1>2. Inv /\ [Next]_vars => [Promise!Next]_(Promise!cvars)
  BY PromiseStep
<1>. QED  BY <1>1, <1>2, InvHolds, PTL DEF Spec, KeepsPromise, Promise!Spec

(***************************************************************************)
(* All that was used is charged, and never past a ceiling (transport.py).  *)
(***************************************************************************)
THEOREM AllSpendIsAccounted == Spec => []SpendIsAccounted
<1>1. SpendWithinCeilings /\ NothingUncounted => SpendIsAccounted
  BY DEF SpendIsAccounted
<1>. QED  BY <1>1, CeilingsHold, EveryTokenCounts, PTL
=============================================================================
