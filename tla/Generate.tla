------------------------------ MODULE Generate ------------------------------
(* Engine::generate() of engine.cpp: the prompt loop, plain decoding, and the
   speculative rounds in which the MTP heads draft tokens and the main model
   verifies them one by one.  One action per forward pass.

   The model's arithmetic is abstracted to what decoding tells apart: the token
   sample_greedy() would return and the set sample() may return, both free in
   each pass, because no pass sees a context an earlier pass has seen. *)
EXTENDS Integers, Sequences, FiniteSets

CONSTANTS
    Tokens,       \* 0 .. n_vocab - 1
    Heads,        \* config_.mtp_heads
    MtpOn,        \* config_.mtp_enabled && mtp_ && embeddings_loaded_
    MaxPrompt,    \* bound: length of a prompt
    MaxNew,       \* bound: max_new_tokens
    MaxRequests   \* bound: calls of generate() on the engine

ASSUME GenerateAssumption ==
    /\ 0 \in Tokens
    /\ Heads \in Nat /\ MtpOn \in BOOLEAN
    /\ MaxPrompt \in Nat /\ MaxNew \in Nat /\ MaxRequests \in Nat

NoText == 0   \* the token forwarded when there is no prompt
Prompts == UNION {[1 .. n -> Tokens] : n \in 0 .. MaxPrompt}
Logits == [top : Tokens, nucleus : {N \in SUBSET Tokens : N # {}}]

VARIABLES
    phase,           \* "idle", "prompt", "head" of the loop, "verify", "settle"
    prompt, limit,   \* prompt_tokens, max_new_tokens
    tokens,          \* result.tokens
    n_generated, current_token,
    T1, mtp_preds, h,      \* the round's first token, its drafts, the next to verify
    accepted, rejected,    \* the round's counts
    mtp_accepted, mtp_rejected, oom_protected,   \* of the result
    hidden_valid,    \* hidden_valid_
    input, logits,   \* the last forward pass: its token and its logits
    read,            \* the place in the text of that token
    requests         \* calls so far

round  == <<T1, mtp_preds, h, accepted, rejected>>
counts == <<mtp_accepted, mtp_rejected>>
call   == <<prompt, limit, requests>>
pass   == <<hidden_valid, input, logits, read>>
vars   == <<phase, tokens, n_generated, current_token, oom_protected,
            round, counts, call, pass>>

LastOf(s) == IF s = <<>> THEN NoText ELSE s[Len(s)]

Init ==
    /\ phase = "idle" /\ prompt = <<>> /\ limit = 0 /\ tokens = <<>>
    /\ n_generated = 0 /\ current_token = NoText
    /\ T1 = NoText /\ mtp_preds = [i \in 1 .. Heads |-> NoText] /\ h = 1
    /\ accepted = 0 /\ rejected = 0
    /\ mtp_accepted = 0 /\ mtp_rejected = 0 /\ oom_protected = FALSE
    /\ hidden_valid = FALSE
    /\ input = NoText /\ logits = [top |-> NoText, nucleus |-> {}]
    /\ read = 0 /\ requests = 0

\* forward(): the token `tok`, at place i of the text, enters the model.
Forward(tok, i) ==
    /\ input' = tok
    /\ read' = i
    /\ logits' \in Logits
    /\ hidden_valid' = TRUE

Push(tok) ==
    /\ tokens' = Append(tokens, tok)
    /\ n_generated' = n_generated + 1
-----------------------------------------------------------------------------
\* The count of new tokens is still that of the call before.
Begin_KeepCount(p, m) ==
    /\ phase = "idle" /\ requests < MaxRequests
    /\ phase' = "prompt" /\ prompt' = p /\ limit' = m /\ requests' = requests + 1
    /\ tokens' = <<>>
    /\ mtp_accepted' = 0 /\ mtp_rejected' = 0 /\ oom_protected' = FALSE
    /\ read' = 0
    /\ UNCHANGED <<n_generated, current_token, round, hidden_valid, input, logits>>

\* The call: a fresh result, the counters at zero.
Begin(p, m) ==
    /\ phase = "idle" /\ requests < MaxRequests
    /\ phase' = "prompt" /\ prompt' = p /\ limit' = m /\ requests' = requests + 1
    /\ tokens' = <<>> /\ n_generated' = 0
    /\ mtp_accepted' = 0 /\ mtp_rejected' = 0 /\ oom_protected' = FALSE
    /\ read' = 0
    /\ UNCHANGED <<current_token, round, hidden_valid, input, logits>>

ReadPrompt ==
    /\ phase = "prompt" /\ read < Len(prompt)
    /\ Forward(prompt[read + 1], read + 1)
    /\ UNCHANGED <<phase, tokens, n_generated, current_token, oom_protected, round, counts, call>>

\* The loop starts with the token of the call before.
StartLoop_KeepToken ==
    /\ phase = "prompt" /\ read = Len(prompt)
    /\ phase' = "head" /\ tokens' = prompt
    /\ UNCHANGED <<n_generated, current_token, oom_protected, round, counts, call, pass>>

StartLoop ==
    /\ phase = "prompt" /\ read = Len(prompt)
    /\ phase' = "head" /\ tokens' = prompt /\ current_token' = LastOf(prompt)
    /\ UNCHANGED <<n_generated, oom_protected, round, counts, call, pass>>

Return ==
    /\ phase = "head" /\ n_generated >= limit
    /\ phase' = "idle"
    /\ UNCHANGED <<tokens, n_generated, current_token, oom_protected, round, counts, call, pass>>

\* get_memory_stats().total() > config_.max_memory, which may happen at any head.
OutOfMemory ==
    /\ phase = "head" /\ n_generated < limit
    /\ oom_protected' = TRUE /\ phase' = "idle"
    /\ UNCHANGED <<tokens, n_generated, current_token, round, counts, call, pass>>

Speculates_NoRoom ==
    /\ MtpOn /\ hidden_valid
    /\ n_generated < limit

Speculates ==
    /\ MtpOn /\ hidden_valid
    /\ n_generated + 4 <= limit

Plain ==
    /\ phase = "head" /\ n_generated < limit /\ ~ Speculates
    /\ Forward(current_token, Len(tokens))
    /\ \E t \in logits'.nucleus : current_token' = t /\ Push(t)
    /\ UNCHANGED <<phase, oom_protected, round, counts, call>>
-----------------------------------------------------------------------------
\* What sampling the heads' logits may give: their weights are random.
Drafts == [1 .. Heads -> Tokens]

\* The first token of a round is emitted only with the drafts that follow it.
Draft_LateFirst ==
    /\ phase = "head" /\ n_generated < limit /\ Speculates
    /\ Forward(current_token, Len(tokens))
    /\ \E t \in logits'.nucleus : T1' = t
    /\ mtp_preds' \in Drafts
    /\ h' = 1 /\ accepted' = 0 /\ rejected' = 0
    /\ phase' = IF Heads = 0 THEN "settle" ELSE "verify"
    /\ UNCHANGED <<tokens, n_generated, current_token, oom_protected, counts, call>>

\* The counts of the round before are still there.
Draft_KeepCounts ==
    /\ phase = "head" /\ n_generated < limit /\ Speculates
    /\ Forward(current_token, Len(tokens))
    /\ \E t \in logits'.nucleus : T1' = t /\ Push(t)
    /\ mtp_preds' \in Drafts
    /\ h' = 1
    /\ phase' = IF Heads = 0 THEN "settle" ELSE "verify"
    /\ UNCHANGED <<current_token, accepted, rejected, oom_protected, counts, call>>

\* Steps 1 and 2: the token after current_token, and one draft per head.
Draft ==
    /\ phase = "head" /\ n_generated < limit /\ Speculates
    /\ Forward(current_token, Len(tokens))
    /\ \E t \in logits'.nucleus : T1' = t /\ Push(t)
    /\ mtp_preds' \in Drafts
    /\ h' = 1 /\ accepted' = 0 /\ rejected' = 0
    /\ phase' = IF Heads = 0 THEN "settle" ELSE "verify"
    /\ UNCHANGED <<current_token, oom_protected, counts, call>>

VerifyInput_Ahead == mtp_preds[h]

VerifyInput == IF h = 1 THEN T1 ELSE mtp_preds[h - 1]

Verify ==
    /\ phase = "verify"
    /\ Forward(VerifyInput, Len(tokens))
    /\ UNCHANGED <<current_token, T1, mtp_preds, oom_protected, counts, call>>

Accept ==
    /\ Verify
    /\ logits'.top = mtp_preds[h]
    /\ Push(mtp_preds[h])
    /\ accepted' = accepted + 1
    /\ h' = h + 1
    /\ phase' = IF h = Heads THEN "settle" ELSE "verify"
    /\ UNCHANGED rejected

\* The corrective token is a sample: when it is the draft itself it is dropped.
Reject ==
    /\ Verify
    /\ logits'.top # mtp_preds[h]
    /\ \E corrective \in logits'.nucleus :
          \/ corrective # mtp_preds[h] /\ Push(corrective) /\ rejected' = rejected + 1
          \/ corrective = mtp_preds[h] /\ UNCHANGED <<tokens, n_generated, rejected>>
    /\ phase' = "settle"
    /\ UNCHANGED <<h, accepted>>

Settle ==
    /\ phase = "settle"
    /\ mtp_accepted' = mtp_accepted + accepted
    /\ mtp_rejected' = mtp_rejected + rejected
    /\ current_token' = LastOf(tokens)
    /\ phase' = "head"
    /\ UNCHANGED <<tokens, n_generated, oom_protected, round, call, pass>>

Step == ReadPrompt \/ StartLoop \/ Return \/ OutOfMemory \/ Plain \/ Draft
        \/ Accept \/ Reject \/ Settle
Next == (\E p \in Prompts, m \in 0 .. MaxNew : Begin(p, m)) \/ Step
\* generate() runs on its caller's thread and waits for nobody.
Spec == Init /\ [][Next]_vars /\ WF_vars(Step)
-----------------------------------------------------------------------------
TypeOK ==
    /\ phase \in {"idle", "prompt", "head", "verify", "settle"}
    /\ prompt \in Prompts /\ limit \in 0 .. MaxNew
    /\ tokens \in Seq(Tokens) /\ n_generated \in Nat /\ current_token \in Tokens
    /\ T1 \in Tokens /\ mtp_preds \in [1 .. Heads -> Tokens] /\ h \in 1 .. Heads + 1
    /\ (phase = "verify" => h <= Heads)
    /\ accepted \in 0 .. Heads /\ rejected \in 0 .. 1
    /\ mtp_accepted \in Nat /\ mtp_rejected \in Nat /\ oom_protected \in BOOLEAN
    /\ hidden_valid \in BOOLEAN /\ input \in Tokens
    /\ logits \in Logits \/ logits = [top |-> NoText, nucleus |-> {}]
    /\ read \in Nat /\ requests \in 0 .. MaxRequests

\* The result holds the prompt and exactly n_generated new tokens.  A round
\* starts with room for four tokens and emits up to Heads + 1, so the limit is
\* passed by Heads - 3 at most; a call that memory did not stop reaches it.
Overshoot == IF MtpOn /\ Heads > 3 THEN Heads - 3 ELSE 0
OutputLength ==
    phase # "prompt" =>
       /\ Len(tokens) = Len(prompt) + n_generated
       /\ n_generated <= limit + Overshoot
       /\ (phase = "idle" /\ ~ oom_protected => n_generated >= limit)

\* The statistics of the result against its text (engine.cpp:367-368): a token
\* that is neither an accepted draft nor a corrective came out of a plain step or
\* began a round, and a round corrects once at most, when not all was accepted.
CountsAgree ==
    LET others == n_generated - mtp_accepted - mtp_rejected
    IN  phase \in {"idle", "head"} =>
           /\ mtp_rejected <= others
           /\ mtp_accepted + mtp_rejected <= Heads * others

\* Drafts never reach the model unless they are text: generate() implements
\* reading the text in order and adding what the model offers (a rejected draft
\* is not forwarded, so nothing has to be taken back from the KV cache).
Text == IF phase = "prompt" THEN prompt ELSE tokens
Decoding == INSTANCE Decode WITH text <- Text, offer <- logits.nucleus \cup
                {t \in {logits.top} : logits.nucleus # {}}
ImplementsDecode == Decoding!Spec

\* Every call returns: each round adds a token even when all it drafts is refused.
RequestEnds == phase # "idle" ~> phase = "idle"
=============================================================================
