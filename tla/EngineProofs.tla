---------------------------- MODULE EngineProofs ----------------------------
(* Theorems about the engine: the loop of generate() (Generate), for every
   vocabulary, number of heads and bound, and the layer skipping of its forward
   passes (LayerSkip), for every number of layers, interval and threshold. *)
EXTENDS Generate, LayerSkip, TLAPS

\* Between two passes: where the last one was in the text, what comes next.
Place ==
    /\ phase = "prompt" => read <= Len(prompt) /\ n_generated = 0
    /\ phase = "head" => current_token = LastOf(tokens)
    /\ phase = "verify" => /\ tokens # <<>> /\ read = Len(tokens) - 1
                           /\ VerifyInput = LastOf(tokens)
    /\ phase \in {"head", "settle"} => read \in {Len(tokens) - 1, Len(tokens)}
    /\ phase = "settle" => tokens # <<>>

\* How much of the limit is used, and by the drafts not yet verified.
Room ==
    /\ phase # "prompt" => Len(tokens) = Len(prompt) + n_generated
    /\ phase = "idle" /\ ~ oom_protected => n_generated >= limit
    /\ phase \in {"idle", "head", "settle"} => n_generated <= limit + Overshoot
    /\ phase = "verify" => n_generated + (Heads - h + 1) <= limit + Overshoot

\* The counts of finished rounds, with `others` tokens outside of them.
Balance(others) ==
    /\ mtp_rejected <= others
    /\ mtp_accepted + mtp_rejected <= Heads * others

Others == n_generated - mtp_accepted - mtp_rejected

\* The round's own counts: its first token is one of the others when it settles.
Counts ==
    /\ phase \in {"idle", "head"} => Balance(Others)
    /\ phase = "prompt" => mtp_accepted = 0 /\ mtp_rejected = 0
    /\ phase = "verify" => /\ accepted = h - 1 /\ rejected = 0
                           /\ Balance(Others - accepted - 1)
    /\ phase = "settle" => /\ accepted + rejected <= Heads
                           /\ Balance(Others - accepted - rejected - 1)

IInv == TypeOK /\ Place /\ Room /\ Counts
-----------------------------------------------------------------------------
\* A sample is a token.
LEMMA SampleType ==
    ASSUME NEW d \in Logits
    PROVE  d.nucleus \subseteq Tokens /\ d.nucleus # {} /\ d.top \in Tokens
BY DEF Logits

\* Appending to the text.
LEMMA Grown ==
    ASSUME NEW s \in Seq(Tokens), NEW t \in Tokens
    PROVE  /\ Append(s, t) \in Seq(Tokens) /\ Append(s, t) # <<>>
           /\ Len(Append(s, t)) = Len(s) + 1 /\ LastOf(Append(s, t)) = t
BY DEF LastOf

LEMMA LastType ==
    ASSUME NEW s \in Seq(Tokens) PROVE LastOf(s) \in Tokens
BY GenerateAssumption DEF LastOf, NoText

LEMMA PromptType ==
    ASSUME NEW p \in Prompts PROVE p \in Seq(Tokens)
BY DEF Prompts

LEMMA InputType ==
    ASSUME TypeOK, phase = "verify" PROVE VerifyInput \in Tokens /\ mtp_preds[h] \in Tokens
BY GenerateAssumption DEF TypeOK, VerifyInput

LEMMA TypeInit == Init => TypeOK
<1> SUFFICES ASSUME Init PROVE TypeOK OBVIOUS
<1>1. prompt \in Prompts
  <2>1. 0 \in 0 .. MaxPrompt /\ <<>> \in [1 .. 0 -> Tokens]
    BY GenerateAssumption
  <2> QED BY <2>1 DEF Prompts, Init
<1>2. /\ NoText \in Tokens /\ <<>> \in Seq(Tokens) /\ limit \in 0 .. MaxNew
      /\ requests \in 0 .. MaxRequests /\ h \in 1 .. Heads + 1
  BY GenerateAssumption DEF Init, NoText
<1>3. phase = "idle" /\ accepted \in 0 .. Heads /\ rejected \in 0 .. 1
  BY GenerateAssumption DEF Init
<1> QED BY <1>1, <1>2, <1>3 DEF Init, TypeOK

LEMMA TypeStep == TypeOK /\ Place /\ Counts /\ [Next]_vars => TypeOK'
<1> SUFFICES ASSUME TypeOK, Place, Counts, [Next]_vars PROVE TypeOK' OBVIOUS
<1> USE GenerateAssumption
<1>1. ASSUME NEW p \in Prompts, NEW m \in 0 .. MaxNew, Begin(p, m) PROVE TypeOK'
  <2>1. requests' \in 0 .. MaxRequests BY <1>1 DEF Begin, TypeOK
  <2>2. /\ tokens' \in Seq(Tokens) /\ n_generated' \in Nat /\ read' \in Nat
        /\ mtp_accepted' \in Nat /\ mtp_rejected' \in Nat /\ oom_protected' \in BOOLEAN
    <3>1. tokens' = <<>> /\ <<>> \in Seq(Tokens) BY <1>1 DEF Begin
    <3>2. n_generated' = 0 /\ read' = 0 /\ mtp_accepted' = 0 /\ mtp_rejected' = 0
      BY <1>1 DEF Begin
    <3>3. oom_protected' = FALSE BY <1>1 DEF Begin
    <3> QED BY <3>1, <3>2, <3>3
  <2>3. phase' = "prompt" /\ prompt' = p /\ limit' = m
    BY <1>1 DEF Begin
  <2>4. UNCHANGED <<current_token, round, hidden_valid, input, logits>>
    BY <1>1 DEF Begin
  <2> QED BY <2>1, <2>2, <2>3, <2>4 DEF TypeOK, round
<1>2. CASE ReadPrompt
  <2>1. prompt[read + 1] \in Tokens /\ read + 1 \in Nat
    BY <1>2, PromptType DEF ReadPrompt, TypeOK
  <2> QED BY <1>2, <2>1 DEF ReadPrompt, Forward, TypeOK, round, counts, call
<1>3. CASE StartLoop
  BY <1>3, PromptType, LastType DEF StartLoop, TypeOK, round, counts, call, pass
<1>4. CASE Return
  BY <1>4 DEF Return, TypeOK, round, counts, call, pass
<1>5. CASE OutOfMemory
  BY <1>5 DEF OutOfMemory, TypeOK, round, counts, call, pass
<1>6. CASE Plain
  <2>1. PICK t \in logits'.nucleus : current_token' = t /\ Push(t) BY <1>6 DEF Plain
  <2>2. t \in Tokens BY <1>6, <2>1, SampleType DEF Plain, Forward
  <2>3. tokens' \in Seq(Tokens) /\ n_generated' \in Nat /\ Len(tokens) \in Nat
    BY <2>1, <2>2, Grown DEF Push, TypeOK
  <2> QED BY <1>6, <2>1, <2>2, <2>3 DEF Plain, Forward, TypeOK, round, counts, call
<1>7. CASE Draft
  <2>1. PICK t \in logits'.nucleus : T1' = t /\ Push(t) BY <1>7 DEF Draft
  <2>2. t \in Tokens BY <1>7, <2>1, SampleType DEF Draft, Forward
  <2>3. tokens' \in Seq(Tokens) /\ n_generated' \in Nat /\ Len(tokens) \in Nat
    BY <2>1, <2>2, Grown DEF Push, TypeOK
  <2>4. /\ phase' \in {"settle", "verify"} /\ (phase' = "verify" => h' <= Heads)
        /\ h' \in 1 .. Heads + 1 /\ accepted' \in 0 .. Heads /\ rejected' \in 0 .. 1
    BY <1>7 DEF Draft
  <2> QED BY <1>7, <2>1, <2>2, <2>3, <2>4 DEF Draft, Drafts, Forward, TypeOK, counts, call
<1>8. CASE Accept
  <2>1. phase = "verify" /\ VerifyInput \in Tokens /\ mtp_preds[h] \in Tokens
    BY <1>8, InputType DEF Accept, Verify
  <2>2. tokens' \in Seq(Tokens) /\ n_generated' \in Nat /\ Len(tokens) \in Nat
    BY <1>8, <2>1, Grown DEF Accept, Push, TypeOK
  <2>3. /\ phase' \in {"settle", "verify"} /\ (phase' = "verify" => h' <= Heads)
        /\ h' \in 1 .. Heads + 1 /\ accepted' \in 0 .. Heads /\ rejected' \in 0 .. 1
    <3>1. h \in 1 .. Heads + 1 /\ h <= Heads /\ accepted = h - 1 /\ rejected = 0
      BY <2>1 DEF Counts, TypeOK
    <3>2. /\ accepted' = accepted + 1 /\ h' = h + 1 /\ rejected' = rejected
          /\ phase' = IF h = Heads THEN "settle" ELSE "verify"
      BY <1>8 DEF Accept
    <3>3. Heads \in Nat  BY GenerateAssumption
    <3> QED BY <3>1, <3>2, <3>3
  <2> QED BY <1>8, <2>1, <2>2, <2>3 DEF Accept, Verify, Forward, TypeOK, counts, call
<1>9. CASE Reject
  <2>1. phase = "verify" /\ VerifyInput \in Tokens /\ Len(tokens) \in Nat
    BY <1>9, InputType DEF Reject, Verify, TypeOK
  <2>2. PICK t \in logits'.nucleus :
           \/ t # mtp_preds[h] /\ Push(t) /\ rejected' = rejected + 1
           \/ t = mtp_preds[h] /\ UNCHANGED <<tokens, n_generated, rejected>>
    BY <1>9 DEF Reject
  <2>3. t \in Tokens BY <1>9, SampleType DEF Reject, Verify, Forward
  <2>4. tokens' \in Seq(Tokens) /\ n_generated' \in Nat
    <3>1. tokens \in Seq(Tokens) /\ n_generated \in Nat BY DEF TypeOK
    <3>2. CASE Push(t) BY <3>1, <3>2, <2>3, Grown DEF Push
    <3>3. CASE UNCHANGED <<tokens, n_generated, rejected>> BY <3>1, <3>3
    <3> QED BY <2>2, <3>2, <3>3
  <2>5. rejected' \in 0 .. 1
    BY <1>9, <2>1, <2>2 DEF Reject, Verify, Counts, TypeOK
  <2> QED BY <1>9, <2>1, <2>4, <2>5 DEF Reject, Verify, Forward, TypeOK, counts, call
<1>10. CASE Settle
  <2>1. LastOf(tokens) \in Tokens BY LastType DEF TypeOK
  <2> QED BY <1>10, <2>1 DEF Settle, TypeOK, round, call, pass
<1>11. CASE UNCHANGED vars
  BY <1>11 DEF vars, TypeOK, round, counts, call, pass
<1> QED BY <1>1, <1>2, <1>3, <1>4, <1>5, <1>6, <1>7, <1>8, <1>9, <1>10, <1>11 DEF Next, Step
LEMMA InitInv == Init => IInv
<1> SUFFICES ASSUME Init PROVE IInv OBVIOUS
<1>1. TypeOK BY TypeInit
<1>2. Place BY <1>1 DEF Init, Place, LastOf
<1>3. Room BY GenerateAssumption DEF Init, Room, Overshoot
<1>4. Heads * 0 = 0 BY GenerateAssumption
<1>5. Counts BY <1>4 DEF Init, Counts, Balance, Others
<1> QED BY <1>1, <1>2, <1>3, <1>5 DEF IInv

LEMMA PlaceStep == IInv /\ [Next]_vars /\ TypeOK' => Place'
<1> SUFFICES ASSUME TypeOK, Place, Counts, [Next]_vars, TypeOK' PROVE Place' BY DEF IInv
<1> USE GenerateAssumption
<1>0. tokens \in Seq(Tokens) /\ Len(tokens) \in Nat /\ h \in 1 .. Heads + 1
  BY DEF TypeOK
<1>1. ASSUME NEW p \in Prompts, NEW m \in 0 .. MaxNew, Begin(p, m) PROVE Place'
  <2>1. Len(p) \in Nat BY PromptType
  <2> QED BY <1>1, <2>1 DEF Begin, Place
<1>2. CASE ReadPrompt
  <2>1. read \in Nat /\ Len(prompt) \in Nat BY PromptType DEF TypeOK
  <2>2. phase' = "prompt" /\ read' = read + 1 /\ read < Len(prompt)
        /\ prompt' = prompt /\ n_generated' = n_generated /\ n_generated = 0
    BY <1>2 DEF ReadPrompt, Forward, Place, call
  <2> QED BY <2>1, <2>2 DEF Place
<1>3. CASE StartLoop
  BY <1>3, PromptType DEF StartLoop, Place, TypeOK, pass
<1>4. CASE Return
  BY <1>4 DEF Return, Place
<1>5. CASE OutOfMemory
  BY <1>5 DEF OutOfMemory, Place
<1>6. CASE Plain
  <2>1. PICK t \in logits'.nucleus : current_token' = t /\ Push(t) BY <1>6 DEF Plain
  <2>2. t \in Tokens BY <1>6, <2>1, SampleType DEF Plain, Forward
  <2>3. Len(tokens') = Len(tokens) + 1 /\ LastOf(tokens') = t BY <1>0, <2>1, <2>2, Grown DEF Push
  <2> QED BY <1>0, <1>6, <2>1, <2>3 DEF Plain, Forward, Place
<1>7. CASE Draft
  <2>1. PICK t \in logits'.nucleus : T1' = t /\ Push(t) BY <1>7 DEF Draft
  <2>2. t \in Tokens BY <1>7, <2>1, SampleType DEF Draft, Forward
  <2>3. tokens' # <<>> /\ Len(tokens') = Len(tokens) + 1 /\ LastOf(tokens') = t
    BY <1>0, <2>1, <2>2, Grown DEF Push
  <2>4. VerifyInput' = t /\ read' = Len(tokens) /\ phase' \in {"settle", "verify"}
    BY <1>7, <2>1 DEF Draft, Forward, VerifyInput
  <2> QED BY <1>0, <2>3, <2>4 DEF Place
<1>8. CASE Accept
  <2>1. phase = "verify" /\ h <= Heads /\ mtp_preds[h] \in Tokens
    BY <1>8, InputType DEF Accept, Verify, TypeOK
  <2>2. tokens' # <<>> /\ Len(tokens') = Len(tokens) + 1 /\ LastOf(tokens') = mtp_preds[h]
    BY <1>0, <1>8, <2>1, Grown DEF Accept, Push
  <2>3. VerifyInput' = mtp_preds[h] /\ read' = Len(tokens) /\ phase' \in {"settle", "verify"}
    BY <1>0, <1>8 DEF Accept, Verify, Forward, VerifyInput
  <2> QED BY <1>0, <2>2, <2>3 DEF Place
<1>9. CASE Reject
  <2>1. phase = "verify" /\ tokens # <<>> /\ read' = Len(tokens) /\ phase' = "settle"
    BY <1>9 DEF Reject, Verify, Forward, Place
  <2>2. PICK t \in logits'.nucleus :
           \/ t # mtp_preds[h] /\ Push(t) /\ rejected' = rejected + 1
           \/ t = mtp_preds[h] /\ UNCHANGED <<tokens, n_generated, rejected>>
    BY <1>9 DEF Reject
  <2>3. t \in Tokens BY <1>9, SampleType DEF Reject, Verify, Forward
  <2>4. tokens' # <<>> /\ Len(tokens') \in {Len(tokens), Len(tokens) + 1}
    <3>1. CASE Push(t) BY <1>0, <3>1, <2>3, Grown DEF Push
    <3>2. CASE UNCHANGED <<tokens, n_generated, rejected>> BY <2>1, <3>2
    <3> QED BY <2>2, <3>1, <3>2
  <2> QED BY <1>0, <2>1, <2>4 DEF Place
<1>10. CASE Settle
  BY <1>10 DEF Settle, Place, pass
<1>11. CASE UNCHANGED vars
  BY <1>11 DEF vars, Place, VerifyInput, round, counts, call, pass
<1> QED BY <1>1, <1>2, <1>3, <1>4, <1>5, <1>6, <1>7, <1>8, <1>9, <1>10, <1>11 DEF Next, Step
\* What a step may add to the text.
LEMMA PushLen ==
    ASSUME TypeOK, NEW t \in Tokens, Push(t)
    PROVE  Len(tokens') = Len(tokens) + 1 /\ n_generated' = n_generated + 1
BY Grown DEF Push, TypeOK

LEMMA RoomStep == IInv /\ [Next]_vars /\ TypeOK' => Room'
<1> SUFFICES ASSUME TypeOK, Place, Room, [Next]_vars, TypeOK' PROVE Room' BY DEF IInv
<1> USE GenerateAssumption
<1>0. /\ n_generated \in Nat /\ limit \in Nat /\ h \in Nat /\ Len(tokens) \in Nat
      /\ Len(prompt) \in Nat /\ Overshoot \in Nat /\ (MtpOn => Heads - 3 <= Overshoot)
  <2>1. n_generated \in Nat /\ limit \in Nat /\ h \in Nat /\ Len(tokens) \in Nat
    BY DEF TypeOK
  <2>2. Len(prompt) \in Nat BY PromptType DEF TypeOK
  <2>3. Overshoot \in Nat /\ (MtpOn => Heads - 3 <= Overshoot)
    <3>1. CASE MtpOn /\ Heads > 3 BY <3>1 DEF Overshoot
    <3>2. CASE ~ (MtpOn /\ Heads > 3) BY <3>2 DEF Overshoot
    <3> QED BY <3>1, <3>2
  <2> QED BY <2>1, <2>2, <2>3
<1>1. ASSUME NEW p \in Prompts, NEW m \in 0 .. MaxNew, Begin(p, m) PROVE Room'
  BY <1>1 DEF Begin, Room
<1>2. CASE ReadPrompt
  BY <1>2 DEF ReadPrompt, Room
<1>3. CASE StartLoop
  BY <1>0, <1>3 DEF StartLoop, Room, Place, call
<1>4. CASE Return
  BY <1>0, <1>4 DEF Return, Room, call
<1>5. CASE OutOfMemory
  BY <1>0, <1>5 DEF OutOfMemory, Room, call
<1>6. CASE Plain
  <2>1. PICK t \in logits'.nucleus : current_token' = t /\ Push(t) BY <1>6 DEF Plain
  <2>2. t \in Tokens BY <1>6, <2>1, SampleType DEF Plain, Forward
  <2>3. Len(tokens') = Len(tokens) + 1 /\ n_generated' = n_generated + 1
    BY <2>1, <2>2, PushLen
  <2>4. phase = "head" /\ phase' = "head" /\ n_generated < limit
        /\ prompt' = prompt /\ limit' = limit
    BY <1>6 DEF Plain, call
  <2> QED BY <1>0, <2>3, <2>4 DEF Room
<1>7. CASE Draft
  <2>1. PICK t \in logits'.nucleus : T1' = t /\ Push(t) BY <1>7 DEF Draft
  <2>2. t \in Tokens BY <1>7, <2>1, SampleType DEF Draft, Forward
  <2>3. Len(tokens') = Len(tokens) + 1 /\ n_generated' = n_generated + 1
    BY <2>1, <2>2, PushLen
  <2>4. phase = "head" /\ MtpOn /\ n_generated + 4 <= limit /\ h' = 1
        /\ prompt' = prompt /\ limit' = limit /\ phase' \in {"settle", "verify"}
        /\ (phase' = "settle" => Heads = 0)
    BY <1>7 DEF Draft, Speculates, call
  <2> QED BY <1>0, <2>3, <2>4 DEF Room
<1>8. CASE Accept
  <2>1. phase = "verify" /\ h <= Heads /\ mtp_preds[h] \in Tokens
    BY <1>8, InputType DEF Accept, Verify, TypeOK
  <2>2. Len(tokens') = Len(tokens) + 1 /\ n_generated' = n_generated + 1
    BY <1>8, <2>1, PushLen DEF Accept
  <2>3. h' = h + 1 /\ phase' \in {"settle", "verify"} /\ (phase' = "settle" => h = Heads)
        /\ prompt' = prompt /\ limit' = limit
    BY <1>8 DEF Accept, Verify, call
  <2> QED BY <1>0, <2>1, <2>2, <2>3 DEF Room
<1>9. CASE Reject
  <2>1. phase = "verify" /\ h <= Heads /\ phase' = "settle"
        /\ prompt' = prompt /\ limit' = limit
    BY <1>9 DEF Reject, Verify, TypeOK, call
  <2>2. PICK t \in logits'.nucleus :
           \/ t # mtp_preds[h] /\ Push(t) /\ rejected' = rejected + 1
           \/ t = mtp_preds[h] /\ UNCHANGED <<tokens, n_generated, rejected>>
    BY <1>9 DEF Reject
  <2>3. t \in Tokens BY <1>9, SampleType DEF Reject, Verify, Forward
  <2>4. \/ Len(tokens') = Len(tokens) + 1 /\ n_generated' = n_generated + 1
        \/ Len(tokens') = Len(tokens) /\ n_generated' = n_generated
    BY <2>2, <2>3, PushLen
  <2> QED BY <1>0, <2>1, <2>4 DEF Room
<1>10. CASE Settle
  BY <1>0, <1>10 DEF Settle, Room, call
<1>11. CASE UNCHANGED vars
  BY <1>11 DEF vars, Room, round, call
<1> QED BY <1>1, <1>2, <1>3, <1>4, <1>5, <1>6, <1>7, <1>8, <1>9, <1>10, <1>11 DEF Next, Step

\* One more token outside the drafts makes room for Heads of them.
LEMMA HeadsMore ==
    ASSUME NEW o \in Nat PROVE Heads * (o + 1) = Heads * o + Heads
BY GenerateAssumption

LEMMA HeadsNat ==
    ASSUME NEW o \in Nat PROVE Heads * o \in Nat
BY GenerateAssumption

\* A token of its own never upsets the balance.
LEMMA BalanceMore ==
    ASSUME NEW o \in Nat, TypeOK, Balance(o)
    PROVE  Balance(o + 1)
<1>1. Heads * (o + 1) = Heads * o + Heads /\ Heads * o \in Nat BY HeadsMore, HeadsNat
<1>2. mtp_rejected \in Nat /\ mtp_accepted \in Nat /\ Heads \in Nat
  BY GenerateAssumption DEF TypeOK
<1> QED BY <1>1, <1>2 DEF Balance

LEMMA CountsStep == IInv /\ [Next]_vars /\ TypeOK' => Counts'
<1> SUFFICES ASSUME TypeOK, Place, Counts, [Next]_vars, TypeOK' PROVE Counts' BY DEF IInv
<1> USE GenerateAssumption
<1>0. /\ n_generated \in Nat /\ h \in Nat /\ mtp_rejected \in Nat /\ mtp_accepted \in Nat
      /\ accepted \in Nat /\ rejected \in Nat
  BY DEF TypeOK
<1>1. ASSUME NEW p \in Prompts, NEW m \in 0 .. MaxNew, Begin(p, m) PROVE Counts'
  BY <1>1 DEF Begin, Counts
<1>2. CASE ReadPrompt
  BY <1>2 DEF ReadPrompt, Counts, counts
<1>3. CASE StartLoop
  <2>1. n_generated' = 0 /\ mtp_accepted' = 0 /\ mtp_rejected' = 0 /\ phase' = "head"
    BY <1>3 DEF StartLoop, Counts, Place, counts
  <2>2. Others' = 0 /\ Heads * 0 = 0 BY <2>1 DEF Others
  <2> QED BY <2>1, <2>2 DEF Counts, Balance
<1>4. CASE Return
  BY <1>4 DEF Return, Counts, Balance, Others, counts
<1>5. CASE OutOfMemory
  BY <1>5 DEF OutOfMemory, Counts, Balance, Others, counts
<1>6. CASE Plain
  <2>1. PICK t \in logits'.nucleus : current_token' = t /\ Push(t) BY <1>6 DEF Plain
  <2>2. phase = "head" /\ phase' = "head" /\ n_generated' = n_generated + 1
        /\ mtp_accepted' = mtp_accepted /\ mtp_rejected' = mtp_rejected
    BY <1>6, <2>1 DEF Plain, Push, counts
  <2>3. Balance(Others) BY <2>2 DEF Counts
  <2>4. Others \in Nat /\ Others' = Others + 1 BY <1>0, <2>2, <2>3 DEF Others, Balance
  <2>5. Balance(Others + 1) BY <2>3, <2>4, BalanceMore
  <2>6. Balance(Others)' BY <2>2, <2>4, <2>5 DEF Balance
  <2> QED BY <2>2, <2>6 DEF Counts
<1>7. CASE Draft
  <2>1. PICK t \in logits'.nucleus : T1' = t /\ Push(t) BY <1>7 DEF Draft
  <2>2. /\ phase = "head" /\ phase' \in {"settle", "verify"} /\ n_generated' = n_generated + 1
        /\ mtp_accepted' = mtp_accepted /\ mtp_rejected' = mtp_rejected
        /\ accepted' = 0 /\ rejected' = 0 /\ h' = 1
    BY <1>7, <2>1 DEF Draft, Push, counts
  <2>3. Balance(Others) BY <2>2 DEF Counts
  <2>4. Others \in Nat /\ Others' = Others + 1 BY <1>0, <2>2, <2>3 DEF Others, Balance
  <2>5. (Others - accepted - 1)' = Others /\ (Others - accepted - rejected - 1)' = Others
    BY <2>2, <2>4
  <2>6. Balance(Others - accepted - 1)' /\ Balance(Others - accepted - rejected - 1)'
    BY <2>2, <2>3, <2>5 DEF Balance
  <2> QED BY <2>2, <2>6 DEF Counts
<1>8. CASE Accept
  <2>1. /\ phase = "verify" /\ h <= Heads /\ phase' \in {"settle", "verify"}
        /\ n_generated' = n_generated + 1 /\ accepted' = accepted + 1 /\ h' = h + 1
        /\ rejected' = rejected
        /\ mtp_accepted' = mtp_accepted /\ mtp_rejected' = mtp_rejected
    BY <1>8 DEF Accept, Verify, Push, TypeOK, counts
  <2>2. accepted = h - 1 /\ rejected = 0 /\ Balance(Others - accepted - 1)
    BY <2>1 DEF Counts
  <2>3. /\ (Others - accepted - 1)' = Others - accepted - 1
        /\ (Others - accepted - rejected - 1)' = Others - accepted - 1
    BY <1>0, <2>1, <2>2 DEF Others
  <2>4. Balance(Others - accepted - 1)' /\ Balance(Others - accepted - rejected - 1)'
    BY <2>1, <2>2, <2>3 DEF Balance
  <2>5. accepted' = h' - 1 /\ rejected' = 0 /\ accepted' + rejected' <= Heads
    BY <1>0, <2>1, <2>2
  <2> QED BY <2>1, <2>4, <2>5 DEF Counts
<1>9. CASE Reject
  <2>1. /\ phase = "verify" /\ h <= Heads /\ phase' = "settle" /\ accepted' = accepted
        /\ mtp_accepted' = mtp_accepted /\ mtp_rejected' = mtp_rejected
    BY <1>9 DEF Reject, Verify, TypeOK, counts
  <2>2. accepted = h - 1 /\ rejected = 0 /\ Balance(Others - accepted - 1)
    BY <2>1 DEF Counts
  <2>3. \/ n_generated' = n_generated + 1 /\ rejected' = 1
        \/ n_generated' = n_generated /\ rejected' = 0
    BY <1>9, <2>2 DEF Reject, Push
  <2>4. (Others - accepted - rejected - 1)' = Others - accepted - 1
    BY <1>0, <2>1, <2>2, <2>3 DEF Others
  <2>5. Balance(Others - accepted - rejected - 1)'
    BY <2>1, <2>2, <2>4 DEF Balance
  <2>6. accepted' + rejected' <= Heads BY <1>0, <2>1, <2>2, <2>3
  <2> QED BY <2>1, <2>5, <2>6 DEF Counts
<1>10. CASE Settle
  <2> DEFINE o == Others - accepted - rejected - 1
  <2>1. /\ phase = "settle" /\ phase' = "head" /\ n_generated' = n_generated
        /\ mtp_accepted' = mtp_accepted + accepted /\ mtp_rejected' = mtp_rejected + rejected
    BY <1>10 DEF Settle
  <2>2. accepted + rejected <= Heads /\ Balance(o) BY <2>1 DEF Counts
  <2>3. o \in Nat /\ Others' = o + 1 BY <1>0, <2>1, <2>2 DEF Others, Balance
  <2>4. rejected <= 1 BY DEF TypeOK
  <2> HIDE DEF o
  <2>5. Heads * (o + 1) = Heads * o + Heads /\ Heads * o \in Nat BY <2>3, HeadsMore, HeadsNat
  <2>6. mtp_rejected + rejected <= o + 1
        /\ mtp_accepted + accepted + mtp_rejected + rejected <= Heads * (o + 1)
    BY <1>0, <2>2, <2>3, <2>4, <2>5 DEF Balance
  <2>7. Balance(Others)' BY <1>0, <2>1, <2>3, <2>5, <2>6 DEF Balance
  <2> QED BY <2>1, <2>7 DEF Counts
<1>11. CASE UNCHANGED vars
  BY <1>11 DEF vars, Counts, Balance, Others, round, counts
<1> QED BY <1>1, <1>2, <1>3, <1>4, <1>5, <1>6, <1>7, <1>8, <1>9, <1>10, <1>11 DEF Next, Step
-----------------------------------------------------------------------------
LEMMA Invariance == Spec => []IInv
<1>1. IInv /\ [Next]_vars => IInv'
  BY TypeStep, PlaceStep, RoomStep, CountsStep DEF IInv
<1> QED BY InitInv, <1>1, PTL DEF Spec

\* The variables of generate() keep their types: the round's counters stay within
\* the number of heads and every token is one of the vocabulary.
THEOREM TypeCorrect == Spec => []TypeOK
<1>1. IInv => TypeOK BY DEF IInv
<1> QED BY Invariance, <1>1, PTL

\* The result is the prompt and n_generated tokens, at most Heads - 3 past the
\* limit (engine.cpp:305 asks for room for four), and at least the limit unless
\* memory ran out.
THEOREM LengthBounded == Spec => []OutputLength
<1>1. IInv => OutputLength
  <2> SUFFICES ASSUME IInv, phase # "prompt" PROVE OutputLength BY DEF OutputLength
  <2> USE GenerateAssumption
  <2>1. n_generated + (Heads - h + 1) <= limit + Overshoot => n_generated <= limit + Overshoot
    <3>1. n_generated \in Nat /\ limit \in Nat /\ h \in 1 .. Heads + 1 /\ Overshoot \in Int
      BY DEF IInv, TypeOK, Overshoot
    <3> QED BY <3>1
  <2>2. phase \in {"idle", "head", "verify", "settle"} BY DEF IInv, TypeOK
  <2>3. n_generated <= limit + Overshoot BY <2>1, <2>2 DEF IInv, Room
  <2> QED BY <2>3 DEF OutputLength, IInv, Room
<1> QED BY Invariance, <1>1, PTL

\* mtp_accepted and mtp_rejected never claim more than the text can account for.
THEOREM StatisticsAgree == Spec => []CountsAgree
<1>1. IInv => CountsAgree BY DEF IInv, Counts, Balance, Others, CountsAgree
<1> QED BY Invariance, <1>1, PTL

LEMMA OfferType ==
    ASSUME NEW d \in Logits
    PROVE  d.nucleus \cup {t \in {d.top} : d.nucleus # {}} \in Decoding!Offers
BY DEF Logits, Decoding!Offers

LEMMA DecodeStep ==
    IInv /\ IInv' /\ [Next]_vars => [Decoding!Next]_(Decoding!vars)
<1> SUFFICES ASSUME IInv, IInv', [Next]_vars PROVE [Decoding!Next]_(Decoding!vars) OBVIOUS
<1> USE GenerateAssumption
<1> DEFINE Offer == logits.nucleus \cup {t \in {logits.top} : logits.nucleus # {}}
<1>0. tokens \in Seq(Tokens) /\ Len(tokens) \in Nat /\ TypeOK /\ Place
  <2>1. TypeOK /\ Place BY DEF IInv
  <2> QED BY <2>1 DEF TypeOK
<1> DEFINE Added(t) ==
       /\ phase # "prompt" /\ phase' # "prompt"
       /\ Forward(LastOf(tokens), Len(tokens)) /\ tokens' = Append(tokens, t)
       /\ t \in logits'.nucleus \/ t = logits'.top
       /\ read \in {Len(tokens) - 1, Len(tokens)}
<1>A. ASSUME NEW t, Added(t) PROVE Decoding!Next
  <2>1. Offer' \in Decoding!Offers /\ t \in Offer' /\ t \in Tokens
    BY <1>A, OfferType, SampleType DEF Forward
  <2>2. Text = tokens /\ Text' = Append(tokens, t) BY <1>A DEF Text
  <2>3. input' = Decoding!TokenAt(Len(Text))
    BY <1>0, <1>A, <2>2 DEF Forward, Decoding!TokenAt, LastOf
  <2>4. read' = Len(Text) /\ read \in {Len(Text) - 1, Len(Text)}
    BY <1>A, <2>2 DEF Forward
  <2>5. Decoding!Emit(t) BY <2>1, <2>2, <2>3, <2>4 DEF Decoding!Emit
  <2> QED BY <2>1, <2>5 DEF Decoding!Next
<1>B. ASSUME Text' = Text, read' = read, input' = input, logits' = logits
      PROVE  UNCHANGED Decoding!vars
  BY <1>B DEF Decoding!vars
<1>1. ASSUME NEW p \in Prompts, NEW m \in 0 .. MaxNew, Begin(p, m) PROVE Decoding!Next
  <2>1. Decoding!Begin(p) BY <1>1 DEF Begin, Decoding!Begin, Text
  <2> QED BY <2>1 DEF Decoding!Next
<1>2. CASE ReadPrompt
  <2>1. Text = prompt /\ Text' = prompt BY <1>2 DEF ReadPrompt, Text, call
  <2>2. Offer' \in Decoding!Offers BY <1>2, OfferType DEF ReadPrompt, Forward
  <2>3. Decoding!Read BY <1>2, <2>1, <2>2 DEF ReadPrompt, Forward, Decoding!Read
  <2> QED BY <2>3 DEF Decoding!Next
<1>3. CASE StartLoop BY <1>3, <1>B DEF StartLoop, Text, pass
<1>4. CASE Return BY <1>4, <1>B DEF Return, Text, pass
<1>5. CASE OutOfMemory BY <1>5, <1>B DEF OutOfMemory, Text, pass
<1>6. CASE Plain
  <2>1. PICK t \in logits'.nucleus : Push(t) BY <1>6 DEF Plain
  <2>2. Added(t) BY <1>0, <1>6, <2>1 DEF Plain, Place, Push
  <2> QED BY <1>A, <2>2
<1>7. CASE Draft
  <2>1. PICK t \in logits'.nucleus : Push(t) BY <1>7 DEF Draft
  <2>2. Added(t) BY <1>0, <1>7, <2>1 DEF Draft, Place, Push
  <2> QED BY <1>A, <2>2
<1>8. CASE Accept
  <2>1. Added(mtp_preds[h]) BY <1>0, <1>8 DEF Accept, Verify, Place, Push
  <2> QED BY <1>A, <2>1
<1>9. CASE Reject
  <2>1. phase = "verify" /\ phase' = "settle" /\ Forward(LastOf(tokens), Len(tokens))
        /\ tokens # <<>> /\ read = Len(tokens) - 1
    BY <1>0, <1>9 DEF Reject, Verify, Place
  <2>2. CASE \E t \in logits'.nucleus : Push(t)
    <3>1. PICK t \in logits'.nucleus : Push(t) BY <2>2
    <3>2. Added(t) BY <2>1, <3>1 DEF Push
    <3> QED BY <1>A, <3>2
  <2>3. CASE tokens' = tokens
    <3>1. Text = tokens /\ Text' = tokens BY <2>1, <2>3 DEF Text
    <3>2. Offer' \in Decoding!Offers BY <2>1, OfferType DEF Forward
    <3>3. read < Len(Text) /\ read' = read + 1 /\ input' = Text[read + 1]
      BY <1>0, <2>1, <3>1 DEF Forward, LastOf
    <3>4. Decoding!Read BY <3>1, <3>2, <3>3 DEF Decoding!Read
    <3> QED BY <3>4 DEF Decoding!Next
  <2> QED BY <1>9, <2>2, <2>3 DEF Reject
<1>10. CASE Settle BY <1>10, <1>B DEF Settle, Text, pass
<1>11. CASE UNCHANGED vars BY <1>11, <1>B DEF vars, Text, call, pass
<1> QED BY <1>1, <1>2, <1>3, <1>4, <1>5, <1>6, <1>7, <1>8, <1>9, <1>10, <1>11 DEF Next, Step

\* Speculative rounds only ever forward tokens of the text, each when all before
\* it have been read, and add tokens the main model offered: generate() implements
\* Decode.
THEOREM DecodeImplemented == Spec => ImplementsDecode
<1>1. Init => Decoding!Init BY DEF Init, Decoding!Init, Text
<1> QED BY <1>1, InitInv, Invariance, DecodeStep, PTL DEF Spec, ImplementsDecode, Decoding!Spec

-----------------------------------------------------------------------------
(* Layer skipping *)

LEMMA ModSmall == ASSUME NEW w \in Nat \ {0}, NEW a \in 0 .. w - 1 PROVE a % w = a
  OBVIOUS

LEMMA AnchorCycle ==
    ASSUME NEW t \in 0 .. Interval
    PROVE  (t + 1) % (Interval + 1) = IF t = Interval THEN 0 ELSE t + 1
<1> USE LayerSkipAssumption
<1> DEFINE n == Interval + 1
<1>1. n \in Nat \ {0} OBVIOUS
<1>2. CASE t = Interval
  <2>1. t + 1 = n BY <1>2
  <2>2. n % n = 0
    <3> HIDE DEF n
    <3> QED BY <1>1
  <2> QED BY <1>2, <2>1, <2>2
<1>3. CASE t < Interval
  <2>1. t + 1 \in 0 .. n - 1 BY <1>3
  <2>2. (t + 1) % n = t + 1
    <3> HIDE DEF n
    <3> QED BY <1>1, <2>1, ModSmall
  <2> QED BY <1>3, <2>2
<1> QED BY <1>2, <1>3

LEMMA HiddenType ==
    ASSUME NEW l \in Layers, NEW hidden \in Hiddens[l] PROVE hidden \in Int
BY LayerSkipAssumption
-----------------------------------------------------------------------------
LEMMA ControllerTypeInit == ControllerInit => ControllerTypeOK
BY LayerSkipAssumption DEF ControllerInit, ControllerTypeOK, Layers

LEMMA VisitType ==
    ASSUME ControllerTypeOK, Visit
    PROVE  ControllerTypeOK'
<1> USE LayerSkipAssumption
<1>0. PICK l \in Layers : l = layer /\ \E hidden \in Hiddens[l] : ComputeLayer(hidden) \/ SkipLayer(hidden)
  BY DEF Visit
<1>1. PICK hidden \in Hiddens[l] : l = layer /\ (ComputeLayer(hidden) \/ SkipLayer(hidden))
  BY <1>0
<1>2. hidden \in Int /\ layer + 1 \in 0 .. NLayers
  BY <1>1, HiddenType DEF Layers
<1>3. CASE ComputeLayer(hidden)
  BY <1>1, <1>2, <1>3 DEF ComputeLayer, ControllerTypeOK
<1>4. CASE SkipLayer(hidden)
  <2>1. [gap EXCEPT ![layer] = IF @ > Interval THEN @ ELSE @ + 1] \in [Layers -> 0 .. Interval + 1]
    BY <1>1 DEF ControllerTypeOK
  <2> QED BY <1>1, <1>2, <1>4, <2>1 DEF SkipLayer, ControllerTypeOK, caches, history
<1> QED BY <1>1, <1>3, <1>4

LEMMA ControllerTypeStep == ControllerTypeOK /\ [AnyNext]_controller => ControllerTypeOK'
<1> SUFFICES ASSUME ControllerTypeOK, [AnyNext]_controller PROVE ControllerTypeOK' OBVIOUS
<1> USE LayerSkipAssumption
<1>1. CASE AnnouncedPass
  BY <1>1, AnchorCycle DEF AnnouncedPass, new_token, ControllerTypeOK, caches, history
<1>2. CASE Pass
  BY <1>2 DEF Pass, ControllerTypeOK, caches, history
<1>3. CASE Visit
  BY <1>3, VisitType
<1>4. CASE Reset
  BY <1>4 DEF Reset, ControllerTypeOK
<1>5. CASE ResetAnchor
  BY <1>5 DEF ResetAnchor, ControllerTypeOK, caches, history
<1>6. CASE Tune
  BY <1>6 DEF Tune, SetThreshold, ControllerTypeOK, caches, history
<1>7. CASE UNCHANGED controller
  BY <1>7 DEF controller, ControllerTypeOK, caches, history
<1> QED BY <1>1, <1>2, <1>3, <1>4, <1>5, <1>6, <1>7 DEF AnyNext

\* The controller's state stays well-formed whoever calls it, in any order: the
\* anchor count is at most skip_interval.
THEOREM ControllerTypes == AnySpec => []ControllerTypeOK
BY ControllerTypeInit, ControllerTypeStep, PTL DEF AnySpec

LEMMA DeltaNat ==
    ASSUME NEW a \in Int, NEW b \in Int PROVE hidden_delta(a, b) \in Nat
BY DEF hidden_delta

-----------------------------------------------------------------------------
\* A layer whose FFN has not run is compared with zero, from which it is too far to
\* be passed over.
NeverRunIsZero == \A l \in Layers : l \notin computed => cached_attn_out[l] = 0
Unseen == NeverRunIsZero /\ SkippedAfterRun

LEMMA UnseenVisit == ASSUME ControllerTypeOK, Unseen, Visit PROVE Unseen'
<1> USE LayerSkipAssumption
<1>1. PICK k \in Layers : k = layer /\ \E hidden \in Hiddens[k] : ComputeLayer(hidden) \/ SkipLayer(hidden)
  BY DEF Visit
<1>2. PICK hidden \in Hiddens[k] : ComputeLayer(hidden) \/ SkipLayer(hidden)  BY <1>1
<1> SUFFICES ASSUME NEW l \in Layers
             PROVE  /\ l \notin computed' => cached_attn_out'[l] = 0
                    /\ FarFromZero(l) /\ gap'[l] > 0 => l \in computed'
  BY DEF Unseen, NeverRunIsZero, SkippedAfterRun, FarFromZero
<1>3. /\ l \notin computed => cached_attn_out[l] = 0
      /\ FarFromZero(l) /\ gap[l] > 0 => l \in computed
  BY Zenon DEF Unseen, NeverRunIsZero, SkippedAfterRun
<1>4. CASE ComputeLayer(hidden)
  <2>1. CASE l = layer
    <3>1. l \in computed'  BY <1>4, <2>1 DEF ComputeLayer
    <3> QED BY <3>1
  <2>2. CASE l # layer
    <3>1. cached_attn_out'[l] = cached_attn_out[l] /\ gap'[l] = gap[l] /\ computed \subseteq computed'
      BY <1>4, <2>2 DEF ComputeLayer, ControllerTypeOK
    <3> QED BY <1>3, <3>1
  <2> QED BY <2>1, <2>2
<1>5. CASE SkipLayer(hidden)
  <2>1. computed' = computed /\ cached_attn_out' = cached_attn_out
    BY <1>5 DEF SkipLayer, caches
  <2>2. ASSUME l = layer, FarFromZero(l) PROVE l \in computed
    <3>1. hidden_delta(hidden, cached_attn_out[l]) < Threshold(l)
      BY <1>5, <2>2 DEF SkipLayer, should_skip_ffn
    <3>2. threshold \in Nat /\ threshold \in Thresholds /\ hidden \in Int
      BY <1>1, HiddenType DEF ControllerTypeOK
    <3>3. Threshold(l) \in Int /\ Threshold(l) <= 2 * threshold
      BY <3>2 DEF Threshold
    <3>4. hidden_delta(hidden, 0) \in Nat /\ hidden_delta(hidden, 0) >= 2 * threshold
      BY <1>1, <2>2, <3>2, DeltaNat DEF FarFromZero
    <3> DEFINE d == hidden_delta(hidden, 0)
               m == Threshold(l)
    <3> HIDE DEF d, m
    <3>5. ~ (d < m)  BY <3>2, <3>3, <3>4 DEF d, m
    <3>6. cached_attn_out[l] # 0  BY <3>1, <3>5 DEF d, m
    <3> QED BY <1>3, <3>6
  <2>3. l # layer => gap'[l] = gap[l]  BY <1>5 DEF SkipLayer, ControllerTypeOK
  <2> QED BY <1>3, <2>1, <2>2, <2>3
<1> QED BY <1>2, <1>4, <1>5

\* Of a layer whose attention output stays away from zero the FFN runs before it is
\* ever passed over, and again after every reset(), whoever calls the controller.
THEOREM NothingSkippedUnseen == AnySpec => []SkippedAfterRun
<1>1. ControllerInit => Unseen
  BY DEF ControllerInit, Unseen, NeverRunIsZero, SkippedAfterRun
<1>2. ControllerTypeOK /\ Unseen /\ [AnyNext]_controller => Unseen'
  <2> SUFFICES ASSUME ControllerTypeOK, Unseen, [AnyNext]_controller PROVE Unseen'
    OBVIOUS
  <2>1. CASE Visit  BY <2>1, UnseenVisit
  <2>2. CASE Reset  BY <2>2 DEF Reset, Unseen, NeverRunIsZero, SkippedAfterRun
  <2>3. CASE AnnouncedPass \/ Pass \/ ResetAnchor \/ Tune \/ UNCHANGED controller
    <3>1. cached_attn_out' = cached_attn_out /\ gap' = gap /\ computed' = computed
      BY <2>3 DEF AnnouncedPass, Pass, ResetAnchor, Tune, SetThreshold, controller, caches, history
    <3> QED BY <3>1 DEF Unseen, NeverRunIsZero, SkippedAfterRun, FarFromZero
  <2> QED BY <2>1, <2>2, <2>3 DEF AnyNext
<1>3. Unseen => SkippedAfterRun  BY DEF Unseen
<1> QED BY <1>1, <1>2, <1>3, ControllerTypeInit, ControllerTypeStep, PTL DEF AnySpec
-----------------------------------------------------------------------------
\* How long a layer may have gone without its FFN, given the anchor count: the
\* layers this pass has visited are one pass ahead of the others.
Allowed(l) ==
    IF layer <= l THEN tokens_since_anchor
    ELSE IF is_anchor_token THEN 0 ELSE tokens_since_anchor + 1

GapsAllowed ==
    \A l \in Layers : gap[l] <= IF Protected(l) THEN 0 ELSE Allowed(l)

LEMMA GapsStep == ControllerTypeOK /\ GapsAllowed /\ [CallerNext]_controller => GapsAllowed'
<1> SUFFICES ASSUME ControllerTypeOK, GapsAllowed, [CallerNext]_controller, NEW l \in Layers
             PROVE  (gap[l] <= IF Protected(l) THEN 0 ELSE Allowed(l))'
  BY DEF GapsAllowed
<1> USE LayerSkipAssumption
<1>0. /\ gap[l] <= (IF Protected(l) THEN 0 ELSE Allowed(l)) /\ gap[l] \in Nat
      /\ layer \in Nat /\ l \in Nat /\ l < NLayers /\ tokens_since_anchor \in 0 .. Interval
  BY DEF GapsAllowed, ControllerTypeOK, Layers
<1>1. CASE AnnouncedPass
  <2>1. tokens_since_anchor' = IF tokens_since_anchor = Interval THEN 0
                                ELSE tokens_since_anchor + 1
    BY <1>0, <1>1, AnchorCycle DEF AnnouncedPass, new_token
  <2>2. layer = NLayers /\ layer' = 0 /\ gap' = gap BY <1>1 DEF AnnouncedPass, history
  <2> QED BY <1>0, <2>1, <2>2 DEF Allowed, is_anchor_token, Protected
<1>2. CASE Visit
  <2>0. PICK k \in Layers : k = layer /\ \E hidden \in Hiddens[k] : ComputeLayer(hidden) \/ SkipLayer(hidden)
    BY <1>2 DEF Visit
  <2>1. PICK hidden \in Hiddens[k] : k = layer /\ (ComputeLayer(hidden) \/ SkipLayer(hidden))
    BY <2>0
  <2>2. layer' = layer + 1 /\ tokens_since_anchor' = tokens_since_anchor
    BY <2>1 DEF ComputeLayer, SkipLayer
  <2>3. CASE l # layer
    <3>1. gap'[l] = gap[l]
      BY <2>1, <2>3 DEF ComputeLayer, SkipLayer, ControllerTypeOK
    <3>2. layer <= l <=> layer + 1 <= l BY <1>0, <2>3
    <3> QED BY <1>0, <2>2, <3>1, <3>2 DEF Allowed, is_anchor_token, Protected
  <2>4. CASE l = layer /\ ComputeLayer(hidden)
    <3>1. gap'[l] = 0 BY <2>4 DEF ComputeLayer, ControllerTypeOK
    <3> QED BY <1>0, <2>2, <2>4, <3>1 DEF Allowed, is_anchor_token, Protected
  <2>5. CASE l = layer /\ SkipLayer(hidden)
    <3>1. ~ is_anchor_token /\ hidden_delta(hidden, cached_attn_out[l]) < Threshold(l)
      BY <2>5 DEF SkipLayer, should_skip_ffn
    <3>2. hidden_delta(hidden, cached_attn_out[l]) \in Nat
      BY <2>1, HiddenType, DeltaNat DEF ControllerTypeOK
    <3>3. ~ Protected(l)
      <4>1. Protected(l) => Threshold(l) = -1 BY DEF Threshold
      <4> HIDE DEF hidden_delta, Threshold
      <4> QED BY <3>1, <3>2, <4>1
    <3>4. gap'[l] <= gap[l] + 1 BY <1>0, <2>5 DEF SkipLayer, ControllerTypeOK
    <3>5. gap'[l] \in Nat BY <1>0, <2>5 DEF SkipLayer, ControllerTypeOK
    <3> QED BY <1>0, <2>2, <2>5, <3>1, <3>3, <3>4, <3>5 DEF Allowed, is_anchor_token, Protected
  <2> QED BY <2>1, <2>3, <2>4, <2>5
<1>3. CASE Reset
  BY <1>0, <1>3 DEF Reset, Allowed, is_anchor_token, Protected
<1>4. CASE Tune
  BY <1>0, <1>4 DEF Tune, SetThreshold, history, Allowed, is_anchor_token, Protected
<1>5. CASE UNCHANGED controller
  BY <1>0, <1>5 DEF controller, history, Allowed, is_anchor_token, Protected
<1> QED BY <1>1, <1>2, <1>3, <1>4, <1>5 DEF CallerNext

\* When each pass is announced with new_token(), no layer misses its FFN for more
\* than skip_interval passes in a row, and a protected layer for none.
THEOREM RecomputedInTime == CallerSpec => []RecomputedWithinInterval
<1>1. ControllerInit => GapsAllowed
  BY LayerSkipAssumption DEF ControllerInit, GapsAllowed, Allowed, is_anchor_token, Layers, Protected
<1>2. [CallerNext]_controller => [AnyNext]_controller BY DEF CallerNext, AnyNext
<1>3. ControllerTypeOK /\ GapsAllowed => RecomputedWithinInterval
  <2> SUFFICES ASSUME ControllerTypeOK, GapsAllowed, NEW l \in Layers
               PROVE  gap[l] <= IF Protected(l) THEN 0 ELSE Interval
    BY DEF RecomputedWithinInterval
  <2>1. gap[l] <= (IF Protected(l) THEN 0 ELSE Allowed(l)) BY DEF GapsAllowed
  <2>2. Allowed(l) <= Interval /\ Allowed(l) \in Int /\ gap[l] \in Int
    BY LayerSkipAssumption DEF Allowed, is_anchor_token, ControllerTypeOK
  <2> QED BY <2>1, <2>2, LayerSkipAssumption
<1> QED BY <1>1, <1>2, <1>3, ControllerTypeInit, ControllerTypeStep, GapsStep, PTL DEF CallerSpec
=============================================================================
