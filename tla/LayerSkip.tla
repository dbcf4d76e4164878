------------------------------ MODULE LayerSkip ------------------------------
(* LayerSkipController of layer_skip.cpp, and the loop over the layers in
   Engine::forward_with_hidden() that drives it.

   A hidden state is a number, and hidden_delta() a distance; the output of a
   layer is known by the input of its FFN.  A pass visits every layer once, in
   order: the FFN runs and its output is recorded, or it is skipped. *)
EXTENDS Integers

CONSTANTS
    NLayers,     \* cfg.n_layers
    Interval,    \* cfg.skip_interval
    Thresholds,  \* skip_threshold, and what set_threshold() may be given
    Hiddens      \* per layer, the hidden states that attention may produce

Layers == 0 .. NLayers - 1

ASSUME LayerSkipAssumption ==
    /\ NLayers \in Nat \ {0} /\ Interval \in Nat
    /\ Thresholds \subseteq Nat
    /\ Hiddens \in [Layers -> SUBSET Int]

VARIABLES
    layer,                  \* the layer the pass visits next, NLayers after the last
    threshold,
    cached_attn_out, cached_hidden, skip_mask,
    tokens_since_anchor, skipped_count,
    gap,                    \* per layer, passes since its FFN ran (up to Interval + 1)
    computed                \* the layers whose FFN ran since construction or reset()

caches == <<cached_attn_out, cached_hidden>>
history == <<gap, computed>>
controller == <<layer, threshold, caches, skip_mask, tokens_since_anchor, skipped_count, history>>

ControllerInit ==
    /\ layer = NLayers
    /\ threshold \in Thresholds
    /\ cached_attn_out = [l \in Layers |-> 0]
    /\ cached_hidden = [l \in Layers |-> 0]
    /\ skip_mask = [l \in Layers |-> FALSE]
    /\ tokens_since_anchor = 0 /\ skipped_count = 0
    /\ gap = [l \in Layers |-> 0] /\ computed = {}

is_anchor_token == tokens_since_anchor >= Interval

hidden_delta(a, b) == IF a < b THEN b - a ELSE a - b

Protected(l) == l < 2 \/ l + 2 >= NLayers

Threshold(l) ==
    LET mid == NLayers \div 2
    IN  CASE Protected(l) -> -1
          [] ~ Protected(l) /\ mid \div 2 < l /\ l < mid + mid \div 2 -> 2 * threshold
          [] OTHER -> threshold

should_skip_ffn(l, hidden) ==
    ~ is_anchor_token /\ hidden_delta(hidden, cached_attn_out[l]) < Threshold(l)
-----------------------------------------------------------------------------
\* The controller's new_token().
new_token_NoWrap == tokens_since_anchor' = tokens_since_anchor + 1

new_token_ShortCycle == tokens_since_anchor' = IF Interval = 0 THEN 0
                                               ELSE (tokens_since_anchor + 1) % Interval

new_token == tokens_since_anchor' = (tokens_since_anchor + 1) % (Interval + 1)

\* A pass of a caller that announces it, as the header asks.
AnnouncedPass ==
    /\ layer = NLayers /\ layer' = 0
    /\ new_token
    /\ skip_mask' = [l \in Layers |-> FALSE]
    /\ UNCHANGED <<threshold, caches, skipped_count, history>>

\* A pass of the engine, which does not.
Pass ==
    /\ layer = NLayers /\ layer' = 0
    /\ UNCHANGED <<threshold, caches, skip_mask, tokens_since_anchor, skipped_count, history>>

ComputeLayer(hidden) ==
    /\ layer < NLayers /\ ~ should_skip_ffn(layer, hidden)
    /\ skip_mask' = [skip_mask EXCEPT ![layer] = FALSE]
    /\ cached_attn_out' = [cached_attn_out EXCEPT ![layer] = hidden]
    /\ cached_hidden' = [cached_hidden EXCEPT ![layer] = hidden]
    /\ gap' = [gap EXCEPT ![layer] = 0]
    /\ computed' = computed \cup {layer}
    /\ layer' = layer + 1
    /\ UNCHANGED <<threshold, tokens_since_anchor, skipped_count>>

SkipLayer(hidden) ==
    /\ layer < NLayers /\ should_skip_ffn(layer, hidden)
    /\ skip_mask' = [skip_mask EXCEPT ![layer] = TRUE]
    /\ gap' = [gap EXCEPT ![layer] = IF @ > Interval THEN @ ELSE @ + 1]
    /\ layer' = layer + 1
    /\ UNCHANGED <<threshold, caches, tokens_since_anchor, skipped_count, computed>>

\* A reset() that forgets the outputs and keeps what they are compared by.
Reset_KeepAttention ==
    /\ layer = NLayers
    /\ tokens_since_anchor' = 0 /\ skipped_count' = 0
    /\ skip_mask' = [l \in Layers |-> FALSE]
    /\ cached_hidden' = [l \in Layers |-> 0]
    /\ gap' = [l \in Layers |-> 0] /\ computed' = {}
    /\ UNCHANGED <<layer, threshold, cached_attn_out>>

\* reset(), reset_anchor() and set_threshold() come between passes.
Reset ==
    /\ layer = NLayers
    /\ tokens_since_anchor' = 0 /\ skipped_count' = 0
    /\ skip_mask' = [l \in Layers |-> FALSE]
    /\ cached_attn_out' = [l \in Layers |-> 0]
    /\ cached_hidden' = [l \in Layers |-> 0]
    /\ gap' = [l \in Layers |-> 0] /\ computed' = {}
    /\ UNCHANGED <<layer, threshold>>

ResetAnchor ==
    /\ layer = NLayers
    /\ tokens_since_anchor' = 0
    /\ UNCHANGED <<layer, threshold, caches, skip_mask, skipped_count, history>>

SetThreshold(t) ==
    /\ layer = NLayers
    /\ threshold' = t
    /\ UNCHANGED <<layer, caches, skip_mask, tokens_since_anchor, skipped_count, history>>

Visit == \E l \in Layers : l = layer /\ \E hidden \in Hiddens[l] :
             ComputeLayer(hidden) \/ SkipLayer(hidden)
Tune == \E t \in Thresholds : SetThreshold(t)

\* Any use of the controller; a caller that announces each pass; the engine.
AnyNext == AnnouncedPass \/ Pass \/ Visit \/ Reset \/ ResetAnchor \/ Tune
AnySpec == ControllerInit /\ [][AnyNext]_controller
CallerNext == AnnouncedPass \/ Visit \/ Reset \/ Tune
CallerSpec == ControllerInit /\ [][CallerNext]_controller
EngineNext == Pass \/ Visit \/ Tune
EngineSpec == ControllerInit /\ [][EngineNext]_controller
-----------------------------------------------------------------------------
ControllerTypeOK ==
    /\ layer \in 0 .. NLayers
    /\ threshold \in Thresholds
    /\ cached_attn_out \in [Layers -> Int]
    /\ cached_hidden \in [Layers -> Int]
    /\ skip_mask \in [Layers -> BOOLEAN]
    /\ tokens_since_anchor \in 0 .. Interval
    /\ skipped_count \in Nat
    /\ gap \in [Layers -> 0 .. Interval + 1]
    /\ computed \subseteq Layers

\* Construction and reset() leave zeros to compare with, which are the attention
\* output of no token.  Where the outputs, normalized as they are, stay further from
\* zero than any threshold reaches, a layer is passed over only after its FFN has
\* run in the text at hand: nothing of a text before reset() makes it skip.
FarFromZero(l) == \A hidden \in Hiddens[l], t \in Thresholds : hidden_delta(hidden, 0) >= 2 * t
SkippedAfterRun == \A l \in Layers : FarFromZero(l) /\ gap[l] > 0 => l \in computed

\* No layer goes without its FFN for more than Interval passes in a row, and the
\* first two and the last two layers never do.
RecomputedWithinInterval ==
    \A l \in Layers : gap[l] <= IF Protected(l) THEN 0 ELSE Interval

\* layer_skip.cpp:38, "Compare with previous token's attention output at this
\* layer": of a token whose layer is skipped the output is what the next one is
\* compared with.
ComparesWithPreviousToken ==
    [][\A l \in Layers : \A hidden \in Hiddens[l] :
          l = layer /\ SkipLayer(hidden) => cached_attn_out'[l] = hidden]_controller
=============================================================================
