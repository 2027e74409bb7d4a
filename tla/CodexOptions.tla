----------------------------- MODULE CodexOptions -----------------------------
(***************************************************************************)
(* CodexOptions (options.py): the layers of defaults of the SDK client,    *)
(* the merge of layers, and what of a merged layer goes into the calls     *)
(* that start a thread and a turn.  A layer is a function on Fields, None  *)
(* where the caller named nothing.  Four of the fields stand for classes:  *)
(* model for all that both projections pass on as they are,                *)
(* base_instructions for what only threads have, effort for what only      *)
(* turns have, personality for itself.  The two sandbox fields are what    *)
(* the projections convert into each other.                                *)
(***************************************************************************)
EXTENDS Naturals, Sequences

CONSTANT None   \* a field, or a whole layer, that is not given

Fields == {"model", "base_instructions", "effort", "personality",
           "sandbox_mode", "sandbox_policy"}

Modes == {"read_only", "workspace_write", "danger_full_access"}

NoOptions == [f \in Fields |-> None]

Only(field, value) == [NoOptions EXCEPT ![field] = value]

\* The loop of _last_non_none: result[n] is last after n values.
LastNonNone(values) ==
    LET result[n \in 0..Len(values)] ==
            IF n = 0 THEN None
            ELSE IF values[n] # None THEN values[n] ELSE result[n - 1]
    IN  result[Len(values)]

\* A layer that is not given names nothing, like the layers merge() filters out.
Named(layer) == IF layer = None THEN NoOptions ELSE layer

Merge(layers) ==
    [f \in Fields |-> LastNonNone([i \in 1..Len(layers) |-> Named(layers[i])[f]])]

\* A policy is its type; the type of the external sandbox has no mode.
ModeOfPolicy(policy) == IF policy \in Modes THEN policy ELSE None

PolicyOfMode(mode) == mode

EffectiveMode(o) ==
    IF o["sandbox_mode"] # None THEN o["sandbox_mode"]
                                ELSE ModeOfPolicy(o["sandbox_policy"])

EffectivePolicy(o) ==
    IF o["sandbox_policy"] # None THEN o["sandbox_policy"]
                                  ELSE PolicyOfMode(o["sandbox_mode"])

\* What thread/start and thread/resume are sent, and thread/fork, which takes no
\* personality.
ThreadKwargs(o, kind) ==
    [model |-> o["model"], base_instructions |-> o["base_instructions"],
     personality |-> IF kind = "fork" THEN None ELSE o["personality"],
     sandbox |-> EffectiveMode(o)]

TurnKwargs(o) ==
    [model |-> o["model"], effort |-> o["effort"],
     personality |-> o["personality"], sandbox |-> EffectivePolicy(o)]
=============================================================================
