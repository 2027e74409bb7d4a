----------------------------- MODULE MCTurnStream -----------------------------
EXTENDS TurnStream

CONSTANTS answer, patch, thought   \* an agent message, a change of files, reasoning

MCItemKind == answer :> "agent" @@ patch :> "file_change" @@ thought :> "reasoning"

\* Two items that grow in turn, listed at the end; deltas with no item before them,
\* an empty one, and a completion that lists nothing; items whose text comes
\* without deltas; reasoning, whose deltas have two methods; messages that are refused;
\* each with traffic of another turn, of the thread or of another thread.
MCScripts ==
    { << <<"item", answer>>, <<"delta", answer>>, <<"delta", patch>>, <<"delta", answer>>,
         <<"usage">>, <<"completed">> >>,
      << <<"other">>, <<"delta", patch>>, <<"empty", answer>>, <<"whole", answer>>,
         <<"bare">> >>,
      << <<"usage">>, <<"whole", answer>>, <<"status">>, <<"usage">>, <<"completed">> >>,
      << <<"started">>, <<"elsewhere">>, <<"unknown">>, <<"broken">>, <<"bare">> >>,
      << <<"delta", thought>>, <<"delta", thought>>, <<"bare">> >>,
      << <<"thread">>, <<"diff">>, <<"garbled">>, <<"completed">> >> }
=============================================================================
