----------------------------- MODULE MCChatStream -----------------------------
(* One chat stream with a handful of usage objects in the providers' spellings. *)
EXTENDS ChatStream

MCUsages ==
    {[flat |-> [inputTokens |-> 9, outputTokens |-> 2],
      nested |-> [inputTokenDetails |-> [cacheReadTokens |-> 7, cacheWriteTokens |-> 1]]],
     [flat |-> [input_tokens |-> 5, output_tokens |-> 1, total_tokens |-> 8,
                cacheReadTokens |-> 0, cachedInputTokens |-> 0, cache_read_input_tokens |-> 4],
      nested |-> [prompt_tokens_details |-> [cached_tokens |-> 0]]],
     [flat |-> [promptTokens |-> 3, completionTokens |-> 0, cacheCreationTokens |-> 2],
      nested |-> <<>>]}
=============================================================================
