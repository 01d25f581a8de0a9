---------------------------- MODULE UsageCounters ----------------------------
(***************************************************************************)
(* The token counts a client is told (src/impl.go usagePayload).  An       *)
(* upstream usage object is a record [flat, nested]: flat maps the keys it *)
(* has to numbers, nested maps the detail containers it has to such        *)
(* functions.  Keys whose value is not a number are left out of it.        *)
(***************************************************************************)
EXTENDS Naturals, SequencesExt

NoUsage == [flat |-> <<>>, nested |-> <<>>]

\* The first of the keys that is there.
intFromAny(values, keys) ==
    LET found == {i \in DOMAIN keys : keys[i] \in DOMAIN values}
    IN IF found = {} THEN 0 ELSE values[keys[Min(found)]]

\* The first of the keys that counts anything.
intFromAnyPositive(values, keys) ==
    LET Count(i) == intFromAny(values, <<keys[i]>>)
        counting == {i \in DOMAIN keys : Count(i) > 0}
    IN IF counting = {} THEN 0 ELSE Count(Min(counting))

cacheDetailContainers ==
    <<"inputTokenDetails", "input_tokens_details", "promptTokensDetails", "prompt_tokens_details">>

\* The first of the containers that counts anything.
intFromContainers(usage, keys) ==
    LET Count(i) == intFromAnyPositive(usage.nested[cacheDetailContainers[i]], keys)
        counting == {i \in DOMAIN cacheDetailContainers :
                        cacheDetailContainers[i] \in DOMAIN usage.nested /\ Count(i) > 0}
    IN IF counting = {} THEN 0 ELSE Count(Min(counting))

NestedReadKeys ==
    <<"cacheReadTokens", "cache_read_tokens", "cachedTokens", "cached_tokens", "cacheReadInputTokens",
      "cache_read_input_tokens", "promptCacheHitTokens", "prompt_cache_hit_tokens">>
FlatReadKeys ==
    <<"cacheReadTokens", "cache_read_tokens", "cachedInputTokens", "cached_tokens",
      "cache_read_input_tokens", "promptCacheHitTokens", "prompt_cache_hit_tokens">>

\* Mutant: a zero hides the aliases behind it.
cachedInputTokensFirst(usage) ==
    LET nested == intFromContainers(usage, NestedReadKeys)
    IN IF nested > 0 THEN nested ELSE intFromAny(usage.flat, FlatReadKeys)

cachedInputTokens(usage) ==
    LET nested == intFromContainers(usage, NestedReadKeys)
    IN IF nested > 0 THEN nested ELSE intFromAnyPositive(usage.flat, FlatReadKeys)

cacheCreationInputTokens(usage) ==
    LET nested == intFromContainers(usage, <<"cacheCreationTokens", "cache_creation_tokens",
                                             "cacheWriteTokens", "cache_write_tokens">>)
    IN IF nested > 0 THEN nested
       ELSE intFromAny(usage.flat, <<"cacheCreationTokens", "cache_creation_tokens",
                                     "cacheCreationInputTokens", "cache_creation_input_tokens">>)

\* What a client is told of an answer whose text has this many bytes: output that was not
\* counted is estimated from the text.  A cached or created of 0 is not in the payload.
usagePayload(usage, bytes) ==
    LET prompt     == intFromAny(usage.flat, <<"inputTokens", "input_tokens",
                                               "promptTokens", "prompt_tokens">>)
        counted    == intFromAny(usage.flat, <<"outputTokens", "output_tokens",
                                               "completionTokens", "completion_tokens">>)
        completion == IF counted = 0 /\ bytes > 0 THEN bytes \div 4 + 1 ELSE counted
        total      == intFromAny(usage.flat, <<"totalTokens", "total_tokens">>)
    IN [prompt |-> prompt, completion |-> completion,
        total |-> IF prompt = 0 /\ completion = 0 THEN 0
                  ELSE IF total = 0 THEN prompt + completion ELSE total,
        cached |-> cachedInputTokens(usage), created |-> cacheCreationInputTokens(usage)]
=============================================================================
