----------------------- MODULE UpstreamEvents_proofs -----------------------
(***************************************************************************)
(* What reading an upstream event does to a result, and what a client can  *)
(* be told of any usage object: the lemmas the proofs about the streams    *)
(* share.  A usage object is any member of Usages; how many spellings of a *)
(* count it has, and with which numbers, is left open.                     *)
(***************************************************************************)
EXTENDS UpstreamEvents, WellFoundedInduction, TLAPS

\* What an upstream event leaves of the result is a result.
LEMMA AbsorbTyped ==
    ASSUME NEW r \in Result, NEW event \in Events
    PROVE  Absorb(r, event) \in Result
<1>1. CASE event.type = "text-delta"
    <2> DEFINE count == r.text + 1
    <2>0. r.text \in Nat
        BY DEF Result
    <2>1. Absorb(r, event) = [r EXCEPT !.text = count]
        BY <1>1 DEF Absorb
    <2>2. count \in Nat
        BY <2>0
    <2> HIDE DEF count
    <2> QED BY <2>1, <2>2 DEF Result
<1>2. CASE event.type = "reasoning-delta"
    <2> DEFINE count == r.reasoning + 1
    <2>0. r.reasoning \in Nat
        BY DEF Result
    <2>1. Absorb(r, event) = [r EXCEPT !.reasoning = count]
        BY <1>2 DEF Absorb
    <2>2. count \in Nat
        BY <2>0
    <2> HIDE DEF count
    <2> QED BY <2>1, <2>2 DEF Result
<1>3. CASE event.type = "tool-call"
    <2> DEFINE count == r.tools + 1
    <2>0. r.tools \in Nat
        BY DEF Result
    <2>1. Absorb(r, event) = [r EXCEPT !.tools = count]
        BY <1>3 DEF Absorb
    <2>2. count \in Nat
        BY <2>0
    <2> HIDE DEF count
    <2> QED BY <2>1, <2>2 DEF Result
<1>4. CASE event.type = "finish"
    <2>1. event \in [type : {"finish"}, reason : UpstreamReasons, usage : Usages \cup {NoUsage}]
        BY <1>4 DEF Events
    <2>2. mapFinishReason(event.reason) \in Reasons
        BY DEF mapFinishReason, Reasons
    <2> DEFINE finish == IF event.reason = "" THEN r.finish ELSE mapFinishReason(event.reason)
               usage == IF event.usage = NoUsage THEN r.usage ELSE event.usage
    <2>3. Absorb(r, event) = [r EXCEPT !.finish = finish, !.usage = usage]
        BY <1>4 DEF Absorb
    <2>4. finish \in Reasons \cup {""} /\ usage \in Usages \cup {NoUsage}
        BY <2>1, <2>2 DEF Result
    <2> HIDE DEF finish, usage
    <2> QED BY <2>3, <2>4 DEF Result
<1> QED BY <1>1, <1>2, <1>3, <1>4 DEF Events

\* An event changes the one count of the result it is about.
LEMMA AbsorbCounts ==
    ASSUME NEW r \in Result, NEW event \in Events
    PROVE  /\ Absorb(r, event).text = IF event.type = "text-delta" THEN r.text + 1 ELSE r.text
           /\ Absorb(r, event).tools = IF event.type = "tool-call" THEN r.tools + 1 ELSE r.tools
           /\ Absorb(r, event).reasoning = IF event.type = "reasoning-delta"
                                           THEN r.reasoning + 1 ELSE r.reasoning
<1>1. CASE event.type = "text-delta"
    <2>1. Absorb(r, event) = [r EXCEPT !.text = r.text + 1]
        BY <1>1 DEF Absorb
    <2> QED BY <1>1, <2>1 DEF Result
<1>2. CASE event.type = "reasoning-delta"
    <2>1. Absorb(r, event) = [r EXCEPT !.reasoning = r.reasoning + 1]
        BY <1>2 DEF Absorb
    <2> QED BY <1>2, <2>1 DEF Result
<1>3. CASE event.type = "tool-call"
    <2>1. Absorb(r, event) = [r EXCEPT !.tools = r.tools + 1]
        BY <1>3 DEF Absorb
    <2> QED BY <1>3, <2>1 DEF Result
<1>4. CASE event.type = "finish"
    <2> DEFINE finish == IF event.reason = "" THEN r.finish ELSE mapFinishReason(event.reason)
               usage == IF event.usage = NoUsage THEN r.usage ELSE event.usage
    <2>1. Absorb(r, event) = [r EXCEPT !.finish = finish, !.usage = usage]
        BY <1>4 DEF Absorb
    <2> HIDE DEF finish, usage
    <2> QED BY <1>4, <2>1 DEF Result
<1> QED BY <1>1, <1>2, <1>3, <1>4 DEF Events

\* The end of the answer changes at most the finish reason.
LEMMA ReturnedTyped ==
    ASSUME NEW r \in Result
    PROVE  /\ Returned(r) \in Result
           /\ Returned(r).text = r.text /\ Returned(r).reasoning = r.reasoning
           /\ Returned(r).tools = r.tools /\ Returned(r).usage = r.usage
           /\ Returned(Returned(r)) = Returned(r)
<1> DEFINE last == [r EXCEPT !.finish = "tool_calls"]
<1>1. /\ last \in Result /\ last.tools = r.tools /\ last.text = r.text
      /\ last.reasoning = r.reasoning /\ last.usage = r.usage
      /\ [last EXCEPT !.finish = "tool_calls"] = last
    BY DEF Result, Reasons
<1>2. CASE r.tools > 0
    <2>1. Returned(r) = last
        BY <1>2 DEF Returned
    <2>2. Returned(last) = last
        BY <1>1, <1>2 DEF Returned
    <2> HIDE DEF last
    <2> QED BY <1>1, <2>1, <2>2
<1>3. CASE ~(r.tools > 0)
    BY <1>3 DEF Returned
<1> QED BY <1>2, <1>3

-----------------------------------------------------------------------------
\* A set of places that is not empty has a first one.
LEMMA FirstPlace ==
    ASSUME NEW S \in SUBSET Nat, S # {}
    PROVE  Min(S) \in S /\ \A i \in S : Min(S) <= i
<1>1. PICK first \in S : \A i \in S : <<i, first>> \notin OpToRel(<, Nat)
    BY NatLessThanWellFounded, WFMin, Zenon
<1>2. \A i \in S : first <= i
    <2> TAKE i \in S
    <2>1. ~(i < first)
        BY <1>1 DEF OpToRel
    <2> QED BY <2>1
<1> QED BY <1>2 DEF Min

\* Numbers under keys.
IsCounts(values) == \A key \in DOMAIN values : values[key] \in Nat

\* What a list of keys finds is a number.
LEMMA FoundIsNat ==
    ASSUME NEW values, IsCounts(values), NEW keys, DOMAIN keys \subseteq Nat
    PROVE  intFromAny(values, keys) \in Nat
<1> DEFINE found == {i \in DOMAIN keys : keys[i] \in DOMAIN values}
<1>1. found \in SUBSET Nat
    OBVIOUS
<1>2. CASE found = {}
    BY <1>2 DEF intFromAny
<1>3. CASE found # {}
    <2>1. Min(found) \in found
        BY <1>1, <1>3, FirstPlace
    <2>2. values[keys[Min(found)]] \in Nat
        BY <2>1 DEF IsCounts
    <2> QED BY <1>3, <2>2 DEF intFromAny
<1> QED BY <1>2, <1>3

\* A single key finds its own count.
LEMMA OneKey ==
    ASSUME NEW values, NEW key
    PROVE  intFromAny(values, <<key>>) = IF key \in DOMAIN values THEN values[key] ELSE 0
<1> DEFINE keys == <<key>>
           found == {i \in DOMAIN keys : keys[i] \in DOMAIN values}
<1>1. DOMAIN keys = {1} /\ keys[1] = key
    OBVIOUS
<1>2. CASE key \in DOMAIN values
    <2>1. found = {1}
        BY <1>1, <1>2
    <2>2. Min(found) = 1
        BY <2>1, FirstPlace
    <2>3. found # {}
        BY <2>1
    <2> QED BY <1>1, <1>2, <2>2, <2>3 DEF intFromAny
<1>3. CASE key \notin DOMAIN values
    <2>1. found = {}
        BY <1>1, <1>3
    <2> QED BY <1>3, <2>1 DEF intFromAny
<1> QED BY <1>2, <1>3

\* All counts under some of these keys (CountsUnder of the chat stream).
Under(values, keys) == {values[key] : key \in DOMAIN values \cap ToSet(keys)}

\* intFromAnyPositive finds nothing if all counts are zero, and otherwise one that is not.
LEMMA PositiveFound ==
    ASSUME NEW values, IsCounts(values), NEW keys, DOMAIN keys \subseteq Nat
    PROVE  \/ intFromAnyPositive(values, keys) = 0 /\ Under(values, keys) \subseteq {0}
           \/ /\ intFromAnyPositive(values, keys) \in Nat \ {0}
              /\ intFromAnyPositive(values, keys) \in Under(values, keys)
<1> DEFINE Count(i) == intFromAny(values, <<keys[i]>>)
           counting == {i \in DOMAIN keys : Count(i) > 0}
<1>1. ASSUME NEW i \in DOMAIN keys
      PROVE  /\ Count(i) = IF keys[i] \in DOMAIN values THEN values[keys[i]] ELSE 0
             /\ Count(i) \in Nat
    BY OneKey DEF IsCounts
<1>2. intFromAnyPositive(values, keys) = IF counting = {} THEN 0 ELSE Count(Min(counting))
    BY DEF intFromAnyPositive
<1>3. \A i \in DOMAIN keys : keys[i] \in ToSet(keys)
    BY DEF ToSet
<1>4. \A key \in ToSet(keys) : \E i \in DOMAIN keys : keys[i] = key
    BY DEF ToSet
<1>5. counting \in SUBSET Nat
    OBVIOUS
<1>6. CASE counting = {}
    <2>1. ASSUME NEW i \in DOMAIN keys, keys[i] \in DOMAIN values PROVE values[keys[i]] = 0
        <3>1. ~(Count(i) > 0)
            BY <1>6
        <3> HIDE DEF Count
        <3> QED BY <1>1, <2>1, <3>1
    <2>2. Under(values, keys) \subseteq {0}
        BY <1>4, <2>1 DEF Under
    <2> QED BY <1>2, <1>6, <2>2
<1>7. CASE counting # {}
    <2>1. Min(counting) \in counting
        BY <1>5, <1>7, FirstPlace
    <2> DEFINE first == Min(counting)
    <2>2. first \in DOMAIN keys /\ Count(first) > 0
        BY <2>1
    <2>3. intFromAnyPositive(values, keys) = Count(first)
        BY <1>2, <1>7
    <2> HIDE DEF first, Count, counting
    <2>4. Count(first) \in Nat \ {0}
        BY <1>1, <2>2
    <2>5. keys[first] \in DOMAIN values /\ Count(first) = values[keys[first]]
        BY <1>1, <2>2
    <2> QED BY <1>3, <2>2, <2>3, <2>4, <2>5 DEF Under
<1> QED BY <1>6, <1>7

\* A usage object whose counts are numbers and whose details stand where they are sought.
IsUsage(usage) ==
    /\ IsCounts(usage.flat)
    /\ DOMAIN usage.nested \subseteq ToSet(cacheDetailContainers)
    /\ \A container \in DOMAIN usage.nested : IsCounts(usage.nested[container])

LEMMA UsagesCount == \A usage \in Usages \cup {NoUsage} : IsUsage(usage)
<1>1. IsUsage(NoUsage)
    BY DEF IsUsage, IsCounts, NoUsage
<1>2. ASSUME NEW usage \in Usages PROVE IsUsage(usage)
    BY UsagesAssumption DEF IsUsage, IsCounts
<1> QED BY <1>1, <1>2

\* The counts the details of a usage object have under these keys.
NestedUnder(usage, keys) ==
    UNION {Under(usage.nested[container], keys) : container \in DOMAIN usage.nested}

LEMMA ContainerFound ==
    ASSUME NEW usage, IsUsage(usage), NEW keys, DOMAIN keys \subseteq Nat
    PROVE  \/ intFromContainers(usage, keys) = 0 /\ NestedUnder(usage, keys) \subseteq {0}
           \/ /\ intFromContainers(usage, keys) \in Nat \ {0}
              /\ intFromContainers(usage, keys) \in NestedUnder(usage, keys)
<1> DEFINE containers == cacheDetailContainers
           Count(i) == intFromAnyPositive(usage.nested[containers[i]], keys)
           counting == {i \in DOMAIN containers :
                           containers[i] \in DOMAIN usage.nested /\ Count(i) > 0}
<1>1. ASSUME NEW i \in DOMAIN containers, containers[i] \in DOMAIN usage.nested
      PROVE  \/ Count(i) = 0 /\ Under(usage.nested[containers[i]], keys) \subseteq {0}
             \/ /\ Count(i) \in Nat \ {0}
                /\ Count(i) \in Under(usage.nested[containers[i]], keys)
    <2>1. IsCounts(usage.nested[containers[i]])
        BY <1>1 DEF IsUsage
    <2> HIDE DEF containers
    <2> QED BY <2>1, PositiveFound
<1>2. intFromContainers(usage, keys) = IF counting = {} THEN 0 ELSE Count(Min(counting))
    BY DEF intFromContainers
<1>3. \A container \in DOMAIN usage.nested : \E i \in DOMAIN containers :
         containers[i] = container
    BY DEF IsUsage, ToSet
<1>4. counting \in SUBSET Nat
    BY DEF cacheDetailContainers
<1> HIDE DEF containers, Count
<1>5. CASE counting = {}
    <2>1. ASSUME NEW container \in DOMAIN usage.nested
          PROVE  Under(usage.nested[container], keys) \subseteq {0}
        <3>1. PICK i \in DOMAIN containers : containers[i] = container
            BY <1>3
        <3>2. ~(Count(i) > 0)
            BY <1>5, <3>1
        <3>3. containers[i] \in DOMAIN usage.nested
            BY <3>1
        <3>4. \/ Under(usage.nested[containers[i]], keys) \subseteq {0}
              \/ Count(i) \in Nat \ {0}
            BY <1>1, <3>3, Zenon
        <3>5. Count(i) \notin Nat \ {0}
            BY <3>2
        <3> QED BY <3>1, <3>4, <3>5, Zenon
    <2>2. NestedUnder(usage, keys) \subseteq {0}
        BY <2>1 DEF NestedUnder
    <2> QED BY <1>2, <1>5, <2>2
<1>6. CASE counting # {}
    <2>1. Min(counting) \in counting
        BY <1>4, <1>6, FirstPlace
    <2> DEFINE first == Min(counting)
    <2>2. /\ first \in DOMAIN containers /\ Count(first) > 0
          /\ containers[first] \in DOMAIN usage.nested
        BY <2>1
    <2>3. intFromContainers(usage, keys) = Count(first)
        BY <1>2, <1>6
    <2> HIDE DEF first, counting
    <2>4. /\ Count(first) \in Nat \ {0}
          /\ Count(first) \in Under(usage.nested[containers[first]], keys)
        BY <1>1, <2>2
    <2> QED BY <2>2, <2>3, <2>4 DEF NestedUnder
<1> QED BY <1>5, <1>6

\* The lists of spellings a count is looked for under.
LEMMA KeyLists ==
    /\ DOMAIN NestedReadKeys \subseteq Nat /\ DOMAIN FlatReadKeys \subseteq Nat
    /\ \A a, b : DOMAIN <<a, b>> \subseteq Nat
    /\ \A a, b, c, d : DOMAIN <<a, b, c, d>> \subseteq Nat
BY DEF NestedReadKeys, FlatReadKeys

\* Cache hits are reported if the upstream counted any, and none are made up.
LEMMA CachedFound ==
    ASSUME NEW usage, IsUsage(usage)
    PROVE  LET hits == Under(usage.flat, FlatReadKeys) \cup NestedUnder(usage, NestedReadKeys)
           IN /\ cachedInputTokens(usage) \in Nat
              /\ IF hits \subseteq {0} THEN cachedInputTokens(usage) = 0
                 ELSE cachedInputTokens(usage) \in hits \ {0}
<1> DEFINE nested == intFromContainers(usage, NestedReadKeys)
           flat == intFromAnyPositive(usage.flat, FlatReadKeys)
           inside == NestedUnder(usage, NestedReadKeys)
           outside == Under(usage.flat, FlatReadKeys)
<1>1. \/ nested = 0 /\ inside \subseteq {0}
      \/ nested \in Nat \ {0} /\ nested \in inside
    BY ContainerFound, KeyLists
<1>2. \/ flat = 0 /\ outside \subseteq {0}
      \/ flat \in Nat \ {0} /\ flat \in outside
    BY PositiveFound, KeyLists DEF IsUsage
<1>3. cachedInputTokens(usage) = IF nested > 0 THEN nested ELSE flat
    BY DEF cachedInputTokens
<1> HIDE DEF nested, flat, inside, outside
<1>4. CASE nested = 0 /\ inside \subseteq {0}
    <2>1. cachedInputTokens(usage) = flat
        BY <1>3, <1>4
    <2> QED BY <1>2, <1>4, <2>1 DEF inside, outside
<1>5. CASE nested \in Nat \ {0} /\ nested \in inside
    <2>1. cachedInputTokens(usage) = nested
        BY <1>3, <1>5
    <2> QED BY <1>5, <2>1 DEF inside, outside
<1> QED BY <1>1, <1>4, <1>5

\* What a client is told are numbers, for any upstream usage and any text.
LEMMA PayloadTyped ==
    ASSUME NEW usage, IsUsage(usage), NEW bytes \in Nat
    PROVE  usagePayload(usage, bytes)
              \in [prompt : Nat, completion : Nat, total : Nat, cached : Nat, created : Nat]
<1> DEFINE prompt == intFromAny(usage.flat, <<"inputTokens", "input_tokens",
                                               "promptTokens", "prompt_tokens">>)
           counted == intFromAny(usage.flat, <<"outputTokens", "output_tokens",
                                               "completionTokens", "completion_tokens">>)
           total == intFromAny(usage.flat, <<"totalTokens", "total_tokens">>)
           completion == IF counted = 0 /\ bytes > 0 THEN bytes \div 4 + 1 ELSE counted
           sum == IF prompt = 0 /\ completion = 0 THEN 0
                  ELSE IF total = 0 THEN prompt + completion ELSE total
           cached == cachedInputTokens(usage)
           created == cacheCreationInputTokens(usage)
<1>1. IsCounts(usage.flat)
    BY DEF IsUsage
<1>2. prompt \in Nat /\ counted \in Nat /\ total \in Nat
    BY <1>1, FoundIsNat, KeyLists
<1>3. created \in Nat
    <2> DEFINE keys == <<"cacheCreationTokens", "cache_creation_tokens",
                         "cacheWriteTokens", "cache_write_tokens">>
               nested == intFromContainers(usage, keys)
               flat == intFromAny(usage.flat, <<"cacheCreationTokens", "cache_creation_tokens",
                            "cacheCreationInputTokens", "cache_creation_input_tokens">>)
    <2>1. nested \in Nat
        <3>1. DOMAIN keys \subseteq Nat
            BY KeyLists
        <3> HIDE DEF keys
        <3> QED BY <3>1, ContainerFound
    <2>2. flat \in Nat
        BY <1>1, FoundIsNat, KeyLists
    <2>3. created = IF nested > 0 THEN nested ELSE flat
        BY DEF cacheCreationInputTokens
    <2> HIDE DEF nested, flat, created
    <2> QED BY <2>1, <2>2, <2>3
<1>4. cached \in Nat
    BY CachedFound
<1>5. completion \in Nat
    <2>1. bytes \div 4 + 1 \in Nat
        OBVIOUS
    <2> HIDE DEF counted
    <2> QED BY <1>2, <2>1
<1>6. sum \in Nat
    <2> HIDE DEF prompt, total, completion
    <2> QED BY <1>2, <1>5
<1>7. usagePayload(usage, bytes) = [prompt |-> prompt, completion |-> completion,
                                    total |-> sum, cached |-> cached, created |-> created]
    BY DEF usagePayload
<1> HIDE DEF prompt, counted, total, completion, sum, cached, created
<1> QED BY <1>2, <1>3, <1>4, <1>5, <1>6, <1>7

\* The text of an answer changes what a client is told only where the upstream counted no
\* output: the estimate is of the completion, never of the rest.
LEMMA OnlyOutputIsEstimated ==
    ASSUME NEW usage, IsUsage(usage), NEW bytes \in Nat
    PROVE  LET told == usagePayload(usage, 0)
               whole == usagePayload(usage, bytes)
           IN \/ told = whole
              \/ /\ bytes > 0 /\ told.completion = 0
                 /\ told.prompt = whole.prompt
                 /\ told.cached = whole.cached /\ told.created = whole.created
<1> DEFINE prompt == intFromAny(usage.flat, <<"inputTokens", "input_tokens",
                                               "promptTokens", "prompt_tokens">>)
           counted == intFromAny(usage.flat, <<"outputTokens", "output_tokens",
                                               "completionTokens", "completion_tokens">>)
           total == intFromAny(usage.flat, <<"totalTokens", "total_tokens">>)
           completion(n) == IF counted = 0 /\ n > 0 THEN n \div 4 + 1 ELSE counted
           sum(n) == IF prompt = 0 /\ completion(n) = 0 THEN 0
                     ELSE IF total = 0 THEN prompt + completion(n) ELSE total
           cached == cachedInputTokens(usage)
           created == cacheCreationInputTokens(usage)
<1>1. ASSUME NEW n \in Nat
      PROVE  usagePayload(usage, n) = [prompt |-> prompt, completion |-> completion(n),
                                       total |-> sum(n), cached |-> cached,
                                       created |-> created]
    BY DEF usagePayload
<1>2. completion(0) = counted
    OBVIOUS
<1>3. CASE counted = 0 /\ bytes > 0
    <2>1. completion(0) = 0
        BY <1>2, <1>3
    <2> HIDE DEF prompt, counted, completion, sum, cached, created
    <2>2. /\ usagePayload(usage, 0).completion = 0
          /\ \A n \in Nat : /\ usagePayload(usage, n).prompt = prompt
                            /\ usagePayload(usage, n).cached = cached
                            /\ usagePayload(usage, n).created = created
        BY <1>1, <2>1
    <2> QED BY <1>3, <2>2
<1>4. CASE ~(counted = 0 /\ bytes > 0)
    <2>1. completion(bytes) = counted
        BY <1>4
    <2>2. sum(bytes) = sum(0)
        BY <1>2, <2>1
    <2> HIDE DEF prompt, counted, completion, sum, cached, created
    <2>3. usagePayload(usage, bytes) = usagePayload(usage, 0)
        BY <1>1, <1>2, <2>1, <2>2
    <2> QED BY <2>3
<1> QED BY <1>3, <1>4
=============================================================================
