--------------------------- MODULE UpstreamEvents ---------------------------
(***************************************************************************)
(* What callUpstream (src/impl.go) makes of the event lines of one         *)
(* upstream answer.  The result counts text and reasoning deltas and tool  *)
(* calls; what they say is left out.  Lines that callUpstream skips (blank *)
(* and comment lines, other event types, empty deltas, calls the provider  *)
(* executed itself, text that is not JSON) are not events here.            *)
(*                                                                         *)
(* Usages is a set of usage objects a finish event may carry; an event     *)
(* without one carries NoUsage.                                            *)
(***************************************************************************)
EXTENDS UsageCounters

CONSTANT Usages

\* Counts are not negative, and details stand in the containers the provider looks into.
ASSUME UsagesAssumption ==
    \A usage \in Usages :
        /\ \A key \in DOMAIN usage.flat : usage.flat[key] \in Nat
        /\ DOMAIN usage.nested \subseteq ToSet(cacheDetailContainers)
        /\ \A container \in DOMAIN usage.nested : \A key \in DOMAIN usage.nested[container] :
              usage.nested[container][key] \in Nat

\* Finish reasons as the provider spells them; "" is a finish event without one.
UpstreamReasons == {"", "stop", "end_turn", "length", "max_tokens", "tool_use",
                    "content_filter", "other"}
Reasons == {"stop", "length", "tool_calls", "content_filter"}

mapFinishReason(value) ==
    CASE value \in {"length", "max_tokens"} -> "length"
      [] value \in {"tool_use", "tool_calls"} -> "tool_calls"
      [] value = "content_filter" -> "content_filter"
      [] OTHER -> "stop"

Events == [type : {"text-delta", "reasoning-delta", "tool-call"}] 
          \cup [type : {"finish"}, reason : UpstreamReasons, usage : Usages \cup {NoUsage}]

NoResult == [text |-> 0, reasoning |-> 0, tools |-> 0, finish |-> "", usage |-> NoUsage]
Result == [text : Nat, reasoning : Nat, tools : Nat, finish : Reasons \cup {""},
           usage : Usages \cup {NoUsage}]

\* The result after one more event.  A finish event replaces what it has a value for.
Absorb(result, event) ==
    CASE event.type = "text-delta"      -> [result EXCEPT !.text = @ + 1]
      [] event.type = "reasoning-delta" -> [result EXCEPT !.reasoning = @ + 1]
      [] event.type = "tool-call"       -> [result EXCEPT !.tools = @ + 1]
      [] event.type = "finish"          ->
            [result EXCEPT
                !.finish = IF event.reason = "" THEN @ ELSE mapFinishReason(event.reason),
                !.usage  = IF event.usage = NoUsage THEN @ ELSE event.usage]

\* What callUpstream returns once the answer has ended well ([DONE] or end of stream).
Returned(result) ==
    IF result.tools > 0 THEN [result EXCEPT !.finish = "tool_calls"] ELSE result
=============================================================================
