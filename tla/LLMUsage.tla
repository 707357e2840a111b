------------------------------ MODULE LLMUsage ------------------------------
(***************************************************************************)
(* What a run writes about its calls once they have ended:                 *)
(* build_usage_summary of infra/llm_usage.py (usage_summary.json) and the  *)
(* summaries of LLMCallCollector (diagnostics.json), over the events the   *)
(* calls of LLMRouter have logged.                                         *)
(*                                                                         *)
(* Abstracted: a number of tokens is a number of answers whose tokens are  *)
(* counted, a cost the same for the models that have prices; times, hence  *)
(* the slowest call, and the order of the events of two calls are left     *)
(* out.                                                                    *)
(***************************************************************************)
EXTENDS LLMRouter, FiniteSetsExt, Functions

CONSTANTS Priced,           \* models with both prices in configs/llm_pricing.yaml
          TimelineLimit     \* limit of retry_timeline

ASSUME LLMUsageAssumption == IsFiniteSet(Calls) /\ TimelineLimit \in Nat

-----------------------------------------------------------------------------
Events == UNION {{[call |-> c, log |-> log[c][i], at |-> i] : i \in DOMAIN log[c]} : c \in Calls}
Of(event) == {e \in Events : e.log.event = event}

RetryErrors == {e \in Of("error") : e.log.class \in Retryable}

\* _usage_from_event has something to return.
WithUsage == {e \in Of("done") : e.log.usage # {}}

\* Mutant: what has started is not looked at.
TotalOfResults == Cardinality(Of("done")) + Cardinality(Of("error"))

TotalCalls == IF Of("start") # {} THEN Cardinality(Of("start"))
              ELSE Cardinality(Of("done")) + Cardinality(Of("error"))

Tokens(events) == MapThenSumSet(LAMBDA e : Cardinality(e.log.usage), events)

\* estimate_call_cost finds both prices.
PricedOf(events) == {e \in events : e.log.model \in Priced}

\* _add_group and _add_prompt_group for the calls of each key.
Groups(key) ==
    [k \in {key[e] : e \in WithUsage} |->
        LET events == {e \in WithUsage : key[e] = k} IN
        [calls |-> Cardinality(events), tokens |-> Tokens(events),
         cost |-> Tokens(PricedOf(events)), models |-> {e.log.model : e \in events}]]

build_usage_summary ==
    [total_calls      |-> TotalCalls,
     successful_calls |-> Cardinality(Of("done")),
     error_calls      |-> Cardinality(Of("error")),
     fallback_count   |-> Cardinality(Of("fallback")),
     retry_error_count |-> Cardinality(RetryErrors),
     missing_usage_count |-> Cardinality(Of("done") \ WithUsage),
     missing_pricing_count |-> Cardinality(WithUsage \ PricedOf(WithUsage)),
     known_usage      |-> Of("done") # {} /\ Of("done") = WithUsage,
     tokens           |-> Tokens(WithUsage),
     cost             |-> Tokens(PricedOf(WithUsage)),
     by_provider      |-> Groups([e \in WithUsage |-> ProviderOf(e.log.model)]),
     by_model         |-> Groups([e \in WithUsage |-> e.log.model]),
     by_prompt        |-> Groups([e \in WithUsage |-> Prompt[e.call]])]

\* summary, attempt_summary and retry_timeline.
Collected ==
    LET retries == Of("error") \cup Of("fallback")
        class(e) == e.log.class
    IN [call_count     |-> Cardinality(Of("start")),
        error_count    |-> Cardinality(Of("error")),
        fallback_count |-> Cardinality(Of("fallback")),
        retry_error_count |-> Cardinality(RetryErrors),
        error_type_counts |-> [t \in {class(e) : e \in Of("error")} |->
                                  Cardinality({e \in Of("error") : class(e) = t})],
        timeline       |-> Cardinality(retries),
        truncated_count |-> IF Cardinality(retries) > TimelineLimit
                            THEN Cardinality(retries) - TimelineLimit ELSE 0]

-----------------------------------------------------------------------------
(* Properties.                                                             *)

CallsOf(groups) == SumFunction([k \in DOMAIN groups |-> groups[k].calls])

\* The two documents of a run tell one story.  Every attempt that was started
\* succeeded or failed once, an attempt refused for want of a provider counts
\* only as an error, and what was started beyond one attempt per call is what
\* the retries and the fallbacks account for; the groups split the calls whose
\* usage is known, and the usage of a run is known only if every provider that
\* answered reports it.
SummaryAddsUp ==
    (\A c \in Calls : Ended(c)) =>
        LET s == build_usage_summary
            refused == {e \in Of("error") : e.log.class = "ConfigurationError"}
            retried == {e \in Of("error") : e.log.action = "retry_same_model"}
            begun == {c \in Calls : log[c] # << >>}
        IN
        /\ s.total_calls = s.successful_calls + s.error_calls
                             - (IF Collected.call_count = 0 THEN 0 ELSE Cardinality(refused))
        /\ Collected.call_count + Cardinality(refused)
               = Cardinality(begun) + s.fallback_count + Cardinality(retried)
        /\ s.successful_calls = Cardinality({c \in Calls : call[c].pc = "returned"})
        /\ \A groups \in {s.by_provider, s.by_model, s.by_prompt} :
              CallsOf(groups) + s.missing_usage_count = s.successful_calls
        /\ s.known_usage => \A e \in Of("done") : ProviderOf(e.log.model) \in Reporting
        /\ SumFunction(Collected.error_type_counts) = s.error_calls
=============================================================================
