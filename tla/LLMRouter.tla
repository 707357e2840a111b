------------------------------ MODULE LLMRouter ------------------------------
(***************************************************************************)
(* LLMRouter of infra/llm_router.py over OpenAICompatibleLLMClient of      *)
(* infra/llm.py: calls made by the node threads of the runs in a server    *)
(* process, which share one router, its clients and each client's          *)
(* last_usage.                                                             *)
(*                                                                         *)
(* Abstracted: prompts, options, answers and token counts.  An answer is   *)
(* identified by the request it answers, and a usage is the set of answers *)
(* whose tokens it counts; providers report it with every answer.  Waiting *)
(* before a retry is left out.                                             *)
(***************************************************************************)
EXTENDS LLMConfig

CONSTANTS Calls,        \* calls of complete_json, each in a thread of its own
          ConfigFiles,  \* what configs/llm.yaml may hold
          ModelIds,     \* the names it may use for models
          Prompt,       \* per call: prompt_name, and model of the prompt file
          ModelArg,
          Reporting     \* providers that report usage with their answers

Providers == UNION {DOMAIN file.providers : file \in ConfigFiles}
Models == UNION {DOMAIN file.models : file \in ConfigFiles}

ASSUME LLMRouterAssumption ==
    /\ \A file \in ConfigFiles :
          /\ \A m \in DOMAIN file.models : /\ file.models[m].max_attempts \in Int
                                          /\ file.models[m].fallback_models \in Seq(ModelIds)
          /\ \A n \in DOMAIN file.nodes : /\ file.nodes[n].max_attempts \in Int
                                         /\ file.nodes[n].fallback_models \in Seq(ModelIds)
    /\ Reporting \subseteq Providers
    /\ None \notin Calls

VARIABLES
    config,     \* the configuration loaded when the process started
    configured, \* providers whose base_url and api_key are in the environment
    clients,    \* _clients: who made the client registered for each provider
    last_usage, \* last_usage of each client made
    call,       \* where each call is
    log,        \* the events of each call, in the collector of the run
    errors      \* model_output_errors of the collector

vars == <<config, configured, clients, last_usage, call, log, errors>>

Retryable == {"ProviderTransientError", "ModelOutputParseError",
              "ModelOutputValidationError"}

\* Clients are told apart by the provider they talk to and who made them.
Client == Providers \X Calls
Answer == [call : Calls, model : Models, attempt : Nat, repair : BOOLEAN]

ProviderOf(m) == config.models[m].provider
Chain(c) == ChainFor(config, Prompt[c], ModelArg[c])

-----------------------------------------------------------------------------
Pc == {"begin", "resolve", "create", "post", "repair", "validate", "done", "returned", "raised"}

Classes == Retryable \cup {"ProviderFatalError", "ConfigurationError"}
Actions == {"retry_same_model", "fallback_model", "exhausted", "raise_configuration_error"}

ErrorKind == {"parse_error", "validation_error"}
ErrorRef == [kind : ErrorKind, index : Nat]
ModelOutputError == [kind : ErrorKind, index : Nat, call : Calls]

Asked == [event : {"start", "fallback"}, model : Models]
Failed == [event : {"error"}, model : Models, class : Classes, action : Actions,
           ref : ErrorRef \cup {None}]
Answered == [event : {"done"}, model : Models, usage : SUBSET Answer]
Event == Asked \cup Failed \cup Answered

Route == [model : Models, attempts : Nat \ {0}]
CallState == [pc : Pc, routes : Seq(Route), route : Nat, attempt : Nat,
              client : Client \cup {None}, spent : SUBSET Answer]

TypeOK ==
    /\ \E file \in ConfigFiles : Loads(file) /\ config = Loaded(file)
    /\ configured \subseteq Providers
    /\ clients \in [Providers -> Calls \cup {None}]
    /\ last_usage \in [Client -> SUBSET Answer]
    /\ call \in [Calls -> CallState]
    /\ \A c \in Calls : call[c].pc \notin {"begin", "raised"} =>
          /\ call[c].route \in DOMAIN call[c].routes
          /\ call[c].attempt \in 1..call[c].routes[call[c].route].attempts
    /\ log \in [Calls -> Seq(Event)]
    /\ errors \in Seq(ModelOutputError)

\* A file that is refused leaves no router, hence no calls.
Init ==
    /\ \E file \in ConfigFiles : Loads(file) /\ config = Loaded(file)
    /\ configured \in SUBSET Providers
    /\ clients = [p \in Providers |-> None]
    /\ last_usage = [u \in Client |-> {}]
    /\ call = [c \in Calls |->
          [pc |-> "begin", routes |-> << >>, route |-> 1, attempt |-> 1,
           client |-> None, spent |-> {}]]
    /\ log = [c \in Calls |-> << >>]
    /\ errors = << >>

-----------------------------------------------------------------------------
Model(c) == call[c].routes[call[c].route].model
Started(c) == [event |-> "start", model |-> Model(c)]

\* One attempt at a route begins with nothing spent.
Attempt(before, route, attempt) ==
    [before EXCEPT !.pc = "resolve", !.route = route, !.attempt = attempt,
                   !.client = None, !.spent = {}]

Goto(c, pc) == call' = [call EXCEPT ![c].pc = pc]

\* _routes_for: a chain with a model that is not registered is refused, outside
\* of what the router catches and logs.
BeginCall(c) ==
    /\ call[c].pc = "begin"
    /\ \/ /\ Routable(config, Chain(c))
          /\ call' = [call EXCEPT ![c] =
                Attempt([@ EXCEPT !.routes = RoutesOf(Chain(c))], 1, 1)]
       \/ /\ ~Routable(config, Chain(c))
          /\ Goto(c, "raised")
    /\ UNCHANGED <<config, configured, clients, last_usage, log, errors>>

-----------------------------------------------------------------------------
(* What the router does about an error.                                    *)

LastAttempt(c) == call[c].attempt = call[c].routes[call[c].route].attempts
LastRoute(c) == call[c].route = Len(call[c].routes)

NextActionForgetsRoutes(c, class) ==    \* mutant: off by one at the last route
    CASE class = "ConfigurationError" -> "raise_configuration_error"
      [] class \in Retryable /\ ~LastAttempt(c) -> "retry_same_model"
      [] OTHER -> "fallback_model"

\* _next_action: what the error event says the router will do.
NextAction(c, class) ==
    CASE class = "ConfigurationError" -> "raise_configuration_error"
      [] class \in Retryable /\ ~LastAttempt(c) -> "retry_same_model"
      [] OTHER -> IF LastRoute(c) THEN "exhausted" ELSE "fallback_model"

AgainWhateverFailed(c, class) == ~LastAttempt(c)    \* mutant: no break on a fatal error

AgainOnceMore(c, class) ==          \* mutant: off by one
    class \in Retryable /\ call[c].attempt <= call[c].routes[call[c].route].attempts

\* The loop over attempts goes on.
Again(c, class) == class \in Retryable /\ ~LastAttempt(c)

\* The errors for which the model's output is kept, and what it is kept as.
KeepsOutput(class) == class \in {"ModelOutputParseError", "ModelOutputValidationError"}

KindOf(class) == IF class = "ModelOutputParseError" THEN "parse_error" ELSE "validation_error"

IndexOfCall(c, kind) ==     \* mutant: each thread numbers its own errors
    1 + Cardinality({i \in DOMAIN errors : errors[i].kind = kind /\ errors[i].call = c})

\* The number in the name of the next file of a kind, of any call of the run.
Index(c, kind) == 1 + Cardinality({i \in DOMAIN errors : errors[i].kind = kind})

\* append_model_output_error names the file; the error event carries the name.
Ref(c, class) == IF ~KeepsOutput(class) THEN None
                 ELSE [kind |-> KindOf(class), index |-> Index(c, KindOf(class))]

RecordModelOutputError(c, class) ==
    errors' = IF ~KeepsOutput(class) THEN errors
              ELSE Append(errors, [kind |-> KindOf(class),
                                   index |-> Index(c, KindOf(class)), call |-> c])

\* The except clause of _complete_with_fallback, and what its loops do next.
\* What is raised at the end is of the class of the last error.
HandleError(c, class) ==
    LET i == call[c].route
        error == [event |-> "error", model |-> Model(c), class |-> class,
                  action |-> NextAction(c, class), ref |-> Ref(c, class)]
        passes == class # "ConfigurationError" /\ ~Again(c, class)
    IN
    /\ RecordModelOutputError(c, class)
    /\ \/ /\ Again(c, class)
          /\ call' = [call EXCEPT ![c] = Attempt(@, i, call[c].attempt + 1)]
          /\ log' = [log EXCEPT ![c] = Append(@, error)]
       \/ /\ passes /\ ~LastRoute(c)
          /\ call' = [call EXCEPT ![c] = Attempt(@, i + 1, 1)]
          /\ log' = [log EXCEPT ![c] = @ \o
                <<error, [event |-> "fallback", model |-> call[c].routes[i + 1].model]>>]
       \/ /\ class = "ConfigurationError" \/ (passes /\ LastRoute(c))
          /\ Goto(c, "raised")
          /\ log' = [log EXCEPT ![c] = Append(@, error)]

-----------------------------------------------------------------------------
(* _resolve and _client_for.                                               *)

\* A registered client is used; otherwise the environment must name the
\* provider, or the attempt fails before its start is logged.
Resolve(c) ==
    LET p == ProviderOf(Model(c)) IN
    /\ call[c].pc = "resolve"
    /\ \/ /\ clients[p] # None
          /\ call' = [call EXCEPT ![c].pc = "post", ![c].client = <<p, clients[p]>>]
          /\ log' = [log EXCEPT ![c] = Append(@, Started(c))]
          /\ UNCHANGED errors
       \/ /\ clients[p] = None /\ p \in configured
          /\ Goto(c, "create")
          /\ UNCHANGED <<log, errors>>
       \/ /\ clients[p] = None /\ p \notin configured
          /\ HandleError(c, "ConfigurationError")
    /\ UNCHANGED <<config, configured, clients, last_usage>>

\* The new client is registered; another thread may have done so meanwhile.
CreateClient(c) ==
    LET p == ProviderOf(Model(c)) IN
    /\ call[c].pc = "create"
    /\ clients' = [clients EXCEPT ![p] = c]
    /\ call' = [call EXCEPT ![c].pc = "post", ![c].client = <<p, c>>]
    /\ log' = [log EXCEPT ![c] = Append(@, Started(c))]
    /\ UNCHANGED <<config, configured, last_usage, errors>>

-----------------------------------------------------------------------------
(* OpenAICompatibleLLMClient.complete_json.                                *)

\* _usage_from_payload: the tokens of an answer, where the provider reports any.
Usage(c, repair) ==
    IF ProviderOf(Model(c)) \notin Reporting THEN {}
    ELSE {[call |-> c, model |-> Model(c), attempt |-> call[c].attempt, repair |-> repair]}

\* The request fails: nothing is known of its usage.
PostFails(c) ==
    /\ call[c].pc \in {"post", "repair"}
    /\ \E class \in {"ProviderTransientError", "ProviderFatalError"} : HandleError(c, class)
    /\ UNCHANGED <<config, configured, clients, last_usage>>

\* An answer comes back.  Its usage replaces the client's last_usage; its
\* content is a JSON object, or needs one repair request, or is missing.
PostAnswered(c) ==
    /\ call[c].pc = "post"
    /\ last_usage' = [last_usage EXCEPT ![call[c].client] = Usage(c, FALSE)]
    /\ \/ /\ \E pc \in {"validate", "repair"} : call' =
                [call EXCEPT ![c].pc = pc, ![c].spent = Usage(c, FALSE)]
          /\ UNCHANGED <<log, errors>>
       \/ HandleError(c, "ProviderTransientError")
    /\ UNCHANGED <<config, configured, clients>>

\* Mutant: the repair's usage replaces that of the request it repairs.
CombinedReplaced(before, after) == after

\* _combine_usage.
Combined(before, after) == before \cup after

\* The repair is answered; the usages are added up in last_usage, whosever the
\* first one is by now.
RepairAnswered(c) ==
    LET usage == last_usage[call[c].client] IN
    /\ call[c].pc = "repair"
    /\ last_usage' = [last_usage EXCEPT
          ![call[c].client] = Combined(usage, Usage(c, TRUE))]
    /\ \/ /\ call' = [call EXCEPT ![c].pc = "validate",
                             ![c].spent = @ \cup Usage(c, TRUE)]
          /\ UNCHANGED <<log, errors>>
       \/ \E class \in {"ModelOutputParseError", "ProviderTransientError"} :
             HandleError(c, class)
    /\ UNCHANGED <<config, configured, clients>>

ValidateAgain(c) ==     \* mutant: the client asks again, which counts no attempt
    /\ call[c].pc = "validate"
    /\ Goto(c, "done") \/ Goto(c, "post")
    /\ UNCHANGED <<config, configured, clients, last_usage, log, errors>>

\* _apply_validator.
Validate(c) ==
    /\ call[c].pc = "validate"
    /\ \/ Goto(c, "done") /\ UNCHANGED <<log, errors>>
       \/ HandleError(c, "ModelOutputValidationError")
    /\ UNCHANGED <<config, configured, clients, last_usage>>

UsageOfAny(c) == UNION {last_usage[u] : u \in Client}   \* mutant: kept by the router

\* _usage_fields_from_client.
UsageOfClient(c) == last_usage[call[c].client]

\* The done event takes its usage from the client, and the call returns.
Done(c) ==
    /\ call[c].pc = "done"
    /\ Goto(c, "returned")
    /\ log' = [log EXCEPT ![c] = Append(@,
          [event |-> "done", model |-> Model(c), usage |-> UsageOfClient(c)])]
    /\ UNCHANGED <<config, configured, clients, last_usage, errors>>

CallStep(c) == \/ BeginCall(c) \/ Resolve(c) \/ CreateClient(c) \/ PostFails(c) \/ PostAnswered(c)
               \/ RepairAnswered(c) \/ Validate(c) \/ Done(c)

Ended(c) == call[c].pc \in {"returned", "raised"}

\* Every call has ended.
AllEnded == (\A c \in Calls : Ended(c)) /\ UNCHANGED vars

Next == (\E c \in Calls : CallStep(c)) \/ AllEnded

\* Requests have a timeout and threads keep running.
Fairness == \A c \in Calls : WF_vars(CallStep(c))

Spec == Init /\ [][Next]_vars /\ Fairness

-----------------------------------------------------------------------------
(* Properties.                                                             *)

Count(c, event, model) ==
    Cardinality({i \in DOMAIN log[c] : log[c][i].event = event /\ log[c][i].model = model})

\* What a call costs is bounded by its node's policy, whatever the providers
\* answer: the primary model is asked max_attempts times, any other once, with
\* one repair for each, and a model listed twice is not asked twice as often.
PolicyBoundsAttempts ==
    \A c \in Calls, m \in Models :
        Count(c, "start", m) <= IF m # Chain(c).primary_model THEN 1
                                ELSE AtLeastOnce(Chain(c).max_attempts)

\* The error event names the action the router then takes: the log of a call
\* can be read without knowing the policy.
LoggedActionIsTaken ==
    \A c \in Calls : \A i \in DOMAIN log[c] :
        log[c][i].event = "error" =>
            LET next == IF i < Len(log[c]) THEN log[c][i + 1] ELSE None
                last == i = Len(log[c])
            IN CASE log[c][i].action = "retry_same_model" ->
                       IF last THEN ~Ended(c) /\ Model(c) = log[c][i].model
                       ELSE next.event \in {"start", "error"} /\ next.model = log[c][i].model
                 [] log[c][i].action = "fallback_model" ->
                       ~last /\ next.event = "fallback" /\ next.model # log[c][i].model
                 [] OTHER -> last /\ call[c].pc = "raised"

\* A model that answered "no such key or model" is not asked again, and a
\* provider that is not configured ends the call.
FatalIsFinal ==
    \A c \in Calls : \A i, k \in DOMAIN log[c] :
        i < k /\ log[c][i].event = "error" =>
            /\ log[c][i].class # "ConfigurationError"
            /\ log[c][i].class = "ProviderFatalError" => log[c][k].event # "start"
                                                 \/ log[c][k].model # log[c][i].model

\* A call fails for want of an answer only after every model of its chain has
\* been asked and has failed.
RaisesOnlyWhenExhausted ==
    \A c \in Calls : call[c].pc = "raised" =>
        \/ ~Routable(config, Chain(c))
        \/ log[c][Len(log[c])].class = "ConfigurationError"
        \/ \A m \in ChainModels(Chain(c)) :
              Count(c, "start", m) >= 1 /\ Count(c, "error", m) = Count(c, "start", m)

\* The usage in a done event includes the answer that is returned and its
\* repair, or has been replaced by another answer of the same provider: tokens
\* are never charged to a provider that did not spend them.
UsageStaysWithProvider ==
    \A c \in Calls : \A i \in DOMAIN log[c] :
        log[c][i].event = "done" =>
            /\ log[c][i].usage = {} <=> ProviderOf(log[c][i].model) \notin Reporting
            /\ \A a \in log[c][i].usage : ProviderOf(a.model) = ProviderOf(log[c][i].model)

\* While no other call uses the same client, the usage is that of the answer.
UsageIsOwnWhenAlone ==
    \A c \in Calls :
        /\ call[c].pc = "returned"
        /\ \A d \in Calls \ {c} : \A i \in DOMAIN log[d] :
              ProviderOf(log[d][i].model) # ProviderOf(Model(c))
        => log[c][Len(log[c])].usage = call[c].spent

\* The file an error event names was written for that error, and for no other:
\* the outputs of calls that fail at the same time do not replace each other.
ErrorRefsResolve ==
    \A c \in Calls : \A i \in DOMAIN log[c] :
        log[c][i].event = "error" /\ log[c][i].ref # None =>
            LET named == {k \in DOMAIN errors : [kind |-> errors[k].kind,
                                                 index |-> errors[k].index] = log[c][i].ref}
            IN Cardinality(named) = 1 /\ \A k \in named : errors[k].call = c

\* A configuration that was accepted can serve every node it names: a call with
\* a node entry is tried before it fails, and leaves events that tell why.
RoutedCallsAreTried ==
    \A c \in Calls :
        Ended(c) /\ Prompt[c] \in DOMAIN config.nodes => log[c] # << >>

\* Every call returns or raises.
CallsEnd == \A c \in Calls : <>Ended(c)

-----------------------------------------------------------------------------
\* What the tests and the documents say of usage: the done event of a call
\* records the usage of the answer it got.
UsageIsOwn ==
    \A c \in Calls :
        call[c].pc = "returned" => log[c][Len(log[c])].usage = call[c].spent
=============================================================================
