--------------------------- MODULE LLMRouterProofs ---------------------------
(***************************************************************************)
(* Proofs about LLMRouter, for any number of calls, models and providers   *)
(* and any configuration that is accepted.                                 *)
(*                                                                         *)
(* None of the properties is inductive: they speak of the log of a call,   *)
(* and what may be appended to it depends on where the call is.  IInv      *)
(* relates the two.                                                        *)
(***************************************************************************)
EXTENDS LLMRouter, CountingLemmas

-----------------------------------------------------------------------------
(* The routes of a call, for every chain of models: each model of the      *)
(* chain once, with the attempts its place in the chain gives it.          *)

\* The new places of a sequence are some of its places, and where it has an
\* element for the first time is one of them.
LEMMA PlacesAreNew ==
    ASSUME NEW S, NEW s \in Seq(S)
    PROVE  /\ NewPlaces(s) \in SUBSET (1 .. Len(s))
           /\ NewPlaces(s) \in SUBSET Nat
           /\ IsFiniteSet(NewPlaces(s)) /\ Cardinality(NewPlaces(s)) \in Nat
           /\ \A i \in DOMAIN s : \E k \in NewPlaces(s) : s[k] = s[i]
           /\ \A i, k \in NewPlaces(s) : s[i] = s[k] => i = k
<1>1. Len(s) \in Nat /\ DOMAIN s = 1 .. Len(s)
  OBVIOUS
<1>2. NewPlaces(s) \in SUBSET (1 .. Len(s)) /\ NewPlaces(s) \in SUBSET Nat
  BY <1>1 DEF NewPlaces
<1>3. IsFiniteSet(NewPlaces(s)) /\ Cardinality(NewPlaces(s)) \in Nat
  <2>1. IsFiniteSet(1 .. Len(s))
    BY <1>1, FS_Interval
  <2>2. IsFiniteSet(NewPlaces(s))
    BY <1>2, <2>1, FS_Subset
  <2> QED
    BY <2>2, FS_CardinalityType
<1>4. ASSUME NEW i \in DOMAIN s PROVE \E k \in NewPlaces(s) : s[k] = s[i]
  <2> DEFINE same == {k \in DOMAIN s : s[k] = s[i]}
  <2>1. same \in SUBSET Nat /\ i \in same
    BY <1>1
  <2>2. PICK k \in same : \A j \in same : k <= j
    <3> HIDE DEF same
    <3> QED
      BY <2>1, LeastElement
  <2>3. ASSUME NEW j \in 1 .. k - 1 PROVE s[j] # s[k]
    <3>1. k \in 1 .. Len(s) /\ s[k] = s[i]
      BY <1>1
    <3>2. j \in 1 .. Len(s) /\ ~(k <= j)
      BY <1>1, <3>1
    <3>3. j \notin same
      BY <2>2, <3>2
    <3> QED
      BY <1>1, <3>1, <3>2, <3>3
  <2>4. k \in DOMAIN s /\ s[k] = s[i]
    OBVIOUS
  <2> QED
    BY <2>3, <2>4 DEF NewPlaces
<1>5. ASSUME NEW i \in NewPlaces(s), NEW k \in NewPlaces(s), s[i] = s[k]
      PROVE  i = k
  <2>1. i \in Nat \ {0} /\ k \in Nat \ {0}
    BY <1>1, <1>2
  <2>2. i \notin 1 .. k - 1 /\ k \notin 1 .. i - 1
    BY <1>5 DEF NewPlaces
  <2> QED
    BY <2>1, <2>2
<1> QED
  BY <1>2, <1>3, <1>4, <1>5

\* Every element of a finite set of numbers is the n-th one for one n.
LEMMA NthElement ==
    ASSUME NEW S \in SUBSET Nat, IsFiniteSet(S)
    PROVE  /\ \A n \in 1 .. Cardinality(S) : NthOf(S, n) \in S
           /\ \A m, n \in 1 .. Cardinality(S) : NthOf(S, m) = NthOf(S, n) => m = n
           /\ \A i \in S : \E n \in 1 .. Cardinality(S) : NthOf(S, n) = i
<1>0. Cardinality(S) \in Nat
  BY FS_CardinalityType
<1>1. ASSUME NEW n \in 1 .. Cardinality(S)
      PROVE  NthOf(S, n) \in S /\ Cardinality(Below(S, NthOf(S, n))) = n - 1
  <2>1. n - 1 \in 0 .. Cardinality(S) - 1
    BY <1>0
  <2>2. \E i \in S : Cardinality(Below(S, i)) = n - 1
    BY <2>1, EveryRankIsTaken
  <2> QED
    BY <2>2 DEF NthOf, Below
<1>2. ASSUME NEW m \in 1 .. Cardinality(S), NEW n \in 1 .. Cardinality(S),
             NthOf(S, m) = NthOf(S, n)
      PROVE  m = n
  <2>1. m - 1 = n - 1
    BY <1>1, <1>2
  <2> QED
    BY <1>0, <2>1
<1>3. ASSUME NEW i \in S
      PROVE  \E n \in 1 .. Cardinality(S) : NthOf(S, n) = i
  <2> DEFINE rank == Cardinality(Below(S, i))
  <2>1. rank \in 0 .. Cardinality(S) - 1
    BY BelowCounted
  <2> HIDE DEF rank
  <2>2. PICK n \in 1 .. Cardinality(S) : n - 1 = rank
    BY <1>0, <2>1
  <2> DEFINE j == NthOf(S, n)
  <2>3. j \in S /\ Cardinality(Below(S, j)) = n - 1
    BY <1>1
  <2> HIDE DEF j
  <2>4. Cardinality(Below(S, j)) = Cardinality(Below(S, i))
    BY <2>2, <2>3 DEF rank
  <2>5. j = i
    BY <2>3, <2>4, BelowTellsApart
  <2> QED
    BY <2>5 DEF j
<1> QED
  BY <1>1, <1>2, <1>3

\* A call tries the models of its chain, each of them once, and gives the first
\* of them the attempts of the chain, any other one.
THEOREM RoutesAreTheChain ==
    ASSUME NEW S, NEW chain, chain.primary_model \in S,
           chain.fallback_models \in Seq(S), chain.max_attempts \in Int
    PROVE  LET routes == RoutesOf(chain) IN
           /\ routes \in Seq([model : S, attempts : Nat \ {0}])
           /\ Len(routes) >= 1
           /\ {routes[n].model : n \in 1 .. Len(routes)} = ChainModels(chain)
           /\ \A m, n \in 1 .. Len(routes) : routes[m].model = routes[n].model => m = n
           /\ \A n \in 1 .. Len(routes) : routes[n].attempts =
                 IF routes[n].model = chain.primary_model THEN AtLeastOnce(chain.max_attempts)
                 ELSE 1
<1> DEFINE s == ModelsOf(chain)
           kept == NewPlaces(s)
           routes == RoutesOf(chain)
           N == Cardinality(kept)
<1>1. s \in Seq(S) /\ Len(s) \in Nat \ {0} /\ s[1] = chain.primary_model
      /\ DOMAIN s = 1 .. Len(s)
  BY DEF ModelsOf
<1>2. ChainModels(chain) = {s[i] : i \in DOMAIN s}
  BY DEF ChainModels
<1> HIDE DEF s
<1>3. /\ kept \in SUBSET (1 .. Len(s)) /\ kept \in SUBSET Nat /\ IsFiniteSet(kept)
      /\ N \in Nat
      /\ \A i \in DOMAIN s : \E k \in kept : s[k] = s[i]
      /\ \A i, k \in kept : s[i] = s[k] => i = k
  BY <1>1, PlacesAreNew, ZenonT(60)
<1>4. 1 \in kept
  BY <1>1 DEF NewPlaces
<1>5. \A n \in 1 .. N : routes[n] =
         [model |-> s[NthOf(kept, n)], attempts |-> AttemptsAt(chain, NthOf(kept, n))]
  BY DEF RoutesOf, s
<1>6. routes = [n \in 1 .. N |-> routes[n]]
  BY DEF RoutesOf, s
<1> HIDE DEF kept
<1>7. /\ \A n \in 1 .. N : NthOf(kept, n) \in kept
      /\ \A m, n \in 1 .. N : NthOf(kept, m) = NthOf(kept, n) => m = n
      /\ \A i \in kept : \E n \in 1 .. N : NthOf(kept, n) = i
  BY <1>3, NthElement
<1> HIDE DEF routes, N
<1>8. \A n \in 1 .. N : routes[n].model = s[NthOf(kept, n)]
                     /\ routes[n].attempts = AttemptsAt(chain, NthOf(kept, n))
  <2> TAKE n \in 1 .. N
  <2> DEFINE i == NthOf(kept, n)
             r == routes[n]
  <2>1. r = [model |-> s[i], attempts |-> AttemptsAt(chain, i)]
    BY <1>5
  <2> HIDE DEF i, r
  <2>2. r.model = s[i] /\ r.attempts = AttemptsAt(chain, i)
    BY <2>1
  <2> QED
    BY <2>2 DEF i, r
<1>9. AtLeastOnce(chain.max_attempts) \in Nat \ {0}
  BY DEF AtLeastOnce
<1>10. \A n \in 1 .. N : routes[n] \in [model : S, attempts : Nat \ {0}]
  <2> TAKE n \in 1 .. N
  <2> DEFINE a == s[NthOf(kept, n)]
             b == AttemptsAt(chain, NthOf(kept, n))
  <2>1. a \in S
    <3>1. NthOf(kept, n) \in kept
      BY <1>7
    <3>2. NthOf(kept, n) \in 1 .. Len(s)
      BY <1>3, <3>1
    <3> QED
      BY <1>1, <3>2
  <2>2. b \in Nat \ {0}
    BY <1>9 DEF AttemptsAt
  <2>3. routes[n] = [model |-> a, attempts |-> b]
    BY <1>5
  <2> HIDE DEF a, b
  <2> QED
    BY <2>1, <2>2, <2>3
<1>11. routes \in [1 .. N -> [model : S, attempts : Nat \ {0}]]
  BY <1>6, <1>10
<1>12. routes \in Seq([model : S, attempts : Nat \ {0}]) /\ Len(routes) = N
  <2> DEFINE T == [model : S, attempts : Nat \ {0}]
  <2>1. N \in Nat /\ routes \in [1 .. N -> T]
    BY <1>3, <1>11
  <2> HIDE DEF T
  <2>2. routes \in Seq(T) /\ Len(routes) = N
    BY <2>1
  <2> QED
    BY <2>2 DEF T
<1>13. N >= 1
  <2>1. PICK n \in 1 .. N : NthOf(kept, n) = 1
    BY <1>4, <1>7
  <2> QED
    BY <1>3, <2>1
<1>14. {routes[n].model : n \in 1 .. N} = ChainModels(chain)
  <2>1. ASSUME NEW n \in 1 .. N PROVE routes[n].model \in ChainModels(chain)
    <3>1. NthOf(kept, n) \in DOMAIN s
      BY <1>1, <1>3, <1>7
    <3> QED
      BY <1>2, <1>8, <3>1
  <2>2. ASSUME NEW m \in ChainModels(chain) PROVE \E n \in 1 .. N : routes[n].model = m
    <3>1. PICK i \in DOMAIN s : s[i] = m
      BY <1>2
    <3>2. PICK k \in kept : s[k] = m
      BY <1>3, <3>1
    <3>3. PICK n \in 1 .. N : NthOf(kept, n) = k
      BY <1>7
    <3> QED
      BY <1>8, <3>2, <3>3
  <2> QED
    BY <2>1, <2>2
<1>15. \A m, n \in 1 .. N : routes[m].model = routes[n].model => m = n
  <2> TAKE m, n \in 1 .. N
  <2> HAVE routes[m].model = routes[n].model
  <2> DEFINE i == NthOf(kept, m)
             k == NthOf(kept, n)
  <2>1. i \in kept /\ k \in kept /\ s[i] = s[k] /\ (i = k => m = n)
    BY <1>7, <1>8
  <2> HIDE DEF i, k
  <2> QED
    BY <1>3, <2>1
<1>16. \A n \in 1 .. N : routes[n].attempts =
         IF routes[n].model = chain.primary_model THEN AtLeastOnce(chain.max_attempts) ELSE 1
  <2> TAKE n \in 1 .. N
  <2>1. NthOf(kept, n) = 1 <=> routes[n].model = chain.primary_model
    <3> DEFINE i == NthOf(kept, n)
    <3>1. i \in kept /\ routes[n].model = s[i]
      BY <1>7, <1>8
    <3> HIDE DEF i
    <3>2. s[i] = s[1] <=> i = 1
      BY <1>3, <1>4, <3>1
    <3> QED
      BY <1>1, <3>1, <3>2 DEF i
  <2> QED
    BY <1>8, <2>1 DEF AttemptsAt
<1> QED
  BY <1>12, <1>13, <1>14, <1>15, <1>16 DEF routes

-----------------------------------------------------------------------------
(* The inductive invariant.                                                *)

\* A request is under way, or its answer is being looked at.
Asking(c) == call[c].pc \in {"post", "repair", "validate", "done"}

LastEvent(c) == log[c][Len(log[c])]

\* The routes are those of the chain, and the call is at one of them.
FollowsChain(c) ==
    /\ call[c].routes = << >> =>
          /\ call[c].pc \in {"begin", "raised"}
          /\ log[c] = << >>
          /\ call[c].pc = "raised" => ~Routable(config, Chain(c))
    /\ call[c].routes # << >> =>
          /\ call[c].pc # "begin"
          /\ Routable(config, Chain(c))
          /\ call[c].routes = RoutesOf(Chain(c))
          /\ call[c].route \in 1 .. Len(call[c].routes)
          /\ call[c].attempt \in 1 .. call[c].routes[call[c].route].attempts

\* Count, of any log.
CountIn(s, event, model) ==
    Cardinality({i \in DOMAIN s : s[i].event = event /\ s[i].model = model})

\* What is logged of the route at which the call is, and of the other ones.
CountsAt(pc, attempt, last, starts, errs) ==
    /\ pc \in {"resolve", "create"} => starts = attempt - 1 /\ errs = attempt - 1
    /\ pc \in {"post", "repair", "validate", "done", "returned"} =>
          starts = attempt /\ errs = attempt - 1
    /\ pc = "raised" =>
          /\ errs = attempt
          /\ starts = attempt \/ (starts = attempt - 1 /\ last.class = "ConfigurationError")

Counted(c) ==
    /\ \A k \in 1 .. Len(call[c].routes) :
          LET starts == CountIn(log[c], "start", call[c].routes[k].model)
              errs == CountIn(log[c], "error", call[c].routes[k].model)
          IN /\ k < call[c].route => starts \in 1 .. call[c].routes[k].attempts /\ errs = starts
             /\ k = call[c].route =>
                   CountsAt(call[c].pc, call[c].attempt, LastEvent(c), starts, errs)
             /\ call[c].route < k => starts = 0 /\ errs = 0
    /\ \A m \in Models :
          (\A k \in 1 .. Len(call[c].routes) : call[c].routes[k].model # m)
          => CountIn(log[c], "start", m) = 0

\* The last event tells where the call is.
LogTells(c) ==
    /\ Asking(c) => log[c] # << >> /\ LastEvent(c).event = "start" /\ LastEvent(c).model = Model(c)
    /\ call[c].pc = "returned" =>
          log[c] # << >> /\ LastEvent(c).event = "done" /\ LastEvent(c).model = Model(c)
    /\ call[c].pc = "raised" /\ call[c].routes # << >> =>
          /\ log[c] # << >> /\ LastEvent(c).event = "error"
          /\ LastEvent(c).class # "ConfigurationError" => call[c].route = Len(call[c].routes)

\* What LoggedActionIsTaken says of one event.
TakenAt(c, i) ==
    log[c][i].event = "error" =>
        /\ log[c][i].class = "ConfigurationError" <=> log[c][i].action = "raise_configuration_error"
        /\ log[c][i].action = "retry_same_model" =>
              IF i = Len(log[c]) THEN ~Ended(c) /\ Model(c) = log[c][i].model
              ELSE log[c][i + 1].event \in {"start", "error"} /\ log[c][i + 1].model = log[c][i].model
        /\ log[c][i].action = "fallback_model" =>
              /\ i # Len(log[c])
              /\ log[c][i + 1].event = "fallback" /\ log[c][i + 1].model # log[c][i].model
        /\ log[c][i].action \in {"exhausted", "raise_configuration_error"} =>
              i = Len(log[c]) /\ call[c].pc = "raised"

ActionsTaken(c) == \A i \in 1 .. Len(log[c]) : TakenAt(c, i)

\* A model that failed for good is behind the call, and is not asked after that.
FatalIsPassed(c) ==
    \A i \in 1 .. Len(log[c]) :
        log[c][i].event = "error" /\ log[c][i].class = "ProviderFatalError" =>
            /\ \E k \in 1 .. call[c].route :
                  /\ k \in 1 .. Len(call[c].routes)
                  /\ call[c].routes[k].model = log[c][i].model
                  /\ k = call[c].route => call[c].pc = "raised"
            /\ \A k \in 1 .. Len(log[c]) :
                  i < k => log[c][k].event # "start" \/ log[c][k].model # log[c][i].model

\* A client is used for the model it was made for, and the usage it holds is of
\* answers of its provider.
ClientFits(c) ==
    /\ Asking(c) =>
          /\ call[c].client \in Client
          /\ call[c].client[1] = ProviderOf(Model(c))
    /\ call[c].pc \in {"repair", "validate", "done"} /\ ProviderOf(Model(c)) \in Reporting =>
          last_usage[call[c].client] # {}

UsageFits ==
    \A p \in Providers, x \in Calls :
        /\ \A a \in last_usage[<<p, x>>] : ProviderOf(a.model) = p
        /\ p \notin Reporting => last_usage[<<p, x>>] = {}

LoggedUsageFits(c) ==
    \A i \in 1 .. Len(log[c]) : log[c][i].event = "done" =>
        /\ log[c][i].usage = {} <=> ProviderOf(log[c][i].model) \notin Reporting
        /\ \A a \in log[c][i].usage : ProviderOf(a.model) = ProviderOf(log[c][i].model)

\* Another call has had to do with the provider of this one's model.
ProviderShared(c) ==
    \E d \in Calls \ {c} : \E i \in 1 .. Len(log[d]) :
        ProviderOf(log[d][i].model) = ProviderOf(Model(c))

UsageIsSpent(c) ==
    /\ call[c].pc \in {"repair", "validate", "done"} =>
          last_usage[call[c].client] = call[c].spent \/ ProviderShared(c)
    /\ call[c].pc = "returned" =>
          LastEvent(c).usage = call[c].spent \/ ProviderShared(c)

\* Files are numbered by kind, from one on, and no two alike.
OfKind(kind) == {i \in 1 .. Len(errors) : errors[i].kind = kind}

ErrorsNumbered ==
    /\ \A i \in 1 .. Len(errors) : errors[i].index \in 1 .. Cardinality(OfKind(errors[i].kind))
    /\ \A i, k \in 1 .. Len(errors) :
          errors[i].kind = errors[k].kind /\ errors[i].index = errors[k].index => i = k

RefsOwn(c) ==
    \A i \in 1 .. Len(log[c]) :
        log[c][i].event = "error" /\ log[c][i].ref # None =>
            \E k \in 1 .. Len(errors) :
                /\ [kind |-> errors[k].kind, index |-> errors[k].index] = log[c][i].ref
                /\ errors[k].call = c

IInv ==
    /\ \A c \in Calls : FollowsChain(c)
    /\ \A c \in Calls : Counted(c)
    /\ \A c \in Calls : LogTells(c)
    /\ \A c \in Calls : ActionsTaken(c)
    /\ \A c \in Calls : FatalIsPassed(c)
    /\ \A c \in Calls : ClientFits(c)
    /\ UsageFits
    /\ \A c \in Calls : LoggedUsageFits(c)
    /\ \A c \in Calls : UsageIsSpent(c)
    /\ ErrorsNumbered
    /\ \A c \in Calls : RefsOwn(c)

-----------------------------------------------------------------------------
(* What a step of a call does to the call and to its log.                  *)

Failure(c, class) ==
    [event |-> "error", model |-> Model(c), class |-> class,
     action |-> NextAction(c, class), ref |-> Ref(c, class)]

Fallback(c) == [event |-> "fallback", model |-> call[c].routes[call[c].route + 1].model]

Stays(c) ==
    /\ call'[c].routes = call[c].routes
    /\ call'[c].route = call[c].route
    /\ call'[c].attempt = call[c].attempt

Refused(c) ==
    /\ call[c].pc = "begin" /\ ~Routable(config, Chain(c))
    /\ call'[c].pc = "raised" /\ Stays(c) /\ log'[c] = log[c]

Begins(c) ==
    /\ call[c].pc = "begin" /\ Routable(config, Chain(c))
    /\ call'[c].pc = "resolve" /\ call'[c].routes = RoutesOf(Chain(c))
    /\ call'[c].route = 1 /\ call'[c].attempt = 1
    /\ log'[c] = log[c]

Proceeds(c) ==
    /\ \/ call[c].pc = "resolve" /\ call'[c].pc = "create"
       \/ call[c].pc = "post" /\ call'[c].pc \in {"repair", "validate"}
       \/ call[c].pc = "repair" /\ call'[c].pc = "validate"
       \/ call[c].pc = "validate" /\ call'[c].pc = "done"
    /\ Stays(c) /\ log'[c] = log[c]

Asks(c) ==
    /\ call[c].pc \in {"resolve", "create"} /\ call'[c].pc = "post"
    /\ Stays(c) /\ log'[c] = Append(log[c], Started(c))

CanFail(c, class) ==
    \/ call[c].pc = "resolve" /\ class = "ConfigurationError"
    \/ call[c].pc \in {"post", "repair", "validate"} /\ class \in Retryable \cup {"ProviderFatalError"}

Retries(c, class) ==
    /\ CanFail(c, class) /\ Again(c, class)
    /\ call'[c].pc = "resolve" /\ call'[c].routes = call[c].routes
    /\ call'[c].route = call[c].route /\ call'[c].attempt = call[c].attempt + 1
    /\ log'[c] = Append(log[c], Failure(c, class))

FallsBack(c, class) ==
    /\ CanFail(c, class) /\ class # "ConfigurationError" /\ ~Again(c, class) /\ ~LastRoute(c)
    /\ call'[c].pc = "resolve" /\ call'[c].routes = call[c].routes
    /\ call'[c].route = call[c].route + 1 /\ call'[c].attempt = 1
    /\ log'[c] = Append(Append(log[c], Failure(c, class)), Fallback(c))

Raises(c, class) ==
    /\ CanFail(c, class)
    /\ class = "ConfigurationError" \/ (~Again(c, class) /\ LastRoute(c))
    /\ call'[c].pc = "raised" /\ Stays(c)
    /\ log'[c] = Append(log[c], Failure(c, class))

Fails(c, class) == Retries(c, class) \/ FallsBack(c, class) \/ Raises(c, class)

Returns(c) ==
    /\ call[c].pc = "done" /\ call'[c].pc = "returned" /\ Stays(c)
    /\ log'[c] = Append(log[c], [event |-> "done", model |-> Model(c), usage |-> UsageOfClient(c)])

Moves(c) ==
    \/ /\ Refused(c) \/ Begins(c) \/ Proceeds(c) \/ Asks(c) \/ Returns(c)
       /\ errors' = errors
    \/ \E class \in Classes : Fails(c, class) /\ RecordModelOutputError(c, class)

\* The other calls stay where they are.
Frame(c) ==
    /\ config' = config
    /\ \A d \in Calls \ {c} : call'[d] = call[d] /\ log'[d] = log[d]

LEMMA NewPc ==
    ASSUME NEW r \in CallState, NEW pc \in Pc
    PROVE  LET new == [r EXCEPT !.pc = pc] IN
           /\ new \in CallState /\ new.pc = pc /\ new.routes = r.routes /\ new.route = r.route
           /\ new.attempt = r.attempt /\ new.client = r.client /\ new.spent = r.spent
BY DEF CallState

LEMMA NewSpent ==
    ASSUME NEW r \in CallState, NEW spent \in SUBSET Answer
    PROVE  LET new == [r EXCEPT !.spent = spent] IN
           /\ new \in CallState /\ new.pc = r.pc /\ new.routes = r.routes /\ new.route = r.route
           /\ new.attempt = r.attempt /\ new.client = r.client /\ new.spent = spent
BY DEF CallState

LEMMA NewClient ==
    ASSUME NEW r \in CallState, NEW client \in Client
    PROVE  LET new == [r EXCEPT !.client = client] IN
           /\ new \in CallState /\ new.pc = r.pc /\ new.routes = r.routes /\ new.route = r.route
           /\ new.attempt = r.attempt /\ new.client = client /\ new.spent = r.spent
BY DEF CallState

LEMMA NewRoutes ==
    ASSUME NEW r \in CallState, NEW routes \in Seq(Route)
    PROVE  LET new == [r EXCEPT !.routes = routes] IN
           /\ new \in CallState /\ new.pc = r.pc /\ new.routes = routes /\ new.route = r.route
           /\ new.attempt = r.attempt /\ new.client = r.client /\ new.spent = r.spent
BY DEF CallState

LEMMA NewAttempt ==
    ASSUME NEW r \in CallState, NEW route \in Nat, NEW attempt \in Nat
    PROVE  LET new == Attempt(r, route, attempt) IN
           /\ new \in CallState /\ new.pc = "resolve" /\ new.routes = r.routes
           /\ new.route = route /\ new.attempt = attempt
           /\ new.client = None /\ new.spent = {}
<1>1. "resolve" \in Pc /\ {} \in SUBSET Answer /\ None \in Client \cup {None}
  BY DEF Pc
<1> QED
  BY <1>1 DEF CallState, Attempt

-----------------------------------------------------------------------------
(* The configuration and the routes it gives.                              *)

\* Models of the configuration are typed and belong to known providers; the
\* models that node entries name are among them.
LEMMA ConfigTyped ==
    ASSUME TypeOK
    PROVE  /\ DOMAIN config.models \in SUBSET Models
           /\ \A m \in DOMAIN config.models :
                 /\ ProviderOf(m) \in Providers
                 /\ config.models[m].max_attempts \in Int
                 /\ config.models[m].fallback_models \in Seq(ModelIds)
           /\ \A n \in DOMAIN config.nodes :
                 /\ config.nodes[n].max_attempts \in Int
                 /\ config.nodes[n].fallback_models \in Seq(ModelIds)
                 /\ Routable(config, config.nodes[n])
<1>1. PICK file \in ConfigFiles : Loads(file) /\ config = Loaded(file)
  BY DEF TypeOK
<1> DEFINE models == [m \in DOMAIN file.models |-> ModelRoute(file.models[m])]
           nodes == [n \in DOMAIN file.nodes |-> NodeRoute(file.nodes[n])]
<1>2. config.models = models /\ config.nodes = nodes
  BY <1>1 DEF Loaded
<1>3. DOMAIN config.models = DOMAIN file.models /\ DOMAIN config.nodes = DOMAIN file.nodes
  BY <1>2
<1>4. \A m \in DOMAIN file.models : config.models[m] = ModelRoute(file.models[m])
  BY <1>2
<1>5. \A n \in DOMAIN file.nodes : config.nodes[n] = NodeRoute(file.nodes[n])
  BY <1>2
<1> HIDE DEF models, nodes
<1>6. DOMAIN config.models \in SUBSET Models
  BY <1>1, <1>3 DEF Models
<1>7. ASSUME NEW x \in Int PROVE AtLeastOnce(x) \in Int
  BY DEF AtLeastOnce
<1>8. ASSUME NEW m \in DOMAIN config.models
      PROVE  /\ ProviderOf(m) \in Providers
             /\ config.models[m].max_attempts \in Int
             /\ config.models[m].fallback_models \in Seq(ModelIds)
  <2>1. /\ file.models[m].max_attempts \in Int
        /\ file.models[m].fallback_models \in Seq(ModelIds)
    BY <1>1, <1>3, LLMRouterAssumption
  <2>2. /\ ProviderOf(m) = file.models[m].provider
        /\ config.models[m].max_attempts = AtLeastOnce(file.models[m].max_attempts)
        /\ config.models[m].fallback_models = file.models[m].fallback_models
    <3> DEFINE r == config.models[m]
    <3>1. r = ModelRoute(file.models[m])
      BY <1>3, <1>4
    <3> HIDE DEF r
    <3>2. /\ r.provider = file.models[m].provider
          /\ r.max_attempts = AtLeastOnce(file.models[m].max_attempts)
          /\ r.fallback_models = file.models[m].fallback_models
      BY <3>1 DEF ModelRoute
    <3> QED
      BY <3>2 DEF ProviderOf, r
  <2>3. file.models[m].provider \in DOMAIN file.providers
    BY <1>1, <1>3 DEF Loads
  <2>4. DOMAIN file.providers \in SUBSET Providers
    BY <1>1 DEF Providers
  <2> QED
    BY <1>7, <2>1, <2>2, <2>3, <2>4
<1>9. ASSUME NEW n \in DOMAIN config.nodes
      PROVE  /\ config.nodes[n].max_attempts \in Int
             /\ config.nodes[n].fallback_models \in Seq(ModelIds)
             /\ Routable(config, config.nodes[n])
  <2>1. /\ file.nodes[n].max_attempts \in Int
        /\ file.nodes[n].fallback_models \in Seq(ModelIds)
    BY <1>1, <1>3, LLMRouterAssumption
  <2>2. /\ config.nodes[n].primary_model = file.nodes[n].primary_model
        /\ config.nodes[n].max_attempts = AtLeastOnce(file.nodes[n].max_attempts)
        /\ config.nodes[n].fallback_models = file.nodes[n].fallback_models
    <3> DEFINE r == config.nodes[n]
    <3>1. r = NodeRoute(file.nodes[n])
      BY <1>3, <1>5
    <3> HIDE DEF r
    <3>2. /\ r.primary_model = file.nodes[n].primary_model
          /\ r.max_attempts = AtLeastOnce(file.nodes[n].max_attempts)
          /\ r.fallback_models = file.nodes[n].fallback_models
      BY <3>1 DEF NodeRoute
    <3> QED
      BY <3>2 DEF r
  <2>3. ChainModels(config.nodes[n]) = ChainModels(file.nodes[n])
    BY <2>2 DEF ChainModels, ModelsOf
  <2>4. ChainModels(file.nodes[n]) \in SUBSET DOMAIN file.models
    <3>1. MissingNodeModels(file) = {} /\ n \in DOMAIN file.nodes
      BY <1>1, <1>3 DEF Loads
    <3> DEFINE all == {ChainModels(file.nodes[k]) : k \in DOMAIN file.nodes}
    <3>2. (UNION all) \ DOMAIN file.models = {}
      BY <3>1 DEF MissingNodeModels
    <3>3. ChainModels(file.nodes[n]) \in all
      BY <3>1
    <3> HIDE DEF all
    <3>4. \A D, A : A \in all /\ (UNION all) \ D = {} => \A m \in A : m \in D
      OBVIOUS
    <3>5. \A m \in ChainModels(file.nodes[n]) : m \in DOMAIN file.models
      BY <3>2, <3>3, <3>4
    <3> QED
      BY <3>5
  <2> QED
    BY <1>3, <1>7, <2>1, <2>2, <2>3, <2>4 DEF Routable
<1> QED
  BY <1>6, <1>8, <1>9

\* The chain of a call, whether a node, a model or the default gives it.
LEMMA ChainTyped ==
    ASSUME TypeOK, NEW c \in Calls
    PROVE  Chain(c).max_attempts \in Int /\ Chain(c).fallback_models \in Seq(ModelIds)
<1> DEFINE chain == Chain(c)
<1> DEFINE id == IF ModelArg[c] = None THEN config.default_model ELSE ModelArg[c]
<1>1. CASE Prompt[c] \in DOMAIN config.nodes
  <2>1. chain = config.nodes[Prompt[c]]
    BY <1>1 DEF Chain, ChainFor
  <2> QED
    BY <1>1, <2>1, ConfigTyped
<1>2. CASE Prompt[c] \notin DOMAIN config.nodes /\ id \in DOMAIN config.models
  <2>1. /\ chain.max_attempts = config.models[id].max_attempts
        /\ chain.fallback_models = config.models[id].fallback_models
    BY <1>2 DEF Chain, ChainFor
  <2> QED
    BY <1>2, <2>1, ConfigTyped
<1>3. CASE Prompt[c] \notin DOMAIN config.nodes /\ id \notin DOMAIN config.models
  <2>1. chain.max_attempts = 1 /\ chain.fallback_models = << >>
    BY <1>3 DEF Chain, ChainFor
  <2> QED
    BY <2>1
<1> QED
  BY <1>1, <1>2, <1>3

\* The routes of a chain that is not refused: its models, each once.
LEMMA RoutesTyped ==
    ASSUME TypeOK, NEW c \in Calls, Routable(config, Chain(c))
    PROVE  LET routes == RoutesOf(Chain(c)) IN
           /\ routes \in Seq(Route)
           /\ Len(routes) \in Nat \ {0}
           /\ {routes[n].model : n \in 1 .. Len(routes)} = ChainModels(Chain(c))
           /\ \A m, n \in 1 .. Len(routes) : routes[m].model = routes[n].model => m = n
           /\ \A n \in 1 .. Len(routes) :
                 /\ routes[n].model \in DOMAIN config.models
                 /\ routes[n].attempts = IF routes[n].model = Chain(c).primary_model
                                         THEN AtLeastOnce(Chain(c).max_attempts) ELSE 1
<1> DEFINE chain == Chain(c)
           routes == RoutesOf(chain)
           S == ModelIds \cup {chain.primary_model}
           T == [model : S, attempts : Nat \ {0}]
<1>1. chain.max_attempts \in Int /\ chain.fallback_models \in Seq(ModelIds)
  BY ChainTyped
<1> HIDE DEF chain
<1>2. chain.primary_model \in S /\ chain.fallback_models \in Seq(S)
  <2> HIDE DEF S
  <2>1. ModelIds \in SUBSET S /\ chain.primary_model \in S
    BY DEF S
  <2> QED
    BY <1>1, <2>1
<1> HIDE DEF S
<1>3. /\ routes \in Seq(T)
      /\ Len(routes) >= 1
      /\ {routes[n].model : n \in 1 .. Len(routes)} = ChainModels(chain)
      /\ \A m, n \in 1 .. Len(routes) : routes[m].model = routes[n].model => m = n
      /\ \A n \in 1 .. Len(routes) : routes[n].attempts =
            IF routes[n].model = chain.primary_model THEN AtLeastOnce(chain.max_attempts) ELSE 1
  BY <1>1, <1>2, RoutesAreTheChain
<1> HIDE DEF routes
<1>4. \A n \in 1 .. Len(routes) : routes[n].model \in DOMAIN config.models
  <2>1. ChainModels(chain) \in SUBSET DOMAIN config.models
    BY DEF Routable, chain
  <2> QED
    BY <1>3, <2>1
<1>5. Len(routes) \in Nat \ {0}
  <2>1. Len(routes) \in Nat
    <3> HIDE DEF T
    <3> QED
      BY <1>3
  <2> QED
    BY <1>3, <2>1
<1>6. routes \in Seq(Route)
  <2>1. ASSUME NEW n \in 1 .. Len(routes) PROVE routes[n] \in Route
    <3> DEFINE r == routes[n]
    <3>1. r \in T
      <4> HIDE DEF T
      <4> QED
        BY <1>3
    <3>2. r.model \in Models
      BY <1>4, ConfigTyped
    <3> HIDE DEF r
    <3>3. r \in [model : Models, attempts : Nat \ {0}]
      BY <3>1, <3>2
    <3> QED
      BY <3>3 DEF r, Route
  <2> HIDE DEF T
  <2> QED
    BY <1>3, <2>1
<1> QED
  BY <1>3, <1>4, <1>5, <1>6 DEF routes, chain

-----------------------------------------------------------------------------
(* Every step of a call is one of the moves, and keeps the types.          *)

LEMMA CallTyped ==
    ASSUME TypeOK, NEW c \in Calls
    PROVE  /\ call[c] \in CallState
           /\ call[c].pc \in Pc /\ call[c].routes \in Seq(Route)
           /\ call[c].route \in Nat /\ call[c].attempt \in Nat
           /\ call[c].spent \in SUBSET Answer
           /\ log[c] \in Seq(Event) /\ Len(log[c]) \in Nat /\ DOMAIN log[c] = 1 .. Len(log[c])
           /\ errors \in Seq(ModelOutputError)
<1>1. call[c] \in CallState /\ log[c] \in Seq(Event) /\ errors \in Seq(ModelOutputError)
  BY DEF TypeOK
<1>2. Len(log[c]) \in Nat /\ DOMAIN log[c] = 1 .. Len(log[c])
  BY <1>1
<1> DEFINE r == call[c]
<1> HIDE DEF r
<1>3. r \in CallState
  BY <1>1 DEF r
<1>4. /\ r.pc \in Pc /\ r.routes \in Seq(Route) /\ r.route \in Nat /\ r.attempt \in Nat
      /\ r.spent \in SUBSET Answer
  BY <1>3 DEF CallState
<1> QED
  BY <1>1, <1>2, <1>4 DEF r

\* The route at which a call is, and the next one.
LEMMA AtRoute ==
    ASSUME TypeOK, NEW c \in Calls, FollowsChain(c), call[c].pc \notin {"begin", "raised"}
    PROVE  /\ call[c].routes # << >> /\ call[c].routes = RoutesOf(Chain(c))
           /\ Routable(config, Chain(c))
           /\ Len(call[c].routes) \in Nat
           /\ call[c].route \in 1 .. Len(call[c].routes)
           /\ call[c].routes[call[c].route].attempts \in Nat
           /\ call[c].attempt \in 1 .. call[c].routes[call[c].route].attempts
           /\ Model(c) = call[c].routes[call[c].route].model
           /\ Model(c) \in Models /\ ProviderOf(Model(c)) \in Providers
           /\ ~LastRoute(c) => call[c].route + 1 \in 1 .. Len(call[c].routes)
           /\ \A k \in 1 .. Len(call[c].routes) :
                 /\ call[c].routes[k].model \in Models
                 /\ call[c].routes[k].attempts \in Nat \ {0}
           /\ \A k, m \in 1 .. Len(call[c].routes) :
                 call[c].routes[k].model = call[c].routes[m].model => k = m
<1> DEFINE routes == call[c].routes
           k == call[c].route
<1>1. routes # << >> /\ routes = RoutesOf(Chain(c)) /\ Routable(config, Chain(c))
      /\ k \in 1 .. Len(routes) /\ call[c].attempt \in 1 .. routes[k].attempts
  BY DEF FollowsChain
<1>2. /\ routes \in Seq(Route) /\ Len(routes) \in Nat
      /\ \A n \in 1 .. Len(routes) : routes[n].model \in DOMAIN config.models
      /\ \A m, n \in 1 .. Len(routes) : routes[m].model = routes[n].model => m = n
  BY <1>1, RoutesTyped
<1>3. routes[k].model \in Models /\ ProviderOf(routes[k].model) \in Providers
  BY <1>1, <1>2, ConfigTyped
<1>4. ASSUME NEW n \in 1 .. Len(routes)
      PROVE  routes[n].model \in Models /\ routes[n].attempts \in Nat \ {0}
  <2>1. routes[n] \in Route
    BY <1>2
  <2> DEFINE r == routes[n]
  <2> HIDE DEF r
  <2>2. r \in Route
    BY <2>1 DEF r
  <2>3. r.model \in Models /\ r.attempts \in Nat \ {0}
    BY <2>2 DEF Route
  <2> QED
    BY <2>3 DEF r
<1>5. Model(c) = routes[k].model /\ (LastRoute(c) <=> k = Len(routes))
  BY DEF Model, LastRoute
<1> HIDE DEF routes, k
<1>6. k # Len(routes) => k + 1 \in 1 .. Len(routes)
  BY <1>1, <1>2
<1> QED
  BY <1>1, <1>2, <1>3, <1>4, <1>5, <1>6 DEF routes, k

\* What an error is logged and kept as.
LEMMA FailureTyped ==
    ASSUME TypeOK, NEW c \in Calls, NEW class \in Classes, Model(c) \in Models
    PROVE  /\ Failure(c, class) \in Failed /\ Failure(c, class) \in Event
           /\ Ref(c, class) \in ErrorRef \cup {None}
           /\ KeepsOutput(class) =>
                 [kind |-> KindOf(class), index |-> Index(c, KindOf(class)), call |-> c]
                    \in ModelOutputError
<1>1. KindOf(class) \in ErrorKind
  BY DEF KindOf, ErrorKind
<1>2. Index(c, KindOf(class)) \in Nat
  <2> DEFINE same == {i \in DOMAIN errors : errors[i].kind = KindOf(class)}
  <2>1. errors \in Seq(ModelOutputError)
    BY DEF TypeOK
  <2>2. IsFiniteSet(1 .. Len(errors)) /\ same \in SUBSET (1 .. Len(errors))
    BY <2>1, FS_Interval
  <2>3. Cardinality(same) \in Nat
    BY <2>2, FS_Subset, FS_CardinalityType
  <2> QED
    BY <2>3 DEF Index
<1>3. [kind |-> KindOf(class), index |-> Index(c, KindOf(class))] \in ErrorRef
  BY <1>1, <1>2 DEF ErrorRef
<1>4. [kind |-> KindOf(class), index |-> Index(c, KindOf(class)), call |-> c] \in ModelOutputError
  BY <1>1, <1>2 DEF ModelOutputError
<1>5. Ref(c, class) \in ErrorRef \cup {None}
  BY <1>3 DEF Ref
<1>6. NextAction(c, class) \in Actions
  BY DEF NextAction, Actions
<1>7. Failure(c, class) \in Failed
  BY <1>5, <1>6 DEF Failure, Failed
<1> QED
  BY <1>4, <1>5, <1>7 DEF Event

\* The state of one call is replaced.
LEMMA OneMoved ==
    ASSUME NEW c \in Calls, NEW new \in CallState, call \in [Calls -> CallState],
           call' = [call EXCEPT ![c] = new]
    PROVE  /\ call' \in [Calls -> CallState] /\ call'[c] = new
           /\ \A d \in Calls \ {c} : call'[d] = call[d]
OBVIOUS

LEMMA OneLogs ==
    ASSUME NEW c \in Calls, NEW new \in Seq(Event), log \in [Calls -> Seq(Event)],
           log' = [log EXCEPT ![c] = new]
    PROVE  /\ log' \in [Calls -> Seq(Event)] /\ log'[c] = new
           /\ \A d \in Calls \ {c} : log'[d] = log[d]
OBVIOUS

\* The router retries, goes on with the next model or raises.
LEMMA ErrorIsHandled ==
    ASSUME TypeOK, NEW c \in Calls, FollowsChain(c), NEW class \in Classes,
           CanFail(c, class), HandleError(c, class)
    PROVE  /\ call' \in [Calls -> CallState] /\ log' \in [Calls -> Seq(Event)]
           /\ errors' \in Seq(ModelOutputError)
           /\ Fails(c, class) /\ RecordModelOutputError(c, class)
           /\ \A d \in Calls \ {c} : call'[d] = call[d] /\ log'[d] = log[d]
<1> DEFINE r == call[c]
           e == Failure(c, class)
           f == Fallback(c)
<1>0. "raised" \in Pc
  BY DEF Pc
<1>1. /\ call \in [Calls -> CallState] /\ log \in [Calls -> Seq(Event)]
      /\ errors \in Seq(ModelOutputError)
      /\ r \in CallState /\ r.route \in Nat /\ r.attempt \in Nat /\ log[c] \in Seq(Event)
  BY CallTyped DEF TypeOK
<1>2. call[c].pc \notin {"begin", "raised"}
  BY DEF CanFail
<1>3. Model(c) \in Models
  BY <1>2, AtRoute
<1>4. e \in Event
  BY <1>3, FailureTyped
<1>5. errors' \in Seq(ModelOutputError) /\ RecordModelOutputError(c, class)
  <2> DEFINE x == [kind |-> KindOf(class), index |-> Index(c, KindOf(class)), call |-> c]
  <2>1. errors' = (IF ~KeepsOutput(class) THEN errors ELSE Append(errors, x))
        /\ RecordModelOutputError(c, class)
    BY DEF HandleError, RecordModelOutputError
  <2>2. KeepsOutput(class) => x \in ModelOutputError
    BY <1>3, FailureTyped
  <2> HIDE DEF x
  <2> QED
    BY <1>1, <2>1, <2>2
<1>6. e = [event |-> "error", model |-> Model(c), class |-> class,
           action |-> NextAction(c, class), ref |-> Ref(c, class)]
  BY DEF Failure
<1>7. f = [event |-> "fallback", model |-> call[c].routes[call[c].route + 1].model]
  BY DEF Fallback
<1>8. \/ /\ Again(c, class)
         /\ call' = [call EXCEPT ![c] = Attempt(r, r.route, r.attempt + 1)]
         /\ log' = [log EXCEPT ![c] = Append(log[c], e)]
      \/ /\ class # "ConfigurationError" /\ ~Again(c, class) /\ ~LastRoute(c)
         /\ call' = [call EXCEPT ![c] = Attempt(r, r.route + 1, 1)]
         /\ log' = [log EXCEPT ![c] = log[c] \o <<e, f>>]
      \/ /\ class = "ConfigurationError" \/ (~Again(c, class) /\ LastRoute(c))
         /\ call' = [call EXCEPT ![c] = [r EXCEPT !.pc = "raised"]]
         /\ log' = [log EXCEPT ![c] = Append(log[c], e)]
  BY <1>1, <1>6, <1>7 DEF HandleError, Goto
<1>9. CASE /\ Again(c, class)
           /\ call' = [call EXCEPT ![c] = Attempt(r, r.route, r.attempt + 1)]
           /\ log' = [log EXCEPT ![c] = Append(log[c], e)]
  <2> DEFINE new == Attempt(r, r.route, r.attempt + 1)
  <2>1. /\ new \in CallState /\ new.pc = "resolve" /\ new.routes = r.routes
        /\ new.route = r.route /\ new.attempt = r.attempt + 1
    <3>1. r \in CallState /\ r.route \in Nat /\ r.attempt + 1 \in Nat
      BY <1>1
    <3> DEFINE n == r.attempt + 1
               k == r.route
    <3> HIDE DEF r, n, k
    <3>2. r \in CallState /\ k \in Nat /\ n \in Nat
      BY <3>1 DEF n, k
    <3>3. Attempt(r, k, n) \in CallState
      BY <3>2, NewAttempt
    <3>4. /\ Attempt(r, k, n).pc = "resolve" /\ Attempt(r, k, n).routes = r.routes
          /\ Attempt(r, k, n).route = k /\ Attempt(r, k, n).attempt = n
      BY <3>2, NewAttempt
    <3> QED
      BY <3>3, <3>4 DEF n, k
  <2>2. Append(log[c], e) \in Seq(Event)
    <3> HIDE DEF e
    <3> QED
      BY <1>1, <1>4
  <2> HIDE DEF new, e
  <2>3. /\ call' \in [Calls -> CallState] /\ call'[c] = new
        /\ \A d \in Calls \ {c} : call'[d] = call[d]
    BY <1>1, <1>9, <2>1, OneMoved DEF new
  <2>4. /\ log' \in [Calls -> Seq(Event)] /\ log'[c] = Append(log[c], e)
        /\ \A d \in Calls \ {c} : log'[d] = log[d]
    BY <1>1, <1>9, <2>2, OneLogs
  <2>5. Retries(c, class)
    BY <1>9, <2>1, <2>3, <2>4 DEF Retries, e
  <2> QED
    BY <1>5, <2>3, <2>4, <2>5 DEF Fails
<1>10. CASE /\ class # "ConfigurationError" /\ ~Again(c, class) /\ ~LastRoute(c)
            /\ call' = [call EXCEPT ![c] = Attempt(r, r.route + 1, 1)]
            /\ log' = [log EXCEPT ![c] = log[c] \o <<e, f>>]
  <2> DEFINE new == Attempt(r, r.route + 1, 1)
  <2>1. /\ new \in CallState /\ new.pc = "resolve" /\ new.routes = r.routes
        /\ new.route = r.route + 1 /\ new.attempt = 1
    <3>1. r \in CallState /\ r.route + 1 \in Nat /\ 1 \in Nat
      BY <1>1
    <3> DEFINE n == 1
               k == r.route + 1
    <3> HIDE DEF r, n, k
    <3>2. r \in CallState /\ k \in Nat /\ n \in Nat
      BY <3>1 DEF n, k
    <3>3. Attempt(r, k, n) \in CallState
      BY <3>2, NewAttempt
    <3>4. /\ Attempt(r, k, n).pc = "resolve" /\ Attempt(r, k, n).routes = r.routes
          /\ Attempt(r, k, n).route = k /\ Attempt(r, k, n).attempt = n
      BY <3>2, NewAttempt
    <3> QED
      BY <3>3, <3>4 DEF n, k
  <2>2. f \in Event
    <3>1. call[c].routes[call[c].route + 1].model \in Models
      BY <1>2, <1>10, AtRoute
    <3>2. f \in Asked
      BY <1>7, <3>1 DEF Asked
    <3> QED
      BY <3>2 DEF Event
  <2> HIDE DEF new, e, f
  <2>3. /\ log[c] \o <<e, f>> = Append(Append(log[c], e), f)
        /\ log[c] \o <<e, f>> \in Seq(Event)
    BY <1>1, <1>4, <2>2
  <2>4. /\ call' \in [Calls -> CallState] /\ call'[c] = new
        /\ \A d \in Calls \ {c} : call'[d] = call[d]
    BY <1>1, <1>10, <2>1, OneMoved DEF new
  <2>5. /\ log' \in [Calls -> Seq(Event)] /\ log'[c] = log[c] \o <<e, f>>
        /\ \A d \in Calls \ {c} : log'[d] = log[d]
    BY <1>1, <1>10, <2>3, OneLogs
  <2>6. FallsBack(c, class)
    BY <1>10, <2>1, <2>3, <2>4, <2>5 DEF FallsBack, e, f
  <2> QED
    BY <1>5, <2>4, <2>5, <2>6 DEF Fails
<1>11. CASE /\ class = "ConfigurationError" \/ (~Again(c, class) /\ LastRoute(c))
            /\ call' = [call EXCEPT ![c] = [r EXCEPT !.pc = "raised"]]
            /\ log' = [log EXCEPT ![c] = Append(log[c], e)]
  <2> DEFINE new == [r EXCEPT !.pc = "raised"]
  <2>1. /\ new \in CallState /\ new.pc = "raised" /\ new.routes = r.routes
        /\ new.route = r.route /\ new.attempt = r.attempt
    BY <1>0, <1>1, NewPc
  <2>2. Append(log[c], e) \in Seq(Event)
    <3> HIDE DEF e
    <3> QED
      BY <1>1, <1>4
  <2> HIDE DEF new, e
  <2>3. /\ call' \in [Calls -> CallState] /\ call'[c] = new
        /\ \A d \in Calls \ {c} : call'[d] = call[d]
    BY <1>1, <1>11, <2>1, OneMoved DEF new
  <2>4. /\ log' \in [Calls -> Seq(Event)] /\ log'[c] = Append(log[c], e)
        /\ \A d \in Calls \ {c} : log'[d] = log[d]
    BY <1>1, <1>11, <2>2, OneLogs
  <2>5. Raises(c, class)
    BY <1>11, <2>1, <2>3, <2>4 DEF Raises, Stays, e
  <2> QED
    BY <1>5, <2>3, <2>4, <2>5 DEF Fails
<1> QED
  BY <1>8, <1>9, <1>10, <1>11

LEMMA StartedTyped ==
    ASSUME NEW c \in Calls, Model(c) \in Models
    PROVE  Started(c) \in Event
BY DEF Started, Event, Asked

LEMMA StepMoves ==
    ASSUME TypeOK, NEW c \in Calls, FollowsChain(c), ClientFits(c), CallStep(c)
    PROVE  /\ call' \in [Calls -> CallState] /\ log' \in [Calls -> Seq(Event)]
           /\ errors' \in Seq(ModelOutputError)
           /\ Frame(c) /\ Moves(c)
<1> DEFINE r == call[c]
           Goal == /\ call' \in [Calls -> CallState] /\ log' \in [Calls -> Seq(Event)]
                   /\ errors' \in Seq(ModelOutputError)
                   /\ Frame(c) /\ Moves(c)
<1>1. /\ call \in [Calls -> CallState] /\ log \in [Calls -> Seq(Event)]
      /\ errors \in Seq(ModelOutputError)
      /\ r \in CallState /\ log[c] \in Seq(Event)
  BY CallTyped DEF TypeOK
<1>2. config' = config
  BY DEF CallStep, BeginCall, Resolve, CreateClient, PostFails, PostAnswered, RepairAnswered,
         Validate, Done
<1>3. /\ "raised" \in Pc /\ "post" \in Pc /\ "create" \in Pc /\ "repair" \in Pc
      /\ "validate" \in Pc /\ "done" \in Pc /\ "returned" \in Pc
  BY DEF Pc
<1>4. /\ "ConfigurationError" \in Classes /\ "ProviderTransientError" \in Classes
      /\ "ProviderFatalError" \in Classes /\ "ModelOutputParseError" \in Classes
      /\ "ModelOutputValidationError" \in Classes
      /\ Retryable \cup {"ProviderFatalError"} =
            {"ProviderTransientError", "ProviderFatalError", "ModelOutputParseError",
             "ModelOutputValidationError"}
  BY DEF Classes, Retryable
<1>5. ASSUME NEW class \in Classes, CanFail(c, class), HandleError(c, class)
      PROVE  Goal
  <2>1. /\ call' \in [Calls -> CallState] /\ log' \in [Calls -> Seq(Event)]
        /\ errors' \in Seq(ModelOutputError)
        /\ Fails(c, class) /\ RecordModelOutputError(c, class)
        /\ \A d \in Calls \ {c} : call'[d] = call[d] /\ log'[d] = log[d]
    BY <1>5, ErrorIsHandled
  <2> QED
    BY <1>2, <2>1 DEF Frame, Moves
\* A step that only moves on.
<1>6. ASSUME NEW new \in CallState, call' = [call EXCEPT ![c] = new], log' = log,
             errors' = errors, new.routes = r.routes, new.route = r.route,
             new.attempt = r.attempt,
             \/ r.pc = "resolve" /\ new.pc = "create"
             \/ r.pc = "post" /\ new.pc \in {"repair", "validate"}
             \/ r.pc = "repair" /\ new.pc = "validate"
             \/ r.pc = "validate" /\ new.pc = "done"
             \/ r.pc = "begin" /\ ~Routable(config, Chain(c)) /\ new.pc = "raised"
      PROVE  Goal
  <2>1. /\ call' \in [Calls -> CallState] /\ call'[c] = new
        /\ \A d \in Calls \ {c} : call'[d] = call[d]
    BY <1>1, <1>6, OneMoved
  <2>2. Frame(c)
    BY <1>2, <1>6, <2>1 DEF Frame
  <2>3. Stays(c) /\ log'[c] = log[c]
    BY <1>6, <2>1 DEF Stays
  <2>4. Proceeds(c) \/ Refused(c)
    BY <1>6, <2>1, <2>3 DEF Proceeds, Refused
  <2> QED
    BY <1>1, <1>6, <2>1, <2>2, <2>4 DEF Moves
\* A request is made.
<1>7. ASSUME NEW client \in Client, r.pc \in {"resolve", "create"},
             call' = [call EXCEPT ![c] = [[r EXCEPT !.pc = "post"] EXCEPT !.client = client]],
             log' = [log EXCEPT ![c] = Append(log[c], Started(c))], errors' = errors
      PROVE  Goal
  <2> DEFINE mid == [r EXCEPT !.pc = "post"]
             new == [mid EXCEPT !.client = client]
             e == Started(c)
  <2>1. /\ mid \in CallState /\ mid.pc = "post" /\ mid.routes = r.routes
        /\ mid.route = r.route /\ mid.attempt = r.attempt
    BY <1>1, <1>3, NewPc
  <2> HIDE DEF mid
  <2>2. /\ new \in CallState /\ new.pc = "post" /\ new.routes = r.routes
        /\ new.route = r.route /\ new.attempt = r.attempt
    BY <2>1, NewClient
  <2>3. call' = [call EXCEPT ![c] = new]
    BY <1>7 DEF mid
  <2> HIDE DEF new
  <2>4. /\ call' \in [Calls -> CallState] /\ call'[c] = new
        /\ \A d \in Calls \ {c} : call'[d] = call[d]
    BY <1>1, <2>2, <2>3, OneMoved
  <2>5. Model(c) \in Models
    BY <1>7, AtRoute
  <2>6. e \in Event
    BY <2>5, StartedTyped
  <2> HIDE DEF e
  <2>7. /\ log' \in [Calls -> Seq(Event)] /\ log'[c] = Append(log[c], e)
        /\ \A d \in Calls \ {c} : log'[d] = log[d]
    <3>1. Append(log[c], e) \in Seq(Event)
      BY <1>1, <2>6
    <3> QED
      BY <1>1, <1>7, <3>1, OneLogs DEF e
  <2>8. Asks(c) /\ Frame(c)
    BY <1>2, <1>7, <2>2, <2>4, <2>7 DEF Asks, Stays, Frame, e
  <2> QED
    BY <1>1, <1>7, <2>4, <2>7, <2>8 DEF Moves
<1>8. ASSUME BeginCall(c), Routable(config, Chain(c)) PROVE Goal
  <2> DEFINE routes == RoutesOf(Chain(c))
             mid == [r EXCEPT !.routes = routes]
             new == Attempt(mid, 1, 1)
             one == 1
  <2>1. r.pc = "begin" /\ log' = log /\ errors' = errors /\ call' = [call EXCEPT ![c] = new]
    BY <1>1, <1>8 DEF BeginCall
  <2>2. routes \in Seq(Route)
    BY <1>8, RoutesTyped
  <2> HIDE DEF routes
  <2>3. mid \in CallState /\ mid.routes = routes
    BY <1>1, <2>2, NewRoutes
  <2> HIDE DEF mid
  <2>4. one \in Nat
    OBVIOUS
  <2>5. /\ new \in CallState /\ new.pc = "resolve" /\ new.routes = routes
        /\ new.route = 1 /\ new.attempt = 1
    <3> HIDE DEF one
    <3>1. /\ Attempt(mid, one, one) \in CallState /\ Attempt(mid, one, one).pc = "resolve"
          /\ Attempt(mid, one, one).routes = mid.routes
          /\ Attempt(mid, one, one).route = one /\ Attempt(mid, one, one).attempt = one
      BY <2>3, <2>4, NewAttempt
    <3> QED
      BY <2>3, <3>1 DEF one
  <2> HIDE DEF new
  <2>6. /\ call' \in [Calls -> CallState] /\ call'[c] = new
        /\ \A d \in Calls \ {c} : call'[d] = call[d]
    BY <1>1, <2>1, <2>5, OneMoved
  <2>7. Begins(c) /\ Frame(c)
    BY <1>2, <1>8, <2>1, <2>5, <2>6 DEF Begins, Frame, routes
  <2> QED
    BY <1>1, <2>1, <2>6, <2>7 DEF Moves
<1>9. ASSUME BeginCall(c), ~Routable(config, Chain(c)) PROVE Goal
  <2> DEFINE new == [r EXCEPT !.pc = "raised"]
  <2>1. /\ r.pc = "begin" /\ log' = log /\ errors' = errors
        /\ call' = [call EXCEPT ![c] = new]
    BY <1>1, <1>9 DEF BeginCall, Goto
  <2>2. /\ new \in CallState /\ new.pc = "raised" /\ new.routes = r.routes
        /\ new.route = r.route /\ new.attempt = r.attempt
    BY <1>1, <1>3, NewPc
  <2> HIDE DEF new
  <2> QED
    BY <1>6, <1>9, <2>1, <2>2
<1>10. ASSUME Resolve(c) PROVE Goal
  <2> DEFINE p == ProviderOf(Model(c))
  <2>0. r.pc = "resolve" /\ p \in Providers
    BY <1>10, AtRoute DEF Resolve
  <2>1. ASSUME clients[p] # None,
               call' = [call EXCEPT ![c].pc = "post", ![c].client = <<p, clients[p]>>],
               log' = [log EXCEPT ![c] = Append(@, Started(c))], errors' = errors
        PROVE  Goal
    <3> DEFINE client == <<p, clients[p]>>
    <3>1. clients[p] \in Calls
      BY <2>0, <2>1 DEF TypeOK
    <3>2. client \in Client
      BY <2>0, <3>1 DEF Client
    <3>3. call' = [call EXCEPT ![c] = [[r EXCEPT !.pc = "post"] EXCEPT !.client = client]]
      BY <1>1, <2>1
    <3>4. log' = [log EXCEPT ![c] = Append(log[c], Started(c))]
      BY <2>1
    <3> HIDE DEF client, Goal
    <3> QED
      BY <1>7, <2>0, <2>1, <3>2, <3>3, <3>4
  <2>2. ASSUME Goto(c, "create"), log' = log, errors' = errors PROVE Goal
    <3> DEFINE new == [r EXCEPT !.pc = "create"]
    <3>1. /\ new \in CallState /\ new.pc = "create" /\ new.routes = r.routes
          /\ new.route = r.route /\ new.attempt = r.attempt
      BY <1>1, <1>3, NewPc
    <3>2. call' = [call EXCEPT ![c] = new]
      BY <1>1, <2>2 DEF Goto
    <3> HIDE DEF new, Goal
    <3> QED
      BY <1>6, <2>0, <2>2, <3>1, <3>2
  <2>3. ASSUME HandleError(c, "ConfigurationError") PROVE Goal
    <3>1. CanFail(c, "ConfigurationError")
      BY <2>0 DEF CanFail
    <3> QED
      BY <1>4, <1>5, <2>3, <3>1
  <2> HIDE DEF Goal
  <2> QED
    BY <1>10, <2>1, <2>2, <2>3 DEF Resolve
<1>11. ASSUME CreateClient(c) PROVE Goal
  <2> DEFINE p == ProviderOf(Model(c))
             client == <<p, c>>
  <2>1. r.pc = "create" /\ p \in Providers
    BY <1>11, AtRoute DEF CreateClient
  <2>2. client \in Client
    BY <2>1 DEF Client
  <2>3. call' = [call EXCEPT ![c] = [[r EXCEPT !.pc = "post"] EXCEPT !.client = client]]
    BY <1>1, <1>11 DEF CreateClient
  <2>4. log' = [log EXCEPT ![c] = Append(log[c], Started(c))] /\ errors' = errors
    BY <1>11 DEF CreateClient
  <2> HIDE DEF client, Goal
  <2> QED
    BY <1>7, <2>1, <2>2, <2>3, <2>4
<1>12. ASSUME PostFails(c) PROVE Goal
  <2>1. PICK class \in {"ProviderTransientError", "ProviderFatalError"} : HandleError(c, class)
    BY <1>12 DEF PostFails
  <2>2. class \in Classes /\ class \in Retryable \cup {"ProviderFatalError"}
    BY <1>4
  <2>3. CanFail(c, class)
    BY <1>12, <2>2 DEF PostFails, CanFail
  <2> QED
    BY <1>5, <2>1, <2>2, <2>3
<1>13. \A repair \in BOOLEAN : r.pc \in {"post", "repair"} => Usage(c, repair) \in SUBSET Answer
  <2> SUFFICES ASSUME NEW repair \in BOOLEAN, r.pc \in {"post", "repair"}
               PROVE  Usage(c, repair) \in SUBSET Answer
    OBVIOUS
  <2>1. Model(c) \in Models /\ call[c].attempt \in Nat
    BY AtRoute, CallTyped
  <2>2. [call |-> c, model |-> Model(c), attempt |-> call[c].attempt, repair |-> repair] \in Answer
    BY <2>1 DEF Answer
  <2> QED
    BY <2>2 DEF Usage
<1>14. ASSUME PostAnswered(c) PROVE Goal
  <2>1. r.pc = "post"
    BY <1>14 DEF PostAnswered
  <2>2. ASSUME NEW pc \in {"validate", "repair"},
               call' = [call EXCEPT ![c].pc = pc, ![c].spent = Usage(c, FALSE)],
               log' = log, errors' = errors
        PROVE  Goal
    <3> DEFINE mid == [r EXCEPT !.pc = pc]
               new == [mid EXCEPT !.spent = Usage(c, FALSE)]
    <3>1. /\ mid \in CallState /\ mid.pc = pc /\ mid.routes = r.routes
          /\ mid.route = r.route /\ mid.attempt = r.attempt
      BY <1>1, <1>3, NewPc
    <3>2. call' = [call EXCEPT ![c] = new]
      BY <1>1, <2>2
    <3> HIDE DEF mid
    <3>3. /\ new \in CallState /\ new.pc = pc /\ new.routes = r.routes
          /\ new.route = r.route /\ new.attempt = r.attempt
      <4>1. Usage(c, FALSE) \in SUBSET Answer
        BY <1>13, <2>1
      <4> QED
        BY <3>1, <4>1, NewSpent
    <3> HIDE DEF new, Goal
    <3> QED
      BY <1>6, <2>1, <2>2, <3>2, <3>3
  <2>3. ASSUME HandleError(c, "ProviderTransientError") PROVE Goal
    <3>1. CanFail(c, "ProviderTransientError")
      BY <1>4, <2>1 DEF CanFail
    <3> QED
      BY <1>4, <1>5, <2>3, <3>1
  <2> HIDE DEF Goal
  <2> QED
    BY <1>14, <2>2, <2>3 DEF PostAnswered
<1>15. ASSUME RepairAnswered(c) PROVE Goal
  <2>1. r.pc = "repair"
    BY <1>15 DEF RepairAnswered
  <2>2. ASSUME call' = [call EXCEPT ![c].pc = "validate",
                                    ![c].spent = @ \cup Usage(c, TRUE)],
               log' = log, errors' = errors
        PROVE  Goal
    <3> DEFINE mid == [r EXCEPT !.pc = "validate"]
               spent == r.spent \cup Usage(c, TRUE)
               new == [mid EXCEPT !.spent = spent]
    <3>1. /\ mid \in CallState /\ mid.pc = "validate" /\ mid.routes = r.routes
          /\ mid.route = r.route /\ mid.attempt = r.attempt
      BY <1>1, <1>3, NewPc
    <3>2. call' = [call EXCEPT ![c] = new]
      BY <1>1, <2>2
    <3> HIDE DEF mid
    <3>3. /\ new \in CallState /\ new.pc = "validate" /\ new.routes = r.routes
          /\ new.route = r.route /\ new.attempt = r.attempt
      <4>1. spent \in SUBSET Answer
        <5>1. r.spent \in SUBSET Answer /\ Usage(c, TRUE) \in SUBSET Answer
          BY <1>13, <2>1, CallTyped
        <5> QED
          BY <5>1
      <4> HIDE DEF spent
      <4> QED
        BY <3>1, <4>1, NewSpent
    <3> HIDE DEF new, Goal
    <3> QED
      BY <1>6, <2>1, <2>2, <3>2, <3>3
  <2>3. ASSUME NEW class \in {"ModelOutputParseError", "ProviderTransientError"},
               HandleError(c, class)
        PROVE  Goal
    <3>1. class \in Classes /\ class \in Retryable \cup {"ProviderFatalError"}
      BY <1>4
    <3>2. CanFail(c, class)
      BY <2>1, <3>1 DEF CanFail
    <3> QED
      BY <1>5, <2>3, <3>1, <3>2
  <2> HIDE DEF Goal
  <2> QED
    BY <1>15, <2>2, <2>3 DEF RepairAnswered
<1>16. ASSUME Validate(c) PROVE Goal
  <2>1. r.pc = "validate"
    BY <1>16 DEF Validate
  <2>2. ASSUME Goto(c, "done"), log' = log, errors' = errors PROVE Goal
    <3> DEFINE new == [r EXCEPT !.pc = "done"]
    <3>1. /\ new \in CallState /\ new.pc = "done" /\ new.routes = r.routes
          /\ new.route = r.route /\ new.attempt = r.attempt
      BY <1>1, <1>3, NewPc
    <3>2. call' = [call EXCEPT ![c] = new]
      BY <1>1, <2>2 DEF Goto
    <3> HIDE DEF new, Goal
    <3> QED
      BY <1>6, <2>1, <2>2, <3>1, <3>2
  <2>3. ASSUME HandleError(c, "ModelOutputValidationError") PROVE Goal
    <3>1. CanFail(c, "ModelOutputValidationError")
      BY <1>4, <2>1 DEF CanFail
    <3> QED
      BY <1>4, <1>5, <2>3, <3>1
  <2> HIDE DEF Goal
  <2> QED
    BY <1>16, <2>2, <2>3 DEF Validate
<1>17. ASSUME Done(c) PROVE Goal
  <2> DEFINE new == [r EXCEPT !.pc = "returned"]
             e == [event |-> "done", model |-> Model(c), usage |-> UsageOfClient(c)]
  <2>1. r.pc = "done" /\ errors' = errors
    BY <1>17 DEF Done
  <2>2. /\ new \in CallState /\ new.pc = "returned" /\ new.routes = r.routes
        /\ new.route = r.route /\ new.attempt = r.attempt
    BY <1>1, <1>3, NewPc
  <2>3. call' = [call EXCEPT ![c] = new]
    BY <1>1, <1>17 DEF Done, Goto
  <2>4. log' = [log EXCEPT ![c] = Append(log[c], e)]
    BY <1>17 DEF Done
  <2>5. e \in Event
    <3>1. Model(c) \in Models /\ call[c].client \in Client
      BY <2>1, AtRoute DEF ClientFits, Asking
    <3>2. UsageOfClient(c) \in SUBSET Answer
      BY <3>1 DEF UsageOfClient, TypeOK
    <3>3. e \in Answered
      BY <3>1, <3>2 DEF Answered
    <3> QED
      BY <3>3 DEF Event
  <2> HIDE DEF new, e
  <2>6. /\ call' \in [Calls -> CallState] /\ call'[c] = new
        /\ \A d \in Calls \ {c} : call'[d] = call[d]
    BY <1>1, <2>2, <2>3, OneMoved
  <2>7. /\ log' \in [Calls -> Seq(Event)] /\ log'[c] = Append(log[c], e)
        /\ \A d \in Calls \ {c} : log'[d] = log[d]
    <3>1. Append(log[c], e) \in Seq(Event)
      BY <1>1, <2>5
    <3> QED
      BY <1>1, <2>4, <3>1, OneLogs
  <2>8. Returns(c) /\ Frame(c)
    BY <1>2, <2>1, <2>2, <2>6, <2>7 DEF Returns, Stays, Frame, e
  <2> QED
    BY <1>1, <2>1, <2>6, <2>7, <2>8 DEF Moves
<1> HIDE DEF Goal
<1>18. Goal
  BY <1>8, <1>9, <1>10, <1>11, <1>12, <1>14, <1>15, <1>16, <1>17 DEF CallStep
<1> QED
  BY <1>18 DEF Goal

-----------------------------------------------------------------------------
(* Where a call is and what its log says of it.                            *)

LEMMA Appended ==
    ASSUME NEW s \in Seq(Event), NEW x \in Event
    PROVE  /\ Append(s, x) \in Seq(Event) /\ Append(s, x) # << >>
           /\ Len(s) \in Nat /\ Len(Append(s, x)) = Len(s) + 1
           /\ Append(s, x)[Len(s) + 1] = x
           /\ \A i \in 1 .. Len(s) : Append(s, x)[i] = s[i]
OBVIOUS

\* A move of a call, with the types of what it logs.
LEMMA MoveTyped ==
    ASSUME TypeOK, NEW c \in Calls, FollowsChain(c), call[c].pc \notin {"begin", "raised"}
    PROVE  /\ Started(c) \in Event
           /\ Started(c).event = "start" /\ Started(c).model = Model(c)
           /\ \A class \in Classes : /\ Failure(c, class) \in Event
                                     /\ Failure(c, class).event = "error"
                                     /\ Failure(c, class).model = Model(c)
                                     /\ Failure(c, class).class = class
                                     /\ Failure(c, class).action = NextAction(c, class)
                                     /\ Failure(c, class).ref = Ref(c, class)
           /\ Fallback(c).event = "fallback"
           /\ ~LastRoute(c) => /\ Fallback(c) \in Event
                               /\ Fallback(c).model = call[c].routes[call[c].route + 1].model
<1>1. Model(c) \in Models /\ Started(c) \in Event
  BY AtRoute, StartedTyped
<1>2. Started(c).event = "start" /\ Started(c).model = Model(c)
  BY DEF Started
<1>3. ASSUME NEW class \in Classes
      PROVE  /\ Failure(c, class) \in Event
             /\ Failure(c, class).event = "error"
             /\ Failure(c, class).model = Model(c)
             /\ Failure(c, class).class = class
             /\ Failure(c, class).action = NextAction(c, class)
             /\ Failure(c, class).ref = Ref(c, class)
  BY <1>1, FailureTyped DEF Failure
<1>4. Fallback(c).event = "fallback"
      /\ Fallback(c).model = call[c].routes[call[c].route + 1].model
  BY DEF Fallback
<1>5. ASSUME ~LastRoute(c) PROVE Fallback(c) \in Event
  <2> DEFINE m == call[c].routes[call[c].route + 1].model
  <2>1. m \in Models
    BY <1>5, AtRoute
  <2> HIDE DEF m
  <2>2. [event |-> "fallback", model |-> m] \in Asked
    BY <2>1 DEF Asked
  <2> QED
    BY <2>2 DEF Fallback, Event, m
<1> QED
  BY <1>1, <1>2, <1>3, <1>4, <1>5

LEMMA FollowsChainKept ==
    ASSUME TypeOK, NEW c \in Calls, FollowsChain(c), config' = config, Moves(c)
    PROVE  FollowsChain(c)'
<1>1. Chain(c)' = Chain(c) /\ (Routable(config, Chain(c))' <=> Routable(config, Chain(c)))
  BY DEF Chain, Routable
<1>2. ASSUME Stays(c), call[c].pc \notin {"begin", "raised"}, call'[c].pc # "begin"
      PROVE  FollowsChain(c)'
  BY <1>1, <1>2 DEF FollowsChain, Stays
<1>3. CASE Refused(c)
  BY <1>1, <1>3 DEF Refused, Stays, FollowsChain
<1>4. CASE Begins(c)
  <2> DEFINE routes == RoutesOf(Chain(c))
  <2>1. routes \in Seq(Route) /\ Len(routes) \in Nat \ {0} /\ Routable(config, Chain(c))
    BY <1>4, RoutesTyped DEF Begins
  <2>2. routes[1] \in Route /\ routes # << >> /\ 1 \in 1 .. Len(routes)
    BY <2>1
  <2>3. routes[1].attempts \in Nat \ {0}
    <3> DEFINE r == routes[1]
    <3>1. r \in Route
      BY <2>2
    <3> HIDE DEF r
    <3>2. r.attempts \in Nat \ {0}
      BY <3>1 DEF Route
    <3> QED
      BY <3>2 DEF r
  <2>4. 1 \in 1 .. routes[1].attempts
    BY <2>3
  <2> HIDE DEF routes
  <2> QED
    BY <1>1, <1>4, <2>1, <2>2, <2>4 DEF Begins, FollowsChain, routes
<1>5. CASE Proceeds(c) \/ Asks(c) \/ Returns(c)
  BY <1>2, <1>5 DEF Proceeds, Asks, Returns
<1>6. ASSUME NEW class \in Classes, Retries(c, class) PROVE FollowsChain(c)'
  <2> DEFINE n == call[c].routes[call[c].route].attempts
  <2>1. call[c].pc \notin {"begin", "raised"}
    BY <1>6 DEF Retries, CanFail
  <2>2. n \in Nat /\ call[c].attempt \in 1 .. n /\ call[c].attempt # n
    BY <1>6, <2>1, AtRoute DEF Retries, Again, LastAttempt
  <2>3. call[c].attempt + 1 \in 1 .. n
    <3> HIDE DEF n
    <3> QED
      BY <2>2
  <2> QED
    BY <1>1, <1>6, <2>1, <2>3, AtRoute DEF Retries, FollowsChain
<1>7. ASSUME NEW class \in Classes, FallsBack(c, class) PROVE FollowsChain(c)'
  <2> DEFINE k == call[c].route + 1
             n == call[c].routes[k].attempts
  <2>1. call[c].pc \notin {"begin", "raised"}
    BY <1>7 DEF FallsBack, CanFail
  <2>2. k \in 1 .. Len(call[c].routes) /\ n \in Nat \ {0}
    BY <1>7, <2>1, AtRoute DEF FallsBack
  <2>3. 1 \in 1 .. n
    <3> HIDE DEF n
    <3> QED
      BY <2>2
  <2> HIDE DEF k
  <2> QED
    BY <1>1, <1>7, <2>1, <2>2, <2>3, AtRoute DEF FallsBack, FollowsChain, k
<1>8. ASSUME NEW class \in Classes, Raises(c, class) PROVE FollowsChain(c)'
  BY <1>2, <1>8 DEF Raises, CanFail
<1> QED
  BY <1>3, <1>4, <1>5, <1>6, <1>7, <1>8 DEF Moves, Fails

LEMMA LogTellsKept ==
    ASSUME TypeOK, NEW c \in Calls, FollowsChain(c), LogTells(c), Moves(c)
    PROVE  LogTells(c)'
<1>1. log[c] \in Seq(Event)
  BY CallTyped
<1>2. ASSUME NEW x \in Event, log'[c] = Append(log[c], x)
      PROVE  log'[c] # << >> /\ LastEvent(c)' = x
  BY <1>1, <1>2, Appended DEF LastEvent
<1>3. Stays(c) => Model(c)' = Model(c)
  BY DEF Stays, Model
<1>4. CASE Refused(c)
  BY <1>4 DEF Refused, Stays, FollowsChain, LogTells, Asking
<1>5. CASE Begins(c)
  BY <1>5 DEF Begins, LogTells, Asking
<1>6. CASE Proceeds(c)
  <2>1. log'[c] = log[c] /\ Model(c)' = Model(c) /\ LastEvent(c)' = LastEvent(c)
    BY <1>3, <1>6 DEF Proceeds, LastEvent
  <2>2. Asking(c)' => Asking(c)
    BY <1>6 DEF Proceeds, Asking
  <2>3. call'[c].pc \notin {"returned", "raised"}
    BY <1>6 DEF Proceeds
  <2> QED
    BY <2>1, <2>2, <2>3 DEF LogTells
<1>7. CASE Asks(c)
  <2>1. Started(c) \in Event /\ Started(c).event = "start" /\ Started(c).model = Model(c)
    BY <1>7, MoveTyped DEF Asks
  <2>2. log'[c] # << >> /\ LastEvent(c)' = Started(c)
    BY <1>2, <1>7, <2>1 DEF Asks
  <2> QED
    BY <1>3, <1>7, <2>1, <2>2 DEF Asks, LogTells
<1>8. CASE Returns(c)
  <2> DEFINE e == [event |-> "done", model |-> Model(c), usage |-> UsageOfClient(c)]
  <2>1. e.event = "done" /\ e.model = Model(c)
    OBVIOUS
  <2>2. log'[c] = Append(log[c], e) /\ call'[c].pc = "returned"
    BY <1>8 DEF Returns
  <2> HIDE DEF e
  <2>3. log'[c] # << >> /\ LastEvent(c)' = e
    BY <1>1, <2>2 DEF LastEvent
  <2> QED
    BY <1>3, <1>8, <2>1, <2>2, <2>3 DEF Returns, LogTells, Asking
<1>9. ASSUME NEW class \in Classes, Retries(c, class) \/ FallsBack(c, class)
      PROVE  LogTells(c)'
  BY <1>9 DEF Retries, FallsBack, LogTells, Asking
<1>10. ASSUME NEW class \in Classes, Raises(c, class)
       PROVE  LogTells(c)'
  <2> DEFINE e == Failure(c, class)
  <2>1. e \in Event /\ e.event = "error" /\ e.class = class
    <3>1. call[c].pc \notin {"begin", "raised"}
      BY <1>10 DEF Raises, CanFail
    <3> QED
      BY <3>1, MoveTyped
  <2>2. log'[c] = Append(log[c], e) /\ call'[c].pc = "raised" /\ Stays(c)
    BY <1>10 DEF Raises
  <2>3. class # "ConfigurationError" => LastRoute(c)
    BY <1>10 DEF Raises
  <2> HIDE DEF e
  <2>4. log'[c] # << >> /\ LastEvent(c)' = e
    BY <1>2, <2>1, <2>2
  <2> QED
    BY <2>1, <2>2, <2>3, <2>4 DEF LogTells, Asking, LastRoute, Stays
<1> QED
  BY <1>4, <1>5, <1>6, <1>7, <1>8, <1>9, <1>10 DEF Moves, Fails

-----------------------------------------------------------------------------
(* What is counted in the log.                                             *)

LEMMA CountAppended ==
    ASSUME NEW s \in Seq(Event), NEW x \in Event, NEW event, NEW model
    PROVE  /\ CountIn(s, event, model) \in Nat
           /\ CountIn(Append(s, x), event, model) =
                 IF x.event = event /\ x.model = model THEN CountIn(s, event, model) + 1
                 ELSE CountIn(s, event, model)
<1> DEFINE T == {y \in Event : y.event = event /\ y.model = model}
           counted(t) == {i \in DOMAIN t : t[i].event = event /\ t[i].model = model}
<1>1. \A t \in Seq(Event) : \A i \in DOMAIN t : t[i] \in Event
  OBVIOUS
<1>2. \A t \in Seq(Event) : Places(t, T) = counted(t)
  BY <1>1 DEF Places
<1>3. Append(s, x) \in Seq(Event)
  OBVIOUS
<1>4. CountIn(s, event, model) = Cardinality(Places(s, T))
      /\ CountIn(Append(s, x), event, model) = Cardinality(Places(Append(s, x), T))
  <2>1. Places(s, T) = counted(s) /\ Places(Append(s, x), T) = counted(Append(s, x))
    BY <1>2, <1>3
  <2> QED
    BY <2>1 DEF CountIn
<1>5. x \in T <=> x.event = event /\ x.model = model
  OBVIOUS
<1> HIDE DEF T
<1>6. /\ Cardinality(Places(s, T)) \in Nat
      /\ Cardinality(Places(Append(s, x), T)) =
            IF x \in T THEN Cardinality(Places(s, T)) + 1 ELSE Cardinality(Places(s, T))
  BY PlacesInAppend
<1> QED
  BY <1>4, <1>5, <1>6

LEMMA CountTyped ==
    ASSUME NEW s \in Seq(Event), NEW event, NEW model
    PROVE  CountIn(s, event, model) \in Nat
<1> DEFINE S == {i \in DOMAIN s : s[i].event = event /\ s[i].model = model}
<1>1. IsFiniteSet(1 .. Len(s)) /\ S \in SUBSET (1 .. Len(s))
  BY FS_Interval
<1>2. Cardinality(S) \in Nat
  BY <1>1, FS_Subset, FS_CardinalityType
<1> QED
  BY <1>2 DEF CountIn

LEMMA NoneCounted ==
    ASSUME NEW event, NEW model
    PROVE  CountIn(<< >>, event, model) = 0
<1> DEFINE S == {i \in DOMAIN << >> : << >>[i].event = event /\ << >>[i].model = model}
<1>1. S = {}
  OBVIOUS
<1> QED
  BY <1>1, FS_EmptySet DEF CountIn

LEMMA CountedKept ==
    ASSUME TypeOK, NEW c \in Calls, FollowsChain(c), Counted(c), Moves(c), log'[c] \in Seq(Event)
    PROVE  Counted(c)'
<1> DEFINE routes == call[c].routes
           k0 == call[c].route
           n0 == call[c].attempt
           here == Model(c)
           S(m) == CountIn(log[c], "start", m)
           E(m) == CountIn(log[c], "error", m)
           S1(m) == CountIn(log'[c], "start", m)
           E1(m) == CountIn(log'[c], "error", m)
<1>1. log[c] \in Seq(Event) /\ n0 \in Nat /\ k0 \in Nat /\ Len(routes) \in Nat
  BY CallTyped
<1>2. \A m : S(m) \in Nat /\ E(m) \in Nat
  BY <1>1, CountTyped
<1>0. Counted(c) <=>
         /\ \A k \in 1 .. Len(routes) :
               /\ k < k0 => S(routes[k].model) \in 1 .. routes[k].attempts
                            /\ E(routes[k].model) = S(routes[k].model)
               /\ k = k0 => CountsAt(call[c].pc, n0, LastEvent(c),
                                     S(routes[k].model), E(routes[k].model))
               /\ k0 < k => S(routes[k].model) = 0 /\ E(routes[k].model) = 0
         /\ \A m \in Models : (\A k \in 1 .. Len(routes) : routes[k].model # m) => S(m) = 0
  BY DEF Counted
<1>3. call'[c].routes = routes =>
       (Counted(c)' <=>
         /\ \A k \in 1 .. Len(routes) :
               /\ k < call'[c].route => S1(routes[k].model) \in 1 .. routes[k].attempts
                                        /\ E1(routes[k].model) = S1(routes[k].model)
               /\ k = call'[c].route => CountsAt(call'[c].pc, call'[c].attempt, LastEvent(c)',
                                                 S1(routes[k].model), E1(routes[k].model))
               /\ call'[c].route < k => S1(routes[k].model) = 0 /\ E1(routes[k].model) = 0
         /\ \A m \in Models : (\A k \in 1 .. Len(routes) : routes[k].model # m) => S1(m) = 0)
  BY DEF Counted
<1>4. call[c].pc \notin {"begin", "raised"} =>
         /\ here = routes[k0].model /\ k0 \in 1 .. Len(routes)
         /\ \A k \in 1 .. Len(routes) : k # k0 => routes[k].model # here
         /\ \A k \in 1 .. Len(routes) : routes[k].model \in Models /\ routes[k].attempts \in Nat \ {0}
         /\ n0 \in 1 .. routes[k0].attempts
         /\ CountsAt(call[c].pc, n0, LastEvent(c), S(here), E(here))
  <2>1. call[c].pc \notin {"begin", "raised"} =>
         /\ here = routes[k0].model /\ k0 \in 1 .. Len(routes)
         /\ \A k \in 1 .. Len(routes) : k # k0 => routes[k].model # here
         /\ \A k \in 1 .. Len(routes) : routes[k].model \in Models /\ routes[k].attempts \in Nat \ {0}
         /\ n0 \in 1 .. routes[k0].attempts
    BY AtRoute, SMTT(30)
  <2> QED
    BY <1>0, <2>1
<1>5. call[c].routes = << >> => log[c] = << >>
  BY DEF FollowsChain
<1> DEFINE stays == call'[c].routes = routes /\ call'[c].route = k0 /\ call'[c].attempt = n0
           pc == call[c].pc
           pc1 == call'[c].pc
           last == LastEvent(c)
           last1 == LastEvent(c)'
<1>6. Stays(c) <=> stays
  BY DEF Stays
\* The call stays at its route: only the counts of its model change.
<1>7. ASSUME pc \notin {"begin", "raised"}, stays,
             \A m : m # here => S1(m) = S(m) /\ E1(m) = E(m),
             CountsAt(pc1, n0, last1, S1(here), E1(here))
      PROVE  Counted(c)'
  <2> HIDE DEF routes, k0, n0, here, S, E, S1, E1, last, last1
  <2>1. ASSUME NEW k \in 1 .. Len(routes)
        PROVE  /\ k < k0 => S1(routes[k].model) \in 1 .. routes[k].attempts
                            /\ E1(routes[k].model) = S1(routes[k].model)
               /\ k = k0 => CountsAt(pc1, n0, last1, S1(routes[k].model), E1(routes[k].model))
               /\ k0 < k => S1(routes[k].model) = 0 /\ E1(routes[k].model) = 0
    <3>1. CASE k = k0
      BY <1>1, <1>4, <1>7, <3>1
    <3>2. CASE k # k0
      BY <1>0, <1>4, <1>7, <3>2
    <3> QED
      BY <3>1, <3>2
  <2>2. ASSUME NEW m \in Models, \A k \in 1 .. Len(routes) : routes[k].model # m
        PROVE  S1(m) = 0
    BY <1>0, <1>4, <1>7, <2>2
  <2> QED
    BY <1>3, <1>7, <2>1, <2>2 DEF n0, last1
<1>8. CASE Refused(c)
  <2>1. routes = << >> /\ call'[c].routes = routes /\ log'[c] = << >>
    BY <1>5, <1>8 DEF Refused, Stays, FollowsChain
  <2>2. \A m : S1(m) = 0
    BY <2>1, NoneCounted
  <2>3. Len(routes) = 0
    BY <2>1
  <2> HIDE DEF routes, k0, n0, here, S, E, S1, E1, last, last1
  <2> QED
    BY <1>3, <2>1, <2>2, <2>3
<1>9. CASE Begins(c)
  <2>1. log'[c] = << >> /\ call'[c].route = 1 /\ call'[c].attempt = 1 /\ pc1 = "resolve"
    BY <1>5, <1>9 DEF Begins, FollowsChain
  <2>2. \A m : S1(m) = 0 /\ E1(m) = 0
    BY <2>1, NoneCounted
  <2>3. CountsAt(pc1, 1, last1, 0, 0)
    BY <2>1 DEF CountsAt
  <2> HIDE DEF routes, k0, n0, here, S, E, S1, E1, last1
  <2>4. /\ \A k \in 1 .. Len(call'[c].routes) :
            /\ ~(k < call'[c].route)
            /\ S1(call'[c].routes[k].model) = 0 /\ E1(call'[c].routes[k].model) = 0
        /\ \A m \in Models : S1(m) = 0
    <3>1. \A n : \A k \in 1 .. n : ~(k < 1)
      OBVIOUS
    <3> QED
      BY <2>1, <2>2, <3>1
  <2> QED
    BY <2>1, <2>3, <2>4 DEF Counted, S1, E1, last1
<1>10. CASE Proceeds(c)
  <2>1. /\ pc \notin {"begin", "raised"} /\ stays /\ log'[c] = log[c]
        /\ \/ pc = "resolve" /\ pc1 = "create"
           \/ pc \in {"post", "repair", "validate"} /\ pc1 \in {"repair", "validate", "done"}
    BY <1>10 DEF Proceeds, Stays
  <2>2. \A m : S1(m) = S(m) /\ E1(m) = E(m)
    BY <2>1
  <2> HIDE DEF routes, k0, n0, here, S, E, S1, E1, last, last1
  <2>3. CountsAt(pc1, n0, last1, S1(here), E1(here))
    BY <1>4, <2>1, <2>2 DEF CountsAt
  <2> QED
    BY <1>7, <2>1, <2>2, <2>3
<1>11. CASE Asks(c)
  <2>1. /\ pc \in {"resolve", "create"} /\ pc1 = "post" /\ stays
        /\ log'[c] = Append(log[c], Started(c))
    BY <1>11 DEF Asks, Stays
  <2>2. Started(c) \in Event /\ Started(c).event = "start" /\ Started(c).model = here
    BY <2>1, MoveTyped
  <2>3. \A m : S1(m) = (IF m = here THEN S(m) + 1 ELSE S(m)) /\ E1(m) = E(m)
    <3>1. "start" # "error"
      OBVIOUS
    <3> QED
      BY <1>1, <2>1, <2>2, <3>1, CountAppended
  <2> HIDE DEF routes, k0, n0, here, S, E, S1, E1, last, last1
  <2>4. CountsAt(pc1, n0, last1, S1(here), E1(here))
    <3>1. S(here) = n0 - 1 /\ E(here) = n0 - 1
      BY <1>4, <2>1 DEF CountsAt
    <3>2. S1(here) = n0 /\ E1(here) = n0 - 1
      BY <1>1, <2>3, <3>1
    <3> QED
      BY <2>1, <3>2 DEF CountsAt
  <2> QED
    BY <1>7, <2>1, <2>3, <2>4
<1>12. CASE Returns(c)
  <2> DEFINE e == [event |-> "done", model |-> Model(c), usage |-> UsageOfClient(c)]
  <2>1. pc = "done" /\ pc1 = "returned" /\ stays /\ log'[c] = Append(log[c], e)
    BY <1>12 DEF Returns, Stays
  <2>2. e \in Event /\ e.event = "done"
    <3>1. e.event = "done"
      OBVIOUS
    <3> HIDE DEF e
    <3>2. Append(log[c], e) \in Seq(Event) /\ Len(log[c]) \in Nat
      BY <1>1, <2>1
    <3>3. Append(log[c], e)[Len(log[c]) + 1] = e /\ Len(Append(log[c], e)) = Len(log[c]) + 1
      BY <1>1
    <3>4. Len(log[c]) + 1 \in 1 .. Len(Append(log[c], e))
      BY <3>2, <3>3
    <3> QED
      BY <3>1, <3>2, <3>3, <3>4
  <2>3. \A m : S1(m) = S(m) /\ E1(m) = E(m)
    <3>1. "done" # "error" /\ "done" # "start"
      OBVIOUS
    <3> HIDE DEF e
    <3> QED
      BY <1>1, <2>1, <2>2, <3>1, CountAppended
  <2> HIDE DEF routes, k0, n0, here, S, E, S1, E1, last, last1, e
  <2>4. CountsAt(pc1, n0, last1, S1(here), E1(here))
    BY <1>4, <2>1, <2>3 DEF CountsAt
  <2> QED
    BY <1>7, <2>1, <2>3, <2>4
<1>13. ASSUME NEW class \in Classes, CanFail(c, class)
       PROVE  /\ pc \notin {"begin", "raised"}
              /\ E(here) = n0 - 1
              /\ \/ pc = "resolve" /\ class = "ConfigurationError" /\ S(here) = n0 - 1
                 \/ class # "ConfigurationError" /\ S(here) = n0
              /\ \A s : s = Append(log[c], Failure(c, class)) =>
                    /\ s \in Seq(Event)
                    /\ \A m : /\ CountIn(s, "start", m) = S(m)
                              /\ CountIn(s, "error", m) = IF m = here THEN E(m) + 1 ELSE E(m)
  <2>1. \/ pc = "resolve" /\ class = "ConfigurationError"
        \/ pc \in {"post", "repair", "validate"} /\ class # "ConfigurationError"
    BY <1>13 DEF CanFail, Retryable
  <2>2. pc \notin {"begin", "raised"}
    BY <2>1
  <2>3. CountsAt(pc, n0, last, S(here), E(here))
    BY <1>4, <2>2
  <2>4. /\ Failure(c, class) \in Event /\ Failure(c, class).event = "error"
        /\ Failure(c, class).model = here
    BY <2>2, MoveTyped
  <2>5. Append(log[c], Failure(c, class)) \in Seq(Event)
    BY <1>1, <2>4
  <2>6. ASSUME NEW m
        PROVE  /\ CountIn(Append(log[c], Failure(c, class)), "start", m) = S(m)
               /\ CountIn(Append(log[c], Failure(c, class)), "error", m)
                     = IF m = here THEN E(m) + 1 ELSE E(m)
    <3>1. "error" # "start"
      OBVIOUS
    <3> QED
      BY <1>1, <2>4, <3>1, CountAppended
  <2>7. E(here) = n0 - 1 /\ (pc = "resolve" => S(here) = n0 - 1)
        /\ (pc # "resolve" => S(here) = n0)
    <3> HIDE DEF S, E, n0, here, last
    <3> QED
      BY <2>1, <2>3 DEF CountsAt
  <2> QED
    BY <2>1, <2>2, <2>5, <2>6, <2>7
<1>14. ASSUME NEW class \in Classes, Retries(c, class) PROVE Counted(c)'
  <2>1. /\ pc1 = "resolve" /\ call'[c].routes = routes /\ call'[c].route = k0
        /\ call'[c].attempt = n0 + 1 /\ CanFail(c, class) /\ class # "ConfigurationError"
        /\ log'[c] = Append(log[c], Failure(c, class))
    BY <1>14 DEF Retries, Again, Retryable
  <2>2. /\ pc \notin {"begin", "raised"}
        /\ E(here) = n0 - 1 /\ S(here) = n0
        /\ \A m : S1(m) = S(m) /\ E1(m) = IF m = here THEN E(m) + 1 ELSE E(m)
    <3> HIDE DEF n0, here, pc
    <3> QED
      BY <1>13, <2>1
  <2> HIDE DEF routes, k0, n0, here, S, E, S1, E1, last, last1
  <2>3. CountsAt(pc1, n0 + 1, last1, S1(here), E1(here))
    <3>1. S1(here) = (n0 + 1) - 1 /\ E1(here) = (n0 + 1) - 1
      BY <1>1, <2>2
    <3> DEFINE n1 == n0 + 1
               starts == S1(here)
               errs == E1(here)
    <3>2. starts = n1 - 1 /\ errs = n1 - 1
      BY <3>1
    <3> HIDE DEF n1, starts, errs
    <3>3. CountsAt("resolve", n1, last1, starts, errs)
      BY <3>2, Zenon DEF CountsAt
    <3> QED
      BY <2>1, <3>3 DEF n1, starts, errs
  <2>4. ASSUME NEW k \in 1 .. Len(routes)
        PROVE  /\ k < k0 => S1(routes[k].model) \in 1 .. routes[k].attempts
                            /\ E1(routes[k].model) = S1(routes[k].model)
               /\ k = k0 => CountsAt(pc1, n0 + 1, last1, S1(routes[k].model), E1(routes[k].model))
               /\ k0 < k => S1(routes[k].model) = 0 /\ E1(routes[k].model) = 0
    <3>1. CASE k = k0
      BY <1>1, <1>4, <2>2, <2>3, <3>1
    <3>2. CASE k # k0
      BY <1>0, <1>4, <2>2, <3>2
    <3> QED
      BY <3>1, <3>2
  <2>5. ASSUME NEW m \in Models, \A k \in 1 .. Len(routes) : routes[k].model # m
        PROVE  S1(m) = 0
    BY <1>0, <2>2, <2>5
  <2> QED
    BY <1>3, <2>1, <2>4, <2>5 DEF last1
<1>15. ASSUME NEW class \in Classes, FallsBack(c, class) PROVE Counted(c)'
  <2> DEFINE e == Failure(c, class)
             f == Fallback(c)
             s == Append(log[c], e)
  <2>1. /\ pc1 = "resolve" /\ call'[c].routes = routes /\ call'[c].route = k0 + 1
        /\ call'[c].attempt = 1 /\ CanFail(c, class) /\ class # "ConfigurationError"
        /\ log'[c] = Append(s, f) /\ ~LastRoute(c)
    BY <1>15 DEF FallsBack
  <2>2. /\ pc \notin {"begin", "raised"}
        /\ E(here) = n0 - 1 /\ S(here) = n0 /\ s \in Seq(Event)
        /\ \A m : /\ CountIn(s, "start", m) = S(m)
                  /\ CountIn(s, "error", m) = IF m = here THEN E(m) + 1 ELSE E(m)
    <3> HIDE DEF n0, here, pc
    <3> QED
      BY <1>13, <2>1
  <2>3. f \in Event /\ f.event = "fallback"
    BY <2>1, <2>2, MoveTyped
  <2>4. \A m : S1(m) = S(m) /\ E1(m) = IF m = here THEN E(m) + 1 ELSE E(m)
    <3>1. "fallback" # "start" /\ "fallback" # "error"
      OBVIOUS
    <3> HIDE DEF s, f
    <3>2. \A m : S1(m) = CountIn(s, "start", m) /\ E1(m) = CountIn(s, "error", m)
      BY <2>1, <2>2, <2>3, <3>1, CountAppended
    <3> QED
      BY <2>2, <3>2
  <2> HIDE DEF routes, k0, n0, here, S, E, S1, E1, last, last1, s, e, f
  <2>5. /\ S1(here) \in 1 .. routes[k0].attempts /\ E1(here) = S1(here)
    BY <1>1, <1>4, <2>2, <2>4
  <2>6. ASSUME NEW k \in 1 .. Len(routes)
        PROVE  /\ k < k0 + 1 => S1(routes[k].model) \in 1 .. routes[k].attempts
                                /\ E1(routes[k].model) = S1(routes[k].model)
               /\ k = k0 + 1 => CountsAt(pc1, 1, last1, S1(routes[k].model), E1(routes[k].model))
               /\ k0 + 1 < k => S1(routes[k].model) = 0 /\ E1(routes[k].model) = 0
    <3>1. CASE k = k0
      BY <1>1, <1>4, <2>2, <2>5, <3>1
    <3>2. CASE k < k0
      BY <1>0, <1>1, <1>4, <2>2, <2>4, <3>2
    <3>3. CASE k0 < k
      <4>1. S1(routes[k].model) = 0 /\ E1(routes[k].model) = 0
        BY <1>0, <1>1, <1>4, <2>2, <2>4, <3>3, SMTT(30)
      <4>2. CountsAt(pc1, 1, last1, 0, 0)
        BY <2>1 DEF CountsAt
      <4>3. ~(k < k0 + 1)
        BY <1>1, <3>3
      <4> QED
        BY <4>1, <4>2, <4>3
    <3> QED
      BY <1>1, <3>1, <3>2, <3>3
  <2>7. ASSUME NEW m \in Models, \A k \in 1 .. Len(routes) : routes[k].model # m
        PROVE  S1(m) = 0
    BY <1>0, <2>4, <2>7
  <2> QED
    BY <1>3, <2>1, <2>6, <2>7 DEF last1
<1>16. ASSUME NEW class \in Classes, Raises(c, class) PROVE Counted(c)'
  <2> DEFINE e == Failure(c, class)
  <2>1. /\ pc1 = "raised" /\ stays /\ CanFail(c, class) /\ log'[c] = Append(log[c], e)
    BY <1>16 DEF Raises, Stays
  <2>2. /\ pc \notin {"begin", "raised"}
        /\ E(here) = n0 - 1
        /\ (class = "ConfigurationError" /\ S(here) = n0 - 1) \/ S(here) = n0
        /\ \A m : S1(m) = S(m) /\ E1(m) = IF m = here THEN E(m) + 1 ELSE E(m)
    <3> HIDE DEF n0, here, pc
    <3> QED
      BY <1>13, <2>1
  <2>3. last1.class = class
    <3>1. e \in Event /\ e.class = class
      BY <2>2, MoveTyped
    <3> HIDE DEF e
    <3>2. last1 = e
      BY <1>1, <2>1, <3>1, Appended DEF LastEvent
    <3> QED
      BY <3>1, <3>2
  <2> HIDE DEF routes, k0, n0, here, S, E, S1, E1, last, last1, e
  <2>4. CountsAt(pc1, n0, last1, S1(here), E1(here))
    <3>1. E1(here) = n0 /\ S1(here) = S(here)
      BY <1>1, <2>2
    <3> QED
      BY <2>1, <2>2, <2>3, <3>1 DEF CountsAt
  <2> QED
    BY <1>7, <2>1, <2>2, <2>4
<1> QED
  BY <1>8, <1>9, <1>10, <1>11, <1>12, <1>14, <1>15, <1>16 DEF Moves, Fails

-----------------------------------------------------------------------------
(* What error events announce.                                             *)

\* Events that are no longer the last keep what was announced, if what follows
\* them is as they said.
LEMMA StillTaken ==
    ASSUME TypeOK, NEW c \in Calls, ActionsTaken(c), LogTells(c),
           call[c].pc \notin {"begin", "raised"}, NEW x \in Event, log'[c][Len(log[c]) + 1] = x,
           \A i \in 1 .. Len(log[c]) : log'[c][i] = log[c][i],
           Len(log[c]) < Len(log'[c]), Len(log'[c]) \in Nat,
           \/ x.event \in {"start", "error"} /\ x.model = Model(c)
           \/ call[c].pc = "done"
    PROVE  \A i \in 1 .. Len(log[c]) : TakenAt(c, i)'
<1> SUFFICES ASSUME NEW i \in 1 .. Len(log[c]), log[c][i].event = "error"
             PROVE  TakenAt(c, i)'
  BY DEF TakenAt
<1> DEFINE n == Len(log[c])
           e == log[c][i]
<1>1. n \in Nat /\ i # Len(log'[c]) /\ log'[c][i] = e
  BY CallTyped
<1>2. /\ e.class = "ConfigurationError" <=> e.action = "raise_configuration_error"
      /\ e.action = "retry_same_model" =>
            IF i = n THEN ~Ended(c) /\ Model(c) = e.model
            ELSE log[c][i + 1].event \in {"start", "error"} /\ log[c][i + 1].model = e.model
      /\ e.action = "fallback_model" =>
            /\ i # n
            /\ log[c][i + 1].event = "fallback" /\ log[c][i + 1].model # e.model
      /\ e.action \notin {"exhausted", "raise_configuration_error"}
  <2>1. TakenAt(c, i)
    BY DEF ActionsTaken
  <2> QED
    BY <2>1 DEF TakenAt
<1>3. CASE i = n
  <2>1. log[c] # << >> /\ LastEvent(c) = e
    BY <1>3 DEF LastEvent
  <2>2. call[c].pc # "done"
    BY <2>1 DEF LogTells, Asking
  <2>3. e.action # "fallback_model" /\ (e.action = "retry_same_model" => Model(c) = e.model)
    BY <1>2, <1>3
  <2>4. log'[c][i + 1] = x
    BY <1>3
  <2> HIDE DEF e, n
  <2> QED
    BY <1>1, <1>2, <2>2, <2>3, <2>4 DEF TakenAt
<1>4. CASE i # n
  <2>1. i + 1 \in 1 .. n
    BY <1>1, <1>4
  <2>2. log'[c][i + 1] = log[c][i + 1]
    BY <2>1
  <2> HIDE DEF e, n
  <2> QED
    BY <1>1, <1>2, <1>4, <2>2 DEF TakenAt
<1> QED
  BY <1>3, <1>4

LEMMA ActionsTakenKept ==
    ASSUME TypeOK, NEW c \in Calls, FollowsChain(c), ActionsTaken(c), LogTells(c), Moves(c),
           log'[c] \in Seq(Event)
    PROVE  ActionsTaken(c)'
<1> DEFINE n == Len(log[c])
<1>1. log[c] \in Seq(Event) /\ n \in Nat
  BY CallTyped
<1>2. CASE Refused(c) \/ Begins(c)
  <2>1. log'[c] = << >>
    BY <1>2 DEF Refused, Begins, FollowsChain
  <2> QED
    BY <2>1 DEF ActionsTaken
<1>3. CASE Proceeds(c)
  <2>1. log'[c] = log[c] /\ Model(c)' = Model(c) /\ ~Ended(c)' /\ call[c].pc # "raised"
    BY <1>3 DEF Proceeds, Stays, Model, Ended
  <2>2. ASSUME NEW i \in 1 .. Len(log[c]) PROVE TakenAt(c, i)'
    BY <2>1 DEF ActionsTaken, TakenAt
  <2> QED
    BY <2>1, <2>2 DEF ActionsTaken
\* One event is logged.
<1>4. ASSUME NEW x \in Event, log'[c] = Append(log[c], x), call[c].pc \notin {"begin", "raised"},
             \/ x.event \in {"start", "error"} /\ x.model = Model(c)
             \/ call[c].pc = "done",
             \A i : i = n + 1 => TakenAt(c, i)'
      PROVE  ActionsTaken(c)'
  <2>1. /\ Len(log'[c]) = n + 1 /\ log'[c][n + 1] = x
        /\ \A i \in 1 .. n : log'[c][i] = log[c][i]
    BY <1>1, <1>4, Appended
  <2>2. n < Len(log'[c]) /\ Len(log'[c]) \in Nat
    BY <1>1, <2>1
  <2>3. \A i \in 1 .. n : TakenAt(c, i)'
    BY <1>4, <2>1, <2>2, StillTaken
  <2>4. \A i \in 1 .. n + 1 : i \in 1 .. n \/ i = n + 1
    BY <1>1
  <2>5. \A i \in 1 .. Len(log'[c]) : TakenAt(c, i)'
    BY <1>4, <2>1, <2>3, <2>4
  <2> QED
    BY <2>5 DEF ActionsTaken
<1>5. CASE Asks(c)
  <2>1. /\ call[c].pc \notin {"begin", "raised"} /\ log'[c] = Append(log[c], Started(c))
    BY <1>5 DEF Asks
  <2>2. Started(c) \in Event /\ Started(c).event = "start" /\ Started(c).model = Model(c)
    BY <2>1, MoveTyped
  <2>3. \A i : i = n + 1 => TakenAt(c, i)'
    BY <1>1, <2>1, <2>2 DEF TakenAt
  <2> QED
    BY <1>4, <2>1, <2>2, <2>3
<1>6. CASE Returns(c)
  <2> DEFINE e == [event |-> "done", model |-> Model(c), usage |-> UsageOfClient(c)]
  <2>1. call[c].pc = "done" /\ log'[c] = Append(log[c], e)
    BY <1>6 DEF Returns
  <2>2. e.event = "done"
    OBVIOUS
  <2> HIDE DEF e
  <2>3. log'[c][n + 1] = e /\ n + 1 \in 1 .. Len(log'[c])
    BY <1>1, <2>1
  <2>4. e \in Event
    BY <2>3
  <2>5. \A i : i = n + 1 => TakenAt(c, i)'
    BY <2>2, <2>3 DEF TakenAt
  <2> QED
    BY <1>4, <2>1, <2>4, <2>5
<1>7. ASSUME NEW class \in Classes, CanFail(c, class)
      PROVE  /\ call[c].pc \notin {"begin", "raised"}
             /\ Failure(c, class) \in Event /\ Failure(c, class).event = "error"
             /\ Failure(c, class).model = Model(c) /\ Failure(c, class).class = class
             /\ Failure(c, class).action = NextAction(c, class)
             /\ class = "ConfigurationError" <=> NextAction(c, class) = "raise_configuration_error"
  <2>1. call[c].pc \notin {"begin", "raised"}
    BY <1>7 DEF CanFail
  <2>2. class = "ConfigurationError" <=> NextAction(c, class) = "raise_configuration_error"
    BY DEF NextAction, Retryable
  <2> QED
    BY <2>1, <2>2, MoveTyped
<1>8. ASSUME NEW class \in Classes, Retries(c, class) PROVE ActionsTaken(c)'
  <2> DEFINE e == Failure(c, class)
  <2>1. /\ CanFail(c, class) /\ log'[c] = Append(log[c], e) /\ call'[c].pc = "resolve"
        /\ Model(c)' = Model(c)
    BY <1>8 DEF Retries, Model
  <2>2. class # "ConfigurationError" /\ NextAction(c, class) = "retry_same_model"
    BY <1>8 DEF Retries, Again, NextAction, Retryable
  <2>3. e \in Event /\ e.event = "error" /\ e.model = Model(c) /\ e.class = class
        /\ e.action = "retry_same_model" /\ call[c].pc \notin {"begin", "raised"}
    BY <1>7, <2>1, <2>2
  <2> HIDE DEF e
  <2>4. log'[c][n + 1] = e /\ Len(log'[c]) = n + 1
    BY <1>1, <2>1, <2>3, Appended
  <2>5. ~Ended(c)'
    BY <2>1 DEF Ended
  <2>6. \A i : i = n + 1 => TakenAt(c, i)'
    BY <2>1, <2>2, <2>3, <2>4, <2>5 DEF TakenAt
  <2> QED
    BY <1>4, <2>1, <2>3, <2>6
<1>9. ASSUME NEW class \in Classes, Raises(c, class) PROVE ActionsTaken(c)'
  <2> DEFINE e == Failure(c, class)
  <2>1. CanFail(c, class) /\ log'[c] = Append(log[c], e) /\ call'[c].pc = "raised"
    BY <1>9 DEF Raises
  <2>2. NextAction(c, class) \in {"exhausted", "raise_configuration_error"}
    BY <1>9 DEF Raises, Again, NextAction, Retryable
  <2>3. e \in Event /\ e.event = "error" /\ e.model = Model(c) /\ e.class = class
        /\ e.action \in {"exhausted", "raise_configuration_error"}
        /\ (class = "ConfigurationError" <=> e.action = "raise_configuration_error")
        /\ call[c].pc \notin {"begin", "raised"}
    BY <1>7, <2>1, <2>2
  <2> HIDE DEF e
  <2>4. log'[c][n + 1] = e /\ Len(log'[c]) = n + 1
    BY <1>1, <2>1, <2>3, Appended
  <2>5. \A i : i = n + 1 => TakenAt(c, i)'
    BY <2>1, <2>3, <2>4 DEF TakenAt
  <2> QED
    BY <1>4, <2>1, <2>3, <2>5
<1>10. ASSUME NEW class \in Classes, FallsBack(c, class) PROVE ActionsTaken(c)'
  <2> DEFINE e == Failure(c, class)
             f == Fallback(c)
             k == call[c].route
  <2>1. /\ CanFail(c, class) /\ log'[c] = Append(Append(log[c], e), f)
        /\ class # "ConfigurationError" /\ ~LastRoute(c)
    BY <1>10 DEF FallsBack
  <2>2. NextAction(c, class) = "fallback_model"
    BY <1>10 DEF FallsBack, Again, NextAction, Retryable
  <2>3. /\ e \in Event /\ e.event = "error" /\ e.model = Model(c) /\ e.class = class
        /\ e.action = "fallback_model" /\ call[c].pc \notin {"begin", "raised"}
    BY <1>7, <2>1, <2>2
  <2>4. f \in Event /\ f.event = "fallback" /\ f.model # Model(c)
    <3>1. /\ k + 1 \in 1 .. Len(call[c].routes) /\ k \in 1 .. Len(call[c].routes) /\ k + 1 # k
          /\ Model(c) = call[c].routes[k].model
      BY <2>1, <2>3, AtRoute
    <3>2. call[c].routes[k + 1].model # call[c].routes[k].model
      BY <2>3, <3>1, AtRoute
    <3> QED
      BY <2>1, <2>3, <3>1, <3>2, MoveTyped
  <2> HIDE DEF e, f
  <2>5. /\ Len(log'[c]) = n + 2 /\ log'[c][n + 1] = e /\ log'[c][n + 2] = f
        /\ \A i \in 1 .. n : log'[c][i] = log[c][i]
    <3>1. /\ Append(log[c], e) \in Seq(Event) /\ Len(Append(log[c], e)) = n + 1
          /\ Append(log[c], e)[n + 1] = e
          /\ \A i \in 1 .. n : Append(log[c], e)[i] = log[c][i]
      BY <1>1, <2>3, Appended
    <3> DEFINE s == Append(log[c], e)
    <3> HIDE DEF s
    <3>2. /\ Len(Append(s, f)) = Len(s) + 1 /\ Append(s, f)[Len(s) + 1] = f
          /\ \A i \in 1 .. Len(s) : Append(s, f)[i] = s[i]
      BY <2>4, <3>1, Appended DEF s
    <3>3. n + 1 \in 1 .. Len(s) /\ Len(s) + 1 = n + 2 /\ \A i \in 1 .. n : i \in 1 .. Len(s)
      BY <1>1, <3>1 DEF s
    <3> QED
      BY <2>1, <3>1, <3>2, <3>3 DEF s
  <2>6. \A i \in 1 .. n : TakenAt(c, i)'
    <3>1. n < Len(log'[c]) /\ Len(log'[c]) \in Nat
      BY <1>1, <2>5
    <3> QED
      BY <2>3, <2>5, <3>1, StillTaken
  <2>7. \A i : i = n + 1 => TakenAt(c, i)'
    <3>1. n + 1 # n + 2 /\ (n + 1) + 1 = n + 2
      BY <1>1
    <3> QED
      BY <2>1, <2>3, <2>4, <2>5, <3>1 DEF TakenAt
  <2>8. \A i : i = n + 2 => TakenAt(c, i)'
    BY <2>4, <2>5 DEF TakenAt
  <2>9. \A i \in 1 .. Len(log'[c]) : i \in 1 .. n \/ i = n + 1 \/ i = n + 2
    BY <1>1, <2>5
  <2>10. \A i \in 1 .. Len(log'[c]) : TakenAt(c, i)'
    BY <2>6, <2>7, <2>8, <2>9
  <2> QED
    BY <2>10 DEF ActionsTaken
<1> QED
  BY <1>2, <1>3, <1>5, <1>6, <1>8, <1>9, <1>10 DEF Moves, Fails

\* A log only grows.
LEMMA LogGrows ==
    ASSUME TypeOK, NEW c \in Calls, Moves(c), log'[c] \in Seq(Event)
    PROVE  /\ Len(log[c]) \in Nat /\ Len(log'[c]) \in Nat /\ Len(log[c]) <= Len(log'[c])
           /\ \A i \in 1 .. Len(log[c]) : log'[c][i] = log[c][i]
<1> DEFINE s == log[c]
<1>1. s \in Seq(Event) /\ Len(s) \in Nat /\ Len(log'[c]) \in Nat
  BY CallTyped
<1>2. ASSUME NEW x
      PROVE  /\ Len(Append(s, x)) = Len(s) + 1
             /\ \A i \in 1 .. Len(s) : Append(s, x)[i] = s[i]
  BY <1>1
<1>3. ASSUME NEW x, NEW y
      PROVE  /\ Len(Append(Append(s, x), y)) = Len(s) + 2
             /\ \A i \in 1 .. Len(s) : Append(Append(s, x), y)[i] = s[i]
  BY <1>1
<1>4. \/ log'[c] = s
      \/ \E x : log'[c] = Append(s, x)
      \/ \E x, y : log'[c] = Append(Append(s, x), y)
  <2>1. CASE Refused(c) \/ Begins(c) \/ Proceeds(c)
    BY <2>1 DEF Refused, Begins, Proceeds
  <2>2. CASE Asks(c)
    BY <2>2 DEF Asks
  <2>3. CASE Returns(c)
    BY <2>3 DEF Returns
  <2>4. ASSUME NEW class, Retries(c, class) \/ Raises(c, class)
        PROVE  \E x : log'[c] = Append(s, x)
    BY <2>4 DEF Retries, Raises
  <2>5. ASSUME NEW class, FallsBack(c, class)
        PROVE  \E x, y : log'[c] = Append(Append(s, x), y)
    BY <2>5 DEF FallsBack
  <2> QED
    BY <2>1, <2>2, <2>3, <2>4, <2>5 DEF Moves, Fails
<1>5. CASE log'[c] = s
  BY <1>1, <1>5
<1>6. ASSUME NEW x, log'[c] = Append(s, x)
      PROVE  Len(s) <= Len(log'[c]) /\ \A i \in 1 .. Len(s) : log'[c][i] = s[i]
  BY <1>1, <1>2, <1>6
<1>7. ASSUME NEW x, NEW y, log'[c] = Append(Append(s, x), y)
      PROVE  Len(s) <= Len(log'[c]) /\ \A i \in 1 .. Len(s) : log'[c][i] = s[i]
  BY <1>1, <1>3, <1>7
<1> QED
  BY <1>1, <1>4, <1>5, <1>6, <1>7

\* What is new in a log.
LEMMA NewInLog ==
    ASSUME TypeOK, NEW c \in Calls, FollowsChain(c), Moves(c), log'[c] \in Seq(Event),
           NEW i \in 1 .. Len(log'[c])
    PROVE  \/ i \in 1 .. Len(log[c])
           \/ Asks(c) /\ log'[c][i] = Started(c)
           \/ Returns(c) /\ log'[c][i] = [event |-> "done", model |-> Model(c),
                                          usage |-> UsageOfClient(c)]
           \/ \E class \in Classes : /\ Fails(c, class) /\ RecordModelOutputError(c, class)
                                      /\ log'[c][i] = Failure(c, class)
           \/ \E class \in Classes : FallsBack(c, class) /\ log'[c][i] = Fallback(c)
<1> DEFINE s == log[c]
<1>1. s \in Seq(Event) /\ Len(s) \in Nat
  BY CallTyped
<1>2. ASSUME NEW x, log'[c] = Append(s, x)
      PROVE  i \in 1 .. Len(s) \/ log'[c][i] = x
  <2>1. Len(log'[c]) = Len(s) + 1 /\ log'[c][Len(s) + 1] = x
    BY <1>1, <1>2
  <2>2. i \in 1 .. Len(s) \/ i = Len(s) + 1
    BY <1>1, <2>1
  <2> QED
    BY <2>1, <2>2
<1>3. ASSUME NEW x, NEW y, log'[c] = Append(Append(s, x), y)
      PROVE  i \in 1 .. Len(s) \/ log'[c][i] = x \/ log'[c][i] = y
  <2>1. /\ Len(log'[c]) = Len(s) + 2 /\ log'[c][Len(s) + 1] = x
        /\ log'[c][Len(s) + 2] = y
    BY <1>1, <1>3
  <2>2. i \in 1 .. Len(s) \/ i = Len(s) + 1 \/ i = Len(s) + 2
    BY <1>1, <2>1
  <2> QED
    BY <2>1, <2>2
<1> HIDE DEF s
<1>4. CASE Refused(c) \/ Begins(c) \/ Proceeds(c)
  BY <1>4 DEF Refused, Begins, Proceeds, s
<1>5. CASE Asks(c)
  BY <1>2, <1>5 DEF Asks, s
<1>6. CASE Returns(c)
  BY <1>2, <1>6 DEF Returns, s
<1>7. ASSUME NEW class \in Classes, Retries(c, class) \/ Raises(c, class)
      PROVE  i \in 1 .. Len(s) \/ (Fails(c, class) /\ log'[c][i] = Failure(c, class))
  <2>1. log'[c] = Append(s, Failure(c, class)) /\ Fails(c, class)
    BY <1>7 DEF Retries, Raises, Fails, s
  <2> QED
    BY <1>2, <2>1
<1>8. ASSUME NEW class \in Classes, FallsBack(c, class)
      PROVE  \/ i \in 1 .. Len(s) \/ (Fails(c, class) /\ log'[c][i] = Failure(c, class))
             \/ (FallsBack(c, class) /\ log'[c][i] = Fallback(c))
  <2>1. log'[c] = Append(Append(s, Failure(c, class)), Fallback(c)) /\ Fails(c, class)
    BY <1>8 DEF FallsBack, Fails, s
  <2> QED
    BY <1>3, <1>8, <2>1
<1> QED
  BY <1>4, <1>5, <1>6, <1>7, <1>8 DEF Moves, Fails, s

LEMMA FatalIsPassedKept ==
    ASSUME TypeOK, NEW c \in Calls, FollowsChain(c), FatalIsPassed(c), Moves(c),
           log'[c] \in Seq(Event)
    PROVE  FatalIsPassed(c)'
<1> DEFINE n == Len(log[c])
           routes == call[c].routes
           k0 == call[c].route
           fatal(e) == e.event = "error" /\ e.class = "ProviderFatalError"
           passed(m) == \E k \in 1 .. k0 : k \in 1 .. Len(routes) /\ routes[k].model = m
                                           /\ (k = k0 => call[c].pc = "raised")
           passed1(m) == \E k \in 1 .. call'[c].route :
                            /\ k \in 1 .. Len(call'[c].routes) /\ call'[c].routes[k].model = m
                            /\ (k = call'[c].route => call'[c].pc = "raised")
<1>1. /\ n \in Nat /\ Len(log'[c]) \in Nat /\ n <= Len(log'[c])
      /\ \A i \in 1 .. n : log'[c][i] = log[c][i]
      /\ k0 \in Nat
  BY LogGrows, CallTyped
<1>2. CASE Refused(c) \/ Begins(c)
  <2>1. log'[c] = << >>
    BY <1>2 DEF Refused, Begins, FollowsChain
  <2> QED
    BY <2>1 DEF FatalIsPassed
<1>3. CASE ~Refused(c) /\ ~Begins(c)
  <2>1. call[c].pc \notin {"begin", "raised"} /\ call'[c].routes = routes
    BY <1>3 DEF Moves, Proceeds, Asks, Returns, Fails, Retries, FallsBack, Raises, CanFail, Stays
  <2>2. call'[c].route = k0 \/ call'[c].route = k0 + 1
    BY <1>3 DEF Moves, Proceeds, Asks, Returns, Fails, Retries, FallsBack, Raises, Stays
  <2>3. ASSUME NEW m, passed(m) PROVE passed1(m)
    <3>1. PICK k \in 1 .. k0 : k \in 1 .. Len(routes) /\ routes[k].model = m /\ k # k0
      BY <2>1, <2>3
    <3>2. k \in 1 .. call'[c].route /\ k # call'[c].route
      BY <1>1, <2>2, <3>1
    <3> QED
      BY <2>1, <3>1, <3>2
  <2>4. ASSUME NEW m, passed(m) PROVE Model(c) # m
    <3>1. PICK k \in 1 .. k0 : k \in 1 .. Len(routes) /\ routes[k].model = m /\ k # k0
      BY <2>1, <2>4
    <3> QED
      BY <2>1, <3>1, AtRoute
  <2>5. ASSUME NEW i \in 1 .. n, fatal(log[c][i])
        PROVE  passed(log[c][i].model)
    BY <2>5 DEF FatalIsPassed
  <2>6. ASSUME NEW i \in 1 .. Len(log'[c]), fatal(log'[c][i])
        PROVE  passed1(log'[c][i].model)
    <3>1. CASE i \in 1 .. n
      <4>1. fatal(log[c][i]) /\ log'[c][i] = log[c][i]
        BY <1>1, <2>6, <3>1
      <4> DEFINE m == log[c][i].model
      <4>2. passed(m)
        BY <2>5, <3>1, <4>1
      <4> HIDE DEF m, passed, passed1
      <4>3. passed1(m)
        BY <2>3, <4>2
      <4> QED
        BY <4>1, <4>3 DEF m
    <3>2. CASE i \notin 1 .. n
      <4>1. PICK class \in Classes : Fails(c, class) /\ log'[c][i] = Failure(c, class)
        <5>1. log'[c][i].event = "error"
          BY <2>6
        <5>2. Started(c).event = "start" /\ Fallback(c).event = "fallback"
          BY <2>1, MoveTyped
        <5>3. [event |-> "done", model |-> Model(c), usage |-> UsageOfClient(c)].event = "done"
          OBVIOUS
        <5>4. log'[c][i] # Started(c) /\ log'[c][i] # Fallback(c)
              /\ log'[c][i] # [event |-> "done", model |-> Model(c), usage |-> UsageOfClient(c)]
          BY <5>1, <5>2, <5>3
        <5> QED
          BY <3>2, <5>4, NewInLog
      <4>2. class = "ProviderFatalError" /\ log'[c][i].model = Model(c)
        BY <2>1, <2>6, <4>1, MoveTyped
      <4>3. \/ FallsBack(c, class) /\ call'[c].route = k0 + 1
            \/ call'[c].pc = "raised" /\ call'[c].route = k0
        BY <4>1, <4>2 DEF Fails, Retries, Again, Retryable, FallsBack, Raises, Stays
      <4>4. k0 \in 1 .. Len(routes) /\ routes[k0].model = Model(c)
        BY <2>1, AtRoute
      <4>5. k0 \in 1 .. call'[c].route /\ (k0 = call'[c].route => call'[c].pc = "raised")
        BY <1>1, <4>3, <4>4
      <4> QED
        BY <2>1, <4>2, <4>4, <4>5
    <3> QED
      BY <3>1, <3>2
  <2>7. ASSUME NEW i \in 1 .. Len(log'[c]), fatal(log'[c][i]), NEW k \in 1 .. Len(log'[c]), i < k
        PROVE  log'[c][k].event # "start" \/ log'[c][k].model # log'[c][i].model
    <3>1. CASE k \in 1 .. n
      <4>1. i \in 1 .. n
        BY <1>1, <2>7, <3>1
      <4>2. log[c][k].event # "start" \/ log[c][k].model # log[c][i].model
        BY <1>1, <2>7, <3>1, <4>1 DEF FatalIsPassed
      <4> QED
        BY <1>1, <3>1, <4>1, <4>2
    <3>2. CASE k \notin 1 .. n /\ log'[c][k].event = "start"
      <4>1. Asks(c) /\ log'[c][k] = Started(c)
        <5>1. Fallback(c).event = "fallback" /\ \A class \in Classes : Failure(c, class).event = "error"
          BY <2>1, MoveTyped
        <5>2. [event |-> "done", model |-> Model(c), usage |-> UsageOfClient(c)].event = "done"
          OBVIOUS
        <5>3. /\ log'[c][k] # Fallback(c) /\ \A class \in Classes : log'[c][k] # Failure(c, class)
              /\ log'[c][k] # [event |-> "done", model |-> Model(c), usage |-> UsageOfClient(c)]
          BY <3>2, <5>1, <5>2
        <5> QED
          BY <3>2, <5>3, NewInLog
      <4>2. Len(log'[c]) = n + 1
        <5>1. log'[c] = Append(log[c], Started(c)) /\ log[c] \in Seq(Event)
          BY <4>1, CallTyped DEF Asks
        <5> QED
          BY <5>1
      <4>3. i \in 1 .. n
        BY <1>1, <2>7, <4>2
      <4>4. log'[c][k].model = Model(c)
        BY <2>1, <4>1, MoveTyped
      <4>5. fatal(log[c][i]) /\ log'[c][i] = log[c][i]
        BY <1>1, <2>7, <4>3
      <4> QED
        BY <2>4, <2>5, <4>3, <4>4, <4>5
    <3> QED
      BY <3>1, <3>2
  <2> QED
    BY <2>6, <2>7 DEF FatalIsPassed
<1> QED
  BY <1>2, <1>3

-----------------------------------------------------------------------------
(* Clients and what they hold.                                             *)

\* What a step does to the usage its client holds.
UsageMoves(c) ==
    \/ last_usage' = last_usage /\ call[c].pc \notin {"post", "repair"}
    \/ last_usage' = last_usage /\ call'[c].pc \in {"resolve", "raised"}
    \/ /\ call[c].pc = "post"
       /\ last_usage' = [last_usage EXCEPT ![call[c].client] = Usage(c, FALSE)]
    \/ /\ call[c].pc = "repair"
       /\ last_usage' = [last_usage EXCEPT
             ![call[c].client] = last_usage[call[c].client] \cup Usage(c, TRUE)]

\* What a step does to the client and the usage that are the call's own.
OwnMoves(c) ==
    /\ call'[c].pc = "post" =>
          call'[c].client \in Client /\ call'[c].client[1] = ProviderOf(Model(c))
    /\ call'[c].pc \in {"repair", "validate"} =>
          /\ call'[c].client = call[c].client
          /\ \/ /\ call[c].pc = "post" /\ call'[c].spent = Usage(c, FALSE)
                /\ last_usage' = [last_usage EXCEPT ![call[c].client] = Usage(c, FALSE)]
             \/ /\ call[c].pc = "repair" /\ call'[c].spent = call[c].spent \cup Usage(c, TRUE)
                /\ last_usage' = [last_usage EXCEPT
                      ![call[c].client] = last_usage[call[c].client] \cup Usage(c, TRUE)]
    /\ call'[c].pc \in {"done", "returned"} =>
          /\ call'[c].client = call[c].client /\ call'[c].spent = call[c].spent
          /\ last_usage' = last_usage

LEMMA FailureOwnsNothing ==
    ASSUME TypeOK, NEW c \in Calls, FollowsChain(c), NEW class \in Classes,
           CanFail(c, class), HandleError(c, class)
    PROVE  OwnMoves(c) /\ call'[c].pc \in {"resolve", "raised"}
<1>1. Fails(c, class)
  BY ErrorIsHandled
<1>2. call'[c].pc \in {"resolve", "raised"}
  BY <1>1 DEF Fails, Retries, FallsBack, Raises
<1> QED
  BY <1>2 DEF OwnMoves

LEMMA StepUsage ==
    ASSUME TypeOK, NEW c \in Calls, FollowsChain(c), CallStep(c)
    PROVE  UsageMoves(c) /\ OwnMoves(c)
<1> DEFINE r == call[c]
           Goal == UsageMoves(c) /\ OwnMoves(c)
<1>1. call \in [Calls -> CallState] /\ r \in CallState
  BY CallTyped DEF TypeOK
<1>2. /\ "ConfigurationError" \in Classes /\ "ProviderTransientError" \in Classes
      /\ "ProviderFatalError" \in Classes /\ "ModelOutputParseError" \in Classes
      /\ "ModelOutputValidationError" \in Classes
      /\ Retryable \cup {"ProviderFatalError"} =
            {"ProviderTransientError", "ProviderFatalError", "ModelOutputParseError",
             "ModelOutputValidationError"}
      /\ "raised" \in Pc /\ "post" \in Pc /\ "create" \in Pc /\ "repair" \in Pc
      /\ "validate" \in Pc /\ "done" \in Pc /\ "returned" \in Pc
  BY DEF Classes, Retryable, Pc
\* The call only goes on to another place.
<1>3. ASSUME NEW pc \in Pc, call' = [call EXCEPT ![c] = [r EXCEPT !.pc = pc]]
      PROVE  call'[c].pc = pc /\ call'[c].client = r.client /\ call'[c].spent = r.spent
  <2> DEFINE new == [r EXCEPT !.pc = pc]
  <2>1. new \in CallState /\ new.pc = pc /\ new.client = r.client /\ new.spent = r.spent
    BY <1>1, NewPc
  <2> HIDE DEF new
  <2>2. call'[c] = new
    BY <1>1, <1>3, <2>1 DEF new
  <2> QED
    BY <2>1, <2>2
\* A client is taken.
<1>4. ASSUME NEW client \in Client,
             call' = [call EXCEPT ![c] = [[r EXCEPT !.pc = "post"] EXCEPT !.client = client]]
      PROVE  call'[c].pc = "post" /\ call'[c].client = client
  <2> DEFINE mid == [r EXCEPT !.pc = "post"]
             new == [mid EXCEPT !.client = client]
  <2>1. mid \in CallState /\ mid.pc = "post"
    BY <1>1, <1>2, NewPc
  <2>2. call' = [call EXCEPT ![c] = new]
    BY <1>4
  <2> HIDE DEF mid
  <2>3. new.pc = "post" /\ new.client = client
    BY <2>1, NewClient
  <2> HIDE DEF new
  <2>4. call'[c] = new
    BY <1>1, <2>2
  <2> QED
    BY <2>3, <2>4
\* An answer is looked at.
<1>5. ASSUME NEW pc \in Pc, NEW spent,
             call' = [call EXCEPT ![c] = [[r EXCEPT !.pc = pc] EXCEPT !.spent = spent]]
      PROVE  call'[c].pc = pc /\ call'[c].client = r.client /\ call'[c].spent = spent
  <2> DEFINE mid == [r EXCEPT !.pc = pc]
             new == [mid EXCEPT !.spent = spent]
  <2>1. mid \in CallState /\ mid.pc = pc /\ mid.client = r.client
    BY <1>1, NewPc
  <2>2. call' = [call EXCEPT ![c] = new]
    BY <1>5
  <2> HIDE DEF mid
  <2>3. new.pc = pc /\ new.client = r.client /\ new.spent = spent
    BY <2>1 DEF CallState
  <2> HIDE DEF new
  <2>4. call'[c] = new
    BY <1>1, <2>2
  <2> QED
    BY <2>1, <2>3, <2>4
<1>6. ASSUME BeginCall(c) PROVE Goal
  <2>1. r.pc = "begin" /\ last_usage' = last_usage
    BY <1>6 DEF BeginCall
  <2>3. CASE Routable(config, Chain(c))
    <3> DEFINE routes == RoutesOf(Chain(c))
               mid == [r EXCEPT !.routes = routes]
               new == Attempt(mid, 1, 1)
               one == 1
    <3>1. call' = [call EXCEPT ![c] = new]
      BY <1>1, <1>6, <2>3 DEF BeginCall
    <3>2. routes \in Seq(Route)
      BY <2>3, RoutesTyped
    <3> HIDE DEF routes
    <3>3. mid \in CallState
      BY <1>1, <3>2, NewRoutes
    <3>4. one \in Nat
      OBVIOUS
    <3> HIDE DEF mid, one
    <3>5. Attempt(mid, one, one).pc = "resolve"
      BY <3>3, <3>4, NewAttempt
    <3>6. new.pc = "resolve"
      BY <3>5 DEF one
    <3> HIDE DEF new
    <3>7. call'[c] = new
      BY <1>1, <3>1
    <3> QED
      BY <2>1, <3>6, <3>7 DEF UsageMoves, OwnMoves
  <2>4. CASE ~Routable(config, Chain(c))
    <3>1. call' = [call EXCEPT ![c] = [r EXCEPT !.pc = "raised"]]
      BY <1>1, <1>6, <2>4 DEF BeginCall, Goto
    <3>2. call'[c].pc = "raised"
      BY <1>2, <1>3, <3>1
    <3> QED
      BY <2>1, <3>2 DEF UsageMoves, OwnMoves
  <2> QED
    BY <2>3, <2>4
<1>7. ASSUME Resolve(c) PROVE Goal
  <2> DEFINE p == ProviderOf(Model(c))
  <2>1. r.pc = "resolve" /\ last_usage' = last_usage /\ p \in Providers
    BY <1>7, AtRoute DEF Resolve
  <2>2. UsageMoves(c)
    BY <2>1 DEF UsageMoves
  <2>3. ASSUME clients[p] # None,
               call' = [call EXCEPT ![c].pc = "post", ![c].client = <<p, clients[p]>>]
        PROVE  OwnMoves(c)
    <3> DEFINE client == <<p, clients[p]>>
    <3>1. clients[p] \in Calls
      BY <2>1, <2>3 DEF TypeOK
    <3>2. client \in Client /\ client[1] = p
      BY <2>1, <3>1 DEF Client
    <3>3. call' = [call EXCEPT ![c] = [[r EXCEPT !.pc = "post"] EXCEPT !.client = client]]
      BY <1>1, <2>3
    <3> HIDE DEF client
    <3>4. call'[c].pc = "post" /\ call'[c].client = client
      BY <1>4, <3>2, <3>3
    <3> QED
      BY <3>2, <3>4 DEF OwnMoves
  <2>4. ASSUME Goto(c, "create") PROVE OwnMoves(c)
    <3>1. call' = [call EXCEPT ![c] = [r EXCEPT !.pc = "create"]]
      BY <1>1, <2>4 DEF Goto
    <3>2. call'[c].pc = "create"
      BY <1>2, <1>3, <3>1
    <3> QED
      BY <3>2 DEF OwnMoves
  <2>5. ASSUME HandleError(c, "ConfigurationError") PROVE OwnMoves(c)
    BY <1>2, <2>1, <2>5, FailureOwnsNothing DEF CanFail
  <2> QED
    BY <1>7, <2>2, <2>3, <2>4, <2>5 DEF Resolve
<1>8. ASSUME CreateClient(c) PROVE Goal
  <2> DEFINE p == ProviderOf(Model(c))
             client == <<p, c>>
  <2>1. r.pc = "create" /\ last_usage' = last_usage /\ p \in Providers
    BY <1>8, AtRoute DEF CreateClient
  <2>2. client \in Client /\ client[1] = p
    BY <2>1 DEF Client
  <2>3. call' = [call EXCEPT ![c] = [[r EXCEPT !.pc = "post"] EXCEPT !.client = client]]
    BY <1>1, <1>8 DEF CreateClient
  <2> HIDE DEF client
  <2>4. call'[c].pc = "post" /\ call'[c].client = client
    BY <1>4, <2>2, <2>3
  <2> QED
    BY <2>1, <2>2, <2>4 DEF OwnMoves, UsageMoves
<1>9. ASSUME PostFails(c) PROVE Goal
  <2>1. PICK class \in {"ProviderTransientError", "ProviderFatalError"} : HandleError(c, class)
    BY <1>9 DEF PostFails
  <2>2. class \in Classes /\ CanFail(c, class) /\ last_usage' = last_usage
    BY <1>2, <1>9 DEF PostFails, CanFail
  <2>3. OwnMoves(c) /\ call'[c].pc \in {"resolve", "raised"}
    BY <2>1, <2>2, FailureOwnsNothing
  <2> QED
    BY <2>2, <2>3 DEF UsageMoves
<1>10. ASSUME PostAnswered(c) PROVE Goal
  <2> DEFINE usage == Usage(c, FALSE)
  <2>1. r.pc = "post" /\ last_usage' = [last_usage EXCEPT ![r.client] = usage]
    BY <1>10 DEF PostAnswered
  <2>2. UsageMoves(c)
    BY <2>1 DEF UsageMoves
  <2>3. ASSUME NEW pc \in {"validate", "repair"},
               call' = [call EXCEPT ![c].pc = pc, ![c].spent = usage]
        PROVE  OwnMoves(c)
    <3>1. call' = [call EXCEPT ![c] = [[r EXCEPT !.pc = pc] EXCEPT !.spent = usage]]
      BY <1>1, <2>3
    <3>2. pc \in Pc
      BY <1>2
    <3> HIDE DEF usage
    <3>3. call'[c].pc = pc /\ call'[c].client = r.client /\ call'[c].spent = usage
      BY <1>5, <3>1, <3>2
    <3>4. pc \notin {"post", "done", "returned"}
      OBVIOUS
    <3> QED
      BY <2>1, <3>3, <3>4 DEF OwnMoves, usage
  <2>4. ASSUME HandleError(c, "ProviderTransientError") PROVE OwnMoves(c)
    BY <1>2, <2>1, <2>4, FailureOwnsNothing DEF CanFail
  <2> QED
    BY <1>10, <2>2, <2>3, <2>4 DEF PostAnswered
<1>11. ASSUME RepairAnswered(c) PROVE Goal
  <2> DEFINE usage == Usage(c, TRUE)
  <2>1. /\ r.pc = "repair"
        /\ last_usage' = [last_usage EXCEPT ![r.client] = last_usage[r.client] \cup usage]
    BY <1>11 DEF RepairAnswered, Combined
  <2>2. UsageMoves(c)
    BY <2>1 DEF UsageMoves
  <2>3. ASSUME call' = [call EXCEPT ![c].pc = "validate", ![c].spent = @ \cup usage]
        PROVE  OwnMoves(c)
    <3> DEFINE spent == r.spent \cup usage
    <3>1. call' = [call EXCEPT ![c] = [[r EXCEPT !.pc = "validate"] EXCEPT !.spent = spent]]
      BY <1>1, <2>3
    <3> HIDE DEF spent
    <3>2. call'[c].pc = "validate" /\ call'[c].client = r.client /\ call'[c].spent = spent
      BY <1>2, <1>5, <3>1
    <3> QED
      BY <2>1, <3>2 DEF OwnMoves, spent
  <2>4. ASSUME NEW class \in {"ModelOutputParseError", "ProviderTransientError"},
               HandleError(c, class)
        PROVE  OwnMoves(c)
    <3>1. class \in Classes /\ CanFail(c, class)
      BY <1>2, <2>1 DEF CanFail
    <3> QED
      BY <2>4, <3>1, FailureOwnsNothing
  <2> QED
    BY <1>11, <2>2, <2>3, <2>4 DEF RepairAnswered
<1>12. ASSUME Validate(c) PROVE Goal
  <2>1. r.pc = "validate" /\ last_usage' = last_usage
    BY <1>12 DEF Validate
  <2>2. ASSUME Goto(c, "done") PROVE OwnMoves(c)
    <3>1. call' = [call EXCEPT ![c] = [r EXCEPT !.pc = "done"]]
      BY <1>1, <2>2 DEF Goto
    <3>2. call'[c].pc = "done" /\ call'[c].client = r.client /\ call'[c].spent = r.spent
      BY <1>2, <1>3, <3>1
    <3> QED
      BY <2>1, <3>2 DEF OwnMoves
  <2>3. ASSUME HandleError(c, "ModelOutputValidationError") PROVE OwnMoves(c)
    BY <1>2, <2>1, <2>3, FailureOwnsNothing DEF CanFail
  <2> QED
    BY <1>12, <2>1, <2>2, <2>3 DEF Validate, UsageMoves
<1>13. ASSUME Done(c) PROVE Goal
  <2>1. /\ r.pc = "done" /\ last_usage' = last_usage
        /\ call' = [call EXCEPT ![c] = [r EXCEPT !.pc = "returned"]]
    BY <1>1, <1>13 DEF Done, Goto
  <2>2. call'[c].pc = "returned" /\ call'[c].client = r.client /\ call'[c].spent = r.spent
    BY <1>2, <1>3, <2>1
  <2> QED
    BY <2>1, <2>2 DEF OwnMoves, UsageMoves
<1> HIDE DEF Goal
<1>14. Goal
  BY <1>6, <1>7, <1>8, <1>9, <1>10, <1>11, <1>12, <1>13 DEF CallStep
<1> QED
  BY <1>14 DEF Goal

\* A step writes to the client of its call only, and of its own answers.
LEMMA UsageWritten ==
    ASSUME TypeOK, NEW c \in Calls, FollowsChain(c), ClientFits(c), UsageMoves(c)
    PROVE  /\ last_usage' \in [Client -> SUBSET Answer]
           /\ \A u \in Client :
                 \/ last_usage'[u] = last_usage[u]
                 \/ /\ u = call[c].client /\ u[1] = ProviderOf(Model(c)) /\ Asking(c)
                    /\ \A a \in last_usage'[u] : a \in last_usage[u] \/ a.model = Model(c)
                    /\ ProviderOf(Model(c)) \in Reporting => last_usage'[u] # {}
                    /\ ProviderOf(Model(c)) \notin Reporting =>
                          last_usage'[u] = {} \/ last_usage'[u] = last_usage[u]
<1> DEFINE answer(repair) == [call |-> c, model |-> Model(c), attempt |-> call[c].attempt,
                              repair |-> repair]
           p == ProviderOf(Model(c))
<1>1. last_usage \in [Client -> SUBSET Answer]
  BY DEF TypeOK
<1>2. ASSUME call[c].pc \in {"post", "repair"}, NEW repair \in BOOLEAN
      PROVE  /\ Usage(c, repair) \in SUBSET Answer
             /\ \A a \in Usage(c, repair) : a.model = Model(c)
             /\ p \in Reporting => Usage(c, repair) # {}
             /\ p \notin Reporting => Usage(c, repair) = {}
  <2>1. Model(c) \in Models /\ call[c].attempt \in Nat
    BY <1>2, AtRoute, CallTyped
  <2>2. answer(repair) \in Answer /\ answer(repair).model = Model(c)
    BY <2>1 DEF Answer
  <2>3. Usage(c, repair) = IF p \notin Reporting THEN {} ELSE {answer(repair)}
    BY DEF Usage
  <2> HIDE DEF answer, p
  <2> QED
    BY <2>2, <2>3
<1>3. ASSUME call[c].pc \in {"post", "repair"}
      PROVE  call[c].client \in Client /\ call[c].client[1] = p /\ Asking(c)
  BY <1>3 DEF ClientFits, Asking
<1> DEFINE u0 == call[c].client
<1> HIDE DEF u0, p
<1>4. CASE call[c].pc = "post" /\ last_usage' = [last_usage EXCEPT ![u0] = Usage(c, FALSE)]
  <2> DEFINE usage == Usage(c, FALSE)
  <2>1. /\ usage \in SUBSET Answer /\ \A a \in usage : a.model = Model(c)
        /\ (p \in Reporting => usage # {}) /\ (p \notin Reporting => usage = {})
    BY <1>2, <1>4
  <2>2. u0 \in Client /\ u0[1] = p /\ Asking(c)
    BY <1>3, <1>4 DEF u0
  <2> HIDE DEF usage
  <2>3. /\ last_usage' \in [Client -> SUBSET Answer] /\ last_usage'[u0] = usage
        /\ \A u \in Client : u # u0 => last_usage'[u] = last_usage[u]
    BY <1>1, <1>4, <2>1, <2>2 DEF usage
  <2> QED
    BY <2>1, <2>2, <2>3 DEF u0, p
<1>5. CASE /\ call[c].pc = "repair"
           /\ last_usage' = [last_usage EXCEPT ![u0] = last_usage[u0] \cup Usage(c, TRUE)]
  <2> DEFINE new == Usage(c, TRUE)
             usage == last_usage[u0] \cup new
  <2>1. /\ new \in SUBSET Answer /\ \A a \in new : a.model = Model(c)
        /\ (p \in Reporting => new # {}) /\ (p \notin Reporting => new = {})
    BY <1>2, <1>5
  <2>2. u0 \in Client /\ u0[1] = p /\ Asking(c)
    BY <1>3, <1>5 DEF u0
  <2> HIDE DEF new
  <2>3. /\ usage \in SUBSET Answer /\ \A a \in usage : a \in last_usage[u0] \/ a.model = Model(c)
        /\ (p \in Reporting => usage # {}) /\ (p \notin Reporting => usage = last_usage[u0])
    BY <1>1, <2>1, <2>2
  <2>4. last_usage' = [last_usage EXCEPT ![u0] = usage]
    BY <1>5 DEF new
  <2> HIDE DEF usage
  <2>5. /\ last_usage' \in [Client -> SUBSET Answer] /\ last_usage'[u0] = usage
        /\ \A u \in Client : u # u0 => last_usage'[u] = last_usage[u]
    BY <1>1, <2>2, <2>3, <2>4
  <2> QED
    BY <2>2, <2>3, <2>5 DEF u0, p
<1>6. CASE last_usage' = last_usage
  BY <1>1, <1>6
<1> QED
  BY <1>4, <1>5, <1>6 DEF UsageMoves, u0

\* How a call comes to wait for an answer, to look at it and to return.
LEMMA CameFrom ==
    ASSUME TypeOK, NEW c \in Calls, Moves(c), Frame(c)
    PROVE  /\ Asking(c)' \/ call'[c].pc = "returned" => Stays(c) /\ Model(c)' = Model(c)
           /\ call'[c].pc = "post" => Asks(c)
           /\ call'[c].pc = "repair" => call[c].pc = "post"
           /\ call'[c].pc = "validate" => call[c].pc \in {"post", "repair"}
           /\ call'[c].pc = "done" => call[c].pc = "validate"
           /\ call'[c].pc = "returned" => call[c].pc = "done" /\ Returns(c)
           /\ \A m : ProviderOf(m)' = ProviderOf(m)
<1>1. /\ Refused(c) => call'[c].pc = "raised"
      /\ Begins(c) => call'[c].pc = "resolve"
      /\ Asks(c) => call'[c].pc = "post" /\ Stays(c)
      /\ Returns(c) => call[c].pc = "done" /\ call'[c].pc = "returned" /\ Stays(c)
      /\ \A class \in Classes : Fails(c, class) => call'[c].pc \in {"resolve", "raised"}
  BY DEF Refused, Begins, Asks, Returns, Fails, Retries, FallsBack, Raises
<1>2. Proceeds(c) =>
         /\ Stays(c)
         /\ \/ call'[c].pc = "create"
            \/ call[c].pc = "post" /\ call'[c].pc \in {"repair", "validate"}
            \/ call[c].pc = "repair" /\ call'[c].pc = "validate"
            \/ call[c].pc = "validate" /\ call'[c].pc = "done"
  BY DEF Proceeds
<1>3. Stays(c) => Model(c)' = Model(c)
  BY DEF Stays, Model
<1>4. \A m : ProviderOf(m)' = ProviderOf(m)
  BY DEF ProviderOf, Frame
<1> QED
  BY <1>1, <1>2, <1>3, <1>4 DEF Moves, Asking

LEMMA UsageFitsKept ==
    ASSUME TypeOK, NEW c \in Calls, FollowsChain(c), ClientFits(c), UsageFits, Frame(c),
           UsageMoves(c)
    PROVE  UsageFits'
<1>1. \A m : ProviderOf(m)' = ProviderOf(m)
  BY DEF ProviderOf, Frame
<1> SUFFICES ASSUME NEW p \in Providers, NEW x \in Calls
             PROVE  /\ \A a \in last_usage'[<<p, x>>] : ProviderOf(a.model) = p
                    /\ p \notin Reporting => last_usage'[<<p, x>>] = {}
  BY <1>1 DEF UsageFits
<1> DEFINE u == <<p, x>>
<1>2. u \in Client /\ u[1] = p
  BY DEF Client
<1>3. /\ \A a \in last_usage[u] : ProviderOf(a.model) = p
      /\ p \notin Reporting => last_usage[u] = {}
  BY DEF UsageFits
<1> HIDE DEF u
<1> QED
  BY <1>2, <1>3, UsageWritten DEF u

LEMMA ClientFitsKept ==
    ASSUME TypeOK, NEW c \in Calls, \A d \in Calls : FollowsChain(d),
           \A d \in Calls : ClientFits(d), Frame(c), Moves(c), UsageMoves(c), OwnMoves(c),
           NEW d \in Calls
    PROVE  ClientFits(d)'
<1>1. FollowsChain(c) /\ ClientFits(c) /\ ClientFits(d)
  OBVIOUS
<1>2. \A m : ProviderOf(m)' = ProviderOf(m)
  BY CameFrom
<1>3. CASE d # c
  <2>1. call'[d] = call[d]
    BY <1>3 DEF Frame
  <2>2. Model(d)' = Model(d)
    BY <2>1 DEF Model
  <2>3. ASSUME call[d].pc \in {"repair", "validate", "done"}, ProviderOf(Model(d)) \in Reporting
        PROVE  last_usage'[call[d].client] # {}
    <3>1. /\ call[d].client \in Client /\ call[d].client[1] = ProviderOf(Model(d))
          /\ last_usage[call[d].client] # {}
      BY <1>1, <2>3 DEF ClientFits, Asking
    <3> QED
      BY <1>1, <2>3, <3>1, UsageWritten
  <2> QED
    BY <1>1, <1>2, <2>1, <2>2, <2>3 DEF ClientFits, Asking
<1>4. CASE d = c
  <2> DEFINE u == call[c].client
             p == ProviderOf(Model(c))
  <2>1. Asking(c)' => Model(c)' = Model(c) /\ ProviderOf(Model(c))' = p
    BY <1>2, CameFrom
  <2>2. ASSUME call'[c].pc = "post" PROVE ClientFits(c)'
    BY <2>1, <2>2 DEF ClientFits, OwnMoves, Asking
  <2>3. ASSUME call'[c].pc \in {"repair", "validate", "done"} PROVE ClientFits(c)'
    <3>1. Asking(c)' /\ Asking(c) /\ call[c].pc \in {"post", "repair", "validate"}
      BY <2>3, CameFrom DEF Asking
    <3>2. u \in Client /\ u[1] = p /\ call'[c].client = u
      BY <1>1, <2>3, <3>1 DEF ClientFits, OwnMoves
    <3>3. ASSUME p \in Reporting PROVE last_usage'[u] # {}
      <4>1. CASE call'[c].pc = "done"
        <5>1. call[c].pc = "validate" /\ last_usage' = last_usage
          BY <4>1, CameFrom DEF OwnMoves
        <5> QED
          BY <1>1, <3>3, <5>1 DEF ClientFits
      <4>2. CASE call'[c].pc # "done"
        <5>1. \E repair \in BOOLEAN : Usage(c, repair) # {}
                 /\ Usage(c, repair) \in SUBSET last_usage'[u]
          <6>1. \A repair \in BOOLEAN : Usage(c, repair) # {}
            BY <3>3 DEF Usage
          <6>2. last_usage \in [Client -> SUBSET Answer]
            BY DEF TypeOK
          <6>3. \/ last_usage' = [last_usage EXCEPT ![u] = Usage(c, FALSE)]
                \/ last_usage' = [last_usage EXCEPT ![u] = last_usage[u] \cup Usage(c, TRUE)]
            BY <2>3, <4>2 DEF OwnMoves
          <6>4. \/ last_usage'[u] = Usage(c, FALSE)
                \/ last_usage'[u] = last_usage[u] \cup Usage(c, TRUE)
            BY <3>2, <6>2, <6>3
          <6> QED
            BY <6>1, <6>4
        <5> QED
          BY <5>1
      <4> QED
        BY <4>1, <4>2
    <3> HIDE DEF u, p
    <3> QED
      BY <2>1, <3>1, <3>2, <3>3 DEF ClientFits
  <2>4. ASSUME ~Asking(c)' PROVE ClientFits(c)'
    BY <2>4 DEF ClientFits, Asking
  <2> QED
    BY <1>4, <2>2, <2>3, <2>4 DEF Asking
<1> QED
  BY <1>3, <1>4

LEMMA LoggedUsageFitsKept ==
    ASSUME TypeOK, NEW c \in Calls, FollowsChain(c), ClientFits(c), UsageFits,
           LoggedUsageFits(c), Frame(c), Moves(c), log'[c] \in Seq(Event)
    PROVE  LoggedUsageFits(c)'
<1>1. \A m : ProviderOf(m)' = ProviderOf(m)
  BY CameFrom
<1> SUFFICES ASSUME NEW i \in 1 .. Len(log'[c]), log'[c][i].event = "done"
             PROVE  /\ log'[c][i].usage = {} <=> ProviderOf(log'[c][i].model) \notin Reporting
                    /\ \A a \in log'[c][i].usage :
                          ProviderOf(a.model) = ProviderOf(log'[c][i].model)
  BY <1>1 DEF LoggedUsageFits
<1>2. CASE i \in 1 .. Len(log[c])
  <2>1. log'[c][i] = log[c][i]
    BY <1>2, LogGrows
  <2> QED
    BY <1>2, <2>1 DEF LoggedUsageFits
<1>3. CASE i \notin 1 .. Len(log[c])
  <2> DEFINE u == call[c].client
             e == [event |-> "done", model |-> Model(c), usage |-> UsageOfClient(c)]
  <2>1. call[c].pc = "done" /\ log'[c][i] = e
    <3>1. call[c].pc \notin {"begin", "raised"}
          => /\ Started(c).event = "start" /\ Fallback(c).event = "fallback"
             /\ \A class \in Classes : Failure(c, class).event = "error"
      BY MoveTyped
    <3>2. ASSUME Asks(c), log'[c][i] = Started(c) PROVE FALSE
      BY <3>1, <3>2 DEF Asks
    <3>3. ASSUME NEW class \in Classes, Fails(c, class), log'[c][i] = Failure(c, class)
          PROVE  FALSE
      BY <3>1, <3>3 DEF Fails, Retries, FallsBack, Raises, CanFail
    <3>4. ASSUME NEW class \in Classes, FallsBack(c, class), log'[c][i] = Fallback(c)
          PROVE  FALSE
      BY <3>1, <3>4 DEF FallsBack, CanFail
    <3>5. Returns(c) /\ log'[c][i] = e
      BY <1>3, <3>2, <3>3, <3>4, NewInLog
    <3> QED
      BY <3>5 DEF Returns
  <2>2. e.model = Model(c) /\ e.usage = last_usage[u]
    BY DEF UsageOfClient
  <2>3. /\ u \in Client /\ u[1] = ProviderOf(Model(c))
        /\ u[1] \in Reporting => last_usage[u] # {}
    BY <2>1 DEF ClientFits, Asking
  <2>4. u = <<u[1], u[2]>> /\ u[1] \in Providers /\ u[2] \in Calls
    BY <2>3 DEF Client
  <2> HIDE DEF u, e
  <2>5. /\ \A a \in last_usage[u] : ProviderOf(a.model) = u[1]
        /\ u[1] \notin Reporting => last_usage[u] = {}
    BY <2>4 DEF UsageFits
  <2> QED
    BY <2>1, <2>2, <2>3, <2>5
<1> QED
  BY <1>2, <1>3

\* Once another call has had to do with a provider, it has.
LEMMA SharedStaysShared ==
    ASSUME TypeOK, NEW c \in Calls, Frame(c), Moves(c), log'[c] \in Seq(Event),
           NEW d \in Calls, ProviderShared(d), Model(d)' = Model(d)
    PROVE  ProviderShared(d)'
<1>1. PICK x \in Calls \ {d} : \E i \in 1 .. Len(log[x]) :
           ProviderOf(log[x][i].model) = ProviderOf(Model(d))
  BY DEF ProviderShared
<1>2. PICK i \in 1 .. Len(log[x]) : ProviderOf(log[x][i].model) = ProviderOf(Model(d))
  BY <1>1
<1>3. i \in 1 .. Len(log'[x]) /\ log'[x][i] = log[x][i]
  <2>1. CASE x = c
    BY <2>1, LogGrows
  <2>2. CASE x # c
    BY <2>2 DEF Frame
  <2> QED
    BY <2>1, <2>2
<1>4. \A m : ProviderOf(m)' = ProviderOf(m)
  BY CameFrom
<1> QED
  BY <1>2, <1>3, <1>4 DEF ProviderShared

LEMMA UsageIsSpentKept ==
    ASSUME TypeOK, NEW c \in Calls, \A d \in Calls : FollowsChain(d),
           \A d \in Calls : ClientFits(d), LogTells(c), \A d \in Calls : UsageIsSpent(d),
           Frame(c), Moves(c), UsageMoves(c), OwnMoves(c), log'[c] \in Seq(Event),
           NEW d \in Calls
    PROVE  UsageIsSpent(d)'
<1>1. FollowsChain(c) /\ ClientFits(c) /\ ClientFits(d) /\ UsageIsSpent(d)
  OBVIOUS
<1>2. \A m : ProviderOf(m)' = ProviderOf(m)
  BY CameFrom
<1>3. CASE d # c
  <2>1. call'[d] = call[d] /\ log'[d] = log[d]
    BY <1>3 DEF Frame
  <2>2. Model(d)' = Model(d) /\ LastEvent(d)' = LastEvent(d)
    BY <2>1 DEF Model, LastEvent
  <2>3. ProviderShared(d) => ProviderShared(d)'
    BY <2>2, SharedStaysShared
  <2>4. ASSUME call[d].pc \in {"repair", "validate", "done"},
               last_usage'[call[d].client] # last_usage[call[d].client]
        PROVE  ProviderShared(d)'
    <3>1. call[d].client \in Client /\ call[d].client[1] = ProviderOf(Model(d))
      BY <1>1, <2>4 DEF ClientFits, Asking
    <3>2. ProviderOf(Model(c)) = ProviderOf(Model(d)) /\ Asking(c)
      BY <1>1, <2>4, <3>1, UsageWritten
    <3>3. log[c] # << >> /\ log[c] \in Seq(Event) /\ LastEvent(c).model = Model(c)
      BY <3>2, CallTyped DEF LogTells
    <3>4. Len(log[c]) \in 1 .. Len(log[c])
      BY <3>3
    <3>5. ProviderShared(d)
      BY <1>3, <3>2, <3>3, <3>4 DEF ProviderShared, LastEvent
    <3> QED
      BY <2>3, <3>5
  <2> QED
    BY <1>1, <2>1, <2>2, <2>3, <2>4 DEF UsageIsSpent
<1>4. CASE d = c
  <2> DEFINE u == call[c].client
  <2>0. last_usage \in [Client -> SUBSET Answer]
    BY DEF TypeOK
  <2>1. ASSUME Asking(c)' \/ call'[c].pc = "returned", ProviderShared(c)
        PROVE  ProviderShared(c)'
    BY <2>1, CameFrom, SharedStaysShared
  <2>2. ASSUME call'[c].pc \in {"repair", "validate"} PROVE UsageIsSpent(c)'
    <3>1. call[c].pc \in {"post", "repair"} /\ Asking(c)' /\ u \in Client /\ call'[c].client = u
      BY <1>1, <2>2, CameFrom DEF ClientFits, Asking, OwnMoves
    <3>2. \/ call'[c].spent = Usage(c, FALSE) /\ last_usage'[u] = Usage(c, FALSE)
          \/ /\ call[c].pc = "repair" /\ call'[c].spent = call[c].spent \cup Usage(c, TRUE)
             /\ last_usage'[u] = last_usage[u] \cup Usage(c, TRUE)
      BY <2>0, <2>2, <3>1 DEF OwnMoves
    <3>3. call[c].pc = "repair" => last_usage[u] = call[c].spent \/ ProviderShared(c)
      BY <1>1, <1>4 DEF UsageIsSpent
    <3>4. last_usage'[u] = call'[c].spent \/ ProviderShared(c)'
      BY <2>1, <3>1, <3>2, <3>3
    <3> QED
      BY <2>2, <3>1, <3>4 DEF UsageIsSpent
  <2>3. ASSUME call'[c].pc = "done" PROVE UsageIsSpent(c)'
    <3>1. /\ call[c].pc = "validate" /\ Asking(c)' /\ call'[c].client = u
          /\ call'[c].spent = call[c].spent /\ last_usage' = last_usage
      BY <2>3, CameFrom DEF OwnMoves, Asking
    <3>2. last_usage[u] = call[c].spent \/ ProviderShared(c)
      BY <1>1, <1>4, <3>1 DEF UsageIsSpent
    <3> QED
      BY <2>1, <2>3, <3>1, <3>2 DEF UsageIsSpent
  <2>4. ASSUME call'[c].pc = "returned" PROVE UsageIsSpent(c)'
    <3> DEFINE e == [event |-> "done", model |-> Model(c), usage |-> UsageOfClient(c)]
    <3>1. /\ call[c].pc = "done" /\ call'[c].spent = call[c].spent
          /\ log'[c] = Append(log[c], e)
      BY <2>4, CameFrom DEF OwnMoves, Returns
    <3>2. e.usage = last_usage[u]
      BY DEF UsageOfClient
    <3> HIDE DEF e
    <3>3. LastEvent(c)' = e
      BY <3>1, CallTyped DEF LastEvent
    <3>4. last_usage[u] = call[c].spent \/ ProviderShared(c)
      BY <1>1, <1>4, <3>1 DEF UsageIsSpent
    <3> QED
      BY <2>1, <2>4, <3>1, <3>2, <3>3, <3>4 DEF UsageIsSpent
  <2> QED
    BY <1>4, <2>2, <2>3, <2>4 DEF UsageIsSpent
<1> QED
  BY <1>3, <1>4

-----------------------------------------------------------------------------
(* The files of model outputs.                                             *)

LEMMA OfKindGrows ==
    ASSUME errors \in Seq(ModelOutputError), NEW x \in ModelOutputError,
           errors' = Append(errors, x), NEW kind
    PROVE  /\ Cardinality(OfKind(kind)) \in Nat
           /\ Cardinality({i \in 1 .. Len(errors') : errors'[i].kind = kind}) =
                 IF x.kind = kind THEN Cardinality(OfKind(kind)) + 1 ELSE Cardinality(OfKind(kind))
<1> DEFINE T == {y \in ModelOutputError : y.kind = kind}
           s == errors
           s1 == Append(s, x)
<1>1. s \in Seq(ModelOutputError) /\ s1 \in Seq(ModelOutputError) /\ errors' = s1
  OBVIOUS
<1> HIDE DEF s, s1
<1>2. DOMAIN s = 1 .. Len(s) /\ DOMAIN s1 = 1 .. Len(s1)
  BY <1>1
<1>3. /\ \A i \in DOMAIN s : s[i] \in ModelOutputError
      /\ \A i \in DOMAIN s1 : s1[i] \in ModelOutputError
  BY <1>1
<1>4. /\ Places(s, T) = {i \in 1 .. Len(s) : s[i].kind = kind}
      /\ Places(s1, T) = {i \in 1 .. Len(s1) : s1[i].kind = kind}
  BY <1>2, <1>3 DEF Places
<1>5. x \in T <=> x.kind = kind
  OBVIOUS
<1> HIDE DEF T
<1>6. /\ Cardinality(Places(s, T)) \in Nat
      /\ Cardinality(Places(s1, T)) =
            IF x \in T THEN Cardinality(Places(s, T)) + 1 ELSE Cardinality(Places(s, T))
  BY <1>1, PlacesInAppend DEF s1
<1>7. OfKind(kind) = Places(s, T)
      /\ {i \in 1 .. Len(errors') : errors'[i].kind = kind} = Places(s1, T)
  BY <1>1, <1>4 DEF OfKind, s
<1> QED
  BY <1>5, <1>6, <1>7

\* An error whose output is kept gets the next number of its kind.
LEMMA ErrorRecorded ==
    ASSUME TypeOK, NEW c \in Calls, NEW class \in Classes, Model(c) \in Models,
           RecordModelOutputError(c, class)
    PROVE  /\ ~KeepsOutput(class) => errors' = errors
           /\ KeepsOutput(class) =>
                 \E x \in ModelOutputError :
                    /\ errors' = Append(errors, x)
                    /\ x.call = c /\ x.index = 1 + Cardinality(OfKind(x.kind))
                    /\ [kind |-> x.kind, index |-> x.index] = Ref(c, class)
<1>1. ~KeepsOutput(class) => errors' = errors
  BY DEF RecordModelOutputError
<1>2. ASSUME KeepsOutput(class)
      PROVE  \E x \in ModelOutputError :
                 /\ errors' = Append(errors, x)
                 /\ x.call = c /\ x.index = 1 + Cardinality(OfKind(x.kind))
                 /\ [kind |-> x.kind, index |-> x.index] = Ref(c, class)
  <2> DEFINE kind == KindOf(class)
             index == Index(c, kind)
             x == [kind |-> kind, index |-> index, call |-> c]
  <2>1. errors' = Append(errors, x) /\ x \in ModelOutputError
    BY <1>2, FailureTyped DEF RecordModelOutputError
  <2>2. Ref(c, class) = [kind |-> kind, index |-> index]
    BY <1>2 DEF Ref
  <2>3. index = 1 + Cardinality(OfKind(kind))
    <3>1. DOMAIN errors = 1 .. Len(errors)
      BY DEF TypeOK
    <3> QED
      BY <3>1 DEF Index, OfKind
  <2> HIDE DEF kind, index
  <2>4. x.call = c /\ x.kind = kind /\ x.index = index
    OBVIOUS
  <2> HIDE DEF x
  <2> QED
    BY <2>1, <2>2, <2>3, <2>4
<1> QED
  BY <1>1, <1>2

LEMMA ErrorsNumberedKept ==
    ASSUME TypeOK, NEW c \in Calls, FollowsChain(c), ErrorsNumbered, Moves(c)
    PROVE  ErrorsNumbered'
<1>1. errors \in Seq(ModelOutputError) /\ Len(errors) \in Nat
  BY DEF TypeOK
<1>2. CASE errors' = errors
  BY <1>2 DEF ErrorsNumbered, OfKind
<1>3. ASSUME NEW x \in ModelOutputError, errors' = Append(errors, x),
             x.index = 1 + Cardinality(OfKind(x.kind))
      PROVE  ErrorsNumbered'
  <2> DEFINE n == Len(errors)
             many(kind) == Cardinality(OfKind(kind))
             many1(kind) == Cardinality({i \in 1 .. Len(errors') : errors'[i].kind = kind})
  <2>1. \A kind : many(kind) \in Nat
                  /\ many1(kind) = IF x.kind = kind THEN many(kind) + 1 ELSE many(kind)
    BY <1>1, <1>3, OfKindGrows
  <2>2. /\ Len(errors') = n + 1 /\ errors'[n + 1] = x
        /\ \A i \in 1 .. n : errors'[i] = errors[i]
    BY <1>1, <1>3
  <2>3. \A i \in 1 .. n : errors[i].index \in 1 .. many(errors[i].kind)
    BY DEF ErrorsNumbered
  <2>4. ErrorsNumbered' <=>
           /\ \A i \in 1 .. Len(errors') : errors'[i].index \in 1 .. many1(errors'[i].kind)
           /\ \A i, k \in 1 .. Len(errors') :
                 errors'[i].kind = errors'[k].kind /\ errors'[i].index = errors'[k].index => i = k
    BY DEF ErrorsNumbered, OfKind
  <2>5. x.index = 1 + many(x.kind)
    BY <1>3
  <2> HIDE DEF many, many1
  <2>6. \A i \in 1 .. Len(errors') : i \in 1 .. n \/ i = n + 1
    BY <1>1, <2>2
  <2>7. ASSUME NEW i \in 1 .. Len(errors') PROVE errors'[i].index \in 1 .. many1(errors'[i].kind)
    <3>1. CASE i \in 1 .. n
      BY <2>1, <2>2, <2>3, <3>1
    <3>2. CASE i = n + 1
      BY <2>1, <2>2, <2>5, <3>2
    <3> QED
      BY <2>6, <3>1, <3>2
  <2>8. ASSUME NEW i \in 1 .. n, errors[i].kind = x.kind PROVE errors[i].index # x.index
    BY <2>1, <2>3, <2>5, <2>8
  <2>9. ASSUME NEW i \in 1 .. Len(errors'), NEW k \in 1 .. Len(errors'),
               errors'[i].kind = errors'[k].kind, errors'[i].index = errors'[k].index
        PROVE  i = k
    <3>1. CASE i \in 1 .. n /\ k \in 1 .. n
      BY <2>2, <2>9, <3>1 DEF ErrorsNumbered
    <3>2. CASE i = n + 1 /\ k = n + 1
      BY <3>2
    <3>3. CASE i \in 1 .. n /\ k = n + 1
      BY <2>2, <2>8, <2>9, <3>3
    <3>4. CASE i = n + 1 /\ k \in 1 .. n
      BY <2>2, <2>8, <2>9, <3>4
    <3> QED
      BY <2>6, <3>1, <3>2, <3>3, <3>4
  <2> QED
    BY <2>4, <2>7, <2>9
<1>4. ASSUME NEW class \in Classes, Fails(c, class), RecordModelOutputError(c, class)
      PROVE  ErrorsNumbered'
  <2>1. Model(c) \in Models
    <3>1. call[c].pc \notin {"begin", "raised"}
      BY <1>4 DEF Fails, Retries, FallsBack, Raises, CanFail
    <3> QED
      BY <3>1, AtRoute
  <2> QED
    BY <1>2, <1>3, <1>4, <2>1, ErrorRecorded
<1> QED
  BY <1>2, <1>4 DEF Moves

LEMMA RefsOwnKept ==
    ASSUME TypeOK, NEW c \in Calls, FollowsChain(c), \A d \in Calls : RefsOwn(d), Moves(c), Frame(c),
           log'[c] \in Seq(Event), NEW d \in Calls
    PROVE  RefsOwn(d)'
<1> DEFINE n == Len(errors)
           named(ref) == \E k \in 1 .. Len(errors') :
                            /\ [kind |-> errors'[k].kind, index |-> errors'[k].index] = ref
                            /\ errors'[k].call = d
<1>1. errors \in Seq(ModelOutputError) /\ n \in Nat
  BY DEF TypeOK
<1>2. ASSUME NEW class \in Classes, Fails(c, class), RecordModelOutputError(c, class)
      PROVE  Model(c) \in Models /\ Failure(c, class).ref = Ref(c, class)
  <2>1. call[c].pc \notin {"begin", "raised"}
    BY <1>2 DEF Fails, Retries, FallsBack, Raises, CanFail
  <2> QED
    BY <2>1, AtRoute, MoveTyped
<1>3. n <= Len(errors') /\ Len(errors') \in Nat /\ \A k \in 1 .. n : errors'[k] = errors[k]
  <2>1. CASE errors' = errors
    BY <1>1, <2>1
  <2>2. ASSUME NEW x \in ModelOutputError, errors' = Append(errors, x)
        PROVE  /\ n <= Len(errors') /\ Len(errors') \in Nat
               /\ \A k \in 1 .. n : errors'[k] = errors[k]
    BY <1>1, <2>2
  <2>3. errors' = errors \/ \E x \in ModelOutputError : errors' = Append(errors, x)
    BY <1>2, ErrorRecorded DEF Moves
  <2> QED
    BY <2>1, <2>2, <2>3
<1>4. ASSUME NEW i \in 1 .. Len(log[d]), log[d][i].event = "error", log[d][i].ref # None
      PROVE  named(log[d][i].ref)
  <2>1. RefsOwn(d)
    OBVIOUS
  <2>2. PICK k \in 1 .. n :
           /\ [kind |-> errors[k].kind, index |-> errors[k].index] = log[d][i].ref
           /\ errors[k].call = d
    BY <1>4, <2>1 DEF RefsOwn
  <2>3. k \in 1 .. Len(errors') /\ errors'[k] = errors[k]
    BY <1>1, <1>3
  <2> QED
    BY <2>2, <2>3
<1>5. ASSUME NEW i \in 1 .. Len(log'[d]), log'[d][i].event = "error", log'[d][i].ref # None
      PROVE  named(log'[d][i].ref)
  <2>1. CASE d # c
    BY <1>4, <1>5, <2>1 DEF Frame
  <2>2. CASE d = c /\ i \in 1 .. Len(log[c])
    <3>1. log'[c][i] = log[c][i]
      BY <2>2, LogGrows
    <3> HIDE DEF named
    <3> QED
      BY <1>4, <1>5, <2>2, <3>1
  <2>3. CASE d = c /\ i \notin 1 .. Len(log[c])
    <3>1. call[c].pc \notin {"begin", "raised"} =>
             Started(c).event = "start" /\ Fallback(c).event = "fallback"
      BY MoveTyped
    <3>2. [event |-> "done", model |-> Model(c), usage |-> UsageOfClient(c)].event = "done"
      OBVIOUS
    <3>3. ~(Asks(c) /\ log'[c][i] = Started(c))
      BY <1>5, <2>3, <3>1 DEF Asks
    <3>4. \A class \in Classes : ~(FallsBack(c, class) /\ log'[c][i] = Fallback(c))
      BY <1>5, <2>3, <3>1 DEF FallsBack, CanFail
    <3>5. PICK class \in Classes : /\ Fails(c, class) /\ RecordModelOutputError(c, class)
                                   /\ log'[c][i] = Failure(c, class)
      BY <1>5, <2>3, <3>2, <3>3, <3>4, NewInLog
    <3>6. log'[c][i].ref = Ref(c, class) /\ KeepsOutput(class)
      BY <1>2, <1>5, <2>3, <3>5 DEF Ref
    <3>7. PICK x \in ModelOutputError :
             /\ errors' = Append(errors, x) /\ x.call = c
             /\ [kind |-> x.kind, index |-> x.index] = Ref(c, class)
      BY <1>2, <3>5, <3>6, ErrorRecorded
    <3>8. n + 1 \in 1 .. Len(errors') /\ errors'[n + 1] = x
      BY <1>1, <3>7
    <3> QED
      BY <2>3, <3>6, <3>7, <3>8
  <2> QED
    BY <2>1, <2>2, <2>3
<1> QED
  BY <1>5 DEF RefsOwn

-----------------------------------------------------------------------------
(* The invariant is inductive.                                             *)

LEMMA InitEstablishes ==
    ASSUME Init PROVE TypeOK /\ IInv
<1> DEFINE fresh == [pc |-> "begin", routes |-> << >>, route |-> 1, attempt |-> 1,
                     client |-> None, spent |-> {}]
<1>1. /\ call = [c \in Calls |-> fresh] /\ log = [c \in Calls |-> << >>]
      /\ errors = << >> /\ last_usage = [u \in Client |-> {}]
      /\ clients = [p \in Providers |-> None] /\ configured \in SUBSET Providers
      /\ \E file \in ConfigFiles : Loads(file) /\ config = Loaded(file)
  BY DEF Init
<1>2. fresh \in CallState
  <2>1. "begin" \in Pc /\ << >> \in Seq(Route) /\ 1 \in Nat /\ None \in Client \cup {None}
        /\ {} \in SUBSET Answer
    BY DEF Pc
  <2> QED
    BY <2>1 DEF CallState
<1>3. /\ fresh.pc = "begin" /\ fresh.routes = << >>
  OBVIOUS
<1> HIDE DEF fresh
<1>4. \A c \in Calls : call[c] = fresh /\ log[c] = << >>
  BY <1>1
<1>5. \A c \in Calls : call[c].pc = "begin" /\ call[c].routes = << >> /\ Len(log[c]) = 0
  BY <1>3, <1>4
<1>6. TypeOK
  <2>1. call \in [Calls -> CallState] /\ log \in [Calls -> Seq(Event)]
        /\ errors \in Seq(ModelOutputError) /\ last_usage \in [Client -> SUBSET Answer]
        /\ clients \in [Providers -> Calls \cup {None}]
    BY <1>1, <1>2
  <2> QED
    BY <1>1, <1>5, <2>1 DEF TypeOK
<1>7. ASSUME NEW c \in Calls
      PROVE  /\ FollowsChain(c) /\ Counted(c) /\ LogTells(c) /\ ActionsTaken(c)
             /\ FatalIsPassed(c) /\ ClientFits(c) /\ LoggedUsageFits(c) /\ UsageIsSpent(c)
             /\ RefsOwn(c)
  <2>1. call[c].pc = "begin" /\ call[c].routes = << >> /\ log[c] = << >>
    BY <1>4, <1>5
  <2>2. Len(call[c].routes) = 0 /\ Len(log[c]) = 0
    BY <2>1
  <2>3. \A m \in Models : CountIn(log[c], "start", m) = 0
    BY <2>1, NoneCounted
  <2>4. FollowsChain(c) /\ Counted(c)
    BY <2>1, <2>2, <2>3 DEF FollowsChain, Counted
  <2>5. LogTells(c) /\ ClientFits(c) /\ UsageIsSpent(c)
    BY <2>1 DEF LogTells, ClientFits, UsageIsSpent, Asking
  <2>6. ActionsTaken(c) /\ FatalIsPassed(c) /\ LoggedUsageFits(c) /\ RefsOwn(c)
    BY <2>2 DEF ActionsTaken, FatalIsPassed, LoggedUsageFits, RefsOwn
  <2> QED
    BY <2>4, <2>5, <2>6
<1>8. UsageFits
  <2>1. \A p \in Providers, x \in Calls : <<p, x>> \in Client
    BY DEF Client
  <2>2. \A p \in Providers, x \in Calls : last_usage[<<p, x>>] = {}
    BY <1>1, <2>1
  <2> QED
    BY <2>2 DEF UsageFits
<1>9. ErrorsNumbered
  BY <1>1 DEF ErrorsNumbered
<1> QED
  BY <1>6, <1>7, <1>8, <1>9 DEF IInv

\* A call that does not move keeps what is said of it alone.
LEMMA OtherCallsKept ==
    ASSUME NEW d \in Calls, config' = config, call'[d] = call[d], log'[d] = log[d],
           FollowsChain(d), Counted(d), LogTells(d), ActionsTaken(d), FatalIsPassed(d),
           LoggedUsageFits(d)
    PROVE  /\ FollowsChain(d)' /\ Counted(d)' /\ LogTells(d)' /\ ActionsTaken(d)'
           /\ FatalIsPassed(d)' /\ LoggedUsageFits(d)'
<1>1. /\ Chain(d)' = Chain(d) /\ Model(d)' = Model(d) /\ LastEvent(d)' = LastEvent(d)
      /\ Asking(d)' = Asking(d) /\ Ended(d)' = Ended(d)
      /\ (Routable(config, Chain(d))' <=> Routable(config, Chain(d)))
  BY DEF Chain, Model, LastEvent, Asking, Ended, Routable
<1>2. FollowsChain(d)'
  BY <1>1 DEF FollowsChain
<1>3. Counted(d)'
  BY <1>1 DEF Counted
<1>4. LogTells(d)'
  BY <1>1 DEF LogTells
<1>5. ActionsTaken(d)'
  BY <1>1 DEF ActionsTaken, TakenAt
<1>6. FatalIsPassed(d)'
  BY DEF FatalIsPassed
<1>7. LoggedUsageFits(d)'
  BY DEF LoggedUsageFits, ProviderOf
<1> QED
  BY <1>2, <1>3, <1>4, <1>5, <1>6, <1>7

LEMMA CallStepKeeps ==
    ASSUME TypeOK, IInv, NEW c \in Calls, CallStep(c)
    PROVE  TypeOK' /\ IInv'
<1>1. /\ \A d \in Calls : /\ FollowsChain(d) /\ Counted(d) /\ LogTells(d) /\ ActionsTaken(d)
                          /\ FatalIsPassed(d) /\ ClientFits(d) /\ LoggedUsageFits(d)
                          /\ UsageIsSpent(d) /\ RefsOwn(d)
      /\ UsageFits /\ ErrorsNumbered
  BY DEF IInv
<1>2. /\ FollowsChain(c) /\ Counted(c) /\ LogTells(c) /\ ActionsTaken(c)
      /\ FatalIsPassed(c) /\ ClientFits(c) /\ LoggedUsageFits(c)
      /\ UsageIsSpent(c) /\ RefsOwn(c)
  BY <1>1
<1>3. /\ call' \in [Calls -> CallState] /\ log' \in [Calls -> Seq(Event)]
      /\ errors' \in Seq(ModelOutputError)
      /\ Frame(c) /\ Moves(c)
  BY <1>2, StepMoves
<1>4. UsageMoves(c) /\ OwnMoves(c) /\ log'[c] \in Seq(Event) /\ config' = config
  BY <1>2, <1>3, StepUsage DEF Frame
<1>5. \A d \in Calls : /\ FollowsChain(d)' /\ Counted(d)' /\ LogTells(d)' /\ ActionsTaken(d)'
                       /\ FatalIsPassed(d)' /\ LoggedUsageFits(d)'
  <2> TAKE d \in Calls
  <2>1. CASE d = c
    <3>1. FollowsChain(c)' /\ Counted(c)'
      BY <1>2, <1>3, <1>4, FollowsChainKept, CountedKept
    <3>2. LogTells(c)' /\ ActionsTaken(c)'
      BY <1>2, <1>3, <1>4, LogTellsKept, ActionsTakenKept
    <3>3. FatalIsPassed(c)' /\ LoggedUsageFits(c)'
      BY <1>1, <1>2, <1>3, <1>4, FatalIsPassedKept, LoggedUsageFitsKept
    <3> QED
      BY <2>1, <3>1, <3>2, <3>3
  <2>2. CASE d # c
    <3>1. call'[d] = call[d] /\ log'[d] = log[d]
      BY <1>3, <2>2 DEF Frame
    <3> QED
      BY <1>1, <1>4, <3>1, OtherCallsKept
  <2> QED
    BY <2>1, <2>2
<1>6. \A d \in Calls : ClientFits(d)'
  BY <1>1, <1>3, <1>4, ClientFitsKept
<1>7. \A d \in Calls : UsageIsSpent(d)'
  BY <1>1, <1>3, <1>4, UsageIsSpentKept
<1>8. \A d \in Calls : RefsOwn(d)'
  BY <1>1, <1>3, <1>4, RefsOwnKept
<1>9. UsageFits' /\ ErrorsNumbered'
  BY <1>1, <1>3, <1>4, UsageFitsKept, ErrorsNumberedKept
<1>10. IInv'
  BY <1>5, <1>6, <1>7, <1>8, <1>9 DEF IInv
<1>11. TypeOK'
  <2>1. last_usage' \in [Client -> SUBSET Answer]
    BY <1>2, <1>4, UsageWritten
  <2>2. configured' = configured
    BY DEF CallStep, BeginCall, Resolve, CreateClient, PostFails, PostAnswered, RepairAnswered,
           Validate, Done
  <2>3. clients' \in [Providers -> Calls \cup {None}]
    <3>1. clients' = clients \/ clients' = [clients EXCEPT ![ProviderOf(Model(c))] = c]
      BY DEF CallStep, BeginCall, Resolve, CreateClient, PostFails, PostAnswered,
             RepairAnswered, Validate, Done
    <3>2. clients \in [Providers -> Calls \cup {None}]
      BY DEF TypeOK
    <3> QED
      BY <3>1, <3>2
  <2>4. ASSUME NEW d \in Calls, call'[d].pc \notin {"begin", "raised"}
        PROVE  /\ call'[d].route \in DOMAIN call'[d].routes
               /\ call'[d].attempt \in 1 .. call'[d].routes[call'[d].route].attempts
    <3>1. FollowsChain(d)'
      BY <1>5
    <3>2. /\ call'[d].routes # << >>
          /\ call'[d].route \in 1 .. Len(call'[d].routes)
          /\ call'[d].attempt \in 1 .. call'[d].routes[call'[d].route].attempts
      BY <2>4, <3>1 DEF FollowsChain
    <3>3. DOMAIN call'[d].routes = 1 .. Len(call'[d].routes)
      <4> DEFINE r == call'[d]
      <4>1. r \in CallState
        BY <1>3
      <4> HIDE DEF r
      <4>2. r.routes \in Seq(Route)
        BY <4>1 DEF CallState
      <4>3. DOMAIN r.routes = 1 .. Len(r.routes)
        BY <4>2
      <4> QED
        BY <4>3 DEF r
    <3> QED
      BY <3>2, <3>3
  <2> QED
    BY <1>3, <1>4, <2>1, <2>2, <2>3, <2>4 DEF TypeOK
<1> QED
  BY <1>10, <1>11

LEMMA StutterKeeps ==
    ASSUME TypeOK, IInv, UNCHANGED vars PROVE TypeOK' /\ IInv'
<1>1. /\ config' = config /\ configured' = configured /\ clients' = clients
      /\ last_usage' = last_usage /\ call' = call /\ log' = log /\ errors' = errors
  BY DEF vars
<1>2. TypeOK'
  BY <1>1 DEF TypeOK
<1>3. ASSUME NEW d \in Calls
      PROVE  /\ FollowsChain(d)' /\ Counted(d)' /\ LogTells(d)' /\ ActionsTaken(d)'
             /\ FatalIsPassed(d)' /\ LoggedUsageFits(d)'
  BY <1>1, OtherCallsKept DEF IInv
<1>4. ASSUME NEW d \in Calls
      PROVE  ClientFits(d)' /\ UsageIsSpent(d)' /\ RefsOwn(d)'
  <2>1. ClientFits(d) /\ UsageIsSpent(d) /\ RefsOwn(d)
    BY SMTT(30) DEF IInv
  <2>2. ClientFits(d)'
    BY <1>1, <2>1, SMTT(30) DEF ClientFits, Asking, ProviderOf, Model
  <2>3. UsageIsSpent(d)'
    BY <1>1, <2>1 DEF UsageIsSpent, ProviderShared, LastEvent, ProviderOf, Model
  <2>4. RefsOwn(d)'
    BY <1>1, <2>1 DEF RefsOwn
  <2> QED
    BY <2>2, <2>3, <2>4
<1>5. UsageFits' /\ ErrorsNumbered'
  BY <1>1 DEF IInv, UsageFits, ErrorsNumbered, OfKind, ProviderOf
<1> QED
  BY <1>2, <1>3, <1>4, <1>5 DEF IInv

\* The types, and what relates a call to its log, its clients and the files of
\* outputs, hold in every state, for any number of calls.
THEOREM InductiveInvariant == Spec => [](TypeOK /\ IInv)
<1>1. Init => TypeOK /\ IInv
  BY InitEstablishes
<1>2. TypeOK /\ IInv /\ [Next]_vars => TypeOK' /\ IInv'
  BY CallStepKeeps, StutterKeeps DEF Next, AllEnded
<1> QED
  BY <1>1, <1>2, PTL DEF Spec

\* Every variable keeps its type, and a call under way stays within the routes
\* and the attempts of its chain.
THEOREM TypeCorrect == Spec => []TypeOK
BY InductiveInvariant, PTL

-----------------------------------------------------------------------------
(* The properties.                                                         *)

\* See AttemptsAreBounded.
LEMMA PolicyFollows ==
    ASSUME TypeOK, IInv PROVE PolicyBoundsAttempts
<1> SUFFICES ASSUME NEW c \in Calls, NEW m \in Models
             PROVE  Count(c, "start", m) <= IF m # Chain(c).primary_model THEN 1
                                            ELSE AtLeastOnce(Chain(c).max_attempts)
  BY DEF PolicyBoundsAttempts
<1> DEFINE routes == call[c].routes
           starts == CountIn(log[c], "start", m)
           bound == IF m # Chain(c).primary_model THEN 1 ELSE AtLeastOnce(Chain(c).max_attempts)
<1>1. Count(c, "start", m) = starts
  BY DEF Count, CountIn
<1>2. FollowsChain(c) /\ Counted(c)
  BY DEF IInv
<1>3. CASE \A k \in 1 .. Len(routes) : routes[k].model # m
  <2>1. starts = 0
    BY <1>2, <1>3 DEF Counted
  <2>2. 0 <= bound
    <3>1. Chain(c).max_attempts \in Int
      BY ChainTyped
    <3> QED
      BY <3>1 DEF AtLeastOnce
  <2> QED
    BY <1>1, <2>1, <2>2
<1>4. ASSUME NEW k \in 1 .. Len(routes), routes[k].model = m
      PROVE  starts <= bound
  <2>1. /\ routes # << >> /\ routes = RoutesOf(Chain(c)) /\ Routable(config, Chain(c))
        /\ call[c].route \in 1 .. Len(routes)
        /\ call[c].attempt \in 1 .. routes[call[c].route].attempts
        /\ call[c].pc # "begin"
    <3>1. routes # << >>
      BY <1>4
    <3> QED
      BY <1>2, <3>1 DEF FollowsChain
  <2>2. routes[k].attempts = bound
    BY <1>4, <2>1, RoutesTyped
  <2>3. routes[k].attempts \in Nat \ {0}
    <3>1. routes[k] \in Route
      BY <2>1, RoutesTyped
    <3> DEFINE r == routes[k]
    <3> HIDE DEF r
    <3>2. r \in Route
      BY <3>1 DEF r
    <3>3. r.attempts \in Nat \ {0}
      BY <3>2 DEF Route
    <3> QED
      BY <3>3 DEF r
  <2>4. CASE k = call[c].route
    <3>1. CountsAt(call[c].pc, call[c].attempt, LastEvent(c), starts,
                   CountIn(log[c], "error", m))
      BY <1>2, <1>4, <2>4 DEF Counted
    <3>2. starts = call[c].attempt \/ starts = call[c].attempt - 1
      <4>1. call[c].pc \in Pc
        BY CallTyped
      <4> QED
        BY <2>1, <3>1, <4>1 DEF CountsAt, Pc
    <3>3. call[c].attempt \in 1 .. routes[k].attempts
      BY <2>1, <2>4
    <3> HIDE DEF starts, bound
    <3> QED
      BY <2>2, <2>3, <3>2, <3>3
  <2>5. CASE k # call[c].route
    <3>1. k < call[c].route \/ call[c].route < k
      BY <2>1, <2>5
    <3>2. starts \in 1 .. routes[k].attempts \/ starts = 0
      BY <1>2, <1>4, <3>1 DEF Counted
    <3> HIDE DEF starts, bound
    <3> QED
      BY <2>2, <2>3, <3>2
  <2> QED
    BY <2>4, <2>5
<1> QED
  BY <1>1, <1>3, <1>4

\* What is known of an event from its kind.
LEMMA EventTyped ==
    ASSUME TypeOK, NEW c \in Calls, NEW i \in 1 .. Len(log[c]), log[c][i].event = "error"
    PROVE  log[c][i].class \in Classes /\ log[c][i].action \in Actions
<1> DEFINE e == log[c][i]
<1>1. e \in Event
  BY CallTyped
<1> HIDE DEF e
<1>2. ASSUME e \in Asked PROVE e.event # "error"
  BY <1>2 DEF Asked
<1>3. ASSUME e \in Answered PROVE e.event # "error"
  BY <1>3 DEF Answered
<1>4. e \in Failed
  BY <1>1, <1>2, <1>3 DEF Event, e
<1>5. e.class \in Classes /\ e.action \in Actions
  BY <1>4 DEF Failed
<1> QED
  BY <1>5 DEF e

LEMMA ActionsFollow ==
    ASSUME TypeOK, IInv PROVE LoggedActionIsTaken
<1> SUFFICES ASSUME NEW c \in Calls, NEW i \in DOMAIN log[c], log[c][i].event = "error"
             PROVE  LET next == IF i < Len(log[c]) THEN log[c][i + 1] ELSE None
                        last == i = Len(log[c])
                    IN CASE log[c][i].action = "retry_same_model" ->
                               IF last THEN ~Ended(c) /\ Model(c) = log[c][i].model
                               ELSE next.event \in {"start", "error"}
                                    /\ next.model = log[c][i].model
                         [] log[c][i].action = "fallback_model" ->
                               ~last /\ next.event = "fallback" /\ next.model # log[c][i].model
                         [] OTHER -> last /\ call[c].pc = "raised"
  BY DEF LoggedActionIsTaken
<1> DEFINE next == IF i < Len(log[c]) THEN log[c][i + 1] ELSE None
<1>1. i \in 1 .. Len(log[c]) /\ Len(log[c]) \in Nat
  BY CallTyped
<1>2. TakenAt(c, i)
  BY <1>1 DEF IInv, ActionsTaken
<1>3. i # Len(log[c]) => next = log[c][i + 1]
  BY <1>1
<1>4. log[c][i].action \in Actions
  BY <1>1, EventTyped
<1> HIDE DEF next
<1>5. CASE log[c][i].action = "retry_same_model"
  BY <1>2, <1>3, <1>5 DEF TakenAt, next
<1>6. CASE log[c][i].action = "fallback_model"
  BY <1>2, <1>3, <1>6 DEF TakenAt, next
<1>7. CASE log[c][i].action \in {"exhausted", "raise_configuration_error"}
  BY <1>2, <1>7 DEF TakenAt
<1> QED
  BY <1>4, <1>5, <1>6, <1>7 DEF Actions

LEMMA FatalFollows ==
    ASSUME TypeOK, IInv PROVE FatalIsFinal
<1> SUFFICES ASSUME NEW c \in Calls, NEW i \in DOMAIN log[c], NEW k \in DOMAIN log[c],
                    i < k, log[c][i].event = "error"
             PROVE  /\ log[c][i].class # "ConfigurationError"
                    /\ log[c][i].class = "ProviderFatalError" =>
                          log[c][k].event # "start" \/ log[c][k].model # log[c][i].model
  BY DEF FatalIsFinal
<1>1. i \in 1 .. Len(log[c]) /\ k \in 1 .. Len(log[c]) /\ Len(log[c]) \in Nat
  BY CallTyped
<1>2. i # Len(log[c])
  BY <1>1
<1>3. TakenAt(c, i) /\ FatalIsPassed(c)
  BY <1>1 DEF IInv, ActionsTaken
<1>4. log[c][i].class # "ConfigurationError"
  BY <1>2, <1>3 DEF TakenAt
<1> QED
  BY <1>1, <1>3, <1>4 DEF FatalIsPassed

LEMMA RaisesFollow ==
    ASSUME TypeOK, IInv PROVE RaisesOnlyWhenExhausted
<1> SUFFICES ASSUME NEW c \in Calls, call[c].pc = "raised", Routable(config, Chain(c)),
                    log[c][Len(log[c])].class # "ConfigurationError",
                    NEW m \in ChainModels(Chain(c))
             PROVE  Count(c, "start", m) >= 1 /\ Count(c, "error", m) = Count(c, "start", m)
  BY DEF RaisesOnlyWhenExhausted
<1> DEFINE routes == call[c].routes
           starts == CountIn(log[c], "start", m)
           errs == CountIn(log[c], "error", m)
<1>1. Count(c, "start", m) = starts /\ Count(c, "error", m) = errs
  BY DEF Count, CountIn
<1>2. FollowsChain(c) /\ Counted(c) /\ LogTells(c)
  BY DEF IInv
<1>3. /\ routes # << >> /\ routes = RoutesOf(Chain(c))
      /\ call[c].route \in 1 .. Len(routes)
      /\ call[c].attempt \in 1 .. routes[call[c].route].attempts
  BY <1>2 DEF FollowsChain
<1>4. /\ Len(routes) \in Nat
      /\ {routes[n].model : n \in 1 .. Len(routes)} = ChainModels(Chain(c))
  BY <1>3, RoutesTyped
<1>5. PICK k \in 1 .. Len(routes) : routes[k].model = m
  BY <1>4
<1>6. call[c].route = Len(routes)
  BY <1>2, <1>3 DEF LogTells, LastEvent
<1>7. CASE k = call[c].route
  <2>1. CountsAt(call[c].pc, call[c].attempt, LastEvent(c), starts, errs)
    BY <1>2, <1>5, <1>7 DEF Counted
  <2>2. errs = call[c].attempt /\ starts = call[c].attempt
    BY <2>1 DEF CountsAt, LastEvent
  <2>3. call[c].attempt >= 1
    BY <1>3
  <2> QED
    BY <1>1, <2>2, <2>3
<1>8. CASE k # call[c].route
  <2>1. k < call[c].route
    BY <1>4, <1>6, <1>8
  <2>2. starts \in 1 .. routes[k].attempts /\ errs = starts
    BY <1>2, <1>5, <2>1 DEF Counted
  <2> HIDE DEF starts, errs
  <2> QED
    BY <1>1, <2>2
<1> QED
  BY <1>7, <1>8

LEMMA UsageFollows ==
    ASSUME TypeOK, IInv PROVE UsageStaysWithProvider /\ UsageIsOwnWhenAlone
<1>1. \A c \in Calls : DOMAIN log[c] = 1 .. Len(log[c])
  BY CallTyped
<1>2. UsageStaysWithProvider
  <2> SUFFICES ASSUME NEW c \in Calls, NEW i \in DOMAIN log[c], log[c][i].event = "done"
               PROVE  /\ log[c][i].usage = {} <=> ProviderOf(log[c][i].model) \notin Reporting
                      /\ \A a \in log[c][i].usage :
                            ProviderOf(a.model) = ProviderOf(log[c][i].model)
    BY DEF UsageStaysWithProvider
  <2>1. LoggedUsageFits(c)
    BY DEF IInv
  <2> QED
    BY <1>1, <2>1 DEF LoggedUsageFits
<1>3. UsageIsOwnWhenAlone
  <2> SUFFICES ASSUME NEW c \in Calls, call[c].pc = "returned",
                      \A d \in Calls \ {c} : \A i \in DOMAIN log[d] :
                         ProviderOf(log[d][i].model) # ProviderOf(Model(c))
               PROVE  log[c][Len(log[c])].usage = call[c].spent
    BY DEF UsageIsOwnWhenAlone
  <2>1. UsageIsSpent(c)
    BY DEF IInv
  <2>2. ~ProviderShared(c)
    BY <1>1 DEF ProviderShared
  <2> QED
    BY <2>1, <2>2 DEF UsageIsSpent, LastEvent
<1> QED
  BY <1>2, <1>3

LEMMA RefsFollow ==
    ASSUME TypeOK, IInv PROVE ErrorRefsResolve
<1> SUFFICES ASSUME NEW c \in Calls, NEW i \in DOMAIN log[c], log[c][i].event = "error",
                    log[c][i].ref # None
             PROVE  LET named == {k \in DOMAIN errors : [kind |-> errors[k].kind,
                                      index |-> errors[k].index] = log[c][i].ref}
                    IN Cardinality(named) = 1 /\ \A k \in named : errors[k].call = c
  BY DEF ErrorRefsResolve
<1> DEFINE name(k) == [kind |-> errors[k].kind, index |-> errors[k].index]
           named == {k \in DOMAIN errors : name(k) = log[c][i].ref}
<1>1. i \in 1 .. Len(log[c]) /\ DOMAIN errors = 1 .. Len(errors)
  BY CallTyped
<1>2. RefsOwn(c) /\ ErrorsNumbered
  BY DEF IInv
<1>3. PICK k \in 1 .. Len(errors) : name(k) = log[c][i].ref /\ errors[k].call = c
  BY <1>1, <1>2 DEF RefsOwn
<1>4. ASSUME NEW l \in 1 .. Len(errors), name(l) = name(k) PROVE l = k
  <2>1. errors[l].kind = errors[k].kind /\ errors[l].index = errors[k].index
    BY <1>4
  <2> QED
    BY <1>2, <2>1 DEF ErrorsNumbered
<1>5. named = {k}
  BY <1>1, <1>3, <1>4
<1> HIDE DEF named
<1>6. Cardinality(named) = 1
  BY <1>5, FS_Singleton
<1> QED
  BY <1>3, <1>5, <1>6 DEF named

LEMMA TriesFollow ==
    ASSUME TypeOK, IInv PROVE RoutedCallsAreTried
<1> SUFFICES ASSUME NEW c \in Calls, Ended(c), Prompt[c] \in DOMAIN config.nodes
             PROVE  log[c] # << >>
  BY DEF RoutedCallsAreTried
<1>1. Chain(c) = config.nodes[Prompt[c]]
  BY DEF Chain, ChainFor
<1>2. Routable(config, Chain(c))
  BY <1>1, ConfigTyped
<1>3. call[c].routes # << >>
  BY <1>2 DEF IInv, FollowsChain, Ended
<1> QED
  BY <1>3 DEF IInv, LogTells, Ended

\* However the providers answer, and however often the chain of a call names a
\* model, its primary model is asked no more often than the node's policy says
\* and any other model once.
THEOREM AttemptsAreBounded == Spec => []PolicyBoundsAttempts
BY InductiveInvariant, PolicyFollows, PTL

\* An error event names what the router does next: _next_action decides as the
\* loops of _complete_with_fallback do.
THEOREM LogIsTrue == Spec => []LoggedActionIsTaken
BY InductiveInvariant, ActionsFollow, PTL

\* A model that failed for good is not asked again by the same call, and nothing
\* follows an error of the configuration.
THEOREM FatalErrorsEnd == Spec => []FatalIsFinal
BY InductiveInvariant, FatalFollows, PTL

\* A call that raises has asked every model of its chain and each attempt has
\* failed, unless the configuration is at fault.
THEOREM RaisesWhenExhausted == Spec => []RaisesOnlyWhenExhausted
BY InductiveInvariant, RaisesFollow, PTL

\* The tokens in a done event were spent at the provider that answered, with
\* any number of threads that share a client.
THEOREM UsageOfTheProvider == Spec => []UsageStaysWithProvider
BY InductiveInvariant, UsageFollows, PTL

\* They are those of the answer and its repair when no other call has had to do
\* with the provider.
THEOREM UsageOfTheCall == Spec => []UsageIsOwnWhenAlone
BY InductiveInvariant, UsageFollows, PTL

\* The file that an error event names was written for that error alone.
THEOREM RefsResolve == Spec => []ErrorRefsResolve
BY InductiveInvariant, RefsFollow, PTL

\* A call with a node entry does not end without an event.
THEOREM NodesAreServed == Spec => []RoutedCallsAreTried
BY InductiveInvariant, TriesFollow, PTL
=============================================================================
