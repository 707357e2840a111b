---------------------------- MODULE LLMUsageProofs ----------------------------
(***************************************************************************)
(* What a run writes about its calls adds up, for any number of calls:     *)
(* every attempt is followed in the log of its call by how it ended, and   *)
(* every attempt but the first follows the error or the fallback it makes  *)
(* up for, so the events can be told off against each other.               *)
(***************************************************************************)
EXTENDS LLMUsage, LLMRouterProofs

-----------------------------------------------------------------------------
(* Counting.                                                               *)

\* Sets whose elements are told off against each other have as many.
LEMMA ToldOff ==
    ASSUME NEW S, IsFiniteSet(S), NEW T, NEW f \in [S -> T],
           \A x, y \in S : f[x] = f[y] => x = y,
           \A t \in T : \E x \in S : f[x] = t
    PROVE  IsFiniteSet(T) /\ Cardinality(T) = Cardinality(S)
<1>1. f \in Injection(S, T) /\ f \in Surjection(S, T)
  BY DEF Injection, Surjection, IsInjective
<1> QED
  BY <1>1, FS_Surjection

\* The values of a function on a finite set are finitely many.
LEMMA ValuesFinite ==
    ASSUME NEW S, IsFiniteSet(S), NEW f
    PROVE  IsFiniteSet({f[x] : x \in S})
<1> DEFINE g == [x \in S |-> f[x]]
<1>1. g \in Surjection(S, {f[x] : x \in S})
  BY DEF Surjection
<1> QED
  BY <1>1, FS_Surjection

\* Two sets that share nothing.
LEMMA Apart ==
    ASSUME NEW S, IsFiniteSet(S), NEW T, IsFiniteSet(T), S \cap T = {}
    PROVE  /\ IsFiniteSet(S \cup T)
           /\ Cardinality(S \cup T) = Cardinality(S) + Cardinality(T)
           /\ Cardinality(S) \in Nat /\ Cardinality(T) \in Nat
<1>1. Cardinality(S) \in Nat /\ Cardinality(T) \in Nat
  BY FS_CardinalityType
<1>2. Cardinality(S \cap T) = 0
  BY FS_EmptySet
<1>3. /\ IsFiniteSet(S \cup T)
      /\ Cardinality(S \cup T) = Cardinality(S) + Cardinality(T) - Cardinality(S \cap T)
  BY FS_Union
<1> QED
  BY <1>1, <1>2, <1>3

\* What has been put into groups is counted by adding up the groups.
LEMMA GroupsAddUp ==
    ASSUME NEW E, IsFiniteSet(E), NEW key, NEW f,
           DOMAIN f = {key[e] : e \in E},
           \A k \in DOMAIN f : f[k] = Cardinality({e \in E : key[e] = k})
    PROVE  SumFunction(f) = Cardinality(E)
<1> DEFINE K == DOMAIN f
           In(t) == {e \in E : key[e] \in t}
           pick(t) == CHOOSE x \in t : TRUE
           count == [t \in SUBSET K |-> Cardinality(In(t))]
           Sums(g) == g = [t \in SUBSET K |-> IF t = {} THEN 0
                                             ELSE f[pick(t)] + g[t \ {pick(t)}]]
           iter == CHOOSE iter : iter = [t \in SUBSET K |->
                        IF t = {} THEN 0 ELSE f[pick(t)] + iter[t \ {pick(t)}]]
<1>1. IsFiniteSet(K)
  BY ValuesFinite
<1>2. \A t : IsFiniteSet(In(t)) /\ Cardinality(In(t)) \in Nat
  BY FS_Subset, FS_CardinalityType
<1>3. ASSUME NEW t \in SUBSET K, NEW x \in t
      PROVE  Cardinality(In(t)) = f[x] + Cardinality(In(t \ {x}))
  <2> DEFINE same == {e \in E : key[e] = x}
  <2>1. In(t) = same \cup In(t \ {x}) /\ same \cap In(t \ {x}) = {}
    OBVIOUS
  <2>2. IsFiniteSet(same) /\ IsFiniteSet(In(t \ {x})) /\ f[x] = Cardinality(same)
    BY <1>2, FS_Subset
  <2> HIDE DEF same, In
  <2> QED
    BY <2>1, <2>2, Apart
<1>4. \A t \in SUBSET K : t # {} => pick(t) \in t
  OBVIOUS
<1> HIDE DEF pick
<1>5. Sums(count)
  <2>1. Cardinality(In({})) = 0
    BY FS_EmptySet
  <2>2. ASSUME NEW t \in SUBSET K
        PROVE  Cardinality(In(t)) = IF t = {} THEN 0 ELSE f[pick(t)] + count[t \ {pick(t)}]
    <3>1. count[t \ {pick(t)}] = Cardinality(In(t \ {pick(t)}))
      OBVIOUS
    <3> HIDE DEF count, In
    <3> QED
      BY <1>3, <1>4, <2>1, <3>1
  <2> HIDE DEF In
  <2> QED
    BY <2>2
<1>6. Sums(iter)
  <2>1. \E g : g = [t \in SUBSET K |-> IF t = {} THEN 0 ELSE f[pick(t)] + g[t \ {pick(t)}]]
    BY <1>5
  <2> HIDE DEF count
  <2> QED
    BY <2>1
<1>7. SumFunction(f) = iter[K]
  BY DEF SumFunction, SumFunctionOnSet, FoldFunctionOnSet, MapThenFoldSet, pick
<1> HIDE DEF iter, In
<1> DEFINE known == {n \in Nat : \A t \in SUBSET K :
                        Cardinality(t) = n => iter[t] = Cardinality(In(t))}
<1>8. 0 \in known
  <2>1. \A t \in SUBSET K : Cardinality(t) = 0 => t = {}
    BY <1>1, FS_Subset, FS_EmptySet
  <2>2. iter[{}] = 0
    BY <1>6
  <2>3. Cardinality(In({})) = 0
    BY FS_EmptySet DEF In
  <2> QED
    BY <2>1, <2>2, <2>3
<1>9. ASSUME NEW n \in known PROVE n + 1 \in known
  <2> SUFFICES ASSUME NEW t \in SUBSET K, Cardinality(t) = n + 1
               PROVE  iter[t] = Cardinality(In(t))
    OBVIOUS
  <2>1. IsFiniteSet(t) /\ t # {} /\ n \in Nat
    BY <1>1, FS_Subset, FS_EmptySet
  <2>2. pick(t) \in t
    BY <1>4, <2>1
  <2>3. Cardinality(t \ {pick(t)}) = n
    <3>1. Cardinality(t \ {pick(t)}) = Cardinality(t) - 1
      BY <2>1, <2>2, FS_RemoveElement
    <3> QED
      BY <2>1, <3>1
  <2>4. iter[t] = f[pick(t)] + iter[t \ {pick(t)}]
    BY <1>6, <2>1
  <2>5. iter[t \ {pick(t)}] = Cardinality(In(t \ {pick(t)}))
    BY <2>3
  <2> QED
    BY <1>3, <2>2, <2>4, <2>5
<1>10. known = Nat
  <2>1. known \in SUBSET Nat
    OBVIOUS
  <2> HIDE DEF known
  <2> QED
    BY <1>8, <1>9, <2>1, SetInduction
<1>11. Cardinality(K) \in known
  <2> HIDE DEF known
  <2> QED
    BY <1>1, <1>10, FS_CardinalityType
<1>12. iter[K] = Cardinality(In(K))
  BY <1>11
<1>13. In(K) = E
  BY DEF In
<1> QED
  BY <1>7, <1>12, <1>13

-----------------------------------------------------------------------------
(* What the log of a call looks like.                                      *)

\* An attempt is asked for, or refused for want of a provider; what was asked for
\* succeeds or fails; and the call goes on to another attempt.
Opens(e) == e.event = "start" \/ (e.event = "error" /\ e.class = "ConfigurationError")
Settles(e) == e.event = "done" \/ (e.event = "error" /\ e.class # "ConfigurationError")
GoesOn(e) == e.event = "fallback" \/ (e.event = "error" /\ e.action = "retry_same_model")

Alternates(s) ==
    /\ s # << >> => Opens(s[1])
    /\ \A i \in 1 .. Len(s) - 1 : /\ GoesOn(s[i]) <=> Opens(s[i + 1])
                                  /\ s[i].event = "start" <=> Settles(s[i + 1])
                                  /\ s[i].event # "done"

\* The last event tells whether the call is asking, and whether it has yet to ask.
LogAlternates(c) ==
    /\ Alternates(log[c])
    /\ log[c] # << >> =>
          /\ LastEvent(c).event = "start" <=> Asking(c)
          /\ GoesOn(LastEvent(c)) <=> call[c].pc \in {"resolve", "create"}
          /\ LastEvent(c).event = "done" <=> call[c].pc = "returned"

\* What may follow the last event of a log.
LEMMA NextAlternates ==
    ASSUME NEW s \in Seq(Event), NEW x \in Event, Alternates(s),
           s = << >> => Opens(x),
           s # << >> => LET last == s[Len(s)] IN
                           /\ GoesOn(last) <=> Opens(x)
                           /\ last.event = "start" <=> Settles(x)
                           /\ last.event # "done"
    PROVE  Alternates(Append(s, x))
<1> DEFINE t == Append(s, x)
<1>1. /\ Len(s) \in Nat /\ Len(t) = Len(s) + 1 /\ t[Len(s) + 1] = x
      /\ \A i \in 1 .. Len(s) : t[i] = s[i]
      /\ s = << >> <=> Len(s) = 0
  OBVIOUS
<1> HIDE DEF t
<1>2. Opens(t[1])
  BY <1>1 DEF Alternates
<1>3. ASSUME NEW i \in 1 .. Len(t) - 1
      PROVE  /\ GoesOn(t[i]) <=> Opens(t[i + 1])
             /\ t[i].event = "start" <=> Settles(t[i + 1])
             /\ t[i].event # "done"
  <2>1. i \in 1 .. Len(s) /\ t[i] = s[i] /\ s # << >>
    BY <1>1
  <2>2. CASE i = Len(s)
    BY <1>1, <2>1, <2>2
  <2>3. CASE i # Len(s)
    <3>1. i \in 1 .. Len(s) - 1 /\ t[i + 1] = s[i + 1]
      BY <1>1, <2>1, <2>3
    <3> QED
      BY <2>1, <3>1 DEF Alternates
  <2> QED
    BY <2>2, <2>3
<1> QED
  BY <1>2, <1>3 DEF Alternates, t

\* A call that moves keeps the form of its log.
LEMMA LogAlternatesKept ==
    ASSUME TypeOK, NEW c \in Calls, FollowsChain(c), LogTells(c), LogAlternates(c),
           Moves(c), log'[c] \in Seq(Event)
    PROVE  LogAlternates(c)'
<1> DEFINE s == log[c]
           t == log'[c]
<1>1. s \in Seq(Event) /\ t \in Seq(Event) /\ Len(s) \in Nat
  BY CallTyped
<1>2. ASSUME t = s,
             Asking(c)' = Asking(c),
             call'[c].pc \in {"resolve", "create"} <=> call[c].pc \in {"resolve", "create"},
             call'[c].pc = "returned" <=> call[c].pc = "returned"
      PROVE  LogAlternates(c)'
  BY <1>2 DEF LogAlternates, LastEvent
<1>3. ASSUME call[c].pc = "begin" PROVE s = << >>
  BY <1>3 DEF FollowsChain
<1>4. ASSUME t = << >> PROVE LogAlternates(c)'
  BY <1>4 DEF LogAlternates, Alternates
<1>5. ASSUME t # << >>, Alternates(t),
             t[Len(t)].event = "start" <=> Asking(c)',
             GoesOn(t[Len(t)]) <=> call'[c].pc \in {"resolve", "create"},
             t[Len(t)].event = "done" <=> call'[c].pc = "returned"
      PROVE  LogAlternates(c)'
  BY <1>5 DEF LogAlternates, LastEvent
<1>6. CASE Refused(c)
  BY <1>3, <1>4, <1>6 DEF Refused
<1>7. CASE Begins(c)
  BY <1>3, <1>4, <1>7 DEF Begins
<1>8. CASE Proceeds(c)
  BY <1>2, <1>8 DEF Proceeds, Asking
<1>9. CASE Asks(c)
  <2>1. call[c].pc \notin {"begin", "raised"}
    BY <1>9 DEF Asks
  <2> DEFINE x == Started(c)
  <2>2. x \in Event /\ x.event = "start"
    BY <2>1, MoveTyped
  <2>3. Opens(x) /\ ~Settles(x) /\ ~GoesOn(x)
    BY <2>2 DEF Opens, Settles, GoesOn
  <2> HIDE DEF x
  <2>4. t = Append(s, x) /\ call'[c].pc = "post"
    BY <1>9 DEF Asks, x
  <2>5. s # << >> => /\ GoesOn(s[Len(s)]) /\ s[Len(s)].event # "start"
                     /\ s[Len(s)].event # "done"
    BY <1>9 DEF Asks, LogAlternates, LastEvent, Asking
  <2>6. Alternates(t)
    BY <1>1, <2>2, <2>3, <2>4, <2>5, NextAlternates DEF LogAlternates
  <2>7. t # << >> /\ t[Len(t)] = x
    BY <1>1, <2>2, <2>4, Appended
  <2> QED
    BY <1>5, <2>2, <2>3, <2>4, <2>6, <2>7 DEF Asking
<1>10. CASE Returns(c)
  <2> DEFINE x == [event |-> "done", model |-> Model(c), usage |-> UsageOfClient(c)]
  <2>1. call[c].pc = "done" /\ call'[c].pc = "returned" /\ t = Append(s, x)
    BY <1>10 DEF Returns
  <2>2. x.event = "done"
    OBVIOUS
  <2>3. ~Opens(x) /\ Settles(x) /\ ~GoesOn(x)
    BY <2>2 DEF Opens, Settles, GoesOn
  <2> HIDE DEF x
  <2>4. x \in Event /\ t # << >> /\ t[Len(t)] = x
    <3>1. Len(t) = Len(s) + 1 /\ t[Len(s) + 1] = x /\ t # << >>
      BY <1>1, <2>1
    <3>2. t[Len(t)] \in Event
      BY <1>1, <3>1
    <3> QED
      BY <3>1, <3>2
  <2>5. s # << >> /\ s[Len(s)].event = "start" /\ ~GoesOn(s[Len(s)])
    BY <2>1 DEF LogAlternates, LogTells, LastEvent, Asking
  <2>6. Alternates(t)
    BY <1>1, <2>1, <2>3, <2>4, <2>5, NextAlternates DEF LogAlternates
  <2> QED
    BY <1>5, <2>1, <2>2, <2>3, <2>4, <2>6 DEF Asking
<1>11. ASSUME NEW class \in Classes, Fails(c, class) PROVE LogAlternates(c)'
  <2>1. CanFail(c, class) /\ call[c].pc \notin {"begin", "raised"}
    BY <1>11 DEF Fails, Retries, FallsBack, Raises, CanFail
  <2> DEFINE x == Failure(c, class)
             u == Append(s, x)
  <2>2. /\ x \in Event /\ x.event = "error" /\ x.class = class
        /\ x.action = NextAction(c, class)
    BY <2>1, MoveTyped
  <2> HIDE DEF x
  <2>3. Opens(x) <=> class = "ConfigurationError"
    BY <2>2 DEF Opens
  <2>4. Settles(x) <=> class # "ConfigurationError"
    BY <2>2 DEF Settles
  <2>5. GoesOn(x) <=> NextAction(c, class) = "retry_same_model"
    BY <2>2 DEF GoesOn
  <2>6. IF class = "ConfigurationError"
        THEN s # << >> => /\ GoesOn(s[Len(s)]) /\ s[Len(s)].event # "start"
                          /\ s[Len(s)].event # "done"
        ELSE s # << >> /\ s[Len(s)].event = "start" /\ ~GoesOn(s[Len(s)])
    BY <2>1 DEF CanFail, Retryable, LogAlternates, LogTells, LastEvent, Asking
  <2>7. Alternates(u)
    BY <1>1, <2>2, <2>3, <2>4, <2>6, NextAlternates DEF LogAlternates
  <2>8. u \in Seq(Event) /\ u # << >> /\ u[Len(u)] = x
    BY <1>1, <2>2, Appended
  <2> HIDE DEF u
  <2>9. CASE Retries(c, class)
    <3>1. t = u /\ call'[c].pc = "resolve" /\ Again(c, class)
      BY <2>9 DEF Retries, u, x
    <3>2. NextAction(c, class) = "retry_same_model"
      BY <3>1 DEF Again, NextAction, Retryable
    <3> QED
      BY <1>5, <2>2, <2>5, <2>7, <2>8, <3>1, <3>2 DEF Asking
  <2>10. CASE Raises(c, class)
    <3>1. /\ t = u /\ call'[c].pc = "raised"
          /\ class = "ConfigurationError" \/ ~Again(c, class)
      BY <2>10 DEF Raises, u, x
    <3>2. NextAction(c, class) # "retry_same_model"
      BY <3>1 DEF Again, NextAction, Retryable
    <3> QED
      BY <1>5, <2>2, <2>5, <2>7, <2>8, <3>1, <3>2 DEF Asking
  <2>11. CASE FallsBack(c, class)
    <3> DEFINE y == Fallback(c)
    <3>1. y \in Event /\ y.event = "fallback"
      BY <2>1, <2>11, MoveTyped DEF FallsBack
    <3>2. ~Opens(y) /\ ~Settles(y) /\ GoesOn(y)
      BY <3>1 DEF Opens, Settles, GoesOn
    <3> HIDE DEF y
    <3>3. t = Append(u, y) /\ call'[c].pc = "resolve" /\ ~Again(c, class)
      BY <2>11 DEF FallsBack, u, x, y
    <3>4. ~GoesOn(x)
      BY <2>5, <3>3 DEF Again, NextAction
    <3>5. Alternates(t)
      BY <2>2, <2>7, <2>8, <3>1, <3>2, <3>3, <3>4, NextAlternates
    <3>6. t # << >> /\ t[Len(t)] = y
      BY <2>8, <3>1, <3>3, Appended
    <3> QED
      BY <1>5, <3>1, <3>2, <3>3, <3>5, <3>6 DEF Asking
  <2> QED
    BY <1>11, <2>9, <2>10, <2>11 DEF Fails
<1> QED
  BY <1>6, <1>7, <1>8, <1>9, <1>10, <1>11 DEF Moves

\* Every log has this form in every state.
LEMMA LogsAlternate ==
    Spec => [](TypeOK /\ IInv /\ \A c \in Calls : LogAlternates(c))
<1> DEFINE All == \A c \in Calls : LogAlternates(c)
<1>1. Init => All
  <2> SUFFICES ASSUME Init, NEW c \in Calls PROVE LogAlternates(c)
    OBVIOUS
  <2>1. log[c] = << >>
    BY DEF Init
  <2> QED
    BY <2>1 DEF LogAlternates, Alternates
<1>2. TypeOK /\ IInv /\ All /\ [Next]_vars => All'
  <2> SUFFICES ASSUME TypeOK, IInv, All, [Next]_vars, NEW d \in Calls PROVE LogAlternates(d)'
    OBVIOUS
  <2>1. ASSUME call'[d] = call[d], log'[d] = log[d] PROVE LogAlternates(d)'
    <3>1. LogAlternates(d)
      OBVIOUS
    <3> QED
      BY <2>1, <3>1 DEF LogAlternates, LastEvent, Asking
  <2>2. CASE UNCHANGED vars
    BY <2>1, <2>2 DEF vars
  <2>3. ASSUME NEW c \in Calls, CallStep(c) PROVE LogAlternates(d)'
    <3>1. FollowsChain(c) /\ ClientFits(c) /\ LogTells(c) /\ LogAlternates(c)
      BY DEF IInv
    <3>2. log' \in [Calls -> Seq(Event)] /\ Frame(c) /\ Moves(c)
      BY <2>3, <3>1, StepMoves
    <3>3. CASE d = c
      <4>1. log'[c] \in Seq(Event)
        BY <3>2
      <4> QED
        BY <3>1, <3>2, <3>3, <4>1, LogAlternatesKept
    <3>4. CASE d # c
      BY <2>1, <3>2, <3>4 DEF Frame
    <3> QED
      BY <3>3, <3>4
  <2> QED
    BY <2>2, <2>3 DEF Next, AllEnded
<1> QED
  BY <1>1, <1>2, InductiveInvariant, PTL DEF Spec

-----------------------------------------------------------------------------
(* The events of all calls.                                                *)

\* The event at a place of the log of a call.
At(c, i) == [call |-> c, log |-> log[c][i], at |-> i]

Attempts == {e \in Events : Opens(e.log)}
Settled == {e \in Events : Settles(e.log)}
Goings == {e \in Events : GoesOn(e.log)}
Refusals == {e \in Of("error") : e.log.class = "ConfigurationError"}
Retried == {e \in Of("error") : e.log.action = "retry_same_model"}
Begun == {c \in Calls : log[c] # << >>}

\* Events are told apart by their calls and places.
LEMMA EventsAt ==
    ASSUME TypeOK
    PROVE  /\ \A e \in Events : /\ e.call \in Calls /\ e.at \in 1 .. Len(log[e.call])
                                /\ e.log = log[e.call][e.at] /\ e = At(e.call, e.at)
           /\ \A c \in Calls : \A i \in 1 .. Len(log[c]) : At(c, i) \in Events
           /\ \A c, i : At(c, i).call = c /\ At(c, i).at = i /\ At(c, i).log = log[c][i]
<1>1. \A c \in Calls : DOMAIN log[c] = 1 .. Len(log[c])
  BY CallTyped
<1> QED
  BY <1>1 DEF Events, At

\* They are finitely many.
LEMMA EventsFinite ==
    ASSUME TypeOK PROVE IsFiniteSet(Events)
<1> DEFINE of == [c \in Calls |-> {At(c, i) : i \in DOMAIN log[c]}]
<1>1. IsFiniteSet({of[c] : c \in Calls})
  <2> HIDE DEF of
  <2> QED
    BY LLMUsageAssumption, ValuesFinite
<1>2. ASSUME NEW c \in Calls PROVE IsFiniteSet(of[c])
  <2>1. DOMAIN log[c] = 1 .. Len(log[c]) /\ Len(log[c]) \in Nat
    BY CallTyped
  <2>2. IsFiniteSet(DOMAIN log[c])
    BY <2>1, FS_Interval
  <2> DEFINE at == [i \in DOMAIN log[c] |-> At(c, i)]
  <2>3. IsFiniteSet({at[i] : i \in DOMAIN log[c]})
    <3> HIDE DEF at
    <3> QED
      BY <2>2, ValuesFinite
  <2>4. of[c] = {at[i] : i \in DOMAIN log[c]}
    OBVIOUS
  <2> QED
    BY <2>3, <2>4
<1>3. Events = UNION {of[c] : c \in Calls}
  BY DEF Events, At
<1>4. \A T \in {of[c] : c \in Calls} : IsFiniteSet(T)
  BY <1>2
<1> HIDE DEF of
<1> QED
  BY <1>1, <1>3, <1>4, FS_UNION

\* What was asked for has succeeded or failed, each time it was.
LEMMA StartsSettle ==
    ASSUME TypeOK, \A c \in Calls : LogAlternates(c) /\ Ended(c)
    PROVE  Cardinality(Settled) = Cardinality(Of("start"))
<1> DEFINE f == [e \in Of("start") |-> At(e.call, e.at + 1)]
<1>1. IsFiniteSet(Of("start"))
  BY EventsFinite, FS_Subset DEF Of
<1>2. ASSUME NEW e \in Of("start") PROVE At(e.call, e.at + 1) \in Settled
  <2> DEFINE s == log[e.call]
  <2>1. /\ e \in Events /\ e.call \in Calls /\ e.at \in 1 .. Len(s)
        /\ s[e.at].event = "start" /\ Len(s) \in Nat
    BY EventsAt, CallTyped DEF Of
  <2>2. e.at # Len(s)
    <3>1. ~Asking(e.call) /\ s # << >>
      BY <2>1 DEF Ended, Asking
    <3> QED
      BY <2>1, <3>1 DEF LogAlternates, LastEvent
  <2>3. e.at \in 1 .. Len(s) - 1 /\ e.at + 1 \in 1 .. Len(s)
    BY <2>1, <2>2
  <2>4. Settles(s[e.at + 1])
    BY <2>1, <2>3 DEF LogAlternates, Alternates
  <2> QED
    BY <2>1, <2>3, <2>4, EventsAt DEF Settled
<1>3. \A x, y \in Of("start") : f[x] = f[y] => x = y
  <2> SUFFICES ASSUME NEW x \in Of("start"), NEW y \in Of("start"),
                      At(x.call, x.at + 1) = At(y.call, y.at + 1)
               PROVE  x = y
    OBVIOUS
  <2>1. x.call = y.call /\ x.at + 1 = y.at + 1 /\ x.at \in Int /\ y.at \in Int
    BY EventsAt DEF Of
  <2>2. x.at = y.at
    BY <2>1
  <2> QED
    BY <2>1, <2>2, EventsAt DEF Of
<1>4. ASSUME NEW t \in Settled PROVE \E x \in Of("start") : f[x] = t
  <2> DEFINE s == log[t.call]
             x == At(t.call, t.at - 1)
  <2>1. /\ t \in Events /\ t.call \in Calls /\ t.at \in 1 .. Len(s) /\ Settles(s[t.at])
        /\ Len(s) \in Nat /\ t = At(t.call, t.at)
    BY EventsAt, CallTyped DEF Settled
  <2>2. t.at # 1
    <3>1. s # << >>
      BY <2>1
    <3>2. Opens(s[1])
      BY <2>1, <3>1 DEF LogAlternates, Alternates
    <3> QED
      BY <2>1, <3>2 DEF Opens, Settles
  <2>3. t.at - 1 \in 1 .. Len(s) - 1 /\ t.at - 1 \in 1 .. Len(s) /\ t.at - 1 + 1 = t.at
    BY <2>1, <2>2
  <2>4. s[t.at - 1].event = "start"
    BY <2>1, <2>3 DEF LogAlternates, Alternates
  <2>5. x \in Of("start") /\ x.call = t.call /\ x.at = t.at - 1
    BY <2>1, <2>3, <2>4, EventsAt DEF Of
  <2>6. f[x] = At(t.call, t.at - 1 + 1)
    <3> HIDE DEF x
    <3> QED
      BY <2>5
  <2> QED
    BY <2>1, <2>3, <2>5, <2>6
<1>5. f \in [Of("start") -> Settled]
  BY <1>2
<1> HIDE DEF f
<1> QED
  BY <1>1, <1>3, <1>4, <1>5, ToldOff

\* Each attempt is the first of its call or makes up for an error or a fallback.
LEMMA AttemptsFollow ==
    ASSUME TypeOK, \A c \in Calls : LogAlternates(c) /\ Ended(c)
    PROVE  Cardinality(Attempts) = Cardinality(Begun) + Cardinality(Goings)
<1> DEFINE first == {e \in Attempts : e.at = 1}
           later == {e \in Attempts : e.at # 1}
           g == [c \in Begun |-> At(c, 1)]
           f == [e \in Goings |-> At(e.call, e.at + 1)]
<1>1. IsFiniteSet(Goings) /\ IsFiniteSet(Begun)
  BY EventsFinite, FS_Subset, LLMUsageAssumption DEF Goings, Begun
<1>2. Cardinality(first) = Cardinality(Begun)
  <2>1. ASSUME NEW c \in Begun PROVE At(c, 1) \in first
    <3>1. c \in Calls /\ log[c] # << >> /\ Len(log[c]) \in Nat /\ log[c] \in Seq(Event)
      BY CallTyped DEF Begun
    <3>2. 1 \in 1 .. Len(log[c]) /\ Opens(log[c][1])
      BY <3>1 DEF LogAlternates, Alternates
    <3> QED
      BY <3>1, <3>2, EventsAt DEF Attempts
  <2>2. g \in [Begun -> first]
    BY <2>1
  <2>3. \A x, y \in Begun : g[x] = g[y] => x = y
    BY DEF At
  <2>4. ASSUME NEW t \in first PROVE \E c \in Begun : g[c] = t
    <3>1. t.call \in Calls /\ t.at = 1 /\ t.at \in 1 .. Len(log[t.call]) /\ t = At(t.call, t.at)
      BY EventsAt DEF Attempts
    <3>2. t.call \in Begun
      BY <3>1 DEF Begun
    <3> QED
      BY <3>1, <3>2
  <2> HIDE DEF g, first
  <2> QED
    BY <1>1, <2>2, <2>3, <2>4, ToldOff
<1>3. Cardinality(later) = Cardinality(Goings)
  <2>1. ASSUME NEW e \in Goings PROVE At(e.call, e.at + 1) \in later
    <3> DEFINE s == log[e.call]
    <3>1. /\ e \in Events /\ e.call \in Calls /\ e.at \in 1 .. Len(s)
          /\ GoesOn(s[e.at]) /\ Len(s) \in Nat
      BY EventsAt, CallTyped DEF Goings
    <3>2. e.at # Len(s)
      <4>1. call[e.call].pc \notin {"resolve", "create"} /\ s # << >>
        BY <3>1 DEF Ended
      <4> QED
        BY <3>1, <4>1 DEF LogAlternates, LastEvent
    <3>3. e.at \in 1 .. Len(s) - 1 /\ e.at + 1 \in 1 .. Len(s) /\ e.at + 1 # 1
      BY <3>1, <3>2
    <3>4. Opens(s[e.at + 1])
      BY <3>1, <3>3 DEF LogAlternates, Alternates
    <3> QED
      BY <3>1, <3>3, <3>4, EventsAt DEF Attempts
  <2>2. f \in [Goings -> later]
    BY <2>1
  <2>3. \A x, y \in Goings : f[x] = f[y] => x = y
    <3> SUFFICES ASSUME NEW x \in Goings, NEW y \in Goings,
                        At(x.call, x.at + 1) = At(y.call, y.at + 1)
                 PROVE  x = y
      OBVIOUS
    <3>1. x.call = y.call /\ x.at + 1 = y.at + 1 /\ x.at \in Int /\ y.at \in Int
      BY EventsAt DEF Goings
    <3>2. x.at = y.at
      BY <3>1
    <3> QED
      BY <3>1, <3>2, EventsAt DEF Goings
  <2>4. ASSUME NEW t \in later PROVE \E x \in Goings : f[x] = t
    <3> DEFINE s == log[t.call]
               x == At(t.call, t.at - 1)
    <3>1. /\ t \in Events /\ t.call \in Calls /\ t.at \in 1 .. Len(s) /\ Opens(s[t.at])
          /\ Len(s) \in Nat /\ t = At(t.call, t.at) /\ t.at # 1
      BY EventsAt, CallTyped DEF Attempts
    <3>2. t.at - 1 \in 1 .. Len(s) - 1 /\ t.at - 1 \in 1 .. Len(s) /\ t.at - 1 + 1 = t.at
      BY <3>1
    <3>3. GoesOn(s[t.at - 1])
      BY <3>1, <3>2 DEF LogAlternates, Alternates
    <3>4. x \in Goings /\ x.call = t.call /\ x.at = t.at - 1
      BY <3>1, <3>2, <3>3, EventsAt DEF Goings
    <3>5. f[x] = At(t.call, t.at - 1 + 1)
      <4> HIDE DEF x
      <4> QED
        BY <3>4
    <3> QED
      BY <3>1, <3>2, <3>4, <3>5
  <2> HIDE DEF f, later
  <2> QED
    BY <1>1, <2>2, <2>3, <2>4, ToldOff
<1>4. first \cup later = Attempts /\ first \cap later = {}
  OBVIOUS
<1>5. IsFiniteSet(first) /\ IsFiniteSet(later)
  BY EventsFinite, FS_Subset DEF Attempts
<1> HIDE DEF first, later
<1> QED
  BY <1>2, <1>3, <1>4, <1>5, Apart

\* A call that returns has logged one answer, and no other call has logged any.
LEMMA AnswersReturn ==
    ASSUME TypeOK, IInv, \A c \in Calls : LogAlternates(c)
    PROVE  Cardinality(Of("done")) = Cardinality({c \in Calls : call[c].pc = "returned"})
<1> DEFINE returned == {c \in Calls : call[c].pc = "returned"}
           f == [e \in Of("done") |-> e.call]
<1>1. IsFiniteSet(Of("done"))
  BY EventsFinite, FS_Subset DEF Of
<1>2. ASSUME NEW e \in Of("done") PROVE e.at = Len(log[e.call]) /\ e.call \in returned
  <2> DEFINE s == log[e.call]
  <2>1. /\ e.call \in Calls /\ e.at \in 1 .. Len(s) /\ s[e.at].event = "done"
        /\ Len(s) \in Nat
    BY EventsAt, CallTyped DEF Of
  <2>2. e.at = Len(s)
    <3>1. e.at \in 1 .. Len(s) - 1 => s[e.at].event # "done"
      BY <2>1 DEF LogAlternates, Alternates
    <3> QED
      BY <2>1, <3>1
  <2>3. s # << >>
    BY <2>1
  <2> QED
    BY <2>1, <2>2, <2>3 DEF LogAlternates, LastEvent
<1>3. f \in [Of("done") -> returned]
  BY <1>2
<1>4. \A x, y \in Of("done") : f[x] = f[y] => x = y
  <2> SUFFICES ASSUME NEW x \in Of("done"), NEW y \in Of("done"), x.call = y.call
               PROVE  x = y
    OBVIOUS
  <2>1. x.at = y.at
    BY <1>2
  <2> QED
    BY <2>1, EventsAt DEF Of
<1>5. ASSUME NEW c \in returned PROVE \E x \in Of("done") : f[x] = c
  <2> DEFINE x == At(c, Len(log[c]))
  <2>1. log[c] # << >> /\ LastEvent(c).event = "done"
    BY DEF IInv, LogTells
  <2>2. Len(log[c]) \in 1 .. Len(log[c])
    <3>1. log[c] \in Seq(Event)
      BY CallTyped
    <3> QED
      BY <2>1, <3>1
  <2>3. x \in Of("done") /\ x.call = c
    BY <2>1, <2>2, EventsAt DEF Of, LastEvent
  <2> HIDE DEF x
  <2> QED
    BY <2>3
<1> HIDE DEF f, returned
<1>6. Cardinality(returned) = Cardinality(Of("done"))
  BY <1>1, <1>3, <1>4, <1>5, ToldOff
<1> QED
  BY <1>6 DEF returned

-----------------------------------------------------------------------------
(* The two documents of a run.                                             *)

\* The events by what they are: an error is a refusal or the end of an attempt
\* that was asked for, and a call goes on after a fallback or a retry.
LEMMA EventKinds ==
    ASSUME TypeOK
    PROVE  /\ Cardinality(Attempts) = Cardinality(Of("start")) + Cardinality(Refusals)
           /\ Cardinality(Settled) = Cardinality(Of("done")) + Cardinality(Of("error"))
                                        - Cardinality(Refusals)
           /\ Cardinality(Goings) = Cardinality(Of("fallback")) + Cardinality(Retried)
           /\ \A event : IsFiniteSet(Of(event)) /\ Cardinality(Of(event)) \in Nat
           /\ Cardinality(Refusals) \in Nat /\ Cardinality(Retried) \in Nat
<1> DEFINE ends == {e \in Of("error") : e.log.class # "ConfigurationError"}
<1>1. \A T \in SUBSET Events : IsFiniteSet(T) /\ Cardinality(T) \in Nat
  BY EventsFinite, FS_Subset, FS_CardinalityType
<1>2. /\ \A event : Of(event) \in SUBSET Events
      /\ Refusals \in SUBSET Events /\ Retried \in SUBSET Events /\ ends \in SUBSET Events
  BY DEF Of, Refusals, Retried
<1>3. Attempts = Of("start") \cup Refusals /\ Of("start") \cap Refusals = {}
  BY DEF Attempts, Opens, Of, Refusals
<1>4. Settled = Of("done") \cup ends /\ Of("done") \cap ends = {}
  BY DEF Settled, Settles, Of
<1>5. Of("error") = Refusals \cup ends /\ Refusals \cap ends = {}
  BY DEF Refusals
<1>6. Goings = Of("fallback") \cup Retried /\ Of("fallback") \cap Retried = {}
  BY DEF Goings, GoesOn, Of, Retried
<1> HIDE DEF ends
<1>7. Cardinality(Attempts) = Cardinality(Of("start")) + Cardinality(Refusals)
  BY <1>1, <1>2, <1>3, Apart
<1>8. Cardinality(Settled) = Cardinality(Of("done")) + Cardinality(ends)
  BY <1>1, <1>2, <1>4, Apart
<1>9. Cardinality(Of("error")) = Cardinality(Refusals) + Cardinality(ends)
  BY <1>1, <1>2, <1>5, Apart
<1>10. Cardinality(Goings) = Cardinality(Of("fallback")) + Cardinality(Retried)
  BY <1>1, <1>2, <1>6, Apart
<1>11. /\ Cardinality(Of("done")) \in Nat /\ Cardinality(Refusals) \in Nat
       /\ Cardinality(ends) \in Nat
  BY <1>1, <1>2
<1>12. Cardinality(Settled) = Cardinality(Of("done")) + Cardinality(Of("error"))
                                 - Cardinality(Refusals)
  BY <1>8, <1>9, <1>11
<1> QED
  BY <1>1, <1>2, <1>7, <1>10, <1>12

\* The groups of the calls whose usage is known count each of them once.
LEMMA GroupsOf ==
    ASSUME TypeOK, NEW key PROVE CallsOf(Groups(key)) = Cardinality(WithUsage)
<1> DEFINE groups == Groups(key)
           f == [k \in DOMAIN groups |-> groups[k].calls]
<1>1. IsFiniteSet(WithUsage)
  BY EventsFinite, FS_Subset DEF WithUsage, Of
<1>2. DOMAIN groups = {key[e] : e \in WithUsage}
  BY DEF Groups
<1>3. \A k \in DOMAIN groups : groups[k].calls = Cardinality({e \in WithUsage : key[e] = k})
  BY DEF Groups
<1> HIDE DEF groups
<1>4. DOMAIN f = {key[e] : e \in WithUsage}
  BY <1>2
<1>5. \A k \in DOMAIN f : f[k] = Cardinality({e \in WithUsage : key[e] = k})
  BY <1>3
<1>6. CallsOf(groups) = SumFunction(f)
  BY DEF CallsOf
<1> HIDE DEF f
<1>7. SumFunction(f) = Cardinality(WithUsage)
  BY <1>1, <1>4, <1>5, GroupsAddUp
<1> QED
  BY <1>6, <1>7 DEF groups

\* The errors by their class.
LEMMA ErrorsByType ==
    ASSUME TypeOK PROVE SumFunction(Collected.error_type_counts) = Cardinality(Of("error"))
<1> DEFINE f == Collected.error_type_counts
           key == [e \in Of("error") |-> e.log.class]
<1>1. IsFiniteSet(Of("error"))
  BY EventsFinite, FS_Subset DEF Of
<1>2. f = [t \in {e.log.class : e \in Of("error")} |->
              Cardinality({e \in Of("error") : e.log.class = t})]
  BY DEF Collected
<1>3. DOMAIN f = {key[e] : e \in Of("error")}
  BY <1>2
<1>4. ASSUME NEW k \in DOMAIN f
      PROVE  f[k] = Cardinality({e \in Of("error") : key[e] = k})
  <2>1. {e \in Of("error") : key[e] = k} = {e \in Of("error") : e.log.class = k}
    OBVIOUS
  <2>2. f[k] = Cardinality({e \in Of("error") : e.log.class = k})
    BY <1>2
  <2> QED
    BY <2>1, <2>2
<1> HIDE DEF f, key
<1>5. SumFunction(f) = Cardinality(Of("error"))
  BY <1>1, <1>3, <1>4, GroupsAddUp
<1> QED
  BY <1>5 DEF f

\* See RunAddsUp.
LEMMA SummaryFollows ==
    ASSUME TypeOK, IInv, \A c \in Calls : LogAlternates(c)
    PROVE  SummaryAddsUp
<1> SUFFICES ASSUME \A c \in Calls : Ended(c)
             PROVE  LET s == build_usage_summary
                        refused == {e \in Of("error") : e.log.class = "ConfigurationError"}
                        retried == {e \in Of("error") : e.log.action = "retry_same_model"}
                        begun == {c \in Calls : log[c] # << >>}
                    IN
                    /\ s.total_calls = s.successful_calls + s.error_calls
                          - (IF Collected.call_count = 0 THEN 0 ELSE Cardinality(refused))
                    /\ Collected.call_count + Cardinality(refused)
                           = Cardinality(begun) + s.fallback_count + Cardinality(retried)
                    /\ s.successful_calls = Cardinality({c \in Calls : call[c].pc = "returned"})
                    /\ \A groups \in {s.by_provider, s.by_model, s.by_prompt} :
                          CallsOf(groups) + s.missing_usage_count = s.successful_calls
                    /\ s.known_usage =>
                          \A e \in Of("done") : ProviderOf(e.log.model) \in Reporting
                    /\ SumFunction(Collected.error_type_counts) = s.error_calls
  BY DEF SummaryAddsUp
<1> DEFINE s == build_usage_summary
<1>1. /\ s.total_calls = TotalCalls
      /\ s.successful_calls = Cardinality(Of("done"))
      /\ s.error_calls = Cardinality(Of("error"))
      /\ s.fallback_count = Cardinality(Of("fallback"))
      /\ s.missing_usage_count = Cardinality(Of("done") \ WithUsage)
      /\ s.known_usage => Of("done") = WithUsage
      /\ Collected.call_count = Cardinality(Of("start"))
  BY DEF build_usage_summary, Collected
<1>2. \A groups \in {s.by_provider, s.by_model, s.by_prompt} :
          \E key : groups = Groups(key)
  BY DEF build_usage_summary
<1> HIDE DEF s
<1>3. /\ Cardinality(Of("start")) + Cardinality(Refusals)
             = Cardinality(Begun) + Cardinality(Of("fallback")) + Cardinality(Retried)
      /\ Cardinality(Of("start")) = Cardinality(Of("done")) + Cardinality(Of("error"))
                                       - Cardinality(Refusals)
  <2>1. Cardinality(Begun) \in Nat
    BY LLMUsageAssumption, FS_Subset, FS_CardinalityType DEF Begun
  <2>2. /\ Cardinality(Of("start")) \in Nat /\ Cardinality(Of("fallback")) \in Nat
        /\ Cardinality(Retried) \in Nat
    BY EventKinds
  <2>3. Cardinality(Attempts) = Cardinality(Begun) + Cardinality(Goings)
    BY AttemptsFollow
  <2>4. /\ Cardinality(Attempts) = Cardinality(Of("start")) + Cardinality(Refusals)
        /\ Cardinality(Goings) = Cardinality(Of("fallback")) + Cardinality(Retried)
    BY EventKinds
  <2>5. Cardinality(Of("start")) = Cardinality(Of("done")) + Cardinality(Of("error"))
                                      - Cardinality(Refusals)
    BY StartsSettle, EventKinds
  <2> QED
    BY <2>1, <2>2, <2>3, <2>4, <2>5
<1>4. s.total_calls = s.successful_calls + s.error_calls
          - (IF Collected.call_count = 0 THEN 0 ELSE Cardinality(Refusals))
  <2>1. /\ IsFiniteSet(Of("start")) /\ Cardinality(Of("done")) \in Nat
        /\ Cardinality(Of("error")) \in Nat
    BY EventKinds
  <2>2. Of("start") = {} <=> Cardinality(Of("start")) = 0
    BY <2>1, FS_EmptySet
  <2> QED
    BY <1>1, <1>3, <2>1, <2>2 DEF TotalCalls
<1>5. s.successful_calls = Cardinality({c \in Calls : call[c].pc = "returned"})
  BY <1>1, AnswersReturn
<1>6. ASSUME NEW groups \in {s.by_provider, s.by_model, s.by_prompt}
      PROVE  CallsOf(groups) + s.missing_usage_count = s.successful_calls
  <2>1. CallsOf(groups) = Cardinality(WithUsage)
    BY <1>2, GroupsOf
  <2>2. IsFiniteSet(Of("done")) /\ WithUsage \in SUBSET Of("done")
    BY EventKinds DEF WithUsage
  <2>3. IsFiniteSet(WithUsage) /\ IsFiniteSet(Of("done") \ WithUsage)
    BY <2>2, FS_Subset
  <2>4. /\ WithUsage \cup (Of("done") \ WithUsage) = Of("done")
        /\ WithUsage \cap (Of("done") \ WithUsage) = {}
    BY <2>2
  <2>5. Cardinality(Of("done"))
            = Cardinality(WithUsage) + Cardinality(Of("done") \ WithUsage)
    BY <2>3, <2>4, Apart
  <2> QED
    BY <1>1, <2>1, <2>5
<1>7. ASSUME s.known_usage, NEW e \in Of("done")
      PROVE  ProviderOf(e.log.model) \in Reporting
  <2>1. e.log.usage # {}
    BY <1>1, <1>7 DEF WithUsage
  <2>2. /\ e.call \in Calls /\ e.at \in 1 .. Len(log[e.call])
        /\ e.log = log[e.call][e.at] /\ e.log.event = "done"
    BY EventsAt DEF Of
  <2>3. LoggedUsageFits(e.call)
    BY <2>2 DEF IInv
  <2> QED
    BY <2>1, <2>2, <2>3 DEF LoggedUsageFits
<1>8. SumFunction(Collected.error_type_counts) = s.error_calls
  BY <1>1, ErrorsByType
<1>9. Collected.call_count + Cardinality(Refusals)
          = Cardinality(Begun) + s.fallback_count + Cardinality(Retried)
  BY <1>1, <1>3
<1> QED
  BY <1>4, <1>5, <1>6, <1>7, <1>8, <1>9 DEF s, Refusals, Retried, Begun

\* What usage_summary.json and diagnostics.json say of the calls of a run agrees,
\* once they have ended, with each other and with what happened, however many calls
\* there were and however their threads shared the clients.
THEOREM RunAddsUp == Spec => []SummaryAddsUp
<1>1. TypeOK /\ IInv /\ (\A c \in Calls : LogAlternates(c)) => SummaryAddsUp
  BY SummaryFollows
<1> QED
  BY <1>1, LogsAlternate, PTL
=============================================================================
