-------------------------- MODULE StagedBuild_proof --------------------------
(***************************************************************************)
(* For any tree of assemblies, any number of clients and any choice of     *)
(* what the caches accept: the state is well typed, what a cache tier      *)
(* accepts is built once unless the tier loses it, a request builds no     *)
(* more than the assembly it asks for, and with one configuration only an  *)
(* assembly that is built out of itself makes a command fail.              *)
(*                                                                         *)
(* BuiltMeansStored is why nothing is built twice: what has been built is  *)
(* in a tier, and Inline leaves out whatever is cached.  StagedIsClosed is *)
(* why a request stays small: the part that was built on request has no    *)
(* part left to be built.  CallsLeadDown and AskedIsUnderWay are why only  *)
(* a cycle fails: what is asked for again is one of the calls under way.   *)
(***************************************************************************)
EXTENDS StagedBuild, SequenceTheorems, TLAPS

CallRecord == [of : Assembly, first : SUBSET Assembly]

\* An assembly that was built and not lost is held by a tier (Shape.get_wrapped,
\* ShapeCache.write_async).
BuiltMeansStored ==
    \A a \in Stored \ evicted : builds[a] = 0 \/ (builds[a] = 1 /\ a \in tiers)

IInv == TypeOK /\ BuiltMeansStored

USE StagingAssumption

-----------------------------------------------------------------------------
(* What the operators of the model return.                                 *)

\* What is built out of what, by definition (Shape.get_wrapped).
LEMMA BuiltOutOfIsLeast ==
    ASSUME NEW T \in SUBSET Assembly, NEW a \in Assembly, NEW S,
           a \in S, \A s \in S \cap T : Places[s] \cap T \subseteq S
    PROVE  BuiltOutOf[T][a] \subseteq S
<1>1. BuiltOutOf[T][a] =
        {x \in T : a \in T /\ \A U \in SUBSET T :
            a \in U /\ (\A s \in U : Places[s] \cap T \subseteq U) => x \in U}
  BY DEF BuiltOutOf
<1>2. SUFFICES ASSUME NEW x \in BuiltOutOf[T][a] PROVE x \in S
  OBVIOUS
<1> DEFINE U == S \cap T
<1>3. U \in SUBSET T /\ a \in U /\ \A s \in U : Places[s] \cap T \subseteq U
  BY <1>1, <1>2
<1>4. x \in U
  BY <1>1, <1>2, <1>3
<1> QED
  BY <1>4

\* An assembly is built out of itself and of the parts of all that it is built out of.
LEMMA BelowIsClosed ==
    ASSUME NEW a \in Assembly
    PROVE  /\ Below(a) \subseteq Assembly
           /\ a \in Below(a)
           /\ \A s \in Below(a) : Places[s] \subseteq Below(a)
<1>1. Below(a) =
        {x \in Assembly : a \in Assembly /\ \A U \in SUBSET Assembly :
            a \in U /\ (\A s \in U : Places[s] \cap Assembly \subseteq U) => x \in U}
  BY DEF BuiltOutOf, Below
<1>2. ASSUME NEW s \in Below(a), NEW t \in Places[s] PROVE t \in Below(a)
  <2>1. s \in Assembly /\ t \in Assembly
    BY <1>1, <1>2
  <2>2. ASSUME NEW U \in SUBSET Assembly, a \in U, \A r \in U : Places[r] \cap Assembly \subseteq U
        PROVE  t \in U
    BY <1>1, <1>2, <2>1, <2>2
  <2> QED
    BY <1>1, <2>1, <2>2
<1> QED
  BY <1>1, <1>2

\* What a request builds is not cached (Shape.get_wrapped).
LEMMA InlineIsUncached ==
    ASSUME NEW i, NEW a \in Assembly
    PROVE  Inline(i, a) \subseteq {x \in Assembly : x \notin tiers}
<1>1. Uncached(i) \in SUBSET Assembly
  BY DEF Uncached
<1>2. Inline(i, a) \subseteq Uncached(i)
  BY <1>1 DEF Inline, BuiltOutOf
<1> QED
  BY <1>2 DEF Uncached, IsCached

\* The innermost of a client's calls, and the others (DaemonClient._call_staging).
LEMMA StackTypes ==
    ASSUME TypeOK, NEW c \in Client, stack[c] # <<>>
    PROVE  /\ Innermost(c) \in CallRecord
           /\ Outer(c) \in Seq(CallRecord)
           /\ Len(stack[c]) \in Nat \ {0}
           /\ Len(stack[c]) > 1 => Outer(c) # <<>>
<1> stack[c] \in Seq(CallRecord)
  BY DEF TypeOK, CallRecord
<1>1. Len(stack[c]) \in Nat /\ Len(stack[c]) # 0
  OBVIOUS
<1>2. stack[c][Len(stack[c])] \in CallRecord
  BY <1>1
<1>3. /\ SubSeq(stack[c], 1, Len(stack[c]) - 1) \in Seq(CallRecord)
      /\ Len(SubSeq(stack[c], 1, Len(stack[c]) - 1)) = Len(stack[c]) - 1
  BY <1>1
<1>4. Len(stack[c]) > 1 => SubSeq(stack[c], 1, Len(stack[c]) - 1) # <<>>
  <2> DEFINE rest == SubSeq(stack[c], 1, Len(stack[c]) - 1)
  <2>1. rest \in Seq(CallRecord) /\ Len(rest) = Len(stack[c]) - 1
    BY <1>3
  <2> HIDE DEF rest
  <2>2. rest = <<>> => Len(rest) = 0
    BY <2>1, EmptySeq
  <2>3. Len(stack[c]) > 1 => rest # <<>>
    BY <1>1, <2>1, <2>2
  <2> QED
    BY <2>3 DEF rest
<1> QED
  BY <1>1, <1>2, <1>3, <1>4 DEF Innermost, Outer

\* Building an assembly leaves the caches and the counts well typed (Shape.get_wrapped).
LEMMA WrapTypes ==
    ASSUME TypeOK, NEW i \in Client, NEW a \in Assembly, Wrap(i, a)
    PROVE  /\ builds' \in [Assembly -> Nat]
           /\ memory' \subseteq Client \X Assembly
           /\ tiers' \subseteq Stored
<1> DEFINE new == Inline(i, a)
<1>1. new \subseteq Assembly
  BY InlineIsUncached
<1>2. Loaded(a, new) \subseteq Assembly
  BY <1>1 DEF Loaded
<1>3. builds' \in [Assembly -> Nat]
  BY DEF TypeOK, Wrap
<1>4. memory' \subseteq Client \X Assembly
  BY <1>2 DEF TypeOK, Wrap
<1>5. tiers' \subseteq Stored
  BY DEF TypeOK, Wrap
<1> QED
  BY <1>3, <1>4, <1>5

\* Whoever calls does so after its context was created (cli/service.py run).
Warm == \A c \in Client : pc[c] # "idle" => warm # NoClient

-----------------------------------------------------------------------------
\* At first nothing is built and nobody has a context.
LEMMA InitTypeCorrect == Init => TypeOK /\ Warm /\ BuiltMeansStored
<1> SUFFICES ASSUME Init PROVE TypeOK /\ Warm /\ BuiltMeansStored
  OBVIOUS
<1>1. TypeOK
  BY DEF Init, TypeOK
<1>2. Warm
  BY DEF Init, Warm
<1>3. BuiltMeansStored
  BY DEF Init, BuiltMeansStored
<1> QED
  BY <1>1, <1>2, <1>3

\* Every step keeps the types, and whoever calls a context to call.
LEMMA NextTypeCorrect == TypeOK /\ Warm /\ [Next]_vars => TypeOK' /\ Warm'
<1> SUFFICES ASSUME TypeOK, Warm, [Next]_vars PROVE TypeOK' /\ Warm'
  OBVIOUS
<1> USE DEF session, clients
<1>1. ASSUME NEW c \in Client, Create(c) PROVE TypeOK' /\ Warm'
  <2>1. <<Frame(Target[c], {})>> \in Seq(CallRecord)
    BY DEF Frame, CallRecord
  <2>2. stack' \in [Client -> Seq(CallRecord)]
    BY <1>1, <2>1 DEF Create, TypeOK, CallRecord
  <2>3. \A d \in Client : pc'[d] = "calling" => stack'[d] # <<>>
    BY <1>1 DEF Create, TypeOK
  <2>4. warm' \in Client
    BY <1>1 DEF Create, TypeOK
  <2>5. pc' \in [Client -> {"idle", "calling", "done", "failed"}]
    BY <1>1 DEF Create, TypeOK
  <2> QED
    BY <1>1, <2>2, <2>3, <2>4, <2>5 DEF Create, TypeOK, Warm, CallRecord
<1>2. ASSUME NEW c \in Client, Answered(c) PROVE TypeOK' /\ Warm'
  <2> DEFINE a == Innermost(c).of
  <2>0. pc[c] = "calling" /\ stack[c] # <<>> /\ warm \in Client
    BY <1>2 DEF Answered, Calls, TypeOK, Warm
  <2>1. a \in Assembly /\ Outer(c) \in Seq(CallRecord) /\ (Len(stack[c]) > 1 => Outer(c) # <<>>)
    BY <2>0, StackTypes DEF CallRecord
  <2>2. /\ builds' \in [Assembly -> Nat]
        /\ memory' \subseteq Client \X Assembly
        /\ tiers' \subseteq Stored
    BY <1>2, <2>0, <2>1, WrapTypes DEF Answered
  <2>3. CASE Len(stack[c]) = 1 /\ pc' = [pc EXCEPT ![c] = "done"] /\ UNCHANGED <<staged, stack>>
    BY <1>2, <2>0, <2>2, <2>3 DEF Answered, TypeOK, Warm
  <2>4. CASE /\ Len(stack[c]) > 1
             /\ staged' = staged \cup {<<warm, a>>}
             /\ stack' = [stack EXCEPT ![c] = Outer(c)]
             /\ UNCHANGED pc
    <3>1. stack' \in [Client -> Seq(CallRecord)]
      BY <2>1, <2>4 DEF TypeOK, CallRecord
    <3>2. \A d \in Client : pc'[d] = "calling" => stack'[d] # <<>>
      BY <2>1, <2>4 DEF TypeOK
    <3>3. staged' \subseteq Client \X Assembly
      BY <2>0, <2>1, <2>4 DEF TypeOK
    <3> QED
      BY <1>2, <2>2, <2>4, <3>1, <3>2, <3>3 DEF Answered, TypeOK, Warm, CallRecord
  <2> QED
    BY <1>2, <2>3, <2>4 DEF Answered
<1>3. ASSUME NEW c \in Client, ToldToWait(c) PROVE TypeOK' /\ Warm'
  <2> DEFINE a == Innermost(c).of
             new == Pending(warm, a) \ asked[c]
  <2>0. pc[c] = "calling" /\ stack[c] # <<>>
    BY <1>3 DEF ToldToWait, Calls, TypeOK
  <2>1. a \in Assembly /\ Outer(c) \in Seq(CallRecord)
    BY <2>0, StackTypes DEF CallRecord
  <2>2. Frame(a, new) \in CallRecord
    BY <2>1 DEF Frame, CallRecord, Pending
  <2>3. Append(Outer(c), Frame(a, new)) \in Seq(CallRecord) /\ Append(Outer(c), Frame(a, new)) # <<>>
    BY <2>1, <2>2, AppendProperties
  <2>4. stack' = [stack EXCEPT ![c] = Append(Outer(c), Frame(a, new))]
    BY <1>3 DEF ToldToWait
  <2>5. stack' \in [Client -> Seq(CallRecord)] /\ (\A d \in Client : pc[d] = "calling" => stack'[d] # <<>>)
    BY <2>3, <2>4 DEF TypeOK, CallRecord
  <2> QED
    BY <1>3, <2>5 DEF ToldToWait, TypeOK, Warm, CallRecord
<1>4. ASSUME NEW c \in Client, AskedAgain(c) PROVE TypeOK' /\ Warm'
  BY <1>4 DEF AskedAgain, Calls, TypeOK, Warm
<1>5. ASSUME NEW c \in Client, Stage(c) PROVE TypeOK' /\ Warm'
  <2>0. pc[c] = "calling" /\ stack[c] # <<>>
    BY <1>5 DEF Stage, TypeOK
  <2>1. Innermost(c) \in CallRecord /\ Outer(c) \in Seq(CallRecord)
    BY <2>0, StackTypes
  <2>2. PICK s \in Innermost(c).first :
          /\ asked' = [asked EXCEPT ![c] = @ \cup {s}]
          /\ stack' = [stack EXCEPT ![c] =
                Append(Append(Outer(c), [Innermost(c) EXCEPT !.first = @ \ {s}]), Frame(s, {}))]
    BY <1>5 DEF Stage
  <2> DEFINE outer == Append(Outer(c), [Innermost(c) EXCEPT !.first = @ \ {s}])
  <2>3. s \in Assembly /\ Frame(s, {}) \in CallRecord /\ [Innermost(c) EXCEPT !.first = @ \ {s}] \in CallRecord
    BY <2>1 DEF CallRecord, Frame
  <2>4. outer \in Seq(CallRecord)
    BY <2>1, <2>3, AppendProperties
  <2>5. Append(outer, Frame(s, {})) \in Seq(CallRecord) /\ Append(outer, Frame(s, {})) # <<>>
    BY <2>3, <2>4, AppendProperties
  <2>6. stack' \in [Client -> Seq(CallRecord)] /\ (\A d \in Client : pc[d] = "calling" => stack'[d] # <<>>)
    BY <2>2, <2>5 DEF TypeOK, CallRecord
  <2>7. asked' \in [Client -> SUBSET Assembly]
    BY <2>2, <2>3 DEF TypeOK
  <2> QED
    BY <1>5, <2>6, <2>7 DEF Stage, TypeOK, Warm, CallRecord
<1>6. ASSUME NEW a \in Assembly, Evict(a) PROVE TypeOK' /\ Warm'
  BY <1>6 DEF Evict, TypeOK, Warm
<1>7. CASE UNCHANGED vars
  BY <1>7 DEF vars, TypeOK, Warm
<1> QED
  BY <1>1, <1>2, <1>3, <1>4, <1>5, <1>6, <1>7 DEF Next, Call, Terminated

\* What is built goes into a tier that takes it, and leaves it only by being lost.
LEMMA NextKeepsWhatWasBuilt ==
    TypeOK /\ BuiltMeansStored /\ [Next]_vars => BuiltMeansStored'
<1> SUFFICES ASSUME TypeOK, BuiltMeansStored, [Next]_vars PROVE BuiltMeansStored'
  OBVIOUS
<1>1. ASSUME NEW c \in Client, Answered(c) PROVE BuiltMeansStored'
  <2> DEFINE new == Inline(warm, Innermost(c).of)
  <2>1. /\ builds' = [x \in Assembly |-> IF x \in new THEN builds[x] + 1 ELSE builds[x]]
        /\ tiers' = tiers \cup (new \cap Stored)
        /\ evicted' = evicted
    BY <1>1 DEF Answered, Wrap
  <2>2. SUFFICES ASSUME NEW a \in Stored \ evicted, a \in Assembly
                 PROVE  builds'[a] = 0 \/ (builds'[a] = 1 /\ a \in tiers')
    BY <2>1 DEF BuiltMeansStored
  <2>3. CASE a \in new
    <3>0. Innermost(c).of \in Assembly
      BY <1>1, StackTypes DEF Answered, Calls, TypeOK, CallRecord
    <3>1. a \notin tiers
      BY <2>3, <3>0, InlineIsUncached
    <3>2. builds[a] = 0
      BY <3>1 DEF BuiltMeansStored
    <3> QED
      BY <2>1, <2>2, <2>3, <3>2
  <2>4. CASE a \notin new
    BY <2>1, <2>2, <2>4 DEF BuiltMeansStored
  <2> QED
    BY <2>3, <2>4
<1>2. ASSUME NEW a \in Assembly, Evict(a) PROVE BuiltMeansStored'
  BY <1>2 DEF Evict, BuiltMeansStored
<1>3. ASSUME UNCHANGED <<builds, tiers, evicted>> PROVE BuiltMeansStored'
  BY <1>3 DEF BuiltMeansStored
<1>4. ASSUME NEW c \in Client, Create(c) \/ ToldToWait(c) \/ AskedAgain(c) \/ Stage(c)
      PROVE  UNCHANGED <<builds, tiers, evicted>>
  BY <1>4 DEF Create, ToldToWait, AskedAgain, Stage
<1> QED
  BY <1>1, <1>2, <1>3, <1>4 DEF Next, Call, Terminated, vars

\* Every reachable state is well typed, whatever the assemblies and the clients are: a
\* client that waits for an answer has a call to be answered (_call_staging).
THEOREM TypeCorrect == Spec => []TypeOK
<1>1. Init => TypeOK /\ Warm
  BY InitTypeCorrect
<1>2. TypeOK /\ Warm /\ [Next]_vars => TypeOK' /\ Warm'
  BY NextTypeCorrect
<1> QED
  BY <1>1, <1>2, PTL DEF Spec

\* Whatever a cache tier accepts is built once, by however many clients, in however many
\* contexts, and at however many places of the trees (get_wrapped, _stage_subassemblies).
THEOREM BuiltOnce == Spec => []NothingIsBuiltTwice
<1>1. Init => IInv
  BY InitTypeCorrect DEF IInv
<1>2. IInv /\ TypeOK' /\ [Next]_vars => IInv'
  BY NextKeepsWhatWasBuilt DEF IInv
<1>3. IInv => NothingIsBuiltTwice
  <2> SUFFICES ASSUME IInv, NEW a \in Stored \ evicted PROVE builds[a] <= 1
    BY DEF NothingIsBuiltTwice
  <2> QED
    BY DEF IInv, BuiltMeansStored
<1> QED
  BY <1>1, <1>2, <1>3, TypeCorrect, PTL DEF Spec

-----------------------------------------------------------------------------
(* Requests stay small, and only a cycle fails.                            *)

\* What was built on request is not asked to build anything more: each of its parts is
\* cached, was built on request itself, or has got lost (_stage_subassemblies).
StagedIsClosed ==
    \A i \in Client, s \in Assembly : <<i, s>> \in staged =>
        \A t \in Places[s] : IsCached(i, t) \/ <<i, t>> \in staged \/ t \in evicted

\* Each call of a client but the first is for a part of the assembly that the call
\* around it is for (_call_staging).
CallsLeadDown ==
    \A c \in Client : pc[c] # "idle" =>
        /\ \A k \in 1 .. Len(stack[c]) :
            /\ stack[c][k].of \in Below(Target[c])
            /\ stack[c][k].first \subseteq Places[stack[c][k].of]
        /\ \A k \in 1 .. Len(stack[c]) - 1 : stack[c][k + 1].of \in Places[stack[c][k].of]

\* What a client has asked for was built, or is being asked for (_call_staging).
AskedIsUnderWay ==
    \A c \in Client :
        /\ pc[c] = "idle" => asked[c] = {}
        /\ \A s \in asked[c] :
            \/ <<warm, s>> \in staged
            \/ \E k \in 1 .. Len(stack[c]) : stack[c][k].of = s

\* All clients have the same configuration, as those of one user do.
OneConfiguration == \A c, d \in Client : Configuration[c] = Configuration[d]

\* The calls of a client without the last one (_call_staging).
LEMMA Popped ==
    ASSUME NEW s \in Seq(CallRecord), s # <<>>
    PROVE  LET u == SubSeq(s, 1, Len(s) - 1) IN
           /\ u \in Seq(CallRecord) /\ Len(u) = Len(s) - 1
           /\ \A k \in 1 .. Len(s) - 1 : u[k] = s[k]
<1>1. Len(s) \in Nat \ {0}
  BY EmptySeq
<1>2. PICK n \in Nat : n = Len(s) - 1
  BY <1>1
<1>3. \A k \in 1 .. n : s[k] \in CallRecord
  BY <1>1, <1>2
<1>4. /\ SubSeq(s, 1, n) \in Seq(CallRecord)
      /\ Len(SubSeq(s, 1, n)) = IF 1 <= n THEN n - 1 + 1 ELSE 0
      /\ \A k \in 1 .. n - 1 + 1 : SubSeq(s, 1, n)[k] = s[1 + k - 1]
  <2>1. 1 \in Int /\ n \in Int
    OBVIOUS
  <2> QED
    BY ONLY <1>3, <2>1, SubSeqProperties
<1>5. Len(SubSeq(s, 1, n)) = n /\ \A k \in 1 .. n : SubSeq(s, 1, n)[k] = s[k]
  BY <1>4
<1> QED
  BY <1>2, <1>4, <1>5

\* The calls of a client with another one in place of the last.
LEMMA Retopped ==
    ASSUME NEW s \in Seq(CallRecord), s # <<>>, NEW r \in CallRecord
    PROVE  LET t == Append(SubSeq(s, 1, Len(s) - 1), r) IN
           /\ t \in Seq(CallRecord) /\ Len(t) = Len(s)
           /\ t[Len(s)] = r
           /\ \A k \in 1 .. Len(s) - 1 : t[k] = s[k]
<1> DEFINE u == SubSeq(s, 1, Len(s) - 1)
           t == Append(u, r)
<1>1. Len(s) \in Nat \ {0}
  BY EmptySeq
<1>2. u \in Seq(CallRecord) /\ Len(u) = Len(s) - 1 /\ \A k \in 1 .. Len(s) - 1 : u[k] = s[k]
  BY Popped
<1> HIDE DEF u
<1>3. t \in Seq(CallRecord) /\ Len(t) = Len(s) /\ t[Len(s)] = r
  BY <1>1, <1>2, AppendProperties
<1>4. \A k \in 1 .. Len(s) - 1 : t[k] = u[k]
  BY <1>1, <1>2, AppendProperties
<1> QED
  BY <1>2, <1>3, <1>4 DEF u

\* What is built on request was told to build nothing more (_stage_subassemblies).
LEMMA NextStagedIsClosed ==
    TypeOK /\ Warm /\ StagedIsClosed /\ [Next]_vars => StagedIsClosed'
<1> SUFFICES ASSUME TypeOK, Warm, StagedIsClosed, [Next]_vars PROVE StagedIsClosed'
  OBVIOUS
<1>1. ASSUME NEW c \in Client, Answered(c) PROVE StagedIsClosed'
  <2> DEFINE a == Innermost(c).of
  <2>1. Pending(warm, a) = {} /\ memory \subseteq memory' /\ tiers \subseteq tiers' /\ evicted' = evicted
    BY <1>1 DEF Answered, Wrap
  <2>2. staged' = staged \/ staged' = staged \cup {<<warm, a>>}
    BY <1>1 DEF Answered
  <2>3. SUFFICES ASSUME NEW i \in Client, NEW s \in Assembly, <<i, s>> \in staged', NEW t \in Places[s]
                 PROVE  IsCached(i, t) \/ <<i, t>> \in staged \/ t \in evicted
    BY <2>1, <2>2 DEF StagedIsClosed, IsCached
  <2>4. CASE <<i, s>> \in staged
    BY <2>3, <2>4 DEF StagedIsClosed
  <2>5. CASE i = warm /\ s = a
    BY <2>1, <2>3, <2>5 DEF Pending
  <2> QED
    BY <2>2, <2>3, <2>4, <2>5
<1>2. ASSUME NEW a \in Assembly, Evict(a) PROVE StagedIsClosed'
  BY <1>2 DEF Evict, session, StagedIsClosed, IsCached
<1>3. ASSUME UNCHANGED <<staged, memory, tiers, evicted>> PROVE StagedIsClosed'
  BY <1>3 DEF StagedIsClosed, IsCached
<1>4. ASSUME NEW c \in Client, Create(c) \/ ToldToWait(c) \/ AskedAgain(c) \/ Stage(c)
      PROVE  UNCHANGED <<staged, memory, tiers, evicted>>
  BY <1>4 DEF Create, ToldToWait, AskedAgain, Stage, session
<1> QED
  BY <1>1, <1>2, <1>3, <1>4 DEF Next, Call, Terminated, vars, session

\* What each step does to the calls of a client (_call_staging): nothing, unless the
\* client is at work.
LEMMA CallsOfOthers ==
    ASSUME TypeOK, [Next]_vars, NEW c \in Client,
           ~(Create(c) \/ Answered(c) \/ ToldToWait(c) \/ AskedAgain(c) \/ Stage(c))
    PROVE  UNCHANGED <<pc[c], stack[c], asked[c]>>
<1>1. ASSUME NEW d \in Client, d # c, Create(d) PROVE UNCHANGED <<pc[c], stack[c], asked[c]>>
  BY <1>1 DEF Create, TypeOK
<1>2. ASSUME NEW d \in Client, d # c, Answered(d) PROVE UNCHANGED <<pc[c], stack[c], asked[c]>>
  BY <1>2 DEF Answered, TypeOK
<1>3. ASSUME NEW d \in Client, d # c, ToldToWait(d) PROVE UNCHANGED <<pc[c], stack[c], asked[c]>>
  BY <1>3 DEF ToldToWait, TypeOK
<1>4. ASSUME NEW d \in Client, d # c, AskedAgain(d) PROVE UNCHANGED <<pc[c], stack[c], asked[c]>>
  BY <1>4 DEF AskedAgain, TypeOK
<1>5. ASSUME NEW d \in Client, d # c, Stage(d) PROVE UNCHANGED <<pc[c], stack[c], asked[c]>>
  BY <1>5 DEF Stage, TypeOK
<1>6. ASSUME NEW a \in Assembly, Evict(a) PROVE UNCHANGED <<pc[c], stack[c], asked[c]>>
  BY <1>6 DEF Evict, clients
<1> QED
  BY <1>1, <1>2, <1>3, <1>4, <1>5, <1>6 DEF Next, Call, Terminated, vars, clients

\* A client that asks for a part of what it is at (_call_staging).
LEMMA StageTypes ==
    ASSUME TypeOK, NEW c \in Client, Stage(c)
    PROVE  \E s \in Innermost(c).first :
             /\ s \in Assembly
             /\ asked'[c] = asked[c] \cup {s} /\ pc'[c] = pc[c]
             /\ Len(stack'[c]) = Len(stack[c]) + 1
             /\ stack'[c][Len(stack[c]) + 1] = Frame(s, {})
             /\ stack'[c][Len(stack[c])] = [Innermost(c) EXCEPT !.first = @ \ {s}]
             /\ \A k \in 1 .. Len(stack[c]) - 1 : stack'[c][k] = stack[c][k]
<1>0. pc[c] = "calling" /\ stack[c] # <<>> /\ stack[c] \in Seq(CallRecord)
  BY DEF Stage, TypeOK, CallRecord
<1>1. Innermost(c) \in CallRecord /\ Len(stack[c]) \in Nat \ {0}
  BY <1>0, StackTypes
<1>2. PICK s \in Innermost(c).first :
        /\ asked' = [asked EXCEPT ![c] = @ \cup {s}]
        /\ stack' = [stack EXCEPT ![c] =
              Append(Append(Outer(c), [Innermost(c) EXCEPT !.first = @ \ {s}]), Frame(s, {}))]
  BY DEF Stage
<1> DEFINE top == [Innermost(c) EXCEPT !.first = @ \ {s}]
           outer == Append(Outer(c), top)
<1>3. s \in Assembly /\ Frame(s, {}) \in CallRecord /\ top \in CallRecord
  BY <1>1 DEF CallRecord, Frame
<1>4. /\ outer \in Seq(CallRecord) /\ Len(outer) = Len(stack[c])
      /\ outer[Len(stack[c])] = top
      /\ \A k \in 1 .. Len(stack[c]) - 1 : outer[k] = stack[c][k]
  BY <1>0, <1>3, Retopped DEF Outer
<1>5. stack'[c] = Append(outer, Frame(s, {})) /\ asked'[c] = asked[c] \cup {s} /\ pc'[c] = pc[c]
  BY <1>2 DEF Stage, TypeOK
<1> HIDE DEF outer, top
<1>6. /\ Len(Append(outer, Frame(s, {}))) = Len(stack[c]) + 1
      /\ Append(outer, Frame(s, {}))[Len(stack[c]) + 1] = Frame(s, {})
      /\ \A k \in 1 .. Len(stack[c]) : Append(outer, Frame(s, {}))[k] = outer[k]
  BY <1>1, <1>3, <1>4, AppendProperties
<1>7. /\ stack'[c][Len(stack[c])] = top
      /\ \A k \in 1 .. Len(stack[c]) - 1 : stack'[c][k] = stack[c][k]
  BY <1>1, <1>4, <1>5, <1>6
<1> QED
  BY <1>2, <1>3, <1>5, <1>6, <1>7 DEF top

\* A client asks for what it was told to, which are parts of what it asked for (_call_staging).
LEMMA NextCallsLeadDown ==
    TypeOK /\ CallsLeadDown /\ [Next]_vars => CallsLeadDown'
<1> DEFINE Leads(p, st, c) ==
        p[c] # "idle" =>
        /\ \A k \in 1 .. Len(st[c]) :
            /\ st[c][k].of \in Below(Target[c])
            /\ st[c][k].first \subseteq Places[st[c][k].of]
        /\ \A k \in 1 .. Len(st[c]) - 1 : st[c][k + 1].of \in Places[st[c][k].of]
<1> SUFFICES ASSUME TypeOK, CallsLeadDown, [Next]_vars, NEW c \in Client PROVE Leads(pc', stack', c)
  BY DEF CallsLeadDown, Below
<1>0. Leads(pc, stack, c)
  BY DEF CallsLeadDown
<1>t. stack[c] \in Seq(CallRecord) /\ Target[c] \in Assembly
  BY DEF TypeOK, CallRecord
<1>1. CASE Create(c)
  <2>1. stack'[c] = <<Frame(Target[c], {})>>
    BY <1>1 DEF Create, TypeOK
  <2>2. Target[c] \in Below(Target[c])
    BY <1>t, BelowIsClosed
  <2> QED
    BY <2>1, <2>2 DEF Frame
<1>2. CASE Answered(c)
  <2>0. pc[c] = "calling" /\ stack[c] # <<>>
    BY <1>2 DEF Answered, Calls, TypeOK
  <2>1. CASE stack'[c] = stack[c]
    BY <1>0, <2>0, <2>1
  <2>2. CASE stack'[c] = Outer(c)
    <3>1. /\ Len(stack'[c]) = Len(stack[c]) - 1
          /\ \A k \in 1 .. Len(stack[c]) - 1 : stack'[c][k] = stack[c][k]
      BY <1>t, <2>0, <2>2, Popped DEF Outer
    <3>2. Len(stack[c]) \in Nat
      BY <1>t
    <3>3. \A k \in 1 .. Len(stack[c]) - 1 - 1 : k \in 1 .. Len(stack[c]) - 1 /\ k + 1 \in 1 .. Len(stack[c]) - 1
      BY <3>2
    <3>4. \A k \in 1 .. Len(stack[c]) - 1 : k \in 1 .. Len(stack[c])
      BY <3>2
    <3> QED
      BY <1>0, <2>0, <3>1, <3>3, <3>4
  <2> QED
    BY <1>2, <2>1, <2>2 DEF Answered, TypeOK
<1>3. CASE ToldToWait(c)
  <2> DEFINE a == Innermost(c).of
             new == Pending(warm, a) \ asked[c]
  <2>0. pc[c] = "calling" /\ stack[c] # <<>>
    BY <1>3 DEF ToldToWait, Calls, TypeOK
  <2>1. a \in Assembly /\ Frame(a, new) \in CallRecord /\ Len(stack[c]) \in Nat \ {0}
    BY <2>0, StackTypes DEF Frame, CallRecord, Pending
  <2>2. stack'[c] = Append(Outer(c), Frame(a, new))
    BY <1>3 DEF ToldToWait, TypeOK
  <2>3. /\ Len(stack'[c]) = Len(stack[c])
        /\ stack'[c][Len(stack[c])] = Frame(a, new)
        /\ \A k \in 1 .. Len(stack[c]) - 1 : stack'[c][k] = stack[c][k]
    BY <1>t, <2>0, <2>1, <2>2, Retopped DEF Outer
  <2>4. new \subseteq Places[a]
    BY DEF Pending
  <2>5. \A k \in 1 .. Len(stack[c]) : stack'[c][k].of = stack[c][k].of
    BY <2>1, <2>3 DEF Frame, Innermost
  <2>6. \A k \in 1 .. Len(stack[c]) : stack'[c][k].first \subseteq Places[stack'[c][k].of]
    <3> SUFFICES ASSUME NEW k \in 1 .. Len(stack[c]) PROVE stack'[c][k].first \subseteq Places[stack'[c][k].of]
      OBVIOUS
    <3>1. CASE k = Len(stack[c])
      BY <2>3, <2>4, <3>1 DEF Frame
    <3>2. CASE k \in 1 .. Len(stack[c]) - 1
      BY <1>0, <2>0, <2>3, <3>2
    <3> QED
      BY <2>1, <3>1, <3>2
  <2>7. \A k \in 1 .. Len(stack[c]) - 1 : stack'[c][k + 1].of \in Places[stack'[c][k].of]
    <3>1. \A k \in 1 .. Len(stack[c]) - 1 : k \in 1 .. Len(stack[c]) /\ k + 1 \in 1 .. Len(stack[c])
      BY <2>1
    <3> QED
      BY <1>0, <2>0, <2>5, <3>1
  <2> QED
    BY <1>0, <2>0, <2>3, <2>5, <2>6, <2>7
<1>4. CASE AskedAgain(c)
  <2>1. pc[c] = "calling" /\ stack'[c] = stack[c]
    BY <1>4 DEF AskedAgain, Calls
  <2> QED
    BY <1>0, <2>1
<1>5. CASE Stage(c)
  <2> DEFINE l == Len(stack[c])
  <2>0. pc[c] = "calling" /\ stack[c] # <<>> /\ l \in Nat \ {0} /\ Innermost(c) \in CallRecord
    BY <1>5, StackTypes DEF Stage, TypeOK
  <2>1. PICK s \in Innermost(c).first :
             /\ s \in Assembly
             /\ asked'[c] = asked[c] \cup {s} /\ pc'[c] = pc[c]
             /\ Len(stack'[c]) = l + 1
             /\ stack'[c][l + 1] = Frame(s, {})
             /\ stack'[c][l] = [Innermost(c) EXCEPT !.first = @ \ {s}]
             /\ \A k \in 1 .. l - 1 : stack'[c][k] = stack[c][k]
    BY <1>5, StageTypes
  <2>2. stack'[c][l].of = stack[c][l].of /\ stack'[c][l].first \subseteq stack[c][l].first
    BY <2>0, <2>1 DEF Innermost, CallRecord
  <2>3. \A k \in 1 .. l : stack'[c][k].of = stack[c][k].of /\ stack'[c][k].first \subseteq stack[c][k].first
    <3>1. \A k \in 1 .. l : k = l \/ k \in 1 .. l - 1
      BY <2>0
    <3> QED
      BY <2>1, <2>2, <3>1
  <2>4. l \in 1 .. l
    BY <2>0
  <2>5. s \in Places[stack[c][l].of] /\ stack[c][l].of \in Below(Target[c])
    BY <1>0, <2>0, <2>1, <2>4 DEF Innermost
  <2>6. s \in Below(Target[c])
    BY <1>t, <2>5, BelowIsClosed
  <2>7. \A k \in 1 .. l + 1 : k \in 1 .. l \/ k = l + 1
    BY <2>0
  <2>8. \A k \in 1 .. l + 1 :
            /\ stack'[c][k].of \in Below(Target[c])
            /\ stack'[c][k].first \subseteq Places[stack'[c][k].of]
    BY <1>0, <2>0, <2>1, <2>3, <2>6, <2>7 DEF Frame
  <2>9. \A k \in 1 .. l : stack'[c][k + 1].of \in Places[stack'[c][k].of]
    <3>1. \A k \in 1 .. l : k = l \/ (k \in 1 .. l - 1 /\ k + 1 \in 1 .. l)
      BY <2>0
    <3>2. stack'[c][l + 1].of = s
      BY <2>1 DEF Frame
    <3> QED
      BY <1>0, <2>0, <2>3, <2>5, <3>1, <3>2
  <2>10. Len(stack'[c]) = l + 1 /\ Len(stack'[c]) - 1 = l
    BY <2>0, <2>1
  <2> QED
    BY <2>8, <2>9, <2>10
<1>6. CASE UNCHANGED <<pc[c], stack[c], asked[c]>>
  BY <1>0, <1>6
<1> HIDE DEF Leads
<1> QED
  BY <1>1, <1>2, <1>3, <1>4, <1>5, <1>6, CallsOfOthers

\* With one configuration the workspace keeps its context (context_create).
LEMMA NextAskedIsUnderWay ==
    ASSUME OneConfiguration
    PROVE  TypeOK /\ Warm /\ AskedIsUnderWay /\ [Next]_vars => AskedIsUnderWay'
<1> SUFFICES ASSUME TypeOK, Warm, AskedIsUnderWay, [Next]_vars, NEW c \in Client
             PROVE  /\ pc'[c] = "idle" => asked'[c] = {}
                    /\ \A s \in asked'[c] :
                        \/ <<warm', s>> \in staged'
                        \/ \E k \in 1 .. Len(stack'[c]) : stack'[c][k].of = s
  BY DEF AskedIsUnderWay
<1>0. stack[c] \in Seq(CallRecord)
  BY DEF TypeOK, CallRecord
<1>s. staged \subseteq staged' /\ (warm # NoClient => warm' = warm)
  <2>1. ASSUME NEW d \in Client, Create(d) PROVE staged' = staged /\ (warm # NoClient => warm' = warm)
    BY <2>1 DEF Create, OneConfiguration, TypeOK
  <2>2. ASSUME NEW d \in Client, Answered(d) PROVE staged \subseteq staged' /\ warm' = warm
    BY <2>2 DEF Answered
  <2>3. ASSUME NEW d \in Client, ToldToWait(d) \/ AskedAgain(d) \/ Stage(d) PROVE UNCHANGED <<warm, staged>>
    BY <2>3 DEF ToldToWait, AskedAgain, Stage, session
  <2>4. ASSUME NEW a \in Assembly, Evict(a) PROVE UNCHANGED <<warm, staged>>
    BY <2>4 DEF Evict, session
  <2> QED
    BY <2>1, <2>2, <2>3, <2>4 DEF Next, Call, Terminated, vars, session
<1>1. CASE Create(c)
  BY <1>1 DEF Create, AskedIsUnderWay, TypeOK
<1>2. CASE Answered(c)
  <2> DEFINE a == Innermost(c).of
             l == Len(stack[c])
  <2>0. pc[c] = "calling" /\ stack[c] # <<>> /\ warm # NoClient /\ l \in Nat \ {0}
    BY <1>2, StackTypes DEF Answered, Calls, TypeOK, Warm
  <2>1. asked'[c] = asked[c] /\ pc'[c] # "idle" /\ warm' = warm
    BY <1>2, <2>0 DEF Answered, TypeOK
  <2>2. CASE stack'[c] = stack[c]
    BY <1>s, <2>1, <2>2 DEF AskedIsUnderWay
  <2>3. CASE staged' = staged \cup {<<warm, a>>} /\ stack'[c] = Outer(c)
    <3>1. Len(stack'[c]) = l - 1 /\ \A k \in 1 .. l - 1 : stack'[c][k] = stack[c][k]
      BY <1>0, <2>0, <2>3, Popped DEF Outer
    <3>2. \A k \in 1 .. l : k = l \/ k \in 1 .. l - 1
      BY <2>0
    <3>3. ASSUME NEW s \in asked[c], <<warm, s>> \notin staged'
          PROVE  \E k \in 1 .. l - 1 : stack'[c][k].of = s
      <4>1. PICK k \in 1 .. l : stack[c][k].of = s
        BY <2>3, <3>3 DEF AskedIsUnderWay
      <4>2. k # l
        BY <2>3, <3>3, <4>1 DEF Innermost
      <4> QED
        BY <3>1, <3>2, <4>1, <4>2
    <3> QED
      BY <2>1, <3>1, <3>3
  <2> QED
    BY <1>2, <2>2, <2>3 DEF Answered, TypeOK
<1>3. CASE ToldToWait(c)
  <2> DEFINE a == Innermost(c).of
             l == Len(stack[c])
             new == Pending(warm, a) \ asked[c]
  <2>0. pc[c] = "calling" /\ stack[c] # <<>> /\ warm # NoClient /\ l \in Nat \ {0}
    BY <1>3, StackTypes DEF ToldToWait, Calls, TypeOK, Warm
  <2>1. a \in Assembly /\ Frame(a, new) \in CallRecord
    BY <2>0, StackTypes DEF Frame, CallRecord, Pending
  <2>2. stack'[c] = Append(Outer(c), Frame(a, new)) /\ asked'[c] = asked[c] /\ pc'[c] # "idle" /\ warm' = warm
    BY <1>3, <2>0 DEF ToldToWait, TypeOK, session
  <2>3. /\ Len(stack'[c]) = l
        /\ stack'[c][l] = Frame(a, new)
        /\ \A k \in 1 .. l - 1 : stack'[c][k] = stack[c][k]
    BY <1>0, <2>0, <2>1, <2>2, Retopped DEF Outer
  <2>4. \A k \in 1 .. l : stack'[c][k].of = stack[c][k].of
    <3>1. \A k \in 1 .. l : k = l \/ k \in 1 .. l - 1
      BY <2>0
    <3> QED
      BY <2>3, <3>1 DEF Frame, Innermost
  <2>5. asked'[c] = asked[c] /\ pc'[c] # "idle" /\ warm' = warm /\ Len(stack'[c]) = l
    BY <2>2, <2>3
  <2> QED
    BY <1>s, <2>4, <2>5 DEF AskedIsUnderWay
<1>4. CASE AskedAgain(c)
  <2>1. pc[c] = "calling" /\ stack'[c] = stack[c] /\ asked'[c] = asked[c] /\ pc'[c] # "idle" /\ warm' = warm
    BY <1>4 DEF AskedAgain, Calls, TypeOK, session
  <2> QED
    BY <1>s, <2>1 DEF AskedIsUnderWay
<1>5. CASE Stage(c)
  <2> DEFINE l == Len(stack[c])
  <2>0. pc[c] = "calling" /\ stack[c] # <<>> /\ l \in Nat \ {0} /\ Innermost(c) \in CallRecord /\ warm' = warm
    BY <1>5, StackTypes DEF Stage, TypeOK, session
  <2>1. PICK s \in Innermost(c).first :
             /\ s \in Assembly
             /\ asked'[c] = asked[c] \cup {s} /\ pc'[c] = pc[c]
             /\ Len(stack'[c]) = l + 1
             /\ stack'[c][l + 1] = Frame(s, {})
             /\ stack'[c][l] = [Innermost(c) EXCEPT !.first = @ \ {s}]
             /\ \A k \in 1 .. l - 1 : stack'[c][k] = stack[c][k]
    BY <1>5, StageTypes
  <2>2. stack'[c][l].of = stack[c][l].of
    BY <2>0, <2>1 DEF Innermost, CallRecord
  <2>3. \A k \in 1 .. l : k \in 1 .. l + 1 /\ stack'[c][k].of = stack[c][k].of
    <3>1. \A k \in 1 .. l : k \in 1 .. l + 1 /\ (k = l \/ k \in 1 .. l - 1)
      BY <2>0
    <3> QED
      BY <2>1, <2>2, <3>1
  <2>4. l + 1 \in 1 .. l + 1 /\ stack'[c][l + 1].of = s
    BY <2>0, <2>1 DEF Frame
  <2> QED
    BY <1>s, <2>0, <2>1, <2>3, <2>4 DEF AskedIsUnderWay
<1>6. CASE UNCHANGED <<pc[c], stack[c], asked[c]>>
  <2>1. CASE pc[c] = "idle"
    BY <1>6, <2>1 DEF AskedIsUnderWay
  <2>2. CASE pc[c] # "idle"
    <3>1. warm' = warm /\ pc'[c] = pc[c] /\ stack'[c] = stack[c] /\ asked'[c] = asked[c]
      BY <1>s, <1>6, <2>2 DEF Warm
    <3> QED
      BY <1>s, <2>2, <3>1 DEF AskedIsUnderWay
  <2> QED
    BY <2>1, <2>2
<1> QED
  BY <1>1, <1>2, <1>3, <1>4, <1>5, <1>6, CallsOfOthers

\* The calls from the one that is asked for again to the last one make the cycle.
LEMMA NextFailsOnlyOnACycle ==
    TypeOK /\ Warm /\ CallsLeadDown /\ AskedIsUnderWay /\ FailsOnlyOnACycle /\ [Next]_vars
        => FailsOnlyOnACycle'
<1> SUFFICES ASSUME TypeOK, Warm, CallsLeadDown, AskedIsUnderWay, FailsOnlyOnACycle, [Next]_vars,
                    NEW c \in Client, pc'[c] = "failed"
             PROVE  Target[c] \in Cyclic
  BY DEF FailsOnlyOnACycle, Cyclic, Below
<1>1. CASE AskedAgain(c)
  <2> DEFINE l == Len(stack[c])
             a == Innermost(c).of
  <2>0. pc[c] = "calling" /\ stack[c] # <<>> /\ l \in Nat \ {0} /\ a = stack[c][l].of
    BY <1>1, StackTypes DEF AskedAgain, Calls, TypeOK, Innermost
  <2>1. PICK s \in Pending(warm, a) : s \in asked[c]
    BY <1>1 DEF AskedAgain
  <2>2. s \in Places[a] /\ <<warm, s>> \notin staged
    BY <2>1 DEF Pending
  <2>3. PICK k \in 1 .. l : stack[c][k].of = s
    BY <2>1, <2>2 DEF AskedIsUnderWay
  <2> DEFINE S == {stack[c][j].of : j \in k .. l}
  <2>4. \A j \in k .. l : j \in 1 .. l /\ (j = l \/ (j \in 1 .. l - 1 /\ j + 1 \in k .. l))
    BY <2>0
  <2>5. S \in SUBSET Below(Target[c])
    BY <2>0, <2>4 DEF CallsLeadDown
  <2>6. s \in S
    <3>1. k \in k .. l
      BY <2>0
    <3> QED
      BY <2>3, <3>1
  <2>7. ASSUME NEW j \in k .. l PROVE Places[stack[c][j].of] \cap S # {}
    <3>1. CASE j = l
      BY <2>0, <2>2, <2>6, <3>1
    <3>2. CASE j \in 1 .. l - 1 /\ j + 1 \in k .. l
      <4>1. stack[c][j + 1].of \in Places[stack[c][j].of]
        BY <2>0, <3>2 DEF CallsLeadDown
      <4>2. stack[c][j + 1].of \in S
        BY <3>2
      <4> QED
        BY <4>1, <4>2
    <3> QED
      BY <2>4, <3>1, <3>2
  <2>8. \A r \in S : Places[r] \cap S # {}
    BY <2>7
  <2> HIDE DEF S
  <2> QED
    BY <2>5, <2>6, <2>8 DEF Cyclic
<1>2. CASE pc[c] = "failed"
  BY <1>2 DEF FailsOnlyOnACycle
<1>3. ~AskedAgain(c) => pc[c] = "failed"
  <2>1. CASE UNCHANGED <<pc[c], stack[c], asked[c]>>
    BY <2>1
  <2>2. CASE Create(c) \/ Answered(c) \/ ToldToWait(c) \/ Stage(c)
    BY <2>2 DEF Create, Answered, ToldToWait, Stage, TypeOK
  <2> QED
    BY <2>1, <2>2, CallsOfOthers
<1> QED
  BY <1>1, <1>2, <1>3

\* A request builds nothing but the assembly it asks for, whatever was built on request
\* before, and what got lost or is built for something that did
\* (_stage_subassemblies, Shape.get_wrapped).
THEOREM SmallRequests == Spec => RequestsStaySmall
<1> DEFINE Small ==
        \A c \in Client : Calls(c) /\ (pc'[c] # pc[c] \/ stack'[c] # stack[c]) =>
            \A x \in Assembly : builds'[x] # builds[x] =>
                \/ x = Innermost(c).of \/ <<warm, x>> \in staged
                \/ \E y \in evicted : x \in Below(y)
<1>1. Init => TypeOK /\ Warm /\ StagedIsClosed
  BY InitTypeCorrect DEF Init, StagedIsClosed
<1>2. TypeOK /\ Warm /\ StagedIsClosed /\ [Next]_vars => TypeOK' /\ Warm' /\ StagedIsClosed'
  BY NextTypeCorrect, NextStagedIsClosed
<1>3. TypeOK /\ Warm /\ StagedIsClosed /\ [Next]_vars => [Small]_vars
  <2> SUFFICES ASSUME TypeOK, Warm, StagedIsClosed, [Next]_vars,
                      NEW c \in Client, Calls(c), pc'[c] # pc[c] \/ stack'[c] # stack[c],
                      NEW x \in Assembly, builds'[x] # builds[x]
               PROVE  \/ x = Innermost(c).of \/ <<warm, x>> \in staged
                      \/ \E y \in evicted : x \in Below(y)
    OBVIOUS
  <2>1. Answered(c)
    <3>1. ASSUME NEW d \in Client, Create(d) \/ ToldToWait(d) \/ AskedAgain(d) \/ Stage(d)
          PROVE  builds' = builds
      BY <3>1 DEF Create, ToldToWait, AskedAgain, Stage
    <3>2. ASSUME NEW d \in Assembly, Evict(d) PROVE builds' = builds
      BY <3>2 DEF Evict
    <3>3. ASSUME NEW d \in Client, Answered(d) PROVE d = c
      BY <3>3 DEF Answered, TypeOK
    <3> QED
      BY <3>1, <3>2, <3>3 DEF Next, Call, Terminated, vars
  <2> DEFINE a == Innermost(c).of
             T == Uncached(warm)
             S == {s \in Assembly : s = a \/ <<warm, s>> \in staged \/ \E y \in evicted : s \in Below(y)}
  <2>2. a \in Assembly /\ warm \in Client /\ T \in SUBSET Assembly /\ evicted \subseteq Assembly
    BY StackTypes DEF Calls, TypeOK, CallRecord, Warm, Uncached
  <2>3. x \in BuiltOutOf[T][a] /\ Pending(warm, a) = {}
    BY <2>1 DEF Answered, Wrap, Inline, TypeOK
  <2>4. ASSUME NEW s \in S \cap T, NEW t \in Places[s] \cap T PROVE t \in S
    <3>1. s \in Assembly /\ t \in Assembly /\ ~IsCached(warm, t)
      BY <2>4 DEF Uncached
    <3>2. CASE s = a
      BY <2>3, <2>4, <3>1, <3>2 DEF Pending
    <3>3. CASE <<warm, s>> \in staged
      <4>1. <<warm, t>> \in staged \/ t \in evicted
        BY <2>2, <2>4, <3>1, <3>3 DEF StagedIsClosed
      <4> QED
        BY <3>1, <4>1, BelowIsClosed
    <3>4. CASE \E y \in evicted : s \in Below(y)
      BY <2>2, <2>4, <3>1, <3>4, BelowIsClosed
    <3> QED
      BY <2>4, <3>2, <3>3, <3>4
  <2>5. BuiltOutOf[T][a] \subseteq S
    <3>1. a \in S
      BY <2>2
    <3> HIDE DEF S, T, a
    <3> QED
      BY <2>2, <2>4, <3>1, BuiltOutOfIsLeast
  <2> QED
    BY <2>3, <2>5
<1> QED
  BY <1>1, <1>2, <1>3, PTL DEF Spec, RequestsStaySmall

\* With one configuration a command fails only for an assembly that is built out of
\* something that is built out of itself, however little the caches accept and keep
\* (_stage_subassemblies, _call_staging).
THEOREM OnlyCyclesFail ==
    ASSUME OneConfiguration
    PROVE  Spec => []FailsOnlyOnACycle
<1>1. Init => TypeOK /\ Warm /\ CallsLeadDown /\ AskedIsUnderWay /\ FailsOnlyOnACycle
  BY InitTypeCorrect DEF Init, CallsLeadDown, AskedIsUnderWay, FailsOnlyOnACycle
<1>2. TypeOK /\ Warm /\ CallsLeadDown /\ AskedIsUnderWay /\ FailsOnlyOnACycle /\ [Next]_vars
        => (TypeOK /\ Warm /\ CallsLeadDown /\ AskedIsUnderWay /\ FailsOnlyOnACycle)'
  BY NextTypeCorrect, NextCallsLeadDown, NextAskedIsUnderWay, NextFailsOnlyOnACycle
<1> QED
  BY <1>1, <1>2, PTL DEF Spec
=============================================================================
