---- MODULE AppState_proofs ----
(***************************************************************************)
(* Proofs about AppState, for any number of overlapping requests, any set  *)
(* of endpoints and any settings.                                          *)
(***************************************************************************)
EXTENDS AppState, TLAPS

USE ConstantsAssumption

\* The lists of dependencies are lists of parts.
LEMMA NeedsType ==
  \A k \in Endpoints :
    /\ Len(Needs[k]) \in Nat \ {0}
    /\ \A n \in 1 .. Len(Needs[k]) : Needs[k][n] \in Parts
<1> SUFFICES ASSUME NEW k \in Endpoints
             PROVE  /\ Len(Needs[k]) \in Nat \ {0}
                    /\ \A n \in 1 .. Len(Needs[k]) : Needs[k][n] \in Parts
  OBVIOUS
<1>1. CASE k = "ask" BY <1>1 DEF Needs, Parts, OptionalParts
<1>2. CASE k = "agent" BY <1>2 DEF Needs, Parts, OptionalParts
<1>3. CASE k = "contract" BY <1>3 DEF Needs, Parts, OptionalParts
<1>4. CASE k = "image" BY <1>4 DEF Needs, Parts, OptionalParts
<1>5. CASE k = "page" BY <1>5 DEF Needs, Parts, OptionalParts
<1>. QED BY <1>1, <1>2, <1>3, <1>4, <1>5 DEF Endpoints

\* What every step leaves alone in the state of the other requests, and the
\* steps a request can take, by what they do to its own state.
Same(r) ==
  /\ pc'[r] = pc[r] /\ at'[r] = at[r]
  /\ built'[r] = built[r] /\ uses'[r] = uses[r]

\* The request goes on to another label at the same dependency.
Moves(r, x) ==
  /\ pc' = [pc EXCEPT ![r] = x]
  /\ UNCHANGED <<kind, at, uses>>

LEMMA GiveType ==
  ASSUME TypeOK, NEW r \in Requests, NEW x \in Instances, Give(r, x),
         pc[r] # "ready"
  PROVE  /\ kind' = kind /\ built' = built
         /\ pc' \in [Requests -> Labels]
         /\ at' \in [Requests -> Nat]
         /\ uses' \in [Requests -> [Parts -> Instances]]
         /\ at'[r] = at[r] + 1
         /\ uses'[r] = [uses[r] EXCEPT ![Part(r)] = x]
         /\ pc'[r] = IF at[r] = Len(Needs[kind[r]]) THEN "ready" ELSE "look"
         /\ at'[r] \in 1 .. Len(Needs[kind[r]]) + 1
         /\ pc'[r] = "ready" <=> at'[r] = Len(Needs[kind[r]]) + 1
         /\ \A q \in Requests \ {r} : Same(q)
<1>1. /\ kind[r] \in Endpoints /\ at[r] \in Nat
      /\ at[r] \in 1 .. Len(Needs[kind[r]]) + 1
      /\ at[r] # Len(Needs[kind[r]]) + 1
      /\ Len(Needs[kind[r]]) \in Nat
  BY NeedsType DEF TypeOK
<1>2. /\ pc \in [Requests -> Labels] /\ at \in [Requests -> Nat]
      /\ uses \in [Requests -> [Parts -> Instances]]
  BY DEF TypeOK
<1>3. kind' = kind /\ built' = built BY DEF Give
<1>4. /\ at' = [at EXCEPT ![r] = @ + 1]
      /\ uses' = [uses EXCEPT ![r][Part(r)] = x]
      /\ pc' = [pc EXCEPT ![r] =
                  IF at[r] = Len(Needs[kind[r]]) THEN "ready" ELSE "look"]
  BY DEF Give, Goto
<1>5. at'[r] = at[r] + 1 /\ at' \in [Requests -> Nat] BY <1>1, <1>2, <1>4
<1>6. /\ pc'[r] = IF at[r] = Len(Needs[kind[r]]) THEN "ready" ELSE "look"
      /\ pc' \in [Requests -> Labels]
  BY <1>2, <1>4 DEF Labels
<1>7. /\ uses'[r] = [uses[r] EXCEPT ![Part(r)] = x]
      /\ uses' \in [Requests -> [Parts -> Instances]]
  BY <1>2, <1>4
<1>8. /\ at'[r] \in 1 .. Len(Needs[kind[r]]) + 1
      /\ pc'[r] = "ready" <=> at'[r] = Len(Needs[kind[r]]) + 1
  BY <1>1, <1>5, <1>6
<1>9. \A q \in Requests \ {r} : Same(q) BY <1>2, <1>3, <1>4 DEF Same
<1>. QED BY <1>3, <1>5, <1>6, <1>7, <1>8, <1>9

LEMMA MovesType ==
  ASSUME TypeOK, NEW r \in Requests, NEW x \in Labels \ {"ready"}, Moves(r, x),
         pc[r] # "ready"
  PROVE  /\ kind' = kind /\ at' = at /\ uses' = uses
         /\ pc' \in [Requests -> Labels] /\ pc'[r] = x
         /\ \A q \in Requests \ {r} : pc'[q] = pc[q]
         /\ pc'[r] = "ready" <=> at'[r] = Len(Needs[kind[r]]) + 1
BY DEF Moves, TypeOK

\* The part a request is at is one of the parts it needs.
LEMMA PartType ==
  ASSUME TypeOK, NEW r \in Requests, pc[r] # "ready"
  PROVE  Part(r) \in Parts /\ at[r] \in 1 .. Len(Needs[kind[r]])
<1>1. kind[r] \in Endpoints /\ at[r] \in 1 .. Len(Needs[kind[r]]) + 1
      /\ at[r] # Len(Needs[kind[r]]) + 1
  BY DEF TypeOK
<1>2. at[r] \in 1 .. Len(Needs[kind[r]]) BY <1>1, NeedsType
<1>. QED BY <1>1, <1>2, NeedsType DEF Part

----------------------------------------------------------------------------
(* What a step is made of.                                                 *)

\* A step either gives the request a part, or moves it to another label.
LEMMA Shape ==
  ASSUME TypeOK, NEW r \in Requests, Resolve(r)
  PROVE  /\ pc[r] \notin {"ready", "failed"}
         /\ \/ \E x \in Instances : Give(r, x)
            \/ \E x \in Labels \ {"ready"} : Moves(r, x)
<1>1. \/ pc[r] = "ready"
      \/ /\ Part(r) \in Parts
         /\ cache[Part(r)] \in Instances /\ built[r] \in Instances
  BY PartType DEF TypeOK
<1>2. CASE Hit(r) BY <1>1, <1>2 DEF Hit
<1>3. CASE Miss(r) BY <1>3 DEF Miss, Moves, Goto, Labels
<1>4. CASE Check(r) \/ Register(r) \/ Mark(r) \/ Build(r)
  BY <1>4 DEF Check, Register, Mark, Build, Moves, Goto, Labels
<1>5. CASE Refuse(r) \/ BuildFails(r)
  <2>1. pc[r] \in {"register", "build"} /\ Fail(r)
    BY <1>5 DEF Refuse, BuildFails
  <2>. QED BY <2>1 DEF Fail, Moves, Goto, Labels, Instances
<1>6. CASE Store(r) BY <1>1, <1>6 DEF Store, Moves, Goto, Labels
<1>7. CASE SetFlag(r) BY <1>1, <1>7 DEF SetFlag
<1>. QED BY <1>2, <1>3, <1>4, <1>5, <1>6, <1>7 DEF Resolve

LEMMA BuiltType ==
  ASSUME TypeOK, NEW r \in Requests, Resolve(r)
  PROVE  /\ built' \in [Requests -> Instances]
         /\ \A q \in Requests \ {r} : built'[q] = built[q]
<1>1. CASE built' = built BY <1>1 DEF TypeOK
<1>2. CASE Build(r) BY <1>2 DEF Build, TypeOK, Instances
<1>3. CASE Refuse(r) \/ BuildFails(r)
  <2>1. Fail(r) BY <1>3 DEF Refuse, BuildFails
  <2>2. built' = built \/ built' = [built EXCEPT ![r] = Nothing]
    BY <2>1 DEF Fail, Give
  <2>. QED BY <2>2 DEF TypeOK, Instances
<1>4. CASE ~Build(r) /\ ~Refuse(r) /\ ~BuildFails(r)
  <2>1. built' = built
    BY <1>4 DEF Resolve, Hit, Miss, Check, Register, Mark, Store, SetFlag, Give
  <2>. QED BY <1>1, <2>1
<1>. QED BY <1>2, <1>3, <1>4

\* The other requests are where they were.
LEMMA Others ==
  ASSUME TypeOK, NEW r \in Requests, Resolve(r)
  PROVE  /\ kind' = kind
         /\ \A q \in Requests \ {r} : Same(q) /\ Part(q)' = Part(q)
<1>1. CASE \E x \in Instances : Give(r, x)
  <2>1. kind' = kind /\ \A q \in Requests \ {r} : Same(q)
    BY <1>1, Shape, GiveType
  <2>. QED BY <2>1 DEF Same, Part
<1>2. CASE \E x \in Labels \ {"ready"} : Moves(r, x)
  <2>1. /\ kind' = kind /\ at' = at /\ uses' = uses
        /\ \A q \in Requests \ {r} : pc'[q] = pc[q]
    BY <1>2, Shape, MovesType
  <2>. QED BY <2>1, BuiltType DEF Same, Part
<1>. QED BY <1>1, <1>2, Shape

LEMMA TypeStep == TypeOK /\ [Next]_vars => TypeOK'
<1> SUFFICES ASSUME TypeOK, [Next]_vars PROVE TypeOK'
  OBVIOUS
<1>1. ASSUME NEW r \in Requests, Resolve(r) PROVE TypeOK'
  <2>1. /\ kind' = kind
        /\ pc' \in [Requests -> Labels]
        /\ at' \in [Requests -> Nat]
        /\ uses' \in [Requests -> [Parts -> Instances]]
        /\ at'[r] \in 1 .. Len(Needs[kind[r]]) + 1
        /\ pc'[r] = "ready" <=> at'[r] = Len(Needs[kind[r]]) + 1
    <3>1. CASE \E x \in Instances : Give(r, x) BY <1>1, <3>1, Shape, GiveType
    <3>2. CASE \E x \in Labels \ {"ready"} : Moves(r, x)
      BY <1>1, <3>2, Shape, MovesType DEF TypeOK
    <3>. QED BY <1>1, <3>1, <3>2, Shape
  <2>2. \A q \in Requests \ {r} : pc'[q] = pc[q] /\ at'[q] = at[q]
    BY <1>1, Others DEF Same
  <2>3. \A q \in Requests :
          /\ at'[q] \in 1 .. Len(Needs[kind'[q]]) + 1
          /\ pc'[q] = "ready" <=> at'[q] = Len(Needs[kind'[q]]) + 1
    BY <2>1, <2>2 DEF TypeOK
  <2>4. cache' \in [Parts -> Instances]
    <3>1. CASE Store(r) BY <3>1, PartType DEF Store, TypeOK
    <3>2. CASE ~Store(r)
      BY <1>1, <3>2 DEF Resolve, Hit, Miss, Check, Register, Refuse, Mark,
                        Build, BuildFails, Fail, SetFlag, TypeOK
    <3>. QED BY <3>1, <3>2
  <2>5. /\ assigned' \in BOOLEAN /\ loaded' \in BOOLEAN
        /\ registered' \in BOOLEAN /\ marked' \in BOOLEAN
    BY <1>1 DEF Resolve, Hit, Miss, Check, Register, Refuse, Mark, Build,
                BuildFails, Fail, Store, SetFlag, TypeOK, rerankerVars,
                modelVars
  <2>6. built' \in [Requests -> Instances] BY <1>1, BuiltType
  <2>7. kind' \in [Requests -> Kinds] BY <2>1 DEF TypeOK
  <2>. QED BY <2>1, <2>3, <2>4, <2>5, <2>6, <2>7 DEF TypeOK
<1>2. CASE UNCHANGED vars
  BY <1>2 DEF vars, requestVars, rerankerVars, modelVars, TypeOK
<1>. QED BY <1>1, <1>2 DEF Next

LEMMA InitTypeOK == Init => TypeOK
<1> SUFFICES ASSUME Init PROVE TypeOK
  OBVIOUS
<1>1. \A r \in Requests : Len(Needs[kind[r]]) \in Nat \ {0}
  BY NeedsType DEF Init
<1>2. \A r \in Requests :
        /\ at[r] \in 1 .. Len(Needs[kind[r]]) + 1
        /\ pc[r] = "ready" <=> at[r] = Len(Needs[kind[r]]) + 1
  <2> TAKE r \in Requests
  <2>1. at[r] = 1 /\ pc[r] = "look" BY DEF Init
  <2>2. Len(Needs[kind[r]]) \in Nat \ {0} BY <1>1
  <2>3. 1 \in 1 .. Len(Needs[kind[r]]) + 1 /\ 1 # Len(Needs[kind[r]]) + 1
    BY <2>2
  <2>. QED BY <2>1, <2>3
<1>. QED BY <1>2 DEF Init, TypeOK, Labels, Instances

\* Types are kept.
THEOREM TypeCorrect == Spec => []TypeOK
BY InitTypeOK, TypeStep, PTL DEF Spec

----------------------------------------------------------------------------
(* The parts of the invariant, one lemma each.                             *)

\* Where a request can come from: the label it has after its own step.
LEMMA Steps ==
  ASSUME TypeOK, NEW r \in Requests, Resolve(r)
  PROVE  /\ pc'[r] = "flag" => Store(r) /\ Part(r) = "rag_reranker"
         /\ pc'[r] = "mark" => Register(r)
         /\ pc'[r] = "store" => Build(r) \/ Refuse(r) \/ BuildFails(r)
         /\ pc'[r] = "build" => Miss(r) \/ Check(r) \/ Mark(r)
         /\ pc'[r] = "failed" => Refuse(r) \/ BuildFails(r)
<1>1. pc \in [Requests -> Labels] BY DEF TypeOK
<1>2. CASE Hit(r) \/ SetFlag(r)
  <2>1. \E x : Give(r, x) BY <1>2 DEF Hit, SetFlag
  <2>. QED BY <1>1, <2>1 DEF Give, Goto
<1>3. CASE Store(r)
  BY <1>1, <1>3 DEF Store, Give, Goto
<1>4. CASE Miss(r) BY <1>1, <1>4 DEF Miss, Goto
<1>5. CASE Check(r) BY <1>1, <1>5 DEF Check, Goto
<1>6. CASE Register(r) \/ Mark(r) \/ Build(r)
  BY <1>1, <1>6 DEF Register, Mark, Build, Goto
<1>7. CASE Refuse(r) \/ BuildFails(r)
  <2>1. Fail(r) BY <1>7 DEF Refuse, BuildFails
  <2>2. pc'[r] \in {"store", "failed", "look", "ready"}
    BY <1>1, <2>1 DEF Fail, Give, Goto
  <2>. QED BY <1>7, <2>2
<1>. QED BY <1>2, <1>3, <1>4, <1>5, <1>6, <1>7 DEF Resolve

\* The attribute, the flag, the registration and the name are set for good,
\* each by one action.
LEMMA Monotone ==
  ASSUME TypeOK, NEW r \in Requests, Resolve(r)
  PROVE  /\ assigned => assigned'
         /\ loaded' => loaded \/ SetFlag(r)
         /\ registered => registered'
         /\ registered' => registered \/ Register(r)
         /\ marked => marked'
         /\ marked' => marked \/ Mark(r)
         /\ Mark(r) => marked'
BY DEF Resolve, Hit, Miss, Check, Register, Refuse, Mark, Build, BuildFails,
       Fail, Store, SetFlag, TypeOK, rerankerVars, modelVars

LEMMA FlagStep ==
  ASSUME TypeOK, FlagInv, NEW r \in Requests, Resolve(r)
  PROVE  FlagInv'
<1>1. AttributeBehindFlag'
  BY Monotone DEF FlagInv, AttributeBehindFlag, SetFlag
<1>2. ASSUME NEW q \in Requests, pc'[q] = "flag"
      PROVE  assigned' /\ Part(q)' = "rag_reranker"
  <2>1. CASE q = r
    <3>1. Store(r) /\ Part(r) = "rag_reranker" BY <1>2, <2>1, Steps
    <3>2. assigned' /\ Part(r)' = Part(r) BY <3>1 DEF Store, Part
    <3>. QED BY <2>1, <3>1, <3>2
  <2>2. CASE q # r BY <1>2, <2>2, Others, Monotone DEF FlagInv, Same
  <2>. QED BY <2>1, <2>2
<1>. QED BY <1>1, <1>2 DEF FlagInv

LEMMA RegistrationStep ==
  ASSUME TypeOK, RegistrationInv, NEW r \in Requests, Resolve(r)
  PROVE  RegistrationInv'
<1>1. marked' => registered'
  BY Monotone DEF RegistrationInv, Mark
<1>2. ASSUME NEW q \in Requests
      PROVE  /\ pc'[q] = "mark" => registered'
             /\ (At(q, "build", "rag_store") /\ LocalModel)' => marked'
  <2>1. CASE q # r
    BY <1>2, <2>1, Others, Monotone DEF RegistrationInv, Same, At
  <2>2. CASE q = r
    <3>1. pc'[r] = "mark" => registered' BY Steps DEF Register
    <3>2. ASSUME pc'[r] = "build", Part(r)' = "rag_store", LocalModel
          PROVE  marked'
      <4>1. CASE Miss(r)
        <5>1. Part(r)' = Part(r) BY <4>1, Others DEF Miss, Part
        <5>. QED BY <3>2, <4>1, <5>1 DEF Miss, Goto, TypeOK
      <4>2. CASE Check(r) BY <3>2, <4>2 DEF Check, Goto, TypeOK, modelVars
      <4>3. CASE Mark(r) BY <4>3 DEF Mark
      <4>. QED BY <3>2, <4>1, <4>2, <4>3, Steps
    <3>. QED BY <2>2, <3>1, <3>2 DEF At
  <2>. QED BY <2>1, <2>2
<1>. QED BY <1>1, <1>2 DEF RegistrationInv

LEMMA MarkStep ==
  ASSUME TypeOK, MarkInv, NEW r \in Requests, Resolve(r)
  PROVE  MarkInv'
<1> SUFFICES ASSUME registered', ~marked'
             PROVE  \E q \in Requests : pc'[q] = "mark"
  BY DEF MarkInv
<1>1. CASE Register(r) BY <1>1 DEF Register, Goto, TypeOK
<1>2. CASE ~Register(r)
  <2>1. PICK q \in Requests : pc[q] = "mark"
    BY <1>2, Monotone DEF MarkInv
  <2>2. q # r
    <3>1. ASSUME pc[r] = "mark" PROVE Mark(r)
      BY <3>1 DEF Resolve, Hit, Miss, Check, Register, Refuse, Mark, Build,
                  BuildFails, Store, SetFlag
    <3>. QED BY <2>1, <3>1, Monotone
  <2>. QED BY <2>1, <2>2, Others DEF Same
<1>. QED BY <1>1, <1>2

\* What is about to be cached after a step of the request that builds it.
LEMMA BuiltByStep ==
  ASSUME TypeOK, NEW r \in Requests, Resolve(r), pc'[r] = "store"
  PROVE  /\ Part(r)' = Part(r)
         /\ built'[r] # Nothing => SwitchedOn(Part(r))
         /\ SwitchedOn(Part(r)) /\ Part(r) \notin NoneOnFailure => built'[r] # Nothing
<1>1. CASE Build(r)
  <2>1. Part(r)' = Part(r) BY <1>1 DEF Build, Part
  <2>2. built'[r] = IF SwitchedOn(Part(r)) THEN r ELSE Nothing
    BY <1>1 DEF Build, TypeOK
  <2>. QED BY <2>1, <2>2
<1>2. CASE Refuse(r) \/ BuildFails(r)
  <2>1. Fail(r) BY <1>2 DEF Refuse, BuildFails
  <2>2. ~ \E x : Give(r, x) BY DEF Give, Goto, TypeOK
  <2>3. /\ Part(r) \in NoneOnFailure /\ kind' = kind /\ at' = at
        /\ built' = [built EXCEPT ![r] = Nothing]
    BY <2>1, <2>2 DEF Fail, Goto, TypeOK
  <2>4. Part(r)' = Part(r) BY <2>3 DEF Part
  <2>5. built'[r] = Nothing BY <2>3 DEF TypeOK
  <2>. QED BY <2>3, <2>4, <2>5
<1>. QED BY <1>1, <1>2, Steps

\* Only Store writes to the cache.
LEMMA CacheStep ==
  ASSUME NEW r \in Requests, Resolve(r), ~Store(r)
  PROVE  cache' = cache
BY DEF Resolve, Hit, Miss, Check, Register, Refuse, Mark, Build, BuildFails, Fail,
       SetFlag

LEMMA BuiltStep ==
  ASSUME TypeOK, BuiltInv, NEW r \in Requests, Resolve(r)
  PROVE  BuiltInv'
<1>1. ASSUME NEW p \in Parts, cache'[p] # Nothing PROVE SwitchedOn(p)
  <2>1. CASE Store(r)
    <3>1. /\ cache' = [cache EXCEPT ![Part(r)] = built[r]] /\ pc[r] = "store"
      BY <2>1 DEF Store
    <3>2. CASE p = Part(r) BY <1>1, <3>1, <3>2 DEF BuiltInv, TypeOK
    <3>3. CASE p # Part(r) BY <1>1, <3>1, <3>3 DEF BuiltInv, TypeOK
    <3>. QED BY <3>2, <3>3
  <2>2. CASE ~Store(r) BY <1>1, <2>2, CacheStep DEF BuiltInv
  <2>. QED BY <2>1, <2>2
<1>2. ASSUME NEW q \in Requests, pc'[q] = "store"
      PROVE  /\ built'[q] # Nothing => SwitchedOn(Part(q)')
             /\ SwitchedOn(Part(q)') /\ Part(q)' \notin NoneOnFailure
                  => built'[q] # Nothing
  <2>1. CASE q # r
    <3>1. pc[q] = "store" /\ built'[q] = built[q] /\ Part(q)' = Part(q)
      BY <1>2, <2>1, Others DEF Same
    <3>. QED BY <3>1 DEF BuiltInv
  <2>2. CASE q = r BY <1>2, <2>2, BuiltByStep
  <2>. QED BY <2>1, <2>2
<1>. QED BY <1>1, <1>2 DEF BuiltInv, SwitchedOn

\* What a request is given is an instance, unless it can do without.
LEMMA GivenParts ==
  ASSUME TypeOK, FlagInv, BuiltInv, NEW r \in Requests, Resolve(r),
         at'[r] # at[r], Part(r) \in Mandatory(kind[r])
  PROVE  uses'[r][Part(r)] # Nothing
<1>1. pc[r] # "ready" /\ Part(r) \in Parts BY Shape, PartType
<1>2. Part(r) \notin OptionalParts /\ Part(r) \notin BestEffort(kind[r])
  BY DEF Mandatory
<1>3. Part(r) # "rag_reranker" BY <1>2 DEF OptionalParts
<1>4. ASSUME NEW x \in Instances \ {Nothing}, Give(r, x)
      PROVE  uses'[r][Part(r)] # Nothing
  <2>1. uses'[r] = [uses[r] EXCEPT ![Part(r)] = x] BY <1>1, <1>4, GiveType
  <2>2. uses[r] \in [Parts -> Instances] BY DEF TypeOK
  <2>. QED BY <1>1, <1>4, <2>1, <2>2
<1>5. CASE Hit(r)
  <2>1. cache[Part(r)] # Nothing /\ Give(r, cache[Part(r)])
    BY <1>3, <1>5 DEF Hit, Cached
  <2>2. cache[Part(r)] \in Instances BY <1>1 DEF TypeOK
  <2>. QED BY <1>4, <2>1, <2>2
<1>6. CASE Store(r)
  <2>1. pc[r] = "store" /\ Give(r, built[r]) BY <1>3, <1>6 DEF Store
  <2>3. SwitchedOn(Part(r)) /\ Part(r) \notin NoneOnFailure
    BY <1>2 DEF SwitchedOn, NoneOnFailure, OptionalParts
  <2>4. built[r] # Nothing BY <2>1, <2>3 DEF BuiltInv
  <2>2. built[r] \in Instances BY DEF TypeOK
  <2>. QED BY <1>4, <2>1, <2>2, <2>4
<1>7. CASE SetFlag(r) BY <1>3, <1>7 DEF SetFlag, FlagInv
<1>8. CASE Refuse(r) \/ BuildFails(r)
  <2>1. Fail(r) BY <1>8 DEF Refuse, BuildFails
  <2>. QED BY <1>2, <2>1 DEF Fail
<1>9. CASE Miss(r) \/ Check(r) \/ Register(r) \/ Mark(r) \/ Build(r)
  BY <1>9 DEF Miss, Check, Register, Mark, Build
<1>. QED BY <1>5, <1>6, <1>7, <1>8, <1>9 DEF Resolve

LEMMA EquippedStep ==
  ASSUME TypeOK, FlagInv, BuiltInv, NEW r \in Requests, Resolve(r),
         \A q \in Requests : Equipped(q)
  PROVE  \A q \in Requests : Equipped(q)'
<1> TAKE q \in Requests
<1>1. kind' = kind BY Others
<1>2. CASE q # r BY <1>1, <1>2, Others DEF Equipped, Same, Mandatory, BestEffort
<1>3. CASE q = r
  <2>1. CASE \E x \in Labels \ {"ready"} : Moves(r, x)
    BY <1>1, <1>3, <2>1 DEF Moves, Equipped, Mandatory, BestEffort
  <2>2. CASE \E x \in Instances : Give(r, x)
    <3>1. PICK x \in Instances : Give(r, x) BY <2>2
    <3>2. /\ at'[r] = at[r] + 1
          /\ uses'[r] = [uses[r] EXCEPT ![Part(r)] = x]
      BY <3>1, Shape, GiveType
    <3>3. at[r] \in Nat /\ uses[r] \in [Parts -> Instances] BY DEF TypeOK
    <3> SUFFICES ASSUME NEW n \in 1 .. at[r],
                        Needs[kind[r]][n] \in Mandatory(kind[r])
                 PROVE  uses'[r][Needs[kind[r]][n]] # Nothing
      BY <1>1, <1>3, <3>2, <3>3 DEF Equipped, Mandatory, BestEffort
    <3>4. CASE Needs[kind[r]][n] = Part(r)
      BY <3>2, <3>3, <3>4, GivenParts
    <3>5. CASE Needs[kind[r]][n] # Part(r)
      <4>1. n \in 1 .. at[r] - 1 BY <3>3, <3>5 DEF Part
      <4>2. uses[r][Needs[kind[r]][n]] # Nothing BY <4>1 DEF Equipped
      <4>3. Needs[kind[r]][n] \in Parts BY DEF Mandatory
      <4>. QED BY <3>2, <3>3, <3>5, <4>2, <4>3
    <3>. QED BY <3>4, <3>5
  <2>. QED BY <2>1, <2>2, Shape
<1>. QED BY <1>2, <1>3

----------------------------------------------------------------------------
(* The invariant, and what follows from it.                                *)

LEMMA InitIInv == Init => IInv
<1> SUFFICES ASSUME Init PROVE IInv
  OBVIOUS
<1>1. TypeOK BY InitTypeOK
<1>2. FlagInv /\ RegistrationInv /\ MarkInv
  BY DEF Init, FlagInv, AttributeBehindFlag, RegistrationInv,
         MarkInv, At
<1>3. BuiltInv BY DEF Init, BuiltInv
<1>4. \A r \in Requests : Equipped(r)
  <2>1. \A r \in Requests : at[r] = 1 BY DEF Init
  <2>2. 1 .. 1 - 1 = {} OBVIOUS
  <2>. QED BY <2>1, <2>2 DEF Equipped
<1>. QED BY <1>1, <1>2, <1>3, <1>4 DEF IInv

LEMMA NextIInv == IInv /\ [Next]_vars => IInv'
<1> SUFFICES ASSUME IInv, [Next]_vars PROVE IInv'
  OBVIOUS
<1>1. TypeOK /\ TypeOK' BY TypeStep DEF IInv
<1>2. CASE Next
  <2>1. PICK r \in Requests : Resolve(r) BY <1>2 DEF Next
  <2>. QED BY <1>1, <2>1, FlagStep, RegistrationStep, MarkStep,
              BuiltStep, EquippedStep DEF IInv
<1>3. CASE UNCHANGED vars
  <2>1. FlagInv' /\ RegistrationInv' /\ MarkInv'
    BY <1>3 DEF vars, requestVars, rerankerVars, modelVars, IInv, FlagInv,
                AttributeBehindFlag, RegistrationInv, MarkInv, At,
                Part
  <2>2. BuiltInv'
    BY <1>3 DEF vars, requestVars, IInv, BuiltInv, Part, SwitchedOn
  <2>3. \A r \in Requests : Equipped(r)'
    BY <1>3 DEF vars, requestVars, IInv, Equipped, Mandatory, BestEffort
  <2>. QED BY <1>1, <2>1, <2>2, <2>3 DEF IInv
<1>. QED BY <1>2, <1>3

\* The invariant of app.state holds however many requests overlap.
THEOREM Invariance == Spec => []IInv
BY InitIInv, NextIInv, PTL DEF Spec

\* get_rag_reranker assigns the attribute before it sets the flag, so its
\* fast path never meets a missing attribute.
THEOREM AttributesAreThere == Spec => []AttributeBehindFlag
<1>1. IInv => AttributeBehindFlag BY DEF IInv, FlagInv
<1>. QED BY <1>1, Invariance, PTL

\* A builder of the vector store that skips _register_custom_model's call to
\* fastembed finds the model registered.
THEOREM SkippingIsSafe == Spec => []SkipIsSafe
<1>1. IInv => SkipIsSafe BY DEF IInv, RegistrationInv, SkipIsSafe
<1>. QED BY <1>1, Invariance, PTL

\* A request that looks at the names after the registration is sent to register
\* the model again only before the step that adds the name.
THEOREM RefusalsPass == Spec => RefusalsEnd
<1>1. ASSUME IInv, [Next]_vars, NEW r \in Requests,
             registered, pc[r] = "check", pc'[r] = "register"
      PROVE  ~marked /\ \E q \in Requests : pc[q] = "mark"
  <2>1. Next BY <1>1 DEF vars, requestVars
  <2>2. PICK q \in Requests : Resolve(q) BY <2>1 DEF Next
  <2>3. q = r BY <1>1, <2>2, Others DEF IInv, Same
  <2>4. Check(r)
    BY <1>1, <2>2, <2>3 DEF Resolve, Hit, Miss, Check, Register, Refuse, Mark, Build,
                            BuildFails, Store, SetFlag
  <2>5. ~marked BY <1>1, <2>4 DEF Check, Goto, IInv, TypeOK
  <2>. QED BY <1>1, <2>5 DEF IInv, MarkInv
<1>2. IInv /\ [Next]_vars =>
        [\A r \in Requests :
           registered /\ pc[r] = "check" /\ pc'[r] = "register" =>
             ~marked /\ \E q \in Requests : pc[q] = "mark"]_vars
  BY <1>1
<1>. QED BY <1>2, Invariance, PTL DEF Spec, RefusalsEnd

\* A failing build of one first request leaves alone what another one has
\* cached.
THEOREM FailuresLeaveTheCache == Spec => CachedStays
<1>1. ASSUME IInv, [Next]_vars, NEW p \in Parts \ NoneOnFailure, cache[p] # Nothing
      PROVE  cache'[p] # Nothing
  <2>1. CASE UNCHANGED vars BY <1>1, <2>1 DEF vars
  <2>2. ASSUME NEW r \in Requests, Resolve(r) PROVE cache'[p] # Nothing
    <3>1. CASE ~Store(r) BY <1>1, <2>2, <3>1, CacheStep
    <3>2. CASE Store(r) /\ p # Part(r) BY <1>1, <3>2 DEF Store, IInv, TypeOK
    <3>3. CASE Store(r) /\ p = Part(r)
      <4>1. SwitchedOn(p) BY <1>1 DEF IInv, BuiltInv
      <4>2. pc[r] = "store" /\ cache' = [cache EXCEPT ![Part(r)] = built[r]]
        BY <3>3 DEF Store
      <4>3. built[r] # Nothing BY <1>1, <3>3, <4>1, <4>2 DEF IInv, BuiltInv
      <4>. QED BY <1>1, <3>3, <4>2, <4>3 DEF IInv, TypeOK
    <3>. QED BY <3>1, <3>2, <3>3
  <2>. QED BY <1>1, <2>1, <2>2 DEF Next
<1>2. IInv /\ [Next]_vars =>
        [\A p \in Parts \ NoneOnFailure : cache[p] # Nothing => cache'[p] # Nothing]_vars
  BY <1>1
<1>. QED BY <1>2, Invariance, PTL DEF Spec, CachedStays

\* No handler runs without a part it cannot do without.
THEOREM Equipment == Spec => []HandlersAreEquipped
<1>1. IInv => HandlersAreEquipped
  <2> SUFFICES ASSUME IInv, NEW q \in Requests, pc[q] = "ready",
                      NEW n \in 1 .. Len(Needs[kind[q]]),
                      Needs[kind[q]][n] \in Mandatory(kind[q])
               PROVE  uses[q][Needs[kind[q]][n]] # Nothing
    BY DEF HandlersAreEquipped
  <2>1. at[q] = Len(Needs[kind[q]]) + 1 BY DEF IInv, TypeOK
  <2>2. Len(Needs[kind[q]]) \in Nat BY NeedsType DEF IInv, TypeOK
  <2>3. n \in 1 .. at[q] - 1 BY <2>1, <2>2
  <2>. QED BY <2>3 DEF IInv, Equipped
<1>. QED BY <1>1, Invariance, PTL

====
