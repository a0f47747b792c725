---- MODULE Agent_proofs ----
(***************************************************************************)
(* Proofs about Agent, for every number of runs, contracts, tasks and      *)
(* retries.  Each part of the inductive invariant has a lemma of its own,  *)
(* with one step for each action that can disturb it.                      *)
(***************************************************************************)
EXTENDS Agent, TLAPS

USE ConstantsAssumption

\* What a step does to a run that it does not belong to: nothing.
Frozen(r) ==
  UNCHANGED <<pc[r], task[r], scope[r], hasGraph[r], hasLlm[r], traced[r],
              known[r], target[r], citations[r], answer[r], retries[r],
              fallback[r], steps[r], traceId[r]>>

\* The actions of run r, those that start it and make it fail included.
Act(r) == Start(r) \/ Run(r) \/ Raise(r)

LEMMA OthersFrozen ==
  ASSUME TypeOK, NEW r \in Runs, Act(r), NEW q \in Runs, q # r
  PROVE  Frozen(q)
<1>1. CASE Start(r) \/ Raise(r) \/ Route(r) \/ Respond(r)
  BY <1>1 DEF TypeOK, Frozen, Start, Raise, Route, Respond, Goto, Log,
              storeVars, inputVars, stateVars, traceVars
<1>2. CASE RetrieveGraph(r) \/ RetrieveVector(r)
  BY <1>2 DEF TypeOK, Frozen, RetrieveGraph, RetrieveVector, Goto, Log,
              storeVars, inputVars, traceVars
<1>3. CASE Generate(r) \/ Degrade(r)
  BY <1>3 DEF TypeOK, Frozen, Generate, Degrade, Goto, Log,
              storeVars, inputVars, traceVars
<1>4. CASE Retry(r) \/ Finish(r)
  BY <1>4 DEF TypeOK, Frozen, Retry, Finish, Goto, Log,
              storeVars, inputVars, traceVars
<1>. QED BY <1>1, <1>2, <1>3, <1>4 DEF Act, Run

\* A step of the environment, or none, disturbs no run.
Environment == \E c \in Contracts : Index(c) \/ MoveWindow(c)

LEMMA EnvironmentFreezes ==
  ASSUME TypeOK, Environment \/ UNCHANGED vars, NEW r \in Runs
  PROVE  Frozen(r)
BY DEF Environment, Index, MoveWindow, vars, Frozen, inputVars, stateVars,
       traceVars

LEMMA NextCases ==
  [Next]_vars <=> (\E r \in Runs : Act(r)) \/ Environment \/ UNCHANGED vars
BY DEF Next, Act, Environment

----------------------------------------------------------------------------
(* Types.                                                                  *)

LEMMA CiteType ==
  ASSUME NEW kind \in {"chunk", "graph"}, NEW S \in SUBSET Contracts
  PROVE  Cite(kind, S) \in SUBSET Citations
<1>1. \A c \in S : [kind |-> kind, contract |-> c] \in Citations
  BY DEF Citations
<1>. QED BY <1>1 DEF Cite

LEMMA InitTypeOK == Init => TypeOK
BY DEF Init, TypeOK, Labels, Answers

LEMMA TypeStep == TypeOK /\ [Next]_vars => TypeOK'
<1> SUFFICES ASSUME TypeOK, [Next]_vars PROVE TypeOK' OBVIOUS
<1> USE DEF TypeOK, Labels, Nodes, Ended, StepNames, Goto, Log
<1>1. ASSUME NEW r \in Runs, Start(r) PROVE TypeOK'
  BY <1>1 DEF Start, storeVars, stateVars
<1>2. ASSUME NEW r \in Runs, Route(r) PROVE TypeOK'
  BY <1>2 DEF Route, Routed, storeVars, inputVars, traceVars
<1>3. ASSUME NEW r \in Runs, RetrieveGraph(r) PROVE TypeOK'
  <2>1. citations' \in [Runs -> SUBSET Citations]
    BY <1>3, CiteType DEF RetrieveGraph
  <2>. QED BY <1>3, <2>1 DEF RetrieveGraph, storeVars, inputVars, traceVars
<1>4. ASSUME NEW r \in Runs, RetrieveVector(r) PROVE TypeOK'
  <2>1. PICK found \in SUBSET indexed :
          citations' = [citations EXCEPT ![r] = Cite("chunk", found)]
    BY <1>4 DEF RetrieveVector
  <2>2. Cite("chunk", found) \in SUBSET Citations
    BY CiteType
  <2>3. citations' \in [Runs -> SUBSET Citations] BY <2>1, <2>2
  <2>4. /\ Log(r, "vector") /\ Goto(r, "generate")
        /\ UNCHANGED <<storeVars, inputVars, target, answer, retries, fallback,
                       traceVars, counted>>
    BY <1>4 DEF RetrieveVector
  <2>. QED BY <2>3, <2>4, SMTT(20) DEF storeVars, inputVars, traceVars
<1>5. ASSUME NEW r \in Runs, Generate(r) \/ Degrade(r) PROVE TypeOK'
  <2>1. answer' \in [Runs -> Answers] BY <1>5 DEF Generate, Degrade, Answers
  <2>2. /\ Log(r, "generate") /\ Goto(r, "critique")
        /\ UNCHANGED <<storeVars, inputVars, target, citations, retries,
                       fallback, traceVars, counted>>
    BY <1>5 DEF Generate, Degrade
  <2>. QED BY <2>1, <2>2 DEF storeVars, inputVars, traceVars
<1>6. ASSUME NEW r \in Runs, Retry(r) PROVE TypeOK'
  <2>1. retries[r] + 1 \in 0 .. MaxRetries BY <1>6 DEF Retry, CanRetry
  <2>. QED BY <1>6, <2>1 DEF Retry, storeVars, inputVars, traceVars
<1>7. ASSUME NEW r \in Runs, Finish(r) PROVE TypeOK'
  BY <1>7 DEF Finish, storeVars, inputVars, traceVars
<1>8. ASSUME NEW r \in Runs, Respond(r) PROVE TypeOK'
  BY <1>8 DEF Respond, storeVars, inputVars, stateVars
<1>9. ASSUME NEW r \in Runs, Raise(r) PROVE TypeOK'
  BY <1>9 DEF Raise, storeVars, inputVars, stateVars, traceVars
<1>10. ASSUME Environment \/ UNCHANGED vars PROVE TypeOK'
  BY <1>10 DEF Environment, Index, MoveWindow, vars, storeVars, inputVars,
               stateVars, traceVars
<1>. QED
  BY <1>1, <1>2, <1>3, <1>4, <1>5, <1>6, <1>7, <1>8, <1>9, <1>10, NextCases
  DEF Act, Run

\* Every variable keeps its type; no run retries more often than the setting
\* agent_max_retries says.
THEOREM TypeCorrect == Spec => []TypeOK
BY InitTypeOK, TypeStep, PTL DEF Spec

----------------------------------------------------------------------------
(* The parts of the inductive invariant.  In each proof the steps of a run  *)
(* concern that run only; OthersFrozen and EnvironmentFreezes do the rest.  *)

LEMMA StepsStep == TypeOK /\ StepsInv /\ [Next]_vars => StepsInv'
<1> SUFFICES ASSUME TypeOK, StepsInv, [Next]_vars, NEW q \in Runs
             PROVE  StepsOf(q)'
  BY DEF StepsInv
<1>1. /\ StepsOf(q)
      /\ pc \in [Runs -> Labels]
      /\ retries \in [Runs -> 0 .. MaxRetries]
      /\ steps \in [Runs -> Seq(StepNames)]
  BY DEF StepsInv, TypeOK
<1>2. \A s \in StepNames : Len(Append(steps[q], s)) = Len(steps[q]) + 1
  BY <1>1
<1>3. CASE Frozen(q) BY <1>1, <1>3 DEF StepsOf, Frozen
<1>4. CASE Act(q)
  <2> USE <1>1, <1>2 DEF Goto, Log, StepsOf, StepNames
  <2>1. CASE Start(q) \/ Raise(q) \/ Respond(q)
    BY <2>1 DEF Start, Raise, Respond, stateVars
  <2>2. CASE Route(q) BY <2>2 DEF Route
  <2>3. CASE RetrieveGraph(q) \/ RetrieveVector(q)
    <3>1. /\ pc[q] = "retrieve" /\ Goto(q, "generate") /\ UNCHANGED retries
          /\ Log(q, "graph") \/ Log(q, "vector")
      BY <2>3 DEF RetrieveGraph, RetrieveVector
    <3>. QED BY <3>1
  <2>4. CASE Generate(q) \/ Degrade(q)
    <3>1. /\ pc[q] = "generate" /\ Goto(q, "critique") /\ UNCHANGED retries
          /\ Log(q, "generate")
      BY <2>4 DEF Generate, Degrade
    <3>. QED BY <3>1
  <2>5. CASE Retry(q)
    <3>1. pc'[q] = "retrieve" /\ retries'[q] = retries[q] + 1
      BY <2>5 DEF Retry
    <3>2. Len(steps'[q]) = 3 + 3 * retries[q] + 1 BY <2>5 DEF Retry
    <3>3. retries[q] \in Nat OBVIOUS
    <3>. QED BY <3>1, <3>2, <3>3
  <2>6. CASE Finish(q) BY <2>6 DEF Finish
  <2>. QED BY <1>4, <2>1, <2>2, <2>3, <2>4, <2>5, <2>6 DEF Act, Run
<1>. QED BY <1>3, <1>4, OthersFrozen, EnvironmentFreezes, NextCases

LEMMA FallbackStep == TypeOK /\ StepsInv /\ FallbackInv /\ [Next]_vars => FallbackInv'
<1> SUFFICES ASSUME TypeOK, StepsInv, FallbackInv, [Next]_vars, NEW q \in Runs
             PROVE  (fallback[q] <=> retries[q] > 0)'
  BY DEF FallbackInv
<1>1. CASE Frozen(q) BY <1>1 DEF FallbackInv, Frozen
<1>2. CASE Act(q)
  <2>1. CASE Retry(q)
    BY <2>1 DEF Retry, TypeOK
  <2>2. CASE ~Retry(q)
    <3>1. UNCHANGED <<retries, fallback>>
      BY <1>2, <2>2 DEF Act, Run, Start, Raise, Route, RetrieveGraph,
                        RetrieveVector, Generate, Degrade, Finish, Respond,
                        stateVars
    <3>. QED BY <3>1 DEF FallbackInv
  <2>. QED BY <2>1, <2>2
<1>. QED BY <1>1, <1>2, OthersFrozen, EnvironmentFreezes, NextCases

LEMMA KnownStep == TypeOK /\ KnownInv /\ [Next]_vars => KnownInv'
<1> SUFFICES ASSUME TypeOK, KnownInv, [Next]_vars, NEW q \in Runs
             PROVE  known'[q] \subseteq indexed'
  BY DEF KnownInv
<1>1. indexed \subseteq indexed'
  BY DEF Next, Index, MoveWindow, Start, Raise, Run, Route, RetrieveGraph,
         RetrieveVector, Generate, Degrade, Retry, Finish, Respond, vars,
         storeVars
<1>2. CASE Start(q) BY <1>2 DEF Start, TypeOK, storeVars
<1>3. CASE ~Start(q)
  <2>1. known'[q] = known[q]
    <3>1. CASE Act(q)
      BY <1>3, <3>1 DEF Act, Run, Raise, Route, RetrieveGraph, RetrieveVector,
                        Generate, Degrade, Retry, Finish, Respond, inputVars
    <3>2. CASE Frozen(q) BY <3>2 DEF Frozen
    <3>. QED BY <3>1, <3>2, OthersFrozen, EnvironmentFreezes, NextCases
  <2>. QED BY <1>1, <2>1 DEF KnownInv
<1>. QED BY <1>2, <1>3

\* A vector search that finds nothing had nothing in scope to find.
LEMMA SearchFinds ==
  ASSUME NEW S, NEW found, Search(S, found), Cite("chunk", found) = {}
  PROVE  S = {}
<1>1. found = {}
  <2>1. \A c \in found : [kind |-> "chunk", contract |-> c] \in Cite("chunk", found)
    BY DEF Cite
  <2>. QED BY <2>1
<1>. QED BY <1>1 DEF Search

LEMMA EvidenceStep ==
  TypeOK /\ FallbackInv /\ KnownInv /\ EvidenceInv /\ [Next]_vars => EvidenceInv'
<1> SUFFICES ASSUME TypeOK, FallbackInv, KnownInv, EvidenceInv, [Next]_vars,
                    NEW q \in Runs
             PROVE  EvidenceOf(q)'
  BY DEF EvidenceInv
<1>1. EvidenceOf(q) BY DEF EvidenceInv
<1>2. CASE Frozen(q)
  BY <1>1, <1>2 DEF EvidenceOf, UseGraph, InScope, Frozen
<1>3. CASE Act(q)
  <2>1. CASE Start(q) \/ Raise(q) \/ Route(q) \/ Retry(q)
    <3>1. pc'[q] \in {"route", "failed", "retrieve"}
      BY <2>1 DEF Start, Raise, Route, Retry, Goto, TypeOK
    <3>. QED BY <3>1 DEF EvidenceOf
  <2>2. CASE RetrieveGraph(q)
    <3>1. pc'[q] = "generate" /\ UseGraph(q)'
      BY <2>2 DEF RetrieveGraph, UseGraph, Goto, TypeOK
    <3>. QED BY <3>1 DEF EvidenceOf
  <2>3. CASE RetrieveVector(q)
    <3>1. pc'[q] = "generate" /\ UNCHANGED <<scope, known>>
      BY <2>3 DEF RetrieveVector, Goto, TypeOK, inputVars
    <3>2. PICK found : Search(InScope(q, indexed), found)
                       /\ citations'[q] = Cite("chunk", found)
      BY <2>3 DEF RetrieveVector, TypeOK
    <3>3. citations'[q] = {} => InScope(q, indexed) = {}
      BY <3>2, SearchFinds
    <3>4. InScope(q, indexed) = {} => InScope(q, known[q]) = {}
      BY DEF KnownInv, InScope
    <3>. QED BY <3>1, <3>3, <3>4 DEF EvidenceOf, InScope
  <2>4. CASE Generate(q) \/ Degrade(q)
    <3>1. /\ pc[q] = "generate" /\ pc'[q] = "critique"
          /\ UNCHANGED <<target, fallback, citations, scope, known>>
      BY <2>4 DEF Generate, Degrade, Goto, TypeOK, inputVars
    <3>. QED BY <1>1, <3>1 DEF EvidenceOf, UseGraph, InScope
  <2>5. CASE Finish(q)
    <3>1. /\ pc[q] = "critique" /\ pc'[q] = "respond"
          /\ UNCHANGED <<target, fallback, citations, scope, known, retries>>
      BY <2>5 DEF Finish, Goto, TypeOK, inputVars
    <3>2. citations[q] = {} => retries[q] = MaxRetries
      BY <2>5 DEF Finish, CanRetry, TypeOK
    <3>. QED BY <1>1, <3>1, <3>2 DEF EvidenceOf, UseGraph, InScope
  <2>6. CASE Respond(q)
    <3>1. /\ pc[q] = "respond" /\ pc'[q] = "done"
          /\ UNCHANGED <<target, fallback, citations, scope, known, retries>>
      BY <2>6 DEF Respond, Goto, TypeOK, inputVars, stateVars
    <3>. QED BY <1>1, <3>1 DEF EvidenceOf, UseGraph, InScope
  <2>. QED BY <1>3, <2>1, <2>2, <2>3, <2>4, <2>5, <2>6 DEF Act, Run
<1>. QED BY <1>2, <1>3, OthersFrozen, EnvironmentFreezes, NextCases

LEMMA AnswerStep == TypeOK /\ AnswerInv /\ [Next]_vars => AnswerInv'
<1> SUFFICES ASSUME TypeOK, AnswerInv, [Next]_vars, NEW q \in Runs,
                    pc'[q] \in {"critique", "respond", "done"}
             PROVE  answer'[q] \in {NoAnswer, citations'[q]}
  BY DEF AnswerInv
<1>1. CASE Frozen(q) BY <1>1 DEF AnswerInv, Frozen
<1>2. CASE Act(q)
  <2>1. CASE Generate(q) \/ Degrade(q)
    BY <2>1 DEF Generate, Degrade, TypeOK
  <2>2. CASE Finish(q) \/ Respond(q)
    BY <2>2 DEF Finish, Respond, AnswerInv, TypeOK, stateVars
  <2>3. CASE \/ Start(q) \/ Raise(q) \/ Route(q) \/ Retry(q)
             \/ RetrieveGraph(q) \/ RetrieveVector(q)
    BY <2>3 DEF Start, Raise, Route, Retry, RetrieveGraph, RetrieveVector,
                Goto, TypeOK
  <2>. QED BY <1>2, <2>1, <2>2, <2>3 DEF Act, Run
<1>. QED BY <1>1, <1>2, OthersFrozen, EnvironmentFreezes, NextCases

\* What a step of a run appends, by the node that takes it.
LEMMA AppendAt ==
  ASSUME NEW s \in Seq(StepNames), NEW x \in StepNames,
         \A n \in 1 .. Len(s) : s[n] = "graph" => n = 2,
         x = "graph" => Len(s) = 1
  PROVE  \A n \in 1 .. Len(Append(s, x)) : Append(s, x)[n] = "graph" => n = 2
<1> TAKE n \in 1 .. Len(Append(s, x))
<1>1. /\ Len(Append(s, x)) = Len(s) + 1
      /\ Append(s, x)[n] = IF n <= Len(s) THEN s[n] ELSE x
  OBVIOUS
<1>2. Len(s) \in Nat OBVIOUS
<1>3. CASE n <= Len(s) BY <1>1, <1>2, <1>3
<1>4. CASE n = Len(s) + 1 BY <1>1, <1>2, <1>4
<1>. QED BY <1>1, <1>2, <1>3, <1>4

LEMMA GraphFirstStep ==
  TypeOK /\ StepsInv /\ FallbackInv /\ GraphAskedFirst /\ [Next]_vars
    => GraphAskedFirst'
<1> SUFFICES ASSUME TypeOK, StepsInv, FallbackInv, GraphAskedFirst,
                    [Next]_vars, NEW q \in Runs
             PROVE  \A n \in 1 .. Len(steps'[q]) : steps'[q][n] = "graph" => n = 2
  BY DEF GraphAskedFirst
<1>1. /\ steps \in [Runs -> Seq(StepNames)]
      /\ retries[q] \in 0 .. MaxRetries
  BY DEF TypeOK
<1>2. \A n \in 1 .. Len(steps[q]) : steps[q][n] = "graph" => n = 2
  BY DEF GraphAskedFirst
<1>3. CASE steps'[q] = steps[q] BY <1>2, <1>3
<1>4. CASE \E x \in StepNames :
             /\ steps'[q] = Append(steps[q], x)
             /\ x = "graph" => Len(steps[q]) = 1
  BY <1>1, <1>2, <1>4, AppendAt
<1>5. CASE Frozen(q) BY <1>3, <1>5 DEF Frozen
<1>6. CASE Act(q)
  <2>1. CASE Start(q) \/ Raise(q) \/ Respond(q)
    BY <1>3, <2>1 DEF Start, Raise, Respond, stateVars
  <2>2. CASE RetrieveGraph(q)
    <3>1. Len(steps[q]) = 1
      <4>1. pc[q] = "retrieve" /\ ~fallback[q]
        BY <2>2 DEF RetrieveGraph, UseGraph
      <4>2. retries[q] = 0 BY <1>1, <4>1 DEF FallbackInv
      <4>3. Len(steps[q]) = 1 + 3 * retries[q]
        BY <4>1 DEF StepsInv, StepsOf
      <4>. QED BY <4>2, <4>3
    <3>2. steps'[q] = Append(steps[q], "graph")
      BY <1>1, <2>2 DEF RetrieveGraph, Log
    <3>. QED BY <1>4, <3>1, <3>2 DEF StepNames
  <2>3. CASE \/ Route(q) \/ RetrieveVector(q) \/ Generate(q) \/ Degrade(q)
             \/ Retry(q) \/ Finish(q)
    <3>1. \E x \in StepNames \ {"graph"} : Log(q, x)
      BY <2>3 DEF Route, RetrieveVector, Generate, Degrade, Retry, Finish,
                  StepNames
    <3>. QED BY <1>1, <1>4, <3>1 DEF Log
  <2>. QED BY <1>6, <2>1, <2>2, <2>3 DEF Act, Run
<1>. QED BY <1>5, <1>6, OthersFrozen, EnvironmentFreezes, NextCases

LEMMA ChunksStep == TypeOK /\ ChunksInScope /\ [Next]_vars => ChunksInScope'
<1> SUFFICES ASSUME TypeOK, ChunksInScope, [Next]_vars, NEW q \in Runs,
                    NEW c \in citations'[q], c.kind = "chunk",
                    scope'[q] # NoScope
             PROVE  c.contract = scope'[q]
  BY DEF ChunksInScope
<1>1. CASE UNCHANGED <<citations, scope>> BY <1>1 DEF ChunksInScope
<1>2. CASE Frozen(q) BY <1>2 DEF ChunksInScope, Frozen
<1>3. CASE Act(q)
  <2>1. CASE RetrieveGraph(q)
    <3>1. citations'[q] \subseteq Cite("graph", expiring)
      BY <2>1 DEF RetrieveGraph, TypeOK
    <3>2. c.kind = "graph" BY <3>1 DEF Cite
    <3>. QED BY <3>2
  <2>2. CASE RetrieveVector(q)
    <3>1. PICK found : found \subseteq InScope(q, indexed)
                       /\ citations'[q] = Cite("chunk", found)
      BY <2>2 DEF RetrieveVector, Search, TypeOK
    <3>2. c.contract \in InScope(q, indexed) BY <3>1 DEF Cite
    <3>3. scope' = scope BY <2>2 DEF RetrieveVector, inputVars
    <3>. QED BY <3>2, <3>3 DEF InScope
  <2>3. CASE ~RetrieveGraph(q) /\ ~RetrieveVector(q)
    <3>1. UNCHANGED <<citations, scope>>
      BY <1>3, <2>3 DEF Act, Run, Start, Raise, Route, Generate, Degrade,
                        Retry, Finish, Respond, inputVars, stateVars
    <3>. QED BY <1>1, <3>1
  <2>. QED BY <2>1, <2>2, <2>3
<1>. QED BY <1>2, <1>3, OthersFrozen, EnvironmentFreezes, NextCases

----------------------------------------------------------------------------
(* The invariant, and what follows from it.                                *)

LEMMA InitIInv == Init => IInv
<1> SUFFICES ASSUME Init PROVE IInv
  OBVIOUS
<1>1. TypeOK BY InitTypeOK
<1>2. StepsInv BY DEF Init, StepsInv, StepsOf
<1>3. FallbackInv
  <2>1. \A r \in Runs : fallback[r] = FALSE /\ retries[r] = 0 BY DEF Init
  <2>2. ~(0 > 0) OBVIOUS
  <2>. QED BY <2>1, <2>2 DEF FallbackInv
<1>4. KnownInv BY DEF Init, KnownInv
<1>5. EvidenceInv /\ AnswerInv
  BY DEF Init, EvidenceInv, EvidenceOf, AnswerInv
<1>6. GraphAskedFirst BY DEF Init, GraphAskedFirst
<1>7. ChunksInScope BY DEF Init, ChunksInScope
<1>. QED BY <1>1, <1>2, <1>3, <1>4, <1>5, <1>6, <1>7 DEF IInv

LEMMA NextIInv == IInv /\ [Next]_vars => IInv'
BY TypeStep, StepsStep, FallbackStep, KnownStep, EvidenceStep, AnswerStep,
   GraphFirstStep, ChunksStep DEF IInv

\* The invariant of the graph of /agent holds for any number of runs and
\* retries, and any contents of the stores.
THEOREM Invariance == Spec => []IInv
BY InitIInv, NextIInv, PTL DEF Spec

\* The retry edge of _should_retry cannot make a run loop: it executes at
\* most four nodes and three more for each allowed retry.
THEOREM BoundedRuns == Spec => []RunIsBounded
<1>1. IInv => RunIsBounded
  <2> SUFFICES ASSUME IInv, NEW q \in Runs
               PROVE  Len(steps[q]) <= 4 + 3 * MaxRetries
    BY DEF RunIsBounded
  <2>1. StepsOf(q) BY DEF IInv, StepsInv
  <2>2. pc[q] \in Labels /\ retries[q] \in 0 .. MaxRetries
        /\ steps[q] \in Seq(StepNames)
    BY DEF IInv, TypeOK
  <2>3. Len(steps[q]) \in Nat /\ Len(<<>>) = 0 BY <2>2
  <2>4. retries[q] \in Nat /\ MaxRetries \in Nat /\ retries[q] <= MaxRetries
    BY <2>2, ConstantsAssumption
  <2>5. Len(steps[q]) <= 4 + 3 * retries[q]
    BY <2>1, <2>2, <2>3, <2>4 DEF StepsOf, Labels, Nodes, Ended
  <2>. QED BY <2>3, <2>4, <2>5
<1>. QED BY <1>1, Invariance, PTL

\* _generate_node overwrites the answer on every pass: a response never
\* carries an answer to citations that a retry has replaced.
THEOREM AnswersFit == Spec => []AnswerFitsCitations
<1>1. IInv => AnswerFitsCitations
  BY DEF IInv, AnswerInv, AnswerFitsCitations
<1>. QED BY <1>1, Invariance, PTL

\* With a retry allowed, a response without citations means that nothing in
\* its scope was indexed when the run started.
THEOREM EvidenceNotMissed == Spec => []NoMissedEvidence
<1>1. IInv => NoMissedEvidence
  <2> SUFFICES ASSUME IInv, NEW q \in Runs, pc[q] = "done",
                      citations[q] = {}, MaxRetries > 0
               PROVE  InScope(q, known[q]) = {}
    BY DEF NoMissedEvidence
  <2>1. EvidenceOf(q) BY DEF IInv, EvidenceInv
  <2>2. retries[q] = MaxRetries BY <2>1 DEF EvidenceOf
  <2>3. fallback[q] BY <2>2 DEF IInv, FallbackInv
  <2>. QED BY <2>1, <2>3 DEF EvidenceOf, UseGraph
<1>. QED BY <1>1, Invariance, PTL

\* _critique_node sets graph_fallback for good: _retrieve_node asks the graph
\* in the first pass or never.
THEOREM GraphFirst == Spec => []GraphAskedFirst
<1>1. IInv => GraphAskedFirst BY DEF IInv
<1>. QED BY <1>1, Invariance, PTL

\* The contract id of a scoped call reaches the vector filter on every pass.
THEOREM ChunksStayInScope == Spec => []ChunksInScope
<1>1. IInv => ChunksInScope BY DEF IInv
<1>. QED BY <1>1, Invariance, PTL

====
