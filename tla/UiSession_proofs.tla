---- MODULE UiSession_proofs ----
(***************************************************************************)
(* Proofs about UiSession, for every number of sessions, uploads, ids and  *)
(* acts of the users.  The invariant UiInv is inductive: one lemma for     *)
(* each action, in it one step for each part that the action disturbs.     *)
(***************************************************************************)
EXTENDS UiSession, FiniteSetTheorems, TLAPS

USE UiAssumption

LEMMA TabsOrder ==
  /\ Len(Tabs) = 5 /\ Idle = 6
  /\ \A n \in 1 .. 5 :
       /\ Tabs[n] = "overview" <=> n = 1
       /\ Tabs[n] = "extract" <=> n = 2
       /\ Tabs[n] \in {"overview", "extract", "ask", "agent", "graph"}
BY DEF Tabs, Idle

LEMMA InitUi == Init => UiInv
<1> SUFFICES ASSUME Init PROVE UiInv OBVIOUS
<1> USE DEF Init, RegInit, NoScope
<1>1. TypeOK BY TabsOrder DEF TypeOK
<1>2. CallInv BY <1>1 DEF CallInv, CallOf, FateOf, At, TypeOK
<1>3. ServerInv BY DEF ServerInv
<1>4. PageInv BY DEF PageInv
<1>5. PressInv BY DEF PressInv, Pending
<1>6. IdIsLatestTold
  <2>1. \A s \in Sessions, n \in 1 .. MaxUploads : <<s, n>> \in Uploads
    OBVIOUS
  <2>. QED BY <2>1 DEF IdIsLatestTold, Told
<1>7. AnswersMatchId BY DEF AnswersMatchId
<1>. QED BY <1>1, <1>2, <1>3, <1>4, <1>5, <1>6, <1>7 DEF UiInv

----------------------------------------------------------------------------
(* Streamlit.                                                              *)

LEMMA ActStep ==
  ASSUME UiInv, NEW s \in Sessions, NEW w \in Widgets, Act(s, w)
  PROVE  UiInv'
<1> USE DEF UiInv
<1> UNCHANGED <<tab, pressed, net, payload, shown, contractId, uploads, fate,
                handler, regVars>>
  BY DEF Act
<1>1. TypeOK'
  <2>1. acted' \in [Sessions -> SUBSET Widgets] BY DEF TypeOK, Act
  <2>2. acts' \in [Sessions -> [all : Nat, extract : Nat]]
    <3> DEFINE e == acts[s].extract + (IF w = "extract" THEN 1 ELSE 0)
               r == [all |-> acts[s].all + 1, extract |-> e]
    <3>1. acts[s].all \in Nat /\ e \in Nat /\ acts[s] \in [all : Nat, extract : Nat]
      BY DEF TypeOK
    <3>2. acts' = [acts EXCEPT ![s] = r]
      BY <3>1 DEF Act, TypeOK
    <3>3. r \in [all : Nat, extract : Nat] BY <3>1
    <3> HIDE DEF r
    <3>. QED BY <3>2, <3>3 DEF TypeOK
  <2>. QED BY <2>1, <2>2 DEF TypeOK, regVars
<1>2. CallInv' BY DEF CallInv, CallOf, FateOf, At, Last
<1>3. ServerInv' BY DEF ServerInv, regVars
<1>4. PageInv' BY DEF PageInv
<1>5. PressInv'
  <2> SUFFICES ASSUME NEW q \in Sessions
               PROVE  (uploads[q] + Pending(q) <= acts[q].extract)'
    BY DEF PressInv
  <2>1. CASE q = s BY <2>1 DEF PressInv, Pending, TypeOK, Act
  <2>2. CASE q # s BY <2>2 DEF PressInv, Pending, TypeOK, Act
  <2>. QED BY <2>1, <2>2
<1>6. IdIsLatestTold' BY DEF IdIsLatestTold, Told, regVars
<1>7. AnswersMatchId' BY DEF AnswersMatchId
<1>. QED BY <1>1, <1>2, <1>3, <1>4, <1>5, <1>6, <1>7

LEMMA RerunStep ==
  ASSUME UiInv, NEW s \in Sessions, Rerun(s)
  PROVE  UiInv'
<1> USE DEF UiInv, NoScope
<1> UNCHANGED <<acts, contractId, uploads, handler, regVars>>
  BY DEF Rerun
<1>0. /\ fate' \in [Uploads ->
             {"unsent", "awaited", "told", "error", "dropped"}]
      /\ \A u \in Uploads :
           fate'[u] = IF u[1] = s /\ fate[u] = "awaited" THEN "dropped" ELSE fate[u]
  BY DEF Rerun, Drop, TypeOK
<1>t. /\ tab' \in [Sessions -> 0 .. Idle] /\ net' \in [Sessions -> {"no", "waiting", "ok", "error"}]
      /\ payload' \in [Sessions -> [ticked : BOOLEAN, scope : Ids \union {None}]]
      /\ tab'[s] = 0 /\ net'[s] = "no"
      /\ \A q \in Sessions \ {s} : UNCHANGED <<tab[q], net[q], payload[q]>>
  BY TabsOrder DEF TypeOK, Rerun
<1>1. TypeOK'
  <2>1. pressed' \in [Sessions -> SUBSET Buttons] BY DEF TypeOK, Rerun, Down
  <2>2. acted' \in [Sessions -> SUBSET Widgets] BY DEF TypeOK, Rerun
  <2>3. shown' \in [Sessions -> SUBSET [ticked : BOOLEAN, scope : Ids \union {None}]]
    BY DEF TypeOK, Rerun
  <2>. QED BY <1>0, <1>t, <2>1, <2>2, <2>3 DEF TypeOK, regVars
<1>2. CallInv'
  <2>1. ASSUME NEW q \in Sessions PROVE CallOf(q)'
    <3>1. CASE q = s BY <3>1, <1>t DEF CallOf, At
    <3>2. CASE q # s
      <4>1. CallOf(q) /\ UNCHANGED <<tab[q], net[q], Last(q)>>
        BY <3>2, <1>t DEF CallInv, Last
      <4>2. At(q, "extract") => /\ Last(q) \in Uploads
                                /\ fate'[Last(q)] = fate[Last(q)]
        BY <4>1, <3>2, <1>0 DEF CallOf, Last, TypeOK
      <4>. QED BY <4>1, <4>2 DEF CallOf, At
    <3>. QED BY <3>1, <3>2
  <2>2. ASSUME NEW u \in Uploads PROVE FateOf(u)'
    <3>1. FateOf(u) /\ u[1] \in Sessions BY DEF CallInv
    <3>2. CASE u[1] = s BY <3>1, <3>2, <1>0 DEF FateOf
    <3>3. CASE u[1] # s BY <3>1, <3>3, <1>0, <1>t DEF FateOf, At, Last
    <3>. QED BY <3>2, <3>3
  <2>. QED BY <2>1, <2>2 DEF CallInv
<1>3. ServerInv' BY DEF ServerInv, regVars
<1>4. PageInv' BY DEF PageInv, Rerun, TypeOK
<1>5. PressInv'
  <2> SUFFICES ASSUME NEW q \in Sessions
               PROVE  (uploads[q] + Pending(q) <= acts[q].extract)'
    BY DEF PressInv
  <2>1. CASE q = s
    <3>1. /\ "extract" \in pressed'[s] <=> "extract" \in acted[s]
          /\ "extract" \notin acted'[s] /\ tab'[s] = 0
      BY DEF TypeOK, Rerun, Down, Buttons
    <3>2. /\ uploads[s] \in Nat /\ acts[s].extract \in Nat
          /\ uploads[s] + Pending(s) <= acts[s].extract
      BY DEF PressInv, TypeOK
    <3>. QED BY <2>1, <3>1, <3>2 DEF Pending
  <2>2. CASE q # s BY <2>2 DEF PressInv, Pending, TypeOK, Rerun
  <2>. QED BY <2>1, <2>2
<1>6. IdIsLatestTold'
  <2>1. \A q \in Sessions : Told(q)' = Told(q)
    BY <1>0 DEF Told
  <2>. QED BY <2>1 DEF IdIsLatestTold, regVars
<1>7. AnswersMatchId' BY DEF AnswersMatchId, Rerun, TypeOK
<1>. QED BY <1>1, <1>2, <1>3, <1>4, <1>5, <1>6, <1>7

----------------------------------------------------------------------------
(* The tabs.                                                               *)

\* What a call does to the page, whatever tab sends it.
LEMMA SendMoves ==
  ASSUME TypeOK, CallInv, NEW s \in Sessions, NEW name,
         NEW p \in [ticked : BOOLEAN, scope : Ids \union {None}],
         Send(s, name, p)
  PROVE  /\ tab' \in [Sessions -> 0 .. Idle] /\ tab'[s] \in 1 .. 5
         /\ tab[s] < tab'[s] /\ Tabs[tab'[s]] = name
         /\ net' \in [Sessions -> {"no", "waiting", "ok", "error"}]
         /\ net'[s] = "waiting" /\ net[s] = "no"
         /\ payload' \in [Sessions -> [ticked : BOOLEAN, scope : Ids \union {None}]]
         /\ payload'[s] = p
         /\ \A q \in Sessions \ {s} : UNCHANGED <<tab[q], net[q], payload[q]>>
<1>1. PICK n \in Ahead(s) : Tabs[n] = name /\ tab' = [tab EXCEPT ![s] = n]
  BY DEF Send
<1>2. n \in 1 .. 5 /\ tab[s] < n
  <2>1. tab[s] \in 0 .. 6 BY TabsOrder DEF TypeOK
  <2>2. CASE tab[s] = 0 BY <2>2 DEF Ahead
  <2>3. CASE tab[s] # 0 BY <2>1, <2>3, TabsOrder DEF Ahead
  <2>. QED BY <2>2, <2>3
<1>. QED BY <1>1, <1>2, TabsOrder DEF Send, TypeOK

\* A question, or a look at the server's health.
AskStep(s) == FetchHealth(s) \/ PostQuestion(s) \/ PostGraphQuestion(s)

LEMMA AskSends ==
  ASSUME TypeOK, NEW s \in Sessions, AskStep(s)
  PROVE  /\ \E name \in {"overview", "ask", "agent", "graph"},
               p \in [ticked : BOOLEAN, scope : Ids \union {None}] :
               Send(s, name, p) /\ (p.ticked => p.scope = contractId[s])
         /\ UNCHANGED <<uploads, fate, handler>>
<1>1. NoScope \in [ticked : BOOLEAN, scope : Ids \union {None}] /\ ~NoScope.ticked
  BY DEF NoScope
<1>2. CASE FetchHealth(s) BY <1>1, <1>2 DEF FetchHealth
<1>3. CASE PostGraphQuestion(s) BY <1>1, <1>3 DEF PostGraphQuestion
<1>4. CASE PostQuestion(s)
  <2>1. PICK name \in {"ask", "agent"} \intersect pressed[s], ticked \in BOOLEAN :
          Send(s, name, [ticked |-> ticked,
                         scope |-> IF ticked THEN contractId[s] ELSE None])
    BY <1>4 DEF PostQuestion
  <2> DEFINE p == [ticked |-> ticked,
                   scope |-> IF ticked THEN contractId[s] ELSE None]
  <2>2. /\ p \in [ticked : BOOLEAN, scope : Ids \union {None}]
        /\ p.ticked => p.scope = contractId[s]
    BY DEF TypeOK
  <2>3. Send(s, name, p) BY <2>1
  <2>4. UNCHANGED <<uploads, fate, handler>> BY <1>4 DEF PostQuestion
  <2>5. name \in {"overview", "ask", "agent", "graph"} OBVIOUS
  <2> HIDE DEF p
  <2>. QED BY <2>2, <2>3, <2>4, <2>5
<1>. QED BY <1>2, <1>3, <1>4 DEF AskStep

LEMMA AskStepKeeps ==
  ASSUME UiInv, NEW s \in Sessions, AskStep(s)
  PROVE  UiInv'
<1> USE DEF UiInv
<1>0. PICK name \in {"overview", "ask", "agent", "graph"},
           p \in [ticked : BOOLEAN, scope : Ids \union {None}] :
             Send(s, name, p) /\ (p.ticked => p.scope = contractId[s])
  BY AskSends
<1> UNCHANGED <<uploads, fate, handler>>
  BY AskSends
<1> UNCHANGED <<pressed, acted, acts, shown, contractId, regVars>>
  BY <1>0 DEF Send
<1>t. /\ tab' \in [Sessions -> 0 .. Idle] /\ tab'[s] \in 1 .. 5
      /\ tab[s] < tab'[s] /\ Tabs[tab'[s]] = name
      /\ net' \in [Sessions -> {"no", "waiting", "ok", "error"}]
      /\ net'[s] = "waiting" /\ net[s] = "no"
      /\ payload' \in [Sessions -> [ticked : BOOLEAN, scope : Ids \union {None}]]
      /\ payload'[s] = p
      /\ \A q \in Sessions \ {s} : UNCHANGED <<tab[q], net[q], payload[q]>>
  BY <1>0, SendMoves
<1>1. TypeOK' BY <1>t DEF TypeOK, regVars
<1>2. CallInv'
  <2>1. ~At(s, "extract")' /\ tab'[s] \in 1 .. Len(Tabs)
    BY <1>t, TabsOrder DEF At
  <2>2. ~At(s, "extract") BY <1>t DEF At
  <2>3. \A q \in Sessions : At(q, "extract")' <=> At(q, "extract")
    BY <1>t, <2>1, <2>2 DEF At
  <2>4. \A q \in Sessions : CallOf(q)'
    BY <1>t, <2>1, <2>2, <2>3 DEF CallInv, CallOf, Last, At
  <2>5. \A u \in Uploads : FateOf(u)'
    BY <2>3 DEF CallInv, FateOf, Last
  <2>. QED BY <2>4, <2>5 DEF CallInv
<1>3. ServerInv' BY DEF ServerInv, regVars
<1>i. tab[s] \in Nat /\ tab'[s] \in Nat BY <1>t DEF TypeOK
<1>4. PageInv'
  <2> SUFFICES ASSUME NEW q \in Sessions
               PROVE  /\ payload'[q].ticked => payload'[q].scope = contractId'[q]
                      /\ shown'[q] # {} => tab'[q] > 2
    BY DEF PageInv
  <2>1. CASE q = s BY <2>1, <1>0, <1>t, <1>i DEF PageInv
  <2>2. CASE q # s BY <2>2, <1>t DEF PageInv
  <2>. QED BY <2>1, <2>2
<1>5. PressInv'
  <2> SUFFICES ASSUME NEW q \in Sessions
               PROVE  (uploads[q] + Pending(q) <= acts[q].extract)'
    BY DEF PressInv
  <2>1. CASE q = s BY <2>1, <1>t, <1>i DEF PressInv, Pending, TypeOK
  <2>2. CASE q # s BY <2>2, <1>t DEF PressInv, Pending, TypeOK
  <2>. QED BY <2>1, <2>2
<1>6. IdIsLatestTold' BY DEF IdIsLatestTold, Told, regVars
<1>7. AnswersMatchId' BY DEF AnswersMatchId
<1>. QED BY <1>1, <1>2, <1>3, <1>4, <1>5, <1>6, <1>7

LEMMA PostExtractStep ==
  ASSUME UiInv, NEW s \in Sessions, PostExtract(s)
  PROVE  UiInv'
<1> USE DEF UiInv
<1> DEFINE k == uploads[s] + 1
           u0 == <<s, k>>
<1>0. Send(s, "extract", NoScope) /\ NoScope \in [ticked : BOOLEAN, scope : Ids \union {None}]
  BY DEF PostExtract, NoScope
<1> UNCHANGED <<pressed, acted, acts, shown, contractId, regVars>>
  BY <1>0 DEF Send
<1>t. /\ tab' \in [Sessions -> 0 .. Idle] /\ tab'[s] = 2
      /\ tab[s] < 2
      /\ net' \in [Sessions -> {"no", "waiting", "ok", "error"}]
      /\ net'[s] = "waiting" /\ net[s] = "no"
      /\ payload' \in [Sessions -> [ticked : BOOLEAN, scope : Ids \union {None}]]
      /\ payload'[s] = NoScope
      /\ \A q \in Sessions \ {s} : UNCHANGED <<tab[q], net[q], payload[q]>>
  BY <1>0, SendMoves, TabsOrder
<1>u. /\ uploads[s] \in Nat /\ k \in 1 .. MaxUploads /\ u0 \in Uploads
      /\ uploads' = [uploads EXCEPT ![s] = k]
      /\ fate' = [fate EXCEPT ![u0] = "awaited"]
      /\ handler' = [handler EXCEPT ![u0] = "running"]
      /\ uploads'[s] = k
  BY DEF PostExtract, TypeOK
<1>v. fate[u0] = "unsent" /\ handler[u0] = "idle" /\ acted[s] = {}
  BY <1>0, <1>u DEF CallInv, FateOf, Send
<1> HIDE DEF u0
<1>1. TypeOK' BY <1>t, <1>u DEF TypeOK, regVars
<1>2. CallInv'
  <2>1. ASSUME NEW q \in Sessions
        PROVE  (net[q] # "no" => tab[q] \in 1 .. Len(Tabs))'
    <3>1. CASE q = s BY <3>1, <1>t, TabsOrder
    <3>2. CASE q # s BY <3>2, <1>t DEF CallInv, CallOf
    <3>. QED BY <3>1, <3>2
  <2>2. \A q \in Sessions : q # s /\ At(q, "extract")' =>
          /\ At(q, "extract") /\ Last(q)' = Last(q) /\ Last(q) # u0
    BY <1>t, <1>u DEF At, Last, TypeOK, u0
  <2>3. /\ At(s, "extract")' /\ Last(s)' = u0 /\ net'[s] = "waiting"
    BY <1>t, <1>u, TabsOrder DEF At, Last, u0
  <2>4. ASSUME NEW q \in Sessions PROVE CallOf(q)'
    <3> SUFFICES ASSUME At(q, "extract")'
                 PROVE /\ uploads'[q] > 0
                       /\ fate'[Last(q)'] = "awaited"
                       /\ net'[q] = "ok" => handler'[Last(q)'] = "answered"
      BY <2>1 DEF CallOf
    <3>1. CASE q = s BY <3>1, <2>3, <1>u DEF TypeOK
    <3>2. CASE q # s
      <4>1. /\ uploads[q] > 0 /\ uploads'[q] = uploads[q]
            /\ Last(q) \in Uploads /\ fate[Last(q)] = "awaited"
            /\ net[q] = "ok" => handler[Last(q)] = "answered"
        <5>1. CallOf(q) /\ At(q, "extract") BY <3>2, <2>2 DEF CallInv
        <5>2. uploads[q] \in 1 .. MaxUploads /\ uploads'[q] = uploads[q]
          <6>1. uploads[q] \in 0 .. MaxUploads /\ uploads[q] > 0
            BY <5>1 DEF CallOf, TypeOK
          <6>2. uploads'[q] = uploads[q] BY <3>2, <1>u DEF TypeOK
          <6>. QED BY <6>1, <6>2
        <5>. QED BY <5>1, <5>2 DEF CallOf, Last
      <4>. QED BY <3>2, <4>1, <2>2, <1>t, <1>u DEF TypeOK
    <3>. QED BY <3>1, <3>2
  <2>5. ASSUME NEW u \in Uploads PROVE FateOf(u)'
    <3>1. CASE u = u0
      BY <3>1, <1>u, <2>3 DEF FateOf, u0, TypeOK
    <3>2. CASE u # u0 /\ u[1] # s
      <4>1. fate'[u] = fate[u] /\ handler'[u] = handler[u] /\ u[1] \in Sessions
            /\ uploads'[u[1]] = uploads[u[1]] /\ tab'[u[1]] = tab[u[1]]
            /\ net'[u[1]] = net[u[1]]
        BY <3>2, <1>u, <1>t DEF TypeOK
      <4>. QED BY <4>1, <3>2 DEF CallInv, FateOf, At, Last
    <3>3. CASE u # u0 /\ u[1] = s
      <4>1. fate'[u] = fate[u] /\ handler'[u] = handler[u] /\ u[2] \in 1 .. MaxUploads
            /\ u = <<s, u[2]>> /\ u[2] # k
        BY <3>3, <1>u, <1>t DEF TypeOK, u0
      <4>2. fate[u] # "awaited"
        BY <1>t, <3>3 DEF CallInv, FateOf, At
      <4>3. fate[u] = "unsent" <=> u[2] > uploads[s] BY <3>3 DEF CallInv, FateOf
      <4>4. u[2] > uploads[s] <=> u[2] > k BY <4>1, <1>u
      <4>5. fate[u] = "unsent" => handler[u] = "idle" BY DEF CallInv, FateOf
      <4>. QED BY <4>1, <4>2, <4>3, <4>4, <4>5, <3>3, <1>u DEF FateOf
    <3>. QED BY <3>1, <3>2, <3>3
  <2>. QED BY <2>1, <2>4, <2>5 DEF CallInv
<1>3. ServerInv'
  <2>1. \A u \in Uploads : handler'[u] = handler[u] \/
          (handler[u] = "idle" /\ handler'[u] = "running")
    BY <1>u, <1>v DEF TypeOK
  <2>. QED BY <2>1 DEF ServerInv, regVars
<1>4. PageInv'
  <2> SUFFICES ASSUME NEW q \in Sessions
               PROVE  /\ payload'[q].ticked => payload'[q].scope = contractId'[q]
                      /\ shown'[q] # {} => tab'[q] > 2
    BY DEF PageInv
  <2>1. CASE q = s
    <3>1. tab[s] \in Nat BY DEF TypeOK
    <3>. QED BY <2>1, <3>1, <1>t DEF PageInv, NoScope
  <2>2. CASE q # s BY <2>2, <1>t DEF PageInv
  <2>. QED BY <2>1, <2>2
<1>5. PressInv'
  <2> SUFFICES ASSUME NEW q \in Sessions
               PROVE  (uploads[q] + Pending(q) <= acts[q].extract)'
    BY DEF PressInv
  <2>1. CASE q = s
    BY <2>1, <1>t, <1>u, <1>v DEF PressInv, Pending, TypeOK, PostExtract
  <2>2. CASE q # s BY <2>2, <1>t, <1>u DEF PressInv, Pending, TypeOK
  <2>. QED BY <2>1, <2>2
<1>6. IdIsLatestTold'
  <2>1. \A u \in Uploads : fate'[u] = "told" <=> fate[u] = "told"
    BY <1>u, <1>v DEF TypeOK
  <2>2. \A q \in Sessions : Told(q)' = Told(q)
    BY <2>1 DEF Told
  <2>. QED BY <2>2 DEF IdIsLatestTold, regVars
<1>7. AnswersMatchId' BY DEF AnswersMatchId
<1>. QED BY <1>1, <1>2, <1>3, <1>4, <1>5, <1>6, <1>7

LEMMA FinishStep ==
  ASSUME UiInv, NEW s \in Sessions, FinishRun(s)
  PROVE  UiInv'
<1> USE DEF UiInv
<1> UNCHANGED <<acted, net, payload, shown, acts, contractId,
                uploads, fate, handler, regVars>>
  BY DEF FinishRun
<1>1. TypeOK' BY TabsOrder DEF TypeOK, FinishRun, regVars
<1>2. CallInv'
  <2>1. net[s] = "no" /\ \A q \in Sessions \ {s} : tab'[q] = tab[q]
    BY DEF FinishRun, TypeOK
  <2>2. \A q \in Sessions : At(q, "extract")' <=> At(q, "extract")
    BY <2>1 DEF At
  <2>3. \A q \in Sessions : CallOf(q)'
    BY <2>1, <2>2 DEF CallInv, CallOf, Last
  <2>4. \A u \in Uploads : FateOf(u)'
    BY <2>2 DEF CallInv, FateOf, Last
  <2>. QED BY <2>3, <2>4 DEF CallInv
<1>3. ServerInv' BY DEF ServerInv, regVars
<1>4. PageInv' BY TabsOrder DEF PageInv, FinishRun, TypeOK
<1>5. PressInv' BY TabsOrder DEF PressInv, Pending, FinishRun, TypeOK
<1>6. IdIsLatestTold' BY DEF IdIsLatestTold, Told, regVars
<1>7. AnswersMatchId' BY DEF AnswersMatchId
<1>. QED BY <1>1, <1>2, <1>3, <1>4, <1>5, <1>6, <1>7

LEMMA ReturnStep ==
  ASSUME UiInv, NEW s \in Sessions, ReturnResponse(s) \/ ReturnError(s)
  PROVE  UiInv'
<1> USE DEF UiInv
<1>0. /\ UNCHANGED <<tab, pressed, acted, payload, shown, acts, contractId,
                     uploads, fate, handler, regVars>>
      /\ net[s] = "waiting"
      /\ \/ net' = [net EXCEPT ![s] = "error"]
         \/ /\ net' = [net EXCEPT ![s] = "ok"]
            /\ At(s, "extract") => handler[Last(s)] = "answered"
  BY DEF ReturnResponse, ReturnError, Returns
<1>1. TypeOK' BY <1>0 DEF TypeOK, regVars
<1>2. CallInv'
  <2>1. /\ net' \in [Sessions -> {"no", "waiting", "ok", "error"}]
        /\ net'[s] \in {"ok", "error"} /\ net'[s] = "ok" => ReturnResponse(s)
        /\ \A q \in Sessions \ {s} : net'[q] = net[q]
    BY <1>0 DEF TypeOK, ReturnResponse, ReturnError, Returns
  <2>2. \A q \in Sessions : (net'[q] # "no" <=> net[q] # "no") /\
                            (At(q, "extract")' <=> At(q, "extract"))
    BY <1>0, <2>1 DEF At
  <2>3. \A q \in Sessions : CallOf(q)'
    BY <1>0, <2>1, <2>2 DEF CallInv, CallOf, Last, ReturnResponse
  <2>4. \A u \in Uploads : FateOf(u)'
    BY <1>0, <2>2 DEF CallInv, FateOf, Last
  <2>. QED BY <2>3, <2>4 DEF CallInv
<1>3. ServerInv' BY <1>0 DEF ServerInv, regVars
<1>4. PageInv' BY <1>0 DEF PageInv
<1>5. PressInv' BY <1>0 DEF PressInv, Pending
<1>6. IdIsLatestTold' BY <1>0 DEF IdIsLatestTold, Told, regVars
<1>7. AnswersMatchId' BY <1>0 DEF AnswersMatchId
<1>. QED BY <1>1, <1>2, <1>3, <1>4, <1>5, <1>6, <1>7

----------------------------------------------------------------------------
(* The end of a call.                                                      *)

\* The call of s ends; an upload that was waited for gets a fate r.
LEMMA EndKeepsCalls ==
  ASSUME TypeOK, CallInv, NEW s \in Sessions, net[s] # "no",
         Ends(s), UNCHANGED <<tab, uploads, handler>>,
         NEW r \in {"told", "error"},
         fate' = IF At(s, "extract") THEN [fate EXCEPT ![Last(s)] = r] ELSE fate
  PROVE  /\ CallInv'
         /\ At(s, "extract") => Last(s) \in Uploads /\ fate[Last(s)] = "awaited"
         /\ fate' \in [Uploads -> {"unsent", "awaited", "told", "error", "dropped"}]
         /\ net' \in [Sessions -> {"no", "waiting", "ok", "error"}]
         /\ payload' \in [Sessions -> [ticked : BOOLEAN, scope : Ids \union {None}]]
         /\ payload'[s] = NoScope
         /\ \A q \in Sessions \ {s} : payload'[q] = payload[q]
<1>1. At(s, "extract") => Last(s) \in Uploads /\ fate[Last(s)] = "awaited"
  <2>1. uploads[s] \in 0 .. MaxUploads BY DEF TypeOK
  <2>2. At(s, "extract") => uploads[s] > 0 /\ fate[Last(s)] = "awaited"
    BY DEF CallInv, CallOf
  <2>. QED BY <2>1, <2>2 DEF Last
<1>2. /\ fate' \in [Uploads -> {"unsent", "awaited", "told", "error", "dropped"}]
      /\ \A u \in Uploads : fate'[u] =
           IF At(s, "extract") /\ u = Last(s) THEN r ELSE fate[u]
  BY <1>1 DEF TypeOK
<1>3. /\ net' \in [Sessions -> {"no", "waiting", "ok", "error"}] /\ net'[s] = "no"
      /\ \A q \in Sessions \ {s} : net'[q] = net[q]
  BY DEF Ends, TypeOK
<1>4. /\ payload' \in [Sessions -> [ticked : BOOLEAN, scope : Ids \union {None}]]
      /\ payload'[s] = NoScope
      /\ \A q \in Sessions \ {s} : payload'[q] = payload[q]
  BY DEF Ends, TypeOK, NoScope
<1>5. ASSUME NEW q \in Sessions PROVE CallOf(q)'
  <2>1. CASE q = s BY <2>1, <1>3 DEF CallOf, At
  <2>2. CASE q # s
    <3>1. CallOf(q) /\ UNCHANGED <<net[q], Last(q)>>
      BY <2>2, <1>3 DEF CallInv, Last
    <3>2. At(q, "extract")' <=> At(q, "extract") BY <3>1 DEF At
    <3>3. At(q, "extract") => Last(q) \in Uploads /\ Last(q) # Last(s)
      <4>1. uploads[q] \in 0 .. MaxUploads BY DEF TypeOK
      <4>. QED BY <3>1, <4>1, <2>2 DEF CallOf, Last
    <3>. QED BY <3>1, <3>2, <3>3, <1>2 DEF CallOf
  <2>. QED BY <2>1, <2>2
<1>6. ASSUME NEW u \in Uploads PROVE FateOf(u)'
  <2>1. FateOf(u) /\ u[1] \in Sessions BY DEF CallInv
  <2>2. CASE u[1] # s BY <2>1, <2>2, <1>2, <1>3 DEF FateOf, At, Last
  <2>3. CASE u[1] = s /\ At(s, "extract") /\ u = Last(s)
    <3>1. fate'[u] = r /\ fate[u] = "awaited" BY <2>3, <1>1, <1>2
    <3>. QED BY <2>1, <3>1 DEF FateOf
  <2>4. CASE u[1] = s /\ ~(At(s, "extract") /\ u = Last(s))
    <3>1. fate'[u] = fate[u] /\ fate[u] # "awaited"
      BY <2>1, <2>4, <1>2 DEF FateOf
    <3>. QED BY <2>1, <3>1 DEF FateOf
  <2>. QED BY <2>2, <2>3, <2>4
<1>. QED BY <1>1, <1>2, <1>3, <1>4, <1>5, <1>6 DEF CallInv

LEMMA ShowContractStep ==
  ASSUME UiInv, NEW s \in Sessions, ShowContract(s)
  PROVE  UiInv'
<1> USE DEF UiInv
<1> UNCHANGED <<tab, pressed, acted, shown, acts, uploads, handler, regVars>>
  BY DEF ShowContract
<1>0. At(s, "extract") /\ net[s] = "ok" /\ Ends(s)
      /\ fate' = [fate EXCEPT ![Last(s)] = "told"]
  BY DEF ShowContract
<1>e. /\ CallInv'
      /\ Last(s) \in Uploads /\ fate[Last(s)] = "awaited"
      /\ fate' \in [Uploads -> {"unsent", "awaited", "told", "error", "dropped"}]
      /\ net' \in [Sessions -> {"no", "waiting", "ok", "error"}]
      /\ payload' \in [Sessions -> [ticked : BOOLEAN, scope : Ids \union {None}]]
      /\ payload'[s] = NoScope
      /\ \A q \in Sessions \ {s} : payload'[q] = payload[q]
  BY <1>0, EndKeepsCalls
<1>i. PICK i \in Ids : registered[i] = Last(s)
                       /\ contractId' = [contractId EXCEPT ![s] = i]
  BY DEF ShowContract, Response
<1>1. TypeOK' BY <1>e, <1>i DEF TypeOK, regVars
<1>p. shown[s] = {}
  BY <1>0, <1>e, TabsOrder DEF PageInv, At, CallInv, CallOf
<1>3. ServerInv' BY DEF ServerInv, regVars
<1>4. PageInv' BY <1>e, <1>i, <1>p DEF PageInv, NoScope, TypeOK
<1>5. PressInv' BY DEF PressInv, Pending
<1>6. IdIsLatestTold'
  <2>1. uploads[s] \in 1 .. MaxUploads BY <1>e DEF Last, TypeOK
  <2>2. Told(s)' = Told(s) \union {uploads[s]}
    <3>1. \A n \in 1 .. MaxUploads : <<s, n>> \in Uploads /\
            (<<s, n>> = Last(s) <=> n = uploads[s]) BY DEF Last
    <3>. QED BY <3>1, <2>1, <1>0, <1>e DEF Told, TypeOK
  <2>3. \A m \in Told(s)' : m <= uploads[s]
    <3>1. \A m \in Told(s) : ~(m > uploads[s]) /\ m \in Nat
      <4>1. \A m \in 1 .. MaxUploads : <<s, m>> \in Uploads /\ FateOf(<<s, m>>)
        BY DEF CallInv
      <4>. QED BY <4>1 DEF FateOf, Told
    <3>. QED BY <3>1, <2>1, <2>2
  <2>4. i \in confirmed
    <3>1. handler[Last(s)] = "answered" BY <1>0 DEF CallInv, CallOf
    <3>2. PICK j \in confirmed : registered[j] = Last(s)
      BY <3>1, <1>e DEF ServerInv
    <3>3. j \in Ids /\ Last(s) # None BY <1>e DEF TypeOK
    <3>. QED BY <1>i, <3>2, <3>3 DEF ServerInv
  <2> SUFFICES ASSUME NEW q \in Sessions
      PROVE (IF Told(q) = {} THEN contractId[q] = None
             ELSE /\ contractId[q] \in confirmed
                  /\ \E n \in Told(q) :
                       /\ registered[contractId[q]] = <<q, n>>
                       /\ \A m \in Told(q) : m <= n)'
    BY DEF IdIsLatestTold
  <2>5. CASE q = s
    <3>1. contractId'[s] = i /\ registered'[i] = <<s, uploads[s]>> /\ i \in confirmed'
      BY <1>i, <2>4 DEF TypeOK, Last, regVars
    <3>. QED BY <3>1, <2>2, <2>3, <2>5
  <2>6. CASE q # s
    <3>1. Told(q)' = Told(q)
      <4>1. \A n \in 1 .. MaxUploads : <<q, n>> \in Uploads /\ <<q, n>> # Last(s)
        BY <2>6 DEF Last
      <4>. QED BY <4>1, <1>0 DEF Told, TypeOK
    <3>2. contractId'[q] = contractId[q] BY <1>i, <2>6 DEF TypeOK
    <3>. QED BY <3>1, <3>2 DEF IdIsLatestTold, regVars
  <2>. QED BY <2>5, <2>6
<1>7. AnswersMatchId'
  BY <1>p, <1>i DEF AnswersMatchId, TypeOK
<1>. QED BY <1>1, <1>e, <1>3, <1>4, <1>5, <1>6, <1>7

LEMMA ShowAnswerStep ==
  ASSUME UiInv, NEW s \in Sessions, ShowAnswer(s)
  PROVE  UiInv'
<1> USE DEF UiInv
<1> UNCHANGED <<tab, pressed, acted, acts, contractId, uploads, fate, handler, regVars>>
  BY DEF ShowAnswer
<1>0. net[s] = "ok" /\ ~At(s, "extract") /\ Ends(s)
  BY DEF ShowAnswer
<1>e. /\ CallInv'
      /\ net' \in [Sessions -> {"no", "waiting", "ok", "error"}]
      /\ payload' \in [Sessions -> [ticked : BOOLEAN, scope : Ids \union {None}]]
      /\ payload'[s] = NoScope
      /\ \A q \in Sessions \ {s} : payload'[q] = payload[q]
  BY <1>0, EndKeepsCalls
<1>s. /\ shown' \in [Sessions -> SUBSET [ticked : BOOLEAN, scope : Ids \union {None}]]
      /\ \A q \in Sessions \ {s} : shown'[q] = shown[q]
      /\ shown'[s] \subseteq shown[s] \union {payload[s]}
      /\ shown'[s] = shown[s] \/ ~At(s, "overview")
  BY DEF ShowAnswer, TypeOK
<1>1. TypeOK' BY <1>e, <1>s DEF TypeOK, regVars
<1>3. ServerInv' BY DEF ServerInv, regVars
<1>4. PageInv'
  <2>1. shown'[s] # shown[s] => tab[s] > 2
    <3>1. tab[s] \in 1 .. 5 BY <1>0, TabsOrder DEF CallInv, CallOf
    <3>2. ~At(s, "overview") => tab[s] # 1 /\ tab[s] # 2
      BY <1>0, <3>1, TabsOrder DEF At
    <3>. QED BY <1>s, <3>1, <3>2
  <2>. QED BY <2>1, <1>e, <1>s DEF PageInv, NoScope
<1>5. PressInv' BY DEF PressInv, Pending
<1>6. IdIsLatestTold' BY DEF IdIsLatestTold, Told, regVars
<1>7. AnswersMatchId'
  BY <1>s DEF AnswersMatchId, PageInv
<1>. QED BY <1>1, <1>e, <1>3, <1>4, <1>5, <1>6, <1>7

LEMMA ShowErrorStep ==
  ASSUME UiInv, NEW s \in Sessions, ShowError(s)
  PROVE  UiInv'
<1> USE DEF UiInv
<1> UNCHANGED <<tab, pressed, acted, shown, acts, contractId, uploads, handler, regVars>>
  BY DEF ShowError
<1>0. /\ net[s] = "error" /\ Ends(s)
      /\ fate' = IF At(s, "extract") THEN [fate EXCEPT ![Last(s)] = "error"] ELSE fate
  BY DEF ShowError
<1>e. /\ CallInv'
      /\ At(s, "extract") => Last(s) \in Uploads /\ fate[Last(s)] = "awaited"
      /\ fate' \in [Uploads -> {"unsent", "awaited", "told", "error", "dropped"}]
      /\ net' \in [Sessions -> {"no", "waiting", "ok", "error"}]
      /\ payload' \in [Sessions -> [ticked : BOOLEAN, scope : Ids \union {None}]]
      /\ payload'[s] = NoScope
      /\ \A q \in Sessions \ {s} : payload'[q] = payload[q]
  BY <1>0, EndKeepsCalls
<1>1. TypeOK' BY <1>e DEF TypeOK, regVars
<1>3. ServerInv' BY DEF ServerInv, regVars
<1>4. PageInv' BY <1>e DEF PageInv, NoScope
<1>5. PressInv' BY DEF PressInv, Pending
<1>6. IdIsLatestTold'
  <2>1. \A u \in Uploads : fate'[u] = "told" <=> fate[u] = "told"
    BY <1>0, <1>e DEF TypeOK
  <2>2. \A q \in Sessions : Told(q)' = Told(q) BY <2>1 DEF Told
  <2>. QED BY <2>2 DEF IdIsLatestTold, regVars
<1>7. AnswersMatchId' BY DEF AnswersMatchId
<1>. QED BY <1>1, <1>e, <1>3, <1>4, <1>5, <1>6, <1>7

----------------------------------------------------------------------------
(* The server.                                                             *)

\* It moves one upload on, which was sent; the page does not notice.
LEMMA HandlesKeeps ==
  ASSUME UiInv, NEW u \in Uploads, NEW from \in SUBSET {"running", "saved"},
         NEW to \in {"saved", "answered", "failed"}, Handles(u, from, to)
  PROVE  /\ CallInv' /\ PageInv' /\ PressInv' /\ AnswersMatchId'
         /\ UNCHANGED <<runVars, acts, contractId, uploads, fate>>
         /\ handler' \in [Uploads -> {"idle", "running", "saved", "answered", "failed"}]
         /\ handler[u] \in from
         /\ \A v \in Uploads : handler'[v] = IF v = u THEN to ELSE handler[v]
<1> USE DEF UiInv
<1> UNCHANGED <<tab, pressed, acted, net, payload, shown, acts, contractId,
                uploads, fate>>
  BY DEF Handles, runVars
<1>1. /\ handler' \in [Uploads -> {"idle", "running", "saved", "answered", "failed"}]
      /\ handler[u] \in from
      /\ \A v \in Uploads : handler'[v] = IF v = u THEN to ELSE handler[v]
  BY DEF Handles, TypeOK
<1>2. handler[u] \in {"running", "saved"} BY <1>1
<1>3. CallInv'
  <2>1. ASSUME NEW q \in Sessions PROVE CallOf(q)'
    <3>1. CallOf(q) BY DEF CallInv
    <3>2. At(q, "extract") => Last(q) \in Uploads
      <4>1. uploads[q] \in 0 .. MaxUploads BY DEF TypeOK
      <4>. QED BY <3>1, <4>1 DEF CallOf, Last
    <3>. QED BY <3>1, <3>2, <1>1, <1>2 DEF CallOf, At, Last
  <2>2. ASSUME NEW v \in Uploads PROVE FateOf(v)'
    <3>1. FateOf(v) BY DEF CallInv
    <3>. QED BY <3>1, <1>1, <1>2 DEF FateOf, At, Last
  <2>. QED BY <2>1, <2>2 DEF CallInv
<1>4. PageInv' /\ PressInv' /\ AnswersMatchId'
  BY DEF PageInv, PressInv, Pending, AnswersMatchId
<1>. QED BY <1>1, <1>3, <1>4 DEF runVars

LEMMA SaveStep ==
  ASSUME UiInv, NEW u \in Uploads, NEW i \in Ids, Save(u, i)
  PROVE  UiInv'
<1> USE DEF UiInv
<1>1. Register(i, u) /\ Handles(u, {"running"}, "saved") BY DEF Save
<1>2. /\ registered[i] = None /\ registered' \in [Ids -> Uploads \union {None}]
      /\ \A j \in Ids : registered'[j] = IF j = i THEN u ELSE registered[j]
      /\ UNCHANGED <<searchable, confirmed>>
  BY <1>1 DEF Register, TypeOK
<1>3. /\ CallInv' /\ PageInv' /\ PressInv' /\ AnswersMatchId'
      /\ UNCHANGED <<runVars, acts, contractId, uploads, fate>>
      /\ handler' \in [Uploads -> {"idle", "running", "saved", "answered", "failed"}]
      /\ handler[u] = "running"
      /\ \A v \in Uploads : handler'[v] = IF v = u THEN "saved" ELSE handler[v]
  BY <1>1, HandlesKeeps
<1>4. TypeOK' BY <1>2, <1>3 DEF TypeOK, runVars
<1>5. ServerInv'
  <2>1. \A j \in Ids : registered[j] # u BY <1>3 DEF ServerInv
  <2>2. ASSUME NEW v \in Uploads
        PROVE /\ handler'[v] \in {"idle", "running", "failed"} =>
                   \A j \in Ids : registered'[j] # v
              /\ handler'[v] = "answered" => \E j \in confirmed' : registered'[j] = v
    <3>1. handler[v] = "answered" => \E j \in confirmed : j \in Ids /\ j # i /\ registered[j] = v
      BY <1>2 DEF ServerInv, TypeOK
    <3>. QED BY <1>2, <1>3, <3>1 DEF ServerInv
  <2>3. \A j, k \in Ids : registered'[j] = registered'[k] /\ registered'[j] # None => j = k
    BY <2>1, <1>2 DEF ServerInv
  <2>. QED BY <2>2, <2>3 DEF ServerInv
<1>6. IdIsLatestTold'
  <2>1. \A q \in Sessions : Told(q)' = Told(q) BY <1>3 DEF Told
  <2>2. ASSUME NEW q \in Sessions, Told(q) # {}
        PROVE  contractId[q] \in Ids /\ contractId[q] # i
               /\ registered'[contractId[q]] = registered[contractId[q]]
    <3>1. contractId[q] \in Ids BY <2>2 DEF IdIsLatestTold, TypeOK
    <3>2. \A n \in Told(q) : <<q, n>> # None BY DEF Told
    <3>. QED BY <3>1, <3>2, <2>2, <1>2 DEF IdIsLatestTold
  <2> SUFFICES ASSUME NEW q \in Sessions
      PROVE (IF Told(q) = {} THEN contractId[q] = None
             ELSE /\ contractId[q] \in confirmed
                  /\ \E n \in Told(q) :
                       /\ registered[contractId[q]] = <<q, n>>
                       /\ \A m \in Told(q) : m <= n)'
    BY DEF IdIsLatestTold
  <2>3. Told(q)' = Told(q) /\ contractId'[q] = contractId[q] BY <2>1, <1>3
  <2>4. CASE Told(q) = {} BY <2>3, <2>4 DEF IdIsLatestTold
  <2>5. CASE Told(q) # {} BY <2>2, <2>3, <2>5, <1>2 DEF IdIsLatestTold
  <2>. QED BY <2>4, <2>5
<1>. QED BY <1>3, <1>4, <1>5, <1>6

LEMMA AnswerStep ==
  ASSUME UiInv, NEW u \in Uploads, NEW i \in Ids, Answer(u, i)
  PROVE  UiInv'
<1> USE DEF UiInv
<1>1. registered[i] = u /\ Confirm(i) /\ Handles(u, {"saved"}, "answered")
  BY DEF Answer
<1>2. /\ confirmed' = confirmed \union {i}
      /\ UNCHANGED <<registered, searchable>>
  BY <1>1 DEF Confirm
<1>3. /\ CallInv' /\ PageInv' /\ PressInv' /\ AnswersMatchId'
      /\ UNCHANGED <<runVars, acts, contractId, uploads, fate>>
      /\ handler' \in [Uploads -> {"idle", "running", "saved", "answered", "failed"}]
      /\ \A v \in Uploads : handler'[v] = IF v = u THEN "answered" ELSE handler[v]
  <2> DEFINE from == {"saved"}
  <2>1. from \in SUBSET {"running", "saved"} OBVIOUS
  <2>2. "answered" \in {"saved", "answered", "failed"} OBVIOUS
  <2>3. Handles(u, from, "answered") BY <1>1
  <2>4. handler[u] \in from => handler[u] = "saved" OBVIOUS
  <2> HIDE DEF from
  <2>. QED BY <2>1, <2>2, <2>3, <2>4, HandlesKeeps
<1>4. TypeOK' BY <1>2, <1>3 DEF TypeOK, runVars
<1>5. ServerInv' BY <1>1, <1>2, <1>3 DEF ServerInv
<1>6. IdIsLatestTold' BY <1>2, <1>3 DEF IdIsLatestTold, Told
<1>. QED BY <1>3, <1>4, <1>5, <1>6

LEMMA FailStep ==
  ASSUME UiInv, NEW u \in Uploads, Fail(u)
  PROVE  UiInv'
<1> USE DEF UiInv
<1>1. Handles(u, {"running"}, "failed") /\ UNCHANGED regVars BY DEF Fail
<1>3. /\ CallInv' /\ PageInv' /\ PressInv' /\ AnswersMatchId'
      /\ UNCHANGED <<runVars, acts, contractId, uploads, fate>>
      /\ handler' \in [Uploads -> {"idle", "running", "saved", "answered", "failed"}]
      /\ handler[u] = "running"
      /\ \A v \in Uploads : handler'[v] = IF v = u THEN "failed" ELSE handler[v]
  <2> DEFINE from == {"running"}
  <2>1. from \in SUBSET {"running", "saved"} OBVIOUS
  <2>2. "failed" \in {"saved", "answered", "failed"} OBVIOUS
  <2>3. Handles(u, from, "failed") BY <1>1
  <2>4. handler[u] \in from => handler[u] = "running" OBVIOUS
  <2> HIDE DEF from
  <2>. QED BY <2>1, <2>2, <2>3, <2>4, HandlesKeeps
<1>4. TypeOK' BY <1>1, <1>3 DEF TypeOK, runVars, regVars
<1>5. ServerInv' BY <1>1, <1>3 DEF ServerInv, regVars
<1>6. IdIsLatestTold' BY <1>1, <1>3 DEF IdIsLatestTold, Told, regVars
<1>. QED BY <1>3, <1>4, <1>5, <1>6

----------------------------------------------------------------------------

LEMMA StepUi == UiInv /\ [Next]_vars => UiInv'
<1> SUFFICES ASSUME UiInv, [Next]_vars PROVE UiInv' OBVIOUS
<1>1. CASE UNCHANGED vars
  <2> UNCHANGED <<tab, pressed, acted, acts, net, payload, contractId, shown,
                  uploads, fate, handler, registered, searchable, confirmed>>
    BY <1>1 DEF vars, runVars, regVars
  <2> USE DEF UiInv
  <2>1. TypeOK' BY DEF TypeOK
  <2>2. CallInv' BY DEF CallInv, CallOf, FateOf, At, Last
  <2>3. ServerInv' BY DEF ServerInv
  <2>4. PageInv' /\ AnswersMatchId' BY DEF PageInv, AnswersMatchId
  <2>5. PressInv' BY DEF PressInv, Pending
  <2>6. IdIsLatestTold' BY DEF IdIsLatestTold, Told
  <2>. QED BY <2>1, <2>2, <2>3, <2>4, <2>5, <2>6
<1>2. CASE \E s \in Sessions : Rerun(s) \/ Tab(s) \/ \E w \in Widgets : Act(s, w)
  BY <1>2, RerunStep, ActStep, AskStepKeeps, PostExtractStep, FinishStep,
     ReturnStep, ShowContractStep, ShowAnswerStep, ShowErrorStep
     DEF Tab, AskStep
<1>3. CASE Server BY <1>3, SaveStep, AnswerStep, FailStep DEF Server
<1>. QED BY <1>1, <1>2, <1>3 DEF Next

LEMMA UiInvariant == Spec => []UiInv
<1>1. Init => UiInv BY InitUi
<1>2. UiInv /\ [Next]_vars => UiInv' BY StepUi
<1>. QED BY <1>1, <1>2, PTL DEF Spec

\* The variables stay within their types: every session, upload and id of any
\* finite or infinite number of them.
THEOREM TypeCorrect == Spec => []TypeOK
<1>1. UiInv => TypeOK BY DEF UiInv
<1>. QED BY <1>1, UiInvariant, PTL

\* The id a session keeps is the one of the latest upload it was told of,
\* whatever timed out, failed or was dropped by a rerun (app.py _extract_tab).
THEOREM IdSafe == Spec => []IdIsLatestTold
<1>1. UiInv => IdIsLatestTold BY DEF UiInv
<1>. QED BY <1>1, UiInvariant, PTL

\* An answer on the page that was restricted to the last contract is about the
\* contract whose id the session still keeps (app.py _ask_tab, _agent_tab).
THEOREM AnswersSafe == Spec => []AnswersMatchId
<1>1. UiInv => AnswersMatchId BY DEF UiInv
<1>. QED BY <1>1, UiInvariant, PTL

\* A session has at most as many rows as uploads sent, and it sent at most as
\* many as its user pressed Extract.
LEMMA RowsCounted == UiInv => RowsWithinPresses
<1> SUFFICES ASSUME UiInv, NEW s \in Sessions
    PROVE Cardinality({u \in Uploads : u[1] = s /\ \E i \in Ids : registered[i] = u})
            <= acts[s].extract
  BY DEF RowsWithinPresses
<1> DEFINE Rows == {u \in Uploads : u[1] = s /\ \E i \in Ids : registered[i] = u}
           f == [n \in 1 .. uploads[s] |-> <<s, n>>]
           Sent == {<<s, n>> : n \in 1 .. uploads[s]}
<1>1. uploads[s] \in Nat /\ uploads[s] <= acts[s].extract /\ acts[s].extract \in Nat
  <2>1. uploads[s] \in Nat /\ acts[s].extract \in Nat BY DEF UiInv, TypeOK
  <2>2. Pending(s) \in Nat BY DEF Pending
  <2>3. uploads[s] + Pending(s) <= acts[s].extract BY DEF UiInv, PressInv
  <2>. QED BY <2>1, <2>2, <2>3
<1>2. Rows \subseteq Sent
  <2> SUFFICES ASSUME NEW u \in Rows PROVE u \in Sent OBVIOUS
  <2>1. u \in Uploads /\ u = <<s, u[2]>> /\ u[2] \in 1 .. MaxUploads OBVIOUS
  <2>2. handler[u] # "idle" BY DEF UiInv, ServerInv
  <2>3. ~(u[2] > uploads[s]) BY <2>1, <2>2 DEF UiInv, CallInv, FateOf
  <2>. QED BY <2>1, <2>3, <1>1
<1>3. IsFiniteSet(1 .. uploads[s]) /\ Cardinality(1 .. uploads[s]) = uploads[s]
  <2>1. 1 \in Int /\ uploads[s] \in Int BY <1>1
  <2>2. IsFiniteSet(1 .. uploads[s]) BY <2>1, FS_Interval
  <2>3. CASE 1 > uploads[s]
    <3>1. uploads[s] = 0 BY <2>3, <1>1
    <3>. QED BY <2>1, <2>2, <2>3, <3>1, FS_Interval
  <2>4. CASE ~(1 > uploads[s])
    <3>1. uploads[s] - 1 + 1 = uploads[s] BY <1>1
    <3>. QED BY <2>1, <2>2, <2>4, <3>1, FS_Interval
  <2>. QED BY <2>3, <2>4
<1>4. f \in Surjection(1 .. uploads[s], Sent)
  BY DEF Surjection
<1>5. IsFiniteSet(Sent) /\ Cardinality(Sent) <= uploads[s]
  BY <1>3, <1>4, FS_Surjection
<1>6. Cardinality(Rows) <= Cardinality(Sent) /\ IsFiniteSet(Rows)
  BY <1>2, <1>5, FS_Subset
<1>7. Cardinality(Sent) \in Nat /\ Cardinality(Rows) \in Nat
  BY <1>5, <1>6, FS_CardinalityType
<1>. QED BY <1>1, <1>5, <1>6, <1>7

\* Neither a rerun nor a timeout makes a session's contracts more than the
\* presses of Extract.
THEOREM RowsSafe == Spec => []RowsWithinPresses
<1>. QED BY RowsCounted, UiInvariant, PTL

====
