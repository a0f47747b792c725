---- MODULE UiSession ----
(***************************************************************************)
(* The Streamlit page (ui/app.py, ui/contract_client.py) and the upload    *)
(* endpoint, of which only the register of Registry is kept.  Streamlit    *)
(* runs the page from top to bottom whenever the user acts on a widget,    *)
(* one run per session at a time.  What the user does in the meantime is   *)
(* collected: it ends the run at its next call of Streamlit, never inside  *)
(* an HTTP call, and it is the input of the next run.  A button is down    *)
(* for one run; what lasts is st.session_state.                            *)
(***************************************************************************)
EXTENDS Registry, Naturals, FiniteSets, Sequences

CONSTANTS
  Sessions,    \* the browser sessions
  MaxUploads,  \* bound: uploads sent by a session
  MaxActs      \* bound: acts of the user of each session

ASSUME UiAssumption ==
  /\ MaxUploads \in Nat /\ MaxActs \in [Sessions -> Nat]
  /\ Uploads = Sessions \X (1 .. MaxUploads)
  /\ None \notin Ids \union Uploads

\* Faulty variant: the tab that asks is built before the one that extracts.
TabsAskFirst == <<"overview", "ask", "extract", "agent", "graph">>

\* The tabs that call the API, in the order in which main builds them.
Tabs == <<"overview", "extract", "ask", "agent", "graph">>

Idle == Len(Tabs) + 1

Buttons == {"extract", "ask", "agent", "graph"}
Widgets == Buttons \union {"other"}   \* a text field, a checkbox, the file

VARIABLES
  tab,         \* the tab of the last call of a session's run, or Idle
  pressed,     \* the buttons that are down in this run
  acted,       \* the widgets acted on since it began
  acts,        \* how often the user acted, and how often on Extract
  net,         \* the HTTP call of this tab: no, waiting, ok, error
  payload,     \* is the call restricted, and to which contract_id
  contractId,  \* st.session_state["contract_id"], or None
  shown,       \* the payloads of the answers that are on the page
  uploads,     \* how many uploads the session sent
  fate,        \* what the session made of an upload
  handler      \* how far the server is with an upload

runVars == <<tab, pressed, acted, net, payload, shown>>
vars == <<runVars, acts, contractId, uploads, fate, handler, regVars>>

NoScope == [ticked |-> FALSE, scope |-> None]

Init ==
  /\ RegInit
  /\ tab = [s \in Sessions |-> 0]
  /\ pressed = [s \in Sessions |-> {}] /\ acted = [s \in Sessions |-> {}]
  /\ acts = [s \in Sessions |-> [all |-> 0, extract |-> 0]]
  /\ net = [s \in Sessions |-> "no"]
  /\ payload = [s \in Sessions |-> NoScope]
  /\ contractId = [s \in Sessions |-> None]
  /\ shown = [s \in Sessions |-> {}]
  /\ uploads = [s \in Sessions |-> 0]
  /\ fate = [u \in Uploads |-> "unsent"]
  /\ handler = [u \in Uploads |-> "idle"]

\* The tab whose call is in flight, and the tabs that are still to be built.
At(s, name) == net[s] # "no" /\ Tabs[tab[s]] = name
Ahead(s) == IF tab[s] = 0 THEN {1} ELSE tab[s] + 1 .. Len(Tabs)

Last(s) == <<s, uploads[s]>>

----------------------------------------------------------------------------
(* Streamlit.                                                              *)

Act(s, w) ==
  /\ acts[s].all < MaxActs[s]
  /\ acts' = [acts EXCEPT ![s] =
       [all |-> @.all + 1, extract |-> @.extract + (IF w = "extract" THEN 1 ELSE 0)]]
  /\ acted' = [acted EXCEPT ![s] = @ \union {w}]
  /\ UNCHANGED <<tab, pressed, net, payload, shown, contractId, uploads, fate,
                 handler, regVars>>

\* The result of a call that has just returned is lost with the run.
Drop(s) == [u \in Uploads |->
  IF u[1] = s /\ fate[u] = "awaited" THEN "dropped" ELSE fate[u]]

\* Faulty variant: the buttons of the run that is dropped stay down.
DownStill(s) == pressed[s] \union (acted[s] \intersect Buttons)

Down(s) == acted[s] \intersect Buttons

Rerun(s) ==
  /\ acted[s] # {} /\ net[s] # "waiting"
  /\ tab' = [tab EXCEPT ![s] = 0]
  /\ pressed' = [pressed EXCEPT ![s] = Down(s)]
  /\ acted' = [acted EXCEPT ![s] = {}]
  /\ net' = [net EXCEPT ![s] = "no"]
  /\ payload' = [payload EXCEPT ![s] = NoScope]
  /\ shown' = [shown EXCEPT ![s] = {}]
  /\ fate' = Drop(s)
  /\ UNCHANGED <<acts, contractId, uploads, handler, regVars>>

----------------------------------------------------------------------------
(* The tabs.  The overview calls the API in every run, the others when     *)
(* their button is down and their input is there.                          *)

\* The tabs in between are built without a call.
Send(s, name, p) ==
  /\ acted[s] = {} /\ net[s] = "no"
  /\ \E n \in Ahead(s) : Tabs[n] = name /\ tab' = [tab EXCEPT ![s] = n]
  /\ net' = [net EXCEPT ![s] = "waiting"]
  /\ payload' = [payload EXCEPT ![s] = p]
  /\ UNCHANGED <<pressed, acted, acts, shown, contractId, regVars>>

FetchHealth(s) ==
  /\ Send(s, "overview", NoScope)
  /\ UNCHANGED <<uploads, fate, handler>>

PostExtract(s) ==
  /\ "extract" \in pressed[s]
  /\ uploads[s] < MaxUploads
  /\ Send(s, "extract", NoScope)
  /\ uploads' = [uploads EXCEPT ![s] = @ + 1]
  /\ fate' = [fate EXCEPT ![<<s, uploads'[s]>>] = "awaited"]
  /\ handler' = [handler EXCEPT ![<<s, uploads'[s]>>] = "running"]

\* A scope of None is left out of the request, which then means all contracts.
PostQuestion(s) ==
  /\ \E name \in {"ask", "agent"} \intersect pressed[s], ticked \in BOOLEAN :
       Send(s, name, [ticked |-> ticked,
                      scope |-> IF ticked THEN contractId[s] ELSE None])
  /\ UNCHANGED <<uploads, fate, handler>>

PostGraphQuestion(s) ==
  /\ "graph" \in pressed[s]
  /\ Send(s, "graph", NoScope)
  /\ UNCHANGED <<uploads, fate, handler>>

\* The tabs that are left have no button down, or no file, question or task.
FinishRun(s) ==
  /\ tab[s] \in 1 .. Len(Tabs)
  /\ acted[s] = {} /\ net[s] = "no"
  /\ tab' = [tab EXCEPT ![s] = Idle]
  /\ pressed' = [pressed EXCEPT ![s] = {}]
  /\ UNCHANGED <<acted, net, payload, shown, acts, contractId,
                 uploads, fate, handler, regVars>>

Returns(s, result) ==
  /\ net[s] = "waiting"
  /\ net' = [net EXCEPT ![s] = result]
  /\ UNCHANGED <<tab, pressed, acted, payload, shown, acts, contractId,
                 uploads, fate, handler, regVars>>

ReturnResponse(s) ==
  /\ Returns(s, "ok")
  /\ IF At(s, "extract") THEN handler[Last(s)] = "answered" ELSE TRUE

\* Faulty variant: no timeout, an extraction is waited for.
ReturnRefused(s) ==
  /\ Returns(s, "error")
  /\ IF At(s, "extract") THEN handler[Last(s)] = "failed" ELSE TRUE

\* A timeout, a connection that fails, or a status that is not a success.
ReturnError(s) == Returns(s, "error")

Ends(s) ==
  /\ net' = [net EXCEPT ![s] = "no"]
  /\ payload' = [payload EXCEPT ![s] = NoScope]

\* Faulty variant: any extraction of this session that the server confirmed.
AnyResponse(s, i) == i \in confirmed /\ registered[i][1] = s

\* The contract of the response to the upload that is waited for.
Response(s, i) == registered[i] = Last(s)

ShowContract(s) ==
  /\ At(s, "extract") /\ acted[s] = {} /\ net[s] = "ok"
  /\ \E i \in Ids :
       /\ Response(s, i)
       /\ contractId' = [contractId EXCEPT ![s] = i]
  /\ fate' = [fate EXCEPT ![Last(s)] = "told"]
  /\ Ends(s)
  /\ UNCHANGED <<tab, pressed, acted, shown, acts, uploads, handler,
                 regVars>>

ShowAnswer(s) ==
  /\ acted[s] = {} /\ net[s] = "ok" /\ ~At(s, "extract")
  /\ shown' = IF At(s, "overview") THEN shown
              ELSE [shown EXCEPT ![s] = @ \union {payload[s]}]
  /\ Ends(s)
  /\ UNCHANGED <<tab, pressed, acted, acts, contractId, uploads, fate,
                 handler, regVars>>

\* Only the tab ends: the next one is built.
ShowError(s) ==
  /\ acted[s] = {} /\ net[s] = "error"
  /\ Ends(s)
  /\ fate' = IF At(s, "extract") THEN [fate EXCEPT ![Last(s)] = "error"] ELSE fate
  /\ UNCHANGED <<tab, pressed, acted, shown, acts, contractId, uploads,
                 handler, regVars>>

----------------------------------------------------------------------------
(* The server, which does not notice that a client has given up.           *)

Handles(u, from, to) ==
  /\ handler[u] \in from
  /\ handler' = [handler EXCEPT ![u] = to]
  /\ UNCHANGED <<runVars, acts, contractId, uploads, fate>>

Save(u, i) == Register(i, u) /\ Handles(u, {"running"}, "saved")

Answer(u, i) ==
  /\ registered[i] = u
  /\ Confirm(i)
  /\ Handles(u, {"saved"}, "answered")

Fail(u) == Handles(u, {"running"}, "failed") /\ UNCHANGED regVars

----------------------------------------------------------------------------

Tab(s) ==
  \/ FetchHealth(s) \/ PostExtract(s) \/ PostQuestion(s) \/ PostGraphQuestion(s)
  \/ FinishRun(s)
  \/ ReturnResponse(s) \/ ReturnError(s)
  \/ ShowContract(s) \/ ShowAnswer(s) \/ ShowError(s)

Server == \E u \in Uploads :
  \/ \E i \in Ids : Save(u, i) \/ Answer(u, i)
  \/ Fail(u)

Next ==
  \/ \E s \in Sessions : Rerun(s) \/ Tab(s) \/ \E w \in Widgets : Act(s, w)
  \/ Server

\* Streamlit keeps running the page, and every call of httpx ends, if only by
\* its timeout; nothing is asked of the server or of the user.
Spec ==
  /\ Init /\ [][Next]_vars
  /\ \A s \in Sessions : WF_vars(Rerun(s) \/ Tab(s))

----------------------------------------------------------------------------
(* Properties.                                                             *)

TypeOK ==
  /\ tab \in [Sessions -> 0 .. Idle]
  /\ pressed \in [Sessions -> SUBSET Buttons]
  /\ acted \in [Sessions -> SUBSET Widgets]
  /\ acts \in [Sessions -> [all : Nat, extract : Nat]]
  /\ net \in [Sessions -> {"no", "waiting", "ok", "error"}]
  /\ payload \in [Sessions -> [ticked : BOOLEAN, scope : Ids \union {None}]]
  /\ contractId \in [Sessions -> Ids \union {None}]
  /\ shown \in [Sessions -> SUBSET [ticked : BOOLEAN, scope : Ids \union {None}]]
  /\ uploads \in [Sessions -> 0 .. MaxUploads]
  /\ fate \in [Uploads -> {"unsent", "awaited", "told", "error", "dropped"}]
  /\ handler \in [Uploads ->
       {"idle", "running", "saved", "answered", "failed"}]
  /\ registered \in [Ids -> Uploads \union {None}]
  /\ searchable \subseteq Ids /\ confirmed \subseteq Ids

Told(s) == {n \in 1 .. MaxUploads : fate[<<s, n>>] = "told"}

\* The id a session keeps is the one the server confirmed for the latest of
\* its own uploads that it was told of, whatever became of earlier and later
\* ones: timed out and saved all the same, failed, or dropped by a rerun.
IdIsLatestTold ==
  \A s \in Sessions :
    IF Told(s) = {} THEN contractId[s] = None
    ELSE /\ contractId[s] \in confirmed
         /\ \E n \in Told(s) :
              /\ registered[contractId[s]] = <<s, n>>
              /\ \A m \in Told(s) : m <= n

\* An answer on the page that was restricted to "the last extracted contract"
\* is about the contract whose id the session keeps: a run that extracts and
\* asks does so in this order, and no answer outlives the run.
AnswersMatchId ==
  \A s \in Sessions : \A p \in shown[s] : p.ticked => p.scope = contractId[s]

\* Neither a rerun nor a timeout sends an upload again: a session has no more
\* contracts in the register than its user pressed Extract.
RowsWithinPresses ==
  \A s \in Sessions :
    Cardinality({u \in Uploads : u[1] = s /\ \E i \in Ids : registered[i] = u})
      <= acts[s].extract

\* A page that is being built gets finished, whatever the server does.
EveryRunEnds == \A s \in Sessions : (tab[s] < Idle) ~> (tab[s] = Idle)

----------------------------------------------------------------------------
(* What the properties rest on.                                            *)

\* An upload is awaited while its session is at the tab that sent it.
CallOf(s) ==
  /\ net[s] # "no" => tab[s] \in 1 .. Len(Tabs)
  /\ At(s, "extract") => /\ uploads[s] > 0
                         /\ fate[Last(s)] = "awaited"
                         /\ net[s] = "ok" => handler[Last(s)] = "answered"

FateOf(u) ==
  /\ fate[u] = "awaited" => u = Last(u[1]) /\ At(u[1], "extract")
  /\ fate[u] = "unsent" <=> u[2] > uploads[u[1]]
  /\ fate[u] = "unsent" => handler[u] = "idle"

CallInv ==
  /\ \A s \in Sessions : CallOf(s)
  /\ \A u \in Uploads : FateOf(u)

\* One row for each upload that was saved, confirmed before it is answered.
ServerInv ==
  /\ \A u \in Uploads :
       /\ handler[u] \in {"idle", "running", "failed"} =>
            \A i \in Ids : registered[i] # u
       /\ handler[u] = "answered" => \E i \in confirmed : registered[i] = u
  /\ \A i, j \in Ids : registered[i] = registered[j] /\ registered[i] # None => i = j

\* The id does not change between a question and the end of the run.
PageInv ==
  \A s \in Sessions :
    /\ payload[s].ticked => payload[s].scope = contractId[s]
    /\ shown[s] # {} => tab[s] > 2

\* A press of Extract is collected, then down, then spent on one upload.
Pending(s) ==
  (IF "extract" \in acted[s] THEN 1 ELSE 0)
  + (IF "extract" \in pressed[s] /\ tab[s] < 2 THEN 1 ELSE 0)

PressInv == \A s \in Sessions : uploads[s] + Pending(s) <= acts[s].extract

UiInv ==
  /\ TypeOK /\ CallInv /\ ServerInv /\ PageInv /\ PressInv
  /\ IdIsLatestTold /\ AnswersMatchId

====
