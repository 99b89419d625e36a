--------------------------- MODULE ExplorerProofs ---------------------------
(***************************************************************************)
(* Proofs about the Explorer page: for every set of nodes and groups and   *)
(* every number of appends, faults and user inputs, in whatever order the  *)
(* answers, the layouts and the events reach the page.                     *)
(*                                                                         *)
(* The argument: the expansion changes only together with a load that      *)
(* makes every live layout worker stale, and a layout replaces all the     *)
(* workers before it. So the worker of the current load is alone, and what *)
(* it lays out is the snapshot and the expansion of the page. A detail is  *)
(* requested for the node picked last only, the others being aborted.      *)
(***************************************************************************)
EXTENDS Explorer, TLAPS

(* The latest load has been drawn.                                         *)
Settled == load = NoLoad /\ outcome = "ok"

(* An answer shows a snapshot, the one it was bound to if there is one.    *)
Good(r) == r.at = "ok" => r.snap # 0 /\ (r.bound # 0 => r.bound = r.snap)

(* What the requests are for.                                              *)
RequestInv ==
    /\ Good(req["load"])
    /\ load = NoLoad \/ load.at = "layout" => req["load"].at = "none"
    /\ load.at = "members" => req["load"].bound = map /\ map # 0

(* What is being drawn, and by whom.                                       *)
LayoutInv ==
    /\ load.at \in {"edges", "layout"} \/ Settled =>
          topo.head = map /\ topo.open = Opened(open)
    /\ \A w \in workers : w.current => load.at = "layout"
    /\ load.at = "layout" =>
          workers = {[head |-> map, open |-> Opened(open), then |-> load.then, current |-> TRUE]}
    /\ Settled => workers = {}

DetailInv == \A n \in Nodes : req[n].at # "none" => n = picked

IInv == /\ TypeOK /\ RequestInv /\ LayoutInv /\ CanvasIsLatest
        /\ DetailInv /\ DetailIsLastPicked

-----------------------------------------------------------------------------
(* Requests.                                                               *)

LEMMA SlotFacts ==
    /\ "load" \in Slots /\ "spot" \in Slots /\ "head" \in Slots /\ Nodes \subseteq Slots
    /\ "load" \notin Nodes /\ "spot" \notin Nodes /\ "head" \notin Nodes
    /\ None \notin Nodes /\ None \notin Groups
  BY ExplorerConstants DEF Slots

LEMMA HeadFacts ==
    /\ 0 \in Heads /\ 1 \in 1..MaxHead
    /\ \A h \in 1..MaxHead : h \in Heads /\ h # 0
    /\ MaxHead \in Nat /\ MaxFaults \in Nat /\ MaxClicks \in Nat
  BY ExplorerConstants DEF Heads

LEMMA FreshRequests ==
    /\ Idle \in Request /\ Idle.at = "none"
    /\ \A f \in BOOLEAN : /\ Fetch(f) \in Request /\ Fetch(f).at = "sent"
                          /\ Fetch(f).bound = 0
    /\ \A h \in Heads, m \in BOOLEAN :
          /\ BoundFetch(h, m) \in Request /\ BoundFetch(h, m).at = "sent"
          /\ BoundFetch(h, m).bound = h
  BY HeadFacts DEF Idle, Fetch, BoundFetch, Request

LEMMA AnswerFacts ==
    ASSUME TypeOK, NEW r \in Request, NEW snap \in Heads, snap # 0
    PROVE  /\ Answer(r, snap) \in Request /\ Answer(r, snap).bound = r.bound
           /\ Answer(r, snap).at \in {"ok", "failed"} /\ Good(Answer(r, snap))
  <1> DEFINE a == IF r.bound = 0 \/ (r.bound = snap /\ snap = head /\ r.match)
                    THEN "ok" ELSE "failed"
  <1>1. Answer(r, snap) = [r EXCEPT !.snap = snap, !.at = a]
    BY DEF Answer
  <1>2. a \in {"ok", "failed"} /\ (a = "ok" => r.bound = 0 \/ r.bound = snap)
    OBVIOUS
  <1> HIDE DEF a
  <1>3. Answer(r, snap) \in Request
    BY <1>1, <1>2 DEF Request
  <1>4. Answer(r, snap).bound = r.bound /\ Answer(r, snap).at = a /\ Answer(r, snap).snap = snap
    BY <1>1 DEF Request
  <1>5. QED
    BY <1>2, <1>3, <1>4 DEF Good

(* A request that is answered, or is lost, on its way: it stays the        *)
(* request that it was.                                                    *)
Advances(s) ==
    /\ req'[s] \in Request
    /\ req'[s].bound = req[s].bound
    /\ req'[s].at # "none" => req[s].at # "none"
    /\ s = "load" => Good(req'[s])

(* The page is not involved in what the server does.                       *)
LEMMA RequestsAdvance ==
    ASSUME IInv, DOMAIN req' = Slots, req' = [s \in Slots |-> req'[s]],
           \A s \in Slots : Advances(s),
           UNCHANGED <<map, topo, selection, load, workers, cont, canvas,
                       inspector, error, auto, timer, history, clicks>>,
           head' \in 1..MaxHead, cache' \in Heads, loading' \in [on : BOOLEAN, snap : Heads],
           faults' \in 0..MaxFaults
    PROVE  IInv'
  <1>1. UNCHANGED <<map, topo, open, selGroup, selNode, load, workers, cont, canvas,
                    inspector, error, auto, timer, outcome, picked, clicks>>
    BY DEF selection, history
  <1>2. req' \in [Slots -> Request]
    BY DEF Advances
  <1>3. TypeOK'
    BY <1>1, <1>2 DEF IInv, TypeOK
  <1>4. RequestInv'
    <2>1. Advances("load")
      BY SlotFacts
    <2>2. QED
      BY <1>1, <2>1 DEF IInv, RequestInv, Advances
  <1>5. LayoutInv' /\ CanvasIsLatest' /\ DetailIsLastPicked'
    BY <1>1 DEF IInv, LayoutInv, Settled, CanvasIsLatest, DetailIsLastPicked
  <1>6. DetailInv'
    BY <1>1, SlotFacts DEF IInv, DetailInv, Advances
  <1>7. QED
    BY <1>3, <1>4, <1>5, <1>6 DEF IInv

(* One request changes: it is enough to look at that one.                  *)
LEMMA OneRequestAdvances ==
    ASSUME IInv, NEW s \in Slots, NEW r \in Request, req' = [req EXCEPT ![s] = r],
           r.bound = req[s].bound, req[s].at # "none", s = "load" => Good(r)
    PROVE  /\ DOMAIN req' = Slots /\ req' = [t \in Slots |-> req'[t]]
           /\ \A t \in Slots : Advances(t)
  <1>1. req \in [Slots -> Request] /\ Good(req["load"])
    BY DEF IInv, TypeOK, RequestInv
  <1>2. QED
    BY <1>1 DEF Advances

-----------------------------------------------------------------------------
(* The server.                                                             *)

LEMMA StepAppend ==
    ASSUME IInv, Append
    PROVE  IInv'
  <1>1. req \in [Slots -> Request] /\ Good(req["load"])
    BY DEF IInv, TypeOK, RequestInv
  <1>2. \A s \in Slots : Advances(s)
    BY <1>1 DEF Append, Advances
  <1>3. head' \in 1..MaxHead
    BY HeadFacts DEF Append, IInv, TypeOK
  <1>4. /\ DOMAIN req' = Slots /\ req' = [s \in Slots |-> req'[s]]
        /\ cache' \in Heads /\ loading' \in [on : BOOLEAN, snap : Heads]
        /\ faults' \in 0..MaxFaults
        /\ UNCHANGED <<map, topo, selection, load, workers, cont, canvas,
                       inspector, error, auto, timer, history, clicks>>
    BY <1>1 DEF Append, IInv, TypeOK, counts
  <1>5. QED
    BY <1>2, <1>3, <1>4, RequestsAdvance

LEMMA StepServe ==
    ASSUME IInv, NEW s \in Slots, Serve(s)
    PROVE  IInv'
  <1>1. /\ req \in [Slots -> Request] /\ req[s] \in Request /\ req[s].at = "sent"
        /\ cache \in Heads /\ loading \in [on : BOOLEAN, snap : Heads] /\ head \in 1..MaxHead
        /\ faults \in 0..MaxFaults
    BY DEF Serve, IInv, TypeOK
  <1>2. \/ cache # 0 /\ req' = [req EXCEPT ![s] = Answer(req[s], cache)] /\ loading' = loading
        \/ /\ req' = [req EXCEPT ![s] = [req[s] EXCEPT !.at = "joined"]]
           /\ loading' = [loading EXCEPT !.on = TRUE]
    BY <1>1 DEF Serve
  <1>3. PICK r \in Request : /\ req' = [req EXCEPT ![s] = r] /\ r.bound = req[s].bound /\ Good(r)
    <2>1. CASE cache # 0 /\ req' = [req EXCEPT ![s] = Answer(req[s], cache)]
      BY <1>1, <2>1, AnswerFacts DEF IInv
    <2>2. CASE req' = [req EXCEPT ![s] = [req[s] EXCEPT !.at = "joined"]]
      <3>1. PICK r : r = [req[s] EXCEPT !.at = "joined"]
        OBVIOUS
      <3>2. r \in Request /\ r.bound = req[s].bound /\ r.at = "joined"
        BY <1>1, <3>1 DEF Request
      <3>3. QED
        BY <2>2, <3>1, <3>2 DEF Good
    <2>3. QED
      BY <1>2, <2>1, <2>2
  <1>4. loading' \in [on : BOOLEAN, snap : Heads]
    BY <1>1, <1>2
  <1>5. /\ head' = head /\ cache' = cache /\ faults' = faults
        /\ UNCHANGED <<map, topo, selection, load, workers, cont, canvas,
                       inspector, error, auto, timer, history, clicks>>
    BY DEF Serve, counts
  <1>6. /\ DOMAIN req' = Slots /\ req' = [t \in Slots |-> req'[t]]
        /\ \A t \in Slots : Advances(t)
    BY <1>1, <1>3, OneRequestAdvances
  <1>7. QED
    BY <1>1, <1>4, <1>5, <1>6, RequestsAdvance

LEMMA StepReplay ==
    ASSUME IInv, OtherRefresh \/ ReplayReads
    PROVE  IInv'
  <1>1. req \in [Slots -> Request] /\ Good(req["load"]) /\ req' = req
    BY DEF IInv, TypeOK, RequestInv, OtherRefresh, ReplayReads
  <1>2. \A s \in Slots : Advances(s)
    BY <1>1 DEF Advances
  <1>3. loading' \in [on : BOOLEAN, snap : Heads]
    <2>1. loading \in [on : BOOLEAN, snap : Heads] /\ head \in Heads
      BY HeadFacts DEF IInv, TypeOK
    <2>2. QED
      BY <2>1 DEF OtherRefresh, ReplayReads
  <1>4. /\ DOMAIN req' = Slots /\ req' = [s \in Slots |-> req'[s]]
        /\ head' \in 1..MaxHead /\ cache' \in Heads /\ faults' \in 0..MaxFaults
        /\ UNCHANGED <<map, topo, selection, load, workers, cont, canvas,
                       inspector, error, auto, timer, history, clicks>>
    BY <1>1 DEF OtherRefresh, ReplayReads, IInv, TypeOK, counts
  <1>5. QED
    BY <1>2, <1>3, <1>4, RequestsAdvance

(* Everyone who joined the replay gets its outcome.                        *)
LEMMA StepPopulate ==
    ASSUME IInv, Populate \/ PopulateFails
    PROVE  IInv'
  <1>1. /\ req \in [Slots -> Request] /\ Good(req["load"])
        /\ loading.snap \in Heads
    BY DEF IInv, TypeOK, RequestInv
  <1>2. NotLoading \in [on : BOOLEAN, snap : Heads]
    BY HeadFacts DEF NotLoading
  <1>3. /\ head' \in 1..MaxHead /\ cache' \in Heads /\ loading' \in [on : BOOLEAN, snap : Heads]
        /\ faults' \in 0..MaxFaults
        /\ UNCHANGED <<map, topo, selection, load, workers, cont, canvas,
                       inspector, error, auto, timer, history, clicks>>
    <2>1. head \in 1..MaxHead /\ cache \in Heads /\ faults \in 0..MaxFaults
      BY DEF IInv, TypeOK
    <2>2. CASE Populate
      BY <1>1, <1>2, <2>1, <2>2 DEF Populate, counts
    <2>3. CASE PopulateFails
      BY <1>1, <1>2, <2>1, <2>3, HeadFacts DEF PopulateFails
    <2>4. QED
      BY <2>2, <2>3
  <1>4. DOMAIN req' = Slots /\ req' = [s \in Slots |-> req'[s]]
    BY DEF Populate, PopulateFails
  <1>5. ASSUME NEW s \in Slots PROVE Advances(s)
    <2>1. req[s] \in Request
      BY <1>1
    <2>2. CASE req[s].at # "joined"
      <3>1. req'[s] = req[s]
        BY <2>2 DEF Populate, PopulateFails
      <3>2. QED
        BY <1>1, <2>1, <3>1 DEF Advances
    <2>3. CASE req[s].at = "joined" /\ Populate
      <3>1. req'[s] = Answer(req[s], loading.snap) /\ loading.snap # 0
        BY <2>3 DEF Populate
      <3>2. QED
        BY <1>1, <2>1, <2>3, <3>1, AnswerFacts DEF Advances, IInv
    <2>4. CASE req[s].at = "joined" /\ PopulateFails
      <3>1. PICK r \in Request : r = req[s]
        BY <2>1
      <3>2. req'[s] = [r EXCEPT !.at = "failed"]
        BY <2>4, <3>1 DEF PopulateFails
      <3>3. req'[s] \in Request /\ req'[s].bound = r.bound /\ req'[s].at = "failed"
        BY <3>2 DEF Request
      <3>4. QED
        BY <2>4, <3>1, <3>3 DEF Advances, Good
    <2>5. QED
      BY <2>2, <2>3, <2>4
  <1>6. QED
    BY <1>3, <1>4, <1>5, RequestsAdvance

LEMMA StepHead ==
    ASSUME IInv, InspectHead \/ CompareHead
    PROVE  IInv'
  <1>1. /\ req \in [Slots -> Request] /\ req["head"] \in Request /\ "head" \in Slots
        /\ "head" # "load" /\ req["head"].at # "none" /\ head \in Heads
    BY SlotFacts, HeadFacts DEF InspectHead, CompareHead, IInv, TypeOK
  <1>2. PICK r \in Request : r = req["head"]
    BY <1>1
  <1>3. PICK q \in Request : req' = [req EXCEPT !["head"] = q] /\ q.bound = r.bound
    <2>1. CASE InspectHead
      <3>1. PICK q : q = [r EXCEPT !.at = "got", !.snap = head]
        OBVIOUS
      <3>2. q \in Request /\ q.bound = r.bound
        BY <1>1, <3>1 DEF Request
      <3>3. req' = [req EXCEPT !["head"] = q]
        BY <1>1, <1>2, <2>1, <3>1 DEF InspectHead
      <3>4. QED
        BY <3>2, <3>3
    <2>2. CASE CompareHead
      <3>1. PICK m \in BOOLEAN : m = Unchanged(req["head"].snap, cache)
        BY DEF Unchanged
      <3>2. PICK q : q = [r EXCEPT !.at = "ok", !.match = m]
        OBVIOUS
      <3>3. q \in Request /\ q.bound = r.bound
        BY <3>2 DEF Request
      <3>4. req' = [req EXCEPT !["head"] = q]
        BY <1>1, <1>2, <2>2, <3>1, <3>2 DEF CompareHead
      <3>5. QED
        BY <3>3, <3>4
    <2>3. QED
      BY <2>1, <2>2
  <1>4. /\ DOMAIN req' = Slots /\ req' = [t \in Slots |-> req'[t]]
        /\ \A t \in Slots : Advances(t)
    BY <1>1, <1>2, <1>3, OneRequestAdvances
  <1>5. /\ head' \in 1..MaxHead /\ cache' \in Heads /\ loading' \in [on : BOOLEAN, snap : Heads]
        /\ faults' \in 0..MaxFaults
        /\ UNCHANGED <<map, topo, selection, load, workers, cont, canvas,
                       inspector, error, auto, timer, history, clicks>>
    BY DEF InspectHead, CompareHead, IInv, TypeOK, server, counts
  <1>6. QED
    BY <1>4, <1>5, RequestsAdvance

LEMMA StepLoseAnswer ==
    ASSUME IInv, NEW s \in Slots, LoseAnswer(s)
    PROVE  IInv'
  <1>1. req \in [Slots -> Request] /\ req[s].at # "none"
    BY DEF IInv, TypeOK, LoseAnswer
  <1>2. PICK r \in Request : r = req[s]
    BY <1>1
  <1>3. PICK q : q = [r EXCEPT !.at = "failed"]
    OBVIOUS
  <1>4. q \in Request /\ q.bound = r.bound /\ Good(q)
    BY <1>3 DEF Request, Good
  <1>5. req' = [req EXCEPT ![s] = q]
    BY <1>1, <1>2, <1>3 DEF LoseAnswer
  <1>6. /\ DOMAIN req' = Slots /\ req' = [t \in Slots |-> req'[t]]
        /\ \A t \in Slots : Advances(t)
    BY <1>1, <1>2, <1>4, <1>5, OneRequestAdvances
  <1>7. faults' \in 0..MaxFaults
    BY HeadFacts DEF LoseAnswer, IInv, TypeOK
  <1>8. /\ head' \in 1..MaxHead /\ cache' \in Heads /\ loading' \in [on : BOOLEAN, snap : Heads]
        /\ UNCHANGED <<map, topo, selection, load, workers, cont, canvas,
                       inspector, error, auto, timer, history, clicks>>
    BY DEF LoseAnswer, IInv, TypeOK, server
  <1>9. QED
    BY <1>6, <1>7, <1>8, RequestsAdvance

-----------------------------------------------------------------------------
(* Loads and layouts.                                                      *)

Loads      == [at : {"none", "map", "members", "edges", "layout"}, then : Nodes \cup {None}]
Workers    == [head : Heads, open : SUBSET Groups, then : Nodes \cup {None}, current : BOOLEAN]
Topologies == [head : Heads, open : SUBSET Groups]
Canvases   == [head : Heads, open : SUBSET Groups, edges : Heads]
Inspectors == [kind : {"closed", "skeleton", "detail", "group"},
               id : Nodes \cup Groups \cup {None}, snap : Heads]

LEMMA LoadFacts ==
    ASSUME TypeOK
    PROVE  /\ load \in Loads /\ workers \subseteq Workers /\ NoLoad \in Loads /\ NoLoad.at = "none"
           /\ Opened(open) \subseteq Groups /\ load.then \in Nodes \cup {None}
           /\ \A s \in {"map", "members", "edges", "layout"} :
                 /\ [load EXCEPT !.at = s] \in Loads /\ [load EXCEPT !.at = s].at = s
                 /\ [load EXCEPT !.at = s].then = load.then /\ [load EXCEPT !.at = s] # NoLoad
  <1>1. load \in Loads /\ workers \subseteq Workers /\ open \in Groups \cup {None}
    BY DEF TypeOK, Loads, Workers
  <1>2. NoLoad \in Loads /\ NoLoad.at = "none"
    BY DEF NoLoad, Loads
  <1>3. Opened(open) \subseteq Groups
    BY <1>1 DEF Opened
  <1>4. ASSUME NEW s \in {"map", "members", "edges", "layout"}
        PROVE  /\ [load EXCEPT !.at = s] \in Loads /\ [load EXCEPT !.at = s].at = s
               /\ [load EXCEPT !.at = s].then = load.then /\ [load EXCEPT !.at = s] # NoLoad
    <2>1. [load EXCEPT !.at = s] \in Loads /\ [load EXCEPT !.at = s].at = s
          /\ [load EXCEPT !.at = s].then = load.then
      BY <1>1 DEF Loads
    <2>2. QED
      BY <1>2, <2>1
  <1>5. load.then \in Nodes \cup {None}
    BY <1>1 DEF Loads
  <1>6. QED
    BY <1>1, <1>2, <1>3, <1>4, <1>5

(* A new load makes every worker stale, and says nothing about the canvas. *)
LEMMA LoadBegins ==
    ASSUME IInv, NEW requests \in [Slots -> Request], NEW force \in BOOLEAN,
           NEW then \in Nodes \cup {None}, LoadProject(requests, force, then)
    PROVE  /\ load' \in Loads /\ workers' \subseteq Workers /\ cont' \in Nodes \cup {None}
           /\ req' \in [Slots -> Request] /\ \A n \in Nodes : req'[n] = requests[n]
           /\ RequestInv' /\ LayoutInv' /\ CanvasIsLatest'
  <1>1. load' = [at |-> "map", then |-> then]
    BY DEF LoadProject
  <1>2. load' \in Loads /\ load'.at = "map" /\ load' # NoLoad
    BY <1>1 DEF Loads, NoLoad
  <1>3. cont' \in Nodes \cup {None}
    BY LoadFacts DEF LoadProject, IInv
  <1>4. ASSUME NEW w \in workers' PROVE w \in Workers /\ ~w.current
    <2>1. PICK v \in workers : w = [v EXCEPT !.current = FALSE]
      BY DEF LoadProject
    <2>2. v \in Workers
      BY LoadFacts DEF IInv
    <2>3. QED
      BY <2>1, <2>2 DEF Workers
  <1>5. /\ req' = [requests EXCEPT !["load"] = Fetch(force)]
        /\ Fetch(force) \in Request /\ Fetch(force).at = "sent"
    BY FreshRequests DEF LoadProject
  <1>6. req' \in [Slots -> Request] /\ req'["load"].at = "sent"
    BY <1>5, SlotFacts
  <1>7. \A n \in Nodes : req'[n] = requests[n]
    BY <1>5, SlotFacts
  <1>8. RequestInv'
    BY <1>2, <1>6 DEF RequestInv, Good
  <1>9. LayoutInv' /\ CanvasIsLatest'
    BY <1>2, <1>4 DEF LayoutInv, CanvasIsLatest, Settled
  <1>10. QED
    BY <1>2, <1>3, <1>4, <1>6, <1>7, <1>8, <1>9

(* A layout replaces the workers by one for what the page now holds.       *)
LEMMA LayoutBegins ==
    ASSUME IInv, NEW t \in Topologies, LayoutGraph(t), topo' = t, map' = t.head,
           t.open = Opened(open), UNCHANGED <<open, canvas, outcome>>
    PROVE  /\ load' \in Loads /\ workers' \subseteq Workers
           /\ req' \in [Slots -> Request] /\ \A n \in Nodes : req'[n] = req[n]
           /\ RequestInv' /\ LayoutInv' /\ CanvasIsLatest'
  <1> DEFINE w == [head |-> t.head, open |-> t.open, then |-> load.then, current |-> TRUE]
  <1>1. /\ load' \in Loads /\ load'.at = "layout" /\ load'.then = load.then /\ load' # NoLoad
    BY LoadFacts DEF LayoutGraph, IInv
  <1>2. workers' = {w}
    BY DEF LayoutGraph
  <1>3. w \in Workers
    BY LoadFacts DEF Workers, Topologies, IInv
  <1>4. req' = [req EXCEPT !["load"] = Idle] /\ req \in [Slots -> Request]
    BY DEF LayoutGraph, IInv, TypeOK
  <1>5. /\ req' \in [Slots -> Request] /\ req'["load"].at = "none"
        /\ \A n \in Nodes : req'[n] = req[n]
    BY <1>4, SlotFacts, FreshRequests
  <1>6. RequestInv'
    BY <1>1, <1>5 DEF RequestInv, Good
  <1>7. w = [head |-> map', open |-> Opened(open'), then |-> load'.then, current |-> TRUE]
    BY <1>1
  <1>8. Opened(open') = Opened(open) /\ Opened(open)' = Opened(open')
    BY DEF Opened
  <1>9. LayoutInv'
    BY <1>1, <1>2, <1>7, <1>8 DEF LayoutInv, Settled
  <1>10. CanvasIsLatest'
    BY <1>1 DEF CanvasIsLatest
  <1>11. QED
    BY <1>1, <1>2, <1>3, <1>5, <1>6, <1>9, <1>10

(* Rendering asks for edges first while something is selected.             *)
LEMMA RenderBegins ==
    ASSUME IInv, NEW t \in Topologies, NEW snap \in Heads, RenderGraph(t, snap),
           topo' = t, map' = snap, t.head = snap, t.open = Opened(open),
           load.at \in {"map", "members"}, UNCHANGED <<open, canvas, outcome>>
    PROVE  /\ load' \in Loads /\ workers' \subseteq Workers
           /\ req' \in [Slots -> Request] /\ \A n \in Nodes : req'[n] = req[n]
           /\ RequestInv' /\ LayoutInv' /\ CanvasIsLatest'
  <1>1. CASE Focus = None
    <2>1. LayoutGraph(t)
      BY <1>1 DEF RenderGraph
    <2>2. QED
      BY <2>1, LayoutBegins
  <1>2. CASE Focus # None
    <2>1. PICK m \in BOOLEAN : m = IndexMatches(t, snap, Focus, open)
      BY DEF IndexMatches
    <2>2. /\ load' = [load EXCEPT !.at = "edges"]
          /\ req' = [req EXCEPT !["load"] = BoundFetch(snap, m)]
          /\ workers' = workers
      BY <1>2, <2>1 DEF RenderGraph
    <2>3. load' \in Loads /\ load'.at = "edges" /\ load' # NoLoad
      BY <2>2, LoadFacts DEF IInv
    <2>4. BoundFetch(snap, m) \in Request /\ BoundFetch(snap, m).at = "sent"
      BY FreshRequests
    <2>5. req \in [Slots -> Request]
      BY DEF IInv, TypeOK
    <2>6. /\ req' \in [Slots -> Request] /\ req'["load"].at = "sent"
          /\ \A n \in Nodes : req'[n] = req[n]
      BY <2>2, <2>4, <2>5, SlotFacts
    <2>7. RequestInv'
      BY <2>3, <2>6 DEF RequestInv, Good
    <2>8. \A w \in workers' : ~w.current
      BY <2>2 DEF IInv, LayoutInv
    <2>9. Opened(open)' = Opened(open)
      BY DEF Opened
    <2>10. LayoutInv' /\ CanvasIsLatest'
      BY <2>3, <2>8, <2>9 DEF LayoutInv, CanvasIsLatest, Settled
    <2>11. workers' \subseteq Workers
      BY <2>2, LoadFacts DEF IInv
    <2>12. QED
      BY <2>3, <2>6, <2>7, <2>10, <2>11
  <1>3. QED
    BY <1>1, <1>2

(* While the load is left alone, redrawing the edges draws those of the    *)
(* snapshot that is shown.                                                 *)
LEMMA LoadFrame ==
    ASSUME IInv, req'["load"] = req["load"],
           UNCHANGED <<map, topo, open, load, workers, outcome>>,
           canvas' = canvas \/ canvas' = RedrawEdges
    PROVE  /\ canvas' \in Canvases
           /\ RequestInv' /\ LayoutInv' /\ CanvasIsLatest'
  <1>1. canvas \in Canvases /\ topo.head \in Heads
    BY DEF IInv, TypeOK, Canvases
  <1>2. [canvas EXCEPT !.edges = topo.head] \in Canvases
    BY <1>1 DEF Canvases
  <1>3. canvas' \in Canvases
    BY <1>1, <1>2 DEF RedrawEdges
  <1>4. RequestInv'
    BY DEF IInv, RequestInv
  <1>5. LayoutInv'
    BY DEF IInv, LayoutInv, Settled
  <1>6. CanvasIsLatest'
    <2>1. CASE canvas' = canvas
      BY <2>1 DEF IInv, CanvasIsLatest
    <2>2. CASE Settled /\ canvas' = [canvas EXCEPT !.edges = topo.head]
      <3>1. topo.head = map /\ canvas = [head |-> map, open |-> Opened(open), edges |-> map]
        BY <2>2 DEF IInv, LayoutInv, CanvasIsLatest, Settled
      <3>2. canvas' = canvas
        BY <2>2, <3>1
      <3>3. QED
        BY <3>2 DEF IInv, CanvasIsLatest
    <2>3. CASE ~Settled
      BY <2>3 DEF CanvasIsLatest, Settled
    <2>4. QED
      BY <2>1, <2>2, <2>3 DEF RedrawEdges
  <1>7. QED
    BY <1>3, <1>4, <1>5, <1>6

-----------------------------------------------------------------------------
(* The page: loading the project.                                          *)

LEMMA StepMapArrives ==
    ASSUME IInv, MapArrives
    PROVE  IInv'
  <1>1. /\ load.at = "map" /\ req["load"].at = "ok" /\ map' = req["load"].snap
        /\ UNCHANGED <<head, cache, loading, open, selGroup, selNode, cont, canvas, inspector,
                       error, auto, timer, outcome, picked, faults, clicks>>
    BY DEF MapArrives, server, selection, history, counts
  <1>2. req \in [Slots -> Request] /\ map' \in Heads /\ map' # 0
    BY <1>1, SlotFacts DEF IInv, TypeOK, RequestInv, Good, Request
  <1>3. /\ topo' \in Topologies /\ load' \in Loads /\ workers' \subseteq Workers
        /\ req' \in [Slots -> Request] /\ \A n \in Nodes : req'[n] = req[n]
        /\ RequestInv' /\ LayoutInv' /\ CanvasIsLatest'
    <2>1. CASE open # None
      <3>1. /\ load' = [load EXCEPT !.at = "members"]
            /\ req' = [req EXCEPT !["load"] = BoundFetch(map', TRUE)]
            /\ UNCHANGED <<topo, workers>>
        BY <1>1, <2>1 DEF MapArrives
      <3>2. load' \in Loads /\ load'.at = "members" /\ load' # NoLoad
        BY <3>1, LoadFacts DEF IInv
      <3>3. PICK h \in Heads : h = map'
        BY <1>2
      <3>4. /\ BoundFetch(h, TRUE) \in Request /\ BoundFetch(h, TRUE).at = "sent"
            /\ BoundFetch(h, TRUE).bound = h
        BY FreshRequests
      <3>5. /\ req' \in [Slots -> Request] /\ req'["load"].at = "sent" /\ req'["load"].bound = map'
            /\ \A n \in Nodes : req'[n] = req[n]
        BY <1>2, <3>1, <3>3, <3>4, SlotFacts
      <3>6. RequestInv'
        BY <1>2, <3>2, <3>5 DEF RequestInv, Good
      <3>7. \A w \in workers' : ~w.current
        BY <1>1, <3>1 DEF IInv, LayoutInv
      <3>8. LayoutInv' /\ CanvasIsLatest'
        BY <3>2, <3>7 DEF LayoutInv, CanvasIsLatest, Settled
      <3>9. topo' \in Topologies /\ workers' \subseteq Workers
        BY <3>1, LoadFacts DEF IInv, TypeOK, Topologies
      <3>10. QED
        BY <3>2, <3>5, <3>6, <3>8, <3>9
    <2>2. CASE open = None
      <3>1. PICK snap \in Heads : snap = map'
        BY <1>2
      <3>2. PICK t : t = [head |-> snap, open |-> {}]
        OBVIOUS
      <3>3. topo' = t /\ RenderGraph(topo', snap)
        BY <1>1, <2>2, <3>1, <3>2 DEF MapArrives
      <3>4. RenderGraph(t, snap)
        BY <3>3 DEF RenderGraph, LayoutGraph, IndexMatches
      <3>5. t \in Topologies /\ t.head = snap /\ t.open = Opened(open)
        BY <2>2, <3>2 DEF Topologies, Opened
      <3>6. QED
        BY <1>1, <3>1, <3>3, <3>4, <3>5, RenderBegins
    <2>3. QED
      BY <2>1, <2>2
  <1>4. TypeOK'
    BY <1>1, <1>2, <1>3 DEF IInv, TypeOK, Topologies, Loads, Workers
  <1>5. DetailInv' /\ DetailIsLastPicked'
    BY <1>1, <1>3 DEF IInv, DetailInv, DetailIsLastPicked
  <1>6. QED
    BY <1>3, <1>4, <1>5 DEF IInv

LEMMA StepMembersArrive ==
    ASSUME IInv, MembersArrive
    PROVE  IInv'
  <1>1. /\ load.at = "members" /\ req["load"].at = "ok"
        /\ topo' = [head |-> req["load"].snap, open |-> Opened(open)]
        /\ RenderGraph(topo', map)
        /\ UNCHANGED <<head, cache, loading, map, open, selGroup, selNode, cont, canvas,
                       inspector, error, auto, timer, outcome, picked, faults, clicks>>
    BY DEF MembersArrive, server, selection, history, counts
  <1>2. map \in Heads /\ req["load"].snap = map
    BY <1>1 DEF IInv, TypeOK, RequestInv, Good
  <1>3. PICK t : t = [head |-> map, open |-> Opened(open)]
    OBVIOUS
  <1>4. t \in Topologies /\ t.head = map /\ t.open = Opened(open) /\ topo' = t
    BY <1>1, <1>2, <1>3, LoadFacts DEF Topologies, IInv
  <1>5. PICK snap \in Heads : snap = map
    BY <1>2
  <1>6. RenderGraph(t, snap)
    BY <1>1, <1>4, <1>5 DEF RenderGraph, LayoutGraph, IndexMatches
  <1>7. /\ load' \in Loads /\ workers' \subseteq Workers
        /\ req' \in [Slots -> Request] /\ \A n \in Nodes : req'[n] = req[n]
        /\ RequestInv' /\ LayoutInv' /\ CanvasIsLatest'
    BY <1>1, <1>4, <1>5, <1>6, RenderBegins
  <1>8. TypeOK'
    BY <1>1, <1>4, <1>7 DEF IInv, TypeOK, Topologies, Loads, Workers
  <1>9. DetailInv' /\ DetailIsLastPicked'
    BY <1>1, <1>7 DEF IInv, DetailInv, DetailIsLastPicked
  <1>10. QED
    BY <1>7, <1>8, <1>9 DEF IInv

LEMMA StepEdgesArrive ==
    ASSUME IInv, EdgesArrive
    PROVE  IInv'
  <1>1. /\ load.at = "edges" /\ LayoutGraph(topo)
        /\ UNCHANGED <<head, cache, loading, map, topo, open, selGroup, selNode, cont, canvas,
                       inspector, error, auto, timer, outcome, picked, faults, clicks>>
    BY DEF EdgesArrive, server, selection, history, counts
  <1>2. PICK t \in Topologies : t = topo
    BY DEF IInv, TypeOK, Topologies
  <1>3. LayoutGraph(t) /\ topo' = t /\ map' = t.head /\ t.open = Opened(open)
    BY <1>1, <1>2 DEF IInv, LayoutInv
  <1>4. /\ load' \in Loads /\ workers' \subseteq Workers
        /\ req' \in [Slots -> Request] /\ \A n \in Nodes : req'[n] = req[n]
        /\ RequestInv' /\ LayoutInv' /\ CanvasIsLatest'
    BY <1>1, <1>3, LayoutBegins
  <1>5. TypeOK'
    BY <1>1, <1>4 DEF IInv, TypeOK, Loads, Workers
  <1>6. DetailInv' /\ DetailIsLastPicked'
    BY <1>1, <1>4 DEF IInv, DetailInv, DetailIsLastPicked
  <1>7. QED
    BY <1>4, <1>5, <1>6 DEF IInv

LEMMA StepLoadFails ==
    ASSUME IInv, LoadFails
    PROVE  IInv'
  <1>1. /\ req["load"].at = "failed" /\ req' = [req EXCEPT !["load"] = Idle]
        /\ load' = NoLoad /\ cont' = load.then
        /\ error' = TRUE /\ timer' = auto /\ outcome' = "failed"
        /\ UNCHANGED <<head, cache, loading, map, topo, open, selGroup, selNode, workers,
                       canvas, inspector, auto, picked, faults, clicks>>
    BY DEF LoadFails, server, selection, counts
  <1>2. /\ req' \in [Slots -> Request] /\ req'["load"].at = "none"
        /\ \A n \in Nodes : req'[n] = req[n]
    BY <1>1, SlotFacts, FreshRequests DEF IInv, TypeOK
  <1>3. /\ load' \in Loads /\ load'.at = "none" /\ cont' \in Nodes \cup {None}
    BY <1>1, LoadFacts DEF IInv
  <1>4. TypeOK'
    BY <1>1, <1>2, <1>3 DEF IInv, TypeOK, Loads
  <1>5. RequestInv'
    BY <1>2, <1>3 DEF RequestInv, Good
  <1>6. \A w \in workers : ~w.current
    BY <1>1 DEF IInv, RequestInv, LayoutInv
  <1>7. LayoutInv' /\ CanvasIsLatest'
    BY <1>1, <1>3, <1>6 DEF LayoutInv, CanvasIsLatest, Settled
  <1>8. DetailInv' /\ DetailIsLastPicked'
    BY <1>1, <1>2 DEF IInv, DetailInv, DetailIsLastPicked
  <1>9. QED
    BY <1>4, <1>5, <1>7, <1>8 DEF IInv

(* The inspector shows what is selected; it never turns into a detail.     *)
LEMMA InspectFacts ==
    ASSUME TypeOK, NEW g \in Groups \cup {None}, NEW n \in Nodes \cup {None}
    PROVE  /\ Inspect(g, n) \in Inspectors
           /\ Inspect(g, n).kind = "detail" => Inspect(g, n) = inspector
  <1>1. inspector \in Inspectors /\ map \in Heads /\ Closed \in Inspectors /\ Closed.kind = "closed"
    BY HeadFacts DEF TypeOK, Inspectors, Closed
  <1>2. CASE n # None
    BY <1>1, <1>2 DEF Inspect
  <1>3. CASE n = None /\ g # None
    <2>1. Inspect(g, n) = [kind |-> "group", id |-> g, snap |-> map]
      BY <1>3 DEF Inspect
    <2>2. QED
      BY <1>1, <2>1 DEF Inspectors
  <1>4. CASE n = None /\ g = None
    <2>1. Inspect(g, n) = Closed
      BY <1>4 DEF Inspect
    <2>2. QED
      BY <1>1, <2>1
  <1>5. QED
    BY <1>2, <1>3, <1>4

(* The worker of the current load is the only one; once the latest load    *)
(* has been drawn there is none.                                           *)
LEMMA WorkerFacts ==
    ASSUME IInv, NEW w \in workers
    PROVE  /\ w \in Workers
           /\ w.current => /\ load.at = "layout" /\ workers = {w}
                           /\ w.head = map /\ w.open = Opened(open)
                           /\ topo.head = map /\ topo.open = Opened(open)
                           /\ req["load"].at = "none"
           /\ ~w.current => load.at # "layout" /\ ~Settled
  <1>1. w \in Workers
    BY LoadFacts DEF IInv
  <1>2. ASSUME w.current
        PROVE  /\ load.at = "layout" /\ workers = {w}
               /\ w.head = map /\ w.open = Opened(open)
               /\ topo.head = map /\ topo.open = Opened(open)
               /\ req["load"].at = "none"
    <2>1. load.at = "layout"
      BY <1>2 DEF IInv, LayoutInv
    <2>2. workers = {[head |-> map, open |-> Opened(open), then |-> load.then, current |-> TRUE]}
      BY <2>1 DEF IInv, LayoutInv
    <2>3. w = [head |-> map, open |-> Opened(open), then |-> load.then, current |-> TRUE]
      BY <2>2
    <2>4. workers = {w}
      BY <2>2, <2>3
    <2>5. w.head = map /\ w.open = Opened(open)
      BY <2>3
    <2>6. topo.head = map /\ topo.open = Opened(open) /\ req["load"].at = "none"
      BY <2>1 DEF IInv, LayoutInv, RequestInv
    <2>7. QED
      BY <2>1, <2>4, <2>5, <2>6
  <1>3. ASSUME ~w.current PROVE load.at # "layout" /\ ~Settled
    <2>1. ASSUME load.at = "layout" PROVE FALSE
      <3>1. workers = {[head |-> map, open |-> Opened(open), then |-> load.then, current |-> TRUE]}
        BY <2>1 DEF IInv, LayoutInv
      <3>2. w = [head |-> map, open |-> Opened(open), then |-> load.then, current |-> TRUE]
        BY <3>1
      <3>3. w.current
        BY <3>2
      <3>4. QED
        BY <1>3, <3>3
    <2>2. ~Settled
      BY DEF IInv, LayoutInv
    <2>3. QED
      BY <2>1, <2>2
  <1>4. QED
    BY <1>1, <1>2, <1>3

(* The end of a layout, whether it is drawn or has failed: the current     *)
(* one ends the load, a stale one nothing.                                 *)
LEMMA LoadEnds ==
    ASSUME IInv, NEW w \in workers, NEW ended \in {"ok", "failed"}, EndLoad(w, ended),
           UNCHANGED <<map, topo, open, req>>,
           ended = "ok" => canvas' = [head |-> w.head, open |-> w.open, edges |-> w.head]
    PROVE  /\ load' \in Loads /\ workers' \subseteq Workers /\ cont' \in Nodes \cup {None}
           /\ outcome' \in {"none", "ok", "failed"} /\ timer' \in BOOLEAN
           /\ RequestInv' /\ LayoutInv' /\ CanvasIsLatest'
  <1>1. /\ workers' = workers \ {w} /\ cont' = w.then
        /\ IF w.current THEN load' = NoLoad /\ timer' = auto /\ outcome' = ended
                        ELSE UNCHANGED <<load, timer, outcome>>
    BY DEF EndLoad
  <1>2. /\ workers' \subseteq Workers /\ cont' \in Nodes \cup {None} /\ load' \in Loads
        /\ outcome' \in {"none", "ok", "failed"} /\ timer' \in BOOLEAN
    BY <1>1, LoadFacts, WorkerFacts DEF IInv, TypeOK, Workers
  <1>3. CASE w.current
    <2>1. /\ load' = NoLoad /\ load'.at = "none" /\ workers' = {} /\ outcome' = ended
      BY <1>1, <1>3, LoadFacts, WorkerFacts DEF IInv
    <2>2. RequestInv'
      BY <1>3, <2>1, WorkerFacts DEF IInv, RequestInv
    <2>3. topo.head = map /\ topo.open = Opened(open)
      BY <1>3, WorkerFacts
    <2>4. Opened(open)' = Opened(open)
      BY DEF Opened
    <2>5. LayoutInv'
      BY <2>1, <2>3, <2>4 DEF LayoutInv, Settled
    <2>6. CanvasIsLatest'
      BY <1>3, <2>1, <2>4, WorkerFacts DEF CanvasIsLatest
    <2>7. QED
      BY <1>2, <2>2, <2>5, <2>6
  <1>4. CASE ~w.current
    <2>1. UNCHANGED <<load, outcome>> /\ load.at # "layout" /\ ~Settled
      BY <1>1, <1>4, WorkerFacts
    <2>2. RequestInv'
      BY <2>1 DEF IInv, RequestInv
    <2>3. LayoutInv' /\ CanvasIsLatest'
      BY <1>1, <2>1 DEF IInv, LayoutInv, CanvasIsLatest, Settled
    <2>4. QED
      BY <1>2, <2>2, <2>3
  <1>5. QED
    BY <1>3, <1>4

LEMMA StepLayoutDone ==
    ASSUME IInv, NEW w \in workers, LayoutDone(w)
    PROVE  IInv'
  <1>1. /\ canvas' = [head |-> w.head, open |-> w.open, edges |-> w.head]
        /\ inspector' = Inspect(selGroup, selNode) /\ error' = FALSE /\ EndLoad(w, "ok")
        /\ UNCHANGED <<head, cache, loading, req, map, topo, open, selGroup, selNode, auto,
                       picked, faults, clicks>>
    BY DEF LayoutDone, server, selection, counts
  <1>2. /\ load' \in Loads /\ workers' \subseteq Workers /\ cont' \in Nodes \cup {None}
        /\ outcome' \in {"none", "ok", "failed"} /\ timer' \in BOOLEAN
        /\ RequestInv' /\ LayoutInv' /\ CanvasIsLatest'
    BY <1>1, LoadEnds
  <1>3. canvas' \in Canvases
    BY <1>1, WorkerFacts DEF Workers, Canvases
  <1>4. /\ inspector' \in Inspectors
        /\ inspector'.kind = "detail" => inspector' = inspector
    BY <1>1, InspectFacts DEF IInv, TypeOK
  <1>5. TypeOK'
    BY <1>1, <1>2, <1>3, <1>4 DEF IInv, TypeOK, Loads, Workers, Canvases, Inspectors
  <1>6. DetailInv' /\ DetailIsLastPicked'
    BY <1>1, <1>4 DEF IInv, DetailInv, DetailIsLastPicked
  <1>7. QED
    BY <1>2, <1>5, <1>6 DEF IInv

LEMMA StepLayoutFails ==
    ASSUME IInv, NEW w \in workers, LayoutFails(w)
    PROVE  IInv'
  <1>1. /\ faults < MaxFaults /\ faults' = faults + 1 /\ error' = TRUE /\ EndLoad(w, "failed")
        /\ UNCHANGED <<head, cache, loading, req, map, topo, open, selGroup, selNode, canvas,
                       inspector, auto, picked, clicks>>
    BY DEF LayoutFails, server, selection
  <1>2. /\ load' \in Loads /\ workers' \subseteq Workers /\ cont' \in Nodes \cup {None}
        /\ outcome' \in {"none", "ok", "failed"} /\ timer' \in BOOLEAN
        /\ RequestInv' /\ LayoutInv' /\ CanvasIsLatest'
    BY <1>1, LoadEnds
  <1>3. faults' \in 0..MaxFaults
    BY <1>1, HeadFacts DEF IInv, TypeOK
  <1>4. TypeOK'
    BY <1>1, <1>2, <1>3 DEF IInv, TypeOK, Loads, Workers
  <1>5. DetailInv' /\ DetailIsLastPicked'
    BY <1>1 DEF IInv, DetailInv, DetailIsLastPicked
  <1>6. QED
    BY <1>2, <1>4, <1>5 DEF IInv

-----------------------------------------------------------------------------
(* The page: selection.                                                    *)

(* The picked node's detail is the only one that is asked for.             *)
LEMMA NodeSelected ==
    ASSUME IInv, NEW n \in Nodes, SelectNode(n)
    PROVE  /\ req' \in [Slots -> Request] /\ req'["load"] = req["load"]
           /\ selNode' \in Nodes \cup {None} /\ selGroup' \in Groups \cup {None}
           /\ picked' \in Nodes \cup {None} /\ inspector' \in Inspectors
           /\ DetailInv' /\ DetailIsLastPicked'
  <1>1. /\ selNode' = n /\ selGroup' = None /\ picked' = n
        /\ inspector' = [kind |-> "skeleton", id |-> n, snap |-> 0]
    BY DEF SelectNode
  <1>2. inspector' \in Inspectors /\ inspector'.kind = "skeleton"
    BY <1>1, HeadFacts DEF Inspectors
  <1> DEFINE spot == IF topo.head # 0 /\ Drawn
                       THEN BoundFetch(map, IndexMatches(topo, map, n, open)) ELSE Idle
  <1> DEFINE r(s) == CASE s = n -> Fetch(FALSE)
                       [] s \in Nodes \ {n} -> Idle
                       [] s = "spot" -> spot
                       [] OTHER -> req[s]
  <1>3. req' = [s \in Slots |-> r(s)]
    BY DEF SelectNode
  <1>4. req \in [Slots -> Request] /\ map \in Heads
    BY DEF IInv, TypeOK
  <1>5. spot \in Request
    <2>1. IndexMatches(topo, map, n, open) \in BOOLEAN
      BY DEF IndexMatches
    <2>2. QED
      BY <1>4, <2>1, FreshRequests
  <1> HIDE DEF spot
  <1>6. /\ r(n) = Fetch(FALSE) /\ \A m \in Nodes \ {n} : r(m) = Idle
        /\ r("spot") = spot /\ r("load") = req["load"] /\ r("head") = req["head"]
    <2>1. \A m \in Nodes : m # "spot" /\ m # "load" /\ m # "head"
      BY SlotFacts
    <2>2. r("spot") = spot
      BY <2>1
    <2>3. r("load") = req["load"] /\ r("head") = req["head"]
      BY <2>1
    <2>4. ASSUME NEW m \in Nodes \ {n} PROVE r(m) = Idle
      <3>1. m # n /\ m # "spot"
        BY <2>1
      <3>2. QED
        BY <3>1
    <2>5. r(n) = Fetch(FALSE)
      <3>1. n \notin Nodes \ {n} /\ n # "spot"
        BY <2>1
      <3>2. QED
        BY <3>1
    <2>6. QED
      BY <2>2, <2>3, <2>4, <2>5
  <1> HIDE DEF r
  <1>7. ASSUME NEW s \in Slots PROVE r(s) \in Request
    <2>1. Fetch(FALSE) \in Request /\ Idle \in Request
      BY FreshRequests
    <2>2. req["load"] \in Request /\ req["head"] \in Request
      BY <1>4, SlotFacts
    <2>3. s = "load" \/ s = "spot" \/ s = "head" \/ s = n \/ s \in Nodes \ {n}
      BY DEF Slots
    <2>4. QED
      BY <1>5, <1>6, <2>1, <2>2, <2>3
  <1>8. req' \in [Slots -> Request]
    BY <1>3, <1>7
  <1>9. req'["load"] = req["load"] /\ \A m \in Nodes \ {n} : req'[m] = Idle
    BY <1>3, <1>6, SlotFacts
  <1>10. DetailInv'
    BY <1>1, <1>9, FreshRequests DEF DetailInv
  <1>11. DetailIsLastPicked'
    BY <1>2 DEF DetailIsLastPicked
  <1>12. QED
    BY <1>1, <1>2, <1>8, <1>9, <1>10, <1>11

(* An answer for a node that is not the picked one cannot arrive.          *)
LEMMA StepDetailArrives ==
    ASSUME IInv, NEW n \in Nodes, DetailArrives(n)
    PROVE  IInv'
  <1>1. /\ req[n].at \in {"ok", "failed"} /\ req' = [req EXCEPT ![n] = Idle]
        /\ UNCHANGED <<head, cache, loading, map, topo, open, selGroup, selNode, load, workers,
                       cont, canvas, auto, timer, outcome, picked, faults, clicks>>
    BY DEF DetailArrives, server, selection, history, counts
  <1>2. \/ inspector' = [kind |-> "detail", id |-> n, snap |-> map] /\ error' = error
        \/ inspector' = inspector /\ error' = TRUE
    BY DEF DetailArrives
  <1>3. n = picked
    BY <1>1 DEF IInv, DetailInv
  <1>4. /\ req' \in [Slots -> Request] /\ req'["load"] = req["load"]
        /\ \A m \in Nodes : req'[m] = req[m] \/ req'[m] = Idle
    BY <1>1, SlotFacts, FreshRequests DEF IInv, TypeOK
  <1>5. canvas' \in Canvases /\ RequestInv' /\ LayoutInv' /\ CanvasIsLatest'
    BY <1>1, <1>4, LoadFrame
  <1>6. inspector' \in Inspectors /\ error' \in BOOLEAN
    <2>1. inspector \in Inspectors /\ map \in Heads /\ error \in BOOLEAN
      BY DEF IInv, TypeOK, Inspectors
    <2>2. [kind |-> "detail", id |-> n, snap |-> map] \in Inspectors
      BY <2>1 DEF Inspectors
    <2>3. QED
      BY <1>2, <2>1, <2>2
  <1>7. TypeOK'
    BY <1>1, <1>4, <1>6 DEF IInv, TypeOK, Inspectors
  <1>8. DetailInv'
    BY <1>1, <1>4, FreshRequests DEF IInv, DetailInv
  <1>9. DetailIsLastPicked'
    BY <1>1, <1>2, <1>3 DEF IInv, DetailIsLastPicked
  <1>10. QED
    BY <1>5, <1>7, <1>8, <1>9 DEF IInv

LEMMA StepSpotlightArrives ==
    ASSUME IInv, SpotlightArrives
    PROVE  IInv'
  <1>1. /\ req' = [req EXCEPT !["spot"] = Idle]
        /\ canvas' = canvas \/ canvas' = RedrawEdges
        /\ UNCHANGED <<head, cache, loading, map, topo, open, selGroup, selNode, load, workers,
                       cont, inspector, error, auto, timer, outcome, picked, faults, clicks>>
    BY DEF SpotlightArrives, server, selection, history, counts
  <1>2. /\ req' \in [Slots -> Request] /\ req'["load"] = req["load"]
        /\ \A m \in Nodes : req'[m] = req[m]
    BY <1>1, SlotFacts, FreshRequests DEF IInv, TypeOK
  <1>3. canvas' \in Canvases /\ RequestInv' /\ LayoutInv' /\ CanvasIsLatest'
    BY <1>1, <1>2, LoadFrame
  <1>4. TypeOK'
    BY <1>1, <1>2, <1>3 DEF IInv, TypeOK, Canvases
  <1>5. DetailInv' /\ DetailIsLastPicked'
    BY <1>1, <1>2 DEF IInv, DetailInv, DetailIsLastPicked
  <1>6. QED
    BY <1>3, <1>4, <1>5 DEF IInv

LEMMA StepContinue ==
    ASSUME IInv, Continue
    PROVE  IInv'
  <1>1. PICK n \in Nodes : n = cont
    BY DEF Continue, IInv, TypeOK
  <1>2. /\ SelectNode(n) /\ cont' = None
        /\ UNCHANGED <<head, cache, loading, map, topo, open, load, workers, canvas, error,
                       auto, timer, outcome, faults, clicks>>
    BY <1>1 DEF Continue, server, counts
  <1>3. /\ req' \in [Slots -> Request] /\ req'["load"] = req["load"]
        /\ selNode' \in Nodes \cup {None} /\ selGroup' \in Groups \cup {None}
        /\ picked' \in Nodes \cup {None} /\ inspector' \in Inspectors
        /\ DetailInv' /\ DetailIsLastPicked'
    BY <1>2, NodeSelected
  <1>4. RequestInv' /\ LayoutInv' /\ CanvasIsLatest'
    BY <1>2, <1>3, LoadFrame
  <1>5. TypeOK'
    BY <1>2, <1>3 DEF IInv, TypeOK, Inspectors
  <1>6. QED
    BY <1>3, <1>4, <1>5 DEF IInv

-----------------------------------------------------------------------------
(* The page: what the user does.                                           *)

LEMMA InputFacts ==
    ASSUME IInv, Input
    PROVE  clicks' \in 0..MaxClicks
  BY HeadFacts DEF Input, IInv, TypeOK

(* A load that begins from where the page is, with another expansion.      *)
LEMMA StepReload ==
    ASSUME IInv, NEW force \in BOOLEAN, NEW then \in Nodes \cup {None},
           LoadProject(req, force, then),
           open' \in Groups \cup {None}, selGroup' \in Groups \cup {None},
           selNode' \in Nodes \cup {None}, clicks' \in 0..MaxClicks,
           UNCHANGED <<head, cache, loading, map, topo, canvas, inspector, error, auto,
                       timer, outcome, picked, faults>>
    PROVE  IInv'
  <1>1. req \in [Slots -> Request]
    BY DEF IInv, TypeOK
  <1>2. /\ load' \in Loads /\ workers' \subseteq Workers /\ cont' \in Nodes \cup {None}
        /\ req' \in [Slots -> Request] /\ \A n \in Nodes : req'[n] = req[n]
        /\ RequestInv' /\ LayoutInv' /\ CanvasIsLatest'
    <2>1. PICK requests \in [Slots -> Request] : requests = req
      BY <1>1
    <2>2. LoadProject(requests, force, then)
      BY <2>1
    <2>3. QED
      BY <2>1, <2>2, LoadBegins
  <1>3. TypeOK'
    BY <1>2 DEF IInv, TypeOK, Loads, Workers
  <1>4. DetailInv' /\ DetailIsLastPicked'
    BY <1>2 DEF IInv, DetailInv, DetailIsLastPicked
  <1>5. QED
    BY <1>2, <1>3, <1>4 DEF IInv

LEMMA StepCollapse ==
    ASSUME IInv, Input, CollapseGroup
    PROVE  IInv'
  <1>1. /\ open' = None /\ selGroup' = None /\ LoadProject(req, FALSE, None)
        /\ UNCHANGED <<head, cache, loading, map, topo, selNode, canvas, inspector, error, auto,
                       timer, outcome, picked, faults>>
    BY DEF CollapseGroup, server, history
  <1>2. selNode' \in Nodes \cup {None}
    BY <1>1 DEF IInv, TypeOK
  <1>3. QED
    BY <1>1, <1>2, InputFacts, StepReload

LEMMA StepToggleGroup ==
    ASSUME IInv, NEW g \in Groups, ToggleGroup(g)
    PROVE  IInv'
  <1>1. CASE open = g
    BY <1>1, StepCollapse DEF ToggleGroup
  <1>2. CASE open # g
    <2>1. /\ Input /\ open' = g /\ selGroup' = g /\ selNode' = None
          /\ LoadProject(req, FALSE, None)
          /\ UNCHANGED <<head, cache, loading, map, topo, canvas, inspector, error, auto, timer,
                         outcome, picked, faults>>
      BY <1>2 DEF ToggleGroup, server, history
    <2>2. QED
      BY <2>1, InputFacts, StepReload
  <1>3. QED
    BY <1>1, <1>2

(* A node is selected by a click.                                          *)
LEMMA StepSelect ==
    ASSUME IInv, NEW n \in Nodes, SelectNode(n), clicks' \in 0..MaxClicks,
           UNCHANGED <<head, cache, loading, map, topo, open, load, workers, cont, canvas,
                       error, auto, timer, outcome, faults>>
    PROVE  IInv'
  <1>1. /\ req' \in [Slots -> Request] /\ req'["load"] = req["load"]
        /\ selNode' \in Nodes \cup {None} /\ selGroup' \in Groups \cup {None}
        /\ picked' \in Nodes \cup {None} /\ inspector' \in Inspectors
        /\ DetailInv' /\ DetailIsLastPicked'
    BY NodeSelected
  <1>2. RequestInv' /\ LayoutInv' /\ CanvasIsLatest'
    BY <1>1, LoadFrame
  <1>3. TypeOK'
    BY <1>1 DEF IInv, TypeOK, Inspectors
  <1>4. QED
    BY <1>1, <1>2, <1>3 DEF IInv

LEMMA StepClickNode ==
    ASSUME IInv, NEW n \in Nodes, ClickNode(n)
    PROVE  IInv'
  <1>1. /\ Input /\ SelectNode(n)
        /\ UNCHANGED <<head, cache, loading, map, topo, open, load, workers, cont, canvas,
                       error, auto, timer, outcome, faults>>
    BY DEF ClickNode, server
  <1>2. QED
    BY <1>1, InputFacts, StepSelect

LEMMA StepSelectLocatedNode ==
    ASSUME IInv, NEW n \in Nodes, SelectLocatedNode(n)
    PROVE  IInv'
  <1>1. /\ Input
        /\ UNCHANGED <<head, cache, loading, map, topo, canvas, error, auto, timer, outcome, faults>>
    BY DEF SelectLocatedNode, server
  <1>2. CASE Parent[n] # None /\ open # Parent[n]
    <2>1. /\ selNode' = None /\ selGroup' = None /\ open' = Parent[n]
          /\ LoadProject(req, FALSE, n) /\ UNCHANGED <<inspector, picked>>
      BY <1>2 DEF SelectLocatedNode
    <2>2. Parent[n] \in Groups \cup {None}
      BY ExplorerConstants
    <2>3. QED
      BY <1>1, <2>1, <2>2, InputFacts, StepReload
  <1>3. CASE ~(Parent[n] # None /\ open # Parent[n])
    <2>1. SelectNode(n) /\ UNCHANGED <<open, load, workers, cont>>
      BY <1>3 DEF SelectLocatedNode
    <2>2. QED
      BY <1>1, <2>1, InputFacts, StepSelect
  <1>4. QED
    BY <1>2, <1>3

LEMMA StepCloseInspector ==
    ASSUME IInv, CloseInspector
    PROVE  IInv'
  <1>1. /\ Input /\ selNode' = None /\ selGroup' = open /\ canvas' = RedrawEdges
        /\ inspector' = IF open # None /\ map = 0 THEN inspector ELSE Inspect(open, None)
        /\ UNCHANGED <<head, cache, loading, req, map, topo, open, load, workers, cont, error,
                       auto, timer, outcome, picked, faults>>
    BY DEF CloseInspector, server, history
  <1>2. canvas' \in Canvases /\ RequestInv' /\ LayoutInv' /\ CanvasIsLatest'
    BY <1>1, LoadFrame
  <1>3. open \in Groups \cup {None} /\ inspector \in Inspectors
    BY DEF IInv, TypeOK, Inspectors
  <1>4. /\ inspector' \in Inspectors
        /\ inspector'.kind = "detail" => inspector' = inspector
    BY <1>1, <1>3, InspectFacts DEF IInv
  <1>5. TypeOK'
    BY <1>1, <1>2, <1>3, <1>4, InputFacts DEF IInv, TypeOK, Canvases, Inspectors
  <1>6. DetailInv' /\ DetailIsLastPicked'
    BY <1>1, <1>4 DEF IInv, DetailInv, DetailIsLastPicked
  <1>7. QED
    BY <1>2, <1>5, <1>6 DEF IInv

LEMMA StepRefresh ==
    ASSUME IInv, Refresh
    PROVE  IInv'
  <1>1. /\ Input /\ LoadProject(req, TRUE, None)
        /\ UNCHANGED <<head, cache, loading, map, topo, open, selGroup, selNode, canvas, inspector,
                       error, auto, timer, outcome, picked, faults>>
    BY DEF Refresh, server, selection, history
  <1>2. /\ open' \in Groups \cup {None} /\ selGroup' \in Groups \cup {None}
        /\ selNode' \in Nodes \cup {None}
    BY <1>1 DEF IInv, TypeOK
  <1>3. QED
    BY <1>1, <1>2, InputFacts, StepReload

LEMMA StepPopState ==
    ASSUME IInv, NEW l \in Links, PopState(l)
    PROVE  IInv'
  <1>1. /\ Input /\ open' = l.group /\ selGroup' = l.group /\ selNode' = l.node
        /\ LoadProject(req, FALSE, None)
        /\ UNCHANGED <<head, cache, loading, map, topo, canvas, inspector,
                       error, auto, timer, outcome, picked, faults>>
    BY DEF PopState, server, history
  <1>2. l.group \in Groups \cup {None} /\ l.node \in Nodes \cup {None}
    BY ExplorerConstants
  <1>3. QED
    BY <1>1, <1>2, InputFacts, StepReload

LEMMA StepSetAutoRefresh ==
    ASSUME IInv, SetAutoRefresh
    PROVE  IInv'
  <1>1. /\ Input /\ auto' = ~auto /\ timer' = auto'
        /\ UNCHANGED <<head, cache, loading, req, map, topo, open, selGroup, selNode, load,
                       workers, cont, canvas, inspector, error, outcome, picked, faults>>
    BY DEF SetAutoRefresh, server, selection, history
  <1>2. TypeOK'
    BY <1>1, InputFacts DEF IInv, TypeOK
  <1>3. RequestInv' /\ LayoutInv' /\ CanvasIsLatest'
    BY <1>1, LoadFrame
  <1>4. DetailInv' /\ DetailIsLastPicked'
    BY <1>1 DEF IInv, DetailInv, DetailIsLastPicked
  <1>5. QED
    BY <1>2, <1>3, <1>4 DEF IInv

-----------------------------------------------------------------------------
(* The page: polling the head.                                             *)

LEMMA StepPollHead ==
    ASSUME IInv, PollHead
    PROVE  IInv'
  <1>1. /\ req' = [req EXCEPT !["head"] = Fetch(FALSE)] /\ timer' \in BOOLEAN
        /\ UNCHANGED <<head, cache, loading, map, topo, open, selGroup, selNode, load, workers,
                       cont, canvas, inspector, error, auto, outcome, picked, faults, clicks>>
    BY DEF PollHead, server, selection, history, counts
  <1>2. /\ req' \in [Slots -> Request] /\ req'["load"] = req["load"]
        /\ \A m \in Nodes : req'[m] = req[m]
    <2>1. Fetch(FALSE) \in Request
      BY FreshRequests
    <2>2. QED
      BY <1>1, <2>1, SlotFacts DEF IInv, TypeOK
  <1>3. RequestInv' /\ LayoutInv' /\ CanvasIsLatest'
    BY <1>1, <1>2, LoadFrame
  <1>4. TypeOK'
    <2>1. error' \in BOOLEAN /\ auto' \in BOOLEAN /\ timer' \in BOOLEAN
      BY <1>1 DEF IInv, TypeOK
    <2>2. {error', auto', timer'} \subseteq BOOLEAN
      BY <2>1
    <2>3. UNCHANGED <<head, cache, loading, map, topo, open, selGroup, selNode, load, workers,
                      cont, canvas, inspector, outcome, picked, faults, clicks>>
      BY <1>1
    <2>4. QED
      BY <1>2, <2>2, <2>3 DEF IInv, TypeOK
  <1>5. DetailInv' /\ DetailIsLastPicked'
    BY <1>1, <1>2 DEF IInv, DetailInv, DetailIsLastPicked
  <1>6. QED
    BY <1>3, <1>4, <1>5 DEF IInv

LEMMA StepHeadArrives ==
    ASSUME IInv, HeadArrives
    PROVE  IInv'
  <1>1. UNCHANGED <<head, cache, loading, map, topo, open, selGroup, selNode, canvas, inspector,
                    auto, outcome, picked, faults, clicks>>
    BY DEF HeadArrives, server, selection, history, counts
  <1>2. PICK rest : rest = [req EXCEPT !["head"] = Idle]
    OBVIOUS
  <1>3. \/ /\ error' \in BOOLEAN /\ timer' = auto /\ req' = rest
           /\ UNCHANGED <<load, workers, cont>>
        \/ LoadProject(rest, TRUE, None) /\ UNCHANGED <<error, timer>>
    <2>1. CASE req["head"].at = "failed"
      BY <1>2, <2>1 DEF HeadArrives
    <2>2. CASE req["head"].at = "ok" /\ req["head"].match
      BY <1>2, <2>2 DEF HeadArrives
    <2>3. CASE req["head"].at = "ok" /\ ~req["head"].match
      BY <1>2, <2>3 DEF HeadArrives
    <2>4. QED
      BY <2>1, <2>2, <2>3 DEF HeadArrives
  <1>4. /\ rest \in [Slots -> Request] /\ rest["load"] = req["load"]
        /\ \A m \in Nodes : rest[m] = req[m]
    BY <1>2, SlotFacts, FreshRequests DEF IInv, TypeOK
  <1>5. CASE /\ error' \in BOOLEAN /\ timer' = auto /\ req' = rest
             /\ UNCHANGED <<load, workers, cont>>
    <2>1. RequestInv' /\ LayoutInv' /\ CanvasIsLatest'
      BY <1>1, <1>4, <1>5, LoadFrame
    <2>2. TypeOK'
      BY <1>1, <1>4, <1>5 DEF IInv, TypeOK
    <2>3. DetailInv' /\ DetailIsLastPicked'
      BY <1>1, <1>4, <1>5 DEF IInv, DetailInv, DetailIsLastPicked
    <2>4. QED
      BY <2>1, <2>2, <2>3 DEF IInv
  <1>6. CASE LoadProject(rest, TRUE, None) /\ UNCHANGED <<error, timer>>
    <2>1. /\ load' \in Loads /\ workers' \subseteq Workers /\ cont' \in Nodes \cup {None}
          /\ req' \in [Slots -> Request] /\ \A n \in Nodes : req'[n] = rest[n]
          /\ RequestInv' /\ LayoutInv' /\ CanvasIsLatest'
      BY <1>4, <1>6, LoadBegins
    <2>2. TypeOK'
      BY <1>1, <1>6, <2>1 DEF IInv, TypeOK, Loads, Workers
    <2>3. DetailInv' /\ DetailIsLastPicked'
      BY <1>1, <1>4, <2>1 DEF IInv, DetailInv, DetailIsLastPicked
    <2>4. QED
      BY <2>1, <2>2, <2>3 DEF IInv
  <1>7. QED
    BY <1>3, <1>5, <1>6

-----------------------------------------------------------------------------
(* The invariant.                                                          *)

LEMMA InitInv == Init => IInv
  <1> SUFFICES ASSUME Init PROVE IInv
    OBVIOUS
  <1>1. PICK l \in Links : open = l.group /\ selGroup = l.group /\ selNode = l.node
    BY DEF Init
  <1>2. /\ open \in Groups \cup {None} /\ selGroup \in Groups \cup {None}
        /\ selNode \in Nodes \cup {None}
    BY <1>1, ExplorerConstants
  <1>3. load = [at |-> "map", then |-> None] /\ load \in Loads /\ load.at = "map" /\ load # NoLoad
    BY DEF Init, Loads, NoLoad
  <1>4. /\ req \in [Slots -> Request] /\ req["load"].at = "sent"
        /\ \A n \in Nodes : req[n].at = "none"
    <2>1. req = [s \in Slots |-> IF s = "load" THEN Fetch(FALSE) ELSE Idle]
      BY DEF Init
    <2>2. QED
      BY <2>1, FreshRequests, SlotFacts
  <1>5. /\ topo \in Topologies /\ canvas \in Canvases /\ inspector \in Inspectors
        /\ inspector.kind = "closed" /\ loading \in [on : BOOLEAN, snap : Heads]
    BY HeadFacts DEF Init, Nothing, Closed, NotLoading, Topologies, Canvases, Inspectors
  <1>6. TypeOK
    <2>1. head \in 1..MaxHead /\ cache \in Heads /\ map \in Heads
      BY HeadFacts DEF Init
    <2>2. faults \in 0..MaxFaults /\ clicks \in 0..MaxClicks
      BY HeadFacts DEF Init
    <2>3. /\ workers = {} /\ cont = None /\ {error, auto, timer} \subseteq BOOLEAN
          /\ outcome = "none" /\ picked = None
      BY DEF Init
    <2>4. QED
      BY <1>2, <1>3, <1>4, <1>5, <2>1, <2>2, <2>3 DEF TypeOK, Loads, Topologies, Canvases, Inspectors
  <1>7. RequestInv
    BY <1>3, <1>4 DEF RequestInv, Good
  <1>8. LayoutInv /\ CanvasIsLatest
    BY <1>3 DEF Init, LayoutInv, CanvasIsLatest, Settled
  <1>9. DetailInv /\ DetailIsLastPicked
    BY <1>4, <1>5 DEF DetailInv, DetailIsLastPicked
  <1>10. QED
    BY <1>6, <1>7, <1>8, <1>9 DEF IInv

LEMMA NextInv ==
    ASSUME IInv, [Next]_vars
    PROVE  IInv'
  <1>1. CASE UNCHANGED vars
    <2>1. UNCHANGED <<head, cache, loading, req, map, topo, open, selGroup, selNode, load, workers,
                      cont, canvas, inspector, error, auto, timer, outcome, picked, faults, clicks>>
      BY <1>1 DEF vars, server, selection, history, counts
    <2>2. TypeOK'
      BY <2>1 DEF IInv, TypeOK
    <2>3. RequestInv' /\ LayoutInv' /\ CanvasIsLatest'
      BY <2>1, LoadFrame
    <2>4. DetailInv' /\ DetailIsLastPicked'
      BY <2>1 DEF IInv, DetailInv, DetailIsLastPicked
    <2>5. QED
      BY <2>2, <2>3, <2>4 DEF IInv
  <1>2. CASE Append
    BY <1>2, StepAppend
  <1>3. CASE OtherRefresh
    BY <1>3, StepReplay
  <1>4. CASE ServerStep
    BY <1>4, StepServe, StepReplay, StepPopulate, StepHead DEF ServerStep
  <1>5. CASE PageStep
    BY <1>5, StepMapArrives, StepMembersArrive, StepEdgesArrive, StepLoadFails, StepLayoutDone,
       StepDetailArrives, StepSpotlightArrives, StepContinue, StepPollHead, StepHeadArrives
       DEF PageStep
  <1>6. CASE UserStep
    <2>1. ASSUME Escape PROVE IInv'
      BY <2>1, StepCollapse DEF Escape
    <2>2. QED
      BY <1>6, <2>1, StepToggleGroup, StepClickNode, StepSelectLocatedNode, StepPopState,
         StepCloseInspector, StepRefresh, StepSetAutoRefresh DEF UserStep
  <1>7. CASE Fault
    BY <1>7, StepLoseAnswer, StepLayoutFails, StepPopulate DEF Fault
  <1>8. QED
    BY <1>1, <1>2, <1>3, <1>4, <1>5, <1>6, <1>7 DEF Next

-----------------------------------------------------------------------------
(* The theorems.                                                           *)

(* The inductive invariant holds whatever the page (app.ts), its server    *)
(* (api.go, cache.go) and the user do.                                     *)
THEOREM PageInvariant == Spec => []IInv
  <1>1. Init => IInv
    BY InitInv
  <1>2. IInv /\ [Next]_vars => IInv'
    BY NextInv
  <1>3. QED
    BY <1>1, <1>2, PTL DEF Spec

(* The state of the page (app.ts) and of its requests keeps its shape.     *)
THEOREM PageTypeOK == Spec => []TypeOK
  <1>1. IInv => TypeOK
    BY DEF IInv
  <1>2. QED
    BY <1>1, PageInvariant, PTL

(* loadProject and layoutGraph (app.ts): once the latest load has been     *)
(* drawn, no layout of an earlier one and no late spotlight replaces it.   *)
THEOREM CanvasStaysLatest == Spec => []CanvasIsLatest
  <1>1. IInv => CanvasIsLatest
    BY DEF IInv
  <1>2. QED
    BY <1>1, PageInvariant, PTL

(* selectNode (app.ts) aborts the detail asked for before: whatever the    *)
(* order of the answers, the inspector shows the node picked last.         *)
THEOREM DetailStaysLastPicked == Spec => []DetailIsLastPicked
  <1>1. IInv => DetailIsLastPicked
    BY DEF IInv
  <1>2. QED
    BY <1>1, PageInvariant, PTL
=============================================================================
