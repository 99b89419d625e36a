------------------------------ MODULE Explorer ------------------------------
(***************************************************************************)
(* The read-only Explorer: one browser page (internal/ui/web/app.ts), the  *)
(* endpoints it calls (internal/ui/api.go) and the snapshot cache behind   *)
(* them (internal/ui/cache.go).                                            *)
(*                                                                         *)
(* The page is one thread of event handlers that suspend at every fetch    *)
(* and at the layout worker's answer. A handler up to its first await, and *)
(* from one await to the next, is one step; the continuation of a load     *)
(* that was aborted runs before any other handler. The journal's writer    *)
(* and other pages run between any two steps.                              *)
(*                                                                         *)
(* A snapshot is the journal head it was reduced from. Groups are flat, a  *)
(* paginated request is one exchange (each page repeats the same request   *)
(* and the same checks), and what is drawn is abstracted to the snapshot   *)
(* and the expansion it was drawn from. A poll that finds the page busy,   *)
(* hidden or in use arms its timer again and is no step.                   *)
(***************************************************************************)
EXTENDS Integers, FiniteSets

CONSTANTS Nodes,      \* node identifiers
          Groups,     \* group identifiers
          None,       \* the empty identifier
          Parent,     \* the group of each node; None for a global node
          Links,      \* addresses the page may be opened with
          OtherPages, \* whether another page uses the same server
          MaxHead,    \* bound: head sequence of the journal
          MaxFaults,  \* bound: answers lost and replays or layouts failed
          MaxClicks,  \* bound: user inputs
          MaxEvents   \* bound: appends, faults and user inputs together

Heads == 0..MaxHead   \* zero: no snapshot

ASSUME ExplorerConstants ==
    /\ None \notin Nodes \cup Groups /\ Nodes \cap Groups = {}
    /\ Nodes \cap {"load", "spot", "head"} = {}   \* the slots are distinct
    /\ Parent \in [Nodes -> Groups \cup {None}]
    /\ Links \subseteq [group : Groups \cup {None}, node : Nodes \cup {None}]
    /\ OtherPages \in BOOLEAN
    /\ MaxHead \in Nat \ {0} /\ MaxFaults \in Nat /\ MaxClicks \in Nat
    /\ MaxEvents \in Nat

Slots == {"load", "spot", "head"} \cup Nodes   \* a node's slot: its detail

VARIABLES
    head,       \* sequence of the journal head
    cache,      \* head of the server's cached snapshot
    loading,    \* the replay under way: none, or what it has read
    req,        \* the request of each slot
    map,        \* head of state.map, shown as the page's revision
    topo,       \* state.topology
    open,       \* state.expanded
    selGroup,   \* state.selectedGroup
    selNode,    \* state.selectedNode
    load,       \* the load that state.controller belongs to
    workers,    \* live layout workers
    cont,       \* continuation of an ended load, run before other handlers
    canvas,     \* what the node layer and the edge layer were drawn from
    inspector,  \* what the inspector shows
    error,      \* whether the page reports an error and a lost connection
    auto,       \* whether automatic refresh is on
    timer,      \* whether the refresh timer is armed
    outcome,    \* history: how the last load ended
    picked,     \* history: the node selectNode was last called with
    faults, clicks

server    == <<head, cache, loading>>
selection == <<open, selGroup, selNode>>
history   == <<outcome, picked>>
counts    == <<faults, clicks>>
vars == <<server, req, map, topo, selection, load, workers, cont, canvas,
          inspector, error, auto, timer, history, counts>>

Idle    == [at |-> "none", snap |-> 0, bound |-> 0, match |-> FALSE, force |-> FALSE]
Request == [at : {"none", "sent", "joined", "got", "ok", "failed"}, snap : Heads,
            bound : Heads, match : BOOLEAN, force : BOOLEAN]

Fetch(force)        == [Idle EXCEPT !.at = "sent", !.force = force]
BoundFetch(snap, m) == [Idle EXCEPT !.at = "sent", !.bound = snap, !.match = m]

Nothing  == [head |-> 0, open |-> {}]           \* no topology, nothing drawn
NoLoad   == [at |-> "none", then |-> None]
Closed   == [kind |-> "closed", id |-> None, snap |-> 0]
Opened(g) == {g} \ {None}

MayHappen == (head - 1) + faults + clicks < MaxEvents

-----------------------------------------------------------------------------
(* The server and the journal behind it.                                   *)

Append ==
    /\ head < MaxHead /\ MayHappen
    /\ head' = head + 1
    /\ UNCHANGED <<cache, loading, req, map, topo, selection, load, workers, cont,
                   canvas, inspector, error, auto, timer, history, counts>>

(* A bound page must come from the named snapshot, and the head must not   *)
(* have moved since; an edge index must be the one of that expansion.      *)
Answer(r, snap) ==
    [r EXCEPT !.snap = snap,
              !.at = IF r.bound = 0 \/ (r.bound = snap /\ snap = head /\ r.match)
                     THEN "ok" ELSE "failed"]

(* snapshotFor: serve the cached snapshot, or join the one replay.         *)
Serve(s) ==
    /\ s # "head" /\ req[s].at = "sent"
    /\ IF ~req[s].force /\ ~loading.on /\ cache # 0
         THEN /\ req' = [req EXCEPT ![s] = Answer(@, cache)]
              /\ UNCHANGED loading
         ELSE /\ req' = [req EXCEPT ![s].at = "joined"]
              /\ loading' = [loading EXCEPT !.on = TRUE]
    /\ UNCHANGED <<head, cache, map, topo, selection, load, workers, cont, canvas,
                   inspector, error, auto, timer, history, counts>>

(* A forced refresh of another page starts, or joins, the same replay.     *)
OtherRefresh ==
    /\ OtherPages /\ ~loading.on
    /\ loading' = [loading EXCEPT !.on = TRUE]
    /\ UNCHANGED <<head, cache, req, map, topo, selection, load, workers, cont,
                   canvas, inspector, error, auto, timer, history, counts>>

(* populate: the replay reads a prefix, then publishes it to the cache and *)
(* to everyone who joined, whether or not the first requester still waits. *)
ReplayReads ==
    /\ loading.on /\ loading.snap = 0
    /\ loading' = [loading EXCEPT !.snap = head]
    /\ UNCHANGED <<head, cache, req, map, topo, selection, load, workers, cont,
                   canvas, inspector, error, auto, timer, history, counts>>

NotLoading == [on |-> FALSE, snap |-> 0]

Populate ==
    /\ loading.on /\ loading.snap # 0
    /\ cache' = loading.snap
    /\ req' = [s \in Slots |-> IF req[s].at = "joined"
                               THEN Answer(req[s], loading.snap)
                               ELSE req[s]]
    /\ loading' = NotLoading
    /\ UNCHANGED <<head, map, topo, selection, load, workers, cont, canvas,
                   inspector, error, auto, timer, history, counts>>

PopulateFails ==
    /\ loading.on /\ faults < MaxFaults /\ MayHappen
    /\ faults' = faults + 1
    /\ req' = [s \in Slots |-> IF req[s].at = "joined"
                               THEN [req[s] EXCEPT !.at = "failed"] ELSE req[s]]
    /\ loading' = NotLoading
    /\ UNCHANGED <<head, cache, map, topo, selection, load, workers, cont, canvas,
                   inspector, error, auto, timer, history, clicks>>

(* The head endpoint reads the journal's tail first and the cache later.   *)
InspectHead ==
    /\ req["head"].at = "sent"
    /\ req' = [req EXCEPT !["head"].at = "got", !["head"].snap = head]
    /\ UNCHANGED <<server, map, topo, selection, load, workers, cont, canvas,
                   inspector, error, auto, timer, history, counts>>

Unchanged(seen, snap) == snap # 0 /\ snap = seen

CompareHead ==
    /\ req["head"].at = "got"
    /\ req' = [req EXCEPT !["head"].at = "ok",
                          !["head"].match = Unchanged(req["head"].snap, cache)]
    /\ UNCHANGED <<server, map, topo, selection, load, workers, cont, canvas,
                   inspector, error, auto, timer, history, counts>>

(* The answer is lost, or the server reports an error of its own.          *)
LoseAnswer(s) ==
    /\ req[s].at \in {"sent", "joined", "got", "ok"} /\ faults < MaxFaults /\ MayHappen
    /\ faults' = faults + 1
    /\ req' = [req EXCEPT ![s].at = "failed"]
    /\ UNCHANGED <<server, map, topo, selection, load, workers, cont, canvas,
                   inspector, error, auto, timer, history, clicks>>

-----------------------------------------------------------------------------
(* The page: loading the project.                                          *)

(* loadProject up to its first await. The load it replaces is aborted: one *)
(* that waits for a fetch ends now, one that waits for its layout goes on. *)
LoadProject(requests, force, then) ==
    /\ load' = [at |-> "map", then |-> then]
    /\ req' = [requests EXCEPT !["load"] = Fetch(force)]
    /\ cont' = IF load.at = "layout" THEN None ELSE load.then
    /\ workers' = {[w EXCEPT !.current = FALSE] : w \in workers}

Focus == IF selGroup # None THEN selGroup ELSE selNode

(* Whether the edge index of topology t is the one the server derives: it  *)
(* expands the ancestors of the focus on top of state.expanded.            *)
IndexMatches(t, snap, focus, expanded) ==
    /\ t.head = snap
    /\ t.open = Opened(expanded) \cup (IF focus \in Nodes THEN Opened(Parent[focus]) ELSE {})

(* Mutant: the worker of the load that was replaced is not terminated.     *)
LayoutGraphKeepsWorker(t) ==
    /\ workers' = workers \cup
         {[head |-> t.head, open |-> t.open, then |-> load.then, current |-> TRUE]}
    /\ load' = [load EXCEPT !.at = "layout"]
    /\ req' = [req EXCEPT !["load"] = Idle]

(* layoutGraph: terminate the previous worker and start another.           *)
LayoutGraph(t) ==
    /\ workers' = {[head |-> t.head, open |-> t.open, then |-> load.then, current |-> TRUE]}
    /\ load' = [load EXCEPT !.at = "layout"]
    /\ req' = [req EXCEPT !["load"] = Idle]

(* renderGraph up to its next await, after state.topology became t.        *)
RenderGraph(t, snap) ==
    IF Focus # None
      THEN /\ load' = [load EXCEPT !.at = "edges"]
           /\ req' = [req EXCEPT !["load"] =
                        BoundFetch(snap, IndexMatches(t, snap, Focus, open))]
           /\ UNCHANGED workers
      ELSE LayoutGraph(t)

MapArrives ==
    /\ cont = None /\ load.at = "map" /\ req["load"].at = "ok"
    /\ LET snap == req["load"].snap IN
         /\ map' = snap
         /\ IF open # None
              THEN /\ load' = [load EXCEPT !.at = "members"]
                   /\ req' = [req EXCEPT !["load"] = BoundFetch(snap, TRUE)]
                   /\ UNCHANGED <<topo, workers>>
              ELSE /\ topo' = [head |-> snap, open |-> {}]
                   /\ RenderGraph(topo', snap)
    /\ UNCHANGED <<server, selection, cont, canvas, inspector, error, auto, timer,
                   history, counts>>

MembersArrive ==
    /\ cont = None /\ load.at = "members" /\ req["load"].at = "ok"
    /\ topo' = [head |-> req["load"].snap, open |-> Opened(open)]
    /\ RenderGraph(topo', map)
    /\ UNCHANGED <<server, map, selection, cont, canvas, inspector, error, auto, timer,
                   history, counts>>

EdgesArrive ==
    /\ cont = None /\ load.at = "edges" /\ req["load"].at = "ok"
    /\ LayoutGraph(topo)
    /\ UNCHANGED <<server, map, topo, selection, cont, canvas, inspector, error, auto,
                   timer, history, counts>>

(* Mutant: a failed load is reported but not ended.                        *)
LoadFailsStaysBusy ==
    /\ cont = None /\ req["load"].at = "failed"
    /\ req' = [req EXCEPT !["load"] = Idle]
    /\ error' = TRUE
    /\ UNCHANGED <<server, map, topo, selection, load, workers, cont, canvas, inspector,
                   auto, timer, history, counts>>

(* A load that fails reports it and, still being the current one, gives    *)
(* the page back and arms the timer.                                       *)
LoadFails ==
    /\ cont = None /\ req["load"].at = "failed"
    /\ req' = [req EXCEPT !["load"] = Idle]
    /\ load' = NoLoad /\ cont' = load.then
    /\ error' = TRUE /\ timer' = auto
    /\ outcome' = "failed"
    /\ UNCHANGED <<server, map, topo, selection, workers, canvas, inspector, auto,
                   picked, counts>>

(* renderInspector, for the given selection.                               *)
Inspect(group, node) ==
    CASE node # None  -> inspector
      [] node = None /\ group # None -> [kind |-> "group", id |-> group, snap |-> map]
      [] OTHER -> Closed

(* What follows the await of loadProject, whatever became of the load.     *)
EndLoad(w, ended) ==
    /\ workers' = workers \ {w}
    /\ cont' = w.then
    /\ IF w.current
         THEN load' = NoLoad /\ timer' = auto /\ outcome' = ended
         ELSE UNCHANGED <<load, timer, outcome>>

LayoutDone(w) ==
    /\ cont = None /\ w \in workers
    /\ canvas' = [head |-> w.head, open |-> w.open, edges |-> w.head]
    /\ inspector' = Inspect(selGroup, selNode)
    /\ error' = FALSE
    /\ EndLoad(w, "ok")
    /\ UNCHANGED <<server, req, map, topo, selection, auto, picked, counts>>

LayoutFails(w) ==
    /\ cont = None /\ w \in workers /\ faults < MaxFaults /\ MayHappen
    /\ faults' = faults + 1
    /\ error' = TRUE
    /\ EndLoad(w, "failed")
    /\ UNCHANGED <<server, req, map, topo, selection, canvas, inspector, auto, picked,
                   clicks>>

-----------------------------------------------------------------------------
(* The page: selection.                                                    *)

Drawn == canvas.head # 0

(* Mutant: the detail asked for before is not aborted.                     *)
SelectNodeKeepsDetail(n) ==
    /\ selNode' = n /\ selGroup' = None /\ picked' = n
    /\ inspector' = [kind |-> "skeleton", id |-> n, snap |-> 0]
    /\ req' = [req EXCEPT ![n] = Fetch(FALSE)]

(* selectNode up to its awaits: the previous detail and its spotlight are  *)
(* aborted, the new ones sent.                                             *)
SelectNode(n) ==
    /\ selNode' = n /\ selGroup' = None /\ picked' = n
    /\ inspector' = [kind |-> "skeleton", id |-> n, snap |-> 0]
    /\ req' = [s \in Slots |->
                 CASE s = n -> Fetch(FALSE)
                   [] s \in Nodes \ {n} -> Idle
                   [] s = "spot" -> IF topo.head # 0 /\ Drawn
                                    THEN BoundFetch(map, IndexMatches(topo, map, n, open))
                                    ELSE Idle
                   [] OTHER -> req[s]]

(* The detail is shown if it belongs to the page's snapshot.               *)
DetailArrives(n) ==
    /\ cont = None /\ req[n].at \in {"ok", "failed"}
    /\ req' = [req EXCEPT ![n] = Idle]
    /\ IF req[n].at = "ok" /\ req[n].snap = map
         THEN /\ inspector' = [kind |-> "detail", id |-> n, snap |-> map]
              /\ UNCHANGED error
         ELSE error' = TRUE /\ UNCHANGED inspector
    /\ UNCHANGED <<server, map, topo, selection, load, workers, cont, canvas, auto,
                   timer, history, counts>>

(* The edge layer is drawn again, from whatever the topology now is.       *)
RedrawEdges == IF topo.head # 0 /\ Drawn THEN [canvas EXCEPT !.edges = topo.head] ELSE canvas

SpotlightArrives ==
    /\ cont = None /\ req["spot"].at \in {"ok", "failed"}
    /\ canvas' = IF req["spot"].at = "ok" THEN RedrawEdges ELSE canvas
    /\ req' = [req EXCEPT !["spot"] = Idle]
    /\ UNCHANGED <<server, map, topo, selection, load, workers, cont, inspector, error,
                   auto, timer, history, counts>>

(* selectLocatedNode after its load ended, loaded or not.                  *)
Continue ==
    /\ cont # None
    /\ cont' = None
    /\ SelectNode(cont)
    /\ UNCHANGED <<server, map, topo, open, load, workers, canvas, error, auto, timer,
                   outcome, counts>>

-----------------------------------------------------------------------------
(* The page: what the user does.                                           *)

Input == cont = None /\ clicks < MaxClicks /\ MayHappen /\ clicks' = clicks + 1

CollapseGroup ==
    /\ open' = None /\ selGroup' = None
    /\ LoadProject(req, FALSE, None)
    /\ UNCHANGED <<server, map, topo, selNode, canvas, inspector, error, auto, timer,
                   history, faults>>

ToggleGroup(g) ==
    /\ Input /\ load = NoLoad
    /\ IF open = g
         THEN CollapseGroup
         ELSE /\ open' = g /\ selGroup' = g /\ selNode' = None
              /\ LoadProject(req, FALSE, None)
              /\ UNCHANGED <<server, map, topo, canvas, inspector, error, auto, timer,
                             history, faults>>

(* A node can be clicked where it is drawn.                                *)
ClickNode(n) ==
    /\ Input
    /\ Drawn /\ Opened(Parent[n]) \subseteq canvas.open
    /\ SelectNode(n)
    /\ UNCHANGED <<server, map, topo, open, load, workers, cont, canvas, error, auto,
                   timer, outcome, faults>>

(* Mutant: the item itself is expanded, not the last of its ancestors.     *)
SelectLocatedNodeOpensItem(n) ==
    /\ Input /\ map # 0
    /\ selNode' = None /\ selGroup' = None /\ open' = n
    /\ LoadProject(req, FALSE, n)
    /\ UNCHANGED <<server, map, topo, canvas, inspector, error, auto, timer, history,
                   faults>>

SelectLocatedNode(n) ==
    /\ Input /\ map # 0
    /\ IF Parent[n] # None /\ open # Parent[n]
         THEN /\ selNode' = None /\ selGroup' = None /\ open' = Parent[n]
              /\ LoadProject(req, FALSE, n)
              /\ UNCHANGED <<inspector, picked>>
         ELSE /\ SelectNode(n)
              /\ UNCHANGED <<open, load, workers, cont>>
    /\ UNCHANGED <<server, map, topo, canvas, error, auto, timer, outcome, faults>>

(* The inspector's close button, and Escape while a node is selected.      *)
CloseInspector ==
    /\ Input
    /\ selNode' = None /\ selGroup' = open
    /\ inspector' = IF open # None /\ map = 0 THEN inspector ELSE Inspect(open, None)
    /\ canvas' = RedrawEdges
    /\ UNCHANGED <<server, req, map, topo, open, load, workers, cont, error, auto, timer,
                   history, faults>>

(* Escape while no node is selected; it does not wait for a load to end.   *)
Escape ==
    /\ Input /\ selNode = None /\ open # None
    /\ CollapseGroup

Refresh ==
    /\ Input
    /\ LoadProject(req, TRUE, None)
    /\ UNCHANGED <<server, map, topo, selection, canvas, inspector, error, auto, timer,
                   history, faults>>

(* readURL, then a load: an address brings an expansion and a selection.   *)
PopState(l) ==
    /\ Input
    /\ open' = l.group /\ selGroup' = l.group /\ selNode' = l.node
    /\ LoadProject(req, FALSE, None)
    /\ UNCHANGED <<server, map, topo, canvas, inspector, error, auto, timer, history,
                   faults>>

SetAutoRefresh ==
    /\ Input
    /\ auto' = ~auto /\ timer' = auto'
    /\ UNCHANGED <<server, req, map, topo, selection, load, workers, cont, canvas,
                   inspector, error, history, faults>>

-----------------------------------------------------------------------------
(* The page: polling the head.                                             *)

PollHead ==
    /\ cont = None /\ timer
    /\ load = NoLoad /\ Focus = None
    /\ req["head"].at = "none"
    /\ timer' = FALSE
    /\ req' = [req EXCEPT !["head"] = Fetch(FALSE)]
    /\ UNCHANGED <<server, map, topo, selection, load, workers, cont, canvas, inspector,
                   error, auto, history, counts>>

(* Mutant: a failed poll does not arm the timer again.                     *)
HeadArrivesOnce ==
    /\ cont = None /\ req["head"].at \in {"ok", "failed"}
    /\ req' = [req EXCEPT !["head"] = Idle]
    /\ error' = (req["head"].at = "failed")
    /\ timer' = (auto /\ ~error')
    /\ UNCHANGED <<server, map, topo, selection, load, workers, cont, canvas, inspector,
                   auto, history, counts>>

(* The load of a changed head does not ask again whether the page is busy. *)
HeadArrives ==
    /\ cont = None /\ req["head"].at \in {"ok", "failed"}
    /\ LET rest == [req EXCEPT !["head"] = Idle] IN
         CASE req["head"].at = "failed" ->
                /\ error' = TRUE /\ timer' = auto /\ req' = rest
                /\ UNCHANGED <<load, workers, cont>>
           [] req["head"].at = "ok" /\ req["head"].match ->
                /\ error' = FALSE /\ timer' = auto /\ req' = rest
                /\ UNCHANGED <<load, workers, cont>>
           [] OTHER ->
                LoadProject(rest, TRUE, None) /\ UNCHANGED <<error, timer>>
    /\ UNCHANGED <<server, map, topo, selection, canvas, inspector, auto, history, counts>>

-----------------------------------------------------------------------------
Init ==
    /\ head = 1 /\ cache = 0 /\ loading = NotLoading
    /\ req = [s \in Slots |-> IF s = "load" THEN Fetch(FALSE) ELSE Idle]
    /\ map = 0 /\ topo = Nothing
    /\ \E l \in Links : open = l.group /\ selGroup = l.group /\ selNode = l.node
    /\ load = [at |-> "map", then |-> None]
    /\ workers = {} /\ cont = None
    /\ canvas = [head |-> 0, open |-> {}, edges |-> 0]
    /\ inspector = Closed
    /\ error = FALSE
    /\ auto \in BOOLEAN /\ timer = FALSE
    /\ outcome = "none" /\ picked = None
    /\ faults = 0 /\ clicks = 0

ServerStep ==
    \/ \E s \in Slots : Serve(s)
    \/ ReplayReads \/ Populate \/ InspectHead \/ CompareHead

PageStep ==
    \/ MapArrives \/ MembersArrive \/ EdgesArrive \/ LoadFails
    \/ \E w \in workers : LayoutDone(w)
    \/ \E n \in Nodes : DetailArrives(n)
    \/ SpotlightArrives \/ Continue \/ PollHead \/ HeadArrives

UserStep ==
    \/ \E g \in Groups : ToggleGroup(g)
    \/ \E n \in Nodes : ClickNode(n) \/ SelectLocatedNode(n)
    \/ \E l \in Links : PopState(l)
    \/ CloseInspector \/ Escape \/ Refresh \/ SetAutoRefresh

Fault ==
    \/ \E s \in Slots : LoseAnswer(s)
    \/ \E w \in workers : LayoutFails(w)
    \/ PopulateFails

Next == Append \/ OtherRefresh \/ ServerStep \/ PageStep \/ UserStep \/ Fault

Spec == Init /\ [][Next]_vars

(* The server answers what it is asked and the replay ends; the page takes *)
(* up what has arrived; the worker lays out; an armed timer fires. Writers,*)
(* users and other pages may stop.                                         *)
Fairness ==
    /\ WF_vars(\E s \in Slots : Serve(s))
    /\ WF_vars(ReplayReads \/ Populate)
    /\ WF_vars(InspectHead \/ CompareHead)
    /\ WF_vars(MapArrives \/ MembersArrive \/ EdgesArrive \/ LoadFails)
    /\ WF_vars(\E w \in workers : LayoutDone(w))
    /\ WF_vars(\E n \in Nodes : DetailArrives(n))
    /\ WF_vars(SpotlightArrives) /\ WF_vars(Continue)
    /\ WF_vars(PollHead) /\ WF_vars(HeadArrives)

FairSpec == Spec /\ Fairness

-----------------------------------------------------------------------------
(* Type correctness of the server's, the page's and the requests' state.   *)
TypeOK ==
    /\ head \in 1..MaxHead /\ cache \in Heads /\ map \in Heads
    /\ loading \in [on : BOOLEAN, snap : Heads]
    /\ req \in [Slots -> Request]
    /\ topo \in [head : Heads, open : SUBSET Groups]
    /\ open \in Groups \cup {None} /\ selGroup \in Groups \cup {None}
    /\ selNode \in Nodes \cup {None} /\ picked \in Nodes \cup {None}
    /\ load \in [at : {"none", "map", "members", "edges", "layout"}, then : Nodes \cup {None}]
    /\ workers \subseteq [head : Heads, open : SUBSET Groups, then : Nodes \cup {None},
                          current : BOOLEAN]
    /\ cont \in Nodes \cup {None}
    /\ canvas \in [head : Heads, open : SUBSET Groups, edges : Heads]
    /\ inspector \in [kind : {"closed", "skeleton", "detail", "group"},
                      id : Nodes \cup Groups \cup {None}, snap : Heads]
    /\ {error, auto, timer} \subseteq BOOLEAN
    /\ outcome \in {"none", "ok", "failed"}
    /\ faults \in 0..MaxFaults /\ clicks \in 0..MaxClicks

(* Once the latest load has been drawn, the canvas shows that load's       *)
(* snapshot and expansion, and goes on showing it: no layout of a load it  *)
(* replaced is drawn over it, and late spotlight answers add edges of the  *)
(* same snapshot only.                                                     *)
CanvasIsLatest ==
    load = NoLoad /\ outcome = "ok" =>
        canvas = [head |-> map, open |-> Opened(open), edges |-> map]

(* The detail in the inspector is the one of the node picked last, however *)
(* late the answers for nodes picked before it arrive.                     *)
DetailIsLastPicked ==
    inspector.kind = "detail" => inspector.id = picked

(* The page does not stay busy: every load ends or is replaced by one that *)
(* ends, the loads whose layout was terminated and never answers included. *)
(* A page that stayed busy would refuse every expansion.                   *)
BusySettles == (load # NoLoad) ~> (load = NoLoad)

(* Automatic refresh, once on, keeps its timer going through failures,     *)
(* replaced loads and its own polls until it is turned off.                *)
PollKeepsRunning == auto ~> (timer \/ ~auto)
=============================================================================
