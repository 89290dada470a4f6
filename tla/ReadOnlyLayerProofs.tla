------------------------ MODULE ReadOnlyLayerProofs ------------------------
(***************************************************************************)
(* What ReadOnlyLayer promises, proved for any lists of denies, with or    *)
(* without the owner's MCP servers, and any number of picks, turns and     *)
(* faults: what the hub believes confirmed, the child holds; a turn sent   *)
(* under Read-only finds its layer; the chip ends on the child's mode.     *)
(*                                                                         *)
(* The invariant has four parts, each with one lemma per kind of step.     *)
(*                                                                         *)
(* Place (DispatchIsWhole, AtSpawn): where the dispatching thread can be,  *)
(* and that no child is there while one is being spawned.                  *)
(*                                                                         *)
(* Hub (HubInv): an id names one request from its writing to its answer,   *)
(* so an answer is matched with what it answers (IdsAreOnce); the apply in *)
(* flight is the last one, and the child that answered it holds it         *)
(* (FlyingIsLast); unless something was refused, a query is tracked until  *)
(* its answer is folded, and the hub knows the child's last answer.        *)
(*                                                                         *)
(* Cover (CoverInv): while a Read-only turn is under way the layer is on;  *)
(* the last apply on its way to the child has denies, or the child holds   *)
(* some; a turn that was let through has no apply and no query before it   *)
(* in the pipe, so that the child that reads it is as it was confirmed.    *)
(*                                                                         *)
(* Chip (ChipInv): the last line on its way that names a mode names the    *)
(* child's, and with none on its way the chip is right, or a request is    *)
(* out whose answer will be.                                               *)
(*                                                                         *)
(* The pipes are sequences; what is said of all their lines is said of     *)
(* sets (Asks, Of), and only the layer a turn will find (Ends) and the     *)
(* last mode (LastMode) speak of positions.                                *)
(***************************************************************************)
EXTENDS ReadOnlyLayer, SequenceTheorems, TLAPS

-----------------------------------------------------------------------------
(* Types.                                                                    *)

Lists0 == Lists \cup {"base"}
Values == OrNone(Denies \cup {"base"})

Requests ==
    [id : Nat \ {0}, kind : {"initialize", "status"}, value : {"none"}]
    \cup [id : Nat \ {0}, kind : {"mode"}, value : Modes]
    \cup [id : Nat \ {0}, kind : {"layer"}, value : Values]
TurnLines == [id : {0}, kind : {"turn"}, value : OrNone(Modes)]
Written == Requests \cup TurnLines

Answers ==
    [kind : {"status"}, id : Nat \ {0}, verdict : {"success"}, mode : {"none"}, list : Lists0]
    \cup [kind : {"initialize", "mode"}, id : Nat \ {0}, verdict : {"success"}, mode : Modes,
          list : {"none"}]
    \cup [kind : {"layer"}, id : Nat \ {0}, verdict : {"success"}, mode : {"none"}, list : {"none"}]
    \cup [kind : {"mode", "layer"}, id : Nat \ {0}, verdict : {"error"}, mode : {"none"},
          list : {"none"}]

Children ==
    [alive : BOOLEAN, mode : Modes, launched : BOOLEAN, layer : Values, serves : Lists0,
     answered : OrNone(Lists0)]

Points == {"idle", "ensure", "query", "layer", "mode", "refused", "revive", "due", "await", "send",
           "spawn", "cover", "initialize"}
Dispatches ==
    [pc : Points, op : {"none", "open", "pick", "turn", "refused", "revive", "due"},
     mode : OrNone(Modes), shown : OrNone(Modes), next : OrNone(Points)]

McpLayers == [on : BOOLEAN, known : OrNone(Lists0), flying : Nat, denies : Values, confirmed : Values]

EndLine == [kind |-> "end"]
ListLines == [kind : {"list"}, list : Lists0]
Stories == Excuses \cup {"refusedItsOwn", "stray"}

(* Where the thread can be in what it does.                                  *)
DispatchIsWhole ==
    /\ disp.pc \in {"ensure", "layer", "mode", "refused", "revive", "due", "await", "send"} =>
          disp.op \in {"pick", "turn"}
    /\ disp.next \in {"layer", "mode", "refused", "revive", "due", "await"} =>
          disp.op \in {"pick", "turn"}
    /\ IF disp.pc = "query"
       THEN disp.next \in {"idle", "layer", "mode", "refused", "revive", "due", "await", "initialize"}
       ELSE disp.next = "none"
    /\ disp.pc \in {"layer", "mode"} \/ disp.next \in {"layer", "mode"} => disp.op = "pick"
    /\ disp.op = "pick" => disp.mode \in Modes
    /\ disp.pc \in {"spawn", "cover", "initialize"} \/ disp.next = "initialize" =>
          disp.op \in {"open", "refused", "revive", "due"}

WellTyped ==
    /\ ownerMcp \in BOOLEAN /\ lost \in BOOLEAN /\ relaunchDue \in BOOLEAN /\ uncovered \in BOOLEAN
    /\ child \in Children \cup {NoLine}
    /\ inbox \in Seq(Written) /\ outbox \in Seq(Answers)
    /\ settling \in OrNone(Lists0)
    /\ late \in Answers \cup ListLines \cup {NoLine, EndLine}
    /\ mcp \in McpLayers
    /\ pending \subseteq Requests /\ nextId \in Nat \ {0}
    /\ modeDue \in OrNone(Modes) /\ reported \in OrNone(Modes) /\ requested \in OrNone(Modes)
    /\ layer \in {"off", "live", "launched"}
    /\ disp \in Dispatches
    /\ story \subseteq Stories

(* What the hub keeps and writes.                                            *)
HubTyped ==
    /\ inbox \in Seq(Written) /\ mcp \in McpLayers
    /\ pending \subseteq Requests /\ nextId \in Nat \ {0}

\* A request the hub writes.
LEMMA RequestTyped ==
  ASSUME NEW n \in Nat \ {0}, NEW k, NEW v,
         \/ k \in {"initialize", "status"} /\ v = "none"
         \/ k = "mode" /\ v \in Modes
         \/ k = "layer" /\ v \in Values
  PROVE  [id |-> n, kind |-> k, value |-> v] \in Requests
BY DEF Requests

\* Writing it, and writing a query.
LEMMA DeliverTyped ==
  ASSUME HubTyped, NEW q \in Requests, Deliver(q)
  PROVE  /\ inbox' \in Seq(Written) /\ pending' \subseteq Requests /\ nextId' \in Nat \ {0}
<1>1. Append(inbox, q) \in Seq(Written)
  BY DEF HubTyped, Written
<1>. QED
  BY <1>1 DEF HubTyped, Deliver

LEMMA QueryTyped ==
  ASSUME HubTyped, QueryMcpStatus
  PROVE  /\ inbox' \in Seq(Written) /\ pending' \subseteq Requests /\ nextId' \in Nat \ {0}
<1>1. Request("status", "none") \in Requests
  BY RequestTyped DEF HubTyped, Request
<1>. QED
  BY <1>1, DeliverTyped DEF HubTyped, QueryMcpStatus

\* There is always something to deny.
LEMMA TargetTyped == WellTyped => Target(mcp) \in Values /\ Target(mcp) # "none"
  BY LayerAssumption DEF WellTyped, McpLayers, Values, OrNone, Denies, Lists0, Target, Wild

\* The records the thread and the hub update.
LEMMA LayerTyped ==
  ASSUME NEW m \in McpLayers, NEW on \in BOOLEAN, NEW c \in Values, NEW f \in Nat, NEW d \in Values
  PROVE  [m EXCEPT !.on = on, !.confirmed = c, !.flying = f, !.denies = d] \in McpLayers
BY DEF McpLayers

LEMMA PointTyped ==
  ASSUME NEW d \in Dispatches, NEW pc \in Points, NEW next \in OrNone(Points), NEW shown \in OrNone(Modes)
  PROVE  [d EXCEPT !.pc = pc, !.next = next, !.shown = shown] \in Dispatches
BY DEF Dispatches

LEMMA AndQueryTyped ==
  ASSUME WellTyped, NEW asks \in BOOLEAN, NEW pc \in Points, AndQuery(asks, pc)
  PROVE  disp' \in Dispatches
<1>1. (IF asks THEN "query" ELSE pc) \in Points /\ (IF asks THEN pc ELSE "none") \in OrNone(Points)
  BY DEF Points, OrNone
<1>2. (IF disp.pc = "ensure" THEN reported ELSE disp.shown) \in OrNone(Modes)
  BY DEF WellTyped, Dispatches
<1>. QED
  BY <1>1, <1>2, PointTyped DEF AndQuery, WellTyped

\* send_read_only_layer, written or not, and a refusal.
LEMMA SendLayerTyped ==
  ASSUME WellTyped, NEW on \in BOOLEAN, SendLayer(on)
  PROVE  HubTyped'
<1>0. HubTyped
  BY DEF WellTyped, HubTyped
<1>1. Target(mcp) \in Values /\ "none" \in Values
  BY TargetTyped DEF Values, OrNone
<1>2. CASE Alive
  <2>. DEFINE v == IF on THEN Target(mcp) ELSE "none"
  <2>1. v \in Values
    BY <1>1
  <2>2. Request("layer", v) \in Requests
    BY <1>0, <2>1, RequestTyped DEF HubTyped, Request
  <2>3. Deliver(Request("layer", v))
    BY <1>2 DEF SendLayer
  <2>4. inbox' \in Seq(Written) /\ pending' \subseteq Requests /\ nextId' \in Nat \ {0}
    BY <1>0, <2>2, <2>3, DeliverTyped
  <2>5. mcp' \in McpLayers
    <3>1. (IF on THEN nextId ELSE 0) \in Nat
      BY <1>0 DEF HubTyped
    <3>2. mcp' = [mcp EXCEPT !.on = on, !.confirmed = "none", !.flying = IF on THEN nextId ELSE 0,
                             !.denies = v]
      BY <1>2 DEF SendLayer
    <3>. HIDE DEF v
    <3>. QED
      BY <1>0, <1>1, <2>1, <3>1, <3>2, LayerTyped DEF HubTyped
  <2>. QED
    BY <2>4, <2>5 DEF HubTyped
<1>3. CASE ~Alive
  <2>1. mcp' = [mcp EXCEPT !.on = ~on, !.confirmed = "none", !.flying = 0, !.denies = "none"]
    BY <1>3 DEF SendLayer
  <2>2. mcp' \in McpLayers
    BY <1>0, <1>1, <2>1, LayerTyped DEF HubTyped
  <2>. QED
    BY <1>0, <1>3, <2>2 DEF SendLayer, HubTyped
<1>. QED
  BY <1>2, <1>3

LEMMA RefuseTyped ==
  ASSUME WellTyped, NEW gone, Refuse(gone, mcp)
  PROVE  mcp' \in McpLayers /\ relaunchDue' \in BOOLEAN
<1>1. "none" \in Values
  BY DEF Values, OrNone
<1>. QED
  BY <1>1 DEF Refuse, WellTyped, McpLayers, Forgotten

(* The dispatching thread keeps them.                                        *)
LEMMA DispatchTyped ==
  ASSUME WellTyped, DispatchIsWhole,
         \/ \E mode \in Modes : BeginPick(mode)
         \/ BeginTurn \/ EnsureReadOnlyLayer \/ Query \/ PickLayer \/ PickMode
  PROVE  WellTyped'
<1>. USE DEF process, hub, adapter, ghosts, bounds
<1>0. HubTyped /\ Modes \subseteq OrNone(Modes) /\ "none" \in OrNone(Modes) /\ "none" \in OrNone(Points)
  BY DEF WellTyped, HubTyped, OrNone
<1>i. Idle \in Dispatches
  BY DEF Idle, Dispatches, Points, OrNone
<1>1. ASSUME NEW mode \in OrNone(Modes), NEW op \in {"pick", "turn"}, Begin(op, mode) PROVE WellTyped'
  <2>1. PICK S \in Expired :
             pending' = pending \ S /\ Refuse(S, mcp) /\ story' = Told(S)
    BY <1>1 DEF Begin
  <2>2. mcp' \in McpLayers /\ relaunchDue' \in BOOLEAN
    BY <2>1, RefuseTyped
  <2>3. pending' \subseteq Requests /\ story' \subseteq Stories
    BY <2>1 DEF WellTyped, Told, Stories, Excuses
  <2>4. disp' \in Dispatches
    BY <1>0, <1>1 DEF Begin, Idle, Dispatches, Points
  <2>. QED
    BY <1>1, <2>2, <2>3, <2>4 DEF Begin, WellTyped
<1>2. CASE EnsureReadOnlyLayer
  <2>1. HubTyped'
    BY <1>0, <1>2, SendLayerTyped DEF EnsureReadOnlyLayer, HubTyped
  <2>2. disp' \in Dispatches
    <3>1. AfterEnsure \in Points
      BY DEF AfterEnsure, Points
    <3>2. AndQuery(Alive, AfterEnsure) \/ AndQuery(reported = "readonly", AfterEnsure)
      BY <1>2 DEF EnsureReadOnlyLayer
    <3>3. Alive \in BOOLEAN
      BY DEF Alive, WellTyped, Children
    <3>. QED
      BY <3>1, <3>2, <3>3, AndQueryTyped
  <2>3. layer' \in {"off", "live", "launched"}
    BY <1>2 DEF EnsureReadOnlyLayer, WellTyped
  <2>. QED
    BY <1>2, <2>1, <2>2, <2>3 DEF EnsureReadOnlyLayer, WellTyped, HubTyped
<1>3. CASE Query
  <2>1. HubTyped'
    BY <1>0, <1>3, QueryTyped DEF Query, HubTyped
  <2>2. disp' \in Dispatches
    <3>1. disp.next \in Points /\ disp' = [disp EXCEPT !.pc = disp.next, !.next = "none", !.shown = disp.shown]
      BY <1>3 DEF Query, DispatchIsWhole, WellTyped, Dispatches, Points
    <3>. QED
      BY <1>0, <3>1, PointTyped DEF WellTyped, Dispatches
  <2>. QED
    BY <1>3, <2>1, <2>2 DEF Query, WellTyped, HubTyped
<1>4. CASE PickLayer
  <2>1. HubTyped'
    BY <1>0, <1>4, SendLayerTyped DEF PickLayer, HubTyped
  <2>2. disp' \in Dispatches
    <3>1. \/ disp' = Idle
          \/ AndQuery(disp.mode = "readonly", "mode")
          \/ Then("mode")
      BY <1>4 DEF PickLayer, Return
    <3>2. CASE Then("mode")
      BY <3>2 DEF Then, WellTyped, Dispatches, Points
    <3>. QED
      BY <1>i, <3>1, <3>2, AndQueryTyped DEF Points
  <2>3. disp.mode \in Modes
    BY <1>4 DEF PickLayer, DispatchIsWhole
  <2>4. /\ layer' \in {"off", "live", "launched"}
        /\ modeDue' \in OrNone(Modes) /\ reported' \in OrNone(Modes) /\ requested' \in OrNone(Modes)
    BY <1>0, <1>4, <2>3 DEF PickLayer, WellTyped
  <2>. QED
    BY <1>4, <2>1, <2>2, <2>4 DEF PickLayer, WellTyped, HubTyped
<1>5. CASE PickMode
  <2>1. disp.mode \in Modes
    BY <1>5 DEF PickMode, DispatchIsWhole
  <2>2. Request("mode", disp.mode) \in Requests
    BY <1>0, <2>1, RequestTyped DEF HubTyped, Request
  <2>3. HubTyped'
    BY <1>0, <1>5, <2>2, DeliverTyped DEF PickMode, HubTyped
  <2>. QED
    BY <1>0, <1>5, <1>i, <2>3 DEF PickMode, Return, WellTyped, HubTyped
<1>. QED
  BY <1>0, <1>1, <1>2, <1>3, <1>4, <1>5 DEF BeginPick, BeginTurn

\* So do a relaunch and the launch of a child.
LEMMA RelaunchTyped ==
  ASSUME WellTyped, DispatchIsWhole,
         NoRelaunch \/ Retire \/ Spawn \/ SpawnFails \/ Cover \/ Initialize
  PROVE  WellTyped'
<1>. USE DEF process, hub, adapter, ghosts, bounds
<1>0. HubTyped /\ Modes \subseteq OrNone(Modes) /\ "none" \in OrNone(Modes) /\ "none" \in OrNone(Points)
  BY DEF WellTyped, HubTyped, OrNone
<1>i. Idle \in Dispatches
  BY DEF Idle, Dispatches, Points, OrNone
<1>f. /\ \A pc \in {"refused", "revive", "due"} : Following[pc] \in Points
      /\ Points \subseteq OrNone(Points)
  BY DEF Following, Points, OrNone
<1>v. "none" \in Values /\ "base" \in Values
  BY DEF Values, OrNone
<1>1. CASE NoRelaunch
  <2>1. disp' \in Dispatches
    BY <1>f, <1>1 DEF NoRelaunch, Then, WellTyped, Dispatches
  <2>. QED
    BY <1>1, <2>1 DEF NoRelaunch, WellTyped
<1>2. CASE Retire
  <2>1. disp.pc \in {"refused", "revive", "due"}
    BY <1>2 DEF Retire, NeedsRelaunch
  <2>2. disp' \in Dispatches
    BY <1>0, <1>2, <2>1 DEF Retire, WellTyped, Dispatches, Points
  <2>3. mcp' \in McpLayers
    BY <1>v, <1>2 DEF Retire, Forgotten, WellTyped, McpLayers
  <2>4. PastTheEpochCheck \subseteq Answers \cup {EndLine}
    BY ElementOfSeq DEF PastTheEpochCheck, WellTyped, EndLine
  <2>l. settling # "none" => [kind |-> "list", list |-> settling] \in ListLines
    BY DEF WellTyped, OrNone, ListLines
  <2>5. <<>> \in Seq(Written) /\ <<>> \in Seq(Answers)
    OBVIOUS
  <2>6. relaunchDue' \in BOOLEAN /\ modeDue' \in OrNone(Modes) /\ late' \in Answers \cup ListLines \cup {NoLine, EndLine}
    BY <1>0, <1>2, <2>4, <2>l DEF Retire, WellTyped
  <2>. QED
    BY <1>2, <2>2, <2>3, <2>5, <2>6 DEF Retire, WellTyped, OrNone
<1>3. CASE Spawn
  <2>. DEFINE mode == LaunchMode
  <2>1. mode \in OrNone(Modes)
    BY DEF LaunchMode, WellTyped, Dispatches
  <2>. HIDE DEF mode
  <2>2. PICK own \in OwnModes, list \in Served :
            child' = Fresh(IF mode = "none" THEN own ELSE mode, mode = "readonly", list)
    BY <1>3 DEF Spawn, mode
  <2>3. child' \in Children
    <3>1. (IF mode = "none" THEN own ELSE mode) \in Modes /\ list \in Lists0 /\ "none" \in OrNone(Lists0)
      BY <2>1, LayerAssumption DEF OrNone, Modes, Served, Lists0
    <3>. QED
      BY <1>v, <2>2, <3>1 DEF Fresh, Children
  <2>4. mcp' \in McpLayers
    <3>1. /\ mcp' = [NoLayer EXCEPT !.on = (mode = "readonly"),
                          !.confirmed = IF mode = "readonly" /\ ~ownerMcp THEN "base" ELSE "none"]
      BY <1>3 DEF Spawn, mode
    <3>2. "none" \in OrNone(Lists0)
      BY DEF OrNone
    <3>. QED
      BY <1>v, <3>1, <3>2 DEF NoLayer, McpLayers
  <2>5. disp' \in Dispatches
    <3>1. disp' = [disp EXCEPT !.pc = "cover", !.mode = "none", !.shown = mode]
      BY <1>3 DEF Spawn, mode
    <3>. QED
      BY <1>0, <2>1, <3>1 DEF WellTyped, Dispatches, Points
  <2>6. layer' \in {"off", "live", "launched"} /\ requested' \in OrNone(Modes) /\ reported' \in OrNone(Modes)
    BY <1>3, <2>1 DEF Spawn, WellTyped, mode
  <2>. QED
    BY <1>3, <2>3, <2>4, <2>5, <2>6 DEF Spawn, WellTyped
<1>4. CASE SpawnFails
  BY <1>4, <1>i DEF SpawnFails, Return, WellTyped
<1>5. CASE Cover
  <2>1. HubTyped'
    BY <1>0, <1>5, SendLayerTyped DEF Cover, HubTyped
  <2>2. disp' \in Dispatches
    <3>1. (mcp.on /\ ownerMcp /\ Alive) \in BOOLEAN
      OBVIOUS
    <3>. QED
      BY <1>5, <3>1, AndQueryTyped DEF Cover, Points
  <2>. QED
    BY <1>5, <2>1, <2>2 DEF Cover, WellTyped, HubTyped
<1>6. CASE Initialize
  <2>1. Request("initialize", "none") \in Requests
    BY <1>0, RequestTyped DEF HubTyped, Request
  <2>2. HubTyped'
    BY <1>0, <1>6, <2>1, DeliverTyped DEF Initialize, HubTyped
  <2>3. disp' \in Dispatches
    <3>1. CASE disp.op = "open"
      BY <1>0, <1>6, <3>1 DEF Initialize, Idle, Dispatches, Points, OrNone
    <3>2. CASE disp.op # "open"
      <4>1. disp.op \in {"refused", "revive", "due"}
        BY <1>6, <3>2 DEF Initialize, DispatchIsWhole
      <4>2. disp' = [disp EXCEPT !.pc = "query", !.next = Following[disp.op], !.op = "turn"]
        BY <1>6, <3>2 DEF Initialize
      <4>3. Following[disp.op] \in OrNone(Points) /\ "query" \in Points
        BY <1>f, <4>1 DEF Points
      <4>. QED
        BY <4>2, <4>3 DEF WellTyped, Dispatches
    <3>. QED
      BY <3>1, <3>2
  <2>. QED
    BY <1>6, <2>2, <2>3 DEF Initialize, WellTyped, HubTyped
<1>. QED
  BY <1>1, <1>2, <1>3, <1>4, <1>5, <1>6

\* So do the hold of a turn and its sending.
LEMMA HoldTyped ==
  ASSUME WellTyped, AwaitMcpLayer \/ AwaitTimesOut \/ SendTurn
  PROVE  WellTyped'
<1>. USE DEF process, hub, adapter, ghosts, bounds
<1>i. Idle \in Dispatches
  BY DEF Idle, Dispatches, Points, OrNone
<1>1. disp' \in Dispatches
  BY <1>i DEF AwaitMcpLayer, AwaitTimesOut, SendTurn, Then, Return, WellTyped, Dispatches, Points
<1>2. CASE AwaitMcpLayer
  BY <1>1, <1>2 DEF AwaitMcpLayer, WellTyped, Stories, Excuses
<1>3. CASE AwaitTimesOut
  BY <1>1, <1>3 DEF AwaitTimesOut, WellTyped, Stories, Excuses
<1>4. CASE SendTurn
  <2>. DEFINE q == [id |-> 0, kind |-> "turn", value |-> disp.shown]
  <2>1. q \in Written
    BY DEF WellTyped, Dispatches, Written, TurnLines
  <2>2. inbox' = inbox \/ inbox' = Append(inbox, q)
    BY <1>4 DEF SendTurn
  <2>. HIDE DEF q
  <2>3. inbox' \in Seq(Written)
    BY <2>1, <2>2 DEF WellTyped
  <2>. QED
    BY <1>1, <1>4, <2>3 DEF SendTurn, WellTyped
<1>. QED
  BY <1>2, <1>3, <1>4

(* The child takes a line that was written to it.                            *)
LEMMA HeadTyped ==
  ASSUME WellTyped, inbox # <<>>
  PROVE  Head(inbox) \in Written /\ Tail(inbox) \in Seq(Written)
BY HeadTailProperties DEF WellTyped

\* An answer of the child, and each line it takes.
LEMMA AnswerTyped ==
  ASSUME NEW k, NEW i \in Nat \ {0}, NEW v, NEW m, NEW l,
         \/ k = "status" /\ v = "success" /\ m = "none" /\ l \in Lists0
         \/ k \in {"initialize", "mode"} /\ v = "success" /\ m \in Modes /\ l = "none"
         \/ k = "layer" /\ v \in {"success", "error"} /\ m = "none" /\ l = "none"
         \/ k = "mode" /\ v = "error" /\ m = "none" /\ l = "none"
  PROVE  [kind |-> k, id |-> i, verdict |-> v, mode |-> m, list |-> l] \in Answers
BY DEF Answers

LEMMA ChildTyped ==
  ASSUME WellTyped,
         \/ ChildInitializes \/ ChildSwitches \/ ChildTakesLayer \/ ChildRefuses
         \/ ChildNamesItsServers \/ ChildRuns \/ ServersChange \/ ChildDies
  PROVE  WellTyped'
<1>. USE DEF process, hub, adapter, ghosts, bounds
<1>. DEFINE h == Head(inbox)
<1>c. ASSUME Running PROVE child \in Children
  BY <1>c DEF Running, Attached, WellTyped
<1>h. ASSUME NEW kind, Taking(kind)
      PROVE  /\ h \in Written /\ h.kind = kind /\ inbox' \in Seq(Written) /\ child \in Children
             /\ kind # "turn" => h.id \in Nat \ {0}
  <2>1. inbox # <<>> /\ inbox' = Tail(inbox) /\ h.kind = kind /\ Running
    BY <1>h DEF Taking
  <2>. QED
    BY <1>c, <2>1, HeadTyped DEF Written, Requests, TurnLines
<1>o. ASSUME NEW v, NEW m, NEW l, Answer(v, m, l), h.id \in Nat \ {0},
             \/ h.kind = "status" /\ v = "success" /\ m = "none" /\ l \in Lists0
             \/ h.kind \in {"initialize", "mode"} /\ v = "success" /\ m \in Modes /\ l = "none"
             \/ h.kind = "layer" /\ v \in {"success", "error"} /\ m = "none" /\ l = "none"
             \/ h.kind = "mode" /\ v = "error" /\ m = "none" /\ l = "none"
      PROVE  outbox' \in Seq(Answers)
  <2>. DEFINE a == [kind |-> h.kind, id |-> h.id, verdict |-> v, mode |-> m, list |-> l]
  <2>1. a \in Answers
    BY <1>o, AnswerTyped
  <2>2. outbox' = Append(outbox, a)
    BY <1>o DEF Answer
  <2>. HIDE DEF a, h
  <2>. QED
    BY <2>1, <2>2 DEF WellTyped
<1>. HIDE DEF h
<1>1. CASE ChildInitializes
  <2>1. Taking("initialize") /\ Answer("success", child.mode, "none")
    BY <1>1 DEF ChildInitializes
  <2>2. child.mode \in Modes
    BY <1>h, <2>1 DEF Children
  <2>3. inbox' \in Seq(Written) /\ outbox' \in Seq(Answers)
    BY <1>h, <1>o, <2>1, <2>2
  <2>. QED
    BY <1>1, <2>3 DEF ChildInitializes, WellTyped
<1>2. CASE ChildSwitches
  <2>1. Taking("mode") /\ Answer("success", child'.mode, "none") /\ child' = [child EXCEPT !.mode = h.value]
    BY <1>2 DEF ChildSwitches, h
  <2>2. h.value \in Modes
    BY <1>h, <2>1 DEF Written, Requests, TurnLines
  <2>3. child' \in Children
    BY <1>h, <2>1, <2>2 DEF Children
  <2>4. child'.mode \in Modes
    BY <2>3 DEF Children
  <2>5. inbox' \in Seq(Written) /\ outbox' \in Seq(Answers)
    BY <1>h, <1>o, <2>1, <2>4
  <2>. QED
    BY <1>2, <2>3, <2>5 DEF ChildSwitches, WellTyped
<1>3. CASE ChildTakesLayer
  <2>1. Taking("layer") /\ Answer("success", "none", "none") /\ child' = [child EXCEPT !.layer = h.value]
    BY <1>3 DEF ChildTakesLayer, h
  <2>2. h.value \in Values
    BY <1>h, <2>1 DEF Written, Requests, TurnLines
  <2>3. child' \in Children
    BY <1>h, <2>1, <2>2 DEF Children
  <2>5. inbox' \in Seq(Written) /\ outbox' \in Seq(Answers)
    BY <1>h, <1>o, <2>1
  <2>. QED
    BY <1>3, <2>3, <2>5 DEF ChildTakesLayer, WellTyped
<1>4. CASE ChildRefuses
  <2>1. PICK kind \in {"mode", "layer"} :
            Taking(kind) /\ story' \subseteq story \cup {"refused", "refusedItsOwn"}
    BY <1>4 DEF ChildRefuses
  <2>2. Answer("error", "none", "none")
    BY <1>4 DEF ChildRefuses
  <2>3. inbox' \in Seq(Written) /\ outbox' \in Seq(Answers)
    BY <1>h, <1>o, <2>1, <2>2
  <2>4. story' \subseteq Stories
    BY <2>1 DEF WellTyped, Stories, Excuses
  <2>. QED
    BY <1>4, <2>3, <2>4 DEF ChildRefuses, WellTyped
<1>5. CASE ChildNamesItsServers
  <2>1. Taking("status") /\ Answer("success", "none", child.serves)
        /\ child' = [child EXCEPT !.answered = child.serves]
    BY <1>5 DEF ChildNamesItsServers
  <2>2. child.serves \in Lists0 /\ child.serves \in OrNone(Lists0)
    BY <1>h, <2>1 DEF Children, OrNone
  <2>3. child' \in Children
    BY <1>h, <2>1, <2>2 DEF Children
  <2>5. inbox' \in Seq(Written) /\ outbox' \in Seq(Answers)
    BY <1>h, <1>o, <2>1, <2>2
  <2>. QED
    BY <1>5, <2>3, <2>5 DEF ChildNamesItsServers, WellTyped
<1>6. CASE ChildRuns
  <2>1. inbox' \in Seq(Written)
    BY <1>h, <1>6 DEF ChildRuns
  <2>2. uncovered' \in BOOLEAN
    BY <1>6 DEF ChildRuns, WellTyped
  <2>. QED
    BY <1>6, <2>1, <2>2 DEF ChildRuns, WellTyped
<1>7. CASE ServersChange
  <2>1. Served \subseteq Lists0
    BY DEF Served, Lists0
  <2>2. child' \in Children
    BY <1>c, <1>7, <2>1 DEF ServersChange, Children
  <2>. QED
    BY <1>7, <2>2 DEF ServersChange, WellTyped
<1>8. CASE ChildDies
  <2>0. child \in Children /\ child' = [child EXCEPT !.alive = FALSE]
    BY <1>c, <1>8 DEF ChildDies
  <2>1. child' \in Children
    BY <2>0 DEF Children
  <2>2. <<>> \in Seq(Written)
    OBVIOUS
  <2>. QED
    BY <1>8, <2>1, <2>2 DEF ChildDies, WellTyped
<1>. QED
  BY <1>1, <1>2, <1>3, <1>4, <1>5, <1>6, <1>7, <1>8

(* What refresh_mcp_denies does: it notes the denies and, where they are new *)
(* to a child under the layer, sends it again.                               *)
LEMMA RefreshDoes ==
  ASSUME WellTyped, NEW list \in Lists0, RefreshMcpDenies(list)
  PROVE  LET q == Request("layer", list) IN
         /\ q \in Requests /\ q.kind = "layer" /\ q.id = nextId /\ q.value = list /\ list # "none"
         /\ mcp' \in McpLayers /\ relaunchDue' \in BOOLEAN
         /\ mcp'.known = list /\ mcp'.on = mcp.on /\ mcp'.confirmed = mcp.confirmed
         /\ \/ /\ mcp'.flying = mcp.flying /\ mcp'.denies = mcp.denies
               /\ UNCHANGED <<pending, nextId, inbox>>
               /\ (relaunchDue' = relaunchDue) \/ (relaunchDue' = TRUE /\ ~Alive)
            \/ /\ mcp.on /\ Outstanding # list /\ Alive
               /\ mcp'.flying = nextId /\ mcp'.denies = list
               /\ Deliver(q) /\ relaunchDue' = relaunchDue
<1>. DEFINE q == Request("layer", list)
            known == [mcp EXCEPT !.known = list]
<1>0. /\ nextId \in Nat \ {0} /\ mcp \in McpLayers /\ relaunchDue \in BOOLEAN
      /\ list \in Values /\ list # "none" /\ list \in OrNone(Lists0)
  BY LayerAssumption DEF WellTyped, Lists0, Values, Denies, OrNone
<1>1. q \in Requests /\ q.kind = "layer" /\ q.id = nextId /\ q.value = list
  BY <1>0, RequestTyped DEF Request
<1>2. /\ known \in McpLayers /\ known.known = list /\ known.on = mcp.on
      /\ known.confirmed = mcp.confirmed /\ known.flying = mcp.flying /\ known.denies = mcp.denies
  BY <1>0 DEF McpLayers
<1>3. \/ mcp' = known /\ UNCHANGED <<pending, nextId, inbox>>
         /\ (relaunchDue' = relaunchDue \/ (relaunchDue' = TRUE /\ ~Alive))
      \/ /\ mcp.on /\ Outstanding # list /\ Alive
         /\ mcp' = [known EXCEPT !.flying = nextId, !.denies = list]
         /\ Deliver(q) /\ relaunchDue' = relaunchDue
  BY DEF RefreshMcpDenies
<1>. HIDE DEF q, known
<1>4. CASE mcp' = known
  BY <1>0, <1>1, <1>2, <1>3, <1>4 DEF q, McpLayers
<1>5. CASE mcp' = [known EXCEPT !.flying = nextId, !.denies = list]
  <2>1. /\ mcp' \in McpLayers /\ mcp'.known = list /\ mcp'.on = mcp.on
        /\ mcp'.confirmed = mcp.confirmed /\ mcp'.flying = nextId /\ mcp'.denies = list
    BY <1>0, <1>2, <1>5 DEF McpLayers
  <2>2. CASE mcp' = known
    BY <1>4, <2>2
  <2>3. CASE mcp' # known
    BY <1>0, <1>1, <1>3, <2>1, <2>3 DEF q
  <2>. QED
    BY <2>2, <2>3
<1>. QED
  BY <1>3, <1>4, <1>5

(* So its types.                                                             *)
LEMMA RefreshTyped ==
  ASSUME WellTyped, NEW list \in Lists0, RefreshMcpDenies(list)
  PROVE  HubTyped' /\ relaunchDue' \in BOOLEAN
<1>0. HubTyped
  BY DEF WellTyped, HubTyped
<1>. DEFINE q == Request("layer", list)
<1>1. /\ q \in Requests /\ mcp' \in McpLayers /\ relaunchDue' \in BOOLEAN
      /\ UNCHANGED <<pending, nextId, inbox>> \/ Deliver(q)
  BY RefreshDoes
<1>. HIDE DEF q
<1>2. inbox' \in Seq(Written) /\ pending' \subseteq Requests /\ nextId' \in Nat \ {0}
  BY <1>0, <1>1, DeliverTyped DEF HubTyped
<1>. QED
  BY <1>1, <1>2 DEF HubTyped

(* The pump folds a line, acts on it, or folds the end.                      *)
LEMMA ConfirmTyped ==
  ASSUME WellTyped, NEW p \in pending, NEW l \in Answers, Confirm(p, l)
  PROVE  /\ mcp' \in McpLayers /\ pending' \subseteq Requests /\ relaunchDue' \in BOOLEAN
         /\ settling' \in OrNone(Lists0)
<1>0. HubTyped /\ p \in Requests /\ relaunchDue \in BOOLEAN
  BY DEF WellTyped, HubTyped
<1>1. pending' \subseteq Requests /\ settling' \in OrNone(Lists0)
  <2>1. l.list \in OrNone(Lists0)
    BY DEF Answers, OrNone
  <2>. QED
    BY <1>0, <2>1 DEF Confirm, HubTyped, OrNone
<1>3. CASE l.verdict = "error"
  <2>1. Refuse({p}, mcp)
    BY <1>3 DEF Confirm
  <2>. QED
    BY <1>1, <2>1, RefuseTyped
<1>5. CASE l.verdict = "success" /\ p.kind = "layer"
  <2>1. mcp' = Confirms(p) /\ UNCHANGED relaunchDue
    BY <1>5 DEF Confirm
  <2>2. p.value \in Values /\ "none" \in Values
    BY <1>0, <1>5 DEF Requests, Values, OrNone
  <2>3. mcp' \in McpLayers
    BY <1>0, <2>1, <2>2 DEF Confirms, HubTyped, McpLayers
  <2>. QED
    BY <1>0, <1>1, <2>1, <2>3
<1>6. CASE l.verdict = "success" /\ p.kind # "layer"
  <2>1. UNCHANGED <<mcp, relaunchDue>>
    BY <1>6 DEF Confirm
  <2>. QED
    BY <1>0, <1>1, <2>1 DEF HubTyped
<1>7. l.verdict \in {"success", "error"}
  BY DEF Answers
<1>. QED
  BY <1>3, <1>5, <1>6, <1>7

LEMMA PumpTyped ==
  ASSUME WellTyped, Ingest \/ Settle \/ PumpEnds \/ FoldLate
  PROVE  WellTyped'
<1>. USE DEF process, hub, adapter, ghosts, bounds
<1>0. HubTyped /\ "none" \in Values /\ "none" \in OrNone(Lists0)
  BY DEF WellTyped, HubTyped, Values, OrNone
<1>1. CASE Ingest
  <2>. DEFINE line == Head(outbox)
  <2>1. line \in Answers /\ outbox' \in Seq(Answers)
    BY <1>1, HeadTailProperties DEF Ingest, WellTyped
  <2>2. reported' \in OrNone(Modes)
    <3>1. line.mode \in OrNone(Modes)
      BY <2>1 DEF Answers, OrNone
    <3>. QED
      BY <1>1, <3>1 DEF Ingest, WellTyped
  <2>3. \/ \E p \in pending : Confirm(p, line)
        \/ UNCHANGED <<pending, settling, mcp, relaunchDue>>
    BY <1>1 DEF Ingest
  <2>. HIDE DEF line
  <2>4. /\ mcp' \in McpLayers /\ pending' \subseteq Requests /\ relaunchDue' \in BOOLEAN
        /\ settling' \in OrNone(Lists0)
    <3>1. ASSUME NEW p \in pending, Confirm(p, line)
          PROVE  /\ mcp' \in McpLayers /\ pending' \subseteq Requests /\ relaunchDue' \in BOOLEAN
                 /\ settling' \in OrNone(Lists0)
      BY <2>1, <3>1, ConfirmTyped
    <3>2. CASE UNCHANGED <<pending, settling, mcp, relaunchDue>>
      BY <3>2 DEF WellTyped
    <3>. QED
      BY <2>3, <3>1, <3>2
  <2>. QED
    BY <1>1, <2>1, <2>2, <2>4 DEF Ingest, WellTyped
<1>f. Forgotten(mcp) \in McpLayers
  BY <1>0 DEF Forgotten, HubTyped, McpLayers
<1>2. CASE PumpEnds
  BY <1>f, <1>2 DEF PumpEnds, WellTyped
<1>4. CASE Settle
  <2>1. settling \in Lists0 /\ RefreshMcpDenies(settling) /\ settling' \in OrNone(Lists0)
    BY <1>0, <1>4 DEF Settle, WellTyped, OrNone
  <2>2. HubTyped' /\ relaunchDue' \in BOOLEAN
    BY <2>1, RefreshTyped
  <2>. QED
    BY <1>4, <2>1, <2>2 DEF Settle, WellTyped, HubTyped
<1>3. CASE FoldLate
  <2>0. late \in Answers \cup ListLines \cup {NoLine, EndLine} /\ late # NoLine
    BY <1>3 DEF FoldLate, WellTyped
  <2>1. late' \in Answers \cup ListLines \cup {NoLine, EndLine} /\ story' \subseteq Stories
    BY <1>3 DEF FoldLate, WellTyped, Stories, Excuses
  <2>2. CASE late.kind = "end"
    BY <1>3, <1>f, <2>1, <2>2 DEF FoldLate, WellTyped
  <2>3. CASE late.kind = "list"
    <3>1. late.list \in Lists0 /\ RefreshMcpDenies(late.list)
      BY <1>3, <2>0, <2>3 DEF FoldLate, Answers, ListLines, EndLine
    <3>2. HubTyped' /\ relaunchDue' \in BOOLEAN
      BY <3>1, RefreshTyped
    <3>. QED
      BY <1>3, <2>1, <2>3, <3>2 DEF FoldLate, WellTyped, HubTyped
  <2>4. CASE late.kind \notin {"end", "list"}
    <3>1. late \in Answers
      BY <2>0, <2>4 DEF ListLines, EndLine
    <3>2. late.mode \in OrNone(Modes)
      BY <3>1 DEF Answers, OrNone
    <3>. QED
      BY <1>3, <2>1, <2>4, <3>2 DEF FoldLate, WellTyped
  <2>. QED
    BY <2>2, <2>3, <2>4
<1>. QED
  BY <1>1, <1>2, <1>3, <1>4

-----------------------------------------------------------------------------
(* Lines on their way, as sets.                                              *)

(* The requests among what was written, and the answers on their way back.   *)
Asks(s) == {s[i] : i \in {j \in 1 .. Len(s) : s[j].kind # "turn"}}
Of(s) == {s[i] : i \in 1 .. Len(s)}

(* Requests go out in the order of their ids, and no answer comes twice.     *)
InOrder(s) == \A i, j \in 1 .. Len(s) : i < j /\ s[j].kind # "turn" => s[i].id < s[j].id
Apart(s) == \A i, j \in 1 .. Len(s) : s[i].id = s[j].id => i = j

\* The positions of a sequence with one element more, and with the first one gone.
LEMMA Appended ==
  ASSUME NEW T, NEW s \in Seq(T), NEW e \in T
  PROVE  LET t == Append(s, e) IN
         /\ Len(s) \in Nat /\ Len(t) = Len(s) + 1 /\ t[Len(s) + 1] = e
         /\ \A i \in 1 .. Len(s) : t[i] = s[i] /\ i < Len(s) + 1 /\ i \in 1 .. Len(t)
         /\ \A i \in 1 .. Len(t) : i \in 1 .. Len(s) \/ i = Len(s) + 1
         /\ Len(s) + 1 \in 1 .. Len(t)
<1>. DEFINE t == Append(s, e)
<1>1. /\ Len(s) \in Nat /\ Len(t) = Len(s) + 1 /\ t[Len(t)] = e
      /\ \A i \in 1 .. Len(s) : t[i] = s[i]
  BY AppendProperties
<1>. HIDE DEF t
<1>2. /\ Len(s) \in Nat /\ Len(t) = Len(s) + 1 /\ t[Len(s) + 1] = e
      /\ \A i \in 1 .. Len(s) : t[i] = s[i] /\ i < Len(s) + 1 /\ i \in 1 .. Len(t)
      /\ \A i \in 1 .. Len(t) : i \in 1 .. Len(s) \/ i = Len(s) + 1
      /\ Len(s) + 1 \in 1 .. Len(t)
  BY <1>1
<1>. QED
  BY <1>2 DEF t

LEMMA Behead ==
  ASSUME NEW T, NEW s \in Seq(T), s # <<>>
  PROVE  LET t == Tail(s) IN
         /\ Len(s) \in Nat /\ Len(t) \in Nat /\ Len(s) = Len(t) + 1
         /\ s[1] = Head(s) /\ Head(s) \in T /\ t \in Seq(T) /\ 1 \in 1 .. Len(s)
         /\ \A i \in 1 .. Len(t) : i + 1 \in 1 .. Len(s) /\ t[i] = s[i + 1] /\ 1 < i + 1
         /\ \A i \in 1 .. Len(s) : i = 1 \/ i - 1 \in 1 .. Len(t)
         /\ \A i \in 1 .. Len(s) : i # 1 => t[i - 1] = s[i]
<1>. DEFINE t == Tail(s)
<1>1. /\ Len(s) \in Nat /\ Len(t) = Len(s) - 1 /\ Len(s) >= 1 /\ s[1] = Head(s)
      /\ Head(s) \in T /\ t \in Seq(T)
      /\ \A i \in 1 .. Len(t) : t[i] = s[i + 1]
  BY HeadTailProperties
<1>. HIDE DEF t
<1>2. /\ Len(s) \in Nat /\ Len(t) \in Nat /\ Len(s) = Len(t) + 1
      /\ s[1] = Head(s) /\ Head(s) \in T /\ t \in Seq(T) /\ 1 \in 1 .. Len(s)
      /\ \A i \in 1 .. Len(t) : i + 1 \in 1 .. Len(s) /\ t[i] = s[i + 1] /\ 1 < i + 1
      /\ \A i \in 1 .. Len(s) : i = 1 \/ i - 1 \in 1 .. Len(t)
      /\ \A i \in 1 .. Len(s) : i # 1 => t[i - 1] = s[i]
  BY <1>1
<1>. QED
  BY <1>2 DEF t

\* What is in a pipe has the type of its lines.
LEMMA AsksTyped == \A s \in Seq(Written) : Asks(s) \subseteq Requests /\ Asks(<<>>) = {}
<1>. SUFFICES ASSUME NEW s \in Seq(Written) PROVE Asks(s) \subseteq Requests /\ Asks(<<>>) = {}
  OBVIOUS
<1>1. \A i \in 1 .. Len(s) : s[i] \in Written
  BY ElementOfSeq
<1>2. \A w \in Written : w.kind # "turn" => w \in Requests
  BY DEF Written, TurnLines
<1>. QED
  BY <1>1, <1>2 DEF Asks

LEMMA OfTyped == \A s \in Seq(Answers) : Of(s) \subseteq Answers /\ Of(<<>>) = {}
BY ElementOfSeq DEF Of

(* A request written after all others.                                       *)
LEMMA AskAdded ==
  ASSUME NEW s \in Seq(Written), InOrder(s), NEW q \in Requests,
         \A p \in Asks(s) : p.id < q.id
  PROVE  Asks(Append(s, q)) = Asks(s) \cup {q} /\ InOrder(Append(s, q))
<1>. DEFINE t == Append(s, q)
<1>0. q \in Written /\ q.kind # "turn" /\ q.id \in Nat \ {0}
  BY DEF Written, Requests
<1>1. /\ Len(s) \in Nat /\ Len(t) = Len(s) + 1 /\ t[Len(s) + 1] = q
      /\ \A i \in 1 .. Len(s) : t[i] = s[i] /\ i < Len(s) + 1 /\ i \in 1 .. Len(t)
      /\ \A i \in 1 .. Len(t) : i \in 1 .. Len(s) \/ i = Len(s) + 1
      /\ Len(s) + 1 \in 1 .. Len(t)
  BY <1>0, Appended
<1>. HIDE DEF t
<1>2. Asks(t) = Asks(s) \cup {q}
  BY <1>0, <1>1 DEF Asks
<1>3. \A i \in 1 .. Len(s) : s[i].id < q.id
  <2>1. \A i \in 1 .. Len(s) : s[i] \in Written
    BY ElementOfSeq
  <2>2. \A i \in 1 .. Len(s) : s[i].kind = "turn" => s[i].id = 0
    BY <2>1 DEF Written, Requests, TurnLines
  <2>. QED
    BY <1>0, <2>2 DEF Asks
<1>4. InOrder(t)
  BY <1>1, <1>3 DEF InOrder
<1>. QED
  BY <1>2, <1>4 DEF t

\* A turn is no request.
LEMMA TurnAdded ==
  ASSUME NEW s \in Seq(Written), InOrder(s), NEW q \in TurnLines
  PROVE  Asks(Append(s, q)) = Asks(s) /\ InOrder(Append(s, q))
<1>. DEFINE t == Append(s, q)
<1>0. q \in Written /\ q.kind = "turn"
  BY DEF Written, TurnLines
<1>1. /\ Len(s) \in Nat /\ Len(t) = Len(s) + 1 /\ t[Len(s) + 1] = q
      /\ \A i \in 1 .. Len(s) : t[i] = s[i] /\ i < Len(s) + 1 /\ i \in 1 .. Len(t)
      /\ \A i \in 1 .. Len(t) : i \in 1 .. Len(s) \/ i = Len(s) + 1
      /\ Len(s) + 1 \in 1 .. Len(t)
  BY <1>0, Appended
<1>. HIDE DEF t
<1>2. Asks(t) = Asks(s)
  BY <1>0, <1>1 DEF Asks
<1>4. InOrder(t)
  BY <1>0, <1>1 DEF InOrder
<1>. QED
  BY <1>2, <1>4 DEF t

(* The first line taken from the pipe.                                       *)
LEMMA AskTaken ==
  ASSUME NEW s \in Seq(Written), InOrder(s), s # <<>>
  PROVE  /\ InOrder(Tail(s))
         /\ Head(s).kind = "turn" => Asks(Tail(s)) = Asks(s)
         /\ Head(s).kind # "turn" =>
               /\ Head(s) \in Asks(s) /\ Asks(Tail(s)) = Asks(s) \ {Head(s)}
               /\ \A q \in Asks(Tail(s)) : Head(s).id < q.id
<1>. DEFINE t == Tail(s)
            h == Head(s)
<1>1. /\ Len(s) \in Nat /\ Len(t) \in Nat /\ Len(s) = Len(t) + 1
      /\ s[1] = h /\ h \in Written /\ t \in Seq(Written) /\ 1 \in 1 .. Len(s)
      /\ \A i \in 1 .. Len(t) : i + 1 \in 1 .. Len(s) /\ t[i] = s[i + 1] /\ 1 < i + 1
      /\ \A i \in 1 .. Len(s) : i = 1 \/ i - 1 \in 1 .. Len(t)
      /\ \A i \in 1 .. Len(s) : i # 1 => t[i - 1] = s[i]
  BY Behead
<1>. HIDE DEF t, h
<1>2. InOrder(t)
  BY <1>1 DEF InOrder
<1>a. ASSUME NEW q \in Asks(t) PROVE q \in Asks(s) /\ h.id < q.id
  <2>1. PICK i \in 1 .. Len(t) : q = t[i] /\ t[i].kind # "turn"
    BY DEF Asks
  <2>2. i + 1 \in 1 .. Len(s) /\ s[i + 1] = q /\ 1 < i + 1 /\ s[i + 1].kind # "turn"
    BY <1>1, <2>1
  <2>. QED
    BY <1>1, <2>2 DEF Asks, InOrder
<1>b. ASSUME NEW q \in Asks(s), q # h PROVE q \in Asks(t)
  <2>1. PICK i \in 1 .. Len(s) : q = s[i] /\ s[i].kind # "turn"
    BY DEF Asks
  <2>2. i # 1
    BY <1>1, <1>b, <2>1
  <2>3. i - 1 \in 1 .. Len(t) /\ t[i - 1] = q /\ t[i - 1].kind # "turn"
    BY <1>1, <2>1, <2>2
  <2>. QED
    BY <2>3 DEF Asks
<1>c. h \in Asks(s) <=> h.kind # "turn"
  BY <1>1 DEF Asks
<1>3. Asks(s) = IF h.kind = "turn" THEN Asks(t) ELSE Asks(t) \cup {h}
  <2>1. Asks(t) \subseteq Asks(s) /\ Asks(s) \subseteq Asks(t) \cup {h}
    BY <1>a, <1>b
  <2>2. CASE h.kind = "turn"
    <3>1. h \notin Asks(s)
      BY <1>c, <2>2
    <3>. QED
      BY <2>1, <2>2, <3>1
  <2>3. CASE h.kind # "turn"
    <3>1. h \in Asks(s)
      BY <1>c, <2>3
    <3>. QED
      BY <2>1, <2>3, <3>1
  <2>. QED
    BY <2>2, <2>3
<1>4. \A q \in Asks(t) : h.id < q.id
  BY <1>a
<1>5. h.kind # "turn" => h \notin Asks(t)
  <2>1. h.id \in Nat
    BY <1>1 DEF Written, Requests, TurnLines
  <2>. QED
    BY <1>4, <2>1
<1>6. h.kind # "turn" => h \in Asks(s) /\ Asks(t) = Asks(s) \ {h}
  BY <1>3, <1>5
<1>. QED
  BY <1>2, <1>3, <1>4, <1>6 DEF t, h

(* An answer after the others, and the first one read.                       *)
LEMMA AnswerAdded ==
  ASSUME NEW s \in Seq(Answers), Apart(s), NEW a \in Answers, \A b \in Of(s) : b.id # a.id
  PROVE  Of(Append(s, a)) = Of(s) \cup {a} /\ Apart(Append(s, a))
<1>. DEFINE t == Append(s, a)
<1>1. /\ Len(s) \in Nat /\ Len(t) = Len(s) + 1 /\ t[Len(s) + 1] = a
      /\ \A i \in 1 .. Len(s) : t[i] = s[i] /\ i < Len(s) + 1 /\ i \in 1 .. Len(t)
      /\ \A i \in 1 .. Len(t) : i \in 1 .. Len(s) \/ i = Len(s) + 1
      /\ Len(s) + 1 \in 1 .. Len(t)
  BY Appended
<1>. HIDE DEF t
<1>2. Of(t) = Of(s) \cup {a}
  BY <1>1 DEF Of
<1>3. Apart(t)
  BY <1>1 DEF Apart, Of
<1>. QED
  BY <1>2, <1>3 DEF t

LEMMA AnswerRead ==
  ASSUME NEW s \in Seq(Answers), Apart(s), s # <<>>
  PROVE  /\ Apart(Tail(s)) /\ Head(s) \in Of(s) /\ Of(Tail(s)) = Of(s) \ {Head(s)}
         /\ \A b \in Of(Tail(s)) : b.id # Head(s).id
<1>. DEFINE t == Tail(s)
            h == Head(s)
<1>1. /\ Len(s) \in Nat /\ Len(t) \in Nat /\ Len(s) = Len(t) + 1
      /\ s[1] = h /\ h \in Answers /\ t \in Seq(Answers) /\ 1 \in 1 .. Len(s)
      /\ \A i \in 1 .. Len(t) : i + 1 \in 1 .. Len(s) /\ t[i] = s[i + 1] /\ 1 < i + 1
      /\ \A i \in 1 .. Len(s) : i = 1 \/ i - 1 \in 1 .. Len(t)
      /\ \A i \in 1 .. Len(s) : i # 1 => t[i - 1] = s[i]
  BY Behead
<1>. HIDE DEF t, h
<1>2. Apart(t)
  BY <1>1 DEF Apart
<1>3. \A b \in Of(t) : b.id # h.id
  BY <1>1 DEF Of, Apart
<1>4. Of(s) = Of(t) \cup {h}
  BY <1>1 DEF Of
<1>. QED
  BY <1>2, <1>3, <1>4 DEF t, h

-----------------------------------------------------------------------------
(* The hub and the child: what is tracked, on its way and held.              *)

Asked == Asks(inbox)
Answered == Of(outbox)
LayersAsked == {q \in Asked : q.kind = "layer"}

(* An id names one request, wherever it is: P is tracked, A was written, N   *)
(* comes back, n is the next id.                                             *)
IdsOnce(P, A, N, n) ==
    /\ \A q \in P \cup A : q.id < n
    /\ \A a \in N : a.id < n
    /\ \A a \in N, q \in A : a.id # q.id
    /\ \A p, q \in P \cup A : p.id = q.id => p = q
    /\ \A p \in P, a \in N : p.id = a.id => p.kind = a.kind

IdsAreOnce ==
    /\ IdsOnce(pending, Asked, Answered, nextId)
    /\ mcp.flying < nextId
    /\ InOrder(inbox) /\ Apart(outbox)

(* With no child nothing is on its way, and a dead one takes nothing.        *)
PipesAreTheChilds ==
    /\ ~Attached => inbox = <<>> /\ outbox = <<>>
    /\ Attached /\ ~child.alive => inbox = <<>>

(* The apply in flight is tracked, and it is the last one: once the child    *)
(* has taken it, it holds its denies and no other apply is on its way.       *)
FlyingIsTracked ==
    /\ mcp.flying # 0 => \E p \in pending : /\ p.id = mcp.flying /\ p.kind = "layer"
                                            /\ p.value = mcp.denies
    /\ mcp.flying = 0 <=> mcp.denies = "none"

FlyingIsLast ==
    mcp.flying # 0 =>
        /\ \A q \in LayersAsked : q.id <= mcp.flying
        /\ \A a \in Answered :
              a.id = mcp.flying /\ a.verdict = "success" =>
                  child.layer = mcp.denies /\ LayersAsked = {}

RefusalsAreTold ==
    \A a \in Answered : a.verdict = "error" /\ a.kind = "layer" => "refused" \in story

(* What is confirmed is held, and nothing is on its way to change it.        *)
Held ==
    \/ child.layer = mcp.confirmed
    \/ ~ownerMcp /\ mcp.confirmed = "base" /\ child.layer = "none" /\ child.launched

ConfirmedHolds ==
    /\ mcp.confirmed # "none" /\ mcp.flying = 0 /\ ~lost /\ Running
    /\ ~relaunchDue \/ "refused" \notin story
    => LayersAsked = {} /\ Held

(* Nobody turned a layer or a query down, and no retired line was folded.    *)
Clean == Running /\ story \cap {"refused", "overtaken"} = {}

(* One query at a time, tracked until its answer is folded.  The answer is   *)
(* what the child said last: the hub knows it, or holds it (Settle).         *)
QueriesAreTracked ==
    /\ \A p, q \in pending : p.kind = "status" /\ q.kind = "status" => p = q
    /\ Clean =>
          /\ \A q \in Asked : q.kind = "status" => q \in pending
          /\ \A a \in Answered : a.kind = "status" => \E p \in pending : p.id = a.id

AnswersAreKnown ==
    Clean =>
        /\ ~lost
        /\ \A a \in Answered : a.kind = "status" => a.list = child.answered
        /\ (\A a \in Answered : a.kind # "status") =>
              child.answered = IF settling # "none" THEN settling ELSE mcp.known

HubInv ==
    /\ IdsAreOnce /\ PipesAreTheChilds /\ FlyingIsTracked /\ FlyingIsLast /\ RefusalsAreTold
    /\ ConfirmedHolds /\ QueriesAreTracked /\ AnswersAreKnown

(* The ids, when a request goes out, when one is over, and when the child    *)
(* answers one.                                                              *)
LEMMA IdSent ==
  ASSUME NEW P \in SUBSET Requests, NEW A \in SUBSET Requests, NEW N \in SUBSET Answers, NEW n \in Nat,
         IdsOnce(P, A, N, n), NEW q \in Requests, q.id = n
  PROVE  IdsOnce(P \cup {q}, A \cup {q}, N, n + 1) /\ IdsOnce(P \cup {q}, A, N, n + 1)
<1>1. \A x \in P \cup A \cup N : x.id \in Nat /\ x.id < n /\ x.id < n + 1 /\ x.id # n
  BY DEF IdsOnce, Requests, Answers
<1>2. n < n + 1
  OBVIOUS
<1>3. IdsOnce(P \cup {q}, A \cup {q}, N, n + 1)
  BY <1>1, <1>2 DEF IdsOnce
<1>4. IdsOnce(P \cup {q}, A, N, n + 1)
  BY <1>1, <1>2 DEF IdsOnce
<1>. QED
  BY <1>3, <1>4

LEMMA IdOver ==
  ASSUME NEW P, NEW A, NEW N, NEW n, IdsOnce(P, A, N, n),
         NEW Q \in SUBSET P, NEW B \in SUBSET A, NEW M \in SUBSET N
  PROVE  IdsOnce(Q, B, M, n)
BY DEF IdsOnce

LEMMA IdAnswered ==
  ASSUME NEW P, NEW A, NEW N, NEW n, IdsOnce(P, A, N, n),
         NEW q \in A, NEW a, a.id = q.id, a.kind = q.kind
  PROVE  IdsOnce(P, A \ {q}, N \cup {a}, n)
<1>1. \A x \in A \ {q} : x.id # a.id
  BY DEF IdsOnce
<1>2. a.id < n
  BY DEF IdsOnce
<1>3. \A p \in P : p.id = a.id => p = q
  BY DEF IdsOnce
<1>. QED
  BY <1>1, <1>2, <1>3 DEF IdsOnce

\* The types these need.
LEMMA HubTypes ==
  ASSUME WellTyped
  PROVE  /\ Asked \subseteq Requests /\ Answered \subseteq Answers /\ pending \subseteq Requests
         /\ nextId \in Nat \ {0} /\ mcp \in McpLayers /\ mcp.flying \in Nat
         /\ \A q \in Requests : q.id \in Nat \ {0}
BY AsksTyped, OfTyped DEF WellTyped, Asked, Answered, Requests, McpLayers

(* Nothing of it changes but what may have gone wrong.                       *)
hubVars == <<ownerMcp, child, inbox, outbox, settling, mcp, pending, nextId, lost, relaunchDue>>

LEMMA HubUntouched ==
  ASSUME HubInv, UNCHANGED hubVars, story \subseteq story'
  PROVE  HubInv'
<1>1. UNCHANGED <<Asked, Answered, LayersAsked, Attached, Running, Held>> /\ (Clean' => Clean)
  BY DEF hubVars, Asked, Answered, LayersAsked, Attached, Running, Held, Clean
<1>. QED
  BY <1>1 DEF hubVars, HubInv, IdsAreOnce, PipesAreTheChilds, FlyingIsTracked, FlyingIsLast,
     RefusalsAreTold, ConfirmedHolds, QueriesAreTracked, AnswersAreKnown

(* A request goes to the child that is there, or is only tracked.            *)
LEMMA Sent ==
  ASSUME WellTyped, HubInv, Alive, NEW q \in Requests, q.id = nextId, Deliver(q), UNCHANGED outbox
  PROVE  /\ IdsOnce(pending', Asked', Answered', nextId') /\ InOrder(inbox') /\ Apart(outbox')
         /\ pending' = pending \cup {q} /\ nextId' = nextId + 1
         /\ Asked' = IF Attached THEN Asked \cup {q} ELSE Asked
         /\ Answered' = Answered
         /\ Attached \/ inbox' = <<>>
         /\ Attached => child.alive
         /\ mcp.flying < nextId' /\ nextId < nextId'
<1>0. /\ inbox \in Seq(Written) /\ \A p \in Asked : p.id < q.id
      /\ IdsOnce(pending, Asked, Answered, nextId) /\ InOrder(inbox) /\ Apart(outbox)
      /\ mcp.flying < nextId
  BY DEF WellTyped, HubInv, IdsAreOnce, IdsOnce
<1>1. /\ pending' = pending \cup {q} /\ nextId' = nextId + 1 /\ Answered' = Answered
      /\ inbox' = IF Attached THEN Append(inbox, q) ELSE inbox
  BY DEF Deliver, Answered
<1>2. Asked' = (IF Attached THEN Asked \cup {q} ELSE Asked) /\ InOrder(inbox')
  BY <1>0, <1>1, AskAdded DEF Asked
<1>3. IdsOnce(pending', Asked', Answered', nextId')
  BY <1>0, <1>1, <1>2, IdSent, HubTypes
<1>4. Attached \/ inbox' = <<>>
  BY <1>1 DEF HubInv, PipesAreTheChilds
<1>5. Attached => child.alive
  BY DEF Alive
<1>6. mcp.flying < nextId' /\ nextId < nextId'
  BY <1>0, <1>1, HubTypes
<1>. QED
  BY <1>0, <1>1, <1>2, <1>3, <1>4, <1>5, <1>6

\* A request that is no layer: nothing held or in flight changes.
LEMMA HubDeliver ==
  ASSUME WellTyped, HubInv, Alive, NEW q \in Requests, q.id = nextId, q.kind # "layer",
         q.kind = "status" => ~Asking(pending), Deliver(q),
         UNCHANGED <<ownerMcp, child, outbox, settling, mcp, lost, relaunchDue, story>>
  PROVE  HubInv'
<1>1. /\ IdsOnce(pending', Asked', Answered', nextId') /\ InOrder(inbox') /\ Apart(outbox')
      /\ pending' = pending \cup {q} /\ nextId' = nextId + 1
      /\ Asked' = IF Attached THEN Asked \cup {q} ELSE Asked
      /\ Answered' = Answered
      /\ Attached \/ inbox' = <<>>
      /\ Attached => child.alive
      /\ mcp.flying < nextId'
  BY Sent
<1>2. LayersAsked' = LayersAsked /\ UNCHANGED <<Attached, Running, Held, Clean>>
  BY <1>1 DEF LayersAsked, Attached, Running, Held, Clean
<1>3. IdsAreOnce' /\ PipesAreTheChilds'
  BY <1>1, <1>2 DEF HubInv, IdsAreOnce, PipesAreTheChilds
<1>4. FlyingIsTracked' /\ FlyingIsLast' /\ RefusalsAreTold' /\ ConfirmedHolds' /\ AnswersAreKnown'
  BY <1>1, <1>2 DEF HubInv, FlyingIsTracked, FlyingIsLast, RefusalsAreTold, ConfirmedHolds,
     AnswersAreKnown
<1>5. QueriesAreTracked'
  BY <1>1, <1>2 DEF HubInv, QueriesAreTracked, Asking
<1>. QED
  BY <1>3, <1>4, <1>5 DEF HubInv

\* A layer: it is the last apply, and nothing is confirmed until it is answered.
LEMMA HubSendLayer ==
  ASSUME WellTyped, HubInv, NEW on \in BOOLEAN, SendLayer(on),
         UNCHANGED <<ownerMcp, child, outbox, settling, lost, relaunchDue, story>>
  PROVE  HubInv'
<1>0. mcp \in McpLayers /\ nextId \in Nat \ {0} /\ Target(mcp) \in Values /\ Target(mcp) # "none"
  BY HubTypes, TargetTyped
<1>c. UNCHANGED <<Attached, Running, Clean>>
  BY DEF Attached, Running, Clean
<1>1. CASE Alive
  <2>. DEFINE q == Request("layer", IF on THEN Target(mcp) ELSE "none")
  <2>1. /\ q \in Requests /\ q.id = nextId /\ q.kind = "layer"
        /\ on => q.value = Target(mcp)
    BY <1>0, RequestTyped DEF Request, Values, OrNone
  <2>2. /\ Deliver(q)
        /\ mcp'.flying = (IF on THEN nextId ELSE 0) /\ mcp'.confirmed = "none"
        /\ mcp'.denies = (IF on THEN Target(mcp) ELSE "none") /\ mcp'.known = mcp.known
    BY <1>0, <1>1 DEF SendLayer, McpLayers
  <2>. HIDE DEF q
  <2>3. /\ IdsOnce(pending', Asked', Answered', nextId') /\ InOrder(inbox') /\ Apart(outbox')
        /\ pending' = pending \cup {q} /\ nextId' = nextId + 1
        /\ Asked' = IF Attached THEN Asked \cup {q} ELSE Asked
        /\ Answered' = Answered
        /\ Attached \/ inbox' = <<>>
        /\ Attached => child.alive
        /\ nextId < nextId'
    BY <1>1, <2>1, <2>2, Sent
  <2>4. IdsAreOnce' /\ PipesAreTheChilds'
    BY <1>0, <1>c, <2>2, <2>3 DEF HubInv, IdsAreOnce, PipesAreTheChilds
  <2>5. FlyingIsTracked'
    BY <1>0, <2>1, <2>2, <2>3 DEF FlyingIsTracked
  <2>6. FlyingIsLast'
    <3>1. CASE on
      <4>1. \A x \in Asked' : x.id <= nextId
        BY <2>1, <2>3, HubTypes DEF HubInv, IdsAreOnce, IdsOnce
      <4>2. \A a \in Answered' : a.id # nextId
        BY <2>3, HubTypes DEF HubInv, IdsAreOnce, IdsOnce
      <4>. QED
        BY <2>2, <3>1, <4>1, <4>2 DEF FlyingIsLast, LayersAsked
    <3>2. CASE ~on
      BY <2>2, <3>2 DEF FlyingIsLast
    <3>. QED
      BY <3>1, <3>2
  <2>7. RefusalsAreTold' /\ ConfirmedHolds'
    BY <2>2, <2>3 DEF HubInv, RefusalsAreTold, ConfirmedHolds
  <2>8. QueriesAreTracked' /\ AnswersAreKnown'
    BY <1>c, <2>1, <2>2, <2>3 DEF HubInv, QueriesAreTracked, AnswersAreKnown
  <2>. QED
    BY <2>4, <2>5, <2>6, <2>7, <2>8 DEF HubInv
<1>2. CASE ~Alive
  <2>1. /\ mcp'.flying = 0 /\ mcp'.confirmed = "none" /\ mcp'.denies = "none" /\ mcp'.known = mcp.known
        /\ UNCHANGED <<pending, nextId, inbox>>
    BY <1>0, <1>2 DEF SendLayer, McpLayers
  <2>2. UNCHANGED <<Asked, Answered, LayersAsked>>
    BY <2>1 DEF Asked, Answered, LayersAsked
  <2>3. IdsAreOnce'
    BY <1>0, <2>1, <2>2 DEF HubInv, IdsAreOnce
  <2>. QED
    BY <1>c, <2>1, <2>2, <2>3 DEF HubInv, PipesAreTheChilds, FlyingIsTracked, FlyingIsLast,
       RefusalsAreTold, ConfirmedHolds, QueriesAreTracked, AnswersAreKnown
<1>. QED
  BY <1>1, <1>2

(* A request is no longer tracked: an apply that was not confirmed is told.  *)
LEMMA Refusal ==
  ASSUME WellTyped, HubInv, NEW gone \in SUBSET pending, Refuse(gone, mcp),
         UNCHANGED <<ownerMcp, child, inbox, settling, nextId, lost>>,
         \/ outbox' = outbox
         \/ outbox # <<>> /\ outbox' = Tail(outbox) /\ Head(outbox).kind # "status",
         pending' = pending \ gone,
         story' = story \/ story' = Told(gone),
         \A p \in gone : p.kind = "layer" => "refused" \in story',
         \A q \in gone : q.kind = "status" => "refused" \in story'
  PROVE  HubInv'
<1>0. mcp \in McpLayers /\ nextId \in Nat \ {0} /\ outbox \in Seq(Answers)
  BY HubTypes DEF WellTyped
<1>1. story \subseteq story'
  BY DEF Told
<1>2. /\ UNCHANGED <<Asked, LayersAsked, Attached, Running>>
      /\ Answered' \subseteq Answered /\ Apart(outbox')
      /\ Clean' => Clean
  <2>0. Apart(outbox)
    BY DEF HubInv, IdsAreOnce
  <2>1. Answered' \subseteq Answered /\ Apart(outbox')
    <3>1. CASE outbox' = outbox
      BY <2>0, <3>1 DEF Answered
    <3>2. CASE outbox # <<>> /\ outbox' = Tail(outbox)
      BY <1>0, <2>0, <3>2, AnswerRead DEF Answered
    <3>. QED
      BY <3>1, <3>2
  <2>. QED
    BY <1>1, <2>1 DEF Asked, LayersAsked, Attached, Running, Clean
<1>3. \/ /\ \A p \in gone : p.id # mcp.flying
         /\ mcp' = mcp
      \/ /\ \E p \in gone : p.id = mcp.flying /\ p.kind = "layer"
         /\ mcp'.flying = 0 /\ mcp'.denies = "none" /\ mcp'.confirmed = mcp.confirmed
         /\ mcp'.known = mcp.known
  <2>1. ASSUME NEW p \in gone, p.id = mcp.flying PROVE p.kind = "layer"
    <3>1. mcp.flying # 0
      BY <2>1, HubTypes
    <3>. QED
      BY <2>1, <3>1 DEF HubInv, FlyingIsTracked, IdsAreOnce, IdsOnce
  <2>. QED
    BY <1>0, <2>1 DEF Refuse, Forgotten, McpLayers
<1>4. /\ relaunchDue => relaunchDue'
      /\ (\E p \in gone : p.kind = "layer") => relaunchDue' /\ "refused" \in story'
  BY DEF Refuse
<1>5. IdsAreOnce'
  <2>1. IdsOnce(pending', Asked', Answered', nextId')
    BY <1>2, IdOver DEF HubInv, IdsAreOnce
  <2>2. mcp'.flying < nextId'
    BY <1>0, <1>3 DEF HubInv, IdsAreOnce
  <2>. QED
    BY <1>2, <2>1, <2>2 DEF HubInv, IdsAreOnce
<1>6. PipesAreTheChilds'
  <2>1. ~Attached => outbox' = <<>>
    BY DEF HubInv, PipesAreTheChilds
  <2>. QED
    BY <1>2, <2>1 DEF HubInv, PipesAreTheChilds
<1>7. FlyingIsTracked'
  BY <1>3 DEF HubInv, FlyingIsTracked
<1>8. FlyingIsLast'
  BY <1>2, <1>3 DEF HubInv, FlyingIsLast
<1>9. RefusalsAreTold'
  BY <1>1, <1>2 DEF HubInv, RefusalsAreTold
<1>10. ConfirmedHolds'
  <2>1. CASE \E p \in gone : p.id = mcp.flying /\ p.kind = "layer"
    BY <1>4, <2>1 DEF ConfirmedHolds
  <2>2. CASE mcp' = mcp
    BY <1>1, <1>2, <1>4, <2>2 DEF HubInv, ConfirmedHolds, Held
  <2>. QED
    BY <1>3, <2>1, <2>2
<1>11. QueriesAreTracked'
  <2>1. ASSUME Clean', NEW p \in gone PROVE p.kind # "status"
    BY <2>1 DEF Clean
  <2>2. ASSUME Clean', NEW a \in Answered', a.kind = "status" PROVE \E p \in pending' : p.id = a.id
    <3>1. PICK p \in pending : p.id = a.id
      BY <1>2, <2>2 DEF HubInv, QueriesAreTracked
    <3>2. p.kind = "status"
      BY <1>2, <2>2, <3>1 DEF HubInv, IdsAreOnce, IdsOnce
    <3>. QED
      BY <2>1, <2>2, <3>1, <3>2
  <2>3. \A q \in Asked : Clean' /\ q.kind = "status" => q \in pending'
    BY <1>2, <2>1 DEF HubInv, QueriesAreTracked
  <2>. QED
    BY <1>2, <2>2, <2>3 DEF HubInv, QueriesAreTracked
<1>12. ASSUME outbox' = outbox PROVE AnswersAreKnown'
  <2>1. Answered' = Answered /\ mcp'.known = mcp.known
    BY <1>3, <1>12 DEF Answered
  <2>. QED
    BY <1>2, <2>1 DEF HubInv, AnswersAreKnown
<1>13. ASSUME outbox # <<>>, outbox' = Tail(outbox), Head(outbox).kind # "status"
       PROVE  AnswersAreKnown'
  <2>1. Answered' = Answered \ {Head(outbox)}
    BY <1>0, <1>13, AnswerRead DEF Answered, HubInv, IdsAreOnce
  <2>2. mcp'.known = mcp.known
    BY <1>3
  <2>. QED
    BY <1>2, <1>13, <2>1, <2>2 DEF HubInv, AnswersAreKnown
<1>. QED
  BY <1>5, <1>6, <1>7, <1>8, <1>9, <1>10, <1>11, <1>12, <1>13 DEF HubInv

\* A child is not the line that stands for none.
LEMMA ChildIsSomeone == \A c \in Children : c # NoLine
<1>. SUFFICES ASSUME NEW c \in Children, c = NoLine PROVE FALSE
  OBVIOUS
<1>1. "alive" \in DOMAIN c /\ DOMAIN NoLine = {"kind"}
  BY DEF Children, NoLine
<1>. QED
  BY <1>1

(* The child is hung up: nothing is tracked and nothing is on its way.       *)
LEMMA HubRetired ==
  ASSUME WellTyped, HubInv, child' = NoLine, inbox' = <<>>, outbox' = <<>>, pending' = {},
         mcp' = Forgotten(mcp), nextId' = nextId
  PROVE  HubInv'
<1>1. Asked' = {} /\ Answered' = {} /\ InOrder(inbox') /\ Apart(outbox')
  BY DEF Asked, Answered, Asks, Of, InOrder, Apart
<1>2. ~Attached' /\ ~Running' /\ ~Clean'
  BY DEF Attached, Running, Clean
<1>3. mcp'.flying = 0 /\ mcp'.denies = "none" /\ 0 < nextId'
  BY HubTypes DEF Forgotten, McpLayers
<1>. QED
  BY <1>1, <1>2, <1>3 DEF HubInv, IdsAreOnce, IdsOnce, PipesAreTheChilds, FlyingIsTracked, FlyingIsLast,
     RefusalsAreTold, ConfirmedHolds, QueriesAreTracked, AnswersAreKnown

(* A new child knows nothing, and nothing is known of it but its launch.     *)
LEMMA HubSpawned ==
  ASSUME WellTyped, HubInv, ~Attached, settling = "none", Spawn, WellTyped'
  PROVE  HubInv'
<1>1. inbox = <<>> /\ outbox = <<>>
  BY DEF HubInv, PipesAreTheChilds
<1>2. inbox' = <<>> /\ outbox' = <<>> /\ pending' = pending /\ nextId' = nextId /\ lost' = FALSE
      /\ settling' = "none"
  BY <1>1 DEF Spawn
<1>3. Asked' = {} /\ Answered' = {} /\ LayersAsked' = {} /\ InOrder(inbox') /\ Apart(outbox')
  BY <1>2 DEF Asked, Answered, LayersAsked, Asks, Of, InOrder, Apart
<1>4. /\ child'.alive /\ child'.layer = "none" /\ child'.answered = "none"
      /\ mcp'.flying = 0 /\ mcp'.denies = "none" /\ mcp'.known = "none"
      /\ mcp'.confirmed # "none" => ~ownerMcp' /\ mcp'.confirmed = "base" /\ child'.launched
  <2>1. PICK own \in OwnModes, list \in Served :
            child' = Fresh(IF LaunchMode = "none" THEN own ELSE LaunchMode, LaunchMode = "readonly", list)
    BY DEF Spawn
  <2>2. /\ mcp' = [NoLayer EXCEPT !.on = (LaunchMode = "readonly"),
                       !.confirmed = IF LaunchMode = "readonly" /\ ~ownerMcp THEN "base" ELSE "none"]
        /\ ownerMcp' = ownerMcp
    BY DEF Spawn
  <2>3. /\ child'.alive /\ child'.layer = "none" /\ child'.answered = "none"
        /\ child'.launched = (LaunchMode = "readonly")
    BY <2>1 DEF Fresh
  <2>4. /\ mcp'.flying = 0 /\ mcp'.denies = "none" /\ mcp'.known = "none"
        /\ mcp'.confirmed = IF LaunchMode = "readonly" /\ ~ownerMcp THEN "base" ELSE "none"
    BY <2>2 DEF NoLayer
  <2>. QED
    BY <2>2, <2>3, <2>4
<1>5. 0 < nextId' /\ IdsOnce(pending', Asked', Answered', nextId')
  BY <1>2, <1>3, HubTypes, IdOver DEF HubInv, IdsAreOnce
<1>. QED
  BY <1>2, <1>3, <1>4, <1>5 DEF HubInv, IdsAreOnce, PipesAreTheChilds, FlyingIsTracked,
     FlyingIsLast, RefusalsAreTold, ConfirmedHolds, QueriesAreTracked, AnswersAreKnown, Held

(* A turn goes out.                                                          *)
LEMMA HubTurnSent ==
  ASSUME WellTyped, HubInv, SendTurn
  PROVE  HubInv'
<1>. DEFINE q == [id |-> 0, kind |-> "turn", value |-> disp.shown]
<1>1. q \in TurnLines
  BY DEF WellTyped, Dispatches, TurnLines
<1>2. \/ inbox' = inbox
      \/ Attached /\ child.alive /\ inbox' = Append(inbox, q)
  BY DEF SendTurn
<1>. HIDE DEF q
<1>3. UNCHANGED <<ownerMcp, child, outbox, settling, mcp, pending, nextId, lost, relaunchDue, story>>
  BY DEF SendTurn, hub, ghosts
<1>4. Asked' = Asked /\ InOrder(inbox')
  BY <1>1, <1>2, TurnAdded DEF WellTyped, Asked, HubInv, IdsAreOnce
<1>5. UNCHANGED <<Answered, LayersAsked, Attached, Running, Held, Clean>>
  BY <1>3, <1>4 DEF Answered, LayersAsked, Attached, Running, Held, Clean
<1>6. PipesAreTheChilds'
  BY <1>2, <1>3, <1>5 DEF HubInv, PipesAreTheChilds
<1>. QED
  BY <1>3, <1>4, <1>5, <1>6 DEF HubInv, IdsAreOnce, FlyingIsTracked, FlyingIsLast,
     RefusalsAreTold, ConfirmedHolds, QueriesAreTracked, AnswersAreKnown

(* The child takes a request and answers it.                                 *)
LEMMA Taken ==
  ASSUME WellTyped, HubInv, NEW kind, kind # "turn", Taking(kind),
         NEW v, NEW m, NEW l, Answer(v, m, l), WellTyped', nextId' = nextId, pending' = pending
  PROVE  \E h \in Asked, a \in Answers :
            /\ h = Head(inbox) /\ h.kind = kind
            /\ a.id = h.id /\ a.kind = kind /\ a.verdict = v /\ a.list = l /\ a.mode = m
            /\ Asked' = Asked \ {h} /\ Answered' = Answered \cup {a}
            /\ \A q \in Asked' : h.id < q.id
            /\ IdsOnce(pending', Asked', Answered', nextId') /\ InOrder(inbox') /\ Apart(outbox')
            /\ Attached /\ child.alive
<1>. DEFINE h == Head(inbox)
            a == [kind |-> h.kind, id |-> h.id, verdict |-> v, mode |-> m, list |-> l]
<1>0. inbox \in Seq(Written) /\ outbox \in Seq(Answers) /\ InOrder(inbox) /\ Apart(outbox)
      /\ IdsOnce(pending, Asked, Answered, nextId)
  BY DEF WellTyped, HubInv, IdsAreOnce
<1>1. inbox # <<>> /\ inbox' = Tail(inbox) /\ h.kind = kind /\ outbox' = Append(outbox, a)
  BY DEF Taking, Answer
<1>2. /\ InOrder(inbox') /\ h \in Asked /\ Asked' = Asked \ {h}
      /\ \A q \in Asked' : h.id < q.id
  BY <1>0, <1>1, AskTaken DEF Asked
<1>3. a \in Answers
  <2>1. outbox' \in Seq(Answers)
    BY DEF WellTyped
  <2>2. outbox'[Len(outbox) + 1] = a /\ Len(outbox) + 1 \in 1 .. Len(outbox')
    <3>. HIDE DEF a
    <3>1. outbox \in Seq(Answers \cup {a})
      BY <1>0
    <3>. QED
      BY <1>1, <3>1, Appended
  <2>. QED
    BY <2>1, <2>2, ElementOfSeq
<1>4. a.id = h.id /\ a.kind = kind /\ a.verdict = v /\ a.list = l /\ a.mode = m /\ a.kind = h.kind
  BY <1>1
<1>. HIDE DEF a, h
<1>5. \A b \in Answered : b.id # a.id
  BY <1>0, <1>2, <1>4 DEF IdsOnce
<1>6. Answered' = Answered \cup {a} /\ Apart(outbox')
  BY <1>0, <1>1, <1>3, <1>5, AnswerAdded DEF Answered
<1>7. IdsOnce(pending', Asked', Answered', nextId')
  BY <1>0, <1>2, <1>4, <1>6, IdAnswered
<1>8. Attached /\ child.alive
  BY DEF Taking, Running
<1>. QED
  BY <1>1, <1>2, <1>3, <1>4, <1>6, <1>7, <1>8 DEF h

\* Its answer: a layer taken is held before its answer is on its way.
LEMMA HubChild ==
  ASSUME WellTyped, HubInv, WellTyped',
         \/ ChildInitializes \/ ChildSwitches \/ ChildTakesLayer \/ ChildRefuses
         \/ ChildNamesItsServers
  PROVE  HubInv'
<1>1. /\ UNCHANGED <<ownerMcp, settling, mcp, pending, nextId, lost, relaunchDue>>
      /\ story \subseteq story'
  BY DEF ChildInitializes, ChildSwitches, ChildTakesLayer, ChildRefuses, ChildNamesItsServers,
     hub, ghosts
<1>2. PICK kind, v, m, l :
          /\ kind \in {"initialize", "mode", "layer", "status"}
          /\ Taking(kind) /\ Answer(v, m, l)
          /\ v \in {"success", "error"}
          /\ kind = "layer" /\ v = "error" => "refused" \in story'
          /\ kind = "status" => l = child.serves /\ child' = [child EXCEPT !.answered = child.serves]
          /\ kind = "layer" /\ v = "success" => child' = [child EXCEPT !.layer = Head(inbox).value]
          /\ \/ kind = "status"
             \/ kind = "layer" /\ v = "success"
             \/ child' = child
             \/ kind = "mode" /\ child' = [child EXCEPT !.mode = Head(inbox).value]
  <2>1. CASE ChildInitializes
    BY <2>1 DEF ChildInitializes
  <2>2. CASE ChildSwitches
    BY <2>2 DEF ChildSwitches
  <2>3. CASE ChildTakesLayer
    BY <2>3 DEF ChildTakesLayer
  <2>4. CASE ChildRefuses
    BY <2>4 DEF ChildRefuses
  <2>5. CASE ChildNamesItsServers
    BY <2>5 DEF ChildNamesItsServers
  <2>. QED
    BY <2>1, <2>2, <2>3, <2>4, <2>5
<1>3. PICK h \in Asked, a \in Answers :
            /\ h = Head(inbox) /\ h.kind = kind
            /\ a.id = h.id /\ a.kind = kind /\ a.verdict = v /\ a.list = l /\ a.mode = m
            /\ Asked' = Asked \ {h} /\ Answered' = Answered \cup {a}
            /\ \A q \in Asked' : h.id < q.id
            /\ IdsOnce(pending', Asked', Answered', nextId') /\ InOrder(inbox') /\ Apart(outbox')
            /\ Attached /\ child.alive
  BY <1>1, <1>2, Taken
<1>4. /\ child \in Children /\ child' \in Children
      /\ child'.alive = child.alive /\ child'.launched = child.launched
      /\ (~(kind = "layer" /\ v = "success") => child'.layer = child.layer)
      /\ (kind = "layer" /\ v = "success" => child'.layer = h.value)
      /\ (kind # "status" => child'.answered = child.answered)
      /\ (kind = "status" => child'.answered = child.serves)
  <2>1. child \in Children
    BY <1>3 DEF WellTyped, Attached
  <2>2. child' \in Children \cup {NoLine}
    BY DEF WellTyped
  <2>3. child' = child \/ (\E x : child' = [child EXCEPT !.answered = x] \/ child' = [child EXCEPT !.layer = x]
                                   \/ child' = [child EXCEPT !.mode = x])
    BY <1>2
  <2>4. DOMAIN child' = DOMAIN child /\ "alive" \in DOMAIN child /\ DOMAIN NoLine = {"kind"}
    BY <2>1, <2>3 DEF Children, NoLine
  <2>5. child' # NoLine
    BY <2>4
  <2>. QED
    BY <1>2, <1>3, <2>1, <2>2, <2>5 DEF Children
<1>5. Attached' /\ Running /\ Running' /\ (Clean' => Clean)
  BY <1>1, <1>3, <1>4, ChildIsSomeone DEF Attached, Running, Clean
<1>6. IdsAreOnce' /\ PipesAreTheChilds'
  BY <1>1, <1>3, <1>4, <1>5 DEF HubInv, IdsAreOnce, PipesAreTheChilds
<1>7. FlyingIsTracked'
  BY <1>1 DEF HubInv, FlyingIsTracked
<1>8. LayersAsked' = LayersAsked \ {h} /\ (h \in LayersAsked <=> kind = "layer")
  BY <1>3 DEF LayersAsked
<1>9. FlyingIsLast'
  <2>. SUFFICES ASSUME mcp.flying # 0
                PROVE  /\ \A q \in LayersAsked' : q.id <= mcp.flying
                       /\ \A b \in Answered' :
                             b.id = mcp.flying /\ b.verdict = "success" =>
                                 child'.layer = mcp.denies /\ LayersAsked' = {}
    BY <1>1 DEF FlyingIsLast
  <2>1. \A q \in LayersAsked' : q.id <= mcp.flying
    BY <1>8 DEF HubInv, FlyingIsLast
  <2>2. ASSUME NEW b \in Answered, b.id = mcp.flying, b.verdict = "success"
        PROVE  child'.layer = mcp.denies /\ LayersAsked' = {}
    <3>1. child.layer = mcp.denies /\ LayersAsked = {}
      BY <2>2 DEF HubInv, FlyingIsLast
    <3>. QED
      BY <1>4, <1>8, <3>1
  <2>3. ASSUME a.id = mcp.flying, a.verdict = "success"
        PROVE  child'.layer = mcp.denies /\ LayersAsked' = {}
    <3>1. PICK p \in pending : p.id = mcp.flying /\ p.kind = "layer" /\ p.value = mcp.denies
      BY DEF HubInv, FlyingIsTracked
    <3>2. p = h
      BY <1>3, <2>3, <3>1 DEF HubInv, IdsAreOnce, IdsOnce
    <3>3. \A q \in LayersAsked' : FALSE
      <4>1. \A q \in LayersAsked' : q.id <= mcp.flying /\ mcp.flying < q.id /\ q.id \in Nat
        BY <1>3, <1>8, <2>1, <2>3, HubTypes DEF LayersAsked
      <4>. QED
        BY <4>1, HubTypes
    <3>. QED
      BY <1>3, <1>4, <2>3, <3>1, <3>2, <3>3
  <2>. QED
    BY <1>3, <2>1, <2>2, <2>3
<1>10. RefusalsAreTold'
  BY <1>1, <1>2, <1>3 DEF HubInv, RefusalsAreTold
<1>11. ConfirmedHolds'
  <2>. SUFFICES ASSUME mcp.confirmed # "none", mcp.flying = 0, ~lost,
                       ~relaunchDue \/ "refused" \notin story
                PROVE  LayersAsked' = {} /\ Held'
    BY <1>1 DEF ConfirmedHolds
  <2>1. LayersAsked = {} /\ Held
    BY <1>5 DEF HubInv, ConfirmedHolds
  <2>2. kind # "layer"
    BY <1>8, <2>1
  <2>. QED
    BY <1>1, <1>4, <1>8, <2>1, <2>2 DEF Held
<1>12. QueriesAreTracked'
  <2>1. ASSUME Clean' PROVE h.kind = "status" => \E p \in pending : p.id = a.id
    BY <1>3, <1>5, <2>1 DEF HubInv, QueriesAreTracked
  <2>2. ASSUME Clean' PROVE /\ \A q \in Asked : q.kind = "status" => q \in pending
                            /\ \A b \in Answered : b.kind = "status" => \E p \in pending : p.id = b.id
    BY <1>5, <2>2 DEF HubInv, QueriesAreTracked
  <2>3. \A p, q \in pending : p.kind = "status" /\ q.kind = "status" => p = q
    BY DEF HubInv, QueriesAreTracked
  <2>. QED
    BY <1>1, <1>3, <2>1, <2>2, <2>3 DEF QueriesAreTracked
<1>13. AnswersAreKnown'
  <2>. SUFFICES ASSUME Clean'
                PROVE  /\ ~lost
                       /\ \A b \in Answered' : b.kind = "status" => b.list = child'.answered
                       /\ (\A b \in Answered' : b.kind # "status") =>
                              child'.answered = IF settling # "none" THEN settling ELSE mcp.known
    BY <1>1 DEF AnswersAreKnown
  <2>1. /\ ~lost
        /\ \A b \in Answered : b.kind = "status" => b.list = child.answered
        /\ (\A b \in Answered : b.kind # "status") =>
              child.answered = IF settling # "none" THEN settling ELSE mcp.known
    BY <1>5 DEF HubInv, AnswersAreKnown
  <2>2. CASE kind # "status"
    BY <1>3, <1>4, <2>1, <2>2
  <2>3. CASE kind = "status"
    <3>1. ASSUME NEW b \in Answered, b.kind = "status" PROVE FALSE
      <4>1. PICK p \in pending : p.id = b.id
        BY <1>5, <3>1 DEF HubInv, QueriesAreTracked
      <4>2. p.kind = "status"
        BY <3>1, <4>1 DEF HubInv, IdsAreOnce, IdsOnce
      <4>3. h \in pending
        BY <1>3, <1>5, <2>3 DEF HubInv, QueriesAreTracked
      <4>4. p = h
        BY <1>3, <2>3, <4>2, <4>3 DEF HubInv, QueriesAreTracked
      <4>. QED
        BY <1>3, <3>1, <4>1, <4>4 DEF HubInv, IdsAreOnce, IdsOnce
    <3>. QED
      BY <1>2, <1>3, <1>4, <2>1, <2>3, <3>1
  <2>. QED
    BY <2>2, <2>3
<1>. QED
  BY <1>6, <1>7, <1>9, <1>10, <1>11, <1>12, <1>13 DEF HubInv

(* The child runs a turn, its servers change, it dies.                       *)
LEMMA HubRuns ==
  ASSUME WellTyped, HubInv, ChildRuns
  PROVE  HubInv'
<1>1. /\ inbox # <<>> /\ inbox' = Tail(inbox) /\ Head(inbox).kind = "turn" /\ Running
      /\ UNCHANGED <<ownerMcp, child, outbox, settling, mcp, pending, nextId, lost, relaunchDue, story>>
  BY DEF ChildRuns, Taking, hub
<1>2. Asked' = Asked /\ InOrder(inbox')
  BY <1>1, AskTaken DEF WellTyped, Asked, HubInv, IdsAreOnce
<1>3. UNCHANGED <<Answered, LayersAsked, Attached, Running, Held, Clean>>
  BY <1>1, <1>2 DEF Answered, LayersAsked, Attached, Running, Held, Clean
<1>4. PipesAreTheChilds'
  BY <1>1, <1>3 DEF PipesAreTheChilds, Running
<1>. QED
  BY <1>1, <1>2, <1>3, <1>4 DEF HubInv, IdsAreOnce, FlyingIsTracked, FlyingIsLast,
     RefusalsAreTold, ConfirmedHolds, QueriesAreTracked, AnswersAreKnown

LEMMA HubServersChange ==
  ASSUME WellTyped, HubInv, WellTyped', ServersChange
  PROVE  HubInv'
<1>1. UNCHANGED <<ownerMcp, inbox, outbox, settling, mcp, pending, nextId, lost, relaunchDue, story>> /\ Running
  BY DEF ServersChange, hub, ghosts
<1>2. PICK list : child' = [child EXCEPT !.serves = list]
  BY DEF ServersChange
<1>3. child \in Children
  BY <1>1 DEF WellTyped, Running, Attached
<1>4. /\ child'.alive = child.alive /\ child'.layer = child.layer
      /\ child'.launched = child.launched /\ child'.answered = child.answered
  BY <1>2, <1>3 DEF Children
<1>5. child' # NoLine
  <2>1. DOMAIN child' = DOMAIN child /\ "alive" \in DOMAIN child /\ DOMAIN NoLine = {"kind"}
    BY <1>2, <1>3 DEF Children, NoLine
  <2>. QED
    BY <2>1
<1>6. UNCHANGED <<Asked, Answered, LayersAsked, Attached, Running, Held, Clean>>
  BY <1>1, <1>4, <1>5 DEF Asked, Answered, LayersAsked, Attached, Running, Held, Clean
<1>. QED
  BY <1>1, <1>4, <1>6 DEF HubInv, IdsAreOnce, PipesAreTheChilds, FlyingIsTracked, FlyingIsLast,
     RefusalsAreTold, ConfirmedHolds, QueriesAreTracked, AnswersAreKnown

LEMMA HubChildDies ==
  ASSUME WellTyped, HubInv, ChildDies
  PROVE  HubInv'
<1>1. /\ UNCHANGED <<ownerMcp, outbox, settling, mcp, pending, nextId, lost, relaunchDue, story>> /\ Running
      /\ inbox' = <<>> /\ child' = [child EXCEPT !.alive = FALSE]
  BY DEF ChildDies, hub, ghosts
<1>3. child \in Children
  BY <1>1 DEF WellTyped, Running, Attached
<1>4. /\ ~child'.alive /\ child'.layer = child.layer
  BY <1>1, <1>3 DEF Children
<1>5. child' # NoLine
  <2>1. DOMAIN child' = DOMAIN child /\ "alive" \in DOMAIN child /\ DOMAIN NoLine = {"kind"}
    BY <1>1, <1>3 DEF Children, NoLine
  <2>. QED
    BY <2>1
<1>6. Asked' = {} /\ LayersAsked' = {} /\ Answered' = Answered /\ InOrder(inbox')
  BY <1>1 DEF Asked, Answered, LayersAsked, Asks, InOrder
<1>7. Attached' /\ ~Running' /\ ~Clean'
  BY <1>4, <1>5 DEF Attached, Running, Clean
<1>8. IdsOnce(pending', Asked', Answered', nextId')
  BY <1>1, <1>6, IdOver DEF HubInv, IdsAreOnce
<1>. QED
  BY <1>1, <1>4, <1>6, <1>7, <1>8 DEF HubInv, IdsAreOnce, PipesAreTheChilds, FlyingIsTracked,
     FlyingIsLast, RefusalsAreTold, ConfirmedHolds, QueriesAreTracked, AnswersAreKnown

(* The end of the stream: nothing is tracked any more.                       *)
LEMMA HubEnds ==
  ASSUME WellTyped, HubInv, pending' = {}, mcp' = Forgotten(mcp), lost' = TRUE,
         UNCHANGED <<ownerMcp, child, inbox, outbox, nextId, relaunchDue>>, story \subseteq story',
         ~Running \/ "overtaken" \in story'
  PROVE  HubInv'
<1>1. UNCHANGED <<Asked, Answered, LayersAsked, Attached, Running>> /\ ~Clean'
  BY DEF Asked, Answered, LayersAsked, Attached, Running, Clean
<1>2. mcp'.flying = 0 /\ mcp'.denies = "none" /\ mcp.flying \in Nat /\ 0 < nextId
  BY HubTypes DEF Forgotten, McpLayers
<1>3. IdsOnce(pending', Asked', Answered', nextId')
  BY <1>1, IdOver DEF HubInv, IdsAreOnce
<1>. QED
  BY <1>1, <1>2, <1>3 DEF HubInv, IdsAreOnce, PipesAreTheChilds, FlyingIsTracked,
     FlyingIsLast, RefusalsAreTold, ConfirmedHolds, QueriesAreTracked, AnswersAreKnown

(* The pump reads an answer: it is gone, and answers one request at most.    *)
LEMMA Folded ==
  ASSUME WellTyped, HubInv, outbox # <<>>, outbox' = Tail(outbox)
  PROVE  LET line == Head(outbox) IN
         /\ line \in Answered /\ Answered' = Answered \ {line} /\ Apart(outbox')
         /\ \A b \in Answered' : b.id # line.id
         /\ \A q \in Asked : q.id # line.id
         /\ IdsOnce(pending, Asked, Answered', nextId)
         /\ \A p \in pending : p.id = line.id =>
               p.kind = line.kind /\ IdsOnce(pending \ {p}, Asked, Answered', nextId)
<1>1. /\ Head(outbox) \in Answered /\ Answered' = Answered \ {Head(outbox)} /\ Apart(outbox')
      /\ \A b \in Answered' : b.id # Head(outbox).id
  BY AnswerRead DEF WellTyped, HubInv, IdsAreOnce, Answered
<1>2. IdsOnce(pending, Asked, Answered, nextId)
  BY DEF HubInv, IdsAreOnce
<1>3. IdsOnce(pending, Asked, Answered', nextId)
      /\ \A p \in pending : IdsOnce(pending \ {p}, Asked, Answered', nextId)
  BY <1>1, <1>2, IdOver
<1>4. /\ \A q \in Asked : q.id # Head(outbox).id
      /\ \A p \in pending : p.id = Head(outbox).id => p.kind = Head(outbox).kind
  BY <1>1, <1>2 DEF IdsOnce
<1>. QED
  BY <1>1, <1>3, <1>4

(* Its query, if it was one, is no longer tracked; the others are.           *)
LEMMA QueriesLeft ==
  ASSUME WellTyped, HubInv, outbox # <<>>, outbox' = Tail(outbox),
         \A p \in pending : p.id # Head(outbox).id => p \in pending',
         \A p \in pending' : p.kind = "status" => p \in pending,
         \A q \in Asked' : q.kind = "status" => q \in Asked,
         Clean' => Clean
  PROVE  QueriesAreTracked'
<1>1. /\ Answered' \subseteq Answered
      /\ \A b \in Answered' : b.id # Head(outbox).id
      /\ \A q \in Asked : q.id # Head(outbox).id
  BY Folded
<1>2. \A p, q \in pending' : p.kind = "status" /\ q.kind = "status" => p = q
  BY DEF HubInv, QueriesAreTracked
<1>3. ASSUME Clean', NEW q \in Asked', q.kind = "status" PROVE q \in pending'
  BY <1>1, <1>3 DEF HubInv, QueriesAreTracked
<1>4. ASSUME Clean', NEW b \in Answered', b.kind = "status" PROVE \E p \in pending' : p.id = b.id
  <2>1. PICK p \in pending : p.id = b.id
    BY <1>1, <1>4 DEF HubInv, QueriesAreTracked
  <2>. QED
    BY <1>1, <2>1
<1>. QED
  BY <1>2, <1>3, <1>4 DEF QueriesAreTracked

\* The answer folded: it confirms the apply in flight, refuses it, or names servers whose denies
\* are still to be acted on.
LEMMA HubIngest ==
  ASSUME WellTyped, HubInv, Ingest, WellTyped'
  PROVE  HubInv'
<1>. DEFINE line == Head(outbox)
<1>1. /\ Attached /\ outbox # <<>> /\ outbox' = Tail(outbox)
      /\ UNCHANGED <<ownerMcp, child, inbox, nextId, lost, story>> /\ settling = "none"
  BY DEF Ingest, ghosts
<1>2. \/ \E p \in pending : p.id = line.id /\ Confirm(p, line)
      \/ (\A p \in pending : p.id # line.id) /\ UNCHANGED <<pending, settling, mcp, relaunchDue>>
  BY DEF Ingest
<1>3. /\ line \in Answered /\ Answered' = Answered \ {line} /\ Apart(outbox')
      /\ \A b \in Answered' : b.id # line.id
      /\ \A q \in Asked : q.id # line.id
      /\ IdsOnce(pending, Asked, Answered', nextId)
      /\ \A p \in pending : p.id = line.id =>
               p.kind = line.kind /\ IdsOnce(pending \ {p}, Asked, Answered', nextId)
  BY <1>1, Folded
<1>4. line \in Answers
  BY <1>3, HubTypes
<1>5. Attached' = Attached /\ Running' = Running /\ Clean' = Clean
  BY <1>1 DEF Attached, Running, Clean
<1>t. mcp \in McpLayers /\ nextId \in Nat \ {0} /\ mcp.flying \in Nat /\ mcp.flying < nextId
      /\ InOrder(inbox) /\ inbox \in Seq(Written)
  BY HubTypes DEF HubInv, IdsAreOnce, WellTyped
<1>. HIDE DEF line
<1>r. RefusalsAreTold'
  BY <1>1, <1>3 DEF HubInv, RefusalsAreTold
<1>6. CASE (\A p \in pending : p.id # line.id) /\ UNCHANGED <<pending, settling, mcp, relaunchDue>>
  <2>1. Asked' = Asked /\ LayersAsked' = LayersAsked /\ Held' = Held
    BY <1>1, <1>6 DEF Asked, LayersAsked, Held
  <2>2. QueriesAreTracked'
    BY <1>1, <1>5, <1>6, <2>1, QueriesLeft
  <2>3. AnswersAreKnown'
    <3>1. Clean => line.kind # "status"
      BY <1>3, <1>6 DEF HubInv, QueriesAreTracked
    <3>. QED
      BY <1>1, <1>3, <1>5, <1>6, <3>1 DEF HubInv, AnswersAreKnown
  <2>. QED
    BY <1>1, <1>3, <1>5, <1>6, <1>r, <2>1, <2>2, <2>3 DEF HubInv, IdsAreOnce, PipesAreTheChilds,
       FlyingIsTracked, FlyingIsLast, ConfirmedHolds
<1>7. ASSUME NEW p \in pending, p.id = line.id, Confirm(p, line) PROVE HubInv'
  <2>0. p.kind = line.kind /\ p \in Requests /\ IdsOnce(pending \ {p}, Asked, Answered', nextId)
    BY <1>3, <1>7, HubTypes
  <2>1. CASE line.verdict = "error"
    <3>1. Refuse({p}, mcp) /\ pending' = pending \ {p} /\ settling' = settling
      BY <1>1, <1>7, <2>1 DEF Confirm
    <3>2. line.kind # "status"
      BY <1>4, <2>1 DEF Answers
    <3>3. p.kind = "layer" => "refused" \in story'
      BY <1>1, <1>3, <2>0, <2>1 DEF HubInv, RefusalsAreTold
    <3>4. {p} \in SUBSET pending
      OBVIOUS
    <3>. QED
      BY <1>1, <2>0, <3>1, <3>2, <3>3, <3>4, Refusal DEF line
  <2>2. CASE line.verdict = "success" /\ p.kind = "status"
    <3>1. /\ pending' = pending \ {p} /\ settling' = line.list /\ UNCHANGED <<mcp, relaunchDue>>
      BY <1>7, <2>2 DEF Confirm
    <3>l. line.list # "none"
      BY <1>4, <2>0, <2>2, LayerAssumption DEF Answers, Lists0
    <3>2. AnswersAreKnown'
      <4>. SUFFICES ASSUME Clean'
                    PROVE  /\ ~lost
                           /\ \A b \in Answered' : b.kind # "status"
                           /\ line.list = child.answered
        BY <1>1, <3>1, <3>l DEF AnswersAreKnown
      <4>1. ~lost /\ line.list = child.answered
        BY <1>3, <1>5, <2>0, <2>2 DEF HubInv, AnswersAreKnown
      <4>2. ASSUME NEW b \in Answered', b.kind = "status" PROVE FALSE
        <5>1. PICK r \in pending : r.id = b.id
          BY <1>3, <1>5, <4>2 DEF HubInv, QueriesAreTracked
        <5>2. r.kind = "status"
          BY <1>3, <4>2, <5>1 DEF IdsOnce
        <5>3. r = p
          BY <2>2, <5>2 DEF HubInv, QueriesAreTracked
        <5>. QED
          BY <1>3, <1>7, <5>1, <5>3
      <4>. QED
        BY <4>1, <4>2
    <3>3. Asked' = Asked /\ LayersAsked' = LayersAsked /\ Held' = Held
      BY <1>1, <3>1 DEF Asked, LayersAsked, Held
    <3>4. QueriesAreTracked'
      BY <1>1, <1>5, <1>7, <3>1, <3>3, QueriesLeft DEF line
    <3>5. ConfirmedHolds' /\ FlyingIsLast'
      BY <1>1, <1>3, <1>5, <3>1, <3>3 DEF HubInv, ConfirmedHolds, FlyingIsLast
    <3>6. FlyingIsTracked'
      BY <2>2, <3>1 DEF HubInv, FlyingIsTracked
    <3>7. IdsAreOnce' /\ PipesAreTheChilds'
      BY <1>1, <1>3, <1>5, <1>t, <2>0, <3>1, <3>3 DEF HubInv, IdsAreOnce, PipesAreTheChilds
    <3>. QED
      BY <1>r, <3>2, <3>4, <3>5, <3>6, <3>7 DEF HubInv
  <2>3. CASE line.verdict = "success" /\ p.kind # "status"
    <3>1. /\ pending' = pending \ {p} /\ UNCHANGED <<settling, relaunchDue>>
          /\ \/ mcp' = mcp /\ (p.kind # "layer" \/ p.id # mcp.flying)
             \/ /\ p.kind = "layer" /\ p.id = mcp.flying
                /\ mcp' = [mcp EXCEPT !.flying = 0, !.denies = "none", !.confirmed = p.value]
      BY <1>1, <1>7, <2>3 DEF Confirm, Confirms
    <3>2. Asked' = Asked /\ LayersAsked' = LayersAsked
      BY <1>1 DEF Asked, LayersAsked
    <3>3. QueriesAreTracked'
      BY <1>1, <1>5, <1>7, <3>1, <3>2, QueriesLeft DEF line
    <3>k. mcp'.known = mcp.known
      BY <1>t, <3>1 DEF McpLayers
    <3>4. AnswersAreKnown'
      BY <1>1, <1>3, <1>5, <2>0, <2>3, <3>1, <3>k DEF HubInv, AnswersAreKnown
    <3>5. CASE mcp' = mcp /\ (p.kind # "layer" \/ p.id # mcp.flying)
      <4>1. Held' = Held
        BY <1>1, <3>5 DEF Held
      <4>. QED
        BY <1>1, <1>3, <1>5, <1>r, <2>0, <3>1, <3>2, <3>3, <3>4, <3>5, <4>1 DEF HubInv, IdsAreOnce,
           PipesAreTheChilds, FlyingIsTracked, FlyingIsLast, ConfirmedHolds
    <3>6. CASE /\ p.kind = "layer" /\ p.id = mcp.flying
               /\ mcp' = [mcp EXCEPT !.flying = 0, !.denies = "none", !.confirmed = p.value]
      <4>1. mcp'.flying = 0 /\ mcp'.denies = "none" /\ mcp'.confirmed = p.value
        BY <1>t, <3>6 DEF McpLayers
      <4>2. mcp.flying # 0
        BY <2>0, <3>6, HubTypes
      <4>3. p.value = mcp.denies
        BY <3>6, <4>2 DEF HubInv, FlyingIsTracked, IdsAreOnce, IdsOnce
      <4>4. child.layer = p.value /\ LayersAsked = {}
        BY <1>3, <1>7, <2>3, <3>6, <4>2, <4>3 DEF HubInv, FlyingIsLast
      <4>5. ConfirmedHolds'
        BY <1>1, <3>2, <4>1, <4>4 DEF ConfirmedHolds, Held
      <4>6. FlyingIsTracked' /\ FlyingIsLast'
        BY <4>1 DEF FlyingIsTracked, FlyingIsLast
      <4>7. IdsAreOnce' /\ PipesAreTheChilds'
        BY <1>1, <1>3, <1>5, <1>t, <2>0, <3>1, <3>2, <4>1 DEF HubInv, IdsAreOnce, PipesAreTheChilds
      <4>. QED
        BY <1>r, <3>3, <3>4, <4>5, <4>6, <4>7 DEF HubInv
    <3>. QED
      BY <3>1, <3>5, <3>6
  <2>4. line.verdict \in {"success", "error"}
    BY <1>4 DEF Answers
  <2>. QED
    BY <2>1, <2>2, <2>3, <2>4
<1>. QED
  BY <1>2, <1>6, <1>7

(* The pump acts on the answer it holds, or a retired one on its own: the    *)
(* denies are known, and a layer that carries them goes out if they are new. *)
LEMMA HubRefresh ==
  ASSUME WellTyped, HubInv, NEW list \in Lists0, RefreshMcpDenies(list),
         UNCHANGED <<ownerMcp, child, outbox, lost>>, story \subseteq story',
         "overtaken" \in story' \/ (list = settling /\ settling' = "none")
  PROVE  HubInv'
<1>. DEFINE q == Request("layer", list)
<1>1. /\ q \in Requests /\ q.kind = "layer" /\ q.id = nextId /\ q.value = list /\ list # "none"
      /\ mcp'.known = list /\ mcp'.confirmed = mcp.confirmed
      /\ \/ /\ mcp'.flying = mcp.flying /\ mcp'.denies = mcp.denies
            /\ UNCHANGED <<pending, nextId, inbox>>
            /\ (relaunchDue' = relaunchDue) \/ (relaunchDue' = TRUE /\ ~Alive)
         \/ /\ Alive /\ mcp'.flying = nextId /\ mcp'.denies = list
            /\ Deliver(q) /\ relaunchDue' = relaunchDue
  BY RefreshDoes
<1>. HIDE DEF q
<1>t. mcp.flying \in Nat /\ nextId \in Nat \ {0} /\ mcp.flying < nextId
  BY HubTypes DEF HubInv, IdsAreOnce
<1>2. UNCHANGED <<Attached, Running, Answered>> /\ (Clean' => Clean /\ "overtaken" \notin story')
  BY DEF Attached, Running, Answered, Clean
<1>r. RefusalsAreTold'
  BY <1>2 DEF HubInv, RefusalsAreTold
<1>3. AnswersAreKnown'
  BY <1>1, <1>2 DEF HubInv, AnswersAreKnown
<1>4. CASE /\ mcp'.flying = mcp.flying /\ mcp'.denies = mcp.denies
           /\ UNCHANGED <<pending, nextId, inbox>>
           /\ (relaunchDue' = relaunchDue) \/ (relaunchDue' = TRUE /\ ~Alive)
  <2>1. Asked' = Asked /\ LayersAsked' = LayersAsked /\ Held' = Held
    BY <1>1, <1>4 DEF Asked, LayersAsked, Held
  <2>2. ~Alive => ~Running
    BY DEF Alive, Running
  <2>3. ConfirmedHolds'
    BY <1>1, <1>2, <1>4, <2>1, <2>2 DEF HubInv, ConfirmedHolds
  <2>4. QueriesAreTracked' /\ FlyingIsTracked' /\ FlyingIsLast'
    BY <1>2, <1>4, <2>1 DEF HubInv, QueriesAreTracked, FlyingIsTracked, FlyingIsLast
  <2>5. IdsAreOnce' /\ PipesAreTheChilds'
    BY <1>2, <1>4, <2>1 DEF HubInv, IdsAreOnce, PipesAreTheChilds
  <2>. QED
    BY <1>r, <1>3, <2>3, <2>4, <2>5 DEF HubInv
<1>5. CASE /\ Alive /\ mcp'.flying = nextId /\ mcp'.denies = list
           /\ Deliver(q) /\ relaunchDue' = relaunchDue
  <2>1. /\ IdsOnce(pending', Asked', Answered', nextId') /\ InOrder(inbox') /\ Apart(outbox')
        /\ pending' = pending \cup {q} /\ nextId' = nextId + 1
        /\ Asked' = IF Attached THEN Asked \cup {q} ELSE Asked
        /\ Answered' = Answered
        /\ Attached \/ inbox' = <<>>
        /\ Attached => child.alive
        /\ nextId < nextId'
    BY <1>1, <1>5, Sent
  <2>2. IdsAreOnce' /\ PipesAreTheChilds'
    BY <1>2, <1>5, <2>1 DEF HubInv, IdsAreOnce, PipesAreTheChilds
  <2>3. FlyingIsTracked'
    BY <1>t, <1>1, <1>5, <2>1 DEF FlyingIsTracked
  <2>4. FlyingIsLast'
    <3>1. \A x \in Asked' : x.id <= nextId
      BY <1>1, <2>1, HubTypes DEF HubInv, IdsAreOnce, IdsOnce
    <3>2. \A a \in Answered' : a.id # nextId
      BY <2>1, HubTypes DEF HubInv, IdsAreOnce, IdsOnce
    <3>. QED
      BY <1>5, <3>1, <3>2 DEF FlyingIsLast, LayersAsked
  <2>5. ConfirmedHolds'
    BY <1>t, <1>5 DEF ConfirmedHolds
  <2>6. QueriesAreTracked'
    BY <1>1, <1>2, <2>1 DEF HubInv, QueriesAreTracked
  <2>. QED
    BY <1>r, <1>3, <2>2, <2>3, <2>4, <2>5, <2>6 DEF HubInv
<1>. QED
  BY <1>1, <1>4, <1>5

(* While a child is being spawned there is none, and no answer is held.      *)
AtSpawn == disp.pc = "spawn" => ~Attached /\ settling = "none"

\* query_mcp_status sends no second query.
LEMMA HubQuery ==
  ASSUME WellTyped, HubInv, QueryMcpStatus,
         UNCHANGED <<ownerMcp, child, outbox, settling, mcp, lost, relaunchDue, story>>
  PROVE  HubInv'
<1>1. CASE UNCHANGED <<pending, nextId, inbox>>
  BY <1>1, HubUntouched DEF hubVars
<1>2. CASE ~Asking(pending) /\ Alive /\ Deliver(Request("status", "none"))
  <2>. DEFINE q == Request("status", "none")
  <2>1. q \in Requests /\ q.id = nextId /\ q.kind = "status"
    BY RequestTyped, HubTypes DEF Request
  <2>2. Deliver(q)
    BY <1>2
  <2>. HIDE DEF q
  <2>. QED
    BY <1>2, <2>1, <2>2, HubDeliver
<1>. QED
  BY <1>1, <1>2 DEF QueryMcpStatus

\* The hub through the thread, the relaunches and the pump.
LEMMA HubDispatch ==
  ASSUME WellTyped, DispatchIsWhole, HubInv,
         \/ \E mode \in Modes : BeginPick(mode)
         \/ BeginTurn \/ EnsureReadOnlyLayer \/ Query \/ PickLayer \/ PickMode
  PROVE  HubInv'
<1>. USE DEF process, hub, adapter, ghosts, bounds
<1>1. ASSUME NEW mode, NEW op, Begin(op, mode) PROVE HubInv'
  <2>1. PICK S \in Expired : pending' = pending \ S /\ Refuse(S, mcp) /\ story' = Told(S)
    BY <1>1 DEF Begin
  <2>2. S \in SUBSET pending
    BY <2>1 DEF Expired
  <2>3. \A p \in S : p.kind = "layer" \/ p.kind = "status" => "refused" \in story'
    BY <2>1 DEF Told
  <2>4. UNCHANGED <<ownerMcp, child, inbox, outbox, settling, nextId, lost>>
    BY <1>1 DEF Begin
  <2>. QED
    BY <2>1, <2>2, <2>3, <2>4, Refusal
<1>2. CASE EnsureReadOnlyLayer
  <2>1. UNCHANGED <<ownerMcp, child, outbox, settling, lost, relaunchDue, story>>
        /\ (SendLayer(TRUE) \/ UNCHANGED <<pending, nextId, inbox, mcp>>)
    BY <1>2 DEF EnsureReadOnlyLayer
  <2>. QED
    BY <2>1, HubSendLayer, HubUntouched DEF hubVars
<1>3. CASE Query
  BY <1>3, HubQuery DEF Query
<1>4. CASE PickLayer
  <2>1. UNCHANGED <<ownerMcp, child, outbox, settling, lost, relaunchDue, story>>
        /\ ((\E on \in BOOLEAN : SendLayer(on)) \/ UNCHANGED <<pending, nextId, inbox, mcp>>)
    <3>1. SendLayer(disp.mode = "readonly") => \E on \in BOOLEAN : SendLayer(on)
      OBVIOUS
    <3>. QED
      BY <1>4, <3>1 DEF PickLayer
  <2>. QED
    BY <2>1, HubSendLayer, HubUntouched DEF hubVars
<1>5. CASE PickMode
  <2>. DEFINE q == Request("mode", disp.mode)
  <2>1. disp.mode \in Modes
    BY <1>5 DEF PickMode, DispatchIsWhole
  <2>2. q \in Requests /\ q.id = nextId /\ q.kind = "mode"
    BY <2>1, RequestTyped, HubTypes DEF Request
  <2>3. UNCHANGED <<ownerMcp, child, outbox, settling, mcp, lost, relaunchDue, story>>
        /\ ((Alive /\ Deliver(q)) \/ UNCHANGED <<pending, nextId, inbox>>)
    BY <1>5 DEF PickMode
  <2>. HIDE DEF q
  <2>. QED
    BY <2>2, <2>3, HubDeliver, HubUntouched DEF hubVars
<1>. QED
  BY <1>1, <1>2, <1>3, <1>4, <1>5 DEF BeginPick, BeginTurn

LEMMA HubRelaunch ==
  ASSUME WellTyped, HubInv, AtSpawn, WellTyped',
         \/ NoRelaunch \/ Retire \/ Spawn \/ SpawnFails \/ Cover \/ Initialize
         \/ AwaitMcpLayer \/ AwaitTimesOut \/ SendTurn
  PROVE  HubInv'
<1>. USE DEF process, hub, adapter, ghosts, bounds
<1>1. CASE NoRelaunch \/ SpawnFails \/ AwaitMcpLayer \/ AwaitTimesOut
  <2>1. UNCHANGED hubVars /\ story \subseteq story'
    BY <1>1 DEF hubVars, NoRelaunch, SpawnFails, AwaitMcpLayer, AwaitTimesOut
  <2>. QED
    BY <2>1, HubUntouched
<1>2. CASE Retire
  BY <1>2, HubRetired DEF Retire
<1>3. CASE Spawn
  BY <1>3, HubSpawned DEF Spawn, AtSpawn
<1>5. CASE Cover
  <2>1. UNCHANGED <<ownerMcp, child, outbox, settling, lost, relaunchDue, story>>
        /\ (SendLayer(TRUE) \/ UNCHANGED <<pending, nextId, inbox, mcp>>)
    BY <1>5 DEF Cover
  <2>. QED
    BY <2>1, HubSendLayer, HubUntouched DEF hubVars
<1>6. CASE Initialize
  <2>. DEFINE q == Request("initialize", "none")
  <2>2. q \in Requests /\ q.id = nextId /\ q.kind = "initialize"
    BY RequestTyped, HubTypes DEF Request
  <2>3. UNCHANGED <<ownerMcp, child, outbox, settling, mcp, lost, relaunchDue, story>>
        /\ ((Alive /\ Deliver(q)) \/ UNCHANGED <<pending, nextId, inbox>>)
    BY <1>6 DEF Initialize
  <2>. HIDE DEF q
  <2>. QED
    BY <2>2, <2>3, HubDeliver, HubUntouched DEF hubVars
<1>7. CASE SendTurn
  BY <1>7, HubTurnSent
<1>. QED
  BY <1>1, <1>2, <1>3, <1>5, <1>6, <1>7

LEMMA HubPump ==
  ASSUME WellTyped, HubInv, WellTyped', Settle \/ PumpEnds \/ FoldLate
  PROVE  HubInv'
<1>. USE DEF process, hub, adapter, ghosts, bounds
<1>1. CASE PumpEnds
  <2>1. ~Running
    BY <1>1 DEF PumpEnds, Running
  <2>. QED
    BY <1>1, <2>1, HubEnds DEF PumpEnds
<1>3. CASE Settle
  <2>1. settling \in Lists0 /\ RefreshMcpDenies(settling) /\ settling' = "none"
        /\ UNCHANGED <<ownerMcp, child, outbox, lost, story>>
    BY <1>3 DEF Settle, WellTyped, OrNone
  <2>. QED
    BY <2>1, HubRefresh
<1>2. CASE FoldLate
  <2>1. UNCHANGED <<ownerMcp, child, outbox, settling>> /\ story \subseteq story'
    BY <1>2 DEF FoldLate
  <2>2. CASE late.kind = "end"
    BY <1>2, <2>1, <2>2, HubEnds DEF FoldLate
  <2>3. CASE late.kind = "list"
    <3>1. late.list \in Lists0
      BY <2>3 DEF WellTyped, Answers, ListLines, EndLine, NoLine
    <3>2. RefreshMcpDenies(late.list) /\ lost' = lost /\ "overtaken" \in story'
      BY <1>2, <2>3 DEF FoldLate
    <3>. QED
      BY <2>1, <3>1, <3>2, HubRefresh
  <2>4. CASE late.kind \notin {"end", "list"}
    BY <1>2, <2>1, <2>4, HubUntouched DEF FoldLate, hubVars
  <2>. QED
    BY <2>2, <2>3, <2>4
<1>. QED
  BY <1>1, <1>2, <1>3

(* Types, the thread's place and the hub, in every step.                     *)
LEMMA TypesKept == ASSUME WellTyped, DispatchIsWhole, [Next]_vars PROVE WellTyped'
<1>1. CASE UNCHANGED vars
  BY <1>1 DEF vars, process, hub, adapter, ghosts, bounds, WellTyped
<1>2. CASE Next
  <2>1. Done => UNCHANGED vars
    BY DEF Done
  <2>. QED
    BY <1>1, <1>2, <2>1, DispatchTyped, RelaunchTyped, HoldTyped, ChildTyped, PumpTyped DEF Next
<1>. QED
  BY <1>1, <1>2

LEMMA HubKept == ASSUME WellTyped, DispatchIsWhole, AtSpawn, HubInv, [Next]_vars PROVE HubInv'
<1>t. WellTyped'
  BY TypesKept
<1>1. CASE UNCHANGED vars
  BY <1>1, HubUntouched DEF vars, process, hub, adapter, ghosts, bounds, hubVars
<1>2. CASE Next
  <2>1. Done => UNCHANGED vars
    BY DEF Done
  <2>. QED
    BY <1>1, <1>2, <1>t, <2>1, HubDispatch, HubRelaunch, HubChild, HubRuns, HubServersChange,
       HubChildDies, HubIngest, HubPump DEF Next
<1>. QED
  BY <1>1, <1>2

\* The place after a step that only moves, and after one that may query first.
LEMMA PlaceOfThen ==
  ASSUME NEW d \in Dispatches, NEW pc, NEW e, e = [d EXCEPT !.pc = pc]
  PROVE  /\ e.pc = pc /\ e.next = d.next /\ e.shown = d.shown /\ e.op = d.op /\ e.mode = d.mode
BY DEF Dispatches

LEMMA PlaceAfterQuery ==
  ASSUME WellTyped, NEW asks \in BOOLEAN, NEW pc, AndQuery(asks, pc)
  PROVE  /\ disp'.pc = (IF asks THEN "query" ELSE pc) /\ disp'.next = (IF asks THEN pc ELSE "none")
         /\ disp'.shown = (IF disp.pc = "ensure" THEN reported ELSE disp.shown)
         /\ disp'.op = disp.op /\ disp'.mode = disp.mode
BY DEF AndQuery, WellTyped, Dispatches

\* Every step leaves the thread in a place it can be in.
LEMMA PlaceKept == ASSUME WellTyped, DispatchIsWhole, [Next]_vars PROVE DispatchIsWhole'
<1>. USE DEF process, hub, adapter, ghosts, bounds
<1>d. disp \in Dispatches
  BY DEF WellTyped
<1>i. disp' = Idle => DispatchIsWhole'
  BY DEF Idle, DispatchIsWhole
<1>u. disp' = disp => DispatchIsWhole'
  BY DEF DispatchIsWhole
<1>1. ASSUME NEW mode \in OrNone(Modes), NEW op \in {"pick", "turn"}, op = "pick" => mode \in Modes,
             Begin(op, mode)
      PROVE  DispatchIsWhole'
  BY <1>1 DEF Begin, Idle, DispatchIsWhole
<1>2. CASE EnsureReadOnlyLayer
  <2>1. PICK asks \in BOOLEAN : AndQuery(asks, AfterEnsure)
    <3>1. Alive \in BOOLEAN
      BY DEF Alive, WellTyped, Children
    <3>. QED
      BY <1>2, <3>1 DEF EnsureReadOnlyLayer
  <2>2. disp.pc = "ensure"
    BY <1>2 DEF EnsureReadOnlyLayer
  <2>. QED
    BY <2>1, <2>2, PlaceAfterQuery DEF AfterEnsure, DispatchIsWhole
<1>3. CASE Query
  <2>1. disp.pc = "query" /\ disp' = [disp EXCEPT !.pc = disp.next, !.next = "none"]
    BY <1>3 DEF Query
  <2>2. disp'.pc = disp.next /\ disp'.next = "none" /\ disp'.op = disp.op /\ disp'.mode = disp.mode
    BY <1>d, <2>1 DEF Dispatches
  <2>. QED
    BY <2>1, <2>2 DEF DispatchIsWhole
<1>4. CASE PickLayer
  <2>1. disp.pc = "layer"
    BY <1>4 DEF PickLayer
  <2>2. \/ disp' = Idle
        \/ \E asks \in BOOLEAN : AndQuery(asks, "mode")
        \/ disp' = [disp EXCEPT !.pc = "mode"]
    BY <1>4 DEF PickLayer, Return, Then
  <2>3. ASSUME NEW asks \in BOOLEAN, AndQuery(asks, "mode") PROVE DispatchIsWhole'
    BY <2>1, <2>3, PlaceAfterQuery DEF DispatchIsWhole
  <2>4. CASE disp' = [disp EXCEPT !.pc = "mode"]
    BY <1>d, <2>1, <2>4, PlaceOfThen DEF DispatchIsWhole
  <2>. QED
    BY <1>i, <2>2, <2>3, <2>4
<1>5. CASE PickMode \/ SpawnFails \/ SendTurn
  BY <1>i, <1>5 DEF PickMode, SpawnFails, SendTurn, Return
<1>6. CASE NoRelaunch
  <2>1. disp.pc \in {"refused", "revive", "due"} /\ disp' = [disp EXCEPT !.pc = Following[disp.pc]]
    BY <1>6 DEF NoRelaunch, Then
  <2>2. Following[disp.pc] \in {"revive", "due", "await"}
    BY <2>1 DEF Following
  <2>. QED
    BY <1>d, <2>1, <2>2, PlaceOfThen DEF DispatchIsWhole
<1>7. CASE Retire
  <2>1. disp.pc \in {"refused", "revive", "due"}
    BY <1>7 DEF Retire, NeedsRelaunch
  <2>2. disp'.pc = "spawn" /\ disp'.op = disp.pc /\ disp'.next = disp.next
    BY <1>d, <1>7 DEF Retire, Dispatches
  <2>. QED
    BY <2>1, <2>2 DEF DispatchIsWhole
<1>8. CASE Spawn
  <2>1. disp.pc = "spawn"
    BY <1>8 DEF Spawn
  <2>2. disp'.pc = "cover" /\ disp'.op = disp.op /\ disp'.next = disp.next
    BY <1>d, <1>8 DEF Spawn, Dispatches
  <2>. QED
    BY <2>1, <2>2 DEF DispatchIsWhole
<1>9. CASE Cover
  <2>1. disp.pc = "cover" /\ \E asks \in BOOLEAN : AndQuery(asks, "initialize")
    BY <1>9 DEF Cover
  <2>. QED
    BY <2>1, PlaceAfterQuery DEF DispatchIsWhole
<1>10. CASE Initialize
  <2>1. CASE disp.op = "open"
    <3>1. disp' = [Idle EXCEPT !.pc = "query", !.next = "idle"]
      BY <1>10, <2>1 DEF Initialize
    <3>. QED
      BY <3>1 DEF Idle, DispatchIsWhole
  <2>2. CASE disp.op # "open"
    <3>1. disp.op \in {"refused", "revive", "due"}
      BY <1>10, <2>2 DEF Initialize, DispatchIsWhole
    <3>2. disp' = [disp EXCEPT !.pc = "query", !.next = Following[disp.op], !.op = "turn"]
      BY <1>10, <2>2 DEF Initialize
    <3>3. Following[disp.op] \in {"revive", "due", "await"}
      BY <3>1 DEF Following
    <3>4. disp'.pc = "query" /\ disp'.next = Following[disp.op] /\ disp'.op = "turn"
      BY <1>d, <3>2 DEF Dispatches
    <3>. QED
      BY <3>3, <3>4 DEF DispatchIsWhole
  <2>. QED
    BY <2>1, <2>2
<1>11. CASE AwaitMcpLayer \/ AwaitTimesOut
  <2>1. disp.pc = "await" /\ (disp' = Idle \/ disp' = [disp EXCEPT !.pc = "send"])
    BY <1>11 DEF AwaitMcpLayer, AwaitTimesOut, Return, Then
  <2>2. CASE disp' = [disp EXCEPT !.pc = "send"]
    BY <1>d, <2>1, <2>2, PlaceOfThen DEF DispatchIsWhole
  <2>. QED
    BY <1>i, <2>1, <2>2
<1>12. CASE \/ ChildInitializes \/ ChildSwitches \/ ChildTakesLayer \/ ChildRefuses
            \/ ChildNamesItsServers \/ ChildRuns \/ ServersChange \/ ChildDies
            \/ Ingest \/ Settle \/ PumpEnds \/ FoldLate \/ Done \/ UNCHANGED vars
  BY <1>u, <1>12 DEF ChildInitializes, ChildSwitches, ChildTakesLayer, ChildRefuses,
     ChildNamesItsServers, ChildRuns, ServersChange, ChildDies, Ingest, Settle, PumpEnds, FoldLate, Done,
     vars
<1>13. ASSUME NEW mode \in Modes, BeginPick(mode) PROVE DispatchIsWhole'
  BY <1>1, <1>13 DEF BeginPick, OrNone
<1>14. CASE BeginTurn
  BY <1>1, <1>14 DEF BeginTurn, OrNone
<1>. QED
  BY <1>2, <1>3, <1>4, <1>5, <1>6, <1>7, <1>8, <1>9, <1>10, <1>11, <1>12, <1>13, <1>14 DEF Next

\* Nobody but the thread leaves the place, so no child appears, and no answer of one, meanwhile.
LEMMA SpawnKept ==
  ASSUME WellTyped, DispatchIsWhole, AtSpawn, [Next]_vars
  PROVE  AtSpawn'
<1>. USE DEF process, hub, adapter, ghosts, bounds
<1>d. disp \in Dispatches
  BY DEF WellTyped
<1>1. CASE Retire
  BY <1>1 DEF Retire, AtSpawn, Attached
<1>2. CASE \/ ChildInitializes \/ ChildSwitches \/ ChildTakesLayer \/ ChildRefuses
           \/ ChildNamesItsServers \/ ChildRuns \/ ServersChange \/ ChildDies
           \/ Ingest \/ PumpEnds
  <2>1. Attached /\ disp' = disp
    BY <1>2 DEF ChildInitializes, ChildSwitches, ChildTakesLayer, ChildRefuses, ChildNamesItsServers,
       ChildRuns, ServersChange, ChildDies, Ingest, PumpEnds, Taking, Running
  <2>. QED
    BY <2>1 DEF AtSpawn
<1>3. CASE FoldLate \/ Settle
  BY <1>3 DEF FoldLate, Settle, AtSpawn, Attached
<1>4. CASE Done \/ UNCHANGED vars
  BY <1>4 DEF Done, vars, AtSpawn, Attached
<1>5. CASE EnsureReadOnlyLayer
  <2>1. \E asks : AndQuery(asks, AfterEnsure)
    BY <1>5 DEF EnsureReadOnlyLayer
  <2>2. PICK asks : AndQuery(asks, AfterEnsure)
    BY <2>1
  <2>3. disp'.pc # "spawn"
    BY <1>d, <2>2 DEF AndQuery, AfterEnsure, Dispatches
  <2>. QED
    BY <2>3 DEF AtSpawn
<1>6. CASE Query
  <2>1. disp'.pc = disp.next /\ disp.next # "spawn"
    BY <1>6, <1>d DEF Query, Dispatches, DispatchIsWhole
  <2>. QED
    BY <2>1 DEF AtSpawn
<1>7. CASE PickLayer \/ PickMode \/ SpawnFails \/ SendTurn \/ AwaitMcpLayer \/ AwaitTimesOut
  <2>1. disp' = Idle \/ (\E asks : AndQuery(asks, "mode")) \/ Then("mode") \/ Then("send")
    BY <1>7 DEF PickLayer, PickMode, SpawnFails, SendTurn, AwaitMcpLayer, AwaitTimesOut, Return
  <2>2. disp'.pc # "spawn"
    <3>1. ASSUME NEW asks, AndQuery(asks, "mode") PROVE disp'.pc # "spawn"
      BY <1>d, <3>1 DEF AndQuery, Dispatches
    <3>2. CASE Then("mode") \/ Then("send")
      BY <1>d, <3>2 DEF Then, Dispatches
    <3>3. CASE disp' = Idle
      BY <3>3 DEF Idle
    <3>. QED
      BY <2>1, <3>1, <3>2, <3>3
  <2>. QED
    BY <2>2 DEF AtSpawn
<1>8. CASE NoRelaunch \/ Spawn \/ Cover \/ Initialize
  <2>1. disp'.pc # "spawn"
    <3>1. CASE NoRelaunch
      BY <1>d, <3>1 DEF NoRelaunch, Then, Following, Dispatches
    <3>2. CASE Spawn
      BY <1>d, <3>2 DEF Spawn, Dispatches
    <3>3. CASE Cover
      BY <1>d, <3>3 DEF Cover, AndQuery, Dispatches
    <3>4. CASE Initialize
      BY <1>d, <3>4 DEF Initialize, Idle, Dispatches
    <3>. QED
      BY <1>8, <3>1, <3>2, <3>3, <3>4
  <2>. QED
    BY <2>1 DEF AtSpawn
<1>9. ASSUME NEW mode, NEW op, Begin(op, mode) PROVE AtSpawn'
  BY <1>9 DEF Begin, Idle, AtSpawn
<1>. QED
  BY <1>1, <1>2, <1>3, <1>4, <1>5, <1>6, <1>7, <1>8, <1>9 DEF Next, BeginPick, BeginTurn

-----------------------------------------------------------------------------
(* The order of the lines, where it matters: the layer the child will hold   *)
(* when it has read the first n lines written to it.                         *)
Ends(s, n, l) ==
    \/ \E j \in 1 .. n : /\ s[j].kind = "layer" /\ s[j].value # "none"
                         /\ \A k \in 1 .. n : j < k => s[k].kind # "layer"
    \/ l # "none" /\ \A k \in 1 .. n : s[k].kind # "layer"

(* Each turn that was sent under Read-only will find its layer: own tells    *)
(* of the owner's servers, cov of the child that is covered, l its layer.    *)
ReadOnlyTurn(line) == line.kind = "turn" /\ line.value = "readonly"

TurnsHold(s, own, cov, launched, l) ==
    \A i \in 1 .. Len(s) : ReadOnlyTurn(s[i]) =>
        IF own THEN cov /\ \A j \in 1 .. i - 1 : s[j].kind \notin {"layer", "status"}
        ELSE launched \/ Ends(s, i - 1, l)

\* What a line more, and the first line read, change of the layer to come.
LEMMA EndsAppended ==
  ASSUME NEW s \in Seq(Written), NEW e \in Written, NEW l
  PROVE  LET t == Append(s, e) IN
         /\ \A n \in 0 .. Len(s) : Ends(s, n, l) => Ends(t, n, l)
         /\ e.kind = "layer" /\ e.value # "none" => Ends(t, Len(t), l)
         /\ e.kind # "layer" /\ Ends(s, Len(s), l) => Ends(t, Len(t), l)
<1>. DEFINE t == Append(s, e)
<1>1. /\ Len(s) \in Nat /\ Len(t) = Len(s) + 1 /\ t[Len(s) + 1] = e
      /\ \A i \in 1 .. Len(s) : t[i] = s[i] /\ i < Len(s) + 1 /\ i \in 1 .. Len(t)
      /\ \A i \in 1 .. Len(t) : i \in 1 .. Len(s) \/ i = Len(s) + 1
      /\ Len(s) + 1 \in 1 .. Len(t)
  BY Appended
<1>. HIDE DEF t
<1>2. ASSUME NEW n \in 0 .. Len(s), Ends(s, n, l) PROVE Ends(t, n, l)
  <2>1. \A i \in 1 .. n : t[i] = s[i]
    BY <1>1
  <2>. QED
    BY <1>2, <2>1 DEF Ends
<1>3. ASSUME e.kind = "layer", e.value # "none" PROVE Ends(t, Len(t), l)
  <2>1. \A k \in 1 .. Len(t) : ~(Len(s) + 1 < k)
    BY <1>1
  <2>. QED
    BY <1>1, <1>3, <2>1 DEF Ends
<1>4. ASSUME e.kind # "layer", Ends(s, Len(s), l) PROVE Ends(t, Len(t), l)
  BY <1>1, <1>4 DEF Ends
<1>. QED
  BY <1>2, <1>3, <1>4 DEF t

LEMMA EndsBeheaded ==
  ASSUME NEW s \in Seq(Written), s # <<>>, NEW l, NEW m,
         m = IF Head(s).kind = "layer" THEN Head(s).value ELSE l,
         NEW n \in 1 .. Len(s), Ends(s, n, l)
  PROVE  Ends(Tail(s), n - 1, m)
<1>. DEFINE t == Tail(s)
            h == Head(s)
<1>1. /\ Len(s) \in Nat /\ Len(t) \in Nat /\ Len(s) = Len(t) + 1 /\ s[1] = h
      /\ \A i \in 1 .. Len(t) : t[i] = s[i + 1]
  BY Behead
<1>2. m = IF h.kind = "layer" THEN h.value ELSE l
  OBVIOUS
<1>. HIDE DEF t, h
<1>3. \A k \in 1 .. n - 1 : t[k] = s[k + 1] /\ k + 1 \in 1 .. n /\ 1 < k + 1
  BY <1>1
<1>4. 1 \in 1 .. n
  OBVIOUS
<1>5. CASE l # "none" /\ \A k \in 1 .. n : s[k].kind # "layer"
  BY <1>1, <1>2, <1>3, <1>4, <1>5 DEF Ends
<1>6. ASSUME NEW j \in 1 .. n, s[j].kind = "layer" /\ s[j].value # "none",
             \A k \in 1 .. n : j < k => s[k].kind # "layer"
      PROVE  Ends(t, n - 1, m)
  <2>1. CASE j = 1
    <3>1. m # "none"
      BY <1>1, <1>2, <1>6, <2>1
    <3>2. \A k \in 1 .. n - 1 : t[k].kind # "layer"
      BY <1>3, <1>6, <2>1
    <3>. QED
      BY <3>1, <3>2 DEF Ends
  <2>2. CASE j # 1
    <3>1. j - 1 \in 1 .. n - 1 /\ (j - 1) + 1 = j
      BY <2>2
    <3>2. t[j - 1].kind = "layer" /\ t[j - 1].value # "none"
      BY <1>3, <1>6, <3>1
    <3>3. \A k \in 1 .. n - 1 : j - 1 < k => t[k].kind # "layer"
      <4>1. \A k \in 1 .. n - 1 : j - 1 < k => j < k + 1
        OBVIOUS
      <4>. QED
        BY <1>3, <1>6, <4>1
    <3>. QED
      BY <3>1, <3>2, <3>3 DEF Ends
  <2>. QED
    BY <2>1, <2>2
<1>. QED
  BY <1>5, <1>6 DEF Ends, t

\* And of the turns on their way.
LEMMA TurnsAppended ==
  ASSUME NEW s \in Seq(Written), NEW e \in Written, NEW own, NEW cov, NEW launched, NEW l,
         TurnsHold(s, own, cov, launched, l),
         ReadOnlyTurn(e) =>
            IF own THEN cov /\ \A j \in 1 .. Len(s) : s[j].kind \notin {"layer", "status"}
            ELSE launched \/ Ends(s, Len(s), l)
  PROVE  TurnsHold(Append(s, e), own, cov, launched, l)
<1>. DEFINE t == Append(s, e)
<1>1. /\ Len(s) \in Nat /\ Len(t) = Len(s) + 1 /\ t[Len(s) + 1] = e
      /\ \A i \in 1 .. Len(s) : t[i] = s[i] /\ i < Len(s) + 1 /\ i \in 1 .. Len(t)
      /\ \A i \in 1 .. Len(t) : i \in 1 .. Len(s) \/ i = Len(s) + 1
      /\ Len(s) + 1 \in 1 .. Len(t)
  BY Appended
<1>2. \A n \in 0 .. Len(s) : Ends(s, n, l) => Ends(t, n, l)
  BY EndsAppended
<1>. HIDE DEF t
<1>. SUFFICES ASSUME NEW i \in 1 .. Len(t), ReadOnlyTurn(t[i])
              PROVE  IF own THEN cov /\ \A j \in 1 .. i - 1 : t[j].kind \notin {"layer", "status"}
                     ELSE launched \/ Ends(t, i - 1, l)
  BY DEF TurnsHold, t
<1>3. i - 1 \in 0 .. Len(s) /\ \A j \in 1 .. i - 1 : j \in 1 .. Len(s) /\ t[j] = s[j]
  BY <1>1
<1>4. IF own THEN cov /\ \A j \in 1 .. i - 1 : s[j].kind \notin {"layer", "status"}
      ELSE launched \/ Ends(s, i - 1, l)
  <2>1. CASE i \in 1 .. Len(s)
    BY <1>1, <2>1 DEF TurnsHold
  <2>2. CASE i = Len(s) + 1
    BY <1>1, <2>2
  <2>. QED
    BY <1>1, <2>1, <2>2
<1>. QED
  BY <1>2, <1>3, <1>4

LEMMA TurnsBeheaded ==
  ASSUME NEW s \in Seq(Written), s # <<>>, NEW own, NEW cov, NEW cov1, NEW launched, NEW l, NEW m,
         TurnsHold(s, own, cov, launched, l),
         m = IF Head(s).kind = "layer" THEN Head(s).value ELSE l,
         Head(s).kind \notin {"layer", "status"} /\ cov => cov1
  PROVE  TurnsHold(Tail(s), own, cov1, launched, m)
<1>. DEFINE t == Tail(s)
            h == Head(s)
<1>1. /\ Len(s) \in Nat /\ Len(t) \in Nat /\ Len(s) = Len(t) + 1 /\ s[1] = h
      /\ \A i \in 1 .. Len(t) : t[i] = s[i + 1]
  BY Behead
<1>. HIDE DEF t
<1>. SUFFICES ASSUME NEW i \in 1 .. Len(t), ReadOnlyTurn(t[i])
              PROVE  IF own THEN cov1 /\ \A j \in 1 .. i - 1 : t[j].kind \notin {"layer", "status"}
                     ELSE launched \/ Ends(t, i - 1, m)
  BY DEF TurnsHold, t
<1>2. i + 1 \in 1 .. Len(s) /\ ReadOnlyTurn(s[i + 1]) /\ (i + 1) - 1 = i /\ i \in 1 .. Len(s)
  BY <1>1
<1>3. IF own THEN cov /\ \A j \in 1 .. i : s[j].kind \notin {"layer", "status"}
      ELSE launched \/ Ends(s, i, l)
  BY <1>2 DEF TurnsHold
<1>4. \A j \in 1 .. i - 1 : t[j] = s[j + 1] /\ j + 1 \in 1 .. i
  BY <1>1
<1>5. 1 \in 1 .. i
  OBVIOUS
<1>6. Ends(s, i, l) => Ends(t, i - 1, m)
  BY <1>2, EndsBeheaded DEF t
<1>. QED
  BY <1>1, <1>3, <1>4, <1>5, <1>6

-----------------------------------------------------------------------------
(* Turns under the shown layer.                                              *)

(* The adapter's layer is the hub's, and a Read-only turn under way has one. *)
Turning == {"refused", "revive", "due", "await", "send", "cover", "initialize"}
InATurn == disp.pc \in Turning \/ (disp.pc = "query" /\ disp.next \in Turning)

LayerIsOn == Running => (layer # "off" <=> mcp.on)
ShownHasLayer == Running /\ disp.shown = "readonly" /\ InATurn => layer # "off"

(* The layer a child needs is on its way, unless it holds it.                *)
LayerComes ==
    Running /\ ~Excused /\ layer # "off" =>
        child.launched \/ Ends(inbox, Len(inbox), child.layer)

(* A turn let through, and one that is on its way, find the child covered.   *)
Sending == disp.pc = "send" /\ disp.shown = "readonly" /\ Running /\ ~Excused /\ ownerMcp
ReadyToSend ==
    Sending => /\ Covered /\ ~Asking(pending)
               /\ mcp.flying = 0 /\ settling \in {"none", mcp.confirmed}
               /\ \A i \in 1 .. Len(inbox) : inbox[i].kind \notin {"layer", "status"}

TurnsAreCovered ==
    Running /\ ~Excused => TurnsHold(inbox, ownerMcp, Covered, child.launched, child.layer)

CoverInv ==
    LayerIsOn /\ ShownHasLayer /\ LayerComes /\ ReadyToSend /\ TurnsAreCovered /\ ~uncovered

(* Nothing but the thread's own place changes.                               *)
LEMMA CoverUntouched ==
  ASSUME CoverInv, UNCHANGED <<ownerMcp, child, inbox, layer, uncovered>>,
         mcp'.on = mcp.on, story \subseteq story',
         Running /\ disp'.shown = "readonly" /\ InATurn' => layer # "off",
         disp'.pc # "send"
  PROVE  CoverInv'
<1>1. UNCHANGED <<Running, Covered>> /\ (~Excused' => ~Excused) /\ ~Sending'
  BY DEF Running, Attached, Covered, Sending, Excused
<1>. QED
  BY <1>1 DEF CoverInv, LayerIsOn, ShownHasLayer, LayerComes, ReadyToSend, TurnsAreCovered

(* A request goes to the child, and the layer with it.                       *)
LEMMA CoverSent ==
  ASSUME WellTyped, CoverInv, UNCHANGED <<ownerMcp, child, uncovered>>, story \subseteq story',
         NEW q \in Requests,
         Attached => inbox' = Append(inbox, q),
         layer' # "off" <=> mcp'.on,
         layer' # "off" => \/ q.kind # "layer" /\ layer # "off"
                           \/ q.kind = "layer" /\ q.value # "none",
         Running /\ disp'.shown = "readonly" /\ InATurn' => layer' # "off",
         Running => ~Sending'
  PROVE  CoverInv'
<1>1. /\ UNCHANGED <<Attached, Running, Covered>> /\ (~Excused' => ~Excused)
      /\ q \in Written /\ inbox \in Seq(Written) /\ ~ReadOnlyTurn(q)
  BY DEF Running, Attached, Covered, Written, WellTyped, ReadOnlyTurn, Requests, Excused
<1>2. LayerIsOn' /\ ShownHasLayer'
  BY <1>1 DEF LayerIsOn, ShownHasLayer
<1>3. LayerComes'
  <2>. SUFFICES ASSUME Running, ~Excused, layer' # "off"
                PROVE  child.launched \/ Ends(inbox', Len(inbox'), child.layer)
    BY <1>1 DEF LayerComes
  <2>1. inbox' = Append(inbox, q)
    BY DEF Running
  <2>2. CASE q.kind = "layer" /\ q.value # "none"
    BY <1>1, <2>1, <2>2, EndsAppended
  <2>3. CASE q.kind # "layer" /\ layer # "off"
    <3>1. child.launched \/ Ends(inbox, Len(inbox), child.layer)
      BY <2>3 DEF CoverInv, LayerComes
    <3>. QED
      BY <1>1, <2>1, <2>3, <3>1, EndsAppended
  <2>. QED
    BY <2>2, <2>3
<1>4. TurnsAreCovered'
  <2>. SUFFICES ASSUME Running, ~Excused
                PROVE  TurnsHold(inbox', ownerMcp, Covered, child.launched, child.layer)
    BY <1>1 DEF TurnsAreCovered
  <2>1. inbox' = Append(inbox, q)
    BY DEF Running
  <2>2. TurnsHold(inbox, ownerMcp, Covered, child.launched, child.layer)
    BY DEF CoverInv, TurnsAreCovered
  <2>. QED
    BY <1>1, <2>1, <2>2, TurnsAppended
<1>5. ReadyToSend'
  BY <1>1 DEF ReadyToSend, Sending
<1>. QED
  BY <1>2, <1>3, <1>4, <1>5 DEF CoverInv

(* There is no child, or it no longer runs.                                  *)
LEMMA CoverStopped ==
  ASSUME CoverInv, ~Running', uncovered' = uncovered
  PROVE  CoverInv'
BY DEF CoverInv, LayerIsOn, ShownHasLayer, LayerComes, ReadyToSend, Sending, TurnsAreCovered

(* send_read_only_layer, with the adapter's record of it.                    *)
LEMMA CoverSendLayer ==
  ASSUME WellTyped, CoverInv, NEW on \in BOOLEAN, SendLayer(on), Alive,
         UNCHANGED <<ownerMcp, child, uncovered, story>>,
         layer' # "off" <=> on,
         Running /\ disp'.shown = "readonly" /\ InATurn' => layer' # "off",
         disp'.pc # "send"
  PROVE  CoverInv'
<1>. DEFINE q == Request("layer", IF on THEN Target(mcp) ELSE "none")
<1>0. mcp \in McpLayers /\ nextId \in Nat \ {0} /\ Target(mcp) \in Values /\ Target(mcp) # "none"
  BY HubTypes, TargetTyped
<1>1. /\ q \in Requests /\ q.kind = "layer" /\ (on => q.value # "none")
  BY <1>0, RequestTyped DEF Request, Values, OrNone
<1>2. Attached => inbox' = Append(inbox, q)
  BY DEF SendLayer, Deliver
<1>3. mcp'.on = on
  BY <1>0 DEF SendLayer, McpLayers
<1>4. ~Sending'
  BY DEF Sending
<1>. HIDE DEF q
<1>. QED
  BY <1>1, <1>2, <1>3, <1>4, CoverSent

\* The thread up to the relaunches.
LEMMA CoverDispatch ==
  ASSUME WellTyped, DispatchIsWhole, CoverInv,
         \/ \E mode \in Modes : BeginPick(mode)
         \/ BeginTurn \/ EnsureReadOnlyLayer \/ Query \/ PickLayer \/ PickMode
  PROVE  CoverInv'
<1>. USE DEF process, hub, adapter, ghosts, bounds
<1>d. disp \in Dispatches /\ mcp \in McpLayers /\ nextId \in Nat \ {0}
  BY DEF WellTyped
<1>i. disp' = Idle => disp'.shown = "none" /\ disp'.pc # "send"
  BY DEF Idle
<1>s. ~Running /\ child' = child /\ uncovered' = uncovered => CoverInv'
  <2>1. child' = child => Running' = Running
    BY DEF Running, Attached
  <2>. QED
    BY <2>1, CoverStopped
<1>a. Running => Alive
  BY DEF Running, Alive
<1>1. ASSUME NEW mode, NEW op, Begin(op, mode) PROVE CoverInv'
  <2>1. PICK S \in Expired : Refuse(S, mcp) /\ story' = Told(S)
    BY <1>1 DEF Begin
  <2>2. mcp'.on = mcp.on /\ story \subseteq story'
    BY <1>d, <2>1 DEF Refuse, Forgotten, McpLayers, Told
  <2>3. disp'.shown = "none" /\ disp'.pc # "send"
    BY <1>1 DEF Begin, Idle
  <2>. QED
    BY <1>1, <2>2, <2>3, CoverUntouched DEF Begin
<1>2. CASE EnsureReadOnlyLayer
  <2>1. UNCHANGED <<ownerMcp, child, uncovered, story>> /\ disp.pc = "ensure"
    BY <1>2 DEF EnsureReadOnlyLayer
  <2>2. \E asks \in BOOLEAN : AndQuery(asks, AfterEnsure)
    <3>1. Alive \in BOOLEAN
      BY DEF Alive, WellTyped, Children
    <3>. QED
      BY <1>2, <3>1 DEF EnsureReadOnlyLayer
  <2>3. disp'.shown = reported /\ disp'.pc # "send"
    BY <2>1, <2>2, PlaceAfterQuery DEF AfterEnsure
  <2>4. CASE reported = "readonly" /\ layer = "off"
    <3>1. SendLayer(TRUE) /\ layer' = IF Alive THEN "live" ELSE "off"
      BY <1>2, <2>4 DEF EnsureReadOnlyLayer
    <3>2. CASE Alive
      BY <2>1, <2>3, <3>1, <3>2, CoverSendLayer
    <3>. QED
      BY <1>a, <1>s, <2>1, <3>2
  <2>5. CASE ~(reported = "readonly" /\ layer = "off")
    <3>1. UNCHANGED <<inbox, mcp, layer>>
      BY <1>2, <2>5 DEF EnsureReadOnlyLayer
    <3>. QED
      BY <2>1, <2>3, <2>5, <3>1, CoverUntouched
  <2>. QED
    BY <2>4, <2>5
<1>3. CASE Query
  <2>1. UNCHANGED <<ownerMcp, child, uncovered, story, mcp, layer>> /\ disp.pc = "query"
    BY <1>3 DEF Query
  <2>2. disp'.pc = disp.next /\ disp'.shown = disp.shown
    BY <1>3, <1>d DEF Query, Dispatches
  <2>3. disp'.pc # "send" /\ (InATurn' => InATurn)
    BY <2>1, <2>2 DEF DispatchIsWhole, InATurn
  <2>4. Running /\ disp'.shown = "readonly" /\ InATurn' => layer # "off"
    BY <2>2, <2>3 DEF CoverInv, ShownHasLayer
  <2>5. CASE UNCHANGED inbox
    BY <2>1, <2>3, <2>4, <2>5, CoverUntouched
  <2>6. CASE Deliver(Request("status", "none")) /\ Running
    <3>. DEFINE q == Request("status", "none")
    <3>1. q \in Requests /\ q.kind = "status"
      BY <1>d, RequestTyped DEF Request
    <3>2. Attached => inbox' = Append(inbox, q)
      BY <2>6 DEF Deliver
    <3>3. ~Sending'
      BY <2>3 DEF Sending
    <3>4. layer # "off" <=> mcp.on
      BY <2>6 DEF CoverInv, LayerIsOn
    <3>. HIDE DEF q
    <3>. QED
      BY <2>1, <2>4, <3>1, <3>2, <3>3, <3>4, CoverSent
  <2>. QED
    BY <1>3, <1>s, <2>1, <2>5, <2>6 DEF Query, QueryMcpStatus
<1>4. CASE PickLayer
  <2>1. UNCHANGED <<ownerMcp, child, uncovered, story>> /\ disp.pc = "layer"
    BY <1>4 DEF PickLayer
  <2>2. disp'.pc # "send" /\ (disp'.shown = "readonly" => ~InATurn')
    <3>1. ASSUME NEW asks \in BOOLEAN, AndQuery(asks, "mode") PROVE disp'.pc # "send" /\ ~InATurn'
      BY <3>1, PlaceAfterQuery DEF InATurn, Turning
    <3>2. CASE Then("mode")
      BY <1>d, <3>2 DEF Then, Dispatches, InATurn, Turning
    <3>3. (disp.mode = "readonly") \in BOOLEAN
      OBVIOUS
    <3>4. \/ disp' = Idle
          \/ \E asks \in BOOLEAN : AndQuery(asks, "mode")
          \/ Then("mode")
      BY <1>4, <3>3 DEF PickLayer, Return
    <3>. QED
      BY <1>i, <3>1, <3>2, <3>4
  <2>3. CASE UNCHANGED <<inbox, mcp, layer>>
    BY <2>1, <2>2, <2>3, CoverUntouched
  <2>4. CASE SendLayer(disp.mode = "readonly") /\ Alive
             /\ layer' = IF disp.mode = "readonly" THEN "live" ELSE "off"
    BY <2>1, <2>2, <2>4, CoverSendLayer
  <2>. QED
    BY <1>4, <1>a, <1>s, <2>1, <2>3, <2>4 DEF PickLayer
<1>5. CASE PickMode
  <2>1. UNCHANGED <<ownerMcp, child, uncovered, story, mcp, layer>> /\ disp' = Idle
    BY <1>5 DEF PickMode, Return
  <2>2. CASE UNCHANGED inbox
    BY <1>i, <2>1, <2>2, CoverUntouched
  <2>3. CASE Deliver(Request("mode", disp.mode)) /\ Running
    <3>. DEFINE q == Request("mode", disp.mode)
    <3>1. q \in Requests /\ q.kind = "mode"
      BY <1>d, <1>5, RequestTyped DEF Request, PickMode, DispatchIsWhole
    <3>2. Attached => inbox' = Append(inbox, q)
      BY <2>3 DEF Deliver
    <3>3. ~Sending'
      BY <1>i, <2>1 DEF Sending
    <3>4. layer # "off" <=> mcp.on
      BY <2>3 DEF CoverInv, LayerIsOn
    <3>. HIDE DEF q
    <3>. QED
      BY <1>i, <2>1, <3>1, <3>2, <3>3, <3>4, CoverSent
  <2>. QED
    BY <1>5, <1>s, <2>1, <2>2, <2>3 DEF PickMode
<1>. QED
  BY <1>1, <1>2, <1>3, <1>4, <1>5 DEF BeginPick, BeginTurn

\* The relaunches: a launch in Read-only has its layer, with the owner's servers one is sent at
\* once.
LEMMA CoverRelaunch ==
  ASSUME WellTyped, DispatchIsWhole, HubInv, AtSpawn, CoverInv,
         \/ NoRelaunch \/ Retire \/ Spawn \/ SpawnFails \/ Cover \/ Initialize
  PROVE  CoverInv'
<1>. USE DEF process, hub, adapter, ghosts, bounds
<1>d. disp \in Dispatches /\ mcp \in McpLayers /\ nextId \in Nat \ {0}
  BY DEF WellTyped
<1>s. ~Running /\ child' = child /\ uncovered' = uncovered => CoverInv'
  <2>1. child' = child => Running' = Running
    BY DEF Running, Attached
  <2>. QED
    BY <2>1, CoverStopped
<1>a. Running => Alive
  BY DEF Running, Alive
<1>1. CASE NoRelaunch
  <2>1. disp.pc \in {"refused", "revive", "due"} /\ disp' = [disp EXCEPT !.pc = Following[disp.pc]]
    BY <1>1 DEF NoRelaunch, Then
  <2>2. disp'.pc \in {"revive", "due", "await"} /\ disp'.shown = disp.shown
    BY <1>d, <2>1 DEF Following, Dispatches
  <2>3. Running /\ disp'.shown = "readonly" /\ InATurn' => layer # "off"
    BY <2>1, <2>2 DEF CoverInv, ShownHasLayer, InATurn, Turning
  <2>. QED
    BY <1>1, <2>2, <2>3, CoverUntouched DEF NoRelaunch
<1>2. CASE Retire
  <2>1. ~Running'
    BY <1>2 DEF Retire, Running, Attached
  <2>. QED
    BY <1>2, <2>1, CoverStopped DEF Retire
<1>3. CASE Spawn
  <2>1. inbox' = <<>>
    BY <1>3 DEF Spawn, AtSpawn, HubInv, PipesAreTheChilds
  <2>2. PICK own \in OwnModes, list \in Served :
            child' = Fresh(IF LaunchMode = "none" THEN own ELSE LaunchMode, LaunchMode = "readonly", list)
    BY <1>3 DEF Spawn
  <2>3. /\ mcp' = [NoLayer EXCEPT !.on = (LaunchMode = "readonly"),
                       !.confirmed = IF LaunchMode = "readonly" /\ ~ownerMcp THEN "base" ELSE "none"]
        /\ layer' = IF LaunchMode = "readonly" THEN "launched" ELSE "off"
        /\ disp' = [disp EXCEPT !.pc = "cover", !.mode = "none", !.shown = LaunchMode]
        /\ uncovered' = uncovered
    BY <1>3 DEF Spawn
  <2>4. child'.launched = (LaunchMode = "readonly")
    BY <2>2 DEF Fresh
  <2>5. mcp'.on = (LaunchMode = "readonly")
    BY <2>3 DEF NoLayer
  <2>6. disp'.pc = "cover" /\ disp'.shown = LaunchMode
    BY <1>d, <2>3 DEF Dispatches
  <2>7. Len(inbox') = 0
    BY <2>1
  <2>8. TurnsAreCovered'
    BY <2>7 DEF TurnsAreCovered, TurnsHold
  <2>. QED
    BY <2>3, <2>4, <2>5, <2>6, <2>8 DEF CoverInv, LayerIsOn, ShownHasLayer, LayerComes, ReadyToSend, Sending
<1>4. CASE SpawnFails
  <2>1. disp'.shown = "none" /\ disp'.pc # "send"
    BY <1>4 DEF SpawnFails, Return, Idle
  <2>. QED
    BY <1>4, <2>1, CoverUntouched DEF SpawnFails
<1>5. CASE Cover
  <2>1. UNCHANGED <<ownerMcp, child, uncovered, story, layer>> /\ disp.pc = "cover"
    BY <1>5 DEF Cover
  <2>2. /\ disp'.shown = disp.shown /\ disp'.pc \in {"query", "initialize"}
    BY <1>5, <2>1, PlaceAfterQuery DEF Cover
  <2>3. Running /\ disp'.shown = "readonly" => layer # "off"
    BY <2>1, <2>2 DEF CoverInv, ShownHasLayer, InATurn, Turning
  <2>4. CASE UNCHANGED <<inbox, mcp>>
    BY <2>1, <2>2, <2>3, <2>4, CoverUntouched
  <2>5. CASE SendLayer(TRUE) /\ Running /\ mcp.on
    <3>1. layer # "off"
      BY <2>5 DEF CoverInv, LayerIsOn
    <3>. QED
      BY <1>a, <2>1, <2>2, <2>5, <3>1, CoverSendLayer
  <2>. QED
    BY <1>5, <1>s, <2>1, <2>4, <2>5 DEF Cover
<1>6. CASE Initialize
  <2>1. UNCHANGED <<ownerMcp, child, uncovered, story, mcp, layer>> /\ disp.pc = "initialize"
    BY <1>6 DEF Initialize
  <2>2. disp'.pc = "query" /\ disp'.shown \in {"none", disp.shown}
    <3>1. CASE disp.op = "open"
      BY <1>6, <3>1 DEF Initialize, Idle
    <3>2. CASE disp.op # "open"
      BY <1>d, <1>6, <3>2 DEF Initialize, Dispatches
    <3>. QED
      BY <3>1, <3>2
  <2>3. Running /\ disp'.shown = "readonly" => layer # "off"
    BY <2>1, <2>2 DEF CoverInv, ShownHasLayer, InATurn, Turning
  <2>4. CASE UNCHANGED inbox
    BY <2>1, <2>2, <2>3, <2>4, CoverUntouched
  <2>5. CASE Deliver(Request("initialize", "none")) /\ Running
    <3>. DEFINE q == Request("initialize", "none")
    <3>1. q \in Requests /\ q.kind = "initialize"
      BY <1>d, RequestTyped DEF Request
    <3>2. Attached => inbox' = Append(inbox, q)
      BY <2>5 DEF Deliver
    <3>3. ~Sending'
      BY <2>2 DEF Sending
    <3>4. layer # "off" <=> mcp.on
      BY <2>5 DEF CoverInv, LayerIsOn
    <3>. HIDE DEF q
    <3>. QED
      BY <2>1, <2>3, <3>1, <3>2, <3>3, <3>4, CoverSent
  <2>. QED
    BY <1>6, <1>s, <2>1, <2>4, <2>5 DEF Initialize
<1>. QED
  BY <1>1, <1>2, <1>3, <1>4, <1>5, <1>6

(* await_mcp_layer lets a turn go: what the hub believes confirmed, the      *)
(* child holds, and no query is out that could change it.                    *)
LEMMA CoverAwait ==
  ASSUME WellTyped, DispatchIsWhole, HubInv, CoverInv, AwaitMcpLayer \/ AwaitTimesOut
  PROVE  CoverInv'
<1>. USE DEF process, hub, adapter, ghosts, bounds
<1>1. /\ UNCHANGED <<ownerMcp, child, inbox, settling, mcp, layer, uncovered, pending, lost, relaunchDue>>
      /\ story \subseteq story' /\ disp.pc = "await"
  BY DEF AwaitMcpLayer, AwaitTimesOut
<1>2. CASE disp' = Idle
  <2>1. disp'.shown = "none" /\ disp'.pc # "send"
    BY <1>2 DEF Idle
  <2>. QED
    BY <1>1, <2>1, CoverUntouched
<1>3. CASE Then("send")
  <2>1. disp'.pc = "send" /\ disp'.shown = disp.shown
    BY <1>3 DEF Then, WellTyped, Dispatches
  <2>2. UNCHANGED <<Running, Covered, Asked, LayersAsked>> /\ (~Excused' => ~Excused)
    BY <1>1 DEF Running, Attached, Covered, Asked, LayersAsked, Excused
  <2>3. ShownHasLayer'
    BY <1>1, <2>1, <2>2 DEF CoverInv, ShownHasLayer, InATurn, Turning
  <2>4. LayerIsOn' /\ LayerComes' /\ TurnsAreCovered' /\ ~uncovered'
    BY <1>1, <2>2 DEF CoverInv, LayerIsOn, LayerComes, TurnsAreCovered
  <2>5. ReadyToSend'
    <3>. SUFFICES ASSUME disp.shown = "readonly", Running, ~Excused', ownerMcp
                  PROVE  /\ Covered /\ ~Asking(pending)
                         /\ mcp.flying = 0 /\ settling \in {"none", mcp.confirmed}
                         /\ \A i \in 1 .. Len(inbox) : inbox[i].kind \notin {"layer", "status"}
      BY <1>1, <2>1, <2>2 DEF ReadyToSend, Sending
    <3>0. ~Excused /\ Clean /\ Attached
      BY <2>2 DEF Clean, Running, Excused, Excuses
    <3>1. mcp.on
      BY <1>1 DEF CoverInv, LayerIsOn, ShownHasLayer, InATurn, Turning
    <3>2. ~NothingToHoldFor
      BY <3>0, <3>1 DEF NothingToHoldFor
    <3>3. ~lost /\ Settled /\ ~Between
      <4>1. CASE AwaitMcpLayer
        <5>1. (~lost /\ Settled) /\ story' = IF Between THEN story \cup {"between"} ELSE story
          BY <1>3, <3>2, <4>1 DEF AwaitMcpLayer, Then, Return, Idle, WellTyped, Dispatches
        <5>. QED
          BY <5>1 DEF Excused, Excuses
      <4>2. CASE AwaitTimesOut
        <5>1. story' = story \cup {"unsettled"}
          BY <1>3, <4>2, <2>1 DEF AwaitTimesOut, Return, Idle
        <5>. QED
          BY <5>1 DEF Excused, Excuses
      <4>. QED
        BY <4>1, <4>2
    <3>4. ~Asking(pending) /\ mcp.flying = 0 /\ mcp.confirmed = Target(mcp) /\ Target(mcp) # "none"
      BY <3>3, TargetTyped DEF Settled
    <3>b. settling \in {"none", mcp.confirmed}
      BY <3>3, <3>4 DEF Between, Outstanding
    <3>5. LayersAsked = {} /\ child.layer = mcp.confirmed
      <4>1. "refused" \notin story
        BY <3>0 DEF Excused, Excuses
      <4>. QED
        BY <3>3, <3>4, <4>1 DEF HubInv, ConfirmedHolds, Held
    <3>6. \A q \in Asked : q.kind # "status" /\ q.kind # "layer"
      BY <3>0, <3>4, <3>5 DEF HubInv, QueriesAreTracked, Asking, LayersAsked
    <3>7. \A a \in Answered : a.kind # "status"
      <4>. SUFFICES ASSUME NEW a \in Answered, a.kind = "status" PROVE FALSE
        OBVIOUS
      <4>1. PICK p \in pending : p.id = a.id
        BY <3>0 DEF HubInv, QueriesAreTracked
      <4>. QED
        BY <3>4, <4>1 DEF HubInv, IdsAreOnce, IdsOnce, Asking
    <3>8. child.answered = IF settling # "none" THEN settling ELSE mcp.known
      BY <3>0, <3>7 DEF HubInv, AnswersAreKnown
    <3>9. Covered
      BY <3>4, <3>5, <3>8, <3>b DEF Covered, Target
    <3>10. \A i \in 1 .. Len(inbox) : inbox[i].kind \notin {"layer", "status"}
      BY <3>6 DEF Asked, Asks
    <3>. QED
      BY <3>4, <3>9, <3>10, <3>b
  <2>. QED
    BY <2>3, <2>4, <2>5 DEF CoverInv
<1>. QED
  BY <1>2, <1>3 DEF AwaitMcpLayer, AwaitTimesOut, Return

\* The turn let through goes out behind its layer.
LEMMA CoverSendTurn ==
  ASSUME WellTyped, CoverInv, SendTurn
  PROVE  CoverInv'
<1>. USE DEF process, hub, adapter, ghosts, bounds
<1>. DEFINE q == [id |-> 0, kind |-> "turn", value |-> disp.shown]
<1>1. /\ UNCHANGED <<ownerMcp, child, mcp, layer, uncovered, story>> /\ disp.pc = "send" /\ disp' = Idle
      /\ Running => inbox' = Append(inbox, q)
  BY DEF SendTurn, Return, Running
<1>2. q \in Written /\ inbox \in Seq(Written)
  BY DEF WellTyped, Dispatches, Written, TurnLines
<1>3. ReadOnlyTurn(q) => disp.shown = "readonly"
  BY DEF ReadOnlyTurn
<1>4. q.kind # "layer"
  OBVIOUS
<1>. HIDE DEF q
<1>5. UNCHANGED <<Running, Covered, Excused>> /\ disp'.shown = "none" /\ disp'.pc # "send"
  BY <1>1 DEF Running, Attached, Covered, Excused, Idle
<1>6. LayerComes'
  <2>. SUFFICES ASSUME Running, ~Excused, layer # "off"
                PROVE  child.launched \/ Ends(inbox', Len(inbox'), child.layer)
    BY <1>1, <1>5 DEF LayerComes
  <2>1. child.launched \/ Ends(inbox, Len(inbox), child.layer)
    BY DEF CoverInv, LayerComes
  <2>. QED
    BY <1>1, <1>2, <1>4, <2>1, EndsAppended
<1>7. TurnsAreCovered'
  <2>. SUFFICES ASSUME Running, ~Excused
                PROVE  TurnsHold(inbox', ownerMcp, Covered, child.launched, child.layer)
    BY <1>1, <1>5 DEF TurnsAreCovered
  <2>1. TurnsHold(inbox, ownerMcp, Covered, child.launched, child.layer)
    BY DEF CoverInv, TurnsAreCovered
  <2>2. ASSUME ReadOnlyTurn(q), ownerMcp
        PROVE  Covered /\ \A j \in 1 .. Len(inbox) : inbox[j].kind \notin {"layer", "status"}
    BY <1>1, <1>3, <2>2 DEF CoverInv, ReadyToSend, Sending
  <2>3. ASSUME ReadOnlyTurn(q) PROVE child.launched \/ Ends(inbox, Len(inbox), child.layer)
    BY <1>1, <1>3, <2>3 DEF CoverInv, ShownHasLayer, LayerComes, InATurn, Turning
  <2>. QED
    BY <1>1, <1>2, <2>1, <2>2, <2>3, TurnsAppended
<1>. QED
  BY <1>1, <1>5, <1>6, <1>7 DEF CoverInv, LayerIsOn, ShownHasLayer, ReadyToSend, Sending

(* The thread stays where it is.                                             *)
LEMMA CoverStill ==
  ASSUME CoverInv, UNCHANGED <<ownerMcp, inbox, layer, uncovered, disp, Running>>,
         Running => UNCHANGED <<child.launched, child.layer, child.answered>>,
         mcp'.on = mcp.on, story \subseteq story', Asking(pending') => Asking(pending),
         Sending /\ Sending' => mcp'.flying = 0 /\ settling' \in {"none", mcp'.confirmed}
  PROVE  CoverInv'
<1>1. (Running => Covered' = Covered) /\ (~Excused' => ~Excused) /\ InATurn' = InATurn
  BY DEF Covered, InATurn, Excused
<1>2. Sending' => Sending
  BY <1>1 DEF Sending
<1>3. LayerIsOn' /\ ShownHasLayer' /\ ~uncovered'
  BY <1>1 DEF CoverInv, LayerIsOn, ShownHasLayer
<1>4. LayerComes' /\ TurnsAreCovered'
  BY <1>1 DEF CoverInv, LayerComes, TurnsAreCovered
<1>5. ReadyToSend'
  BY <1>1, <1>2 DEF CoverInv, ReadyToSend, Sending
<1>. QED
  BY <1>3, <1>4, <1>5 DEF CoverInv

(* The child reads a line.                                                   *)
LEMMA CoverTaken ==
  ASSUME WellTyped, CoverInv, Running, Running', inbox # <<>>, inbox' = Tail(inbox),
         UNCHANGED <<ownerMcp, settling, mcp, pending, layer, disp, uncovered>>, story \subseteq story',
         ~Excused' =>
            /\ child'.launched = child.launched
            /\ child'.layer = IF Head(inbox).kind = "layer" THEN Head(inbox).value ELSE child.layer
            /\ Head(inbox).kind # "status" => child'.answered = child.answered
  PROVE  CoverInv'
<1>. DEFINE h == Head(inbox)
<1>1. inbox \in Seq(Written) /\ (~Excused' => ~Excused) /\ InATurn' = InATurn
  BY DEF WellTyped, InATurn, Excused
<1>2. Sending' => Sending /\ ~Excused'
  BY <1>1 DEF Sending
<1>3. LayerIsOn' /\ ShownHasLayer'
  BY <1>1 DEF CoverInv, LayerIsOn, ShownHasLayer
<1>4. ASSUME ~Excused', h.kind \notin {"layer", "status"} PROVE Covered' = Covered
  BY <1>4 DEF Covered
<1>5. LayerComes'
  <2>. SUFFICES ASSUME ~Excused', layer # "off"
                PROVE  child'.launched \/ Ends(inbox', Len(inbox'), child'.layer)
    BY DEF LayerComes
  <2>1. child.launched \/ Ends(inbox, Len(inbox), child.layer)
    BY <1>1 DEF CoverInv, LayerComes
  <2>2. Len(inbox) \in 1 .. Len(inbox) /\ Len(inbox') = Len(inbox) - 1
    BY <1>1, HeadTailProperties
  <2>. QED
    BY <1>1, <2>1, <2>2, EndsBeheaded
<1>6. TurnsAreCovered'
  <2>. SUFFICES ASSUME ~Excused'
                PROVE  TurnsHold(inbox', ownerMcp, Covered', child'.launched, child'.layer)
    BY DEF TurnsAreCovered
  <2>1. TurnsHold(inbox, ownerMcp, Covered, child.launched, child.layer)
    BY <1>1 DEF CoverInv, TurnsAreCovered
  <2>. QED
    BY <1>1, <1>4, <2>1, TurnsBeheaded
<1>7. ReadyToSend'
  <2>. SUFFICES ASSUME Sending'
                PROVE  /\ Covered' /\ ~Asking(pending)
                       /\ mcp.flying = 0 /\ settling \in {"none", mcp.confirmed}
                       /\ \A i \in 1 .. Len(inbox') : inbox'[i].kind \notin {"layer", "status"}
    BY DEF ReadyToSend
  <2>1. /\ Covered /\ ~Asking(pending)
        /\ mcp.flying = 0 /\ settling \in {"none", mcp.confirmed}
        /\ \A i \in 1 .. Len(inbox) : inbox[i].kind \notin {"layer", "status"}
    BY <1>2 DEF CoverInv, ReadyToSend
  <2>2. /\ 1 \in 1 .. Len(inbox) /\ inbox[1] = h
        /\ \A i \in 1 .. Len(inbox') : i + 1 \in 1 .. Len(inbox) /\ inbox'[i] = inbox[i + 1]
    BY <1>1, Behead
  <2>. QED
    BY <1>2, <1>4, <2>1, <2>2
<1>. QED
  BY <1>3, <1>5, <1>6, <1>7 DEF CoverInv

\* The lines that are no turn.
LEMMA CoverChild ==
  ASSUME WellTyped, CoverInv, WellTyped',
         \/ ChildInitializes \/ ChildSwitches \/ ChildTakesLayer \/ ChildRefuses
         \/ ChildNamesItsServers
  PROVE  CoverInv'
<1>. USE DEF process, hub, adapter, ghosts, bounds
<1>1. /\ UNCHANGED <<ownerMcp, settling, mcp, pending, layer, disp, uncovered>> /\ story \subseteq story'
      /\ inbox # <<>> /\ inbox' = Tail(inbox) /\ Running
  BY DEF ChildInitializes, ChildSwitches, ChildTakesLayer, ChildRefuses, ChildNamesItsServers, Taking
<1>2. child \in Children /\ child.alive
  BY <1>1 DEF Running, Attached, WellTyped
<1>3. /\ Running'
      /\ ~Excused' =>
            /\ child'.launched = child.launched
            /\ child'.layer = IF Head(inbox).kind = "layer" THEN Head(inbox).value ELSE child.layer
            /\ Head(inbox).kind # "status" => child'.answered = child.answered
  <2>0. \A c : DOMAIN c = DOMAIN child => c # NoLine
    BY <1>2 DEF Children, NoLine
  <2>1. CASE ChildInitializes \/ ChildRefuses
    <3>1. child' = child /\ Running'
      BY <1>1, <2>1 DEF ChildInitializes, ChildRefuses, Running, Attached
    <3>2. ASSUME ~Excused' PROVE Head(inbox).kind # "layer"
      BY <2>1, <3>2 DEF ChildInitializes, ChildRefuses, Taking, Excused, Excuses
    <3>. QED
      BY <3>1, <3>2
  <2>2. CASE ChildSwitches
    <3>1. child' = [child EXCEPT !.mode = Head(inbox).value] /\ Head(inbox).kind = "mode"
      BY <2>2 DEF ChildSwitches, Taking
    <3>2. child' # NoLine
      BY <2>0, <3>1
    <3>. QED
      BY <1>2, <3>1, <3>2 DEF Children, Running, Attached
  <2>3. CASE ChildTakesLayer
    <3>1. child' = [child EXCEPT !.layer = Head(inbox).value] /\ Head(inbox).kind = "layer"
      BY <2>3 DEF ChildTakesLayer, Taking
    <3>2. child' # NoLine
      BY <2>0, <3>1
    <3>. QED
      BY <1>2, <3>1, <3>2 DEF Children, Running, Attached
  <2>4. CASE ChildNamesItsServers
    <3>1. child' = [child EXCEPT !.answered = child.serves] /\ Head(inbox).kind = "status"
      BY <2>4 DEF ChildNamesItsServers, Taking
    <3>2. child' # NoLine
      BY <2>0, <3>1
    <3>. QED
      BY <1>2, <3>1, <3>2 DEF Children, Running, Attached
  <2>. QED
    BY <2>1, <2>2, <2>3, <2>4
<1>. QED
  BY <1>1, <1>3, CoverTaken

(* The turn itself: it finds the child covered.                              *)
LEMMA CoverRuns ==
  ASSUME WellTyped, CoverInv, ChildRuns
  PROVE  CoverInv'
<1>. USE DEF process, hub, adapter, ghosts, bounds
<1>1. /\ UNCHANGED <<ownerMcp, child, settling, mcp, pending, layer, disp, story>>
      /\ inbox # <<>> /\ inbox' = Tail(inbox) /\ Running /\ Head(inbox).kind = "turn"
      /\ uncovered' = (uncovered \/ (Head(inbox).value = "readonly" /\ ~Covered /\ ~Excused))
  BY DEF ChildRuns, Taking
<1>2. ~uncovered'
  <2>. SUFFICES ASSUME Head(inbox).value = "readonly", ~Excused
                PROVE  Covered
    BY <1>1 DEF CoverInv
  <2>2. TurnsHold(inbox, ownerMcp, Covered, child.launched, child.layer)
    BY <1>1 DEF CoverInv, TurnsAreCovered
  <2>3. 1 \in 1 .. Len(inbox) /\ inbox[1] = Head(inbox)
    BY <1>1, Behead DEF WellTyped
  <2>4. IF ownerMcp THEN Covered ELSE child.launched \/ Ends(inbox, 1 - 1, child.layer)
    BY <1>1, <2>2, <2>3 DEF TurnsHold, ReadOnlyTurn
  <2>5. Ends(inbox, 1 - 1, child.layer) => child.layer # "none"
    BY DEF Ends
  <2>. QED
    BY <2>4, <2>5 DEF Covered
<1>3. uncovered' = uncovered /\ Running'
  <2>1. uncovered' = FALSE /\ uncovered = FALSE
    BY <1>1, <1>2 DEF CoverInv, WellTyped
  <2>. QED
    BY <1>1, <2>1 DEF Running, Attached
<1>4. inbox # <<>> /\ inbox' = Tail(inbox) /\ Head(inbox).kind # "layer" /\ child' = child
  BY <1>1
<1>. QED
  BY <1>1, <1>3, <1>4, CoverTaken

(* The denies are acted on: a layer sent again stays a layer, and none is    *)
(* sent once a turn was let through.                                         *)
LEMMA CoverRefresh ==
  ASSUME WellTyped, CoverInv, NEW list \in Lists0, RefreshMcpDenies(list),
         UNCHANGED <<ownerMcp, child, layer, disp, uncovered, Running>>, story \subseteq story',
         Sending' => Sending /\ list = Outstanding /\ settling' = "none"
  PROVE  CoverInv'
<1>. DEFINE q == Request("layer", list)
<1>1. /\ q \in Requests /\ q.kind = "layer" /\ q.value = list /\ list # "none"
      /\ mcp'.on = mcp.on /\ mcp'.confirmed = mcp.confirmed
      /\ \/ mcp'.flying = mcp.flying /\ UNCHANGED <<pending, inbox>>
         \/ Outstanding # list /\ Alive /\ Deliver(q) /\ mcp.on
  BY RefreshDoes
<1>. HIDE DEF q
<1>2. CASE mcp'.flying = mcp.flying /\ UNCHANGED <<pending, inbox>>
  <2>1. Sending /\ Sending' => mcp'.flying = 0 /\ settling' \in {"none", mcp'.confirmed}
    BY <1>2 DEF CoverInv, ReadyToSend
  <2>. QED
    BY <1>1, <1>2, <2>1, CoverStill
<1>3. CASE Outstanding # list /\ Alive /\ Deliver(q) /\ mcp.on
  <2>1. ~Sending'
    BY <1>3
  <2>2. CASE Running
    <3>1. layer # "off" <=> mcp'.on
      BY <1>1, <2>2 DEF CoverInv, LayerIsOn
    <3>2. disp'.shown = "readonly" /\ InATurn' => layer # "off"
      BY <2>2 DEF CoverInv, ShownHasLayer, InATurn
    <3>3. Attached => inbox' = Append(inbox, q)
      BY <1>3 DEF Deliver
    <3>. QED
      BY <1>1, <2>1, <3>1, <3>2, <3>3, CoverSent
  <2>3. CASE ~Running
    BY <2>3, CoverStopped
  <2>. QED
    BY <2>2, <2>3
<1>. QED
  BY <1>1, <1>2, <1>3

\* The servers change, the child dies, the pump folds a line and acts on it.
LEMMA CoverOthers ==
  ASSUME WellTyped, HubInv, CoverInv, WellTyped', ServersChange \/ ChildDies \/ Ingest \/ Settle \/ PumpEnds \/ FoldLate
  PROVE  CoverInv'
<1>. USE DEF process, hub, adapter, ghosts, bounds
<1>t. mcp \in McpLayers /\ nextId \in Nat \ {0}
  BY HubTypes
<1>1. CASE ServersChange
  <2>1. Running /\ child \in Children
    BY <1>1 DEF ServersChange, Running, Attached, WellTyped
  <2>2. PICK list : child' = [child EXCEPT !.serves = list]
    BY <1>1 DEF ServersChange
  <2>3. child' # NoLine
    <3>1. DOMAIN child' = DOMAIN child /\ "alive" \in DOMAIN child /\ DOMAIN NoLine = {"kind"}
      BY <2>1, <2>2 DEF Children, NoLine
    <3>. QED
      BY <3>1
  <2>4. Running' = Running /\ UNCHANGED <<child.launched, child.layer, child.answered>>
    BY <2>1, <2>2, <2>3 DEF Children, Running, Attached
  <2>5. Sending => mcp'.flying = 0 /\ settling' \in {"none", mcp'.confirmed}
    BY <1>1 DEF ServersChange, CoverInv, ReadyToSend
  <2>. QED
    BY <1>1, <2>4, <2>5, CoverStill DEF ServersChange
<1>2. CASE ChildDies
  <2>1. ~Running'
    <3>1. child \in Children /\ child' = [child EXCEPT !.alive = FALSE]
      BY <1>2 DEF ChildDies, Running, Attached, WellTyped
    <3>. QED
      BY <3>1 DEF Children, Running
  <2>. QED
    BY <1>2, <2>1, CoverStopped DEF ChildDies
<1>3. CASE PumpEnds
  <2>1. ~Running'
    BY <1>3 DEF PumpEnds, Running
  <2>. QED
    BY <1>3, <2>1, CoverStopped DEF PumpEnds
<1>4. CASE FoldLate
  <2>1. /\ UNCHANGED <<ownerMcp, child, layer, disp, uncovered, settling>> /\ story \subseteq story'
        /\ late # NoLine
    BY <1>4 DEF FoldLate
  <2>3. Running' = Running
    BY <2>1 DEF Running, Attached
  <2>4. CASE late.kind = "end"
    <3>1. /\ mcp'.on = mcp.on /\ pending' = {} /\ inbox' = inbox /\ "overtaken" \in story'
      BY <1>t, <1>4, <2>4 DEF FoldLate, Forgotten, McpLayers
    <3>2. ~Sending' /\ ~Asking(pending')
      BY <3>1 DEF Sending, Excused, Excuses, Asking
    <3>. QED
      BY <2>1, <2>3, <3>1, <3>2, CoverStill
  <2>5. CASE late.kind = "list"
    <3>1. late.list \in Lists0
      BY <2>1, <2>5 DEF WellTyped, Answers, ListLines, EndLine
    <3>2. RefreshMcpDenies(late.list) /\ "overtaken" \in story'
      BY <1>4, <2>5 DEF FoldLate
    <3>3. ~Sending'
      BY <3>2 DEF Sending, Excused, Excuses
    <3>. QED
      BY <2>1, <2>3, <3>1, <3>2, <3>3, CoverRefresh
  <2>6. CASE late.kind \notin {"end", "list"}
    <3>1. UNCHANGED <<pending, mcp, inbox>>
      BY <1>4, <2>6 DEF FoldLate
    <3>2. Sending => mcp'.flying = 0 /\ settling' \in {"none", mcp'.confirmed}
      BY <2>1, <3>1 DEF CoverInv, ReadyToSend
    <3>. QED
      BY <2>1, <2>3, <3>1, <3>2, CoverStill
  <2>. QED
    BY <2>4, <2>5, <2>6
<1>6. CASE Settle
  <2>1. /\ UNCHANGED <<ownerMcp, child, layer, disp, uncovered, story>>
        /\ settling' = "none" /\ RefreshMcpDenies(settling) /\ settling \in Lists0
    BY <1>6 DEF Settle, WellTyped, OrNone
  <2>2. Running' = Running
    BY <2>1 DEF Running, Attached
  <2>3. Sending => settling = Outstanding
    BY <1>6 DEF Settle, CoverInv, ReadyToSend, Outstanding
  <2>4. Sending' => Sending
    BY <2>1, <2>2 DEF Sending, Excused
  <2>. QED
    BY <2>1, <2>2, <2>3, <2>4, CoverRefresh
<1>5. CASE Ingest
  <2>1. UNCHANGED <<ownerMcp, child, inbox, layer, disp, uncovered, story>> /\ Attached
    BY <1>5 DEF Ingest
  <2>2. Running' = Running
    BY <2>1 DEF Running, Attached
  <2>. DEFINE line == Head(outbox)
  <2>3. line \in Answers
    BY <1>5, HubTypes, Folded DEF Ingest
  <2>4. \/ UNCHANGED <<pending, settling, mcp>>
        \/ \E p \in pending : Confirm(p, line)
    BY <1>5 DEF Ingest
  <2>. HIDE DEF line
  <2>s. Sending => mcp.flying = 0 /\ settling \in {"none", mcp.confirmed} /\ ~Asking(pending)
    BY DEF CoverInv, ReadyToSend
  <2>5. CASE UNCHANGED <<pending, settling, mcp>>
    BY <2>1, <2>2, <2>5, <2>s, CoverStill
  <2>6. ASSUME NEW p \in pending, Confirm(p, line) PROVE CoverInv'
    <3>1. pending' = pending \ {p} /\ (Asking(pending') => Asking(pending))
      BY <2>6 DEF Confirm, Asking
    <3>2. p.id # 0
      BY HubTypes
    <3>3. /\ mcp'.on = mcp.on
          /\ p.id # mcp.flying => mcp' = mcp
      <4>1. CASE line.verdict = "error"
        <5>1. Refuse({p}, mcp)
          BY <2>6, <4>1 DEF Confirm
        <5>2. mcp' = IF p.id = mcp.flying THEN Forgotten(mcp) ELSE mcp
          BY <5>1 DEF Refuse
        <5>. QED
          BY <1>t, <5>2 DEF Forgotten, McpLayers
      <4>2. CASE line.verdict = "success"
        BY <1>t, <2>6, <4>2 DEF Confirm, Confirms, McpLayers
      <4>. QED
        BY <2>3, <4>1, <4>2 DEF Answers
    <3>4. Sending => settling' = "none"
      BY <2>6, <2>s DEF Confirm, Asking
    <3>5. Sending => mcp'.flying = 0 /\ settling' \in {"none", mcp'.confirmed}
      BY <2>s, <3>2, <3>3, <3>4
    <3>. QED
      BY <2>1, <2>2, <3>1, <3>3, <3>5, CoverStill
  <2>. QED
    BY <2>4, <2>5, <2>6
<1>. QED
  BY <1>1, <1>2, <1>3, <1>4, <1>5, <1>6

LEMMA CoverKept ==
  ASSUME WellTyped, DispatchIsWhole, AtSpawn, HubInv, CoverInv, [Next]_vars
  PROVE  CoverInv'
<1>t. WellTyped'
  BY TypesKept
<1>1. CASE UNCHANGED vars
  <2>1. Running' = Running
    BY <1>1 DEF vars, process, Running, Attached
  <2>2. UNCHANGED <<mcp, settling>>
    BY <1>1 DEF vars, hub, process
  <2>3. Sending => mcp'.flying = 0 /\ settling' \in {"none", mcp'.confirmed}
    BY <2>2 DEF CoverInv, ReadyToSend
  <2>. QED
    BY <1>1, <2>1, <2>3, CoverStill DEF vars, process, hub, adapter, ghosts, bounds
<1>2. CASE Next
  <2>1. Done => UNCHANGED vars
    BY DEF Done
  <2>. QED
    BY <1>1, <1>2, <1>t, <2>1, CoverDispatch, CoverRelaunch, CoverAwait, CoverSendTurn, CoverChild,
       CoverRuns, CoverOthers DEF Next
<1>. QED
  BY <1>1, <1>2

-----------------------------------------------------------------------------
(* The chip and the child's mode.                                            *)

(* The last line on its way that names a mode names the child's.             *)
LastMode(s, c) ==
    \A i \in 1 .. Len(s) : s[i].mode # "none" =>
        s[i].mode = c \/ \E j \in 1 .. Len(s) : i < j /\ s[j].mode # "none"

(* The hub has just launched a child, or owes it another launch at once.     *)
Opening ==
    disp.pc \in {"cover", "initialize"} \/ (disp.pc = "query" /\ disp.next = "initialize")
Reopening ==
    \/ disp.pc \in {"cover", "initialize", "revive", "due"}
    \/ disp.pc = "query" /\ disp.next \in {"initialize", "revive", "due"}

(* A child launched under the layer stays Read-only until it is replaced.    *)
LaunchedIsReadOnly ==
    Running /\ layer = "launched" =>
        child.mode = "readonly" /\ \A q \in Asked : q.kind = "mode" => q.value = "readonly"
PickIsAway ==
    (disp.pc = "mode" \/ disp.next = "mode") /\ layer = "launched" => disp.mode = "readonly"

(* A relaunch is owed to such a child only, or to one being replaced anyway. *)
DueIsLaunched == Running /\ modeDue # "none" => layer = "launched" \/ Reopening
OwesNothing == disp.op \in {"open", "due"} => modeDue = "none"

LastLineIsMode == Running => LastMode(outbox, child.mode)

(* With no line left that names a mode the chip is right, unless the child   *)
(* is being opened or has a request to answer with the mode it is in.        *)
Promised == \E q \in Asked : q.kind = "initialize" \/ (q.kind = "mode" /\ q.value = child.mode)
ChipFollows ==
    /\ Running /\ modeDue = "none" /\ story \cap {"refusedItsOwn", "stray"} = {}
    /\ \A a \in Answered : a.mode = "none"
    => reported = child.mode \/ Opening \/ Promised

ChipInv ==
    /\ LaunchedIsReadOnly /\ PickIsAway /\ DueIsLaunched /\ OwesNothing
    /\ LastLineIsMode /\ ChipFollows

\* One line more among the requests.
LEMMA AskedMore ==
  ASSUME NEW s \in Seq(Written), NEW q \in Written
  PROVE  /\ Asks(s) \subseteq Asks(Append(s, q)) /\ Asks(Append(s, q)) \subseteq Asks(s) \cup {q}
         /\ q.kind # "turn" => q \in Asks(Append(s, q))
<1>. DEFINE t == Append(s, q)
<1>1. /\ Len(s) \in Nat /\ Len(t) = Len(s) + 1 /\ t[Len(s) + 1] = q
      /\ \A i \in 1 .. Len(s) : t[i] = s[i] /\ i < Len(s) + 1 /\ i \in 1 .. Len(t)
      /\ \A i \in 1 .. Len(t) : i \in 1 .. Len(s) \/ i = Len(s) + 1
      /\ Len(s) + 1 \in 1 .. Len(t)
  BY Appended
<1>. HIDE DEF t
<1>2. /\ Asks(s) \subseteq Asks(t) /\ Asks(t) \subseteq Asks(s) \cup {q}
      /\ q.kind # "turn" => q \in Asks(t)
  BY <1>1 DEF Asks
<1>. QED
  BY <1>2 DEF t

\* One line more, and the first one read.
LEMMA LastModeAppended ==
  ASSUME NEW s \in Seq(Answers), NEW c, LastMode(s, c), NEW a \in Answers, NEW d,
         IF a.mode = "none" THEN d = c ELSE d = a.mode
  PROVE  LastMode(Append(s, a), d)
<1>. DEFINE t == Append(s, a)
<1>1. /\ Len(s) \in Nat /\ Len(t) = Len(s) + 1 /\ t[Len(s) + 1] = a
      /\ \A i \in 1 .. Len(s) : t[i] = s[i] /\ i < Len(s) + 1 /\ i \in 1 .. Len(t)
      /\ \A i \in 1 .. Len(t) : i \in 1 .. Len(s) \/ i = Len(s) + 1
      /\ Len(s) + 1 \in 1 .. Len(t)
  BY Appended
<1>. HIDE DEF t
<1>2. LastMode(t, d)
  <2>1. CASE a.mode = "none"
    BY <1>1, <2>1 DEF LastMode
  <2>2. CASE a.mode # "none"
    BY <1>1, <2>2 DEF LastMode
  <2>. QED
    BY <2>1, <2>2
<1>. QED
  BY <1>2 DEF t

LEMMA LastModeBeheaded ==
  ASSUME NEW s \in Seq(Answers), s # <<>>, NEW c, LastMode(s, c)
  PROVE  /\ LastMode(Tail(s), c)
         /\ Head(s).mode # "none" /\ (\A b \in Of(Tail(s)) : b.mode = "none") => Head(s).mode = c
<1>. DEFINE t == Tail(s)
            h == Head(s)
<1>1. /\ Len(s) \in Nat /\ Len(t) \in Nat /\ Len(s) = Len(t) + 1
      /\ s[1] = h /\ h \in Answers /\ t \in Seq(Answers) /\ 1 \in 1 .. Len(s)
      /\ \A i \in 1 .. Len(t) : i + 1 \in 1 .. Len(s) /\ t[i] = s[i + 1] /\ 1 < i + 1
      /\ \A i \in 1 .. Len(s) : i = 1 \/ i - 1 \in 1 .. Len(t)
      /\ \A i \in 1 .. Len(s) : i # 1 => t[i - 1] = s[i]
  BY Behead
<1>. HIDE DEF t, h
<1>2. ASSUME NEW i \in 1 .. Len(t), t[i].mode # "none", t[i].mode # c
      PROVE  \E j \in 1 .. Len(t) : i < j /\ t[j].mode # "none"
  <2>1. PICK j \in 1 .. Len(s) : i + 1 < j /\ s[j].mode # "none"
    BY <1>1, <1>2 DEF LastMode
  <2>2. j # 1 /\ j - 1 \in 1 .. Len(t) /\ t[j - 1] = s[j] /\ i < j - 1
    BY <1>1, <2>1
  <2>. QED
    BY <2>1, <2>2
<1>3. ASSUME h.mode # "none", \A b \in Of(t) : b.mode = "none" PROVE h.mode = c
  <2>1. ASSUME NEW j \in 1 .. Len(s), 1 < j PROVE s[j].mode = "none"
    <3>1. j - 1 \in 1 .. Len(t) /\ t[j - 1] = s[j]
      BY <1>1, <2>1
    <3>. QED
      BY <1>3, <3>1 DEF Of
  <2>. QED
    BY <1>1, <1>3, <2>1 DEF LastMode
<1>. QED
  BY <1>2, <1>3 DEF LastMode, t, h

(* The thread moves on, and a line that asks for no mode may go out.         *)
LEMMA ChipMoves ==
  ASSUME WellTyped, ChipInv, UNCHANGED <<child, outbox, modeDue, reported>>, story \subseteq story',
         layer' = "launched" <=> layer = "launched",
         inbox' = inbox \/ \E q \in Written : q.kind # "mode" /\ inbox' = Append(inbox, q),
         PickIsAway', OwesNothing',
         Running /\ modeDue # "none" /\ Reopening => layer = "launched" \/ Reopening',
         Running /\ Opening => Opening' \/ Promised'
  PROVE  ChipInv'
<1>1. UNCHANGED <<Attached, Running, Answered>>
  BY DEF Attached, Running, Answered
<1>2. Asked \subseteq Asked' /\ \A q \in Asked' : q.kind = "mode" => q \in Asked
  <2>1. CASE inbox' = inbox
    BY <2>1 DEF Asked
  <2>2. ASSUME NEW q \in Written, q.kind # "mode", inbox' = Append(inbox, q)
        PROVE  Asked \subseteq Asked' /\ \A x \in Asked' : x.kind = "mode" => x \in Asked
    <3>1. Asked \subseteq Asked' /\ Asked' \subseteq Asked \cup {q}
      BY <2>2, AskedMore DEF WellTyped, Asked
    <3>. QED
      BY <2>2, <3>1
  <2>. QED
    BY <2>1, <2>2
<1>3. Promised => Promised'
  BY <1>2 DEF Promised
<1>4. LaunchedIsReadOnly' /\ DueIsLaunched' /\ LastLineIsMode'
  BY <1>1, <1>2 DEF ChipInv, LaunchedIsReadOnly, DueIsLaunched, LastLineIsMode
<1>5. ChipFollows'
  BY <1>1, <1>3 DEF ChipInv, ChipFollows
<1>. QED
  BY <1>4, <1>5 DEF ChipInv

\* There is no child that runs.
LEMMA ChipStopped ==
  ASSUME ChipInv, ~Running', PickIsAway', OwesNothing'
  PROVE  ChipInv'
BY DEF ChipInv, LaunchedIsReadOnly, DueIsLaunched, LastLineIsMode, ChipFollows

\* An apply and a query ask for no mode.
LEMMA LayerWritten ==
  ASSUME WellTyped, NEW on \in BOOLEAN, SendLayer(on)
  PROVE  inbox' = inbox \/ \E q \in Written : q.kind # "mode" /\ inbox' = Append(inbox, q)
<1>. DEFINE q == Request("layer", IF on THEN Target(mcp) ELSE "none")
<1>1. q \in Written /\ q.kind # "mode"
  <2>1. nextId \in Nat \ {0} /\ (IF on THEN Target(mcp) ELSE "none") \in Values
    BY TargetTyped DEF WellTyped, Values, OrNone
  <2>. QED
    BY <2>1, RequestTyped DEF Request, Written
<1>2. inbox' = inbox \/ inbox' = Append(inbox, q)
  BY DEF SendLayer, Deliver
<1>. HIDE DEF q
<1>. QED
  BY <1>1, <1>2

LEMMA QueryWritten ==
  ASSUME WellTyped, QueryMcpStatus
  PROVE  inbox' = inbox \/ \E q \in Written : q.kind # "mode" /\ inbox' = Append(inbox, q)
<1>. DEFINE q == Request("status", "none")
<1>1. q \in Written /\ q.kind # "mode"
  BY RequestTyped DEF WellTyped, Request, Written
<1>2. inbox' = inbox \/ inbox' = Append(inbox, q)
  BY DEF QueryMcpStatus, Deliver
<1>. HIDE DEF q
<1>. QED
  BY <1>1, <1>2

LEMMA RefreshWritten ==
  ASSUME WellTyped, NEW list \in Lists0, RefreshMcpDenies(list)
  PROVE  inbox' = inbox \/ \E q \in Written : q.kind # "mode" /\ inbox' = Append(inbox, q)
<1>. DEFINE q == Request("layer", list)
<1>1. q \in Requests /\ q.kind = "layer" /\ (inbox' = inbox \/ Deliver(q))
  BY RefreshDoes
<1>. HIDE DEF q
<1>2. q \in Written /\ (inbox' = inbox \/ inbox' = Append(inbox, q))
  BY <1>1 DEF Deliver, Written
<1>. QED
  BY <1>1, <1>2

\* The thread up to the relaunches: a pick asks for the mode, or owes a relaunch.
LEMMA ChipDispatch ==
  ASSUME WellTyped, DispatchIsWhole, HubInv, ChipInv,
         \/ \E mode \in Modes : BeginPick(mode)
         \/ BeginTurn \/ EnsureReadOnlyLayer \/ Query \/ PickLayer \/ PickMode
  PROVE  ChipInv'
<1>. USE DEF process, hub, adapter, ghosts, bounds
<1>d. disp \in Dispatches /\ "none" \notin Modes
  BY DEF WellTyped, Modes
<1>i. disp' = Idle => PickIsAway' /\ OwesNothing' /\ ~Opening' /\ ~Reopening'
  BY DEF Idle, PickIsAway, OwesNothing, Opening, Reopening
<1>s. ~Running /\ child' = child => ~Running'
  BY DEF Running, Attached
<1>a. Running => Alive
  BY DEF Running, Alive
<1>1. ASSUME NEW mode, NEW op \in {"pick", "turn"}, Begin(op, mode) PROVE ChipInv'
  <2>1. story \subseteq story' /\ disp.pc = "idle"
    BY <1>1 DEF Begin, Told
  <2>2. PickIsAway' /\ OwesNothing' /\ ~Opening /\ ~Reopening
    BY <1>1, <2>1 DEF Begin, Idle, PickIsAway, OwesNothing, Opening, Reopening
  <2>. QED
    BY <1>1, <2>1, <2>2, ChipMoves DEF Begin
<1>2. CASE EnsureReadOnlyLayer
  <2>1. UNCHANGED <<child, outbox, modeDue, reported, story>> /\ disp.pc = "ensure"
    BY <1>2 DEF EnsureReadOnlyLayer
  <2>2. \E asks \in BOOLEAN : AndQuery(asks, AfterEnsure)
    <3>1. Alive \in BOOLEAN
      BY DEF Alive, WellTyped, Children
    <3>. QED
      BY <1>2, <3>1 DEF EnsureReadOnlyLayer
  <2>3. disp'.op \in {"pick", "turn"} /\ disp'.pc # "mode" /\ disp'.next # "mode"
    BY <2>1, <2>2, PlaceAfterQuery DEF AfterEnsure, DispatchIsWhole
  <2>4. PickIsAway' /\ OwesNothing' /\ ~Opening /\ ~Reopening
    BY <2>1, <2>3 DEF PickIsAway, OwesNothing, Opening, Reopening
  <2>5. /\ layer' = "launched" <=> layer = "launched"
        /\ SendLayer(TRUE) \/ inbox' = inbox
    BY <1>2 DEF EnsureReadOnlyLayer
  <2>. QED
    BY <2>1, <2>4, <2>5, ChipMoves, LayerWritten
<1>3. CASE Query
  <2>1. UNCHANGED <<child, outbox, modeDue, reported, story, layer>> /\ disp.pc = "query" /\ QueryMcpStatus
    BY <1>3 DEF Query
  <2>2. disp'.pc = disp.next /\ disp'.next = "none" /\ disp'.op = disp.op /\ disp'.mode = disp.mode
    BY <1>3, <1>d DEF Query, Dispatches
  <2>3. PickIsAway' /\ OwesNothing' /\ (Opening => Opening') /\ (Reopening => Reopening')
    BY <2>1, <2>2 DEF ChipInv, PickIsAway, OwesNothing, Opening, Reopening
  <2>. QED
    BY <2>1, <2>3, ChipMoves, QueryWritten
<1>4. CASE PickLayer
  <2>1. UNCHANGED <<child, outbox, story>> /\ disp.pc = "layer" /\ disp.op = "pick" /\ disp.mode \in Modes
    BY <1>4 DEF PickLayer, DispatchIsWhole
  <2>2. ~Opening /\ ~Reopening
    BY <2>1 DEF Opening, Reopening
  <2>3. CASE layer = "launched" /\ disp.mode # "readonly"
    <3>1. /\ modeDue' = disp.mode /\ reported' = disp.mode /\ disp' = Idle
          /\ UNCHANGED <<inbox, layer>>
      BY <1>4, <2>3 DEF PickLayer, Return
    <3>2. modeDue' # "none"
      BY <1>d, <2>1, <3>1
    <3>3. UNCHANGED <<Running, Asked>>
      BY <2>1, <3>1 DEF Running, Attached, Asked
    <3>. QED
      BY <1>i, <2>1, <2>3, <3>1, <3>2, <3>3 DEF ChipInv, LaunchedIsReadOnly, DueIsLaunched,
         LastLineIsMode, ChipFollows
  <2>4. CASE ~(layer = "launched" /\ disp.mode # "readonly")
    <3>1. /\ UNCHANGED <<modeDue, reported>>
          /\ layer' = "launched" <=> layer = "launched"
      BY <1>4, <2>4 DEF PickLayer
    <3>2. inbox' = inbox \/ \E on \in BOOLEAN : SendLayer(on)
      <4>1. (disp.mode = "readonly") \in BOOLEAN
        OBVIOUS
      <4>. QED
        BY <1>4, <4>1 DEF PickLayer
    <3>3. \/ disp' = Idle
          \/ disp'.mode = disp.mode /\ disp'.op = disp.op
      <4>1. ASSUME NEW asks \in BOOLEAN, AndQuery(asks, "mode")
            PROVE  disp'.mode = disp.mode /\ disp'.op = disp.op
        BY <4>1, PlaceAfterQuery
      <4>2. CASE Then("mode")
        BY <1>d, <4>2 DEF Then, Dispatches
      <4>3. (disp.mode = "readonly") \in BOOLEAN
        OBVIOUS
      <4>. QED
        BY <1>4, <4>1, <4>2, <4>3 DEF PickLayer, Return
    <3>4. PickIsAway' /\ OwesNothing'
      BY <1>i, <2>1, <2>4, <3>1, <3>3 DEF PickIsAway, OwesNothing
    <3>. QED
      BY <2>1, <2>2, <3>1, <3>2, <3>4, ChipMoves, LayerWritten
  <2>. QED
    BY <2>3, <2>4
<1>5. CASE PickMode
  <2>1. /\ UNCHANGED <<child, outbox, story, layer, reported>> /\ disp.pc = "mode" /\ disp.mode \in Modes
        /\ modeDue' = "none" /\ disp' = Idle
    BY <1>5 DEF PickMode, Return, DispatchIsWhole
  <2>2. ~Opening /\ ~Reopening
    BY <2>1 DEF Opening, Reopening
  <2>3. CASE ~Running
    BY <1>i, <1>s, <2>1, <2>3, ChipStopped
  <2>4. CASE Running
    <3>. DEFINE q == Request("mode", disp.mode)
    <3>1. q \in Written /\ q.kind = "mode" /\ q.value = disp.mode
      <4>1. q \in Requests
        BY <2>1, RequestTyped DEF Request, WellTyped
      <4>. QED
        BY <4>1 DEF Request, Written
    <3>2. inbox' = Append(inbox, q)
      BY <1>5, <1>a, <2>4 DEF PickMode, Deliver, Running
    <3>. HIDE DEF q
    <3>3. Asked \subseteq Asked' /\ Asked' \subseteq Asked \cup {q} /\ q \in Asked'
      BY <3>1, <3>2, AskedMore DEF WellTyped, Asked
    <3>4. UNCHANGED <<Running, Answered>>
      BY <2>1 DEF Running, Attached, Answered
    <3>5. layer = "launched" => disp.mode = "readonly"
      BY <2>1 DEF ChipInv, PickIsAway
    <3>6. LaunchedIsReadOnly'
      BY <2>1, <3>1, <3>3, <3>4, <3>5 DEF ChipInv, LaunchedIsReadOnly
    <3>7. ChipFollows'
      <4>1. CASE modeDue # "none"
        <5>1. child.mode = "readonly" /\ disp.mode = "readonly"
          BY <2>2, <2>4, <3>5, <4>1 DEF ChipInv, DueIsLaunched, LaunchedIsReadOnly
        <5>2. Promised'
          BY <2>1, <3>1, <3>3, <5>1 DEF Promised
        <5>. QED
          BY <5>2 DEF ChipFollows
      <4>2. CASE modeDue = "none"
        <5>1. Promised => Promised'
          BY <2>1, <3>3 DEF Promised
        <5>. QED
          BY <2>1, <2>2, <3>4, <4>2, <5>1 DEF ChipInv, ChipFollows
      <4>. QED
        BY <4>1, <4>2
    <3>8. DueIsLaunched' /\ LastLineIsMode'
      BY <2>1, <3>4 DEF ChipInv, DueIsLaunched, LastLineIsMode
    <3>. QED
      BY <1>i, <2>1, <3>6, <3>7, <3>8 DEF ChipInv
  <2>. QED
    BY <2>3, <2>4
<1>. QED
  BY <1>1, <1>2, <1>3, <1>4, <1>5 DEF BeginPick, BeginTurn

\* The relaunches: the child is launched in the mode the chip shows, or is opening.
LEMMA ChipRelaunch ==
  ASSUME WellTyped, DispatchIsWhole, HubInv, AtSpawn, ChipInv,
         \/ NoRelaunch \/ Retire \/ Spawn \/ SpawnFails \/ Cover \/ Initialize
         \/ AwaitMcpLayer \/ AwaitTimesOut \/ SendTurn
  PROVE  ChipInv'
<1>. USE DEF process, hub, adapter, ghosts, bounds
<1>d. disp \in Dispatches
  BY DEF WellTyped
<1>i. disp' = Idle => PickIsAway' /\ OwesNothing' /\ ~Opening' /\ ~Reopening'
  BY DEF Idle, PickIsAway, OwesNothing, Opening, Reopening
<1>1. CASE NoRelaunch
  <2>1. /\ disp.pc \in {"refused", "revive", "due"} /\ disp' = [disp EXCEPT !.pc = Following[disp.pc]]
        /\ disp.pc = "due" => modeDue = "none"
    BY <1>1 DEF NoRelaunch, Then, NeedsRelaunch
  <2>2. /\ disp'.pc = Following[disp.pc] /\ disp'.op = disp.op /\ disp'.next = disp.next
    BY <1>d, <2>1 DEF Dispatches
  <2>3. /\ disp.pc \in {"refused", "revive"} => disp'.pc \in {"revive", "due"}
        /\ disp'.pc # "mode" /\ disp'.next # "mode" /\ disp'.op \in {"pick", "turn"}
    BY <2>1, <2>2 DEF Following, DispatchIsWhole
  <2>4. PickIsAway' /\ OwesNothing' /\ ~Opening /\ (modeDue # "none" => Reopening')
    BY <2>1, <2>3 DEF PickIsAway, OwesNothing, Opening, Reopening
  <2>. QED
    BY <1>1, <2>4, ChipMoves DEF NoRelaunch
<1>2. CASE Retire
  <2>1. ~Running'
    BY <1>2 DEF Retire, Running, Attached
  <2>2. disp.pc \in {"refused", "revive", "due"}
    BY <1>2 DEF Retire, NeedsRelaunch
  <2>3. disp'.pc = "spawn" /\ disp'.op = disp.pc /\ disp'.next = disp.next
    BY <1>d, <1>2 DEF Retire, Dispatches
  <2>4. PickIsAway' /\ OwesNothing'
    BY <1>2, <2>2, <2>3 DEF PickIsAway, OwesNothing, Retire, DispatchIsWhole
  <2>. QED
    BY <2>1, <2>4, ChipStopped
<1>3. CASE Spawn
  <2>1. inbox' = <<>> /\ outbox' = <<>> /\ disp.pc = "spawn" /\ modeDue' = modeDue
    BY <1>3 DEF Spawn, AtSpawn, HubInv, PipesAreTheChilds
  <2>2. Asked' = {} /\ Len(outbox') = 0
    BY <2>1 DEF Asked, Asks
  <2>3. PICK own \in OwnModes, list \in Served :
            child' = Fresh(IF LaunchMode = "none" THEN own ELSE LaunchMode, LaunchMode = "readonly", list)
    BY <1>3 DEF Spawn
  <2>4. /\ layer' = IF LaunchMode = "readonly" THEN "launched" ELSE "off"
        /\ disp' = [disp EXCEPT !.pc = "cover", !.mode = "none", !.shown = LaunchMode]
    BY <1>3 DEF Spawn
  <2>5. child'.mode = IF LaunchMode = "none" THEN own ELSE LaunchMode
    BY <2>3 DEF Fresh
  <2>6. disp'.pc = "cover" /\ disp'.op = disp.op /\ disp'.next = disp.next
    BY <1>d, <2>4 DEF Dispatches
  <2>7. LaunchedIsReadOnly'
    BY <2>2, <2>4, <2>5 DEF LaunchedIsReadOnly
  <2>8. PickIsAway' /\ OwesNothing' /\ Opening' /\ Reopening'
    BY <2>1, <2>6 DEF ChipInv, PickIsAway, OwesNothing, Opening, Reopening, DispatchIsWhole
  <2>9. LastLineIsMode'
    BY <2>2 DEF LastLineIsMode, LastMode
  <2>. QED
    BY <2>7, <2>8, <2>9 DEF ChipInv, DueIsLaunched, ChipFollows
<1>4. CASE SpawnFails
  <2>1. ~Running'
    BY <1>4 DEF SpawnFails, AtSpawn, Running, Attached
  <2>. QED
    BY <1>i, <1>4, <2>1, ChipStopped DEF SpawnFails, Return
<1>5. CASE Cover
  <2>1. UNCHANGED <<child, outbox, modeDue, reported, story, layer>> /\ disp.pc = "cover"
    BY <1>5 DEF Cover
  <2>2. \/ disp'.pc = "query" /\ disp'.next = "initialize" /\ disp'.op = disp.op
        \/ disp'.pc = "initialize" /\ disp'.next = "none" /\ disp'.op = disp.op
    BY <1>5, PlaceAfterQuery DEF Cover
  <2>3. PickIsAway' /\ OwesNothing' /\ Opening' /\ Reopening'
    BY <2>1, <2>2 DEF ChipInv, PickIsAway, OwesNothing, Opening, Reopening
  <2>4. SendLayer(TRUE) \/ inbox' = inbox
    BY <1>5 DEF Cover
  <2>. QED
    BY <2>1, <2>3, <2>4, ChipMoves, LayerWritten
<1>6. CASE Initialize
  <2>1. UNCHANGED <<child, outbox, modeDue, reported, story, layer>> /\ disp.pc = "initialize"
    BY <1>6 DEF Initialize
  <2>. DEFINE q == Request("initialize", "none")
  <2>2. q \in Written /\ q.kind = "initialize"
    BY RequestTyped DEF WellTyped, Request, Written
  <2>3. /\ inbox' = inbox \/ inbox' = Append(inbox, q)
        /\ Running => inbox' = Append(inbox, q)
    BY <1>6 DEF Initialize, Deliver, Alive, Running
  <2>. HIDE DEF q
  <2>4. Running => Promised'
    <3>1. Running => q \in Asked'
      BY <2>2, <2>3, AskedMore DEF WellTyped, Asked
    <3>. QED
      BY <2>2, <3>1 DEF Promised
  <2>5. disp.op \in {"open", "refused", "revive", "due"}
    BY <2>1 DEF DispatchIsWhole
  <2>6. PickIsAway' /\ OwesNothing' /\ (modeDue # "none" => Reopening')
    <3>1. CASE disp.op = "open"
      <4>1. disp'.pc = "query" /\ disp'.next = "idle" /\ disp'.op = "none" /\ modeDue = "none"
        BY <1>6, <3>1 DEF Initialize, Idle, ChipInv, OwesNothing
      <4>. QED
        BY <4>1 DEF PickIsAway, OwesNothing
    <3>2. CASE disp.op # "open"
      <4>1. disp'.pc = "query" /\ disp'.next = Following[disp.op] /\ disp'.op = "turn"
        BY <1>d, <1>6, <3>2 DEF Initialize, Dispatches
      <4>2. disp.op = "due" => modeDue = "none"
        BY DEF ChipInv, OwesNothing
      <4>3. Following[disp.op] # "mode" /\ (disp.op # "due" => Following[disp.op] \in {"revive", "due"})
        BY <2>5, <3>2 DEF Following
      <4>. QED
        BY <4>1, <4>2, <4>3 DEF PickIsAway, OwesNothing, Reopening
    <3>. QED
      BY <3>1, <3>2
  <2>7. inbox' = inbox \/ \E x \in Written : x.kind # "mode" /\ inbox' = Append(inbox, x)
    BY <2>2, <2>3
  <2>. QED
    BY <2>1, <2>4, <2>6, <2>7, ChipMoves
<1>7. CASE AwaitMcpLayer \/ AwaitTimesOut
  <2>1. UNCHANGED <<child, inbox, outbox, modeDue, reported, layer>> /\ disp.pc = "await" /\ story \subseteq story'
    BY <1>7 DEF AwaitMcpLayer, AwaitTimesOut
  <2>2. \/ disp' = Idle
        \/ disp'.pc = "send" /\ disp'.next = disp.next /\ disp'.op = disp.op
    BY <1>d, <1>7 DEF AwaitMcpLayer, AwaitTimesOut, Return, Then, Dispatches
  <2>3. PickIsAway' /\ OwesNothing' /\ ~Opening /\ ~Reopening
    BY <1>i, <2>1, <2>2 DEF PickIsAway, OwesNothing, Opening, Reopening, DispatchIsWhole
  <2>. QED
    BY <2>1, <2>3, ChipMoves
<1>8. CASE SendTurn
  <2>1. UNCHANGED <<child, outbox, modeDue, reported, layer, story>> /\ disp.pc = "send" /\ disp' = Idle
    BY <1>8 DEF SendTurn, Return
  <2>. DEFINE q == [id |-> 0, kind |-> "turn", value |-> disp.shown]
  <2>2. q \in Written /\ q.kind # "mode"
    BY DEF WellTyped, Dispatches, Written, TurnLines
  <2>3. inbox' = inbox \/ inbox' = Append(inbox, q)
    BY <1>8 DEF SendTurn
  <2>. HIDE DEF q
  <2>4. ~Opening /\ ~Reopening
    BY <2>1 DEF Opening, Reopening
  <2>. QED
    BY <1>i, <2>1, <2>2, <2>3, <2>4, ChipMoves
<1>. QED
  BY <1>1, <1>2, <1>3, <1>4, <1>5, <1>6, <1>7, <1>8

\* A switch is answered with the mode switched to; what the child refuses is not the mode it is in,
\* but for a refusal that is told.
LEMMA ChipChild ==
  ASSUME WellTyped, HubInv, ChipInv, WellTyped',
         \/ ChildInitializes \/ ChildSwitches \/ ChildTakesLayer \/ ChildRefuses
         \/ ChildNamesItsServers
  PROVE  ChipInv'
<1>. USE DEF process, hub, adapter, ghosts, bounds
<1>1. /\ UNCHANGED <<pending, nextId, layer, modeDue, reported, disp>>
      /\ story \subseteq story'
  BY DEF ChildInitializes, ChildSwitches, ChildTakesLayer, ChildRefuses, ChildNamesItsServers
<1>2. PICK kind, v, m, l :
          /\ kind \in {"initialize", "mode", "layer", "status"}
          /\ Taking(kind) /\ Answer(v, m, l)
          /\ \/ kind = "initialize" /\ m = child.mode /\ child' = child
             \/ kind = "mode" /\ m = child'.mode /\ child' = [child EXCEPT !.mode = Head(inbox).value]
             \/ kind = "layer" /\ m = "none" /\ child' = [child EXCEPT !.layer = Head(inbox).value]
             \/ kind = "status" /\ m = "none" /\ child' = [child EXCEPT !.answered = child.serves]
             \/ /\ kind \in {"mode", "layer"} /\ m = "none" /\ child' = child
                /\ kind = "mode" /\ Head(inbox).value = child.mode => "refusedItsOwn" \in story'
  <2>1. CASE ChildInitializes
    BY <2>1 DEF ChildInitializes
  <2>2. CASE ChildSwitches
    BY <2>2 DEF ChildSwitches
  <2>3. CASE ChildTakesLayer
    BY <2>3 DEF ChildTakesLayer
  <2>4. CASE ChildRefuses
    BY <2>4 DEF ChildRefuses
  <2>5. CASE ChildNamesItsServers
    BY <2>5 DEF ChildNamesItsServers
  <2>. QED
    BY <2>1, <2>2, <2>3, <2>4, <2>5
<1>3. PICK h \in Asked, a \in Answers :
            /\ h = Head(inbox) /\ h.kind = kind
            /\ a.id = h.id /\ a.kind = kind /\ a.verdict = v /\ a.list = l /\ a.mode = m
            /\ Asked' = Asked \ {h} /\ Answered' = Answered \cup {a}
            /\ Attached /\ child.alive
  BY <1>1, <1>2, Taken
<1>4. child \in Children /\ child' \in Children
  <2>1. child \in Children
    BY <1>3 DEF WellTyped, Attached
  <2>2. child' \in Children \cup {NoLine}
    BY DEF WellTyped
  <2>3. child' = child \/ (\E x : child' = [child EXCEPT !.answered = x] \/ child' = [child EXCEPT !.layer = x]
                                   \/ child' = [child EXCEPT !.mode = x])
    BY <1>2
  <2>4. DOMAIN child' = DOMAIN child /\ "alive" \in DOMAIN child /\ DOMAIN NoLine = {"kind"}
    BY <2>1, <2>3 DEF Children, NoLine
  <2>5. child' # NoLine
    BY <2>4
  <2>. QED
    BY <2>1, <2>2, <2>5
<1>5. /\ m # "none" => m = child'.mode
      /\ m = "none" => child'.mode = child.mode
      /\ (kind = "mode" /\ m # "none" => child'.mode = h.value)
      /\ (~(kind = "mode" /\ m # "none") => child'.mode = child.mode)
      /\ m = "none" => /\ kind # "initialize"
                       /\ kind = "mode" /\ h.value = child.mode => "refusedItsOwn" \in story'
  <2>1. child.mode # "none" /\ child'.mode # "none"
    BY <1>4 DEF Children, Modes
  <2>2. CASE kind = "initialize" /\ m = child.mode /\ child' = child
    BY <2>1, <2>2
  <2>3. CASE kind = "mode" /\ m = child'.mode /\ child' = [child EXCEPT !.mode = Head(inbox).value]
    <3>1. child'.mode = h.value
      BY <1>3, <1>4, <2>3 DEF Children
    <3>. QED
      BY <2>1, <2>3, <3>1
  <2>4. CASE \/ kind = "layer" /\ m = "none" /\ child' = [child EXCEPT !.layer = Head(inbox).value]
             \/ kind = "status" /\ m = "none" /\ child' = [child EXCEPT !.answered = child.serves]
    <3>1. child'.mode = child.mode
      BY <1>4, <2>4 DEF Children
    <3>. QED
      BY <2>4, <3>1
  <2>5. CASE /\ kind \in {"mode", "layer"} /\ m = "none" /\ child' = child
             /\ kind = "mode" /\ Head(inbox).value = child.mode => "refusedItsOwn" \in story'
    BY <1>3, <2>5
  <2>. QED
    BY <1>2, <2>2, <2>3, <2>4, <2>5
<1>6. Running
  BY <1>2 DEF Taking
<1>7. LaunchedIsReadOnly'
  BY <1>1, <1>3, <1>5, <1>6 DEF ChipInv, LaunchedIsReadOnly
<1>8. PickIsAway' /\ OwesNothing' /\ DueIsLaunched'
  BY <1>1, <1>6 DEF ChipInv, PickIsAway, OwesNothing, DueIsLaunched, Reopening
<1>9. LastLineIsMode'
  <2>1. outbox \in Seq(Answers) /\ LastMode(outbox, child.mode)
    BY <1>6 DEF WellTyped, ChipInv, LastLineIsMode
  <2>2. outbox' = Append(outbox, a)
    <3>1. outbox' = Append(outbox, [kind |-> h.kind, id |-> h.id, verdict |-> v, mode |-> m, list |-> l])
      BY <1>2, <1>3 DEF Answer
    <3>2. a = [kind |-> h.kind, id |-> h.id, verdict |-> v, mode |-> m, list |-> l]
      BY <1>3 DEF Answers
    <3>. QED
      BY <3>1, <3>2
  <2>3. IF a.mode = "none" THEN child'.mode = child.mode ELSE child'.mode = a.mode
    BY <1>3, <1>5
  <2>. QED
    BY <2>1, <2>2, <2>3, LastModeAppended DEF LastLineIsMode
<1>10. ChipFollows'
  <2>. SUFFICES ASSUME modeDue = "none", story' \cap {"refusedItsOwn", "stray"} = {},
                       \A b \in Answered' : b.mode = "none"
                PROVE  reported = child'.mode \/ Opening \/ Promised'
    BY <1>1 DEF ChipFollows, Opening
  <2>1. m = "none" /\ \A b \in Answered : b.mode = "none"
    BY <1>3
  <2>2. reported = child.mode \/ Opening \/ Promised
    BY <1>1, <1>6, <2>1 DEF ChipInv, ChipFollows
  <2>3. ASSUME Promised PROVE Promised'
    <3>1. PICK q \in Asked : q.kind = "initialize" \/ (q.kind = "mode" /\ q.value = child.mode)
      BY <2>3 DEF Promised
    <3>2. q # h
      BY <1>3, <1>5, <2>1, <3>1
    <3>. QED
      BY <1>3, <1>5, <2>1, <3>1, <3>2 DEF Promised
  <2>. QED
    BY <1>5, <2>1, <2>2, <2>3
<1>. QED
  BY <1>7, <1>8, <1>9, <1>10 DEF ChipInv

\* A turn, a change of servers, an end, a retired line.
LEMMA ChipOthers ==
  ASSUME WellTyped, HubInv, ChipInv, WellTyped',
         ChildRuns \/ ServersChange \/ ChildDies \/ Settle \/ PumpEnds \/ FoldLate
  PROVE  ChipInv'
<1>. USE DEF process, hub, adapter, ghosts, bounds
<1>1. UNCHANGED <<outbox, layer, modeDue, disp>>
  BY DEF ChildRuns, ServersChange, ChildDies, Settle, PumpEnds, FoldLate
<1>2. /\ PickIsAway' /\ OwesNothing' /\ Answered' = Answered
      /\ Opening' = Opening /\ Reopening' = Reopening
  BY <1>1 DEF ChipInv, PickIsAway, OwesNothing, Answered, Opening, Reopening
<1>3. CASE ChildDies \/ PumpEnds
  <2>1. ~Running'
    <3>1. CASE ChildDies
      <4>1. child \in Children /\ child' = [child EXCEPT !.alive = FALSE]
        BY <3>1 DEF ChildDies, Running, Attached, WellTyped
      <4>. QED
        BY <4>1 DEF Children, Running
    <3>2. CASE PumpEnds
      BY <3>2 DEF PumpEnds, Running
    <3>. QED
      BY <1>3, <3>1, <3>2
  <2>. QED
    BY <1>2, <2>1, ChipStopped
<1>4. CASE ChildRuns \/ ServersChange
  <2>1. Running /\ UNCHANGED <<reported, story>>
    BY <1>4 DEF ChildRuns, ServersChange, Taking
  <2>2. child \in Children
    BY <2>1 DEF Running, Attached, WellTyped
  <2>3. child'.mode = child.mode /\ Asked' = Asked
    <3>1. CASE ChildRuns
      BY <3>1, AskTaken DEF ChildRuns, Taking, Asked, WellTyped, HubInv, IdsAreOnce
    <3>2. CASE ServersChange
      <4>1. inbox' = inbox /\ \E list : child' = [child EXCEPT !.serves = list]
        BY <3>2 DEF ServersChange
      <4>. QED
        BY <2>2, <4>1 DEF Children, Asked
    <3>. QED
      BY <1>4, <3>1, <3>2
  <2>. QED
    BY <1>1, <1>2, <2>1, <2>3 DEF ChipInv, LaunchedIsReadOnly, DueIsLaunched, LastLineIsMode, ChipFollows,
       Promised
<1>5. ASSUME NEW list \in Lists0, RefreshMcpDenies(list), UNCHANGED <<child, reported>>, story \subseteq story'
      PROVE  ChipInv'
  <2>1. inbox' = inbox \/ \E q \in Written : q.kind # "mode" /\ inbox' = Append(inbox, q)
    BY <1>5, RefreshWritten
  <2>2. Opening => Opening'
    BY <1>2
  <2>. QED
    BY <1>1, <1>2, <1>5, <2>1, <2>2, ChipMoves
<1>6. CASE Settle
  <2>1. settling \in Lists0
    BY <1>6 DEF Settle, WellTyped, OrNone
  <2>. QED
    BY <1>5, <1>6, <2>1 DEF Settle
<1>7. CASE FoldLate
  <2>1. UNCHANGED <<child, Running>> /\ story \subseteq story' /\ late # NoLine
    BY <1>7 DEF FoldLate, Running, Attached
  <2>2. CASE late.kind = "list"
    <3>1. late.list \in Lists0
      BY <2>1, <2>2 DEF WellTyped, Answers, ListLines, EndLine
    <3>. QED
      BY <1>5, <1>7, <2>1, <2>2, <3>1 DEF FoldLate
  <2>3. CASE late.kind # "list"
    <3>1. inbox' = inbox /\ (reported' = reported \/ "stray" \in story')
      BY <1>7, <2>3 DEF FoldLate
    <3>2. Asked' = Asked
      BY <3>1 DEF Asked
    <3>. QED
      BY <1>1, <1>2, <2>1, <3>1, <3>2 DEF ChipInv, LaunchedIsReadOnly, DueIsLaunched, LastLineIsMode,
         ChipFollows, Promised
  <2>. QED
    BY <2>2, <2>3
<1>. QED
  BY <1>3, <1>4, <1>6, <1>7

(* A line that names a mode is what the chip shows.                          *)
LEMMA ChipIngest ==
  ASSUME WellTyped, HubInv, ChipInv, Ingest
  PROVE  ChipInv'
<1>. USE DEF process, hub, adapter, ghosts, bounds
<1>. DEFINE line == Head(outbox)
<1>1. /\ UNCHANGED <<child, inbox, layer, modeDue, disp, story>> /\ outbox # <<>> /\ outbox' = Tail(outbox)
      /\ reported' = IF line.mode # "none" THEN line.mode ELSE reported
  BY DEF Ingest
<1>2. /\ PickIsAway' /\ OwesNothing' /\ Running' = Running
      /\ Opening' = Opening /\ Reopening' = Reopening
  BY <1>1 DEF ChipInv, PickIsAway, OwesNothing, Opening, Reopening, Running, Attached
<1>3. line \in Answered /\ Answered' = Answered \ {line} /\ line \in Answers
  BY <1>1, Folded, HubTypes
<1>4. Asked' = Asked
  BY <1>1 DEF Asked
<1>5. Promised => Promised'
  BY <1>1, <1>4 DEF Promised
<1>6. LaunchedIsReadOnly' /\ DueIsLaunched'
  BY <1>1, <1>2, <1>4 DEF ChipInv, LaunchedIsReadOnly, DueIsLaunched
<1>7. ASSUME Running
      PROVE  /\ LastMode(outbox', child.mode)
             /\ line.mode # "none" /\ (\A b \in Answered' : b.mode = "none") => line.mode = child.mode
  <2>1. LastMode(outbox, child.mode) /\ outbox \in Seq(Answers)
    BY <1>7 DEF ChipInv, LastLineIsMode, WellTyped
  <2>. QED
    BY <1>1, <2>1, LastModeBeheaded DEF Answered
<1>8. LastLineIsMode'
  BY <1>1, <1>2, <1>7 DEF LastLineIsMode
<1>9. ChipFollows'
  <2>. SUFFICES ASSUME Running, modeDue = "none", story \cap {"refusedItsOwn", "stray"} = {},
                       \A b \in Answered' : b.mode = "none"
                PROVE  reported' = child.mode \/ Opening \/ Promised'
    BY <1>1, <1>2 DEF ChipFollows
  <2>1. CASE line.mode # "none"
    BY <1>1, <1>7, <2>1
  <2>2. CASE line.mode = "none"
    <3>1. \A b \in Answered : b.mode = "none"
      BY <1>3, <2>2
    <3>2. reported = child.mode \/ Opening \/ Promised
      BY <3>1 DEF ChipInv, ChipFollows
    <3>. QED
      BY <1>1, <1>5, <2>2, <3>2
  <2>. QED
    BY <2>1, <2>2
<1>. QED
  BY <1>2, <1>6, <1>8, <1>9 DEF ChipInv

LEMMA ChipKept ==
  ASSUME WellTyped, DispatchIsWhole, AtSpawn, HubInv, ChipInv, [Next]_vars
  PROVE  ChipInv'
<1>t. WellTyped'
  BY TypesKept
<1>1. CASE UNCHANGED vars
  <2>1. UNCHANGED <<Running, Asked, Answered>>
    BY <1>1 DEF vars, process, Running, Attached, Asked, Answered
  <2>. QED
    BY <1>1, <2>1 DEF vars, process, adapter, ghosts, ChipInv, LaunchedIsReadOnly, PickIsAway, DueIsLaunched,
       OwesNothing, LastLineIsMode, ChipFollows, Promised, Opening, Reopening
<1>2. CASE Next
  <2>1. Done => UNCHANGED vars
    BY DEF Done
  <2>. QED
    BY <1>1, <1>2, <1>t, <2>1, ChipDispatch, ChipRelaunch, ChipChild, ChipOthers, ChipIngest DEF Next
<1>. QED
  BY <1>1, <1>2

-----------------------------------------------------------------------------
(* The invariant, and what the runs check.                                   *)
Inv ==
    WellTyped /\ DispatchIsWhole /\ AtSpawn /\ HubInv /\ CoverInv /\ ChipInv

\* A session being opened.
LEMMA InitInv == Init => Inv
<1>. SUFFICES ASSUME Init PROVE Inv
  OBVIOUS
<1>1. PICK m \in Modes \cup {"none"} : disp = [Idle EXCEPT !.pc = "spawn", !.op = "open", !.mode = m]
  BY DEF Init
<1>2. disp.pc = "spawn" /\ disp.op = "open" /\ disp.mode = m /\ disp.shown = "none" /\ disp.next = "none"
  BY <1>1 DEF Idle
<1>3. disp \in Dispatches
  BY <1>1 DEF Idle, Dispatches, Points, OrNone
<1>4. ~Attached /\ ~Running /\ inbox = <<>> /\ outbox = <<>> /\ pending = {} /\ nextId = 1 /\ mcp = NoLayer
  BY DEF Init, Attached, Running
<1>5. Asked = {} /\ Answered = {} /\ LayersAsked = {} /\ InOrder(inbox) /\ Apart(outbox)
  BY <1>4 DEF Asked, Answered, LayersAsked, Asks, Of, InOrder, Apart
<1>6. mcp \in McpLayers /\ mcp.flying = 0 /\ mcp.denies = "none" /\ mcp.confirmed = "none"
  BY <1>4 DEF NoLayer, McpLayers, OrNone, Values
<1>7. WellTyped
  <2>1. inbox \in Seq(Written) /\ outbox \in Seq(Answers)
    BY <1>4
  <2>2. /\ ownerMcp \in BOOLEAN /\ lost \in BOOLEAN /\ relaunchDue \in BOOLEAN /\ uncovered \in BOOLEAN
        /\ child \in Children \cup {NoLine} /\ late \in Answers \cup ListLines \cup {NoLine, EndLine}
        /\ settling \in OrNone(Lists0)
    BY DEF Init, OrNone
  <2>3. /\ modeDue \in OrNone(Modes) /\ reported \in OrNone(Modes) /\ requested \in OrNone(Modes)
        /\ layer \in {"off", "live", "launched"} /\ story \subseteq Stories
    BY DEF Init, OrNone
  <2>4. pending \subseteq Requests /\ nextId \in Nat \ {0}
    BY <1>4
  <2>. QED
    BY <1>3, <1>6, <2>1, <2>2, <2>3, <2>4 DEF WellTyped
<1>8. DispatchIsWhole /\ AtSpawn
  BY <1>2, <1>4 DEF DispatchIsWhole, AtSpawn, Init
<1>9. HubInv
  BY <1>4, <1>5, <1>6 DEF HubInv, IdsAreOnce, IdsOnce, PipesAreTheChilds, FlyingIsTracked, FlyingIsLast,
     RefusalsAreTold, ConfirmedHolds, QueriesAreTracked, AnswersAreKnown, Clean
<1>10. CoverInv
  BY <1>4 DEF Init, CoverInv, LayerIsOn, ShownHasLayer, LayerComes, ReadyToSend, Sending, TurnsAreCovered
<1>11. ChipInv
  BY <1>2, <1>4 DEF Init, ChipInv, LaunchedIsReadOnly, PickIsAway, DueIsLaunched, OwesNothing,
     LastLineIsMode, ChipFollows
<1>. QED
  BY <1>7, <1>8, <1>9, <1>10, <1>11 DEF Inv

\* Every step.
LEMMA NextInv == Inv /\ [Next]_vars => Inv'
BY TypesKept, PlaceKept, SpawnKept, HubKept, CoverKept, ChipKept DEF Inv

\* The invariant holds in every behaviour of ReadOnlyLayer.
THEOREM Invariance == Spec => []Inv
BY InitInv, NextInv, PTL DEF Spec

\* What the runs check, from the invariant.
LEMMA InvTypes == Inv => TypeOK
<1>. SUFFICES ASSUME Inv PROVE TypeOK
  OBVIOUS
<1>1. WellTyped /\ IdsAreOnce /\ FlyingIsTracked
  BY DEF Inv, HubInv
<1>2. nextId \in Nat \ {0} /\ mcp \in McpLayers /\ mcp.flying \in Nat /\ mcp.flying < nextId
  BY <1>1 DEF WellTyped, McpLayers, IdsAreOnce
<1>3. mcp.flying \in Ids
  BY <1>2 DEF Ids
<1>4. mcp \in [on : BOOLEAN, known : OrNone(Lists \cup {"base"}), flying : Ids,
               denies : OrNone(Denies \cup {"base"}), confirmed : OrNone(Denies \cup {"base"})]
  BY <1>2, <1>3 DEF McpLayers, Lists0, Values
<1>5. pending \subseteq [id : Ids \ {0}, kind : {"initialize", "layer", "mode", "status"},
                         value : OrNone(Denies \cup Modes \cup {"base"})]
  <2>. SUFFICES ASSUME NEW p \in pending
                PROVE  p \in [id : Ids \ {0}, kind : {"initialize", "layer", "mode", "status"},
                              value : OrNone(Denies \cup Modes \cup {"base"})]
    OBVIOUS
  <2>1. p \in Requests /\ p.id < nextId
    BY <1>1 DEF WellTyped, IdsAreOnce, IdsOnce
  <2>2. p.id \in Nat \ {0}
    BY <2>1, HubTypes, <1>1
  <2>3. p.id \in Ids \ {0}
    BY <1>2, <2>1, <2>2 DEF Ids
  <2>. QED
    BY <2>1, <2>3 DEF Requests, OrNone, Values
<1>6. child = NoLine \/ (child.mode \in Modes /\ child.layer \in OrNone(Denies \cup {"base"}))
  BY <1>1 DEF WellTyped, Children, Values
<1>. QED
  BY <1>1, <1>4, <1>5, <1>6 DEF WellTyped, TypeOK, FlyingIsTracked, Lists0

(* Types, for any lists of denies and any number of picks, turns and faults. *)
THEOREM TypeCorrect == Spec => []TypeOK
BY Invariance, InvTypes, PTL

LEMMA InvHeld == Inv => ConfirmedIsHeld
<1>. SUFFICES ASSUME Inv PROVE ConfirmedIsHeld
  OBVIOUS
<1>. QED
  BY DEF Inv, HubInv, ConfirmedHolds, Held, ConfirmedIsHeld

(* What the hub believes confirmed, the child holds (confirm_outcome).       *)
THEOREM ConfirmedIsHeldAlways == Spec => []ConfirmedIsHeld
BY Invariance, InvHeld, PTL

LEMMA InvCovered == Inv => TurnsUnderTheShownLayer
BY DEF Inv, CoverInv, TurnsUnderTheShownLayer

(* No turn sent while the chip read Read-only runs without its deny layer,   *)
(* but in the runs TurnsUnderTheShownLayer names: a layer or a query refused *)
(* or unanswered, a hold timed out or ended before an answer was acted on,   *)
(* the end or an answer of a replaced child taken in.                        *)
THEOREM TurnsUnderTheShownLayerAlways == Spec => []TurnsUnderTheShownLayer
BY Invariance, InvCovered, PTL

LEMMA InvChip == Inv => ChipIsTheChildsMode
<1>. SUFFICES ASSUME Inv, Quiet, modeDue = "none", story \cap {"refusedItsOwn", "stray"} = {}
              PROVE  reported = child.mode
  BY DEF ChipIsTheChildsMode
<1>1. Running /\ Asked = {} /\ Answered = {} /\ disp.pc = "idle"
  BY DEF Quiet, Asked, Answered, Asks, Of
<1>. QED
  BY <1>1 DEF Inv, ChipInv, ChipFollows, Opening, Promised

(* Once every line is folded the chip shows the child's mode, but in the     *)
(* runs ChipIsTheChildsMode names: the child refused the mode it was in, or  *)
(* a line of a replaced child that names a mode was folded.                  *)
THEOREM ChipIsTheChildsModeAlways == Spec => []ChipIsTheChildsMode
BY Invariance, InvChip, PTL

=============================================================================
