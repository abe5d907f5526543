------------------------------ MODULE Routing ------------------------------
(***************************************************************************)
(* MAVLink routing, MAVLink_routing.cpp: the table of routes learned from  *)
(* every message received, which links a message is forwarded to, whether  *)
(* it is processed here, how heartbeats are spread, and where messages to  *)
(* our own components go.  The vehicle type kept with a route is left out. *)
(***************************************************************************)
EXTENDS Integers, Sequences, FiniteSets

CONSTANTS RouteLinks,
          PrivateLinks,  \* set_channel_private()
          NoRouteLinks,  \* disable_channel_routing()
          Nodes,         \* the senders on the links, [sys, comp]
          GcsSystems,    \* sysid_is_gcs()
          Enforce,       \* option GCS_SYSID_ENFORCE
          MaxRoutes,     \* MAVLINK_MAX_ROUTES
          MaxSeen        \* bound: senders seen, counted once per link

VARIABLES routes,  \* the table, in the order learned
          active,  \* mavlink_active
          gopro,   \* gopro_status_check
          seen     \* history: <<link, sys, comp>> of the messages received

routingVars == <<routes, active, gopro, seen>>

Own == [sys |-> 1, comp |-> 1]   \* mavlink_system
None == -1                       \* the message has no such field

ASSUME RoutingAssumption ==
    /\ PrivateLinks \subseteq RouteLinks /\ NoRouteLinks \subseteq RouteLinks
    /\ MaxRoutes \in Nat \ {0} /\ Enforce \in BOOLEAN
    /\ Nodes \subseteq [sys : 1..255, comp : 0..255] /\ GcsSystems \subseteq 2..255

Systems == {n.sys : n \in Nodes} \cup {0, Own.sys, None}
Components == {n.comp : n \in Nodes} \cup {0, Own.comp, None}

\* The kinds of message the routing tells apart; adsb stands for
\* ADSB_VEHICLE while the ADSB library is enabled.
LocalKinds == {"radio", "heartbeat", "adsb"}
Messages ==
    [kind : LocalKinds \cup {"gopro"}, src : Nodes, sys : {None}, comp : {None}]
    \cup {m \in [kind : {"data"}, src : Nodes, sys : Systems, comp : Components] :
            m.sys = None => m.comp = None}

Untargeted == {m \in Messages : m.sys = None}

RoutingInit ==
    /\ routes = <<>> /\ active = {} /\ gopro = FALSE /\ seen = {}

Table(rs) == {rs[i] : i \in 1..Len(rs)}

----------------------------------------------------------------------------
(* learn_route()                                                           *)
LearnedPastEnd(in, m) ==
    LET r == [sys |-> m.src.sys, comp |-> m.src.comp, link |-> in] IN
    IF m.src = Own \/ (m.src.sys = Own.sys /\ m.src.comp = 0) \/ r \in Table(routes)
    THEN routes ELSE Append(routes, r)

Learned(in, m) ==
    LET r == [sys |-> m.src.sys, comp |-> m.src.comp, link |-> in] IN
    IF \/ m.src = Own \/ (m.src.sys = Own.sys /\ m.src.comp = 0)
       \/ r \in Table(routes) \/ Len(routes) = MaxRoutes
    THEN routes ELSE Append(routes, r)

\* A message's targets, as check_and_forward() reads them.
AllSystems(m) == m.sys \in {0, None}
AllComponents(m) == m.comp \in {0, None}
MatchSystem(m) == AllSystems(m) \/ m.sys = Own.sys
MatchComponent(m) == MatchSystem(m) /\ (AllComponents(m) \/ m.comp = Own.comp)

\* Route r leads to a target of m.
MatchesExactly(r, m) ==
    \/ AllSystems(m)
    \/ m.sys = r.sys /\ (AllComponents(m) \/ m.comp = r.comp)

Matches(r, m) ==
    \/ AllSystems(m)
    \/ m.sys = r.sys /\ (AllComponents(m) \/ m.comp = r.comp \/ ~MatchSystem(m))

ForwardedTo(in, m, rs) ==
    {r.link : r \in {q \in Table(rs) :
        /\ q.link # in
        /\ q.link \in PrivateLinks => (m.sys = q.sys /\ m.comp = q.comp)
        /\ Matches(q, m)}}

\* handle_heartbeat(): the links a heartbeat goes on to.
HeartbeatToAll(in, m, rs, act) ==
    (act \ (PrivateLinks \cup NoRouteLinks))
    \ {r.link : r \in {q \in Table(rs) : q.sys = m.src.sys /\ q.comp = m.src.comp}}

HeartbeatTo(in, m, rs, act) ==
    (act \ (PrivateLinks \cup NoRouteLinks \cup {in}))
    \ {r.link : r \in {q \in Table(rs) : q.sys = m.src.sys /\ q.comp = m.src.comp}}

\* send_to_components(): one message to each link, of those with room, that
\* leads to a component of our system.
SendToComponents(rs, room) ==
    {r.link : r \in {q \in Table(rs) : q.sys = Own.sys /\ q.link \in room}}

\* check_and_forward(), after the route is learned: where m goes, and
\* whether it is processed here.
CheckAndForward(in, m, rs, act, cam) ==
    IF m.kind \in {"radio", "adsb"} THEN [to |-> {}, local |-> TRUE]
    ELSE IF m.kind = "heartbeat"
    THEN [to |-> IF in \in PrivateLinks THEN {} ELSE HeartbeatTo(in, m, rs, act),
          local |-> TRUE]
    ELSE IF in \in PrivateLinks /\ ~cam THEN [to |-> {}, local |-> MatchComponent(m)]
    ELSE IF MatchComponent(m) /\ ~AllSystems(m) /\ ~AllComponents(m)
    THEN [to |-> {}, local |-> TRUE]
    ELSE LET to == ForwardedTo(in, m, rs) IN
         [to |-> to,
          local |-> MatchComponent(m) \/ (to = {} /\ MatchSystem(m)) \/ AllSystems(m)]

\* accept_packet()
Accepted(m) == m.src.sys \in GcsSystems \cup {Own.sys} \/ m.kind = "radio" \/ ~Enforce

\* What packetReceived() does with m: our own messages, looped back, are
\* dropped; the others are routed by the table they have just been added to,
\* and handled if they are for us and acceptable.
Route(in, m) ==
    IF m.src = Own THEN [to |-> {}, local |-> FALSE, handled |-> FALSE]
    ELSE LET r == CheckAndForward(in, m, Learned(in, m),
                                  IF m.kind = "radio" THEN active ELSE active \cup {in},
                                  gopro \/ m.kind = "gopro")
         IN [to |-> r.to, local |-> r.local, handled |-> r.local /\ Accepted(m)]

PacketReceived(in, m) ==
    LET here == <<in, m.src.sys, m.src.comp>> IN
    /\ m.src = Own \/ Cardinality(seen \cup {here}) <= MaxSeen
    /\ active' = IF m.kind = "radio" THEN active ELSE active \cup {in}
    /\ gopro' = (gopro \/ m.kind = "gopro")
    /\ routes' = Learned(in, m)
    /\ seen' = IF m.src = Own THEN seen ELSE seen \cup {here}

\* (What is kept of a message does not depend on its targets.)
RoutingNext == \E in \in RouteLinks, m \in Untargeted : PacketReceived(in, m)

RoutingSpec == RoutingInit /\ [][RoutingNext]_routingVars

----------------------------------------------------------------------------
RoutingTypeOK ==
    /\ Len(routes) <= MaxRoutes
    /\ Table(routes) \subseteq [sys : 1..255, comp : 0..255, link : RouteLinks]
    /\ active \subseteq RouteLinks /\ gopro \in BOOLEAN

\* A sender that calls itself all components of our system is no one: there
\* is no route to it (learn_route()).
Known == {s \in seen : s[2] # Own.sys \/ s[3] # 0}

\* The table holds all there is to learn: it never was too small.
AllLearned == \A s \in Known : \E r \in Table(routes) : <<r.link, r.sys, r.comp>> = s

(* The rules of "Theory of MAVLink routing", MAVLink_routing.cpp:45, of    *)
(* what has been seen on the links and not of a table.                     *)
SeenOn(l, sys, comp) == \E s \in Known : /\ s[1] = l /\ s[2] = sys
                                         /\ comp = None \/ s[3] = comp

ShouldForward(l, m) ==
    \/ m.sys = None                                        \* 2a
    \/ m.sys = 0                                           \* 2b
    \/ m.sys # Own.sys /\ SeenOn(l, m.sys, None)           \* 2c
    \/ m.sys = Own.sys /\ m.comp # None /\ SeenOn(l, m.sys, m.comp)   \* 2d

ShouldProcess(m) ==
    \/ m.sys = None                                        \* 1a
    \/ m.sys = 0                                           \* 1b
    \/ m.sys = Own.sys /\ m.comp = None                    \* 1c
    \/ m.sys = Own.sys /\ m.comp = Own.comp                \* 1d
    \/ m.sys = Own.sys /\ \A l \in RouteLinks : ~SeenOn(l, m.sys, m.comp)  \* 1e

(* Where the code goes beyond the theory: a message for all components of  *)
(* our system goes to those seen, and is processed; one whose target is    *)
(* known on the link it came from only is processed here too.              *)
BeyondForward(l, m) == m.sys = Own.sys /\ m.comp \in {0, None} /\ SeenOn(l, Own.sys, None)

BeyondProcess(in, m) ==
    /\ m.sys = Own.sys
    /\ m.comp = 0 \/ \A l \in RouteLinks \ {in} : ~SeenOn(l, m.sys, m.comp)

(* Whatever has been received so far, a message that comes now on a link   *)
(* that is not private goes to exactly the other links, of those where     *)
(* someone has been heard, and is processed here exactly when, the theory  *)
(* says so (the code decides in one pass over its table, in the order it   *)
(* learned the routes), and one of ours to our components to the links they *)
(* are on, while the table has room for all senders.                       *)
RoutedByTheory ==
    (seen # {} /\ AllLearned) =>
    /\ \A in \in RouteLinks \ PrivateLinks, m \in Messages :
        (m.kind = "data" /\ <<in, m.src.sys, m.src.comp>> \in seen) =>
        LET r == Route(in, m) IN
        /\ \A l \in RouteLinks \ (PrivateLinks \cup {in}) :
             (l \in r.to) <=>
                /\ \E s \in Known : s[1] = l
                /\ ShouldForward(l, m) \/ BeyondForward(l, m)
        /\ r.local <=> (ShouldProcess(m) \/ BeyondProcess(in, m))
        /\ r.handled => r.local /\ (Enforce => m.src.sys \in GcsSystems \cup {Own.sys})
    /\ \A room \in SUBSET RouteLinks :
        SendToComponents(routes, room) =
            {l \in room : SeenOn(l, Own.sys, None)}

(* Nothing goes back to the link it came from, even when the table is full *)
(* and the sender unknown, and a heartbeat goes to no link its sender is   *)
(* known on: in a net with a loop it would travel for ever                 *)
(* (handle_heartbeat()).                                                   *)
HeartbeatsDontEcho ==
    seen # {} =>
    \A in \in RouteLinks, m \in Messages :
        LET to == Route(in, m).to IN
        /\ in \notin to
        /\ (m.kind = "heartbeat" /\ AllLearned) =>
              \A l \in to : ~SeenOn(l, m.src.sys, m.src.comp)
=============================================================================
