--------------------------- MODULE ServicesProofs ---------------------------
(***************************************************************************)
(* The smaller services of a link for any links, nodes, messages and       *)
(* tables: serial pass-through, routing, the long public key, texts, tasks *)
(* and streamed messages; and the eight of MC_Services together.           *)
(***************************************************************************)
EXTENDS MC_Services, FtpProofs, ParamQueueProofs

(* While it is on, a port runs at another rate only if that rate is noted, *)
(* so turning it off finds every port it has to restore.                   *)
PassInv ==
    /\ PassTypeOK
    /\ followBaud \in [Ports -> BOOLEAN] /\ followParity \in [Ports -> BOOLEAN]
    /\ host \in [baud : BOOLEAN, parity : BOOLEAN]
    /\ \A p \in Ports : baud[p] => followBaud[p] /\ enabled
    /\ locked => enabled

----------------------------------------------------------------------------
LEMMA PassInvInit == PassInit => PassInv
<1>1. Normal \in [Ports -> BOOLEAN] /\ \A p \in Ports : ~Normal[p]
  BY DEF Normal
<1> SUFFICES ASSUME PassInit PROVE PassInv
  OBVIOUS
<1>2. PassTypeOK /\ host \in [baud : BOOLEAN, parity : BOOLEAN]
  BY <1>1 DEF PassInit, PassTypeOK
<1>3. /\ followBaud = Normal /\ followParity = Normal /\ locked = FALSE
      /\ \A p \in Ports : ~baud[p]
  BY <1>1 DEF PassInit
<1> QED
  BY <1>1, <1>2, <1>3 DEF PassInv

LEMMA RestoredInv ==
  ASSUME PassInv, Restored, wanted' \in BOOLEAN
  PROVE  PassInv'
<1>1. /\ enabled' = FALSE /\ locked' = FALSE
      /\ baud' = [p \in Ports |-> IF followBaud[p] THEN FALSE ELSE baud[p]]
      /\ parity' = followParity
      /\ UNCHANGED <<starting, followBaud, followParity, host>>
  BY DEF Restored
<1>2. baud' \in [Ports -> BOOLEAN] /\ \A p \in Ports : ~baud'[p]
  BY <1>1 DEF PassInv, PassTypeOK
<1> QED
  BY <1>1, <1>2 DEF PassInv, PassTypeOK

LEMMA TimerInv ==
  ASSUME PassInv, NEW data \in BOOLEAN, PassthruTimer(data)
  PROVE  PassInv'
<1>1. /\ enabled /\ starting' = Off /\ locked' = TRUE
      /\ UNCHANGED <<wanted, enabled, host>>
      /\ host.baud \in BOOLEAN /\ host.parity \in BOOLEAN
  BY DEF PassthruTimer, TimerRuns, PassInv
<1>2. /\ followBaud' \in [Ports -> BOOLEAN] /\ followParity' \in [Ports -> BOOLEAN]
      /\ \A p \in Ports : followBaud'[p] = IF p \in Followers THEN host.baud ELSE followBaud[p]
  BY <1>1 DEF PassthruTimer, PassInv
<1>3. /\ baud' \in [Ports -> BOOLEAN] /\ parity' \in [Ports -> BOOLEAN]
      /\ \A p \in Ports : baud'[p] = IF p \in Followers \/ starting = "begin"
                                     THEN followBaud'[p] ELSE baud[p]
  BY <1>1, <1>2 DEF PassthruTimer, PassInv, PassTypeOK
<1>4. \A p \in Ports : baud'[p] => followBaud'[p]
  BY <1>2, <1>3 DEF PassInv
<1> QED
  BY <1>1, <1>2, <1>3, <1>4 DEF PassInv, PassTypeOK

LEMMA PassInvStep ==
  ASSUME PassInv, [PassNext]_passVars
  PROVE  PassInv'
<1>1. ASSUME NEW on \in BOOLEAN, Configure(on)
      PROVE  PassInv'
  BY <1>1 DEF Configure, PassInv, PassTypeOK
<1>2. ASSUME NEW b \in BOOLEAN, NEW p \in BOOLEAN, HostSets(b, p)
      PROVE  PassInv'
  BY <1>2 DEF HostSets, PassInv, PassTypeOK
<1>3. CASE EnablePassthru
  BY <1>3 DEF EnablePassthru, PassInv, PassTypeOK, Normal
<1>4. CASE DisablePassthru
  BY <1>4, RestoredInv DEF DisablePassthru, PassInv, PassTypeOK
<1>5. CASE TimeoutPassthru
  BY <1>5, RestoredInv DEF TimeoutPassthru
<1>6. ASSUME NEW data \in BOOLEAN, PassthruTimer(data)
      PROVE  PassInv'
  BY <1>6, TimerInv
<1>7. CASE PassTick
  BY <1>7 DEF PassTick, PassInv, PassTypeOK
<1>8. CASE UNCHANGED passVars
  BY <1>8 DEF passVars, PassInv, PassTypeOK
<1> QED
  BY <1>1, <1>2, <1>3, <1>4, <1>5, <1>6, <1>7, <1>8 DEF PassNext

LEMMA PassInvariant == PassSpec => []PassInv
<1>1. PassInv /\ [PassNext]_passVars => PassInv'
  BY PassInvStep
<1> QED BY <1>1, PassInvInit, PTL DEF PassSpec

(* However often it is configured, times out and starts again, a port that *)
(* pass-through has left is unlocked and at its own rate.                  *)
THEOREM PortsAreReleased == PassSpec => []PortsReleased
<1>1. PassInv => PortsReleased
  <2> SUFFICES ASSUME PassInv, ~enabled PROVE ~locked /\ baud = Normal
    BY DEF PortsReleased
  <2> QED
    BY DEF PassInv, PassTypeOK, Normal
<1> QED
  BY PassInvariant, <1>1, PTL

----------------------------------------------------------------------------
(* Routing.  What is seen is named by nodes other than ourselves, and      *)
(* every route is to someone seen on its link.                             *)
RouteRecords == [sys : 1..255, comp : 0..255, link : RouteLinks]
Sightings == {<<l, n.sys, n.comp>> : l \in RouteLinks, n \in Nodes \ {Own}}

RoutingInv ==
    /\ routes \in Seq(RouteRecords) /\ Len(routes) <= MaxRoutes
    /\ active \in SUBSET RouteLinks /\ gopro \in BOOLEAN
    /\ seen \in SUBSET Sightings
    /\ \A r \in Table(routes) : <<r.link, r.sys, r.comp>> \in Known

LEMMA TableIn ==
  ASSUME NEW T, NEW rs \in Seq(T)
  PROVE  Table(rs) \subseteq T
BY DEF Table

LEMMA TableAppend ==
  ASSUME NEW T, NEW rs \in Seq(T), NEW r \in T
  PROVE  Table(Append(rs, r)) = Table(rs) \cup {r}
<1> DEFINE n == Len(rs)
           a == Append(rs, r)
<1>1. /\ n \in Nat /\ a \in Seq(T) /\ Len(a) = n + 1 /\ a[n + 1] = r
      /\ \A i \in 1..n : a[i] = rs[i]
  OBVIOUS
<1>2. 1..Len(a) = (1..n) \cup {n + 1}
  BY <1>1
<1> HIDE DEF a, n
<1>3. Table(a) = {a[i] : i \in 1..n} \cup {a[n + 1]}
  BY <1>2 DEF Table
<1>4. {a[i] : i \in 1..n} = {rs[i] : i \in 1..n}
  BY <1>1
<1> QED BY <1>1, <1>3, <1>4 DEF Table, n, a

LEMMA RoutingInvNext ==
  ASSUME RoutingInv, [RoutingNext]_routingVars
  PROVE  RoutingInv'
<1>1. ASSUME NEW in \in RouteLinks, NEW m \in Untargeted, PacketReceived(in, m)
      PROVE  RoutingInv'
  <2> DEFINE r == [sys |-> m.src.sys, comp |-> m.src.comp, link |-> in]
             here == <<in, m.src.sys, m.src.comp>>
  <2>1. m.src \in Nodes /\ m.src \in [sys : 1..255, comp : 0..255]
    BY RoutingAssumption DEF Untargeted, Messages
  <2>2. r \in RouteRecords
    BY <2>1 DEF RouteRecords
  <2>3. /\ active' \in SUBSET RouteLinks /\ gopro' \in BOOLEAN
    BY <1>1 DEF PacketReceived, RoutingInv
  <2>4. seen' \in SUBSET Sightings /\ seen \subseteq seen'
    BY <1>1, <2>1 DEF PacketReceived, RoutingInv, Sightings
  <2>5. CASE routes' = routes
    BY <2>3, <2>4, <2>5 DEF RoutingInv, Known
  <2>6. CASE /\ m.src # Own /\ ~(m.src.sys = Own.sys /\ m.src.comp = 0)
             /\ Len(routes) # MaxRoutes /\ routes' = Append(routes, r)
    <3>1. routes' \in Seq(RouteRecords) /\ Len(routes') <= MaxRoutes
      BY <2>2, <2>6, RoutingAssumption DEF RoutingInv
    <3>2. Table(routes') = Table(routes) \cup {r}
      BY <2>2, <2>6, TableAppend DEF RoutingInv
    <3>3. here \in seen'
      BY <1>1, <2>6 DEF PacketReceived
    <3>4. here \in Known'
      BY <2>6, <3>3 DEF Known
    <3>5. \A q \in Table(routes') : <<q.link, q.sys, q.comp>> \in Known'
      <4>1. Known \subseteq Known'
        BY <2>4 DEF Known
      <4>2. \A q \in Table(routes) : <<q.link, q.sys, q.comp>> \in Known'
        BY <4>1 DEF RoutingInv
      <4>3. <<r.link, r.sys, r.comp>> = here
        OBVIOUS
      <4> HIDE DEF r, here
      <4> QED BY <3>2, <3>4, <4>2, <4>3
    <3> QED BY <2>3, <2>4, <3>1, <3>5 DEF RoutingInv, Table
  <2> QED BY <1>1, <2>5, <2>6 DEF PacketReceived, Learned
<1>2. CASE UNCHANGED routingVars
  BY <1>2 DEF routingVars, RoutingInv, Known, Table
<1> QED BY <1>1, <1>2 DEF RoutingNext

LEMMA RoutingInvariant == RoutingSpec => []RoutingInv
<1>1. RoutingInit => RoutingInv
  <2> SUFFICES ASSUME RoutingInit PROVE RoutingInv
    OBVIOUS
  <2>1. routes = <<>> /\ active = {} /\ gopro = FALSE /\ seen = {}
    BY DEF RoutingInit
  <2>2. Table(routes) = {}
    BY <2>1 DEF Table
  <2>3. routes \in Seq(RouteRecords) /\ Len(routes) = 0 /\ 0 <= MaxRoutes
    BY <2>1, RoutingAssumption
  <2> QED BY <2>1, <2>2, <2>3 DEF RoutingInv
<1> QED BY <1>1, RoutingInvNext, PTL DEF RoutingSpec

(* Whoever is seen has a route, and the routes say no more than that.      *)
LEMMA SeenIsRouted ==
  ASSUME RoutingInv, AllLearned, NEW l
  PROVE  /\ (\E s \in Known : s[1] = l) <=> \E q \in Table(routes) : q.link = l
         /\ \A sys : SeenOn(l, sys, None)
                        <=> \E q \in Table(routes) : q.link = l /\ q.sys = sys
         /\ \A sys, comp : comp # None =>
               (SeenOn(l, sys, comp)
                   <=> \E q \in Table(routes) : q.link = l /\ q.sys = sys /\ q.comp = comp)
<1>1. ASSUME NEW s \in Known
      PROVE  \E q \in Table(routes) : s[1] = q.link /\ s[2] = q.sys /\ s[3] = q.comp
  <2>1. PICK q \in Table(routes) : <<q.link, q.sys, q.comp>> = s
    BY DEF AllLearned
  <2>2. s[1] = q.link /\ s[2] = q.sys /\ s[3] = q.comp
    BY <2>1
  <2> QED BY <2>2
<1>2. ASSUME NEW q \in Table(routes)
      PROVE  \E s \in Known : s[1] = q.link /\ s[2] = q.sys /\ s[3] = q.comp
  <2>1. <<q.link, q.sys, q.comp>> \in Known
    BY DEF RoutingInv
  <2> QED BY <2>1
<1>3. (\E s \in Known : s[1] = l) <=> \E q \in Table(routes) : q.link = l
  BY <1>1, <1>2
<1>4. ASSUME NEW sys
      PROVE  SeenOn(l, sys, None) <=> \E q \in Table(routes) : q.link = l /\ q.sys = sys
  BY <1>1, <1>2 DEF SeenOn
<1>5. ASSUME NEW sys, NEW comp, comp # None
      PROVE  SeenOn(l, sys, comp)
                <=> \E q \in Table(routes) : q.link = l /\ q.sys = sys /\ q.comp = comp
  BY <1>1, <1>2, <1>5 DEF SeenOn
<1> QED BY <1>3, <1>4, <1>5

(* What the routing decides of a message whose sender it knows: the table  *)
(* is the one it had.                                                      *)
LEMMA NothingToLearn ==
  ASSUME RoutingInv, AllLearned, NEW in, NEW m \in Messages,
         <<in, m.src.sys, m.src.comp>> \in seen
  PROVE  m.src # Own /\ Learned(in, m) = routes
<1>0. m.src \in Nodes /\ Nodes \subseteq [sys : 1..255, comp : 0..255]
  BY RoutingAssumption DEF Messages
<1>1. m.src # Own
  <2>1. PICK l \in RouteLinks, n \in Nodes \ {Own} :
           <<in, m.src.sys, m.src.comp>> = <<l, n.sys, n.comp>>
    BY DEF RoutingInv, Sightings
  <2>2. n.sys = m.src.sys /\ n.comp = m.src.comp
    BY <2>1
  <2>3. n = m.src
    BY <1>0, <2>2
  <2> QED BY <2>3
<1>2. CASE m.src.sys = Own.sys /\ m.src.comp = 0
  BY <1>1, <1>2 DEF Learned
<1>3. CASE ~(m.src.sys = Own.sys /\ m.src.comp = 0)
  <2> DEFINE r == [sys |-> m.src.sys, comp |-> m.src.comp, link |-> in]
  <2>1. <<in, m.src.sys, m.src.comp>> \in Known
    BY <1>3 DEF Known
  <2>2. PICK q \in Table(routes) : <<q.link, q.sys, q.comp>> = <<in, m.src.sys, m.src.comp>>
    BY <2>1 DEF AllLearned
  <2>3. q \in RouteRecords
    BY TableIn DEF RoutingInv
  <2>4. q.link = in /\ q.sys = m.src.sys /\ q.comp = m.src.comp
    BY <2>2
  <2>5. q = r
    BY <2>3, <2>4 DEF RouteRecords
  <2>6. r \in Table(routes)
    BY <2>5
  <2> QED BY <1>1, <2>6 DEF Learned
<1> QED BY <1>1, <1>2, <1>3

ToUs(m) == MatchComponent(m) /\ ~AllSystems(m) /\ ~AllComponents(m)

LEMMA DataRoute ==
  ASSUME RoutingInv, AllLearned, NEW in \in RouteLinks \ PrivateLinks, NEW m \in Messages,
         m.kind = "data", <<in, m.src.sys, m.src.comp>> \in seen
  PROVE  /\ Route(in, m).to = IF ToUs(m) THEN {} ELSE ForwardedTo(in, m, routes)
         /\ Route(in, m).local <=> \/ ToUs(m) \/ MatchComponent(m) \/ AllSystems(m)
                                   \/ ForwardedTo(in, m, routes) = {} /\ MatchSystem(m)
         /\ Route(in, m).handled <=> Route(in, m).local /\ Accepted(m)
<1>1. m.src # Own /\ Learned(in, m) = routes
  BY NothingToLearn
<1>2. PICK d : d = CheckAndForward(in, m, routes, active \cup {in}, gopro)
  OBVIOUS
<1>3. d = IF ToUs(m) THEN [to |-> {}, local |-> TRUE]
          ELSE [to |-> ForwardedTo(in, m, routes),
                local |-> \/ MatchComponent(m)
                          \/ ForwardedTo(in, m, routes) = {} /\ MatchSystem(m)
                          \/ AllSystems(m)]
  BY <1>2 DEF CheckAndForward, ToUs
<1>4. (gopro \/ m.kind = "gopro") = gopro
  BY DEF RoutingInv
<1>5. Route(in, m) = [to |-> d.to, local |-> d.local, handled |-> d.local /\ Accepted(m)]
  BY <1>1, <1>2, <1>4 DEF Route
<1>6. CASE ToUs(m)
  <2>1. d.to = {} /\ d.local = TRUE
    BY <1>3, <1>6
  <2>2. /\ Route(in, m).to = d.to /\ Route(in, m).local = d.local
        /\ Route(in, m).handled = (d.local /\ Accepted(m))
    BY <1>5
  <2> QED BY <1>6, <2>1, <2>2
<1>7. CASE ~ToUs(m)
  <2>1. d.to = ForwardedTo(in, m, routes)
        /\ (d.local <=> \/ MatchComponent(m)
                        \/ ForwardedTo(in, m, routes) = {} /\ MatchSystem(m)
                        \/ AllSystems(m))
    BY <1>3, <1>7
  <2>2. /\ Route(in, m).to = d.to /\ Route(in, m).local = d.local
        /\ Route(in, m).handled = (d.local /\ Accepted(m))
    BY <1>5
  <2>3. Route(in, m).local <=> d.local
    BY <2>2, Zenon
  <2>4. Route(in, m).handled <=> d.local /\ Accepted(m)
    BY <2>2, Zenon
  <2> QED BY <1>7, <2>1, <2>2, <2>3, <2>4, Zenon
<1> QED BY <1>6, <1>7

LEMMA ForwardedLinks ==
  ASSUME NEW in, NEW m, NEW l
  PROVE  l \in ForwardedTo(in, m, routes)
           <=> \E q \in Table(routes) :
                  /\ q.link = l /\ l # in
                  /\ l \in PrivateLinks => m.sys = q.sys /\ m.comp = q.comp
                  /\ Matches(q, m)
BY DEF ForwardedTo

(* A message goes to the links, of those where someone has been heard, and *)
(* is processed here, as the theory says.                                  *)
LEMMA DataForwarded ==
  ASSUME RoutingInv, AllLearned, NEW in \in RouteLinks \ PrivateLinks, NEW m \in Messages,
         m.kind = "data", <<in, m.src.sys, m.src.comp>> \in seen,
         NEW l \in RouteLinks \ (PrivateLinks \cup {in})
  PROVE  (l \in Route(in, m).to) <=> /\ \E s \in Known : s[1] = l
                                     /\ ShouldForward(l, m) \/ BeyondForward(l, m)
<1>1. Route(in, m).to = IF ToUs(m) THEN {} ELSE ForwardedTo(in, m, routes)
  BY DataRoute
<1>2. /\ (\E s \in Known : s[1] = l) <=> \E q \in Table(routes) : q.link = l
      /\ \A sys : SeenOn(l, sys, None)
                     <=> \E q \in Table(routes) : q.link = l /\ q.sys = sys
      /\ \A sys, comp : comp # None =>
            (SeenOn(l, sys, comp)
                <=> \E q \in Table(routes) : q.link = l /\ q.sys = sys /\ q.comp = comp)
  BY SeenIsRouted
<1>3. l \in ForwardedTo(in, m, routes) <=> \E q \in Table(routes) : q.link = l /\ Matches(q, m)
  BY ForwardedLinks
<1>4. Own.sys = 1 /\ Own.comp = 1 /\ None = -1
  BY DEF Own, None
<1>5. \A q \in Table(routes) : ~(q.sys = 1 /\ q.comp = 1) /\ ~(q.sys = 1 /\ q.comp = 0)
  <2> SUFFICES ASSUME NEW q \in Table(routes)
               PROVE  ~(q.sys = 1 /\ q.comp = 1) /\ ~(q.sys = 1 /\ q.comp = 0)
    OBVIOUS
  <2>1. <<q.link, q.sys, q.comp>> \in Known
    BY DEF RoutingInv
  <2>2. PICK k \in RouteLinks, n \in Nodes \ {Own} : <<q.link, q.sys, q.comp>> = <<k, n.sys, n.comp>>
    BY <2>1 DEF RoutingInv, Sightings, Known
  <2>3. n.sys = q.sys /\ n.comp = q.comp /\ n \in [sys : 1..255, comp : 0..255] /\ n # Own
    BY <2>2, RoutingAssumption
  <2>4. ~(n.sys = 1 /\ n.comp = 1)
    BY <2>3 DEF Own
  <2> QED BY <2>1, <2>3, <2>4, <1>4 DEF Known
<1>6. CASE m.sys = None \/ m.sys = 0
  BY <1>1, <1>2, <1>3, <1>4, <1>6 DEF ToUs, AllSystems, Matches, ShouldForward
<1>7. CASE m.sys # None /\ m.sys # 0 /\ m.sys # 1
  BY <1>1, <1>2, <1>3, <1>4, <1>7
     DEF ToUs, AllSystems, MatchComponent, MatchSystem, Matches, ShouldForward, BeyondForward
<1>8. CASE m.sys = 1 /\ m.comp \in {0, None}
  BY <1>1, <1>2, <1>3, <1>4, <1>5, <1>8
     DEF ToUs, AllSystems, AllComponents, Matches, ShouldForward, BeyondForward
<1>9. CASE m.sys = 1 /\ m.comp \notin {0, None} /\ m.comp # 1
  BY <1>1, <1>2, <1>3, <1>4, <1>9
     DEF ToUs, AllSystems, AllComponents, MatchComponent, MatchSystem, Matches, ShouldForward,
         BeyondForward
<1>10. CASE m.sys = 1 /\ m.comp = 1
  BY <1>1, <1>2, <1>4, <1>5, <1>10
     DEF ToUs, AllSystems, AllComponents, MatchComponent, MatchSystem, ShouldForward, BeyondForward
<1> QED BY <1>6, <1>7, <1>8, <1>9, <1>10

LEMMA DataProcessed ==
  ASSUME RoutingInv, AllLearned, NEW in \in RouteLinks \ PrivateLinks, NEW m \in Messages,
         m.kind = "data", <<in, m.src.sys, m.src.comp>> \in seen
  PROVE  Route(in, m).local <=> ShouldProcess(m) \/ BeyondProcess(in, m)
<1>1. Route(in, m).local <=> \/ ToUs(m) \/ MatchComponent(m) \/ AllSystems(m)
                             \/ ForwardedTo(in, m, routes) = {} /\ MatchSystem(m)
  BY DataRoute
<1>2. Own.sys = 1 /\ Own.comp = 1 /\ None = -1
  BY DEF Own, None
<1>3. CASE m.sys = None \/ m.sys = 0
  BY <1>1, <1>3 DEF AllSystems, ShouldProcess
<1>4. CASE m.sys # None /\ m.sys # 0 /\ m.sys # 1
  BY <1>1, <1>2, <1>4
     DEF ToUs, AllSystems, MatchComponent, MatchSystem, ShouldProcess, BeyondProcess
<1>5. CASE m.sys = 1 /\ m.comp \in {0, None, 1}
  BY <1>1, <1>2, <1>5
     DEF MatchComponent, MatchSystem, AllComponents, ShouldProcess, BeyondProcess
<1>6. CASE m.sys = 1 /\ m.comp \notin {0, None, 1}
  <2>1. Route(in, m).local <=> ForwardedTo(in, m, routes) = {}
    BY <1>1, <1>2, <1>6
       DEF ToUs, AllSystems, MatchComponent, MatchSystem, AllComponents
  <2>2. \A q : Matches(q, m) <=> q.sys = 1 /\ q.comp = m.comp
    BY <1>2, <1>6 DEF Matches, AllSystems, AllComponents, MatchSystem
  <2>3. \A l : l \in ForwardedTo(in, m, routes)
                 <=> \E q \in Table(routes) : q.link = l /\ l # in /\ q.sys = 1 /\ q.comp = m.comp
    <3> SUFFICES ASSUME NEW l
                 PROVE  l \in ForwardedTo(in, m, routes)
                          <=> \E q \in Table(routes) :
                                 q.link = l /\ l # in /\ q.sys = 1 /\ q.comp = m.comp
      OBVIOUS
    <3> QED BY <1>6, <2>2, ForwardedLinks
  <2>4. \A l : SeenOn(l, 1, m.comp)
                 <=> \E q \in Table(routes) : q.link = l /\ q.sys = 1 /\ q.comp = m.comp
    BY <1>6, SeenIsRouted
  <2>5. \A q \in Table(routes) : q.link \in RouteLinks
    <3>1. Table(routes) \subseteq RouteRecords
      BY TableIn DEF RoutingInv
    <3> QED BY <3>1 DEF RouteRecords
  <2>6. ForwardedTo(in, m, routes) = {} <=> \A l \in RouteLinks \ {in} : ~SeenOn(l, 1, m.comp)
    BY <2>3, <2>4, <2>5
  <2>7. ShouldProcess(m) <=> \A l \in RouteLinks : ~SeenOn(l, 1, m.comp)
    BY <1>2, <1>6 DEF ShouldProcess
  <2>8. BeyondProcess(in, m) <=> \A l \in RouteLinks \ {in} : ~SeenOn(l, 1, m.comp)
    BY <1>2, <1>6 DEF BeyondProcess
  <2> QED BY <2>1, <2>6, <2>7, <2>8
<1> QED BY <1>3, <1>4, <1>5, <1>6

LEMMA RoutedAsSeen == RoutingInv => RoutedByTheory
<1> SUFFICES ASSUME RoutingInv, AllLearned
             PROVE  RoutedByTheory
  BY DEF RoutedByTheory
<1>1. ASSUME NEW in \in RouteLinks \ PrivateLinks, NEW m \in Messages,
             m.kind = "data", <<in, m.src.sys, m.src.comp>> \in seen
      PROVE  LET r == Route(in, m) IN
             /\ \A l \in RouteLinks \ (PrivateLinks \cup {in}) :
                  (l \in r.to) <=>
                     /\ \E s \in Known : s[1] = l
                     /\ ShouldForward(l, m) \/ BeyondForward(l, m)
             /\ r.local <=> (ShouldProcess(m) \/ BeyondProcess(in, m))
             /\ r.handled => r.local /\ (Enforce => m.src.sys \in GcsSystems \cup {Own.sys})
  <2>1. Route(in, m).handled <=> Route(in, m).local /\ Accepted(m)
    BY <1>1, DataRoute
  <2>2. Accepted(m) => (Enforce => m.src.sys \in GcsSystems \cup {Own.sys})
    BY <1>1 DEF Accepted
  <2> QED BY <1>1, <2>1, <2>2, DataForwarded, DataProcessed
<1>2. ASSUME NEW room \in SUBSET RouteLinks
      PROVE  SendToComponents(routes, room) = {l \in room : SeenOn(l, Own.sys, None)}
  BY SeenIsRouted DEF SendToComponents
<1> QED BY <1>1, <1>2 DEF RoutedByTheory

LEMMA NoEcho == RoutingInv => HeartbeatsDontEcho
<1> SUFFICES ASSUME RoutingInv, NEW in \in RouteLinks, NEW m \in Messages
             PROVE  /\ in \notin Route(in, m).to
                    /\ (m.kind = "heartbeat" /\ AllLearned) =>
                          \A l \in Route(in, m).to : ~SeenOn(l, m.src.sys, m.src.comp)
  BY DEF HeartbeatsDontEcho
<1>1. PICK rs : rs = Learned(in, m)
  OBVIOUS
<1>2. PICK d : d = CheckAndForward(in, m, rs, IF m.kind = "radio" THEN active ELSE active \cup {in},
                                   gopro \/ m.kind = "gopro")
  OBVIOUS
<1>3. PICK act : act = active \cup {in}
  OBVIOUS
<1>4. Route(in, m).to = IF m.src = Own THEN {} ELSE d.to
  BY <1>1, <1>2 DEF Route
<1>5. CASE m.kind = "heartbeat"
  <2>1. d.to = {} \/ d.to = HeartbeatTo(in, m, rs, act)
    BY <1>2, <1>3, <1>5 DEF CheckAndForward
  <2>2. in \notin HeartbeatTo(in, m, rs, act)
    BY DEF HeartbeatTo
  <2>3. ASSUME AllLearned, NEW l \in HeartbeatTo(in, m, rs, act)
        PROVE  ~SeenOn(l, m.src.sys, m.src.comp)
    <3>1. \A q \in Table(rs) : ~(q.link = l /\ q.sys = m.src.sys /\ q.comp = m.src.comp)
      BY <2>3 DEF HeartbeatTo
    <3>2. Table(routes) \subseteq Table(rs)
      <4>1. rs = routes \/ rs = Append(routes, [sys |-> m.src.sys, comp |-> m.src.comp, link |-> in])
        BY <1>1 DEF Learned
      <4>2. [sys |-> m.src.sys, comp |-> m.src.comp, link |-> in] \in RouteRecords
        BY RoutingAssumption DEF RouteRecords, Messages
      <4>3. PICK r \in RouteRecords :
               r = [sys |-> m.src.sys, comp |-> m.src.comp, link |-> in]
        BY <4>2
      <4>4. routes \in Seq(RouteRecords)
        BY DEF RoutingInv
      <4>5. Table(Append(routes, r)) = Table(routes) \cup {r}
        BY <4>4, TableAppend
      <4> QED BY <4>1, <4>3, <4>5
    <3>3. m.src.comp # None
      <4>1. m.src.comp \in 0..255
        BY RoutingAssumption DEF Messages
      <4> QED BY <4>1 DEF None
    <3>4. SeenOn(l, m.src.sys, m.src.comp)
            <=> \E q \in Table(routes) : q.link = l /\ q.sys = m.src.sys /\ q.comp = m.src.comp
      BY <2>3, <3>3, SeenIsRouted
    <3> QED BY <3>1, <3>2, <3>4
  <2> QED BY <1>4, <2>1, <2>2, <2>3
<1>6. CASE m.kind # "heartbeat"
  <2>1. d.to = {} \/ d.to = ForwardedTo(in, m, rs)
    BY <1>2, <1>6 DEF CheckAndForward
  <2>2. in \notin ForwardedTo(in, m, rs)
    BY DEF ForwardedTo
  <2> QED BY <1>4, <1>6, <2>1, <2>2
<1> QED BY <1>5, <1>6

(* What is learned has its kind and fits the table.                        *)
THEOREM RoutesTyped == RoutingSpec => []RoutingTypeOK
<1>1. RoutingInv => RoutingTypeOK
  BY TableIn DEF RoutingInv, RoutingTypeOK, RouteRecords
<1> QED BY <1>1, RoutingInvariant, PTL

(* For any nodes on any links, in whatever order they were heard: a        *)
(* message is forwarded and processed as the theory of MAVLink routing     *)
(* says, though the code reads its table and not what it has seen          *)
(* (check_and_forward(), learn_route()).                                   *)
THEOREM MessagesAreRoutedByTheory == RoutingSpec => []RoutedByTheory
<1> QED BY RoutedAsSeen, RoutingInvariant, PTL

(* No message goes back to the link it came from and no heartbeat to a     *)
(* link its sender is known on, full table or not (handle_heartbeat()).    *)
THEOREM NothingEchoes == RoutingSpec => []HeartbeatsDontEcho
<1> QED BY NoEcho, RoutingInvariant, PTL

----------------------------------------------------------------------------
(* The key's fragments.  First what division does: n bytes are cut in      *)
(* pieces of m bytes, the last one shorter.                                *)
LEMMA MultiplesApart ==
  ASSUME NEW m \in Nat \ {0}, NEW j \in Nat, NEW k \in Nat, j < k
  PROVE  j * m + m <= k * m
<1>1. PICK d \in Nat : k = j + 1 + d
  <2>1. k - j - 1 \in Nat /\ k = j + 1 + (k - j - 1)
    OBVIOUS
  <2> QED BY <2>1
<1>2. k * m = j * m + m + d * m
  BY <1>1
<1>3. d * m \in Nat /\ j * m \in Nat
  OBVIOUS
<1> QED BY <1>2, <1>3

LEMMA DivIsBelow ==
  ASSUME NEW m \in Nat \ {0}, NEW x \in Nat
  PROVE  x \div m \in Nat /\ (x \div m) * m <= x /\ x < (x \div m) * m + m
OBVIOUS

LEMMA DivMeans ==
  ASSUME NEW m \in Nat \ {0}, NEW x \in Nat, NEW k \in Nat
  PROVE  x \div m = k <=> k * m <= x /\ x < k * m + m
<1> DEFINE q == x \div m
<1>1. q \in Nat /\ q * m <= x /\ x < q * m + m
  BY DivIsBelow
<1>2. k * m \in Nat /\ q * m \in Nat
  BY <1>1
<1> HIDE DEF q
<1>3. k < q => k * m + m <= q * m
  BY <1>1, MultiplesApart
<1>4. q < k => q * m + m <= k * m
  BY <1>1, MultiplesApart
<1>5. q = k <=> k * m <= x /\ x < k * m + m
  BY <1>1, <1>2, <1>3, <1>4
<1> QED BY <1>5 DEF q

LEMMA RemainderIs ==
  ASSUME NEW m \in Nat \ {0}, NEW x \in Nat
  PROVE  x % m = x - m * (x \div m)
OBVIOUS

LEMMA MultipleDivides ==
  ASSUME NEW m \in Nat \ {0}, NEW k \in Nat
  PROVE  k * m \in Nat /\ (k * m) \div m = k /\ (k * m) % m = 0
<1>1. k * m \in Nat
  OBVIOUS
<1>2. (k * m) \div m = k
  BY <1>1, DivMeans
<1>3. (k * m) % m = k * m - m * ((k * m) \div m)
  BY <1>1, RemainderIs
<1> QED BY <1>1, <1>2, <1>3

LEMMA RoundedUp ==
  ASSUME NEW m \in Nat \ {0}, NEW n \in Nat \ {0}
  PROVE  /\ (n + m - 1) \div m \in Nat \ {0}
         /\ \A k \in Nat : k < (n + m - 1) \div m <=> k * m < n
<1> DEFINE c == (n + m - 1) \div m
<1>1. n + m - 1 \in Nat
  OBVIOUS
<1>2. c \in Nat /\ c * m <= n + m - 1 /\ n + m - 1 < c * m + m
  BY <1>1, DivIsBelow
<1>3. c * m \in Nat
  BY <1>2
<1> HIDE DEF c
<1>4. c # 0
  BY <1>2
<1>5. ASSUME NEW k \in Nat
      PROVE  k < c <=> k * m < n
  <2>1. k < c => k * m + m <= c * m
    BY <1>2, MultiplesApart
  <2>2. c < k => c * m + m <= k * m
    BY <1>2, MultiplesApart
  <2>3. k * m \in Nat
    OBVIOUS
  <2> QED BY <1>2, <1>3, <2>1, <2>2, <2>3
<1> QED BY <1>2, <1>4, <1>5 DEF c

(* What is at hand, and what was acknowledged, follow from the fragments   *)
(* acknowledged and the first of them that is missing, b.                  *)
Bytes(acked) == {x \in 0..(pkLen - 1) : x \div mtu \in acked}
FirstMissing(b, acked) ==
    /\ \A k \in 0..(b - 1) : k \in acked
    /\ b = PkChunks \/ b \notin acked
End(b) == IF b * mtu > pkLen THEN pkLen ELSE b * mtu

PkInv ==
    /\ pkLen \in PkLens /\ mtu \in Mtus
    /\ pkeAcked \in SUBSET (0..(PkChunks - 1)) /\ pke = Bytes(pkeAcked)
    /\ \E b \in 0..PkChunks :
          /\ FirstMissing(b, pkeAcked) /\ pkeRcvd = End(b)
          /\ pkAck.base = pkeRcvd
          /\ \A i \in pkAck.mask : i \in Nat /\ b + i < PkChunks /\ b + i \in pkeAcked
          /\ encapsulated <=> pkeRcvd >= pkLen

LEMMA PkSizes ==
  ASSUME pkLen \in PkLens, mtu \in Mtus
  PROVE  /\ pkLen \in Nat \ {0} /\ mtu \in Nat \ {0} /\ PkChunks \in Nat \ {0}
         /\ \A k \in Nat : k < PkChunks <=> k * mtu < pkLen
<1>1. pkLen \in Nat \ {0} /\ mtu \in Nat \ {0}
  BY PkAssumption
<1> QED BY <1>1, RoundedUp DEF PkChunks

LEMMA FragmentBytes ==
  ASSUME pkLen \in PkLens, mtu \in Mtus, NEW k \in Nat, k < PkChunks
  PROVE  /\ Fragment(k).offset = k * mtu
         /\ Fragment(k).count \in 1..mtu /\ k * mtu + Fragment(k).count <= pkLen
         /\ Fragment(k).offset..(Fragment(k).offset + Fragment(k).count - 1) = Bytes({k})
<1>1. /\ pkLen \in Nat \ {0} /\ mtu \in Nat \ {0} /\ k * mtu < pkLen
      /\ k * mtu \in Nat
  BY PkSizes
<1>2. (k + 1) * mtu = k * mtu + mtu
  BY <1>1
<1>3. /\ Fragment(k).offset = k * mtu
      /\ Fragment(k).count = IF k * mtu + mtu <= pkLen THEN mtu ELSE pkLen - k * mtu
  BY <1>2 DEF Fragment
<1>4. Fragment(k).count \in 1..mtu /\ k * mtu + Fragment(k).count <= pkLen
  BY <1>1, <1>3
<1>5. ASSUME NEW x \in Nat
      PROVE  x \div mtu = k <=> k * mtu <= x /\ x < k * mtu + mtu
  BY <1>1, DivMeans
<1>6. ASSUME NEW x
      PROVE  x \in (k * mtu)..(k * mtu + Fragment(k).count - 1) <=> x \in Bytes({k})
  <2>1. x \in (k * mtu)..(k * mtu + Fragment(k).count - 1)
          <=> x \in 0..(pkLen - 1) /\ k * mtu <= x /\ x < k * mtu + mtu
    BY <1>1, <1>3, <1>4
  <2>2. x \in Bytes({k}) <=> x \in 0..(pkLen - 1) /\ x \div mtu = k
    BY DEF Bytes
  <2> QED BY <1>1, <1>5, <2>1, <2>2
<1> QED BY <1>3, <1>4, <1>6

LEMMA EndIs ==
  ASSUME pkLen \in PkLens, mtu \in Mtus, NEW b \in 0..PkChunks
  PROVE  /\ End(b) \in 0..pkLen
         /\ b < PkChunks => End(b) = b * mtu /\ End(b) < pkLen /\ End(b) \div mtu = b
         /\ b = PkChunks => End(b) = pkLen
         /\ End(b) \div mtu \in Nat /\ End(b) \div mtu <= b
<1>1. /\ pkLen \in Nat \ {0} /\ mtu \in Nat \ {0} /\ PkChunks \in Nat \ {0} /\ b \in Nat
      /\ b < PkChunks <=> b * mtu < pkLen
      /\ b * mtu \in Nat
  BY PkSizes
<1>2. End(b) \in 0..pkLen /\ End(b) <= b * mtu
  BY <1>1 DEF End
<1>3. CASE b < PkChunks
  <2>1. End(b) = b * mtu /\ End(b) < pkLen
    BY <1>1, <1>3 DEF End
  <2>2. (b * mtu) \div mtu = b
    BY <1>1, MultipleDivides
  <2> QED BY <1>1, <1>2, <1>3, <2>1, <2>2
<1>4. CASE b = PkChunks
  <2>1. End(b) = pkLen
    BY <1>1, <1>4 DEF End
  <2>2. End(b) \div mtu \in Nat /\ (End(b) \div mtu) * mtu <= End(b)
    BY <1>1, <1>2, DivIsBelow
  <2>3. ~(b < End(b) \div mtu)
    <3>1. b < End(b) \div mtu => b * mtu + mtu <= (End(b) \div mtu) * mtu
      BY <1>1, <2>2, MultiplesApart
    <3> QED BY <1>1, <1>2, <2>2, <3>1
  <2> QED BY <1>1, <1>2, <1>4, <2>1, <2>2, <2>3
<1> QED BY <1>1, <1>3, <1>4

(* The loop finds the first fragment missing.                              *)
LEMMA BaseIs ==
  ASSUME pkLen \in PkLens, mtu \in Mtus, NEW acked \in SUBSET (0..(PkChunks - 1)),
         pkeRcvd \div mtu \in Nat, pkeRcvd \div mtu <= PkChunks,
         \A k \in 0..((pkeRcvd \div mtu) - 1) : k \in acked
  PROVE  BaseFrom(acked) \in 0..PkChunks /\ FirstMissing(BaseFrom(acked), acked)
<1>0. PkChunks \in Nat
  BY PkSizes
<1>1. PICK s \in Nat : s = pkeRcvd \div mtu
  OBVIOUS
<1> DEFINE T == {b \in s..PkChunks : b = PkChunks \/ b \notin acked}
           Is(b) == /\ \A k \in s..(b - 1) : k \in acked
                    /\ b = PkChunks \/ b \notin acked
<1>2. T \in SUBSET Nat /\ T # {}
  <2>1. PkChunks \in T
    BY <1>0, <1>1
  <2> QED BY <1>0, <2>1
<1>3. PICK b \in T : \A c \in T : b <= c
  BY <1>2, Minimum
<1>4. b \in s..PkChunks /\ Is(b)
  <2>1. b \in Nat /\ b <= PkChunks /\ s <= b
    BY <1>0, <1>3
  <2>2. ASSUME NEW k \in s..(b - 1)
        PROVE  k \in acked
    BY <1>0, <1>3, <2>1, <2>2
  <2> QED BY <1>0, <1>3, <2>1, <2>2
<1>5. BaseFrom(acked) = CHOOSE c \in s..PkChunks : Is(c)
  BY <1>1 DEF BaseFrom
<1>6. BaseFrom(acked) \in s..PkChunks /\ Is(BaseFrom(acked))
  <2> HIDE DEF Is
  <2> QED BY <1>4, <1>5
<1>7. PICK n : n = BaseFrom(acked)
  OBVIOUS
<1>8. n \in Nat /\ s <= n /\ n <= PkChunks
  BY <1>0, <1>6, <1>7
<1>9. ASSUME NEW k \in 0..(n - 1)
      PROVE  k \in acked
  <2>1. CASE k < s
    BY <1>1, <1>8, <2>1
  <2>2. CASE ~(k < s)
    BY <1>6, <1>7, <1>8, <2>2
  <2> QED BY <2>1, <2>2
<1> QED BY <1>0, <1>6, <1>7, <1>8, <1>9 DEF FirstMissing

LEMMA PkInvInit == PkInit => PkInv
<1> SUFFICES ASSUME PkInit PROVE PkInv
  OBVIOUS
<1>1. pkLen \in Nat \ {0} /\ mtu \in Nat \ {0} /\ PkChunks \in Nat \ {0}
  BY PkSizes DEF PkInit
<1>2. FirstMissing(0, pkeAcked) /\ End(0) = 0 /\ 0 \in 0..PkChunks
  BY <1>1 DEF FirstMissing, End, PkInit
<1>3. pke = Bytes(pkeAcked)
  BY DEF PkInit, Bytes
<1>4. pkAck.base = pkeRcvd /\ pkAck.mask = {} /\ pkeRcvd = 0 /\ ~encapsulated
  BY DEF PkInit
<1> QED BY <1>1, <1>2, <1>3, <1>4 DEF PkInv, PkInit

LEMMA HandleChunkKeeps ==
  ASSUME PkInv, NEW m \in Fragments, HandleChunk(m)
  PROVE  PkInv'
<1>0. /\ pkLen \in PkLens /\ mtu \in Mtus /\ pkLen' = pkLen /\ mtu' = mtu /\ PkChunks' = PkChunks
      /\ pkLen \in Nat \ {0} /\ mtu \in Nat \ {0} /\ PkChunks \in Nat \ {0}
  BY PkSizes DEF PkInv, HandleChunk, PkChunks
<1>1. PICK k \in 0..(pkLen - 1) : m = Fragment(k) /\ k * mtu < pkLen
  BY DEF Fragments
<1>2. k \in Nat /\ k < PkChunks /\ k \in 0..(PkChunks - 1)
  <2>1. k \in Nat
    BY <1>0, <1>1
  <2>2. k < PkChunks
    BY <1>0, <1>1, <2>1, PkSizes
  <2> QED BY <1>0, <2>1, <2>2
<1>3. m.offset..(m.offset + m.count - 1) = Bytes({k}) /\ m.offset \div mtu = k
  <2>1. (k * mtu) \div mtu = k
    BY <1>0, <1>2, MultipleDivides
  <2> QED BY <1>0, <1>1, <1>2, <2>1, FragmentBytes
<1>4. PICK acked : acked = pkeAcked \cup {k}
  OBVIOUS
<1>5. /\ acked \in SUBSET (0..(PkChunks - 1)) /\ pkeAcked' = acked
      /\ pke' = Bytes(acked)
  <2>1. pkeAcked' = acked /\ pke' = IF k \in pkeAcked THEN pke ELSE pke \cup Bytes({k})
    BY <1>3, <1>4 DEF HandleChunk
  <2>2. pke = Bytes(pkeAcked)
    BY DEF PkInv
  <2>3. Bytes(acked) = Bytes(pkeAcked) \cup Bytes({k})
    BY <1>4 DEF Bytes
  <2>4. k \in pkeAcked => acked = pkeAcked
    BY <1>4
  <2> QED BY <1>2, <1>4, <2>1, <2>2, <2>3, <2>4 DEF PkInv
<1>6. PICK old \in 0..PkChunks : FirstMissing(old, pkeAcked) /\ pkeRcvd = End(old)
  BY DEF PkInv
<1>7. /\ pkeRcvd \div mtu \in Nat /\ pkeRcvd \div mtu <= old
  BY <1>0, <1>6, EndIs
<1>8. PICK b : b = BaseFrom(acked)
  OBVIOUS
<1>9. b \in 0..PkChunks /\ FirstMissing(b, acked)
  <2>1. \A j \in 0..((pkeRcvd \div mtu) - 1) : j \in acked
    BY <1>0, <1>4, <1>6, <1>7 DEF FirstMissing
  <2>2. pkeRcvd \div mtu <= PkChunks
    BY <1>0, <1>6, <1>7
  <2> QED BY <1>0, <1>5, <1>7, <1>8, <2>1, <2>2, BaseIs
<1>10. /\ pkeRcvd' = End(b)
       /\ pkAck' = [base |-> End(b),
                    mask |-> {i \in 0..(MaskBits - 1) : b + i < PkChunks /\ b + i \in acked}]
       /\ encapsulated' = (End(b) >= pkLen)
  BY <1>3, <1>5, <1>8 DEF HandleChunk, End
<1>11. Bytes(pkeAcked)' = Bytes(acked)
  BY <1>0, <1>5 DEF Bytes
<1>12. FirstMissing(b, acked)' /\ End(b)' = End(b)
  BY <1>0, <1>9 DEF FirstMissing, End
<1>13. /\ pkAck'.base = pkeRcvd'
       /\ \A i \in pkAck'.mask : i \in Nat /\ b + i < PkChunks /\ b + i \in acked
  <2>1. \A i \in 0..(MaskBits - 1) : i \in Nat
    BY PkAssumption
  <2> QED BY <1>10, <2>1
<1>14. encapsulated' <=> pkeRcvd' >= pkLen
  BY <1>10
<1> QED BY <1>0, <1>5, <1>9, <1>10, <1>11, <1>12, <1>13, <1>14 DEF PkInv

LEMMA PkInvariant == PkSpec => []PkInv
<1>1. PkInv /\ [PkNext]_pkVars => PkInv'
  <2> SUFFICES ASSUME PkInv, [PkNext]_pkVars PROVE PkInv'
    OBVIOUS
  <2>1. CASE PkNext
    BY <2>1, HandleChunkKeeps DEF PkNext
  <2>2. CASE UNCHANGED pkVars
    BY <2>2 DEF pkVars, PkInv, Bytes, FirstMissing, End, PkChunks
  <2> QED BY <2>1, <2>2
<1> QED BY <1>1, PkInvInit, PTL DEF PkSpec

LEMMA WholeFromInv == PkInv => PkWhole
<1> SUFFICES ASSUME PkInv PROVE PkWhole
  OBVIOUS
<1>0. /\ pkLen \in PkLens /\ mtu \in Mtus /\ pke = Bytes(pkeAcked)
      /\ pkeAcked \in SUBSET (0..(PkChunks - 1))
      /\ pkLen \in Nat \ {0} /\ mtu \in Nat \ {0} /\ PkChunks \in Nat \ {0}
      /\ \A k \in Nat : k < PkChunks <=> k * mtu < pkLen
  BY PkSizes DEF PkInv
<1>1. PICK b \in 0..PkChunks :
         /\ FirstMissing(b, pkeAcked) /\ pkeRcvd = End(b)
         /\ pkAck.base = pkeRcvd
         /\ \A i \in pkAck.mask : i \in Nat /\ b + i < PkChunks /\ b + i \in pkeAcked
         /\ encapsulated <=> pkeRcvd >= pkLen
  BY DEF PkInv
<1>2. /\ End(b) \in 0..pkLen
      /\ b < PkChunks => End(b) = b * mtu /\ End(b) < pkLen /\ End(b) \div mtu = b
      /\ b = PkChunks => End(b) = pkLen
  BY <1>0, EndIs
\* The fragment a byte is in.
<1>3. ASSUME NEW x \in 0..(pkLen - 1)
      PROVE  x \div mtu \in 0..(PkChunks - 1) /\ (x < End(b) => x \div mtu < b)
  <2>1. x \in Nat /\ x \div mtu \in Nat /\ (x \div mtu) * mtu <= x /\ (x \div mtu) * mtu \in Nat
    BY <1>0, DivIsBelow
  <2>2. x \div mtu < PkChunks
    <3>1. PICK q \in Nat : q = x \div mtu
      BY <2>1
    <3>2. q * mtu < pkLen
      BY <1>0, <2>1, <3>1
    <3>3. q < PkChunks
      BY <1>0, <3>2
    <3> QED BY <3>1, <3>3
  <2>3. ASSUME x < End(b), b < PkChunks
        PROVE  x \div mtu < b
    <3>1. x < b * mtu /\ b \in Nat /\ b * mtu \in Nat
      BY <1>0, <1>2, <2>3
    <3>2. b < x \div mtu => b * mtu + mtu <= (x \div mtu) * mtu
      BY <1>0, <2>1, <3>1, MultiplesApart
    <3>3. b = x \div mtu => b * mtu <= x
      BY <2>1
    <3> QED BY <1>0, <2>1, <3>1, <3>2, <3>3
  <2> QED BY <1>0, <1>1, <2>1, <2>2, <2>3
<1>4. ASSUME NEW m \in Fragments
      PROVE  Fits(m)
  <2>1. PICK k \in 0..(pkLen - 1) : m = Fragment(k) /\ k * mtu < pkLen
    BY DEF Fragments
  <2>2. k \in Nat /\ k < PkChunks
    BY <1>0, <2>1
  <2>3. (k * mtu) \div mtu = k /\ (k * mtu) % mtu = 0
    BY <1>0, <2>2, MultipleDivides
  <2>4. m.offset = k * mtu /\ m.count \in 1..mtu /\ k * mtu + m.count <= pkLen
    BY <1>0, <2>1, <2>2, FragmentBytes
  <2> QED BY <1>0, <2>2, <2>3, <2>4 DEF Fits
<1>5. encapsulated <=> pke = 0..(pkLen - 1)
  <2>1. CASE b = PkChunks
    <3>1. encapsulated
      BY <1>0, <1>1, <1>2, <2>1
    <3>2. pke = 0..(pkLen - 1)
      BY <1>0, <1>1, <1>3, <2>1 DEF Bytes, FirstMissing
    <3> QED BY <3>1, <3>2
  <2>2. CASE b < PkChunks
    <3>1. ~encapsulated
      BY <1>0, <1>1, <1>2, <2>2
    <3>2. End(b) \in 0..(pkLen - 1) /\ End(b) \div mtu \notin pkeAcked
      BY <1>0, <1>1, <1>2, <2>2 DEF FirstMissing
    <3> QED BY <1>0, <3>1, <3>2 DEF Bytes
  <2> QED BY <1>0, <1>1, <2>1, <2>2
<1>6. 0..(pkAck.base - 1) \subseteq pke
  <2> SUFFICES ASSUME NEW x \in 0..(End(b) - 1) PROVE x \in Bytes(pkeAcked)
    BY <1>0, <1>1
  <2>1. x \in 0..(pkLen - 1) /\ x < End(b)
    BY <1>0, <1>2
  <2>2. x \div mtu \in 0..(b - 1)
    BY <1>0, <1>1, <1>3, <2>1
  <2> QED BY <1>1, <2>1, <2>2 DEF Bytes, FirstMissing
<1>7. pkAck.base < pkLen => pkAck.base \notin pke
  BY <1>0, <1>1, <1>2 DEF Bytes, FirstMissing
<1>8. ASSUME NEW i \in pkAck.mask
      PROVE  LET f == Fragment(pkAck.base \div mtu + i)
             IN f.offset..(f.offset + f.count - 1) \subseteq pke
  <2>1. i \in Nat /\ b + i < PkChunks /\ b + i \in pkeAcked /\ b \in Nat
    BY <1>1, <1>8
  <2>2. pkAck.base \div mtu = b
    BY <1>0, <1>1, <1>2, <2>1
  <2>3. PICK k \in Nat : k = b + i
    BY <2>1
  <2>4. Fragment(k).offset..(Fragment(k).offset + Fragment(k).count - 1) = Bytes({k})
    BY <1>0, <2>1, <2>3, FragmentBytes
  <2>5. Bytes({k}) \subseteq Bytes(pkeAcked)
    BY <2>1, <2>3 DEF Bytes
  <2> QED BY <1>0, <2>2, <2>3, <2>4, <2>5
<1> QED BY <1>4, <1>5, <1>6, <1>7, <1>8 DEF PkWhole

(* For keys and MTUs of any size, fragments in any order and any number of *)
(* times: the key is encapsulated to exactly when every byte has arrived,  *)
(* and the acknowledgements are true (handle_hqc_pk_chunk()).              *)
THEOREM KeyIsWhole == PkSpec => []PkWhole
<1> QED BY WholeFromInv, PkInvariant, PTL

----------------------------------------------------------------------------
(* Texts.  The queue is in the order the chunks were made; what a link was *)
(* shown is before what it still waits for; and the chunks made for a link *)
(* are those it was shown, it waits for or that are lost.                  *)
Entries == [text : Nat, chunk : Nat, to : SUBSET TextLinks, age : 0..(MaxAge + 1)]
ChunkKeys == Nat \X Nat
KeyOf(e) == <<e.text, e.chunk>>

Waits(q, l, key) == \E i \in 1..Len(q) : l \in q[i].to /\ KeyOf(q[i]) = key
IsShown(sh, key) == \E i \in 1..Len(sh) : sh[i] = key

TextShape ==
    /\ queue \in Seq(Entries) /\ Len(queue) <= Capacity
    /\ \A i \in 1..Len(queue) : queue[i].to # {} /\ queue[i].text <= texts
    /\ shown \in [TextLinks -> Seq(ChunkKeys)]
    /\ \A l \in TextLinks : \A i \in 1..Len(shown[l]) : shown[l][i][1] <= texts
    /\ texts \in Nat /\ reachable \in SUBSET TextLinks /\ updated \in BOOLEAN
    /\ made \in [TextLinks -> SUBSET ChunkKeys]

QueueInOrder(q) ==
    \A i, j \in 1..Len(q) : i < j => Earlier(KeyOf(q[i]), KeyOf(q[j]))

ShownFirst(q, sh, l) ==
    \A i \in 1..Len(sh), j \in 1..Len(q) : l \in q[j].to => Earlier(sh[i], KeyOf(q[j]))

Accounted(q, sh, l, key, lo) == IsShown(sh, key) \/ key \in lo \/ Waits(q, l, key)

AllAccounted(q, sh, l, lo, mk) == \A key \in mk : Accounted(q, sh, l, key, lo)

OfMade(q, sh, l, mk) ==
    /\ \A i \in 1..Len(sh) : sh[i] \in mk
    /\ \A i \in 1..Len(q) : l \in q[i].to => KeyOf(q[i]) \in mk

InTurn(sh) == \A i, j \in 1..Len(sh) : i < j => Earlier(sh[i], sh[j])

LinkOK(q, sh, l, lo, mk) ==
    ShownFirst(q, sh, l) /\ AllAccounted(q, sh, l, lo, mk) /\ OfMade(q, sh, l, mk) /\ InTurn(sh)

TextsInv ==
    /\ TextShape /\ QueueInOrder(queue)
    /\ \A l \in TextLinks : LinkOK(queue, shown[l], l, lost[l], made[l])

LEMMA KeyParts ==
  ASSUME NEW e \in Entries
  PROVE  KeyOf(e) \in ChunkKeys /\ KeyOf(e)[1] = e.text /\ KeyOf(e)[2] = e.chunk
BY DEF Entries, KeyOf, ChunkKeys

LEMMA KeyIs ==
  ASSUME NEW k \in ChunkKeys
  PROVE  k[1] \in Nat /\ k[2] \in Nat /\ k = <<k[1], k[2]>>
BY DEF ChunkKeys

LEMMA EarlierIsOrder ==
  ASSUME NEW x \in ChunkKeys, NEW y \in ChunkKeys
  PROVE  /\ ~(Earlier(x, y) /\ Earlier(y, x)) /\ ~Earlier(x, x)
         /\ \A z \in ChunkKeys : Earlier(x, y) /\ Earlier(y, z) => Earlier(x, z)
<1>1. \A z \in ChunkKeys : z[1] \in Nat /\ z[2] \in Nat
  BY KeyIs
<1> QED BY <1>1 DEF Earlier

(* The oldest entries gone: what they were waited for is lost.             *)
LEMMA SuffixIs ==
  ASSUME NEW q \in Seq(Entries), QueueInOrder(q), NEW d \in 0..Len(q),
         NEW q2, q2 = SubSeq(q, d + 1, Len(q))
  PROVE  /\ q2 \in Seq(Entries) /\ Len(q2) = Len(q) - d
         /\ \A i \in 1..(Len(q) - d) : d + i \in 1..Len(q) /\ q2[i] = q[d + i]
         /\ QueueInOrder(q2)
<1>1. PICK N \in Nat : N = Len(q)
  OBVIOUS
<1>2. \A i \in (d + 1)..N : i \in 1..N /\ q[i] \in Entries
  BY <1>1
<1>3. q2 \in Seq(Entries) /\ Len(q2) = N - d
  BY <1>1, <1>2, SubSeqProperties
<1>4. \A i \in 1..(N - d) : d + i \in 1..N /\ q2[i] = q[d + i]
  BY <1>1, <1>2, SubSeqProperties
<1>5. \A i, j \in 1..(N - d) : i < j => d + i < d + j
  BY <1>1
<1>6. QueueInOrder(q2)
  BY <1>1, <1>3, <1>4, <1>5 DEF QueueInOrder
<1> QED BY <1>1, <1>3, <1>4, <1>6

\* What link l is told of its chunks stays so when the first d entries are
\* lost to it.
GoneTo(q, l, d, lo) == \A i \in 1..d : l \in q[i].to => KeyOf(q[i]) \in lo

LEMMA SuffixKept ==
  ASSUME NEW q \in Seq(Entries), QueueInOrder(q), NEW d \in 0..Len(q),
         NEW q2, q2 = SubSeq(q, d + 1, Len(q)),
         NEW lo, NEW lo2, lo \subseteq lo2, NEW mk, NEW sh, NEW l,
         LinkOK(q, sh, l, lo, mk), GoneTo(q, l, d, lo2)
  PROVE  LinkOK(q2, sh, l, lo2, mk)
<1>1. PICK N \in Nat : N = Len(q)
  OBVIOUS
<1>2. /\ Len(q2) = N - d
      /\ \A i \in 1..(N - d) : d + i \in 1..N /\ q2[i] = q[d + i]
  BY <1>1, SuffixIs
<1>3. ShownFirst(q2, sh, l)
  BY <1>1, <1>2 DEF LinkOK, ShownFirst
<1>4. OfMade(q2, sh, l, mk)
  BY <1>1, <1>2 DEF LinkOK, OfMade
<1>5. ASSUME NEW key \in mk
      PROVE  Accounted(q2, sh, l, key, lo2)
  <2>1. Accounted(q, sh, l, key, lo)
    BY DEF LinkOK, AllAccounted
  <2>2. CASE Waits(q, l, key)
    <3>1. PICK i \in 1..N : l \in q[i].to /\ KeyOf(q[i]) = key
      BY <1>1, <2>2 DEF Waits
    <3>2. CASE i \in 1..d
      BY <3>1, <3>2 DEF GoneTo, Accounted
    <3>3. CASE ~(i \in 1..d)
      <4>1. i - d \in 1..(N - d) /\ d + (i - d) = i
        BY <1>1, <3>3
      <4>2. q2[i - d] = q[i]
        BY <1>2, <4>1
      <4> QED BY <1>2, <3>1, <4>1, <4>2 DEF Accounted, Waits
    <3> QED BY <3>2, <3>3
  <2>3. CASE ~Waits(q, l, key)
    BY <2>1, <2>3 DEF Accounted
  <2> QED BY <2>2, <2>3
<1> QED BY <1>3, <1>4, <1>5 DEF LinkOK, AllAccounted

LEMMA TextsInvInit == TextsInit => TextsInv
<1> SUFFICES ASSUME TextsInit PROVE TextsInv
  OBVIOUS
<1>1. queue = <<>> /\ \A l \in TextLinks : shown[l] = <<>>
  BY DEF TextsInit
<1>2. TextShape
  <2>1. <<>> \in Seq(Entries) /\ <<>> \in Seq(ChunkKeys) /\ Len(<<>>) = 0
    OBVIOUS
  <2>2. Len(queue) <= Capacity /\ \A i \in 1..Len(queue) : FALSE
    BY <1>1, <2>1, TextAssumption
  <2>3. \A l \in TextLinks : \A i \in 1..Len(shown[l]) : FALSE
    BY <1>1, <2>1
  <2>4. shown \in [TextLinks -> Seq(ChunkKeys)]
    BY <2>1 DEF TextsInit
  <2>5. made \in [TextLinks -> SUBSET ChunkKeys]
    BY DEF TextsInit
  <2> QED BY <1>1, <2>1, <2>2, <2>3, <2>4, <2>5 DEF TextsInit, TextShape
<1>3. \A l \in TextLinks : made[l] = {}
  BY DEF TextsInit
<1>4. QueueInOrder(queue) /\ \A l \in TextLinks : LinkOK(queue, shown[l], l, lost[l], made[l])
  BY <1>1, <1>3 DEF QueueInOrder, LinkOK, ShownFirst, AllAccounted, OfMade, InTurn
<1> QED BY <1>2, <1>4 DEF TextsInv

TextListVars == <<queue, texts, made, shown, lost>>

LEMMA TextsUnchanged ==
  ASSUME TextsInv, UNCHANGED TextListVars,
         reachable' \in SUBSET TextLinks, updated' \in BOOLEAN
  PROVE  TextsInv'
BY DEF TextsInv, TextShape, TextListVars

(* A text added: nobody has been shown it, and its chunks are in order.    *)
MadeAfter(l, to, n) ==
    made[l] \cup {<<texts + 1, c>> : c \in IF l \in to THEN 1..n ELSE {}}

LEMMA AddedIs ==
  ASSUME TextsInv, NEW n \in Nat, NEW to \in SUBSET TextLinks, to # {},
         NEW all, all = queue \o [c \in 1..n |-> [text |-> texts + 1, chunk |-> c,
                                                  to |-> to, age |-> 0]]
  PROVE  /\ all \in Seq(Entries) /\ QueueInOrder(all)
         /\ \A i \in 1..Len(all) : all[i].to # {} /\ all[i].text <= texts + 1
         /\ \A l \in TextLinks : LinkOK(all, shown[l], l, lost[l], MadeAfter(l, to, n))
<1>1. PICK N \in Nat : N = Len(queue) /\ queue \in Seq(Entries)
  BY DEF TextsInv, TextShape
<1>2. PICK T \in Nat : T = texts + 1
  BY DEF TextsInv, TextShape
<1>3. PICK new : new = [c \in 1..n |-> [text |-> T, chunk |-> c, to |-> to, age |-> 0]]
  OBVIOUS
<1>4. all = queue \o new
  BY <1>2, <1>3
<1>5. \A c \in 1..n : /\ new[c] \in Entries
                      /\ new[c].text = T /\ new[c].chunk = c /\ new[c].to = to
  <2>1. 0 \in 0..(MaxAge + 1)
    BY TextAssumption
  <2>2. \A c \in 1..n : c \in Nat
    OBVIOUS
  <2> QED BY <1>3, <2>1, <2>2 DEF Entries
<1>6. new \in Seq(Entries) /\ Len(new) = n
  <2>1. new \in [1..n -> Entries]
    BY <1>3, <1>5
  <2> QED BY <2>1, LenProperties
<1>7. /\ all \in Seq(Entries) /\ Len(all) = N + n
      /\ \A i \in 1..(N + n) : all[i] = IF i <= N THEN queue[i] ELSE new[i - N]
  <2>1. /\ all \in Seq(Entries) /\ Len(all) = Len(queue) + Len(new)
        /\ \A i \in 1..(Len(queue) + Len(new)) :
              all[i] = IF i <= Len(queue) THEN queue[i] ELSE new[i - Len(queue)]
    BY <1>1, <1>4, <1>6, ConcatProperties
  <2> QED BY <1>1, <1>6, <2>1
<1>8. \A i \in 1..N : i \in 1..(N + n) /\ all[i] = queue[i]
  <2>1. \A i \in 1..N : i \in 1..(N + n) /\ i <= N
    BY <1>1
  <2> QED BY <1>7, <2>1
<1>9. \A c \in 1..n : N + c \in 1..(N + n) /\ all[N + c] = new[c]
  <2>1. \A c \in 1..n : N + c \in 1..(N + n) /\ ~(N + c <= N) /\ (N + c) - N = c
    BY <1>1
  <2> QED BY <1>7, <2>1
<1>10. \A i \in 1..(N + n) : i \in 1..N \/ \E c \in 1..n : i = N + c
  <2>1. \A i \in 1..(N + n) : i \in 1..N \/ (i - N \in 1..n /\ i = N + (i - N))
    BY <1>1
  <2> QED BY <2>1
<1>11. \A i \in 1..N : queue[i] \in Entries /\ queue[i].text < T /\ queue[i].to # {}
  <2>1. \A i \in 1..N : queue[i].text <= texts /\ queue[i] \in Entries /\ queue[i].to # {}
    <3>1. \A i \in 1..Len(queue) : queue[i].to # {} /\ queue[i].text <= texts
      BY DEF TextsInv, TextShape
    <3>2. \A i \in 1..Len(queue) : queue[i] \in Entries
      BY <1>1
    <3> QED BY <1>1, <3>1, <3>2
  <2>2. texts \in Nat /\ \A i \in 1..N : queue[i].text \in Nat
    BY <2>1 DEF TextsInv, TextShape, Entries
  <2> QED BY <1>2, <2>1, <2>2
<1>12. \A i \in 1..Len(all) : all[i].to # {} /\ all[i].text <= texts + 1
  <2>1. ASSUME NEW i \in 1..(N + n)
        PROVE  all[i].to # {} /\ all[i].text <= T
    <3>1. CASE i \in 1..N
      <4>1. queue[i].text \in Nat
        BY <1>11, <3>1 DEF Entries
      <4>2. PICK x \in Nat : x = queue[i].text /\ x < T
        BY <1>11, <3>1, <4>1
      <4>3. all[i].text = x /\ all[i].to # {}
        BY <1>8, <1>11, <3>1, <4>2
      <4>4. x <= T
        BY <4>2
      <4>5. all[i].text <= T
        BY <4>3, <4>4
      <4> QED BY <4>3, <4>5
    <3>2. CASE ~(i \in 1..N)
      <4>1. PICK c \in 1..n : i = N + c
        BY <1>10, <3>2
      <4>2. all[i].text = T /\ all[i].to = to
        BY <1>5, <1>9, <4>1
      <4>3. T <= T
        OBVIOUS
      <4>4. all[i].text <= T
        BY <4>2, <4>3
      <4> QED BY <4>2, <4>4
    <3> QED BY <3>1, <3>2
  <2> QED BY <1>2, <1>7, <2>1
<1>13. QueueInOrder(all)
  <2>1. ASSUME NEW i \in 1..(N + n), NEW j \in 1..(N + n), i < j
        PROVE  Earlier(KeyOf(all[i]), KeyOf(all[j]))
    <3>1. CASE i \in 1..N /\ j \in 1..N
      BY <1>1, <1>8, <2>1, <3>1 DEF TextsInv, QueueInOrder
    <3>2. CASE i \in 1..N /\ ~(j \in 1..N)
      <4>1. PICK c \in 1..n : j = N + c
        BY <1>10, <3>2
      <4>2. all[j].text = T /\ all[i].text < T
        BY <1>5, <1>8, <1>9, <1>11, <3>2, <4>1
      <4> QED BY <4>2 DEF Earlier, KeyOf
    <3>3. CASE ~(i \in 1..N)
      <4>1. PICK c \in 1..n : i = N + c
        BY <1>10, <3>3
      <4>2. ~(j \in 1..N)
        BY <2>1, <3>3
      <4>3. PICK e \in 1..n : j = N + e
        BY <1>10, <4>2
      <4>4. c < e
        BY <1>1, <2>1, <4>1, <4>3
      <4>5. all[i].text = T /\ all[j].text = T /\ all[i].chunk < all[j].chunk
        BY <1>5, <1>9, <4>1, <4>3, <4>4
      <4> QED BY <4>5 DEF Earlier, KeyOf
    <3> QED BY <3>1, <3>2, <3>3
  <2> QED BY <1>7, <2>1 DEF QueueInOrder
<1>14. ASSUME NEW l \in TextLinks
       PROVE  LinkOK(all, shown[l], l, lost[l], MadeAfter(l, to, n))
  <2>1. LinkOK(queue, shown[l], l, lost[l], made[l])
    BY DEF TextsInv
  <2>2. ShownFirst(all, shown[l], l)
    <3>1. ASSUME NEW i \in 1..Len(shown[l]), NEW j \in 1..(N + n), l \in all[j].to
          PROVE  Earlier(shown[l][i], KeyOf(all[j]))
      <4>1. CASE j \in 1..N
        BY <1>1, <1>8, <2>1, <3>1, <4>1 DEF LinkOK, ShownFirst
      <4>2. CASE ~(j \in 1..N)
        <5>1. all[j].text = T
          <6>1. PICK c \in 1..n : j = N + c
            BY <1>10, <4>2
          <6> QED BY <1>5, <1>9, <6>1
        <5>2. shown[l][i][1] <= texts /\ shown[l][i] \in ChunkKeys
          BY DEF TextsInv, TextShape
        <5>3. shown[l][i][1] < T
          <6>1. shown[l][i][1] \in Nat /\ texts \in Nat
            BY <5>2, KeyIs DEF TextsInv, TextShape
          <6> QED BY <1>2, <5>2, <6>1
        <5> QED BY <5>1, <5>3 DEF Earlier, KeyOf
      <4> QED BY <4>1, <4>2
    <3> QED BY <1>7, <3>1 DEF ShownFirst
  <2>3. PICK mk : mk = MadeAfter(l, to, n)
    OBVIOUS
  <2>4. \A key \in mk : key \in made[l] \/ (l \in to /\ \E c \in 1..n : key = <<T, c>>)
    BY <1>2, <2>3 DEF MadeAfter
  <2>5. made[l] \subseteq mk /\ (l \in to => \A c \in 1..n : <<T, c>> \in mk)
    BY <1>2, <2>3 DEF MadeAfter
  <2>6. \A c \in 1..n : KeyOf(all[N + c]) = <<T, c>> /\ all[N + c].to = to
    BY <1>5, <1>9 DEF KeyOf
  <2>7. ASSUME NEW key \in mk
        PROVE  Accounted(all, shown[l], l, key, lost[l])
    <3>1. CASE key \in made[l]
      <4>1. Accounted(queue, shown[l], l, key, lost[l])
        BY <2>1, <3>1 DEF LinkOK, AllAccounted
      <4>2. Waits(queue, l, key) => Waits(all, l, key)
        BY <1>1, <1>7, <1>8 DEF Waits
      <4> QED BY <4>1, <4>2 DEF Accounted
    <3>2. CASE key \notin made[l]
      <4>1. PICK c \in 1..n : key = <<T, c>> /\ l \in to
        BY <2>4, <3>2
      <4>2. N + c \in 1..Len(all) /\ l \in all[N + c].to /\ KeyOf(all[N + c]) = key
        BY <1>7, <1>9, <2>6, <4>1
      <4> QED BY <4>2 DEF Accounted, Waits
    <3> QED BY <3>1, <3>2
  <2>8. OfMade(all, shown[l], l, mk)
    <3>1. \A i \in 1..Len(shown[l]) : shown[l][i] \in mk
      BY <2>1, <2>5 DEF LinkOK, OfMade
    <3>2. ASSUME NEW i \in 1..(N + n), l \in all[i].to
          PROVE  KeyOf(all[i]) \in mk
      <4>1. CASE i \in 1..N
        BY <1>1, <1>8, <2>1, <2>5, <3>2, <4>1 DEF LinkOK, OfMade
      <4>2. CASE ~(i \in 1..N)
        <5>1. PICK c \in 1..n : i = N + c
          BY <1>10, <4>2
        <5> QED BY <2>5, <2>6, <3>2, <5>1
      <4> QED BY <4>1, <4>2
    <3> QED BY <1>7, <3>1, <3>2 DEF OfMade
  <2>9. InTurn(shown[l])
    BY <2>1 DEF LinkOK
  <2> QED BY <2>2, <2>3, <2>7, <2>8, <2>9 DEF LinkOK, AllAccounted
<1> QED BY <1>7, <1>12, <1>13, <1>14

LEMMA SendTextKeeps ==
  ASSUME TextsInv, NEW dest \in SUBSET TextLinks, NEW n \in 1..MaxChunks, SendText(dest, n)
  PROVE  TextsInv'
<1>1. PICK to : to = dest \cap IF updated THEN reachable \ QuietLinks ELSE TextLinks
  OBVIOUS
<1>2. PICK all : all = queue \o [c \in 1..n |-> [text |-> texts + 1, chunk |-> c,
                                                 to |-> to, age |-> 0]]
  OBVIOUS
<1>3. /\ to # {} /\ texts' = texts + 1 /\ queue' = Last(all, Capacity)
      /\ made' = [l \in TextLinks |-> MadeAfter(l, to, n)]
      /\ lost' = [l \in TextLinks |-> lost[l] \cup WaitedFor(l, all, 1..(Len(all) - Capacity))]
      /\ UNCHANGED <<reachable, updated, shown>>
  BY <1>1, <1>2 DEF SendText, MadeAfter
<1>4. to \in SUBSET TextLinks /\ n \in Nat
  BY <1>1
<1>5. /\ all \in Seq(Entries) /\ QueueInOrder(all)
      /\ \A i \in 1..Len(all) : all[i].to # {} /\ all[i].text <= texts + 1
      /\ \A l \in TextLinks : LinkOK(all, shown[l], l, lost[l], MadeAfter(l, to, n))
  BY <1>2, <1>3, <1>4, AddedIs
<1>6. PICK N \in Nat : N = Len(all)
  BY <1>5
<1>7. PICK d \in 0..N : /\ queue' = SubSeq(all, d + 1, N) /\ N - d <= Capacity
                        /\ \A i \in 1..d : i \in 1..(N - Capacity)
  <2>1. Capacity \in Nat
    BY TextAssumption
  <2>2. CASE N > Capacity
    <3>1. /\ N - Capacity \in 0..N /\ N - (N - Capacity) <= Capacity
          /\ \A i \in 1..(N - Capacity) : i \in 1..(N - Capacity)
      BY <2>1, <2>2
    <3>2. queue' = SubSeq(all, (N - Capacity) + 1, N)
      BY <1>3, <1>6, <2>2 DEF Last
    <3> QED BY <3>1, <3>2
  <2>3. CASE ~(N > Capacity)
    <3>1. /\ 0 \in 0..N /\ N - 0 <= Capacity /\ 0 + 1 = 1
          /\ \A i \in 1..0 : i \in 1..(N - Capacity)
      BY <2>1, <2>3
    <3>2. queue' = SubSeq(all, 1, N)
      BY <1>3, <1>6, <2>3 DEF Last
    <3> QED BY <3>1, <3>2
  <2> QED BY <2>2, <2>3
<1>8. /\ queue' \in Seq(Entries) /\ Len(queue') = N - d
      /\ \A i \in 1..(N - d) : d + i \in 1..N /\ queue'[i] = all[d + i]
      /\ QueueInOrder(queue')
  BY <1>5, <1>6, <1>7, SuffixIs
<1>9. TextShape'
  <2>1. \A i \in 1..Len(queue') : queue'[i].to # {} /\ queue'[i].text <= texts'
    BY <1>3, <1>5, <1>6, <1>8
  <2>2. texts' \in Nat /\ Len(queue') <= Capacity
    BY <1>3, <1>7, <1>8 DEF TextsInv, TextShape
  <2>3. ASSUME NEW l \in TextLinks, NEW i \in 1..Len(shown[l])
        PROVE  shown[l][i][1] <= texts'
    <3>1. shown[l][i] \in ChunkKeys /\ shown[l][i][1] <= texts /\ texts \in Nat
      BY DEF TextsInv, TextShape
    <3>2. shown[l][i][1] \in Nat
      BY <3>1, KeyIs
    <3> QED BY <1>3, <3>1, <3>2
  <2>4. made' \in [TextLinks -> SUBSET ChunkKeys]
    <3>1. PICK T \in Nat : T = texts + 1
      BY DEF TextsInv, TextShape
    <3>2. \A l \in TextLinks : MadeAfter(l, to, n) \in SUBSET ChunkKeys
      <4>1. SUFFICES ASSUME NEW l \in TextLinks, NEW key \in MadeAfter(l, to, n)
                     PROVE  key \in ChunkKeys
        OBVIOUS
      <4>2. key \in made[l] \/ \E c \in 1..n : key = <<T, c>>
        BY <3>1 DEF MadeAfter
      <4>3. made[l] \subseteq ChunkKeys
        BY DEF TextsInv, TextShape
      <4>4. \A c \in 1..n : <<T, c>> \in ChunkKeys
        BY DEF ChunkKeys
      <4> QED BY <4>2, <4>3, <4>4
    <3> QED BY <1>3, <3>2
  <2> QED BY <1>3, <1>8, <2>1, <2>2, <2>3, <2>4 DEF TextsInv, TextShape
<1>10. ASSUME NEW l \in TextLinks
       PROVE  LinkOK(queue', shown[l], l, lost'[l], made'[l])
  <2>1. PICK mk : mk = made'[l] /\ LinkOK(all, shown[l], l, lost[l], mk)
    BY <1>3, <1>5
  <2>2. PICK lo2 : lo2 = lost'[l] /\ lo2 = lost[l] \cup WaitedFor(l, all, 1..(N - Capacity))
    BY <1>3, <1>6
  <2>3. lost[l] \subseteq lo2
    BY <2>2
  <2>4. GoneTo(all, l, d, lo2)
    BY <1>7, <2>2 DEF GoneTo, WaitedFor, KeyOf
  <2>5. LinkOK(queue', shown[l], l, lo2, mk)
    BY <1>5, <1>6, <1>7, <2>1, <2>3, <2>4, SuffixKept
  <2> QED BY <2>1, <2>2, <2>5
<1> QED BY <1>3, <1>8, <1>9, <1>10 DEF TextsInv

LEMMA PrunedIs ==
  ASSUME NEW q \in Seq(Entries)
  PROVE  \E d \in 0..Len(q) : /\ Pruned(q) = SubSeq(q, d + 1, Len(q))
                               /\ \A i \in 1..d : q[i].age > MaxAge
<1>1. PICK N \in Nat : N = Len(q)
  OBVIOUS
<1> DEFINE Old(n) == \A i \in 1..n : q[i].age > MaxAge
           Ends == {k \in 0..N : k = N \/ ~Old(k + 1)}
<1>2. N \in Ends /\ Ends \in SUBSET Nat
  BY <1>1
<1>3. PICK d \in Ends : \A k \in Ends : d <= k
  BY <1>2, Minimum
<1>4. Old(d)
  <2>1. SUFFICES ASSUME NEW i \in 1..d PROVE q[i].age > MaxAge
    OBVIOUS
  <2>2. i - 1 \in 0..N /\ ~(d <= i - 1) /\ i - 1 # N /\ (i - 1) + 1 = i /\ i \in 1..i
    BY <1>1, <1>3
  <2>3. i - 1 \notin Ends
    BY <1>3, <2>2
  <2>4. Old((i - 1) + 1)
    BY <2>2, <2>3
  <2> QED BY <2>2, <2>4
<1>5. \E k \in 0..Len(q) : Old(k) /\ (k = Len(q) \/ ~Old(k + 1))
  BY <1>1, <1>3, <1>4
<1> DEFINE n == CHOOSE k \in 0..Len(q) : Old(k) /\ (k = Len(q) \/ ~Old(k + 1))
<1>6. n \in 0..Len(q) /\ Old(n)
  BY <1>5
<1>7. Pruned(q) = SubSeq(q, n + 1, Len(q))
  BY DEF Pruned
<1> QED BY <1>6, <1>7

LEMMA PruneKeeps ==
  ASSUME TextsInv, Prune
  PROVE  TextsInv'
<1>1. PICK q \in Seq(Entries) : q = queue /\ QueueInOrder(q)
  BY DEF TextsInv, TextShape
<1>2. PICK N \in Nat : N = Len(q) /\ N <= Capacity
  BY <1>1 DEF TextsInv, TextShape
<1>3. PICK d \in 0..Len(q) : /\ queue' = SubSeq(q, d + 1, Len(q))
                             /\ \A i \in 1..d : q[i].age > MaxAge
  BY <1>1, PrunedIs DEF Prune
<1>4. /\ lost' = [l \in TextLinks |->
                    lost[l] \cup WaitedFor(l, q, {i \in 1..N : q[i].age > MaxAge})]
      /\ UNCHANGED <<reachable, updated, texts, made, shown>>
  BY <1>1, <1>2 DEF Prune
<1>5. /\ queue' \in Seq(Entries) /\ Len(queue') = N - d
      /\ \A i \in 1..(N - d) : d + i \in 1..N /\ queue'[i] = q[d + i]
      /\ QueueInOrder(queue')
  BY <1>1, <1>2, <1>3, SuffixIs
<1>6. TextShape'
  <2>1. Len(queue') <= Capacity
    BY <1>2, <1>5, TextAssumption
  <2>2. \A i \in 1..Len(queue') : queue'[i].to # {} /\ queue'[i].text <= texts
    BY <1>1, <1>2, <1>5 DEF TextsInv, TextShape
  <2> QED BY <1>4, <1>5, <2>1, <2>2 DEF TextsInv, TextShape
<1>7. ASSUME NEW l \in TextLinks
      PROVE  LinkOK(queue', shown[l], l, lost'[l], made[l])
  <2>1. LinkOK(q, shown[l], l, lost[l], made[l])
    BY <1>1 DEF TextsInv
  <2>2. PICK lo2 : /\ lo2 = lost'[l]
                   /\ lo2 = lost[l] \cup WaitedFor(l, q, {i \in 1..N : q[i].age > MaxAge})
    BY <1>4
  <2>3. \A i \in 1..d : i \in 1..N
    BY <1>2
  <2>4. GoneTo(q, l, d, lo2)
    BY <1>3, <2>2, <2>3 DEF GoneTo, WaitedFor, KeyOf
  <2>5. LinkOK(queue', shown[l], l, lo2, made[l])
    BY <1>1, <1>3, <2>1, <2>2, <2>4, SuffixKept
  <2> QED BY <2>2, <2>5
<1> QED BY <1>4, <1>5, <1>6, <1>7 DEF TextsInv

LEMMA TextTickKeeps ==
  ASSUME TextsInv, TextTick
  PROVE  TextsInv'
<1>1. PICK q \in Seq(Entries) : q = queue /\ QueueInOrder(q)
  BY DEF TextsInv, TextShape
<1>2. PICK N \in Nat : N = Len(q) /\ N <= Capacity
  BY <1>1 DEF TextsInv, TextShape
<1>3. /\ queue' = [i \in 1..N |-> IF q[i].age <= MaxAge THEN [q[i] EXCEPT !.age = @ + 1] ELSE q[i]]
      /\ UNCHANGED <<reachable, updated, texts, made, shown, lost>>
  BY <1>1, <1>2 DEF TextTick
<1>4. PICK r : r = queue'
  OBVIOUS
<1>5. \A i \in 1..N : /\ r[i] \in Entries /\ r[i].to = q[i].to
                      /\ r[i].text = q[i].text /\ r[i].chunk = q[i].chunk
  <2>1. SUFFICES ASSUME NEW i \in 1..N
                 PROVE  /\ r[i] \in Entries /\ r[i].to = q[i].to
                        /\ r[i].text = q[i].text /\ r[i].chunk = q[i].chunk
    OBVIOUS
  <2>2. PICK e \in Entries : e = q[i]
    BY <1>1, <1>2
  <2>3. CASE e.age <= MaxAge
    <3>1. r[i] = [e EXCEPT !.age = e.age + 1]
      BY <1>3, <1>4, <2>2, <2>3
    <3>2. e.age + 1 \in 0..(MaxAge + 1)
      BY <2>3, TextAssumption DEF Entries
    <3> QED BY <2>2, <3>1, <3>2 DEF Entries
  <2>4. CASE ~(e.age <= MaxAge)
    BY <1>3, <1>4, <2>2, <2>4
  <2> QED BY <2>3, <2>4
<1>6. r \in Seq(Entries) /\ Len(r) = N
  <2>1. r \in [1..N -> Entries]
    BY <1>3, <1>4, <1>5
  <2> QED BY <2>1, LenProperties
<1>7. \A i \in 1..N : KeyOf(r[i]) = KeyOf(q[i])
  BY <1>5 DEF KeyOf
<1>8. TextShape'
  <2>1. TextShape /\ q = queue
    BY <1>1 DEF TextsInv
  <2>2. \A i \in 1..N : r[i].to # {} /\ r[i].text <= texts
    BY <1>2, <1>5, <2>1 DEF TextShape
  <2> QED BY <1>2, <1>3, <1>4, <1>6, <2>1, <2>2 DEF TextShape
<1>9. QueueInOrder(r)
  BY <1>1, <1>2, <1>6, <1>7 DEF QueueInOrder
<1>10. ASSUME NEW l \in TextLinks
       PROVE  LinkOK(r, shown[l], l, lost[l], made[l])
  <2>1. LinkOK(q, shown[l], l, lost[l], made[l])
    BY <1>1 DEF TextsInv
  <2>2. \A key : Waits(q, l, key) => Waits(r, l, key)
    BY <1>2, <1>5, <1>6, <1>7 DEF Waits
  <2>3. ShownFirst(r, shown[l], l)
    BY <1>2, <1>5, <1>6, <1>7, <2>1 DEF LinkOK, ShownFirst
  <2>4. AllAccounted(r, shown[l], l, lost[l], made[l])
    BY <2>1, <2>2 DEF LinkOK, AllAccounted, Accounted
  <2>5. OfMade(r, shown[l], l, made[l])
    BY <1>2, <1>5, <1>6, <1>7, <2>1 DEF LinkOK, OfMade
  <2> QED BY <2>1, <2>3, <2>4, <2>5 DEF LinkOK
<1> QED BY <1>3, <1>4, <1>8, <1>9, <1>10 DEF TextsInv

(* Picked() keeps the order and the elements at the places it is given.    *)
LEMMA PickedIs ==
  ASSUME NEW T, NEW es \in Seq(T), NEW s \in SUBSET (1..Len(es)), NEW p, p = Picked(es, s)
  PROVE  /\ p \in Seq(T) /\ Len(p) = Cardinality(s) /\ Len(p) <= Len(es)
         /\ \A m \in 1..Len(p) : NthOf(s, m) \in s /\ p[m] = es[NthOf(s, m)]
         /\ \A m, n \in 1..Len(p) : m < n => NthOf(s, m) < NthOf(s, n)
         /\ \A i \in s : \E m \in 1..Len(p) : NthOf(s, m) = i
<1>1. PICK N \in Nat : N = Len(es)
  OBVIOUS
<1>2. IsFiniteSet(1..N) /\ Cardinality(1..N) = N
  <2>1. /\ IsFiniteSet(1..N)
        /\ Cardinality(1..N) = IF 1 > N THEN 0 ELSE N - 1 + 1
    BY FS_Interval
  <2> QED BY <2>1
<1>3. IsFiniteSet(s) /\ Cardinality(s) \in Nat /\ Cardinality(s) <= N
  BY <1>1, <1>2, FS_Subset, FS_CardinalityType
<1>4. s \in SUBSET Nat
  <2>1. 1..N \subseteq Nat
    OBVIOUS
  <2> QED BY <1>1, <2>1
<1>5. PICK C \in Nat : C = Cardinality(s)
  BY <1>3
<1>6. p = [m \in 1..C |-> es[NthOf(s, m)]]
  BY <1>5 DEF Picked, NthOf, Rank, Below
<1>7. \A m \in 1..C : NthOf(s, m) \in s
  BY <1>3, <1>4, <1>5, NthIs
<1>8. p \in Seq(T) /\ Len(p) = C
  <2>1. \A i \in s : es[i] \in T
    OBVIOUS
  <2>2. p \in [1..C -> T]
    BY <1>6, <1>7, <2>1
  <2> QED BY <2>2, LenProperties
<1>9. \A m, n \in 1..C : m < n => NthOf(s, m) < NthOf(s, n)
  BY <1>3, <1>4, <1>5, NthAscends
<1>10. \A i \in s : \E m \in 1..C : NthOf(s, m) = i
  BY <1>3, <1>4, <1>5, NthReaches
<1> QED BY <1>1, <1>3, <1>5, <1>6, <1>7, <1>8, <1>9, <1>10

(* A link is served from the front of what it waits for.                   *)
FromTheFront(q, s, l) ==
    /\ \A i \in s : i \in 1..Len(q) /\ l \in q[i].to
    /\ \A i \in s, j \in 1..Len(q) : j < i /\ l \in q[j].to => j \in s

LEMMA ServedIs ==
  ASSUME TextsInv, NEW l, NEW k \in Nat
  PROVE  FromTheFront(queue, Served(l, k), l)
<1>1. PICK N \in Nat : N = Len(queue)
  BY DEF TextsInv, TextShape
<1>2. ASSUME NEW i \in Served(l, k), NEW j \in 1..N, j < i, l \in queue[j].to
      PROVE  j \in Served(l, k)
  <2>1. i \in 1..N /\ Cardinality({x \in 1..i : l \in queue[x].to}) <= k
    BY <1>1 DEF Served
  <2>2. \A x \in 1..j : x \in 1..i
    BY <1>2, <2>1
  <2>3. {x \in 1..j : l \in queue[x].to} \subseteq {x \in 1..i : l \in queue[x].to}
    BY <2>2
  <2>4. IsFiniteSet({x \in 1..i : l \in queue[x].to})
    <3>1. IsFiniteSet(1..i)
      BY <2>1, FS_Interval
    <3>2. {x \in 1..i : l \in queue[x].to} \subseteq 1..i
      OBVIOUS
    <3> QED BY <3>1, <3>2, FS_Subset
  <2>5. /\ Cardinality({x \in 1..j : l \in queue[x].to})
             <= Cardinality({x \in 1..i : l \in queue[x].to})
        /\ Cardinality({x \in 1..j : l \in queue[x].to}) \in Nat
        /\ Cardinality({x \in 1..i : l \in queue[x].to}) \in Nat
    BY <2>3, <2>4, FS_Subset, FS_CardinalityType
  <2>6. Cardinality({x \in 1..j : l \in queue[x].to}) <= k
    BY <2>1, <2>5
  <2> QED BY <1>1, <1>2, <2>6 DEF Served
<1> QED BY <1>1, <1>2 DEF Served, FromTheFront

(* What serving link l, at the places in s, leaves in the queue.           *)
Remains(r, q, s, l) ==
    /\ \A m \in 1..Len(r) : \E i \in 1..Len(q) :
          /\ r[m].text = q[i].text /\ r[m].chunk = q[i].chunk
          /\ \A x \in r[m].to : x \in q[i].to /\ (x = l => i \notin s)
    /\ \A i \in 1..Len(q) : \A x \in q[i].to : (x # l \/ i \notin s) =>
          \E m \in 1..Len(r) : /\ x \in r[m].to
                               /\ r[m].text = q[i].text /\ r[m].chunk = q[i].chunk

LEMMA OthersKept ==
  ASSUME NEW q, NEW r, NEW s, NEW l, Remains(r, q, s, l),
         NEW x, x # l, NEW sh, NEW lo, NEW mk, LinkOK(q, sh, x, lo, mk)
  PROVE  LinkOK(r, sh, x, lo, mk)
<1>1. \A key : Waits(q, x, key) => Waits(r, x, key)
  BY DEF Remains, Waits, KeyOf
<1>2. ShownFirst(r, sh, x)
  BY DEF Remains, LinkOK, ShownFirst, KeyOf
<1>3. AllAccounted(r, sh, x, lo, mk)
  BY <1>1 DEF LinkOK, AllAccounted, Accounted
<1>4. OfMade(r, sh, x, mk)
  <2>1. ASSUME NEW m \in 1..Len(r), x \in r[m].to
        PROVE  KeyOf(r[m]) \in mk
    <3>1. PICK i \in 1..Len(q) : /\ r[m].text = q[i].text /\ r[m].chunk = q[i].chunk
                                 /\ x \in q[i].to
      BY <2>1 DEF Remains
    <3>2. KeyOf(q[i]) \in mk /\ KeyOf(r[m]) = KeyOf(q[i])
      BY <3>1 DEF LinkOK, OfMade, KeyOf
    <3> QED BY <3>2
  <2> QED BY <2>1 DEF LinkOK, OfMade
<1> QED BY <1>2, <1>3, <1>4 DEF LinkOK

\* Of what t shows some was shown before, and the rest is of the queue.
ComesFrom(t, sh, q) ==
    \A i \in 1..Len(t) : \/ \E j \in 1..Len(sh) : t[i] = sh[j]
                         \/ \E j \in 1..Len(q) : t[i] = KeyOf(q[j])

KeysOf(q) == [i \in 1..Len(q) |-> KeyOf(q[i])]

LEMMA OwnServed ==
  ASSUME NEW q \in Seq(Entries), QueueInOrder(q), NEW s, NEW l, FromTheFront(q, s, l),
         NEW r, Remains(r, q, s, l),
         NEW sh \in Seq(ChunkKeys), NEW lo, NEW mk, LinkOK(q, sh, l, lo, mk),
         NEW p, p = Picked(KeysOf(q), s)
  PROVE  /\ sh \o p \in Seq(ChunkKeys) /\ LinkOK(r, sh \o p, l, lo, mk)
         /\ ComesFrom(sh \o p, sh, q)
<1>1. PICK N \in Nat : N = Len(q)
  OBVIOUS
<1>2. PICK keys : keys = KeysOf(q) /\ keys = [i \in 1..N |-> KeyOf(q[i])]
  BY <1>1 DEF KeysOf
<1>3. \A i \in 1..N : /\ q[i] \in Entries /\ keys[i] = KeyOf(q[i]) /\ keys[i] \in ChunkKeys
                      /\ keys[i][1] = q[i].text /\ keys[i][2] = q[i].chunk
  BY <1>1, <1>2, KeyParts
<1>4. keys \in Seq(ChunkKeys) /\ Len(keys) = N
  <2>1. keys \in [1..N -> ChunkKeys]
    BY <1>2, <1>3
  <2> QED BY <2>1, LenProperties
<1>5. s \in SUBSET (1..N)
  BY <1>1 DEF FromTheFront
<1>6. PICK M \in Nat : M = Len(p)
  <2>1. p = Picked(keys, s) /\ s \in SUBSET (1..Len(keys))
    BY <1>1, <1>2, <1>4, <1>5
  <2>2. p \in Seq(ChunkKeys)
    BY <1>4, <2>1, PickedIs
  <2> QED BY <2>2, LenProperties
<1>7. PICK at : at = [m \in 1..M |-> NthOf(s, m)]
  OBVIOUS
<1>8. /\ p \in Seq(ChunkKeys)
      /\ \A m \in 1..M : at[m] \in s /\ at[m] \in 1..N /\ p[m] = keys[at[m]]
      /\ \A m, n \in 1..M : m < n => at[m] < at[n]
      /\ \A i \in s : \E m \in 1..M : at[m] = i
  <2>1. /\ p \in Seq(ChunkKeys)
        /\ \A m \in 1..M : NthOf(s, m) \in s /\ p[m] = keys[NthOf(s, m)]
        /\ \A m, n \in 1..M : m < n => NthOf(s, m) < NthOf(s, n)
        /\ \A i \in s : \E m \in 1..M : NthOf(s, m) = i
    <3>1. p = Picked(keys, s) /\ s \in SUBSET (1..Len(keys))
      BY <1>1, <1>2, <1>4, <1>5
    <3>2. p \in Seq(ChunkKeys)
      BY <1>4, <3>1, PickedIs
    <3>3. \A m \in 1..Len(p) : NthOf(s, m) \in s /\ p[m] = keys[NthOf(s, m)]
      BY <1>4, <3>1, PickedIs
    <3>4. \A m, n \in 1..Len(p) : m < n => NthOf(s, m) < NthOf(s, n)
      BY <1>4, <3>1, PickedIs
    <3>5. \A i \in s : \E m \in 1..Len(p) : NthOf(s, m) = i
      <4>1. IsFiniteSet(s) /\ s \in SUBSET Nat /\ Len(p) = Cardinality(s)
        <5>1. IsFiniteSet(1..N) /\ 1..N \subseteq Nat
          BY FS_Interval
        <5>2. IsFiniteSet(s) /\ s \in SUBSET Nat
          BY <1>5, <5>1, FS_Subset
        <5>3. Len(p) = Cardinality(s)
          BY <1>4, <3>1, PickedIs
        <5> QED BY <5>2, <5>3
      <4> QED BY <4>1, NthReaches
    <3> QED BY <1>6, <3>2, <3>3, <3>4, <3>5
  <2> QED BY <1>5, <1>7, <2>1
<1>9. PICK K \in Nat : K = Len(sh)
  OBVIOUS
<1>10. PICK t : t = sh \o p
  OBVIOUS
<1>11. /\ t \in Seq(ChunkKeys) /\ Len(t) = K + M
       /\ \A i \in 1..K : t[i] = sh[i]
       /\ \A m \in 1..M : t[K + m] = p[m]
  <2>1. /\ t \in Seq(ChunkKeys) /\ Len(t) = Len(sh) + Len(p)
        /\ \A i \in 1..(Len(sh) + Len(p)) :
              t[i] = IF i <= Len(sh) THEN sh[i] ELSE p[i - Len(sh)]
    BY <1>8, <1>10, ConcatProperties
  <2>2. \A i \in 1..K : i \in 1..(K + M) /\ i <= K
    OBVIOUS
  <2>3. \A m \in 1..M : K + m \in 1..(K + M) /\ ~(K + m <= K) /\ (K + m) - K = m
    OBVIOUS
  <2>4. /\ Len(t) = K + M
        /\ \A i \in 1..(K + M) : t[i] = IF i <= K THEN sh[i] ELSE p[i - K]
    BY <1>6, <1>9, <2>1
  <2>5. \A i \in 1..K : t[i] = sh[i]
    BY <2>2, <2>4
  <2>6. \A m \in 1..M : t[K + m] = p[m]
    BY <2>3, <2>4
  <2> QED BY <2>1, <2>4, <2>5, <2>6
<1>12. \A i \in 1..(K + M) : i \in 1..K \/ \E m \in 1..M : i = K + m
  <2>1. \A i \in 1..(K + M) : i \in 1..K \/ (i - K \in 1..M /\ i = K + (i - K))
    OBVIOUS
  <2> QED BY <2>1
<1>13. \A i, j \in 1..N : i < j => Earlier(keys[i], keys[j])
  BY <1>1, <1>3 DEF QueueInOrder
<1>14. \A i \in 1..K, j \in 1..N : l \in q[j].to => Earlier(sh[i], keys[j])
  BY <1>1, <1>3, <1>9 DEF LinkOK, ShownFirst
<1>15. \A m \in 1..M : l \in q[at[m]].to
  BY <1>8 DEF FromTheFront
<1>16. \A i \in s, j \in 1..N : l \in q[j].to /\ j \notin s => i < j
  <2>1. \A i \in s, j \in 1..N : i \in 1..N /\ (l \in q[j].to /\ j \notin s => ~(j < i) /\ j # i)
    BY <1>1, <1>5 DEF FromTheFront
  <2> QED BY <2>1
<1>17. ShownFirst(r, t, l)
  <2>1. ASSUME NEW i \in 1..(K + M), NEW m \in 1..Len(r), l \in r[m].to
        PROVE  Earlier(t[i], KeyOf(r[m]))
    <3>1. PICK j \in 1..N : /\ r[m].text = q[j].text /\ r[m].chunk = q[j].chunk
                            /\ l \in q[j].to /\ j \notin s
      BY <1>1, <2>1 DEF Remains
    <3>2. KeyOf(r[m]) = keys[j]
      BY <1>3, <3>1 DEF KeyOf
    <3>3. CASE i \in 1..K
      BY <1>11, <1>14, <3>1, <3>2, <3>3
    <3>4. CASE ~(i \in 1..K)
      <4>1. PICK n \in 1..M : i = K + n
        BY <1>12, <3>4
      <4>2. at[n] < j /\ t[i] = keys[at[n]] /\ at[n] \in 1..N
        BY <1>8, <1>11, <1>16, <3>1, <4>1
      <4> QED BY <1>13, <3>2, <4>2
    <3> QED BY <3>3, <3>4
  <2> QED BY <1>11, <2>1 DEF ShownFirst
<1>18. \A i \in s : \E m \in 1..(K + M) : t[m] = keys[i]
  <2>1. ASSUME NEW i \in s
        PROVE  \E m \in 1..(K + M) : t[m] = keys[i]
    <3>1. PICK m \in 1..M : at[m] = i
      BY <1>8
    <3>2. K + m \in 1..(K + M) /\ t[K + m] = keys[i]
      BY <1>8, <1>11, <3>1
    <3> QED BY <3>2
  <2> QED BY <2>1
<1>19. AllAccounted(r, t, l, lo, mk)
  <2>1. ASSUME NEW key \in mk
        PROVE  Accounted(r, t, l, key, lo)
    <3>1. Accounted(q, sh, l, key, lo)
      BY DEF LinkOK, AllAccounted
    <3>2. CASE IsShown(sh, key)
      <4>1. \A j \in 1..K : j \in 1..(K + M)
        OBVIOUS
      <4> QED BY <1>9, <1>11, <3>2, <4>1 DEF Accounted, IsShown
    <3>3. CASE Waits(q, l, key)
      <4>1. PICK j \in 1..N : l \in q[j].to /\ KeyOf(q[j]) = key
        BY <1>1, <3>3 DEF Waits
      <4>2. CASE j \in s
        <5>1. IsShown(t, key)
          BY <1>3, <1>11, <1>18, <4>1, <4>2 DEF IsShown
        <5> QED BY <5>1 DEF Accounted
      <4>3. CASE j \notin s
        <5>1. Waits(r, l, key)
          BY <1>1, <4>1, <4>3 DEF Remains, Waits, KeyOf
        <5> QED BY <5>1 DEF Accounted
      <4> QED BY <4>2, <4>3
    <3> QED BY <3>1, <3>2, <3>3 DEF Accounted
  <2> QED BY <2>1 DEF AllAccounted
<1>20. \A i, j \in 1..(K + M) : i < j => Earlier(t[i], t[j])
  <2>1. SUFFICES ASSUME NEW i \in 1..(K + M), NEW j \in 1..(K + M), i < j
                 PROVE  Earlier(t[i], t[j])
    OBVIOUS
  <2>2. CASE i \in 1..K /\ j \in 1..K
    BY <1>9, <1>11, <2>1, <2>2 DEF LinkOK, InTurn
  <2>3. CASE i \in 1..K /\ ~(j \in 1..K)
    <3>1. PICK n \in 1..M : j = K + n
      BY <1>12, <2>3
    <3>2. t[i] = sh[i] /\ t[j] = keys[at[n]] /\ at[n] \in 1..N /\ l \in q[at[n]].to
      BY <1>8, <1>11, <1>15, <2>3, <3>1
    <3> QED BY <1>14, <2>3, <3>2
  <2>4. CASE ~(i \in 1..K)
    <3>1. PICK m \in 1..M : i = K + m
      BY <1>12, <2>4
    <3>2. ~(j \in 1..K)
      BY <2>1, <2>4
    <3>3. PICK n \in 1..M : j = K + n
      BY <1>12, <3>2
    <3>4. m < n
      BY <2>1, <3>1, <3>3
    <3>5. at[m] < at[n] /\ t[i] = keys[at[m]] /\ t[j] = keys[at[n]]
      BY <1>8, <1>11, <3>1, <3>3, <3>4
    <3> QED BY <1>8, <1>13, <3>5
  <2> QED BY <2>2, <2>3, <2>4
<1>21. InTurn(t)
  BY <1>11, <1>20 DEF InTurn
<1>22. OfMade(r, t, l, mk)
  <2>1. ASSUME NEW i \in 1..(K + M)
        PROVE  t[i] \in mk
    <3>1. CASE i \in 1..K
      BY <1>9, <1>11, <3>1 DEF LinkOK, OfMade
    <3>2. CASE ~(i \in 1..K)
      <4>1. PICK m \in 1..M : i = K + m
        BY <1>12, <3>2
      <4>2. at[m] \in 1..N /\ t[i] = keys[at[m]] /\ l \in q[at[m]].to
        BY <1>8, <1>11, <1>15, <4>1
      <4>3. PICK a \in 1..N : t[i] = KeyOf(q[a]) /\ l \in q[a].to
        BY <1>3, <4>2
      <4> QED BY <1>1, <4>3 DEF LinkOK, OfMade
    <3> QED BY <3>1, <3>2
  <2>2. ASSUME NEW m \in 1..Len(r), l \in r[m].to
        PROVE  KeyOf(r[m]) \in mk
    <3>1. PICK i \in 1..N : /\ r[m].text = q[i].text /\ r[m].chunk = q[i].chunk
                            /\ l \in q[i].to
      BY <1>1, <2>2 DEF Remains
    <3>2. KeyOf(q[i]) \in mk /\ KeyOf(r[m]) = KeyOf(q[i])
      BY <1>1, <3>1 DEF LinkOK, OfMade, KeyOf
    <3> QED BY <3>2
  <2> QED BY <1>11, <2>1, <2>2 DEF OfMade
<1>23. ASSUME NEW i \in 1..(K + M)
       PROVE  (\E j \in 1..K : t[i] = sh[j]) \/ (\E j \in 1..N : t[i] = KeyOf(q[j]))
  <2>1. CASE i \in 1..K
    BY <1>11, <2>1
  <2>2. CASE ~(i \in 1..K)
    <3>1. PICK m \in 1..M : i = K + m
      BY <1>12, <2>2
    <3>2. at[m] \in 1..N /\ t[i] = keys[at[m]]
      BY <1>8, <1>11, <3>1
    <3> QED BY <1>3, <3>2
  <2> QED BY <2>1, <2>2
<1>24. LinkOK(r, t, l, lo, mk)
  BY <1>17, <1>19, <1>21, <1>22 DEF LinkOK
<1> QED BY <1>1, <1>9, <1>10, <1>11, <1>23, <1>24 DEF ComesFrom

LEMMA ServiceKeeps ==
  ASSUME TextsInv, NEW l \in TextLinks, NEW k \in 1..Capacity, ServiceStatustext(l, k)
  PROVE  TextsInv'
<1>1. PICK q \in Seq(Entries) : q = queue /\ QueueInOrder(q)
  BY DEF TextsInv, TextShape
<1>2. PICK N \in Nat : N = Len(q) /\ N <= Capacity
  BY <1>1 DEF TextsInv, TextShape
<1>3. PICK s : s = Served(l, k) /\ FromTheFront(q, s, l) /\ s \in SUBSET (1..N)
  <2>1. k \in Nat
    OBVIOUS
  <2>2. FromTheFront(q, Served(l, k), l)
    BY <1>1, <2>1, ServedIs
  <2> QED BY <1>2, <2>2 DEF FromTheFront
<1>4. PICK after : after = [i \in 1..N |-> IF i \in s THEN [q[i] EXCEPT !.to = @ \ {l}] ELSE q[i]]
  OBVIOUS
<1>5. PICK keep : keep = {i \in 1..N : after[i].to # {}}
  OBVIOUS
<1>6. PICK p : p = Picked([i \in 1..N |-> KeyOf(q[i])], s)
  OBVIOUS
<1>7. PICK r : r = Picked(after, keep)
  OBVIOUS
<1>8. /\ queue' = r /\ shown' = [shown EXCEPT ![l] = shown[l] \o p]
      /\ UNCHANGED <<reachable, updated, texts, made, lost>>
  BY <1>1, <1>2, <1>3, <1>4, <1>5, <1>6, <1>7 DEF ServiceStatustext, Stays, KeyOf
<1>9. ASSUME NEW i \in 1..N
      PROVE  /\ after[i] \in Entries
             /\ after[i].text = q[i].text /\ after[i].chunk = q[i].chunk
             /\ after[i].to = IF i \in s THEN q[i].to \ {l} ELSE q[i].to
  <2>1. PICK e \in Entries : e = q[i]
    BY <1>2
  <2>2. CASE i \in s
    <3>1. after[i] = [e EXCEPT !.to = e.to \ {l}]
      BY <1>4, <2>1, <2>2
    <3>2. e.to \ {l} \in SUBSET TextLinks
      BY DEF Entries
    <3> QED BY <2>1, <2>2, <3>1, <3>2 DEF Entries
  <2>3. CASE i \notin s
    BY <1>4, <2>1, <2>3
  <2> QED BY <2>2, <2>3
<1>10. after \in Seq(Entries) /\ Len(after) = N
  <2>1. after \in [1..N -> Entries]
    BY <1>4, <1>9
  <2> QED BY <2>1, LenProperties
<1>11. keep \in SUBSET (1..Len(after))
  BY <1>5, <1>10
<1>12. PICK R \in Nat : R = Len(r)
  <2>1. r \in Seq(Entries)
    BY <1>7, <1>10, <1>11, PickedIs
  <2> QED BY <2>1, LenProperties
<1>13. PICK at : at = [m \in 1..R |-> NthOf(keep, m)]
  OBVIOUS
<1>14. /\ r \in Seq(Entries) /\ R <= N
       /\ \A m \in 1..R : at[m] \in keep /\ at[m] \in 1..N /\ r[m] = after[at[m]]
       /\ \A m, n \in 1..R : m < n => at[m] < at[n]
       /\ \A i \in keep : \E m \in 1..R : at[m] = i
  <2>1. r \in Seq(Entries) /\ Len(r) = Cardinality(keep) /\ Len(r) <= Len(after)
    BY <1>7, <1>10, <1>11, PickedIs
  <2>2. \A m \in 1..Len(r) : NthOf(keep, m) \in keep /\ r[m] = after[NthOf(keep, m)]
    BY <1>7, <1>10, <1>11, PickedIs
  <2>3. \A m, n \in 1..Len(r) : m < n => NthOf(keep, m) < NthOf(keep, n)
    BY <1>7, <1>10, <1>11, PickedIs
  <2>4. \A i \in keep : \E m \in 1..Len(r) : NthOf(keep, m) = i
    <3>1. IsFiniteSet(1..N) /\ 1..N \subseteq Nat
      BY FS_Interval
    <3>2. IsFiniteSet(keep) /\ keep \in SUBSET Nat
      BY <1>5, <3>1, FS_Subset
    <3> QED BY <2>1, <3>2, NthReaches
  <2>5. \A m \in 1..R : at[m] = NthOf(keep, m)
    BY <1>13
  <2>6. keep \subseteq 1..N
    BY <1>5
  <2>7. r \in Seq(Entries) /\ R <= N
    BY <1>10, <1>12, <2>1
  <2>8. \A m \in 1..R : at[m] \in keep /\ at[m] \in 1..N /\ r[m] = after[at[m]]
    BY <1>12, <2>2, <2>5, <2>6
  <2>9. \A m, n \in 1..R : m < n => at[m] < at[n]
    BY <1>12, <2>3, <2>5
  <2>10. \A i \in keep : \E m \in 1..R : at[m] = i
    BY <1>12, <2>4, <2>5
  <2> QED BY <2>7, <2>8, <2>9, <2>10
<1>15. QueueInOrder(r)
  <2>1. ASSUME NEW m \in 1..R, NEW n \in 1..R, m < n
        PROVE  Earlier(KeyOf(r[m]), KeyOf(r[n]))
    <3>1. Earlier(KeyOf(q[at[m]]), KeyOf(q[at[n]]))
      BY <1>1, <1>2, <1>14, <2>1 DEF QueueInOrder
    <3>2. KeyOf(r[m]) = KeyOf(q[at[m]]) /\ KeyOf(r[n]) = KeyOf(q[at[n]])
      BY <1>9, <1>14 DEF KeyOf
    <3> QED BY <3>1, <3>2
  <2> QED BY <1>12, <2>1 DEF QueueInOrder
<1>16. Remains(r, q, s, l)
  <2>1. ASSUME NEW m \in 1..R
        PROVE  \E i \in 1..N : /\ r[m].text = q[i].text /\ r[m].chunk = q[i].chunk
                               /\ \A x \in r[m].to : x \in q[i].to /\ (x = l => i \notin s)
    <3>1. PICK i \in 1..N : i = at[m] /\ r[m] = after[i]
      BY <1>14
    <3>2. \A x \in after[i].to : x \in q[i].to /\ (x = l => i \notin s)
      BY <1>9
    <3>3. r[m].text = q[i].text /\ r[m].chunk = q[i].chunk
      BY <1>9, <3>1
    <3>4. \A x \in r[m].to : x \in q[i].to /\ (x = l => i \notin s)
      BY <3>1, <3>2
    <3> QED BY <3>3, <3>4
  <2>2. ASSUME NEW i \in 1..N, NEW x \in q[i].to, x # l \/ i \notin s
        PROVE  \E m \in 1..R : /\ x \in r[m].to
                               /\ r[m].text = q[i].text /\ r[m].chunk = q[i].chunk
    <3>1. x \in after[i].to
      BY <1>9, <2>2
    <3>2. i \in keep
      BY <1>5, <3>1
    <3>3. PICK m \in 1..R : at[m] = i
      BY <1>14, <3>2
    <3>4. r[m] = after[i]
      BY <1>14, <3>3
    <3> QED BY <1>9, <3>1, <3>4
  <2> QED BY <1>2, <1>12, <2>1, <2>2 DEF Remains
<1>17. ASSUME NEW x \in TextLinks
       PROVE  LinkOK(queue, shown[x], x, lost[x], made[x]) /\ shown[x] \in Seq(ChunkKeys)
  BY DEF TextsInv, TextShape
<1>18. /\ shown[l] \o p \in Seq(ChunkKeys) /\ LinkOK(r, shown[l] \o p, l, lost[l], made[l])
       /\ ComesFrom(shown[l] \o p, shown[l], q)
  <2>1. p = Picked(KeysOf(q), s)
    BY <1>2, <1>6 DEF KeysOf
  <2>2. PICK sh \in Seq(ChunkKeys) : sh = shown[l] /\ LinkOK(q, sh, l, lost[l], made[l])
    BY <1>1, <1>17
  <2>3. /\ sh \o p \in Seq(ChunkKeys) /\ LinkOK(r, sh \o p, l, lost[l], made[l])
        /\ ComesFrom(sh \o p, sh, q)
    BY <1>1, <1>3, <1>16, <2>1, <2>2, OwnServed
  <2> QED BY <2>2, <2>3
<1>19. ASSUME NEW x \in TextLinks
       PROVE  LinkOK(r, shown'[x], x, lost[x], made[x]) /\ shown'[x] \in Seq(ChunkKeys)
  <2>1. CASE x = l
    <3>1. shown'[x] = shown[l] \o p
      BY <1>8, <2>1 DEF TextsInv, TextShape
    <3> QED BY <1>18, <2>1, <3>1
  <2>2. CASE x # l
    <3>1. shown'[x] = shown[x]
      BY <1>8, <2>2 DEF TextsInv, TextShape
    <3>2. LinkOK(q, shown[x], x, lost[x], made[x])
      BY <1>1, <1>17
    <3>3. LinkOK(r, shown[x], x, lost[x], made[x])
      BY <1>16, <2>2, <3>2, OthersKept
    <3> QED BY <1>17, <3>1, <3>3
  <2> QED BY <2>1, <2>2
<1>20. TextShape'
  <2>1. \A m \in 1..R : r[m].to # {} /\ r[m].text <= texts
    <3>1. SUFFICES ASSUME NEW m \in 1..R PROVE r[m].to # {} /\ r[m].text <= texts
      OBVIOUS
    <3>2. at[m] \in 1..N /\ r[m].to # {} /\ r[m].text = q[at[m]].text
      BY <1>5, <1>9, <1>14
    <3>3. q[at[m]].text <= texts
      BY <1>1, <1>2, <3>2 DEF TextsInv, TextShape
    <3> QED BY <3>2, <3>3
  <2>2. ASSUME NEW x \in TextLinks, NEW i \in 1..Len(shown'[x])
        PROVE  shown'[x][i][1] <= texts
    <3>1. CASE x = l
      <4>1. PICK t : t = shown[l] \o p
        OBVIOUS
      <4>2. shown'[x] = t
        BY <1>8, <3>1, <4>1 DEF TextsInv, TextShape
      <4>3. CASE \E j \in 1..Len(shown[l]) : t[i] = shown[l][j]
        BY <4>2, <4>3 DEF TextsInv, TextShape
      <4>4. CASE \E j \in 1..Len(q) : t[i] = KeyOf(q[j])
        <5>1. PICK j \in 1..Len(q) : t[i] = KeyOf(q[j])
          BY <4>4
        <5>2. t[i][1] = q[j].text
          BY <5>1 DEF KeyOf
        <5> QED BY <1>1, <4>2, <5>2 DEF TextsInv, TextShape
      <4> QED BY <1>18, <2>2, <4>1, <4>2, <4>3, <4>4 DEF ComesFrom
    <3>2. CASE x # l
      <4>1. shown'[x] = shown[x]
        BY <1>8, <3>2 DEF TextsInv, TextShape
      <4> QED BY <2>2, <4>1 DEF TextsInv, TextShape
    <3> QED BY <3>1, <3>2
  <2>3. shown' \in [TextLinks -> Seq(ChunkKeys)]
    <3>1. \A x \in TextLinks : shown'[x] \in Seq(ChunkKeys)
      BY <1>19
    <3>2. shown' = [x \in TextLinks |-> shown'[x]]
      BY <1>8 DEF TextsInv, TextShape
    <3> QED BY <3>1, <3>2
  <2>4. Len(r) <= Capacity
    BY <1>2, <1>12, <1>14, TextAssumption
  <2> QED BY <1>8, <1>12, <1>14, <2>1, <2>2, <2>3, <2>4 DEF TextsInv, TextShape
<1> QED BY <1>8, <1>15, <1>19, <1>20 DEF TextsInv

LEMMA TextsInvNext ==
  ASSUME TextsInv, [TextsNext]_textVars
  PROVE  TextsInv'
<1>1. ASSUME NEW dest \in SUBSET TextLinks, NEW n \in 1..MaxChunks, SendText(dest, n)
      PROVE  TextsInv'
  BY <1>1, SendTextKeeps
<1>2. ASSUME NEW l \in TextLinks, Reach(l)
      PROVE  TextsInv'
  <2>1. UNCHANGED TextListVars /\ reachable' = reachable \cup {l} /\ updated' = updated
    BY <1>2 DEF Reach, TextListVars
  <2>2. reachable \in SUBSET TextLinks /\ updated \in BOOLEAN
    BY DEF TextsInv, TextShape
  <2> QED BY <2>1, <2>2, TextsUnchanged
<1>3. ASSUME NEW l \in TextLinks, NEW k \in 1..Capacity, ServiceStatustext(l, k)
      PROVE  TextsInv'
  BY <1>3, ServiceKeeps
<1>4. CASE Prune
  BY <1>4, PruneKeeps
<1>5. CASE TextTick
  BY <1>5, TextTickKeeps
<1>6. CASE UNCHANGED textVars
  <2>1. UNCHANGED TextListVars /\ reachable' = reachable /\ updated' = updated
    BY <1>6 DEF textVars, TextListVars
  <2>2. reachable \in SUBSET TextLinks /\ updated \in BOOLEAN
    BY DEF TextsInv, TextShape
  <2> QED BY <2>1, <2>2, TextsUnchanged
<1>7. CASE UpdateSend
  <2>1. UNCHANGED TextListVars /\ reachable' = reachable /\ updated' = TRUE
    BY <1>7 DEF UpdateSend, TextListVars
  <2>2. reachable \in SUBSET TextLinks
    BY DEF TextsInv, TextShape
  <2> QED BY <2>1, <2>2, TextsUnchanged
<1> QED BY <1>1, <1>2, <1>3, <1>4, <1>5, <1>6, <1>7 DEF TextsNext

LEMMA TextsInvariant == TextsSpec => []TextsInv
BY TextsInvInit, TextsInvNext, PTL DEF TextsSpec

(* Each link is sent what was made for it, in order, a chunk once, and of  *)
(* what was made before a chunk it got it misses only what was overwritten *)
(* or too old, for any links, texts and length of the queue (send_textv(), *)
(* service_statustext(), prune()).                                         *)
THEOREM TextsAreInOrder == TextsSpec => []TextsInOrder
<1>1. ASSUME TextsInv
      PROVE  TextsInOrder
  <2>1. ASSUME NEW l \in TextLinks, NEW j \in 1..Len(shown[l])
        PROVE  /\ shown[l][j] \in made[l]
               /\ \A i \in 1..(j - 1) : Earlier(shown[l][i], shown[l][j])
               /\ \A key \in made[l] : Earlier(key, shown[l][j]) =>
                     key \in lost[l] \/ \E i \in 1..(j - 1) : shown[l][i] = key
    <3>1. PICK K \in Nat : K = Len(shown[l])
      BY <1>1 DEF TextsInv, TextShape
    <3>2. \A i \in 1..K : shown[l][i] \in ChunkKeys
      BY <1>1, <3>1 DEF TextsInv, TextShape
    <3>3. LinkOK(queue, shown[l], l, lost[l], made[l])
      BY <1>1 DEF TextsInv
    <3>4. shown[l][j] \in made[l]
      BY <3>3 DEF LinkOK, OfMade
    <3>5. \A a, b \in 1..K : a < b => Earlier(shown[l][a], shown[l][b])
      BY <3>1, <3>3 DEF LinkOK, InTurn
    <3>6. \A i \in 1..(j - 1) : i \in 1..K /\ i < j
      BY <3>1
    <3>7. \A i \in 1..(j - 1) : Earlier(shown[l][i], shown[l][j])
      BY <3>1, <3>5, <3>6
    <3>8. ASSUME NEW key \in made[l], Earlier(key, shown[l][j]), key \notin lost[l]
          PROVE  \E i \in 1..(j - 1) : shown[l][i] = key
      <4>1. key \in ChunkKeys /\ shown[l][j] \in ChunkKeys
        BY <1>1, <3>1, <3>2 DEF TextsInv, TextShape
      <4>2. IsShown(shown[l], key) \/ Waits(queue, l, key)
        BY <3>3, <3>8 DEF LinkOK, AllAccounted, Accounted
      <4>3. ~Waits(queue, l, key)
        <5>1. ASSUME NEW i \in 1..Len(queue), l \in queue[i].to, KeyOf(queue[i]) = key
              PROVE  FALSE
          <6>1. Earlier(shown[l][j], key)
            BY <3>3, <5>1 DEF LinkOK, ShownFirst
          <6> QED BY <3>8, <4>1, <6>1, EarlierIsOrder
        <5> QED BY <5>1 DEF Waits
      <4>4. PICK i \in 1..K : shown[l][i] = key
        BY <3>1, <4>2, <4>3 DEF IsShown
      <4>5. ~(j < i) /\ i # j
        BY <3>1, <3>5, <3>8, <4>1, <4>4, EarlierIsOrder
      <4>6. i \in 1..(j - 1)
        BY <3>1, <4>5
      <4> QED BY <4>4, <4>6
    <3> QED BY <3>4, <3>7, <3>8
  <2> QED BY <2>1 DEF TextsInOrder
<1> QED BY <1>1, TextsInvariant, PTL

(* The queue of texts keeps to its capacity, and every entry in it still   *)
(* waits for some link.                                                    *)
THEOREM TextsTyped == TextsSpec => []TextsTypeOK
<1>1. ASSUME TextsInv
      PROVE  TextsTypeOK
  <2>1. \A i \in 1..Len(queue) : /\ queue[i].to \in (SUBSET TextLinks) \ {{}}
                                 /\ queue[i].age \in 0..(MaxAge + 1)
    <3>1. \A i \in 1..Len(queue) : queue[i] \in Entries /\ queue[i].to # {}
      BY <1>1 DEF TextsInv, TextShape
    <3>2. \A e \in Entries : e.to \in SUBSET TextLinks /\ e.age \in 0..(MaxAge + 1)
      BY DEF Entries
    <3>3. ASSUME NEW i \in 1..Len(queue)
          PROVE  /\ queue[i].to \in (SUBSET TextLinks) \ {{}}
                 /\ queue[i].age \in 0..(MaxAge + 1)
      <4>1. PICK e \in Entries : e = queue[i] /\ e.to # {}
        BY <3>1
      <4>2. e.to \in (SUBSET TextLinks) \ {{}}
        BY <3>2, <4>1
      <4> QED BY <3>2, <4>1, <4>2
    <3> QED BY <3>3
  <2> QED BY <1>1, <2>1 DEF TextsInv, TextShape, TextsTypeOK
<1> QED BY <1>1, TextsInvariant, PTL

----------------------------------------------------------------------------
(* Tasks.  A slot that is taken is about a command that has been told      *)
(* IN_PROGRESS and no more, and no two slots are about one command.        *)
Results ==
    {<<r>> : r \in Finals \cup {"IN_PROGRESS"}} \cup {<<"IN_PROGRESS", f>> : f \in Finals}
Commands == [asker : Askers, job : Jobs, results : Results]
JobStates == {"NOT_STARTED", "IN_PROGRESS", "SUCCESS", "FAILED"}
TaskRecords == [job : Jobs, ask : Nat]

Pending(t, ts) ==
    t.ask \in 1..Len(ts) /\ ts[t.ask].results = <<"IN_PROGRESS">> /\ ts[t.ask].job = t.job

TasksInv ==
    /\ told \in Seq(Commands) /\ running \in [Jobs -> JobStates]
    /\ tasks \in [TaskSlots -> TaskRecords \cup {NoTask}]
    /\ \A i \in Busy : Pending(tasks[i], told)
    /\ \A i, j \in Busy : i # j => tasks[i].ask # tasks[j].ask

LEMMA NoTaskIsNone == NoTask \notin TaskRecords
BY DEF NoTask, TaskRecords, Jobs

LEMMA BusyIs ==
  ASSUME TasksInv, NEW i \in Busy
  PROVE  i \in TaskSlots /\ tasks[i] \in TaskRecords /\ Pending(tasks[i], told)
BY NoTaskIsNone DEF TasksInv, Busy

LEMMA TasksInvInit == TasksInit => TasksInv
<1> SUFFICES ASSUME TasksInit PROVE TasksInv
  OBVIOUS
<1>1. told = <<>> /\ \A i \in TaskSlots : tasks[i] = NoTask
  BY DEF TasksInit
<1>2. Busy = {}
  BY <1>1 DEF Busy
<1>3. told \in Seq(Commands)
  BY <1>1
<1>4. running \in [Jobs -> JobStates] /\ tasks \in [TaskSlots -> TaskRecords \cup {NoTask}]
  BY DEF TasksInit, JobStates
<1> QED BY <1>2, <1>3, <1>4 DEF TasksInv

LEMMA AppendToOne ==
  ASSUME NEW a, NEW b
  PROVE  Append(<<a>>, b) = <<a, b>>
<1>1. <<a>> \in Seq({a, b}) /\ Len(<<a>>) = 1
  OBVIOUS
<1>2. Append(<<a>>, b) \in Seq({a, b}) /\ Len(Append(<<a>>, b)) = 2
  BY <1>1, AppendProperties
<1>3. Append(<<a>>, b)[1] = a /\ Append(<<a>>, b)[2] = b
  BY <1>1, AppendProperties
<1>4. <<a, b>> \in Seq({a, b}) /\ Len(<<a, b>>) = 2 /\ \A i \in 1..2 : i = 1 \/ i = 2
  OBVIOUS
<1>5. <<a, b>>[1] = a /\ <<a, b>>[2] = b
  OBVIOUS
<1> QED BY <1>2, <1>3, <1>4, <1>5, SeqEqual

(* A command answered: those before it are as they were.                   *)
LEMMA AnsweredIs ==
  ASSUME TasksInv, NEW a \in Askers, NEW j \in Jobs, NEW r \in Finals \cup {"IN_PROGRESS"},
         Answered(a, j, r)
  PROVE  /\ told' \in Seq(Commands) /\ Len(told') = Len(told) + 1
         /\ told'[Len(told) + 1] = [asker |-> a, job |-> j, results |-> <<r>>]
         /\ \A t : Pending(t, told) => Pending(t, told')
<1>1. told \in Seq(Commands)
  BY DEF TasksInv
<1>2. PICK c \in Commands : c = [asker |-> a, job |-> j, results |-> <<r>>]
  BY DEF Commands, Results
<1>3. told' = Append(told, c)
  BY <1>2 DEF Answered
<1>4. PICK N \in Nat : N = Len(told)
  BY <1>1
<1>5. /\ told' \in Seq(Commands) /\ Len(told') = N + 1 /\ told'[N + 1] = c
      /\ \A i \in 1..N : told'[i] = told[i] /\ i \in 1..(N + 1)
  BY <1>1, <1>3, <1>4, AppendProperties
<1>6. \A t : Pending(t, told) => Pending(t, told')
  BY <1>4, <1>5 DEF Pending
<1> QED BY <1>2, <1>4, <1>5, <1>6

(* A command rejected or refused: the slots are as they were.              *)
LEMMA RejectedKeeps ==
  ASSUME TasksInv, NEW a \in Askers, NEW j \in Jobs, NEW r \in Finals,
         Answered(a, j, r), UNCHANGED <<tasks, running>>
  PROVE  TasksInv'
<1>1. told' \in Seq(Commands) /\ \A t : Pending(t, told) => Pending(t, told')
  BY AnsweredIs
<1>2. tasks' = tasks /\ running' = running /\ Busy' = Busy
  BY DEF Busy
<1> QED BY <1>1, <1>2 DEF TasksInv

LEMMA StartTaskKeeps ==
  ASSUME TasksInv, NEW a \in Askers, NEW j \in Jobs, StartTask(a, j)
  PROVE  TasksInv'
<1>1. PICK N \in Nat : N = Len(told)
  BY DEF TasksInv
<1>2. /\ told' \in Seq(Commands) /\ Len(told') = N + 1
      /\ told'[N + 1] = [asker |-> a, job |-> j, results |-> <<"IN_PROGRESS">>]
      /\ \A t : Pending(t, told) => Pending(t, told')
  BY <1>1, AnsweredIs DEF StartTask
<1>3. PICK t \in TaskRecords : t = [job |-> j, ask |-> N + 1]
  <2>1. N + 1 \in Nat
    OBVIOUS
  <2> QED BY <2>1 DEF TaskRecords
<1>4. PICK i \in TaskSlots \ Busy : tasks' = [tasks EXCEPT ![i] = t]
  BY <1>1, <1>3 DEF StartTask
<1>5. running' \in [Jobs -> JobStates]
  BY DEF StartTask, TasksInv, JobStates
<1>6. tasks' \in [TaskSlots -> TaskRecords \cup {NoTask}]
  BY <1>3, <1>4 DEF TasksInv
<1>7. Pending(t, told')
  BY <1>1, <1>2, <1>3 DEF Pending
<1>8. /\ tasks'[i] = t
      /\ \A k \in TaskSlots : k # i => tasks'[k] = tasks[k]
  BY <1>4 DEF TasksInv
<1>9. \A k \in Busy' : k = i \/ (k # i /\ k \in Busy)
  BY <1>8 DEF Busy
<1>10. \A k \in Busy : tasks[k].ask \in 1..N
  BY <1>1, BusyIs DEF Pending
<1>11. \A k \in Busy : tasks[k].ask # t.ask /\ k \in TaskSlots
  BY <1>3, <1>10 DEF Busy
<1>12. \A k \in Busy' : Pending(tasks'[k], told')
  BY <1>2, <1>7, <1>8, <1>9, <1>11 DEF TasksInv
<1>13. \A k, m \in Busy' : k # m => tasks'[k].ask # tasks'[m].ask
  BY <1>8, <1>9, <1>11 DEF TasksInv
<1> QED BY <1>2, <1>5, <1>6, <1>12, <1>13 DEF TasksInv

LEMMA CheckTasksKeeps ==
  ASSUME TasksInv, NEW room \in SUBSET Askers, CheckTasks(room)
  PROVE  TasksInv'
<1>1. PICK N \in Nat : N = Len(told)
  BY DEF TasksInv
<1> DEFINE ends(i) == told[tasks[i].ask].asker \in room /\ Verdict(tasks[i].job) # "IN_PROGRESS"
<1>2. /\ tasks' = [i \in TaskSlots |-> IF i \in Busy /\ ends(i) THEN NoTask ELSE tasks[i]]
      /\ told' = [n \in 1..N |-> IF \E i \in Busy : tasks[i].ask = n /\ ends(i)
                                 THEN [told[n] EXCEPT !.results = Append(@, Verdict(told[n].job))]
                                 ELSE told[n]]
      /\ running' = running
  BY <1>1 DEF CheckTasks, Concluded
<1>3. ASSUME NEW n \in 1..N
      PROVE  /\ told'[n] \in Commands
             /\ ~(\E i \in Busy : tasks[i].ask = n /\ ends(i)) => told'[n] = told[n]
  <2>1. told[n] \in Commands
    BY <1>1 DEF TasksInv
  <2>2. CASE \E i \in Busy : tasks[i].ask = n /\ ends(i)
    <3>1. PICK i \in Busy : tasks[i].ask = n /\ ends(i)
      BY <2>2
    <3>2. Pending(tasks[i], told) /\ tasks[i] \in TaskRecords
      BY BusyIs
    <3>3. PICK c \in Commands : c = told[n] /\ c.results = <<"IN_PROGRESS">> /\ c.job = tasks[i].job
      BY <2>1, <3>1, <3>2 DEF Pending
    <3>4. PICK f \in Finals : f = Verdict(c.job)
      <4>1. running[c.job] \in JobStates
        BY <3>2, <3>3 DEF TasksInv, TaskRecords
      <4> QED BY <3>1, <3>3, <4>1 DEF Verdict, Finals, JobStates
    <3>5. Append(<<"IN_PROGRESS">>, f) = <<"IN_PROGRESS", f>>
      BY AppendToOne
    <3>6. told'[n] = [c EXCEPT !.results = <<"IN_PROGRESS", f>>]
      BY <1>2, <2>2, <3>3, <3>4, <3>5
    <3>7. <<"IN_PROGRESS", f>> \in Results
      BY DEF Results
    <3> QED BY <2>2, <3>6, <3>7 DEF Commands
  <2>3. CASE ~\E i \in Busy : tasks[i].ask = n /\ ends(i)
    BY <1>2, <2>1, <2>3
  <2> QED BY <2>2, <2>3
<1>4. told' \in Seq(Commands) /\ Len(told') = N
  <2>1. told' \in [1..N -> Commands]
    BY <1>2, <1>3
  <2> QED BY <2>1, LenProperties
<1>5. tasks' \in [TaskSlots -> TaskRecords \cup {NoTask}]
  BY <1>2 DEF TasksInv
<1>6. \A i \in Busy' : i \in Busy /\ ~ends(i) /\ tasks'[i] = tasks[i]
  BY <1>2 DEF Busy
<1>7. ASSUME NEW i \in Busy'
      PROVE  Pending(tasks'[i], told')
  <2>1. i \in Busy /\ ~ends(i) /\ tasks'[i] = tasks[i]
    BY <1>6
  <2>2. Pending(tasks[i], told)
    BY <2>1, BusyIs
  <2>3. PICK n \in 1..N : n = tasks[i].ask
    BY <1>1, <2>2 DEF Pending
  <2>4. ~\E k \in Busy : tasks[k].ask = n /\ ends(k)
    BY <2>1, <2>3 DEF TasksInv
  <2>5. told'[n] = told[n]
    BY <1>3, <2>4
  <2> QED BY <1>1, <1>4, <2>1, <2>2, <2>3, <2>5 DEF Pending
<1>8. \A i, j \in Busy' : i # j => tasks'[i].ask # tasks'[j].ask
  BY <1>6 DEF TasksInv
<1> QED BY <1>2, <1>4, <1>5, <1>7, <1>8 DEF TasksInv

LEMMA TasksInvNext ==
  ASSUME TasksInv, [TasksNext]_taskVars
  PROVE  TasksInv'
<1>1. ASSUME NEW a \in Askers, AbortTask(a)
      PROVE  TasksInv'
  BY <1>1, RejectedKeeps DEF AbortTask, Jobs, Finals
<1>2. ASSUME NEW a \in Askers, NEW j \in Jobs, RejectTask(a, j)
      PROVE  TasksInv'
  BY <1>2, RejectedKeeps DEF RejectTask, Finals
<1>3. ASSUME NEW a \in Askers, NEW j \in Jobs, StartTask(a, j)
      PROVE  TasksInv'
  BY <1>3, StartTaskKeeps
<1>4. ASSUME NEW j \in Jobs, JobEnds(j)
      PROVE  TasksInv'
  <2>1. running' \in [Jobs -> JobStates] /\ tasks' = tasks /\ told' = told
    BY <1>4 DEF JobEnds, TasksInv, JobStates
  <2> QED BY <2>1 DEF TasksInv, Busy
<1>5. ASSUME NEW room \in SUBSET Askers, CheckTasks(room)
      PROVE  TasksInv'
  BY <1>5, CheckTasksKeeps
<1>6. CASE UNCHANGED taskVars
  BY <1>6 DEF taskVars, TasksInv, Busy
<1> QED BY <1>1, <1>2, <1>3, <1>4, <1>5, <1>6 DEF TasksNext

LEMMA TasksInvariant == TasksSpec => []TasksInv
BY TasksInvInit, TasksInvNext, PTL DEF TasksSpec

(* No command is told twice how it ended, or anything after it, for any    *)
(* nodes and any number of slots (check_tasks(), conclude(), get_task()).  *)
THEOREM EndsAreToldOnce == TasksSpec => []EndToldOnce
<1>1. ASSUME TasksInv
      PROVE  EndToldOnce
  <2>1. ASSUME NEW n \in 1..Len(told)
        PROVE  /\ \A k \in FinalsOf(n) : k = Len(told[n].results)
               /\ Len(told[n].results) <= 2
    <3>1. PICK r \in Results : r = told[n].results
      <4>1. told[n] \in Commands
        BY <1>1 DEF TasksInv
      <4> QED BY <4>1 DEF Commands
    <3>2. CASE \E x \in Finals \cup {"IN_PROGRESS"} : r = <<x>>
      <4>1. Len(r) = 1
        BY <3>2
      <4> QED BY <3>1, <4>1 DEF FinalsOf
    <3>3. CASE \E f \in Finals : r = <<"IN_PROGRESS", f>>
      <4>1. Len(r) = 2 /\ r[1] = "IN_PROGRESS" /\ \A k \in 1..2 : k = 1 \/ k = 2
        BY <3>3
      <4>2. "IN_PROGRESS" \notin Finals
        BY DEF Finals
      <4> QED BY <3>1, <4>1, <4>2 DEF FinalsOf
    <3> QED BY <3>2, <3>3 DEF Results
  <2> QED BY <2>1 DEF EndToldOnce
<1> QED BY <1>1, TasksInvariant, PTL

(* The slots hold tasks of commands received.                              *)
THEOREM TasksTyped == TasksSpec => []TasksTypeOK
<1>1. ASSUME TasksInv
      PROVE  TasksTypeOK
  <2>1. \A i \in TaskSlots : tasks[i] # NoTask => i \in Busy
    BY DEF Busy
  <2>2. \A i \in Busy : tasks[i] \in [job : Jobs, ask : 1..Len(told)]
    BY <1>1, BusyIs DEF Pending, TaskRecords
  <2>3. tasks \in [TaskSlots -> [job : Jobs, ask : 1..Len(told)] \cup {NoTask}]
    BY <1>1, <2>1, <2>2 DEF TasksInv
  <2> QED BY <1>1, <2>3 DEF TasksInv, TasksTypeOK, JobStates
<1> QED BY <1>1, TasksInvariant, PTL

----------------------------------------------------------------------------
(* Streams: whatever q is made of, setting an interval leaves it a          *)
(* consistent schedule, and so do the loops that set many.                 *)
Clocks == 0..(Wrap - 1)
BucketSet == [ids : SUBSET StreamIds, interval : 0..MaxInterval, since : Clocks]
SpecialSet == [interval : 0..MaxInterval, since : Clocks]

(* What is scheduled, whether or not it is consistent.                     *)
Schedules ==
    [b : [Buckets -> BucketSet], sending : Buckets \cup {NoBucket}, toSend : SUBSET StreamIds,
     special : [1..Len(Special) -> SpecialSet]]

Apart(b) == \A i, j \in Buckets : i # j => b[i].ids \cap b[j].ids = {}
UsedOnly(b) == \A i \in Buckets : b[i].ids = {} <=> b[i].interval = 0
SendingFits(b, i, ids) ==
    IF i = NoBucket THEN ids = {} /\ \A k \in Buckets : b[k].ids = {}
    ELSE ids # {} /\ ids \subseteq b[i].ids

Consistent ==
    {q \in Schedules : Apart(q.b) /\ UsedOnly(q.b) /\ SendingFits(q.b, q.sending, q.toSend)}

StreamInv ==
    /\ initialised \in BOOLEAN /\ slow \in BOOLEAN
    /\ rates \in [StreamNumbers -> 0..MaxInterval]
    /\ cache \in 0..Len(Special)
    /\ pushed \subseteq StreamIds \cup Specials
    /\ Now \in Consistent

----------------------------------------------------------------------------
(* What the constants are.                                                 *)
LEMMA StreamConstants ==
  /\ NBuckets \in Nat /\ MaxInterval \in Nat /\ Penalty \in Nat /\ Wrap \in Nat
  /\ MaxInterval < Wrap /\ 0 \in Clocks /\ Clocks \subseteq Nat /\ Buckets \subseteq Nat
  /\ Buckets # {} /\ 0 \in 0..MaxInterval /\ 0..MaxInterval \subseteq Nat /\ NoBucket \notin Buckets
  /\ Len(Special) \in Nat /\ Len(Streamed) \in Nat /\ Len(FileLines) \in Nat
<1>1. NBuckets \in Nat \ {0} /\ MaxInterval \in Nat /\ Penalty \in Nat /\ Wrap \in Nat
      /\ MaxInterval < Wrap
  BY StreamAssumption
<1>2. 1 \in Buckets /\ Buckets \subseteq Nat /\ NoBucket \notin Buckets
  BY <1>1 DEF Buckets, NoBucket
<1>3. Len(Special) \in Nat /\ Len(Streamed) \in Nat /\ Len(FileLines) \in Nat
  BY StreamAssumption, LenProperties
<1>4. 0 \in Clocks /\ Clocks \subseteq Nat
  BY <1>1 DEF Clocks
<1> QED BY <1>1, <1>2, <1>3, <1>4

LEMMA UnusedTyped == Unused \in BucketSet
BY StreamConstants DEF Unused, BucketSet

(* The first that is due soonest is one of those to choose from.           *)
LEMMA SoonestIn ==
  ASSUME NEW S \in SUBSET Nat, S # {}, NEW f, \A i \in S : f[i] \in Nat
  PROVE  Soonest(S, f) \in S
<1> DEFINE V == {f[i] : i \in S}
<1>1. PICK v \in V : \A w \in V : v <= w
  BY Minimum
<1> DEFINE T == {i \in S : f[i] = v}
<1>2. T \in SUBSET Nat /\ T # {}
  BY <1>1
<1>3. PICK i \in T : \A j \in T : i <= j
  BY <1>2, Minimum
<1>4. i \in S /\ f[i] = v
  BY <1>3
<1>5. \A j \in S : f[i] < f[j] \/ (f[i] = f[j] /\ i <= j)
  <2> SUFFICES ASSUME NEW j \in S PROVE f[i] < f[j] \/ (f[i] = f[j] /\ i <= j)
    OBVIOUS
  <2>1. f[j] \in V /\ f[i] <= f[j] /\ f[j] \in Nat /\ f[i] \in Nat
    BY <1>1, <1>4
  <2>2. f[j] = f[i] => i <= j
    BY <1>3, <1>4
  <2> QED BY <2>1, <2>2
<1> QED BY <1>4, <1>5 DEF Soonest

LEMMA BeforeTyped ==
  ASSUME NEW m \in Nat, NEW s \in Nat
  PROVE  Before(m, s) \in Nat
BY DEF Before

LEMMA DistanceTyped ==
  ASSUME NEW m \in Nat, NEW s \in Nat
  PROVE  Distance(m, s) \in Nat
BY DEF Distance

LEMMA RescheduleTyped ==
  ASSUME NEW e \in BucketSet
  PROVE  Reschedule(e) \in 0..MaxInterval
<1>1. e.interval \in 0..MaxInterval /\ Penalty \in Nat /\ MaxInterval \in Nat
  BY StreamConstants DEF BucketSet
<1>2. \E p \in {0, Penalty} : p = IF slow THEN Penalty ELSE 0
  OBVIOUS
<1> QED BY <1>1, <1>2 DEF Reschedule

LEMMA RegularTyped ==
  ASSUME NEW s \in Clocks, NEW m \in 0..MaxInterval
  PROVE  Regular(s, m) \in Clocks
<1>1. Wrap \in Nat \ {0} /\ s - m \in Int
  BY StreamConstants DEF Clocks
<1>2. (s - m) % Wrap \in 0..(Wrap - 1)
  BY <1>1
<1> QED BY <1>2, StreamConstants DEF Regular, Clocks

----------------------------------------------------------------------------
(* The bucket to be sent next.                                             *)
Redirect(q, i, ids) == [q EXCEPT !.sending = i, !.toSend = ids]

LEMMA Redirected ==
  ASSUME NEW q \in Schedules, NEW i \in Buckets \cup {NoBucket}, NEW ids \in SUBSET StreamIds
  PROVE  /\ Redirect(q, i, ids) \in Schedules
         /\ Redirect(q, i, ids).b = q.b
         /\ Redirect(q, i, ids).sending = i
         /\ Redirect(q, i, ids).toSend = ids
BY DEF Schedules, Redirect

LEMMA FindsNextBucket ==
  ASSUME NEW q \in Schedules, Apart(q.b), UsedOnly(q.b)
  PROVE  FindNextBucket(q) \in Consistent /\ FindNextBucket(q).b = q.b
<1>1. \A i \in Buckets : q.b[i] \in BucketSet /\ q.b[i].ids \in SUBSET StreamIds
  BY DEF Schedules, BucketSet
<1>2. CASE NonEmpty(q) = {}
  <2> DEFINE r == Redirect(q, NoBucket, {})
  <2>1. r \in Schedules /\ r.b = q.b /\ r.sending = NoBucket /\ r.toSend = {}
    BY Redirected
  <2>2. FindNextBucket(q) = r
    BY <1>2 DEF FindNextBucket, Redirect
  <2> HIDE DEF r
  <2>3. \A k \in Buckets : q.b[k].ids = {}
    BY <1>2 DEF NonEmpty
  <2>4. SendingFits(r.b, r.sending, r.toSend)
    BY <2>1, <2>3 DEF SendingFits
  <2> QED BY <2>1, <2>2, <2>4 DEF Consistent
<1>3. CASE NonEmpty(q) # {}
  <2> DEFINE before == [i \in NonEmpty(q) |-> Before(Reschedule(q.b[i]), q.b[i].since)]
             i == Soonest(NonEmpty(q), before)
             r == Redirect(q, i, q.b[i].ids)
  <2>1. NonEmpty(q) \in SUBSET Nat /\ NonEmpty(q) \subseteq Buckets
    BY StreamConstants DEF NonEmpty
  <2>2. \A k \in NonEmpty(q) : before[k] \in Nat
    <3> SUFFICES ASSUME NEW k \in NonEmpty(q) PROVE before[k] \in Nat
      OBVIOUS
    <3>1. q.b[k] \in BucketSet /\ q.b[k].since \in Nat
      BY <1>1, <2>1, StreamConstants DEF BucketSet
    <3>2. Reschedule(q.b[k]) \in Nat
      BY <3>1, RescheduleTyped, StreamConstants
    <3> QED BY <3>1, <3>2, BeforeTyped
  <2> HIDE DEF before
  <2>3. i \in NonEmpty(q)
    BY <1>3, <2>1, <2>2, SoonestIn
  <2>4. FindNextBucket(q) = r
    BY <1>3 DEF FindNextBucket, before, Redirect
  <2> HIDE DEF i
  <2>5. i \in Buckets /\ q.b[i].ids # {} /\ q.b[i].ids \in SUBSET StreamIds
    BY <1>1, <2>3 DEF NonEmpty
  <2>6. r \in Schedules /\ r.b = q.b /\ r.sending = i /\ r.toSend = q.b[i].ids
    BY <2>5, Redirected
  <2> HIDE DEF r
  <2>7. SendingFits(r.b, r.sending, r.toSend)
    BY <2>5, <2>6, StreamConstants DEF SendingFits
  <2> QED BY <2>4, <2>6, <2>7 DEF Consistent
<1> QED BY <1>2, <1>3

----------------------------------------------------------------------------
(* A message leaves its bucket.                                            *)
RemovedEntry(e, id) == IF e.ids \ {id} = {} THEN Unused ELSE [e EXCEPT !.ids = e.ids \ {id}]

LEMMA RemovedEntryTyped ==
  ASSUME NEW e \in BucketSet, e.ids # {} <=> e.interval # 0, NEW id
  PROVE  /\ RemovedEntry(e, id) \in BucketSet
         /\ RemovedEntry(e, id).ids = e.ids \ {id}
         /\ RemovedEntry(e, id).ids = {} <=> RemovedEntry(e, id).interval = 0
<1>1. CASE e.ids \ {id} = {}
  BY <1>1, UnusedTyped DEF RemovedEntry, Unused
<1>2. CASE e.ids \ {id} # {}
  <2>1. RemovedEntry(e, id) = [e EXCEPT !.ids = e.ids \ {id}]
    BY <1>2 DEF RemovedEntry
  <2>2. e.ids \ {id} \in SUBSET StreamIds /\ e.ids # {}
    BY <1>2 DEF BucketSet
  <2>3. RemovedEntry(e, id) \in BucketSet
    BY <2>1, <2>2 DEF BucketSet
  <2>4. RemovedEntry(e, id).ids = e.ids \ {id} /\ RemovedEntry(e, id).interval = e.interval
    BY <2>1 DEF BucketSet
  <2> QED BY <1>2, <2>2, <2>3, <2>4
<1> QED BY <1>1, <1>2

LEMMA RemovesOnly ==
  ASSUME NEW q \in Consistent, NEW i \in Buckets, NEW id
  PROVE  /\ RemovedOnly(q, i, id) \in Schedules
         /\ RemovedOnly(q, i, id).b = [q.b EXCEPT ![i] = RemovedEntry(q.b[i], id)]
         /\ RemovedOnly(q, i, id).sending = q.sending
         /\ RemovedOnly(q, i, id).toSend = IF i = q.sending THEN q.toSend \ {id} ELSE q.toSend
<1> DEFINE nb == [q.b EXCEPT ![i] = RemovedEntry(q.b[i], id)]
           nt == IF i = q.sending THEN q.toSend \ {id} ELSE q.toSend
           r == [[q EXCEPT !.b = nb] EXCEPT !.toSend = nt]
<1>1. q \in Schedules /\ q.b \in [Buckets -> BucketSet] /\ q.toSend \in SUBSET StreamIds
  BY DEF Consistent, Schedules
<1>2. q.b[i] \in BucketSet /\ (q.b[i].ids # {} <=> q.b[i].interval # 0)
  BY <1>1 DEF Consistent, UsedOnly
<1>3. nb \in [Buckets -> BucketSet]
  BY <1>1, <1>2, RemovedEntryTyped
<1>4. nt \in SUBSET StreamIds
  BY <1>1
<1>5. RemovedOnly(q, i, id) = r
  BY <1>1 DEF RemovedOnly, RemovedEntry, Schedules
<1> HIDE DEF nb, nt
<1>6. r \in Schedules /\ r.b = nb /\ r.sending = q.sending /\ r.toSend = nt
  BY <1>1, <1>3, <1>4 DEF Schedules
<1> QED BY <1>5, <1>6 DEF nb, nt

LEMMA RemovedConsistent ==
  ASSUME NEW q \in Consistent, NEW i \in Buckets, NEW id, id \in q.b[i].ids
  PROVE  /\ Removed(q, i, id) \in Consistent
         /\ \A k \in Buckets : id \notin Removed(q, i, id).b[k].ids
<1> DEFINE r == RemovedOnly(q, i, id)
<1>1. /\ r \in Schedules /\ r.sending = q.sending
      /\ r.b = [q.b EXCEPT ![i] = RemovedEntry(q.b[i], id)]
      /\ r.toSend = IF i = q.sending THEN q.toSend \ {id} ELSE q.toSend
  BY RemovesOnly
<1> HIDE DEF r
<1>2. q.b \in [Buckets -> BucketSet] /\ Apart(q.b) /\ UsedOnly(q.b)
      /\ SendingFits(q.b, q.sending, q.toSend) /\ q.sending \in Buckets \cup {NoBucket}
  BY DEF Consistent, Schedules
<1>3. /\ q.b[i] \in BucketSet
      /\ r.b[i].ids = q.b[i].ids \ {id} /\ (r.b[i].ids = {} <=> r.b[i].interval = 0)
  <2>1. q.b[i] \in BucketSet /\ (q.b[i].ids # {} <=> q.b[i].interval # 0)
    BY <1>2 DEF UsedOnly
  <2>2. r.b[i] = RemovedEntry(q.b[i], id)
    BY <1>1, <1>2
  <2> QED BY <2>1, <2>2, RemovedEntryTyped
<1>4. \A k \in Buckets : k # i => r.b[k] = q.b[k]
  BY <1>1, <1>2
<1>5. Apart(r.b)
  <2> SUFFICES ASSUME NEW k \in Buckets, NEW l \in Buckets, k # l
               PROVE  r.b[k].ids \cap r.b[l].ids = {}
    BY DEF Apart
  <2>1. r.b[k].ids \subseteq q.b[k].ids /\ r.b[l].ids \subseteq q.b[l].ids
    BY <1>3, <1>4
  <2> QED BY <1>2, <2>1 DEF Apart
<1>6. UsedOnly(r.b)
  BY <1>2, <1>3, <1>4 DEF UsedOnly
<1>7. \A k \in Buckets : id \notin r.b[k].ids
  <2> SUFFICES ASSUME NEW k \in Buckets PROVE id \notin r.b[k].ids
    OBVIOUS
  <2>1. CASE k = i
    BY <1>3, <2>1
  <2>2. CASE k # i
    BY <1>2, <1>4, <2>2 DEF Apart
  <2> QED BY <2>1, <2>2
<1>8. CASE i = q.sending /\ r.toSend = {}
  <2>1. Removed(q, i, id) = FindNextBucket(r)
    BY <1>8 DEF Removed, r
  <2>2. FindNextBucket(r) \in Consistent /\ FindNextBucket(r).b = r.b
    BY <1>1, <1>5, <1>6, FindsNextBucket
  <2> QED BY <1>7, <2>1, <2>2
<1>9. CASE ~(i = q.sending /\ r.toSend = {})
  <2>1. Removed(q, i, id) = r
    BY <1>9 DEF Removed, r
  <2>2. q.sending # NoBucket
    BY <1>2 DEF SendingFits
  <2>3. r.toSend # {} /\ r.toSend \subseteq r.b[q.sending].ids
    <3>1. CASE i = q.sending
      BY <1>1, <1>2, <1>3, <1>9, <2>2, <3>1 DEF SendingFits
    <3>2. CASE i # q.sending
      BY <1>1, <1>2, <1>4, <2>2, <3>2 DEF SendingFits
    <3> QED BY <3>1, <3>2
  <2>4. SendingFits(r.b, r.sending, r.toSend)
    BY <1>1, <2>2, <2>3 DEF SendingFits
  <2> QED BY <1>1, <1>5, <1>6, <1>7, <2>1, <2>4 DEF Consistent
<1> QED BY <1>8, <1>9

(* There is a bucket to put a message in.                                  *)
LEMMA ChosenIsBucket ==
  ASSUME NEW old \in [Buckets -> BucketSet], NEW now \in [Buckets -> BucketSet],
         NEW interval \in Nat,
         (\A i \in Buckets : old[i].interval = 0) => now = old
  PROVE  Chosen(old, now, interval) \in Buckets
<1> DEFINE used == {i \in Buckets : old[i].interval # 0}
           free == {i \in Buckets : now[i].interval = 0}
           was == free \ used
           off == [i \in used |-> Distance(old[i].interval, interval)]
           fresh == IF was # {} THEN was ELSE free
           c == Chosen(old, now, interval)
<1>1. used \in SUBSET Nat /\ used \subseteq Buckets /\ free \subseteq Buckets
      /\ fresh \in SUBSET Nat /\ fresh \subseteq Buckets
  BY StreamConstants
<1>2. CASE used # {} /\ (free = {} \/ \E i \in used : off[i] = 0)
  <2>1. c = Soonest(used, off)
    BY <1>2 DEF Chosen
  <2>2. \A i \in used : off[i] \in Nat
    <3> SUFFICES ASSUME NEW i \in used PROVE off[i] \in Nat
      OBVIOUS
    <3>1. old[i] \in BucketSet /\ old[i].interval \in Nat
      BY StreamConstants DEF BucketSet
    <3> QED BY <3>1, DistanceTyped
  <2> HIDE DEF off, used, c
  <2>3. c \in used
    BY <1>1, <1>2, <2>1, <2>2, SoonestIn
  <2> QED BY <1>1, <2>3 DEF c
<1>3. CASE ~(used # {} /\ (free = {} \/ \E i \in used : off[i] = 0))
  <2>1. c = CHOOSE i \in fresh : \A j \in fresh : i <= j
    BY <1>3 DEF Chosen
  <2>2. free # {}
    <3>1. CASE used = {}
      BY <3>1, StreamConstants
    <3>2. CASE used # {}
      BY <1>3, <3>2
    <3> QED BY <3>1, <3>2
  <2>3. fresh # {}
    BY <2>2
  <2> HIDE DEF fresh, c
  <2>4. \E i \in fresh : \A j \in fresh : i <= j
    BY <1>1, <2>3, Minimum
  <2>5. c \in fresh
    BY <2>1, <2>4
  <2> QED BY <1>1, <2>5 DEF c
<1> QED BY <1>2, <1>3

----------------------------------------------------------------------------
(* A message is put in a bucket.                                           *)
PlacedEntry(e, id, interval) ==
    [ids |-> e.ids \cup {id}, interval |-> IF e.interval = 0 THEN interval ELSE e.interval,
     since |-> IF e.interval = 0 THEN 0 ELSE e.since]
Placed(q, c, id, interval) == [q EXCEPT !.b = [q.b EXCEPT ![c] = PlacedEntry(q.b[c], id, interval)]]
SentNext(s, c) ==
    IF s.sending = NoBucket THEN [s EXCEPT !.sending = c, !.toSend = s.b[c].ids] ELSE s

LEMMA PlacedEntryTyped ==
  ASSUME NEW e \in BucketSet, NEW id \in StreamIds, NEW interval \in 0..MaxInterval, interval # 0
  PROVE  /\ PlacedEntry(e, id, interval) \in BucketSet
         /\ PlacedEntry(e, id, interval).ids = e.ids \cup {id}
         /\ PlacedEntry(e, id, interval).interval # 0
<1> DEFINE ms == IF e.interval = 0 THEN interval ELSE e.interval
           t == IF e.interval = 0 THEN 0 ELSE e.since
<1>1. ms \in 0..MaxInterval /\ ms # 0 /\ t \in Clocks /\ e.ids \cup {id} \in SUBSET StreamIds
  BY StreamConstants DEF BucketSet
<1>2. PlacedEntry(e, id, interval) = [ids |-> e.ids \cup {id}, interval |-> ms, since |-> t]
  BY DEF PlacedEntry
<1> HIDE DEF ms, t
<1> QED BY <1>1, <1>2 DEF BucketSet

LEMMA PlacedConsistent ==
  ASSUME NEW q \in Consistent, NEW c \in Buckets, NEW id \in StreamIds,
         NEW interval \in 0..MaxInterval, interval # 0,
         \A k \in Buckets : id \notin q.b[k].ids
  PROVE  SentNext(Placed(q, c, id, interval), c) \in Consistent
<1> DEFINE e == PlacedEntry(q.b[c], id, interval)
           nb == [q.b EXCEPT ![c] = e]
           s == [q EXCEPT !.b = nb]
<1>1. q \in Schedules /\ q.b \in [Buckets -> BucketSet] /\ Apart(q.b) /\ UsedOnly(q.b)
      /\ SendingFits(q.b, q.sending, q.toSend) /\ q.sending \in Buckets \cup {NoBucket}
  BY DEF Consistent, Schedules
<1>2. q.b[c] \in BucketSet
  BY <1>1
<1>3. e \in BucketSet /\ e.ids = q.b[c].ids \cup {id} /\ e.interval # 0
  BY <1>2, PlacedEntryTyped
<1> HIDE DEF e
<1>4. nb \in [Buckets -> BucketSet] /\ nb[c] = e /\ \A k \in Buckets : k # c => nb[k] = q.b[k]
  BY <1>1, <1>3
<1>5. Placed(q, c, id, interval) = s
  BY DEF Placed, e
<1> HIDE DEF nb
<1>6. s \in Schedules /\ s.b = nb /\ s.sending = q.sending /\ s.toSend = q.toSend
  BY <1>1, <1>4 DEF Schedules
<1> HIDE DEF s
<1>7. Apart(nb)
  <2> SUFFICES ASSUME NEW k \in Buckets, NEW l \in Buckets, k # l
               PROVE  nb[k].ids \cap nb[l].ids = {}
    BY DEF Apart
  <2>1. q.b[k].ids \cap q.b[l].ids = {} /\ id \notin q.b[k].ids /\ id \notin q.b[l].ids
    BY <1>1 DEF Apart
  <2>2. nb[k].ids \subseteq q.b[k].ids \cup {id} /\ (k # c => nb[k].ids = q.b[k].ids)
    BY <1>3, <1>4
  <2>3. nb[l].ids \subseteq q.b[l].ids \cup {id} /\ (l # c => nb[l].ids = q.b[l].ids)
    BY <1>3, <1>4
  <2> QED BY <2>1, <2>2, <2>3
<1>8. UsedOnly(nb)
  BY <1>1, <1>3, <1>4 DEF UsedOnly
<1>9. CASE s.sending = NoBucket
  <2> DEFINE t == Redirect(s, c, s.b[c].ids)
  <2>1. SentNext(s, c) = t
    BY <1>9 DEF SentNext, Redirect
  <2>2. s.b[c].ids \in SUBSET StreamIds /\ s.b[c].ids = nb[c].ids /\ s.b[c].ids # {}
    BY <1>3, <1>4, <1>6 DEF BucketSet
  <2>3. t \in Schedules /\ t.b = nb /\ t.sending = c /\ t.toSend = nb[c].ids
    BY <1>6, <2>2, Redirected
  <2> HIDE DEF t
  <2>4. SendingFits(t.b, t.sending, t.toSend)
    BY <2>2, <2>3, StreamConstants DEF SendingFits
  <2> QED BY <1>5, <1>7, <1>8, <2>1, <2>3, <2>4 DEF Consistent
<1>10. CASE s.sending # NoBucket
  <2>1. SentNext(s, c) = s
    BY <1>10 DEF SentNext
  <2>2. q.b[q.sending].ids \subseteq nb[q.sending].ids /\ q.sending # NoBucket
    BY <1>1, <1>3, <1>4, <1>6, <1>10
  <2>3. SendingFits(s.b, s.sending, s.toSend)
    BY <1>1, <1>6, <2>2 DEF SendingFits
  <2> QED BY <1>5, <1>6, <1>7, <1>8, <2>1, <2>3 DEF Consistent
<1> QED BY <1>9, <1>10

LEMMA ScheduledConsistent ==
  ASSUME NEW q \in Consistent, NEW id \in StreamIds, NEW interval \in 0..MaxInterval
  PROVE  Scheduled(q, id, interval) \in Consistent
<1> DEFINE in == {i \in Buckets : id \in q.b[i].ids}
           stays == \E i \in in : q.b[i].interval = interval /\ Chosen(q.b, q.b, interval) = i
           r == IF in = {} THEN q ELSE Removed(q, CHOOSE i \in in : TRUE, id)
           c == Chosen(q.b, r.b, interval)
           s == Placed(r, c, id, interval)
<1>1. q.b \in [Buckets -> BucketSet] /\ UsedOnly(q.b)
  BY DEF Consistent, Schedules
<1>2. r \in Consistent /\ (\A k \in Buckets : id \notin r.b[k].ids) /\ (in = {} => r = q)
  <2>1. CASE in = {}
    BY <2>1
  <2>2. CASE in # {}
    <3> DEFINE i == CHOOSE i \in in : TRUE
    <3>1. i \in Buckets /\ id \in q.b[i].ids
      BY <2>2
    <3>2. r = Removed(q, i, id)
      BY <2>2
    <3> HIDE DEF i, r
    <3> QED BY <2>2, <3>1, <3>2, RemovedConsistent
  <2> QED BY <2>1, <2>2
<1> HIDE DEF r
<1>3. r.b \in [Buckets -> BucketSet]
  BY <1>2 DEF Consistent, Schedules
<1>4. (\A i \in Buckets : q.b[i].interval = 0) => r.b = q.b
  BY <1>1, <1>2 DEF UsedOnly
<1>5. c \in Buckets
  BY <1>1, <1>3, <1>4, ChosenIsBucket, StreamConstants
<1> HIDE DEF c
<1>6. interval # 0 => SentNext(s, c) \in Consistent
  BY <1>2, <1>5, PlacedConsistent
<1>7. Scheduled(q, id, interval) = IF interval = 0 THEN r ELSE IF stays THEN q ELSE SentNext(s, c)
  BY DEF Scheduled, SentNext, Placed, PlacedEntry, r, c
<1> HIDE DEF s, stays
<1> QED BY <1>2, <1>6, <1>7

----------------------------------------------------------------------------
(* A special message is somewhere in its table.                            *)
LEMMA SpecialPlace ==
  ASSUME NEW id \in Specials
  PROVE  (CHOOSE k \in 1..Len(Special) : Special[k] = id) \in 1..Len(Special)
BY DEF Specials

LEMMA SpecialScheduledConsistent ==
  ASSUME NEW q \in Consistent, NEW id \in Specials, NEW interval \in 0..MaxInterval
  PROVE  SpecialScheduled(q, id, interval) \in Consistent
<1> DEFINE ms == IF id # Forced THEN interval
                 ELSE IF interval = 0 THEN 1
                 ELSE IF interval > ForcedMax THEN ForcedMax ELSE interval
           i == CHOOSE k \in 1..Len(Special) : Special[k] = id
           e == [interval |-> ms, since |-> 0]
           sp == [q.special EXCEPT ![i] = e]
           s == [q EXCEPT !.special = sp]
<1>1. ms \in 0..MaxInterval
  BY StreamAssumption, StreamConstants
<1>2. i \in 1..Len(Special)
  BY SpecialPlace
<1> HIDE DEF ms, i
<1>3. e \in SpecialSet
  BY <1>1, StreamConstants DEF SpecialSet
<1>4. q \in Schedules /\ q.special \in [1..Len(Special) -> SpecialSet]
  BY DEF Consistent, Schedules
<1>5. SpecialScheduled(q, id, interval) = s
  BY DEF SpecialScheduled, ms, i
<1> HIDE DEF e
<1>6. sp \in [1..Len(Special) -> SpecialSet]
  BY <1>2, <1>3, <1>4
<1> HIDE DEF sp
<1>7. s \in Schedules /\ s.b = q.b /\ s.sending = q.sending /\ s.toSend = q.toSend
  BY <1>4, <1>6 DEF Schedules
<1> HIDE DEF s
<1> QED BY <1>5, <1>7 DEF Consistent

LEMMA WithIntervalConsistent ==
  ASSUME NEW q \in Consistent, NEW id \in StreamIds \cup Specials, NEW interval \in 0..MaxInterval
  PROVE  WithInterval(q, id, interval) \in Consistent
<1>1. WithInterval(q, id, interval) =
        IF id \in Specials THEN SpecialScheduled(q, id, interval) ELSE Scheduled(q, id, interval)
  BY DEF WithInterval
<1> QED BY <1>1, SpecialScheduledConsistent, ScheduledConsistent

----------------------------------------------------------------------------
(* Intervals set one after the other.                                      *)
IntervalLines == [id : StreamIds \cup Specials, interval : 0..MaxInterval]

LEMMA WithIntervalsConsistent ==
  ASSUME NEW q \in Consistent, NEW lines \in Seq(IntervalLines)
  PROVE  WithIntervals(q, lines) \in Consistent
<1> DEFINE N == Len(lines)
           Step(r, n) == WithInterval(r, lines[n].id, lines[n].interval)
           step == [n \in 1..N |-> [r \in Consistent |-> Step(r, n)]]
           after[n \in 0..N] == IF n = 0 THEN q ELSE Step(after[n - 1], n)
<1>1. N \in Nat
  BY LenProperties
<1>2. \A n \in 1..N : \A r \in Consistent : Step(r, n) \in Consistent
  <2> SUFFICES ASSUME NEW n \in 1..N, NEW r \in Consistent PROVE Step(r, n) \in Consistent
    OBVIOUS
  <2>1. lines[n] \in IntervalLines
    BY ElementOfSeq
  <2>2. lines[n].id \in StreamIds \cup Specials /\ lines[n].interval \in 0..MaxInterval
    BY <2>1 DEF IntervalLines
  <2> QED BY <2>2, WithIntervalConsistent
<1> HIDE DEF Step
<1>3. step \in [1..N -> [Consistent -> Consistent]]
  BY <1>2
<1>4. PICK f : f \in Runs(N, Consistent, q, step)
  <2> HIDE DEF step, N
  <2> QED BY <1>1, <1>3, RunsExist
<1>5. f \in [0..N -> Consistent] /\ f[0] = q /\ \A n \in 1..N : f[n] = step[n][f[n - 1]]
  BY <1>4 DEF Runs
<1>6. f = [n \in 0..N |-> IF n = 0 THEN q ELSE Step(f[n - 1], n)]
  <2>1. \A n \in 1..N : f[n - 1] \in Consistent
    BY <1>1, <1>5
  <2>2. \A n \in 1..N : f[n] = Step(f[n - 1], n)
    BY <1>5, <2>1
  <2> HIDE DEF step
  <2>3. \A n \in 0..N : n # 0 => n \in 1..N
    BY <1>1
  <2> QED BY <1>5, <2>2, <2>3
<1>7. after = [n \in 0..N |-> IF n = 0 THEN q ELSE Step(after[n - 1], n)]
  <2> HIDE DEF Step, step
  <2> QED BY <1>6 DEF after
<1> HIDE DEF after, step
<1>8. after[0] = q /\ \A n \in 1..N : after[n] = Step(after[n - 1], n)
  BY <1>1, <1>7
<1>9. \A n \in 1..N : after[n - 1] \in Consistent => after[n] \in Consistent
  BY <1>2, <1>8
<1>10. \A n \in 0..N : after[n] \in Consistent
  BY <1>1, <1>8, <1>9, StepsStay
<1>11. WithIntervals(q, lines) = after[N]
  BY DEF WithIntervals, after, Step
<1> QED BY <1>1, <1>10, <1>11

LEMMA WithStreamConsistent ==
  ASSUME NEW q \in Consistent, NEW s \in StreamNumbers, NEW interval \in 0..MaxInterval
  PROVE  WithStream(q, s, interval) \in Consistent
<1>1. Streamed[s] \in Seq(StreamIds)
  BY StreamAssumption, ElementOfSeq DEF StreamNumbers
<1>2. Len(Streamed[s]) \in Nat /\ \A j \in 1..Len(Streamed[s]) : Streamed[s][j] \in StreamIds
  BY <1>1, LenProperties, ElementOfSeq
<1>3. \A j \in 1..Len(Streamed[s]) : [id |-> Streamed[s][j], interval |-> interval] \in IntervalLines
  BY <1>2 DEF IntervalLines
<1>4. Lines(s, interval) \in [1..Len(Streamed[s]) -> IntervalLines]
  BY <1>3 DEF Lines
<1>5. Lines(s, interval) \in Seq(IntervalLines)
  BY <1>2, <1>4, SeqDef
<1> QED BY <1>5, WithIntervalsConsistent DEF WithStream

LEMMA WithStreamsConsistent ==
  ASSUME NEW q \in Consistent, rates \in [StreamNumbers -> 0..MaxInterval]
  PROVE  WithStreams(q) \in Consistent
<1> DEFINE N == Len(Streamed)
           Step(r, n) == WithStream(r, n, rates[n])
           step == [n \in 1..N |-> [r \in Consistent |-> Step(r, n)]]
           after[n \in 0..N] == IF n = 0 THEN q ELSE Step(after[n - 1], n)
<1>1. N \in Nat
  BY StreamConstants
<1>2. \A n \in 1..N : \A r \in Consistent : Step(r, n) \in Consistent
  BY WithStreamConsistent DEF StreamNumbers
<1> HIDE DEF Step
<1>3. step \in [1..N -> [Consistent -> Consistent]]
  BY <1>2
<1>4. PICK f : f \in Runs(N, Consistent, q, step)
  <2> HIDE DEF step, N
  <2> QED BY <1>1, <1>3, RunsExist
<1>5. f \in [0..N -> Consistent] /\ f[0] = q /\ \A n \in 1..N : f[n] = step[n][f[n - 1]]
  BY <1>4 DEF Runs
<1>6. f = [n \in 0..N |-> IF n = 0 THEN q ELSE Step(f[n - 1], n)]
  <2>1. \A n \in 1..N : f[n - 1] \in Consistent
    BY <1>1, <1>5
  <2>2. \A n \in 1..N : f[n] = Step(f[n - 1], n)
    BY <1>5, <2>1
  <2> HIDE DEF step
  <2>3. \A n \in 0..N : n # 0 => n \in 1..N
    BY <1>1
  <2> QED BY <1>5, <2>2, <2>3
<1>7. after = [n \in 0..N |-> IF n = 0 THEN q ELSE Step(after[n - 1], n)]
  <2> HIDE DEF Step, step
  <2> QED BY <1>6 DEF after
<1> HIDE DEF after, step
<1>8. after[0] = q /\ \A n \in 1..N : after[n] = Step(after[n - 1], n)
  BY <1>1, <1>7
<1>9. \A n \in 1..N : after[n - 1] \in Consistent => after[n] \in Consistent
  BY <1>2, <1>8
<1>10. \A n \in 0..N : after[n] \in Consistent
  BY <1>1, <1>8, <1>9, StepsStay
<1>11. WithStreams(q) = after[N]
  BY DEF WithStreams, after, Step
<1> QED BY <1>1, <1>10, <1>11

----------------------------------------------------------------------------
(* What is read from the files is a table of messages and intervals.       *)
LEMMA AddLineTyped ==
  ASSUME NEW t \in Seq(IntervalLines), NEW line \in IntervalLines
  PROVE  AddLine(t, line) \in Seq(IntervalLines)
<1> DEFINE known == {k \in 1..Len(t) : t[k].id = line.id}
           u == [k \in 1..Len(t) |-> IF k \in known THEN line ELSE t[k]]
<1>1. Len(t) \in Nat /\ \A k \in 1..Len(t) : t[k] \in IntervalLines
  BY LenProperties, ElementOfSeq
<1>2. u \in [1..Len(t) -> IntervalLines]
  BY <1>1
<1>3. u \in Seq(IntervalLines)
  <2> HIDE DEF u
  <2> QED BY <1>1, <1>2, SeqDef
<1>4. Append(t, line) \in Seq(IntervalLines)
  BY AppendProperties
<1>5. AddLine(t, line) \in {u, t, Append(t, line)}
  BY DEF AddLine
<1> QED BY <1>3, <1>4, <1>5

LEMMA FromFilesTyped == FromFiles \in Seq(IntervalLines)
<1> DEFINE N == Len(FileLines)
           S == Seq(IntervalLines)
           Step(t, n) == AddLine(t, FileLines[n])
           step == [n \in 1..N |-> [t \in S |-> Step(t, n)]]
           read[n \in 0..N] == IF n = 0 THEN <<>> ELSE Step(read[n - 1], n)
<1>0. <<>> \in S
  BY EmptySeq
<1>1. N \in Nat /\ FileLines \in S
  BY StreamConstants, StreamAssumption DEF IntervalLines
<1>2. \A n \in 1..N : \A t \in S : Step(t, n) \in S
  <2> SUFFICES ASSUME NEW n \in 1..N, NEW t \in S PROVE Step(t, n) \in S
    OBVIOUS
  <2>1. FileLines[n] \in IntervalLines
    BY <1>1, ElementOfSeq
  <2> QED BY <2>1, AddLineTyped
<1> HIDE DEF Step, S
<1>3. step \in [1..N -> [S -> S]]
  BY <1>2
<1>4. PICK f : f \in Runs(N, S, <<>>, step)
  <2> HIDE DEF step, N
  <2> QED BY <1>0, <1>1, <1>3, RunsExist
<1>5. f \in [0..N -> S] /\ f[0] = <<>> /\ \A n \in 1..N : f[n] = step[n][f[n - 1]]
  BY <1>4 DEF Runs
<1>6. f = [n \in 0..N |-> IF n = 0 THEN <<>> ELSE Step(f[n - 1], n)]
  <2>1. \A n \in 1..N : f[n - 1] \in S
    BY <1>1, <1>5
  <2>2. \A n \in 1..N : f[n] = Step(f[n - 1], n)
    BY <1>5, <2>1
  <2> HIDE DEF step
  <2>3. \A n \in 0..N : n # 0 => n \in 1..N
    BY <1>1
  <2> QED BY <1>5, <2>2, <2>3
<1>7. read = [n \in 0..N |-> IF n = 0 THEN <<>> ELSE Step(read[n - 1], n)]
  <2> HIDE DEF Step, step
  <2> QED BY <1>6 DEF read
<1> HIDE DEF read, step
<1>8. read[0] = <<>> /\ \A n \in 1..N : read[n] = Step(read[n - 1], n)
  BY <1>1, <1>7
<1>9. \A n \in 1..N : read[n - 1] \in S => read[n] \in S
  BY <1>2, <1>8
<1>10. \A n \in 0..N : read[n] \in S
  BY <1>0, <1>1, <1>8, <1>9, StepsStay
<1>11. FromFiles = read[N]
  BY DEF FromFiles, read, Step
<1> QED BY <1>1, <1>10, <1>11 DEF S

LEMMA DefaultIntervalTyped ==
  ASSUME NEW id \in StreamIds \cup Specials, rates \in [StreamNumbers -> 0..MaxInterval]
  PROVE  DefaultInterval(id) \in 0..MaxInterval
<1> DEFINE k == CHOOSE k \in 1..Len(FromFiles) : FromFiles[k].id = id
           s == CHOOSE s \in StreamNumbers :
                  \E j \in 1..Len(Streamed[s]) : Streamed[s][j] = id
<1>1. HeartbeatInterval \in 0..MaxInterval /\ 0 \in 0..MaxInterval
  BY StreamAssumption, StreamConstants
<1>2. ASSUME \E l \in 1..Len(FromFiles) : FromFiles[l].id = id
      PROVE  FromFiles[k].interval \in 0..MaxInterval
  <2>1. k \in 1..Len(FromFiles)
    BY <1>2
  <2> HIDE DEF k
  <2>2. FromFiles[k] \in IntervalLines
    BY <2>1, FromFilesTyped, ElementOfSeq
  <2> QED BY <2>2 DEF IntervalLines
<1>3. ASSUME id \in StreamIds
      PROVE  rates[s] \in 0..MaxInterval
  <2>1. \E r \in StreamNumbers : \E j \in 1..Len(Streamed[r]) : Streamed[r][j] = id
    BY <1>3 DEF StreamIds
  <2>2. s \in StreamNumbers
    BY <2>1
  <2> HIDE DEF s
  <2> QED BY <2>2
<1> HIDE DEF k, s
<1> QED BY <1>1, <1>2, <1>3 DEF DefaultInterval, k, s

----------------------------------------------------------------------------
LEMMA NowIs ==
  ASSUME NEW b, NEW sp, NEW i, NEW ids
  PROVE  [b |-> b, sending |-> i, toSend |-> ids, special |-> sp] \in Consistent
         <=> /\ b \in [Buckets -> BucketSet] /\ i \in Buckets \cup {NoBucket}
             /\ ids \in SUBSET StreamIds /\ sp \in [1..Len(Special) -> SpecialSet]
             /\ Apart(b) /\ UsedOnly(b) /\ SendingFits(b, i, ids)
BY DEF Consistent, Schedules

LEMMA BecomesConsistent ==
  ASSUME NEW q \in Consistent, Becomes(q)
  PROVE  Now' \in Consistent
<1>1. buckets' = q.b /\ special' = q.special /\ sending' = q.sending /\ toSend' = q.toSend
  BY DEF Becomes
<1>2. q.b \in [Buckets -> BucketSet] /\ q.sending \in Buckets \cup {NoBucket}
      /\ q.toSend \in SUBSET StreamIds /\ q.special \in [1..Len(Special) -> SpecialSet]
      /\ Apart(q.b) /\ UsedOnly(q.b) /\ SendingFits(q.b, q.sending, q.toSend)
  BY DEF Consistent, Schedules
<1> QED BY <1>1, <1>2, NowIs DEF Now

LEMMA NowParts ==
  ASSUME Now \in Consistent
  PROVE  /\ buckets \in [Buckets -> BucketSet] /\ sending \in Buckets \cup {NoBucket}
         /\ toSend \in SUBSET StreamIds /\ special \in [1..Len(Special) -> SpecialSet]
         /\ Apart(buckets) /\ UsedOnly(buckets) /\ SendingFits(buckets, sending, toSend)
BY NowIs DEF Now

LEMMA StreamInvInit == StreamInit => StreamInv
<1> SUFFICES ASSUME StreamInit PROVE StreamInv
  OBVIOUS
<1>1. StreamRate \in 0..MaxInterval /\ Unused \in BucketSet
  BY StreamAssumption, UnusedTyped
<1>2. buckets \in [Buckets -> BucketSet] /\ Apart(buckets) /\ UsedOnly(buckets)
      /\ SendingFits(buckets, sending, toSend)
  <2>1. \A i \in Buckets : buckets[i] = Unused
    BY DEF StreamInit
  <2>2. \A i \in Buckets : buckets[i].ids = {} /\ buckets[i].interval = 0
    BY <2>1 DEF Unused
  <2>3. buckets \in [Buckets -> BucketSet]
    BY <1>1 DEF StreamInit
  <2>4. Apart(buckets) /\ UsedOnly(buckets)
    BY <2>2 DEF Apart, UsedOnly
  <2>5. SendingFits(buckets, sending, toSend)
    BY <2>2 DEF StreamInit, SendingFits
  <2> QED BY <2>3, <2>4, <2>5
<1>3. special \in [1..Len(Special) -> SpecialSet]
  <2> DEFINE e == [interval |-> 0, since |-> 0]
  <2>1. e \in SpecialSet
    BY StreamConstants DEF SpecialSet
  <2>2. special = [i \in 1..Len(Special) |-> e]
    BY DEF StreamInit
  <2> HIDE DEF e
  <2> QED BY <2>1, <2>2
<1>4. Now \in Consistent
  <2>1. sending = NoBucket /\ toSend \in SUBSET StreamIds
    BY DEF StreamInit
  <2> QED BY <1>2, <1>3, <2>1, NowIs DEF Now
<1>5. rates \in [StreamNumbers -> 0..MaxInterval]
  BY <1>1 DEF StreamInit
<1>6. cache \in 0..Len(Special)
  BY StreamConstants DEF StreamInit
<1> QED BY <1>4, <1>5, <1>6 DEF StreamInv, StreamInit

LEMMA InitialiseKeeps ==
  ASSUME StreamInv, Initialise
  PROVE  StreamInv'
<1> DEFINE q == WithStreams(Now)
           r == WithInterval(q, Heartbeat, HeartbeatInterval)
           s == WithIntervals(r, FromFiles)
<1>1. q \in Consistent
  BY WithStreamsConsistent DEF StreamInv
<1>2. r \in Consistent
  <2>1. Heartbeat \in StreamIds \cup Specials /\ HeartbeatInterval \in 0..MaxInterval
    BY StreamAssumption
  <2> HIDE DEF q
  <2> QED BY <1>1, <2>1, WithIntervalConsistent
<1>3. s \in Consistent
  <2> HIDE DEF r
  <2> QED BY <1>2, FromFilesTyped, WithIntervalsConsistent
<1>4. Becomes(s)
  BY DEF Initialise
<1> HIDE DEF s
<1>5. Now' \in Consistent
  BY <1>3, <1>4, BecomesConsistent
<1> QED BY <1>5 DEF StreamInv, Initialise

LEMMA SetIntervalKeeps ==
  ASSUME StreamInv, NEW id \in StreamIds \cup Specials,
         NEW interval \in Intervals \cup {DefaultInterval(id)}, SetInterval(id, interval)
  PROVE  StreamInv'
<1>1. interval \in 0..MaxInterval
  BY StreamAssumption, DefaultIntervalTyped DEF StreamInv
<1> DEFINE s == WithInterval(Now, id, interval)
<1>2. s \in Consistent
  BY <1>1, WithIntervalConsistent DEF StreamInv
<1>3. Becomes(s)
  BY DEF SetInterval
<1> HIDE DEF s
<1>4. Now' \in Consistent
  BY <1>2, <1>3, BecomesConsistent
<1> QED BY <1>4 DEF StreamInv, SetInterval

LEMMA RequestDataStreamKeeps ==
  ASSUME StreamInv, NEW n \in StreamNumbers, NEW interval \in Intervals,
         RequestDataStream(n, interval)
  PROVE  StreamInv'
<1>1. interval \in 0..MaxInterval
  BY StreamAssumption
<1> DEFINE s == WithStream(Now, n, interval)
<1>2. s \in Consistent
  BY <1>1, WithStreamConsistent DEF StreamInv
<1>3. Becomes(s)
  BY DEF RequestDataStream
<1> HIDE DEF s
<1>4. Now' \in Consistent
  BY <1>2, <1>3, BecomesConsistent
<1>5. rates' \in [StreamNumbers -> 0..MaxInterval]
  BY <1>1 DEF StreamInv, RequestDataStream
<1> QED BY <1>4, <1>5 DEF StreamInv, RequestDataStream

----------------------------------------------------------------------------
LEMMA CachedTyped ==
  ASSUME cache \in 0..Len(Special), special \in [1..Len(Special) -> SpecialSet]
  PROVE  Cached \in 0..Len(Special)
<1> DEFINE before == [i \in Wanted |-> Before(special[i].interval, special[i].since)]
<1>1. CASE cache # 0 \/ Wanted = {}
  BY <1>1 DEF Cached
<1>2. CASE ~(cache # 0 \/ Wanted = {})
  <2>1. Cached = Soonest(Wanted, before)
    BY <1>2 DEF Cached
  <2>2. Wanted \in SUBSET Nat /\ Wanted \subseteq 1..Len(Special)
    BY StreamConstants DEF Wanted
  <2>3. \A i \in Wanted : before[i] \in Nat
    <3> SUFFICES ASSUME NEW i \in Wanted PROVE before[i] \in Nat
      OBVIOUS
    <3>1. special[i] \in SpecialSet
      BY <2>2
    <3>2. special[i].interval \in Nat /\ special[i].since \in Nat
      BY <3>1, StreamConstants DEF SpecialSet
    <3> QED BY <3>2, BeforeTyped
  <2> HIDE DEF before
  <2>4. Cached \in Wanted
    BY <1>2, <2>1, <2>2, <2>3, SoonestIn
  <2> QED BY <2>2, <2>4, StreamConstants
<1> QED BY <1>1, <1>2

LEMMA SendSpecialKeeps ==
  ASSUME StreamInv, SendSpecial
  PROVE  StreamInv'
<1>1. buckets \in [Buckets -> BucketSet] /\ sending \in Buckets \cup {NoBucket}
      /\ toSend \in SUBSET StreamIds /\ special \in [1..Len(Special) -> SpecialSet]
      /\ Apart(buckets) /\ UsedOnly(buckets) /\ SendingFits(buckets, sending, toSend)
  BY NowParts DEF StreamInv
<1>2. Cached \in 1..Len(Special)
  BY <1>1, CachedTyped, StreamConstants DEF StreamInv, SendSpecial, SpecialDue
<1> DEFINE c == Cached
           t == IF special[c].interval = 0 THEN 0
                ELSE Regular(special[c].since, special[c].interval)
           e == [special[c] EXCEPT !.since = t]
<1>3. special' = [special EXCEPT ![c] = e]
  BY DEF SendSpecial
<1> HIDE DEF c
<1>4. c \in 1..Len(Special) /\ special[c] \in SpecialSet
  BY <1>1, <1>2 DEF c
<1>5. t \in Clocks
  BY <1>4, RegularTyped, StreamConstants DEF SpecialSet
<1> HIDE DEF t
<1>6. e \in SpecialSet
  BY <1>4, <1>5 DEF SpecialSet
<1> HIDE DEF e
<1>7. special' \in [1..Len(Special) -> SpecialSet]
  BY <1>1, <1>3, <1>4, <1>6
<1>8. buckets' = buckets /\ sending' = sending /\ toSend' = toSend
  BY DEF SendSpecial
<1>9. Now' \in Consistent
  BY <1>1, <1>7, <1>8, NowIs DEF Now
<1>10. cache' \in 0..Len(Special)
  BY StreamConstants DEF SendSpecial
<1> QED BY <1>9, <1>10 DEF StreamInv, SendSpecial

LEMMA SendPushedKeeps ==
  ASSUME StreamInv, NEW really \in BOOLEAN, SendPushed(really)
  PROVE  StreamInv'
<1>1. cache' \in 0..Len(Special)
  BY CachedTyped, NowParts DEF StreamInv, SendPushed
<1>2. Now' = Now
  BY DEF SendPushed, Now
<1>3. pushed' \subseteq StreamIds \cup Specials
  BY DEF SendPushed, StreamInv
<1> QED BY <1>1, <1>2, <1>3 DEF StreamInv, SendPushed

(* A bucket is done, and the next one is found.                            *)
LEMMA FinishedConsistent ==
  ASSUME NEW q \in Schedules, Apart(q.b), UsedOnly(q.b), q.sending \in Buckets
  PROVE  Finished(q) \in Consistent
<1> DEFINE i == q.sending
           t == Regular(q.b[i].since, Reschedule(q.b[i]))
           e == [q.b[i] EXCEPT !.since = t]
           nb == [q.b EXCEPT ![i] = e]
           s == [q EXCEPT !.b = nb]
<1>1. q.b \in [Buckets -> BucketSet] /\ q.b[i] \in BucketSet
  BY DEF Schedules
<1>2. t \in Clocks
  BY <1>1, RescheduleTyped, RegularTyped DEF BucketSet
<1>3. Finished(q) = FindNextBucket(s)
  BY DEF Finished
<1> HIDE DEF t
<1>4. e \in BucketSet /\ e.ids = q.b[i].ids /\ e.interval = q.b[i].interval
  BY <1>1, <1>2 DEF BucketSet
<1> HIDE DEF e
<1>5. /\ nb \in [Buckets -> BucketSet]
      /\ \A k \in Buckets : nb[k].ids = q.b[k].ids /\ nb[k].interval = q.b[k].interval
  BY <1>1, <1>4
<1> HIDE DEF nb
<1>6. s \in Schedules /\ s.b = nb
  BY <1>5 DEF Schedules
<1>7. Apart(nb) /\ UsedOnly(nb)
  BY <1>5 DEF Apart, UsedOnly
<1> HIDE DEF s
<1> QED BY <1>3, <1>6, <1>7, FindsNextBucket

LEMMA SendStreamedKeeps ==
  ASSUME StreamInv, NEW really \in BOOLEAN, SendStreamed(really)
  PROVE  StreamInv'
<1>1. buckets \in [Buckets -> BucketSet] /\ sending \in Buckets \cup {NoBucket}
      /\ toSend \in SUBSET StreamIds /\ special \in [1..Len(Special) -> SpecialSet]
      /\ Apart(buckets) /\ UsedOnly(buckets) /\ SendingFits(buckets, sending, toSend)
  BY NowParts DEF StreamInv
<1>2. PICK id \in toSend :
        LET q == [Now EXCEPT !.toSend = @ \ {id}]
        IN  Becomes(IF q.toSend = {} THEN Finished(q) ELSE q)
  BY DEF SendStreamed
<1> DEFINE q == [Now EXCEPT !.toSend = toSend \ {id}]
           r == IF q.toSend = {} THEN Finished(q) ELSE q
<1>3. Becomes(r)
  BY <1>2 DEF Now
<1>4. Now \in Schedules
  BY DEF StreamInv, Consistent
<1>5. q \in Schedules /\ q.b = buckets /\ q.sending = sending /\ q.toSend = toSend \ {id}
  <2>1. toSend \ {id} \in SUBSET StreamIds
    BY <1>1
  <2>2. Now.b = buckets /\ Now.sending = sending
    BY DEF Now
  <2> QED BY <1>4, <2>1, <2>2 DEF Schedules
<1>6. sending \in Buckets
  BY <1>1 DEF SendStreamed, BucketDue
<1> HIDE DEF q
<1>7. r \in Consistent
  <2>1. CASE q.toSend = {}
    <3>1. r = Finished(q)
      BY <2>1
    <3> QED BY <1>1, <1>5, <1>6, <3>1, FinishedConsistent
  <2>2. CASE q.toSend # {}
    <3>1. SendingFits(q.b, q.sending, q.toSend)
      BY <1>1, <1>5, <1>6, <2>2, StreamConstants DEF SendingFits
    <3> QED BY <1>1, <1>5, <2>2, <3>1 DEF Consistent
  <2> QED BY <2>1, <2>2
<1> HIDE DEF r
<1>8. Now' \in Consistent
  BY <1>3, <1>7, BecomesConsistent
<1>9. cache' \in 0..Len(Special)
  BY <1>1, CachedTyped DEF StreamInv, SendStreamed
<1> QED BY <1>8, <1>9 DEF StreamInv, SendStreamed

LEMMA Ticks ==
  ASSUME NEW s \in Clocks
  PROVE  (s + 1) % Wrap \in Clocks
<1>1. Wrap \in Nat \ {0} /\ s + 1 \in Int
  BY StreamConstants DEF Clocks
<1> QED BY <1>1 DEF Clocks

LEMMA StreamTickKeeps ==
  ASSUME StreamInv, StreamTick
  PROVE  StreamInv'
<1>1. buckets \in [Buckets -> BucketSet] /\ sending \in Buckets \cup {NoBucket}
      /\ toSend \in SUBSET StreamIds /\ special \in [1..Len(Special) -> SpecialSet]
      /\ Apart(buckets) /\ UsedOnly(buckets) /\ SendingFits(buckets, sending, toSend)
  BY NowParts DEF StreamInv
<1> DEFINE Aged(e) == [e EXCEPT !.since = (e.since + 1) % Wrap]
           Bucket(i) == IF buckets[i].ids = {} THEN Unused ELSE Aged(buckets[i])
           Clock(i) == IF special[i].interval = 0 THEN special[i] ELSE Aged(special[i])
<1>2. \A e \in BucketSet : Aged(e) \in BucketSet /\ Aged(e).ids = e.ids
                          /\ Aged(e).interval = e.interval
  <2> SUFFICES ASSUME NEW e \in BucketSet
               PROVE  Aged(e) \in BucketSet /\ Aged(e).ids = e.ids
                      /\ Aged(e).interval = e.interval
    OBVIOUS
  <2> DEFINE t == (e.since + 1) % Wrap
  <2>1. t \in Clocks
    BY Ticks DEF BucketSet
  <2> HIDE DEF t
  <2>2. [e EXCEPT !.since = t] \in BucketSet /\ [e EXCEPT !.since = t].ids = e.ids
        /\ [e EXCEPT !.since = t].interval = e.interval
    BY <2>1 DEF BucketSet
  <2> QED BY <2>2 DEF t
<1>3. \A e \in SpecialSet : Aged(e) \in SpecialSet
  <2> SUFFICES ASSUME NEW e \in SpecialSet PROVE Aged(e) \in SpecialSet
    OBVIOUS
  <2> DEFINE t == (e.since + 1) % Wrap
  <2>1. t \in Clocks
    BY Ticks DEF SpecialSet
  <2> HIDE DEF t
  <2>2. [e EXCEPT !.since = t] \in SpecialSet
    BY <2>1 DEF SpecialSet
  <2> QED BY <2>2 DEF t
<1>4. buckets' = [i \in Buckets |-> Bucket(i)] /\ special' = [i \in 1..Len(Special) |-> Clock(i)]
  BY DEF StreamTick
<1> HIDE DEF Aged
<1>5. \A i \in Buckets : /\ Bucket(i) \in BucketSet /\ Bucket(i).ids = buckets[i].ids
                         /\ Bucket(i).interval = buckets[i].interval
  <2> SUFFICES ASSUME NEW i \in Buckets
               PROVE  /\ Bucket(i) \in BucketSet /\ Bucket(i).ids = buckets[i].ids
                      /\ Bucket(i).interval = buckets[i].interval
    OBVIOUS
  <2>1. CASE buckets[i].ids = {}
    <3>1. Bucket(i) = Unused /\ buckets[i].interval = 0
      BY <1>1, <2>1 DEF UsedOnly
    <3> QED BY <2>1, <3>1, UnusedTyped DEF Unused
  <2>2. CASE buckets[i].ids # {}
    BY <1>1, <1>2, <2>2
  <2> QED BY <2>1, <2>2
<1>6. \A i \in 1..Len(Special) : Clock(i) \in SpecialSet
  BY <1>1, <1>3
<1> HIDE DEF Bucket, Clock
<1>7. buckets' \in [Buckets -> BucketSet] /\ special' \in [1..Len(Special) -> SpecialSet]
  BY <1>4, <1>5, <1>6
<1>8. \A i \in Buckets : buckets'[i].ids = buckets[i].ids /\ buckets'[i].interval = buckets[i].interval
  BY <1>4, <1>5
<1>9. sending' = sending /\ toSend' = toSend
  BY DEF StreamTick
<1>10. Apart(buckets') /\ UsedOnly(buckets')
  BY <1>1, <1>8 DEF Apart, UsedOnly
<1>11. SendingFits(buckets', sending', toSend')
  BY <1>1, <1>8, <1>9 DEF SendingFits
<1>12. Now' \in Consistent
  BY <1>1, <1>7, <1>9, <1>10, <1>11, NowIs DEF Now
<1>13. cache' \in 0..Len(Special)
  BY <1>1, CachedTyped DEF StreamInv, StreamTick
<1> QED BY <1>12, <1>13 DEF StreamInv, StreamTick

LEMMA StreamInvNext == StreamInv /\ [StreamNext]_streamVars => StreamInv'
<1> SUFFICES ASSUME StreamInv, [StreamNext]_streamVars PROVE StreamInv'
  OBVIOUS
<1>1. ASSUME NEW id \in StreamIds \cup Specials,
             NEW interval \in Intervals \cup {DefaultInterval(id)}, SetInterval(id, interval)
      PROVE  StreamInv'
  BY <1>1, SetIntervalKeeps
<1>2. ASSUME NEW s \in StreamNumbers, NEW interval \in Intervals, RequestDataStream(s, interval)
      PROVE  StreamInv'
  BY <1>2, RequestDataStreamKeeps
<1>3. ASSUME NEW id \in StreamIds \cup Specials, SendMessage(id)
      PROVE  StreamInv'
  <2>1. Now' = Now /\ pushed' \subseteq StreamIds \cup Specials
    BY <1>3 DEF SendMessage, Now, StreamInv
  <2> QED BY <1>3, <2>1 DEF StreamInv, SendMessage
<1>4. ASSUME NEW b \in BOOLEAN, SlowDown(b)
      PROVE  StreamInv'
  <2>1. Now' = Now
    BY <1>4 DEF SlowDown, Now
  <2> QED BY <1>4, <2>1 DEF StreamInv, SlowDown
<1>5. CASE SendOne
  BY <1>5, InitialiseKeeps, SendSpecialKeeps, SendPushedKeeps, SendStreamedKeeps DEF SendOne
<1>6. CASE SkipOne
  BY <1>6, SendPushedKeeps, SendStreamedKeeps DEF SkipOne
<1>7. CASE StreamTick
  BY <1>7, StreamTickKeeps
<1>8. CASE UNCHANGED streamVars
  <2>1. Now' = Now
    BY <1>8 DEF streamVars, Now
  <2> QED BY <1>8, <2>1 DEF StreamInv, streamVars
<1> QED BY <1>1, <1>2, <1>3, <1>4, <1>5, <1>6, <1>7, <1>8 DEF StreamNext

LEMMA StreamInvariant == StreamSpec => []StreamInv
<1> QED BY StreamInvInit, StreamInvNext, PTL DEF StreamSpec

(* Whatever intervals are asked for, and whenever, the buckets stay        *)
(* consistent: for any streams, tables, files and rates.                   *)
THEOREM BucketsStayConsistent == StreamSpec => []BucketsConsistent
<1>1. StreamInv => BucketsConsistent
  <2> SUFFICES ASSUME StreamInv PROVE BucketsConsistent
    OBVIOUS
  <2>1. Apart(buckets) /\ UsedOnly(buckets) /\ SendingFits(buckets, sending, toSend)
    BY NowParts DEF StreamInv
  <2> QED BY <2>1 DEF BucketsConsistent, Apart, UsedOnly, SendingFits
<1> QED BY <1>1, StreamInvariant, PTL

(* The clocks, tables and rates of a link hold values of their kinds.      *)
THEOREM StreamsTyped == StreamSpec => []StreamTypeOK
<1>1. StreamInv => StreamTypeOK
  <2> SUFFICES ASSUME StreamInv PROVE StreamTypeOK
    OBVIOUS
  <2>1. buckets \in [Buckets -> BucketSet] /\ sending \in Buckets \cup {NoBucket}
    BY NowParts DEF StreamInv
  <2>2. \A i \in Buckets : /\ buckets[i].ids \subseteq StreamIds
                           /\ buckets[i].interval \in 0..MaxInterval
                           /\ buckets[i].since \in 0..(Wrap - 1)
    BY <2>1 DEF BucketSet, Clocks
  <2> QED BY <2>1, <2>2 DEF StreamTypeOK, StreamInv
<1> QED BY <1>1, StreamInvariant, PTL

----------------------------------------------------------------------------
(* The services together.                                                  *)

LEMMA FtpTypeFromInv == FtpInv => FtpTypeOK
<1> SUFFICES ASSUME FtpInv PROVE FtpTypeOK
  OBVIOUS
<1>1. sessions \in [Slots -> Sessions] /\ reply \in Replies
  BY DEF FtpInv, FtpShape
<1>2. \A i \in Slots : /\ sessions[i].client \in Clients \cup {NoClient}
                       /\ sessions[i].fd \in Fds \cup {NoFd}
                       /\ sessions[i].age \in Free..(KillTimeout + 1)
                       /\ sessions[i].mode \in {"read", "write"}
  BY <1>1 DEF Sessions
<1>3. reply.client \in Clients \cup {NoClient} /\ reply.file \in Files \cup {NoFile}
  BY <1>1 DEF Replies
<1> QED BY <1>2, <1>3 DEF FtpInv, FtpShape, FtpTypeOK, Descriptors

LEMMA FtpTyped == FtpSpec => []FtpTypeOK
<1> QED BY FtpTypeFromInv, FtpInvariant, PTL

LEMMA PkTypeFromInv == PkInv => PkTypeOK
<1> SUFFICES ASSUME PkInv PROVE PkTypeOK
  OBVIOUS
<1>1. pkLen \in Nat \ {0} /\ mtu \in Nat \ {0} /\ PkChunks \in Nat \ {0}
  BY PkSizes DEF PkInv
<1>2. PICK b \in 0..PkChunks : pkeRcvd = End(b)
  BY DEF PkInv
<1>3. b * mtu \in Nat
  BY <1>1, <1>2
<1>4. pkeRcvd \in 0..pkLen
  BY <1>1, <1>2, <1>3 DEF End
<1> QED BY <1>4 DEF PkInv, PkTypeOK, Bytes

LEMMA PkTyped == PkSpec => []PkTypeOK
<1> QED BY PkTypeFromInv, PkInvariant, PTL

LEMMA PassTyped == PassSpec => []PassTypeOK
<1>1. PassInv => PassTypeOK
  BY DEF PassInv
<1> QED BY <1>1, PassInvariant, PTL

(* A behaviour of the services is a behaviour of each.                     *)
LEMMA EachStartsAlone ==
  Init => /\ FtpInit /\ ParamInit /\ RoutingInit /\ StreamInit
          /\ TasksInit /\ TextsInit /\ PkInit /\ PassInit
BY DEF Init

LEMMA EachStepsAlone ==
  [Next]_vars => /\ [FtpNext]_ftpVars /\ [ParamNext]_paramVars /\ [RoutingNext]_routingVars
                 /\ [StreamNext]_streamVars /\ [TasksNext]_taskVars /\ [TextsNext]_textVars
                 /\ [PkNext]_pkVars /\ [PassNext]_passVars
BY DEF Next, vars, FtpOnly, ParamOnly, RouterOnly, StreamOnly, TaskOnly, TextOnly, PkOnly,
       PassOnly

LEMMA EachAlone ==
  Spec => /\ FtpSpec /\ ParamSpec /\ RoutingSpec /\ StreamSpec
          /\ TasksSpec /\ TextsSpec /\ PkSpec /\ PassSpec
<1> QED
  BY EachStartsAlone, EachStepsAlone, PTL
  DEF Spec, FtpSpec, ParamSpec, RoutingSpec, StreamSpec, TasksSpec, TextsSpec, PkSpec, PassSpec

(* Every variable of the eight services holds a value of its kind,         *)
(* whatever the links send them, for any tables, limits and rates.         *)
THEOREM ServicesTyped == Spec => []ServicesTypeOK
<1> QED
  BY EachAlone, FtpTyped, ParamsTyped, RoutesTyped, StreamsTyped, TasksTyped, TextsTyped,
     PkTyped, PassTyped, PTL
  DEF ServicesTypeOK
=============================================================================
