------------------------------- MODULE PortMap -------------------------------
(***************************************************************************)
(* What the theme's port panel makes of the router's configuration:          *)
(* view/openuf-theme/ports.js, readDeviceConfig, resolveMembers and collect.   *)
(*                                                                          *)
(* A board b: builtin, its netdevs in order; role, of a port; cpu, the netdev   *)
(* that a switch hangs on, or None; front, the switch's ports in order.          *)
(* A configuration c: bridges, name -> [ports, option, vlans], a VLAN being        *)
(* [vid, aliases, ports], a port's flags "t", "u" or "u*"; vdevs, name ->           *)
(* [parent, vid]; nets, network -> its device or the network it is an alias of;      *)
(* switch, the VLANs of the switch, [vid, cpu, ports]; disabled, devices.             *)
(* What a load brought, res: builtin, topo and nets, whether these were answered,      *)
(* and links, the ports with link.                                                      *)
(***************************************************************************)
EXTENDS Naturals, Sequences

CONSTANTS
  Dotted,  \* the devices named <parent>.<vid>: name -> [parent, vid]
  Wan,     \* the networks that are WANs
  None

ASSUME NamesAssumption ==
  /\ None \notin STRING \cup Nat /\ Wan \subseteq STRING
  /\ \A d \in DOMAIN Dotted : d \in STRING /\ Dotted[d].parent \in STRING /\ Dotted[d].vid \in Nat

Elements(s) == {s[i] : i \in DOMAIN s}

-----------------------------------------------------------------------------
(* readDeviceConfig, resolveMembers                                         *)

\* A bridge with VLANs filters unless told not to, one without does if told to.
Filtering(br) == IF br.vlans # <<>> THEN br.option # "0" ELSE br.option = "1"

\* A device section comes before what a name says.
Parent(c, name) ==
  IF name \in DOMAIN c.vdevs THEN c.vdevs[name]
  ELSE IF name \in DOMAIN Dotted THEN Dotted[name] ELSE None

\* The VLAN of a filtering bridge that is native to its port p: the last whose PVID
\* it is, or else the first that is untagged.
Native(br, p) ==
  LET with(flags) == {i \in DOMAIN br.vlans :
                        p \in DOMAIN br.vlans[i].ports /\ br.vlans[i].ports[p] \in flags}
  IN CASE ~Filtering(br) \/ with({"u", "u*"}) = {} -> None
       [] Filtering(br) /\ with({"u*"}) # {} ->
            br.vlans[CHOOSE i \in with({"u*"}) : \A j \in with({"u*"}) : j <= i].vid
       [] OTHER -> br.vlans[CHOOSE i \in with({"u"}) : \A j \in with({"u"}) : i <= j].vid

\* Where a name leads: through one layer to the ports of a bridge or to the device
\* below, in which VLAN and whether tagged; a port of T leads to itself.
Leaves(c, T, name) ==
  LET over == Parent(c, name)
      Through(br) ==
        IF Filtering(br)
        THEN UNION {{[port |-> p, vid |-> w.vid, tagged |-> w.ports[p] = "t"] : p \in DOMAIN w.ports} :
                      w \in {w \in Elements(br.vlans) : over.vid \in {w.vid} \cup w.aliases}}
        ELSE {[port |-> p, vid |-> over.vid, tagged |-> TRUE] : p \in br.ports}
  IN CASE name \notin T /\ over # None ->
            IF over.parent \in DOMAIN c.bridges THEN Through(c.bridges[over.parent])
            ELSE {[port |-> over.parent, vid |-> over.vid, tagged |-> TRUE]}
       [] (name \in T \/ over = None) /\ name \in DOMAIN c.bridges ->
            {[port |-> p, vid |-> Native(c.bridges[name], p), tagged |-> FALSE] :
               p \in c.bridges[name].ports}
       [] OTHER -> {[port |-> p, vid |-> None, tagged |-> FALSE] : p \in T \cap {name}}

\* What the layers above laid on a leaf is seen where it is a port, or lies on what is below.
Context == [vid : Nat \cup {None}, tagged : BOOLEAN]
Emit(ctx, leaf) ==
  IF ctx.vid # None /\ leaf.vid = None THEN [port |-> leaf.port, vid |-> ctx.vid, tagged |-> TRUE]
  ELSE [port |-> leaf.port, vid |-> leaf.vid, tagged |-> leaf.tagged \/ ctx.tagged]
Onward(ctx, leaf) == IF leaf.vid # None THEN [vid |-> leaf.vid, tagged |-> leaf.tagged] ELSE ctx

\* Every port of T that a network on the device reaches, and how.
Visits == [name : STRING, ctx : Context, seen : SUBSET STRING]
Visited(c, T, resolve, v) ==
  IF v.name \in v.seen THEN {}
  ELSE UNION {IF leaf.port \in T THEN {Emit(v.ctx, leaf)}
              ELSE resolve[[name |-> leaf.port, ctx |-> Onward(v.ctx, leaf),
                            seen |-> v.seen \cup {v.name}]] : leaf \in Leaves(c, T, v.name)}
Resolve(c, T, device) ==
  LET resolve[v \in Visits] == Visited(c, T, resolve, v)
  IN resolve[[name |-> device, ctx |-> [vid |-> None, tagged |-> FALSE], seen |-> {}]]

-----------------------------------------------------------------------------
(* collect                                                                  *)

\* The CPU port and its VLANs are no ports, as long as the switch is known.
Devices(b, res) ==
  LET base(d) == IF d \in DOMAIN Dotted THEN Dotted[d].parent ELSE d
      kept[i \in 0..Len(b.builtin)] ==
        IF i = 0 THEN <<>>
        ELSE IF res.topo /\ base(b.builtin[i]) = b.cpu THEN kept[i - 1]
        ELSE Append(kept[i - 1], b.builtin[i])
  IN IF res.builtin THEN kept[Len(b.builtin)] ELSE <<>>
Front(b, res) == IF res.topo THEN b.front ELSE <<>>
Targets(b, res) ==
  Elements(Devices(b, res)) \cup (IF res.topo /\ b.cpu # None THEN {b.cpu} ELSE {})

\* An alias has the device of its network.
DeviceOf(c, n) == IF c.nets[n] \in DOMAIN c.nets THEN c.nets[c.nets[n]] ELSE c.nets[n]

\* The networks on the netdevs ...
OnNetdevs(b, c, res) ==
  UNION {{[port |-> m.port, vid |-> m.vid, tagged |-> m.tagged, net |-> n] :
            m \in Resolve(c, Targets(b, res), DeviceOf(c, n))} :
         n \in IF res.nets THEN DOMAIN c.nets ELSE {}}
\* ... the VLANs of filtering bridges, with a network or not ...
OnBridges(c) ==
  UNION {UNION {{[port |-> p, vid |-> w.vid, tagged |-> w.ports[p] = "t", net |-> None] :
                   p \in DOMAIN w.ports} : w \in Elements(br.vlans)} :
         br \in {br \in {c.bridges[name] : name \in DOMAIN c.bridges} : Filtering(br)}}
\* ... and the VLANs of the switch, whose networks are those on its CPU port.
OnSwitch(b, c, onNetdevs) ==
  LET through(w) == {m \in onNetdevs :
        /\ m.port = b.cpu
        /\ IF w.cpu = "t" THEN m.vid = w.vid /\ m.tagged ELSE w.cpu = "u" /\ m.vid = None}
      nets(w) == IF through(w) = {} THEN {None} ELSE {m.net : m \in through(w)}
  IN UNION {{[port |-> member[1], vid |-> w.vid, tagged |-> w.ports[member[1]] = "t", net |-> member[2]] :
               member \in (DOMAIN w.ports) \X nets(w)} : w \in c.switch}

Members(b, c, res) ==
  LET onNetdevs == OnNetdevs(b, c, res) IN
  onNetdevs \cup OnBridges(c) \cup (IF res.topo THEN OnSwitch(b, c, onNetdevs) ELSE {})

\* By VLAN, untagged or tagged.
Groups(members, tagged) ==
  LET some == {m \in members : m.tagged = tagged} IN
  {[vid |-> v, nets |-> {m.net : m \in {m \in some : m.vid = v}} \ {None}] : v \in {m.vid : m \in some}}

SpeedClass(c, res, id) ==
  IF id \in c.disabled THEN "disabled" ELSE IF id \in res.links THEN "up" ELSE "down"

\* The one port a WAN leaves through, or the one of those, or all those, whose role
\* it is.
UplinksByRole(b, ids, carrying) == {id \in ids : b.role[id] = "wan"}   \* mutant: by role alone
Uplinks(b, ids, carrying) ==
  LET role(s) == {id \in s : b.role[id] = "wan"}
      one(s) == \E id \in s : s = {id}
      leaving == {id \in ids : carrying[id] \cap Wan # {}}
  IN IF one(leaving) THEN leaving ELSE IF one(role(leaving)) THEN role(leaving) ELSE role(ids)

Collect(b, c, res) ==
  LET all == Devices(b, res) \o Front(b, res)
      members == Members(b, c, res)
      of(id) == {m \in members : m.port = id}
      uplinks == Uplinks(b, Elements(all), [id \in Elements(all) |-> {m.net : m \in of(id)}])
  IN [i \in DOMAIN all |->
        [id |-> all[i], native |-> Groups(of(all[i]), FALSE), tagged |-> Groups(of(all[i]), TRUE),
         state |-> SpeedClass(c, res, all[i]), uplink |-> all[i] \in uplinks]]

-----------------------------------------------------------------------------
(* What is on the wire: the frames of a network, with their tags, the outermost   *)
(* first, through one layer at a time                                        *)

\* The bridge sends a frame out of its ports.  One that filters takes off the tag
\* where the VLAN is untagged; its own frames leave where their VLAN is the PVID.
Across(br, tags) ==
  LET untagged(w) == {p \in DOMAIN w.ports : w.ports[p] # "t"}
      vlans == {w \in Elements(br.vlans) : Head(tags) \in {w.vid} \cup w.aliases}
  IN IF ~Filtering(br) THEN {[at |-> p, tags |-> tags, vlan |-> None] : p \in br.ports}
     ELSE IF tags = <<>>
     THEN UNION {{[at |-> p, tags |-> <<>>, vlan |-> w.vid] : p \in untagged(w)} :
                   w \in Elements(br.vlans)}
     ELSE UNION {{[at |-> p, tags |-> IF p \in untagged(w) THEN Tail(tags) ELSE <<w.vid>> \o Tail(tags),
                   vlan |-> w.vid] : p \in DOMAIN w.ports} : w \in vlans}

Below(c, frame) ==
  LET over == Parent(c, frame.at)
      tags == <<over.vid>> \o frame.tags
  IN IF over # None
     THEN IF over.parent \in DOMAIN c.bridges THEN Across(c.bridges[over.parent], tags)
          ELSE {[at |-> over.parent, tags |-> tags, vlan |-> None]}
     ELSE IF frame.at \in DOMAIN c.bridges THEN Across(c.bridges[frame.at], frame.tags) ELSE {}

\* Frames on their way down stay where they leave.
Down(c, netdevs, frames) ==
  UNION {IF f.at \in netdevs THEN {f} ELSE Below(c, f) : f \in frames}
Look(f) ==
  IF f.tags = <<>> THEN [vid |-> f.vlan, tagged |-> FALSE] ELSE [vid |-> Head(f.tags), tagged |-> TRUE]

\* What network n looks like on netdev p: its VLAN and whether that is tagged.
OnWire(c, netdevs, n, p) ==
  LET sent == {[at |-> DeviceOf(c, n), tags |-> <<>>, vlan |-> None]}
      frames == Down(c, netdevs, Down(c, netdevs, Down(c, netdevs, sent)))
  IN {Look(f) : f \in {f \in frames : f.at = p}}

\* ... and on port p of the switch: what the CPU port sends, in the VLAN it goes by.
OnFront(b, c, netdevs, n, p) ==
  LET sent == OnWire(c, netdevs, n, b.cpu)
      carry(w) == \E m \in sent : IF m.tagged THEN w.cpu = "t" /\ m.vid = w.vid ELSE w.cpu = "u"
  IN {[vid |-> w.vid, tagged |-> w.ports[p] = "t"] :
        w \in {w \in c.switch : p \in DOMAIN w.ports /\ carry(w)}}

\* The netdevs that are ports, and the one that the switch hangs on.
Netdevs(b) ==
  {d \in Elements(b.builtin) : d \in DOMAIN Dotted => Dotted[d].parent # b.cpu} \cup ({b.cpu} \ {None})
Wire(b, c, n, p) ==
  IF p \in Elements(b.front) THEN OnFront(b, c, Netdevs(b), n, p) ELSE OnWire(c, Netdevs(b), n, p)

-----------------------------------------------------------------------------
(* Configurations whose networks the panel shows as they are on the wire      *)

\* What a device lies on.
Lower(c, x) ==
  LET over == Parent(c, x)
      ports(br) == br.ports \cup UNION {DOMAIN w.ports : w \in Elements(br.vlans)}
  IN CASE over # None /\ over.parent \in DOMAIN c.bridges -> ports(c.bridges[over.parent])
       [] over # None /\ over.parent \notin DOMAIN c.bridges -> {over.parent}
       [] over = None /\ x \in DOMAIN c.bridges -> ports(c.bridges[x])
       [] OTHER -> {}

\* Below the first layer there are VLAN devices only, none over a bridge that filters,
\* and the third lies on ports.
Plain(c, x) ==
  LET over == Parent(c, x) IN
  IF over = None THEN x \notin DOMAIN c.bridges
  ELSE over.parent \in DOMAIN c.bridges => ~Filtering(c.bridges[over.parent])
One(c, T, x) == Lower(c, x) \subseteq T
Two(c, T, x) == \A y \in Lower(c, x) \ T : Plain(c, y) /\ One(c, T, y)
Three(c, T, x) == \A y \in Lower(c, x) \ T : Plain(c, y) /\ Two(c, T, y)

\* Every port of the bridge, and no other, is untagged in just one of its VLANs.
Pvids(br) ==
  LET untagged(p) == {i \in DOMAIN br.vlans :
                        p \in DOMAIN br.vlans[i].ports /\ br.vlans[i].ports[p] # "t"}
  IN /\ \A p \in br.ports : \E i \in DOMAIN br.vlans : untagged(p) = {i}
     /\ \A w \in Elements(br.vlans) : \A p \in DOMAIN w.ports : w.ports[p] # "t" => p \in br.ports

\* A network is on a port, or on three layers at most; where it is on a bridge that
\* filters, the ports have their PVIDs.
Placed(c, T, d) ==
  \/ d \in T
  \/ /\ Three(c, T, d)
     /\ Parent(c, d) = None /\ d \in DOMAIN c.bridges /\ Filtering(c.bridges[d]) => Pvids(c.bridges[d])

\* What a bridge that filters sends over the CPU port of a switch is tagged there.
Regular(b, c) ==
  /\ Netdevs(b) \cap DOMAIN c.bridges = {}
  /\ \A n \in DOMAIN c.nets : Placed(c, Netdevs(b), DeviceOf(c, n))
  /\ \A name \in DOMAIN c.bridges : \A w \in Elements(c.bridges[name].vlans) :
       b.cpu \in DOMAIN w.ports => w.ports[b.cpu] = "t"
=============================================================================
