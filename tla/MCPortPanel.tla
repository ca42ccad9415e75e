----------------------------- MODULE MCPortPanel -----------------------------
EXTENDS PortPanel, FiniteSets

DottedNames ==
  [name \in {"br.1", "br.2", "br.20", "wan.7", "eth0.1", "eth0.2"} |->
     CASE name = "br.1" -> [parent |-> "br", vid |-> 1]
       [] name = "br.2" -> [parent |-> "br", vid |-> 2]
       [] name = "br.20" -> [parent |-> "br", vid |-> 20]
       [] name = "wan.7" -> [parent |-> "wan", vid |-> 7]
       [] name = "eth0.1" -> [parent |-> "eth0", vid |-> 1]
       [] OTHER -> [parent |-> "eth0", vid |-> 2]]

WanNets == {"WAN", "WAN6"}

\* The flags in two VLANs, to those that have any.
Vlan(v, others, flags) ==
  [vid |-> v, aliases |-> others, ports |-> [p \in {p \in DOMAIN flags : flags[p] # ""} |-> flags[p]]]

\* Two netdevs, bridged with VLANs or without, the WAN on its own port or in a VLAN.
Bridged(option, lan1, wan, dev1, dev2) ==
  [bridges |-> [b \in {"br"} |->
     [ports |-> IF wan = <<"", "">> THEN {"lan1"} ELSE {"lan1", "wan"}, option |-> option,
      vlans |-> << Vlan(1, {}, [p \in {"lan1", "wan"} |-> IF p = "lan1" THEN lan1[1] ELSE wan[1]]),
                   Vlan(2, {20}, [p \in {"lan1", "wan"} |-> IF p = "lan1" THEN lan1[2] ELSE wan[2]]) >>]],
   vdevs |-> [d \in {"vl2"} |-> [parent |-> "br", vid |-> 2]],
   nets |-> [n \in {"LAN"} \cup WanNets |-> CASE n = "LAN" -> dev1 [] n = "WAN" -> dev2 [] OTHER -> "WAN"],
   switch |-> {}, disabled |-> {}]
Flat(option, dev1) ==
  [Bridged(option, <<"", "">>, <<"", "">>, dev1, "wan.7") EXCEPT !.bridges["br"].vlans = <<>>, !.disabled = {"lan1"}]
BridgedConfs ==
  {Bridged(option, lan1, wan, dev1, dev2) :
     option \in {None, "0"}, lan1 \in {<<"u*", "">>, <<"t", "u">>}, wan \in {<<"t", "t">>, <<"t", "u*">>},
     dev1 \in {"br.1"}, dev2 \in {"br.2", "br.20", "vl2"}}
  \cup {Bridged(None, <<"u*", "t">>, wan, "br", "br.2") : wan \in {<<"", "u*">>, <<"u*", "t">>}}
  \cup {Bridged(None, <<"u*", "t">>, <<"", "">>, "br.1", "wan.7"), Flat(None, "br"), Flat("0", "br")}

\* A switch behind eth0, and a netdev for the WAN or not.
Switched(cpu, s1, s2, dev1, dev2) ==
  [bridges |-> [b \in {"br"} |-> [ports |-> {"eth0.1"}, option |-> None, vlans |-> <<>>]],
   vdevs |-> <<>>,
   nets |-> [n \in {"LAN", "WAN"} |-> IF n = "LAN" THEN dev1 ELSE dev2],
   switch |-> {[vid |-> v, cpu |-> IF v = 1 THEN cpu ELSE "t",
                ports |-> [p \in {p \in {"s1", "s2"} : (IF p = "s1" THEN s1 ELSE s2)[v] # ""} |->
                             (IF p = "s1" THEN s1 ELSE s2)[v]]] : v \in {1, 2}},
   disabled |-> {}]
SwitchedConfs ==
  {Switched(cpu, s1, s2, dev1, dev2) :
     cpu \in {"t"}, s1 \in {<<"u", "">>, <<"t", "t">>}, s2 \in {<<"", "u">>, <<"u", "t">>},
     dev1 \in {"br", "eth0.1"}, dev2 \in {"eth1", "eth0.2"}}
  \cup {Switched("u", <<"u", "">>, <<"", "u">>, "eth0", "eth0.2")}

MCBoards ==
  {[builtin |-> <<"lan1", "wan">>, cpu |-> None, front |-> <<>>,
    role |-> [p \in {"lan1", "wan"} |-> p], confs |-> BridgedConfs],
   [builtin |-> <<"eth0.1", "eth1">>, cpu |-> "eth0", front |-> <<"s1", "s2">>,
    role |-> [p \in {"eth0.1", "eth1", "s1", "s2"} |-> IF p = "eth1" THEN "wan" ELSE "lan"],
    confs |-> SwitchedConfs]}

ASSUME ConfsAreRegular == \A b \in MCBoards : \A c \in b.confs : Regular(b, c)
=============================================================================
