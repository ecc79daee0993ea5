-------------------------- MODULE MCAutomationEngine --------------------------
(* AutomationEngine for TLC: two Wi-Fi networks of one name behind different
   gateways, and another one. *)
EXTENDS AutomationEngine

MCTunnels == {"a"}

Cond(type, val) == [type |-> type, val |-> val]
Rule(when, do) == [when |-> when, match |-> "", do |-> do]

OffAtCorp == [rules |-> <<Rule(<<Cond("ssid", "corp")>>, Disconnect)>>,
              def |-> Connect]
OnInSubnet == [rules |-> <<Rule(<<Cond("subnet", {"ip1"})>>, Connect)>>,
               def |-> Disconnect]

MCPolicies == {"offAtCorp", "onInSubnet"}
MCPolicyOf == [offAtCorp |-> OffAtCorp, onInSubnet |-> OnInSubnet]

WiFi == [name |-> <<"en0", "en0">>, wifi |-> TRUE, active |-> TRUE]

Net(ssid, ips, mac) ==
    [ssid |-> ssid, ips |-> ips, mac |-> <<mac, mac>>, gwIP |-> "",
     ifaces |-> {WiFi},
     now |-> [day |-> 0, mins |-> 0]]

MCNetworks == {"corp1", "corp2", "home"}
MCContextOf ==
    [corp1 |-> Net("corp", {"ip1"}, "m1"), corp2 |-> Net("corp", {"ip2"}, "m2"),
     home |-> Net("home", {"ip2"}, "m3")]

=============================================================================
