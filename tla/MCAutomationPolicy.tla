-------------------------- MODULE MCAutomationPolicy --------------------------
(* AutomationPolicy for TLC: two names, rules of every type of condition. *)
EXTENDS AutomationPolicy

MCTunnels == {"a", "b"}

Cond(type, val) == [type |-> type, val |-> val]
Rule(when, do) == [when |-> when, match |-> "", do |-> do]
Window(days, start, end) == [days |-> days, start |-> start, end |-> end]

MCRules ==
    {Rule(<<Cond("ssid", "corp")>>, "disconnect"),
     Rule(<<Cond("wifi", Bad)>>, "disconnect"),
     Rule(<<Cond("none_match", Bad)>>, "connect"),
     Rule(<<Cond("none_match", Bad)>>, "restart"),
     Rule(<<Cond("subnet", {"ip1"}), Cond("ethernet", Bad)>>, "connect"),
     Rule(<<Cond("network", <<"m1", "AA-BB">>)>>, "disconnect"),
     Rule(<<Cond("gateway_ip", "gw1"), Cond("interface", <<"en0", "EN0">>)>>,
          "connect"),
     Rule(<<Cond("time", Window({5}, 3, 1))>>, "connect"),
     Rule(<<Cond("time", Window({}, Unset, 2))>>, "disconnect")}

WiFi == [name |-> <<"en0", "en0">>, wifi |-> TRUE, active |-> TRUE]
Wired == [name |-> <<"en1", "en1">>, wifi |-> FALSE, active |-> TRUE]

Ctx(ssid, ips, mac, gwIP, ifaces, now) ==
    [ssid |-> ssid, ips |-> ips, mac |-> mac, gwIP |-> gwIP,
     ifaces |-> ifaces, now |-> now]

Fri(m) == [day |-> 5, mins |-> m]
Sat(m) == [day |-> 6, mins |-> m]
NoMAC == <<"", "">>

MCContexts ==
    {Ctx("", {}, NoMAC, "", {}, Fri(0)),
     Ctx("corp", {"ip1"}, <<"m1", "aa:bb">>, "gw1", {WiFi}, Fri(0)),
     Ctx("", {"ip1"}, <<"m1", "aa:bb">>, "gw1", {WiFi}, Fri(3)),
     Ctx("home", {"ip2"}, <<"m2", "cc:dd">>, "gw2", {WiFi}, Sat(0)),
     Ctx("", {"ip1"}, <<"m2", "cc:dd">>, "gw2", {Wired}, Sat(2)),
     Ctx("", {"ip2"}, NoMAC, "", {WiFi, Wired}, Sat(1))}

=============================================================================
