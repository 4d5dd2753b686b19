------------------------------- MODULE MCUnits -------------------------------
(* Two layouts: `dock` moves one port between two services as the data     *)
(* says, and shows a light when it is switched on; `plain` only has the    *)
(* light, and throws for some data.                                        *)
EXTENDS Units

I(u, k, v) == [unit |-> u, key |-> k, value |-> v]
Items == {I("service", "a", 1), I("service", "a", 2), I("service", "b", 1), I("light", "desk", 1)}
Port == {"a", "b"}
Hooks == [u \in {"service", "light"} |-> IF u = "light" THEN {"enter", "update"} ELSE {"exit", "update", "enter"}]
Light(g) == IF g = "on" THEN {I("light", "desk", 1)} ELSE {}
Layouts ==
  [l \in {"dock", "plain"} |-> [d \in {"none", "x", "y"} |-> [g \in {"off", "on"} |->
     CASE l = "plain" /\ d = "y" -> Throws
       [] l = "plain" /\ d # "y" -> Light(g)
       [] OTHER -> Light(g) \cup
            (CASE d = "none" -> {I("service", "a", 1)} [] d = "x" -> {I("service", "a", 2)} [] d = "y" -> {I("service", "b", 1)})]]]
=============================================================================
