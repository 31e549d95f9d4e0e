-------------------------- MODULE MCToolExecution --------------------------
\* Two agents: of two tabs on functions of their own, of one tab, of two tabs
\* on one function, or an agent and a subagent with a view of the registry.
EXTENDS ToolExecution

CONSTANTS a1, a2, t1, t2, g1, g2, f1, f2

TwoTabs == (a1 :> t1) @@ (a2 :> t2)
OneTab == (a1 :> t1) @@ (a2 :> t1)
OneRegistry == (a1 :> g1) @@ (a2 :> g1)
OneView == (a1 :> g1) @@ (a2 :> g2)
Apart == (a1 :> {f1}) @@ (a2 :> {f2})
Together == (a1 :> {f1}) @@ (a2 :> {f1})
=============================================================================
