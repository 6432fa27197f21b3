---------------------------- MODULE MCDashboard -----------------------------
(* Two projects, the first with two targets, and two contents. *)
EXTENDS Dashboard

MCTargets ==
    [t1 |-> [project |-> "p1", kind |-> ""],
     t2 |-> [project |-> "p1", kind |-> "focused_page"],
     t3 |-> [project |-> "p2", kind |-> "keyword_search"]]

MCContents ==
    [c1 |-> [platform |-> "TIKTOK", words |-> {"price"}, type |-> "post",
             dated |-> TRUE, at |-> 0, traceable |-> TRUE],
     c2 |-> [platform |-> Unknown, words |-> {"price", "app"}, type |-> "comment",
             dated |-> TRUE, at |-> 1, traceable |-> FALSE]]

MCAnalyses ==
    {[relevance |-> 45, sentiment |-> "POSITIVE", engagement |-> 2],
     [relevance |-> 30, sentiment |-> "NEGATIVE", engagement |-> 1]}

MCPlatformMeta == {"TIKTOK", "FACEBOOK"}
==============================================================================
