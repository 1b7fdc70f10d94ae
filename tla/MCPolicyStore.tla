--------------------------- MODULE MCPolicyStore ---------------------------
(***************************************************************************)
(* PolicyStore for TLC: the web server with one thread that recalls and    *)
(* one that serves the evolution endpoints, and the cycle's runner.        *)
(* The candidates are two generations deep: "a" and "b" derive from the    *)
(* baseline, "ab" from "a".                                                *)
(***************************************************************************)
EXTENDS PolicyStore

MCPolicies == {"base", "a", "b", "ab"}
MCVersion == [base |-> "v1", a |-> "v2", b |-> "v3", ab |-> "v3"]
MCParent == [base |-> "none", a |-> "v1", b |-> "v1", ab |-> "v2"]
MCChildren == [base |-> {"a", "b"}, a |-> {"ab"}, b |-> {}, ab |-> {}]

\* A single line of candidates, where "aa" has the version of "a", from which it
\* derives.
ChainPolicies == {"base", "a", "aa", "aab"}
ChainVersion == [base |-> "v1", a |-> "v2", aa |-> "v2", aab |-> "v3"]
ChainParent == [base |-> "none", a |-> "v1", aa |-> "v2", aab |-> "v2"]
ChainChildren == [base |-> {"a"}, a |-> {"aa"}, aa |-> {"aab"}, aab |-> {}]

MCProcs == {"web", "cron"}
MCThreads == {"recall", "operator", "cycle"}
MCHome == [recall |-> "web", operator |-> "web", cycle |-> "cron"]
=============================================================================
