---------------------------- MODULE MCSlugRegistry ----------------------------
\* SlugRegistry with two names of which one is the other with a suffix, as when
\* somebody calls a dashboard "sales-2".
EXTENDS SlugRegistry, TLC

MCNames == {"a", "a-2"}
MCSlugs == {"a", "a-2", "a-2-2", "a-t1", "a-2-t1"}
MCCandidates == ("a" :> <<"a", "a-2">>) @@ ("a-2" :> <<"a-2", "a-2-2">>)
MCStamped    == ("a" :> {"a-t1"}) @@ ("a-2" :> {"a-2-t1"})

SafeFaults == AllFaults \ {"writeAck", "clock"}
NoFaults   == {}

Symmetry == Permutations(Procs) \cup Permutations(Drafts)
                \cup Permutations(Dashboards \ Drafts)
=============================================================================
