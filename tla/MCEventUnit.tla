----------------------------- MODULE MCEventUnit -----------------------------
(***************************************************************************)
(* EventUnit for TLC, and the programs its master runs.                    *)
(***************************************************************************)
EXTENDS EventUnit

\* parallelRegion with n threads.
Region(n) == <<Push(n), Run>>

\* Up to three parallel regions of any number of threads, then the exit; also
\* an eu_run_empty without event, an event replaced before it was run, and one
\* that eu_exit finds still pending.
RegionPrograms ==
    {<<Exit>>}
    \cup {Region(m) \o <<Exit>> : m \in Cores \cup {N}}
    \cup {Region(m) \o Region(n) \o <<Exit>> : m, n \in 1..N}
    \cup {Region(l) \o Region(m) \o Region(n) \o <<Exit>> : l, m, n \in {1, 2, N}}
    \cup {<<Run>> \o Region(N) \o <<Run, Exit>>, <<Push(N)>> \o Region(2) \o <<Exit>>,
          <<Push(N), Exit>>}

=============================================================================
