------------------------------- MODULE Writers -------------------------------
(***************************************************************************)
(* Admission over real domains: NextQueue with the domains that domains.py *)
(* compares and the files that they cover.                                 *)
(***************************************************************************)
EXTENDS NextQueue, ConflictDomains

CONSTANTS
  Files,  \* paths of the repository
  Globs   \* any other domains a plan might have named

ASSUME PathsAssumption == Domains \cup Globs \cup Files \subseteq Seq(STRING)
ASSUME OverlapMeaning ==
  Overlap = {p \in Domains \X Domains : DomainsOverlap(p[1], p[2])}

AllGlobs == Globs \cup Domains
Covering(f) == {g \in AllGlobs : MatchesDomain(f, g)}

\* Globs that one file falls inside of.
Shared == UNION {Covering(f) \X Covering(f) : f \in Files}

\* Those among them that domains_overlap calls apart.
Missed == {p \in Shared : ~DomainsOverlap(p[1], p[2])}

\* No file ever falls inside the domains of two tasks that are being worked on
\* ("failing to block two that would costs a silently lost diff"): admission,
\* by overlap of domains, is as careful as freshness, by matches of paths; and
\* it would be with any other globs.
OneWriterPerFile ==
  /\ Missed = {}
  /\ \A t, u \in WithStatus(status, Active) :
       t # u => \A d \in domains[t], e \in domains[u] : <<d, e>> \notin Shared
=============================================================================
