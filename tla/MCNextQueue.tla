---------------------------- MODULE MCNextQueue ----------------------------
(* NextQueue on the admission instance, with domains as domains.py reads    *)
(* them: three tasks, two of them rivals.                                   *)
EXTENDS Writers, MCTaskEngine

MCOrder == <<t1, t2, t3>>
\* The admission plans, reconciling after every merge, reviews required.
QueuePlans ==
  {[p EXCEPT !.every = 1, !.policy = IF p.max = 1 THEN "always" ELSE "none"] :
     p \in AdmissionPlans}

\* A subtree, a glob that overlaps it undecidably, and a bare directory.
AuthTree == <<"src", "auth", "**">>
TokenGlob == <<"src", "*", "token">>
DocsDirectory == <<"docs">>
QueueDomains == {AuthTree, TokenGlob, DocsDirectory}
QueueOverlap == {p \in QueueDomains \X QueueDomains : DomainsOverlap(p[1], p[2])}

Strings(S, n) == UNION {[1 .. k -> S] : k \in 1 .. n}
\* Globs of up to three segments, and the files they may cover.
MCGlobs == Strings({"src", "auth", "*", "**"}, 3)
MCFiles == Strings({"src", "auth", "token", "docs"}, 3)
=============================================================================
