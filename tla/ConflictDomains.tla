--------------------------- MODULE ConflictDomains ---------------------------
(***************************************************************************)
(* The semantics of conflict domains (domains.py).  A path or a domain is  *)
(* the sequence of its segments; a segment of a domain may be a wildcard.  *)
(* Wildcards inside a segment ("*.ts") are left out.                       *)
(***************************************************************************)
EXTENDS Naturals, SequencesExt

Wildcards == {"*", "**"}

\* fnmatch, whose * also matches "/": a wildcard takes one segment or more.
Fnmatch(path, domain) ==
  \E cut \in [0 .. Len(domain) -> 0 .. Len(path)] :
    /\ cut[0] = 0 /\ cut[Len(domain)] = Len(path)
    /\ \A k \in 1 .. Len(domain) :
         IF domain[k] \in Wildcards THEN cut[k - 1] < cut[k]
         ELSE cut[k] = cut[k - 1] + 1 /\ path[cut[k]] = domain[k]

\* Does a path fall inside a domain?  Before a last /** all is literal.
MatchesDomain(path, domain) ==
  IF Len(domain) > 1 /\ Last(domain) = "**" THEN IsPrefix(Front(domain), path)
  ELSE Fnmatch(path, domain) \/ path = domain

LiteralPrefix(domain) ==
  LET literal == {k \in 0 .. Len(domain) :
                    \A i \in 1 .. k : domain[i] \notin Wildcards}
  IN SubSeq(domain, 1, CHOOSE k \in literal : \A i \in literal : i <= k)

Covers(prefix, other) == IsPrefix(prefix, other)

RawEqual(first, second) == first = second   \* Mutant: domains as raw strings

\* Could two domains ever cover the same file?
DomainsOverlap(first, second) ==
  \/ first = second
  \/ Fnmatch(first, second) \/ Fnmatch(second, first)
  \/ MatchesDomain(first, second) \/ MatchesDomain(second, first)
  \/ Covers(LiteralPrefix(first), LiteralPrefix(second))
  \/ Covers(LiteralPrefix(second), LiteralPrefix(first))
=============================================================================
