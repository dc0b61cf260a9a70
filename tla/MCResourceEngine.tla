-------------------------- MODULE MCResourceEngine --------------------------
(* ResourceEngine for TLC: one representative of every kind of metadata    *)
(* that the ownership checks tell apart.                                   *)
EXTENDS ResourceEngine

M(l, n, u, r) == [labels |-> l, ns |-> n, uid |-> u, ref |-> r, life |-> "live"]

Leftovers ==    \* of this CR, of its predecessor, of an older operator
    {M("complete", "ours", "current", "current"), M("complete", "ours", "old", "old"),
     M("complete", "ours", "old", "none"), M("complete", "none", "none", "none"),
     M("partial", "none", "none", "current")}

Foreign ==      \* unmarked, partly marked, contradictory, owned by another
    {M("none", "none", "none", "none"), M("partial", "ours", "none", "old"),
     M("complete", "other", "old", "none"), M("complete", "none", "current", "none"),
     M("complete", "ours", "old", "current"), M("complete", "none", "none", "foreign"),
     M("conflict", "none", "none", "current"),
     [M("complete", "ours", "current", "current") EXCEPT !.life = "terminating"]}

MCWritten == Leftovers \cup Foreign
=============================================================================
