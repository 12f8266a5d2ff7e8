------------------------------ MODULE OrgTraversal ------------------------------
(***************************************************************************)
(* Scenario S07 on the generated employees: the answers of the two         *)
(* statements of each variant, one walking the reporting tree level by     *)
(* level with a set of visited employees ($graphLookup), the other path by *)
(* path (CONNECT BY NOCYCLE).                                              *)
(*                                                                         *)
(* A sum of salaries is the set of employees summed, each with the number  *)
(* of times it was; {} is NULL.                                            *)
(***************************************************************************)
EXTENDS Generator

CONSTANT Depths   \* the depths of the variants (2, 5, 10 and 15)

ASSUME DepthsAssumption == Depths \subseteq Nat \ {0}

Root == 1   \* _ORG_ROOT

Reports(bosses) == {e \in DOMAIN employees : employees[e] \in bosses}

\* $graphLookup: the employees found through depth k of the search, depth 0
\* being the direct reports.
GraphLookup(maxDepth) ==
  LET Seen[k \in 0..maxDepth] ==
        IF k = 0 THEN Reports({Root}) ELSE Seen[k - 1] \cup Reports(Seen[k - 1])
  IN  Seen

\* Those found first at depth k: the depthField.
FoundAt(Seen, k) == IF k = 0 THEN Seen[0] ELSE Seen[k] \ Seen[k - 1]

MaxDepth_NotRebased(depth) == depth

MaxDepth(depth) == depth - 1

\* CONNECT BY NOCYCLE: the paths from the root of each LEVEL, a child already
\* on the path being no continuation of it.
ConnectBy(levels) ==
  LET Rows[l \in 1..levels] ==
        IF l = 1 THEN {<<Root>>}
        ELSE UNION {{Append(p, e) : e \in {c \in Reports({p[Len(p)]}) :
                                             \A i \in DOMAIN p : p[i] # c}}
                      : p \in Rows[l - 1]}
  IN  Rows

\* LEVEL <= depth + 1: the root is LEVEL 1 and WHERE LEVEL > 1 drops it.
Levels(depth) == depth + 1

MongoOrg(depth) ==
  LET found == GraphLookup(MaxDepth(depth))[MaxDepth(depth)]
  IN  [subordinate_count |-> Cardinality(found),
       subtree_salary |-> {[e \in found |-> 1]}]

OracleOrg(depth) ==
  LET Rows  == ConnectBy(Levels(depth))
      under == UNION {Rows[l] : l \in 2..Levels(depth)}
      last  == {p[Len(p)] : p \in under}
  IN  [subordinate_count |-> Cardinality(under),
       subtree_salary |->
         IF under = {} THEN {}
         ELSE {[e \in last |-> Cardinality({p \in under : p[Len(p)] = e})]}]

MongoPath(depth) ==
  LET Seen == GraphLookup(MaxDepth(depth))
  IN  {<<k + 1, Cardinality(FoundAt(Seen, k))>> :
         k \in {j \in 0..MaxDepth(depth) : FoundAt(Seen, j) # {}}}

OraclePath(depth) ==
  LET Rows == ConnectBy(Levels(depth))
  IN  {<<l - 1, Cardinality(Rows[l])>> : l \in {j \in 2..Levels(depth) : Rows[j] # {}}}

-------------------------------------------------------------------------------
\* The two statements of every org and path variant give the same rows on the
\* generated employees. One counts employees and the other paths to them, one
\* keeps the root out by its level and the other by never reaching it, and
\* only one of them says NULL for the sum of nothing: it is the reporting
\* tree that makes them agree.
EnginesAgree ==
  phase = "built" => \A d \in Depths : MongoOrg(d) = OracleOrg(d) /\ MongoPath(d) = OraclePath(d)
================================================================================
