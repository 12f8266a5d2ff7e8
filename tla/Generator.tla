------------------------------- MODULE Generator -------------------------------
(***************************************************************************)
(* data/generator.py, generate(): the rows of one data set, entity after   *)
(* entity in dependency order. Each draw of the random generator is a      *)
(* choice; a row is reduced to the keys it refers to, its own key being    *)
(* its position. Prices, names, dates and tiers are left out.              *)
(***************************************************************************)
EXTENDS Integers, Sequences, FiniteSets

CONSTANTS
  Counts,         \* _SCALE_COUNTS: the sizes of each scale
  ReferralTail,   \* the last customers that are never rewired (10)
  ReferralShare   \* at most one customer in so many is rewired (200)

Scales == DOMAIN Counts
None == 0
Least(a, b) == IF a < b THEN a ELSE b

\* What the scales of the program have in common.
ASSUME CountsAssumption ==
  /\ ReferralTail \in Nat /\ ReferralShare \in Nat \ {0}
  /\ \A s \in Scales :
       /\ \A k \in {"regions", "suppliers", "category_roots", "category_per_level", "customers",
                    "products", "orders", "branching", "bom_levels", "parts"} :
            Counts[s][k] \in Nat \ {0}
       /\ Counts[s].employees \in Nat \ {0, 1}
       /\ {Counts[s].category_levels, Counts[s].referral_cycles} \subseteq Nat

-------------------------------------------------------------------------------
VARIABLES
  phase,        \* the entity to be generated next
  scale,        \* --scale
  regions, suppliers,   \* numbers of rows
  categories,   \* parent of each category
  products,     \* category and supplier of each product
  customers,    \* region of each customer
  referred_by,  \* referrer of each customer
  orders,       \* customer and products of each order
  employees,    \* manager of each employee
  strata,       \* number of parts in each level of the bill of materials
  edges,        \* its edges, from parent part to child part
  rewired       \* history: the customers rewired to a later one

shop == <<regions, suppliers, categories, products, customers, orders>>
bom == <<strata, edges>>
vars == <<phase, scale, shop, referred_by, employees, bom, rewired>>

Count(k) == Counts[scale][k]

Init ==
  /\ phase = "regions"
  /\ scale \in Scales
  /\ regions = 0 /\ suppliers = 0
  /\ categories = <<>> /\ products = <<>> /\ customers = <<>> /\ referred_by = <<>>
  /\ orders = <<>> /\ employees = <<>> /\ strata = <<>> /\ edges = {}
  /\ rewired = {}

GenRegions ==
  /\ phase = "regions" /\ phase' = "suppliers"
  /\ regions' = Count("regions")
  /\ UNCHANGED <<scale, suppliers, categories, products, customers, orders,
                 referred_by, employees, bom, rewired>>

GenSuppliers ==
  /\ phase = "suppliers" /\ phase' = "categories"
  /\ suppliers' = Count("suppliers")
  /\ UNCHANGED <<scale, regions, categories, products, customers, orders,
                 referred_by, employees, bom, rewired>>

\* The last category of each level: the roots, then per_level children of
\* every category of the level before.
LevelEnd(roots, per, levels) ==
  LET Size[l \in 0..levels] == IF l = 0 THEN roots ELSE per * Size[l - 1]
      End[l \in 0..levels] == Size[l] + (IF l = 0 THEN 0 ELSE End[l - 1])
  IN  End

\* _gen_categories: parents are taken in order, so the k-th category after
\* the roots is a child of the k-th group of per_level.
LevelParents(roots, per, levels) ==
  LET End == LevelEnd(roots, per, levels)
  IN  [c \in 1..End[levels - 1] |->
         IF c <= roots THEN None ELSE (c - roots - 1) \div per + 1]

GenCategories ==
  /\ phase = "categories" /\ phase' = "products"
  /\ categories' = IF Count("category_levels") <= 1
                   THEN [c \in 1..Count("category_roots") |-> None]
                   ELSE LevelParents(Count("category_roots"), Count("category_per_level"),
                                     Count("category_levels"))
  /\ UNCHANGED <<scale, regions, suppliers, products, customers, orders,
                 referred_by, employees, bom, rewired>>

GenProducts ==
  /\ phase = "products" /\ phase' = "customers"
  /\ products' \in [1..Count("products") ->
                      [category : DOMAIN categories, supplier : 1..suppliers]]
  /\ UNCHANGED <<scale, regions, suppliers, categories, customers, orders,
                 referred_by, employees, bom, rewired>>

GenCustomers ==
  /\ phase = "customers" /\ phase' = "orders"
  /\ customers' \in [1..Count("customers") -> 1..regions]
  /\ UNCHANGED <<scale, regions, suppliers, categories, products, orders,
                 referred_by, employees, bom, rewired>>

\* One to ten line items; an order is reduced to the set of their products.
LineItems == {S \in SUBSET DOMAIN products : S # {} /\ Cardinality(S) <= 10}

GenOrders ==
  /\ phase = "orders" /\ phase' = "employees"
  /\ orders' \in [1..Count("orders") -> [customer : DOMAIN customers, products : LineItems]]
  /\ UNCHANGED <<scale, regions, suppliers, categories, products, customers,
                 referred_by, employees, bom, rewired>>

Manager_FromZero(i, branching) == IF i = 1 THEN None ELSE (i - 2) \div branching

Manager(i, branching) == IF i = 1 THEN None ELSE (i - 2) \div branching + 1

GenEmployees ==
  /\ phase = "employees" /\ phase' = "parts"
  /\ employees' = [i \in 1..Count("employees") |-> Manager(i, Count("branching"))]
  /\ UNCHANGED <<scale, shop, referred_by, bom, rewired>>

-------------------------------------------------------------------------------
(* Parts and the bill of materials.                                        *)

\* round(n_parts * 2^i / (2^levels - 1)), never a tie, and at least 1.
Share(n, i, levels) ==
  LET whole == 2^levels - 1
      exact == (2 * n * 2^(i - 1) + whole) \div (2 * whole)
  IN  IF exact < 1 THEN 1 ELSE exact

Total(f, k) == LET Sum[i \in 0..k] == IF i = 0 THEN 0 ELSE f[i] + Sum[i - 1] IN Sum[k]

\* The last stratum takes what rounding left over or took too much.
Strata(n, levels) ==
  LET even == [l \in 1..levels |-> Share(n, l, levels)]
  IN  [even EXCEPT ![levels] = @ + n - Total(even, levels)]

\* In the scales of the program rounding leaves no stratum empty.
ASSUME StrataAssumption ==
  \A s \in Scales :
    LET n      == Counts[s].parts
        levels == Counts[s].bom_levels
    IN  \A l \in 1..levels : Share(n, l, levels) \in Nat /\ Strata(n, levels)[l] \in Nat \ {0}

GenParts ==
  /\ phase = "parts" /\ phase' = IF Count("bom_levels") = 1 THEN "referrals" ELSE "bom"
  /\ strata' = Strata(Count("parts"), Count("bom_levels"))
  /\ UNCHANGED <<scale, shop, referred_by, employees, edges, rewired>>

\* The parts of stratum l.
Stratum(l) == (Total(strata, l - 1) + 1)..Total(strata, l)

LevelsWithEdges == {l \in 1..Len(strata) : \E e \in edges : e[1] \in Stratum(l)}

ChildPool_SameLevel(l) == Stratum(l)

ChildPool(l) == Stratum(l + 1)

\* Two to five children, or the whole pool when it is smaller.
Picks(l) ==
  {S \in SUBSET ChildPool(l) :
     \E k \in 2..5 : Cardinality(S) = Least(k, Cardinality(ChildPool(l)))}

\* The edges below one level of assemblies.
GenBomLevel ==
  LET l == Cardinality(LevelsWithEdges) + 1 IN
  /\ phase = "bom"
  /\ \E kids \in [Stratum(l) -> Picks(l)] :
       edges' = edges \cup {e \in Stratum(l) \X ChildPool(l) : e[2] \in kids[e[1]]}
  /\ phase' = IF l = Len(strata) - 1 THEN "referrals" ELSE "bom"
  /\ UNCHANGED <<scale, shop, referred_by, employees, strata, rewired>>

-------------------------------------------------------------------------------
(* Referrals between customers, some of them rewired to a later one.       *)

Earlier_OrSelf(i) == IF i = 1 THEN {None} ELSE {None} \cup 1..i

\* 70% have a referrer among the earlier customers; the first has none.
Earlier(i) == IF i = 1 THEN {None} ELSE {None} \cup 1..(i - 1)

InjectReferrals ==
  /\ phase = "referrals" /\ phase' = "rewire"
  /\ IF Len(customers) < 2 THEN UNCHANGED referred_by
     ELSE referred_by' \in {f \in [1..Len(customers) -> 0..Len(customers)] :
                              \A i \in 1..Len(customers) : f[i] \in Earlier(i)}
  /\ UNCHANGED <<scale, shop, employees, bom, rewired>>

\* The sets of customers that may be picked for rewiring.
Rewirings ==
  LET n == Len(customers)
  IN  IF Count("referral_cycles") = 0 \/ n <= ReferralTail THEN {{}}
      ELSE {S \in SUBSET (1..(n - ReferralTail)) :
              Cardinality(S) = Least(Count("referral_cycles"), n \div ReferralShare)}

Later(i) == (i + 1)..Len(customers)

RewireReferrals ==
  /\ phase = "rewire" /\ phase' = "built"
  /\ \E picked \in Rewirings :
       /\ rewired' = picked
       /\ \E to \in [picked -> UNION {Later(i) : i \in picked}] :
            /\ \A i \in picked : to[i] \in Later(i)
            /\ referred_by' = [i \in DOMAIN referred_by |->
                                 IF i \in picked THEN to[i] ELSE referred_by[i]]
  /\ UNCHANGED <<scale, shop, employees, bom>>

\* The rows are complete: generate() goes on to the files (GeneratedDirectory).
Built == phase = "built" /\ UNCHANGED vars

Next ==
  \/ GenRegions \/ GenSuppliers \/ GenCategories \/ GenProducts
  \/ GenCustomers \/ GenOrders \/ GenEmployees
  \/ GenParts \/ GenBomLevel
  \/ InjectReferrals \/ RewireReferrals
  \/ Built

Spec == Init /\ [][Next]_vars

-------------------------------------------------------------------------------
(* Properties of the rows.                                                 *)

\* The entities generated so far hold rows of their types; a referrer may be
\* any customer.
TypeOK ==
  /\ scale \in Scales
  /\ regions \in Nat /\ suppliers \in Nat
  /\ \A c \in DOMAIN categories : categories[c] \in Nat
  /\ \A p \in DOMAIN products :
       products[p] \in [category : DOMAIN categories, supplier : 1..suppliers]
  /\ \A c \in DOMAIN customers : customers[c] \in 1..regions
  /\ \A o \in DOMAIN orders :
       /\ orders[o].customer \in DOMAIN customers
       /\ orders[o].products \subseteq DOMAIN products
  /\ \A i \in DOMAIN employees : employees[i] \in Nat
  /\ \A i \in DOMAIN referred_by : referred_by[i] \in {None} \cup DOMAIN customers
  /\ rewired \subseteq DOMAIN customers

\* load_oracle inserts each file in its order (categories: roots first) under
\* foreign keys checked row by row, so a parent category or a manager must be
\* on an earlier line of the same file, and every other reference must name a
\* row of a file loaded before: a referrer is any customer, since referrals
\* are loaded from the whole customers file once more.
RowsLoadInFileOrder ==
  phase = "built" =>
    /\ \A c \in DOMAIN categories : categories[c] \in 0..(c - 1)
    /\ \A i \in DOMAIN employees :
         employees[i] \in (IF i = 1 THEN {None} ELSE 1..(i - 1))
    /\ \A p \in DOMAIN products : products[p].category \in DOMAIN categories
    /\ \A i \in DOMAIN referred_by : referred_by[i] \in 0..Len(customers) \ {i}
    /\ \A e \in edges : {e[1], e[2]} \subseteq 1..Count("parts")

\* The customers met from customer i by following referred_by up to k times.
Chain(i, k) ==
  LET At[j \in 0..k] == IF j = 0 THEN i
                        ELSE IF At[j - 1] = None THEN None
                        ELSE referred_by[At[j - 1]]
  IN  {At[j] : j \in 1..k}

\* The referral cycles: the sets of customers each of which leads to itself.
Cycles == {Chain(i, Len(customers)) :
             i \in {j \in DOMAIN referred_by : j \in Chain(j, Len(customers))}}

\* Referrals go to earlier customers, except the rewired ones: each cycle of
\* the referral graph runs through a rewired customer, and there are at most
\* referral_cycle_count of them (the reverse does not hold: see the README).
CyclesAreInjected ==
  phase = "built" =>
    /\ \A cycle \in Cycles : \E i \in cycle \cap rewired : referred_by[i] > i
    /\ Cardinality(Cycles) <= Count("referral_cycles")

\* The parts k levels below part p.
Below(p, k) ==
  LET Down[j \in 0..k] == IF j = 0 THEN {p}
                          ELSE {e[2] : e \in {f \in edges : f[1] \in Down[j - 1]}}
  IN  Down[k]

\* Every explosion of an assembly ends in leaf parts only, and at the deepest
\* level: no assembly without children, no edge that skips a level or goes up.
AssembliesEndInLeaves ==
  phase = "built" =>
    LET deep == Len(strata) IN
    \A l \in 1..deep : \A p \in Stratum(l) :
      /\ \A k \in 0..(deep - l) : Below(p, k) # {} /\ Below(p, k) \subseteq Stratum(l + k)
      /\ Below(p, deep - l + 1) = {}
================================================================================
