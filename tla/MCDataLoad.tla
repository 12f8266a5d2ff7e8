------------------------------ MODULE MCDataLoad -------------------------------
(* DataLoad on three directories: a whole one, one without the entities of  *)
(* S07 (older fixtures), and one whose generation stopped after customers.  *)
EXTENDS DataLoad

Key(i) == [id |-> i]
Regions    == <<Key(1)>>
Suppliers  == <<Key(1)>>
\* Three levels, as the generator writes them, under two roots.
Categories == <<[id |-> 1, parent_id |-> 0], [id |-> 2, parent_id |-> 0],
                [id |-> 3, parent_id |-> 1], [id |-> 4, parent_id |-> 3]>>
Products   == <<[id |-> 1, category_id |-> 4, supplier_id |-> 1]>>
\* A referral to a later customer and one to an earlier customer.
Customers  == <<[id |-> 1, region_id |-> 1, referred_by |-> 2],
                [id |-> 2, region_id |-> 1, referred_by |-> 1],
                [id |-> 3, region_id |-> 1, referred_by |-> 0]>>
Employees  == <<[id |-> 1, manager_id |-> 0], [id |-> 2, manager_id |-> 1]>>
Parts      == <<Key(1), Key(2)>>
BomEdges   == <<[id |-> 1, parent_part_id |-> 1, child_part_id |-> 2]>>

Generated == [f \in Range(MongoEntities) |->
  CASE f = "regions" -> Regions       [] f = "suppliers" -> Suppliers
    [] f = "categories" -> Categories [] f = "products" -> Products
    [] f = "customers" -> Customers   [] f = "orders" -> <<Key(1), Key(2)>>
    [] f = "employees" -> Employees   [] f = "parts" -> Parts
    [] f = "bom_edges" -> BomEdges]

MCFiles == [d \in {"whole", "plain", "cut"} |->
  CASE d = "whole" -> Generated
    [] d = "plain" -> [f \in {"regions", "suppliers", "categories", "products",
                              "customers", "orders"} |->
                         IF f = "orders" THEN <<Key(3)>> ELSE Generated[f]]
    [] d = "cut"   -> [f \in {"regions", "suppliers", "categories", "products",
                              "customers"} |-> Generated[f]]]

\* What the generator writes meets every constraint.
ASSUME MCDirectoriesAreWellFormed == \A d \in Dirs : WellFormed(d)
================================================================================
