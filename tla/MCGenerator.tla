------------------------------ MODULE MCGenerator ------------------------------
(* Small scales, each generous with some of the entities: a shop, referrals  *)
(* with one and two rewired customers, organisations of one and two levels   *)
(* below the last full one, bills of materials of one to three levels.       *)
EXTENDS OrgTraversal

Tiny == [regions |-> 1, suppliers |-> 1, category_roots |-> 1, category_per_level |-> 1,
         category_levels |-> 1, customers |-> 1, products |-> 1, orders |-> 1,
         employees |-> 2, branching |-> 2, parts |-> 1, bom_levels |-> 1,
         referral_cycles |-> 0]

MCCounts ==
  [s \in {"shop", "wide", "deep", "referrals", "rewired", "bom", "slim"} |->
     CASE s = "shop" -> [Tiny EXCEPT !.regions = 2, !.suppliers = 2, !.category_roots = 2,
                           !.category_per_level = 2, !.category_levels = 3,
                           !.customers = 2, !.products = 2]
       [] s = "wide" -> [Tiny EXCEPT !.employees = 12, !.branching = 5]
       [] s = "deep" -> [Tiny EXCEPT !.employees = 9, !.orders = 2, !.products = 2]
       [] s = "referrals" -> [Tiny EXCEPT !.customers = 4, !.referral_cycles = 1]
       [] s = "rewired" -> [Tiny EXCEPT !.customers = 5, !.referral_cycles = 2]
       [] s = "bom" -> [Tiny EXCEPT !.parts = 8, !.bom_levels = 3]
       [] s = "slim" -> [Tiny EXCEPT !.parts = 3, !.bom_levels = 3]]

\* The parts and levels of _SCALE_COUNTS: what is assumed of the strata is so.
ASSUME ProgramStrata ==
  \A sizes \in {<<500, 4>>, <<5000, 5>>, <<50000, 6>>} :
    \A l \in 1..sizes[2] :
      /\ Share(sizes[1], l, sizes[2]) \in Nat
      /\ Strata(sizes[1], sizes[2])[l] \in Nat \ {0}
================================================================================
