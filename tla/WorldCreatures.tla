---------------------------- MODULE WorldCreatures ----------------------------
(* Creatures as a part of MCWorld: a spawned monster "rat", a player, and a*)
(* monster "imp" that is wild, or the summon of one of them.               *)
EXTENDS Creatures

ASSUME CreaturesAssumption

RatAndImp == {"rat", "imp"}
OnlyAnn == {"ann"}
ThreeCells == {0, 2, 4}
Homes == [m \in RatAndImp |-> IF m = "rat" THEN 0 ELSE -1]

Is(c, life) == cr[c].life = life
Gone == \E c \in Creatures : Is(c, "removed") \/ Is(c, "deleted") \/ cr[c].released > 0

(* To keep the instance small: the rat comes first and the imp last; only  *)
(* the rat has conditions, which it gets before the player comes; the imp  *)
(* stays where it is; the player attacks the imp and follows the rat; and  *)
(* once somebody is gone nobody moves or is newly attacked.                *)
CreaturesStep ==
  /\ Next
  /\ Is("imp", "unborn") \/ cr'["rat"].life # "unborn"
  /\ cr'["imp"].life = "unborn" \/ ~Is("ann", "unborn")
  /\ ~cr'["imp"].condition
  /\ cr'["rat"].condition = cr["rat"].condition \/ Is("ann", "unborn")
  /\ cr'["imp"].life # "unborn" => cr'["imp"].pos = 2
  /\ cr'["rat"].pos # 4 /\ (Is("ann", "unborn") => cr'["ann"].pos # 4)
  /\ cr'["ann"].follow \in {"nobody", "rat"} /\ cr'["ann"].attacked \in {"nobody", "imp"}
  /\ cr'["rat"].life = "removed" => cr'["rat"].slain \/ Is("imp", "placed")
  /\ cr'["imp"].slain => cr["imp"].slain \/ cr["rat"].slain \/ cr["imp"].master = "ann"
  /\ Gone => \A c \in Creatures :
       /\ cr'[c].pos = cr[c].pos /\ cr'[c].attacked \in {"nobody", cr[c].attacked}
       /\ (\E d \in Creatures : cr[d].released > 0) /\ Is(c, "placed") => cr'[c].life # "removed"
=============================================================================
