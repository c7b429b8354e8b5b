----------------------------- MODULE MCClearing -----------------------------
(***************************************************************************)
(* Instances of Clearing for TLC: books of up to three levels in any order *)
(* on the side that is crossed, with junk among them, and one level on the *)
(* other side.                                                             *)
(***************************************************************************)
EXTENDS Clearing

CONSTANTS MaxLevels, LevelPrices, LevelSizes

SmallLevels == [price : LevelPrices, size : LevelSizes]
SmallSides == UNION {[1..n -> SmallLevels] : n \in 0..MaxLevels}
Other == <<[price |-> 3, size |-> 2]>>
SmallBooks == {[bids |-> s, asks |-> Other] : s \in SmallSides}
                \cup {[bids |-> Other, asks |-> s] : s \in SmallSides}

=============================================================================
