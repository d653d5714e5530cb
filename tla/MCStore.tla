-------------------------------- MODULE MCStore --------------------------------
(***************************************************************************)
(* Instances of Store for TLC.                                             *)
(***************************************************************************)
EXTENDS Store, TLC

\* One item is still to be created; the others have two units in stock, and one
\* of each is in the cart.
StockOfTwo == [i \in Item |-> IF i = CHOOSE j \in Item : TRUE
                                THEN None ELSE [qty |-> 2, cost |-> 100]]

OneOfEach == [i \in Item |-> IF StockOfTwo[i] = None THEN 0 ELSE 1]

Edit == [margin |-> None, promo |-> None, promoMargin |-> None, quantity |-> None,
         active |-> None]

\* A promotion of one unit; something else of the product; the promotion ends.
PromotionAndName ==
  {[Edit EXCEPT !.promo = TRUE, !.promoMargin = 0, !.quantity = 1], Edit,
   [Edit EXCEPT !.promo = FALSE]}

Interchangeable == Permutations(Txn) \cup Permutations(Key) \cup Permutations(Cart)
===============================================================================
