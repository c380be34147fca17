------------------------------ MODULE MCImages ------------------------------
(***************************************************************************)
(* Images with two URLs.  A lead and a body share one, whose picture may   *)
(* be barred, or come under an error first.  A lead behind has the other,  *)
(* with the picture that no encode job gets through.                       *)
(***************************************************************************)
EXTENDS Images

CONSTANTS u1, u2, big, bomb

MCUrlOf == [s \in Slots |-> IF s = 2 THEN u2 ELSE u1]
MCOffers ==
  [u \in Urls |-> IF u = u1
     THEN [bytes : {big}, ok : BOOLEAN] \cup {[bytes |-> Barred, ok |-> FALSE]}
     ELSE {[bytes |-> bomb, ok |-> TRUE]}]
MCSize == [bytes \in Pictures \cup {Poor} |-> IF bytes = big THEN 3 ELSE 2]
=============================================================================
