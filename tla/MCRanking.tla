------------------------------ MODULE MCRanking ------------------------------
(* Ranking for TLC: two chunks of one document and one of another; timestamps  *)
(* in the future, in the past, and so far back that the age does not fit; no   *)
(* decay, decay, decay below the floor, a negative lambda, and the lambdas      *)
(* that are not finite.                                                        *)
EXTENDS Ranking

MCChunk ==
    {[document_id |-> 1, chunk_index |-> 0], [document_id |-> 1, chunk_index |-> 1],
     [document_id |-> 2, chunk_index |-> 0]}

MCCreated == {6, 2, -5}
MCLambda == {-3, -1, 0, 1, 3} \cup {Infinity, MinusInfinity, NaN}
MCExponent == -45..45

\* Powers of two in place of powers of e, up to one that is not finite.
MCExp == [x \in MCExponent |->
    CASE x < -9      -> 0
      [] x \in -9..0 -> 100 \div 2^(-x)
      [] x \in 1..9  -> 100 * 2^x
      [] OTHER       -> 100 * 2^9]
=============================================================================
