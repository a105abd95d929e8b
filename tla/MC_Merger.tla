------------------------------ MODULE MC_Merger ------------------------------
(* A stream that ends with a vector of three in which one comes twice,     *)
(* another ends with a vector of one, and that one with an empty vector.   *)
EXTENDS Merger, TLC
CONSTANTS in, s1, s2, s3
MCLength == in :> 1 @@ s1 :> 1 @@ s2 :> 0 @@ s3 :> 2
MCLast == in :> <<s1, s2, s1>> @@ s1 :> None @@ s2 :> <<s3>> @@ s3 :> <<>>
=============================================================================
