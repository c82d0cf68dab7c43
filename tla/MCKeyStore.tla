------------------------------- MODULE MCKeyStore -------------------------------
(* A small instance of KeyStore for TLC. *)
EXTENDS KeyStore, TLC

CONSTANTS p1, p2, old, k1, k2, t1, t2

(* The old key and one of the new ones end with the same few digits. *)
MCTail == old :> t1 @@ k1 :> t1 @@ k2 :> t2

(* One pair of rows has equal scores, negative ones; the three correlate. *)
MCScoreOf == old :> -3 @@ k1 :> -3 @@ k2 :> 7
MCLettersOf == old :> 5 @@ k1 :> 8 @@ k2 :> 2
================================================================================
