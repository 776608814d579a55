-------------------------- MODULE MCAcceptNegotiation --------------------------
(* Two systems that serve and take different types under the same URL.  The *)
(* first is candid; a refusal of the second to a POST names a type that it  *)
(* does not serve, and first one that it does not take, as when the error   *)
(* page has a type of its own.                                              *)
EXTENDS AcceptNegotiation

CONSTANTS c1, c2, get, post, a, b

MCAsks == {[accept |-> {a}, content |-> b], [accept |-> {b}, content |-> a],
           [accept |-> {}, content |-> None]}

Own(c) == IF c = c1 THEN a ELSE b
Wrong(c, k) == c = c2 /\ k[1] = post

MCServes   == [c \in Connection |-> [k \in Key |-> {Own(c)}]]
MCTakes    == [c \in Connection |-> [k \in Key |-> {Own(c), None}]]
MCNames    == [c \in Connection |-> [k \in Key |->
                 IF Wrong(c, k) THEN {a} ELSE {Own(c)}]]
MCSuggests == [c \in Connection |-> [k \in Key |->
                 IF Wrong(c, k) THEN a ELSE Own(c)]]
================================================================================
