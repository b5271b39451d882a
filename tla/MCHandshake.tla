---------------------------- MODULE MCHandshake ----------------------------
(* Handshake for TLC: nodes are model values.  A run of four keys from Init
   is too long, so the first ones are spent already, in two ways that are both
   reachable from Init. *)
EXTENDS Handshake, TLC

Names == Permutations(Node)

(* Which of the two nodes is which is all the same. *)
One == CHOOSE x \in Node : TRUE

Other == CHOOSE x \in Node : x # One

(* A dial that nobody answered: what is left is as good as Init. *)
OneOver ==
    /\ ses = [k \in Session |->
           IF k # 1 THEN Unborn
           ELSE [Unborn EXCEPT !.pc = "dead", !.owner = One, !.peer = Other, !.direct = TRUE]]
    /\ stables = Nowhere

(* A stable session through relays, at both ends. *)
StablePair ==
    LET answer == complete(session_key(2), out_bytes(session_key(1)))
        relayed == [Unborn EXCEPT !.pc = "run", !.stable = TRUE]
    IN  /\ ses = [k \in Session |->
               CASE k = 1 -> [relayed EXCEPT !.owner = One, !.peer = Other, !.asked = TRUE,
                                  !.key = complete(session_key(1), out_bytes(answer))]
                 [] k = 2 -> [relayed EXCEPT !.owner = Other, !.peer = One, !.key = answer]
                 [] OTHER -> Unborn]
        /\ stables = [Nowhere EXCEPT ![One, Other] = 1, ![Other, One] = 2]

MCInit ==
    /\ OneOver \/ StablePair
    /\ tmps = Nowhere /\ dhts = Nowhere
    /\ shakes = {} /\ data = {}

MCSpec == MCInit /\ [][Next]_vars /\ Beats
=============================================================================
