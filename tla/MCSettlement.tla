---------------------------- MODULE MCSettlement ----------------------------
(***************************************************************************)
(* Settlement for TLC: every game of up to three transfers, in any order,  *)
(* between four players.                                                   *)
(***************************************************************************)
EXTENDS Settlement

CONSTANTS ann, bob, cat, dan

MCPlayer == {ann, bob, cat, dan}

Transfer ==
    {Payment(p, q, amount) : p \in MCPlayer, q \in MCPlayer, amount \in {1, 2}}
    \ {Payment(p, p, amount) : p \in MCPlayer, amount \in {1, 2}}

UpToThree == UNION {[1 .. n -> Transfer] : n \in 0 .. 3}

MCGames == {[transfers |-> s, balances |-> [p \in MCPlayer |-> Left(s, p)]] : s \in UpToThree}
=============================================================================
