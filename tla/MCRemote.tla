------------------------------ MODULE MCRemote ------------------------------
(***************************************************************************)
(* Remote on a small instance: a refund is asked for, and asked for again  *)
(* or at once, with the same id, through a client without a verifier; the  *)
(* guards are the refund's, that of another action, and one bound to none. *)
(***************************************************************************)
EXTENDS Remote, TLC

CONSTANTS c1, c2, k1

MCRequestOf == (c1 :> "refund-1") @@ (c2 :> "refund-1")
MCActionOf == (c1 :> "refund") @@ (c2 :> "refund")
MCClientKey == (c1 :> k1) @@ (c2 :> None)
MCAction == {"refund", "send"}
MCGuards == MCAction \cup {None}

ClientAhead == [machine \in Machine |-> IF machine = "client" THEN 1 ELSE 0]

=============================================================================
