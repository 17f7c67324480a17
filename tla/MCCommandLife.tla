---------------------------- MODULE MCCommandLife ----------------------------
EXTENDS CommandLife

CONSTANTS u1, u2, c1, c2, c3

MCUser == {u1, u2}
MCCmd == {c1, c2, c3}

(* Two commands for the same protocol and one for another. *)
MCProtocol == [c \in MCCmd |-> IF c = c3 THEN "oscmap" ELSE "osc"]

Owner == {"adopt_command", "clear", "notify_observers", "send"}

(* One user owns the Root, the other edits its tree. *)
MCOwnerAndEditor == (u1 :> Owner) @@ (u2 :> {"notify_observers"})
MCOwnerAndSender == (u1 :> Owner) @@ (u2 :> {"send"})
MCTwoOwners == [u \in MCUser |-> {"adopt_command"}]
=============================================================================
