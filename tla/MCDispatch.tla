----------------------------- MODULE MCDispatch ------------------------------
(***************************************************************************)
(* A server, a watcher of it and a client without proxy.  The server may   *)
(* have an object with a value, and a container with another one in it.    *)
(***************************************************************************)
EXTENDS Dispatch

Paths == {<<"a">>, <<"c">>, <<"c", "b">>}
Signatures == [p \in Paths |-> IF p = <<"c">> THEN "none" ELSE "f"]
Mirrors == [c \in {"watcher"} |-> "server"]
NoMeta(p) == ~IsMeta(p)

(* Calls that are served, refused and not found, and each meta method. *)
SomeCalls ==
  {[path |-> <<"a">>, arg |-> a] : a \in {Nil, Real(1), Str(Root_)}} \cup
  {[path |-> <<"c">>, arg |-> Nil], [path |-> ErrorPath, arg |-> Real(1)],
   [path |-> InfoPath, arg |-> Str(<<"a">>)], [path |-> AttrsPath, arg |-> Str(<<"c", "b">>)],
   [path |-> ListPath, arg |-> Str(Root_)], [path |-> TreePath, arg |-> Str(<<"c">>)],
   [path |-> ListAttPath, arg |-> Nil]}

=============================================================================
