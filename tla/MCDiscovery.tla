---------------------------- MODULE MCDiscovery ----------------------------
(* Two services, one of which may come back at another address.             *)
EXTENDS Discovery

CONSTANTS n1, n2, a1, a2, b1

MCAddresses == [n \in {n1, n2} |-> IF n = n1 THEN {a1, a2} ELSE {b1}]

(* Everything is set up before the browser starts; the browser is stopped   *)
(* before the command and the command deleted before the browser.           *)
SafePrograms ==
  {<<"factory", "adopt", "start", "stop", "command", "derived", "base">>}

(* The browser is deleted without being stopped first, after the command or *)
(* before it.                                                               *)
UnstoppedPrograms == {<<"factory", "start", "command", "derived", "base">>,
                      <<"factory", "start", "derived", "base", "command">>}

(* The factory is replaced, or goes with the browser, while its proxies live.*)
FactoryPrograms == {<<"factory", "start", "factory">>,
                    <<"factory", "start", "stop", "derived", "base", "command">>}

(* The browser is stopped for a while.                                      *)
RestartPrograms == {<<"factory", "start", "stop", "start">>}

ASSUME ProgramsAssumption ==
  /\ \A steps \in SafePrograms \cup RestartPrograms : Orderly(steps)
  /\ \A steps \in UnstoppedPrograms \cup FactoryPrograms : ~Orderly(steps)
=============================================================================
