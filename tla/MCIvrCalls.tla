---------------------------- MODULE MCIvrCalls ----------------------------
(* Small instances of IvrCalls for TLC. *)
EXTENDS IvrCalls, TLC

\* Company 1 plays a menu, 2 goes straight to the agents, 3 has no start node, and 4
\* goes to the agents by a row that has a key of its own.
MCRows ==
    << [company |-> 1, node |-> 1, keys |-> ("0" :> 5 @@ "1" :> 2), plays |-> "voice"],
       [company |-> 1, node |-> 2, keys |-> ("0" :> 5 @@ "1" :> 1), plays |-> "voice"],
       [company |-> 2, node |-> 1, keys |-> NoKeys, plays |-> "agent"],
       [company |-> 3, node |-> 2, keys |-> NoKeys, plays |-> "voice"],
       [company |-> 4, node |-> 1, keys |-> ("1" :> 1), plays |-> "agent"] >>

MCCompanyOf == ("in1" :> 1) @@ ("in2" :> 2) @@ ("in3" :> 3) @@ ("in0" :> 0) @@ ("out1" :> 1) @@ ("out2" :> 4)

===========================================================================
