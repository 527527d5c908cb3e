---------------------------- MODULE MCIvrTables ----------------------------
(* Small instances of IvrTables for TLC. *)
EXTENDS IvrTables, TLC

\* Company 1: a start node with an agent key that names node 7, which does not
\* exist, a second node, two versions of it, and a node 9999 of its own.
MCRows ==
    { [company |-> 1, node |-> 1, keys |-> ("0" :> 7 @@ "1" :> 2 @@ "" :> 1), plays |-> "voice"],
      [company |-> 1, node |-> 2, keys |-> NoKeys, plays |-> "voice"],
      [company |-> 1, node |-> 2, keys |-> ("1" :> 1 @@ "2" :> 3), plays |-> "voice"],
      [company |-> 1, node |-> 9999, keys |-> ("1" :> 1), plays |-> "voice"],
      [company |-> 2, node |-> 1, keys |-> ("0" :> 1), plays |-> "agent"],
      [company |-> 2, node |-> 2, keys |-> ("1" :> 9999), plays |-> "voice"] }

============================================================================
