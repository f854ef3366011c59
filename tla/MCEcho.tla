------------------------------- MODULE MCEcho -------------------------------
(* An instance of EchoRpc for TLC: the sizes of the words; messages, one of *)
(* them empty and one long (with "[Echo1] " before it its length takes      *)
(* two bytes); and clients of this and of other builds.  With blocks of 37  *)
(* bytes, the length of the first body ends its block if the method is Echo *)
(* and the id 0.                                                            *)
EXTENDS EchoRpc

MCWordSize ==
  [w \in {"EchoService", "Echo", "Echo1", "Echo2", "[Echo] ", "[Echo1] ", "long"} |->
     CASE w = "EchoService" -> 11
       [] w = "Echo" -> 4
       [] w \in {"Echo1", "Echo2"} -> 5
       [] w = "[Echo] " -> 7
       [] w = "[Echo1] " -> 8
       [] w = "long" -> 120]

MCMessages == {<<>>, <<"long">>}

Build(m, v, n) == [magic |-> m, version |-> v, newer |-> n]

MCBuilds == {Build(MAGIC_NUM, VERSION, FALSE), Build(MAGIC_NUM, VERSION, TRUE),
             Build(MAGIC_NUM, VERSION + 1, FALSE), Build(1, VERSION, FALSE)}
=============================================================================
