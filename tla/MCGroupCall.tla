---------------------------- MODULE MCGroupCall -----------------------------
(* Ids are numbers, since the glare rule compares them.  Calls are of all  *)
(* three, or of two neighbours; frames are lost in calls of two only.      *)
EXTENDS GroupCall

MCMembers == 1..3
MCRosters == {{1, 2}, {2, 3}, {1, 2, 3}}
MCLossyRosters == {R \in MCRosters : Cardinality(R) = 2}

=============================================================================
