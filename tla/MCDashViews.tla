---------------------------- MODULE MCDashViews ----------------------------
(***************************************************************************)
(* DashViews with an edition, its evidence rendered again by a host whose  *)
(* clock is ahead, and one of a contract the gateway does not know.  Ephor *)
(* or the agenda: the two only meet in the size of the push.               *)
(***************************************************************************)
EXTENDS DashViews

MCSnapshotOf == [old |-> "s1", again |-> "s1", foreign |-> "s2"]
MCEditorialOf == [old |-> "n1", again |-> "n2", foreign |-> "n1"]
MCObserved == [s1 |-> 0, s2 |-> 0]
MCGenerated == [old |-> 0, again |-> 2, foreign |-> 0]
MCContract == [old |-> "none", again |-> "v1", foreign |-> "v9"]
MCSizeOf == [old |-> 1, again |-> 3, foreign |-> 1]

MCSetups == {<<TRUE, FALSE>>, <<FALSE, TRUE>>}
MCSurfaceOf == [b |-> "bridge", g |-> "mcp", h |-> "mcp"]
MCGates == <<"mcp">>
=============================================================================
