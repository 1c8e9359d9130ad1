-------------------------- MODULE MCPushReadiness --------------------------
(* "a" follows the policy of develop; "m", on top of it, documents a line that *)
(* develop has since it moved; "s" adds such a line; "x" changes a governed    *)
(* file on a branch of main, which had no policy before it moved.              *)
EXTENDS PushReadiness, TLC

Policy == [config |-> [base |-> "develop", age |-> 1], fixtures |-> {}, rules |-> 1]
OnMain == [Policy EXCEPT !.config.base = "main"]
MCBasePolicy == [t \in Tips |->
    CASE t[1] = "develop" -> Policy
      [] t = <<"main", 0>> -> None
      [] OTHER -> OnMain]
MCHeadPolicy == [h \in Heads |->
    CASE h = "m" -> [Policy EXCEPT !.fixtures = {1}]
      [] h = "x" -> [OnMain EXCEPT !.rules = 2]
      [] OTHER -> Policy]
MCBaseSecrets == [t \in Tips |-> IF t = <<"develop", 1>> THEN {1} ELSE {}]
MCSecrets == [h \in Heads |-> IF h = "s" THEN {1} ELSE {}]
MCFork == [h \in Heads |-> 0]
MCConflicts == {}
MCAncestors == {<<"a", "m">>}
MCEdited == [base |-> "main", age |-> 2]
============================================================================
