---------------------------- MODULE MCDecisions ----------------------------
(***************************************************************************)
(* Instances of Decisions for TLC.  Each run takes some of the commands    *)
(* below; the cfg says which, and how many failures it allows.             *)
(***************************************************************************)
EXTENDS Decisions

(* The commands of hold "b", on the bridge; the others are about hold "g", *)
(* at a gate.                                                              *)
OnBridge == {"approveB", "deferB"}

MCKind == [c \in Cmd |->
  CASE c \in {"approve", "approveB", "junk", "badparams"} -> "approve"
    [] c = "deny" -> "deny"
    [] c \in {"defer", "deferB"} -> "defer"
    [] c = "escalate" -> "escalate"
    [] OTHER -> "review"]

MCTarget == [c \in Cmd |-> IF c \in OnBridge THEN "b" ELSE "g"]

MCForm == [c \in Cmd |->
  CASE c = "list" -> "unhashable"
    [] c = "anonymous" -> "no_id"
    [] c = "junk" -> "bad"
    [] c = "badparams" -> "bad_params"
    [] OTHER -> "fine"]

MCDeadline == [h \in Hold |-> 1]
=============================================================================
