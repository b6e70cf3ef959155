--------------------------- MODULE MC_ControlBoot ---------------------------
(* Two parameters, of which a mode may set one itself.  The ring has room  *)
(* for both defaults but not for SETs besides, so that seeding is refused  *)
(* and retried.                                                            *)
EXTENDS ControlBoot

MCRegistry == <<"gate", "drive">>
MCDefault == [p \in {"gate", "drive"} |-> "default"]
MCConfig == [p \in {"gate", "drive"} |-> "config"]
NoChanges == {<<>>}
OneChange == {<<[parameter |-> "drive", value |-> "set"]>>}
AnyMode == NoChanges \union OneChange
=============================================================================
