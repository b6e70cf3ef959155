---------------------------- MODULE MC_VoxLinkCli ----------------------------
(* Two parameters of two values; reads of four units, so that an answer is *)
(* read in pieces that end within a frame.                                  *)
EXTENDS VoxLinkCli

CONSTANTS p1, p2

MCRegistry == <<p1, p2>>
MCDefault == [p \in {p1, p2} |-> "off"]
MCSize(type) == IF type \in {"CAPS_PARAM", "PARAM_CHANGED"} THEN 2 ELSE 1

Cmd(name, param, value) == [name |-> name, param |-> param, value |-> value]

MCCommand ==
    {Cmd(n, NoValue, NoValue) : n \in {"hello", "caps", "state", "stress"}}
    \union {Cmd("get", p1, NoValue), Cmd("set", p1, "on"), Cmd("set", p1, "BAD_TYPE")}
OnlySet == {Cmd("set", p1, "on")}
=============================================================================
