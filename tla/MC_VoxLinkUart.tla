--------------------------- MODULE MC_VoxLinkUart ---------------------------
(* Two parameters of two values, a ring that one CAPS and one GET_STATE     *)
(* answer overflow, a round that transmits half of it.                      *)
EXTENDS VoxLinkUart

CONSTANTS p1, p2

MCRegistry == <<p1, p2>>
MCDefault == [p \in {p1, p2} |-> "off"]
MCSize(type) == IF type \in {"CAPS_PARAM", "PARAM_CHANGED"} THEN 2 ELSE 1

(* Every kind of frame, a sequence number that can repeat within a batch.   *)
MCClientSends ==
    {Client(t, 0, NoValue, NoValue) : t \in {"HELLO", "ACTION", "ACK", "UNKNOWN"}}
    \union {Client("CAPS_REQUEST", 0, NoValue, NoValue),
            Client("GET_STATE", 1, NoValue, NoValue),
            Client("HEARTBEAT", 1, NoValue, NoValue),
            Client("HELLO", 1, NoValue, "BAD_LENGTH"),
            Client("GET_PARAM", 0, p1, NoValue),
            Client("GET_PARAM", 1, NoValue, "BAD_LENGTH"),
            Client("SET_PARAM", 0, p1, "on"), Client("SET_PARAM", 1, p1, "off"),
            Client("SET_PARAM", 1, p2, "on"),
            Client("SET_PARAM", 0, p2, "BAD_LENGTH")}

=============================================================================
