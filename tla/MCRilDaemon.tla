---------------------------- MODULE MCRilDaemon ----------------------------
(* TLC's requests, one of each kind; for the violation, a valid one alone. *)
EXTENDS RilDaemon

SentRequests == {"dial", "oem", "garbled"}
SentKinds    == [r \in SentRequests |-> CASE r = "dial" -> "valid" [] r = "oem" -> "unsupported"
                                          [] OTHER -> "malformed"]
DialOnly     == {"dial"}
DialKind     == [r \in DialOnly |-> "valid"]
=============================================================================
