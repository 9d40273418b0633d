---------------------------- MODULE MCHifiRouting ----------------------------
(* Two tracks with HiFi rates and one that forbids HiFi while it plays.     *)
EXTENDS HifiRouting

PlayedTracks == {"music", "video", "call"}
PlayedDemand == [t \in PlayedTracks |-> CASE t = "music" -> "r96" [] t = "video" -> "r48"
                                          [] OTHER -> "other"]
HifiRates    == {"r96", "r48"}
AskedGains   == {7}
=============================================================================
