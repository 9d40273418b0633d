-------------------------- MODULE MCCamera3Pipeline --------------------------
(***************************************************************************)
(* Small instances of Camera3Pipeline for TLC: the streams configured and  *)
(* the sets of streams a request may fill.                                 *)
(***************************************************************************)
EXTENDS Camera3Pipeline

StillConfigurations == {{"preview", "jpeg"}}
StillOutputs        == {{"jpeg"}, {"preview"}}
StillPlusPreview    == {{"preview", "jpeg"}}

VideoConfigurations == {{"preview", "video"}}
VideoOutputs        == {{"preview", "video"}}

AllConfigurations   == {Streams}
StillPlusStream     == {{"preview", "jpeg"}, {"video", "jpeg"}}
=============================================================================
