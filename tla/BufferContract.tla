--------------------------- MODULE BufferContract ---------------------------
(***************************************************************************)
(* What the camera3 HAL promises the framework about output buffers, with  *)
(* no mention of queues, threads or the legacy engine: a buffer handed     *)
(* over with a request is owned by the HAL until it is returned, it is     *)
(* returned exactly once, the images of one stream come back in frame      *)
(* order, and a closed device owns nothing.                                *)
(***************************************************************************)
EXTENDS Naturals

CONSTANTS Streams,   \* the output streams a session may have
          Frames     \* the frame numbers of requests, positive

VARIABLES owned,     \* buffers <<stream, frame>> the HAL has to return
          returned,  \* buffers it has returned
          lastImage, \* per stream, the frame of the last good image (0: none)
          closed     \* the device is closed

cvars == <<owned, returned, lastImage, closed>>

CInit == /\ owned = {}
         /\ returned = {}
         /\ lastImage = [s \in Streams |-> 0]
         /\ closed = FALSE

(* A request for a new frame hands over a buffer of each stream in outs;   *)
(* the HAL keeps them all, or returns them all at once in error.           *)
Accept == \E f \in Frames, outs \in SUBSET Streams :
             LET new == outs \X {f}
             IN /\ ~closed
                /\ new \cap (owned \cup returned) = {}
                /\ \/ owned' = owned \cup new /\ UNCHANGED returned
                   \/ returned' = returned \cup new /\ UNCHANGED owned
                /\ UNCHANGED <<lastImage, closed>>

(* An owned buffer is returned in error. *)
ReturnError == \E b \in owned :
                  /\ owned' = owned \ {b}
                  /\ returned' = returned \cup {b}
                  /\ UNCHANGED <<lastImage, closed>>

(* An owned buffer is returned with an image newer than the stream's last. *)
ReturnImage == \E b \in owned :
                  /\ lastImage[b[1]] < b[2]
                  /\ owned' = owned \ {b}
                  /\ returned' = returned \cup {b}
                  /\ lastImage' = [lastImage EXCEPT ![b[1]] = b[2]]
                  /\ UNCHANGED closed

(* The device closes owning nothing. *)
CloseDevice == /\ owned = {}
               /\ closed' = TRUE
               /\ UNCHANGED <<owned, returned, lastImage>>

CNext == Accept \/ ReturnError \/ ReturnImage \/ CloseDevice

CSpec == CInit /\ [][CNext]_cvars
=============================================================================
