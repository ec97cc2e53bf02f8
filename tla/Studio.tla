------------------------------- MODULE Studio -------------------------------
(***************************************************************************)
(* The Studio with one of its two sources, as --no-brush and               *)
(* --camera-backend none start it.  With both they have only the GUI       *)
(* thread in common: the one is closed before the other, and the time the  *)
(* GUI takes over the brush is guiStall to the camera.                     *)
(***************************************************************************)
EXTENDS CameraSource, BrushSource

Init ==
  \/ CameraInit /\ BrushUnused
  \/ CameraDisabled /\ BrushInit

Next ==
  \/ CameraNext /\ UNCHANGED brushVars
  \/ BrushNext /\ UNCHANGED cameraVars

Spec ==
  /\ Init
  /\ [][Next]_<<cameraVars, brushVars>>
  /\ CameraFairness
  /\ BrushFairness
=============================================================================
