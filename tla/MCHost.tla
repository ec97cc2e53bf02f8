------------------------------- MODULE MCHost -------------------------------
(***************************************************************************)
(* The programs on the host for TLC, each with the others not in use:      *)
(* a recording in rgbd_live_gui.py and the NDI sender, as the camera's SDK *)
(* has one client at a time, and the calibration of the pen's pose in the  *)
(* Studio, which shares nothing with them.                                 *)
(***************************************************************************)
EXTENDS Capture, NdiSender, PoseCalibration

hostVars == <<captureVars, ndiVars, poseVars>>

MCInit ==
  \/ CaptureInit   /\ NdiUnused /\ PoseUnused
  \/ CaptureUnused /\ NdiInit   /\ PoseUnused
  \/ CaptureUnused /\ NdiUnused /\ PoseInit

MCNext ==
  \/ CaptureNext /\ UNCHANGED <<ndiVars, poseVars>>
  \/ NdiNext     /\ UNCHANGED <<captureVars, poseVars>>
  \/ PoseNext    /\ UNCHANGED <<captureVars, ndiVars>>

MCSpec == MCInit /\ [][MCNext]_hostVars /\ CaptureFairness
=============================================================================
