------------------------------ MODULE MCJobRun ------------------------------
(* Small instances of JobRun for TLC. *)
EXTENDS JobRun
CONSTANTS o1, o2, video, subs
TwoObjects == {o1, o2}
NoObjects == {}
TwoParts == {video, subs}
OnePart == {video}
TwoSteps ==
  <<"step", "index", "nl", "frame", "nl", "step", "index", "nl", "nl", "metric", "vmaf", "nl",
    "metric", "size", "nl",
    "step", "encode", "nl", "failed">>
OneStep == <<"step", "copy", "nl">>
=============================================================================
