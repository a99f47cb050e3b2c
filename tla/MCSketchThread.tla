--------------------------- MODULE MCSketchThread ---------------------------
(* SketchThread with up to three sketches and three flags for TLC.          *)
EXTENDS SketchThread, TLC

CONSTANTS s1, s2, s3, f1, f2, f3

\* A sketch with two start flags, one with a start and stop flag, one without flags.
SomeStartFlags == s1 :> {f1, f2} @@ s2 :> {f3} @@ s3 :> {}
SomeStopFlags == s1 :> {} @@ s2 :> {f3} @@ s3 :> {}
SomeDelays == s1 :> {} @@ s2 :> {} @@ s3 :> {0, 1}
SomeEvents == s1 :> {f1} @@ s2 :> {f3} @@ s3 :> {}

\* Two sketches that wait for one flag.
OneStartFlag == s1 :> {f1} @@ s2 :> {f1}
NoStopFlags == s1 :> {} @@ s2 :> {}
NoDelays == s1 :> {} @@ s2 :> {}
NoEvents == s1 :> {} @@ s2 :> {}

\* A sketch with two stop flags.
NoStartFlags == s1 :> {}
TwoStopFlags == s1 :> {f1, f2}
ShortDelays == s1 :> {0}
TwoEvents == s1 :> {f1, f2}
=============================================================================
