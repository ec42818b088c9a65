----------------------------- MODULE Conversions -----------------------------
(***************************************************************************)
(* The two loops over the pixels of a captured frame: convert() for the    *)
(* encoder and yuv2rgb() for a photo.  They share nothing, so that a       *)
(* behaviour runs one of them.                                             *)
(***************************************************************************)
EXTENDS Convert, Yuv2rgb

vars == <<convertVars, rgbVars>>

TypeOK == ConvertTypeOK /\ RgbTypeOK

Init == (ConvertInit /\ NoFrame) \/ (NoPicture /\ RgbInit)

Next == (ConvertNext /\ UNCHANGED rgbVars) \/ (RgbNext /\ UNCHANGED convertVars)

Spec == Init /\ [][Next]_vars

=============================================================================
