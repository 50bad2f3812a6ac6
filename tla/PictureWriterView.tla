------------------------- MODULE PictureWriterView -------------------------
(***************************************************************************)
(* PictureWriterView.cpp: the visitor that draws into a BView, which       *)
(* records a picture.  Of the values only patterns are followed: the       *)
(* pattern of SetPattern, the i-th call, is i, and 0 is what fPattern      *)
(* holds before any.                                                       *)
(***************************************************************************)
EXTENDS PictureFields, SequencesExt

\* The calls that end in RaiseUnimplemented, which aborts the program.
Unimplemented == {"EnterPictures", "ExitPictures", "ClipToPicture", "SetFontFamily", "SetFontStyle", "SetFontSpacing", "SetFontSize",
    "SetFontRotation", "SetFontEncoding", "SetFontFlags", "SetFontShear", "SetFontFace", "DrawPicture", "BlendLayer"}

\* Calls that do nothing.
Ignored == {"EnterPicture", "ExitPicture", "EnterOps", "ExitOps", "EnterStateChange", "ExitStateChange", "EnterFontState", "ExitFontState",
    "SetFontBpp", "SetFontFalseBoldWidth"}

\* The call of BView for each other call, but for the figures and the clipping.
ViewNames == [
    PushState |-> "PushState", PopState |-> "PopState", SetDrawingMode |-> "SetDrawingMode", SetLineMode |-> "SetLineMode",
    SetPenSize |-> "SetPenSize", SetHighColor |-> "SetHighColor", SetLowColor |-> "SetLowColor", SetBlendingMode |-> "SetBlendingMode",
    SetFillRule |-> "SetFillRule", SetOrigin |-> "SetOrigin", SetScale |-> "SetScale", SetPenLocation |-> "MovePenTo",
    SetTransform |-> "SetTransform", SetClipping |-> "ConstrainClippingRegion", ClearClipping |-> "ConstrainClippingRegion",
    MovePenBy |-> "MovePenBy", TranslateBy |-> "TranslateBy", ScaleBy |-> "ScaleBy", RotateBy |-> "RotateBy",
    DrawString |-> "DrawString", DrawStringAt |-> "DrawString", DrawBitmap |-> "DrawBitmap"]

\* ClipToRect and ClipToShape: the call for a clipping that is, or is not, inverse.
ClipCall(m, inverse) ==
    IF m = "ClipToRect" THEN IF inverse THEN "ClipToRect" ELSE "ClipToInverseRect"
    ELSE IF inverse THEN "ClipToShape" ELSE "ClipToInverseShape"

ViewFigures == [
    DrawLine |-> <<"StrokeLine", "StrokeLine">>, DrawRect |-> <<"StrokeRect", "FillRect">>, DrawRoundRect |-> <<"StrokeRoundRect", "FillRoundRect">>,
    DrawBezier |-> <<"StrokeBezier", "FillBezier">>, DrawPolygon |-> <<"StrokePolygon", "FillPolygon">>, DrawShape |-> <<"StrokeShape", "FillShape">>,
    DrawArc |-> <<"StrokeArc", "FillArc">>, DrawEllipse |-> <<"StrokeEllipse", "FillEllipse">>]

\* The writer: fPattern, whether it has aborted, how many calls it got, and the
\* calls it made, each with the position of the call that it is for.
NewView == [fPattern |-> 0, aborted |-> FALSE, at |-> 0, drawn |-> <<>>]
Draws(v, call) == [v EXCEPT !.at = @ + 1, !.drawn = Append(@, [at |-> v.at + 1, call |-> call])]

\* Mutant: a figure with a gradient takes the pattern, too.
FiguredAlways(c, fPattern) ==
    [call |-> ViewFigures[c.m][IF c.stroke THEN 1 ELSE 2], gradient |-> c.gradient, pattern |-> fPattern]

Figured(c, fPattern) ==
    [call |-> ViewFigures[c.m][IF c.stroke THEN 1 ELSE 2], gradient |-> c.gradient,
     pattern |-> IF c.gradient = 0 THEN fPattern ELSE 0]
Plain(call) == [call |-> call, gradient |-> 0, pattern |-> 0]

\* One call of the visitor.  A clipping is taken to be one that is not inverse.
ViewVisit(v, c) ==
    CASE v.aborted -> v
      [] c.m \in Unimplemented -> [v EXCEPT !.aborted = TRUE]
      [] c.m \in Ignored -> [v EXCEPT !.at = @ + 1]
      [] c.m = "SetPattern" -> [v EXCEPT !.at = @ + 1, !.fPattern = v.at + 1]
      [] c.m \in {"ClipToRect", "ClipToShape"} -> Draws(v, Plain(ClipCall(c.m, FALSE)))
      [] c.m \in DOMAIN ViewFigures -> Draws(v, Figured(c, v.fPattern))
      [] c.m \in DOMAIN ViewNames -> Draws(v, Plain(ViewNames[c.m]))
Visited(calls) == FoldLeft(ViewVisit, NewView, calls)
=============================================================================
