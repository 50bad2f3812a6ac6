------------------------- MODULE PictureReaderPlay -------------------------
(***************************************************************************)
(* PictureReaderPlay.cpp lets BPicture::Play read a file, and passes what  *)
(* is played on to a visitor.  BPicture hands an operation, with the       *)
(* arguments it has read, to the callback that has its name; the table     *)
(* playbackHandlers says which call of the visitor that becomes.           *)
(***************************************************************************)
EXTENDS PictureFields, SequencesExt, TLC

\* The figures: the call, whether it is stroked, whether it has a gradient.
PlayedFigures == [
    STROKE_LINE |-> <<"DrawLine", TRUE, FALSE>>,
    STROKE_RECT |-> <<"DrawRect", TRUE, FALSE>>, FILL_RECT |-> <<"DrawRect", FALSE, FALSE>>,
    STROKE_ROUND_RECT |-> <<"DrawRoundRect", TRUE, FALSE>>, FILL_ROUND_RECT |-> <<"DrawRoundRect", FALSE, FALSE>>,
    STROKE_BEZIER |-> <<"DrawBezier", TRUE, FALSE>>, FILL_BEZIER |-> <<"DrawBezier", FALSE, FALSE>>,
    STROKE_ARC |-> <<"DrawArc", TRUE, FALSE>>, FILL_ARC |-> <<"DrawArc", FALSE, FALSE>>,
    STROKE_ELLIPSE |-> <<"DrawEllipse", TRUE, FALSE>>, FILL_ELLIPSE |-> <<"DrawEllipse", FALSE, FALSE>>,
    STROKE_POLYGON |-> <<"DrawPolygon", TRUE, FALSE>>, FILL_POLYGON |-> <<"DrawPolygon", FALSE, FALSE>>,
    STROKE_SHAPE |-> <<"DrawShape", TRUE, FALSE>>, FILL_SHAPE |-> <<"DrawShape", FALSE, FALSE>>]

PlayedGradients == [
    STROKE_RECT_GRADIENT |-> <<"DrawRect", TRUE, TRUE>>, FILL_RECT_GRADIENT |-> <<"DrawRect", FALSE, TRUE>>,
    STROKE_ROUND_RECT_GRADIENT |-> <<"DrawRoundRect", TRUE, TRUE>>, FILL_ROUND_RECT_GRADIENT |-> <<"DrawRoundRect", FALSE, TRUE>>,
    STROKE_BEZIER_GRADIENT |-> <<"DrawBezier", TRUE, TRUE>>, FILL_BEZIER_GRADIENT |-> <<"DrawBezier", FALSE, TRUE>>,
    STROKE_ARC_GRADIENT |-> <<"DrawArc", TRUE, TRUE>>, FILL_ARC_GRADIENT |-> <<"DrawArc", FALSE, TRUE>>,
    STROKE_ELLIPSE_GRADIENT |-> <<"DrawEllipse", TRUE, TRUE>>, FILL_ELLIPSE_GRADIENT |-> <<"DrawEllipse", FALSE, TRUE>>,
    STROKE_POLYGON_GRADIENT |-> <<"DrawPolygon", FALSE, TRUE>>, FILL_POLYGON_GRADIENT |-> <<"DrawPolygon", FALSE, TRUE>>,
    STROKE_SHAPE_GRADIENT |-> <<"DrawShape", TRUE, TRUE>>, FILL_SHAPE_GRADIENT |-> <<"DrawShape", FALSE, TRUE>>]

\* The other operations.  No callback takes CLEAR_CLIPPING_RECTS, SET_FONT_BPP,
\* SET_FONT_FALSE_BOLD_WIDTH and STROKE_LINE_GRADIENT.
PlayedPlain == [
    MOVE_PEN_BY |-> "MovePenBy", DRAW_STRING |-> "DrawString", DRAW_STRING_LOCATIONS |-> "DrawStringAt", DRAW_PIXELS |-> "DrawBitmap",
    DRAW_PICTURE |-> "DrawPicture", SET_CLIPPING_RECTS |-> "SetClipping", CLIP_TO_PICTURE |-> "ClipToPicture",
    CLIP_TO_RECT |-> "ClipToRect", CLIP_TO_SHAPE |-> "ClipToShape", PUSH_STATE |-> "PushState", POP_STATE |-> "PopState",
    SET_ORIGIN |-> "SetOrigin", SET_PEN_LOCATION |-> "SetPenLocation", SET_DRAWING_MODE |-> "SetDrawingMode", SET_LINE_MODE |-> "SetLineMode",
    SET_PEN_SIZE |-> "SetPenSize", SET_FORE_COLOR |-> "SetHighColor", SET_BACK_COLOR |-> "SetLowColor", SET_STIPLE_PATTERN |-> "SetPattern",
    SET_SCALE |-> "SetScale", SET_FONT_FAMILY |-> "SetFontFamily", SET_FONT_STYLE |-> "SetFontStyle", SET_FONT_SPACING |-> "SetFontSpacing",
    SET_FONT_SIZE |-> "SetFontSize", SET_FONT_ROTATE |-> "SetFontRotation", SET_FONT_ENCODING |-> "SetFontEncoding",
    SET_FONT_FLAGS |-> "SetFontFlags", SET_FONT_SHEAR |-> "SetFontShear", SET_FONT_FACE |-> "SetFontFace",
    SET_BLENDING_MODE |-> "SetBlendingMode", SET_TRANSFORM |-> "SetTransform", AFFINE_TRANSLATE |-> "TranslateBy", AFFINE_SCALE |-> "ScaleBy",
    AFFINE_ROTATE |-> "RotateBy", BLEND_LAYER |-> "BlendLayer", SET_FILL_RULE |-> "SetFillRule"]

PlayedLists == {"EnterStateChange", "ExitStateChange", "EnterFontState", "ExitFontState"}

\* What becomes of the operation that was written for the call c.
Played(c) ==
    IF c.m \in PlayedLists THEN <<c>>
    ELSE LET op == Opcode(c)
             figures == PlayedFigures @@ PlayedGradients
         IN  CASE op \in DOMAIN figures ->
                    LET f == figures[op] IN <<[c EXCEPT !.m = f[1], !.stroke = f[2], !.gradient = IF f[3] THEN @ ELSE 0]>>
               [] op \in DOMAIN PlayedPlain -> <<[c EXCEPT !.m = PlayedPlain[op]]>>
               [] OTHER -> <<>>

\* Mutant: no callback for the end of a list.
PlayAcceptOpen(ops) ==
    <<Call("EnterPicture"), Call("EnterOps")>>
    \o FlattenSeq([i \in DOMAIN ops |-> IF ops[i].m \in {"ExitStateChange", "ExitFontState"} THEN <<>> ELSE Played(ops[i])])
    \o <<Call("ExitOps"), Call("ExitPicture")>>

\* PictureReaderPlay::Accept, for a picture with these operations.
PlayAccept(ops) ==
    <<Call("EnterPicture"), Call("EnterOps")>>
    \o FlattenSeq([i \in DOMAIN ops |-> Played(ops[i])])
    \o <<Call("ExitOps"), Call("ExitPicture")>>
=============================================================================
