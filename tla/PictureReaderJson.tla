------------------------- MODULE PictureReaderJson -------------------------
(***************************************************************************)
(* What PictureReaderJson.cpp accepts, as a grammar, and the call it makes *)
(* of what it has read.  A form says how one value is read:                *)
(*   leaf    one token out of a set (ReadReal, ReadInt32, a name);         *)
(*   object  names in any order, each with its form; "need" must all come; *)
(*   one     exactly one name out of several, with its form;               *)
(*   array   values of one form, "sizes" the numbers of them allowed;      *)
(*   either  a leaf, or an array whose values are of no interest;          *)
(*   bit     the name of a bit, or a number, which leaves the last name;   *)
(*   ops, op, picture, pictures   the recursive ones (see PictureJson).    *)
(* Forms refer to each other by name.  A value read is the text of a leaf, *)
(* a function from names to values, a sequence of values, or a pair of a   *)
(* name and its value.                                                     *)
(***************************************************************************)
EXTENDS PictureWriterJson

Leaf(tokens) == [form |-> "leaf", tokens |-> tokens]
Names(names) == Leaf({Str(n) : n \in names})
NeedAll(names) == [form |-> "object", names |-> names, need |-> DOMAIN names]
OneOf(names) == [form |-> "one", names |-> names]
ArrayOf(name, sizes) == [form |-> "array", of |-> name, sizes |-> sizes]
AnySize == 0..(3 * MaxLen + 8)   \* every size that is ever written

\* ReadReal, ReadInt32, ReadBool, ReadColor, ReadPoint, ReadRect, ReadEscapementDelta
\* and the transform of SET_TRANSFORM.
ValueForms ==
    [Real |-> Leaf({Integer, Real}), Integer |-> Leaf({Integer}), Bool |-> Leaf({Bool}),
     Text |-> Names({"text"}), Color |-> Names({"color"}),
     Point |-> NeedAll([x |-> "Real", y |-> "Real"]),
     Rect |-> NeedAll([left |-> "Real", top |-> "Real", right |-> "Real", bottom |-> "Real"]),
     Delta |-> NeedAll([nonspace |-> "Real", space |-> "Real"]),
     Transform |-> NeedAll([n \in {"tx", "ty", "sx", "sy", "shy", "shx"} |-> "Real"]),
     Points |-> ArrayOf("Point", AnySize), Bytes |-> ArrayOf("Integer", AnySize),
     EightBytes |-> ArrayOf("Integer", {8}), Rects |-> ArrayOf("Rect", AnySize), Empty |-> NeedAll(<<>>)]

ShapeForms ==
    [Shape |-> ArrayOf("Element", AnySize),
     Element |-> OneOf([MoveTo |-> "Point", LineTo |-> "Points", BezierTo |-> "Curves", Close |-> "Empty", ArcTo |-> "Arc"]),
     Curves |-> ArrayOf("Point", {3 * n : n \in 0..MaxLen}),
     Arc |-> NeedAll([rx |-> "Real", ry |-> "Real", angle |-> "Real", largeArc |-> "Bool", ccw |-> "Bool", point |-> "Point"])]

GradientForms ==
    [Gradient |-> OneOf([n \in GradientTypes |-> n]),
     Stops |-> ArrayOf("Stop", AnySize),
     Stop |-> NeedAll([color |-> "Color", offset |-> "Real"]),
     BGradientLinear |-> NeedAll([stops |-> "Stops", start |-> "Point", end |-> "Point"]),
     BGradientRadial |-> NeedAll([stops |-> "Stops", center |-> "Point", radius |-> "Real"]),
     BGradientRadialFocus |-> NeedAll([stops |-> "Stops", center |-> "Point", focus |-> "Point", radius |-> "Real"]),
     BGradientDiamond |-> NeedAll([stops |-> "Stops", center |-> "Point"]),
     BGradientConic |-> NeedAll([stops |-> "Stops", center |-> "Point", angle |-> "Real"])]

(***************************************************************************)
(* Geometry.  ReadOps knows no line with a gradient.                       *)
(***************************************************************************)
KnownKinds == {k \in Kinds : ~(k.m = "DrawLine" /\ k.graded)}

Parts(k) ==
    CASE k.m = "DrawLine" -> [start |-> "Point", end |-> "Point"]
      [] k.m \in {"DrawRect", "DrawEllipse"} -> [rect |-> "Rect"]
      [] k.m = "DrawRoundRect" -> [rect |-> "Rect", radius |-> "Point"]
      [] k.m = "DrawBezier" -> [points |-> "Bezier"]
      [] k.m = "DrawPolygon" -> "points" :> "Points" @@ IF k.stroke THEN "isClosed" :> "Bool" ELSE <<>>
      [] k.m = "DrawShape" -> [shape |-> "Shape"]
      [] k.m = "DrawArc" -> [center |-> "Point", radius |-> "Point", startTheta |-> "Real", arcTheta |-> "Real"]

KindOf == [n \in {GeometryName(k) : k \in KnownKinds} |-> CHOOSE k \in KnownKinds : GeometryName(k) = n]

FigureForms ==
    [Bezier |-> ArrayOf("Point", {4})]
    @@ [n \in DOMAIN KindOf |-> NeedAll(Parts(KindOf[n]) @@ IF KindOf[n].graded THEN "gradient" :> "Gradient" ELSE <<>>)]

\* The name of the form of the value after the name n of a figure.
GeometryForm(n) ==
    IF Bare(KindOf[n]) THEN LET parts == Parts(KindOf[n]) IN parts[CHOOSE p \in DOMAIN parts : TRUE] ELSE n

\* Mutant: curves are counted by their points.
GeometryHeardPoints(k, v) ==
    LET part(name) == IF Bare(k) THEN v ELSE v[name]
        run(e) == <<e[1], IF e[1] \in {"LineTo", "BezierTo"} THEN Len(e[2]) ELSE 1>>
    IN  [kind |-> k,
         gradient |-> IF k.graded THEN [type |-> v["gradient"][1], stops |-> Len(v["gradient"][2]["stops"])] ELSE None,
         data |-> CASE k.m = "DrawPolygon" -> Len(part("points"))
                    [] k.m = "DrawShape" -> [i \in DOMAIN part("shape") |-> run(part("shape")[i])]
                    [] OTHER -> 0]

\* The call that a value read for a figure makes.
GeometryHeard(k, v) ==
    LET part(name) == IF Bare(k) THEN v ELSE v[name]
        run(e) == <<e[1], CASE e[1] = "LineTo" -> Len(e[2]) [] e[1] = "BezierTo" -> Len(e[2]) \div 3 [] OTHER -> 1>>
    IN  [kind |-> k,
         gradient |-> IF k.graded THEN [type |-> v["gradient"][1], stops |-> Len(v["gradient"][2]["stops"])] ELSE None,
         data |-> CASE k.m = "DrawPolygon" -> Len(part("points"))
                    [] k.m = "DrawShape" -> [i \in DOMAIN part("shape") |-> run(part("shape")[i])]
                    [] OTHER -> 0]

(***************************************************************************)
(* The other operations: the method called and the form of the value.      *)
(***************************************************************************)
PlainOps ==
    [MOVE_PEN_BY |-> <<"MovePenBy", "Point">>, SET_PEN_SIZE |-> <<"SetPenSize", "Real">>,
     SET_FORE_COLOR |-> <<"SetHighColor", "Color">>, SET_BACK_COLOR |-> <<"SetLowColor", "Color">>,
     SET_ORIGIN |-> <<"SetOrigin", "Point">>, SET_SCALE |-> <<"SetScale", "Real">>,
     SET_PEN_LOCATION |-> <<"SetPenLocation", "Point">>, SET_TRANSFORM |-> <<"SetTransform", "Transform">>,
     CLEAR_CLIPPING_RECTS |-> <<"ClearClipping", "Empty">>,
     CLIP_TO_PICTURE |-> <<"ClipToPicture", "CLIP_TO_PICTURE">>, CLIP_TO_RECT |-> <<"ClipToRect", "CLIP_TO_RECT">>,
     SET_FONT_FAMILY |-> <<"SetFontFamily", "Text">>, SET_FONT_STYLE |-> <<"SetFontStyle", "Text">>,
     SET_FONT_SIZE |-> <<"SetFontSize", "Real">>, SET_FONT_ROTATE |-> <<"SetFontRotation", "Real">>,
     SET_FONT_SHEAR |-> <<"SetFontShear", "Real">>, SET_FONT_BPP |-> <<"SetFontBpp", "Integer">>,
     SET_FONT_FALSE_BOLD_WIDTH |-> <<"SetFontFalseBoldWidth", "Real">>,
     AFFINE_TRANSLATE |-> <<"TranslateBy", "Point">>, AFFINE_SCALE |-> <<"ScaleBy", "Point">>,
     AFFINE_ROTATE |-> <<"RotateBy", "Real">>, DRAW_PICTURE |-> <<"DrawPicture", "DRAW_PICTURE">>]

\* DRAW_STRING_LOCATIONS and BLEND_LAYER raise "unimplemented".
OtherOps ==
    [SET_DRAWING_MODE |-> <<"SetDrawingMode", "DrawingMode">>, SET_LINE_MODE |-> <<"SetLineMode", "SET_LINE_MODE">>,
     SET_STIPLE_PATTERN |-> <<"SetPattern", "Pattern">>, SET_BLENDING_MODE |-> <<"SetBlendingMode", "SET_BLENDING_MODE">>,
     SET_FILL_RULE |-> <<"SetFillRule", "FillRule">>, SET_FONT_SPACING |-> <<"SetFontSpacing", "Spacing">>,
     SET_FONT_ENCODING |-> <<"SetFontEncoding", "Encoding">>, SET_FONT_FLAGS |-> <<"SetFontFlags", "Flags">>,
     SET_FONT_FACE |-> <<"SetFontFace", "Faces">>, SET_CLIPPING_RECTS |-> <<"SetClipping", "Rects">>,
     CLIP_TO_SHAPE |-> <<"ClipToShape", "CLIP_TO_SHAPE">>, DRAW_STRING |-> <<"DrawString", "DRAW_STRING">>,
     DRAW_PIXELS |-> <<"DrawBitmap", "DRAW_PIXELS">>]

ModeForms ==
    [DrawingMode |-> Names(DrawingModes), Cap |-> Names(Caps), Join |-> Names(Joins), FillRule |-> Names(FillRules),
     SourceAlpha |-> Names(SourceAlphas), AlphaFunction |-> Names(AlphaFunctions),
     SET_LINE_MODE |-> NeedAll([capMode |-> "Cap", joinMode |-> "Join", miterLimit |-> "Real"]),
     SET_BLENDING_MODE |-> NeedAll([srcAlpha |-> "SourceAlpha", alphaFunc |-> "AlphaFunction"]),
     Pattern |-> [form |-> "either", tokens |-> {Str(p) : p \in Patterns}, array |-> "EightBytes"]]

FontForms ==
    [Spacing |-> Names(Spacings), Encoding |-> Names(Encodings),
     Flag |-> [form |-> "bit", names |-> ToSet(FontFlags)], Flags |-> ArrayOf("Flag", AnySize),
     Face |-> [form |-> "bit", names |-> ToSet(FontFaces)], Faces |-> ArrayOf("Face", AnySize)]

ClipForms ==
    [CLIP_TO_PICTURE |-> NeedAll([token |-> "Integer", where |-> "Point", inverse |-> "Bool"]),
     CLIP_TO_RECT |-> NeedAll([inverse |-> "Bool", rect |-> "Rect"]),
     CLIP_TO_SHAPE |-> NeedAll([inverse |-> "Bool", shape |-> "Shape"])]

DrawForms ==
    [DRAW_PICTURE |-> NeedAll([where |-> "Point", token |-> "Integer"]),
     DRAW_STRING |-> [form |-> "object", names |-> [string |-> "Text", delta |-> "Delta"], need |-> {"string"}],
     DRAW_PIXELS |-> NeedAll([sourceRect |-> "Rect", destinationRect |-> "Rect", width |-> "Integer", height |-> "Integer",
            bytesPerRow |-> "Integer", colorSpace |-> "Integer", flags |-> "Integer", data |-> "Bytes"])]

\* The recursive forms: ReadPicture before and after it calls EnterPicture, and ReadOps.
PictureForms == [n \in {"nothing", "picture", "entered", "pictures", "ops", "op"} |-> [form |-> n]]

Grammar == ValueForms @@ ShapeForms @@ GradientForms @@ FigureForms @@ ModeForms @@ FontForms @@ ClipForms @@ DrawForms @@ PictureForms

\* The argument that the value read for an operation stands for.
Argument(m, v) ==
    CASE m \in {"SetDrawingMode", "SetPattern", "SetFillRule", "SetFontSpacing", "SetFontEncoding"} -> v
      [] m = "SetLineMode" -> <<v["capMode"], v["joinMode"]>>
      [] m = "SetBlendingMode" -> <<v["srcAlpha"], v["alphaFunc"]>>
      [] m \in {"SetFontFlags", "SetFontFace"} -> ToSet(v)
      [] m = "SetClipping" -> Len(v)
      [] m = "ClipToShape" -> GeometryHeard([m |-> "DrawShape", stroke |-> TRUE, graded |-> FALSE], v["shape"]).data
      [] m = "DrawString" -> "delta" \in DOMAIN v
      [] m = "DrawBitmap" -> Len(v["data"])
=============================================================================
