------------------------- MODULE PictureWriterJson -------------------------
(***************************************************************************)
(* The calls of PictureVisitor.h and the JSON text PictureWriterJson.cpp   *)
(* writes for each.  A call is its method and the part of its arguments    *)
(* that the text or the reader tell apart: the paint, the gradient, the    *)
(* number of points, the elements of a shape, the name of an enumerator.   *)
(* A text is a sequence of tokens <<kind, text>>; a number is its type.    *)
(***************************************************************************)
EXTENDS Naturals, Sequences, SequencesExt, FiniteSets, TLC

CONSTANT MaxLen   \* bound: points of a polygon, rectangles, stops, bytes

ASSUME MaxLenAssumption == MaxLen \in Nat

None == "none"          \* drawInfo.gradient == NULL
Unknown == "unknown"    \* a number that names no enumerator

Integer == <<"int", "int">>
Real == <<"real", "real">>
Lost == <<"lost", "real">>   \* of NaN and infinity rapidjson writes nothing: no value, where one must be
Bool == <<"bool", "bool">>
Str(text) == <<"str", text>>
Key(name) == <<"key", name>>
StartObject == <<"{", "{">>
EndObject == <<"}", "}">>
StartArray == <<"[", "[">>
EndArray == <<"]", "]">>

(***************************************************************************)
(* Objects and arrays, and the values that PictureWriterJson has helpers   *)
(* for.                                                                    *)
(***************************************************************************)
Object(fields) ==
    <<StartObject>>
    \o FlattenSeq([i \in DOMAIN fields |-> <<Key(fields[i][1])>> \o fields[i][2]])
    \o <<EndObject>>
Array(items) == <<StartArray>> \o FlattenSeq(items) \o <<EndArray>>
Times(n, item) == Array([i \in 1..n |-> item])
Reals(names) == Object([i \in DOMAIN names |-> <<names[i], <<Real>>>>])

Point == Reals(<<"x", "y">>)
Rect == Reals(<<"left", "top", "right", "bottom">>)
Transform == Reals(<<"tx", "ty", "sx", "sy", "shy", "shx">>)
Color == <<Str("color")>>
Enum(value, names) == <<IF value \in names THEN Str(value) ELSE Integer>>

\* What a BShapeIterator visits: lines and curves come in runs.
Elements == ({"MoveTo", "Close", "ArcTo"} \X {1}) \cup ({"LineTo", "BezierTo"} \X (1..MaxLen))
Element(e) ==
    Object(<< <<e[1], CASE e[1] = "MoveTo" -> Point
                        [] e[1] = "LineTo" -> Times(e[2], Point)
                        [] e[1] = "BezierTo" -> Times(3 * e[2], Point)
                        [] e[1] = "Close" -> Object(<<>>)
                        [] e[1] = "ArcTo" -> Object(<< <<"rx", <<Real>>>>, <<"ry", <<Real>>>>,
                                <<"angle", <<Real>>>>, <<"largeArc", <<Bool>>>>,
                                <<"ccw", <<Bool>>>>, <<"point", Point>> >>)>> >>)
Shapes == UNION {[1..n -> Elements] : n \in 0..1} \cup {<< <<"MoveTo", 1>>, <<"LineTo", 2>>, <<"Close", 1>> >>}
Shape(s) == Array([i \in DOMAIN s |-> Element(s[i])])

GradientTypes == {"BGradientLinear", "BGradientRadial", "BGradientRadialFocus", "BGradientDiamond", "BGradientConic"}
\* Bound: every gradient with a rectangle, one with each other figure.
Gradients(m) == IF m = "DrawRect" THEN [type : GradientTypes, stops : 0..MaxLen]
                ELSE [type : {"BGradientLinear"}, stops : {1}]
Gradient(g) ==
    LET stop == Object(<< <<"color", Color>>, <<"offset", <<Real>>>> >>)
        points == CASE g.type = "BGradientLinear" -> << <<"start", Point>>, <<"end", Point>> >>
                    [] g.type = "BGradientRadial" -> << <<"center", Point>>, <<"radius", <<Real>>>> >>
                    [] g.type = "BGradientRadialFocus" -> << <<"center", Point>>, <<"focus", Point>>, <<"radius", <<Real>>>> >>
                    [] g.type = "BGradientDiamond" -> << <<"center", Point>> >>
                    [] g.type = "BGradientConic" -> << <<"center", Point>>, <<"angle", <<Real>>>> >>
    IN  Object(<< <<g.type, Object(<< <<"stops", Times(g.stops, stop)>> >> \o points)>> >>)

(***************************************************************************)
(* Geometry: a figure, stroked or filled, with a gradient or without.      *)
(***************************************************************************)
Figure == [DrawLine |-> "LINE", DrawRect |-> "RECT", DrawRoundRect |-> "ROUND_RECT",
           DrawBezier |-> "BEZIER", DrawPolygon |-> "POLYGON", DrawShape |-> "SHAPE",
           DrawArc |-> "ARC", DrawEllipse |-> "ELLIPSE"]

\* Every source of calls draws lines as strokes.
Kinds == {k \in [m : DOMAIN Figure, stroke : BOOLEAN, graded : BOOLEAN] : k.m = "DrawLine" => k.stroke}

GeometryName(k) ==
    (IF k.stroke THEN "STROKE_" ELSE "FILL_") \o Figure[k.m] \o (IF k.graded THEN "_GRADIENT" ELSE "")

\* Without a gradient these are not wrapped in an object of their own.
Bare(k) == ~k.graded /\ (k.m \in {"DrawRect", "DrawEllipse", "DrawBezier", "DrawShape"}
                         \/ (k.m = "DrawPolygon" /\ ~k.stroke))

Data(m) == CASE m = "DrawPolygon" -> 0..MaxLen
             [] m = "DrawShape" -> Shapes
             [] OTHER -> {0}

\* The calls of a kind: with its gradient, and its points or shape.
GeometryCalls(k) == [kind : {k}, gradient : IF k.graded THEN Gradients(k.m) ELSE {None}, data : Data(k.m)]

Fields(c) ==
    CASE c.kind.m = "DrawLine" -> << <<"start", Point>>, <<"end", Point>> >>
      [] c.kind.m \in {"DrawRect", "DrawEllipse"} -> << <<"rect", Rect>> >>
      [] c.kind.m = "DrawRoundRect" -> << <<"rect", Rect>>, <<"radius", Point>> >>
      [] c.kind.m = "DrawBezier" -> << <<"points", Times(4, Point)>> >>
      [] c.kind.m = "DrawPolygon" -> << <<"points", Times(c.data, Point)>> >>
              \o IF c.kind.stroke THEN << <<"isClosed", <<Bool>>>> >> ELSE <<>>
      [] c.kind.m = "DrawShape" -> << <<"shape", Shape(c.data)>> >>
      [] c.kind.m = "DrawArc" -> << <<"center", Point>>, <<"radius", Point>>, <<"startTheta", <<Real>>>>, <<"arcTheta", <<Real>>>> >>

Body(c) ==
    IF Bare(c.kind) THEN Fields(c)[1][2]
    ELSE Object(Fields(c) \o IF c.kind.graded THEN << <<"gradient", Gradient(c.gradient)>> >> ELSE <<>>)

\* DrawArc writes a second name after the one it chose.
WrittenGeometry(c) ==
    <<StartObject, Key(GeometryName(c.kind))>>
    \o (IF c.kind.m = "DrawArc" THEN <<Key("STROKE_ARC")>> ELSE <<>>)
    \o Body(c) \o <<EndObject>>

(***************************************************************************)
(* The other calls.  Plain: always the same text.                          *)
(***************************************************************************)
Op(name, body) == Object(<< <<name, body>> >>)

Plain ==
    [MovePenBy |-> Op("MOVE_PEN_BY", Point), SetPenSize |-> Op("SET_PEN_SIZE", <<Real>>),
     SetHighColor |-> Op("SET_FORE_COLOR", Color), SetLowColor |-> Op("SET_BACK_COLOR", Color),
     SetOrigin |-> Op("SET_ORIGIN", Point), SetScale |-> Op("SET_SCALE", <<Real>>),
     SetPenLocation |-> Op("SET_PEN_LOCATION", Point), SetTransform |-> Op("SET_TRANSFORM", Transform),
     ClearClipping |-> Op("CLEAR_CLIPPING_RECTS", Object(<<>>)),
     ClipToPicture |-> Op("CLIP_TO_PICTURE",
            Object(<< <<"token", <<Integer>>>>, <<"where", Point>>, <<"inverse", <<Bool>>>> >>)),
     ClipToRect |-> Op("CLIP_TO_RECT", Object(<< <<"inverse", <<Bool>>>>, <<"rect", Rect>> >>)),
     SetFontFamily |-> Op("SET_FONT_FAMILY", <<Str("text")>>), SetFontStyle |-> Op("SET_FONT_STYLE", <<Str("text")>>),
     SetFontSize |-> Op("SET_FONT_SIZE", <<Real>>), SetFontRotation |-> Op("SET_FONT_ROTATE", <<Real>>),
     SetFontShear |-> Op("SET_FONT_SHEAR", <<Real>>), SetFontBpp |-> Op("SET_FONT_BPP", <<Integer>>),
     SetFontFalseBoldWidth |-> Op("SET_FONT_FALSE_BOLD_WIDTH", <<Real>>),
     TranslateBy |-> Op("AFFINE_TRANSLATE", Point), ScaleBy |-> Op("AFFINE_SCALE", Point),
     RotateBy |-> Op("AFFINE_ROTATE", <<Real>>),
     DrawPicture |-> Op("DRAW_PICTURE", Object(<< <<"where", Point>>, <<"token", <<Integer>>>> >>)),
     BlendLayer |-> Op("BLEND_LAYER", Object(<<>>))]

\* The text of the plain call m whose i-th token is of a number that is not finite.
NotFinite(m) == {i \in DOMAIN Plain[m] : Plain[m][i] = Real}
WrittenLost(m, i) == [Plain[m] EXCEPT ![i] = Lost]

DrawingModes == {"B_OP_COPY", "B_OP_OVER", "B_OP_ERASE", "B_OP_INVERT", "B_OP_ADD", "B_OP_SUBTRACT",
                 "B_OP_BLEND", "B_OP_MIN", "B_OP_MAX", "B_OP_SELECT", "B_OP_ALPHA"}
Caps == {"B_ROUND_CAP", "B_BUTT_CAP", "B_SQUARE_CAP"}
Joins == {"B_ROUND_JOIN", "B_MITER_JOIN", "B_BEVEL_JOIN", "B_BUTT_JOIN", "B_SQUARE_JOIN"}
Patterns == {"B_SOLID_HIGH", "B_SOLID_LOW", "B_MIXED_COLORS"}
SourceAlphas == {"B_PIXEL_ALPHA", "B_CONSTANT_ALPHA"}
AlphaFunctions == {"B_ALPHA_OVERLAY", "B_ALPHA_COMPOSITE", "B_ALPHA_COMPOSITE_SOURCE_IN",
    "B_ALPHA_COMPOSITE_SOURCE_OUT", "B_ALPHA_COMPOSITE_SOURCE_ATOP", "B_ALPHA_COMPOSITE_DESTINATION_OVER",
    "B_ALPHA_COMPOSITE_DESTINATION_IN", "B_ALPHA_COMPOSITE_DESTINATION_OUT",
    "B_ALPHA_COMPOSITE_DESTINATION_ATOP", "B_ALPHA_COMPOSITE_XOR", "B_ALPHA_COMPOSITE_CLEAR",
    "B_ALPHA_COMPOSITE_DIFFERENCE", "B_ALPHA_COMPOSITE_LIGHTEN", "B_ALPHA_COMPOSITE_DARKEN"}
FillRules == {"B_EVEN_ODD", "B_NONZERO"}
Spacings == {"B_CHAR_SPACING", "B_STRING_SPACING", "B_BITMAP_SPACING", "B_FIXED_SPACING"}
Encodings == {"B_UNICODE_UTF8", "B_ISO_8859_1", "B_ISO_8859_2", "B_ISO_8859_3", "B_ISO_8859_4",
    "B_ISO_8859_5", "B_ISO_8859_6", "B_ISO_8859_7", "B_ISO_8859_8", "B_ISO_8859_9", "B_ISO_8859_10",
    "B_MACINTOSH_ROMAN"}
FontFlags == <<"B_DISABLE_ANTIALIASING", "B_FORCE_ANTIALIASING">>
FontFaces == <<"B_ITALIC_FACE", "B_UNDERSCORE_FACE", "B_NEGATIVE_FACE", "B_OUTLINED_FACE", "B_STRIKEOUT_FACE",
    "B_BOLD_FACE", "B_REGULAR_FACE", "B_CONDENSED_FACE", "B_LIGHT_FACE", "B_HEAVY_FACE">>

\* Sets of bits, one of them without a name, two at most at a time.
Bits(names) == {s \in SUBSET (ToSet(names) \cup {Unknown}) : Cardinality(s) <= 2}

Or(names) == names \cup {Unknown}
Arguments ==
    [SetDrawingMode |-> Or(DrawingModes), SetLineMode |-> Or(Caps) \X Or(Joins), SetPattern |-> Or(Patterns),
     SetBlendingMode |-> Or(SourceAlphas) \X Or(AlphaFunctions), SetFillRule |-> Or(FillRules),
     SetFontSpacing |-> Or(Spacings), SetFontEncoding |-> Or(Encodings), SetFontFlags |-> Bits(FontFlags),
     SetFontFace |-> Bits(FontFaces), SetClipping |-> 0..MaxLen, ClipToShape |-> Shapes,
     DrawString |-> BOOLEAN, DrawStringLocations |-> 0..MaxLen, DrawBitmap |-> 0..MaxLen]

\* SetFontFlags, SetFontFace: a name or the number of each bit, the lowest
\* first; the ones without a name are the high ones.
WrittenBits(bits, names) ==
    LET set == SelectSeq(Append(names, Unknown), LAMBDA b : b \in bits)
    IN  Array([i \in DOMAIN set |-> Enum(set[i], ToSet(names))])

\* The text of method m called with the argument a.
WrittenOther(m, a) ==
    CASE m = "SetDrawingMode" -> Op("SET_DRAWING_MODE", Enum(a, DrawingModes))
      [] m = "SetLineMode" -> Op("SET_LINE_MODE", Object(<< <<"capMode", Enum(a[1], Caps)>>,
                <<"joinMode", Enum(a[2], Joins)>>, <<"miterLimit", <<Real>>>> >>))
      [] m = "SetPattern" -> Op("SET_STIPLE_PATTERN", IF a \in Patterns THEN <<Str(a)>> ELSE Times(8, <<Integer>>))
      [] m = "SetBlendingMode" -> Op("SET_BLENDING_MODE",
                Object(<< <<"srcAlpha", Enum(a[1], SourceAlphas)>>, <<"alphaFunc", Enum(a[2], AlphaFunctions)>> >>))
      [] m = "SetFillRule" -> Op("SET_FILL_RULE", Enum(a, FillRules))
      [] m = "SetFontSpacing" -> Op("SET_FONT_SPACING", Enum(a, Spacings))
      [] m = "SetFontEncoding" -> Op("SET_FONT_ENCODING", Enum(a, Encodings))
      [] m = "SetFontFlags" -> Op("SET_FONT_FLAGS", WrittenBits(a, FontFlags))
      [] m = "SetFontFace" -> Op("SET_FONT_FACE", WrittenBits(a, FontFaces))
      [] m = "SetClipping" -> Op("SET_CLIPPING_RECTS", Times(a, Rect))
      [] m = "ClipToShape" -> Op("CLIP_TO_SHAPE", Object(<< <<"inverse", <<Bool>>>>, <<"shape", Shape(a)>> >>))
      [] m = "DrawString" -> Op("DRAW_STRING", Object(<< <<"string", <<Str("text")>>>> >>   \* a: the delta is not zero
                \o IF a THEN << <<"delta", Reals(<<"nonspace", "space">>)>> >> ELSE <<>>))
      [] m = "DrawStringLocations" -> Op("DRAW_STRING_LOCATIONS",
                Object(<< <<"locations", Times(a, Point)>>, <<"string", <<Str("text")>>>> >>))
      [] m = "DrawBitmap" -> Op("DRAW_PIXELS", Object(<< <<"sourceRect", Rect>>, <<"destinationRect", Rect>>,
                <<"width", <<Integer>>>>, <<"height", <<Integer>>>>, <<"bytesPerRow", <<Integer>>>>, <<"colorSpace", <<Integer>>>>,
                <<"flags", <<Integer>>>>, <<"data", Times(a, <<Integer>>)>> >>))
=============================================================================
