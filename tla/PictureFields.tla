--------------------------- MODULE PictureFields ---------------------------
(***************************************************************************)
(* The binary picture format, operation by operation: what                 *)
(* PictureWriterBinary writes for a call, and what DumpOp of               *)
(* PictureReaderBinary reads after an operation code.  A file is a         *)
(* sequence of cells, one for each number, with the type the number was    *)
(* written as; a structure is its members.  Of the values only codes,      *)
(* sizes and counts are kept.                                              *)
(***************************************************************************)
EXTENDS Naturals, Sequences

Types == {"int8", "int16", "int32", "float", "double"}
Cells == [t : Types, v : Nat, op : STRING]
Cell(t, v) == [t |-> t, v |-> v, op |-> "none"]
Int32(v) == Cell("int32", v)
Code(op) == [t |-> "int16", v |-> 0, op |-> op]

B == <<"int8">>
H == <<"int16">>
I == <<"int32">>
F == <<"float">>
D == <<"double">>
Many(t, k) == [i \in 1..k |-> t]
Color == Many("int8", 4)
Point == Many("float", 2)
Rect == Many("float", 4)

\* Numbers of these types.
Data(types) == [i \in 1..Len(types) |-> Cell(types[i], 0)]

\* A call: its name, the length of its lists and texts, whether a figure is
\* stroked, and the type of its gradient.
Call(m) == [m |-> m, n |-> 0, stroke |-> FALSE, gradient |-> 0]
Listed(m, n) == [m |-> m, n |-> n, stroke |-> FALSE, gradient |-> 0]

Gradients == 1..5                     \* linear, radial, with focus, diamond, conic; 0: none
Ends == <<2 * 2, 2 + 1, 2 * 2 + 1, 2, 2 + 1>>   \* the floats of its points, radius and angle

\* B_PIC_STROKE_RECT and so on: stroked, filled, and the same with a gradient.
Figures == [
    DrawLine |-> <<"STROKE_LINE", "STROKE_LINE", "STROKE_LINE_GRADIENT", "STROKE_LINE_GRADIENT">>,
    DrawRect |-> <<"STROKE_RECT", "FILL_RECT", "STROKE_RECT_GRADIENT", "FILL_RECT_GRADIENT">>,
    DrawRoundRect |-> <<"STROKE_ROUND_RECT", "FILL_ROUND_RECT", "STROKE_ROUND_RECT_GRADIENT", "FILL_ROUND_RECT_GRADIENT">>,
    DrawBezier |-> <<"STROKE_BEZIER", "FILL_BEZIER", "STROKE_BEZIER_GRADIENT", "FILL_BEZIER_GRADIENT">>,
    DrawPolygon |-> <<"STROKE_POLYGON", "FILL_POLYGON", "STROKE_POLYGON_GRADIENT", "FILL_POLYGON_GRADIENT">>,
    DrawShape |-> <<"STROKE_SHAPE", "FILL_SHAPE", "STROKE_SHAPE_GRADIENT", "FILL_SHAPE_GRADIENT">>,
    DrawArc |-> <<"STROKE_ARC", "FILL_ARC", "STROKE_ARC_GRADIENT", "FILL_ARC_GRADIENT">>,
    DrawEllipse |-> <<"STROKE_ELLIPSE", "FILL_ELLIPSE", "STROKE_ELLIPSE_GRADIENT", "FILL_ELLIPSE_GRADIENT">>]

(***************************************************************************)
(* The writer: the code and the data of a call.                            *)
(***************************************************************************)
WrittenPlain == [
    PushState |-> <<"PUSH_STATE", <<>>>>, PopState |-> <<"POP_STATE", <<>>>>,
    SetDrawingMode |-> <<"SET_DRAWING_MODE", H>>, SetLineMode |-> <<"SET_LINE_MODE", H \o H \o F>>,
    SetPenSize |-> <<"SET_PEN_SIZE", F>>, SetHighColor |-> <<"SET_FORE_COLOR", Color>>, SetLowColor |-> <<"SET_BACK_COLOR", Color>>,
    SetPattern |-> <<"SET_STIPLE_PATTERN", Many("int8", 8)>>, SetBlendingMode |-> <<"SET_BLENDING_MODE", H \o H>>,
    SetFillRule |-> <<"SET_FILL_RULE", I>>, SetOrigin |-> <<"SET_ORIGIN", Point>>, SetScale |-> <<"SET_SCALE", F>>,
    SetPenLocation |-> <<"SET_PEN_LOCATION", Point>>, SetTransform |-> <<"SET_TRANSFORM", Many("double", 6)>>,
    ClearClipping |-> <<"CLEAR_CLIPPING_RECTS", <<>>>>, ClipToPicture |-> <<"CLIP_TO_PICTURE", I \o Point \o B>>,
    ClipToRect |-> <<"CLIP_TO_RECT", B \o Rect>>, SetFontSpacing |-> <<"SET_FONT_SPACING", I>>, SetFontSize |-> <<"SET_FONT_SIZE", F>>,
    SetFontRotation |-> <<"SET_FONT_ROTATE", F>>, SetFontEncoding |-> <<"SET_FONT_ENCODING", I>>, SetFontFlags |-> <<"SET_FONT_FLAGS", I>>,
    SetFontShear |-> <<"SET_FONT_SHEAR", F>>, SetFontBpp |-> <<"SET_FONT_BPP", I>>, SetFontFace |-> <<"SET_FONT_FACE", I>>,
    SetFontFalseBoldWidth |-> <<"SET_FONT_FALSE_BOLD_WIDTH", F>>, MovePenBy |-> <<"MOVE_PEN_BY", F \o F>>,
    TranslateBy |-> <<"AFFINE_TRANSLATE", D \o D>>, ScaleBy |-> <<"AFFINE_SCALE", D \o D>>, RotateBy |-> <<"AFFINE_ROTATE", D>>,
    DrawPicture |-> <<"DRAW_PICTURE", Point \o I>>]

WrittenCounted == [
    SetClipping |-> "SET_CLIPPING_RECTS", ClipToShape |-> "CLIP_TO_SHAPE", SetFontFamily |-> "SET_FONT_FAMILY", SetFontStyle |-> "SET_FONT_STYLE",
    DrawString |-> "DRAW_STRING", DrawStringAt |-> "DRAW_STRING_LOCATIONS", DrawBitmap |-> "DRAW_PIXELS"]

Text(n) == <<Int32(n)>> \o Data(Many("int8", n))

\* Mutant: points are written with the size of a float.
ShapeHalf(n) == <<Int32(n), Int32(n)>> \o Data(Many("int32", n) \o Many("float", n))

Shape(n) == <<Int32(n), Int32(n)>> \o Data(Many("int32", n) \o Many("float", 2 * n))
\* A stop is a colour and an offset.
Stops(n) == <<Int32(n)>> \o Data([i \in 1..(5 * n) |-> IF i % 5 = 0 THEN "float" ELSE "int8"])
Gradient(g, n) == IF g = 0 THEN <<>> ELSE <<Int32(g)>> \o Stops(n) \o Data(Many("float", Ends[g]))

Figure(c) ==
    CASE c.m \in {"DrawLine", "DrawRect", "DrawEllipse"} -> Data(Rect)   \* or two points
      [] c.m \in {"DrawRoundRect", "DrawArc"} -> Data(Many("float", 6))
      [] c.m = "DrawBezier" -> Data(Many("float", 4 * 2))
      [] c.m = "DrawPolygon" -> <<Int32(c.n)>> \o Data(Many("float", 2 * c.n) \o (IF c.stroke THEN B ELSE <<>>))
      [] c.m = "DrawShape" -> Shape(c.n)

Payload(c) ==
    CASE c.m \in DOMAIN Figures -> Figure(c) \o Gradient(c.gradient, c.n)
      [] c.m \in DOMAIN WrittenPlain -> Data(WrittenPlain[c.m][2])
      [] c.m = "SetClipping" -> Data(Many("int32", 4 * (c.n + 1)))      \* the frame first
      [] c.m = "ClipToShape" -> Data(B) \o Shape(c.n)
      [] c.m \in {"SetFontFamily", "SetFontStyle"} -> Text(c.n + 1)      \* with the zero at its end
      [] c.m = "DrawString" -> Text(c.n) \o Data(F \o F)
      [] c.m = "DrawStringAt" -> <<Int32(c.n)>> \o Data(Many("float", 2 * c.n)) \o Text(c.n)
      [] c.m = "DrawBitmap" -> Data(Rect \o Rect \o Many("int32", 5)) \o <<Int32(c.n)>> \o Data(Many("int8", c.n))

Opcode(c) ==
    CASE c.m \in DOMAIN Figures -> Figures[c.m][(IF c.stroke THEN 1 ELSE 2) + (IF c.gradient = 0 THEN 0 ELSE 2)]
      [] c.m \in DOMAIN WrittenPlain -> WrittenPlain[c.m][1]
      [] c.m \in DOMAIN WrittenCounted -> WrittenCounted[c.m]

\* The calls that are one operation, with lists of at most this length; a line
\* is stroked, and what has no list has no length.  Bound: every gradient with
\* a rectangle, one with each other figure.
Operations(longest) ==
    {c \in [m : DOMAIN Figures, n : 0..longest, stroke : BOOLEAN, gradient : {0} \cup Gradients] :
        (c.m = "DrawLine" => c.stroke) /\ (c.m = "DrawRect" \/ c.gradient <= 1) /\ (c.n = 0 \/ c.gradient # 0 \/ c.m \in {"DrawPolygon", "DrawShape"})} \cup
    [m : DOMAIN WrittenPlain, n : {0}, stroke : {FALSE}, gradient : {0}] \cup
    [m : DOMAIN WrittenCounted, n : 0..longest, stroke : {FALSE}, gradient : {0}]

(***************************************************************************)
(* The reader: the call it makes for an operation, and the types it reads. *)
(***************************************************************************)
HeardPlain == [
    MOVE_PEN_BY |-> <<"MovePenBy", F \o F>>, DRAW_PICTURE |-> <<"DrawPicture", Point \o I>>,
    CLIP_TO_PICTURE |-> <<"ClipToPicture", I \o Point \o B>>, PUSH_STATE |-> <<"PushState", <<>>>>, POP_STATE |-> <<"PopState", <<>>>>,
    CLEAR_CLIPPING_RECTS |-> <<"ClearClipping", <<>>>>, CLIP_TO_RECT |-> <<"ClipToRect", B \o Rect>>,
    SET_ORIGIN |-> <<"SetOrigin", Point>>, SET_PEN_LOCATION |-> <<"SetPenLocation", Point>>, SET_DRAWING_MODE |-> <<"SetDrawingMode", H>>,
    SET_LINE_MODE |-> <<"SetLineMode", H \o H \o F>>, SET_PEN_SIZE |-> <<"SetPenSize", F>>, SET_SCALE |-> <<"SetScale", F>>,
    SET_FORE_COLOR |-> <<"SetHighColor", B \o B \o B \o B>>, SET_BACK_COLOR |-> <<"SetLowColor", B \o B \o B \o B>>,
    SET_STIPLE_PATTERN |-> <<"SetPattern", Many("int8", 8)>>, SET_BLENDING_MODE |-> <<"SetBlendingMode", H \o H>>,
    SET_FILL_RULE |-> <<"SetFillRule", I>>, SET_FONT_SPACING |-> <<"SetFontSpacing", I>>, SET_FONT_ENCODING |-> <<"SetFontEncoding", I>>,
    SET_FONT_FLAGS |-> <<"SetFontFlags", I>>, SET_FONT_SIZE |-> <<"SetFontSize", F>>, SET_FONT_ROTATE |-> <<"SetFontRotation", F>>,
    SET_FONT_SHEAR |-> <<"SetFontShear", F>>, SET_FONT_BPP |-> <<"SetFontBpp", I>>, SET_FONT_FACE |-> <<"SetFontFace", I>>,
    SET_FONT_FALSE_BOLD_WIDTH |-> <<"SetFontFalseBoldWidth", F>>, SET_TRANSFORM |-> <<"SetTransform", Many("double", 6)>>,
    AFFINE_TRANSLATE |-> <<"TranslateBy", D \o D>>, AFFINE_SCALE |-> <<"ScaleBy", D \o D>>, AFFINE_ROTATE |-> <<"RotateBy", D>>,
    BLEND_LAYER |-> <<"BlendLayer", <<>>>>]

\* What Read32 finds in file f at position p, counted from zero; behind the end
\* it leaves what was there.
At32(f, p) == IF p < Len(f) THEN f[p + 1].v ELSE 0

ShapeRead(f, p) == I \o I \o Many("int32", At32(f, p)) \o Many("float", 2 * At32(f, p + 1))
TextRead(f, p) == I \o Many("int8", At32(f, p))

GradientRead(f, p) ==
    LET type == At32(f, p)
        stops == [i \in 1..(5 * At32(f, p + 1)) |-> IF i % 5 = 0 THEN "float" ELSE "int8"]
        points == CASE type = 1 -> Point \o Point
                    [] type \in {2, 5} -> Point \o F
                    [] type = 3 -> Point \o Point \o F
                    [] type = 4 -> Point
                    [] OTHER -> <<"refused">>   \* throws
    IN  I \o I \o stops \o points

FigureRead(f, p, m, stroke) ==
    CASE m = "DrawLine" -> Point \o Point
      [] m \in {"DrawRect", "DrawEllipse"} -> Rect
      [] m = "DrawRoundRect" -> Rect \o Point
      [] m = "DrawBezier" -> Many("float", 8)
      [] m = "DrawPolygon" -> I \o Many("float", 2 * At32(f, p)) \o (IF stroke THEN B ELSE <<>>)
      [] m = "DrawShape" -> ShapeRead(f, p)
      [] m = "DrawArc" -> Point \o Point \o F \o F

\* The call, and the types of what was read for it.
DumpFigure(f, p, op) ==
    LET m == CHOOSE m \in DOMAIN Figures : \E k \in 1..4 : Figures[m][k] = op
        stroke == op \in {Figures[m][1], Figures[m][3]}
        figure == FigureRead(f, p, m, stroke)
        behind == p + Len(figure)
        drawn(n, gradient) == [m |-> m, n |-> n, stroke |-> stroke, gradient |-> gradient]
    IN  IF op \in {Figures[m][3], Figures[m][4]}
        THEN <<drawn(At32(f, behind + 1), At32(f, behind)), figure \o GradientRead(f, behind)>>
        ELSE <<drawn(IF m \in {"DrawPolygon", "DrawShape"} THEN At32(f, p) ELSE 0, 0), figure>>

DumpCounted(f, p, op, size) ==
    CASE op = "SET_CLIPPING_RECTS" ->   \* BRegion::Include ignores the frame of an empty region
           LET rects == size \div 4
           IN  <<Listed("SetClipping", IF rects >= 2 THEN rects - 1 ELSE 0), Many("int32", 4 * rects)>>
      [] op = "CLIP_TO_SHAPE" -> <<Listed("ClipToShape", At32(f, p + 1)), B \o ShapeRead(f, p + 1)>>
      [] op \in {"SET_FONT_FAMILY", "SET_FONT_STYLE"} ->
           <<Listed(IF op = "SET_FONT_FAMILY" THEN "SetFontFamily" ELSE "SetFontStyle", At32(f, p) - 1), TextRead(f, p)>>
      [] op = "DRAW_STRING" -> <<Listed("DrawString", At32(f, p)), TextRead(f, p) \o F \o F>>
      [] op = "DRAW_STRING_LOCATIONS" ->
           LET points == I \o Many("float", 2 * At32(f, p))
           IN  <<Listed("DrawStringAt", At32(f, p)), points \o TextRead(f, p + Len(points))>>
      [] op = "DRAW_PIXELS" -> <<Listed("DrawBitmap", At32(f, p + 13)), Rect \o Rect \o Many("int32", 6) \o Many("int8", At32(f, p + 13))>>

CountedOps == {"SET_CLIPPING_RECTS", "CLIP_TO_SHAPE", "SET_FONT_FAMILY", "SET_FONT_STYLE", "DRAW_STRING", "DRAW_STRING_LOCATIONS", "DRAW_PIXELS"}
FigureOps == UNION {{Figures[m][k] : k \in 1..4} : m \in DOMAIN Figures}

KnownOps == FigureOps \cup DOMAIN HeardPlain \cup CountedOps

\* DumpOp, for an operation it knows.
Dump(f, p, op, size) ==
    CASE op \in FigureOps -> DumpFigure(f, p, op)
      [] op \in DOMAIN HeardPlain -> <<Call(HeardPlain[op][1]), HeardPlain[op][2]>>
      [] op \in CountedOps -> DumpCounted(f, p, op, size)

\* Each number was written as the type it is read as.
Agrees(f, p, types) == \A i \in 1..Len(types) : p + i <= Len(f) /\ f[p + i].t = types[i]
=============================================================================
