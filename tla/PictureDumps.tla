---------------------------- MODULE PictureDumps ----------------------------
(***************************************************************************)
(* The two older programs that read a binary picture: PictureDumpJson      *)
(* (PictureDump.cpp there) writes JSON with a rapidjson::Writer as it      *)
(* reads, PictureDump (PictureDump.cpp there) prints indented lines.  Each *)
(* has a table of its own of what follows an operation code; both walk     *)
(* through the file as PictureReaderBinary does.                           *)
(*                                                                         *)
(* What is read is a sequence of tokens: a type is a number that is read   *)
(* and written as a value, a type with a tilde one that is read and not    *)
(* written, "color" four bytes that are read as one int32; "value" is      *)
(* written without being read, and the rest is JSON.                       *)
(***************************************************************************)
EXTENDS PictureWriterYaml   \* rapidjson::Writer accepts and refuses what a YAML::Emitter does

Hidden == ("~int8" :> "int8") @@ ("~int32" :> "int32") @@ ("~float" :> "float")
Reads(token) ==
    CASE token \in Types -> <<token>>
      [] token \in DOMAIN Hidden -> <<Hidden[token]>>
      [] token = "color" -> Color
      [] OTHER -> <<>>
ReadTypes(tokens) == FlattenSeq([i \in DOMAIN tokens |-> Reads(tokens[i])])

Obj(values) == <<"{">> \o FlattenSeq([i \in DOMAIN values |-> <<"key">> \o values[i]]) \o <<"}">>
Arr(values) == <<"[">> \o FlattenSeq(values) \o <<"]">>
Times(n, value) == [i \in 1..n |-> value]

(***************************************************************************)
(* PictureDumpJson                                                         *)
(***************************************************************************)
DumpPoint == Obj(<<F, F>>)
DumpRect == Obj(<<F, F, F, F>>)
DumpPattern == Arr(Times(8, B))   \* or its name
DumpTransform == Obj(Times(6, D))

Mute == <<"value">>
MutePoint == Obj(<<Mute, Mute>>)
ShapeElements ==   \* of a word with every bit
    Obj(<<MutePoint>>) \o Obj(<<MutePoint>>) \o Obj(<<Arr(Times(3, MutePoint))>>)
    \o Obj(<<Arr(<<MutePoint, Mute, Mute, Mute, MutePoint>>)>>) \o Obj(<<Obj(<<>>)>>)
DumpShape(f, p) ==
    <<"~int32", "~int32">> \o Times(At32(f, p), "~int32") \o Times(2 * At32(f, p + 1), "~float")
    \o Arr(Times(At32(f, p), ShapeElements))

\* Unlike the other readers it takes a gradient of any type.
DumpGradient(f, p) ==
    LET type == At32(f, p)
        points == CASE type = 1 -> <<DumpPoint, DumpPoint>>
                    [] type \in {2, 5} -> <<DumpPoint, F>>
                    [] type = 3 -> <<DumpPoint, DumpPoint, F>>
                    [] type = 4 -> <<DumpPoint>>
                    [] OTHER -> <<>>
        stops == <<"~int32">> \o Arr(Times(At32(f, p + 1), Arr(<<<<"color">>, F>>)))
    IN  Obj(<<I, stops>> \o points)

DumpString(f, p) == <<"~int32">> \o Times(At32(f, p), "~int8") \o Mute

\* Mutant: the count is taken and not stepped over.
DumpPointsBare(f, p) == Arr(Times(At32(f, p), DumpPoint))

DumpPoints(f, p) == <<"~int32">> \o Arr(Times(At32(f, p), DumpPoint))

FigureValues(f, p, m, stroke) ==
    CASE m = "DrawLine" -> <<DumpPoint, DumpPoint>>
      [] m \in {"DrawRect", "DrawEllipse"} -> <<DumpRect>>
      [] m = "DrawRoundRect" -> <<DumpRect, DumpPoint>>
      [] m = "DrawBezier" -> <<Arr(Times(4, DumpPoint))>>
      [] m = "DrawPolygon" -> <<DumpPoints(f, p)>> \o IF stroke THEN <<B>> ELSE <<>>
      [] m = "DrawShape" -> <<DumpShape(f, p)>>
      [] m = "DrawArc" -> <<DumpPoint, DumpPoint, F, F>>

\* Without a gradient what has one value is not wrapped in an object.
DumpFigureJson(f, p, op) ==
    LET m == CHOOSE m \in DOMAIN Figures : \E k \in 1..4 : Figures[m][k] = op
        values == FigureValues(f, p, m, op \in {Figures[m][1], Figures[m][3]})
    IN  CASE op \in {Figures[m][3], Figures[m][4]} -> Obj(Append(values, DumpGradient(f, p + Len(ReadTypes(FlattenSeq(values))))))
          [] Len(values) = 1 -> values[1]
          [] OTHER -> Obj(values)

Bits == <<"~int32">> \o Arr(Times(2, Mute))   \* two of them are set
DumpPlain == [
    MOVE_PEN_BY |-> DumpPoint, DRAW_PICTURE |-> Obj(<<DumpPoint, I>>), CLIP_TO_PICTURE |-> Obj(<<I, DumpPoint, B>>),
    CLEAR_CLIPPING_RECTS |-> Obj(<<>>), CLIP_TO_RECT |-> Obj(<<B, DumpRect>>), SET_ORIGIN |-> DumpPoint, SET_PEN_LOCATION |-> DumpPoint,
    SET_DRAWING_MODE |-> H, SET_LINE_MODE |-> Obj(<<H, H, F>>), SET_PEN_SIZE |-> F, SET_SCALE |-> F,
    SET_FORE_COLOR |-> <<"color">>, SET_BACK_COLOR |-> <<"color">>, SET_STIPLE_PATTERN |-> DumpPattern, SET_BLENDING_MODE |-> Obj(<<H, H>>)]

DumpFont == [
    SET_FILL_RULE |-> I, SET_FONT_SPACING |-> I, SET_FONT_ENCODING |-> I, SET_FONT_FLAGS |-> Bits, SET_FONT_SIZE |-> F,
    SET_FONT_ROTATE |-> F, SET_FONT_SHEAR |-> F, SET_FONT_BPP |-> I, SET_FONT_FACE |-> Bits, SET_TRANSFORM |-> DumpTransform,
    AFFINE_TRANSLATE |-> Obj(<<D, D>>), AFFINE_SCALE |-> Obj(<<D, D>>), AFFINE_ROTATE |-> D, BLEND_LAYER |-> Obj(<<>>)]

\* DumpOp of PictureDumpJson: op has this size and its data begin at p.
JsonOp(f, p, op, size) ==
    CASE op \in FigureOps \ {"STROKE_LINE_GRADIENT"} -> DumpFigureJson(f, p, op)
      [] op \in DOMAIN DumpPlain -> DumpPlain[op]
      [] op \in DOMAIN DumpFont -> DumpFont[op]
      [] op = "DRAW_STRING" -> Obj(<<DumpString(f, p), F, F>>)
      [] op = "DRAW_STRING_LOCATIONS" ->
           Obj(<<DumpPoints(f, p), DumpString(f, p + 1 + 2 * At32(f, p))>>)
      [] op = "DRAW_PIXELS" -> Obj(<<DumpRect, DumpRect, I, I, I, I, I, Arr(Times(size - 13, B))>>)
      [] op = "SET_CLIPPING_RECTS" -> <<"~int32">> \o Arr(Times(At32(f, p), DumpRect))
      [] op = "CLIP_TO_SHAPE" -> Obj(<<B, DumpShape(f, p + 1)>>)
      [] op \in {"SET_FONT_FAMILY", "SET_FONT_STYLE"} -> DumpString(f, p)
      [] OTHER -> Mute   \* UNKNOWN, with the code

(***************************************************************************)
(* What the values of a call are, where there are several: the parameters  *)
(* in the order in which PictureWriterBinary writes them, and the keys     *)
(* under which PictureDumpJson puts what it reads, in its order            *)
(* (PictureDump prints the same words).  Last the ends of each gradient.   *)
(* The wording is left out: capMode is the cap, escapementSpace the space. *)
(***************************************************************************)
Parameters == [
    DrawLine |-> <<"start", "end">>, DrawRoundRect |-> <<"rect", "radius">>, DrawPolygon |-> <<"points", "isClosed">>,
    DrawArc |-> <<"center", "radius", "startTheta", "arcTheta">>, DrawPicture |-> <<"where", "token">>,
    DrawString |-> <<"string", "nonspace", "space">>, DrawStringAt |-> <<"locations", "string">>,
    DrawBitmap |-> <<"srcRect", "dstRect", "width", "height", "bytesPerRow", "colorSpace", "flags", "length", "data">>,
    ClipToPicture |-> <<"token", "origin", "inverse">>, ClipToRect |-> <<"inverse", "rect">>, ClipToShape |-> <<"inverse", "shape">>,
    SetLineMode |-> <<"cap", "join", "miterLimit">>, SetBlendingMode |-> <<"srcAlpha", "alphaFunc">>,
    TranslateBy |-> <<"x", "y">>, ScaleBy |-> <<"x", "y">>]
EndParameters == <<<<"start", "end">>, <<"center", "radius">>, <<"center", "focus", "radius">>, <<"center">>, <<"center", "angle">>>>

Labels == [
    DrawLine |-> <<"start", "end">>, DrawRoundRect |-> <<"rect", "radius">>, DrawPolygon |-> <<"points", "isClosed">>,
    DrawArc |-> <<"center", "radius", "startTheta", "arcTheta">>, DrawPicture |-> <<"where", "token">>,
    DrawString |-> <<"string", "space", "nonspace">>, DrawStringAt |-> <<"locations", "string">>,
    DrawBitmap |-> <<"srcRect", "dstRect", "width", "height", "bytesPerRow", "colorSpace", "flags", "data">>,
    ClipToPicture |-> <<"token", "origin", "inverse">>, ClipToRect |-> <<"inverse", "rect">>, ClipToShape |-> <<"inverse", "shape">>,
    SetLineMode |-> <<"cap", "join", "miterLimit">>, SetBlendingMode |-> <<"srcAlpha", "alphaFunc">>,
    TranslateBy |-> <<"x", "y">>, ScaleBy |-> <<"x", "y">>]
EndLabels == <<<<"start", "end">>, <<"center", "radius">>, <<"center", "focus", "radius">>, <<"center">>, <<"center", "angle">>>>

NamedRight(c) ==
    /\ c.m \in DOMAIN Parameters => Labels[c.m] = Parameters[c.m]
    /\ c.gradient # 0 => EndLabels[c.gradient] = EndParameters[c.gradient]

Event(token) ==
    CASE token = "{" -> <<BeginMap>>
      [] token = "}" -> <<EndMap>>
      [] token = "[" -> <<BeginSeq>>
      [] token = "]" -> <<EndSeq>>
      [] token = "key" -> <<Key("field")>>
      [] token \in Types \cup {"color", "value"} -> <<Scalar>>
      [] OTHER -> <<>>
Events(tokens) == FlattenSeq([i \in DOMAIN tokens |-> Event(tokens[i])])
WriteOp(f, p, op, size) == Events(<<"{", "key">> \o JsonOp(f, p, op, size) \o <<"}">>)

\* Mutant: POP_STATE ends the array and not the object around it.
WriteVisitOpen(c) ==
    CASE c.m = "EnterPicture" -> Events(<<"{", "key", "value", "key", "value">>)
      [] c.m \in {"EnterPictures", "EnterOps"} -> Events(<<"key", "[">>)
      [] c.m \in {"ExitPictures", "ExitOps", "PopState"} -> Events(<<"]">>)
      [] c.m = "ExitPicture" -> Events(<<"}">>)
      [] c.m \in {"EnterStateChange", "EnterFontState", "PushState"} -> Events(<<"{", "key", "[">>)
      [] c.m \in {"ExitStateChange", "ExitFontState"} -> Events(<<"]", "}">>)

\* DumpPictureFile and DumpOps, where PictureReaderBinary makes the call c.
WriteVisit(c) ==
    CASE c.m = "EnterPicture" -> Events(<<"{", "key", "value", "key", "value">>)
      [] c.m \in {"EnterPictures", "EnterOps"} -> Events(<<"key", "[">>)
      [] c.m \in {"ExitPictures", "ExitOps"} -> Events(<<"]">>)
      [] c.m = "ExitPicture" -> Events(<<"}">>)
      [] c.m \in {"EnterStateChange", "EnterFontState", "PushState"} -> Events(<<"{", "key", "[">>)
      [] c.m \in {"ExitStateChange", "ExitFontState", "PopState"} -> Events(<<"]", "}">>)

NewWriter == NewEmitter
Written(writer, events) == FoldLeft(Emit, writer, events)

(***************************************************************************)
(* PictureDump                                                             *)
(***************************************************************************)
ShapeTypes(f, p) == ReadTypes(DumpShape(f, p))
GradientTypes(f, p) == ReadTypes(DumpGradient(f, p))

TextPlain == [
    MOVE_PEN_BY |-> Point, STROKE_LINE |-> Point \o Point, STROKE_RECT |-> Rect, FILL_RECT |-> Rect,
    STROKE_ROUND_RECT |-> Rect \o Point, FILL_ROUND_RECT |-> Rect \o Point, STROKE_ELLIPSE |-> Rect, FILL_ELLIPSE |-> Rect,
    DRAW_PIXELS |-> Rect \o Rect \o Many("int32", 5), DRAW_PICTURE |-> Point \o I]

TextState == [
    CLIP_TO_PICTURE |-> I \o Point \o B, CLIP_TO_RECT |-> B \o Rect, SET_ORIGIN |-> Point, SET_PEN_LOCATION |-> Point,
    SET_DRAWING_MODE |-> H, SET_LINE_MODE |-> H \o H \o F, SET_PEN_SIZE |-> F, SET_SCALE |-> F, SET_FORE_COLOR |-> Color,
    SET_BACK_COLOR |-> Color, SET_STIPLE_PATTERN |-> Many("int8", 8), SET_FILL_RULE |-> I]

TextFont == [
    SET_FONT_SPACING |-> I, SET_FONT_ENCODING |-> I, SET_FONT_FLAGS |-> I, SET_FONT_SIZE |-> F, SET_FONT_ROTATE |-> F,
    SET_FONT_SHEAR |-> F, SET_FONT_FACE |-> I, SET_TRANSFORM |-> Many("double", 6), AFFINE_TRANSLATE |-> D \o D,
    AFFINE_SCALE |-> D \o D, AFFINE_ROTATE |-> D]

\* What its DumpOp reads; texts are taken to be what is left of the operation.
TextOp(f, p, op, size) ==
    LET Rest(types) == types \o Many("int8", size - Len(types))
    IN  CASE op \in DOMAIN TextPlain -> TextPlain[op]
          [] op \in DOMAIN TextState -> TextState[op]
          [] op \in DOMAIN TextFont -> TextFont[op]
          [] op \in {"STROKE_SHAPE", "FILL_SHAPE"} -> ShapeTypes(f, p)
          [] op = "DRAW_STRING" -> Rest(F \o F)
          [] op = "DRAW_STRING_LOCATIONS" -> Rest(I \o Many("float", 2 * At32(f, p)))
          [] op = "FILL_RECT_GRADIENT" -> Rect \o GradientTypes(f, p + 4)
          [] op \in {"STROKE_SHAPE_GRADIENT", "FILL_SHAPE_GRADIENT"} ->
               LET shape == ShapeTypes(f, p) IN shape \o GradientTypes(f, p + Len(shape))
          [] op = "SET_CLIPPING_RECTS" -> I \o Many("float", 4 * At32(f, p))
          [] op = "CLIP_TO_SHAPE" -> B \o ShapeTypes(f, p + 1)
          [] op \in {"SET_FONT_FAMILY", "SET_FONT_STYLE"} -> Rest(<<>>)
          [] OTHER -> <<>>   \* only its name is printed
=============================================================================
