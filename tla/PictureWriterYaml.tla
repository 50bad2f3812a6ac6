------------------------- MODULE PictureWriterYaml -------------------------
(***************************************************************************)
(* PictureWriterYaml.cpp: what each call sends to the YAML::Emitter.  An   *)
(* event is BeginMap, EndMap, BeginSeq, EndSeq, a Key with its name, or a  *)
(* scalar: a number, a text, the name of an enumerator, or Binary.         *)
(***************************************************************************)
EXTENDS PictureFields, SequencesExt, TLC

BeginMap == <<"BeginMap">>
EndMap == <<"EndMap">>
BeginSeq == <<"BeginSeq">>
EndSeq == <<"EndSeq">>
Key(name) == <<"Key", name>>
Scalar == <<"scalar">>
Values(n, value) == FlattenSeq([i \in 1..n |-> value])

Mapping(fields) == <<BeginMap>> \o FlattenSeq([i \in DOMAIN fields |-> <<Key(fields[i][1])>> \o fields[i][2]]) \o <<EndMap>>
Listing(n, value) == <<BeginSeq>> \o Values(n, value) \o <<EndSeq>>
Scalars(names) == Mapping([i \in DOMAIN names |-> <<names[i], <<Scalar>>>>])

WritePoint == Scalars(<<"x", "y">>)
WriteRect == Scalars(<<"left", "top", "right", "bottom">>)
WriteTransform == Scalars(<<"tx", "ty", "sx", "sy", "shy", "shx">>)

\* A shape that is not empty has n of each of the elements.
ShapeIterator(n) ==
    Mapping(<< <<"MoveTo", WritePoint>> >>)
    \o Mapping(<< <<"LineTo", Listing(n, WritePoint)>> >>)
    \o Mapping(<< <<"BezierTo", Listing(3 * n, WritePoint)>> >>)
    \o Mapping(<< <<"ArcTo", Mapping([i \in 1..6 |->
            <<<<"rx", "ry", "angle", "largeArc", "ccw", "point">>[i], IF i = 6 THEN WritePoint ELSE <<Scalar>>>>])>> >>)
    \o Mapping(<< <<"Close", Mapping(<<>>)>> >>)
WriteShape(n) == Listing(1, IF n = 0 THEN <<>> ELSE ShapeIterator(n))

WriteGradient(g, n) ==
    LET name == <<"BGradientLinear", "BGradientRadial", "BGradientRadialFocus", "BGradientDiamond", "BGradientConic">>[g]
        center == << <<"center", WritePoint>> >>
        points == CASE g = 1 -> << <<"start", WritePoint>>, <<"end", WritePoint>> >>
                    [] g = 2 -> center \o << <<"radius", <<Scalar>>>> >>
                    [] g = 3 -> center \o << <<"focus", WritePoint>>, <<"radius", <<Scalar>>>> >>
                    [] g = 4 -> center
                    [] g = 5 -> center \o << <<"angle", <<Scalar>>>> >>
    IN  Mapping(<< <<name, Mapping(<< <<"stops", Listing(n, Scalars(<<"color", "offset">>))>> >> \o points)>> >>)

(***************************************************************************)
(* Figures.                                                                *)
(***************************************************************************)
FigureFields(c) ==
    CASE c.m = "DrawLine" -> << <<"start", WritePoint>>, <<"end", WritePoint>> >>
      [] c.m \in {"DrawRect", "DrawEllipse"} -> << <<"rect", WriteRect>> >>
      [] c.m = "DrawRoundRect" -> << <<"rect", WriteRect>>, <<"radius", WritePoint>> >>
      [] c.m = "DrawBezier" -> << <<"points", Listing(4, WritePoint)>> >>
      [] c.m = "DrawPolygon" -> << <<"points", Listing(c.n, WritePoint)>> >> \o (IF c.stroke THEN << <<"isClosed", <<Scalar>>>> >> ELSE <<>>)
      [] c.m = "DrawShape" -> << <<"shape", WriteShape(c.n)>> >>
      [] c.m = "DrawArc" -> << <<"center", WritePoint>>, <<"radius", WritePoint>>, <<"startTheta", <<Scalar>>>>, <<"arcTheta", <<Scalar>>>> >>

\* A figure that is all of its operation is not wrapped in a map.
Alone(c) == c.gradient = 0 /\ (c.m \in {"DrawRect", "DrawEllipse", "DrawBezier", "DrawShape"} \/ (c.m = "DrawPolygon" /\ ~c.stroke))

WriteFigure(c) ==
    IF Alone(c) THEN FigureFields(c)[1][2]
    ELSE Mapping(FigureFields(c) \o IF c.gradient = 0 THEN <<>> ELSE << <<"gradient", WriteGradient(c.gradient, c.n)>> >>)

(***************************************************************************)
(* The value of every other operation.                                     *)
(***************************************************************************)
PointOps == {"SetOrigin", "SetPenLocation", "MovePenBy", "TranslateBy", "ScaleBy"}

WriteState(c) ==
    CASE c.m = "SetLineMode" -> Scalars(<<"capMode", "joinMode", "miterLimit">>)
      [] c.m = "SetBlendingMode" -> Scalars(<<"srcAlpha", "alphaFunc">>)
      [] c.m = "SetTransform" -> WriteTransform
      [] c.m \in PointOps -> WritePoint
      [] OTHER -> <<Scalar>>   \* SetDrawingMode, SetPenSize, SetPattern, SetFontSize, ...

WriteClipping(c) ==
    CASE c.m = "SetClipping" -> Listing(c.n, WriteRect)
      [] c.m = "ClearClipping" -> Mapping(<<>>)
      [] c.m = "ClipToPicture" -> Mapping(<< <<"token", <<Scalar>>>>, <<"where", WritePoint>>, <<"inverse", <<Scalar>>>> >>)
      [] c.m = "ClipToRect" -> Mapping(<< <<"inverse", <<Scalar>>>>, <<"rect", WriteRect>> >>)
      [] c.m = "ClipToShape" -> Mapping(<< <<"inverse", <<Scalar>>>>, <<"shape", WriteShape(c.n)>> >>)

\* A text may come with its escapement; some of the bits of DrawBitmap are set.
WriteDrawing(c) ==
    CASE c.m = "DrawString" -> Mapping(<< <<"string", <<Scalar>>>>, <<"delta", Scalars(<<"nonspace", "space">>)>> >>)
      [] c.m = "DrawStringAt" -> Mapping(<< <<"locations", Listing(c.n, WritePoint)>>, <<"string", <<Scalar>>>> >>)
      [] c.m = "DrawBitmap" -> Mapping(<< <<"sourceRect", WriteRect>>, <<"destinationRect", WriteRect>>, <<"width", <<Scalar>>>>,
                <<"height", <<Scalar>>>>, <<"bytesPerRow", <<Scalar>>>>, <<"colorSpace", <<Scalar>>>>,
                <<"flags", Listing(c.n, <<Scalar>>)>>, <<"data", <<Scalar>>>> >>)
      [] c.m = "DrawPicture" -> Mapping(<< <<"where", WritePoint>>, <<"token", <<Scalar>>>> >>)
      [] c.m = "BlendLayer" -> Mapping(<<>>)

Value(c) ==
    CASE c.m \in DOMAIN Figures -> WriteFigure(c)
      [] c.m \in {"SetClipping", "ClearClipping", "ClipToPicture", "ClipToRect", "ClipToShape"} -> WriteClipping(c)
      [] c.m \in {"SetFontFlags", "SetFontFace"} -> Listing(2, <<Scalar>>)
      [] c.m \in {"DrawString", "DrawStringAt", "DrawBitmap", "DrawPicture", "BlendLayer"} -> WriteDrawing(c)
      [] OTHER -> WriteState(c)

(***************************************************************************)
(* The calls that open and close lists.                                    *)
(***************************************************************************)
ListNames == [EnterPictures |-> "pictures", EnterOps |-> "ops", EnterStateChange |-> "ENTER_STATE_CHANGE",
              EnterFontState |-> "ENTER_FONT_STATE", PushState |-> "GROUP"]

WriteCall(c) ==
    CASE c.m = "EnterPicture" -> <<BeginMap, Key("version"), Scalar, Key("endian"), Scalar>>
      [] c.m = "ExitPicture" -> <<EndMap>>
      [] c.m \in {"EnterPictures", "EnterOps"} -> <<Key(ListNames[c.m]), BeginSeq>>
      [] c.m \in {"ExitPictures", "ExitOps"} -> <<EndSeq>>
      [] c.m \in {"EnterStateChange", "EnterFontState", "PushState"} -> <<BeginMap, Key(ListNames[c.m]), BeginSeq>>
      [] c.m \in {"ExitStateChange", "ExitFontState", "PopState"} -> <<EndSeq, EndMap>>
      [] OTHER -> Mapping(<< <<Opcode(c), Value(c)>> >>)

(***************************************************************************)
(* YAML::Emitter: the collections it is in, innermost last.  A map has a   *)
(* name that waits for its value, or none.                                 *)
(***************************************************************************)
InMap(name) == [kind |-> "map", name |-> name]
InSeq(name) == [kind |-> "seq", name |-> name]
NoName == "none"

Emit(e, event) ==
    LET nest == e.nest
        top == IF nest = <<>> THEN InSeq(NoName) ELSE Last(nest)
        value == (nest = <<>> /\ ~e.done) \/ (nest # <<>> /\ (top.kind = "seq" \/ top.name # NoName))   \* a value may come
        named == IF nest # <<>> /\ top.kind = "map" THEN Append(Front(nest), InMap(NoName)) ELSE nest
        ended == [e EXCEPT !.nest = Front(nest), !.done = Len(nest) = 1]
        refused == [e EXCEPT !.good = FALSE]
    IN  CASE ~e.good -> e
          [] event = BeginMap /\ value -> [e EXCEPT !.nest = Append(named, InMap(NoName))]
          [] event = BeginSeq /\ value -> [e EXCEPT !.nest = Append(named, InSeq(top.name))]
          [] event = Scalar /\ value -> [e EXCEPT !.nest = named]
          [] event[1] = "Key" /\ nest # <<>> /\ top = InMap(NoName) -> [e EXCEPT !.nest = Append(Front(nest), InMap(event[2]))]
          [] event = EndMap /\ nest # <<>> /\ top = InMap(NoName) -> ended
          [] event = EndSeq /\ nest # <<>> /\ top.kind = "seq" -> ended
          [] OTHER -> refused

NewEmitter == [good |-> TRUE, nest |-> <<>>, done |-> FALSE]

\* The emitter e after these calls.
Emitted(e, calls) == FoldLeft(Emit, e, FlattenSeq([i \in DOMAIN calls |-> WriteCall(calls[i])]))
=============================================================================
