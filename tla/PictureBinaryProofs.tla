------------------------ MODULE PictureBinaryProofs ------------------------
(***************************************************************************)
(* Proofs about module PictureBinary, for pictures of any length and depth *)
(* and lists of any length.                                                *)
(*                                                                         *)
(* The writer: its two stacks are the caller's nesting, and a place of the *)
(* file is settled, as it will be, or pending, yet to be patched.  A call  *)
(* writes over no settled place.  The reader follows behind.               *)
(***************************************************************************)
EXTENDS PictureBinary, SequenceTheorems, WellFoundedInduction, TLAPS

Structure == {"EnterPicture", "ExitPicture", "EnterPictures", "ExitPictures", "EnterOps", "ExitOps"} \cup Enter \cup {Exit(m) : m \in Enter}
Calls == Flat \cup States \cup {Call(m) : m \in Structure}
Opcodes == {"none"} \cup {Opcode(c) : c \in Flat \cup States} \cup {EnterCode(m) : m \in Enter}
FileCells == [t : Types, v : Nat, op : Opcodes]
Infos == [pos : Nat, pictCnt : Nat, opsPos : Nat, pictures : BOOLEAN, ops : BOOLEAN]
OpenPictures == [at : Nat, stage : {"new", "pictures", "pictured", "ops", "drawn"}, inside : Nat, opsAt : Nat]
OpenBlocks == [m : Enter, at : Nat]

WriterTypes ==
    /\ file \in Seq(FileCells)
    /\ fPictureStack \in Seq(Infos) /\ fChunkStack \in Seq(Nat)
    /\ pictures \in Seq(OpenPictures) /\ blocks \in Seq(OpenBlocks)
    /\ told \in Seq(Calls) /\ fields \subseteq [at : Nat, value : Nat]
    /\ told = <<>> => pictures = <<>> /\ file = <<>>

\* What the writer remembers of a picture is what its caller knows of it.
Matches(info, p) ==
    /\ info.pos = p.at /\ info.pictCnt = p.inside
    /\ info.pictures = (p.stage # "new")
    /\ info.ops = (p.stage \in {"ops", "drawn"})
    /\ info.ops => info.opsPos = p.opsAt

StacksInv ==
    /\ Len(fPictureStack) = Len(pictures)
    /\ \A i \in 1..Len(pictures) : Matches(fPictureStack[i], pictures[i])
    /\ Len(fChunkStack) = Len(blocks)
    /\ \A i \in 1..Len(blocks) : fChunkStack[i] = blocks[i].at

\* The places of an open picture in a file: its count, and then its operations.
Placed(f, p) ==
    /\ p.stage = "new" => p.at + 2 = Len(f) /\ p.inside = 0
    /\ p.stage # "new" => p.at + 3 <= Len(f)
    /\ p.stage \in {"pictured", "ops", "drawn"} => f[p.at + 3] = Int32(p.inside)
    /\ p.stage = "ops" => p.at + 4 <= p.opsAt /\ p.opsAt <= Len(f)

PicturesInv ==
    /\ \A i \in 1..Len(pictures) : Placed(file, pictures[i])
    /\ \A i, j \in 1..Len(pictures) : i < j => pictures[i].stage = "pictures" /\ pictures[i].at + 3 <= pictures[j].at
    /\ \A i \in 1..(Len(pictures) - 1) : pictures[i].inside > 0

BlocksInv ==
    /\ blocks # <<>> => pictures # <<>> /\ pictures[Len(pictures)].stage = "ops"
    /\ \A i \in 1..Len(blocks) : pictures[Len(pictures)].opsAt <= blocks[i].at /\ blocks[i].at + 2 <= Len(file)
    /\ \A i, j \in 1..Len(blocks) : i < j => blocks[i].at + 2 <= blocks[j].at

\* A place in the file that has yet to be patched, and one that is as it will be.
Pending(q) ==
    \/ \E k \in 1..Len(pictures) : q = pictures[k].at + 2 \/ (pictures[k].stage = "ops" /\ q = pictures[k].opsAt - 1)
    \/ \E k \in 1..Len(blocks) : q = blocks[k].at + 1
Settled(q) == q \in Nat /\ q < Len(file) /\ ~Pending(q)

FieldsInv == \A f \in fields : Settled(f.at) /\ file[f.at + 1] = Int32(f.value)

WriterInv == WriterTypes /\ StacksInv /\ PicturesInv /\ BlocksInv /\ FieldsInv

\* What is settled stays so.
Steady == \A q : Settled(q) => Settled(q)' /\ file'[q + 1] = file[q + 1]

(***************************************************************************)
(* The operations on sequences that the writer uses.                       *)
(***************************************************************************)
LEMMA AppendFacts ==
  ASSUME NEW S, NEW s \in Seq(S), NEW e \in S
  PROVE  /\ Append(s, e) \in Seq(S)
         /\ Len(s) \in Nat /\ Len(Append(s, e)) = Len(s) + 1
         /\ \A i \in 1..Len(s) : Append(s, e)[i] = s[i]
         /\ Append(s, e)[Len(s) + 1] = e
         /\ Append(s, e) # <<>>
OBVIOUS

LEMMA FrontFacts ==
  ASSUME NEW S, NEW s \in Seq(S), s # <<>>
  PROVE  /\ Front(s) \in Seq(S)
         /\ Len(Front(s)) = Len(s) - 1
         /\ \A i \in 1..(Len(s) - 1) : Front(s)[i] = s[i]
         /\ Len(s) \in Nat \ {0}
         /\ Last(s) = s[Len(s)] /\ Last(s) \in S
<1>1. Len(s) \in Nat \ {0} /\ s[Len(s)] \in S
  BY EmptySeq, ElementOfSeq
<1> DEFINE n == Len(s) - 1
<1>2. n \in Nat /\ n \in Int /\ 1 \in Int /\ n = Len(s) - 1 /\ n - 1 + 1 = n /\ \A i \in 1..n : s[i] \in S
  BY <1>1, ElementOfSeq
<1> HIDE DEF n
<1>3. /\ SubSeq(s, 1, n) \in Seq(S)
      /\ Len(SubSeq(s, 1, n)) = IF 1 <= n THEN n - 1 + 1 ELSE 0
      /\ \A i \in 1..(n - 1 + 1) : SubSeq(s, 1, n)[i] = s[1 + i - 1]
  BY <1>2, SubSeqProperties
<1>4. /\ Len(SubSeq(s, 1, n)) = n
      /\ \A i \in 1..n : SubSeq(s, 1, n)[i] = s[i]
  BY <1>2, <1>3
<1> QED  BY <1>1, <1>2, <1>3, <1>4 DEF Front, Last

\* The last element of a sequence is replaced.
LEMMA ExceptLast ==
  ASSUME NEW S, NEW s \in Seq(S), s # <<>>, NEW e \in S
  PROVE  /\ [s EXCEPT ![Len(s)] = e] \in Seq(S)
         /\ Len([s EXCEPT ![Len(s)] = e]) = Len(s)
         /\ \A i \in 1..(Len(s) - 1) : [s EXCEPT ![Len(s)] = e][i] = s[i]
         /\ [s EXCEPT ![Len(s)] = e][Len(s)] = e
         /\ Len(s) \in Nat \ {0}
<1>1. Len(s) \in Nat \ {0}
  BY EmptySeq
<1>2. Len(s) \in 1..Len(s)
  BY <1>1
<1> QED  BY <1>1, <1>2, ExceptSeq

\* The file grows at its end.
LEMMA GrowFacts ==
  ASSUME NEW S, NEW f \in Seq(S), NEW g \in Seq(S)
  PROVE  /\ f \o g \in Seq(S)
         /\ Len(f) \in Nat /\ Len(g) \in Nat
         /\ Len(f \o g) = Len(f) + Len(g)
         /\ \A q \in 1..Len(f) : (f \o g)[q] = f[q]
         /\ \A q \in 1..Len(g) : (f \o g)[Len(f) + q] = g[q]
OBVIOUS

\* Places in the file, compared.
LEMMA Apart ==
  /\ \A x, y, z \in Nat : x + 3 <= y /\ y <= z => z + 1 # x + 2
  /\ \A x, z \in Nat : x + 4 <= z => x + 3 \in 1..(z - 1)
OBVIOUS

\* A number, a code.
LEMMA CellFacts ==
  /\ \A v \in Nat : Int32(v) \in FileCells /\ Int32(v).v = v
  /\ \A op \in Opcodes : Code(op) \in FileCells /\ Code(op).op = op
BY DEF Int32, Cell, Code, FileCells, Types, Opcodes

\* A field of the file is overwritten.
LEMMA PatchFacts ==
  ASSUME NEW f \in Seq(FileCells), NEW p \in Nat, p < Len(f), NEW v \in Nat
  PROVE  /\ Patch(f, p, v) \in Seq(FileCells)
         /\ Len(Patch(f, p, v)) = Len(f)
         /\ \A q \in 1..Len(f) : q # p + 1 => Patch(f, p, v)[q] = f[q]
         /\ Patch(f, p, v)[p + 1] = Int32(v)
<1>1. p + 1 \in 1..Len(f) /\ Int32(v) \in FileCells
  BY CellFacts
<1> QED  BY <1>1, ExceptSeq DEF Patch

\* A whole chunk: its code, the length of its data, its data.
Chunk(f, op, g) == Ended(Begun(f, op) \o g, Len(f))

LEMMA ChunkFacts ==
  ASSUME NEW f \in Seq(FileCells), NEW op \in Opcodes, NEW g \in Seq(FileCells)
  PROVE  /\ Chunk(f, op, g) \in Seq(FileCells)
         /\ Len(f) \in Nat /\ Len(g) \in Nat /\ Len(Chunk(f, op, g)) = Len(f) + 2 + Len(g)
         /\ \A q \in 1..Len(f) : Chunk(f, op, g)[q] = f[q]
         /\ Chunk(f, op, g)[Len(f) + 1] = Code(op) /\ Chunk(f, op, g)[Len(f) + 2] = Int32(Len(g))
         /\ \A q \in 1..Len(g) : Chunk(f, op, g)[Len(f) + 2 + q] = g[q]
<1> DEFINE d == Chunk(f, op, g)
<1> DEFINE b == Begun(f, op)
<1> DEFINE w == b \o g
<1>1. <<Code(op), Int32(0)>> \in Seq(FileCells) /\ Len(<<Code(op), Int32(0)>>) = 2
  BY CellFacts
<1>2. /\ b \in Seq(FileCells) /\ Len(b) = Len(f) + 2
      /\ \A q \in 1..Len(f) : b[q] = f[q]
      /\ b[Len(f) + 1] = Code(op)
  BY <1>1, GrowFacts DEF Begun
<1> HIDE DEF b
<1>3. /\ w \in Seq(FileCells) /\ Len(w) = Len(b) + Len(g) /\ Len(g) \in Nat /\ Len(f) \in Nat
      /\ \A q \in 1..Len(b) : w[q] = b[q]
      /\ \A q \in 1..Len(g) : w[Len(b) + q] = g[q]
  <2>1. b \in Seq(FileCells) /\ Len(f) \in Nat
    BY <1>2
  <2> QED  BY <2>1, GrowFacts
<1> HIDE DEF w
<1> DEFINE p == Len(f) + 1
<1>4. p \in Nat /\ p < Len(w) /\ p + 1 = Len(f) + 2 /\ Len(w) - Len(f) - 2 = Len(g)
  BY <1>2, <1>3
<1>5. d = Patch(w, p, Len(g))
  BY <1>4 DEF Ended, w, b, Chunk
<1>6. /\ d \in Seq(FileCells) /\ Len(d) = Len(w)
      /\ \A q \in 1..Len(w) : q # p + 1 => d[q] = w[q]
      /\ d[p + 1] = Int32(Len(g))
  <2> HIDE DEF d
  <2>1. w \in Seq(FileCells) /\ p \in Nat /\ p < Len(w) /\ Len(g) \in Nat
    BY <1>3, <1>4
  <2> HIDE DEF p
  <2>2. /\ Patch(w, p, Len(g)) \in Seq(FileCells) /\ Len(Patch(w, p, Len(g))) = Len(w)
        /\ \A q \in 1..Len(w) : q # p + 1 => Patch(w, p, Len(g))[q] = w[q]
        /\ Patch(w, p, Len(g))[p + 1] = Int32(Len(g))
    BY <2>1, PatchFacts
  <2> QED  BY <2>2, <1>5
<1> HIDE DEF p, d
<1>7. ASSUME NEW q \in 1..Len(f)  PROVE d[q] = f[q]
  BY <1>2, <1>3, <1>4, <1>6
<1>8. ASSUME NEW q \in 1..Len(g)  PROVE d[Len(f) + 2 + q] = g[q]
  BY <1>2, <1>3, <1>4, <1>6
<1>9. d[Len(f) + 1] = Code(op)
  BY <1>2, <1>3, <1>4, <1>6
<1> QED  BY <1>2, <1>3, <1>4, <1>6, <1>7, <1>8, <1>9 DEF d

(***************************************************************************)
(* What the writer writes for a call is cells.                             *)
(***************************************************************************)
LEMMA ManyFacts ==
  ASSUME NEW t \in Types, NEW k \in Nat
  PROVE  Many(t, k) \in Seq(Types) /\ Len(Many(t, k)) = k /\ \A i \in 1..k : Many(t, k)[i] = t
BY DEF Many

LEMMA DataFacts ==
  ASSUME NEW types \in Seq(Types)
  PROVE  /\ Data(types) \in Seq(FileCells)
         /\ Len(Data(types)) = Len(types)
         /\ \A i \in 1..Len(types) : Data(types)[i] = Cell(types[i], 0)
<1>1. \A i \in 1..Len(types) : Cell(types[i], 0) \in FileCells
  BY DEF Cell, FileCells, Opcodes
<1> QED  BY <1>1 DEF Data

LEMMA FewTypes ==
  /\ B \in Seq(Types) /\ H \in Seq(Types) /\ I \in Seq(Types) /\ F \in Seq(Types) /\ D \in Seq(Types)
  /\ Color \in Seq(Types) /\ Point \in Seq(Types) /\ Rect \in Seq(Types) /\ <<>> \in Seq(Types)
<1>1. B \in Seq(Types) /\ H \in Seq(Types) /\ I \in Seq(Types) /\ F \in Seq(Types) /\ D \in Seq(Types) /\ <<>> \in Seq(Types)
  BY DEF B, H, I, F, D, Types
<1>2. Color \in Seq(Types) /\ Point \in Seq(Types) /\ Rect \in Seq(Types)
  BY ManyFacts DEF Color, Point, Rect, Types
<1> QED  BY <1>1, <1>2

LEMMA JoinTypes ==
  ASSUME NEW S, NEW s \in Seq(S), NEW t \in Seq(S)
  PROVE  s \o t \in Seq(S)
OBVIOUS

FigureNames == {"DrawLine", "DrawRect", "DrawRoundRect", "DrawBezier", "DrawPolygon", "DrawShape", "DrawArc", "DrawEllipse"}
CountedNames == {"SetClipping", "ClipToShape", "SetFontFamily", "SetFontStyle", "DrawString", "DrawStringAt", "DrawBitmap"}
PlainNames == DOMAIN WrittenPlain
OpNames == FigureNames \cup CountedNames \cup PlainNames

LEMMA NameFacts ==
  /\ DOMAIN Figures = FigureNames /\ DOMAIN WrittenCounted = CountedNames
  /\ FigureNames \cap PlainNames = {} /\ CountedNames \cap (FigureNames \cup PlainNames) = {}
  /\ OpNames \cap Structure = {}
<1>1. DOMAIN Figures = FigureNames /\ DOMAIN WrittenCounted = CountedNames
  BY DEF Figures, WrittenCounted, FigureNames, CountedNames
<1>2. FigureNames \cap PlainNames = {} /\ CountedNames \cap (FigureNames \cup PlainNames) = {}
  BY DEF FigureNames, CountedNames, PlainNames, WrittenPlain
<1>3. OpNames \cap Structure = {}
  BY DEF OpNames, FigureNames, CountedNames, PlainNames, WrittenPlain, Structure, Enter, Exit
<1> QED  BY <1>1, <1>2, <1>3

\* The table of the operations without a count, row by row.
LEMMA PlainTable ==
  /\ PlainNames = {"PushState", "PopState", "SetDrawingMode", "SetLineMode", "SetPenSize", "SetHighColor", "SetLowColor", "SetPattern",
                    "SetBlendingMode", "SetFillRule", "SetOrigin", "SetScale", "SetPenLocation", "SetTransform",
                    "ClearClipping", "ClipToPicture", "ClipToRect", "SetFontSpacing", "SetFontSize",
                    "SetFontRotation", "SetFontEncoding", "SetFontFlags", "SetFontShear", "SetFontBpp",
                    "SetFontFace", "SetFontFalseBoldWidth", "MovePenBy", "TranslateBy", "ScaleBy", "RotateBy",
                    "DrawPicture"}
  /\ WrittenPlain["PushState"] = <<"PUSH_STATE", <<>>>>
  /\ WrittenPlain["PopState"] = <<"POP_STATE", <<>>>>
  /\ WrittenPlain["SetDrawingMode"] = <<"SET_DRAWING_MODE", H>>
  /\ WrittenPlain["SetLineMode"] = <<"SET_LINE_MODE", H \o H \o F>>
  /\ WrittenPlain["SetPenSize"] = <<"SET_PEN_SIZE", F>>
  /\ WrittenPlain["SetHighColor"] = <<"SET_FORE_COLOR", Color>>
  /\ WrittenPlain["SetLowColor"] = <<"SET_BACK_COLOR", Color>>
  /\ WrittenPlain["SetPattern"] = <<"SET_STIPLE_PATTERN", Many("int8", 8)>>
  /\ WrittenPlain["SetBlendingMode"] = <<"SET_BLENDING_MODE", H \o H>>
  /\ WrittenPlain["SetFillRule"] = <<"SET_FILL_RULE", I>>
  /\ WrittenPlain["SetOrigin"] = <<"SET_ORIGIN", Point>>
  /\ WrittenPlain["SetScale"] = <<"SET_SCALE", F>>
  /\ WrittenPlain["SetPenLocation"] = <<"SET_PEN_LOCATION", Point>>
  /\ WrittenPlain["SetTransform"] = <<"SET_TRANSFORM", Many("double", 6)>>
  /\ WrittenPlain["ClearClipping"] = <<"CLEAR_CLIPPING_RECTS", <<>>>>
  /\ WrittenPlain["ClipToPicture"] = <<"CLIP_TO_PICTURE", I \o Point \o B>>
  /\ WrittenPlain["ClipToRect"] = <<"CLIP_TO_RECT", B \o Rect>>
  /\ WrittenPlain["SetFontSpacing"] = <<"SET_FONT_SPACING", I>>
  /\ WrittenPlain["SetFontSize"] = <<"SET_FONT_SIZE", F>>
  /\ WrittenPlain["SetFontRotation"] = <<"SET_FONT_ROTATE", F>>
  /\ WrittenPlain["SetFontEncoding"] = <<"SET_FONT_ENCODING", I>>
  /\ WrittenPlain["SetFontFlags"] = <<"SET_FONT_FLAGS", I>>
  /\ WrittenPlain["SetFontShear"] = <<"SET_FONT_SHEAR", F>>
  /\ WrittenPlain["SetFontBpp"] = <<"SET_FONT_BPP", I>>
  /\ WrittenPlain["SetFontFace"] = <<"SET_FONT_FACE", I>>
  /\ WrittenPlain["SetFontFalseBoldWidth"] = <<"SET_FONT_FALSE_BOLD_WIDTH", F>>
  /\ WrittenPlain["MovePenBy"] = <<"MOVE_PEN_BY", F \o F>>
  /\ WrittenPlain["TranslateBy"] = <<"AFFINE_TRANSLATE", D \o D>>
  /\ WrittenPlain["ScaleBy"] = <<"AFFINE_SCALE", D \o D>>
  /\ WrittenPlain["RotateBy"] = <<"AFFINE_ROTATE", D>>
  /\ WrittenPlain["DrawPicture"] = <<"DRAW_PICTURE", Point \o I>>
BY DEF PlainNames, WrittenPlain

LEMMA PlainTypes ==
  ASSUME NEW m \in PlainNames
  PROVE  WrittenPlain[m][2] \in Seq(Types)
<1> DEFINE w == WrittenPlain[m][2]
<1>1. \/ w \in {<<>>, B, H, I, F, D, Color, Point}
      \/ w \in {H \o H \o F, H \o H, I \o Point \o B, B \o Rect, F \o F, D \o D, Point \o I, Many("int8", 8), Many("double", 6)}
  <2>1. CASE m \in {"PushState", "PopState", "ClearClipping"}
    <3>1. \E op : WrittenPlain[m] = <<op, <<>>>>
      BY <2>1, PlainTable
    <3> QED  BY <3>1
  <2>2. CASE m \in {"SetDrawingMode"}
    <3>1. \E op : WrittenPlain[m] = <<op, H>>
      BY <2>2, PlainTable
    <3> QED  BY <3>1
  <2>3. CASE m \in {"SetLineMode"}
    <3>1. \E op : WrittenPlain[m] = <<op, H \o H \o F>>
      BY <2>3, PlainTable
    <3> QED  BY <3>1
  <2>4. CASE m \in {"SetPenSize", "SetScale", "SetFontSize", "SetFontRotation", "SetFontShear", "SetFontFalseBoldWidth"}
    <3>1. \E op : WrittenPlain[m] = <<op, F>>
      BY <2>4, PlainTable
    <3> QED  BY <3>1
  <2>5. CASE m \in {"SetHighColor", "SetLowColor"}
    <3>1. \E op : WrittenPlain[m] = <<op, Color>>
      BY <2>5, PlainTable
    <3> QED  BY <3>1
  <2>6. CASE m \in {"SetPattern"}
    <3>1. \E op : WrittenPlain[m] = <<op, Many("int8", 8)>>
      BY <2>6, PlainTable
    <3> QED  BY <3>1
  <2>7. CASE m \in {"SetBlendingMode"}
    <3>1. \E op : WrittenPlain[m] = <<op, H \o H>>
      BY <2>7, PlainTable
    <3> QED  BY <3>1
  <2>8. CASE m \in {"SetFillRule", "SetFontSpacing", "SetFontEncoding", "SetFontFlags", "SetFontBpp", "SetFontFace"}
    <3>1. \E op : WrittenPlain[m] = <<op, I>>
      BY <2>8, PlainTable
    <3> QED  BY <3>1
  <2>9. CASE m \in {"SetOrigin", "SetPenLocation"}
    <3>1. \E op : WrittenPlain[m] = <<op, Point>>
      BY <2>9, PlainTable
    <3> QED  BY <3>1
  <2>10. CASE m \in {"SetTransform"}
    <3>1. \E op : WrittenPlain[m] = <<op, Many("double", 6)>>
      BY <2>10, PlainTable
    <3> QED  BY <3>1
  <2>11. CASE m \in {"ClipToPicture"}
    <3>1. \E op : WrittenPlain[m] = <<op, I \o Point \o B>>
      BY <2>11, PlainTable
    <3> QED  BY <3>1
  <2>12. CASE m \in {"ClipToRect"}
    <3>1. \E op : WrittenPlain[m] = <<op, B \o Rect>>
      BY <2>12, PlainTable
    <3> QED  BY <3>1
  <2>13. CASE m \in {"MovePenBy"}
    <3>1. \E op : WrittenPlain[m] = <<op, F \o F>>
      BY <2>13, PlainTable
    <3> QED  BY <3>1
  <2>14. CASE m \in {"TranslateBy", "ScaleBy"}
    <3>1. \E op : WrittenPlain[m] = <<op, D \o D>>
      BY <2>14, PlainTable
    <3> QED  BY <3>1
  <2>15. CASE m \in {"RotateBy"}
    <3>1. \E op : WrittenPlain[m] = <<op, D>>
      BY <2>15, PlainTable
    <3> QED  BY <3>1
  <2>16. CASE m \in {"DrawPicture"}
    <3>1. \E op : WrittenPlain[m] = <<op, Point \o I>>
      BY <2>16, PlainTable
    <3> QED  BY <3>1
  <2> HIDE DEF w
  <2> QED  BY PlainTable, <2>1, <2>2, <2>3, <2>4, <2>5, <2>6, <2>7, <2>8, <2>9, <2>10, <2>11, <2>12, <2>13, <2>14, <2>15, <2>16
<1>2. Many("int8", 8) \in Seq(Types) /\ Many("double", 6) \in Seq(Types)
  BY ManyFacts DEF Types
<1> HIDE DEF w
<1>3. CASE w \in {<<>>, B, H, I, F, D, Color, Point}
  BY <1>3, FewTypes DEF w
<1>4. CASE w \in {H \o H \o F, H \o H, I \o Point \o B, B \o Rect, F \o F, D \o D, Point \o I, Many("int8", 8), Many("double", 6)}
  <2>1. /\ H \o H \o F \in Seq(Types) /\ H \o H \in Seq(Types) /\ I \o Point \o B \in Seq(Types)
        /\ B \o Rect \in Seq(Types) /\ F \o F \in Seq(Types) /\ D \o D \in Seq(Types) /\ Point \o I \in Seq(Types)
    BY FewTypes, JoinTypes
  <2> QED  BY <1>4, <1>2, <2>1 DEF w
<1> QED  BY <1>1, <1>3, <1>4 DEF w

\* What is known of a call that is one operation.
LEMMA OperationFacts ==
  ASSUME NEW c \in Flat \cup States
  PROVE  /\ c.m \in OpNames /\ c.n \in Nat /\ c.stroke \in BOOLEAN /\ c.gradient \in {0} \cup Gradients
         /\ c = [m |-> c.m, n |-> c.n, stroke |-> c.stroke, gradient |-> c.gradient]
         /\ c.m \notin FigureNames => c.stroke = FALSE /\ c.gradient = 0
         /\ c.m \in PlainNames => c.n = 0
         /\ c.m = "DrawLine" => c.stroke
         /\ c.n = 0 \/ c.gradient # 0 \/ c.m \in {"DrawPolygon", "DrawShape"} \cup CountedNames
<1>1. CASE c \in States
  <2>1. c = Call(c.m) /\ c.m \in {"PushState", "PopState"}
    BY <1>1 DEF States, Call
  <2>2. /\ c.m \in PlainNames /\ c.m \notin FigureNames /\ c.m # "DrawLine"
        /\ c.n = 0 /\ c.n \in Nat /\ c.stroke = FALSE /\ c.stroke \in BOOLEAN /\ c.gradient = 0 /\ c.gradient \in {0} \cup Gradients
        /\ c = [m |-> c.m, n |-> c.n, stroke |-> c.stroke, gradient |-> c.gradient]
    <3>1. c.m \in PlainNames /\ c.m \notin FigureNames /\ c.m # "DrawLine"
      BY <2>1 DEF PlainNames, WrittenPlain, FigureNames
    <3>2. \A m : /\ Call(m).m = m /\ Call(m).n = 0 /\ Call(m).stroke = FALSE /\ Call(m).gradient = 0
                 /\ Call(m) = [m |-> m, n |-> 0, stroke |-> FALSE, gradient |-> 0]
      BY DEF Call
    <3>3. c.stroke = FALSE /\ c.stroke \in BOOLEAN
      BY <2>1, <3>2
    <3> QED  BY <2>1, <3>1, <3>2, <3>3
  <2> QED  BY <2>2 DEF OpNames
<1>2. CASE c \in Operations(MaxLen)
  <2>1. 0..MaxLen \subseteq Nat
    BY BoundsAssumption
  <2>2. CASE /\ c \in [m : DOMAIN Figures, n : 0..MaxLen, stroke : BOOLEAN, gradient : {0} \cup Gradients]
             /\ c.m = "DrawLine" => c.stroke
             /\ c.n = 0 \/ c.gradient # 0 \/ c.m \in {"DrawPolygon", "DrawShape"}
    BY <2>1, <2>2, NameFacts DEF OpNames
  <2>3. CASE c \in [m : DOMAIN WrittenPlain, n : {0}, stroke : {FALSE}, gradient : {0}]
    <3>1. c.m \in PlainNames /\ c.m \notin FigureNames /\ c.m # "DrawLine"
      BY <2>3, NameFacts DEF PlainNames, FigureNames
    <3>2. c.n = 0 /\ c.n \in Nat /\ c.gradient = 0 /\ c.gradient \in {0} \cup Gradients
      BY <2>3
    <3>3. c.stroke = FALSE /\ c.stroke \in BOOLEAN
      BY <2>3
    <3>4. c = [m |-> c.m, n |-> c.n, stroke |-> c.stroke, gradient |-> c.gradient]
      BY <2>3
    <3> QED  BY <3>1, <3>2, <3>3, <3>4 DEF OpNames
  <2>4. CASE c \in [m : DOMAIN WrittenCounted, n : 0..MaxLen, stroke : {FALSE}, gradient : {0}]
    <3>1. c.m \in CountedNames /\ c.m \notin FigureNames /\ c.m \notin PlainNames /\ c.m # "DrawLine"
      BY <2>4, NameFacts DEF FigureNames
    <3> QED  BY <2>1, <2>4, <3>1 DEF OpNames
  <2> QED  BY <1>2, <2>2, <2>3, <2>4 DEF Operations
<1> QED  BY <1>1, <1>2 DEF Flat

LEMMA Counts32 ==
  ASSUME NEW n \in Nat
  PROVE  <<Int32(n)>> \in Seq(FileCells) /\ <<Int32(n), Int32(n)>> \in Seq(FileCells)
BY CellFacts

LEMMA PartCells ==
  ASSUME NEW n \in Nat
  PROVE  /\ Text(n) \in Seq(FileCells) /\ Shape(n) \in Seq(FileCells) /\ Stops(n) \in Seq(FileCells)
         /\ \A g \in {0} \cup Gradients : Gradient(g, n) \in Seq(FileCells)
<1>1. Text(n) \in Seq(FileCells)
  BY ManyFacts, DataFacts, Counts32, JoinTypes DEF Text, Types
<1>2. Shape(n) \in Seq(FileCells)
  <2>1. Many("int32", n) \in Seq(Types) /\ Many("float", 2 * n) \in Seq(Types)
    BY ManyFacts DEF Types
  <2>2. Data(Many("int32", n) \o Many("float", 2 * n)) \in Seq(FileCells)
    BY <2>1, JoinTypes, DataFacts
  <2> QED  BY <2>2, Counts32, JoinTypes DEF Shape
<1>3. Stops(n) \in Seq(FileCells)
  <2>1. [i \in 1..(5 * n) |-> IF i % 5 = 0 THEN "float" ELSE "int8"] \in Seq(Types)
    BY DEF Types
  <2> QED  BY <2>1, DataFacts, Counts32, JoinTypes DEF Stops
<1>4. ASSUME NEW g \in {0} \cup Gradients
      PROVE  Gradient(g, n) \in Seq(FileCells)
  <2>1. CASE g = 0
    BY <2>1 DEF Gradient
  <2>2. CASE g # 0
    <3>1. g \in 1..5 /\ g \in Nat /\ Ends[g] \in Nat
      BY <2>2 DEF Gradients, Ends
    <3>2. Data(Many("float", Ends[g])) \in Seq(FileCells)
      BY <3>1, ManyFacts, DataFacts DEF Types
    <3> QED  BY <1>3, <2>2, <3>1, <3>2, Counts32, JoinTypes DEF Gradient
  <2> QED  BY <2>1, <2>2
<1> QED  BY <1>1, <1>2, <1>3, <1>4

LEMMA FigureCells ==
  ASSUME NEW c \in Flat \cup States, c.m \in FigureNames
  PROVE  Figure(c) \in Seq(FileCells)
<1>0. c.n \in Nat
  BY OperationFacts
<1>t. {"int8", "int32", "float"} \subseteq Types
  BY DEF Types
<1>2. CASE c.m \in {"DrawLine", "DrawRect", "DrawEllipse"}
  <2>1. Figure(c) = Data(Rect)
    BY <1>2 DEF Figure
  <2> QED  BY <2>1, FewTypes, DataFacts
<1>3. CASE c.m \in {"DrawRoundRect", "DrawArc"}
  <2>1. Figure(c) = Data(Many("float", 6))
    BY <1>3 DEF Figure
  <2> QED  BY <2>1, <1>t, ManyFacts, DataFacts
<1>4. CASE c.m = "DrawBezier"
  <2>1. Figure(c) = Data(Many("float", 4 * 2))
    BY <1>4 DEF Figure
  <2> QED  BY <2>1, <1>t, ManyFacts, DataFacts
<1>5. CASE c.m = "DrawPolygon"
  <2>1. Figure(c) = <<Int32(c.n)>> \o Data(Many("float", 2 * c.n) \o (IF c.stroke THEN B ELSE <<>>))
    BY <1>5 DEF Figure
  <2>2. Many("float", 2 * c.n) \o (IF c.stroke THEN B ELSE <<>>) \in Seq(Types)
    BY <1>0, <1>t, ManyFacts, FewTypes, JoinTypes
  <2> QED  BY <1>0, <2>1, <2>2, Counts32, DataFacts, JoinTypes
<1>6. CASE c.m = "DrawShape"
  <2>1. Figure(c) = Shape(c.n)
    BY <1>6 DEF Figure
  <2> QED  BY <1>0, <2>1, PartCells
<1> QED  BY <1>2, <1>3, <1>4, <1>5, <1>6 DEF FigureNames

LEMMA PayloadCells ==
  ASSUME NEW c \in Flat \cup States
  PROVE  Payload(c) \in Seq(FileCells)
<1>0. c.m \in OpNames /\ c.n \in Nat /\ c.gradient \in {0} \cup Gradients
  BY OperationFacts
<1>t. {"int8", "int32", "float"} \subseteq Types
  BY DEF Types
<1>1. CASE c.m \in FigureNames
  <2>1. Figure(c) \in Seq(FileCells)
    BY <1>1, FigureCells
  <2>2. Gradient(c.gradient, c.n) \in Seq(FileCells)
    BY <1>0, PartCells
  <2>3. Payload(c) = Figure(c) \o Gradient(c.gradient, c.n)
    <3>1. c.m \in DOMAIN Figures /\ c.m \notin DOMAIN WrittenPlain /\ c.m \notin CountedNames
      BY <1>1, NameFacts DEF PlainNames
    <3> QED  BY <3>1 DEF Payload, CountedNames
  <2> QED  BY <2>1, <2>2, <2>3, JoinTypes
<1>2. CASE c.m \in PlainNames
  <2>1. Payload(c) = Data(WrittenPlain[c.m][2])
    <3>1. c.m \notin DOMAIN Figures /\ c.m \in DOMAIN WrittenPlain /\ c.m \notin CountedNames
      BY <1>2, NameFacts DEF PlainNames
    <3> QED  BY <3>1 DEF Payload, CountedNames
  <2> QED  BY <1>2, <2>1, PlainTypes, DataFacts
<1>3. CASE c.m \in CountedNames
  <2>0. c.m \notin DOMAIN Figures /\ c.m \notin DOMAIN WrittenPlain
    BY <1>3, NameFacts DEF PlainNames
  <2>1. CASE c.m = "SetClipping"
    <3>1. Payload(c) = Data(Many("int32", 4 * (c.n + 1)))
      BY <2>0, <2>1 DEF Payload
    <3> QED  BY <1>0, <1>t, <3>1, ManyFacts, DataFacts
  <2>2. CASE c.m = "ClipToShape"
    <3>1. Payload(c) = Data(B) \o Shape(c.n)
      BY <2>0, <2>2 DEF Payload
    <3> QED  BY <1>0, <3>1, FewTypes, DataFacts, PartCells, JoinTypes
  <2>3. CASE c.m \in {"SetFontFamily", "SetFontStyle"}
    <3>1. Payload(c) = Text(c.n + 1)
      BY <2>0, <2>3 DEF Payload
    <3> QED  BY <1>0, <3>1, PartCells
  <2>4. CASE c.m = "DrawString"
    <3>1. Payload(c) = Text(c.n) \o Data(F \o F)
      BY <2>0, <2>4 DEF Payload
    <3> QED  BY <1>0, <3>1, FewTypes, DataFacts, PartCells, JoinTypes
  <2>5. CASE c.m = "DrawStringAt"
    <3>1. Payload(c) = <<Int32(c.n)>> \o Data(Many("float", 2 * c.n)) \o Text(c.n)
      BY <2>0, <2>5 DEF Payload
    <3>2. Data(Many("float", 2 * c.n)) \in Seq(FileCells)
      BY <1>0, <1>t, ManyFacts, DataFacts
    <3>3. <<Int32(c.n)>> \in Seq(FileCells) /\ Text(c.n) \in Seq(FileCells)
      BY <1>0, Counts32, PartCells
    <3>4. <<Int32(c.n)>> \o Data(Many("float", 2 * c.n)) \in Seq(FileCells)
      BY <3>2, <3>3, JoinTypes
    <3> QED  BY <3>1, <3>3, <3>4, JoinTypes
  <2>6. CASE c.m = "DrawBitmap"
    <3>1. Payload(c) = Data(Rect \o Rect \o Many("int32", 5)) \o <<Int32(c.n)>> \o Data(Many("int8", c.n))
      BY <2>0, <2>6 DEF Payload
    <3>2. Data(Many("int8", c.n)) \in Seq(FileCells)
      BY <1>0, <1>t, ManyFacts, DataFacts
    <3>3. Data(Rect \o Rect \o Many("int32", 5)) \in Seq(FileCells)
      <4>1. Rect \o Rect \o Many("int32", 5) \in Seq(Types)
        BY <1>t, ManyFacts, FewTypes, JoinTypes
      <4> QED  BY <4>1, DataFacts
    <3> QED  BY <1>0, <3>1, <3>2, <3>3, Counts32, JoinTypes
  <2> QED  BY <1>3, <2>1, <2>2, <2>3, <2>4, <2>5, <2>6 DEF CountedNames
<1> QED  BY <1>0, <1>1, <1>2, <1>3 DEF OpNames

(***************************************************************************)
(* The invariant of the writer: it holds at the start, and each call keeps *)
(* it and what is settled.                                                 *)
(***************************************************************************)
\* Where the caller is, and what the writer knows of it.
LEMMA CallerAt ==
  ASSUME WriterInv, NEW S, At(S)
  PROVE  /\ Len(pictures) \in Nat \ {0} /\ Len(fPictureStack) = Len(pictures)
         /\ pictures # <<>> /\ fPictureStack # <<>>
         /\ Picture = pictures[Len(pictures)] /\ Picture \in OpenPictures /\ Picture.stage \in S
         /\ Info = fPictureStack[Len(pictures)] /\ Info \in Infos
         /\ Matches(Info, Picture) /\ Placed(file, Picture)
         /\ \A i \in 1..(Len(pictures) - 1) :
               pictures[i] \in OpenPictures /\ pictures[i].stage = "pictures" /\ pictures[i].at + 3 <= Picture.at
<1>1. pictures \in Seq(OpenPictures) /\ fPictureStack \in Seq(Infos) /\ Len(fPictureStack) = Len(pictures) /\ pictures # <<>>
  BY DEF WriterInv, WriterTypes, StacksInv, At
<1>2. Len(pictures) \in Nat \ {0} /\ Picture = pictures[Len(pictures)] /\ Picture \in OpenPictures
  BY <1>1, FrontFacts DEF Picture
<1>3. fPictureStack # <<>>
  BY <1>1, <1>2
<1>4. Info = fPictureStack[Len(pictures)] /\ Info \in Infos
  BY <1>1, <1>3, FrontFacts DEF Info
<1>5. Len(pictures) \in 1..Len(pictures)
  BY <1>2
<1>6. Matches(Info, Picture) /\ Placed(file, Picture)
  BY <1>2, <1>4, <1>5 DEF WriterInv, StacksInv, PicturesInv
<1>7. ASSUME NEW i \in 1..(Len(pictures) - 1)
      PROVE  pictures[i] \in OpenPictures /\ pictures[i].stage = "pictures" /\ pictures[i].at + 3 <= Picture.at
  <2>1. i \in 1..Len(pictures) /\ i < Len(pictures)
    BY <1>2
  <2> QED  BY <2>1, <1>1, <1>2, <1>5, ElementOfSeq DEF WriterInv, PicturesInv
<1> QED  BY <1>1, <1>2, <1>3, <1>4, <1>6, <1>7 DEF At

\* No block is open but in a list of operations.
LEMMA NoBlocks ==
  ASSUME WriterInv, NEW S, At(S), "ops" \notin S
  PROVE  blocks = <<>>
<1>1. pictures[Len(pictures)].stage # "ops"
  BY CallerAt
<1> QED  BY <1>1 DEF WriterInv, BlocksInv

\* A call that changes only the innermost picture.
LEMMA TopChanged ==
  ASSUME WriterInv, pictures # <<>>, blocks = <<>>, blocks' = blocks, fChunkStack' = fChunkStack,
         NEW p \in OpenPictures, pictures' = [pictures EXCEPT ![Len(pictures)] = p], p.at = Picture.at,
         NEW i \in Infos, fPictureStack' = [fPictureStack EXCEPT ![Len(pictures)] = i], Matches(i, p),
         file' \in Seq(FileCells), Len(file') >= Len(file), Placed(file', p),
         \A q : Settled(q) => file'[q + 1] = file[q + 1],
         p.stage = "ops" => p.opsAt - 1 >= Len(file),
         told' \in Seq(Calls), told' # <<>>,
         fields' \subseteq [at : Nat, value : Nat],
         \A f \in fields' \ fields : Settled(f.at)' /\ file'[f.at + 1] = Int32(f.value)
  PROVE  WriterInv' /\ Steady
<1> DEFINE n == Len(pictures)
<1>1. /\ pictures \in Seq(OpenPictures) /\ fPictureStack \in Seq(Infos) /\ blocks \in Seq(OpenBlocks) /\ fChunkStack \in Seq(Nat)
      /\ file \in Seq(FileCells) /\ Len(fPictureStack) = n
  BY DEF WriterInv, WriterTypes, StacksInv
<1>2. n \in Nat \ {0} /\ n \in 1..n /\ fPictureStack # <<>> /\ Len(file) \in Nat /\ Len(file') \in Nat
  BY <1>1, EmptySeq
<1>3. At({Picture.stage})
  BY DEF At
<1>4. /\ pictures' \in Seq(OpenPictures) /\ Len(pictures') = n /\ pictures'[n] = p
      /\ \A k \in 1..(n - 1) : pictures'[k] = pictures[k]
  BY <1>1, ExceptLast
<1>5. /\ fPictureStack' \in Seq(Infos) /\ Len(fPictureStack') = n /\ fPictureStack'[n] = i
      /\ \A k \in 1..(n - 1) : fPictureStack'[k] = fPictureStack[k]
  BY <1>1, <1>2, ExceptLast
<1>6. \A k \in 1..(n - 1) : pictures[k] \in OpenPictures /\ pictures[k].stage = "pictures" /\ pictures[k].at + 3 <= Picture.at
  BY <1>3, CallerAt
<1>7. Picture = pictures[n] /\ Picture \in OpenPictures /\ Picture.at \in Nat
  BY <1>3, CallerAt DEF OpenPictures
<1>8. WriterTypes'
  BY <1>1, <1>4, <1>5 DEF WriterTypes
<1>9. StacksInv'
  <2>1. ASSUME NEW k \in 1..n  PROVE Matches(fPictureStack'[k], pictures'[k])
    <3>1. CASE k = n
      BY <3>1, <1>4, <1>5
    <3>2. CASE k # n
      <4>1. k \in 1..(n - 1)
        BY <3>2, <1>2
      <4> QED  BY <4>1, <1>4, <1>5 DEF WriterInv, StacksInv
    <3> QED  BY <3>1, <3>2
  <2> QED  BY <1>4, <1>5, <2>1 DEF WriterInv, StacksInv
<1>10. PicturesInv'
  <2>1. ASSUME NEW k \in 1..n  PROVE Placed(file', pictures'[k])
    <3>1. CASE k = n
      BY <3>1, <1>4
    <3>2. CASE k # n
      <4>1. k \in 1..(n - 1)
        BY <3>2, <1>2
      <4>2. pictures'[k] = pictures[k] /\ pictures[k].stage = "pictures" /\ Placed(file, pictures[k]) /\ pictures[k].at \in Nat
        BY <4>1, <1>4, <1>6 DEF WriterInv, PicturesInv, OpenPictures
      <4> QED  BY <4>2, <1>2 DEF Placed
    <3> QED  BY <3>1, <3>2
  <2>2. ASSUME NEW k \in 1..n, NEW l \in 1..n, k < l
        PROVE  pictures'[k].stage = "pictures" /\ pictures'[k].at + 3 <= pictures'[l].at
    <3>1. k \in 1..(n - 1) /\ k \in 1..n
      BY <1>2, <2>2
    <3>2. CASE l = n
      BY <3>1, <3>2, <1>4, <1>6
    <3>3. CASE l # n
      <4>1. l \in 1..(n - 1)
        BY <3>3, <1>2
      <4> QED  BY <2>2, <3>1, <4>1, <1>4 DEF WriterInv, PicturesInv
    <3> QED  BY <3>2, <3>3
  <2>3. \A k \in 1..(n - 1) : pictures'[k].inside > 0
    BY <1>4 DEF WriterInv, PicturesInv
  <2> QED  BY <1>4, <2>1, <2>2, <2>3 DEF PicturesInv
<1>11. BlocksInv'
  BY DEF BlocksInv
<1>12. Steady
  <2> SUFFICES ASSUME NEW q, Settled(q)
               PROVE  Settled(q)' /\ file'[q + 1] = file[q + 1]
    BY DEF Steady
  <2>1. q \in Nat /\ q < Len(file') /\ q < Len(file)
    BY <1>2 DEF Settled
  <2>2. ASSUME NEW k \in 1..n
        PROVE  q # pictures'[k].at + 2 /\ ~(pictures'[k].stage = "ops" /\ q = pictures'[k].opsAt - 1)
    <3>1. q # pictures[k].at + 2 /\ ~(pictures[k].stage = "ops" /\ q = pictures[k].opsAt - 1)
      BY DEF Settled, Pending
    <3>2. CASE k = n
      <4>1. pictures'[k].at = pictures[k].at /\ pictures'[k].stage = p.stage /\ pictures'[k].opsAt = p.opsAt /\ p.opsAt \in Nat
        BY <3>2, <1>4, <1>7 DEF OpenPictures
      <4> QED  BY <4>1, <3>1, <2>1, <1>2
    <3>3. CASE k # n
      <4>1. k \in 1..(n - 1)
        BY <3>3, <1>2
      <4> QED  BY <4>1, <3>1, <1>4
    <3> QED  BY <3>2, <3>3
  <2>3. 1..Len(blocks') = {}
    OBVIOUS
  <2>4. ~Pending(q)'
    BY <1>4, <2>2, <2>3 DEF Pending
  <2> QED  BY <2>1, <2>4 DEF Settled
<1>13. FieldsInv'
  <2>1. ASSUME NEW f \in fields'  PROVE Settled(f.at)' /\ file'[f.at + 1] = Int32(f.value)
    <3>1. CASE f \in fields
      BY <3>1, <1>12 DEF WriterInv, FieldsInv, Steady
    <3> QED  BY <3>1
  <2> QED  BY <2>1 DEF FieldsInv
<1> QED  BY <1>8, <1>9, <1>10, <1>11, <1>12, <1>13 DEF WriterInv

\* The calls that are no operation.
LEMMA ToldFacts ==
  ASSUME WriterInv
  PROVE  /\ \A m \in Structure : Tell(Call(m)) => told' \in Seq(Calls) /\ told' # <<>>
         /\ \A c \in Flat \cup States : Tell(c) => told' \in Seq(Calls) /\ told' # <<>>
<1>1. told \in Seq(Calls)
  BY DEF WriterInv, WriterTypes
<1>2. ASSUME NEW c \in Calls  PROVE Append(told, c) \in Seq(Calls) /\ Append(told, c) # <<>>
  BY <1>1, AppendFacts
<1>3. (\A m \in Structure : Call(m) \in Calls) /\ Flat \cup States \subseteq Calls
  BY DEF Calls
<1> QED  BY <1>2, <1>3 DEF Tell

LEMMA EnterPicturesInv ==
  ASSUME WriterInv, EnterPictures
  PROVE  WriterInv' /\ Steady
<1> DEFINE n == Len(pictures)
<1>1. At({"new"})
  BY DEF EnterPictures
<1>2. /\ pictures # <<>> /\ Picture = pictures[n] /\ Picture \in OpenPictures /\ Picture.stage = "new"
      /\ Info = fPictureStack[n] /\ Info \in Infos /\ Matches(Info, Picture) /\ Placed(file, Picture) /\ Len(fPictureStack) = n
  BY <1>1, CallerAt
<1>3. blocks = <<>>
  BY <1>1, NoBlocks
<1> DEFINE p == [pictures[n] EXCEPT !.stage = "pictures"]
<1> DEFINE i == [fPictureStack[n] EXCEPT !.pictures = TRUE]
<1>4. pictures' = [pictures EXCEPT ![n] = p] /\ fPictureStack' = [fPictureStack EXCEPT ![n] = i]
  BY <1>2 DEF EnterPictures, Stage
<1>5. p \in OpenPictures /\ p.at = Picture.at /\ p.stage = "pictures" /\ p.at \in Nat
  BY <1>2 DEF OpenPictures
<1>6. i \in Infos /\ Matches(i, p)
  <2>1. /\ i \in Infos /\ i.pos = Info.pos /\ i.pictCnt = Info.pictCnt /\ i.pictures = TRUE /\ i.ops = Info.ops
        /\ i.opsPos = Info.opsPos /\ p.inside = Picture.inside /\ p.opsAt = Picture.opsAt
    BY <1>2 DEF OpenPictures, Infos
  <2>2. (Picture.stage \in {"ops", "drawn"}) = FALSE /\ (p.stage \in {"ops", "drawn"}) = FALSE /\ (p.stage # "new") = TRUE
    BY <1>2, <1>5
  <2>3. /\ Info.pos = Picture.at /\ Info.pictCnt = Picture.inside
        /\ Info.ops = (Picture.stage \in {"ops", "drawn"})
    BY <1>2 DEF Matches
  <2>4. Info.ops = FALSE
    BY <2>2, <2>3
  <2> HIDE DEF i, p
  <2>5. i.pos = p.at /\ i.pictCnt = p.inside
    BY <1>5, <2>1, <2>3
  <2>6. i.ops = FALSE
    BY <2>1, <2>4
  <2>7. i.pictures = (p.stage # "new") /\ i.ops = (p.stage \in {"ops", "drawn"})
    BY <2>1, <2>2, <2>6
  <2>8. ~i.ops
    BY <2>6
  <2> QED  BY <2>1, <2>5, <2>7, <2>8 DEF Matches
<1> HIDE DEF p, i
<1>7. /\ file \in Seq(FileCells) /\ file' \in Seq(FileCells) /\ Len(file) \in Nat /\ Len(file') = Len(file) + 1
      /\ \A q \in 1..Len(file) : file'[q] = file[q]
  <2>1. file \in Seq(FileCells) /\ Int32(0) \in FileCells
    BY CellFacts DEF WriterInv, WriterTypes
  <2> QED  BY <2>1, AppendFacts DEF EnterPictures
<1>8. Placed(file', p)
  BY <1>2, <1>5, <1>7 DEF Placed
<1>9. \A q : Settled(q) => file'[q + 1] = file[q + 1]
  BY <1>7 DEF Settled
<1>10. told' \in Seq(Calls) /\ told' # <<>>
  <2>1. "EnterPictures" \in Structure
    BY DEF Structure
  <2> QED  BY <2>1, ToldFacts DEF EnterPictures
<1>11. fields' = fields /\ blocks' = blocks /\ fChunkStack' = fChunkStack /\ fields \subseteq [at : Nat, value : Nat]
  BY DEF EnterPictures, WriterInv, WriterTypes
<1>12. Len(file') >= Len(file)
  BY <1>7
<1> QED  BY <1>2, <1>3, <1>4, <1>5, <1>6, <1>7, <1>8, <1>9, <1>10, <1>11, <1>12, TopChanged

LEMMA ExitPicturesInv ==
  ASSUME WriterInv, ExitPictures
  PROVE  WriterInv' /\ Steady
<1> DEFINE n == Len(pictures)
<1>1. At({"pictures"})
  BY DEF ExitPictures
<1>2. /\ pictures # <<>> /\ Picture = pictures[n] /\ Picture \in OpenPictures /\ Picture.stage = "pictures"
      /\ Info = fPictureStack[n] /\ Info \in Infos /\ Matches(Info, Picture) /\ Placed(file, Picture) /\ Len(fPictureStack) = n
      /\ n \in Nat \ {0} /\ fPictureStack \in Seq(Infos)
  BY <1>1, CallerAt DEF WriterInv, WriterTypes
<1>3. blocks = <<>>
  BY <1>1, NoBlocks
<1> DEFINE p == [pictures[n] EXCEPT !.stage = "pictured"]
<1>4. pictures' = [pictures EXCEPT ![n] = p] /\ fPictureStack' = [fPictureStack EXCEPT ![n] = Info]
  <2>1. fPictureStack = [fPictureStack EXCEPT ![n] = fPictureStack[n]]
    BY <1>2
  <2> QED  BY <1>2, <2>1 DEF ExitPictures, Stage
<1>5. p \in OpenPictures /\ p.at = Picture.at /\ p.stage = "pictured" /\ p.inside = Picture.inside /\ p.at \in Nat /\ p.inside \in Nat
  BY <1>2 DEF OpenPictures
<1>6. Matches(Info, p)
  BY <1>2 DEF OpenPictures, Infos, Matches
<1> HIDE DEF p
<1>7. /\ file \in Seq(FileCells) /\ Len(file) \in Nat /\ file' = Patch(file, p.at + 2, p.inside) /\ p.at + 2 < Len(file)
  <2>1. file \in Seq(FileCells)
    BY DEF WriterInv, WriterTypes
  <2>2. p.at + 2 < Len(file)
    BY <2>1, <1>2, <1>5 DEF Placed
  <2>3. Info.pos = p.at /\ Info.pictCnt = p.inside
    BY <1>6 DEF Matches
  <2> QED  BY <2>1, <2>2, <2>3 DEF ExitPictures
<1>8. /\ file' \in Seq(FileCells) /\ Len(file') = Len(file) /\ file'[p.at + 3] = Int32(p.inside)
      /\ \A q \in 1..Len(file) : q # p.at + 3 => file'[q] = file[q]
  <2> DEFINE c == p.at + 2
  <2>1. c \in Nat /\ c + 1 = p.at + 3 /\ c < Len(file) /\ file' = Patch(file, c, p.inside)
    BY <1>5, <1>7
  <2> HIDE DEF c
  <2>2. /\ Patch(file, c, p.inside) \in Seq(FileCells) /\ Len(Patch(file, c, p.inside)) = Len(file)
        /\ \A q \in 1..Len(file) : q # c + 1 => Patch(file, c, p.inside)[q] = file[q]
        /\ Patch(file, c, p.inside)[c + 1] = Int32(p.inside)
    BY <2>1, <1>5, <1>7, PatchFacts
  <2> QED  BY <2>1, <2>2
<1>9. Placed(file', p)
  BY <1>5, <1>7, <1>8 DEF Placed
<1>10. \A q : Settled(q) => file'[q + 1] = file[q + 1]
  <2> SUFFICES ASSUME NEW q, Settled(q)  PROVE file'[q + 1] = file[q + 1]
    OBVIOUS
  <2>1. q \in Nat /\ q < Len(file) /\ q # pictures[n].at + 2
    BY <1>2 DEF Settled, Pending
  <2>2. q + 1 \in 1..Len(file) /\ q + 1 # p.at + 3
    BY <2>1, <1>2, <1>5, <1>7
  <2> QED  BY <2>2, <1>8
<1>11. told' \in Seq(Calls) /\ told' # <<>>
  <2>1. "ExitPictures" \in Structure
    BY DEF Structure
  <2> QED  BY <2>1, ToldFacts DEF ExitPictures
<1>12. fields' = fields /\ blocks' = blocks /\ fChunkStack' = fChunkStack /\ fields \subseteq [at : Nat, value : Nat]
  BY DEF ExitPictures, WriterInv, WriterTypes
<1>13. Len(file') >= Len(file)
  BY <1>7, <1>8
<1> QED  BY <1>2, <1>3, <1>4, <1>5, <1>6, <1>8, <1>9, <1>10, <1>11, <1>12, <1>13, TopChanged

LEMMA EnterOpsInv ==
  ASSUME WriterInv, EnterOps
  PROVE  WriterInv' /\ Steady
<1> DEFINE n == Len(pictures)
<1>1. At({"new", "pictured"})
  BY DEF EnterOps
<1>2. /\ pictures # <<>> /\ Picture = pictures[n] /\ Picture \in OpenPictures /\ Picture.stage \in {"new", "pictured"}
      /\ Info = fPictureStack[n] /\ Info \in Infos /\ Matches(Info, Picture) /\ Placed(file, Picture) /\ Len(fPictureStack) = n
  BY <1>1, CallerAt
<1>3. blocks = <<>>
  BY <1>1, NoBlocks
<1> DEFINE counted == file \o IF Info.pictures THEN <<>> ELSE <<Int32(Info.pictCnt)>>
<1>4. file \in Seq(FileCells) /\ Picture.at \in Nat /\ Picture.inside \in Nat /\ Len(file) \in Nat
  BY <1>2 DEF WriterInv, WriterTypes, OpenPictures
<1>5. /\ counted \in Seq(FileCells) /\ Len(counted) \in Nat /\ Len(counted) >= Len(file)
      /\ \A q \in 1..Len(file) : counted[q] = file[q]
      /\ Picture.at + 3 <= Len(counted) /\ counted[Picture.at + 3] = Int32(Picture.inside)
  <2>1. CASE Picture.stage = "new"
    <3>1. Info.pictures = FALSE /\ Info.pictCnt = Picture.inside /\ Picture.at + 2 = Len(file)
      BY <2>1, <1>2 DEF Matches, Placed
    <3>2. counted = file \o <<Int32(Picture.inside)>>
      BY <3>1
    <3>3. <<Int32(Picture.inside)>> \in Seq(FileCells) /\ Len(<<Int32(Picture.inside)>>) = 1
      BY <1>4, Counts32
    <3> PICK g \in Seq(FileCells) : g = <<Int32(Picture.inside)>> /\ Len(g) = 1 /\ g[1] = Int32(Picture.inside)
      BY <3>3
    <3>4. counted = file \o g
      BY <3>2
    <3> HIDE DEF counted
    <3>5. /\ file \o g \in Seq(FileCells) /\ Len(file \o g) = Len(file) + 1
          /\ \A q \in 1..Len(file) : (file \o g)[q] = file[q]
          /\ (file \o g)[Len(file) + 1] = g[1]
      BY <1>4, GrowFacts
    <3>6. Picture.at + 3 = Len(file) + 1 /\ Picture.at + 3 <= Len(file) + 1
      BY <3>1, <1>2, <1>4
    <3> QED  BY <3>4, <3>5, <3>6, <1>4
  <2>2. CASE Picture.stage = "pictured"
    <3>1. Info.pictures = TRUE /\ Picture.at + 3 <= Len(file) /\ file[Picture.at + 3] = Int32(Picture.inside)
      BY <2>2, <1>2 DEF Matches, Placed
    <3>2. counted = file
      BY <3>1, <1>4
    <3> HIDE DEF counted
    <3> QED  BY <3>1, <3>2, <1>4
  <2> QED  BY <2>1, <2>2, <1>2
<1> DEFINE p == [pictures[n] EXCEPT !.stage = "ops", !.opsAt = Len(counted) + 1]
<1> DEFINE i == [fPictureStack[n] EXCEPT !.pictures = TRUE, !.opsPos = Len(counted) + 1, !.ops = TRUE]
<1>6. pictures' = [pictures EXCEPT ![n] = p] /\ fPictureStack' = [fPictureStack EXCEPT ![n] = i] /\ file' = Append(counted, Int32(0))
  BY <1>2 DEF EnterOps
<1> HIDE DEF counted
<1>7. /\ p \in OpenPictures /\ p.at = Picture.at /\ p.stage = "ops" /\ p.opsAt = Len(counted) + 1 /\ p.inside = Picture.inside
  <2>1. Len(counted) + 1 \in Nat
    BY <1>5
  <2> QED  BY <1>2, <2>1 DEF OpenPictures
<1>8. i \in Infos /\ Matches(i, p)
  <2>1. Len(counted) + 1 \in Nat
    BY <1>5
  <2>2. /\ i \in Infos /\ i.pos = Info.pos /\ i.pictCnt = Info.pictCnt /\ i.pictures = TRUE /\ i.ops = TRUE
        /\ i.opsPos = Len(counted) + 1
    BY <1>2, <2>1 DEF Infos
  <2> HIDE DEF i, p
  <2> QED  BY <1>2, <1>7, <2>2 DEF Matches
<1> HIDE DEF p, i
<1>9. /\ file' \in Seq(FileCells) /\ Len(file') = Len(counted) + 1
      /\ \A q \in 1..Len(counted) : file'[q] = counted[q]
  <2>1. Int32(0) \in FileCells
    BY CellFacts
  <2> QED  BY <2>1, <1>5, <1>6, AppendFacts
<1>10. Placed(file', p)
  BY <1>4, <1>5, <1>7, <1>9 DEF Placed
<1>11. \A q : Settled(q) => file'[q + 1] = file[q + 1]
  BY <1>4, <1>5, <1>9 DEF Settled
<1>12. told' \in Seq(Calls) /\ told' # <<>>
  <2>1. "EnterOps" \in Structure
    BY DEF Structure
  <2> QED  BY <2>1, ToldFacts DEF EnterOps
<1>13. fields' = fields /\ blocks' = blocks /\ fChunkStack' = fChunkStack /\ fields \subseteq [at : Nat, value : Nat]
  BY DEF EnterOps, WriterInv, WriterTypes
<1>14. Len(file') >= Len(file) /\ p.opsAt - 1 >= Len(file)
  BY <1>4, <1>5, <1>7, <1>9
<1> QED  BY <1>2, <1>3, <1>6, <1>7, <1>8, <1>9, <1>10, <1>11, <1>12, <1>13, <1>14, TopChanged

LEMMA ExitOpsInv ==
  ASSUME WriterInv, ExitOps
  PROVE  WriterInv' /\ Steady
<1> DEFINE n == Len(pictures)
<1>1. At({"ops"})
  BY DEF ExitOps
<1>2. /\ pictures # <<>> /\ Picture = pictures[n] /\ Picture \in OpenPictures /\ Picture.stage = "ops"
      /\ Info = fPictureStack[n] /\ Info \in Infos /\ Matches(Info, Picture) /\ Placed(file, Picture) /\ Len(fPictureStack) = n
      /\ n \in Nat \ {0} /\ fPictureStack \in Seq(Infos) /\ pictures \in Seq(OpenPictures)
      /\ \A k \in 1..(n - 1) : pictures[k] \in OpenPictures /\ pictures[k].stage = "pictures" /\ pictures[k].at + 3 <= Picture.at
  BY <1>1, CallerAt DEF WriterInv, WriterTypes
<1>3. blocks = <<>>
  BY DEF ExitOps
<1> DEFINE p == [pictures[n] EXCEPT !.stage = "drawn"]
<1>4. pictures' = [pictures EXCEPT ![n] = p] /\ fPictureStack' = [fPictureStack EXCEPT ![n] = Info]
  <2>1. fPictureStack = [fPictureStack EXCEPT ![n] = fPictureStack[n]]
    BY <1>2
  <2> QED  BY <1>2, <2>1 DEF ExitOps, Stage
<1>5. /\ p \in OpenPictures /\ p.at = Picture.at /\ p.stage = "drawn" /\ p.inside = Picture.inside /\ p.opsAt = Picture.opsAt
      /\ p.at \in Nat /\ p.inside \in Nat /\ p.opsAt \in Nat
  BY <1>2 DEF OpenPictures
<1>6. Matches(Info, p) /\ Info.opsPos = p.opsAt
  BY <1>2, <1>5 DEF Matches
<1> HIDE DEF p
<1> DEFINE size == Len(file) - p.opsAt
<1>7. /\ file \in Seq(FileCells) /\ Len(file) \in Nat /\ p.at + 4 <= p.opsAt /\ p.opsAt <= Len(file)
      /\ file[p.at + 3] = Int32(p.inside) /\ p.at + 3 <= Len(file)
  BY <1>2, <1>5 DEF WriterInv, WriterTypes, Placed
<1>8. file' = Patch(file, p.opsAt - 1, size) /\ fields' = fields \cup {[at |-> p.opsAt - 1, value |-> size]}
  BY <1>5, <1>6 DEF ExitOps, Finish
<1>9. size \in Nat /\ p.opsAt - 1 \in Nat /\ p.opsAt - 1 < Len(file) /\ p.opsAt - 1 + 1 = p.opsAt
  BY <1>5, <1>7
<1> HIDE DEF size
<1>10. /\ file' \in Seq(FileCells) /\ Len(file') = Len(file) /\ file'[p.opsAt] = Int32(size)
       /\ \A q \in 1..Len(file) : q # p.opsAt => file'[q] = file[q]
  <2>1. /\ Patch(file, p.opsAt - 1, size) \in Seq(FileCells) /\ Len(Patch(file, p.opsAt - 1, size)) = Len(file)
        /\ \A q \in 1..Len(file) : q # p.opsAt - 1 + 1 => Patch(file, p.opsAt - 1, size)[q] = file[q]
        /\ Patch(file, p.opsAt - 1, size)[p.opsAt - 1 + 1] = Int32(size)
    BY <1>7, <1>9, PatchFacts
  <2> QED  BY <2>1, <1>8, <1>9
<1>11. Placed(file', p)
  <2>1. p.at + 3 \in 1..Len(file) /\ p.at + 3 # p.opsAt
    BY <1>5, <1>7
  <2> QED  BY <2>1, <1>5, <1>7, <1>10 DEF Placed
<1>12. \A q : Settled(q) => file'[q + 1] = file[q + 1]
  <2> SUFFICES ASSUME NEW q, Settled(q)  PROVE file'[q + 1] = file[q + 1]
    OBVIOUS
  <2>1. q \in Nat /\ q < Len(file) /\ q # pictures[n].opsAt - 1
    BY <1>2 DEF Settled, Pending
  <2>2. q + 1 \in 1..Len(file) /\ q + 1 # p.opsAt
    BY <2>1, <1>2, <1>5, <1>7
  <2> QED  BY <2>2, <1>10
<1>13. told' \in Seq(Calls) /\ told' # <<>>
  <2>1. "ExitOps" \in Structure
    BY DEF Structure
  <2> QED  BY <2>1, ToldFacts DEF ExitOps
<1>14. blocks' = blocks /\ fChunkStack' = fChunkStack /\ Len(file') >= Len(file)
  BY <1>7, <1>10 DEF ExitOps
<1>15. fields' \subseteq [at : Nat, value : Nat]
  BY <1>8, <1>9 DEF WriterInv, WriterTypes
<1>16. ASSUME NEW f \in fields' \ fields
       PROVE  Settled(f.at)' /\ file'[f.at + 1] = Int32(f.value)
  <2>1. f.at = p.opsAt - 1 /\ f.value = size
    BY <1>8
  <2>2. /\ Len(pictures') = n /\ pictures'[n] = p
        /\ \A k \in 1..(n - 1) : pictures'[k] = pictures[k]
    BY <1>2, <1>4, <1>5, ExceptLast
  <2>3. ASSUME NEW k \in 1..n
        PROVE  f.at # pictures'[k].at + 2 /\ pictures'[k].stage # "ops"
    <3>1. CASE k = n
      BY <3>1, <2>1, <2>2, <1>5, <1>7
    <3>2. CASE k # n
      <4>1. k \in 1..(n - 1)
        BY <3>2, <1>2
      <4>2. pictures'[k] = pictures[k] /\ pictures[k].stage = "pictures" /\ pictures[k].at + 3 <= p.at /\ pictures[k].at \in Nat
        BY <4>1, <2>2, <1>2, <1>5 DEF OpenPictures
      <4> PICK y \in Nat : y = pictures[k].at
        BY <4>2
      <4>3. y + 3 <= p.at /\ p.at \in Nat /\ p.opsAt \in Nat
        BY <4>2, <1>5
      <4>4. p.opsAt - 1 # y + 2
        BY <4>3, <1>7
      <4> QED  BY <4>2, <4>4, <2>1
    <3> QED  BY <3>1, <3>2
  <2>4. 1..Len(blocks') = {}
    BY <1>3, <1>14
  <2>5. ~Pending(f.at)'
    BY <2>2, <2>3, <2>4 DEF Pending
  <2> QED  BY <2>1, <2>5, <1>9, <1>10 DEF Settled
<1> QED  BY <1>2, <1>3, <1>4, <1>5, <1>6, <1>10, <1>11, <1>12, <1>13, <1>14, <1>15, <1>16, TopChanged

\* A call within a list of operations.
LEMMA PicturesStay ==
  ASSUME WriterInv, At({"ops"}), pictures' = pictures, fPictureStack' = fPictureStack,
         file' \in Seq(FileCells), Len(file') >= Len(file),
         \A q \in 1..(Picture.opsAt - 1) : file'[q] = file[q],
         \A q : Settled(q) => file'[q + 1] = file[q + 1],
         blocks' \in Seq(OpenBlocks), fChunkStack' \in Seq(Nat), Len(fChunkStack') = Len(blocks'),
         \A k \in 1..Len(blocks') : fChunkStack'[k] = blocks'[k].at,
         BlocksInv',
         \A q : Settled(q) => \A k \in 1..Len(blocks') : q # blocks'[k].at + 1,
         told' \in Seq(Calls), told' # <<>>,
         fields' \subseteq [at : Nat, value : Nat],
         \A f \in fields' \ fields : Settled(f.at)' /\ file'[f.at + 1] = Int32(f.value)
  PROVE  WriterInv' /\ Steady
<1> DEFINE n == Len(pictures)
<1>1. /\ n \in Nat \ {0} /\ pictures # <<>> /\ Picture = pictures[n] /\ Picture \in OpenPictures /\ Picture.stage = "ops"
      /\ Placed(file, Picture)
      /\ \A k \in 1..(n - 1) : pictures[k] \in OpenPictures /\ pictures[k].stage = "pictures"
  BY CallerAt
<1>2. Len(file) \in Nat /\ Len(file') \in Nat
  BY DEF WriterInv, WriterTypes
<1>3. WriterTypes'
  BY DEF WriterInv, WriterTypes
<1>4. StacksInv'
  BY DEF WriterInv, StacksInv
<1>5. PicturesInv'
  <2>1. ASSUME NEW k \in 1..n  PROVE Placed(file', pictures[k])
    <3>0. Placed(file, pictures[k])
      BY DEF WriterInv, PicturesInv
    <3>1. CASE k = n
      <4>1. /\ pictures[k].stage = "ops" /\ pictures[k].at \in Nat /\ pictures[k].opsAt \in Nat
            /\ \A q \in 1..(pictures[k].opsAt - 1) : file'[q] = file[q]
        BY <3>1, <1>1 DEF OpenPictures
      <4>2. /\ pictures[k].at + 3 <= Len(file) /\ pictures[k].at + 4 <= pictures[k].opsAt /\ pictures[k].opsAt <= Len(file)
            /\ file[pictures[k].at + 3] = Int32(pictures[k].inside)
        BY <3>0, <4>1 DEF Placed
      <4> PICK y \in Nat, z \in Nat : y = pictures[k].at /\ z = pictures[k].opsAt
        BY <4>1
      <4>3. y + 3 <= Len(file) /\ y + 4 <= z /\ z <= Len(file) /\ z <= Len(file') /\ y + 3 <= Len(file')
        BY <4>2, <1>2
      <4>4. y + 3 \in 1..(z - 1)
        BY <4>3, Apart
      <4>5. file'[y + 3] = file[y + 3]
        BY <4>1, <4>4
      <4> QED  BY <4>1, <4>2, <4>3, <4>5 DEF Placed
    <3>2. CASE k # n
      <4>1. k \in 1..(n - 1)
        BY <3>2, <1>1
      <4>2. pictures[k].stage = "pictures" /\ pictures[k].at \in Nat
        BY <4>1, <1>1 DEF OpenPictures
      <4> QED  BY <3>0, <4>2, <1>2 DEF Placed
    <3> QED  BY <3>1, <3>2
  <2> QED  BY <2>1 DEF WriterInv, PicturesInv
<1>6. Steady
  <2> SUFFICES ASSUME NEW q, Settled(q)
               PROVE  Settled(q)' /\ file'[q + 1] = file[q + 1]
    BY DEF Steady
  <2>1. q \in Nat /\ q < Len(file') /\ q < Len(file)
    BY <1>2 DEF Settled
  <2>2. ~Pending(q)'
    <3>1. \A k \in 1..n : q # pictures[k].at + 2 /\ ~(pictures[k].stage = "ops" /\ q = pictures[k].opsAt - 1)
      BY DEF Settled, Pending
    <3>2. \A k \in 1..Len(blocks') : q # blocks'[k].at + 1
      OBVIOUS
    <3> QED  BY <3>1, <3>2 DEF Pending
  <2> QED  BY <2>1, <2>2 DEF Settled
<1>7. FieldsInv'
  <2>1. ASSUME NEW f \in fields'  PROVE Settled(f.at)' /\ file'[f.at + 1] = Int32(f.value)
    <3>1. CASE f \in fields
      BY <3>1, <1>6 DEF WriterInv, FieldsInv, Steady
    <3> QED  BY <3>1
  <2> QED  BY <2>1 DEF FieldsInv
<1> QED  BY <1>3, <1>4, <1>5, <1>6, <1>7 DEF WriterInv

LEMMA EnterBlockInv ==
  ASSUME WriterInv, EnterBlock
  PROVE  WriterInv' /\ Steady
<1> DEFINE n == Len(pictures)
<1> PICK m \in Enter :
      /\ At({"ops"})
      /\ file' = Begun(file, EnterCode(m))
      /\ fChunkStack' = Append(fChunkStack, Len(file))
      /\ blocks' = Append(blocks, [m |-> m, at |-> Len(file)])
      /\ Tell(Call(m))
      /\ fPictureStack' = fPictureStack /\ pictures' = pictures /\ fields' = fields
  BY DEF EnterBlock
<1>1. /\ pictures # <<>> /\ Picture = pictures[n] /\ Picture \in OpenPictures /\ Picture.stage = "ops" /\ Placed(file, Picture)
  BY CallerAt
<1>2. file \in Seq(FileCells) /\ Len(file) \in Nat /\ fChunkStack \in Seq(Nat) /\ blocks \in Seq(OpenBlocks) /\ Len(blocks) \in Nat
  BY DEF WriterInv, WriterTypes
<1>3. /\ file' \in Seq(FileCells) /\ Len(file') = Len(file) + 2
      /\ \A q \in 1..Len(file) : file'[q] = file[q]
  <2>1. EnterCode(m) \in Opcodes
    BY DEF Opcodes
  <2>2. <<Code(EnterCode(m)), Int32(0)>> \in Seq(FileCells) /\ Len(<<Code(EnterCode(m)), Int32(0)>>) = 2
    BY <2>1, CellFacts
  <2> QED  BY <2>2, <1>2, GrowFacts DEF Begun
<1>4. [m |-> m, at |-> Len(file)] \in OpenBlocks
  BY <1>2 DEF OpenBlocks
<1>5. /\ blocks' \in Seq(OpenBlocks) /\ Len(blocks') = Len(blocks) + 1 /\ blocks'[Len(blocks) + 1].at = Len(file)
      /\ \A k \in 1..Len(blocks) : blocks'[k] = blocks[k]
  BY <1>2, <1>4, AppendFacts
<1>6. /\ fChunkStack' \in Seq(Nat) /\ Len(fChunkStack') = Len(fChunkStack) + 1 /\ fChunkStack'[Len(fChunkStack) + 1] = Len(file)
      /\ \A k \in 1..Len(fChunkStack) : fChunkStack'[k] = fChunkStack[k]
  BY <1>2, AppendFacts
<1>7. Len(fChunkStack') = Len(blocks') /\ \A k \in 1..Len(blocks') : fChunkStack'[k] = blocks'[k].at
  <2>1. Len(fChunkStack) = Len(blocks) /\ \A k \in 1..Len(blocks) : fChunkStack[k] = blocks[k].at
    BY DEF WriterInv, StacksInv
  <2>2. ASSUME NEW k \in 1..(Len(blocks) + 1)  PROVE fChunkStack'[k] = blocks'[k].at
    <3>1. CASE k = Len(blocks) + 1
      BY <3>1, <2>1, <1>5, <1>6
    <3>2. CASE k # Len(blocks) + 1
      <4>1. k \in 1..Len(blocks)
        BY <3>2, <1>2
      <4> QED  BY <4>1, <2>1, <1>5, <1>6
    <3> QED  BY <3>1, <3>2
  <2> QED  BY <2>1, <2>2, <1>5, <1>6
<1>8. Picture.opsAt \in Nat /\ Picture.opsAt <= Len(file)
  BY <1>1 DEF Placed, OpenPictures
<1>9. \A k \in 1..Len(blocks) : blocks[k].at \in Nat /\ Picture.opsAt <= blocks[k].at /\ blocks[k].at + 2 <= Len(file)
  <2>1. \A k \in 1..Len(blocks) : blocks[k] \in OpenBlocks
    BY <1>2
  <2>2. \A k \in 1..Len(blocks) : blocks[k].at \in Nat
    BY <2>1 DEF OpenBlocks
  <2> QED  BY <1>1, <2>2 DEF WriterInv, BlocksInv
<1>10. BlocksInv'
  <2>1. ASSUME NEW k \in 1..(Len(blocks) + 1)
        PROVE  Picture.opsAt <= blocks'[k].at /\ blocks'[k].at + 2 <= Len(file')
    <3>1. CASE k = Len(blocks) + 1
      BY <3>1, <1>2, <1>3, <1>5, <1>8
    <3>2. CASE k # Len(blocks) + 1
      <4>1. k \in 1..Len(blocks)
        BY <3>2, <1>2
      <4> QED  BY <4>1, <1>2, <1>3, <1>5, <1>9
    <3> QED  BY <3>1, <3>2
  <2>2. ASSUME NEW k \in 1..(Len(blocks) + 1), NEW l \in 1..(Len(blocks) + 1), k < l
        PROVE  blocks'[k].at + 2 <= blocks'[l].at
    <3>1. k \in 1..Len(blocks)
      BY <2>2, <1>2
    <3>2. CASE l = Len(blocks) + 1
      BY <3>1, <3>2, <1>5, <1>9
    <3>3. CASE l # Len(blocks) + 1
      <4>1. l \in 1..Len(blocks)
        BY <3>3, <1>2
      <4> QED  BY <2>2, <3>1, <4>1, <1>5 DEF WriterInv, BlocksInv
    <3> QED  BY <3>2, <3>3
  <2> QED  BY <1>1, <1>5, <2>1, <2>2 DEF BlocksInv
<1>11. \A q : Settled(q) => file'[q + 1] = file[q + 1] /\ \A k \in 1..Len(blocks') : q # blocks'[k].at + 1
  <2> SUFFICES ASSUME NEW q, Settled(q)
               PROVE  file'[q + 1] = file[q + 1] /\ \A k \in 1..Len(blocks') : q # blocks'[k].at + 1
    OBVIOUS
  <2>1. q \in Nat /\ q < Len(file) /\ \A k \in 1..Len(blocks) : q # blocks[k].at + 1
    BY DEF Settled, Pending
  <2>2. ASSUME NEW k \in 1..(Len(blocks) + 1)  PROVE q # blocks'[k].at + 1
    <3>1. CASE k = Len(blocks) + 1
      BY <3>1, <2>1, <1>2, <1>5
    <3>2. CASE k # Len(blocks) + 1
      <4>1. k \in 1..Len(blocks)
        BY <3>2, <1>2
      <4> QED  BY <4>1, <2>1, <1>5
    <3> QED  BY <3>1, <3>2
  <2>3. q + 1 \in 1..Len(file)
    BY <2>1, <1>2
  <2> QED  BY <2>2, <2>3, <1>3, <1>5
<1>12. told' \in Seq(Calls) /\ told' # <<>>
  <2>1. m \in Structure
    BY DEF Structure
  <2> QED  BY <2>1, ToldFacts
<1>13. fields' \subseteq [at : Nat, value : Nat] /\ Len(file') >= Len(file)
  BY <1>2, <1>3 DEF WriterInv, WriterTypes
<1>14. \A q \in 1..(Picture.opsAt - 1) : file'[q] = file[q]
  BY <1>2, <1>3, <1>8
<1> QED  BY <1>3, <1>5, <1>6, <1>7, <1>10, <1>11, <1>12, <1>13, <1>14, PicturesStay

LEMMA ExitBlockInv ==
  ASSUME WriterInv, ExitBlock
  PROVE  WriterInv' /\ Steady
<1> DEFINE n == Len(pictures)
<1> DEFINE b == Len(blocks)
<1> DEFINE size == Len(file) - blocks[b].at - 2
<1>1. blocks # <<>> /\ blocks \in Seq(OpenBlocks) /\ fChunkStack \in Seq(Nat) /\ Len(fChunkStack) = b
      /\ file \in Seq(FileCells) /\ Len(file) \in Nat
  BY DEF ExitBlock, WriterInv, WriterTypes, StacksInv
<1>2. /\ Front(blocks) \in Seq(OpenBlocks) /\ Len(Front(blocks)) = b - 1 /\ b \in Nat \ {0}
      /\ Last(blocks) = blocks[b] /\ blocks[b] \in OpenBlocks /\ blocks[b].at \in Nat /\ blocks[b].m \in Enter
      /\ \A k \in 1..(b - 1) : Front(blocks)[k] = blocks[k]
  <2>1. /\ Front(blocks) \in Seq(OpenBlocks) /\ Len(Front(blocks)) = b - 1 /\ b \in Nat \ {0}
        /\ Last(blocks) = blocks[b] /\ Last(blocks) \in OpenBlocks
        /\ \A k \in 1..(b - 1) : Front(blocks)[k] = blocks[k]
    BY <1>1, FrontFacts
  <2>2. blocks[b].at \in Nat /\ blocks[b].m \in Enter
    BY <2>1 DEF OpenBlocks
  <2> QED  BY <2>1, <2>2
<1>3. /\ Front(fChunkStack) \in Seq(Nat) /\ Len(Front(fChunkStack)) = b - 1 /\ Last(fChunkStack) = blocks[b].at
      /\ \A k \in 1..(b - 1) : Front(fChunkStack)[k] = blocks[k].at
  <2>1. fChunkStack # <<>> /\ b \in 1..b
    BY <1>1, <1>2
  <2>2. /\ Front(fChunkStack) \in Seq(Nat) /\ Len(Front(fChunkStack)) = b - 1 /\ Last(fChunkStack) = fChunkStack[b]
        /\ \A k \in 1..(b - 1) : Front(fChunkStack)[k] = fChunkStack[k]
    BY <1>1, <2>1, FrontFacts
  <2>3. \A k \in 1..b : fChunkStack[k] = blocks[k].at
    BY DEF WriterInv, StacksInv
  <2> QED  BY <1>2, <2>1, <2>2, <2>3
<1>4. At({"ops"})
  BY <1>1 DEF At, WriterInv, BlocksInv, Picture, Last
<1>5. /\ pictures # <<>> /\ Picture = pictures[n] /\ Picture \in OpenPictures /\ Picture.stage = "ops" /\ Placed(file, Picture)
      /\ n \in Nat \ {0} /\ Picture.at \in Nat /\ Picture.opsAt \in Nat
      /\ \A k \in 1..(n - 1) : pictures[k] \in OpenPictures /\ pictures[k].stage = "pictures" /\ pictures[k].at + 3 <= Picture.at
  BY <1>4, CallerAt DEF OpenPictures
<1>6. Picture.at + 4 <= Picture.opsAt /\ Picture.opsAt <= blocks[b].at /\ blocks[b].at + 2 <= Len(file)
  <2>1. b \in 1..b
    BY <1>2
  <2> QED  BY <2>1, <1>5 DEF WriterInv, BlocksInv, Placed
<1>7. /\ file' = Patch(file, blocks[b].at + 1, size)
      /\ fChunkStack' = Front(fChunkStack) /\ blocks' = Front(blocks)
      /\ fields' = fields \cup {[at |-> blocks[b].at + 1, value |-> size]}
      /\ Tell(Call(Exit(blocks[b].m)))
      /\ fPictureStack' = fPictureStack /\ pictures' = pictures
  BY <1>2, <1>3 DEF ExitBlock, Ended, Finish
<1>8. size \in Nat /\ blocks[b].at + 1 \in Nat /\ blocks[b].at + 1 < Len(file) /\ blocks[b].at + 1 + 1 = blocks[b].at + 2
  BY <1>1, <1>2, <1>6
<1> HIDE DEF size
<1>9. /\ file' \in Seq(FileCells) /\ Len(file') = Len(file) /\ file'[blocks[b].at + 2] = Int32(size)
      /\ \A q \in 1..Len(file) : q # blocks[b].at + 2 => file'[q] = file[q]
  <2> DEFINE p == blocks[b].at + 1
  <2>1. p \in Nat /\ p < Len(file) /\ p + 1 = blocks[b].at + 2
    BY <1>8
  <2>2. file' = Patch(file, p, size)
    BY <1>7
  <2> HIDE DEF p
  <2>3. /\ Patch(file, p, size) \in Seq(FileCells) /\ Len(Patch(file, p, size)) = Len(file)
        /\ \A q \in 1..Len(file) : q # p + 1 => Patch(file, p, size)[q] = file[q]
        /\ Patch(file, p, size)[p + 1] = Int32(size)
    BY <1>1, <1>8, <2>1, PatchFacts
  <2> QED  BY <2>1, <2>2, <2>3
<1>10. /\ blocks' \in Seq(OpenBlocks) /\ Len(blocks') = b - 1 /\ \A k \in 1..(b - 1) : blocks'[k] = blocks[k]
       /\ fChunkStack' \in Seq(Nat) /\ Len(fChunkStack') = Len(blocks')
       /\ \A k \in 1..Len(blocks') : fChunkStack'[k] = blocks'[k].at
  BY <1>2, <1>3, <1>7
<1>11. \A k \in 1..(b - 1) : blocks[k].at \in Nat /\ Picture.opsAt <= blocks[k].at /\ blocks[k].at + 2 <= blocks[b].at
  <2>1. \A k \in 1..(b - 1) : k \in 1..b /\ b \in 1..b /\ k < b
    BY <1>2
  <2>2. \A k \in 1..b : blocks[k] \in OpenBlocks
    BY <1>1
  <2>3. \A k \in 1..b : blocks[k].at \in Nat
    BY <2>2 DEF OpenBlocks
  <2>4. \A k, l \in 1..b : k < l => blocks[k].at + 2 <= blocks[l].at
    BY DEF WriterInv, BlocksInv
  <2>5. \A k \in 1..b : Picture.opsAt <= blocks[k].at
    BY <1>5 DEF WriterInv, BlocksInv
  <2> QED  BY <2>1, <2>3, <2>4, <2>5
<1> DEFINE a == blocks[b].at
<1> DEFINE z == Picture.opsAt
<1>a. a \in Nat /\ z \in Nat /\ z <= a /\ a + 2 <= Len(file) /\ Picture.at + 4 <= z /\ z = pictures[n].opsAt /\ a = blocks[b].at
  BY <1>2, <1>5, <1>6
<1>12. BlocksInv'
  <2>1. ASSUME NEW k \in 1..(b - 1)
        PROVE  Picture.opsAt <= blocks'[k].at /\ blocks'[k].at + 2 <= Len(file')
    <3>1. blocks'[k] = blocks[k] /\ blocks[k].at \in Nat /\ z <= blocks[k].at /\ blocks[k].at + 2 <= a
      BY <1>10, <1>11
    <3>2. Len(file') = Len(file)
      BY <1>9
    <3> HIDE DEF a, z
    <3> PICK y \in Nat : y = blocks[k].at
      BY <3>1
    <3>3. y + 2 <= a /\ a \in Nat /\ a + 2 <= Len(file) /\ Len(file) \in Nat
      BY <1>1, <1>a, <3>1
    <3>4. y + 2 <= Len(file')
      BY <3>2, <3>3
    <3> QED  BY <3>1, <3>4 DEF z
  <2>2. ASSUME NEW k \in 1..(b - 1), NEW l \in 1..(b - 1), k < l
        PROVE  blocks'[k].at + 2 <= blocks'[l].at
    <3>1. k \in 1..b /\ l \in 1..b
      BY <1>2
    <3> QED  BY <2>2, <3>1, <1>10 DEF WriterInv, BlocksInv
  <2> QED  BY <1>5, <1>7, <1>10, <2>1, <2>2 DEF BlocksInv
<1>13. \A q : Settled(q) => file'[q + 1] = file[q + 1] /\ \A k \in 1..Len(blocks') : q # blocks'[k].at + 1
  <2> SUFFICES ASSUME NEW q, Settled(q)
               PROVE  file'[q + 1] = file[q + 1] /\ \A k \in 1..Len(blocks') : q # blocks'[k].at + 1
    OBVIOUS
  <2>1. q \in Nat /\ q < Len(file) /\ \A k \in 1..b : q # blocks[k].at + 1
    BY DEF Settled, Pending
  <2>a. q + 1 \in 1..Len(file)
    BY <2>1, <1>1
  <2>b. b \in 1..b
    BY <1>2
  <2>2. q + 1 \in 1..Len(file) /\ q # a + 1
    BY <2>1, <2>a, <2>b
  <2>3. q + 1 # blocks[b].at + 2
    <3> HIDE DEF a
    <3>1. q + 1 # a + 2
      BY <2>1, <2>2, <1>a
    <3> QED  BY <3>1 DEF a
  <2>4. file'[q + 1] = file[q + 1]
    BY <2>2, <2>3, <1>9
  <2>5. \A k \in 1..(b - 1) : k \in 1..b /\ blocks'[k] = blocks[k]
    BY <1>2, <1>10
  <2>6. \A k \in 1..(b - 1) : q # blocks'[k].at + 1
    BY <2>1, <2>5
  <2>7. Len(blocks') = b - 1
    BY <1>10
  <2> QED  BY <2>4, <2>6, <2>7
<1>14. told' \in Seq(Calls) /\ told' # <<>>
  <2>1. Exit(blocks[b].m) \in Structure
    BY <1>2 DEF Structure
  <2> QED  BY <2>1, <1>7, ToldFacts
<1>15. fields' \subseteq [at : Nat, value : Nat] /\ Len(file') >= Len(file)
  BY <1>1, <1>7, <1>8, <1>9 DEF WriterInv, WriterTypes
<1>16. \A q \in 1..(Picture.opsAt - 1) : file'[q] = file[q]
  <2>1. ASSUME NEW q \in 1..(z - 1)  PROVE q \in 1..Len(file) /\ q # a + 2
    <3> HIDE DEF a, z
    <3>1. a \in Nat /\ z \in Nat /\ z <= a
      BY <1>a
    <3>2. Len(file) \in Nat /\ a + 2 <= Len(file)
      BY <1>1, <1>a
    <3>3. q \in Nat /\ q >= 1 /\ q < a
      BY <3>1
    <3> HIDE DEF z
    <3> QED  BY <3>1, <3>2, <3>3
  <2> QED  BY <2>1, <1>9
<1>17. ASSUME NEW f \in fields' \ fields
       PROVE  Settled(f.at)' /\ file'[f.at + 1] = Int32(f.value)
  <2>1. f.at = a + 1 /\ f.value = size /\ f.at \in Nat
    BY <1>7, <1>8
  <2>2. ASSUME NEW k \in 1..n
        PROVE  f.at # pictures[k].at + 2 /\ ~(pictures[k].stage = "ops" /\ f.at = pictures[k].opsAt - 1)
    <3>1. CASE k = n
      <4>1. pictures[k].at = Picture.at /\ pictures[k].opsAt = z /\ Picture.at \in Nat
        BY <3>1, <1>5
      <4> HIDE DEF a, z
      <4>2. a + 1 # Picture.at + 2 /\ a + 1 # z - 1
        <5>1. a \in Nat /\ z \in Nat /\ z <= a
          BY <1>a
        <5>2. Picture.at \in Nat /\ Picture.at + 4 <= z
          BY <1>a, <4>1
        <5> QED  BY <5>1, <5>2
      <4> QED  BY <4>1, <4>2, <2>1
    <3>2. CASE k # n
      <4>1. k \in 1..(n - 1)
        BY <3>2, <1>5
      <4>2. pictures[k].stage = "pictures" /\ pictures[k].at + 3 <= Picture.at /\ pictures[k].at \in Nat
        BY <4>1, <1>5 DEF OpenPictures
      <4>3. pictures[k].at + 3 <= Picture.at /\ Picture.at \in Nat
        BY <4>1, <1>5
      <4> HIDE DEF a, z
      <4>4. a + 1 # pictures[k].at + 2
        <5>1. a \in Nat /\ z \in Nat /\ z <= a
          BY <1>a
        <5>2. Picture.at \in Nat /\ Picture.at + 4 <= z
          BY <1>a, <4>3
        <5> QED  BY <5>1, <5>2, <4>2, <4>3
      <4> QED  BY <4>2, <4>4, <2>1
    <3> QED  BY <3>1, <3>2
  <2>3. \A k \in 1..Len(blocks') : f.at # blocks'[k].at + 1
    <3> SUFFICES ASSUME NEW k \in 1..(b - 1)  PROVE f.at # blocks'[k].at + 1
      BY <1>10
    <3>1. blocks'[k] = blocks[k] /\ blocks[k].at \in Nat /\ blocks[k].at + 2 <= a
      BY <1>10, <1>11
    <3> HIDE DEF a
    <3> QED  BY <3>1, <2>1, <1>a
  <2>4. ~Pending(f.at)'
    BY <1>7, <2>2, <2>3 DEF Pending
  <2> QED  BY <2>1, <2>4, <1>8, <1>9 DEF Settled
<1> QED  BY <1>4, <1>7, <1>9, <1>10, <1>12, <1>13, <1>14, <1>15, <1>16, <1>17, PicturesStay

LEMMA ChoiceFacts == Choice \subseteq Flat \cup States
BY DEF Choice, Kinds

LEMMA DrawInv ==
  ASSUME WriterInv, Draw
  PROVE  WriterInv' /\ Steady
<1> PICK c \in Choice :
      /\ file' = Ended(Begun(file, Opcode(c)) \o Payload(c), Len(file))
      /\ Finish(Len(file) + 1, Len(Payload(c)))
      /\ Tell(c)
      /\ fPictureStack' = fPictureStack /\ fChunkStack' = fChunkStack /\ pictures' = pictures /\ blocks' = blocks
  BY DEF Draw
<1>0. At({"ops"})
  BY DEF Draw
<1> DEFINE size == Len(Payload(c))
<1>1. c \in Flat \cup States /\ Opcode(c) \in Opcodes /\ Payload(c) \in Seq(FileCells)
  BY ChoiceFacts, PayloadCells DEF Opcodes
<1>2. /\ file \in Seq(FileCells) /\ Len(file) \in Nat /\ blocks \in Seq(OpenBlocks) /\ fChunkStack \in Seq(Nat)
      /\ Len(fChunkStack) = Len(blocks) /\ \A k \in 1..Len(blocks) : fChunkStack[k] = blocks[k].at
      /\ fields \subseteq [at : Nat, value : Nat]
  BY DEF WriterInv, WriterTypes, StacksInv
<1>3. /\ file' \in Seq(FileCells) /\ size \in Nat /\ Len(file') = Len(file) + 2 + size
      /\ \A q \in 1..Len(file) : file'[q] = file[q]
      /\ file'[Len(file) + 2] = Int32(size)
  <2>1. file' = Chunk(file, Opcode(c), Payload(c))
    BY DEF Chunk
  <2> PICK op \in Opcodes : op = Opcode(c)
    BY <1>1
  <2> PICK g \in Seq(FileCells) : g = Payload(c)
    BY <1>1
  <2>2. /\ Chunk(file, op, g) \in Seq(FileCells)
        /\ Len(g) \in Nat /\ Len(Chunk(file, op, g)) = Len(file) + 2 + Len(g)
        /\ \A q \in 1..Len(file) : Chunk(file, op, g)[q] = file[q]
        /\ Chunk(file, op, g)[Len(file) + 2] = Int32(Len(g))
    BY <1>2, ChunkFacts
  <2>3. file' = Chunk(file, op, g) /\ size = Len(g)
    BY <2>1
  <2> HIDE DEF size
  <2> QED  BY <2>2, <2>3
<1>4. fields' = fields \cup {[at |-> Len(file) + 1, value |-> size]}
  BY DEF Finish
<1> HIDE DEF size
<1>5. /\ pictures # <<>> /\ Picture = pictures[Len(pictures)] /\ Picture \in OpenPictures /\ Picture.stage = "ops" /\ Placed(file, Picture)
      /\ Len(pictures) \in Nat \ {0}
      /\ \A k \in 1..(Len(pictures) - 1) : pictures[k] \in OpenPictures /\ pictures[k].stage = "pictures" /\ pictures[k].at + 3 <= Picture.at
  BY <1>0, CallerAt
<1>6. Picture.at \in Nat /\ Picture.opsAt \in Nat /\ Picture.at + 4 <= Picture.opsAt /\ Picture.opsAt <= Len(file)
  BY <1>5 DEF Placed, OpenPictures
<1>7. \A k \in 1..Len(blocks) : blocks[k].at \in Nat /\ blocks[k].at + 2 <= Len(file)
  <2>1. \A k \in 1..Len(blocks) : blocks[k] \in OpenBlocks
    BY <1>2
  <2>2. \A k \in 1..Len(blocks) : blocks[k].at \in Nat
    BY <2>1 DEF OpenBlocks
  <2> QED  BY <2>2 DEF WriterInv, BlocksInv
<1>8. BlocksInv'
  <2>1. \A k \in 1..Len(blocks) : blocks[k].at + 2 <= Len(file')
    BY <1>2, <1>3, <1>7
  <2> QED  BY <2>1 DEF WriterInv, BlocksInv
<1>9. \A q : Settled(q) => file'[q + 1] = file[q + 1] /\ \A k \in 1..Len(blocks') : q # blocks'[k].at + 1
  BY <1>2, <1>3 DEF Settled, Pending
<1>10. told' \in Seq(Calls) /\ told' # <<>>
  BY <1>1, ToldFacts
<1>11. fields' \subseteq [at : Nat, value : Nat] /\ Len(file') >= Len(file)
  BY <1>2, <1>3, <1>4
<1>12. \A q \in 1..(Picture.opsAt - 1) : file'[q] = file[q]
  <2>1. \A q \in 1..(Picture.opsAt - 1) : q \in 1..Len(file)
    BY <1>2, <1>6
  <2> QED  BY <2>1, <1>3
<1>13. ASSUME NEW f \in fields' \ fields
       PROVE  Settled(f.at)' /\ file'[f.at + 1] = Int32(f.value)
  <2>1. f.at = Len(file) + 1 /\ f.value = size
    BY <1>4
  <2>2. ASSUME NEW k \in 1..Len(pictures)
        PROVE  f.at # pictures[k].at + 2 /\ ~(pictures[k].stage = "ops" /\ f.at = pictures[k].opsAt - 1)
    <3>1. CASE k = Len(pictures)
      <4>1. pictures[k].at = Picture.at /\ pictures[k].opsAt = Picture.opsAt
        BY <3>1, <1>5
      <4>2. Len(file) + 1 # Picture.at + 2 /\ Len(file) + 1 # Picture.opsAt - 1
        BY <1>2, <1>6
      <4> QED  BY <4>1, <4>2, <2>1
    <3>2. CASE k # Len(pictures)
      <4>1. k \in 1..(Len(pictures) - 1)
        BY <3>2, <1>5
      <4>2. pictures[k].stage = "pictures" /\ pictures[k].at + 3 <= Picture.at /\ pictures[k].at \in Nat
        BY <4>1, <1>5 DEF OpenPictures
      <4> PICK y \in Nat : y = pictures[k].at
        BY <4>2
      <4>a. y + 3 <= Picture.at /\ Picture.at <= Len(file) /\ Picture.at \in Nat /\ Len(file) \in Nat
        BY <4>2, <1>2, <1>6
      <4>3. Len(file) + 1 # y + 2
        BY <4>a, Apart
      <4> QED  BY <4>2, <4>3, <2>1
    <3> QED  BY <3>1, <3>2
  <2>3. \A k \in 1..Len(blocks) : f.at # blocks[k].at + 1
    <3> SUFFICES ASSUME NEW k \in 1..Len(blocks)  PROVE f.at # blocks[k].at + 1
      OBVIOUS
    <3>1. blocks[k].at \in Nat /\ blocks[k].at + 2 <= Len(file)
      BY <1>7
    <3> QED  BY <3>1, <2>1, <1>2
  <2>4. ~Pending(f.at)'
    BY <2>2, <2>3 DEF Pending
  <2>5. f.at \in Nat /\ f.at < Len(file') /\ f.at + 1 = Len(file) + 2
    BY <2>1, <1>2, <1>3
  <2> QED  BY <2>1, <2>4, <2>5, <1>3 DEF Settled
<1>14. /\ blocks' \in Seq(OpenBlocks) /\ fChunkStack' \in Seq(Nat) /\ Len(fChunkStack') = Len(blocks')
       /\ \A k \in 1..Len(blocks') : fChunkStack'[k] = blocks'[k].at
  BY <1>2
<1>15. pictures' = pictures /\ fPictureStack' = fPictureStack
  OBVIOUS
<1> QED  BY <1>0, <1>3, <1>8, <1>9, <1>10, <1>11, <1>12, <1>13, <1>14, <1>15, PicturesStay

\* The picture around the innermost one is told that there is one more in it.
MoreInside(s) == IF Len(s) = 0 THEN s ELSE [s EXCEPT ![Len(s)].inside = @ + 1]
MoreCounted(i) == IF Len(i) = 0 THEN i ELSE [i EXCEPT ![Len(i)].pictCnt = @ + 1]

LEMMA OneMore ==
  ASSUME NEW s \in Seq(OpenPictures), NEW i \in Seq(Infos), Len(i) = Len(s)
  PROVE  /\ MoreInside(s) \in Seq(OpenPictures) /\ Len(MoreInside(s)) = Len(s) /\ Len(s) \in Nat
         /\ MoreCounted(i) \in Seq(Infos) /\ Len(MoreCounted(i)) = Len(s)
         /\ \A k \in 1..Len(s) :
               /\ MoreInside(s)[k].at = s[k].at /\ MoreInside(s)[k].stage = s[k].stage /\ MoreInside(s)[k].opsAt = s[k].opsAt
               /\ MoreInside(s)[k].inside = (IF k = Len(s) THEN s[k].inside + 1 ELSE s[k].inside)
               /\ Matches(i[k], s[k]) => Matches(MoreCounted(i)[k], MoreInside(s)[k])
<1> DEFINE r == MoreInside(s)
<1> DEFINE t == MoreCounted(i)
<1> DEFINE n == Len(s)
<1>1. CASE n = 0
  BY <1>1 DEF MoreInside, MoreCounted
<1>2. CASE n # 0
  <2>1. s # <<>> /\ i # <<>> /\ n \in 1..n /\ n \in Nat \ {0} /\ s[n] \in OpenPictures /\ i[n] \in Infos
    BY <1>2
  <2> DEFINE p == [s[n] EXCEPT !.inside = @ + 1]
  <2> DEFINE q == [i[n] EXCEPT !.pictCnt = @ + 1]
  <2>2. /\ p \in OpenPictures /\ p.at = s[n].at /\ p.stage = s[n].stage /\ p.opsAt = s[n].opsAt /\ p.inside = s[n].inside + 1
    <3>1. s[n].inside + 1 \in Nat /\ s[n] \in OpenPictures
      BY <2>1 DEF OpenPictures
    <3> QED  BY <3>1 DEF OpenPictures
  <2>3. /\ q \in Infos /\ q.pos = i[n].pos /\ q.opsPos = i[n].opsPos /\ q.pictures = i[n].pictures /\ q.ops = i[n].ops
        /\ q.pictCnt = i[n].pictCnt + 1
    <3>1. i[n].pictCnt + 1 \in Nat /\ i[n] \in Infos
      BY <2>1 DEF Infos
    <3> QED  BY <3>1 DEF Infos
  <2>4. r = [s EXCEPT ![Len(s)] = p] /\ t = [i EXCEPT ![Len(i)] = q]
    BY <1>2 DEF MoreInside, MoreCounted
  <2> HIDE DEF p, q, r, t
  <2>5. r \in Seq(OpenPictures) /\ Len(r) = n /\ r[n] = p /\ \A k \in 1..(n - 1) : r[k] = s[k]
    <3>1. s # <<>> /\ p \in OpenPictures
      BY <2>1, <2>2
    <3>2. /\ [s EXCEPT ![Len(s)] = p] \in Seq(OpenPictures) /\ Len([s EXCEPT ![Len(s)] = p]) = Len(s)
          /\ [s EXCEPT ![Len(s)] = p][Len(s)] = p
          /\ \A k \in 1..(Len(s) - 1) : [s EXCEPT ![Len(s)] = p][k] = s[k]
      BY <3>1, ExceptLast
    <3> QED  BY <3>2, <2>4
  <2>6. t \in Seq(Infos) /\ Len(t) = n /\ t[n] = q /\ \A k \in 1..(n - 1) : t[k] = i[k]
    <3>1. i # <<>> /\ q \in Infos
      BY <2>1, <2>3
    <3>2. /\ [i EXCEPT ![Len(i)] = q] \in Seq(Infos) /\ Len([i EXCEPT ![Len(i)] = q]) = Len(i)
          /\ [i EXCEPT ![Len(i)] = q][Len(i)] = q
          /\ \A k \in 1..(Len(i) - 1) : [i EXCEPT ![Len(i)] = q][k] = i[k]
      BY <3>1, ExceptLast
    <3> QED  BY <3>2, <2>4
  <2>7. ASSUME NEW k \in 1..n
        PROVE  /\ r[k].at = s[k].at /\ r[k].stage = s[k].stage /\ r[k].opsAt = s[k].opsAt
               /\ r[k].inside = (IF k = n THEN s[k].inside + 1 ELSE s[k].inside)
               /\ Matches(i[k], s[k]) => Matches(t[k], r[k])
    <3>1. CASE k = n
      <4>1. Matches(i[n], s[n]) => Matches(q, p)
        BY <2>2, <2>3 DEF Matches
      <4> QED  BY <3>1, <4>1, <2>2, <2>5, <2>6
    <3>2. CASE k # n
      <4>1. k \in 1..(n - 1)
        BY <3>2, <2>1
      <4> QED  BY <3>2, <4>1, <2>5, <2>6
    <3> QED  BY <3>1, <3>2
  <2> QED  BY <2>1, <2>5, <2>6, <2>7 DEF r, t
<1> QED  BY <1>1, <1>2

LEMMA EnterPictureInv ==
  ASSUME WriterInv, EnterPicture
  PROVE  WriterInv' /\ Steady
<1> DEFINE n == Len(pictures)
<1> DEFINE info == [pos |-> Len(file), pictCnt |-> 0, opsPos |-> 0, pictures |-> FALSE, ops |-> FALSE]
<1> DEFINE p == [at |-> Len(file), stage |-> "new", inside |-> 0, opsAt |-> 0]
<1> DEFINE around == IF n = 0 THEN pictures ELSE [pictures EXCEPT ![n].inside = @ + 1]
<1> DEFINE below == IF n = 0 THEN fPictureStack ELSE [fPictureStack EXCEPT ![n].pictCnt = @ + 1]
<1>1. /\ file \in Seq(FileCells) /\ Len(file) \in Nat /\ pictures \in Seq(OpenPictures) /\ fPictureStack \in Seq(Infos)
      /\ n \in Nat /\ Len(fPictureStack) = n /\ fields \subseteq [at : Nat, value : Nat]
  BY DEF WriterInv, WriterTypes, StacksInv
<1>2. /\ file' \in Seq(FileCells) /\ Len(file') = Len(file) + 2
      /\ \A q \in 1..Len(file) : file'[q] = file[q]
  <2>1. <<Int32(0), Int32(0)>> \in Seq(FileCells) /\ Len(<<Int32(0), Int32(0)>>) = 2
    BY Counts32
  <2> QED  BY <2>1, <1>1, GrowFacts DEF EnterPicture
<1>3. \A k \in 1..n : pictures[k].stage = "pictures"
  <2>1. CASE told = <<>>
    BY <2>1 DEF WriterInv, WriterTypes
  <2>2. CASE At({"pictures"})
    <3> SUFFICES ASSUME NEW k \in 1..n  PROVE pictures[k].stage = "pictures"
      OBVIOUS
    <3>1. pictures[n].stage = "pictures" /\ \A l \in 1..(n - 1) : pictures[l].stage = "pictures"
      BY <2>2, CallerAt
    <3> QED  BY <3>1, <1>1
  <2> QED  BY <2>1, <2>2 DEF EnterPicture
<1>4. blocks = <<>> /\ blocks' = <<>>
  <2>1. blocks # <<>> => n \in 1..n /\ pictures[n].stage = "ops"
    BY <1>1 DEF WriterInv, BlocksInv
  <2> QED  BY <2>1, <1>3 DEF EnterPicture
<1>5. /\ around \in Seq(OpenPictures) /\ Len(around) = n /\ below \in Seq(Infos) /\ Len(below) = n
      /\ \A k \in 1..n :
            /\ around[k].at = pictures[k].at /\ around[k].stage = pictures[k].stage /\ around[k].opsAt = pictures[k].opsAt
            /\ Matches(below[k], around[k])
            /\ around[k].inside = (IF k = n THEN pictures[k].inside + 1 ELSE pictures[k].inside)
  <2>1. \A k \in 1..n : Matches(fPictureStack[k], pictures[k])
    BY DEF WriterInv, StacksInv
  <2>2. around = MoreInside(pictures) /\ below = MoreCounted(fPictureStack)
    BY <1>1 DEF MoreInside, MoreCounted
  <2> HIDE DEF around, below
  <2>3. /\ MoreInside(pictures) \in Seq(OpenPictures) /\ Len(MoreInside(pictures)) = n
        /\ MoreCounted(fPictureStack) \in Seq(Infos) /\ Len(MoreCounted(fPictureStack)) = n
        /\ \A k \in 1..n :
              LET r == MoreInside(pictures)[k] IN
              /\ r.at = pictures[k].at /\ r.stage = pictures[k].stage /\ r.opsAt = pictures[k].opsAt
              /\ r.inside = (IF k = n THEN pictures[k].inside + 1 ELSE pictures[k].inside)
              /\ Matches(fPictureStack[k], pictures[k]) => Matches(MoreCounted(fPictureStack)[k], r)
    BY <1>1, OneMore
  <2> QED  BY <2>1, <2>2, <2>3
<1>6. pictures' = Append(around, p) /\ fPictureStack' = Append(below, info)
  BY <1>1 DEF EnterPicture
<1> HIDE DEF around, below
<1>7. p \in OpenPictures /\ info \in Infos /\ Matches(info, p) /\ p.at = Len(file) /\ p.stage = "new" /\ p.inside = 0
  <2>1. p \in OpenPictures /\ p.at = Len(file) /\ p.stage = "new" /\ p.inside = 0
    BY <1>1 DEF OpenPictures
  <2>2. /\ info \in Infos /\ info.pos = Len(file) /\ info.pictCnt = 0 /\ info.pictures = FALSE /\ info.ops = FALSE /\ ~info.ops
    BY <1>1 DEF Infos
  <2> HIDE DEF p, info
  <2>3. (p.stage # "new") = FALSE /\ (p.stage \in {"ops", "drawn"}) = FALSE
    BY <2>1
  <2>4. info.pictures = (p.stage # "new") /\ info.ops = (p.stage \in {"ops", "drawn"})
    BY <2>2, <2>3
  <2> QED  BY <2>1, <2>2, <2>4 DEF Matches
<1> HIDE DEF p, info
<1>8. /\ pictures' \in Seq(OpenPictures) /\ Len(pictures') = n + 1 /\ pictures'[n + 1] = p
      /\ \A k \in 1..n : pictures'[k] = around[k]
  BY <1>5, <1>6, <1>7, AppendFacts
<1>9. /\ fPictureStack' \in Seq(Infos) /\ Len(fPictureStack') = n + 1 /\ fPictureStack'[n + 1] = info
      /\ \A k \in 1..n : fPictureStack'[k] = below[k]
  BY <1>5, <1>6, <1>7, AppendFacts
<1>10. \A k \in 1..n : /\ pictures'[k].at = pictures[k].at /\ pictures'[k].stage = "pictures"
                        /\ pictures[k].at \in Nat /\ pictures[k].at + 3 <= Len(file)
  <2> SUFFICES ASSUME NEW k \in 1..n
               PROVE  /\ pictures'[k].at = pictures[k].at /\ pictures'[k].stage = "pictures"
                      /\ pictures[k].at \in Nat /\ pictures[k].at + 3 <= Len(file)
    OBVIOUS
  <2>1. pictures[k] \in OpenPictures /\ Placed(file, pictures[k])
    BY <1>1 DEF WriterInv, PicturesInv
  <2>2. pictures[k].at \in Nat /\ pictures[k].at + 3 <= Len(file)
    BY <2>1, <1>3 DEF OpenPictures, Placed
  <2> QED  BY <2>2, <1>3, <1>5, <1>8
<1>11. WriterTypes'
  <2>1. told' \in Seq(Calls) /\ told' # <<>>
    <3>1. "EnterPicture" \in Structure
      BY DEF Structure
    <3> QED  BY <3>1, ToldFacts DEF EnterPicture
  <2> QED  BY <2>1, <1>1, <1>2, <1>8, <1>9 DEF EnterPicture, WriterInv, WriterTypes
<1>12. StacksInv'
  <2>1. ASSUME NEW k \in 1..(n + 1)  PROVE Matches(fPictureStack'[k], pictures'[k])
    <3>1. CASE k = n + 1
      BY <3>1, <1>7, <1>8, <1>9
    <3>2. CASE k # n + 1
      <4>1. k \in 1..n
        BY <3>2, <1>1
      <4> QED  BY <4>1, <1>5, <1>8, <1>9
    <3> QED  BY <3>1, <3>2
  <2> QED  BY <2>1, <1>8, <1>9 DEF EnterPicture, WriterInv, StacksInv
<1>13. PicturesInv'
  <2>1. ASSUME NEW k \in 1..(n + 1)  PROVE Placed(file', pictures'[k])
    <3>1. CASE k = n + 1
      BY <3>1, <1>1, <1>2, <1>7, <1>8 DEF Placed
    <3>2. CASE k # n + 1
      <4>1. k \in 1..n
        BY <3>2, <1>1
      <4> QED  BY <4>1, <1>1, <1>2, <1>10 DEF Placed
    <3> QED  BY <3>1, <3>2
  <2>2. ASSUME NEW k \in 1..(n + 1), NEW l \in 1..(n + 1), k < l
        PROVE  pictures'[k].stage = "pictures" /\ pictures'[k].at + 3 <= pictures'[l].at
    <3>1. k \in 1..n
      BY <1>1, <2>2
    <3>2. CASE l = n + 1
      BY <3>1, <3>2, <1>7, <1>8, <1>10
    <3>3. CASE l # n + 1
      <4>1. l \in 1..n
        BY <3>3, <1>1
      <4>2. pictures[k].at + 3 <= pictures[l].at
        BY <2>2, <3>1, <4>1 DEF WriterInv, PicturesInv
      <4> QED  BY <3>1, <4>1, <4>2, <1>10
    <3> QED  BY <3>2, <3>3
  <2>3. ASSUME NEW k \in 1..n  PROVE pictures'[k].inside > 0
    <3>1. pictures'[k].inside = (IF k = n THEN pictures[k].inside + 1 ELSE pictures[k].inside)
      BY <1>5, <1>8
    <3>2. CASE k = n
      <4>1. pictures[k] \in OpenPictures
        BY <1>1
      <4>2. pictures[k].inside \in Nat
        BY <4>1 DEF OpenPictures
      <4> QED  BY <3>1, <3>2, <4>2
    <3>3. CASE k # n
      <4>1. k \in 1..(n - 1)
        BY <3>3, <1>1
      <4>2. pictures[k].inside > 0
        BY <4>1 DEF WriterInv, PicturesInv
      <4> QED  BY <3>1, <3>3, <4>2
    <3> QED  BY <3>2, <3>3
  <2>4. \A k \in 1..(n + 1 - 1) : pictures'[k].inside > 0
    <3>1. n + 1 - 1 = n
      BY <1>1
    <3> QED  BY <3>1, <2>3
  <2> QED  BY <1>8, <2>1, <2>2, <2>4 DEF PicturesInv
<1>14. BlocksInv'
  BY <1>4 DEF BlocksInv
<1>15. Steady
  <2> SUFFICES ASSUME NEW q, Settled(q)
               PROVE  Settled(q)' /\ file'[q + 1] = file[q + 1]
    BY DEF Steady
  <2>1. q \in Nat /\ q < Len(file) /\ q < Len(file') /\ q + 1 \in 1..Len(file)
    BY <1>1, <1>2 DEF Settled
  <2>2. ASSUME NEW k \in 1..(n + 1)
        PROVE  q # pictures'[k].at + 2 /\ pictures'[k].stage # "ops"
    <3>1. CASE k = n + 1
      BY <3>1, <2>1, <1>1, <1>7, <1>8
    <3>2. CASE k # n + 1
      <4>1. k \in 1..n
        BY <3>2, <1>1
      <4>2. q # pictures[k].at + 2
        BY <4>1 DEF Settled, Pending
      <4> QED  BY <4>1, <4>2, <1>10
    <3> QED  BY <3>1, <3>2
  <2>3. 1..Len(blocks') = {}
    BY <1>4
  <2>4. ~Pending(q)'
    BY <1>8, <2>2, <2>3 DEF Pending
  <2> QED  BY <2>1, <2>4, <1>2 DEF Settled
<1>16. FieldsInv'
  <2>1. fields' = fields
    BY DEF EnterPicture
  <2> QED  BY <2>1, <1>15 DEF WriterInv, FieldsInv, Steady
<1> QED  BY <1>11, <1>12, <1>13, <1>14, <1>15, <1>16 DEF WriterInv

LEMMA ExitPictureInv ==
  ASSUME WriterInv, ExitPicture
  PROVE  WriterInv' /\ Steady
<1> DEFINE n == Len(pictures)
<1>1. At({"new", "pictured", "drawn"})
  BY DEF ExitPicture
<1>2. /\ pictures # <<>> /\ fPictureStack # <<>> /\ Picture = pictures[n] /\ Picture \in OpenPictures
      /\ Picture.stage \in {"new", "pictured", "drawn"}
      /\ Info = fPictureStack[n] /\ Info \in Infos /\ Matches(Info, Picture) /\ Placed(file, Picture) /\ Len(fPictureStack) = n
      /\ n \in Nat \ {0} /\ Picture.at \in Nat /\ Picture.inside \in Nat
      /\ \A k \in 1..(n - 1) : pictures[k] \in OpenPictures /\ pictures[k].stage = "pictures" /\ pictures[k].at + 3 <= Picture.at
  BY <1>1, CallerAt DEF OpenPictures
<1>3. blocks = <<>> /\ blocks' = <<>>
  BY <1>1, NoBlocks DEF ExitPicture
<1>4. /\ file \in Seq(FileCells) /\ Len(file) \in Nat /\ pictures \in Seq(OpenPictures) /\ fPictureStack \in Seq(Infos)
      /\ fields \subseteq [at : Nat, value : Nat]
  BY DEF WriterInv, WriterTypes
<1>5. /\ pictures' \in Seq(OpenPictures) /\ Len(pictures') = n - 1 /\ \A k \in 1..(n - 1) : pictures'[k] = pictures[k]
      /\ fPictureStack' \in Seq(Infos) /\ Len(fPictureStack') = n - 1 /\ \A k \in 1..(n - 1) : fPictureStack'[k] = fPictureStack[k]
  BY <1>2, <1>4, FrontFacts DEF ExitPicture
<1> DEFINE counted == file \o (IF Info.pictures THEN <<>> ELSE <<Int32(Info.pictCnt)>>)
<1>6. /\ counted \in Seq(FileCells) /\ Len(counted) \in Nat /\ Len(counted) >= Len(file)
      /\ \A q \in 1..Len(file) : counted[q] = file[q]
      /\ Picture.at + 3 <= Len(counted) /\ counted[Picture.at + 3] = Int32(Picture.inside)
  <2>1. CASE Picture.stage = "new"
    <3>1. Info.pictures = FALSE /\ Info.pictCnt = Picture.inside /\ Picture.at + 2 = Len(file)
      BY <2>1, <1>2 DEF Matches, Placed
    <3>2. counted = file \o <<Int32(Picture.inside)>>
      BY <3>1
    <3>3. <<Int32(Picture.inside)>> \in Seq(FileCells) /\ Len(<<Int32(Picture.inside)>>) = 1
      BY <1>2, Counts32
    <3> PICK g \in Seq(FileCells) : g = <<Int32(Picture.inside)>> /\ Len(g) = 1 /\ g[1] = Int32(Picture.inside)
      BY <3>3
    <3>4. counted = file \o g
      BY <3>2
    <3> HIDE DEF counted
    <3>5. /\ file \o g \in Seq(FileCells) /\ Len(file \o g) = Len(file) + 1
          /\ \A q \in 1..Len(file) : (file \o g)[q] = file[q]
          /\ (file \o g)[Len(file) + 1] = g[1]
      BY <1>4, GrowFacts
    <3>6. Picture.at + 3 = Len(file) + 1 /\ Picture.at + 3 <= Len(file) + 1
      BY <3>1, <1>2, <1>4
    <3> QED  BY <3>4, <3>5, <3>6, <1>4
  <2>2. CASE Picture.stage \in {"pictured", "drawn"}
    <3>1. Info.pictures = TRUE /\ Picture.at + 3 <= Len(file) /\ file[Picture.at + 3] = Int32(Picture.inside)
      BY <2>2, <1>2 DEF Matches, Placed
    <3>2. counted = file
      BY <3>1, <1>4
    <3> HIDE DEF counted
    <3> QED  BY <3>1, <3>2, <1>4
  <2> QED  BY <2>1, <2>2, <1>2
<1> DEFINE last == IF Info.ops THEN <<>> ELSE <<Int32(0)>>
<1>7. file' = counted \o last
  BY DEF ExitPicture
<1>8. last \in Seq(FileCells)
  BY Counts32
<1> HIDE DEF counted, last
<1>9. /\ file' \in Seq(FileCells) /\ Len(file') \in Nat /\ Len(file') >= Len(counted)
      /\ \A q \in 1..Len(counted) : file'[q] = counted[q]
  <2>1. /\ counted \o last \in Seq(FileCells) /\ Len(counted \o last) = Len(counted) + Len(last) /\ Len(last) \in Nat
        /\ \A q \in 1..Len(counted) : (counted \o last)[q] = counted[q]
    BY <1>6, <1>8, GrowFacts
  <2> QED  BY <2>1, <1>6, <1>7
<1>10. /\ Len(file') >= Len(file) /\ \A q \in 1..Len(file) : file'[q] = file[q]
       /\ Picture.at + 3 <= Len(file') /\ file'[Picture.at + 3] = Int32(Picture.inside)
  BY <1>2, <1>4, <1>6, <1>9
<1>11. fields' = fields \cup {[at |-> Picture.at + 2, value |-> Picture.inside]}
  BY DEF ExitPicture, Finish
<1>12. WriterTypes'
  <2>1. told' \in Seq(Calls) /\ told' # <<>>
    <3>1. "ExitPicture" \in Structure
      BY DEF Structure
    <3> QED  BY <3>1, ToldFacts DEF ExitPicture
  <2>2. fields' \subseteq [at : Nat, value : Nat]
    <3>1. Picture.at + 2 \in Nat
      BY <1>2
    <3> QED  BY <3>1, <1>2, <1>4, <1>11
  <2> QED  BY <2>1, <2>2, <1>5, <1>9 DEF ExitPicture, WriterInv, WriterTypes
<1>13. \A k \in 1..(n - 1) : k \in 1..n
  BY <1>2
<1>14. StacksInv'
  BY <1>5, <1>13 DEF ExitPicture, WriterInv, StacksInv
<1>15. PicturesInv'
  <2>1. ASSUME NEW k \in 1..(n - 1)  PROVE Placed(file', pictures[k])
    <3>1. Placed(file, pictures[k]) /\ pictures[k].stage = "pictures" /\ pictures[k].at \in Nat
      BY <1>2, <1>13 DEF WriterInv, PicturesInv, OpenPictures
    <3> QED  BY <3>1, <1>4, <1>9, <1>10 DEF Placed
  <2>2. \A k \in 1..(n - 1 - 1) : k \in 1..(n - 1) /\ pictures[k].inside > 0
    BY <1>2 DEF WriterInv, PicturesInv
  <2>3. \A k, l \in 1..(n - 1) : k < l => pictures[k].stage = "pictures" /\ pictures[k].at + 3 <= pictures[l].at
    BY <1>13 DEF WriterInv, PicturesInv
  <2> QED  BY <2>1, <2>2, <2>3, <1>5 DEF PicturesInv
<1>16. BlocksInv'
  BY <1>3 DEF BlocksInv
<1>17. 1..Len(blocks') = {}
  BY <1>3
<1>18. Steady
  <2> SUFFICES ASSUME NEW q, Settled(q)
               PROVE  Settled(q)' /\ file'[q + 1] = file[q + 1]
    BY DEF Steady
  <2>1. q \in Nat /\ q < Len(file) /\ q < Len(file') /\ q + 1 \in 1..Len(file)
    BY <1>4, <1>9, <1>10 DEF Settled
  <2>2. \A k \in 1..(n - 1) : q # pictures'[k].at + 2 /\ pictures'[k].stage # "ops"
    BY <1>2, <1>5, <1>13 DEF Settled, Pending
  <2>3. ~Pending(q)'
    BY <1>5, <1>17, <2>2 DEF Pending
  <2> QED  BY <2>1, <2>3, <1>10 DEF Settled
<1>19. FieldsInv'
  <2>1. ASSUME NEW f \in fields'  PROVE Settled(f.at)' /\ file'[f.at + 1] = Int32(f.value)
    <3>1. CASE f \in fields
      BY <3>1, <1>18 DEF WriterInv, FieldsInv, Steady
    <3>2. CASE f \notin fields
      <4>1. f.at = Picture.at + 2 /\ f.value = Picture.inside
        BY <3>2, <1>11
      <4>2. f.at \in Nat /\ f.at < Len(file') /\ f.at + 1 = Picture.at + 3
        BY <4>1, <1>2, <1>9, <1>10
      <4>3. ASSUME NEW k \in 1..(n - 1)
            PROVE  f.at # pictures'[k].at + 2 /\ pictures'[k].stage # "ops"
        <5>1. pictures'[k] = pictures[k] /\ pictures[k].stage = "pictures" /\ pictures[k].at \in Nat /\ pictures[k].at + 3 <= Picture.at
          BY <1>2, <1>5 DEF OpenPictures
        <5> QED  BY <5>1, <4>1, <1>2
      <4>4. ~Pending(f.at)'
        BY <4>3, <1>5, <1>17 DEF Pending
      <4> QED  BY <4>1, <4>2, <4>4, <1>10 DEF Settled
    <3> QED  BY <3>1, <3>2
  <2> QED  BY <2>1 DEF FieldsInv
<1> QED  BY <1>12, <1>14, <1>15, <1>16, <1>18, <1>19 DEF WriterInv

LEMMA WriterStart == Init => WriterInv
BY EmptySeq DEF Init, WriterInv, WriterTypes, StacksInv, PicturesInv, BlocksInv, FieldsInv

LEMMA WriterStep ==
  ASSUME WriterInv, WriterNext
  PROVE  WriterInv' /\ Steady
BY EnterPictureInv, ExitPictureInv, EnterPicturesInv, ExitPicturesInv, EnterOpsInv, ExitOpsInv, EnterBlockInv, ExitBlockInv, DrawInv
   DEF WriterNext

LEMMA WriterStutters ==
  ASSUME WriterInv, UNCHANGED writer
  PROVE  WriterInv' /\ Steady
<1>1. WriterInv'
  BY DEF writer, WriterInv, WriterTypes, StacksInv, PicturesInv, BlocksInv, FieldsInv, Settled, Pending
<1>2. Steady
  BY DEF writer, Steady, Settled, Pending
<1> QED  BY <1>1, <1>2

(***************************************************************************)
(* What the writer has patched in says what it measured, and goes on to.   *)
(***************************************************************************)
THEOREM WriterIsConsistent == Spec => []WriterInv
<1>1. Start => WriterInv
  BY WriterStart DEF Start
<1>2. WriterInv /\ [Next]_vars => WriterInv'
  BY WriterStep, WriterStutters DEF Next, vars, ReaderNext
<1> QED  BY <1>1, <1>2, PTL DEF Spec

(***************************************************************************)
(* FieldsHold, for every picture: sizes and counts that were finished      *)
(* (PictureWriterBinary.cpp:56, :161, :180, :201) are never written over.  *)
(***************************************************************************)
THEOREM SizesAndCountsHold == Spec => []FieldsHold
<1>1. WriterInv => FieldsHold
  BY DEF WriterInv, FieldsInv, FieldsHold, Settled
<1> QED  BY <1>1, WriterIsConsistent, PTL

(***************************************************************************)
(* The reader.  What it has to hear is kept in a log beside the file: a    *)
(* token is a call, the place where the file has it, and the levels it is  *)
(* in.  Each call of the writer appends the tokens that are read of it, and *)
(* what a token says of the file stays true of every later one: what it    *)
(* needs is settled, or a level that is open will settle it.  When the file *)
(* is complete, the reader stands at the next token, in frames of its levels. *)
(***************************************************************************)
\* A level: a picture, or a list of operations; where it begins, and how many
\* pictures inside the picture have been met.
Level(m, form, base, nth) == [m |-> m, form |-> form, base |-> base, nth |-> nth]
Levels == [m : Enter \cup {"EnterPicture"}, form : {"pictures", "ops"}, base : Nat, nth : Nat]
Tokens == [c : Calls, at : Nat, path : Seq(Levels)]

BlockExits == {Exit(m) : m \in Enter}
IsOp(c) == c \in Flat \cup States

\* Where the file goes on behind a token, and in what.
Behind(t) ==
    IF t.c.m = "EnterPicture" THEN t.at + 3
    ELSE IF t.c.m = "EnterOps" THEN t.at + 1
    ELSE IF t.c.m \in Enter THEN t.at + 2
    ELSE IF IsOp(t.c) THEN t.at + 2 + Len(Payload(t.c))
    ELSE t.at
Met(path) == IF path = <<>> THEN path ELSE [path EXCEPT ![Len(path)].nth = @ + 1]
After(t) ==
    IF t.c.m = "EnterPicture" THEN Append(Met(t.path), Level("EnterPicture", "pictures", t.at, 0))
    ELSE IF t.c.m = "EnterOps" THEN Append(Front(t.path), Level("EnterPicture", "ops", t.at + 1, 0))
    ELSE IF t.c.m \in Enter THEN Append(t.path, Level(t.c.m, "ops", t.at + 2, 0))
    ELSE IF t.c.m \in BlockExits \cup {"ExitPicture"} THEN Front(t.path)
    ELSE t.path

First == [c |-> Call("EnterPicture"), at |-> 0, path |-> <<>>]

\* Which call may stand in what, and follow which.
Fits(t) ==
    LET top == t.path[Len(t.path)]
    IN  /\ top.form = "pictures" => t.c.m \in {"EnterPicture", "EnterPictures", "ExitPictures", "EnterOps"}
        /\ top.form = "ops" => t.c.m \notin {"EnterPicture", "EnterPictures", "ExitPictures", "EnterOps"}
        /\ t.c.m \in {"ExitOps", "ExitPicture"} => top.m = "EnterPicture"
        /\ t.c.m \in BlockExits => top.m \in Enter /\ t.c = Call(Exit(top.m))
        /\ t.c.m = "EnterPictures" => top.nth = 0
        /\ t.c.m = "ExitPictures" => top.nth > 0
Follows(c, d) ==
    /\ c = "EnterPicture" => d \in {"EnterPictures", "EnterOps"}
    /\ c = "EnterPictures" => d = "EnterPicture"
    /\ c = "ExitPictures" => d = "EnterOps"
    /\ c = "ExitOps" <=> d = "ExitPicture"
    /\ d = "EnterPictures" => c = "EnterPicture"
    /\ d = "EnterOps" => c \in {"EnterPicture", "ExitPictures"}

Chain(log) ==
    /\ log \in Seq(Tokens)
    /\ log # <<>> => log[1] = First
    /\ \A i \in 1..(Len(log) - 1) :
          /\ log[i + 1].at = Behind(log[i]) /\ log[i + 1].path = After(log[i]) /\ log[i + 1].path # <<>>
          /\ Fits(log[i + 1]) /\ Follows(log[i].c.m, log[i + 1].c.m)

\* The picture at a has more than n pictures inside; it has n, and no more.
Counts(a, n) ==
    \/ \E k \in 1..Len(pictures) : pictures[k].at = a /\ pictures[k].inside > n
    \/ Settled(a + 2) /\ file[a + 3].v > n
Final(a, n) ==
    \/ \E k \in 1..Len(pictures) : pictures[k].at = a /\ pictures[k].inside = n /\ pictures[k].stage \in {"pictured", "ops", "drawn"}
    \/ Settled(a + 2) /\ file[a + 3].v = n
\* A list of operations that is open.
OpenList(b) ==
    \/ \E k \in 1..Len(pictures) : pictures[k].stage = "ops" /\ b = pictures[k].opsAt
    \/ \E k \in 1..Len(blocks) : b = blocks[k].at + 2

\* What a token says of the file.
Holds(t) ==
    LET top == t.path[Len(t.path)]
    IN  /\ t.at <= Len(file)
        /\ t.c.m \in Enter => t.at + 2 <= Len(file) /\ Settled(t.at) /\ file[t.at + 1].op = EnterCode(t.c.m)
        /\ IsOp(t.c) =>
             /\ t.at + 2 + Len(Payload(t.c)) <= Len(file)
             /\ \A q \in t.at..(t.at + 1 + Len(Payload(t.c))) : Settled(q)
             /\ file[t.at + 1].op = Opcode(t.c) /\ file[t.at + 2].v = Len(Payload(t.c))
             /\ \A q \in 1..Len(Payload(t.c)) : file[t.at + 2 + q] = Payload(t.c)[q]
        /\ t.c.m \in Enter \/ IsOp(t.c) => OpenList(top.base) \/ (Settled(top.base - 1) /\ Behind(t) <= top.base + file[top.base].v)
        /\ t.c.m \in BlockExits \cup {"ExitOps"} => Settled(top.base - 1) /\ t.at = top.base + file[top.base].v
        /\ t.path # <<>> /\ t.c.m \in {"EnterPicture", "EnterPictures"} => Counts(top.base, top.nth)
        /\ t.c.m \in {"ExitPictures", "EnterOps"} => Final(top.base, top.nth)

\* Where the writer is.
PictureLevel(p) ==
    IF p.stage \in {"ops", "drawn"} THEN Level("EnterPicture", "ops", p.opsAt, 0) ELSE Level("EnterPicture", "pictures", p.at, p.inside)
BlockLevel(b) == Level(b.m, "ops", b.at + 2, 0)
PathOf(p, b) == [k \in 1..(Len(p) + Len(b)) |-> IF k <= Len(p) THEN PictureLevel(p[k]) ELSE BlockLevel(b[k - Len(p)])]
Path == PathOf(pictures, blocks)
Place == IF pictures # <<>> /\ pictures[Len(pictures)].stage = "new" THEN pictures[Len(pictures)].at + 3 ELSE Len(file)

\* The last call that is read, at each stage of the innermost picture.
Lately(m, p) ==
    /\ p.stage = "new" => m = "EnterPicture"
    /\ p.stage = "pictures" => m = (IF p.inside = 0 THEN "EnterPicture" ELSE "ExitPicture")
    /\ p.stage = "pictured" => m = (IF p.inside = 0 THEN "EnterPicture" ELSE "ExitPictures")
    /\ p.stage = "ops" => m \notin {"EnterPicture", "EnterPictures", "ExitPictures", "ExitOps"}
    /\ p.stage = "drawn" => m = "ExitOps"
Current(log) ==
    /\ log = <<>> <=> told = <<>>
    /\ log # <<>> =>
          LET t == log[Len(log)]
          IN  /\ Behind(t) = Place /\ After(t) = Path
              /\ IF pictures = <<>> THEN t.c.m = "ExitPicture" ELSE Lately(t.c.m, pictures[Len(pictures)])

\* EnterPictures is read when a picture follows.
Expected == IF pictures # <<>> /\ pictures[Len(pictures)].stage = "pictures" /\ pictures[Len(pictures)].inside = 0 THEN <<Call("EnterPictures")>> ELSE <<>>
Said(log) == [i \in 1..Len(log) |-> log[i].c]
Says(log) == FoldLeft(Came, <<>>, told) = Said(log) \o Expected

IsLog(log) == Chain(log) /\ (\A i \in 1..Len(log) : Holds(log[i])) /\ Current(log) /\ Says(log)

\* The frame of the reader for a level of file f.
Frame(f, l) ==
    IF l.form = "pictures"
    THEN [form |-> "pictures", count |-> f[l.base + 3].v, left |-> f[l.base + 3].v - l.nth]
    ELSE [form |-> "ops", block |-> l.m \in Enter,
          exit |-> IF l.m \in Enter THEN <<Call(Exit(l.m))>> ELSE <<Call("ExitOps"), Call("ExitPicture")>>,
          beg |-> l.base, size |-> f[l.base].v]
FramesOf(f, path) == [k \in 1..Len(path) |-> Frame(f, path[k])]

\* The reader of file f, at position p and in frames fr, has heard h of the log.
ReaderAt(f, log, h, p, fr) ==
    /\ h \in Seq(Calls) /\ Len(h) <= Len(log) /\ \A i \in 1..Len(h) : h[i] = log[i].c
    /\ Len(h) < Len(log) =>
          LET t == log[Len(h) + 1]
          IN  /\ t.c.m \notin {"EnterPictures", "ExitPicture"}
              /\ t.c.m = "EnterOps" => t.path[Len(t.path)].nth = 0
              /\ p = t.at /\ fr = FramesOf(f, t.path)
    /\ Len(h) = Len(log) => fr = <<>> /\ p = Len(f)
ReaderInv(log) == IF Complete THEN ReaderAt(file, log, heard, pos, frames) ELSE heard = <<>> /\ frames = <<>> /\ pos = 0

\* What a token says of the finished file.
Tells(f, t) ==
    LET top == t.path[Len(t.path)]
    IN  /\ t.at <= Len(f)
        /\ t.c.m \in Enter => t.at + 2 <= Len(f) /\ f[t.at + 1].op = EnterCode(t.c.m)
        /\ IsOp(t.c) =>
             /\ t.at + 2 + Len(Payload(t.c)) <= Len(f) /\ \A q \in 1..Len(Payload(t.c)) : f[t.at + 2 + q] = Payload(t.c)[q]
             /\ f[t.at + 1].op = Opcode(t.c) /\ f[t.at + 2].v = Len(Payload(t.c))
        /\ t.c.m \in Enter \/ IsOp(t.c) => top.base \in 1..Len(f) /\ Behind(t) <= top.base + f[top.base].v
        /\ t.c.m \in BlockExits \cup {"ExitOps"} => top.base \in 1..Len(f) /\ t.at = top.base + f[top.base].v
        /\ t.path # <<>> /\ t.c.m \in {"EnterPicture", "EnterPictures"} => top.base + 3 <= Len(f) /\ f[top.base + 3].v > top.nth
        /\ t.c.m \in {"ExitPictures", "EnterOps"} => top.base + 3 <= Len(f) /\ f[top.base + 3].v = top.nth
Finished(f, log) ==
    /\ f \in Seq(FileCells) /\ Chain(log) /\ log # <<>>
    /\ \A i \in 1..Len(log) : Tells(f, log[i])
    /\ LET t == log[Len(log)] IN t.c.m = "ExitPicture" /\ Behind(t) = Len(f) /\ After(t) = <<>>

(***************************************************************************)
(* FoldLeft, one call at a time.                                           *)
(***************************************************************************)
LEMMA LeastNumber ==
  ASSUME NEW S \in SUBSET Nat, S # {}
  PROVE  \E n \in S : \A m \in S : n <= m
<1> DEFINE less == OpToRel(<, Nat)
<1>1. \A m, n \in Nat : <<m, n>> \in less <=> m < n
  BY DEF OpToRel
<1>2. IsWellFoundedOn(less, Nat)
  BY NatLessThanWellFounded
<1> HIDE DEF less
<1>3. PICK n \in S : \A m \in S : <<m, n>> \notin less
  BY <1>2, WFMin
<1>4. \A m \in S : m \in Nat /\ n \in Nat /\ ~(m < n)
  BY <1>1, <1>3
<1> QED  BY <1>3, <1>4

\* The function that FoldLeft is defined by, on the sets of positions up to n.
Fold(f, s, n) == f = [X \in SUBSET (1..n) |-> IF X = {} THEN <<>> ELSE Came(f[X \ {Max(X)}], s[Max(X)])]

LEMMA FoldIsDefined ==
  ASSUME NEW s, NEW n \in Nat
  PROVE  \E f : Fold(f, s, n)
<1> DEFINE Bad == {k \in Nat : ~\E f : Fold(f, s, k)}
<1>1. ASSUME Bad # {}
      PROVE  FALSE
  <2>1. PICK k \in Bad : \A m \in Bad : k <= m
    BY <1>1, LeastNumber
  <2>2. CASE k = 0
    <3> DEFINE f == [X \in SUBSET (1..0) |-> <<>>]
    <3>1. \A X \in SUBSET (1..0) : X = {}
      OBVIOUS
    <3>2. Fold(f, s, 0)
      BY <3>1 DEF Fold
    <3> QED  BY <2>1, <2>2, <3>2
  <2>3. CASE k # 0
    <3>1. k - 1 \in Nat /\ ~(k <= k - 1) /\ k \in Nat
      BY <2>1, <2>3
    <3>2. k - 1 \notin Bad
      BY <2>1, <3>1
    <3>3. PICK f : Fold(f, s, k - 1)
      BY <3>1, <3>2
    <3> DEFINE g == [X \in SUBSET (1..k) |-> IF k \in X THEN Came(f[X \ {k}], s[k]) ELSE f[X]]
    <3> DEFINE R(X) == IF X = {} THEN <<>> ELSE Came(g[X \ {Max(X)}], s[Max(X)])
    <3>4. \A X \in SUBSET (1..k) : X \ {k} \in SUBSET (1..(k - 1))
      BY <3>1
    <3>5. ASSUME NEW X \in SUBSET (1..k)
          PROVE  g[X] = R(X)
      <4>1. CASE k \in X
        <5>1. Max(X) = k
          <6>1. k \in X /\ \A y \in X : k >= y
            BY <3>1, <4>1
          <6>2. \A x \in X : (\A y \in X : x >= y) => x = k
            BY <3>1, <6>1
          <6> QED  BY <6>1, <6>2 DEF Max
        <5>2. X \ {k} \in SUBSET (1..k) /\ k \notin X \ {k} /\ X # {}
          BY <4>1
        <5>3. g[X \ {k}] = f[X \ {k}]
          BY <5>2
        <5>4. g[X] = Came(f[X \ {k}], s[k])
          BY <4>1
        <5>5. R(X) = Came(g[X \ {k}], s[k])
          <6> HIDE DEF g
          <6> QED  BY <5>1, <5>2
        <5> HIDE DEF g, R
        <5> QED  BY <5>3, <5>4, <5>5
      <4>2. CASE k \notin X
        <5>1. X \in SUBSET (1..(k - 1)) /\ X \ {Max(X)} \in SUBSET (1..k) /\ k \notin X \ {Max(X)}
          <6>1. X = X \ {k}
            BY <4>2
          <6>2. X \in SUBSET (1..(k - 1))
            BY <3>4, <6>1
          <6> PICK x : x = Max(X)
            OBVIOUS
          <6>3. X \ {x} \in SUBSET (1..k) /\ k \notin X \ {x}
            BY <4>2
          <6> QED  BY <6>2, <6>3
        <5>2. g[X] = f[X] /\ g[X \ {Max(X)}] = f[X \ {Max(X)}]
          BY <4>2, <5>1
        <5>3. f[X] = IF X = {} THEN <<>> ELSE Came(f[X \ {Max(X)}], s[Max(X)])
          BY <3>3, <5>1 DEF Fold
        <5> HIDE DEF g
        <5> QED  BY <5>2, <5>3
      <4> QED  BY <4>1, <4>2
    <3>6. g = [X \in SUBSET (1..k) |-> R(X)]
      <4> DEFINE h == [X \in SUBSET (1..k) |-> R(X)]
      <4>1. \A X \in SUBSET (1..k) : h[X] = g[X]
        BY <3>5
      <4>2. DOMAIN g = SUBSET (1..k) /\ g = [X \in SUBSET (1..k) |-> g[X]]
        OBVIOUS
      <4> HIDE DEF g
      <4> QED  BY <4>2, <3>5
    <3>7. Fold(g, s, k)
      <4> HIDE DEF g
      <4> QED  BY <3>6 DEF Fold
    <3> QED  BY <2>1, <3>7
  <2> QED  BY <2>2, <2>3
<1> QED  BY <1>1

LEMMA FoldIs ==
  ASSUME NEW S, NEW s \in Seq(S)
  PROVE  \E f : Fold(f, s, Len(s)) /\ FoldLeft(Came, <<>>, s) = f[1..Len(s)]
<1> DEFINE G(f) == f = [X \in SUBSET DOMAIN s |-> IF X = {} THEN <<>> ELSE Came(f[X \ {Max(X)}], s[Max(X)])]
<1>1. FoldLeft(Came, <<>>, s) = (CHOOSE f : G(f))[DOMAIN s]
  BY DEF FoldLeft, MapThenFoldSet
<1>2. DOMAIN s = 1..Len(s) /\ Len(s) \in Nat
  OBVIOUS
<1>3. \A f : G(f) <=> Fold(f, s, Len(s))
  BY <1>2 DEF Fold
<1> HIDE DEF G
<1>4. \E f : G(f)
  BY <1>2, <1>3, FoldIsDefined
<1>5. G(CHOOSE f : G(f))
  BY <1>4
<1> QED  BY <1>1, <1>2, <1>3, <1>5

LEMMA FoldSteps ==
  ASSUME NEW s, NEW n \in Nat, NEW f, Fold(f, s, n)
  PROVE  f[{}] = <<>> /\ \A k \in 1..n : f[1..k] = Came(f[1..(k - 1)], s[k])
<1>1. f[{}] = <<>>
  BY DEF Fold
<1>2. ASSUME NEW k \in 1..n
      PROVE  f[1..k] = Came(f[1..(k - 1)], s[k])
  <2>1. 1..k \in SUBSET (1..n) /\ 1..k # {} /\ (1..k) \ {k} = 1..(k - 1)
    OBVIOUS
  <2>2. Max(1..k) = k
    <3>1. k \in 1..k /\ \A y \in 1..k : k >= y
      OBVIOUS
    <3>2. \A x \in 1..k : (\A y \in 1..k : x >= y) => x = k
      BY <3>1
    <3> QED  BY <3>1, <3>2 DEF Max
  <2> DEFINE X == 1..k
  <2>3. f[X] = Came(f[X \ {Max(X)}], s[Max(X)])
    <3>1. X \in SUBSET (1..n) /\ X # {}
      BY <2>1
    <3> HIDE DEF X
    <3> QED  BY <3>1 DEF Fold
  <2> QED  BY <2>1, <2>2, <2>3
<1> QED  BY <1>1, <1>2

LEMMA FoldAppend ==
  ASSUME NEW S, NEW s \in Seq(S), NEW e \in S
  PROVE  FoldLeft(Came, <<>>, Append(s, e)) = Came(FoldLeft(Came, <<>>, s), e)
<1> DEFINE n == Len(s)
<1> DEFINE t == Append(s, e)
<1>1. t \in Seq(S) /\ n \in Nat /\ Len(t) = n + 1 /\ t[n + 1] = e /\ \A k \in 1..n : t[k] = s[k]
  OBVIOUS
<1> HIDE DEF t
<1>2. PICK f : Fold(f, s, n) /\ FoldLeft(Came, <<>>, s) = f[1..n]
  BY FoldIs
<1>3. PICK g : Fold(g, t, n + 1) /\ FoldLeft(Came, <<>>, t) = g[1..(n + 1)]
  <2>1. \E g : Fold(g, t, Len(t)) /\ FoldLeft(Came, <<>>, t) = g[1..Len(t)]
    BY <1>1, FoldIs
  <2> QED  BY <1>1, <2>1
<1>4. f[{}] = <<>> /\ \A k \in 1..n : f[1..k] = Came(f[1..(k - 1)], s[k])
  BY <1>1, <1>2, FoldSteps
<1>5. g[{}] = <<>> /\ \A k \in 1..(n + 1) : g[1..k] = Came(g[1..(k - 1)], t[k])
  BY <1>1, <1>3, FoldSteps
<1>6. \A k \in 0..n : f[1..k] = g[1..k]
  <2> DEFINE Bad == {k \in 0..n : f[1..k] # g[1..k]}
  <2>1. ASSUME Bad # {}
        PROVE  FALSE
    <3>1. Bad \subseteq Nat
      OBVIOUS
    <3>2. PICK k \in Bad : \A m \in Bad : k <= m
      BY <2>1, <3>1, LeastNumber
    <3>3. k # 0
      <4>1. 1..0 = {}
        OBVIOUS
      <4>2. f[1..0] = g[1..0]
        BY <4>1, <1>4, <1>5
      <4> QED  BY <3>2, <4>2
    <3>4. k \in 1..n /\ k - 1 \in 0..n /\ ~(k <= k - 1) /\ k \in 1..(n + 1)
      BY <3>2, <3>3, <1>1
    <3>5. k - 1 \notin Bad
      BY <3>2, <3>4
    <3>6. f[1..(k - 1)] = g[1..(k - 1)]
      BY <3>4, <3>5
    <3>7. f[1..k] = Came(f[1..(k - 1)], s[k]) /\ g[1..k] = Came(g[1..(k - 1)], s[k])
      BY <3>4, <1>1, <1>4, <1>5
    <3>8. f[1..k] = g[1..k]
      BY <3>6, <3>7
    <3> QED  BY <3>2, <3>8
  <2> QED  BY <2>1
<1>7. g[1..(n + 1)] = Came(g[1..n], e)
  <2>1. n + 1 \in 1..(n + 1) /\ n + 1 - 1 = n
    BY <1>1
  <2>2. g[1..(n + 1)] = Came(g[1..(n + 1 - 1)], t[n + 1])
    BY <2>1, <1>5
  <2> QED  BY <2>1, <2>2, <1>1
<1>8. f[1..n] = g[1..n]
  BY <1>1, <1>6
<1> QED  BY <1>2, <1>3, <1>7, <1>8 DEF t

LEMMA FoldEmpty == FoldLeft(Came, <<>>, <<>>) = <<>>
<1>1. <<>> \in Seq({}) /\ Len(<<>>) = 0 /\ 1..0 = {}
  OBVIOUS
<1>2. PICK f : Fold(f, <<>>, 0) /\ FoldLeft(Came, <<>>, <<>>) = f[1..0]
  BY <1>1, FoldIs
<1>3. f[{}] = <<>>
  BY <1>2, FoldSteps
<1> QED  BY <1>1, <1>2, <1>3

(***************************************************************************)
(* A token says of the file what later calls leave true.                   *)
(***************************************************************************)
\* What a call leaves of what tokens say of open pictures and lists.
Keeps ==
    /\ Len(file) <= Len(file')
    /\ \A b \in Nat : OpenList(b) => OpenList(b)' \/ (Settled(b - 1)' /\ b + file'[b].v = Len(file))
    /\ \A a \in Nat, n \in Nat : Counts(a, n) => Counts(a, n)'
    /\ \A a \in Nat, n \in Nat : Final(a, n) => Final(a, n)'

LEMMA OpNamed ==
  ASSUME NEW c, IsOp(c)
  PROVE  c.m \notin Structure /\ c.m \notin Enter /\ c \in Calls /\ Payload(c) \in Seq(FileCells) /\ Len(Payload(c)) \in Nat /\ Opcode(c) \in Opcodes
<1>1. c \in Flat \cup States
  BY DEF IsOp
<1>2. c.m \in OpNames
  BY <1>1, OperationFacts
<1>3. c.m \notin Structure
  BY <1>2, NameFacts
<1>4. Payload(c) \in Seq(FileCells)
  BY <1>1, PayloadCells
<1> QED  BY <1>1, <1>3, <1>4 DEF Structure, Calls, Opcodes

LEMMA StructureNamed ==
  ASSUME NEW m \in Structure
  PROVE  Call(m).m = m /\ Call(m) \in Calls /\ ~IsOp(Call(m))
<1>1. Call(m).m = m
  BY DEF Call
<1>2. Call(m) \in Calls
  BY DEF Calls
<1> QED  BY <1>1, <1>2, OpNamed

LEMMA TopLevel ==
  ASSUME NEW t \in Tokens, t.path # <<>>
  PROVE  /\ t.path \in Seq(Levels) /\ Len(t.path) \in Nat \ {0} /\ t.path[Len(t.path)] \in Levels
         /\ t.path[Len(t.path)].base \in Nat /\ t.path[Len(t.path)].nth \in Nat /\ t.at \in Nat
         /\ t.path[Len(t.path)].m \in Enter \cup {"EnterPicture"} /\ t.path[Len(t.path)].form \in {"pictures", "ops"}
<1>1. t.path \in Seq(Levels) /\ t.at \in Nat
  BY DEF Tokens
<1>2. Len(t.path) \in Nat \ {0} /\ t.path[Len(t.path)] \in Levels
  BY <1>1, EmptySeq, ElementOfSeq
<1> QED  BY <1>1, <1>2 DEF Levels

\* Settled cells are never written again.
LEMMA SettledStays ==
  ASSUME Steady, NEW q, Settled(q)
  PROVE  Settled(q)' /\ file'[q + 1] = file[q + 1] /\ q \in Nat /\ q < Len(file)
BY DEF Steady, Settled

LEMMA HoldsStays ==
  ASSUME WriterInv, WriterInv', Steady, Keeps, NEW t \in Tokens, Holds(t), t.path = <<>> => t.c.m = "EnterPicture"
  PROVE  Holds(t)'
<1> DEFINE top == t.path[Len(t.path)]
<1> DEFINE size == Len(Payload(t.c))
<1> DEFINE m == t.c.m
<1>0. Len(file) \in Nat /\ Len(file') \in Nat /\ Len(file) <= Len(file') /\ t.at \in Nat /\ t.at <= Len(file)
  BY DEF WriterInv, WriterTypes, Keeps, Holds, Tokens
<1>1. t.at <= Len(file')
  BY <1>0
<1>a. m # "EnterPicture" => top \in Levels /\ top.base \in Nat /\ top.nth \in Nat
  BY TopLevel
<1>2. ASSUME m \in Enter
      PROVE  t.at + 2 <= Len(file') /\ Settled(t.at)' /\ file'[t.at + 1].op = EnterCode(m)
  <2>1. t.at + 2 <= Len(file) /\ Settled(t.at) /\ file[t.at + 1].op = EnterCode(m)
    BY <1>2 DEF Holds
  <2>2. Settled(t.at)' /\ file'[t.at + 1] = file[t.at + 1]
    BY <2>1, SettledStays
  <2>3. t.at + 2 <= Len(file')
    BY <2>1, <1>0
  <2> QED  BY <2>1, <2>2, <2>3
<1>3. ASSUME IsOp(t.c)
      PROVE  /\ t.at + 2 + size <= Len(file')
             /\ \A q \in t.at..(t.at + 1 + size) : Settled(q)'
             /\ file'[t.at + 1].op = Opcode(t.c) /\ file'[t.at + 2].v = size
             /\ \A q \in 1..size : file'[t.at + 2 + q] = Payload(t.c)[q]
  <2>0. size \in Nat
    BY <1>3, OpNamed
  <2>1. /\ t.at + 2 + size <= Len(file)
        /\ \A q \in t.at..(t.at + 1 + size) : Settled(q)
        /\ file[t.at + 1].op = Opcode(t.c) /\ file[t.at + 2].v = size
        /\ \A q \in 1..size : file[t.at + 2 + q] = Payload(t.c)[q]
    BY <1>3 DEF Holds
  <2> HIDE DEF size
  <2>2. \A q \in t.at..(t.at + 1 + size) : Settled(q)' /\ file'[q + 1] = file[q + 1]
    BY <2>1, SettledStays
  <2>3. t.at + 2 + size <= Len(file')
    BY <2>0, <2>1, <1>0
  <2>4. file'[t.at + 1] = file[t.at + 1]
    <3>1. t.at \in t.at..(t.at + 1 + size)
      BY <2>0, <1>0
    <3> QED  BY <3>1, <2>2
  <2>5. file'[t.at + 2] = file[t.at + 2]
    <3>1. t.at + 1 \in t.at..(t.at + 1 + size) /\ t.at + 1 + 1 = t.at + 2
      BY <2>0, <1>0
    <3> QED  BY <3>1, <2>2
  <2>6. ASSUME NEW q \in 1..size  PROVE file'[t.at + 2 + q] = file[t.at + 2 + q]
    <3>1. t.at + 1 + q \in t.at..(t.at + 1 + size) /\ t.at + 1 + q + 1 = t.at + 2 + q
      BY <2>0, <1>0
    <3> QED  BY <3>1, <2>2
  <2> QED  BY <2>1, <2>2, <2>3, <2>4, <2>5, <2>6
<1>4. ASSUME m \in Enter \/ IsOp(t.c)
      PROVE  OpenList(top.base)' \/ (Settled(top.base - 1)' /\ Behind(t) <= top.base + file'[top.base].v)
  <2>1. m # "EnterPicture" /\ top.base \in Nat
    <3>1. m # "EnterPicture"
      BY <1>4, OpNamed DEF Structure, Enter
    <3> QED  BY <3>1, <1>a
  <2>2. Behind(t) <= Len(file)
    <3>1. CASE m \in Enter
      <4>1. Behind(t) = t.at + 2
        BY <3>1 DEF Behind, Enter
      <4> QED  BY <4>1, <3>1 DEF Holds
    <3>2. CASE IsOp(t.c)
      <4>1. m \notin Structure /\ m \notin Enter
        BY <3>2, OpNamed
      <4>2. m # "EnterPicture" /\ m # "EnterOps"
        BY <4>1 DEF Structure
      <4>3. Behind(t) = t.at + 2 + size
        BY <4>1, <4>2, <3>2 DEF Behind
      <4> QED  BY <4>3, <3>2 DEF Holds
    <3> QED  BY <3>1, <3>2, <1>4
  <2> PICK b \in Nat : b = top.base
    BY <2>1
  <2> PICK e : e = Behind(t)
    OBVIOUS
  <2>3. OpenList(b) \/ (Settled(b - 1) /\ e <= b + file[b].v)
    BY <1>4 DEF Holds
  <2>4. CASE OpenList(b)
    <3>1. OpenList(b)' \/ (Settled(b - 1)' /\ b + file'[b].v = Len(file))
      BY <2>4 DEF Keeps
    <3> QED  BY <3>1, <2>2
  <2>5. CASE Settled(b - 1) /\ e <= b + file[b].v
    <3>1. Settled(b - 1)' /\ file'[b - 1 + 1] = file[b - 1 + 1]
      BY <2>5, SettledStays
    <3>2. b - 1 + 1 = b
      OBVIOUS
    <3> QED  BY <2>5, <3>1, <3>2
  <2> QED  BY <2>3, <2>4, <2>5
<1>5. ASSUME m \in BlockExits \cup {"ExitOps"}
      PROVE  Settled(top.base - 1)' /\ t.at = top.base + file'[top.base].v
  <2>1. m # "EnterPicture"
    BY <1>5 DEF BlockExits, Enter, Exit
  <2>2. top.base \in Nat /\ Settled(top.base - 1) /\ t.at = top.base + file[top.base].v
    BY <1>5, <2>1, <1>a DEF Holds
  <2> PICK b \in Nat : b = top.base
    BY <2>2
  <2>3. Settled(b - 1)' /\ file'[b - 1 + 1] = file[b - 1 + 1]
    BY <2>2, SettledStays
  <2>4. b - 1 + 1 = b
    OBVIOUS
  <2> QED  BY <2>2, <2>3, <2>4
<1>6. ASSUME t.path # <<>>, m \in {"EnterPicture", "EnterPictures"}
      PROVE  Counts(top.base, top.nth)'
  <2>1. top.base \in Nat /\ top.nth \in Nat /\ Counts(top.base, top.nth)
    BY <1>6, TopLevel DEF Holds
  <2> QED  BY <2>1 DEF Keeps
<1>7. ASSUME m \in {"ExitPictures", "EnterOps"}
      PROVE  Final(top.base, top.nth)'
  <2>1. top.base \in Nat /\ top.nth \in Nat /\ Final(top.base, top.nth)
    BY <1>7, <1>a DEF Holds
  <2> QED  BY <2>1 DEF Keeps
<1> QED  BY <1>1, <1>2, <1>3, <1>4, <1>5, <1>6, <1>7 DEF Holds

\* A token more.
LEMMA ChainGrows ==
  ASSUME NEW log, Chain(log), NEW t \in Tokens, Fits(t), t.path # <<>>,
         log # <<>>, t.at = Behind(log[Len(log)]), t.path = After(log[Len(log)]), Follows(log[Len(log)].c.m, t.c.m)
  PROVE  Chain(Append(log, t))
<1> DEFINE n == Len(log)
<1> DEFINE l == Append(log, t)
<1>1. log \in Seq(Tokens) /\ n \in Nat \ {0} /\ log[1] = First
  BY EmptySeq DEF Chain
<1>2. l \in Seq(Tokens) /\ Len(l) = n + 1 /\ l[n + 1] = t /\ \A k \in 1..n : l[k] = log[k]
  BY <1>1, AppendFacts
<1> HIDE DEF l
<1>3. l[1] = First
  BY <1>1, <1>2
<1>4. ASSUME NEW i \in 1..(Len(l) - 1)
      PROVE  /\ l[i + 1].at = Behind(l[i]) /\ l[i + 1].path = After(l[i]) /\ l[i + 1].path # <<>>
             /\ Fits(l[i + 1]) /\ Follows(l[i].c.m, l[i + 1].c.m)
  <2>1. CASE i = n
    <3>1. l[i + 1] = t /\ l[i] = log[n]
      BY <2>1, <1>1, <1>2
    <3> QED  BY <3>1
  <2>2. CASE i # n
    <3>1. i \in 1..(n - 1) /\ i \in 1..n /\ i + 1 \in 1..n
      BY <2>2, <1>1, <1>2
    <3>2. l[i] = log[i] /\ l[i + 1] = log[i + 1]
      BY <3>1, <1>2
    <3> QED  BY <3>1, <3>2 DEF Chain
  <2> QED  BY <2>1, <2>2
<1> QED  BY <1>2, <1>3, <1>4 DEF Chain, l

LEMMA ChainStarts == Chain(<<>>) /\ Chain(<<First>>) /\ First \in Tokens
<1>1. "EnterPicture" \in Structure
  BY DEF Structure
<1>2. First \in Tokens
  BY <1>1, StructureNamed DEF First, Tokens
<1>3. 1..(Len(<<>>) - 1) = {} /\ 1..(Len(<<First>>) - 1) = {} /\ <<>> \in Seq(Tokens) /\ <<First>> \in Seq(Tokens)
  BY <1>2
<1> QED  BY <1>2, <1>3 DEF Chain

LEMMA ChainTokens ==
  ASSUME NEW log, Chain(log), NEW i \in 1..Len(log)
  PROVE  log[i] \in Tokens /\ (log[i].path = <<>> => log[i] = First) /\ (i > 1 => Fits(log[i]) /\ log[i].path # <<>>) /\ (i = 1 => log[i] = First)
<1>1. log \in Seq(Tokens) /\ Len(log) \in Nat /\ log # <<>>
  BY DEF Chain
<1>2. log[i] \in Tokens
  BY <1>1
<1>3. CASE i = 1
  BY <1>2, <1>3, <1>1 DEF Chain
<1>4. CASE i # 1
  <2>1. i - 1 \in 1..(Len(log) - 1) /\ i - 1 + 1 = i
    BY <1>1, <1>4
  <2>2. log[i - 1 + 1].path # <<>> /\ Fits(log[i - 1 + 1])
    BY <2>1 DEF Chain
  <2> QED  BY <2>1, <2>2, <1>2, <1>4
<1> QED  BY <1>3, <1>4

(***************************************************************************)
(* Where the writer is, as a path.                                         *)
(***************************************************************************)
LEMMA LevelFacts ==
  /\ \A p \in OpenPictures : PictureLevel(p) \in Levels
  /\ \A b \in OpenBlocks : BlockLevel(b) \in Levels
<1>1. ASSUME NEW p \in OpenPictures  PROVE PictureLevel(p) \in Levels
  <2>1. p.at \in Nat /\ p.opsAt \in Nat /\ p.inside \in Nat
    BY DEF OpenPictures
  <2> QED  BY <2>1 DEF PictureLevel, Level, Levels
<1>2. ASSUME NEW b \in OpenBlocks  PROVE BlockLevel(b) \in Levels
  <2>1. b.m \in Enter /\ b.at + 2 \in Nat
    BY DEF OpenBlocks
  <2> QED  BY <2>1 DEF BlockLevel, Level, Levels
<1> QED  BY <1>1, <1>2

LEMMA PathFacts ==
  ASSUME NEW p \in Seq(OpenPictures), NEW b \in Seq(OpenBlocks)
  PROVE  /\ PathOf(p, b) \in Seq(Levels) /\ Len(PathOf(p, b)) = Len(p) + Len(b)
         /\ Len(p) \in Nat /\ Len(b) \in Nat
         /\ \A k \in 1..Len(p) : PathOf(p, b)[k] = PictureLevel(p[k])
         /\ \A k \in 1..Len(b) : PathOf(p, b)[Len(p) + k] = BlockLevel(b[k])
<1> DEFINE n == Len(p) + Len(b)
<1> DEFINE e(k) == IF k <= Len(p) THEN PictureLevel(p[k]) ELSE BlockLevel(b[k - Len(p)])
<1>1. Len(p) \in Nat /\ Len(b) \in Nat /\ n \in Nat
  OBVIOUS
<1>2. ASSUME NEW k \in 1..n  PROVE e(k) \in Levels
  <2>1. CASE k <= Len(p)
    <3>1. k \in 1..Len(p)
      BY <2>1, <1>1
    <3>2. p[k] \in OpenPictures
      BY <3>1
    <3> QED  BY <2>1, <3>2, LevelFacts
  <2>2. CASE ~(k <= Len(p))
    <3>1. k - Len(p) \in 1..Len(b)
      BY <2>2, <1>1
    <3>2. b[k - Len(p)] \in OpenBlocks
      BY <3>1
    <3> QED  BY <2>2, <3>2, LevelFacts
  <2> QED  BY <2>1, <2>2
<1>3. PathOf(p, b) = [k \in 1..n |-> e(k)]
  BY DEF PathOf
<1>4. ASSUME NEW k \in 1..Len(b)  PROVE e(Len(p) + k) = BlockLevel(b[k]) /\ Len(p) + k \in 1..n
  <2>1. ~(Len(p) + k <= Len(p)) /\ Len(p) + k - Len(p) = k /\ Len(p) + k \in 1..n
    BY <1>1
  <2> QED  BY <2>1
<1>5. ASSUME NEW k \in 1..Len(p)  PROVE e(k) = PictureLevel(p[k]) /\ k \in 1..n
  BY <1>1
<1> HIDE DEF e, n
<1>6. PathOf(p, b) \in Seq(Levels) /\ Len(PathOf(p, b)) = n /\ \A k \in 1..n : PathOf(p, b)[k] = e(k)
  BY <1>1, <1>2, <1>3
<1> QED  BY <1>1, <1>4, <1>5, <1>6 DEF n

\* The same path, in two steps.
LEMMA SamePath ==
  ASSUME NEW s \in Seq(Levels), NEW t \in Seq(Levels), Len(s) = Len(t), \A k \in 1..Len(s) : s[k] = t[k]
  PROVE  s = t
BY SeqEqual

LEMMA PathType ==
  ASSUME WriterInv
  PROVE  pictures \in Seq(OpenPictures) /\ blocks \in Seq(OpenBlocks) /\ Path \in Seq(Levels) /\ file \in Seq(FileCells) /\ Len(file) \in Nat
<1>1. pictures \in Seq(OpenPictures) /\ blocks \in Seq(OpenBlocks) /\ file \in Seq(FileCells)
  BY DEF WriterInv, WriterTypes
<1>2. PathOf(pictures, blocks) \in Seq(Levels)
  BY <1>1, PathFacts
<1> QED  BY <1>1, <1>2 DEF Path

(***************************************************************************)
(* The log, one token at a time.                                           *)
(***************************************************************************)
LEMMA LogStays ==
  ASSUME WriterInv, WriterInv', Steady, Keeps, NEW log, IsLog(log)
  PROVE  Chain(log) /\ \A i \in 1..Len(log) : Holds(log[i])'
<1>1. Chain(log) /\ \A i \in 1..Len(log) : Holds(log[i])
  BY DEF IsLog
<1>2. ASSUME NEW i \in 1..Len(log)  PROVE Holds(log[i])'
  <2>1. log[i] \in Tokens /\ (log[i].path = <<>> => log[i] = First)
    BY <1>1, ChainTokens
  <2>2. First.c.m = "EnterPicture"
    BY DEF First, Call
  <2> PICK t \in Tokens : t = log[i]
    BY <2>1
  <2>3. Holds(t) /\ (t.path = <<>> => t.c.m = "EnterPicture")
    BY <1>1, <2>1, <2>2
  <2>4. Holds(t)'
    BY <2>3, HoldsStays
  <2> QED  BY <2>4
<1> QED  BY <1>1, <1>2

LEMMA LogGrows ==
  ASSUME NEW log, Chain(log), \A i \in 1..Len(log) : Holds(log[i])', log # <<>>,
         NEW t \in Tokens, t.at = Behind(log[Len(log)]), t.path = After(log[Len(log)]), t.path # <<>>,
         Fits(t), Follows(log[Len(log)].c.m, t.c.m), Holds(t)'
  PROVE  /\ Chain(Append(log, t)) /\ \A i \in 1..Len(Append(log, t)) : Holds(Append(log, t)[i])'
         /\ Append(log, t) # <<>> /\ Append(log, t)[Len(Append(log, t))] = t
         /\ Said(Append(log, t)) = Append(Said(log), t.c)
<1> DEFINE n == Len(log)
<1> DEFINE l == Append(log, t)
<1>1. log \in Seq(Tokens) /\ n \in Nat
  BY DEF Chain
<1>2. Chain(l)
  BY ChainGrows
<1>3. l \in Seq(Tokens) /\ Len(l) = n + 1 /\ l[n + 1] = t /\ l # <<>> /\ \A k \in 1..n : l[k] = log[k]
  BY <1>1, AppendFacts
<1> HIDE DEF l
<1>4. ASSUME NEW i \in 1..Len(l)  PROVE Holds(l[i])'
  <2>1. CASE i = n + 1
    <3>1. l[i] = t
      BY <2>1, <1>3
    <3> QED  BY <3>1
  <2>2. CASE i # n + 1
    <3>1. i \in 1..n
      BY <2>2, <1>1, <1>3
    <3>2. l[i] = log[i]
      BY <3>1, <1>3
    <3> QED  BY <3>1, <3>2
  <2> QED  BY <2>1, <2>2
<1>5. Said(l) = Append(Said(log), t.c)
  <2>1. Said(log) \in Seq(Calls) /\ Len(Said(log)) = n /\ \A k \in 1..n : Said(log)[k] = log[k].c
    <3>1. \A k \in 1..n : log[k] \in Tokens
      BY <1>1
    <3>2. \A k \in 1..n : log[k].c \in Calls
      BY <3>1 DEF Tokens
    <3> QED  BY <1>1, <3>2 DEF Said
  <2>2. Said(l) \in Seq(Calls) /\ Len(Said(l)) = n + 1 /\ \A k \in 1..(n + 1) : Said(l)[k] = l[k].c
    <3>1. \A k \in 1..Len(l) : l[k] \in Tokens
      BY <1>3
    <3>2. \A k \in 1..Len(l) : l[k].c \in Calls
      BY <3>1 DEF Tokens
    <3> QED  BY <1>1, <1>3, <3>2 DEF Said
  <2>3. t.c \in Calls
    BY DEF Tokens
  <2> DEFINE s == Append(Said(log), t.c)
  <2>4. s \in Seq(Calls) /\ Len(s) = n + 1 /\ s[n + 1] = t.c /\ \A k \in 1..n : s[k] = Said(log)[k]
    BY <2>1, <2>3, AppendFacts
  <2> HIDE DEF s
  <2>5. ASSUME NEW k \in 1..(n + 1)  PROVE Said(l)[k] = s[k]
    <3>1. CASE k = n + 1
      BY <3>1, <2>2, <2>4, <1>3
    <3>2. CASE k # n + 1
      <4>1. k \in 1..n
        BY <3>2, <1>1
      <4> QED  BY <4>1, <2>1, <2>2, <2>4, <1>3
    <3> QED  BY <3>1, <3>2
  <2>6. Said(l) = s
    BY <2>2, <2>4, <2>5, SeqEqual
  <2> QED  BY <2>6 DEF s
<1> QED  BY <1>2, <1>3, <1>4, <1>5 DEF l

\* What the calls of a log are, and how a picture comes back.
LEMMA SaidFacts ==
  ASSUME NEW log, Chain(log)
  PROVE  /\ Said(log) \in Seq(Calls) /\ Len(Said(log)) = Len(log) /\ Len(log) \in Nat
         /\ log # <<>> => Last(Said(log)) = log[Len(log)].c
         /\ \A i \in 1..Len(log) : Said(log)[i] = log[i].c
<1>1. log \in Seq(Tokens) /\ Len(log) \in Nat
  BY DEF Chain
<1>2. \A k \in 1..Len(log) : log[k] \in Tokens
  BY <1>1
<1>3. \A k \in 1..Len(log) : log[k].c \in Calls
  BY <1>2 DEF Tokens
<1>4. Said(log) \in Seq(Calls) /\ Len(Said(log)) = Len(log) /\ \A k \in 1..Len(log) : Said(log)[k] = log[k].c
  BY <1>1, <1>3 DEF Said
<1>5. log # <<>> => Len(log) \in 1..Len(log)
  BY <1>1, EmptySeq
<1> QED  BY <1>1, <1>4, <1>5 DEF Last

LEMMA CameAppends ==
  ASSUME NEW s, NEW c, c.m \notin {"ExitPictures", "ExitPicture"} \/ (c.m = "ExitPictures" /\ Last(s).m # "EnterPictures")
                       \/ (c.m = "ExitPicture" /\ Last(s).m = "ExitOps")
  PROVE  Came(s, c) = Append(s, c)
BY DEF Came

LEMMA CameDrops ==
  ASSUME NEW s, NEW c, c.m = "ExitPictures", Last(s).m = "EnterPictures"
  PROVE  Came(s, c) = Front(s)
BY DEF Came

LEMMA CameAdds ==
  ASSUME NEW s, NEW c, c.m = "ExitPicture", Last(s).m # "ExitOps"
  PROVE  Came(s, c) = s \o <<Call("EnterOps"), Call("ExitOps"), c>>
BY DEF Came

\* What the calls come back as, one call later.
LEMMA CameLater ==
  ASSUME WriterInv, NEW log, IsLog(log), NEW c \in Calls, Tell(c)
  PROVE  FoldLeft(Came, <<>>, told') = Came(Said(log) \o Expected, c)
<1>1. told \in Seq(Calls)
  BY DEF WriterInv, WriterTypes
<1>2. FoldLeft(Came, <<>>, Append(told, c)) = Came(FoldLeft(Came, <<>>, told), c)
  BY <1>1, FoldAppend
<1> QED  BY <1>2 DEF Tell, IsLog, Says

(***************************************************************************)
(* What a call leaves of counts.                                           *)
(***************************************************************************)
Counted == {"pictured", "ops", "drawn"}

LEMMA CountsKept ==
  ASSUME Steady,
         \A k \in 1..Len(pictures) :
            /\ pictures[k].inside \in Nat /\ pictures[k].at \in Nat
            /\ \/ /\ k \in 1..Len(pictures') /\ pictures'[k].at = pictures[k].at
                  /\ pictures'[k].inside \in {pictures[k].inside, pictures[k].inside + 1}
                  /\ pictures[k].stage \in Counted => pictures'[k].stage \in Counted /\ pictures'[k].inside = pictures[k].inside
               \/ \E a \in Nat : a = pictures[k].at /\ Settled(a + 2)' /\ file'[a + 3].v = pictures[k].inside
  PROVE  /\ \A a \in Nat, n \in Nat : Counts(a, n) => Counts(a, n)'
         /\ \A a \in Nat, n \in Nat : Final(a, n) => Final(a, n)'
<1>1. ASSUME NEW a \in Nat, Settled(a + 2)
      PROVE  Settled(a + 2)' /\ file'[a + 3] = file[a + 3]
  <2> DEFINE q == a + 2
  <2>1. q + 1 = a + 3
    OBVIOUS
  <2>2. Settled(q)' /\ file'[q + 1] = file[q + 1]
    BY <1>1, SettledStays
  <2> QED  BY <2>1, <2>2
<1>2. ASSUME NEW a \in Nat, NEW n \in Nat, Counts(a, n)
      PROVE  Counts(a, n)'
  <2>1. CASE Settled(a + 2) /\ file[a + 3].v > n
    BY <2>1, <1>1 DEF Counts
  <2>2. ASSUME NEW k \in 1..Len(pictures), pictures[k].at = a, pictures[k].inside > n
        PROVE  Counts(a, n)'
    <3>0. pictures[k].inside \in Nat
      OBVIOUS
    <3>1. CASE k \in 1..Len(pictures') /\ pictures'[k].at = a /\ pictures'[k].inside \in {pictures[k].inside, pictures[k].inside + 1}
      <4>1. pictures'[k].inside > n
        BY <2>2, <3>0, <3>1
      <4> QED  BY <3>1, <4>1 DEF Counts
    <3>2. CASE Settled(a + 2)' /\ file'[a + 3].v = pictures[k].inside
      BY <2>2, <3>2 DEF Counts
    <3>3. \/ k \in 1..Len(pictures') /\ pictures'[k].at = pictures[k].at /\ pictures'[k].inside \in {pictures[k].inside, pictures[k].inside + 1}
          \/ \E b \in Nat : b = pictures[k].at /\ Settled(b + 2)' /\ file'[b + 3].v = pictures[k].inside
      OBVIOUS
    <3> QED  BY <2>2, <3>1, <3>2, <3>3
  <2> QED  BY <1>2, <2>1, <2>2 DEF Counts
<1>3. ASSUME NEW a \in Nat, NEW n \in Nat, Final(a, n)
      PROVE  Final(a, n)'
  <2>1. CASE Settled(a + 2) /\ file[a + 3].v = n
    BY <2>1, <1>1 DEF Final
  <2>2. ASSUME NEW k \in 1..Len(pictures), pictures[k].at = a, pictures[k].inside = n, pictures[k].stage \in Counted
        PROVE  Final(a, n)'
    <3>1. CASE k \in 1..Len(pictures') /\ pictures'[k].at = a /\ pictures'[k].stage \in Counted /\ pictures'[k].inside = pictures[k].inside
      BY <2>2, <3>1 DEF Final, Counted
    <3>2. CASE Settled(a + 2)' /\ file'[a + 3].v = pictures[k].inside
      BY <2>2, <3>2 DEF Final
    <3>3. \/ k \in 1..Len(pictures') /\ pictures'[k].at = pictures[k].at /\ pictures'[k].stage \in Counted /\ pictures'[k].inside = pictures[k].inside
          \/ \E b \in Nat : b = pictures[k].at /\ Settled(b + 2)' /\ file'[b + 3].v = pictures[k].inside
      BY <2>2
    <3> QED  BY <2>2, <3>1, <3>2, <3>3
  <2> QED  BY <1>3, <2>1, <2>2 DEF Final, Counted
<1> QED  BY <1>2, <1>3

LEMMA PictureNumbers ==
  ASSUME WriterInv, NEW k \in 1..Len(pictures)
  PROVE  pictures[k] \in OpenPictures /\ pictures[k].inside \in Nat /\ pictures[k].at \in Nat /\ pictures[k].opsAt \in Nat
<1>1. pictures[k] \in OpenPictures
  BY DEF WriterInv, WriterTypes
<1> QED  BY <1>1 DEF OpenPictures

LEMMA CountsKeptByTop ==
  ASSUME WriterInv, Steady, pictures # <<>>, NEW p \in OpenPictures, pictures' = [pictures EXCEPT ![Len(pictures)] = p],
         p.at = Picture.at, p.inside = Picture.inside, Picture.stage \in Counted => p.stage \in Counted
  PROVE  /\ \A a \in Nat, n \in Nat : Counts(a, n) => Counts(a, n)'
         /\ \A a \in Nat, n \in Nat : Final(a, n) => Final(a, n)'
<1> DEFINE n == Len(pictures)
<1>1. /\ pictures \in Seq(OpenPictures) /\ Len(pictures') = n /\ pictures'[n] = p /\ n \in Nat \ {0}
      /\ \A k \in 1..(n - 1) : pictures'[k] = pictures[k]
  BY PathType, ExceptLast
<1>2. Picture = pictures[n]
  BY DEF Picture, Last
<1>3. ASSUME NEW k \in 1..n
      PROVE  /\ k \in 1..Len(pictures') /\ pictures'[k].at = pictures[k].at
             /\ pictures'[k].inside = pictures[k].inside
             /\ pictures[k].stage \in Counted => pictures'[k].stage \in Counted
  <2>1. CASE k = n
    BY <2>1, <1>1, <1>2
  <2>2. CASE k # n
    <3>1. k \in 1..(n - 1)
      <4>1. n \in Nat \ {0} /\ k \in 1..n /\ k # n
        BY <2>2, <1>1
      <4> HIDE DEF n
      <4> QED  BY <4>1
    <3> QED  BY <3>1, <1>1
  <2> QED  BY <2>1, <2>2
<1>4. \A k \in 1..n : pictures[k].inside \in Nat /\ pictures[k].at \in Nat
  BY PictureNumbers
<1> HIDE DEF n
<1>5. \A k \in 1..Len(pictures) :
         /\ pictures[k].inside \in Nat /\ pictures[k].at \in Nat
         /\ k \in 1..Len(pictures') /\ pictures'[k].at = pictures[k].at
         /\ pictures'[k].inside \in {pictures[k].inside, pictures[k].inside + 1}
         /\ pictures[k].stage \in Counted => pictures'[k].stage \in Counted /\ pictures'[k].inside = pictures[k].inside
  BY <1>3, <1>4 DEF n
<1> QED  BY <1>5, CountsKept

LEMMA CountsKeptBySame ==
  ASSUME WriterInv, Steady, pictures' = pictures
  PROVE  /\ \A a \in Nat, n \in Nat : Counts(a, n) => Counts(a, n)'
         /\ \A a \in Nat, n \in Nat : Final(a, n) => Final(a, n)'
<1>1. \A k \in 1..Len(pictures) :
         /\ pictures[k].inside \in Nat /\ pictures[k].at \in Nat
         /\ k \in 1..Len(pictures') /\ pictures'[k].at = pictures[k].at
         /\ pictures'[k].inside \in {pictures[k].inside, pictures[k].inside + 1}
         /\ pictures[k].stage \in Counted => pictures'[k].stage \in Counted /\ pictures'[k].inside = pictures[k].inside
  BY PictureNumbers
<1> QED  BY <1>1, CountsKept

(***************************************************************************)
(* Where the writer is, and the last token of the log.                     *)
(***************************************************************************)
LEMMA LastToken ==
  ASSUME WriterInv, NEW log, IsLog(log), pictures # <<>>
  PROVE  /\ log # <<>> /\ Chain(log) /\ Len(log) \in Nat \ {0} /\ log[Len(log)] \in Tokens
         /\ Behind(log[Len(log)]) = Place /\ After(log[Len(log)]) = Path
         /\ Lately(log[Len(log)].c.m, pictures[Len(pictures)])
         /\ Path # <<>> /\ Path \in Seq(Levels) /\ Len(Path) = Len(pictures) + Len(blocks) /\ Len(Path) \in Nat \ {0}
         /\ Last(Said(log)) = log[Len(log)].c
<1>1. told # <<>>
  BY DEF WriterInv, WriterTypes
<1>2. log # <<>> /\ Chain(log) /\ log \in Seq(Tokens)
  BY <1>1 DEF IsLog, Current, Chain
<1>3. Len(log) \in Nat \ {0} /\ log[Len(log)] \in Tokens
  BY <1>2, EmptySeq, ElementOfSeq
<1>4. /\ Behind(log[Len(log)]) = Place /\ After(log[Len(log)]) = Path
      /\ Lately(log[Len(log)].c.m, pictures[Len(pictures)])
  BY <1>2 DEF IsLog, Current
<1>5. /\ pictures \in Seq(OpenPictures) /\ blocks \in Seq(OpenBlocks)
  BY PathType
<1>6. Path \in Seq(Levels) /\ Len(Path) = Len(pictures) + Len(blocks) /\ Len(pictures) \in Nat \ {0} /\ Len(blocks) \in Nat
  BY <1>5, PathFacts, EmptySeq DEF Path
<1>7. Len(Path) \in Nat \ {0} /\ Path # <<>>
  BY <1>6
<1> QED  BY <1>2, <1>3, <1>4, <1>6, <1>7, SaidFacts

LEMMA TopOfPath ==
  ASSUME WriterInv, NEW S, At(S)
  PROVE  /\ blocks = <<>> => Len(Path) = Len(pictures) /\ Path[Len(Path)] = PictureLevel(Picture)
         /\ blocks # <<>> => Path[Len(Path)] = BlockLevel(blocks[Len(blocks)]) /\ blocks[Len(blocks)] \in OpenBlocks
<1>1. /\ pictures \in Seq(OpenPictures) /\ blocks \in Seq(OpenBlocks) /\ Picture = pictures[Len(pictures)] /\ Len(pictures) \in Nat \ {0}
  BY CallerAt, PathType
<1>2. /\ Len(Path) = Len(pictures) + Len(blocks) /\ Len(blocks) \in Nat
      /\ \A k \in 1..Len(pictures) : Path[k] = PictureLevel(pictures[k])
      /\ \A k \in 1..Len(blocks) : Path[Len(pictures) + k] = BlockLevel(blocks[k])
  BY <1>1, PathFacts DEF Path
<1>3. Len(pictures) \in 1..Len(pictures)
  BY <1>1
<1>4. CASE blocks = <<>>
  <2>1. Len(blocks) = 0 /\ Len(Path) = Len(pictures)
    BY <1>1, <1>2, <1>4
  <2> QED  BY <2>1, <1>1, <1>2, <1>3, <1>4
<1>5. CASE blocks # <<>>
  <2>1. Len(blocks) \in 1..Len(blocks) /\ blocks[Len(blocks)] \in OpenBlocks
    BY <1>1, <1>5, EmptySeq, ElementOfSeq
  <2> QED  BY <2>1, <1>2, <1>5
<1> QED  BY <1>4, <1>5

\* A path whose last level is changed.
LEMMA TopLevelChanged ==
  ASSUME WriterInv, pictures # <<>>, blocks = <<>>, blocks' = blocks,
         NEW p \in OpenPictures, pictures' = [pictures EXCEPT ![Len(pictures)] = p]
  PROVE  /\ Path' = [Path EXCEPT ![Len(Path)] = PictureLevel(p)]
         /\ PictureLevel(p) = PictureLevel(Picture) => Path' = Path
<1> DEFINE n == Len(pictures)
<1> DEFINE r == [Path EXCEPT ![Len(Path)] = PictureLevel(p)]
<1>1. pictures \in Seq(OpenPictures) /\ blocks \in Seq(OpenBlocks) /\ Len(blocks) = 0
  BY PathType
<1>2. /\ pictures' \in Seq(OpenPictures) /\ Len(pictures') = n /\ pictures'[n] = p /\ n \in Nat \ {0}
      /\ \A k \in 1..(n - 1) : pictures'[k] = pictures[k]
  BY <1>1, ExceptLast
<1>3. /\ Path \in Seq(Levels) /\ Len(Path) = n /\ \A k \in 1..n : Path[k] = PictureLevel(pictures[k])
  <2>1. /\ Path \in Seq(Levels) /\ Len(Path) = Len(pictures) + Len(blocks)
        /\ \A k \in 1..Len(pictures) : Path[k] = PictureLevel(pictures[k])
    BY <1>1, PathFacts DEF Path
  <2>2. Len(pictures) + Len(blocks) = n
    <3>1. n \in Nat /\ Len(blocks) = 0
      BY <1>1, <1>2
    <3> QED  BY <3>1
  <2> QED  BY <2>1, <2>2
<1>4. /\ Path' \in Seq(Levels) /\ Len(Path') = n /\ \A k \in 1..n : Path'[k] = PictureLevel(pictures'[k])
  <2>1. pictures' \in Seq(OpenPictures) /\ blocks' \in Seq(OpenBlocks) /\ Len(blocks') = 0
    BY <1>1, <1>2
  <2>2. /\ PathOf(pictures', blocks') \in Seq(Levels) /\ Len(PathOf(pictures', blocks')) = Len(pictures') + Len(blocks')
        /\ \A k \in 1..Len(pictures') : PathOf(pictures', blocks')[k] = PictureLevel(pictures'[k])
    BY <2>1, PathFacts
  <2>3. Path' = PathOf(pictures', blocks')
    BY DEF Path
  <2>4. Len(pictures') + Len(blocks') = n
    <3>1. Len(pictures') = n /\ Len(blocks') = 0 /\ n \in Nat
      BY <1>2, <2>1
    <3> HIDE DEF n
    <3> QED  BY <3>1
  <2> QED  BY <2>2, <2>3, <2>4, <1>2
<1>5. PictureLevel(p) \in Levels /\ Path # <<>>
  BY <1>2, <1>3, LevelFacts
<1>6. /\ r \in Seq(Levels) /\ Len(r) = n /\ r[n] = PictureLevel(p)
      /\ \A k \in 1..(n - 1) : r[k] = Path[k]
  <2> PICK e \in Levels : e = PictureLevel(p)
    BY <1>5
  <2>1. /\ [Path EXCEPT ![Len(Path)] = e] \in Seq(Levels) /\ Len([Path EXCEPT ![Len(Path)] = e]) = Len(Path)
        /\ [Path EXCEPT ![Len(Path)] = e][Len(Path)] = e
        /\ \A k \in 1..(Len(Path) - 1) : [Path EXCEPT ![Len(Path)] = e][k] = Path[k]
    BY <1>3, <1>5, ExceptLast
  <2>2. r = [Path EXCEPT ![Len(Path)] = e]
    OBVIOUS
  <2> HIDE DEF r
  <2> QED  BY <2>1, <2>2, <1>3
<1> HIDE DEF r
<1>7. ASSUME NEW k \in 1..n
      PROVE  Path'[k] = r[k] /\ (PictureLevel(p) = PictureLevel(Picture) => Path'[k] = Path[k])
  <2>1. CASE k = n
    <3>1. Picture = pictures[n]
      BY DEF Picture, Last
    <3> QED  BY <2>1, <3>1, <1>2, <1>3, <1>4, <1>6
  <2>2. CASE k # n
    <3>1. k \in 1..(n - 1) /\ k \in 1..n
      <4>1. n \in Nat \ {0} /\ k \in 1..n /\ k # n
        BY <2>2, <1>2
      <4> HIDE DEF n
      <4> QED  BY <4>1
    <3> QED  BY <3>1, <1>2, <1>3, <1>4, <1>6
  <2> QED  BY <2>1, <2>2
<1>8. Path' = r
  BY <1>4, <1>6, <1>7, SamePath
<1>9. PictureLevel(p) = PictureLevel(Picture) => Path' = Path
  BY <1>3, <1>4, <1>7, SamePath
<1> QED  BY <1>8, <1>9 DEF r

(***************************************************************************)
(* The log follows each call.                                              *)
(***************************************************************************)
LEMMA NoOpenList ==
  ASSUME WriterInv, NEW S, At(S), "ops" \notin S
  PROVE  \A b \in Nat : ~OpenList(b)
<1>1. blocks = <<>>
  BY NoBlocks
<1>2. pictures[Len(pictures)].stage \in S /\ Len(pictures) \in Nat \ {0} /\ \A k \in 1..(Len(pictures) - 1) : pictures[k].stage = "pictures"
  BY CallerAt
<1>3. ASSUME NEW k \in 1..Len(pictures)  PROVE pictures[k].stage # "ops"
  <2>1. CASE k = Len(pictures)
    BY <2>1, <1>2
  <2>2. CASE k # Len(pictures)
    <3>1. k \in 1..(Len(pictures) - 1)
      BY <2>2, <1>2
    <3> QED  BY <3>1, <1>2
  <2> QED  BY <2>1, <2>2
<1>4. 1..Len(blocks) = {}
  BY <1>1
<1> QED  BY <1>3, <1>4 DEF OpenList

LEMMA JoinOne ==
  ASSUME NEW s \in Seq(Calls), NEW c \in Calls
  PROVE  s \o <<>> = s /\ s \o <<c>> = Append(s, c) /\ Append(s, c) \o <<>> = Append(s, c) /\ Front(s \o <<c>>) = s
         /\ Last(s \o <<c>>) = c /\ Append(s, c) \in Seq(Calls)
<1>1. s \o <<>> = s /\ s \o <<c>> = Append(s, c) /\ Append(s, c) \in Seq(Calls)
  OBVIOUS
<1>2. Append(s, c) \o <<>> = Append(s, c)
  BY <1>1
<1> DEFINE t == Append(s, c)
<1>3. t \in Seq(Calls) /\ t # <<>> /\ Len(t) = Len(s) + 1 /\ t[Len(s) + 1] = c /\ Len(s) \in Nat /\ \A i \in 1..Len(s) : t[i] = s[i]
  BY AppendFacts
<1> HIDE DEF t
<1>4. Front(t) \in Seq(Calls) /\ Len(Front(t)) = Len(t) - 1 /\ Last(t) = t[Len(t)] /\ \A i \in 1..(Len(t) - 1) : Front(t)[i] = t[i]
  BY <1>3, FrontFacts
<1>5. Len(Front(t)) = Len(s) /\ \A i \in 1..Len(s) : Front(t)[i] = s[i]
  BY <1>3, <1>4
<1>6. Front(t) = s
  BY <1>4, <1>5, SeqEqual
<1> QED  BY <1>1, <1>2, <1>3, <1>4, <1>6 DEF t

LEMMA EnterPicturesLog ==
  ASSUME WriterInv, EnterPictures, NEW log, IsLog(log)
  PROVE  IsLog(log)'
<1> DEFINE n == Len(pictures)
<1> DEFINE last == log[Len(log)]
<1>1. At({"new"})
  BY DEF EnterPictures
<1>2. /\ pictures # <<>> /\ Picture = pictures[n] /\ Picture \in OpenPictures /\ Picture.stage = "new" /\ Placed(file, Picture)
      /\ n \in Nat \ {0}
  BY <1>1, CallerAt
<1>3. blocks = <<>> /\ blocks' = blocks
  BY <1>1, NoBlocks DEF EnterPictures
<1>4. WriterInv' /\ Steady
  BY EnterPicturesInv
<1> DEFINE p == [pictures[n] EXCEPT !.stage = "pictures"]
<1>5. pictures' = [pictures EXCEPT ![n] = p]
  BY <1>2 DEF EnterPictures, Stage
<1>6. p \in OpenPictures /\ p.at = Picture.at /\ p.stage = "pictures" /\ p.inside = Picture.inside /\ Picture.inside = 0 /\ Picture.at \in Nat
  BY <1>2 DEF OpenPictures, Placed
<1> HIDE DEF p
<1>7. Len(file) \in Nat /\ Len(file') = Len(file) + 1 /\ Len(file) = Picture.at + 2
  <2>1. file \in Seq(FileCells) /\ Int32(0) \in FileCells
    BY CellFacts DEF WriterInv, WriterTypes
  <2>2. Len(file) \in Nat /\ Len(file') = Len(file) + 1
    BY <2>1, AppendFacts DEF EnterPictures
  <2> QED  BY <1>2, <2>2 DEF Placed
<1>8. Keeps
  <2>1. \A b \in Nat : ~OpenList(b)
    BY <1>1, NoOpenList
  <2>2. /\ \A a \in Nat, m \in Nat : Counts(a, m) => Counts(a, m)'
        /\ \A a \in Nat, m \in Nat : Final(a, m) => Final(a, m)'
    <3>1. ~(Picture.stage \in Counted)
      BY <1>2 DEF Counted
    <3> QED  BY <3>1, <1>2, <1>4, <1>5, <1>6, CountsKeptByTop
  <2>3. Len(file) <= Len(file')
    BY <1>7
  <2> QED  BY <2>1, <2>2, <2>3 DEF Keeps
<1>9. Chain(log) /\ \A i \in 1..Len(log) : Holds(log[i])'
  BY <1>4, <1>8, LogStays
<1>10. /\ log # <<>> /\ Behind(last) = Place /\ After(last) = Path /\ Lately(last.c.m, pictures[n])
  BY <1>2, LastToken
<1>11. pictures' # <<>> /\ Len(pictures') = n /\ pictures'[n] = p
  <2>1. pictures \in Seq(OpenPictures)
    BY PathType
  <2> QED  BY <2>1, <1>2, <1>5, <1>6, ExceptLast
<1> HIDE DEF last
<1>12. Behind(last) = Place'
  <2>1. Place = pictures[n].at + 3
    BY <1>2 DEF Place
  <2>2. Place' = Len(file')
    BY <1>6, <1>11 DEF Place
  <2> QED  BY <2>1, <2>2, <1>2, <1>6, <1>7, <1>10
<1>13. After(last) = Path'
  <2>1. PictureLevel(p) = PictureLevel(Picture)
    BY <1>2, <1>6 DEF PictureLevel
  <2> QED  BY <2>1, <1>2, <1>3, <1>5, <1>6, <1>10, TopLevelChanged
<1>14. Lately(last.c.m, p)
  BY <1>2, <1>6, <1>10 DEF Lately
<1>15. Current(log)'
  <2>1. told' # <<>>
    BY <1>11, <1>4 DEF WriterInv, WriterTypes
  <2> QED  BY <2>1, <1>10, <1>11, <1>12, <1>13, <1>14 DEF Current, last
<1>16. Says(log)'
  <2>1. Expected = <<>>
    BY <1>2 DEF Expected
  <2>2. Expected' = <<Call("EnterPictures")>>
    BY <1>6, <1>11 DEF Expected
  <2>3. Said(log) \in Seq(Calls)
    BY <1>9, SaidFacts
  <2>4. "EnterPictures" \in Structure
    BY DEF Structure
  <2>5. Call("EnterPictures") \in Calls /\ Call("EnterPictures").m = "EnterPictures"
    BY <2>4, StructureNamed
  <2>6. Tell(Call("EnterPictures"))
    BY DEF EnterPictures
  <2>7. FoldLeft(Came, <<>>, told') = Came(Said(log) \o <<>>, Call("EnterPictures"))
    BY <2>1, <2>5, <2>6, CameLater
  <2>8. Came(Said(log) \o <<>>, Call("EnterPictures")) = Append(Said(log), Call("EnterPictures"))
    <3>1. Said(log) \o <<>> = Said(log)
      BY <2>3, <2>5, JoinOne
    <3>2. Came(Said(log), Call("EnterPictures")) = Append(Said(log), Call("EnterPictures"))
      BY <2>5, CameAppends
    <3> QED  BY <3>1, <3>2
  <2>9. FoldLeft(Came, <<>>, told') = Said(log) \o <<Call("EnterPictures")>>
    BY <2>3, <2>5, <2>7, <2>8, JoinOne
  <2> QED  BY <2>2, <2>9 DEF Says, Said
<1> QED  BY <1>9, <1>15, <1>16 DEF IsLog

LEMMA TokenFields ==
  ASSUME NEW c \in Calls, NEW at \in Nat, NEW path \in Seq(Levels)
  PROVE  \E t \in Tokens : t.c = c /\ t.at = at /\ t.path = path
<1> DEFINE t == [c |-> c, at |-> at, path |-> path]
<1>1. t \in Tokens /\ t.c = c /\ t.at = at /\ t.path = path
  BY DEF Tokens
<1> QED  BY <1>1

LEMMA PictureLevelFields ==
  ASSUME NEW p
  PROVE  /\ PictureLevel(p).m = "EnterPicture"
         /\ p.stage \in {"ops", "drawn"} => PictureLevel(p).form = "ops" /\ PictureLevel(p).base = p.opsAt /\ PictureLevel(p).nth = 0
         /\ p.stage \notin {"ops", "drawn"} => PictureLevel(p).form = "pictures" /\ PictureLevel(p).base = p.at /\ PictureLevel(p).nth = p.inside
BY DEF PictureLevel, Level

LEMMA ExitPicturesLog ==
  ASSUME WriterInv, ExitPictures, NEW log, IsLog(log)
  PROVE  \E l : IsLog(l)'
<1> DEFINE n == Len(pictures)
<1> DEFINE last == log[Len(log)]
<1>1. At({"pictures"})
  BY DEF ExitPictures
<1>2. /\ pictures # <<>> /\ Picture = pictures[n] /\ Picture \in OpenPictures /\ Picture.stage = "pictures" /\ Placed(file, Picture)
      /\ n \in Nat \ {0} /\ Matches(Info, Picture) /\ Picture.at \in Nat /\ Picture.inside \in Nat
  BY <1>1, CallerAt DEF OpenPictures
<1>3. blocks = <<>> /\ blocks' = blocks
  BY <1>1, NoBlocks DEF ExitPictures
<1>4. WriterInv' /\ Steady
  BY ExitPicturesInv
<1> DEFINE p == [pictures[n] EXCEPT !.stage = "pictured"]
<1>5. pictures' = [pictures EXCEPT ![n] = p]
  BY <1>2 DEF ExitPictures, Stage
<1>6. p \in OpenPictures /\ p.at = Picture.at /\ p.stage = "pictured" /\ p.inside = Picture.inside
  BY <1>2 DEF OpenPictures
<1> HIDE DEF p
<1>7. file \in Seq(FileCells) /\ Len(file) \in Nat /\ Len(file') = Len(file)
  <2>1. file \in Seq(FileCells) /\ Len(file) \in Nat
    BY PathType
  <2>2. file' = Patch(file, Picture.at + 2, Picture.inside)
    BY <1>2 DEF ExitPictures, Matches
  <2> PICK q \in Nat : q = Picture.at + 2
    BY <1>2
  <2> PICK v \in Nat : v = Picture.inside
    BY <1>2
  <2>3. q < Len(file)
    BY <1>2, <2>1 DEF Placed
  <2>4. Len(Patch(file, q, v)) = Len(file)
    BY <2>1, <2>3, PatchFacts
  <2> QED  BY <2>1, <2>2, <2>4
<1>8. Keeps
  <2>1. \A b \in Nat : ~OpenList(b)
    BY <1>1, NoOpenList
  <2>2. /\ \A a \in Nat, m \in Nat : Counts(a, m) => Counts(a, m)'
        /\ \A a \in Nat, m \in Nat : Final(a, m) => Final(a, m)'
    <3>1. ~(Picture.stage \in Counted)
      BY <1>2 DEF Counted
    <3> QED  BY <3>1, <1>2, <1>4, <1>5, <1>6, CountsKeptByTop
  <2>3. Len(file) <= Len(file')
    BY <1>7
  <2> QED  BY <2>1, <2>2, <2>3 DEF Keeps
<1>9. Chain(log) /\ \A i \in 1..Len(log) : Holds(log[i])'
  BY <1>4, <1>8, LogStays
<1>10. /\ log # <<>> /\ Behind(last) = Place /\ After(last) = Path /\ Lately(last.c.m, pictures[n])
       /\ Path \in Seq(Levels) /\ Path # <<>> /\ Last(Said(log)) = last.c
  BY <1>2, LastToken
<1>11. pictures' # <<>> /\ Len(pictures') = n /\ pictures'[n] = p
  <2>1. pictures \in Seq(OpenPictures)
    BY PathType
  <2> QED  BY <2>1, <1>2, <1>5, <1>6, ExceptLast
<1>12. Path' = Path
  <2>1. PictureLevel(p) = PictureLevel(Picture)
    BY <1>2, <1>6 DEF PictureLevel
  <2> QED  BY <2>1, <1>2, <1>3, <1>5, <1>6, TopLevelChanged
<1>13. Place = Len(file) /\ Place' = Len(file)
  <2>1. Place = Len(file)
    BY <1>2 DEF Place
  <2>2. Place' = Len(file')
    BY <1>6, <1>11 DEF Place
  <2> QED  BY <2>1, <2>2, <1>7
<1>14. told' # <<>>
  BY <1>11, <1>4 DEF WriterInv, WriterTypes
<1>15. Expected' = <<>>
  BY <1>6, <1>11 DEF Expected
<1> DEFINE call == Call("ExitPictures")
<1>16. call \in Calls /\ call.m = "ExitPictures" /\ ~IsOp(call) /\ Tell(call)
  <2>1. "ExitPictures" \in Structure
    BY DEF Structure
  <2> QED  BY <2>1, StructureNamed DEF ExitPictures
<1>17. Said(log) \in Seq(Calls)
  BY <1>9, SaidFacts
<1> HIDE DEF call, last
<1>18. FoldLeft(Came, <<>>, told') = Came(Said(log) \o Expected, call)
  BY <1>16, CameLater
<1>19. CASE Picture.inside = 0
  <2>1. Lately(last.c.m, p)
    BY <1>2, <1>6, <1>10, <1>19 DEF Lately
  <2>2. Current(log)'
    BY <2>1, <1>10, <1>11, <1>12, <1>13, <1>14 DEF Current, last
  <2>3. Says(log)'
    <3> DEFINE e == Call("EnterPictures")
    <3>1. Expected = <<e>>
      BY <1>2, <1>19 DEF Expected
    <3>2. e \in Calls /\ e.m = "EnterPictures"
      <4>1. "EnterPictures" \in Structure
        BY DEF Structure
      <4> QED  BY <4>1, StructureNamed
    <3> HIDE DEF e
    <3>3. Last(Said(log) \o <<e>>) = e /\ Front(Said(log) \o <<e>>) = Said(log) /\ Said(log) \o <<>> = Said(log)
      BY <3>2, <1>17, JoinOne
    <3>4. Came(Said(log) \o <<e>>, call) = Said(log)
      BY <3>2, <3>3, <1>16, CameDrops
    <3>5. FoldLeft(Came, <<>>, told') = Said(log) \o Expected'
      BY <3>1, <3>3, <3>4, <1>15, <1>18
    <3> QED  BY <3>5 DEF Says, Said
  <2> QED  BY <2>2, <2>3, <1>9 DEF IsLog
<1>20. CASE Picture.inside # 0
  <2>1. last.c.m = "ExitPicture"
    BY <1>2, <1>10, <1>20 DEF Lately
  <2> PICK t \in Tokens : t.c = call /\ t.at = Place /\ t.path = Path
    BY <1>7, <1>10, <1>13, <1>16, TokenFields
  <2> DEFINE top == t.path[Len(t.path)]
  <2> PICK a \in Nat, i \in Nat : a = Picture.at /\ i = Picture.inside
    BY <1>2
  <2>2. top.m = "EnterPicture" /\ top.form = "pictures" /\ top.base = a /\ top.nth = i
    <3>1. top = PictureLevel(Picture) /\ Picture.stage \notin {"ops", "drawn"}
      BY <1>1, <1>2, <1>3, TopOfPath
    <3> HIDE DEF top
    <3> QED  BY <3>1, PictureLevelFields
  <2> HIDE DEF top
  <2>3. Fits(t)
    <3>1. top.nth > 0
      BY <2>2, <1>20
    <3> QED  BY <2>2, <3>1, <1>16 DEF Fits, top, BlockExits, Enter, Exit
  <2>4. Follows(last.c.m, t.c.m)
    BY <2>1, <1>16 DEF Follows
  <2>5. Holds(t)'
    <3>1. t.at <= Len(file') /\ t.path # <<>>
      BY <1>7, <1>10, <1>13
    <3>2. Final(a, i)'
      <4>1. n \in 1..Len(pictures') /\ pictures'[n].at = a /\ pictures'[n].inside = i /\ pictures'[n].stage = "pictured"
        BY <1>2, <1>6, <1>11
      <4> QED  BY <4>1 DEF Final
    <3> QED  BY <3>1, <3>2, <2>2, <1>16 DEF Holds, top, BlockExits, Enter, Exit
  <2> DEFINE l == Append(log, t)
  <2>6. /\ Chain(l) /\ \A j \in 1..Len(l) : Holds(l[j])'
        /\ l # <<>> /\ l[Len(l)] = t /\ Said(l) = Append(Said(log), t.c)
    BY <2>3, <2>4, <2>5, <1>9, <1>10, LogGrows DEF last
  <2> HIDE DEF l
  <2>7. Behind(t) = Place /\ After(t) = Path
    BY <1>16 DEF Behind, After, BlockExits, Enter, Exit
  <2>8. Lately(t.c.m, p)
    BY <1>6, <1>16, <1>20 DEF Lately
  <2>9. Current(l)'
    BY <2>6, <2>7, <2>8, <1>11, <1>12, <1>13, <1>14 DEF Current
  <2>10. Says(l)'
    <3>1. Expected = <<>>
      BY <1>2, <1>20 DEF Expected
    <3>2. Said(log) \o <<>> = Said(log) /\ Append(Said(log), call) \o <<>> = Append(Said(log), call)
      BY <1>16, <1>17, JoinOne
    <3>3. Came(Said(log), call) = Append(Said(log), call)
      BY <2>1, <1>10, <1>16, CameAppends
    <3>4. FoldLeft(Came, <<>>, told') = Said(l) \o Expected'
      BY <3>1, <3>2, <3>3, <2>6, <1>15, <1>18
    <3> QED  BY <3>4 DEF Says, Said
  <2>11. IsLog(l)'
    BY <2>6, <2>9, <2>10 DEF IsLog
  <2> QED  BY <2>11
<1> QED  BY <1>19, <1>20

LEMMA LastReplaced ==
  ASSUME NEW S, NEW s \in Seq(S), s # <<>>, NEW e \in S
  PROVE  [s EXCEPT ![Len(s)] = e] = Append(Front(s), e)
<1> DEFINE r == [s EXCEPT ![Len(s)] = e]
<1> DEFINE t == Append(Front(s), e)
<1>1. r \in Seq(S) /\ Len(r) = Len(s) /\ r[Len(s)] = e /\ Len(s) \in Nat \ {0} /\ \A i \in 1..(Len(s) - 1) : r[i] = s[i]
  BY ExceptLast
<1>2. Front(s) \in Seq(S) /\ Len(Front(s)) = Len(s) - 1 /\ \A i \in 1..(Len(s) - 1) : Front(s)[i] = s[i]
  BY FrontFacts
<1>3. t \in Seq(S) /\ Len(t) = Len(Front(s)) + 1 /\ t[Len(Front(s)) + 1] = e /\ \A i \in 1..Len(Front(s)) : t[i] = Front(s)[i]
  BY <1>2, AppendFacts
<1> HIDE DEF r, t
<1>4. Len(t) = Len(s) /\ t[Len(s)] = e /\ \A i \in 1..(Len(s) - 1) : t[i] = s[i]
  <2>1. Len(s) - 1 + 1 = Len(s)
    BY <1>1
  <2> QED  BY <2>1, <1>2, <1>3
<1>5. ASSUME NEW i \in 1..Len(s)  PROVE r[i] = t[i]
  <2>1. CASE i = Len(s)
    BY <2>1, <1>1, <1>4
  <2>2. CASE i # Len(s)
    <3>1. i \in 1..(Len(s) - 1)
      BY <2>2, <1>1
    <3> QED  BY <3>1, <1>1, <1>4
  <2> QED  BY <2>1, <2>2
<1>6. r = t
  BY <1>1, <1>3, <1>4, <1>5, SeqEqual
<1> QED  BY <1>6 DEF r, t

LEMMA EnterOpsLog ==
  ASSUME WriterInv, EnterOps, NEW log, IsLog(log)
  PROVE  \E l : IsLog(l)'
<1> DEFINE n == Len(pictures)
<1> DEFINE last == log[Len(log)]
<1>1. At({"new", "pictured"})
  BY DEF EnterOps
<1>2. /\ pictures # <<>> /\ Picture = pictures[n] /\ Picture \in OpenPictures /\ Picture.stage \in {"new", "pictured"} /\ Placed(file, Picture)
      /\ n \in Nat \ {0} /\ Matches(Info, Picture) /\ Picture.at \in Nat /\ Picture.inside \in Nat
  BY <1>1, CallerAt DEF OpenPictures
<1>3. blocks = <<>> /\ blocks' = blocks
  BY <1>1, NoBlocks DEF EnterOps
<1>4. WriterInv' /\ Steady
  BY EnterOpsInv
<1> DEFINE counted == file \o IF Info.pictures THEN <<>> ELSE <<Int32(Info.pictCnt)>>
<1>5. file \in Seq(FileCells) /\ Len(file) \in Nat
  BY PathType
<1>6. counted \in Seq(FileCells) /\ Len(counted) = Place /\ Place \in Nat /\ Place >= Len(file)
  <2>1. CASE Picture.stage = "new"
    <3>1. Info.pictures = FALSE /\ Info.pictCnt = Picture.inside /\ Picture.at + 2 = Len(file)
      BY <2>1, <1>2 DEF Matches, Placed
    <3>2. counted = file \o <<Int32(Picture.inside)>>
      BY <3>1
    <3> PICK g \in Seq(FileCells) : g = <<Int32(Picture.inside)>> /\ Len(g) = 1
      BY <1>2, Counts32
    <3>3. counted = file \o g
      BY <3>2
    <3> HIDE DEF counted
    <3>4. file \o g \in Seq(FileCells) /\ Len(file \o g) = Len(file) + 1
      BY <1>5, GrowFacts
    <3>5. Place = Picture.at + 3
      BY <2>1, <1>2 DEF Place
    <3>6. Place = Len(file) + 1
      BY <3>1, <3>5, <1>2
    <3> QED  BY <3>3, <3>4, <3>6, <1>5
  <2>2. CASE Picture.stage = "pictured"
    <3>1. Info.pictures = TRUE
      BY <2>2, <1>2 DEF Matches
    <3>2. counted = file
      BY <3>1, <1>5
    <3>3. Place = Len(file)
      BY <2>2, <1>2 DEF Place
    <3> HIDE DEF counted
    <3> QED  BY <3>2, <3>3, <1>5
  <2> QED  BY <2>1, <2>2, <1>2
<1> DEFINE p == [pictures[n] EXCEPT !.stage = "ops", !.opsAt = Len(counted) + 1]
<1>7. pictures' = [pictures EXCEPT ![n] = p] /\ file' = Append(counted, Int32(0))
  BY <1>2 DEF EnterOps
<1>8. Len(file') = Place + 1
  <2>1. Int32(0) \in FileCells
    BY CellFacts
  <2> HIDE DEF counted
  <2> QED  BY <2>1, <1>6, <1>7, AppendFacts
<1> HIDE DEF counted
<1>9. p \in OpenPictures /\ p.at = Picture.at /\ p.stage = "ops" /\ p.inside = Picture.inside /\ p.opsAt = Place + 1
  <2>1. Len(counted) + 1 \in Nat
    BY <1>6
  <2> QED  BY <2>1, <1>2, <1>6 DEF OpenPictures
<1> HIDE DEF p
<1>10. Keeps
  <2>1. \A b \in Nat : ~OpenList(b)
    BY <1>1, NoOpenList
  <2>2. /\ \A a \in Nat, m \in Nat : Counts(a, m) => Counts(a, m)'
        /\ \A a \in Nat, m \in Nat : Final(a, m) => Final(a, m)'
    <3>1. p.stage \in Counted
      BY <1>9 DEF Counted
    <3> QED  BY <3>1, <1>2, <1>4, <1>7, <1>9, CountsKeptByTop
  <2>3. Len(file) <= Len(file')
    BY <1>5, <1>6, <1>8
  <2> QED  BY <2>1, <2>2, <2>3 DEF Keeps
<1>11. Chain(log) /\ \A i \in 1..Len(log) : Holds(log[i])'
  BY <1>4, <1>10, LogStays
<1>12. /\ log # <<>> /\ Behind(last) = Place /\ After(last) = Path /\ Lately(last.c.m, pictures[n])
       /\ Path \in Seq(Levels) /\ Path # <<>> /\ Last(Said(log)) = last.c
  BY <1>2, LastToken
<1>13. pictures' # <<>> /\ Len(pictures') = n /\ pictures'[n] = p
  <2>1. pictures \in Seq(OpenPictures)
    BY PathType
  <2> QED  BY <2>1, <1>2, <1>7, <1>9, ExceptLast
<1>14. Path' = Append(Front(Path), PictureLevel(p))
  <2>1. Path' = [Path EXCEPT ![Len(Path)] = PictureLevel(p)]
    BY <1>2, <1>3, <1>7, <1>9, TopLevelChanged
  <2> PICK e \in Levels : e = PictureLevel(p)
    BY <1>9, LevelFacts
  <2>2. [Path EXCEPT ![Len(Path)] = e] = Append(Front(Path), e)
    BY <1>12, LastReplaced
  <2> QED  BY <2>1, <2>2
<1>15. Place' = Len(file')
  BY <1>9, <1>13 DEF Place
<1>16. told' # <<>> /\ Expected = <<>> /\ Expected' = <<>>
  BY <1>2, <1>4, <1>9, <1>13 DEF WriterInv, WriterTypes, Expected
<1> DEFINE call == Call("EnterOps")
<1>17. call \in Calls /\ call.m = "EnterOps" /\ Tell(call)
  <2>1. "EnterOps" \in Structure
    BY DEF Structure
  <2> QED  BY <2>1, StructureNamed DEF EnterOps
<1>a. ~IsOp(call)
  <2>1. "EnterOps" \in Structure
    BY DEF Structure
  <2> QED  BY <2>1, StructureNamed
<1>18. Said(log) \in Seq(Calls)
  BY <1>11, SaidFacts
<1> HIDE DEF call, last
<1>19. FoldLeft(Came, <<>>, told') = Came(Said(log) \o Expected, call)
  BY <1>17, CameLater
<1> PICK t \in Tokens : t.c = call /\ t.at = Place /\ t.path = Path
  BY <1>6, <1>12, <1>17, TokenFields
<1> DEFINE top == t.path[Len(t.path)]
<1> PICK a \in Nat, i \in Nat : a = Picture.at /\ i = Picture.inside
  BY <1>2
<1>20. top.m = "EnterPicture" /\ top.form = "pictures" /\ top.base = a /\ top.nth = i
  <2>1. top = PictureLevel(Picture) /\ Picture.stage \notin {"ops", "drawn"}
    BY <1>1, <1>2, <1>3, TopOfPath
  <2> HIDE DEF top
  <2> QED  BY <2>1, PictureLevelFields
<1>21. last.c.m \in {"EnterPicture", "ExitPictures"}
  <2>1. CASE Picture.stage = "new"
    BY <2>1, <1>2, <1>12 DEF Lately
  <2>2. CASE Picture.stage = "pictured"
    BY <2>2, <1>2, <1>12 DEF Lately
  <2> QED  BY <2>1, <2>2, <1>2
<1> HIDE DEF top
<1>22. Fits(t)
  BY <1>17, <1>20 DEF Fits, top, BlockExits, Enter, Exit
<1>23. Follows(last.c.m, t.c.m)
  BY <1>21, <1>17 DEF Follows
<1>24. Holds(t)'
  <2>1. t.at <= Len(file') /\ t.path # <<>>
    BY <1>6, <1>8, <1>12
  <2>2. Final(a, i)'
    <3>1. n \in 1..Len(pictures') /\ pictures'[n].at = a /\ pictures'[n].inside = i /\ pictures'[n].stage = "ops"
      BY <1>2, <1>9, <1>13
    <3> QED  BY <3>1 DEF Final
  <2> QED  BY <2>1, <2>2, <1>20, <1>17, <1>a DEF Holds, top, BlockExits, Enter, Exit
<1> DEFINE l == Append(log, t)
<1>25. /\ Chain(l) /\ \A j \in 1..Len(l) : Holds(l[j])'
       /\ l # <<>> /\ l[Len(l)] = t /\ Said(l) = Append(Said(log), t.c)
  BY <1>11, <1>12, <1>22, <1>23, <1>24, LogGrows DEF last
<1> HIDE DEF l
<1>26. Behind(t) = Place'
  <2>1. Behind(t) = Place + 1
    BY <1>17 DEF Behind
  <2> QED  BY <2>1, <1>8, <1>15
<1>27. After(t) = Path'
  <2>1. After(t) = Append(Front(Path), Level("EnterPicture", "ops", Place + 1, 0))
    BY <1>17 DEF After
  <2>2. PictureLevel(p) = Level("EnterPicture", "ops", Place + 1, 0)
    BY <1>9 DEF PictureLevel
  <2> QED  BY <2>1, <2>2, <1>14
<1>28. Lately(t.c.m, p)
  BY <1>9, <1>17 DEF Lately
<1>29. Current(l)'
  BY <1>25, <1>26, <1>27, <1>28, <1>13, <1>16 DEF Current
<1>30. Says(l)'
  <2>1. Said(log) \o <<>> = Said(log) /\ Append(Said(log), call) \o <<>> = Append(Said(log), call)
    BY <1>17, <1>18, JoinOne
  <2>2. Came(Said(log), call) = Append(Said(log), call)
    BY <1>17, CameAppends
  <2>3. FoldLeft(Came, <<>>, told') = Said(l) \o Expected'
    BY <2>1, <2>2, <1>16, <1>19, <1>25
  <2> QED  BY <2>3 DEF Says, Said
<1>31. IsLog(l)'
  BY <1>25, <1>29, <1>30 DEF IsLog
<1> QED  BY <1>31

\* A size that has been patched in.
LEMMA SizePatched ==
  ASSUME WriterInv', NEW o \in Nat \ {0}, NEW v \in Nat, [at |-> o - 1, value |-> v] \in fields'
  PROVE  Settled(o - 1)' /\ file'[o].v = v
<1> PICK f : f = [at |-> o - 1, value |-> v]
  OBVIOUS
<1>1. Settled(f.at)' /\ file'[f.at + 1] = Int32(f.value)
  BY DEF WriterInv, FieldsInv
<1>2. f.at = o - 1 /\ f.at + 1 = o /\ f.value = v
  OBVIOUS
<1> QED  BY <1>1, <1>2, CellFacts

LEMMA ExitOpsLog ==
  ASSUME WriterInv, ExitOps, NEW log, IsLog(log)
  PROVE  \E l : IsLog(l)'
<1> DEFINE n == Len(pictures)
<1> DEFINE last == log[Len(log)]
<1>1. At({"ops"})
  BY DEF ExitOps
<1>2. /\ pictures # <<>> /\ Picture = pictures[n] /\ Picture \in OpenPictures /\ Picture.stage = "ops" /\ Placed(file, Picture)
      /\ n \in Nat \ {0} /\ Matches(Info, Picture) /\ Picture.at \in Nat /\ Picture.inside \in Nat /\ Picture.opsAt \in Nat
      /\ \A k \in 1..(n - 1) : pictures[k].stage = "pictures"
  BY <1>1, CallerAt DEF OpenPictures
<1>3. blocks = <<>> /\ blocks' = blocks
  BY DEF ExitOps
<1>4. WriterInv' /\ Steady
  BY ExitOpsInv
<1> DEFINE p == [pictures[n] EXCEPT !.stage = "drawn"]
<1>5. pictures' = [pictures EXCEPT ![n] = p]
  BY <1>2 DEF ExitOps, Stage
<1>6. p \in OpenPictures /\ p.at = Picture.at /\ p.stage = "drawn" /\ p.inside = Picture.inside /\ p.opsAt = Picture.opsAt
  BY <1>2 DEF OpenPictures
<1> HIDE DEF p
<1> PICK o \in Nat : o = Picture.opsAt
  BY <1>2
<1>7. file \in Seq(FileCells) /\ Len(file) \in Nat /\ o \in Nat \ {0} /\ o <= Len(file)
  <2>1. Picture.at + 4 <= o /\ o <= Len(file)
    BY <1>2 DEF Placed
  <2> QED  BY <2>1, <1>2, PathType
<1> PICK v \in Nat : v = Len(file) - o
  BY <1>7
<1>8. Len(file') = Len(file) /\ o + v = Len(file)
  <2>1. file' = Patch(file, o - 1, v)
    <3>1. Info.opsPos = Picture.opsAt
      BY <1>2 DEF Matches
    <3> QED  BY <3>1 DEF ExitOps
  <2> PICK q \in Nat : q = o - 1
    BY <1>7
  <2>2. q < Len(file) /\ file \in Seq(FileCells)
    BY <1>7
  <2>3. Len(Patch(file, q, v)) = Len(file)
    BY <2>2, PatchFacts
  <2> QED  BY <2>1, <2>3, <1>7
<1>9. Settled(o - 1)' /\ file'[o].v = v
  <2>1. [at |-> o - 1, value |-> v] \in fields'
    BY DEF ExitOps, Finish
  <2> QED  BY <2>1, <1>4, <1>7, SizePatched
<1>10. Keeps
  <2>1. ASSUME NEW b \in Nat, OpenList(b)  PROVE Settled(b - 1)' /\ b + file'[b].v = Len(file)
    <3>1. 1..Len(blocks) = {}
      BY <1>3
    <3>2. PICK k \in 1..n : pictures[k].stage = "ops" /\ b = pictures[k].opsAt
      BY <2>1, <3>1 DEF OpenList
    <3>3. k = n
      <4>1. CASE k # n
        <5>1. k \in 1..(n - 1)
          BY <4>1, <1>2
        <5> QED  BY <5>1, <3>2, <1>2
      <4> QED  BY <4>1
    <3>4. b = o
      BY <3>2, <3>3, <1>2
    <3> QED  BY <3>4, <1>8, <1>9
  <2>2. /\ \A a \in Nat, m \in Nat : Counts(a, m) => Counts(a, m)'
        /\ \A a \in Nat, m \in Nat : Final(a, m) => Final(a, m)'
    <3>1. p.stage \in Counted
      BY <1>6 DEF Counted
    <3> QED  BY <3>1, <1>2, <1>4, <1>5, <1>6, CountsKeptByTop
  <2>3. Len(file) <= Len(file')
    BY <1>7, <1>8
  <2> QED  BY <2>1, <2>2, <2>3 DEF Keeps
<1>11. Chain(log) /\ \A i \in 1..Len(log) : Holds(log[i])'
  BY <1>4, <1>10, LogStays
<1>12. /\ log # <<>> /\ Behind(last) = Place /\ After(last) = Path /\ Lately(last.c.m, pictures[n])
       /\ Path \in Seq(Levels) /\ Path # <<>> /\ Last(Said(log)) = last.c
  BY <1>2, LastToken
<1>13. pictures' # <<>> /\ Len(pictures') = n /\ pictures'[n] = p
  <2>1. pictures \in Seq(OpenPictures)
    BY PathType
  <2> QED  BY <2>1, <1>2, <1>5, <1>6, ExceptLast
<1>14. Path' = Path
  <2>1. PictureLevel(p) = PictureLevel(Picture)
    BY <1>2, <1>6 DEF PictureLevel
  <2> QED  BY <2>1, <1>2, <1>3, <1>5, <1>6, TopLevelChanged
<1>15. Place = Len(file) /\ Place' = Len(file)
  <2>1. Place = Len(file)
    BY <1>2 DEF Place
  <2>2. Place' = Len(file')
    BY <1>6, <1>13 DEF Place
  <2> QED  BY <2>1, <2>2, <1>8
<1>16. told' # <<>> /\ Expected = <<>> /\ Expected' = <<>>
  BY <1>2, <1>4, <1>6, <1>13 DEF WriterInv, WriterTypes, Expected
<1> DEFINE call == Call("ExitOps")
<1>17. call \in Calls /\ call.m = "ExitOps" /\ Tell(call)
  <2>1. "ExitOps" \in Structure
    BY DEF Structure
  <2> QED  BY <2>1, StructureNamed DEF ExitOps
<1>a. ~IsOp(call)
  <2>1. "ExitOps" \in Structure
    BY DEF Structure
  <2> QED  BY <2>1, StructureNamed
<1>18. Said(log) \in Seq(Calls)
  BY <1>11, SaidFacts
<1> HIDE DEF call, last
<1>19. FoldLeft(Came, <<>>, told') = Came(Said(log) \o Expected, call)
  BY <1>17, CameLater
<1> PICK t \in Tokens : t.c = call /\ t.at = Place /\ t.path = Path
  BY <1>7, <1>12, <1>15, <1>17, TokenFields
<1> DEFINE top == t.path[Len(t.path)]
<1>20. top.m = "EnterPicture" /\ top.form = "ops" /\ top.base = o
  <2>1. top = PictureLevel(Picture) /\ Picture.stage \in {"ops", "drawn"}
    BY <1>1, <1>2, <1>3, TopOfPath
  <2> HIDE DEF top
  <2> QED  BY <2>1, PictureLevelFields
<1>21. last.c.m \notin {"EnterPicture", "EnterPictures", "ExitPictures", "ExitOps"}
  BY <1>2, <1>12 DEF Lately
<1> HIDE DEF top
<1>22. Fits(t)
  BY <1>17, <1>20 DEF Fits, top, BlockExits, Enter, Exit
<1>23. Follows(last.c.m, t.c.m)
  BY <1>21, <1>17 DEF Follows
<1>24. Holds(t)'
  <2>1. t.at <= Len(file') /\ t.path # <<>>
    BY <1>7, <1>8, <1>12, <1>15
  <2>2. t.at = o + file'[o].v
    BY <1>8, <1>9, <1>15
  <2> QED  BY <2>1, <2>2, <1>9, <1>20, <1>17, <1>a DEF Holds, top, BlockExits, Enter, Exit
<1> DEFINE l == Append(log, t)
<1>25. /\ Chain(l) /\ \A j \in 1..Len(l) : Holds(l[j])'
       /\ l # <<>> /\ l[Len(l)] = t /\ Said(l) = Append(Said(log), t.c)
  BY <1>11, <1>12, <1>22, <1>23, <1>24, LogGrows DEF last
<1> HIDE DEF l
<1>26. Behind(t) = Place' /\ After(t) = Path'
  <2>1. Behind(t) = Place
    BY <1>17, <1>a DEF Behind, Enter
  <2>2. After(t) = Path
    BY <1>17 DEF After, BlockExits, Enter, Exit
  <2> QED  BY <2>1, <2>2, <1>14, <1>15
<1>28. Lately(t.c.m, p)
  BY <1>6, <1>17 DEF Lately
<1>29. Current(l)'
  BY <1>25, <1>26, <1>28, <1>13, <1>16 DEF Current
<1>30. Says(l)'
  <2>1. Said(log) \o <<>> = Said(log) /\ Append(Said(log), call) \o <<>> = Append(Said(log), call)
    BY <1>17, <1>18, JoinOne
  <2>2. Came(Said(log), call) = Append(Said(log), call)
    BY <1>17, CameAppends
  <2>3. FoldLeft(Came, <<>>, told') = Said(l) \o Expected'
    BY <2>1, <2>2, <1>16, <1>19, <1>25
  <2> QED  BY <2>3 DEF Says, Said
<1>31. IsLog(l)'
  BY <1>25, <1>29, <1>30 DEF IsLog
<1> QED  BY <1>31

(***************************************************************************)
(* Calls within a list of operations.                                      *)
(***************************************************************************)
LEMMA OpenPlaces ==
  ASSUME WriterInv, At({"ops"})
  PROVE  /\ \A k \in 1..Len(pictures) : pictures[k].at \in Nat /\ pictures[k].at + 2 < Len(file)
         /\ \A k \in 1..Len(pictures) : pictures[k].stage = "ops" => pictures[k].opsAt \in Nat /\ pictures[k].opsAt - 1 < Len(file)
         /\ \A k \in 1..Len(blocks) : blocks[k].at \in Nat /\ blocks[k].at + 1 < Len(file)
         /\ Len(file) \in Nat
<1>0. Len(file) \in Nat /\ blocks \in Seq(OpenBlocks)
  BY PathType
<1>1. Len(pictures) \in Nat \ {0} /\ Picture = pictures[Len(pictures)] /\ Picture.stage = "ops"
      /\ \A k \in 1..(Len(pictures) - 1) : pictures[k].stage = "pictures"
  BY CallerAt
<1>2. ASSUME NEW k \in 1..Len(pictures)
      PROVE  /\ pictures[k].at \in Nat /\ pictures[k].at + 2 < Len(file)
             /\ pictures[k].stage = "ops" => pictures[k].opsAt \in Nat /\ pictures[k].opsAt - 1 < Len(file)
  <2>1. pictures[k].stage # "new"
    <3>1. CASE k = Len(pictures)
      BY <3>1, <1>1
    <3>2. CASE k # Len(pictures)
      <4>1. k \in 1..(Len(pictures) - 1)
        BY <3>2, <1>1
      <4> QED  BY <4>1, <1>1
    <3> QED  BY <3>1, <3>2
  <2>2. Placed(file, pictures[k]) /\ pictures[k].at \in Nat /\ pictures[k].opsAt \in Nat
    BY PictureNumbers DEF WriterInv, PicturesInv
  <2>3. pictures[k].at + 3 <= Len(file) /\ (pictures[k].stage = "ops" => pictures[k].opsAt <= Len(file))
    BY <2>1, <2>2 DEF Placed
  <2> QED  BY <2>2, <2>3, <1>0
<1>3. ASSUME NEW k \in 1..Len(blocks)  PROVE blocks[k].at \in Nat /\ blocks[k].at + 1 < Len(file)
  <2>1. blocks[k] \in OpenBlocks
    BY <1>0
  <2>2. blocks[k].at \in Nat /\ blocks[k].at + 2 <= Len(file)
    BY <2>1 DEF OpenBlocks, WriterInv, BlocksInv
  <2> QED  BY <2>2, <1>0
<1> QED  BY <1>0, <1>2, <1>3

LEMMA TopIsOpen ==
  ASSUME WriterInv, At({"ops"})
  PROVE  \E b \in Nat :
            /\ OpenList(b) /\ Path[Len(Path)].form = "ops" /\ Path[Len(Path)].base = b
            /\ blocks = <<>> => Path[Len(Path)].m = "EnterPicture"
            /\ blocks # <<>> => b = blocks[Len(blocks)].at + 2 /\ Path[Len(Path)].m = blocks[Len(blocks)].m /\ blocks[Len(blocks)].m \in Enter
<1>1. Len(pictures) \in Nat \ {0} /\ Picture = pictures[Len(pictures)] /\ Picture.stage = "ops" /\ Picture \in OpenPictures
  BY CallerAt
<1>2. CASE blocks = <<>>
  <2>1. Path[Len(Path)] = PictureLevel(Picture)
    BY <1>2, TopOfPath
  <2> PICK e : e = Path[Len(Path)]
    OBVIOUS
  <2> PICK b \in Nat : b = Picture.opsAt
    BY <1>1 DEF OpenPictures
  <2>2. e.form = "ops" /\ e.base = b /\ e.m = "EnterPicture"
    BY <2>1, <1>1, PictureLevelFields
  <2>3. OpenList(b)
    <3>1. Len(pictures) \in 1..Len(pictures)
      BY <1>1
    <3> QED  BY <3>1, <1>1 DEF OpenList
  <2> QED  BY <2>2, <2>3, <1>2
<1>3. CASE blocks # <<>>
  <2>1. Path[Len(Path)] = BlockLevel(blocks[Len(blocks)]) /\ blocks[Len(blocks)] \in OpenBlocks
    BY <1>3, TopOfPath
  <2> PICK e : e = Path[Len(Path)]
    OBVIOUS
  <2> PICK x \in OpenBlocks : x = blocks[Len(blocks)]
    BY <2>1
  <2> PICK b \in Nat : b = x.at + 2
    BY DEF OpenBlocks
  <2>2. e.form = "ops" /\ e.base = b /\ e.m = x.m /\ x.m \in Enter
    BY <2>1 DEF BlockLevel, Level, OpenBlocks
  <2>3. OpenList(b)
    <3>1. Len(blocks) \in 1..Len(blocks)
      BY <1>3, PathType, EmptySeq
    <3> QED  BY <3>1 DEF OpenList
  <2> QED  BY <2>2, <2>3, <1>3
<1> QED  BY <1>2, <1>3

LEMMA PathGrows ==
  ASSUME NEW p \in Seq(OpenPictures), NEW b \in Seq(OpenBlocks), NEW x \in OpenBlocks
  PROVE  PathOf(p, Append(b, x)) = Append(PathOf(p, b), BlockLevel(x))
<1> PICK c \in Seq(OpenBlocks) : c = Append(b, x)
  BY AppendFacts
<1>1. Len(c) = Len(b) + 1 /\ c[Len(b) + 1] = x /\ \A k \in 1..Len(b) : c[k] = b[k]
  BY AppendFacts
<1> PICK s \in Seq(Levels) : s = PathOf(p, b)
  BY PathFacts
<1> PICK r \in Seq(Levels) : r = PathOf(p, c)
  BY PathFacts
<1> PICK e \in Levels : e = BlockLevel(x)
  BY LevelFacts
<1> PICK i \in Nat, j \in Nat : i = Len(p) /\ j = Len(b)
  OBVIOUS
<1>2. /\ Len(s) = i + j
      /\ \A k \in 1..i : s[k] = PictureLevel(p[k])
      /\ \A k \in 1..j : s[i + k] = BlockLevel(b[k])
  BY PathFacts
<1>3. /\ Len(r) = i + (j + 1)
      /\ \A k \in 1..i : r[k] = PictureLevel(p[k])
      /\ \A k \in 1..(j + 1) : r[i + k] = BlockLevel(c[k])
  <2>1. /\ Len(r) = Len(p) + Len(c)
        /\ \A k \in 1..Len(p) : r[k] = PictureLevel(p[k])
        /\ \A k \in 1..Len(c) : r[Len(p) + k] = BlockLevel(c[k])
    BY PathFacts
  <2> QED  BY <2>1, <1>1
<1> PICK t \in Seq(Levels) : t = Append(s, e)
  BY AppendFacts
<1>4. Len(t) = Len(s) + 1 /\ t[Len(s) + 1] = e /\ \A k \in 1..Len(s) : t[k] = s[k]
  BY AppendFacts
<1>5. Len(t) = Len(r) /\ Len(r) = i + j + 1 /\ t[i + j + 1] = e /\ \A k \in 1..(i + j) : t[k] = s[k]
  BY <1>2, <1>3, <1>4
<1>6. ASSUME NEW k \in 1..(i + j + 1)  PROVE r[k] = t[k]
  <2>1. CASE k \in 1..i
    <3>1. k \in 1..(i + j)
      BY <2>1
    <3> QED  BY <2>1, <3>1, <1>2, <1>3, <1>5
  <2>2. CASE k \notin 1..i
    <3>0. k - i \in 1..(j + 1) /\ k = i + (k - i)
      BY <2>2
    <3> PICK l \in 1..(j + 1) : k = i + l
      BY <3>0
    <3>1. CASE l = j + 1
      <4>1. r[k] = BlockLevel(c[j + 1])
        BY <3>1, <1>3
      <4>2. c[j + 1] = x /\ k = i + j + 1
        BY <3>1, <1>1
      <4> QED  BY <4>1, <4>2, <1>5
    <3>2. CASE l # j + 1
      <4>1. l \in 1..j /\ k \in 1..(i + j)
        BY <3>2
      <4>2. r[k] = BlockLevel(c[l]) /\ s[k] = BlockLevel(b[l]) /\ t[k] = s[k] /\ c[l] = b[l]
        BY <4>1, <1>1, <1>2, <1>3, <1>5
      <4> QED  BY <4>2
    <3> QED  BY <3>1, <3>2
  <2> QED  BY <2>1, <2>2
<1>7. r = t
  BY <1>5, <1>6, SamePath
<1> QED  BY <1>7

LEMMA PathShrinks ==
  ASSUME NEW p \in Seq(OpenPictures), NEW b \in Seq(OpenBlocks), b # <<>>
  PROVE  PathOf(p, Front(b)) = Front(PathOf(p, b))
<1> PICK f \in Seq(OpenBlocks), x \in OpenBlocks : f = Front(b) /\ x = Last(b)
  BY FrontFacts
<1>1. b = Append(f, x)
  <2>1. [b EXCEPT ![Len(b)] = x] = Append(f, x)
    BY LastReplaced
  <2>2. x = b[Len(b)]
    BY FrontFacts
  <2>3. [b EXCEPT ![Len(b)] = b[Len(b)]] = b
    OBVIOUS
  <2> QED  BY <2>1, <2>2, <2>3
<1>2. PathOf(p, Append(f, x)) = Append(PathOf(p, f), BlockLevel(x))
  BY PathGrows
<1> PICK s \in Seq(Levels) : s = PathOf(p, f)
  BY PathFacts
<1> PICK e \in Levels : e = BlockLevel(x)
  BY LevelFacts
<1> PICK t \in Seq(Levels) : t = Append(s, e) /\ t # <<>>
  BY AppendFacts
<1>3. Len(t) = Len(s) + 1 /\ Len(s) \in Nat /\ \A k \in 1..Len(s) : t[k] = s[k]
  BY AppendFacts
<1>4. PathOf(p, b) = t
  BY <1>1, <1>2
<1>5. Front(t) \in Seq(Levels) /\ Len(Front(t)) = Len(t) - 1 /\ \A k \in 1..(Len(t) - 1) : Front(t)[k] = t[k]
  <2>1. t \in Seq(Levels) /\ t # <<>>
    BY <1>4
  <2> QED  BY ONLY <2>1, FrontFacts
<1>6. Len(Front(t)) = Len(s) /\ \A k \in 1..Len(s) : Front(t)[k] = s[k]
  BY <1>3, <1>5
<1>7. Front(t) = s
  BY <1>5, <1>6, SamePath
<1> QED  BY <1>4, <1>7

\* A call within a list of operations adds one token.
LEMMA LogInOps ==
  ASSUME WriterInv, WriterInv', Steady, Keeps, At({"ops"}), pictures' = pictures,
         NEW log, IsLog(log), NEW t \in Tokens, Tell(t.c), t.at = Len(file), t.path = Path,
         t.c.m \notin {"EnterPicture", "EnterPictures", "ExitPictures", "ExitPicture", "EnterOps", "ExitOps"},
         Fits(t), Holds(t)', Behind(t) = Len(file'), After(t) = Path'
  PROVE  \E l : IsLog(l)'
<1> DEFINE n == Len(pictures)
<1> DEFINE last == log[Len(log)]
<1>1. /\ pictures # <<>> /\ Picture = pictures[n] /\ Picture.stage = "ops" /\ n \in Nat \ {0}
  BY CallerAt
<1>2. Chain(log) /\ \A i \in 1..Len(log) : Holds(log[i])'
  BY LogStays
<1>3. /\ log # <<>> /\ Behind(last) = Place /\ After(last) = Path /\ Lately(last.c.m, pictures[n])
      /\ Path \in Seq(Levels) /\ Path # <<>>
  BY <1>1, LastToken
<1>4. Place = Len(file) /\ Place' = Len(file')
  BY <1>1 DEF Place
<1>5. told' # <<>> /\ Expected = <<>> /\ Expected' = <<>>
  BY <1>1 DEF WriterInv, WriterTypes, Expected
<1>6. Said(log) \in Seq(Calls) /\ t.c \in Calls
  BY <1>2, SaidFacts DEF Tokens
<1>7. FoldLeft(Came, <<>>, told') = Came(Said(log) \o Expected, t.c)
  BY <1>6, CameLater
<1> HIDE DEF last
<1>8. Follows(last.c.m, t.c.m)
  <2>1. last.c.m \notin {"EnterPicture", "EnterPictures", "ExitPictures", "ExitOps"}
    BY <1>1, <1>3 DEF Lately
  <2> QED  BY <2>1 DEF Follows
<1> DEFINE l == Append(log, t)
<1>9. /\ Chain(l) /\ \A j \in 1..Len(l) : Holds(l[j])'
      /\ l # <<>> /\ l[Len(l)] = t /\ Said(l) = Append(Said(log), t.c)
  <2>1. t.path # <<>> /\ t.path = After(log[Len(log)]) /\ t.at = Behind(log[Len(log)]) /\ Follows(log[Len(log)].c.m, t.c.m)
    BY <1>3, <1>4, <1>8 DEF last
  <2> QED  BY <2>1, <1>2, <1>3, LogGrows
<1> HIDE DEF l
<1>10. Lately(t.c.m, pictures'[Len(pictures')])
  BY <1>1 DEF Lately
<1>11. Current(l)'
  BY <1>1, <1>4, <1>5, <1>9, <1>10 DEF Current
<1>12. Says(l)'
  <2>1. Said(log) \o <<>> = Said(log) /\ Append(Said(log), t.c) \o <<>> = Append(Said(log), t.c)
    BY <1>6, JoinOne
  <2>2. Came(Said(log), t.c) = Append(Said(log), t.c)
    BY CameAppends
  <2>3. FoldLeft(Came, <<>>, told') = Said(l) \o Expected'
    BY <2>1, <2>2, <1>5, <1>7, <1>9
  <2> QED  BY <2>3 DEF Says, Said
<1>13. IsLog(l)'
  BY <1>9, <1>11, <1>12 DEF IsLog
<1> QED  BY <1>13

\* What has been added to the file, and is no size to come, is settled.
LEMMA NewIsSettled ==
  ASSUME WriterInv, At({"ops"}), pictures' = pictures, NEW q \in Nat, Len(file) <= q, q < Len(file'),
         \A k \in 1..Len(blocks') : q # blocks'[k].at + 1
  PROVE  Settled(q)'
<1>1. ASSUME NEW k \in 1..Len(pictures)
      PROVE  q # pictures[k].at + 2 /\ ~(pictures[k].stage = "ops" /\ q = pictures[k].opsAt - 1)
  <2>1. pictures[k].at \in Nat /\ pictures[k].at + 2 < Len(file) /\ Len(file) \in Nat
    BY OpenPlaces
  <2>2. pictures[k].stage = "ops" => pictures[k].opsAt \in Nat /\ pictures[k].opsAt - 1 < Len(file)
    BY OpenPlaces
  <2>3. q # pictures[k].at + 2
    BY <2>1
  <2>4. pictures[k].stage = "ops" => q # pictures[k].opsAt - 1
    BY <2>1, <2>2
  <2> QED  BY <2>3, <2>4
<1>2. ~Pending(q)'
  BY <1>1 DEF Pending
<1> QED  BY <1>2 DEF Settled

\* A list of operations that stays open.
LEMMA ListsStay ==
  ASSUME NEW b, OpenList(b), pictures' = pictures,
         \A k \in 1..Len(blocks) : b = blocks[k].at + 2 => k \in 1..Len(blocks') /\ blocks'[k] = blocks[k]
  PROVE  OpenList(b)'
<1>1. CASE \E k \in 1..Len(pictures) : pictures[k].stage = "ops" /\ b = pictures[k].opsAt
  BY <1>1 DEF OpenList
<1>2. CASE \E k \in 1..Len(blocks) : b = blocks[k].at + 2
  <2> PICK k \in 1..Len(blocks) : b = blocks[k].at + 2
    BY <1>2
  <2>1. k \in 1..Len(blocks') /\ b = blocks'[k].at + 2
    OBVIOUS
  <2> QED  BY <2>1 DEF OpenList
<1> QED  BY <1>1, <1>2 DEF OpenList

LEMMA EnterBlockLog ==
  ASSUME WriterInv, EnterBlock, NEW log, IsLog(log)
  PROVE  \E l : IsLog(l)'
<1> PICK m \in Enter :
      /\ At({"ops"})
      /\ file' = Begun(file, EnterCode(m))
      /\ blocks' = Append(blocks, [m |-> m, at |-> Len(file)])
      /\ Tell(Call(m))
      /\ pictures' = pictures
  BY DEF EnterBlock
<1>1. WriterInv' /\ Steady
  BY EnterBlockInv
<1> PICK n \in Nat : n = Len(file)
  BY PathType
<1>2. Len(file') = n + 2 /\ file'[n + 1].op = EnterCode(m)
  <2>1. EnterCode(m) \in Opcodes
    BY DEF Opcodes
  <2> PICK c \in FileCells : c = Code(EnterCode(m)) /\ c.op = EnterCode(m)
    BY <2>1, CellFacts
  <2> PICK z \in FileCells : z = Int32(0)
    BY CellFacts
  <2>a. <<c, z>> \in Seq(FileCells) /\ Len(<<c, z>>) = 2 /\ <<c, z>>[1] = c
    OBVIOUS
  <2> PICK g \in Seq(FileCells) : g = <<c, z>> /\ Len(g) = 2 /\ g[1] = c
    BY <2>a
  <2>2. file' = file \o g /\ file \in Seq(FileCells)
    BY PathType DEF Begun
  <2>3. Len(file \o g) = Len(file) + Len(g) /\ (file \o g)[Len(file) + 1] = g[1]
    BY <2>2, GrowFacts
  <2> QED  BY <2>2, <2>3
<1> PICK x \in OpenBlocks : x = [m |-> m, at |-> n] /\ x.m = m /\ x.at = n
  BY DEF OpenBlocks
<1>3. blocks \in Seq(OpenBlocks) /\ pictures \in Seq(OpenPictures) /\ Path \in Seq(Levels)
  BY PathType
<1>4. blocks' = Append(blocks, x)
  OBVIOUS
<1>5. /\ Len(blocks') = Len(blocks) + 1 /\ blocks'[Len(blocks) + 1] = x /\ Len(blocks) \in Nat
      /\ \A k \in 1..Len(blocks) : blocks'[k] = blocks[k]
  BY <1>3, <1>4, AppendFacts
<1>6. \A b \in Nat : OpenList(b) => OpenList(b)'
  <2> SUFFICES ASSUME NEW b \in Nat, OpenList(b)  PROVE OpenList(b)'
    OBVIOUS
  <2>1. \A k \in 1..Len(blocks) : k \in 1..Len(blocks') /\ blocks'[k] = blocks[k]
    BY <1>5
  <2> QED  BY <2>1, ListsStay
<1>7. Keeps
  <2>1. /\ \A a \in Nat, i \in Nat : Counts(a, i) => Counts(a, i)'
        /\ \A a \in Nat, i \in Nat : Final(a, i) => Final(a, i)'
    BY <1>1, CountsKeptBySame
  <2>2. Len(file) <= Len(file')
    BY <1>2
  <2> QED  BY <2>1, <2>2, <1>6 DEF Keeps
<1> DEFINE call == Call(m)
<1>8. call \in Calls /\ call.m = m /\ ~IsOp(call)
  <2>1. m \in Structure
    BY DEF Structure
  <2> QED  BY <2>1, StructureNamed
<1> HIDE DEF call
<1> PICK t \in Tokens : t.c = call /\ t.at = n /\ t.path = Path
  BY <1>3, <1>8, TokenFields
<1>9. t.c.m \in Enter /\ t.c.m = m /\ t.c.m \notin {"EnterPicture", "EnterPictures", "ExitPictures", "ExitPicture", "EnterOps", "ExitOps"}
      /\ t.c.m \notin BlockExits
  BY <1>8 DEF Enter, BlockExits, Exit
<1> PICK b \in Nat : OpenList(b) /\ Path[Len(Path)].form = "ops" /\ Path[Len(Path)].base = b
  BY TopIsOpen
<1>10. Fits(t)
  BY <1>9 DEF Fits
<1>11. Settled(n)' /\ n + 2 <= Len(file')
  <2>1. ASSUME NEW k \in 1..Len(blocks')  PROVE n # blocks'[k].at + 1
    <3>1. CASE k = Len(blocks) + 1
      BY <3>1, <1>5
    <3>2. CASE k # Len(blocks) + 1
      <4>1. k \in 1..Len(blocks)
        BY <3>2, <1>5
      <4>2. blocks[k].at \in Nat /\ blocks[k].at + 1 < Len(file)
        BY <4>1, OpenPlaces
      <4> QED  BY <4>1, <4>2, <1>5
    <3> QED  BY <3>1, <3>2
  <2>2. n < Len(file') /\ Len(file) <= n
    BY <1>2
  <2> QED  BY <2>1, <2>2, <1>2, NewIsSettled
<1>12. Holds(t)'
  <2>1. OpenList(b)'
    BY <1>6
  <2>2. t.path # <<>> => t.c.m \notin {"EnterPicture", "EnterPictures"}
    BY <1>9
  <2>3. t.at <= Len(file') /\ t.at + 2 <= Len(file')
    BY <1>2
  <2> QED  BY <2>1, <2>2, <2>3, <1>2, <1>8, <1>9, <1>11 DEF Holds
<1>13. Behind(t) = Len(file')
  BY <1>2, <1>9 DEF Behind
<1>14. After(t) = Path'
  <2>1. After(t) = Append(Path, Level(m, "ops", n + 2, 0))
    BY <1>9 DEF After
  <2>2. BlockLevel(x) = Level(m, "ops", n + 2, 0)
    BY DEF BlockLevel
  <2>3. PathOf(pictures, Append(blocks, x)) = Append(PathOf(pictures, blocks), BlockLevel(x))
    BY <1>3, PathGrows
  <2>4. Path' = PathOf(pictures, Append(blocks, x))
    BY <1>4 DEF Path
  <2> QED  BY <2>1, <2>2, <2>3, <2>4 DEF Path
<1>15. Tell(t.c)
  BY DEF call
<1> QED  BY <1>1, <1>7, <1>9, <1>10, <1>12, <1>13, <1>14, <1>15, LogInOps

LEMMA ExitBlockLog ==
  ASSUME WriterInv, ExitBlock, NEW log, IsLog(log)
  PROVE  \E l : IsLog(l)'
<1> DEFINE b == Len(blocks)
<1>1. WriterInv' /\ Steady
  BY ExitBlockInv
<1>2. blocks # <<>> /\ blocks \in Seq(OpenBlocks) /\ pictures \in Seq(OpenPictures) /\ Path \in Seq(Levels) /\ file \in Seq(FileCells)
  BY PathType DEF ExitBlock
<1> PICK n \in Nat : n = Len(file)
  BY PathType
<1>3. /\ Len(Front(blocks)) = b - 1 /\ b \in Nat \ {0} /\ Last(blocks) = blocks[b] /\ Last(blocks) \in OpenBlocks
      /\ \A k \in 1..(b - 1) : Front(blocks)[k] = blocks[k]
  BY <1>2, FrontFacts
<1> PICK x \in OpenBlocks : x = blocks[b]
  BY <1>3
<1> PICK m \in Enter, a \in Nat : m = x.m /\ a = x.at
  BY DEF OpenBlocks
<1>4. At({"ops"})
  BY <1>2 DEF At, WriterInv, BlocksInv, Picture, Last
<1>5. a + 2 <= n
  <2>1. b \in 1..b
    BY <1>3
  <2> QED  BY <2>1 DEF WriterInv, BlocksInv
<1> PICK v \in Nat : v = n - a - 2
  BY <1>5
<1>6. /\ blocks' = Front(blocks) /\ pictures' = pictures /\ Tell(Call(Exit(m)))
      /\ [at |-> a + 1, value |-> v] \in fields'
  BY <1>3 DEF ExitBlock, Finish
<1>7. Len(file') = n
  <2>1. fChunkStack \in Seq(Nat) /\ Len(fChunkStack) = b /\ fChunkStack[b] = a
    <3>1. b \in 1..b
      BY <1>3
    <3> QED  BY <3>1 DEF WriterInv, WriterTypes, StacksInv
  <2>2. Last(fChunkStack) = a
    BY <2>1 DEF Last
  <2>3. file' = Patch(file, a + 1, n - a - 2)
    BY <2>2 DEF ExitBlock, Ended
  <2> PICK q \in Nat : q = a + 1
    OBVIOUS
  <2>4. q < Len(file)
    BY <1>5
  <2>5. Len(Patch(file, q, v)) = Len(file)
    <3>1. file \in Seq(FileCells)
      BY <1>2
    <3> QED  BY ONLY <3>1, <2>4, q \in Nat, v \in Nat, PatchFacts
  <2> QED  BY <2>3, <2>5
<1> PICK o \in Nat \ {0} : o = a + 2
  OBVIOUS
<1>8. Settled(o - 1)' /\ file'[o].v = v /\ o + v = n
  <2>1. o - 1 = a + 1 /\ o + v = n
    BY SMTT(30)
  <2>2. [at |-> o - 1, value |-> v] \in fields'
    BY <2>1, <1>6
  <2> QED  BY <2>1, <2>2, <1>1, SizePatched
<1>9. Keeps
  <2>1. ASSUME NEW c \in Nat, OpenList(c)  PROVE OpenList(c)' \/ (Settled(c - 1)' /\ c + file'[c].v = Len(file))
    <3>1. CASE c = o
      BY <3>1, <1>8
    <3>2. CASE c # o
      <4>1. ASSUME NEW k \in 1..b, c = blocks[k].at + 2
            PROVE  k \in 1..Len(blocks') /\ blocks'[k] = blocks[k]
        <5>1. k # b
          BY <4>1, <3>2
        <5>2. k \in 1..(b - 1)
          <6>1. b \in Nat \ {0} /\ k \in 1..b /\ k # b
            BY <5>1, <1>3
          <6> HIDE DEF b
          <6> QED  BY <6>1
        <5> QED  BY <5>2, <1>3, <1>6
      <4>2. OpenList(c)'
        BY <2>1, <4>1, <1>6, ListsStay
      <4> QED  BY <4>2
    <3> QED  BY <3>1, <3>2
  <2>2. /\ \A i \in Nat, j \in Nat : Counts(i, j) => Counts(i, j)'
        /\ \A i \in Nat, j \in Nat : Final(i, j) => Final(i, j)'
    BY <1>1, <1>6, CountsKeptBySame
  <2>3. Len(file) <= Len(file')
    BY <1>7
  <2> QED  BY <2>1, <2>2, <2>3 DEF Keeps
<1> DEFINE call == Call(Exit(m))
<1>10. call \in Calls /\ call.m = Exit(m) /\ ~IsOp(call)
  <2>1. Exit(m) \in Structure
    BY DEF Structure
  <2> QED  BY <2>1, StructureNamed
<1> HIDE DEF call
<1>a. call \in Calls /\ Path \in Seq(Levels) /\ n \in Nat
  BY <1>2, <1>10
<1> PICK t \in Tokens : t.c = call /\ t.at = n /\ t.path = Path
  BY ONLY <1>a, TokenFields
<1>11. /\ t.c.m \in BlockExits /\ t.c.m \notin Enter
       /\ t.c.m \notin {"EnterPicture", "EnterPictures", "ExitPictures", "ExitPicture", "EnterOps", "ExitOps"}
  <2>1. Exit(m) \in BlockExits
    BY DEF BlockExits
  <2>2. /\ Exit(m) \notin Enter
        /\ Exit(m) \notin {"EnterPicture", "EnterPictures", "ExitPictures", "ExitPicture", "EnterOps", "ExitOps"}
    BY DEF Enter, Exit
  <2> QED  BY <2>1, <2>2, <1>10
<1>12. Path[Len(Path)].form = "ops" /\ Path[Len(Path)].base = o /\ Path[Len(Path)].m = m
  BY <1>2, <1>4, TopIsOpen
<1>13. Fits(t)
  <2>1. t.c = Call(Exit(m))
    BY DEF call
  <2> QED  BY <2>1, <1>11, <1>12 DEF Fits
<1>14. Holds(t)'
  <2>1. t.at <= Len(file') /\ t.at = o + file'[o].v
    BY <1>7, <1>8
  <2> QED  BY <2>1, <1>8, <1>10, <1>11, <1>12 DEF Holds
<1>15. Behind(t) = Len(file')
  BY <1>7, <1>10, <1>11 DEF Behind
<1>16. After(t) = Path'
  <2>1. After(t) = Front(Path)
    BY <1>11 DEF After
  <2>2. PathOf(pictures, Front(blocks)) = Front(PathOf(pictures, blocks))
    BY <1>2, PathShrinks
  <2>3. Path' = PathOf(pictures, Front(blocks))
    BY <1>6 DEF Path
  <2> QED  BY <2>1, <2>2, <2>3 DEF Path
<1>17. Tell(t.c)
  BY <1>6 DEF call
<1> QED  BY <1>1, <1>4, <1>6, <1>9, <1>11, <1>13, <1>14, <1>15, <1>16, <1>17, LogInOps

LEMMA DrawLog ==
  ASSUME WriterInv, Draw, NEW log, IsLog(log)
  PROVE  \E l : IsLog(l)'
<1> PICK c \in Choice :
      /\ file' = Ended(Begun(file, Opcode(c)) \o Payload(c), Len(file))
      /\ Tell(c)
      /\ pictures' = pictures /\ blocks' = blocks
  BY DEF Draw
<1>1. WriterInv' /\ Steady /\ At({"ops"})
  BY DrawInv DEF Draw
<1>2. IsOp(c)
  BY ChoiceFacts DEF IsOp
<1>3. c.m \notin Structure /\ c.m \notin Enter /\ c \in Calls /\ Payload(c) \in Seq(FileCells) /\ Opcode(c) \in Opcodes
  BY <1>2, OpNamed
<1> PICK op \in Opcodes : op = Opcode(c)
  BY <1>3
<1> PICK g \in Seq(FileCells) : g = Payload(c)
  BY <1>3
<1> PICK n \in Nat : n = Len(file)
  BY PathType
<1> PICK s \in Nat : s = Len(g)
  OBVIOUS
<1>4. /\ Len(file') = n + 2 + s /\ file'[n + 1].op = op /\ file'[n + 2].v = s
      /\ \A q \in 1..s : file'[n + 2 + q] = g[q]
  <2>1. file' = Chunk(file, op, g) /\ file \in Seq(FileCells)
    BY PathType DEF Chunk
  <2>2. /\ Len(Chunk(file, op, g)) = Len(file) + 2 + Len(g)
        /\ Chunk(file, op, g)[Len(file) + 1] = Code(op) /\ Chunk(file, op, g)[Len(file) + 2] = Int32(Len(g))
        /\ \A q \in 1..Len(g) : Chunk(file, op, g)[Len(file) + 2 + q] = g[q]
    BY <2>1, ChunkFacts
  <2>3. Code(op).op = op /\ Int32(s).v = s
    BY CellFacts
  <2> QED  BY <2>1, <2>2, <2>3
<1>5. Keeps
  <2>1. \A b \in Nat : OpenList(b) => OpenList(b)'
    BY DEF OpenList
  <2>2. /\ \A a \in Nat, i \in Nat : Counts(a, i) => Counts(a, i)'
        /\ \A a \in Nat, i \in Nat : Final(a, i) => Final(a, i)'
    BY <1>1, CountsKeptBySame
  <2>3. Len(file) <= Len(file')
    BY <1>4
  <2> QED  BY <2>1, <2>2, <2>3 DEF Keeps
<1> PICK t \in Tokens : t.c = c /\ t.at = n /\ t.path = Path
  BY <1>3, PathType, TokenFields
<1>6. /\ t.c.m \notin Enter /\ t.c.m \notin BlockExits /\ IsOp(t.c)
      /\ t.c.m \notin {"EnterPicture", "EnterPictures", "ExitPictures", "ExitPicture", "EnterOps", "ExitOps"}
  BY <1>2, <1>3 DEF Structure, BlockExits
<1> PICK b \in Nat : OpenList(b) /\ Path[Len(Path)].form = "ops" /\ Path[Len(Path)].base = b
  BY <1>1, TopIsOpen
<1>7. Fits(t)
  BY <1>6 DEF Fits
<1>8. \A q \in n..(n + 1 + s) : Settled(q)'
  <2> SUFFICES ASSUME NEW q \in n..(n + 1 + s)  PROVE Settled(q)'
    OBVIOUS
  <2>1. q \in Nat /\ Len(file) <= q /\ q < Len(file')
    BY <1>4
  <2>2. ASSUME NEW k \in 1..Len(blocks')  PROVE q # blocks'[k].at + 1
    <3>1. blocks[k].at \in Nat /\ blocks[k].at + 1 < Len(file)
      BY <1>1, OpenPlaces
    <3> QED  BY <3>1, <2>1
  <2> QED  BY <2>1, <2>2, <1>1, NewIsSettled
<1>9. Holds(t)'
  <2>1. OpenList(b)'
    BY DEF OpenList
  <2>2. t.at <= Len(file') /\ t.at + 2 + s <= Len(file')
    BY <1>4
  <2>3. /\ Len(Payload(t.c)) = s /\ Opcode(t.c) = op
        /\ \A q \in 1..s : file'[t.at + 2 + q] = Payload(t.c)[q]
        /\ \A q \in t.at..(t.at + 1 + s) : Settled(q)'
    BY <1>4, <1>8
  <2> QED  BY <2>1, <2>2, <2>3, <1>4, <1>6 DEF Holds
<1>10. Behind(t) = Len(file')
  <2>1. Len(Payload(t.c)) = s
    OBVIOUS
  <2> QED  BY <2>1, <1>4, <1>6 DEF Behind
<1>11. After(t) = Path'
  <2>1. After(t) = Path
    BY <1>6 DEF After
  <2> QED  BY <2>1 DEF Path
<1>12. Tell(t.c)
  OBVIOUS
<1> QED  BY <1>1, <1>5, <1>6, <1>7, <1>9, <1>10, <1>11, <1>12, LogInOps

(***************************************************************************)
(* Pictures begin and end.                                                 *)
(***************************************************************************)
LEMMA PicturePath ==
  ASSUME NEW p \in Seq(OpenPictures)
  PROVE  /\ PathOf(p, <<>>) \in Seq(Levels) /\ Len(PathOf(p, <<>>)) = Len(p) /\ Len(p) \in Nat
         /\ \A k \in 1..Len(p) : PathOf(p, <<>>)[k] = PictureLevel(p[k])
<1>0. <<>> \in Seq(OpenBlocks) /\ Len(<<>>) = 0
  OBVIOUS
<1> PICK b \in Seq(OpenBlocks) : b = <<>> /\ Len(b) = 0
  BY <1>0
<1>1. /\ PathOf(p, b) \in Seq(Levels) /\ Len(PathOf(p, b)) = Len(p) + Len(b) /\ Len(p) \in Nat
      /\ \A k \in 1..Len(p) : PathOf(p, b)[k] = PictureLevel(p[k])
  BY PathFacts
<1>2. Len(p) + Len(b) = Len(p)
  BY <1>1
<1> QED  BY <1>1, <1>2

LEMMA PicturePathGrows ==
  ASSUME NEW p \in Seq(OpenPictures), NEW x \in OpenPictures
  PROVE  PathOf(Append(p, x), <<>>) = Append(PathOf(p, <<>>), PictureLevel(x))
<1> PICK c \in Seq(OpenPictures) : c = Append(p, x)
  BY AppendFacts
<1> PICK n \in Nat : n = Len(p)
  OBVIOUS
<1>1. Len(c) = n + 1 /\ c[n + 1] = x /\ \A k \in 1..n : c[k] = p[k]
  BY AppendFacts
<1> PICK s \in Seq(Levels) : s = PathOf(p, <<>>)
  BY PicturePath
<1> PICK r \in Seq(Levels) : r = PathOf(c, <<>>)
  BY PicturePath
<1> PICK e \in Levels : e = PictureLevel(x)
  BY LevelFacts
<1>2. Len(s) = n /\ \A k \in 1..n : s[k] = PictureLevel(p[k])
  BY PicturePath
<1>3. Len(r) = n + 1 /\ \A k \in 1..(n + 1) : r[k] = PictureLevel(c[k])
  BY <1>1, PicturePath
<1> PICK t \in Seq(Levels) : t = Append(s, e)
  BY AppendFacts
<1>4. Len(t) = Len(s) + 1 /\ t[Len(s) + 1] = e /\ \A k \in 1..Len(s) : t[k] = s[k]
  BY AppendFacts
<1>5. ASSUME NEW k \in 1..(n + 1)  PROVE r[k] = t[k]
  <2>1. CASE k = n + 1
    BY <2>1, <1>1, <1>2, <1>3, <1>4
  <2>2. CASE k # n + 1
    <3>1. k \in 1..n
      BY <2>2
    <3> QED  BY <3>1, <1>1, <1>2, <1>3, <1>4
  <2> QED  BY <2>1, <2>2
<1>6. Len(t) = Len(r)
  BY <1>2, <1>3, <1>4
<1>7. r = t
  BY <1>3, <1>5, <1>6, SamePath
<1> QED  BY <1>7

LEMMA FrontOfAppend ==
  ASSUME NEW S, NEW s \in Seq(S), NEW e \in S
  PROVE  Front(Append(s, e)) = s
<1> PICK t \in Seq(S) : t = Append(s, e) /\ t # <<>>
  BY AppendFacts
<1>1. Len(t) = Len(s) + 1 /\ Len(s) \in Nat /\ \A k \in 1..Len(s) : t[k] = s[k]
  BY AppendFacts
<1>2. Front(t) \in Seq(S) /\ Len(Front(t)) = Len(t) - 1 /\ \A k \in 1..(Len(t) - 1) : Front(t)[k] = t[k]
  BY FrontFacts
<1>3. Len(Front(t)) = Len(s) /\ \A k \in 1..Len(s) : Front(t)[k] = s[k]
  BY <1>1, <1>2
<1> PICK f \in Seq(S) : f = Front(t)
  BY <1>2
<1>4. f = s
  BY <1>3, SeqEqual
<1> QED  BY <1>4

LEMMA PicturePathShrinks ==
  ASSUME NEW p \in Seq(OpenPictures), p # <<>>
  PROVE  PathOf(Front(p), <<>>) = Front(PathOf(p, <<>>))
<1> PICK f \in Seq(OpenPictures), x \in OpenPictures : f = Front(p) /\ x = Last(p)
  BY FrontFacts
<1>1. p = Append(f, x)
  <2>1. [p EXCEPT ![Len(p)] = x] = Append(f, x)
    BY LastReplaced
  <2>2. x = p[Len(p)]
    BY FrontFacts
  <2>3. [p EXCEPT ![Len(p)] = p[Len(p)]] = p
    OBVIOUS
  <2> QED  BY <2>1, <2>2, <2>3
<1>2. PathOf(Append(f, x), <<>>) = Append(PathOf(f, <<>>), PictureLevel(x))
  BY PicturePathGrows
<1> PICK s \in Seq(Levels) : s = PathOf(f, <<>>)
  BY PicturePath
<1> PICK e \in Levels : e = PictureLevel(x)
  BY LevelFacts
<1>3. Front(Append(s, e)) = s
  BY FrontOfAppend
<1> QED  BY <1>1, <1>2, <1>3

\* The picture around the innermost one meets one more.
LEMMA MetPath ==
  ASSUME NEW p \in Seq(OpenPictures), \A k \in 1..Len(p) : p[k].stage = "pictures"
  PROVE  PathOf(MoreInside(p), <<>>) = Met(PathOf(p, <<>>)) /\ MoreInside(p) \in Seq(OpenPictures) /\ Met(PathOf(p, <<>>)) \in Seq(Levels)
<1>1. CASE p = <<>>
  <2>1. Len(p) = 0 /\ MoreInside(p) = p
    BY <1>1 DEF MoreInside
  <2>2. PathOf(p, <<>>) = <<>> /\ PathOf(p, <<>>) \in Seq(Levels)
    BY <2>1, PicturePath, EmptySeq
  <2> QED  BY <2>1, <2>2 DEF Met
<1>2. CASE p # <<>>
  <2> PICK n \in Nat \ {0} : n = Len(p)
    BY <1>2, EmptySeq
  <2> PICK x \in OpenPictures : x = p[n]
    OBVIOUS
  <2> DEFINE y == [x EXCEPT !.inside = @ + 1]
  <2>1. /\ y \in OpenPictures /\ y.at = x.at /\ y.stage = "pictures" /\ y.inside = x.inside + 1 /\ x.stage = "pictures"
        /\ x.at \in Nat /\ x.inside \in Nat
    <3>1. x.inside \in Nat /\ x.at \in Nat /\ x.inside + 1 \in Nat
      BY DEF OpenPictures
    <3> QED  BY <3>1 DEF OpenPictures
  <2>2. MoreInside(p) = [p EXCEPT ![Len(p)] = y]
    BY DEF MoreInside
  <2> HIDE DEF y
  <2> PICK r \in Seq(OpenPictures) : r = MoreInside(p)
    BY <1>2, <2>1, <2>2, ExceptLast
  <2>3. Len(r) = n /\ r[n] = y /\ \A k \in 1..(n - 1) : r[k] = p[k]
    BY <1>2, <2>1, <2>2, ExceptLast
  <2> PICK s \in Seq(Levels) : s = PathOf(p, <<>>)
    BY PicturePath
  <2>4. Len(s) = n /\ \A k \in 1..n : s[k] = PictureLevel(p[k])
    BY PicturePath
  <2> PICK u \in Seq(Levels) : u = PathOf(r, <<>>)
    BY PicturePath
  <2>5. Len(u) = n /\ \A k \in 1..n : u[k] = PictureLevel(r[k])
    BY <2>3, PicturePath
  <2> PICK e \in Levels : e = PictureLevel(y)
    BY <2>1, LevelFacts
  <2>6. [s[n] EXCEPT !.nth = @ + 1] = e
    <3>1. s[n] = Level("EnterPicture", "pictures", x.at, x.inside)
      BY <2>1, <2>4 DEF PictureLevel
    <3>2. e = Level("EnterPicture", "pictures", x.at, x.inside + 1)
      BY <2>1 DEF PictureLevel
    <3>3. \A m, f, b, i : [Level(m, f, b, i) EXCEPT !.nth = i + 1] = Level(m, f, b, i + 1) /\ Level(m, f, b, i).nth = i
      BY DEF Level
    <3>4. [s[n] EXCEPT !.nth = x.inside + 1] = e /\ s[n].nth = x.inside
      BY <3>1, <3>2, <3>3
    <3> QED  BY <3>4
  <2>7. s # <<>>
    BY <2>4
  <2> PICK m \in Seq(Levels) : m = [s EXCEPT ![Len(s)] = e]
    BY <2>7, ExceptLast
  <2>8. Len(m) = n /\ m[n] = e /\ \A k \in 1..(n - 1) : m[k] = s[k]
    BY <2>4, <2>7, ExceptLast
  <2>9. Met(s) = m
    BY <2>4, <2>6, <2>7 DEF Met
  <2>10. ASSUME NEW k \in 1..n  PROVE u[k] = m[k]
    <3>1. CASE k = n
      BY <3>1, <2>3, <2>5, <2>8
    <3>2. CASE k # n
      <4>1. k \in 1..(n - 1)
        BY <3>2
      <4> QED  BY <4>1, <2>3, <2>4, <2>5, <2>8
    <3> QED  BY <3>1, <3>2
  <2>11. u = m
    BY <2>5, <2>8, <2>10, SamePath
  <2> QED  BY <2>9, <2>11
<1> QED  BY <1>1, <1>2

LEMMA EnterPictureFields ==
  ASSUME WriterInv, EnterPicture
  PROVE  /\ Len(file) \in Nat /\ Len(file') = Len(file) + 2 /\ blocks = <<>> /\ blocks' = <<>> /\ Tell(Call("EnterPicture"))
         /\ \A k \in 1..Len(pictures) : pictures[k].stage = "pictures"
         /\ \E p \in OpenPictures : p.at = Len(file) /\ p.stage = "new" /\ p.inside = 0 /\ pictures' = Append(MoreInside(pictures), p)
<1>1. file \in Seq(FileCells) /\ Len(file) \in Nat /\ pictures \in Seq(OpenPictures) /\ Len(fPictureStack) = Len(pictures)
  BY PathType DEF WriterInv, StacksInv
<1>2. Len(file') = Len(file) + 2
  <2> PICK z \in FileCells : z = Int32(0)
    BY CellFacts
  <2>a. <<z, z>> \in Seq(FileCells) /\ Len(<<z, z>>) = 2
    OBVIOUS
  <2> PICK g \in Seq(FileCells) : g = <<z, z>> /\ Len(g) = 2
    BY <2>a
  <2>1. file' = file \o g
    BY DEF EnterPicture
  <2>2. Len(file \o g) = Len(file) + Len(g)
    BY <1>1, GrowFacts
  <2> QED  BY <2>1, <2>2
<1>3. \A k \in 1..Len(pictures) : pictures[k].stage = "pictures"
  <2>1. CASE told = <<>>
    <3>1. 1..Len(pictures) = {}
      BY <2>1 DEF WriterInv, WriterTypes
    <3> QED  BY <3>1
  <2>2. CASE At({"pictures"})
    <3> SUFFICES ASSUME NEW k \in 1..Len(pictures)  PROVE pictures[k].stage = "pictures"
      OBVIOUS
    <3>1. pictures[Len(pictures)].stage = "pictures" /\ Len(pictures) \in Nat \ {0}
          /\ \A i \in 1..(Len(pictures) - 1) : pictures[i].stage = "pictures"
      BY <2>2, CallerAt
    <3>2. CASE k # Len(pictures)
      <4>1. k \in 1..(Len(pictures) - 1)
        BY <3>1, <3>2
      <4> QED  BY <4>1, <3>1
    <3> QED  BY <3>1, <3>2
  <2> QED  BY <2>1, <2>2 DEF EnterPicture
<1>4. blocks = <<>> /\ blocks' = <<>>
  <2>1. blocks # <<>> => pictures # <<>> /\ pictures[Len(pictures)].stage = "ops"
    BY DEF WriterInv, BlocksInv
  <2>2. pictures # <<>> => Len(pictures) \in 1..Len(pictures)
    BY <1>1, EmptySeq
  <2> QED  BY <2>1, <2>2, <1>3 DEF EnterPicture
<1>5. \E p \in OpenPictures : p.at = Len(file) /\ p.stage = "new" /\ p.inside = 0 /\ pictures' = Append(MoreInside(pictures), p)
  <2> DEFINE p == [at |-> Len(file), stage |-> "new", inside |-> 0, opsAt |-> 0]
  <2>1. p \in OpenPictures /\ p.at = Len(file) /\ p.stage = "new" /\ p.inside = 0
    BY <1>1 DEF OpenPictures
  <2>2. pictures' = Append(MoreInside(pictures), p)
    BY <1>1 DEF EnterPicture, MoreInside
  <2> HIDE DEF p
  <2> QED  BY <2>1, <2>2
<1>6. Tell(Call("EnterPicture"))
  BY DEF EnterPicture
<1> QED  BY <1>1, <1>2, <1>3, <1>4, <1>5, <1>6

LEMMA EnterPictureLog ==
  ASSUME WriterInv, EnterPicture, NEW log, IsLog(log)
  PROVE  \E l : IsLog(l)'
<1>1. WriterInv' /\ Steady
  BY EnterPictureInv
<1> PICK n \in Nat : n = Len(file)
  BY PathType
<1>2. pictures \in Seq(OpenPictures) /\ Path \in Seq(Levels) /\ told \in Seq(Calls)
  BY PathType DEF WriterInv, WriterTypes
<1>3. Len(file') = n + 2 /\ blocks = <<>> /\ blocks' = <<>> /\ Tell(Call("EnterPicture")) /\ \A k \in 1..Len(pictures) : pictures[k].stage = "pictures"
  BY EnterPictureFields
<1> PICK p \in OpenPictures : p.at = n /\ p.stage = "new" /\ p.inside = 0 /\ pictures' = Append(MoreInside(pictures), p)
  BY EnterPictureFields
<1> PICK around \in Seq(OpenPictures) : around = MoreInside(pictures)
  BY <1>2, <1>3, MetPath
<1>4. Path = PathOf(pictures, <<>>) /\ PathOf(around, <<>>) = Met(Path) /\ Met(Path) \in Seq(Levels)
  BY <1>2, <1>3, MetPath DEF Path
<1>5. Path' = Append(Met(Path), Level("EnterPicture", "pictures", n, 0))
  <2>1. Path' = PathOf(Append(around, p), <<>>)
    BY <1>3 DEF Path
  <2>2. PictureLevel(p) = Level("EnterPicture", "pictures", n, 0)
    BY DEF PictureLevel
  <2> QED  BY <2>1, <2>2, <1>4, PicturePathGrows
<1>6. Len(around) = Len(pictures) /\ Len(pictures) \in Nat
      /\ \A k \in 1..Len(pictures) :
            /\ around[k].at = pictures[k].at
            /\ around[k].inside = (IF k = Len(pictures) THEN pictures[k].inside + 1 ELSE pictures[k].inside)
  <2>1. fPictureStack \in Seq(Infos) /\ Len(fPictureStack) = Len(pictures)
    BY DEF WriterInv, WriterTypes, StacksInv
  <2>2. Len(MoreInside(pictures)) = Len(pictures) /\ Len(pictures) \in Nat
      /\ \A k \in 1..Len(pictures) :
            /\ MoreInside(pictures)[k].at = pictures[k].at
            /\ MoreInside(pictures)[k].inside = (IF k = Len(pictures) THEN pictures[k].inside + 1 ELSE pictures[k].inside)
    BY ONLY <2>1, <1>2, OneMore
  <2> QED  BY <2>2
<1>7. pictures' # <<>> /\ Len(pictures') = Len(pictures) + 1 /\ pictures'[Len(pictures')] = p /\ \A k \in 1..Len(pictures) : pictures'[k] = around[k]
  BY <1>6, AppendFacts
<1>8. Place' = n + 3
  BY <1>7 DEF Place
<1>9. Keeps
  <2>1. \A b \in Nat : ~OpenList(b)
    BY <1>3 DEF OpenList
  <2>2. \A k \in 1..Len(pictures) :
           /\ pictures[k].inside \in Nat /\ pictures[k].at \in Nat
           /\ k \in 1..Len(pictures') /\ pictures'[k].at = pictures[k].at
           /\ pictures'[k].inside \in {pictures[k].inside, pictures[k].inside + 1}
           /\ pictures[k].stage \notin Counted
    <3> SUFFICES ASSUME NEW k \in 1..Len(pictures)
                 PROVE  /\ pictures[k].inside \in Nat /\ pictures[k].at \in Nat
                        /\ k \in 1..Len(pictures') /\ pictures'[k].at = pictures[k].at
                        /\ pictures'[k].inside \in {pictures[k].inside, pictures[k].inside + 1}
                        /\ pictures[k].stage \notin Counted
      OBVIOUS
    <3>1. pictures[k].inside \in Nat /\ pictures[k].at \in Nat
      BY PictureNumbers
    <3>2. pictures[k].stage \notin Counted
      BY <1>3 DEF Counted
    <3>3. k \in 1..Len(pictures')
      BY <1>6, <1>7
    <3> QED  BY <3>1, <3>2, <3>3, <1>6, <1>7
  <2>3. /\ \A a \in Nat, i \in Nat : Counts(a, i) => Counts(a, i)'
        /\ \A a \in Nat, i \in Nat : Final(a, i) => Final(a, i)'
    BY <2>2, <1>1, CountsKept
  <2>4. Len(file) <= Len(file')
    BY <1>3
  <2> QED  BY <2>1, <2>3, <2>4 DEF Keeps
<1>10. Chain(log) /\ \A i \in 1..Len(log) : Holds(log[i])'
  BY <1>1, <1>9, LogStays
<1>11. Said(log) \in Seq(Calls)
  BY <1>10, SaidFacts
<1>12. told' # <<>> /\ Expected' = <<>>
  BY <1>1, <1>7 DEF WriterInv, WriterTypes, Expected
<1> DEFINE call == Call("EnterPicture")
<1>13. call \in Calls /\ call.m = "EnterPicture" /\ ~IsOp(call)
  <2>1. "EnterPicture" \in Structure
    BY DEF Structure
  <2> QED  BY <2>1, StructureNamed
<1>14. Tell(call)
  BY <1>3
<1> HIDE DEF call
<1>15. FoldLeft(Came, <<>>, told') = Came(Said(log) \o Expected, call)
  BY <1>13, <1>14, CameLater
\* The token, once what comes before it is there.
<1>16. ASSUME NEW l \in Seq(Tokens), l # <<>>, Chain(l), \A i \in 1..Len(l) : Holds(l[i])', l[Len(l)].c = call,
              Behind(l[Len(l)]) = n + 3, After(l[Len(l)]) = Path', Said(l) = Append(Said(log) \o Expected, call)
       PROVE  IsLog(l)'
  <2> PICK t : t = l[Len(l)]
    OBVIOUS
  <2>1. Lately(t.c.m, p)
    BY <1>13, <1>16 DEF Lately
  <2>2. Current(l)'
    BY <2>1, <1>7, <1>8, <1>12, <1>16 DEF Current
  <2>3. Says(l)'
    <3>1. Came(Said(log) \o Expected, call) = Append(Said(log) \o Expected, call)
      BY <1>13, CameAppends
    <3>2. Said(l) \in Seq(Calls)
      BY <1>16, SaidFacts
    <3>3. Said(l) \o <<>> = Said(l)
      BY <3>2
    <3>4. FoldLeft(Came, <<>>, told') = Said(l) \o Expected'
      BY <3>1, <3>3, <1>12, <1>15, <1>16
    <3> QED  BY <3>4 DEF Says, Said
  <2> QED  BY <2>2, <2>3, <1>16 DEF IsLog
<1>17. CASE told = <<>>
  <2>1. pictures = <<>> /\ n = 0 /\ log = <<>>
    BY <1>17 DEF WriterInv, WriterTypes, IsLog, Current
  <2>2. Path = <<>> /\ Met(Path) = <<>>
    <3>1. Len(Path) = 0
      BY <2>1, <1>4, <1>2, PicturePath
    <3> QED  BY <3>1, <1>2, EmptySeq DEF Met
  <2>a. <<First>> \in Seq(Tokens) /\ Chain(<<First>>)
    BY ChainStarts DEF Chain
  <2> PICK l \in Seq(Tokens) : l = <<First>> /\ Chain(l)
    BY <2>a
  <2>3. Len(l) = 1 /\ l # <<>> /\ l[1] = First
    OBVIOUS
  <2>4. First.c = call /\ First.at = 0 /\ First.path = <<>>
    BY DEF First, call
  <2>5. Holds(First)'
    <3>1. First.at <= Len(file')
      BY <2>4, <1>3
    <3> QED  BY <2>4, <3>1, <1>13 DEF Holds, Enter, BlockExits, Exit
  <2>6. \A i \in 1..Len(l) : Holds(l[i])'
    <3> SUFFICES ASSUME NEW i \in 1..Len(l)  PROVE Holds(l[i])'
      OBVIOUS
    <3>1. l[i] = First
      BY <2>3
    <3> QED  BY <3>1, <2>5
  <2>7. Behind(First) = n + 3 /\ After(First) = Path'
    <3>1. Behind(First) = n + 3
      BY <2>1, <2>4, <1>13 DEF Behind
    <3>2. After(First) = Append(Met(<<>>), Level("EnterPicture", "pictures", 0, 0))
      BY <2>4, <1>13 DEF After
    <3> QED  BY <3>1, <3>2, <2>1, <2>2, <1>5
  <2>8. Said(l) = Append(Said(log) \o Expected, call)
    <3>1. Expected = <<>>
      BY <2>1 DEF Expected
    <3>2. Said(log) = <<>>
      BY <2>1, <1>11, <1>10, SaidFacts, EmptySeq
    <3>3. Said(l) \in Seq(Calls) /\ Len(Said(l)) = 1 /\ Said(l)[1] = call
      BY <2>3, <2>4, SaidFacts
    <3>4. <<call>> \in Seq(Calls) /\ Len(<<call>>) = 1 /\ <<call>>[1] = call
      BY <1>13
    <3>5. Said(l) = <<call>>
      BY <3>3, <3>4, SeqEqual
    <3>6. Append(<<>> \o <<>>, call) = <<call>>
      OBVIOUS
    <3> QED  BY <3>1, <3>2, <3>5, <3>6
  <2>9. IsLog(l)'
    BY <2>3, <2>4, <2>6, <2>7, <2>8, <1>16
  <2> QED  BY <2>9
<1>18. CASE told # <<>>
  <2>1. At({"pictures"})
    BY <1>18 DEF EnterPicture
  <2> PICK k \in Nat \ {0} : k = Len(pictures)
    BY <2>1, CallerAt
  <2> PICK a \in Nat, i \in Nat : a = Picture.at /\ i = Picture.inside
    BY <2>1, CallerAt DEF OpenPictures
  <2>2. pictures # <<>> /\ Picture = pictures[k] /\ Picture.stage = "pictures"
    BY <2>1, CallerAt
  <2> DEFINE last == log[Len(log)]
  <2>3. /\ log # <<>> /\ Behind(last) = Place /\ After(last) = Path /\ Lately(last.c.m, pictures[k])
        /\ Path # <<>> /\ last \in Tokens
    BY <2>2, LastToken
  <2>4. Place = n
    BY <2>2 DEF Place
  <2> DEFINE top == Path[Len(Path)]
  <2>5. top.m = "EnterPicture" /\ top.form = "pictures" /\ top.base = a /\ top.nth = i
    <3>1. top = PictureLevel(Picture) /\ Picture.stage \notin {"ops", "drawn"}
      BY <2>1, <2>2, <1>3, TopOfPath
    <3> HIDE DEF top
    <3> QED  BY <3>1, PictureLevelFields
  <2>6. Counts(a, i)'
    <3>1. k \in 1..Len(pictures') /\ pictures'[k].at = a /\ pictures'[k].inside = i + 1
      <4>1. k \in 1..Len(pictures) /\ k \in 1..Len(pictures')
        BY <1>7
      <4> QED  BY <4>1, <2>2, <1>6, <1>7
    <3>2. i + 1 > i
      OBVIOUS
    <3> QED  BY <3>1, <3>2 DEF Counts
  <2> HIDE DEF top, last
  <2>7. \E r \in Seq(Tokens) :
           /\ Chain(r) /\ (\A j \in 1..Len(r) : Holds(r[j])') /\ r # <<>>
           /\ r[Len(r)].c.m \in {"EnterPictures", "ExitPicture"} /\ Behind(r[Len(r)]) = n /\ After(r[Len(r)]) = Path
           /\ Said(r) = Said(log) \o Expected
    <3>1. CASE i = 0
      <4> DEFINE e == Call("EnterPictures")
      <4>1. e \in Calls /\ e.m = "EnterPictures" /\ ~IsOp(e)
        <5>1. "EnterPictures" \in Structure
          BY DEF Structure
        <5> QED  BY <5>1, StructureNamed
      <4>2. Expected = <<e>>
        BY <3>1, <2>2 DEF Expected
      <4> HIDE DEF e
      <4>a. e \in Calls /\ Path \in Seq(Levels) /\ n \in Nat
        BY <4>1, <1>2
      <4> PICK t \in Tokens : t.c = e /\ t.at = n /\ t.path = Path
        BY ONLY <4>a, TokenFields
      <4>3. last.c.m = "EnterPicture"
        BY <3>1, <2>2, <2>3 DEF Lately
      <4>4. Fits(t)
        BY <3>1, <4>1, <2>5 DEF Fits, top, BlockExits, Enter, Exit
      <4>5. Follows(last.c.m, t.c.m)
        BY <4>1, <4>3 DEF Follows
      <4>6. Holds(t)'
        <5>1. t.at <= Len(file')
          BY <1>3
        <5> QED  BY <5>1, <4>1, <2>5, <2>6 DEF Holds, top, BlockExits, Enter, Exit
      <4>7. Behind(t) = n /\ After(t) = Path
        BY <4>1 DEF Behind, After, Enter, BlockExits, Exit
      <4> DEFINE r == Append(log, t)
      <4>8. /\ Chain(r) /\ \A j \in 1..Len(r) : Holds(r[j])'
            /\ r # <<>> /\ r[Len(r)] = t /\ Said(r) = Append(Said(log), t.c)
        <5>1. /\ t.at = Behind(log[Len(log)]) /\ t.path = After(log[Len(log)]) /\ Follows(log[Len(log)].c.m, t.c.m)
          BY <4>5, <2>3, <2>4 DEF last
        <5> QED  BY <5>1, <4>4, <4>6, <2>3, <1>10, LogGrows
      <4> HIDE DEF r
      <4>9. Said(r) = Said(log) \o Expected
        BY <4>1, <4>2, <4>8, <1>11, JoinOne
      <4>10. r \in Seq(Tokens)
        BY <4>8 DEF Chain
      <4> QED  BY <4>1, <4>7, <4>8, <4>9, <4>10
    <3>2. CASE i # 0
      <4>1. last.c.m = "ExitPicture"
        BY <3>2, <2>2, <2>3 DEF Lately
      <4>2. Expected = <<>>
        BY <3>2, <2>2 DEF Expected
      <4>3. Said(log) \o <<>> = Said(log)
        BY <1>11
      <4>4. log \in Seq(Tokens)
        BY <1>10 DEF Chain
      <4> QED  BY <4>1, <4>2, <4>3, <4>4, <2>3, <2>4, <1>10 DEF last
    <3> QED  BY <3>1, <3>2
  <2> PICK r \in Seq(Tokens) :
        /\ Chain(r) /\ (\A j \in 1..Len(r) : Holds(r[j])') /\ r # <<>>
        /\ r[Len(r)].c.m \in {"EnterPictures", "ExitPicture"} /\ Behind(r[Len(r)]) = n /\ After(r[Len(r)]) = Path
        /\ Said(r) = Said(log) \o Expected
    BY <2>7
  <2>b. call \in Calls /\ Path \in Seq(Levels) /\ n \in Nat
    BY <1>13, <1>2
  <2> PICK t \in Tokens : t.c = call /\ t.at = n /\ t.path = Path
    BY ONLY <2>b, TokenFields
  <2>8. Fits(t)
    BY <1>13, <2>5 DEF Fits, top, BlockExits, Enter, Exit
  <2>9. Follows(r[Len(r)].c.m, t.c.m)
    BY <1>13 DEF Follows
  <2>10. Holds(t)'
    <3>1. t.at <= Len(file')
      BY <1>3
    <3> QED  BY <3>1, <1>13, <2>5, <2>6 DEF Holds, top, BlockExits, Enter, Exit
  <2>11. Behind(t) = n + 3 /\ After(t) = Path'
    BY <1>13, <1>5 DEF Behind, After
  <2> DEFINE l == Append(r, t)
  <2>12. /\ Chain(l) /\ \A j \in 1..Len(l) : Holds(l[j])'
         /\ l # <<>> /\ l[Len(l)] = t /\ Said(l) = Append(Said(r), t.c)
    <3>1. /\ t \in Tokens /\ t.at = Behind(r[Len(r)]) /\ t.path = After(r[Len(r)]) /\ t.path # <<>>
          /\ Chain(r) /\ (\A j \in 1..Len(r) : Holds(r[j])') /\ r # <<>>
      BY <2>3
    <3> QED  BY ONLY <3>1, <2>8, <2>9, <2>10, LogGrows
  <2> HIDE DEF l
  <2>13. l \in Seq(Tokens)
    BY <2>12 DEF Chain
  <2>14. IsLog(l)'
    BY <2>11, <2>12, <2>13, <1>16
  <2> QED  BY <2>14
<1> QED  BY <1>17, <1>18

LEMMA ExitPictureFields ==
  ASSUME WriterInv, ExitPicture
  PROVE  /\ pictures \in Seq(OpenPictures) /\ pictures # <<>> /\ Len(pictures) \in Nat \ {0}
         /\ Picture = pictures[Len(pictures)] /\ Picture \in OpenPictures /\ Picture.stage \in {"new", "pictured", "drawn"}
         /\ \A k \in 1..(Len(pictures) - 1) : pictures[k].stage = "pictures" /\ pictures[k].at + 3 <= Picture.at /\ pictures[k].inside > 0
         /\ blocks = <<>> /\ blocks' = <<>> /\ pictures' = Front(pictures) /\ Tell(Call("ExitPicture"))
         /\ [at |-> Picture.at + 2, value |-> Picture.inside] \in fields'
         /\ Place \in Nat /\ Len(file) \in Nat /\ Place >= Len(file) /\ Picture.at + 3 <= Place
         /\ Picture.stage = "drawn" => Place = Len(file) /\ Len(file') = Len(file)
         /\ Picture.stage # "drawn" => Len(file') = Place + 1 /\ file'[Place + 1].v = 0
<1> DEFINE n == Len(pictures)
<1>1. At({"new", "pictured", "drawn"})
  BY DEF ExitPicture
<1>2. /\ pictures # <<>> /\ Picture = pictures[n] /\ Picture \in OpenPictures /\ Picture.stage \in {"new", "pictured", "drawn"} /\ Placed(file, Picture)
      /\ n \in Nat \ {0} /\ Matches(Info, Picture) /\ Picture.at \in Nat /\ Picture.inside \in Nat
      /\ \A k \in 1..(n - 1) : pictures[k].stage = "pictures" /\ pictures[k].at + 3 <= Picture.at
  BY <1>1, CallerAt DEF OpenPictures
<1>3. blocks = <<>> /\ blocks' = <<>>
  BY <1>1, NoBlocks DEF ExitPicture
<1>4. file \in Seq(FileCells) /\ Len(file) \in Nat /\ pictures \in Seq(OpenPictures)
  BY PathType
<1>5. \A k \in 1..(n - 1) : pictures[k].inside > 0
  BY DEF WriterInv, PicturesInv
<1> DEFINE counted == file \o IF Info.pictures THEN <<>> ELSE <<Int32(Info.pictCnt)>>
<1>6. counted \in Seq(FileCells) /\ Len(counted) = Place /\ Place \in Nat /\ Place >= Len(file) /\ Picture.at + 3 <= Place
      /\ (Picture.stage # "new" => counted = file)
  <2>1. CASE Picture.stage = "new"
    <3>1. Info.pictures = FALSE /\ Info.pictCnt = Picture.inside /\ Picture.at + 2 = Len(file)
      BY <2>1, <1>2 DEF Matches, Placed
    <3>2. counted = file \o <<Int32(Picture.inside)>>
      BY <3>1
    <3>a. <<Int32(Picture.inside)>> \in Seq(FileCells) /\ Len(<<Int32(Picture.inside)>>) = 1
      BY <1>2, Counts32
    <3> PICK g \in Seq(FileCells) : g = <<Int32(Picture.inside)>> /\ Len(g) = 1
      BY <3>a
    <3>3. counted = file \o g
      BY <3>2
    <3> HIDE DEF counted
    <3>4. file \o g \in Seq(FileCells) /\ Len(file \o g) = Len(file) + 1
      BY <1>4, GrowFacts
    <3>5. Place = Picture.at + 3
      BY <2>1, <1>2 DEF Place
    <3>6. Place = Len(file) + 1
      BY <3>1, <3>5, <1>2
    <3> QED  BY <3>3, <3>4, <3>5, <3>6, <1>4, <2>1
  <2>2. CASE Picture.stage # "new"
    <3>1. Info.pictures = TRUE /\ Picture.at + 3 <= Len(file)
      BY <2>2, <1>2 DEF Matches, Placed
    <3>2. counted = file
      BY <3>1, <1>4
    <3>3. Place = Len(file)
      BY <2>2, <1>2 DEF Place
    <3> HIDE DEF counted
    <3> QED  BY <3>1, <3>2, <3>3, <1>4
  <2> QED  BY <2>1, <2>2
<1> DEFINE last == IF Info.ops THEN <<>> ELSE <<Int32(0)>>
<1>7. file' = counted \o last
  BY DEF ExitPicture
<1> HIDE DEF counted
<1>8. Picture.stage = "drawn" => Place = Len(file) /\ Len(file') = Len(file)
  <2> SUFFICES ASSUME Picture.stage = "drawn"  PROVE Place = Len(file) /\ Len(file') = Len(file)
    OBVIOUS
  <2>1. Info.ops = TRUE
    BY <1>2 DEF Matches
  <2>2. counted \o <<>> = counted
    BY <1>6
  <2> QED  BY <2>1, <2>2, <1>6, <1>7
<1>9. Picture.stage # "drawn" => Len(file') = Place + 1 /\ file'[Place + 1].v = 0
  <2> SUFFICES ASSUME Picture.stage # "drawn"  PROVE Len(file') = Place + 1 /\ file'[Place + 1].v = 0
    OBVIOUS
  <2>a. Picture.stage \notin {"ops", "drawn"}
    BY <1>2
  <2>b. Info.ops = (Picture.stage \in {"ops", "drawn"})
    BY <1>2 DEF Matches
  <2>1. Info.ops = FALSE
    <3>1. (Picture.stage \in {"ops", "drawn"}) = FALSE
      BY <2>a
    <3> QED  BY <2>b, <3>1
  <2>2. <<Int32(0)>> \in Seq(FileCells) /\ Len(<<Int32(0)>>) = 1 /\ <<Int32(0)>>[1].v = 0
    BY Counts32, CellFacts
  <2> PICK g \in Seq(FileCells) : g = <<Int32(0)>> /\ Len(g) = 1 /\ g[1].v = 0
    BY <2>2
  <2>3. file' = counted \o g
    BY <2>1, <1>7
  <2>4. Len(counted \o g) = Len(counted) + 1 /\ (counted \o g)[Len(counted) + 1] = g[1]
    BY <1>6, GrowFacts
  <2> QED  BY <2>3, <2>4, <1>6
<1>10. pictures' = Front(pictures) /\ Tell(Call("ExitPicture")) /\ [at |-> Picture.at + 2, value |-> Picture.inside] \in fields'
  BY DEF ExitPicture, Finish
<1> QED  BY <1>2, <1>3, <1>4, <1>5, <1>6, <1>8, <1>9, <1>10

LEMMA ExitPictureKeeps ==
  ASSUME WriterInv, ExitPicture
  PROVE  /\ WriterInv' /\ Steady /\ Keeps
         /\ \E a \in Nat, i \in Nat : a = Picture.at /\ i = Picture.inside /\ Final(a, i)'
<1>1. WriterInv' /\ Steady
  BY ExitPictureInv
<1> PICK n \in Nat \ {0} : n = Len(pictures)
  BY ExitPictureFields
<1>2. Picture \in OpenPictures /\ Picture = pictures[n] /\ pictures \in Seq(OpenPictures) /\ pictures # <<>> /\ pictures' = Front(pictures)
      /\ [at |-> Picture.at + 2, value |-> Picture.inside] \in fields'
  BY ExitPictureFields
<1> PICK a \in Nat, i \in Nat : a = Picture.at /\ i = Picture.inside
  BY <1>2 DEF OpenPictures
<1>3. Settled(a + 2)' /\ file'[a + 3].v = i
  <2> PICK o \in Nat \ {0} : o = a + 3
    OBVIOUS
  <2>1. o - 1 = a + 2
    OBVIOUS
  <2>2. [at |-> o - 1, value |-> i] \in fields'
    BY <2>1, <1>2
  <2>3. Settled(o - 1)' /\ file'[o].v = i
    BY ONLY <2>2, <1>1, SizePatched
  <2> QED  BY <2>1, <2>3
<1>4. Len(pictures') = n - 1 /\ \A k \in 1..(n - 1) : pictures'[k] = pictures[k]
  BY <1>2, FrontFacts
<1>5. \A k \in 1..Len(pictures) :
            /\ pictures[k].inside \in Nat /\ pictures[k].at \in Nat
            /\ \/ /\ k \in 1..Len(pictures') /\ pictures'[k].at = pictures[k].at
                  /\ pictures'[k].inside \in {pictures[k].inside, pictures[k].inside + 1}
                  /\ pictures[k].stage \in Counted => pictures'[k].stage \in Counted /\ pictures'[k].inside = pictures[k].inside
               \/ \E b \in Nat : b = pictures[k].at /\ Settled(b + 2)' /\ file'[b + 3].v = pictures[k].inside
  <2> SUFFICES ASSUME NEW k \in 1..Len(pictures)
               PROVE
            /\ pictures[k].inside \in Nat /\ pictures[k].at \in Nat
            /\ \/ /\ k \in 1..Len(pictures') /\ pictures'[k].at = pictures[k].at
                  /\ pictures'[k].inside \in {pictures[k].inside, pictures[k].inside + 1}
                  /\ pictures[k].stage \in Counted => pictures'[k].stage \in Counted /\ pictures'[k].inside = pictures[k].inside
               \/ \E b \in Nat : b = pictures[k].at /\ Settled(b + 2)' /\ file'[b + 3].v = pictures[k].inside
    OBVIOUS
  <2>1. pictures[k].inside \in Nat /\ pictures[k].at \in Nat
    BY PictureNumbers
  <2>2. CASE k = n
    BY <2>1, <2>2, <1>2, <1>3
  <2>3. CASE k # n
    <3>1. k \in 1..(n - 1)
      BY <2>3
    <3>2. k \in 1..Len(pictures') /\ pictures'[k] = pictures[k]
      BY <3>1, <1>4
    <3> QED  BY <2>1, <3>2
  <2> QED  BY <2>2, <2>3
<1>6. /\ \A b \in Nat, m \in Nat : Counts(b, m) => Counts(b, m)'
      /\ \A b \in Nat, m \in Nat : Final(b, m) => Final(b, m)'
  BY ONLY <1>5, <1>1, CountsKept
<1>7. \A b \in Nat : ~OpenList(b)
  <2>1. At({"new", "pictured", "drawn"})
    BY DEF ExitPicture
  <2>2. "ops" \notin {"new", "pictured", "drawn"}
    OBVIOUS
  <2> QED  BY <2>1, <2>2, NoOpenList
<1>8. Len(file) <= Len(file')
  BY ExitPictureFields
<1>9. Keeps
  BY <1>6, <1>7, <1>8 DEF Keeps
<1>10. Final(a, i)'
  BY <1>3 DEF Final
<1> QED  BY <1>1, <1>9, <1>10

\* The token, once the operations have ended.
LEMMA ExitPictureEnds ==
  ASSUME WriterInv, ExitPicture, NEW r \in Seq(Tokens), r # <<>>, Chain(r), \A j \in 1..Len(r) : Holds(r[j])',
         r[Len(r)].c.m = "ExitOps", Behind(r[Len(r)]) = Len(file'),
         NEW path \in Seq(Levels), path = After(r[Len(r)]), path # <<>>, Front(path) = Front(Path),
         path[Len(path)].m = "EnterPicture", path[Len(path)].form = "ops",
         FoldLeft(Came, <<>>, told') = Append(Said(r), Call("ExitPicture"))
  PROVE  \E l : IsLog(l)'
<1>1. WriterInv' /\ Steady
  BY ExitPictureKeeps
<1> PICK n \in Nat \ {0} : n = Len(pictures)
  BY ExitPictureFields
<1>2. /\ pictures \in Seq(OpenPictures) /\ pictures # <<>> /\ pictures' = Front(pictures) /\ blocks = <<>> /\ blocks' = <<>>
      /\ \A k \in 1..(n - 1) : pictures[k].stage = "pictures" /\ pictures[k].inside > 0
  BY ExitPictureFields
<1>3. Path' = Front(Path)
  BY <1>2, PicturePathShrinks DEF Path
<1>4. Len(pictures') = n - 1 /\ \A k \in 1..(n - 1) : pictures'[k] = pictures[k]
  BY <1>2, FrontFacts
<1>5. pictures' # <<>> => pictures'[Len(pictures')].stage = "pictures" /\ pictures'[Len(pictures')].inside > 0
                          /\ pictures'[Len(pictures')].inside \in Nat
  <2> SUFFICES ASSUME pictures' # <<>>
               PROVE  pictures'[Len(pictures')].stage = "pictures" /\ pictures'[Len(pictures')].inside > 0
                      /\ pictures'[Len(pictures')].inside \in Nat
    OBVIOUS
  <2>1. pictures' \in Seq(OpenPictures)
    BY <1>1 DEF WriterInv, WriterTypes
  <2>2. Len(pictures') \in 1..(n - 1)
    BY <2>1, <1>4, EmptySeq
  <2> PICK k \in 1..(n - 1) : k = Len(pictures')
    BY <2>2
  <2>3. pictures[k] \in OpenPictures
    <3>1. k \in 1..Len(pictures)
      OBVIOUS
    <3> QED  BY <3>1, PictureNumbers
  <2>4. pictures[k].inside \in Nat
    BY <2>3 DEF OpenPictures
  <2> QED  BY <2>4, <1>2, <1>4
<1>6. Place' = Len(file') /\ Expected' = <<>>
  BY <1>5 DEF Place, Expected
<1> DEFINE call == Call("ExitPicture")
<1>8. call \in Calls /\ call.m = "ExitPicture" /\ ~IsOp(call)
  <2>1. "ExitPicture" \in Structure
    BY DEF Structure
  <2> QED  BY <2>1, StructureNamed
<1>c. Tell(call)
  BY DEF ExitPicture
<1> HIDE DEF call
<1>7. told' # <<>>
  <2>1. told \in Seq(Calls)
    BY DEF WriterInv, WriterTypes
  <2> QED  BY <2>1, <1>8, <1>c, AppendFacts DEF Tell
<1>a. Len(file') \in Nat
  BY <1>1 DEF WriterInv, WriterTypes
<1>b. call \in Calls /\ path \in Seq(Levels) /\ Len(file') \in Nat
  BY <1>8, <1>a
<1> PICK t \in Tokens : t.c = call /\ t.at = Len(file') /\ t.path = path
  BY ONLY <1>b, TokenFields
<1>9. Fits(t)
  BY <1>8 DEF Fits, BlockExits, Enter, Exit
<1>10. Follows(r[Len(r)].c.m, t.c.m)
  BY <1>8 DEF Follows
<1>11. Holds(t)'
  <2>1. t.at <= Len(file')
    BY <1>a
  <2> QED  BY <2>1, <1>8 DEF Holds, BlockExits, Enter, Exit
<1> DEFINE l == Append(r, t)
<1>12. /\ Chain(l) /\ \A j \in 1..Len(l) : Holds(l[j])'
       /\ l # <<>> /\ l[Len(l)] = t /\ Said(l) = Append(Said(r), t.c)
  <2>1. /\ t \in Tokens /\ t.at = Behind(r[Len(r)]) /\ t.path = After(r[Len(r)]) /\ t.path # <<>>
        /\ Chain(r) /\ (\A j \in 1..Len(r) : Holds(r[j])') /\ r # <<>>
    OBVIOUS
  <2> QED  BY ONLY <2>1, <1>9, <1>10, <1>11, LogGrows
<1> HIDE DEF l
<1>13. Behind(t) = Place' /\ After(t) = Path'
  <2>1. Behind(t) = Len(file')
    BY <1>8 DEF Behind, Enter
  <2>2. After(t) = Front(path)
    BY <1>8 DEF After, Enter
  <2> QED  BY <2>1, <2>2, <1>3, <1>6
<1>14. pictures' # <<>> => Lately("ExitPicture", pictures'[Len(pictures')])
  BY <1>5 DEF Lately
<1>15. Current(l)'
  BY <1>7, <1>8, <1>12, <1>13, <1>14 DEF Current
<1>16. Says(l)'
  <2>1. Said(l) \in Seq(Calls)
    BY <1>12, SaidFacts
  <2>2. Said(l) \o <<>> = Said(l)
    BY <2>1
  <2>3. FoldLeft(Came, <<>>, told') = Said(l) \o Expected'
    BY <2>2, <1>6, <1>12 DEF call
  <2> QED  BY <2>3 DEF Says, Said
<1>17. IsLog(l)'
  BY <1>12, <1>15, <1>16 DEF IsLog
<1> QED  BY <1>17

LEMMA ExitPictureLog ==
  ASSUME WriterInv, ExitPicture, NEW log, IsLog(log)
  PROVE  \E l : IsLog(l)'
<1>1. WriterInv' /\ Steady /\ Keeps
  BY ExitPictureKeeps
<1> PICK a \in Nat, i \in Nat : a = Picture.at /\ i = Picture.inside /\ Final(a, i)'
  BY ExitPictureKeeps
<1> PICK n \in Nat \ {0} : n = Len(pictures)
  BY ExitPictureFields
<1>2. /\ pictures \in Seq(OpenPictures) /\ pictures # <<>> /\ pictures' = Front(pictures) /\ blocks = <<>> /\ blocks' = <<>>
      /\ Picture = pictures[n] /\ Picture.stage \in {"new", "pictured", "drawn"}
      /\ \A k \in 1..(n - 1) : pictures[k].stage = "pictures" /\ pictures[k].at + 3 <= Picture.at
  BY ExitPictureFields
<1> PICK p \in Nat : p = Place
  BY ExitPictureFields
<1>3. /\ Len(file) \in Nat /\ p >= Len(file) /\ a + 3 <= p
      /\ Picture.stage = "drawn" => p = Len(file) /\ Len(file') = Len(file)
      /\ Picture.stage # "drawn" => Len(file') = p + 1 /\ file'[p + 1].v = 0
  BY ExitPictureFields
<1> DEFINE last == log[Len(log)]
<1>4. Chain(log) /\ \A j \in 1..Len(log) : Holds(log[j])'
  BY <1>1, LogStays
<1>5. /\ log # <<>> /\ Behind(last) = p /\ After(last) = Path /\ Lately(last.c.m, Picture)
      /\ Path \in Seq(Levels) /\ Path # <<>> /\ Last(Said(log)) = last.c /\ last \in Tokens /\ log \in Seq(Tokens)
  BY <1>2, LastToken DEF Chain
<1>6. Said(log) \in Seq(Calls)
  BY <1>4, SaidFacts
<1>7. Expected = <<>> /\ Said(log) \o <<>> = Said(log)
  BY <1>2, <1>6 DEF Expected
<1> DEFINE call == Call("ExitPicture")
<1>8. call \in Calls /\ call.m = "ExitPicture" /\ Tell(call)
  <2>1. "ExitPicture" \in Structure
    BY DEF Structure
  <2> QED  BY <2>1, StructureNamed DEF ExitPicture
<1> HIDE DEF call
<1>9. FoldLeft(Came, <<>>, told') = Came(Said(log), call)
  <2>1. FoldLeft(Came, <<>>, told') = Came(Said(log) \o Expected, call)
    BY <1>8, CameLater
  <2> QED  BY <2>1, <1>7
<1> DEFINE top == Path[Len(Path)]
<1>10. /\ top.m = "EnterPicture"
       /\ Picture.stage = "drawn" => top.form = "ops"
       /\ Picture.stage # "drawn" => top.form = "pictures" /\ top.base = a /\ top.nth = i
  <2>1. At({"new", "pictured", "drawn"})
    BY DEF ExitPicture
  <2>2. top = PictureLevel(Picture)
    BY <2>1, <1>2, TopOfPath
  <2>3. Picture.stage # "drawn" => Picture.stage \notin {"ops", "drawn"}
    BY <1>2
  <2> HIDE DEF top
  <2> QED  BY <2>2, <2>3, PictureLevelFields
<1> HIDE DEF top
<1>11. CASE Picture.stage = "drawn"
  <2>1. last.c.m = "ExitOps"
    BY <1>5, <1>11 DEF Lately
  <2>2. Came(Said(log), call) = Append(Said(log), call)
    BY <2>1, <1>5, <1>8, CameAppends
  <2>3. FoldLeft(Came, <<>>, told') = Append(Said(log), Call("ExitPicture"))
    BY <2>2, <1>9 DEF call
  <2>4. Path[Len(Path)].m = "EnterPicture" /\ Path[Len(Path)].form = "ops"
    BY <1>10, <1>11 DEF top
  <2> QED  BY <2>1, <2>3, <2>4, <1>3, <1>4, <1>5, <1>11, ExitPictureEnds
<1>12. CASE Picture.stage # "drawn"
  <2>1. last.c.m # "ExitOps" /\ last.c.m \in {"EnterPicture", "ExitPictures"}
    <3>1. Picture.stage \in {"new", "pictured"}
      BY <1>2, <1>12
    <3> QED  BY <3>1, <1>5 DEF Lately
\* The operations that the reader will find.
  <2> DEFINE enter == Call("EnterOps")
  <2> DEFINE exit == Call("ExitOps")
  <2>2. enter \in Calls /\ enter.m = "EnterOps" /\ ~IsOp(enter) /\ exit \in Calls /\ exit.m = "ExitOps" /\ ~IsOp(exit)
    <3>1. "EnterOps" \in Structure /\ "ExitOps" \in Structure
      BY DEF Structure
    <3> QED  BY <3>1, StructureNamed
  <2>3. Came(Said(log), call) = Said(log) \o <<enter, exit, call>>
    BY <2>1, <1>5, <1>8, CameAdds
  <2> HIDE DEF enter, exit
  <2>4. enter \in Calls /\ Path \in Seq(Levels) /\ p \in Nat
    BY <2>2, <1>5
  <2> PICK t \in Tokens : t.c = enter /\ t.at = p /\ t.path = Path
    BY ONLY <2>4, TokenFields
  <2>5. Fits(t)
    BY <2>2, <1>10, <1>12 DEF Fits, top, BlockExits, Enter, Exit
  <2>6. Follows(last.c.m, t.c.m)
    BY <2>1, <2>2 DEF Follows
  <2>7. Holds(t)'
    <3>1. t.at <= Len(file')
      BY <1>3, <1>12
    <3>2. Final(a, i)'
      OBVIOUS
    <3> QED  BY <3>1, <3>2, <2>2, <1>10, <1>12 DEF Holds, top, BlockExits, Enter, Exit
  <2> DEFINE q == Append(log, t)
  <2>8. /\ Chain(q) /\ \A j \in 1..Len(q) : Holds(q[j])'
        /\ q # <<>> /\ q[Len(q)] = t /\ Said(q) = Append(Said(log), t.c)
    <3>1. t \in Tokens /\ t.at = Behind(log[Len(log)]) /\ t.path = After(log[Len(log)]) /\ t.path # <<>>
      BY <1>5
    <3>2. Follows(log[Len(log)].c.m, t.c.m)
      BY <2>6
    <3>3. log # <<>>
      BY <1>5
    <3> QED  BY ONLY <3>1, <3>2, <3>3, <2>5, <2>7, <1>4, LogGrows
  <2> HIDE DEF q
  <2>c. Level("EnterPicture", "ops", p + 1, 0) \in Levels
    <3>1. p + 1 \in Nat /\ 0 \in Nat /\ "EnterPicture" \in Enter \cup {"EnterPicture"} /\ "ops" \in {"pictures", "ops"}
      OBVIOUS
    <3> QED  BY <3>1 DEF Level, Levels
  <2> PICK e \in Levels : e = Level("EnterPicture", "ops", p + 1, 0)
    BY <2>c
  <2>9. e.m = "EnterPicture" /\ e.form = "ops" /\ e.base = p + 1
    BY DEF Level
  <2>a. Front(Path) \in Seq(Levels)
    BY <1>5, FrontFacts
  <2> PICK f \in Seq(Levels) : f = Front(Path)
    BY <2>a
  <2>b. Append(f, e) \in Seq(Levels) /\ Append(f, e) # <<>> /\ Append(f, e)[Len(Append(f, e))] = e /\ Front(Append(f, e)) = f
    BY AppendFacts, FrontOfAppend
  <2> PICK path \in Seq(Levels) : path = Append(f, e) /\ path # <<>> /\ path[Len(path)] = e /\ Front(path) = f
    BY <2>b
  <2>10. Behind(t) = p + 1 /\ After(t) = path
    BY <2>2 DEF Behind, After
  <2>11. exit \in Calls /\ path \in Seq(Levels) /\ p + 1 \in Nat
    BY <2>2
  <2> PICK u \in Tokens : u.c = exit /\ u.at = p + 1 /\ u.path = path
    BY ONLY <2>11, TokenFields
  <2>12. Fits(u)
    BY <2>2, <2>9 DEF Fits, BlockExits, Enter, Exit
  <2>13. Follows(t.c.m, u.c.m)
    BY <2>2 DEF Follows
  <2>14. Settled(p)' /\ file'[p + 1].v = 0
    <3>1. file'[p + 1].v = 0 /\ p < Len(file')
      BY <1>3, <1>12
    <3>2. Len(pictures') = n - 1 /\ \A k \in 1..(n - 1) : pictures'[k] = pictures[k]
      BY <1>2, FrontFacts
    <3>3. ASSUME NEW k \in 1..Len(pictures')
          PROVE  p # pictures'[k].at + 2 /\ pictures'[k].stage # "ops"
      <4>1. k \in 1..(n - 1) /\ k \in 1..Len(pictures)
        BY <3>2
      <4>2. pictures[k].at \in Nat
        BY <4>1, PictureNumbers
      <4>3. pictures[k].stage = "pictures" /\ pictures[k].at + 3 <= a
        BY <4>1, <1>2
      <4>4. p # pictures[k].at + 2
        BY <4>2, <4>3, <1>3, SMTT(30)
      <4> QED  BY <4>1, <4>3, <4>4, <3>2
    <3>4. 1..Len(blocks') = {}
      BY <1>2
    <3>5. ~Pending(p)'
      BY <3>3, <3>4 DEF Pending
    <3> QED  BY <3>1, <3>5 DEF Settled
  <2>15. Holds(u)'
    <3>1. u.at <= Len(file')
      BY <1>3, <1>12
    <3> PICK o \in Nat : o = p + 1
      OBVIOUS
    <3>2. o - 1 = p
      OBVIOUS
    <3>3. Settled(o - 1)' /\ file'[o].v = 0
      BY <3>2, <2>14
    <3>4. u.at = o + file'[o].v
      BY <3>3
    <3> QED  BY <3>1, <3>3, <3>4, <2>2, <2>9 DEF Holds, BlockExits, Enter, Exit
  <2> DEFINE r == Append(q, u)
  <2>16. /\ Chain(r) /\ \A j \in 1..Len(r) : Holds(r[j])'
         /\ r # <<>> /\ r[Len(r)] = u /\ Said(r) = Append(Said(q), u.c)
    <3>1. u.at = Behind(q[Len(q)]) /\ u.path = After(q[Len(q)]) /\ u.path # <<>> /\ Follows(q[Len(q)].c.m, u.c.m)
      BY <2>8, <2>10, <2>13
    <3> QED  BY ONLY <3>1, <2>8, <2>12, <2>15, LogGrows
  <2> HIDE DEF r
  <2>17. r \in Seq(Tokens)
    BY <2>16 DEF Chain
  <2>18. Behind(u) = Len(file') /\ After(u) = path
    BY <2>2, <1>3, <1>12 DEF Behind, After, BlockExits, Enter, Exit
  <2>19. FoldLeft(Came, <<>>, told') = Append(Said(r), Call("ExitPicture"))
    <3>1. Said(r) = Append(Append(Said(log), enter), exit)
      BY <2>8, <2>16
    <3> PICK s \in Seq(Calls) : s = Said(log)
      BY <1>6
    <3>2. s \o <<enter, exit, call>> = Append(Append(Append(s, enter), exit), call)
      <4>1. enter \in Calls /\ exit \in Calls /\ call \in Calls
        BY <2>2, <1>8
      <4> QED  BY ONLY <4>1, s \in Seq(Calls)
    <3> QED  BY <3>1, <3>2, <2>3, <1>9 DEF call
  <2> QED  BY <2>9, <2>16, <2>17, <2>18, <2>19, <2>2, ExitPictureEnds
<1> QED  BY <1>11, <1>12

LEMMA LogStarts == Init => IsLog(<<>>)
<1> SUFFICES ASSUME Init  PROVE IsLog(<<>>)
  OBVIOUS
<1>1. told = <<>> /\ pictures = <<>>
  BY DEF Init
<1>2. Chain(<<>>) /\ 1..Len(<<>>) = {}
  BY ChainStarts
<1>3. Current(<<>>)
  BY <1>1 DEF Current
<1>4. Says(<<>>)
  <2>1. Expected = <<>>
    BY <1>1 DEF Expected
  <2>2. Said(<<>>) \in Seq(Calls) /\ Len(Said(<<>>)) = 0
    BY <1>2, SaidFacts
  <2>3. Said(<<>>) = <<>>
    BY <2>2, EmptySeq
  <2>4. <<>> \o <<>> = <<>>
    OBVIOUS
  <2> QED  BY <2>1, <2>3, <2>4, <1>1, FoldEmpty DEF Says
<1> QED  BY <1>2, <1>3, <1>4 DEF IsLog

LEMMA LogStep ==
  ASSUME WriterInv, WriterNext, NEW log, IsLog(log)
  PROVE  \E l : IsLog(l)'
<1>1. CASE EnterPictures
  <2>1. IsLog(log)'
    BY <1>1, EnterPicturesLog
  <2> QED  BY <2>1
<1>2. CASE ~EnterPictures
  <2>1. EnterPicture \/ ExitPicture \/ ExitPictures \/ EnterOps \/ ExitOps \/ EnterBlock \/ ExitBlock \/ Draw
    BY <1>2 DEF WriterNext
  <2>2. CASE EnterPicture
    BY <2>2, EnterPictureLog
  <2>3. CASE ExitPicture
    BY <2>3, ExitPictureLog
  <2>4. CASE ExitPictures
    BY <2>4, ExitPicturesLog
  <2>5. CASE EnterOps
    BY <2>5, EnterOpsLog
  <2>6. CASE ExitOps
    BY <2>6, ExitOpsLog
  <2>7. CASE EnterBlock
    BY <2>7, EnterBlockLog
  <2>8. CASE ExitBlock
    BY <2>8, ExitBlockLog
  <2>9. CASE Draw
    BY <2>9, DrawLog
  <2> QED  BY <2>1, <2>2, <2>3, <2>4, <2>5, <2>6, <2>7, <2>8, <2>9
<1> QED  BY <1>1, <1>2

LEMMA LogStutters ==
  ASSUME UNCHANGED writer, NEW log, IsLog(log)
  PROVE  IsLog(log)'
<1>1. file' = file /\ pictures' = pictures /\ blocks' = blocks /\ told' = told
  BY DEF writer
<1>2. \A i \in 1..Len(log) : Holds(log[i])'
  BY <1>1, SMTT(30) DEF IsLog, Holds, Counts, Final, OpenList, Settled, Pending
<1>3. Current(log)'
  BY <1>1 DEF IsLog, Current, Place, Path
<1>4. Says(log)'
  BY <1>1 DEF IsLog, Says, Expected
<1> QED  BY <1>2, <1>3, <1>4 DEF IsLog

(***************************************************************************)
(* What the writer writes is what the reader reads.                        *)
(***************************************************************************)
TypesOf(s) == [i \in 1..Len(s) |-> s[i].t]
Stored(f, p, g) == p + Len(g) <= Len(f) /\ \A q \in 1..Len(g) : f[p + q] = g[q]

LEMMA JoinAll ==
  ASSUME NEW S, NEW s \in Seq(S), NEW t \in Seq(S), NEW u \in Seq(S)
  PROVE  (s \o t) \o u = s \o (t \o u) /\ s \o t \in Seq(S) /\ s \o <<>> = s /\ <<>> \o s = s
OBVIOUS

LEMMA ManyJoin ==
  ASSUME NEW t \in Types, NEW a \in Nat, NEW b \in Nat
  PROVE  Many(t, a) \o Many(t, b) = Many(t, a + b)
<1>1. /\ Many(t, a) \in Seq(Types) /\ Len(Many(t, a)) = a /\ \A i \in 1..a : Many(t, a)[i] = t
      /\ Many(t, b) \in Seq(Types) /\ Len(Many(t, b)) = b /\ \A i \in 1..b : Many(t, b)[i] = t
      /\ Many(t, a + b) \in Seq(Types) /\ Len(Many(t, a + b)) = a + b /\ \A i \in 1..(a + b) : Many(t, a + b)[i] = t
  BY ManyFacts
<1> PICK u \in Seq(Types) : u = Many(t, a) \o Many(t, b)
  BY <1>1, JoinTypes
<1>2. /\ Len(u) = a + b /\ \A q \in 1..a : u[q] = t
      /\ \A q \in 1..b : u[a + q] = t
  BY <1>1, GrowFacts
<1>3. ASSUME NEW i \in 1..(a + b)  PROVE u[i] = t
  <2>1. CASE i \in 1..a
    BY <2>1, <1>2
  <2>2. CASE i \notin 1..a
    <3> PICK q \in 1..b : i = a + q
      <4>1. i - a \in 1..b /\ i = a + (i - a)
        BY <2>2
      <4> QED  BY <4>1
    <3> QED  BY <1>2
  <2> QED  BY <2>1, <2>2
<1> QED  BY <1>1, <1>2, <1>3, SeqEqual

LEMMA TypesOfData ==
  ASSUME NEW types \in Seq(Types)
  PROVE  TypesOf(Data(types)) = types
<1>1. Data(types) \in Seq(FileCells) /\ Len(Data(types)) = Len(types) /\ \A i \in 1..Len(types) : Data(types)[i] = Cell(types[i], 0)
  BY DataFacts
<1>2. \A i \in 1..Len(types) : Data(types)[i].t = types[i]
  <2>1. \A x : Cell(x, 0).t = x
    BY DEF Cell
  <2> QED  BY <1>1, <2>1
<1> QED  BY <1>1, <1>2 DEF TypesOf

LEMMA TypesOfJoin ==
  ASSUME NEW g \in Seq(FileCells), NEW h \in Seq(FileCells)
  PROVE  TypesOf(g \o h) = TypesOf(g) \o TypesOf(h) /\ TypesOf(g) \in Seq(Types) /\ Len(TypesOf(g)) = Len(g)
<1>1. ASSUME NEW s \in Seq(FileCells)
      PROVE  TypesOf(s) \in Seq(Types) /\ Len(TypesOf(s)) = Len(s) /\ \A i \in 1..Len(s) : TypesOf(s)[i] = s[i].t
  <2>1. \A i \in 1..Len(s) : s[i] \in FileCells
    OBVIOUS
  <2>2. \A x \in FileCells : x.t \in Types
    BY DEF FileCells
  <2> QED  BY <2>1, <2>2 DEF TypesOf
<1> PICK s \in Seq(FileCells) : s = g \o h
  BY JoinTypes
<1>2. /\ Len(g) \in Nat /\ Len(h) \in Nat /\ Len(s) = Len(g) + Len(h)
      /\ \A q \in 1..Len(g) : s[q] = g[q]
  BY GrowFacts
<1>a. \A q \in 1..Len(h) : s[Len(g) + q] = h[q]
  <2>1. \A q \in 1..Len(h) : (g \o h)[Len(g) + q] = h[q]
    BY GrowFacts
  <2> QED  BY <2>1
<1> PICK x \in Seq(Types) : x = TypesOf(g) /\ Len(x) = Len(g) /\ \A i \in 1..Len(g) : x[i] = g[i].t
  BY <1>1
<1> PICK y \in Seq(Types) : y = TypesOf(h) /\ Len(y) = Len(h) /\ \A i \in 1..Len(h) : y[i] = h[i].t
  BY <1>1
<1> PICK z \in Seq(Types) : z = TypesOf(s) /\ Len(z) = Len(s) /\ \A i \in 1..Len(s) : z[i] = s[i].t
  BY <1>1
<1>3. x \o y \in Seq(Types) /\ Len(x \o y) = Len(x) + Len(y)
      /\ (\A q \in 1..Len(x) : (x \o y)[q] = x[q]) /\ \A q \in 1..Len(y) : (x \o y)[Len(x) + q] = y[q]
  <2>1. x \in Seq(Types) /\ y \in Seq(Types)
    OBVIOUS
  <2> QED  BY ONLY <2>1, GrowFacts
<1> PICK w \in Seq(Types) : w = x \o y
  BY <1>3
<1>4. ASSUME NEW i \in 1..Len(s)  PROVE z[i] = w[i]
  <2>1. CASE i \in 1..Len(g)
    BY <2>1, <1>2, <1>3
  <2>2. CASE i \notin 1..Len(g)
    <3> PICK q \in 1..Len(h) : i = Len(g) + q
      <4>1. i - Len(g) \in 1..Len(h) /\ i = Len(g) + (i - Len(g))
        BY <2>2, <1>2
      <4> QED  BY <4>1
    <3>1. z[i] = h[q].t
      BY <1>a
    <3>2. w[i] = y[q]
      BY <1>3
    <3> QED  BY <3>1, <3>2
  <2> QED  BY <2>1, <2>2
<1>5. z = w
  <2>1. Len(z) = Len(w) /\ \A i \in 1..Len(z) : z[i] = w[i]
    BY <1>2, <1>3, <1>4
  <2> QED  BY <2>1, SeqEqual
<1> QED  BY <1>5

LEMMA TypesOfNumber ==
  ASSUME NEW n \in Nat
  PROVE  TypesOf(<<Int32(n)>>) = I
BY DEF TypesOf, Int32, Cell, I

LEMMA StoredParts ==
  ASSUME NEW f, NEW p \in Nat, NEW g \in Seq(FileCells), NEW h \in Seq(FileCells), Len(f) \in Nat, Stored(f, p, g \o h)
  PROVE  Stored(f, p, g) /\ Stored(f, p + Len(g), h) /\ Len(g) \in Nat
<1> PICK s \in Seq(FileCells) : s = g \o h
  BY JoinTypes
<1>1. Len(g) \in Nat /\ Len(h) \in Nat /\ Len(s) = Len(g) + Len(h) /\ \A q \in 1..Len(g) : s[q] = g[q]
  BY GrowFacts
<1>2. \A q \in 1..Len(h) : s[Len(g) + q] = h[q]
  BY GrowFacts
<1>3. p + Len(s) <= Len(f) /\ \A q \in 1..Len(s) : f[p + q] = s[q]
  BY DEF Stored
<1>4. Stored(f, p, g)
  <2>1. \A q \in 1..Len(g) : f[p + q] = g[q]
    BY <1>1, <1>3
  <2>2. p + Len(g) <= Len(f)
    BY <1>1, <1>3
  <2> QED  BY <2>1, <2>2 DEF Stored
<1>5. Stored(f, p + Len(g), h)
  <2>1. ASSUME NEW q \in 1..Len(h)  PROVE f[p + Len(g) + q] = h[q]
    <3> PICK r \in 1..Len(s) : r = Len(g) + q
      BY <1>1
    <3>1. f[p + r] = h[q]
      BY <1>2, <1>3
    <3>2. p + Len(g) + q = p + r
      BY <1>1
    <3> QED  BY <3>1, <3>2
  <2>2. p + Len(g) + Len(h) <= Len(f)
    BY <1>1, <1>3
  <2> QED  BY <2>1, <2>2 DEF Stored
<1> QED  BY <1>1, <1>4, <1>5

LEMMA StoredNumber ==
  ASSUME NEW f, NEW p \in Nat, NEW n \in Nat, Len(f) \in Nat, Stored(f, p, <<Int32(n)>>)
  PROVE  At32(f, p) = n
<1>1. p + 1 <= Len(f) /\ f[p + 1] = Int32(n)
  <2> PICK g : g = <<Int32(n)>>
    OBVIOUS
  <2>1. Len(g) = 1 /\ g[1] = Int32(n) /\ 1 \in 1..Len(g)
    OBVIOUS
  <2> QED  BY <2>1 DEF Stored
<1>2. p < Len(f)
  BY <1>1
<1> QED  BY <1>1, <1>2, CellFacts DEF At32

LEMMA StoredAgrees ==
  ASSUME NEW f, NEW p \in Nat, NEW g \in Seq(FileCells), Len(f) \in Nat, Stored(f, p, g)
  PROVE  Agrees(f, p, TypesOf(g))
<1>1. Len(g) \in Nat /\ Len(TypesOf(g)) = Len(g)
  BY TypesOfJoin
<1>2. \A i \in 1..Len(g) : TypesOf(g)[i] = g[i].t
  BY DEF TypesOf
<1>3. \A i \in 1..Len(g) : p + i <= Len(f)
  BY <1>1 DEF Stored
<1> QED  BY <1>1, <1>2, <1>3 DEF Agrees, Stored

LEMMA ManyNames ==
  /\ "float" \in Types /\ "int8" \in Types /\ "int32" \in Types /\ "int16" \in Types /\ "double" \in Types
  /\ F = Many("float", 1) /\ Point = Many("float", 2) /\ Rect = Many("float", 4) /\ B = Many("int8", 1) /\ Color = Many("int8", 4)
  /\ I = Many("int32", 1)
<1>1. ASSUME NEW t \in Types  PROVE <<t>> = Many(t, 1)
  <2>1. Many(t, 1) \in Seq(Types) /\ Len(Many(t, 1)) = 1 /\ Many(t, 1)[1] = t
    <3>1. 1 \in Nat /\ 1 \in 1..1
      OBVIOUS
    <3> QED  BY <3>1, ManyFacts
  <2>2. <<t>> \in Seq(Types) /\ Len(<<t>>) = 1 /\ <<t>>[1] = t
    OBVIOUS
  <2> QED  BY <2>1, <2>2, SeqEqual
<1>2. "float" \in Types /\ "int8" \in Types /\ "int32" \in Types /\ "int16" \in Types /\ "double" \in Types
  BY DEF Types
<1> QED  BY <1>1, <1>2 DEF F, Point, Rect, B, Color, I

LEMMA FloatJoin ==
  /\ Point \o Point = Many("float", 4) /\ Point \o F = Many("float", 3) /\ (Point \o Point) \o F = Many("float", 5)
  /\ Rect \o Point = Many("float", 6) /\ ((Point \o Point) \o F) \o F = Many("float", 6)
<1>1. ASSUME NEW a \in Nat, NEW b \in Nat, NEW k \in Nat, a + b = k
      PROVE  Many("float", a) \o Many("float", b) = Many("float", k)
  <2>1. "float" \in Types
    BY ManyNames
  <2>2. Many("float", a) \o Many("float", b) = Many("float", a + b)
    BY ONLY <2>1, a \in Nat, b \in Nat, ManyJoin
  <2> QED  BY <2>2, <1>1
<1> PICK one \in Nat, two \in Nat, three \in Nat, four \in Nat, five \in Nat, six \in Nat :
        one = 1 /\ two = 2 /\ three = 3 /\ four = 4 /\ five = 5 /\ six = 6
  OBVIOUS
<1>a. two + two = four /\ two + one = three /\ four + one = five /\ four + two = six /\ five + one = six
  OBVIOUS
<1>2. Many("float", two) \o Many("float", two) = Many("float", four)
  BY ONLY <1>1, <1>a, two \in Nat, four \in Nat
<1>3. Many("float", two) \o Many("float", one) = Many("float", three)
  BY ONLY <1>1, <1>a, two \in Nat, three \in Nat, one \in Nat
<1>4. Many("float", four) \o Many("float", one) = Many("float", five)
  BY ONLY <1>1, <1>a, four \in Nat, five \in Nat, one \in Nat, ZenonT(40)
<1>b. four + two = six
  BY <1>a
<1>5. Many("float", four) \o Many("float", two) = Many("float", six)
  BY ONLY <1>1, <1>b, four \in Nat, six \in Nat, two \in Nat
<1>6. Many("float", five) \o Many("float", one) = Many("float", six)
  BY ONLY <1>1, <1>a, five \in Nat, six \in Nat, one \in Nat
<1> QED  BY <1>2, <1>3, <1>4, <1>5, <1>6, ManyNames

LEMMA ShapeReads ==
  ASSUME NEW f, NEW p \in Nat, NEW n \in Nat, Len(f) \in Nat, Stored(f, p, Shape(n))
  PROVE  ShapeRead(f, p) = TypesOf(Shape(n)) /\ At32(f, p) = n /\ Shape(n) \in Seq(FileCells)
<1> PICK a \in Seq(Types) : a = Many("int32", n)
  BY ManyFacts, ManyNames
<1>t. 2 * n \in Nat
  OBVIOUS
<1> PICK b \in Seq(Types) : b = Many("float", 2 * n)
  BY <1>t, ManyFacts, ManyNames
<1> PICK ab \in Seq(Types) : ab = a \o b
  BY JoinTypes
<1> PICK d \in Seq(FileCells) : d = Data(ab) /\ TypesOf(d) = ab
  BY DataFacts, TypesOfData
<1> PICK k \in Seq(FileCells) : k = <<Int32(n)>> /\ TypesOf(k) = I /\ Len(k) = 1
  <2>1. <<Int32(n)>> \in Seq(FileCells) /\ Len(<<Int32(n)>>) = 1
    BY Counts32
  <2> QED  BY <2>1, TypesOfNumber
<1>1. Shape(n) = (k \o k) \o d
  <2>1. <<Int32(n), Int32(n)>> = <<Int32(n)>> \o <<Int32(n)>>
    OBVIOUS
  <2> QED  BY <2>1 DEF Shape
<1>2. k \o k \in Seq(FileCells) /\ (k \o k) \o d \in Seq(FileCells)
  BY JoinTypes
<1> PICK kk \in Seq(FileCells) : kk = k \o k
  BY <1>2
<1>a. Stored(f, p, kk \o d)
  BY <1>1
<1>3. Stored(f, p, kk)
  BY <1>a, StoredParts
<1>b. Stored(f, p, k \o k)
  BY <1>3
<1>4. Stored(f, p, k) /\ Stored(f, p + Len(k), k)
  BY <1>b, StoredParts
<1>5. At32(f, p) = n /\ At32(f, p + 1) = n
  <2>1. p + 1 \in Nat
    OBVIOUS
  <2>2. Stored(f, p, <<Int32(n)>>) /\ Stored(f, p + 1, <<Int32(n)>>)
    BY <1>4
  <2>3. At32(f, p) = n
    BY <2>2, StoredNumber
  <2> PICK r \in Nat : r = p + 1
    BY <2>1
  <2>4. At32(f, r) = n
    <3>1. Stored(f, r, <<Int32(n)>>)
      BY <2>2
    <3> QED  BY <3>1, StoredNumber
  <2> QED  BY <2>3, <2>4
<1>6. ShapeRead(f, p) = ((I \o I) \o a) \o b
  BY <1>5 DEF ShapeRead
<1>7. I \in Seq(Types) /\ I \o I \in Seq(Types)
  BY FewTypes, JoinTypes
<1> PICK ii \in Seq(Types) : ii = I \o I
  BY <1>7
<1>c. (ii \o a) \o b = ii \o (a \o b)
  BY ONLY ii \in Seq(Types), a \in Seq(Types), b \in Seq(Types)
<1>8. ((I \o I) \o a) \o b = (I \o I) \o (a \o b)
  BY <1>c
<1>9. TypesOf((k \o k) \o d) = (I \o I) \o (a \o b)
  <2>1. TypesOf(k \o k) = I \o I
    BY TypesOfJoin
  <2>3. TypesOf(kk \o d) = TypesOf(kk) \o TypesOf(d)
    BY TypesOfJoin
  <2>2. TypesOf((k \o k) \o d) = TypesOf(k \o k) \o TypesOf(d)
    BY <2>3
  <2> QED  BY <2>1, <2>2
<1> QED  BY <1>1, <1>2, <1>5, <1>6, <1>8, <1>9

LEMMA TextReads ==
  ASSUME NEW f, NEW p \in Nat, NEW n \in Nat, Len(f) \in Nat, Stored(f, p, Text(n))
  PROVE  TextRead(f, p) = TypesOf(Text(n)) /\ At32(f, p) = n /\ Text(n) \in Seq(FileCells)
<1> PICK a \in Seq(Types) : a = Many("int8", n)
  BY ManyFacts, ManyNames
<1> PICK d \in Seq(FileCells) : d = Data(a) /\ TypesOf(d) = a
  BY DataFacts, TypesOfData
<1> PICK k \in Seq(FileCells) : k = <<Int32(n)>> /\ TypesOf(k) = I /\ Len(k) = 1
  <2>1. <<Int32(n)>> \in Seq(FileCells) /\ Len(<<Int32(n)>>) = 1
    BY Counts32
  <2> QED  BY <2>1, TypesOfNumber
<1>1. Text(n) = k \o d
  BY DEF Text
<1>2. Stored(f, p, k) /\ k \o d \in Seq(FileCells)
  BY <1>1, StoredParts, JoinTypes
<1>3. At32(f, p) = n
  BY <1>2, StoredNumber
<1>4. TextRead(f, p) = I \o a
  BY <1>3 DEF TextRead
<1>5. TypesOf(k \o d) = TypesOf(k) \o TypesOf(d)
  BY ONLY k \in Seq(FileCells), d \in Seq(FileCells), TypesOfJoin
<1> QED  BY <1>1, <1>2, <1>3, <1>4, <1>5

LEMMA FigureReads ==
  ASSUME NEW f, NEW p \in Nat, Len(f) \in Nat, NEW c \in Flat \cup States, c.m \in FigureNames, Stored(f, p, Figure(c))
  PROVE  /\ FigureRead(f, p, c.m, c.stroke) = TypesOf(Figure(c)) /\ Figure(c) \in Seq(FileCells)
         /\ c.m \in {"DrawPolygon", "DrawShape"} => At32(f, p) = c.n
<1>0. c.n \in Nat /\ c.stroke \in BOOLEAN
  BY OperationFacts
<1> PICK n \in Nat : n = c.n
  BY <1>0
<1>1. ASSUME NEW k \in Nat, NEW types \in Seq(Types), Figure(c) = Data(types), types = Many("float", k),
             FigureRead(f, p, c.m, c.stroke) = types
      PROVE  FigureRead(f, p, c.m, c.stroke) = TypesOf(Figure(c)) /\ Figure(c) \in Seq(FileCells)
  BY <1>1, TypesOfData, DataFacts
<1>2. CASE c.m \in {"DrawLine", "DrawRect", "DrawEllipse"}
  <2>1. Figure(c) = Data(Rect)
    BY <1>2 DEF Figure
  <2>2. FigureRead(f, p, c.m, c.stroke) \in {Rect, Point \o Point}
    BY <1>2 DEF FigureRead
  <2>3. Point \o Point = Rect
    BY ManyNames, FloatJoin
  <2>4. TypesOf(Data(Rect)) = Rect /\ Data(Rect) \in Seq(FileCells)
    BY FewTypes, TypesOfData, DataFacts
  <2> QED  BY <2>1, <2>2, <2>3, <2>4, <1>2
<1>3. CASE c.m \in {"DrawRoundRect", "DrawArc"}
  <2>1. Figure(c) = Data(Many("float", 6))
    BY <1>3 DEF Figure
  <2>2. FigureRead(f, p, c.m, c.stroke) \in {Rect \o Point, Point \o Point \o F \o F}
    BY <1>3 DEF FigureRead
  <2>3. Rect \o Point = Many("float", 6)
    BY FloatJoin
  <2>4. Point \o Point \o F \o F = Many("float", 6)
    BY FloatJoin
  <2>5. Many("float", 6) \in Seq(Types)
    BY ManyNames, ManyFacts
  <2>6. TypesOf(Data(Many("float", 6))) = Many("float", 6) /\ Data(Many("float", 6)) \in Seq(FileCells)
    BY <2>5, TypesOfData, DataFacts
  <2> QED  BY <2>1, <2>2, <2>3, <2>4, <2>6, <1>3
<1>4. CASE c.m = "DrawBezier"
  <2>1. Figure(c) = Data(Many("float", 8))
    <3>1. 4 * 2 = 8
      OBVIOUS
    <3> QED  BY <3>1, <1>4 DEF Figure
  <2>2. FigureRead(f, p, c.m, c.stroke) = Many("float", 8)
    BY <1>4 DEF FigureRead
  <2>3. Many("float", 8) \in Seq(Types)
    BY ManyNames, ManyFacts
  <2> QED  BY <2>1, <2>2, <2>3, <1>4, TypesOfData, DataFacts
<1>5. CASE c.m = "DrawPolygon"
  <2> PICK k \in Seq(FileCells) : k = <<Int32(n)>> /\ TypesOf(k) = I /\ Len(k) = 1
    <3>1. <<Int32(n)>> \in Seq(FileCells) /\ Len(<<Int32(n)>>) = 1
      BY Counts32
    <3> QED  BY <3>1, TypesOfNumber
  <2> PICK a \in Seq(Types) : a = Many("float", 2 * n)
    <3>1. 2 * n \in Nat
      OBVIOUS
    <3> QED  BY <3>1, ManyNames, ManyFacts
  <2> PICK b \in Seq(Types) : b = IF c.stroke THEN B ELSE <<>>
    BY FewTypes
  <2> PICK ab \in Seq(Types) : ab = a \o b
    BY JoinTypes
  <2> PICK d \in Seq(FileCells) : d = Data(ab) /\ TypesOf(d) = ab
    BY DataFacts, TypesOfData
  <2>1. Figure(c) = k \o d
    BY <1>5 DEF Figure
  <2>a. Stored(f, p, k \o d)
    BY <2>1
  <2>b. Stored(f, p, k)
    BY <2>a, StoredParts
  <2>2. Stored(f, p, k) /\ k \o d \in Seq(FileCells)
    BY <2>b, JoinTypes
  <2>3. At32(f, p) = n
    BY <2>2, StoredNumber
  <2>4. FigureRead(f, p, c.m, c.stroke) = I \o a \o b
    BY <2>3, <1>5 DEF FigureRead
  <2>c. I \in Seq(Types)
    BY FewTypes
  <2> PICK i \in Seq(Types) : i = I
    BY <2>c
  <2>d. (i \o a) \o b = i \o (a \o b)
    BY ONLY i \in Seq(Types), a \in Seq(Types), b \in Seq(Types)
  <2>5. I \o a \o b = I \o (a \o b)
    BY <2>d
  <2>e. TypesOf(k \o d) = TypesOf(k) \o TypesOf(d)
    BY TypesOfJoin
  <2>6. TypesOf(k \o d) = I \o (a \o b)
    BY <2>e
  <2> QED  BY <2>1, <2>2, <2>3, <2>4, <2>5, <2>6
<1>6. CASE c.m = "DrawShape"
  <2>1. Figure(c) = Shape(n)
    BY <1>6 DEF Figure
  <2>2. FigureRead(f, p, c.m, c.stroke) = ShapeRead(f, p)
    BY <1>6 DEF FigureRead
  <2> QED  BY <2>1, <2>2, ShapeReads
<1> QED  BY <1>2, <1>3, <1>4, <1>5, <1>6 DEF FigureNames

LEMMA GradientReads ==
  ASSUME NEW f, NEW p \in Nat, Len(f) \in Nat, NEW g \in Gradients, NEW n \in Nat, Stored(f, p, Gradient(g, n))
  PROVE  GradientRead(f, p) = TypesOf(Gradient(g, n)) /\ At32(f, p) = g /\ At32(f, p + 1) = n
<1>0. g \in 1..5 /\ g \in Nat
  BY DEF Gradients
<1> PICK k \in Seq(FileCells) : k = <<Int32(g)>> /\ TypesOf(k) = I /\ Len(k) = 1
  <2>1. <<Int32(g)>> \in Seq(FileCells) /\ Len(<<Int32(g)>>) = 1
    BY <1>0, Counts32
  <2> QED  BY <2>1, <1>0, TypesOfNumber
<1> PICK l \in Seq(FileCells) : l = <<Int32(n)>> /\ TypesOf(l) = I /\ Len(l) = 1
  <2>1. <<Int32(n)>> \in Seq(FileCells) /\ Len(<<Int32(n)>>) = 1
    BY Counts32
  <2> QED  BY <2>1, TypesOfNumber
<1> DEFINE Stop(m) == [i \in 1..(5 * m) |-> IF i % 5 = 0 THEN "float" ELSE "int8"]
<1>1. Stop(n) \in Seq(Types)
  BY ManyNames
<1> PICK a : a = Stop(n)
  OBVIOUS
<1>a. a \in Seq(Types)
  BY <1>1
<1>c. Stops(n) = l \o Data(a)
  BY DEF Stops
<1> HIDE DEF Stop
<1> PICK d \in Seq(FileCells) : d = Data(a) /\ TypesOf(d) = a
  BY <1>a, DataFacts, TypesOfData
<1>2. Ends[g] \in Nat
  BY <1>0 DEF Ends
<1> PICK b \in Seq(Types) : b = Many("float", Ends[g])
  BY <1>2, ManyNames, ManyFacts
<1> PICK e \in Seq(FileCells) : e = Data(b) /\ TypesOf(e) = b
  BY DataFacts, TypesOfData
<1>3. Gradient(g, n) = (k \o (l \o d)) \o e
  BY <1>0, <1>c DEF Gradient
<1>4. l \o d \in Seq(FileCells) /\ k \o (l \o d) \in Seq(FileCells)
  BY JoinTypes
<1> PICK ld \in Seq(FileCells) : ld = l \o d
  BY <1>4
<1> PICK kld \in Seq(FileCells) : kld = k \o ld
  BY <1>4
<1> PICK r \in Nat : r = p + 1
  OBVIOUS
<1>d. Stored(f, p, kld \o e)
  BY <1>3
<1>5. Stored(f, p, kld)
  BY <1>d, StoredParts
<1>e. Stored(f, p, k \o ld)
  BY <1>5
<1>f. Stored(f, p, k) /\ Stored(f, p + Len(k), ld)
  BY <1>e, StoredParts
<1>6. Stored(f, p, k) /\ Stored(f, r, l \o d)
  BY <1>f
<1>7. Stored(f, r, l)
  BY <1>6, StoredParts
<1>8. At32(f, p) = g /\ At32(f, p + 1) = n
  <2>1. Stored(f, p, <<Int32(g)>>) /\ Stored(f, r, <<Int32(n)>>)
    BY <1>6, <1>7
  <2>2. At32(f, p) = g
    BY <2>1, <1>0, StoredNumber
  <2>3. At32(f, r) = n
    BY <2>1, StoredNumber
  <2> QED  BY <2>2, <2>3
<1>9. \/ g = 1 /\ b = Point \o Point
      \/ g \in {2, 5} /\ b = Point \o F
      \/ g = 3 /\ b = Point \o Point \o F
      \/ g = 4 /\ b = Point
  <2>1. Ends[1] = 4 /\ Ends[2] = 3 /\ Ends[3] = 5 /\ Ends[4] = 2 /\ Ends[5] = 3
    BY DEF Ends
  <2>3. Point \o Point = Many("float", 4) /\ Point \o F = Many("float", 3) /\ Point \o Point \o F = Many("float", 5) /\ Point = Many("float", 2)
    BY FloatJoin, ManyNames
  <2>4. g = 1 \/ g = 2 \/ g = 3 \/ g = 4 \/ g = 5
    BY <1>0
  <2> QED  BY <2>1, <2>3, <2>4
<1>10. GradientRead(f, p) = ((I \o I) \o a) \o b
  <2> DEFINE points == CASE At32(f, p) = 1 -> Point \o Point
                    [] At32(f, p) \in {2, 5} -> Point \o F
                    [] At32(f, p) = 3 -> Point \o Point \o F
                    [] At32(f, p) = 4 -> Point
                    [] OTHER -> <<"refused">>
  <2>1. points = b
    <3>1. CASE g = 1
      BY <3>1, <1>8, <1>9, SMTT(30)
    <3>2. CASE g \in {2, 5}
      <4>1. At32(f, p) # 1 /\ At32(f, p) \in {2, 5} /\ At32(f, p) # 3 /\ At32(f, p) # 4 /\ b = Point \o F
        BY <3>2, <1>8, <1>9
      <4> QED  BY ONLY <4>1
    <3>3. CASE g = 3
      <4>1. At32(f, p) = 3 /\ b = Point \o Point \o F
        BY <3>3, <1>8, <1>9
      <4> QED  BY ONLY <4>1
    <3>4. CASE g = 4
      BY <3>4, <1>8, <1>9
    <3> QED  BY <3>1, <3>2, <3>3, <3>4, <1>9
  <2>2. GradientRead(f, p) = ((I \o I) \o Stop(At32(f, p + 1))) \o points
    BY DEF GradientRead, Stop
  <2> HIDE DEF points
  <2> QED  BY <2>1, <2>2, <1>8
<1>11. TypesOf((k \o (l \o d)) \o e) = (I \o (I \o a)) \o b
  <2>1. TypesOf(l \o d) = TypesOf(l) \o TypesOf(d)
    BY TypesOfJoin
  <2>2. TypesOf(k \o ld) = TypesOf(k) \o TypesOf(ld)
    BY TypesOfJoin
  <2>3. TypesOf(kld \o e) = TypesOf(kld) \o TypesOf(e)
    BY TypesOfJoin
  <2> QED  BY <2>1, <2>2, <2>3
<1>12. (I \o I) \o a = I \o (I \o a)
  <2>1. I \in Seq(Types)
    BY FewTypes
  <2> PICK i \in Seq(Types) : i = I
    BY <2>1
  <2> PICK x \in Seq(Types) : x = a
    BY <1>a
  <2>2. (i \o i) \o x = i \o (i \o x)
    BY ONLY i \in Seq(Types), x \in Seq(Types), SMTT(30)
  <2> QED  BY <2>2
<1> QED  BY <1>3, <1>8, <1>10, <1>11, <1>12

(***************************************************************************)
(* The codes of the operations, and what they stand for.                   *)
(***************************************************************************)
FigureWords ==
    {"STROKE_LINE", "STROKE_LINE_GRADIENT", "STROKE_RECT", "FILL_RECT", "STROKE_RECT_GRADIENT", "FILL_RECT_GRADIENT",
     "STROKE_ROUND_RECT", "FILL_ROUND_RECT", "STROKE_ROUND_RECT_GRADIENT", "FILL_ROUND_RECT_GRADIENT", "STROKE_BEZIER",
     "FILL_BEZIER", "STROKE_BEZIER_GRADIENT", "FILL_BEZIER_GRADIENT", "STROKE_POLYGON", "FILL_POLYGON",
     "STROKE_POLYGON_GRADIENT", "FILL_POLYGON_GRADIENT", "STROKE_SHAPE", "FILL_SHAPE", "STROKE_SHAPE_GRADIENT",
     "FILL_SHAPE_GRADIENT", "STROKE_ARC", "FILL_ARC", "STROKE_ARC_GRADIENT", "FILL_ARC_GRADIENT", "STROKE_ELLIPSE",
     "FILL_ELLIPSE", "STROKE_ELLIPSE_GRADIENT", "FILL_ELLIPSE_GRADIENT"}
PlainWords ==
    {"MOVE_PEN_BY", "DRAW_PICTURE", "CLIP_TO_PICTURE", "PUSH_STATE", "POP_STATE", "CLEAR_CLIPPING_RECTS",
     "CLIP_TO_RECT", "SET_ORIGIN", "SET_PEN_LOCATION", "SET_DRAWING_MODE", "SET_LINE_MODE", "SET_PEN_SIZE",
     "SET_SCALE", "SET_FORE_COLOR", "SET_BACK_COLOR", "SET_STIPLE_PATTERN", "SET_BLENDING_MODE", "SET_FILL_RULE",
     "SET_FONT_SPACING", "SET_FONT_ENCODING", "SET_FONT_FLAGS", "SET_FONT_SIZE", "SET_FONT_ROTATE", "SET_FONT_SHEAR",
     "SET_FONT_BPP", "SET_FONT_FACE", "SET_FONT_FALSE_BOLD_WIDTH", "SET_TRANSFORM", "AFFINE_TRANSLATE", "AFFINE_SCALE",
     "AFFINE_ROTATE", "BLEND_LAYER"}
CountedWords ==
    {"SET_CLIPPING_RECTS", "CLIP_TO_SHAPE", "SET_FONT_FAMILY", "SET_FONT_STYLE", "DRAW_STRING",
     "DRAW_STRING_LOCATIONS", "DRAW_PIXELS"}

LEMMA FigureTable ==
  /\ Figures["DrawLine"] = <<"STROKE_LINE", "STROKE_LINE", "STROKE_LINE_GRADIENT", "STROKE_LINE_GRADIENT">>
  /\ Figures["DrawRect"] = <<"STROKE_RECT", "FILL_RECT", "STROKE_RECT_GRADIENT", "FILL_RECT_GRADIENT">>
  /\ Figures["DrawRoundRect"] = <<"STROKE_ROUND_RECT", "FILL_ROUND_RECT", "STROKE_ROUND_RECT_GRADIENT", "FILL_ROUND_RECT_GRADIENT">>
  /\ Figures["DrawBezier"] = <<"STROKE_BEZIER", "FILL_BEZIER", "STROKE_BEZIER_GRADIENT", "FILL_BEZIER_GRADIENT">>
  /\ Figures["DrawPolygon"] = <<"STROKE_POLYGON", "FILL_POLYGON", "STROKE_POLYGON_GRADIENT", "FILL_POLYGON_GRADIENT">>
  /\ Figures["DrawShape"] = <<"STROKE_SHAPE", "FILL_SHAPE", "STROKE_SHAPE_GRADIENT", "FILL_SHAPE_GRADIENT">>
  /\ Figures["DrawArc"] = <<"STROKE_ARC", "FILL_ARC", "STROKE_ARC_GRADIENT", "FILL_ARC_GRADIENT">>
  /\ Figures["DrawEllipse"] = <<"STROKE_ELLIPSE", "FILL_ELLIPSE", "STROKE_ELLIPSE_GRADIENT", "FILL_ELLIPSE_GRADIENT">>
BY DEF Figures

LEMMA HeardTable ==
  /\ DOMAIN HeardPlain = PlainWords
  /\ HeardPlain["MOVE_PEN_BY"] = <<"MovePenBy", F \o F>>
  /\ HeardPlain["DRAW_PICTURE"] = <<"DrawPicture", Point \o I>>
  /\ HeardPlain["CLIP_TO_PICTURE"] = <<"ClipToPicture", I \o Point \o B>>
  /\ HeardPlain["PUSH_STATE"] = <<"PushState", <<>>>>
  /\ HeardPlain["POP_STATE"] = <<"PopState", <<>>>>
  /\ HeardPlain["CLEAR_CLIPPING_RECTS"] = <<"ClearClipping", <<>>>>
  /\ HeardPlain["CLIP_TO_RECT"] = <<"ClipToRect", B \o Rect>>
  /\ HeardPlain["SET_ORIGIN"] = <<"SetOrigin", Point>>
  /\ HeardPlain["SET_PEN_LOCATION"] = <<"SetPenLocation", Point>>
  /\ HeardPlain["SET_DRAWING_MODE"] = <<"SetDrawingMode", H>>
  /\ HeardPlain["SET_LINE_MODE"] = <<"SetLineMode", H \o H \o F>>
  /\ HeardPlain["SET_PEN_SIZE"] = <<"SetPenSize", F>>
  /\ HeardPlain["SET_SCALE"] = <<"SetScale", F>>
  /\ HeardPlain["SET_FORE_COLOR"] = <<"SetHighColor", B \o B \o B \o B>>
  /\ HeardPlain["SET_BACK_COLOR"] = <<"SetLowColor", B \o B \o B \o B>>
  /\ HeardPlain["SET_STIPLE_PATTERN"] = <<"SetPattern", Many("int8", 8)>>
  /\ HeardPlain["SET_BLENDING_MODE"] = <<"SetBlendingMode", H \o H>>
  /\ HeardPlain["SET_FILL_RULE"] = <<"SetFillRule", I>>
  /\ HeardPlain["SET_FONT_SPACING"] = <<"SetFontSpacing", I>>
  /\ HeardPlain["SET_FONT_ENCODING"] = <<"SetFontEncoding", I>>
  /\ HeardPlain["SET_FONT_FLAGS"] = <<"SetFontFlags", I>>
  /\ HeardPlain["SET_FONT_SIZE"] = <<"SetFontSize", F>>
  /\ HeardPlain["SET_FONT_ROTATE"] = <<"SetFontRotation", F>>
  /\ HeardPlain["SET_FONT_SHEAR"] = <<"SetFontShear", F>>
  /\ HeardPlain["SET_FONT_BPP"] = <<"SetFontBpp", I>>
  /\ HeardPlain["SET_FONT_FACE"] = <<"SetFontFace", I>>
  /\ HeardPlain["SET_FONT_FALSE_BOLD_WIDTH"] = <<"SetFontFalseBoldWidth", F>>
  /\ HeardPlain["SET_TRANSFORM"] = <<"SetTransform", Many("double", 6)>>
  /\ HeardPlain["AFFINE_TRANSLATE"] = <<"TranslateBy", D \o D>>
  /\ HeardPlain["AFFINE_SCALE"] = <<"ScaleBy", D \o D>>
  /\ HeardPlain["AFFINE_ROTATE"] = <<"RotateBy", D>>
  /\ HeardPlain["BLEND_LAYER"] = <<"BlendLayer", <<>>>>
BY DEF HeardPlain, PlainWords

LEMMA WordFacts ==
  /\ FigureWords \cap PlainWords = {} /\ CountedWords \cap (FigureWords \cup PlainWords) = {}
  /\ \A m \in Enter : EnterCode(m) \notin FigureWords \cup PlainWords \cup CountedWords
  /\ {"PUSH_STATE", "POP_STATE"} \cap (FigureWords \cup CountedWords) = {}
  /\ CountedOps = CountedWords
<1>1. FigureWords \cap PlainWords = {}
  BY DEF FigureWords, PlainWords
<1>2. CountedWords \cap (FigureWords \cup PlainWords) = {}
  BY DEF FigureWords, PlainWords, CountedWords
<1>3. \A m \in Enter : EnterCode(m) \notin FigureWords \cup PlainWords \cup CountedWords
  BY DEF FigureWords, PlainWords, CountedWords, Enter, EnterCode
<1>4. {"PUSH_STATE", "POP_STATE"} \cap (FigureWords \cup CountedWords) = {}
  BY DEF FigureWords, CountedWords
<1>5. CountedOps = CountedWords
  BY DEF CountedOps, CountedWords
<1> QED  BY <1>1, <1>2, <1>3, <1>4, <1>5

LEMMA FigureOneToFour ==
  ASSUME NEW k \in 1..4
  PROVE  k = 1 \/ k = 2 \/ k = 3 \/ k = 4
OBVIOUS

LEMMA FigureWord ==
  ASSUME NEW m \in FigureNames, NEW k \in 1..4
  PROVE  Figures[m][k] \in FigureWords
<1>1. Figures[m][1] \in FigureWords /\ Figures[m][2] \in FigureWords /\ Figures[m][3] \in FigureWords /\ Figures[m][4] \in FigureWords
  BY FigureTable DEF FigureNames, FigureWords
<1> QED  BY <1>1, FigureOneToFour

LEMMA FigureUnique ==
  ASSUME NEW m \in FigureNames, NEW k \in 1..4, NEW n \in FigureNames, NEW l \in 1..4, Figures[m][k] = Figures[n][l]
  PROVE  m = n
<1>1. CASE m = "DrawLine"
  <2>1. Figures[m][k] \in {"STROKE_LINE", "STROKE_LINE_GRADIENT"}
    BY <1>1, FigureTable, FigureOneToFour
  <2>2. \A x \in FigureNames : x # "DrawLine" => \A j \in 1..4 : Figures[x][j] \notin {"STROKE_LINE", "STROKE_LINE_GRADIENT"}
    BY FigureTable, FigureOneToFour DEF FigureNames
  <2> QED  BY <2>1, <2>2, <1>1
<1>2. CASE m = "DrawRect"
  <2>1. Figures[m][k] \in {"STROKE_RECT", "FILL_RECT", "STROKE_RECT_GRADIENT", "FILL_RECT_GRADIENT"}
    BY <1>2, FigureTable, FigureOneToFour
  <2>2. \A x \in FigureNames : x # "DrawRect" => \A j \in 1..4 : Figures[x][j] \notin {"STROKE_RECT", "FILL_RECT", "STROKE_RECT_GRADIENT", "FILL_RECT_GRADIENT"}
    BY FigureTable, FigureOneToFour DEF FigureNames
  <2> QED  BY <2>1, <2>2, <1>2
<1>3. CASE m = "DrawRoundRect"
  <2>1. Figures[m][k] \in {"STROKE_ROUND_RECT", "FILL_ROUND_RECT", "STROKE_ROUND_RECT_GRADIENT", "FILL_ROUND_RECT_GRADIENT"}
    BY <1>3, FigureTable, FigureOneToFour
  <2>2. \A x \in FigureNames : x # "DrawRoundRect" => \A j \in 1..4 : Figures[x][j] \notin {"STROKE_ROUND_RECT", "FILL_ROUND_RECT", "STROKE_ROUND_RECT_GRADIENT", "FILL_ROUND_RECT_GRADIENT"}
    BY FigureTable, FigureOneToFour DEF FigureNames
  <2> QED  BY <2>1, <2>2, <1>3
<1>4. CASE m = "DrawBezier"
  <2>1. Figures[m][k] \in {"STROKE_BEZIER", "FILL_BEZIER", "STROKE_BEZIER_GRADIENT", "FILL_BEZIER_GRADIENT"}
    BY <1>4, FigureTable, FigureOneToFour
  <2>2. \A x \in FigureNames : x # "DrawBezier" => \A j \in 1..4 : Figures[x][j] \notin {"STROKE_BEZIER", "FILL_BEZIER", "STROKE_BEZIER_GRADIENT", "FILL_BEZIER_GRADIENT"}
    BY FigureTable, FigureOneToFour DEF FigureNames
  <2> QED  BY <2>1, <2>2, <1>4
<1>5. CASE m = "DrawPolygon"
  <2>1. Figures[m][k] \in {"STROKE_POLYGON", "FILL_POLYGON", "STROKE_POLYGON_GRADIENT", "FILL_POLYGON_GRADIENT"}
    BY <1>5, FigureTable, FigureOneToFour
  <2>2. \A x \in FigureNames : x # "DrawPolygon" => \A j \in 1..4 : Figures[x][j] \notin {"STROKE_POLYGON", "FILL_POLYGON", "STROKE_POLYGON_GRADIENT", "FILL_POLYGON_GRADIENT"}
    BY FigureTable, FigureOneToFour DEF FigureNames
  <2> QED  BY <2>1, <2>2, <1>5
<1>6. CASE m = "DrawShape"
  <2>1. Figures[m][k] \in {"STROKE_SHAPE", "FILL_SHAPE", "STROKE_SHAPE_GRADIENT", "FILL_SHAPE_GRADIENT"}
    BY <1>6, FigureTable, FigureOneToFour
  <2>2. \A x \in FigureNames : x # "DrawShape" => \A j \in 1..4 : Figures[x][j] \notin {"STROKE_SHAPE", "FILL_SHAPE", "STROKE_SHAPE_GRADIENT", "FILL_SHAPE_GRADIENT"}
    BY FigureTable, FigureOneToFour DEF FigureNames
  <2> QED  BY <2>1, <2>2, <1>6
<1>7. CASE m = "DrawArc"
  <2>1. Figures[m][k] \in {"STROKE_ARC", "FILL_ARC", "STROKE_ARC_GRADIENT", "FILL_ARC_GRADIENT"}
    BY <1>7, FigureTable, FigureOneToFour
  <2>2. \A x \in FigureNames : x # "DrawArc" => \A j \in 1..4 : Figures[x][j] \notin {"STROKE_ARC", "FILL_ARC", "STROKE_ARC_GRADIENT", "FILL_ARC_GRADIENT"}
    BY FigureTable, FigureOneToFour DEF FigureNames
  <2> QED  BY <2>1, <2>2, <1>7
<1>8. CASE m = "DrawEllipse"
  <2>1. Figures[m][k] \in {"STROKE_ELLIPSE", "FILL_ELLIPSE", "STROKE_ELLIPSE_GRADIENT", "FILL_ELLIPSE_GRADIENT"}
    BY <1>8, FigureTable, FigureOneToFour
  <2>2. \A x \in FigureNames : x # "DrawEllipse" => \A j \in 1..4 : Figures[x][j] \notin {"STROKE_ELLIPSE", "FILL_ELLIPSE", "STROKE_ELLIPSE_GRADIENT", "FILL_ELLIPSE_GRADIENT"}
    BY FigureTable, FigureOneToFour DEF FigureNames
  <2> QED  BY <2>1, <2>2, <1>8
<1> QED  BY <1>1, <1>2, <1>3, <1>4, <1>5, <1>6, <1>7, <1>8 DEF FigureNames

LEMMA FigureRow ==
  ASSUME NEW m \in FigureNames
  PROVE  /\ m # "DrawLine" => Figures[m][2] \notin {Figures[m][1], Figures[m][3]} /\ Figures[m][4] \notin {Figures[m][1], Figures[m][3]}
         /\ Figures[m][1] \notin {Figures[m][3], Figures[m][4]} /\ Figures[m][2] \notin {Figures[m][3], Figures[m][4]}
BY FigureTable DEF FigureNames

LEMMA ColorRead == B \o B \o B \o B = Color
<1>1. ASSUME NEW a \in Nat, NEW b \in Nat, NEW k \in Nat, a + b = k
      PROVE  Many("int8", a) \o Many("int8", b) = Many("int8", k)
  <2>1. "int8" \in Types
    BY ManyNames
  <2>2. Many("int8", a) \o Many("int8", b) = Many("int8", a + b)
    BY ONLY <2>1, a \in Nat, b \in Nat, ManyJoin
  <2> QED  BY <2>2, <1>1
<1> PICK one \in Nat, two \in Nat, three \in Nat, four \in Nat : one = 1 /\ two = 2 /\ three = 3 /\ four = 4
  OBVIOUS
<1>2. one + one = two
  OBVIOUS
<1>3. two + one = three
  OBVIOUS
<1>4. three + one = four
  OBVIOUS
<1>5. Many("int8", one) \o Many("int8", one) = Many("int8", two)
  BY ONLY <1>1, <1>2, one \in Nat, two \in Nat
<1>6. Many("int8", two) \o Many("int8", one) = Many("int8", three)
  BY ONLY <1>1, <1>3, one \in Nat, two \in Nat, three \in Nat
<1>7. Many("int8", three) \o Many("int8", one) = Many("int8", four)
  BY ONLY <1>1, <1>4, one \in Nat, three \in Nat, four \in Nat
<1> QED  BY <1>5, <1>6, <1>7, ManyNames

LEMMA PlainReads ==
  ASSUME NEW m \in PlainNames
  PROVE  \E w \in PlainWords, types \in Seq(Types) :
            WrittenPlain[m] = <<w, types>> /\ HeardPlain[w] = <<m, types>>
            /\ (w \in {"PUSH_STATE", "POP_STATE"} <=> m \in {"PushState", "PopState"})
<1>1. \E w \in PlainWords :
            /\ WrittenPlain[m] = <<w, WrittenPlain[m][2]>> /\ HeardPlain[w] = <<m, WrittenPlain[m][2]>>
            /\ (w \in {"PUSH_STATE", "POP_STATE"} <=> m \in {"PushState", "PopState"})
  <2>1. CASE m = "PushState"
    <3>1. WrittenPlain["PushState"] = <<"PUSH_STATE", <<>>>> /\ HeardPlain["PUSH_STATE"] = <<"PushState", <<>>>>
      BY PlainTable, HeardTable
    <3> QED  BY <2>1, <3>1 DEF PlainWords
  <2>2. CASE m = "PopState"
    <3>1. WrittenPlain["PopState"] = <<"POP_STATE", <<>>>> /\ HeardPlain["POP_STATE"] = <<"PopState", <<>>>>
      BY PlainTable, HeardTable
    <3> QED  BY <2>2, <3>1 DEF PlainWords
  <2>3. CASE m = "SetDrawingMode"
    <3>1. WrittenPlain["SetDrawingMode"] = <<"SET_DRAWING_MODE", H>> /\ HeardPlain["SET_DRAWING_MODE"] = <<"SetDrawingMode", H>>
      BY PlainTable, HeardTable
    <3> QED  BY <2>3, <3>1 DEF PlainWords
  <2>4. CASE m = "SetLineMode"
    <3>1. WrittenPlain["SetLineMode"] = <<"SET_LINE_MODE", H \o H \o F>> /\ HeardPlain["SET_LINE_MODE"] = <<"SetLineMode", H \o H \o F>>
      BY PlainTable, HeardTable
    <3> QED  BY <2>4, <3>1 DEF PlainWords
  <2>5. CASE m = "SetPenSize"
    <3>1. WrittenPlain["SetPenSize"] = <<"SET_PEN_SIZE", F>> /\ HeardPlain["SET_PEN_SIZE"] = <<"SetPenSize", F>>
      BY PlainTable, HeardTable
    <3> QED  BY <2>5, <3>1 DEF PlainWords
  <2>6. CASE m = "SetHighColor"
    <3>1. WrittenPlain["SetHighColor"] = <<"SET_FORE_COLOR", Color>> /\ HeardPlain["SET_FORE_COLOR"] = <<"SetHighColor", Color>>
      BY PlainTable, HeardTable, ColorRead
    <3> QED  BY <2>6, <3>1 DEF PlainWords
  <2>7. CASE m = "SetLowColor"
    <3>1. WrittenPlain["SetLowColor"] = <<"SET_BACK_COLOR", Color>> /\ HeardPlain["SET_BACK_COLOR"] = <<"SetLowColor", Color>>
      BY PlainTable, HeardTable, ColorRead
    <3> QED  BY <2>7, <3>1 DEF PlainWords
  <2>8. CASE m = "SetPattern"
    <3>1. WrittenPlain["SetPattern"] = <<"SET_STIPLE_PATTERN", Many("int8", 8)>> /\ HeardPlain["SET_STIPLE_PATTERN"] = <<"SetPattern", Many("int8", 8)>>
      BY PlainTable, HeardTable
    <3> QED  BY <2>8, <3>1 DEF PlainWords
  <2>9. CASE m = "SetBlendingMode"
    <3>1. WrittenPlain["SetBlendingMode"] = <<"SET_BLENDING_MODE", H \o H>> /\ HeardPlain["SET_BLENDING_MODE"] = <<"SetBlendingMode", H \o H>>
      BY PlainTable, HeardTable
    <3> QED  BY <2>9, <3>1 DEF PlainWords
  <2>10. CASE m = "SetFillRule"
    <3>1. WrittenPlain["SetFillRule"] = <<"SET_FILL_RULE", I>> /\ HeardPlain["SET_FILL_RULE"] = <<"SetFillRule", I>>
      BY PlainTable, HeardTable
    <3> QED  BY <2>10, <3>1 DEF PlainWords
  <2>11. CASE m = "SetOrigin"
    <3>1. WrittenPlain["SetOrigin"] = <<"SET_ORIGIN", Point>> /\ HeardPlain["SET_ORIGIN"] = <<"SetOrigin", Point>>
      BY PlainTable, HeardTable
    <3> QED  BY <2>11, <3>1 DEF PlainWords
  <2>12. CASE m = "SetScale"
    <3>1. WrittenPlain["SetScale"] = <<"SET_SCALE", F>> /\ HeardPlain["SET_SCALE"] = <<"SetScale", F>>
      BY PlainTable, HeardTable
    <3> QED  BY <2>12, <3>1 DEF PlainWords
  <2>13. CASE m = "SetPenLocation"
    <3>1. WrittenPlain["SetPenLocation"] = <<"SET_PEN_LOCATION", Point>> /\ HeardPlain["SET_PEN_LOCATION"] = <<"SetPenLocation", Point>>
      BY PlainTable, HeardTable
    <3> QED  BY <2>13, <3>1 DEF PlainWords
  <2>14. CASE m = "SetTransform"
    <3>1. WrittenPlain["SetTransform"] = <<"SET_TRANSFORM", Many("double", 6)>> /\ HeardPlain["SET_TRANSFORM"] = <<"SetTransform", Many("double", 6)>>
      BY PlainTable, HeardTable
    <3> QED  BY <2>14, <3>1 DEF PlainWords
  <2>15. CASE m = "ClearClipping"
    <3>1. WrittenPlain["ClearClipping"] = <<"CLEAR_CLIPPING_RECTS", <<>>>> /\ HeardPlain["CLEAR_CLIPPING_RECTS"] = <<"ClearClipping", <<>>>>
      BY PlainTable, HeardTable
    <3> QED  BY <2>15, <3>1 DEF PlainWords
  <2>16. CASE m = "ClipToPicture"
    <3>1. WrittenPlain["ClipToPicture"] = <<"CLIP_TO_PICTURE", I \o Point \o B>> /\ HeardPlain["CLIP_TO_PICTURE"] = <<"ClipToPicture", I \o Point \o B>>
      BY PlainTable, HeardTable
    <3> QED  BY <2>16, <3>1 DEF PlainWords
  <2>17. CASE m = "ClipToRect"
    <3>1. WrittenPlain["ClipToRect"] = <<"CLIP_TO_RECT", B \o Rect>> /\ HeardPlain["CLIP_TO_RECT"] = <<"ClipToRect", B \o Rect>>
      BY PlainTable, HeardTable
    <3> QED  BY <2>17, <3>1 DEF PlainWords
  <2>18. CASE m = "SetFontSpacing"
    <3>1. WrittenPlain["SetFontSpacing"] = <<"SET_FONT_SPACING", I>> /\ HeardPlain["SET_FONT_SPACING"] = <<"SetFontSpacing", I>>
      BY PlainTable, HeardTable
    <3> QED  BY <2>18, <3>1 DEF PlainWords
  <2>19. CASE m = "SetFontSize"
    <3>1. WrittenPlain["SetFontSize"] = <<"SET_FONT_SIZE", F>> /\ HeardPlain["SET_FONT_SIZE"] = <<"SetFontSize", F>>
      BY PlainTable, HeardTable
    <3> QED  BY <2>19, <3>1 DEF PlainWords
  <2>20. CASE m = "SetFontRotation"
    <3>1. WrittenPlain["SetFontRotation"] = <<"SET_FONT_ROTATE", F>> /\ HeardPlain["SET_FONT_ROTATE"] = <<"SetFontRotation", F>>
      BY PlainTable, HeardTable
    <3> QED  BY <2>20, <3>1 DEF PlainWords
  <2>21. CASE m = "SetFontEncoding"
    <3>1. WrittenPlain["SetFontEncoding"] = <<"SET_FONT_ENCODING", I>> /\ HeardPlain["SET_FONT_ENCODING"] = <<"SetFontEncoding", I>>
      BY PlainTable, HeardTable
    <3> QED  BY <2>21, <3>1 DEF PlainWords
  <2>22. CASE m = "SetFontFlags"
    <3>1. WrittenPlain["SetFontFlags"] = <<"SET_FONT_FLAGS", I>> /\ HeardPlain["SET_FONT_FLAGS"] = <<"SetFontFlags", I>>
      BY PlainTable, HeardTable
    <3> QED  BY <2>22, <3>1 DEF PlainWords
  <2>23. CASE m = "SetFontShear"
    <3>1. WrittenPlain["SetFontShear"] = <<"SET_FONT_SHEAR", F>> /\ HeardPlain["SET_FONT_SHEAR"] = <<"SetFontShear", F>>
      BY PlainTable, HeardTable
    <3> QED  BY <2>23, <3>1 DEF PlainWords
  <2>24. CASE m = "SetFontBpp"
    <3>1. WrittenPlain["SetFontBpp"] = <<"SET_FONT_BPP", I>> /\ HeardPlain["SET_FONT_BPP"] = <<"SetFontBpp", I>>
      BY PlainTable, HeardTable
    <3> QED  BY <2>24, <3>1 DEF PlainWords
  <2>25. CASE m = "SetFontFace"
    <3>1. WrittenPlain["SetFontFace"] = <<"SET_FONT_FACE", I>> /\ HeardPlain["SET_FONT_FACE"] = <<"SetFontFace", I>>
      BY PlainTable, HeardTable
    <3> QED  BY <2>25, <3>1 DEF PlainWords
  <2>26. CASE m = "SetFontFalseBoldWidth"
    <3>1. WrittenPlain["SetFontFalseBoldWidth"] = <<"SET_FONT_FALSE_BOLD_WIDTH", F>> /\ HeardPlain["SET_FONT_FALSE_BOLD_WIDTH"] = <<"SetFontFalseBoldWidth", F>>
      BY PlainTable, HeardTable
    <3> QED  BY <2>26, <3>1 DEF PlainWords
  <2>27. CASE m = "MovePenBy"
    <3>1. WrittenPlain["MovePenBy"] = <<"MOVE_PEN_BY", F \o F>> /\ HeardPlain["MOVE_PEN_BY"] = <<"MovePenBy", F \o F>>
      BY PlainTable, HeardTable
    <3> QED  BY <2>27, <3>1 DEF PlainWords
  <2>28. CASE m = "TranslateBy"
    <3>1. WrittenPlain["TranslateBy"] = <<"AFFINE_TRANSLATE", D \o D>> /\ HeardPlain["AFFINE_TRANSLATE"] = <<"TranslateBy", D \o D>>
      BY PlainTable, HeardTable
    <3> QED  BY <2>28, <3>1 DEF PlainWords
  <2>29. CASE m = "ScaleBy"
    <3>1. WrittenPlain["ScaleBy"] = <<"AFFINE_SCALE", D \o D>> /\ HeardPlain["AFFINE_SCALE"] = <<"ScaleBy", D \o D>>
      BY PlainTable, HeardTable
    <3> QED  BY <2>29, <3>1 DEF PlainWords
  <2>30. CASE m = "RotateBy"
    <3>1. WrittenPlain["RotateBy"] = <<"AFFINE_ROTATE", D>> /\ HeardPlain["AFFINE_ROTATE"] = <<"RotateBy", D>>
      BY PlainTable, HeardTable
    <3> QED  BY <2>30, <3>1 DEF PlainWords
  <2>31. CASE m = "DrawPicture"
    <3>1. WrittenPlain["DrawPicture"] = <<"DRAW_PICTURE", Point \o I>> /\ HeardPlain["DRAW_PICTURE"] = <<"DrawPicture", Point \o I>>
      BY PlainTable, HeardTable
    <3> QED  BY <2>31, <3>1 DEF PlainWords
  <2> QED  BY <2>1, <2>2, <2>3, <2>4, <2>5, <2>6, <2>7, <2>8, <2>9, <2>10, <2>11, <2>12, <2>13, <2>14, <2>15, <2>16, <2>17, <2>18, <2>19, <2>20, <2>21, <2>22, <2>23, <2>24, <2>25, <2>26, <2>27, <2>28, <2>29, <2>30, <2>31, PlainTable
<1>2. WrittenPlain[m][2] \in Seq(Types)
  BY PlainTypes
<1> QED  BY <1>1, <1>2

LEMMA FigureOpsFacts ==
  /\ FigureOps \subseteq FigureWords
  /\ \A m \in FigureNames, k \in 1..4 : Figures[m][k] \in FigureOps
<1>1. \A op : op \in FigureOps <=> \E m \in FigureNames, k \in 1..4 : op = Figures[m][k]
  BY NameFacts DEF FigureOps
<1> QED  BY <1>1, FigureWord

\* What the reader makes of what was written for a call.
ReadBack(f, p, c) ==
    /\ Opcode(c) \in KnownOps
    /\ Dump(f, p, Opcode(c), Len(Payload(c)))[1] = c
    /\ Agrees(f, p, Dump(f, p, Opcode(c), Len(Payload(c)))[2])
    /\ Len(Dump(f, p, Opcode(c), Len(Payload(c)))[2]) = Len(Payload(c))

LEMMA PlainDump ==
  ASSUME NEW f, NEW p \in Nat, Len(f) \in Nat, NEW c \in Flat \cup States, c.m \in PlainNames, Stored(f, p, Payload(c))
  PROVE  /\ ReadBack(f, p, c) /\ Opcode(c) \in PlainWords
         /\ Opcode(c) \in {"PUSH_STATE", "POP_STATE"} => c \in States
<1>1. c.m \notin DOMAIN Figures /\ c.m \in DOMAIN WrittenPlain /\ c.m \notin CountedNames /\ c.m \notin DOMAIN WrittenCounted
  BY NameFacts DEF PlainNames
<1> PICK w \in PlainWords, types \in Seq(Types) :
        /\ WrittenPlain[c.m] = <<w, types>> /\ HeardPlain[w] = <<c.m, types>>
        /\ (w \in {"PUSH_STATE", "POP_STATE"} <=> c.m \in {"PushState", "PopState"})
  BY PlainReads
<1>2. Opcode(c) = w
  <2>1. Opcode(c) = WrittenPlain[c.m][1]
    BY <1>1 DEF Opcode
  <2> QED  BY <2>1
<1>3. Payload(c) = Data(types)
  BY <1>1 DEF Payload, CountedNames
<1>4. c = Call(c.m)
  <2>1. c.m \notin FigureNames
    BY <1>1, NameFacts
  <2>2. c.n = 0 /\ c.gradient = 0 /\ c = [m |-> c.m, n |-> c.n, stroke |-> c.stroke, gradient |-> c.gradient]
    BY <2>1, OperationFacts
  <2>3. c.stroke = FALSE
    BY <2>1, OperationFacts
  <2> QED  BY <2>2, <2>3 DEF Call
<1>5. w \notin FigureOps /\ w \in DOMAIN HeardPlain /\ w \notin CountedOps
  BY FigureOpsFacts, WordFacts, HeardTable
<1> PICK size : size = Len(Payload(c))
  OBVIOUS
<1>6. Dump(f, p, w, size) = <<Call(c.m), types>>
  BY <1>5 DEF Dump
<1>7. Agrees(f, p, types)
  <2>1. Data(types) \in Seq(FileCells) /\ TypesOf(Data(types)) = types
    BY DataFacts, TypesOfData
  <2> PICK d \in Seq(FileCells) : d = Data(types)
    BY <2>1
  <2>2. Agrees(f, p, TypesOf(d))
    BY <1>3, StoredAgrees
  <2> QED  BY <2>1, <2>2
<1>a. Len(types) = Len(Payload(c))
  BY <1>3, DataFacts
<1>8. ReadBack(f, p, c)
  BY <1>2, <1>4, <1>5, <1>6, <1>7, <1>a DEF ReadBack, KnownOps
<1>9. w \in {"PUSH_STATE", "POP_STATE"} => c \in States
  BY <1>4 DEF States
<1> QED  BY <1>2, <1>8, <1>9

LEMMA FigureDump ==
  ASSUME NEW f, NEW p \in Nat, Len(f) \in Nat, NEW c \in Flat \cup States, c.m \in FigureNames, Stored(f, p, Payload(c))
  PROVE  ReadBack(f, p, c) /\ Opcode(c) \in FigureWords
<1>0. /\ c.n \in Nat /\ c.gradient \in {0} \cup Gradients /\ (c.m = "DrawLine" => c.stroke) /\ c.stroke \in BOOLEAN
      /\ c = [m |-> c.m, n |-> c.n, stroke |-> c.stroke, gradient |-> c.gradient]
      /\ (c.n = 0 \/ c.gradient # 0 \/ c.m \in {"DrawPolygon", "DrawShape"})
  <2>1. c.m \notin CountedNames
    BY NameFacts
  <2> QED  BY <2>1, OperationFacts
<1>1. c.m \in DOMAIN Figures /\ c.m \notin DOMAIN WrittenPlain /\ c.m \notin CountedNames /\ c.m \notin DOMAIN WrittenCounted
  BY NameFacts DEF PlainNames
<1> DEFINE k == (IF c.stroke THEN 1 ELSE 2) + (IF c.gradient = 0 THEN 0 ELSE 2)
<1>2. k \in 1..4 /\ (c.stroke => k \in {1, 3}) /\ (~c.stroke => k \in {2, 4}) /\ (c.gradient = 0 => k \in {1, 2}) /\ (c.gradient # 0 => k \in {3, 4})
  OBVIOUS
<1> PICK op : op = Figures[c.m][k]
  OBVIOUS
<1>3. Opcode(c) = op
  BY <1>1 DEF Opcode
<1> HIDE DEF k
<1>4. op \in FigureOps /\ op \in FigureWords
  BY <1>2, FigureOpsFacts, FigureWord
<1>5. (CHOOSE m \in DOMAIN Figures : \E j \in 1..4 : Figures[m][j] = op) = c.m
  <2>1. \A m \in DOMAIN Figures : (\E j \in 1..4 : Figures[m][j] = op) => m = c.m
    BY <1>2, NameFacts, FigureUnique
  <2>2. \E j \in 1..4 : Figures[c.m][j] = op
    BY <1>2
  <2> QED  BY <1>1, <2>1, <2>2
<1> DEFINE strokes == op \in {Figures[c.m][1], Figures[c.m][3]}
<1>6. strokes = c.stroke
  <2>1. CASE c.stroke = TRUE
    <3>1. op \in {Figures[c.m][1], Figures[c.m][3]}
      BY <2>1, <1>2
    <3> QED  BY <3>1, <2>1
  <2>2. CASE c.stroke = FALSE
    <3>1. c.m # "DrawLine"
      BY <2>2, <1>0
    <3>2. op \in {Figures[c.m][2], Figures[c.m][4]}
      BY <2>2, <1>2
    <3>3. op \notin {Figures[c.m][1], Figures[c.m][3]}
      BY <3>1, <3>2, FigureRow
    <3>4. strokes = FALSE
      BY <3>3
    <3> QED  BY <3>4, <2>2
  <2> QED  BY <2>1, <2>2, <1>0
<1>7. op \in {Figures[c.m][3], Figures[c.m][4]} <=> c.gradient # 0
  <2>1. CASE c.gradient = 0
    <3>1. op \in {Figures[c.m][1], Figures[c.m][2]}
      BY <2>1, <1>2
    <3> QED  BY <2>1, <3>1, FigureRow
  <2>2. CASE c.gradient # 0
    BY <2>2, <1>2
  <2> QED  BY <2>1, <2>2
<1> DEFINE figure == FigureRead(f, p, c.m, c.stroke)
<1> DEFINE behind == p + Len(figure)
<1> DEFINE drawn == [m |-> c.m, n |-> IF c.m \in {"DrawPolygon", "DrawShape"} THEN At32(f, p) ELSE 0, stroke |-> c.stroke, gradient |-> 0]
<1>8. DumpFigure(f, p, op) =
        IF op \in {Figures[c.m][3], Figures[c.m][4]}
        THEN <<[m |-> c.m, n |-> At32(f, behind + 1), stroke |-> c.stroke, gradient |-> At32(f, behind)], figure \o GradientRead(f, behind)>>
        ELSE <<drawn, figure>>
  <2> DEFINE w == CHOOSE m \in DOMAIN Figures : \E j \in 1..4 : Figures[m][j] = op
  <2> DEFINE Made(m, stroke) ==
        LET fig == FigureRead(f, p, m, stroke)
            after == p + Len(fig)
            drew == [m |-> m, n |-> IF m \in {"DrawPolygon", "DrawShape"} THEN At32(f, p) ELSE 0, stroke |-> stroke, gradient |-> 0]
        IN  IF op \in {Figures[m][3], Figures[m][4]}
            THEN <<[m |-> m, n |-> At32(f, after + 1), stroke |-> stroke, gradient |-> At32(f, after)], fig \o GradientRead(f, after)>>
            ELSE <<drew, fig>>
  <2>1. DumpFigure(f, p, op) = Made(w, op \in {Figures[w][1], Figures[w][3]})
    BY DEF DumpFigure
  <2>2. w = c.m
    BY <1>5
  <2> HIDE DEF w, Made
  <2>3. (op \in {Figures[w][1], Figures[w][3]}) = c.stroke
    BY <2>2, <1>6
  <2>4. DumpFigure(f, p, op) = Made(c.m, c.stroke)
    BY <2>1, <2>2, <2>3
  <2> QED  BY <2>4 DEF Made
<1>10. Figure(c) \in Seq(FileCells) /\ Gradient(c.gradient, c.n) \in Seq(FileCells)
  BY <1>0, FigureCells, PartCells
<1> PICK g \in Seq(FileCells) : g = Figure(c)
  BY <1>10
<1> PICK h \in Seq(FileCells) : h = Gradient(c.gradient, c.n)
  BY <1>10
<1>9. Payload(c) = g \o h
  BY <1>1 DEF Payload, CountedNames
<1>a. Stored(f, p, g \o h)
  BY <1>9
<1>11. Stored(f, p, g) /\ Stored(f, p + Len(g), h) /\ Len(g) \in Nat
  BY ONLY <1>a, p \in Nat, g \in Seq(FileCells), h \in Seq(FileCells), Len(f) \in Nat, StoredParts
<1>12. Stored(f, p, Figure(c))
  BY <1>11
<1>13. figure = TypesOf(g) /\ (c.m \in {"DrawPolygon", "DrawShape"} => At32(f, p) = c.n)
  BY <1>12, FigureReads
<1>14. Len(figure) = Len(g)
  BY <1>10, <1>13, TypesOfJoin
<1> PICK b \in Nat : b = p + Len(g)
  BY <1>11
<1>15. behind = b
  BY <1>14
<1> PICK size : size = Len(Payload(c))
  OBVIOUS
<1>16. Dump(f, p, op, size) = DumpFigure(f, p, op)
  <2>1. op \notin DOMAIN HeardPlain /\ op \notin CountedOps
    BY <1>4, WordFacts, HeardTable
  <2> QED  BY <2>1, <1>4 DEF Dump
<1> HIDE DEF figure, behind, strokes
<1>17. CASE c.gradient = 0
  <2>1. drawn = c
    <3>1. drawn.n = c.n
      BY <1>0, <1>13, <1>17
    <3> QED  BY <3>1, <1>0, <1>17
  <2>2. DumpFigure(f, p, op) = <<drawn, figure>>
    BY <1>7, <1>8, <1>17
  <2>3. Agrees(f, p, TypesOf(g))
    BY <1>10, <1>11, StoredAgrees
  <2> HIDE DEF drawn
  <2>4. Payload(c) = g
    <3>1. h = <<>>
      BY <1>17 DEF Gradient
    <3>2. g \o <<>> = g
      BY ONLY g \in Seq(FileCells), JoinAll
    <3> QED  BY <3>1, <3>2, <1>9
  <2>5. Len(figure) = Len(Payload(c))
    BY <2>4, <1>14
  <2> QED  BY <2>1, <2>2, <2>3, <2>5, <1>3, <1>4, <1>13, <1>16 DEF ReadBack, KnownOps
<1>18. CASE c.gradient # 0
  <2> PICK e \in Gradients : e = c.gradient
    BY <1>0, <1>18
  <2> PICK n \in Nat : n = c.n
    BY <1>0
  <2>1. Stored(f, b, Gradient(e, n))
    BY <1>11
  <2>2. GradientRead(f, b) = TypesOf(h) /\ At32(f, b) = e /\ At32(f, b + 1) = n
    BY <2>1, GradientReads
  <2> DEFINE made == [m |-> c.m, n |-> At32(f, behind + 1), stroke |-> c.stroke, gradient |-> At32(f, behind)]
  <2>3. made = c
    <3>1. made = [m |-> c.m, n |-> n, stroke |-> c.stroke, gradient |-> e]
      BY <1>15, <2>2
    <3> QED  BY <3>1, <1>0
  <2>4. DumpFigure(f, p, op) = <<made, figure \o GradientRead(f, behind)>>
    BY <1>7, <1>8, <1>18
  <2>5. Agrees(f, p, TypesOf(g) \o TypesOf(h))
    <3>1. TypesOf(g \o h) = TypesOf(g) \o TypesOf(h)
      BY <1>10, TypesOfJoin
    <3> PICK s \in Seq(FileCells) : s = g \o h
      BY <1>10, JoinTypes
    <3>2. Agrees(f, p, TypesOf(s))
      BY <1>a, StoredAgrees
    <3> QED  BY <3>1, <3>2
  <2> HIDE DEF made, drawn
  <2>6. figure \o GradientRead(f, behind) = TypesOf(g) \o TypesOf(h)
    BY <2>2, <1>13, <1>15
  <2> PICK types : types = TypesOf(g) \o TypesOf(h)
    OBVIOUS
  <2>9. Len(types) = Len(Payload(c))
    <3>1. TypesOf(g \o h) = TypesOf(g) \o TypesOf(h)
      BY <1>10, TypesOfJoin
    <3> PICK s \in Seq(FileCells) : s = g \o h
      BY <1>10, JoinTypes
    <3>2. Len(TypesOf(s)) = Len(s)
      BY ONLY s \in Seq(FileCells), TypesOfJoin
    <3> QED  BY <3>1, <3>2, <1>9
  <2>7. Dump(f, p, Opcode(c), Len(Payload(c))) = <<c, types>>
    BY <2>3, <2>4, <2>6, <1>3, <1>16
  <2>8. Agrees(f, p, types)
    BY <2>5
  <2> QED  BY <2>7, <2>8, <2>9, <1>3, <1>4 DEF ReadBack, KnownOps
<1> QED  BY <1>3, <1>4, <1>17, <1>18

LEMMA CountedTable ==
  /\ WrittenCounted["SetClipping"] = "SET_CLIPPING_RECTS" /\ WrittenCounted["ClipToShape"] = "CLIP_TO_SHAPE"
  /\ WrittenCounted["SetFontFamily"] = "SET_FONT_FAMILY" /\ WrittenCounted["SetFontStyle"] = "SET_FONT_STYLE"
  /\ WrittenCounted["DrawString"] = "DRAW_STRING" /\ WrittenCounted["DrawStringAt"] = "DRAW_STRING_LOCATIONS"
  /\ WrittenCounted["DrawBitmap"] = "DRAW_PIXELS"
BY DEF WrittenCounted

LEMMA ListedFields ==
  ASSUME NEW m, NEW n
  PROVE  Listed(m, n) = [m |-> m, n |-> n, stroke |-> FALSE, gradient |-> 0]
BY DEF Listed

LEMMA CountedRead ==
  ASSUME NEW f, NEW p, NEW size
  PROVE
  /\ DumpCounted(f, p, "SET_CLIPPING_RECTS", size) =
       <<Listed("SetClipping", IF size \div 4 >= 2 THEN size \div 4 - 1 ELSE 0), Many("int32", 4 * (size \div 4))>>
  /\ DumpCounted(f, p, "CLIP_TO_SHAPE", size) = <<Listed("ClipToShape", At32(f, p + 1)), B \o ShapeRead(f, p + 1)>>
  /\ DumpCounted(f, p, "SET_FONT_FAMILY", size) = <<Listed("SetFontFamily", At32(f, p) - 1), TextRead(f, p)>>
  /\ DumpCounted(f, p, "SET_FONT_STYLE", size) = <<Listed("SetFontStyle", At32(f, p) - 1), TextRead(f, p)>>
  /\ DumpCounted(f, p, "DRAW_STRING", size) = <<Listed("DrawString", At32(f, p)), TextRead(f, p) \o F \o F>>
  /\ DumpCounted(f, p, "DRAW_STRING_LOCATIONS", size) =
       <<Listed("DrawStringAt", At32(f, p)), (I \o Many("float", 2 * At32(f, p))) \o TextRead(f, p + Len(I \o Many("float", 2 * At32(f, p))))>>
  /\ DumpCounted(f, p, "DRAW_PIXELS", size) =
       <<Listed("DrawBitmap", At32(f, p + 13)), Rect \o Rect \o Many("int32", 6) \o Many("int8", At32(f, p + 13))>>
<1>1. DumpCounted(f, p, "SET_CLIPPING_RECTS", size) =
       <<Listed("SetClipping", IF size \div 4 >= 2 THEN size \div 4 - 1 ELSE 0), Many("int32", 4 * (size \div 4))>>
  BY DEF DumpCounted
<1>2. DumpCounted(f, p, "CLIP_TO_SHAPE", size) = <<Listed("ClipToShape", At32(f, p + 1)), B \o ShapeRead(f, p + 1)>>
  BY DEF DumpCounted
<1>3. DumpCounted(f, p, "SET_FONT_FAMILY", size) = <<Listed("SetFontFamily", At32(f, p) - 1), TextRead(f, p)>>
  BY DEF DumpCounted
<1>4. DumpCounted(f, p, "SET_FONT_STYLE", size) = <<Listed("SetFontStyle", At32(f, p) - 1), TextRead(f, p)>>
  BY DEF DumpCounted
<1>5. DumpCounted(f, p, "DRAW_STRING", size) = <<Listed("DrawString", At32(f, p)), TextRead(f, p) \o F \o F>>
  BY DEF DumpCounted
<1>6. DumpCounted(f, p, "DRAW_STRING_LOCATIONS", size) =
       <<Listed("DrawStringAt", At32(f, p)), (I \o Many("float", 2 * At32(f, p))) \o TextRead(f, p + Len(I \o Many("float", 2 * At32(f, p))))>>
  BY DEF DumpCounted
<1>7. DumpCounted(f, p, "DRAW_PIXELS", size) =
       <<Listed("DrawBitmap", At32(f, p + 13)), Rect \o Rect \o Many("int32", 6) \o Many("int8", At32(f, p + 13))>>
  BY DEF DumpCounted
<1> QED  BY <1>1, <1>2, <1>3, <1>4, <1>5, <1>6, <1>7

LEMMA CountedCode ==
  ASSUME NEW c, c.m \in CountedNames
  PROVE  /\ Opcode(c) = WrittenCounted[c.m] /\ Opcode(c) \in CountedWords
         /\ \A f, p, size : Dump(f, p, Opcode(c), size) = DumpCounted(f, p, Opcode(c), size)
<1>1. c.m \notin DOMAIN Figures /\ c.m \notin DOMAIN WrittenPlain /\ c.m \in DOMAIN WrittenCounted
  BY NameFacts DEF PlainNames
<1>2. Opcode(c) = WrittenCounted[c.m]
  BY <1>1 DEF Opcode
<1>3. Opcode(c) \in CountedWords
  BY <1>2, CountedTable DEF CountedNames, CountedWords
<1> PICK w \in CountedWords : w = Opcode(c)
  BY <1>3
<1>4. w \notin FigureOps /\ w \notin DOMAIN HeardPlain /\ w \in CountedOps
  BY FigureOpsFacts, WordFacts, HeardTable
<1>5. \A f, p, size : Dump(f, p, w, size) = DumpCounted(f, p, w, size)
  BY <1>4 DEF Dump
<1> QED  BY <1>2, <1>3, <1>5

\* What is read for a call is the call, and the types of what is written for it.
LEMMA CountedReads ==
  ASSUME NEW f, NEW p \in Nat, Len(f) \in Nat, NEW c \in Flat \cup States, c.m \in CountedNames,
         Stored(f, p, Payload(c)), NEW g \in Seq(FileCells), g = Payload(c),
         DumpCounted(f, p, Opcode(c), Len(g)) = <<Listed(c.m, c.n), TypesOf(g)>>
  PROVE  ReadBack(f, p, c)
<1>1. c = Listed(c.m, c.n)
  <2>1. c.m \notin FigureNames
    BY NameFacts
  <2>2. c.stroke = FALSE
    BY <2>1, OperationFacts
  <2>3. c.gradient = 0
    BY <2>1, OperationFacts
  <2>4. c = [m |-> c.m, n |-> c.n, stroke |-> c.stroke, gradient |-> c.gradient]
    BY OperationFacts
  <2> QED  BY <2>2, <2>3, <2>4 DEF Listed
<1>2. Dump(f, p, Opcode(c), Len(Payload(c))) = <<c, TypesOf(g)>>
  BY <1>1, CountedCode
<1>3. Agrees(f, p, TypesOf(g))
  BY StoredAgrees
<1>4. Opcode(c) \in KnownOps
  BY CountedCode, WordFacts DEF KnownOps
<1> PICK d : d = Dump(f, p, Opcode(c), Len(Payload(c)))
  OBVIOUS
<1>5. d[1] = c /\ d[2] = TypesOf(g)
  BY <1>2
<1>6. Len(TypesOf(g)) = Len(Payload(c))
  <2>1. Len(TypesOf(g)) = Len(g)
    BY ONLY g \in Seq(FileCells), TypesOfJoin
  <2> QED  BY <2>1
<1> QED  BY <1>3, <1>4, <1>5, <1>6 DEF ReadBack

\* A count that is stored.
LEMMA NumberCells ==
  ASSUME NEW n \in Nat
  PROVE  \E k \in Seq(FileCells) : k = <<Int32(n)>> /\ TypesOf(k) = I /\ Len(k) = 1
<1>1. <<Int32(n)>> \in Seq(FileCells) /\ Len(<<Int32(n)>>) = 1
  BY Counts32
<1> QED  BY <1>1, TypesOfNumber

LEMMA DataCells ==
  ASSUME NEW types \in Seq(Types)
  PROVE  \E d \in Seq(FileCells) : d = Data(types) /\ TypesOf(d) = types /\ Len(d) = Len(types)
BY DataFacts, TypesOfData

LEMMA ManyTypes ==
  ASSUME NEW k \in Nat
  PROVE  /\ \E s \in Seq(Types) : s = Many("float", k) /\ Len(s) = k
         /\ \E s \in Seq(Types) : s = Many("int8", k) /\ Len(s) = k
         /\ \E s \in Seq(Types) : s = Many("int32", k) /\ Len(s) = k
BY ManyFacts, ManyNames

LEMMA ClippingReads ==
  ASSUME NEW f, NEW p \in Nat, Len(f) \in Nat, NEW c \in Flat \cup States, c.m = "SetClipping", Stored(f, p, Payload(c))
  PROVE  ReadBack(f, p, c)
<1> PICK n \in Nat : n = c.n
  BY OperationFacts
<1> PICK k \in Nat : k = 4 * (n + 1)
  <2>1. 4 * (n + 1) \in Nat
    OBVIOUS
  <2> QED  BY <2>1
<1> PICK a \in Seq(Types) : a = Many("int32", k) /\ Len(a) = k
  BY ManyTypes
<1> PICK d \in Seq(FileCells) : d = Data(a) /\ TypesOf(d) = a /\ Len(d) = k
  BY DataCells
<1>1. Payload(c) = d
  <2>1. c.m \notin DOMAIN Figures /\ c.m \notin DOMAIN WrittenPlain
    BY NameFacts DEF PlainNames, CountedNames
  <2> QED  BY <2>1 DEF Payload
<1>2. k \div 4 = n + 1
  OBVIOUS
<1>3. (IF k \div 4 >= 2 THEN k \div 4 - 1 ELSE 0) = n /\ 4 * (k \div 4) = k
  BY <1>2
<1>4. DumpCounted(f, p, "SET_CLIPPING_RECTS", k) = <<Listed("SetClipping", n), a>>
  BY <1>3, CountedRead
<1>5. Opcode(c) = "SET_CLIPPING_RECTS" /\ c.m \in CountedNames
  BY CountedCode, CountedTable DEF CountedNames
<1>6. DumpCounted(f, p, Opcode(c), Len(d)) = <<Listed(c.m, c.n), TypesOf(d)>>
  BY <1>4, <1>5
<1> QED  BY <1>1, <1>5, <1>6, CountedReads

LEMMA ToShapeReads ==
  ASSUME NEW f, NEW p \in Nat, Len(f) \in Nat, NEW c \in Flat \cup States, c.m = "ClipToShape", Stored(f, p, Payload(c))
  PROVE  ReadBack(f, p, c)
<1> PICK n \in Nat : n = c.n
  BY OperationFacts
<1> PICK b \in Seq(Types) : b = B /\ Len(b) = 1
  BY FewTypes DEF B
<1> PICK d \in Seq(FileCells) : d = Data(b) /\ TypesOf(d) = b /\ Len(d) = 1
  BY DataCells
<1> PICK h \in Seq(FileCells) : h = Shape(n)
  BY PartCells
<1> PICK g \in Seq(FileCells) : g = d \o h
  BY JoinTypes
<1>1. Payload(c) = g
  <2>1. c.m \notin DOMAIN Figures /\ c.m \notin DOMAIN WrittenPlain
    BY NameFacts DEF PlainNames, CountedNames
  <2> QED  BY <2>1 DEF Payload
<1>2. Stored(f, p, d \o h)
  BY <1>1
<1> PICK r \in Nat : r = p + 1
  OBVIOUS
<1>3. Stored(f, r, h)
  BY <1>2, StoredParts
<1>4. ShapeRead(f, r) = TypesOf(h) /\ At32(f, r) = n
  BY <1>3, ShapeReads
<1>5. TypesOf(g) = B \o ShapeRead(f, r)
  <2>1. TypesOf(d \o h) = TypesOf(d) \o TypesOf(h)
    BY TypesOfJoin
  <2> QED  BY <2>1, <1>4
<1> PICK size : size = Len(g)
  OBVIOUS
<1>6. DumpCounted(f, p, "CLIP_TO_SHAPE", size) = <<Listed("ClipToShape", At32(f, r)), B \o ShapeRead(f, r)>>
  BY CountedRead
<1>7. Opcode(c) = "CLIP_TO_SHAPE" /\ c.m \in CountedNames
  BY CountedCode, CountedTable DEF CountedNames
<1>8. DumpCounted(f, p, Opcode(c), Len(g)) = <<Listed(c.m, c.n), TypesOf(g)>>
  BY <1>4, <1>5, <1>6, <1>7
<1> QED  BY <1>1, <1>7, <1>8, CountedReads

LEMMA FontReads ==
  ASSUME NEW f, NEW p \in Nat, Len(f) \in Nat, NEW c \in Flat \cup States, c.m \in {"SetFontFamily", "SetFontStyle"}, Stored(f, p, Payload(c))
  PROVE  ReadBack(f, p, c)
<1> PICK n \in Nat : n = c.n
  BY OperationFacts
<1> PICK k \in Nat : k = n + 1
  OBVIOUS
<1> PICK g \in Seq(FileCells) : g = Text(k)
  BY PartCells
<1>1. Payload(c) = g
  <2>1. c.m \notin DOMAIN Figures /\ c.m \notin DOMAIN WrittenPlain
    BY NameFacts DEF PlainNames, CountedNames
  <2> QED  BY <2>1 DEF Payload
<1>2. TextRead(f, p) = TypesOf(g) /\ At32(f, p) = k
  BY <1>1, TextReads
<1>3. At32(f, p) - 1 = n
  BY <1>2
<1> PICK size : size = Len(g)
  OBVIOUS
<1>4. /\ DumpCounted(f, p, "SET_FONT_FAMILY", size) = <<Listed("SetFontFamily", n), TypesOf(g)>>
      /\ DumpCounted(f, p, "SET_FONT_STYLE", size) = <<Listed("SetFontStyle", n), TypesOf(g)>>
  BY <1>2, <1>3, CountedRead
<1>5. c.m \in CountedNames /\ (c.m = "SetFontFamily" => Opcode(c) = "SET_FONT_FAMILY") /\ (c.m = "SetFontStyle" => Opcode(c) = "SET_FONT_STYLE")
  BY CountedCode, CountedTable DEF CountedNames
<1>6. DumpCounted(f, p, Opcode(c), Len(g)) = <<Listed(c.m, c.n), TypesOf(g)>>
  BY <1>4, <1>5
<1> QED  BY <1>1, <1>5, <1>6, CountedReads

LEMMA StringReads ==
  ASSUME NEW f, NEW p \in Nat, Len(f) \in Nat, NEW c \in Flat \cup States, c.m = "DrawString", Stored(f, p, Payload(c))
  PROVE  ReadBack(f, p, c)
<1> PICK n \in Nat : n = c.n
  BY OperationFacts
<1> PICK h \in Seq(FileCells) : h = Text(n)
  BY PartCells
<1> PICK o \in Seq(Types) : o = F
  BY FewTypes
<1> PICK oo \in Seq(Types) : oo = o \o o
  BY JoinTypes
<1> PICK d \in Seq(FileCells) : d = Data(oo) /\ TypesOf(d) = oo
  BY DataCells
<1> PICK g \in Seq(FileCells) : g = h \o d
  BY JoinTypes
<1>1. Payload(c) = g
  <2>1. c.m \notin DOMAIN Figures /\ c.m \notin DOMAIN WrittenPlain
    BY NameFacts DEF PlainNames, CountedNames
  <2> QED  BY <2>1 DEF Payload
<1>2. Stored(f, p, h \o d)
  BY <1>1
<1>3. Stored(f, p, h)
  BY <1>2, StoredParts
<1>4. TextRead(f, p) = TypesOf(h) /\ At32(f, p) = n
  BY <1>3, TextReads
<1> PICK x \in Seq(Types) : x = TypesOf(h)
  BY TypesOfJoin
<1>5. (x \o o) \o o = x \o (o \o o)
  BY ONLY x \in Seq(Types), o \in Seq(Types)
<1>6. TypesOf(g) = (x \o o) \o o
  <2>1. TypesOf(h \o d) = TypesOf(h) \o TypesOf(d)
    BY TypesOfJoin
  <2> QED  BY <2>1, <1>5
<1> PICK size : size = Len(g)
  OBVIOUS
<1>7. DumpCounted(f, p, "DRAW_STRING", size) = <<Listed("DrawString", n), (x \o o) \o o>>
  <2>1. DumpCounted(f, p, "DRAW_STRING", size) = <<Listed("DrawString", At32(f, p)), TextRead(f, p) \o F \o F>>
    BY CountedRead
  <2> QED  BY <2>1, <1>4
<1>8. Opcode(c) = "DRAW_STRING" /\ c.m \in CountedNames
  BY CountedCode, CountedTable DEF CountedNames
<1>9. DumpCounted(f, p, Opcode(c), Len(g)) = <<Listed(c.m, c.n), TypesOf(g)>>
  BY <1>6, <1>7, <1>8
<1> QED  BY <1>1, <1>8, <1>9, CountedReads

LEMMA StringAtReads ==
  ASSUME NEW f, NEW p \in Nat, Len(f) \in Nat, NEW c \in Flat \cup States, c.m = "DrawStringAt", Stored(f, p, Payload(c))
  PROVE  ReadBack(f, p, c)
<1> PICK n \in Nat : n = c.n
  BY OperationFacts
<1> PICK t \in Nat : t = 2 * n
  OBVIOUS
<1> PICK k \in Seq(FileCells) : k = <<Int32(n)>> /\ TypesOf(k) = I /\ Len(k) = 1
  BY NumberCells
<1> PICK a \in Seq(Types) : a = Many("float", t) /\ Len(a) = t
  BY ManyTypes
<1> PICK d \in Seq(FileCells) : d = Data(a) /\ TypesOf(d) = a /\ Len(d) = t
  BY DataCells
<1> PICK h \in Seq(FileCells) : h = Text(n)
  BY PartCells
<1> PICK kd \in Seq(FileCells) : kd = k \o d
  BY JoinTypes
<1> PICK g \in Seq(FileCells) : g = kd \o h
  BY JoinTypes
<1>1. Payload(c) = g
  <2>1. c.m \notin DOMAIN Figures /\ c.m \notin DOMAIN WrittenPlain
    BY NameFacts DEF PlainNames, CountedNames
  <2>2. Payload(c) = (k \o d) \o h
    BY <2>1 DEF Payload
  <2> QED  BY <2>2
<1>2. Stored(f, p, kd \o h)
  BY <1>1
<1>3. Stored(f, p, kd) /\ Stored(f, p + Len(kd), h) /\ Len(kd) \in Nat
  BY <1>2, StoredParts
<1> PICK r \in Nat : r = p + Len(kd)
  BY <1>3
<1>4. Stored(f, r, h)
  BY <1>3
<1>5. Stored(f, p, k \o d)
  BY <1>3
<1>6. Stored(f, p, k)
  BY <1>5, StoredParts
<1>7. At32(f, p) = n
  BY <1>6, StoredNumber
<1>8. TextRead(f, r) = TypesOf(h)
  BY <1>4, TextReads
<1>9. TypesOf(kd) = I \o a /\ Len(I \o a) = Len(kd)
  <2>1. TypesOf(k \o d) = TypesOf(k) \o TypesOf(d)
    BY ONLY k \in Seq(FileCells), d \in Seq(FileCells), TypesOfJoin
  <2>2. Len(TypesOf(kd)) = Len(kd)
    BY TypesOfJoin
  <2> QED  BY <2>1, <2>2
<1>10. TypesOf(g) = (I \o a) \o TextRead(f, r)
  <2>1. TypesOf(kd \o h) = TypesOf(kd) \o TypesOf(h)
    BY ONLY kd \in Seq(FileCells), h \in Seq(FileCells), TypesOfJoin
  <2> QED  BY <2>1, <1>8, <1>9
<1> PICK size : size = Len(g)
  OBVIOUS
<1>11. DumpCounted(f, p, "DRAW_STRING_LOCATIONS", size) = <<Listed("DrawStringAt", n), (I \o a) \o TextRead(f, p + Len(I \o a))>>
  <2>1. DumpCounted(f, p, "DRAW_STRING_LOCATIONS", size) =
       <<Listed("DrawStringAt", At32(f, p)), (I \o Many("float", 2 * At32(f, p))) \o TextRead(f, p + Len(I \o Many("float", 2 * At32(f, p))))>>
    BY CountedRead
  <2> QED  BY <2>1, <1>7
<1>12. Opcode(c) = "DRAW_STRING_LOCATIONS" /\ c.m \in CountedNames
  BY CountedCode, CountedTable DEF CountedNames
<1>13. DumpCounted(f, p, Opcode(c), Len(g)) = <<Listed(c.m, c.n), TypesOf(g)>>
  BY <1>9, <1>10, <1>11, <1>12
<1> QED  BY <1>1, <1>12, <1>13, CountedReads

LEMMA BitmapTypes ==
  /\ Rect \o Rect \o Many("int32", 5) \in Seq(Types) /\ Len(Rect \o Rect \o Many("int32", 5)) = 13
  /\ (Rect \o Rect \o Many("int32", 5)) \o I = Rect \o Rect \o Many("int32", 6)
<1> PICK a \in Seq(Types) : a = Rect /\ Len(a) = 4
  <2> PICK four \in Nat : four = 4
    OBVIOUS
  <2> PICK s \in Seq(Types) : s = Many("float", four) /\ Len(s) = four
    BY ManyTypes
  <2> QED  BY ManyNames
<1> PICK b \in Seq(Types) : b = Many("int32", 5) /\ Len(b) = 5
  BY ManyTypes
<1> PICK i \in Seq(Types) : i = I
  BY FewTypes
<1> PICK aa \in Seq(Types) : aa = a \o a /\ Len(aa) = 8
  <2>1. a \o a \in Seq(Types) /\ Len(a \o a) = Len(a) + Len(a)
    BY ONLY a \in Seq(Types), JoinTypes, GrowFacts
  <2> PICK s, n : s = a \o a /\ n = Len(s)
    OBVIOUS
  <2>2. n = 8
    <3>1. n = Len(a) + Len(a)
      BY <2>1
    <3> QED  BY ONLY <3>1, Len(a) = 4
  <2> QED  BY <2>1, <2>2
<1>1. aa \o b \in Seq(Types) /\ Len(aa \o b) = 13
  <2>1. aa \o b \in Seq(Types) /\ Len(aa \o b) = Len(aa) + Len(b)
    BY ONLY aa \in Seq(Types), b \in Seq(Types), JoinTypes, GrowFacts
  <2> PICK s, n : s = aa \o b /\ n = Len(s)
    OBVIOUS
  <2>2. n = 13
    <3>1. n = Len(aa) + Len(b)
      BY <2>1
    <3> QED  BY ONLY <3>1, Len(aa) = 8, Len(b) = 5
  <2> QED  BY <2>1, <2>2
<1>2. (aa \o b) \o i = aa \o (b \o i)
  BY ONLY aa \in Seq(Types), b \in Seq(Types), i \in Seq(Types)
<1>3. b \o i = Many("int32", 6)
  <2> PICK five \in Nat, one \in Nat : five = 5 /\ one = 1
    OBVIOUS
  <2>1. Many("int32", five) \o Many("int32", one) = Many("int32", five + one)
    BY ONLY ManyNames, five \in Nat, one \in Nat, ManyJoin
  <2>2. five + one = 6
    OBVIOUS
  <2> QED  BY <2>1, <2>2, ManyNames
<1> QED  BY <1>1, <1>2, <1>3

LEMMA BitmapReads ==
  ASSUME NEW f, NEW p \in Nat, Len(f) \in Nat, NEW c \in Flat \cup States, c.m = "DrawBitmap", Stored(f, p, Payload(c))
  PROVE  ReadBack(f, p, c)
<1> PICK n \in Nat : n = c.n
  BY OperationFacts
<1> PICK a \in Seq(Types) : a = Rect \o Rect \o Many("int32", 5) /\ Len(a) = 13
  BY BitmapTypes
<1> PICK d \in Seq(FileCells) : d = Data(a) /\ TypesOf(d) = a /\ Len(d) = 13
  BY DataCells
<1> PICK k \in Seq(FileCells) : k = <<Int32(n)>> /\ TypesOf(k) = I /\ Len(k) = 1
  BY NumberCells
<1> PICK b \in Seq(Types) : b = Many("int8", n)
  BY ManyTypes
<1> PICK e \in Seq(FileCells) : e = Data(b) /\ TypesOf(e) = b
  BY DataCells
<1> PICK dk \in Seq(FileCells) : dk = d \o k
  BY JoinTypes
<1> PICK g \in Seq(FileCells) : g = dk \o e
  BY JoinTypes
<1>1. Payload(c) = g
  <2>1. c.m \notin DOMAIN Figures /\ c.m \notin DOMAIN WrittenPlain
    BY NameFacts DEF PlainNames, CountedNames
  <2>2. Payload(c) = (d \o k) \o e
    BY <2>1 DEF Payload
  <2> QED  BY <2>2
<1>2. Stored(f, p, dk \o e)
  BY <1>1
<1>3. Stored(f, p, dk)
  BY <1>2, StoredParts
<1>4. Stored(f, p, d \o k)
  BY <1>3
<1> PICK r \in Nat : r = p + 13
  OBVIOUS
<1>5. Stored(f, r, k)
  BY <1>4, StoredParts
<1>6. At32(f, r) = n
  BY <1>5, StoredNumber
<1>7. TypesOf(g) = (a \o I) \o b
  <2>1. TypesOf(dk \o e) = TypesOf(dk) \o TypesOf(e)
    BY TypesOfJoin
  <2>2. TypesOf(d \o k) = TypesOf(d) \o TypesOf(k)
    BY ONLY d \in Seq(FileCells), k \in Seq(FileCells), TypesOfJoin
  <2> QED  BY <2>1, <2>2
<1> PICK x : x = Rect \o Rect \o Many("int32", 6)
  OBVIOUS
<1>8. a \o I = x
  BY BitmapTypes
<1> PICK size : size = Len(g)
  OBVIOUS
<1>9. DumpCounted(f, p, "DRAW_PIXELS", size) = <<Listed("DrawBitmap", n), x \o b>>
  <2>1. DumpCounted(f, p, "DRAW_PIXELS", size) =
       <<Listed("DrawBitmap", At32(f, p + 13)), Rect \o Rect \o Many("int32", 6) \o Many("int8", At32(f, p + 13))>>
    BY CountedRead
  <2> QED  BY <2>1, <1>6
<1>10. Opcode(c) = "DRAW_PIXELS" /\ c.m \in CountedNames
  BY CountedCode, CountedTable DEF CountedNames
<1>11. DumpCounted(f, p, Opcode(c), Len(g)) = <<Listed(c.m, c.n), TypesOf(g)>>
  BY <1>7, <1>8, <1>9, <1>10
<1> QED  BY <1>1, <1>10, <1>11, CountedReads

\* An operation is read as the one it was written for.
LEMMA DumpReads ==
  ASSUME NEW f, NEW p \in Nat, Len(f) \in Nat, NEW c \in Flat \cup States, Stored(f, p, Payload(c))
  PROVE  /\ ReadBack(f, p, c)
         /\ \A m \in Enter : Opcode(c) # EnterCode(m)
         /\ Opcode(c) \in {"PUSH_STATE", "POP_STATE"} => c \in States
<1>1. CASE c.m \in PlainNames
  BY <1>1, PlainDump, WordFacts
<1>2. CASE c.m \in FigureNames
  BY <1>2, FigureDump, WordFacts
<1>3. CASE c.m \in CountedNames
  <2>1. ReadBack(f, p, c)
    BY <1>3, ClippingReads, ToShapeReads, FontReads, StringReads, StringAtReads, BitmapReads DEF CountedNames
  <2>2. Opcode(c) \in CountedWords
    BY <1>3, CountedCode
  <2> QED  BY <2>1, <2>2, WordFacts
<1> QED  BY <1>1, <1>2, <1>3, OperationFacts DEF OpNames

(***************************************************************************)
(* The file and its log when the picture has been written.                 *)
(***************************************************************************)
LEMMA TellsOf ==
  ASSUME WriterInv, pictures = <<>>, NEW t \in Tokens, Holds(t), t.path = <<>> => t.c.m = "EnterPicture"
  PROVE  Tells(file, t)
<1> DEFINE top == t.path[Len(t.path)]
<1>0. blocks = <<>> /\ 1..Len(pictures) = {} /\ 1..Len(blocks) = {} /\ Len(file) \in Nat /\ t.at \in Nat
  <2>1. blocks = <<>>
    BY DEF WriterInv, BlocksInv
  <2>2. file \in Seq(FileCells)
    BY DEF WriterInv, WriterTypes
  <2>3. t.at \in Nat
    BY DEF Tokens
  <2> QED  BY <2>1, <2>2, <2>3
<1>1. ~OpenList(top.base)
  BY <1>0 DEF OpenList
<1>2. \A a \in Nat : \A n : (Counts(a, n) => a + 3 <= Len(file) /\ file[a + 3].v > n) /\ (Final(a, n) => a + 3 <= Len(file) /\ file[a + 3].v = n)
  BY <1>0 DEF Counts, Final, Settled
<1>a. \A b \in Nat : Settled(b - 1) => b \in 1..Len(file)
  BY <1>0 DEF Settled
<1>b. t.path # <<>> => top.base \in Nat
  BY TopLevel
<1>c. t.c.m \in Enter \/ IsOp(t.c) \/ t.c.m \in BlockExits \cup {"ExitOps", "ExitPictures", "EnterOps"} => top.base \in Nat
  <2>1. "EnterPicture" \in Structure /\ "EnterPicture" \notin Enter \cup BlockExits
    BY DEF Structure, Enter, BlockExits, Exit
  <2>2. IsOp(t.c) => t.c.m # "EnterPicture"
    BY <2>1, OpNamed
  <2> QED  BY <2>1, <2>2, <1>b
<1>3. t.at <= Len(file)
  BY DEF Holds
<1>4. t.c.m \in Enter => t.at + 2 <= Len(file) /\ file[t.at + 1].op = EnterCode(t.c.m)
  BY DEF Holds
<1>5. IsOp(t.c) =>
             /\ t.at + 2 + Len(Payload(t.c)) <= Len(file) /\ \A q \in 1..Len(Payload(t.c)) : file[t.at + 2 + q] = Payload(t.c)[q]
             /\ file[t.at + 1].op = Opcode(t.c) /\ file[t.at + 2].v = Len(Payload(t.c))
  BY DEF Holds
<1>6. t.c.m \in Enter \/ IsOp(t.c) => top.base \in 1..Len(file) /\ Behind(t) <= top.base + file[top.base].v
  <2>1. t.c.m \in Enter \/ IsOp(t.c) => Settled(top.base - 1) /\ Behind(t) <= top.base + file[top.base].v
    BY <1>1 DEF Holds
  <2> QED  BY <2>1, <1>a, <1>c
<1>7. t.c.m \in BlockExits \cup {"ExitOps"} => top.base \in 1..Len(file) /\ t.at = top.base + file[top.base].v
  <2>1. t.c.m \in BlockExits \cup {"ExitOps"} => Settled(top.base - 1) /\ t.at = top.base + file[top.base].v
    BY DEF Holds
  <2> QED  BY <2>1, <1>a, <1>c
<1>8. t.path # <<>> /\ t.c.m \in {"EnterPicture", "EnterPictures"} => top.base + 3 <= Len(file) /\ file[top.base + 3].v > top.nth
  <2>1. t.path # <<>> /\ t.c.m \in {"EnterPicture", "EnterPictures"} => Counts(top.base, top.nth)
    BY DEF Holds
  <2> QED  BY <2>1, <1>2, <1>b
<1>9. t.c.m \in {"ExitPictures", "EnterOps"} => top.base + 3 <= Len(file) /\ file[top.base + 3].v = top.nth
  <2>1. t.c.m \in {"ExitPictures", "EnterOps"} => Final(top.base, top.nth)
    BY DEF Holds
  <2> QED  BY <2>1, <1>2, <1>c
<1> QED  BY <1>3, <1>4, <1>5, <1>6, <1>7, <1>8, <1>9 DEF Tells

LEMMA FinishedLog ==
  ASSUME WriterInv, Complete, NEW log, IsLog(log)
  PROVE  Finished(file, log) /\ FoldLeft(Came, <<>>, told) = Said(log)
<1>0. pictures = <<>> /\ told # <<>> /\ file \in Seq(FileCells) /\ Chain(log) /\ blocks = <<>>
  BY DEF Complete, WriterInv, WriterTypes, BlocksInv, IsLog
<1>1. log # <<>>
  BY <1>0 DEF IsLog, Current
<1>2. \A i \in 1..Len(log) : Tells(file, log[i])
  <2>1. \A i \in 1..Len(log) : log[i] \in Tokens /\ (log[i].path = <<>> => log[i].c.m = "EnterPicture")
    <3>1. First.c.m = "EnterPicture"
      BY DEF First, Call
    <3> QED  BY <3>1, <1>0, ChainTokens
  <2>2. \A i \in 1..Len(log) : Holds(log[i])
    BY DEF IsLog
  <2> QED  BY <2>1, <2>2, <1>0, TellsOf
<1>3. Path = <<>>
  <2> PICK p \in Seq(OpenPictures), b \in Seq(OpenBlocks) : p = pictures /\ b = blocks
    BY PathType
  <2>1. PathOf(p, b) \in Seq(Levels) /\ Len(PathOf(p, b)) = 0
    <3>1. Len(p) = 0 /\ Len(b) = 0
      BY <1>0
    <3>2. PathOf(p, b) \in Seq(Levels) /\ Len(PathOf(p, b)) = Len(p) + Len(b)
      BY PathFacts
    <3> QED  BY <3>1, <3>2
  <2> QED  BY <2>1, EmptySeq DEF Path
<1>4. log[Len(log)].c.m = "ExitPicture" /\ Behind(log[Len(log)]) = Len(file) /\ After(log[Len(log)]) = <<>>
  <2>1. Place = Len(file)
    BY <1>0 DEF Place
  <2> QED  BY <2>1, <1>0, <1>1, <1>3 DEF IsLog, Current
<1>5. FoldLeft(Came, <<>>, told) = Said(log)
  <2>1. Expected = <<>>
    BY <1>0 DEF Expected
  <2> PICK s \in Seq(Calls) : s = Said(log)
    BY <1>0, SaidFacts
  <2>2. s \o <<>> = s
    OBVIOUS
  <2> QED  BY <2>1, <2>2 DEF IsLog, Says
<1> QED  BY <1>0, <1>1, <1>2, <1>4, <1>5 DEF Finished

(***************************************************************************)
(* The frames for a path.                                                  *)
(***************************************************************************)
FrameSet(f) == {Frame(f, l) : l \in Levels}

LEMMA FramesFacts ==
  ASSUME NEW f, NEW path \in Seq(Levels)
  PROVE  /\ FramesOf(f, path) \in Seq(FrameSet(f)) /\ Len(FramesOf(f, path)) = Len(path) /\ Len(path) \in Nat
         /\ \A k \in 1..Len(path) : FramesOf(f, path)[k] = Frame(f, path[k])
<1>1. \A k \in 1..Len(path) : Frame(f, path[k]) \in FrameSet(f)
  BY DEF FrameSet
<1> QED  BY <1>1 DEF FramesOf

LEMMA FramesGrow ==
  ASSUME NEW f, NEW path \in Seq(Levels), NEW l \in Levels
  PROVE  FramesOf(f, Append(path, l)) = Append(FramesOf(f, path), Frame(f, l)) /\ Append(path, l) \in Seq(Levels)
<1> PICK n \in Nat : n = Len(path)
  OBVIOUS
<1> PICK e \in FrameSet(f) : e = Frame(f, l)
  BY DEF FrameSet
<1> PICK s \in Seq(FrameSet(f)) : s = FramesOf(f, path)
  BY FramesFacts
<1>1. Len(s) = n /\ \A k \in 1..n : s[k] = Frame(f, path[k])
  BY FramesFacts
<1> PICK r \in Seq(Levels) : r = Append(path, l)
  BY AppendFacts
<1>2. Len(r) = n + 1 /\ r[n + 1] = l /\ \A k \in 1..n : r[k] = path[k]
  BY AppendFacts
<1> PICK u \in Seq(FrameSet(f)) : u = FramesOf(f, r)
  BY FramesFacts
<1>3. Len(u) = n + 1 /\ \A k \in 1..(n + 1) : u[k] = Frame(f, r[k])
  BY <1>2, FramesFacts
<1> PICK v \in Seq(FrameSet(f)) : v = Append(s, e)
  BY AppendFacts
<1>4. Len(v) = n + 1 /\ v[n + 1] = e /\ \A k \in 1..n : v[k] = s[k]
  BY <1>1, AppendFacts
<1>5. ASSUME NEW k \in 1..(n + 1)  PROVE u[k] = v[k]
  <2>1. CASE k = n + 1
    BY <2>1, <1>2, <1>3, <1>4
  <2>2. CASE k # n + 1
    <3>1. k \in 1..n
      BY <2>2
    <3> QED  BY <3>1, <1>1, <1>2, <1>3, <1>4
  <2> QED  BY <2>1, <2>2
<1>6. u = v
  BY <1>3, <1>4, <1>5, SeqEqual
<1> QED  BY <1>6

LEMMA FramesShrink ==
  ASSUME NEW f, NEW path \in Seq(Levels), path # <<>>
  PROVE  /\ FramesOf(f, Front(path)) = Front(FramesOf(f, path)) /\ Front(path) \in Seq(Levels)
         /\ FramesOf(f, path) # <<>> /\ Last(FramesOf(f, path)) = Frame(f, path[Len(path)])
<1> PICK n \in Nat \ {0} : n = Len(path)
  BY FrontFacts
<1> PICK s \in Seq(FrameSet(f)) : s = FramesOf(f, path)
  BY FramesFacts
<1>1. Len(s) = n /\ s # <<>> /\ \A k \in 1..n : s[k] = Frame(f, path[k])
  BY FramesFacts
<1> PICK r \in Seq(Levels) : r = Front(path)
  BY FrontFacts
<1>2. Len(r) = n - 1 /\ \A k \in 1..(n - 1) : r[k] = path[k]
  BY FrontFacts
<1> PICK u \in Seq(FrameSet(f)) : u = FramesOf(f, r)
  BY FramesFacts
<1>3. Len(u) = n - 1 /\ \A k \in 1..(n - 1) : u[k] = Frame(f, r[k])
  BY <1>2, FramesFacts
<1> PICK v \in Seq(FrameSet(f)) : v = Front(s)
  BY <1>1, FrontFacts
<1>4. Len(v) = n - 1 /\ (\A k \in 1..(n - 1) : v[k] = s[k]) /\ Last(s) = s[n]
  BY <1>1, FrontFacts
<1>5. ASSUME NEW k \in 1..(n - 1)  PROVE u[k] = v[k]
  <2>1. k \in 1..n
    OBVIOUS
  <2> QED  BY <2>1, <1>1, <1>2, <1>3, <1>4
<1>6. u = v
  BY <1>3, <1>4, <1>5, SeqEqual
<1>7. n \in 1..n
  OBVIOUS
<1> QED  BY <1>1, <1>4, <1>6, <1>7

\* One picture inside has been read.
LEMMA FramesMet ==
  ASSUME NEW f, NEW path \in Seq(Levels), path # <<>>, path[Len(path)].form = "pictures", f[path[Len(path)].base + 3].v \in Nat
  PROVE  /\ FramesOf(f, Met(path)) = [FramesOf(f, path) EXCEPT ![Len(FramesOf(f, path))].left = @ - 1]
         /\ Met(path) \in Seq(Levels)
<1> PICK n \in Nat \ {0} : n = Len(path)
  BY EmptySeq
<1> PICK x \in Levels : x = path[n]
  OBVIOUS
<1> PICK v \in Nat : v = f[x.base + 3].v
  OBVIOUS
<1>0. x = Level(x.m, "pictures", x.base, x.nth) /\ x.nth \in Nat
  BY DEF Levels, Level
<1> DEFINE y == Level(x.m, "pictures", x.base, x.nth + 1)
<1>1. y \in Levels /\ [x EXCEPT !.nth = @ + 1] = y
  <2>1. \A m, o, b, i : [Level(m, o, b, i) EXCEPT !.nth = i + 1] = Level(m, o, b, i + 1) /\ Level(m, o, b, i).nth = i
    BY DEF Level
  <2>2. [x EXCEPT !.nth = x.nth + 1] = y
    BY <1>0, <2>1
  <2>3. y \in Levels
    BY <1>0 DEF Levels, Level
  <2> QED  BY <2>2, <2>3
<1>2. Frame(f, y) = [Frame(f, x) EXCEPT !.left = @ - 1] /\ Frame(f, x) = [form |-> "pictures", count |-> v, left |-> v - x.nth]
  <2>1. Frame(f, x) = [form |-> "pictures", count |-> v, left |-> v - x.nth]
    BY <1>0 DEF Frame
  <2>2. y.form = "pictures" /\ y.base = x.base /\ y.nth = x.nth + 1
    BY DEF Level
  <2>3. Frame(f, y) = [form |-> "pictures", count |-> v, left |-> v - (x.nth + 1)]
    BY <2>2 DEF Frame
  <2>4. v - (x.nth + 1) = (v - x.nth) - 1
    BY <1>0
  <2>5. [Frame(f, x) EXCEPT !.left = @ - 1] = [form |-> "pictures", count |-> v, left |-> (v - x.nth) - 1]
    BY <2>1
  <2> QED  BY <2>1, <2>3, <2>4, <2>5
<1> HIDE DEF y
<1> PICK e \in Levels : e = y
  BY <1>1
<1> PICK m \in Seq(Levels) : m = [path EXCEPT ![Len(path)] = e]
  BY ExceptLast
<1>3. Len(m) = n /\ m[n] = e /\ \A k \in 1..(n - 1) : m[k] = path[k]
  BY ExceptLast
<1>4. Met(path) = m
  BY <1>1 DEF Met
<1> PICK s \in Seq(FrameSet(f)) : s = FramesOf(f, path)
  BY FramesFacts
<1>5. Len(s) = n /\ \A k \in 1..n : s[k] = Frame(f, path[k])
  BY FramesFacts
<1> PICK u \in Seq(FrameSet(f)) : u = FramesOf(f, m)
  BY FramesFacts
<1>6. Len(u) = n /\ \A k \in 1..n : u[k] = Frame(f, m[k])
  <2>1. Len(FramesOf(f, m)) = Len(m) /\ \A k \in 1..Len(m) : FramesOf(f, m)[k] = Frame(f, m[k])
    BY ONLY m \in Seq(Levels), FramesFacts
  <2> QED  BY ONLY <2>1, <1>3, u = FramesOf(f, m)
<1> PICK g \in FrameSet(f) : g = Frame(f, e)
  BY DEF FrameSet
<1>7. s # <<>> /\ s[n] = Frame(f, x)
  BY <1>5
<1> PICK w \in Seq(FrameSet(f)) : w = [s EXCEPT ![Len(s)] = g]
  BY <1>7, ExceptLast
<1>8. Len(w) = n /\ w[n] = g /\ \A k \in 1..(n - 1) : w[k] = s[k]
  BY <1>5, <1>7, ExceptLast
<1>9. [s EXCEPT ![Len(s)].left = @ - 1] = w
  BY <1>2, <1>5, <1>7
<1>10. ASSUME NEW k \in 1..n  PROVE u[k] = w[k]
  <2>1. CASE k = n
    BY <2>1, <1>3, <1>6, <1>8
  <2>2. CASE k # n
    <3>1. k \in 1..(n - 1)
      BY <2>2
    <3> QED  BY <3>1, <1>3, <1>5, <1>6, <1>8, ZenonT(40)
  <2> QED  BY <2>1, <2>2
<1>11. u = w
  <2>1. Len(u) = Len(w) /\ \A k \in 1..Len(u) : u[k] = w[k]
    BY ONLY <1>6, <1>8, <1>10
  <2> QED  BY ONLY <2>1, u \in Seq(FrameSet(f)), w \in Seq(FrameSet(f)), SeqEqual
<1> QED  BY <1>4, <1>9, <1>11

LEMMA TokenKind ==
  ASSUME NEW t \in Tokens
  PROVE  t.c \in Calls /\ t.at \in Nat /\ t.path \in Seq(Levels) /\ (IsOp(t.c) \/ (t.c.m \in Structure /\ t.c = Call(t.c.m)))
<1>1. t.c \in Calls /\ t.at \in Nat /\ t.path \in Seq(Levels)
  BY DEF Tokens
<1>2. CASE t.c \in Flat \cup States
  BY <1>1, <1>2 DEF IsOp
<1>3. CASE t.c \in {Call(m) : m \in Structure}
  <2> PICK m \in Structure : t.c = Call(m)
    BY <1>3
  <2>1. t.c.m = m
    BY StructureNamed
  <2> QED  BY <2>1, <1>1
<1> QED  BY <1>1, <1>2, <1>3 DEF Calls

LEMMA NextToken ==
  ASSUME NEW f, NEW log, Finished(f, log), NEW i \in 1..Len(log), log[i].c.m # "ExitPicture"
  PROVE  /\ i + 1 \in 1..Len(log) /\ log[i + 1] \in Tokens /\ Tells(f, log[i + 1])
         /\ log[i + 1].at = Behind(log[i]) /\ log[i + 1].path = After(log[i]) /\ log[i + 1].path # <<>>
         /\ Fits(log[i + 1]) /\ Follows(log[i].c.m, log[i + 1].c.m)
<1>1. log \in Seq(Tokens) /\ Len(log) \in Nat /\ i # Len(log) /\ Chain(log)
  BY DEF Finished, Chain
<1>2. i \in 1..(Len(log) - 1) /\ i + 1 \in 1..Len(log)
  BY <1>1
<1>3. log[i + 1] \in Tokens /\ Tells(f, log[i + 1])
  BY <1>1, <1>2 DEF Finished
<1> QED  BY <1>1, <1>2, <1>3 DEF Chain

\* The reader is where a call leaves it.
LEMMA HearTo ==
  ASSUME NEW f, NEW log, Finished(f, log), NEW i \in 1..Len(log), log[i].c.m \notin {"EnterPicture", "ExitPictures", "ExitOps"},
         NEW h \in Seq(Calls), Len(h) = i, \A j \in 1..i : h[j] = log[j].c
  PROVE  ReaderAt(f, log, h, Behind(log[i]), FramesOf(f, After(log[i])))
<1>1. log \in Seq(Tokens) /\ Len(log) \in Nat /\ i \in Nat /\ i <= Len(log)
  BY DEF Finished, Chain
<1>2. ASSUME i = Len(log)
      PROVE  FramesOf(f, After(log[i])) = <<>> /\ Behind(log[i]) = Len(f)
  <2>1. After(log[i]) = <<>> /\ Behind(log[i]) = Len(f)
    BY <1>2 DEF Finished
  <2>2. <<>> \in Seq(Levels) /\ Len(<<>>) = 0
    BY EmptySeq
  <2> PICK e \in Seq(Levels) : e = <<>>
    BY <2>2
  <2>3. FramesOf(f, e) \in Seq(FrameSet(f)) /\ Len(FramesOf(f, e)) = 0
    BY FramesFacts
  <2>4. FramesOf(f, e) = <<>>
    BY <2>3, EmptySeq
  <2> QED  BY <2>1, <2>4
<1>3. ASSUME i < Len(log)
      PROVE  /\ log[i + 1].c.m \notin {"EnterPictures", "ExitPicture"} /\ log[i + 1].c.m # "EnterOps"
             /\ Behind(log[i]) = log[i + 1].at /\ After(log[i]) = log[i + 1].path
  <2>1. i \in 1..(Len(log) - 1)
    BY <1>1, <1>3
  <2>2. Follows(log[i].c.m, log[i + 1].c.m) /\ Behind(log[i]) = log[i + 1].at /\ After(log[i]) = log[i + 1].path
    BY <2>1 DEF Finished, Chain
  <2> QED  BY <2>2 DEF Follows
<1> QED  BY <1>1, <1>2, <1>3 DEF ReaderAt

\* What has been heard up to the token at i.
Heard(log, h, i) == h \in Seq(Calls) /\ Len(h) = i /\ \A j \in 1..i : h[j] = log[j].c

LEMMA HearOne ==
  ASSUME NEW log \in Seq(Tokens), NEW i \in 1..Len(log), NEW h, Heard(log, h, i - 1), NEW c, c = log[i].c
  PROVE  Heard(log, h \o <<c>>, i)
<1>1. i \in Nat \ {0} /\ c \in Calls
  <2>1. log[i] \in Tokens
    OBVIOUS
  <2> QED  BY <2>1 DEF Tokens
<1>2. h \in Seq(Calls) /\ <<c>> \in Seq(Calls) /\ Len(<<c>>) = 1 /\ <<c>>[1] = c
  BY <1>1 DEF Heard
<1> PICK s \in Seq(Calls) : s = h \o <<c>>
  BY <1>2, JoinTypes
<1>3. Len(s) = Len(h) + 1 /\ (\A q \in 1..Len(h) : s[q] = h[q]) /\ s[Len(h) + 1] = c
  <2>1. Len(h \o <<c>>) = Len(h) + Len(<<c>>) /\ (\A q \in 1..Len(h) : (h \o <<c>>)[q] = h[q])
        /\ \A q \in 1..Len(<<c>>) : (h \o <<c>>)[Len(h) + q] = <<c>>[q]
    BY ONLY <1>2, GrowFacts
  <2> QED  BY <2>1, <1>2
<1>4. Len(s) = i /\ s[i] = c
  BY <1>1, <1>3 DEF Heard
<1>5. ASSUME NEW j \in 1..i  PROVE s[j] = log[j].c
  <2>1. CASE j = i
    BY <2>1, <1>4
  <2>2. CASE j # i
    <3>1. j \in 1..(i - 1)
      BY <2>2, <1>1
    <3> QED  BY <3>1, <1>3 DEF Heard
  <2> QED  BY <2>1, <2>2
<1> QED  BY <1>4, <1>5 DEF Heard

LEMMA HearTwo ==
  ASSUME NEW log \in Seq(Tokens), NEW i \in 1..Len(log), i + 1 \in 1..Len(log), NEW h, Heard(log, h, i - 1),
         NEW c, c = log[i].c, NEW d, d = log[i + 1].c
  PROVE  Heard(log, h \o <<c, d>>, i + 1)
<1> PICK k \in 1..Len(log) : k = i + 1
  OBVIOUS
<1>1. Heard(log, h \o <<c>>, i)
  BY HearOne
<1>2. k - 1 = i
  OBVIOUS
<1> PICK g : g = h \o <<c>>
  OBVIOUS
<1>3. Heard(log, g \o <<d>>, k)
  <2>1. Heard(log, g, k - 1) /\ d = log[k].c
    BY <1>1, <1>2
  <2> QED  BY <2>1, HearOne
<1>4. h \o <<c, d>> = g \o <<d>>
  <2>1. c \in Calls /\ d \in Calls
    <3>1. log[i] \in Tokens /\ log[i + 1] \in Tokens
      OBVIOUS
    <3> QED  BY <3>1 DEF Tokens
  <2>2. h \in Seq(Calls)
    BY DEF Heard
  <2>a. <<c>> \in Seq(Calls) /\ <<d>> \in Seq(Calls)
    BY ONLY <2>1
  <2> PICK x \in Seq(Calls) : x = <<c>>
    BY <2>a
  <2> PICK y \in Seq(Calls) : y = <<d>>
    BY <2>a
  <2>3. <<c, d>> = x \o y
    OBVIOUS
  <2>4. (h \o x) \o y = h \o (x \o y)
    BY ONLY <2>2, x \in Seq(Calls), y \in Seq(Calls)
  <2> QED  BY <2>3, <2>4
<1> QED  BY <1>3, <1>4

\* The token that the reader is at, when it is in a picture.
LEMMA ReaderToken ==
  ASSUME NEW f, NEW log, Finished(f, log), NEW h, NEW p, NEW fr, ReaderAt(f, log, h, p, fr), fr # <<>>
  PROVE  \E i \in 1..Len(log), t \in Tokens :
            /\ t = log[i] /\ Heard(log, h, i - 1) /\ Tells(f, t) /\ Fits(t) /\ t.path # <<>>
            /\ p = t.at /\ fr = FramesOf(f, t.path) /\ Last(fr) = Frame(f, t.path[Len(t.path)])
            /\ t.c.m \notin {"EnterPictures", "ExitPicture"} /\ (t.c.m = "EnterOps" => t.path[Len(t.path)].nth = 0)
<1>1. log \in Seq(Tokens) /\ Len(log) \in Nat /\ Chain(log)
  BY DEF Finished, Chain
<1>2. h \in Seq(Calls) /\ Len(h) \in Nat /\ Len(h) < Len(log)
  <2>1. h \in Seq(Calls) /\ Len(h) <= Len(log) /\ Len(h) # Len(log)
    BY DEF ReaderAt
  <2> QED  BY <2>1, <1>1
<1> PICK i \in 1..Len(log) : i = Len(h) + 1
  BY <1>1, <1>2
<1> PICK t \in Tokens : t = log[i]
  BY <1>1
<1>3. /\ t.c.m \notin {"EnterPictures", "ExitPicture"} /\ (t.c.m = "EnterOps" => t.path[Len(t.path)].nth = 0)
      /\ p = t.at /\ fr = FramesOf(f, t.path)
  BY <1>2 DEF ReaderAt
<1>4. t.path \in Seq(Levels)
  BY TokenKind
<1>5. t.path # <<>>
  <2>1. ASSUME t.path = <<>>  PROVE FALSE
    <3> PICK e \in Seq(Levels) : e = t.path /\ Len(e) = 0
      BY <2>1, <1>4
    <3>1. FramesOf(f, e) \in Seq(FrameSet(f)) /\ Len(FramesOf(f, e)) = 0
      BY FramesFacts
    <3> QED  BY <3>1, <1>3, EmptySeq
  <2> QED  BY <2>1
<1>6. Last(fr) = Frame(f, t.path[Len(t.path)])
  BY <1>3, <1>4, <1>5, FramesShrink
<1>7. Fits(t)
  <2>1. First.path = <<>>
    BY DEF First
  <2>2. i # 1
    BY <2>1, <1>1, <1>5, ChainTokens
  <2>3. i > 1
    BY <2>2
  <2> QED  BY <2>3, <1>1, ChainTokens
<1>8. Tells(f, t)
  BY DEF Finished
<1>9. Heard(log, h, i - 1)
  <2>1. i - 1 = Len(h)
    BY <1>2
  <2>2. \A j \in 1..Len(h) : h[j] = log[j].c
    BY DEF ReaderAt
  <2> QED  BY <2>1, <2>2, <1>2 DEF Heard
<1> QED  BY <1>3, <1>5, <1>6, <1>7, <1>8, <1>9

LEMMA FrameForm ==
  ASSUME NEW f, NEW l \in Levels
  PROVE  Frame(f, l).form = l.form
<1>1. CASE l.form = "pictures"
  BY <1>1 DEF Frame
<1>2. CASE l.form = "ops"
  BY <1>2 DEF Frame
<1> QED  BY <1>1, <1>2 DEF Levels

\* What the reader may meet in a list of operations.
LEMMA OpsToken ==
  ASSUME NEW f \in Seq(FileCells), NEW t \in Tokens, t.path # <<>>, Fits(t), Tells(f, t), t.c.m # "ExitPicture",
         NEW l \in Levels, l = t.path[Len(t.path)], l.form = "ops"
  PROVE  /\ Frame(f, l) = [form |-> "ops", block |-> l.m \in Enter,
                           exit |-> IF l.m \in Enter THEN <<Call(Exit(l.m))>> ELSE <<Call("ExitOps"), Call("ExitPicture")>>,
                           beg |-> l.base, size |-> f[l.base].v]
         /\ t.at < l.base + f[l.base].v => t.c.m \in Enter \/ IsOp(t.c)
         /\ ~(t.at < l.base + f[l.base].v) => t.c.m \in BlockExits \cup {"ExitOps"}
<1>1. Frame(f, l) = [form |-> "ops", block |-> l.m \in Enter,
                           exit |-> IF l.m \in Enter THEN <<Call(Exit(l.m))>> ELSE <<Call("ExitOps"), Call("ExitPicture")>>,
                           beg |-> l.base, size |-> f[l.base].v]
  BY DEF Frame
<1>2. t.c.m \notin {"EnterPicture", "EnterPictures", "ExitPictures", "EnterOps"}
  BY DEF Fits
<1>3. t.c.m \in Enter \/ IsOp(t.c) \/ t.c.m \in BlockExits \cup {"ExitOps"}
  BY <1>2, TokenKind DEF Structure, BlockExits
<1>4. t.at \in Nat /\ Len(f) \in Nat
  BY TokenKind
<1>5. \A q \in 1..Len(f) : f[q].v \in Nat
  <2>1. \A q \in 1..Len(f) : f[q] \in FileCells
    BY ONLY f \in Seq(FileCells)
  <2>2. \A x \in FileCells : x.v \in Nat
    BY DEF FileCells
  <2> QED  BY ONLY <2>1, <2>2
<1>6. ASSUME t.c.m \in BlockExits \cup {"ExitOps"}
      PROVE  ~(t.at < l.base + f[l.base].v)
  <2>1. t.at = l.base + f[l.base].v
    BY <1>6 DEF Tells
  <2> QED  BY <2>1, <1>4
<1>7. ASSUME t.c.m \in Enter \/ IsOp(t.c)
      PROVE  t.at < l.base + f[l.base].v
  <2>1. l.base \in 1..Len(f) /\ Behind(t) <= l.base + f[l.base].v
    BY <1>7 DEF Tells
  <2>2. Behind(t) \in Nat /\ Behind(t) > t.at
    <3>1. CASE t.c.m \in Enter
      <4>1. t.c.m \notin {"EnterPicture", "EnterOps"}
        BY <3>1 DEF Enter
      <4>2. Behind(t) = t.at + 2
        BY <3>1, <4>1 DEF Behind
      <4> QED  BY <4>2, <1>4
    <3>2. CASE IsOp(t.c)
      <4>1. t.c.m \notin Structure /\ t.c.m \notin Enter /\ Len(Payload(t.c)) \in Nat
        BY <3>2, OpNamed
      <4>2. Behind(t) = t.at + 2 + Len(Payload(t.c))
        BY <3>2, <4>1 DEF Behind, Structure
      <4> QED  BY <4>1, <4>2, <1>4
    <3> QED  BY <3>1, <3>2, <1>7
  <2> PICK b \in Nat, z \in Nat : b = l.base /\ z = f[l.base].v
    BY <2>1, <1>5
  <2>3. Behind(t) <= b + z
    BY <2>1
  <2> QED  BY <2>2, <2>3, <1>4
<1> QED  BY <1>1, <1>3, <1>6, <1>7

\* Where an operation or a block leaves the reader.
LEMMA OpBehind ==
  ASSUME NEW t \in Tokens, IsOp(t.c)
  PROVE  /\ Behind(t) = t.at + 2 + Len(Payload(t.c)) /\ After(t) = t.path
         /\ t.c.m \notin {"EnterPicture", "EnterPictures", "ExitPictures", "EnterOps", "ExitOps", "ExitPicture"}
<1>1. t.c.m \notin Structure /\ t.c.m \notin Enter /\ t.c.m \notin BlockExits
  <2>1. BlockExits \subseteq Structure
    BY DEF BlockExits, Structure
  <2> QED  BY <2>1, OpNamed
<1>2. t.c.m \notin {"EnterPicture", "EnterPictures", "ExitPictures", "EnterOps", "ExitOps", "ExitPicture"}
  BY <1>1 DEF Structure
<1> QED  BY <1>1, <1>2 DEF Behind, After

LEMMA BlockBehind ==
  ASSUME NEW t \in Tokens, t.c.m \in Enter
  PROVE  /\ Behind(t) = t.at + 2 /\ After(t) = Append(t.path, Level(t.c.m, "ops", t.at + 2, 0)) /\ Level(t.c.m, "ops", t.at + 2, 0) \in Levels
         /\ t.c = Call(t.c.m) /\ ~IsOp(t.c)
         /\ t.c.m \notin {"EnterPicture", "EnterPictures", "ExitPictures", "EnterOps", "ExitOps", "ExitPicture"}
<1>1. t.c.m \notin {"EnterPicture", "EnterPictures", "ExitPictures", "EnterOps", "ExitOps", "ExitPicture"} /\ t.c.m \in Structure
  BY DEF Structure, Enter
<1>2. ~IsOp(t.c) /\ t.c = Call(t.c.m)
  BY <1>1, OpNamed, TokenKind
<1>3. t.at + 2 \in Nat
  BY TokenKind
<1>4. Level(t.c.m, "ops", t.at + 2, 0) \in Levels
  BY <1>3 DEF Level, Levels
<1> QED  BY <1>1, <1>2, <1>4 DEF Behind, After

\* What is read at an operation.
LEMMA OpRead ==
  ASSUME NEW f \in Seq(FileCells), NEW t \in Tokens, IsOp(t.c), Tells(f, t), NEW op, op = (IF t.at < Len(f) THEN f[t.at + 1].op ELSE "none")
  PROVE  /\ op = Opcode(t.c) /\ At32(f, t.at + 1) = Len(Payload(t.c))
         /\ op \in KnownOps /\ Dump(f, t.at + 2, op, At32(f, t.at + 1))[1] = t.c
         /\ Agrees(f, t.at + 2, Dump(f, t.at + 2, op, At32(f, t.at + 1))[2])
         /\ Len(Dump(f, t.at + 2, op, At32(f, t.at + 1))[2]) = At32(f, t.at + 1)
         /\ \A m \in Enter : op # EnterCode(m)
<1>1. t.at \in Nat /\ Len(f) \in Nat /\ t.c \in Flat \cup States /\ Len(Payload(t.c)) \in Nat
  BY TokenKind, OpNamed DEF IsOp
<1> PICK a \in Nat : a = t.at
  BY <1>1
<1> PICK n \in Nat : n = Len(Payload(t.c))
  BY <1>1
<1>2. a + 2 + n <= Len(f) /\ (\A q \in 1..n : f[a + 2 + q] = Payload(t.c)[q]) /\ f[a + 1].op = Opcode(t.c) /\ f[a + 2].v = n
  BY DEF Tells
<1>3. a < Len(f) /\ a + 1 < Len(f) /\ a + 1 + 1 = a + 2
  BY <1>1, <1>2
<1>4. op = Opcode(t.c)
  BY <1>2, <1>3
<1>5. At32(f, a + 1) = n
  BY <1>2, <1>3 DEF At32
<1> PICK p \in Nat : p = a + 2
  OBVIOUS
<1>6. Stored(f, p, Payload(t.c))
  BY <1>2 DEF Stored
<1>7. ReadBack(f, p, t.c) /\ \A m \in Enter : Opcode(t.c) # EnterCode(m)
  BY <1>1, <1>6, DumpReads
<1>8. op \in KnownOps /\ Dump(f, p, op, n)[1] = t.c /\ Agrees(f, p, Dump(f, p, op, n)[2]) /\ Len(Dump(f, p, op, n)[2]) = n
  BY <1>4, <1>7 DEF ReadBack
<1> QED  BY <1>4, <1>5, <1>7, <1>8

(***************************************************************************)
(* The reader in a list of operations.                                     *)
(***************************************************************************)
LEMMA ReadBlockAt ==
  ASSUME NEW log, Finished(file, log), ReaderAt(file, log, heard, pos, frames), ReadBlock
  PROVE  ReaderAt(file, log, heard', pos', frames')
<1> PICK m \in Enter :
        /\ frames # <<>> /\ Last(frames).form = "ops" /\ pos < Last(frames).beg + Last(frames).size /\ ReadOpcode(pos) = EnterCode(m)
        /\ frames' = Append(frames, [form |-> "ops", block |-> TRUE, exit |-> <<Call(Exit(m))>>, beg |-> pos + 2, size |-> OpSize])
        /\ heard' = heard \o <<Call(m)>> /\ pos' = pos + 2
  BY DEF ReadBlock, MoreOps, Reading, Top, Hear, Visit
<1> PICK f \in Seq(FileCells) : f = file
  BY DEF Finished
<1> PICK h, p, fr : h = heard /\ p = pos /\ fr = frames
  OBVIOUS
<1>1. Finished(f, log) /\ ReaderAt(f, log, h, p, fr) /\ fr # <<>>
  OBVIOUS
<1> PICK i \in 1..Len(log), t \in Tokens :
            /\ t = log[i] /\ Heard(log, h, i - 1) /\ Tells(f, t) /\ Fits(t) /\ t.path # <<>>
            /\ p = t.at /\ fr = FramesOf(f, t.path) /\ Last(fr) = Frame(f, t.path[Len(t.path)])
            /\ t.c.m \notin {"EnterPictures", "ExitPicture"} /\ (t.c.m = "EnterOps" => t.path[Len(t.path)].nth = 0)
  BY ONLY <1>1, ReaderToken
<1> PICK l \in Levels : l = t.path[Len(t.path)]
  BY TopLevel
<1>2. l.form = "ops"
  <2>1. Frame(f, l).form = "ops"
    OBVIOUS
  <2> QED  BY <2>1, FrameForm
<1>3. t.c.m \in Enter \/ IsOp(t.c)
  <2>1. Frame(f, l).beg = l.base /\ Frame(f, l).size = f[l.base].v
    BY <1>2, OpsToken
  <2>2. t.at < l.base + f[l.base].v
    BY <2>1
  <2> QED  BY <2>2, <1>2, OpsToken
<1>4. (IF t.at < Len(f) THEN f[t.at + 1].op ELSE "none") = EnterCode(m)
  BY DEF ReadOpcode
<1>5. ~IsOp(t.c)
  BY <1>4, OpRead
<1>6. t.at + 2 <= Len(f) /\ f[t.at + 1].op = EnterCode(t.c.m) /\ t.at \in Nat /\ Len(f) \in Nat
  BY <1>3, <1>5, TokenKind DEF Tells
<1>7. t.c.m = m
  <2>1. EnterCode(t.c.m) = EnterCode(m)
    BY <1>4, <1>6
  <2> QED  BY <2>1, <1>3, <1>5 DEF EnterCode, Enter
<1>8. OpSize = f[t.at + 2].v
  <2>1. t.at + 1 < Len(f) /\ t.at + 1 + 1 = t.at + 2
    BY <1>6
  <2> QED  BY <2>1 DEF OpSize, Read32, At32
<1> PICK u \in Levels : u = Level(m, "ops", t.at + 2, 0)
  BY <1>7, BlockBehind
<1>9. Frame(f, u) = [form |-> "ops", block |-> TRUE, exit |-> <<Call(Exit(m))>>, beg |-> t.at + 2, size |-> f[t.at + 2].v]
  <2>1. u.form = "ops" /\ u.m = m /\ u.base = t.at + 2
    BY DEF Level
  <2> QED  BY <2>1 DEF Frame
<1>10. frames' = FramesOf(f, After(t)) /\ pos' = Behind(t)
  <2>1. After(t) = Append(t.path, u) /\ Behind(t) = t.at + 2 /\ t.path \in Seq(Levels)
    BY <1>7, BlockBehind, TokenKind
  <2>2. FramesOf(f, After(t)) = Append(FramesOf(f, t.path), Frame(f, u))
    BY <2>1, FramesGrow
  <2> QED  BY <2>1, <2>2, <1>8, <1>9
<1>11. log \in Seq(Tokens)
  BY <1>1 DEF Finished, Chain
<1> PICK g : g = heard'
  OBVIOUS
<1>12. Heard(log, g, i)
  <2>1. t.c = Call(m)
    BY <1>7, BlockBehind
  <2>2. Heard(log, h \o <<t.c>>, i)
    BY <1>11, HearOne
  <2> QED  BY <2>1, <2>2
<1>13. ReaderAt(f, log, g, Behind(t), FramesOf(f, After(t)))
  <2>1. log[i].c.m \notin {"EnterPicture", "ExitPictures", "ExitOps"}
    BY <1>7, BlockBehind
  <2>2. g \in Seq(Calls) /\ Len(g) = i /\ \A j \in 1..i : g[j] = log[j].c
    BY <1>12 DEF Heard
  <2>3. ReaderAt(f, log, g, Behind(log[i]), FramesOf(f, After(log[i])))
    BY <1>1, <2>1, <2>2, HearTo
  <2> QED  BY <2>3
<1> QED  BY <1>10, <1>13

\* The reader is at an operation, and reads it as the one that was written.
LEMMA AtOperation ==
  ASSUME NEW log, Finished(file, log), ReaderAt(file, log, heard, pos, frames), MoreOps, \A m \in Enter : ReadOpcode(pos) # EnterCode(m)
  PROVE  \E i \in 1..Len(log), t \in Tokens :
            /\ t = log[i] /\ Heard(log, heard, i - 1) /\ Tells(file, t) /\ IsOp(t.c) /\ t.path # <<>>
            /\ pos = t.at /\ frames = FramesOf(file, t.path)
            /\ OpSize = Len(Payload(t.c)) /\ Dumped[1] = t.c
            /\ ReadOpcode(pos) \in KnownOps /\ Agrees(file, pos + 2, Dumped[2]) /\ Len(Dumped[2]) = OpSize
<1> PICK f \in Seq(FileCells) : f = file
  BY DEF Finished
<1> PICK h, p, fr : h = heard /\ p = pos /\ fr = frames
  OBVIOUS
<1>1. Finished(f, log) /\ ReaderAt(f, log, h, p, fr) /\ fr # <<>> /\ Last(fr).form = "ops" /\ p < Last(fr).beg + Last(fr).size
  BY DEF MoreOps, Reading, Top
<1> PICK i \in 1..Len(log), t \in Tokens :
            /\ t = log[i] /\ Heard(log, h, i - 1) /\ Tells(f, t) /\ Fits(t) /\ t.path # <<>>
            /\ p = t.at /\ fr = FramesOf(f, t.path) /\ Last(fr) = Frame(f, t.path[Len(t.path)])
            /\ t.c.m \notin {"EnterPictures", "ExitPicture"} /\ (t.c.m = "EnterOps" => t.path[Len(t.path)].nth = 0)
  BY ONLY <1>1, ReaderToken
<1> PICK l \in Levels : l = t.path[Len(t.path)]
  BY TopLevel
<1>2. l.form = "ops"
  <2>1. Frame(f, l).form = "ops"
    BY <1>1
  <2> QED  BY <2>1, FrameForm
<1>3. t.c.m \in Enter \/ IsOp(t.c)
  <2>1. Frame(f, l).beg = l.base /\ Frame(f, l).size = f[l.base].v
    BY <1>2, OpsToken
  <2>2. t.at < l.base + f[l.base].v
    BY <2>1, <1>1
  <2> QED  BY <2>2, <1>2, OpsToken
<1> PICK op : op = IF t.at < Len(f) THEN f[t.at + 1].op ELSE "none"
  OBVIOUS
<1>4. ReadOpcode(pos) = op /\ OpSize = At32(f, t.at + 1) /\ Dumped = Dump(f, t.at + 2, op, At32(f, t.at + 1))
  BY DEF ReadOpcode, OpSize, Read32, Dumped
<1>5. IsOp(t.c)
  <2>1. ASSUME t.c.m \in Enter  PROVE FALSE
    <3>1. t.at + 2 <= Len(f) /\ f[t.at + 1].op = EnterCode(t.c.m) /\ t.at \in Nat /\ Len(f) \in Nat
      BY <2>1, TokenKind DEF Tells
    <3>2. op = EnterCode(t.c.m)
      BY <3>1
    <3> QED  BY <3>2, <2>1, <1>4
  <2> QED  BY <2>1, <1>3
<1>6. /\ OpSize = Len(Payload(t.c)) /\ Dumped[1] = t.c
      /\ op \in KnownOps /\ Agrees(f, t.at + 2, Dumped[2]) /\ Len(Dumped[2]) = OpSize
  BY <1>4, <1>5, OpRead
<1> QED  BY <1>4, <1>5, <1>6

\* One operation, whichever it is.
LEMMA ReadOneAt ==
  ASSUME NEW log, Finished(file, log), ReaderAt(file, log, heard, pos, frames), ReadState \/ ReadOp
  PROVE  ReaderAt(file, log, heard', pos', frames')
<1> PICK f \in Seq(FileCells) : f = file
  BY DEF Finished
<1> PICK h : h = heard
  OBVIOUS
<1>0. MoreOps /\ pos' = pos + 2 + OpSize /\ frames' = frames /\ \A m \in Enter : ReadOpcode(pos) # EnterCode(m)
  <2>1. ASSUME ReadState
        PROVE  MoreOps /\ pos' = pos + 2 + OpSize /\ frames' = frames /\ ReadOpcode(pos) \in {"PUSH_STATE", "POP_STATE"}
    BY <2>1 DEF ReadState
  <2>2. \A m \in Enter : EnterCode(m) \notin {"PUSH_STATE", "POP_STATE"}
    BY DEF Enter, EnterCode
  <2>3. ASSUME ReadOp
        PROVE  MoreOps /\ pos' = pos + 2 + OpSize /\ frames' = frames /\ ReadOpcode(pos) \notin {EnterCode(m) : m \in Enter}
    BY <2>3 DEF ReadOp, AtOp
  <2> QED  BY <2>1, <2>2, <2>3
<1> PICK i \in 1..Len(log), t \in Tokens :
            /\ t = log[i] /\ Heard(log, heard, i - 1) /\ Tells(file, t) /\ IsOp(t.c) /\ t.path # <<>>
            /\ pos = t.at /\ frames = FramesOf(file, t.path)
            /\ OpSize = Len(Payload(t.c)) /\ Dumped[1] = t.c
            /\ ReadOpcode(pos) \in KnownOps /\ Agrees(file, pos + 2, Dumped[2]) /\ Len(Dumped[2]) = OpSize
  BY <1>0, AtOperation
<1>1. Finished(f, log)
  OBVIOUS
<1>7. heard' = h \o <<t.c>>
  <2>1. ASSUME ReadState  PROVE heard' = h \o <<t.c>>
    <3>1. heard' = heard \o <<Dumped[1]>>
      BY <2>1 DEF ReadState, Hear, Visit
    <3> QED  BY <3>1
  <2>2. ASSUME ReadOp  PROVE heard' = h \o <<t.c>>
    <3>1. heard' = heard \o (CASE ReadOpcode(pos) \notin KnownOps -> <<>>
              [] Agrees(file, pos + 2, Dumped[2]) -> <<Dumped[1]>>
              [] OTHER -> <<Misread>>)
      BY <2>2 DEF ReadOp, Visit
    <3>2. ~(ReadOpcode(pos) \notin KnownOps) /\ Agrees(file, pos + 2, Dumped[2]) /\ Dumped[1] = t.c
      OBVIOUS
    <3>3. (CASE ReadOpcode(pos) \notin KnownOps -> <<>>
              [] Agrees(file, pos + 2, Dumped[2]) -> <<Dumped[1]>>
              [] OTHER -> <<Misread>>) = <<t.c>>
      BY ONLY <3>2
    <3> QED  BY <3>1, <3>3
  <2> QED  BY <2>1, <2>2
<1>8. log \in Seq(Tokens)
  BY <1>1 DEF Finished, Chain
<1> PICK g : g = heard'
  OBVIOUS
<1>9. Heard(log, g, i)
  <2>1. Heard(log, h \o <<t.c>>, i)
    BY <1>8, HearOne
  <2> QED  BY <2>1, <1>7
<1>10. frames' = FramesOf(f, After(t)) /\ pos' = Behind(t)
  <2>1. Behind(t) = t.at + 2 + Len(Payload(t.c)) /\ After(t) = t.path
    BY OpBehind
  <2> QED  BY <2>1, <1>0
<1>11. ReaderAt(f, log, g, Behind(t), FramesOf(f, After(t)))
  <2>1. log[i].c.m \notin {"EnterPicture", "ExitPictures", "ExitOps"}
    BY OpBehind
  <2>2. g \in Seq(Calls) /\ Len(g) = i /\ \A j \in 1..i : g[j] = log[j].c
    BY <1>9 DEF Heard
  <2>3. ReaderAt(f, log, g, Behind(log[i]), FramesOf(f, After(log[i])))
    BY <1>1, <2>1, <2>2, HearTo
  <2> QED  BY <2>3
<1> QED  BY <1>10, <1>11

\* Where the end of a block, or of a picture, leaves the reader.
LEMMA EndBehind ==
  ASSUME NEW t \in Tokens, t.c.m \in BlockExits
  PROVE  /\ Behind(t) = t.at /\ After(t) = Front(t.path)
         /\ t.c.m \notin {"EnterPicture", "EnterPictures", "ExitPictures", "EnterOps", "ExitOps", "ExitPicture"}
<1>1. t.c.m \notin {"EnterPicture", "EnterPictures", "ExitPictures", "EnterOps", "ExitOps", "ExitPicture"} /\ t.c.m \notin Enter /\ t.c.m \in Structure
  BY DEF Structure, BlockExits, Enter, Exit
<1>2. ~IsOp(t.c)
  BY <1>1, OpNamed
<1> QED  BY <1>1, <1>2 DEF Behind, After

LEMMA ListEndBehind ==
  ASSUME NEW t \in Tokens, t.c.m \in {"ExitOps", "ExitPicture", "EnterPictures", "ExitPictures"}
  PROVE  /\ Behind(t) = t.at /\ (t.c.m = "ExitPicture" => After(t) = Front(t.path)) /\ (t.c.m # "ExitPicture" => After(t) = t.path)
         /\ t.c = Call(t.c.m)
<1>1. t.c.m \notin Enter /\ t.c.m \notin BlockExits /\ t.c.m \in Structure
  BY DEF Structure, BlockExits, Enter, Exit
<1>2. ~IsOp(t.c) /\ t.c = Call(t.c.m)
  BY <1>1, OpNamed, TokenKind
<1> QED  BY <1>1, <1>2 DEF Behind, After

LEMMA ReadEndAt ==
  ASSUME NEW log, Finished(file, log), ReaderAt(file, log, heard, pos, frames), ReadEnd
  PROVE  ReaderAt(file, log, heard', pos', frames')
<1> PICK f \in Seq(FileCells) : f = file
  BY DEF Finished
<1> PICK h, p, fr : h = heard /\ p = pos /\ fr = frames
  OBVIOUS
<1>1. Finished(f, log) /\ ReaderAt(f, log, h, p, fr) /\ fr # <<>>
  BY DEF ReadEnd, Reading
<1>0. /\ Last(fr).form = "ops" /\ ~(p < Last(fr).beg + Last(fr).size)
      /\ frames' = Front(fr) /\ heard' = h \o Last(fr).exit
      /\ pos' = IF Last(fr).block THEN Last(fr).beg + Last(fr).size ELSE p
  <2>1. ~MoreOps /\ Reading("ops")
    BY DEF ReadEnd
  <2>2. Last(fr).form = "ops" /\ ~(p < Last(fr).beg + Last(fr).size)
    BY <2>1 DEF Reading, MoreOps, Top
  <2> QED  BY <2>2 DEF ReadEnd, Hear, Visit, Top
<1> PICK i \in 1..Len(log), t \in Tokens :
            /\ t = log[i] /\ Heard(log, h, i - 1) /\ Tells(f, t) /\ Fits(t) /\ t.path # <<>>
            /\ p = t.at /\ fr = FramesOf(f, t.path) /\ Last(fr) = Frame(f, t.path[Len(t.path)])
            /\ t.c.m \notin {"EnterPictures", "ExitPicture"} /\ (t.c.m = "EnterOps" => t.path[Len(t.path)].nth = 0)
  BY ONLY <1>1, ReaderToken
<1> PICK l \in Levels : l = t.path[Len(t.path)]
  BY TopLevel
<1>2. l.form = "ops"
  <2>1. Frame(f, l).form = "ops"
    BY <1>0
  <2> QED  BY <2>1, FrameForm
<1>3. /\ Last(fr).beg = l.base /\ Last(fr).size = f[l.base].v /\ Last(fr).block = (l.m \in Enter)
      /\ Last(fr).exit = IF l.m \in Enter THEN <<Call(Exit(l.m))>> ELSE <<Call("ExitOps"), Call("ExitPicture")>>
  BY <1>2, OpsToken
<1>4. t.c.m \in BlockExits \cup {"ExitOps"} /\ t.at = l.base + f[l.base].v
  <2>1. ~(t.at < l.base + f[l.base].v)
    BY <1>0, <1>3
  <2>2. t.c.m \in BlockExits \cup {"ExitOps"}
    BY <2>1, <1>2, OpsToken
  <2> QED  BY <2>2 DEF Tells
<1>5. pos' = t.at
  BY <1>0, <1>3, <1>4
<1>6. log \in Seq(Tokens) /\ t.path \in Seq(Levels)
  BY <1>1, TokenKind DEF Finished, Chain
<1>7. frames' = FramesOf(f, Front(t.path))
  BY <1>0, <1>6, FramesShrink
<1> PICK g : g = heard'
  OBVIOUS
<1>8. CASE t.c.m \in BlockExits
  <2>1. l.m \in Enter /\ t.c = Call(Exit(l.m))
    BY <1>8 DEF Fits
  <2>2. g = h \o <<t.c>>
    BY <2>1, <1>0, <1>3
  <2>3. Heard(log, g, i)
    <3>1. Heard(log, h \o <<t.c>>, i)
      BY <1>6, HearOne
    <3> QED  BY <3>1, <2>2
  <2>4. After(t) = Front(t.path) /\ Behind(t) = t.at /\ t.c.m \notin {"EnterPicture", "ExitPictures", "ExitOps"}
    BY <1>8, EndBehind
  <2>5. ReaderAt(f, log, g, Behind(t), FramesOf(f, After(t)))
    <3>1. log[i].c.m \notin {"EnterPicture", "ExitPictures", "ExitOps"}
      BY <2>4
    <3>2. g \in Seq(Calls) /\ Len(g) = i /\ \A j \in 1..i : g[j] = log[j].c
      BY <2>3 DEF Heard
    <3>3. ReaderAt(f, log, g, Behind(log[i]), FramesOf(f, After(log[i])))
      BY <1>1, <3>1, <3>2, HearTo
    <3> QED  BY <3>3
  <2> QED  BY <2>4, <2>5, <1>5, <1>7
<1>9. CASE t.c.m = "ExitOps"
  <2>1. l.m \notin Enter
    BY <1>9 DEF Fits, Enter
  <2>2. g = h \o <<Call("ExitOps"), Call("ExitPicture")>> /\ t.c = Call("ExitOps")
    BY <2>1, <1>0, <1>3, <1>9, ListEndBehind
  <2>3. log[i].c.m # "ExitPicture"
    BY <1>9
  <2> PICK k \in 1..Len(log) : k = i + 1
    BY <1>1, <2>3, NextToken
  <2> PICK u \in Tokens : u = log[k]
    BY <1>6
  <2>4. u.at = Behind(t) /\ u.path = After(t) /\ Follows(t.c.m, u.c.m)
    BY <1>1, <2>3, NextToken
  <2>5. u.c.m = "ExitPicture"
    BY <2>4, <1>9 DEF Follows
  <2>6. u.at = t.at /\ u.path = t.path /\ Behind(u) = u.at /\ After(u) = Front(u.path) /\ u.c = Call("ExitPicture")
    BY <2>4, <2>5, <1>9, ListEndBehind
  <2>7. Heard(log, g, k)
    <3>1. i + 1 \in 1..Len(log) /\ t.c = log[i].c /\ u.c = log[i + 1].c
      OBVIOUS
    <3>2. Heard(log, h \o <<t.c, u.c>>, i + 1)
      BY <3>1, <1>6, HearTwo
    <3> QED  BY <3>2, <2>2, <2>6
  <2>8. ReaderAt(f, log, g, Behind(u), FramesOf(f, After(u)))
    <3>1. log[k].c.m \notin {"EnterPicture", "ExitPictures", "ExitOps"}
      BY <2>5
    <3>2. g \in Seq(Calls) /\ Len(g) = k /\ \A j \in 1..k : g[j] = log[j].c
      BY <2>7 DEF Heard
    <3>3. ReaderAt(f, log, g, Behind(log[k]), FramesOf(f, After(log[k])))
      BY <1>1, <3>1, <3>2, HearTo
    <3> QED  BY <3>3
  <2> QED  BY <2>6, <2>8, <1>5, <1>7
<1> QED  BY <1>4, <1>8, <1>9

(***************************************************************************)
(* The reader between the pictures inside a picture.                       *)
(***************************************************************************)
LEMMA PictureBehind ==
  ASSUME NEW t \in Tokens, t.c.m = "EnterPicture"
  PROVE  /\ Behind(t) = t.at + 3 /\ After(t) = Append(Met(t.path), Level("EnterPicture", "pictures", t.at, 0))
         /\ Level("EnterPicture", "pictures", t.at, 0) \in Levels /\ t.c = Call("EnterPicture")
<1>1. t.c.m \in Structure
  BY DEF Structure
<1>2. ~IsOp(t.c) /\ t.c = Call("EnterPicture") /\ t.at \in Nat
  BY <1>1, OpNamed, TokenKind
<1>3. Level("EnterPicture", "pictures", t.at, 0) \in Levels
  BY <1>2 DEF Level, Levels
<1> QED  BY <1>2, <1>3 DEF Behind, After

LEMMA OpsBehind ==
  ASSUME NEW t \in Tokens, t.c.m = "EnterOps"
  PROVE  /\ Behind(t) = t.at + 1 /\ After(t) = Append(Front(t.path), Level("EnterPicture", "ops", t.at + 1, 0))
         /\ Level("EnterPicture", "ops", t.at + 1, 0) \in Levels /\ t.c = Call("EnterOps")
<1>1. t.c.m \in Structure
  BY DEF Structure
<1>2. ~IsOp(t.c) /\ t.c = Call("EnterOps") /\ t.at \in Nat /\ t.at + 1 \in Nat
  BY <1>1, OpNamed, TokenKind
<1>3. Level("EnterPicture", "ops", t.at + 1, 0) \in Levels
  BY <1>2 DEF Level, Levels
<1> QED  BY <1>2, <1>3 DEF Behind, After

\* What the reader may meet between pictures.
LEMMA PicturesToken ==
  ASSUME NEW f \in Seq(FileCells), NEW t \in Tokens, t.path # <<>>, Fits(t), Tells(f, t), t.c.m # "EnterPictures",
         NEW l \in Levels, l = t.path[Len(t.path)], l.form = "pictures"
  PROVE  /\ Frame(f, l) = [form |-> "pictures", count |-> f[l.base + 3].v, left |-> f[l.base + 3].v - l.nth]
         /\ f[l.base + 3].v \in Nat /\ l.nth \in Nat
         /\ f[l.base + 3].v - l.nth > 0 => t.c.m = "EnterPicture"
         /\ f[l.base + 3].v - l.nth = 0 => t.c.m \in {"ExitPictures", "EnterOps"} /\ f[l.base + 3].v = l.nth
<1>1. Frame(f, l) = [form |-> "pictures", count |-> f[l.base + 3].v, left |-> f[l.base + 3].v - l.nth]
  BY DEF Frame
<1>2. t.c.m \in {"EnterPicture", "ExitPictures", "EnterOps"}
  BY DEF Fits
<1>3. l.base \in Nat /\ l.nth \in Nat /\ Len(f) \in Nat
  BY DEF Levels
<1>4. l.base + 3 <= Len(f)
  BY <1>2 DEF Tells
<1> PICK q \in 1..Len(f) : q = l.base + 3
  BY <1>3, <1>4
<1>5. f[q] \in FileCells
  OBVIOUS
<1> PICK v \in Nat : v = f[q].v
  BY <1>5 DEF FileCells
<1> PICK n \in Nat : n = l.nth
  BY <1>3
<1>6. CASE t.c.m = "EnterPicture"
  <2>1. v > n
    BY <1>6 DEF Tells
  <2> QED  BY <2>1, <1>1, <1>6
<1>7. CASE t.c.m \in {"ExitPictures", "EnterOps"}
  <2>1. f[l.base + 3].v = l.nth
    BY <1>7 DEF Tells
  <2>2. v = n /\ f[l.base + 3].v = v
    BY <2>1
  <2>3. ~(v - n > 0)
    BY <2>2
  <2> QED  BY <2>1, <2>2, <2>3, <1>1, <1>7
<1> QED  BY <1>2, <1>6, <1>7

\* The reader is before a picture, the outermost one or one inside.
LEMMA AtPicture ==
  ASSUME NEW log, Finished(file, log), ReaderAt(file, log, heard, pos, frames), ReadPicture
  PROVE  \E i \in 1..Len(log), t \in Tokens :
            /\ t = log[i] /\ Heard(log, heard, i - 1) /\ t.c.m = "EnterPicture" /\ pos = t.at /\ Met(t.path) \in Seq(Levels)
            /\ (IF frames = <<>> THEN <<>> ELSE [frames EXCEPT ![Len(frames)].left = @ - 1]) = FramesOf(file, Met(t.path))
<1> PICK f \in Seq(FileCells) : f = file
  BY DEF Finished
<1> PICK h, p, fr : h = heard /\ p = pos /\ fr = frames
  OBVIOUS
<1>0. h = <<>> \/ (fr # <<>> /\ Last(fr).form = "pictures" /\ Last(fr).left > 0)
  BY DEF ReadPicture, Reading, Top
<1>1. Finished(f, log) /\ ReaderAt(f, log, h, p, fr)
  OBVIOUS
<1>2. log \in Seq(Tokens) /\ Len(log) \in Nat \ {0} /\ 1 \in 1..Len(log) /\ log[1] = First /\ First \in Tokens
  <2>1. log \in Seq(Tokens) /\ log # <<>> /\ log[1] = First
    BY <1>1 DEF Finished, Chain
  <2> QED  BY <2>1, EmptySeq, ChainStarts
<1>3. CASE h = <<>>
  <2>1. Len(h) = 0 /\ h \in Seq(Calls)
    BY <1>1, <1>3 DEF ReaderAt
  <2>2. Heard(log, h, 1 - 1)
    BY <2>1 DEF Heard
  <2>3. First.c.m = "EnterPicture" /\ First.at = 0 /\ First.path = <<>>
    BY DEF First, Call
  <2>4. Len(h) < Len(log) /\ Len(h) + 1 = 1
    BY <2>1, <1>2
  <2>5. p = First.at /\ fr = FramesOf(f, First.path)
    BY <2>4, <1>1, <1>2 DEF ReaderAt
  <2> PICK e \in Seq(Levels) : e = <<>> /\ Len(e) = 0
    BY EmptySeq
  <2>6. FramesOf(f, e) = <<>>
    <3>1. FramesOf(f, e) \in Seq(FrameSet(f)) /\ Len(FramesOf(f, e)) = 0
      BY FramesFacts
    <3> QED  BY <3>1, EmptySeq
  <2>7. Met(First.path) = e
    BY <2>3 DEF Met
  <2> QED  BY <2>2, <2>3, <2>5, <2>6, <2>7, <1>2
<1>4. CASE h # <<>>
  <2>1. Finished(f, log) /\ ReaderAt(f, log, h, p, fr) /\ fr # <<>>
    BY <1>0, <1>1, <1>4
  <2> PICK i \in 1..Len(log), t \in Tokens :
            /\ t = log[i] /\ Heard(log, h, i - 1) /\ Tells(f, t) /\ Fits(t) /\ t.path # <<>>
            /\ p = t.at /\ fr = FramesOf(f, t.path) /\ Last(fr) = Frame(f, t.path[Len(t.path)])
            /\ t.c.m \notin {"EnterPictures", "ExitPicture"} /\ (t.c.m = "EnterOps" => t.path[Len(t.path)].nth = 0)
    BY ONLY <2>1, ReaderToken
  <2> PICK l \in Levels : l = t.path[Len(t.path)]
    BY TopLevel
  <2>2. l.form = "pictures"
    <3>1. Frame(f, l).form = "pictures"
      BY <1>0, <1>4
    <3> QED  BY <3>1, FrameForm
  <2>3. t.c.m = "EnterPicture" /\ f[l.base + 3].v \in Nat
    <3>1. Frame(f, l).left = f[l.base + 3].v - l.nth
      BY <2>2, PicturesToken
    <3>2. f[l.base + 3].v - l.nth > 0
      BY <3>1, <1>0, <1>4
    <3> QED  BY <3>2, <2>2, PicturesToken
  <2>4. t.path \in Seq(Levels)
    BY TokenKind
  <2>5. [fr EXCEPT ![Len(fr)].left = @ - 1] = FramesOf(f, Met(t.path)) /\ Met(t.path) \in Seq(Levels)
    <3> PICK path \in Seq(Levels) : path = t.path
      BY <2>4
    <3>1. path # <<>> /\ path[Len(path)].form = "pictures" /\ f[path[Len(path)].base + 3].v \in Nat
      BY <2>2, <2>3
    <3>2. FramesOf(f, Met(path)) = [FramesOf(f, path) EXCEPT ![Len(FramesOf(f, path))].left = @ - 1] /\ Met(path) \in Seq(Levels)
      BY ONLY <3>1, path \in Seq(Levels), FramesMet
    <3> QED  BY <3>2
  <2> QED  BY <2>1, <2>3, <2>5
<1> QED  BY <1>3, <1>4

\* One call, and two.
LEMMA CallsInTurn ==
  ASSUME NEW a \in Calls, NEW b \in Calls
  PROVE  <<a>> \o <<b>> = <<a, b>> /\ <<a>> \o <<>> = <<a>> /\ <<>> \o <<a>> = <<a>>
<1> PICK s \in Seq(Calls) : s = <<a>>
  <2>1. <<a>> \in Seq(Calls)
    OBVIOUS
  <2> QED  BY <2>1
<1>1. s \o <<>> = s /\ <<>> \o s = s
  BY ConcatEmptySeq
<1>2. <<a>> \o <<b>> = <<a, b>>
  <2> PICK r \in Seq(Calls) : r = <<b>>
    <3>1. <<b>> \in Seq(Calls)
      OBVIOUS
    <3> QED  BY <3>1
  <2> PICK u \in Seq(Calls) : u = <<a, b>>
    <3>1. <<a, b>> \in Seq(Calls)
      OBVIOUS
    <3> QED  BY <3>1
  <2> PICK v \in Seq(Calls) : v = s \o r
    BY JoinTypes
  <2>1. Len(s) = 1 /\ s[1] = a /\ Len(r) = 1 /\ r[1] = b
    OBVIOUS
  <2>2. Len(u) = 2 /\ u[1] = a /\ u[2] = b
    OBVIOUS
  <2>3. Len(v) = 2 /\ v[1] = a /\ v[2] = b
    BY <2>1
  <2>4. \A i \in 1..2 : u[i] = v[i]
    <3> SUFFICES ASSUME NEW i \in 1..2  PROVE u[i] = v[i]
      OBVIOUS
    <3>1. CASE i = 1
      BY <3>1, <2>2, <2>3
    <3>2. CASE i = 2
      BY <3>2, <2>2, <2>3
    <3>3. i = 1 \/ i = 2
      BY ONLY i \in 1..2
    <3> QED  BY <3>1, <3>2, <3>3
  <2> QED  BY <2>2, <2>3, <2>4, SeqEqual
<1> QED  BY <1>1, <1>2

LEMMA ReadPictureAt ==
  ASSUME NEW log, Finished(file, log), ReaderAt(file, log, heard, pos, frames), ReadPicture
  PROVE  ReaderAt(file, log, heard', pos', frames')
<1> PICK f \in Seq(FileCells) : f = file
  BY DEF Finished
<1> PICK h, p : h = heard /\ p = pos
  OBVIOUS
<1> PICK rest : rest = IF frames = <<>> THEN <<>> ELSE [frames EXCEPT ![Len(frames)].left = @ - 1]
  OBVIOUS
<1> PICK i \in 1..Len(log), t \in Tokens :
            /\ t = log[i] /\ Heard(log, h, i - 1) /\ t.c.m = "EnterPicture" /\ p = t.at /\ Met(t.path) \in Seq(Levels)
            /\ rest = FramesOf(f, Met(t.path))
  BY AtPicture, ZenonT(40)
<1> PICK count : count = At32(f, p + 2)
  OBVIOUS
<1>0. /\ frames' = Append(rest, [form |-> "pictures", count |-> count, left |-> count]) /\ pos' = p + 3
      /\ heard' = h \o (<<Call("EnterPicture")>> \o IF count > 0 THEN <<Call("EnterPictures")>> ELSE <<>>)
  BY DEF ReadPicture, Read32, Hear, Visit
<1>1. Finished(f, log) /\ log \in Seq(Tokens)
  BY DEF Finished, Chain
<1>2. log[i].c.m # "ExitPicture"
  OBVIOUS
<1> PICK k \in 1..Len(log) : k = i + 1
  BY <1>1, <1>2, NextToken
<1> PICK u \in Tokens : u = log[k]
  BY <1>1
<1>3. u.at = Behind(t) /\ u.path = After(t) /\ Fits(u) /\ Follows(t.c.m, u.c.m) /\ Tells(f, u)
  BY <1>1, <1>2, NextToken
<1> PICK r \in Seq(Levels) : r = Met(t.path)
  OBVIOUS
<1> PICK l \in Levels : l = Level("EnterPicture", "pictures", t.at, 0)
  BY PictureBehind
<1>4. u.at = t.at + 3 /\ u.path = Append(r, l) /\ t.c = Call("EnterPicture") /\ u.c.m \in {"EnterPictures", "EnterOps"}
  BY <1>3, PictureBehind DEF Follows
<1>5. u.path \in Seq(Levels) /\ u.path # <<>> /\ u.path[Len(u.path)] = l
  <2> PICK s \in Seq(Levels) : s = Append(r, l)
    BY AppendFacts
  <2>1. Len(r) \in Nat /\ Len(s) = Len(r) + 1 /\ s[Len(r) + 1] = l
    BY AppendFacts
  <2>2. s # <<>> /\ s[Len(s)] = l
    BY <2>1
  <2> QED  BY <2>2, <1>4
<1>6. l.nth = 0 /\ l.base = t.at /\ l.form = "pictures"
  BY DEF Level
<1>7. t.at + 3 <= Len(f) /\ t.at \in Nat /\ Len(f) \in Nat
  <2>1. u.at <= Len(f)
    BY <1>3 DEF Tells
  <2> QED  BY <2>1, <1>4, TokenKind
<1>8. count = f[t.at + 3].v
  <2>1. p + 2 < Len(f) /\ p + 2 + 1 = t.at + 3
    BY <1>7
  <2> QED  BY <2>1 DEF At32
<1> PICK v \in Nat : v = count
  <2>1. t.at + 3 \in 1..Len(f)
    BY <1>7
  <2> PICK q \in 1..Len(f) : q = t.at + 3
    BY <2>1
  <2>2. f[q] \in FileCells
    OBVIOUS
  <2>3. f[q].v \in Nat
    BY <2>2 DEF FileCells
  <2> QED  BY <2>3, <1>8
<1>9. frames' = FramesOf(f, u.path) /\ pos' = u.at
  <2>1. FramesOf(f, Append(r, l)) = Append(FramesOf(f, r), Frame(f, l))
    BY FramesGrow
  <2>2. Frame(f, l) = [form |-> "pictures", count |-> v, left |-> v]
    <3>1. v - 0 = v
      OBVIOUS
    <3> QED  BY <3>1, <1>6, <1>8 DEF Frame
  <2> QED  BY <2>1, <2>2, <1>0, <1>4
<1> PICK g : g = heard'
  OBVIOUS
<1>10. CASE u.c.m = "EnterPictures"
  <2>1. v > 0
    BY <1>3, <1>5, <1>6, <1>8, <1>10 DEF Tells
  <2>2. u.c = Call("EnterPictures") /\ Behind(u) = u.at /\ After(u) = u.path
    BY <1>10, ListEndBehind
  <2>3. g = h \o <<Call("EnterPicture"), Call("EnterPictures")>>
    <3>1. t.c \in Calls /\ u.c \in Calls
      BY TokenKind
    <3> PICK a \in Calls, b \in Calls : a = t.c /\ b = u.c
      BY <3>1
    <3>2. a = Call("EnterPicture") /\ b = Call("EnterPictures")
      BY <2>2, <1>4
    <3>3. count > 0
      BY <2>1
    <3> PICK c : c = IF count > 0 THEN <<Call("EnterPictures")>> ELSE <<>>
      OBVIOUS
    <3>4. c = <<b>>
      BY <3>2, <3>3
    <3>5. g = h \o (<<a>> \o c)
      BY <1>0, <3>2
    <3>6. <<a>> \o <<b>> = <<a, b>>
      BY ONLY a \in Calls, b \in Calls, CallsInTurn
    <3>7. g = h \o <<a, b>>
      BY ONLY <3>4, <3>5, <3>6
    <3> QED  BY <3>2, <3>7
  <2>4. Heard(log, g, k)
    <3>1. i + 1 \in 1..Len(log) /\ t.c = log[i].c /\ u.c = log[i + 1].c
      OBVIOUS
    <3>2. Heard(log, h \o <<t.c, u.c>>, i + 1)
      BY <3>1, <1>1, HearTwo
    <3> QED  BY <3>2, <2>2, <2>3, <1>4
  <2>5. ReaderAt(f, log, g, Behind(u), FramesOf(f, After(u)))
    <3>1. log[k].c.m \notin {"EnterPicture", "ExitPictures", "ExitOps"}
      BY <1>10
    <3>2. g \in Seq(Calls) /\ Len(g) = k /\ \A j \in 1..k : g[j] = log[j].c
      BY <2>4 DEF Heard
    <3>3. ReaderAt(f, log, g, Behind(log[k]), FramesOf(f, After(log[k])))
      BY <1>1, <3>1, <3>2, HearTo
    <3> QED  BY <3>3
  <2> QED  BY <2>2, <2>5, <1>9
<1>11. CASE u.c.m = "EnterOps"
  <2>1. v = 0
    BY <1>3, <1>6, <1>5, <1>8, <1>11 DEF Tells
  <2>2. g = h \o <<t.c>>
    <3>1. ~(count > 0)
      BY <2>1
    <3>2. <<Call("EnterPicture")>> \o <<>> = <<Call("EnterPicture")>>
      <4>1. t.c \in Calls
        BY TokenKind
      <4>2. <<t.c>> \o <<>> = <<t.c>>
        BY ONLY <4>1, CallsInTurn
      <4> QED  BY <4>2, <1>4
    <3> QED  BY <3>1, <3>2, <1>0, <1>4
  <2>3. Heard(log, g, i)
    <3>1. Heard(log, h \o <<t.c>>, i)
      BY <1>1, HearOne
    <3> QED  BY <3>1, <2>2
  <2>4. i < Len(log) /\ Len(log) \in Nat
    BY <1>1
  <2>5. Len(g) = i /\ g \in Seq(Calls) /\ \A j \in 1..Len(g) : g[j] = log[j].c
    BY <2>3 DEF Heard
  <2>6. ReaderAt(f, log, g, u.at, FramesOf(f, u.path))
    <3>1. Len(g) < Len(log) /\ Len(g) # Len(log) /\ Len(g) <= Len(log) /\ log[Len(g) + 1] = u
      BY <2>4, <2>5
    <3>2. u.c.m \notin {"EnterPictures", "ExitPicture"} /\ u.path[Len(u.path)].nth = 0
      BY <1>5, <1>6, <1>11
    <3> QED  BY <2>5, <3>1, <3>2 DEF ReaderAt
  <2> QED  BY <2>6, <1>9
<1> QED  BY <1>4, <1>10, <1>11

LEMMA ReadOpsAt ==
  ASSUME NEW log, Finished(file, log), ReaderAt(file, log, heard, pos, frames), ReadOps
  PROVE  ReaderAt(file, log, heard', pos', frames')
<1> PICK f \in Seq(FileCells) : f = file
  BY DEF Finished
<1> PICK h, p, fr : h = heard /\ p = pos /\ fr = frames
  OBVIOUS
<1>0. /\ fr # <<>> /\ Last(fr).form = "pictures" /\ Last(fr).left = 0 /\ pos' = p + 1
      /\ frames' = Append(Front(fr), [form |-> "ops", block |-> FALSE, exit |-> <<Call("ExitOps"), Call("ExitPicture")>>, beg |-> p + 1, size |-> At32(f, p)])
      /\ heard' = h \o ((IF Last(fr).count > 0 THEN <<Call("ExitPictures")>> ELSE <<>>) \o <<Call("EnterOps")>>)
  BY DEF ReadOps, Reading, Top, Hear, Visit, Read32
<1>1. Finished(f, log) /\ ReaderAt(f, log, h, p, fr) /\ fr # <<>>
  BY <1>0
<1> PICK i \in 1..Len(log), t \in Tokens :
            /\ t = log[i] /\ Heard(log, h, i - 1) /\ Tells(f, t) /\ Fits(t) /\ t.path # <<>>
            /\ p = t.at /\ fr = FramesOf(f, t.path) /\ Last(fr) = Frame(f, t.path[Len(t.path)])
            /\ t.c.m \notin {"EnterPictures", "ExitPicture"} /\ (t.c.m = "EnterOps" => t.path[Len(t.path)].nth = 0)
  BY ONLY <1>1, ReaderToken
<1> PICK l \in Levels : l = t.path[Len(t.path)]
  BY TopLevel
<1>2. l.form = "pictures"
  <2>1. Frame(f, l).form = "pictures"
    BY <1>0
  <2> QED  BY <2>1, FrameForm
<1>3. /\ Last(fr).count = l.nth /\ l.nth \in Nat
      /\ t.c.m \in {"ExitPictures", "EnterOps"}
  <2>1. Frame(f, l).left = f[l.base + 3].v - l.nth /\ Frame(f, l).count = f[l.base + 3].v
    BY <1>2, PicturesToken
  <2>2. f[l.base + 3].v - l.nth = 0
    BY <2>1, <1>0
  <2> QED  BY <2>1, <2>2, <1>2, PicturesToken
<1>4. log \in Seq(Tokens) /\ t.path \in Seq(Levels) /\ t.at \in Nat /\ Len(f) \in Nat /\ Len(log) \in Nat
  BY <1>1, TokenKind DEF Finished, Chain
<1> PICK g : g = heard'
  OBVIOUS
<1>5. ASSUME NEW k \in 1..Len(log), NEW u \in Tokens, u = log[k], u.c.m = "EnterOps", u.at = t.at, u.path = t.path, Heard(log, g, k)
      PROVE  ReaderAt(f, log, heard', pos', frames')
  <2> PICK e \in Levels : e = Level("EnterPicture", "ops", t.at + 1, 0)
    BY <1>5, OpsBehind
  <2> PICK r \in Seq(Levels) : r = Front(t.path)
    BY <1>4, FramesShrink
  <2>1. Behind(u) = t.at + 1 /\ After(u) = Append(r, e)
    BY <1>5, OpsBehind
  <2>2. log[k].c.m \notin {"EnterPicture", "ExitPictures", "ExitOps", "ExitPicture"}
    BY <1>5
  <2>3. t.at + 1 <= Len(f)
    <3>1. log[k + 1].at = Behind(log[k]) /\ Tells(f, log[k + 1])
      BY <1>1, <2>2, NextToken
    <3> QED  BY <3>1, <2>1, <1>5 DEF Tells
  <2>4. At32(f, p) = f[t.at + 1].v
    <3>1. p < Len(f)
      BY <2>3, <1>4
    <3> QED  BY <3>1 DEF At32
  <2>5. Frame(f, e) = [form |-> "ops", block |-> FALSE, exit |-> <<Call("ExitOps"), Call("ExitPicture")>>, beg |-> t.at + 1, size |-> f[t.at + 1].v]
    <3>1. e.form = "ops" /\ e.m = "EnterPicture" /\ e.base = t.at + 1
      BY DEF Level
    <3>2. (e.m \in Enter) = FALSE
      BY <3>1 DEF Enter
    <3> QED  BY <3>1, <3>2 DEF Frame
  <2>6. frames' = FramesOf(f, After(u)) /\ pos' = Behind(u)
    <3>1. FramesOf(f, r) = Front(fr)
      BY <1>4, FramesShrink
    <3>2. FramesOf(f, Append(r, e)) = Append(FramesOf(f, r), Frame(f, e))
      BY FramesGrow
    <3> QED  BY <3>1, <3>2, <2>1, <2>4, <2>5, <1>0
  <2>7. g \in Seq(Calls) /\ Len(g) = k /\ \A j \in 1..k : g[j] = log[j].c
    BY <1>5 DEF Heard
  <2>8. ReaderAt(f, log, g, Behind(log[k]), FramesOf(f, After(log[k])))
    BY <1>1, <2>2, <2>7, HearTo
  <2> QED  BY <2>6, <2>8, <1>5
<1>6. CASE t.c.m = "ExitPictures"
  <2>1. l.nth > 0
    BY <1>6 DEF Fits
  <2>2. log[i].c.m # "ExitPicture"
    BY <1>6
  <2> PICK k \in 1..Len(log) : k = i + 1
    BY <1>1, <2>2, NextToken
  <2> PICK u \in Tokens : u = log[k]
    BY <1>4
  <2>3. u.at = Behind(t) /\ u.path = After(t) /\ Follows(t.c.m, u.c.m)
    BY <1>1, <2>2, NextToken
  <2>4. u.c.m = "EnterOps"
    BY <2>3, <1>6 DEF Follows
  <2>5. u.at = t.at /\ u.path = t.path /\ t.c = Call("ExitPictures") /\ u.c = Call("EnterOps")
    BY <2>3, <2>4, <1>6, ListEndBehind, OpsBehind
  <2>6. g = h \o <<t.c, u.c>>
    <3>1. t.c \in Calls /\ u.c \in Calls
      BY TokenKind
    <3> PICK a \in Calls, b \in Calls : a = t.c /\ b = u.c
      BY <3>1
    <3>2. a = Call("ExitPictures") /\ b = Call("EnterOps")
      BY <2>5
    <3>3. Last(fr).count > 0
      BY <2>1, <1>3
    <3> PICK c : c = IF Last(fr).count > 0 THEN <<Call("ExitPictures")>> ELSE <<>>
      OBVIOUS
    <3>4. c = <<a>>
      BY <3>2, <3>3
    <3>5. g = h \o (c \o <<b>>)
      BY <1>0, <3>2
    <3>6. <<a>> \o <<b>> = <<a, b>>
      BY ONLY a \in Calls, b \in Calls, CallsInTurn
    <3>7. g = h \o <<a, b>>
      BY ONLY <3>4, <3>5, <3>6
    <3> QED  BY <3>2, <3>7
  <2>7. Heard(log, g, k)
    <3>1. i + 1 \in 1..Len(log) /\ t.c = log[i].c /\ u.c = log[i + 1].c
      OBVIOUS
    <3>2. Heard(log, h \o <<t.c, u.c>>, i + 1)
      BY <3>1, <1>4, HearTwo
    <3> QED  BY <3>2, <2>6
  <2> QED  BY <2>4, <2>5, <2>7, <1>5
<1>7. CASE t.c.m = "EnterOps"
  <2>1. ~(Last(fr).count > 0)
    BY <1>3, <1>7
  <2>2. g = h \o <<t.c>>
    <3>1. t.c = Call("EnterOps") /\ t.c \in Calls
      BY <1>7, OpsBehind, TokenKind
    <3>2. <<>> \o <<t.c>> = <<t.c>>
      BY ONLY <3>1, CallsInTurn
    <3> QED  BY <3>1, <3>2, <2>1, <1>0
  <2>3. Heard(log, g, i)
    <3>1. Heard(log, h \o <<t.c>>, i)
      BY <1>4, HearOne
    <3> QED  BY <3>1, <2>2
  <2> QED  BY <2>3, <1>5, <1>7
<1> QED  BY <1>3, <1>6, <1>7

(***************************************************************************)
(* The reader, step by step, and beside the writer.                        *)
(***************************************************************************)
LEMMA NothingToRead ==
  ASSUME ~Complete, ReaderNext
  PROVE  FALSE
<1>1. ~ReadPicture
  BY DEF ReadPicture, Reading
<1>2. ~ReadOps
  BY DEF ReadOps, Reading
<1>3. ~ReadBlock
  BY DEF ReadBlock, MoreOps, Reading
<1>4. ~ReadState
  BY DEF ReadState, MoreOps, Reading
<1>5. ~ReadOp
  BY DEF ReadOp, AtOp, MoreOps, Reading
<1>6. ~ReadEnd
  BY DEF ReadEnd, Reading
<1> QED  BY <1>1, <1>2, <1>3, <1>4, <1>5, <1>6 DEF ReaderNext

LEMMA NothingToWrite ==
  ASSUME WriterInv, Complete, WriterNext
  PROVE  FALSE
<1>0. pictures = <<>> /\ told # <<>> /\ blocks = <<>> /\ \A S : ~At(S)
  BY DEF Complete, WriterInv, BlocksInv, At
<1>1. ~EnterPicture
  BY <1>0 DEF EnterPicture
<1>2. ~ExitPicture /\ ~EnterPictures /\ ~ExitPictures /\ ~EnterOps /\ ~ExitOps
  BY <1>0 DEF ExitPicture, EnterPictures, ExitPictures, EnterOps, ExitOps
<1>3. ~EnterBlock /\ ~Draw
  BY <1>0 DEF EnterBlock, Draw
<1>4. ~ExitBlock
  BY <1>0 DEF ExitBlock
<1> QED  BY <1>1, <1>2, <1>3, <1>4 DEF WriterNext

LEMMA ReaderStep ==
  ASSUME WriterInv, NEW log, IsLog(log), ReaderInv(log), ReaderNext, UNCHANGED writer
  PROVE  IsLog(log)' /\ ReaderInv(log)'
<1>1. file' = file /\ pictures' = pictures /\ told' = told
  BY DEF writer
<1>2. Complete
  BY NothingToRead
<1>3. Complete'
  BY <1>1, <1>2 DEF Complete
<1>4. Finished(file, log)
  BY <1>2, FinishedLog
<1>5. ReaderAt(file, log, heard, pos, frames)
  BY <1>2 DEF ReaderInv
<1>6. ReaderAt(file, log, heard', pos', frames')
  <2>1. CASE ReadPicture
    BY <2>1, <1>4, <1>5, ReadPictureAt
  <2>2. CASE ReadOps
    BY <2>2, <1>4, <1>5, ReadOpsAt
  <2>3. CASE ReadBlock
    BY <2>3, <1>4, <1>5, ReadBlockAt
  <2>4. CASE ReadState \/ ReadOp
    BY <2>4, <1>4, <1>5, ReadOneAt
  <2>5. CASE ReadEnd
    BY <2>5, <1>4, <1>5, ReadEndAt
  <2> QED  BY <2>1, <2>2, <2>3, <2>4, <2>5 DEF ReaderNext
<1>7. ReaderInv(log)'
  BY <1>1, <1>3, <1>6 DEF ReaderInv
<1>8. IsLog(log)'
  BY LogStutters
<1> QED  BY <1>7, <1>8

LEMMA ReaderWaits ==
  ASSUME WriterInv, NEW log, IsLog(log), ReaderInv(log), WriterNext, UNCHANGED reader
  PROVE  \E l : IsLog(l)' /\ ReaderInv(l)'
<1>1. ~Complete
  BY NothingToWrite
<1>2. heard' = <<>> /\ frames' = <<>> /\ pos' = 0
  BY <1>1 DEF ReaderInv, reader
<1> PICK l : IsLog(l)'
  BY LogStep
<1>3. CASE Complete'
  <2>1. l # <<>>
    BY <1>3 DEF IsLog, Current, Complete
  <2>2. l \in Seq(Tokens) /\ l[1] = First
    BY <2>1 DEF IsLog, Chain
  <2>3. Len(l) \in Nat /\ Len(l) > 0
    BY <2>1, <2>2
  <2>4. First.at = 0 /\ First.path = <<>> /\ First.c.m = "EnterPicture"
    BY DEF First, Call
  <2>5. \A f : FramesOf(f, <<>>) = <<>>
    BY DEF FramesOf
  <2>6. \A f : ReaderAt(f, l, <<>>, 0, <<>>)
    <3> PICK h \in Seq(Calls) : h = <<>>
      BY EmptySeq
    <3>1. Len(h) = 0
      OBVIOUS
    <3>2. Len(h) # Len(l) /\ Len(h) < Len(l) /\ l[Len(h) + 1] = First /\ Len(h) <= Len(l)
      BY <3>1, <2>2, <2>3
    <3>3. \A i \in 1..Len(h) : h[i] = l[i].c
      BY <3>1
    <3>4. ASSUME NEW f  PROVE ReaderAt(f, l, h, 0, <<>>)
      BY <3>2, <3>3, <2>4, <2>5 DEF ReaderAt
    <3> QED  BY <3>4
  <2>7. ReaderInv(l)'
    BY <1>2, <1>3, <2>6 DEF ReaderInv
  <2> QED  BY <2>7
<1>4. CASE ~Complete'
  BY <1>2, <1>4 DEF ReaderInv
<1> QED  BY <1>3, <1>4

Tracked == \E log : IsLog(log) /\ ReaderInv(log)

LEMMA TrackStarts == Start => Tracked
<1> SUFFICES ASSUME Start  PROVE Tracked
  OBVIOUS
<1>1. IsLog(<<>>)
  BY LogStarts DEF Start
<1>2. ~Complete /\ heard = <<>> /\ frames = <<>> /\ pos = 0
  BY DEF Start, Init, Complete
<1>3. ReaderInv(<<>>)
  BY <1>2 DEF ReaderInv
<1> QED  BY <1>1, <1>3 DEF Tracked

LEMMA TrackStep ==
  ASSUME WriterInv, Tracked, [Next]_vars
  PROVE  Tracked'
<1> PICK log : IsLog(log) /\ ReaderInv(log)
  BY DEF Tracked
<1>1. CASE WriterNext /\ UNCHANGED reader
  <2>1. \E l : IsLog(l)' /\ ReaderInv(l)'
    BY <1>1, ReaderWaits
  <2> QED  BY <2>1 DEF Tracked
<1>2. CASE ReaderNext /\ UNCHANGED writer
  <2>1. IsLog(log)' /\ ReaderInv(log)'
    BY <1>2, ReaderStep
  <2> QED  BY <2>1 DEF Tracked
<1>3. CASE UNCHANGED vars
  <2>1. UNCHANGED writer /\ UNCHANGED reader
    BY <1>3 DEF vars
  <2>2. IsLog(log)'
    BY <2>1, LogStutters
  <2>3. ReaderInv(log)'
    BY <2>1 DEF writer, reader, ReaderInv, Complete
  <2> QED  BY <2>2, <2>3 DEF Tracked
<1> QED  BY <1>1, <1>2, <1>3 DEF Next

LEMMA PrefixSaid ==
  ASSUME NEW log, Chain(log), NEW h \in Seq(Calls), Len(h) <= Len(log), \A i \in 1..Len(h) : h[i] = log[i].c
  PROVE  IsPrefix(h, Said(log)) /\ (Len(h) = Len(log) => h = Said(log))
<1> PICK s \in Seq(Calls) : s = Said(log)
  BY SaidFacts
<1> PICK n \in Nat : n = Len(h)
  OBVIOUS
<1> PICK k \in Nat : k = Len(s)
  OBVIOUS
<1>1. k = Len(log) /\ n <= k /\ \A i \in 1..k : s[i] = log[i].c
  BY SaidFacts
<1>2. \A i \in 1..n : h[i] = s[i] /\ s[i] \in Calls /\ h[i] \in Calls
  BY <1>1
<1> PICK a : a = SubSeq(h, 1, n)
  OBVIOUS
<1> PICK b : b = SubSeq(s, 1, n)
  OBVIOUS
<1>3. a \in Seq(Calls) /\ Len(a) = n /\ \A i \in 1..n : a[i] = h[i]
  BY <1>2, SubSeqProperties
<1>4. b \in Seq(Calls) /\ Len(b) = n /\ \A i \in 1..n : b[i] = s[i]
  BY <1>2, SubSeqProperties
<1>5. a = b
  BY <1>2, <1>3, <1>4, SeqEqual
<1>6. IsPrefix(h, s)
  BY <1>1, <1>5 DEF IsPrefix
<1>7. ASSUME n = k  PROVE h = s
  BY <1>7, <1>2, SeqEqual
<1> QED  BY <1>1, <1>6, <1>7

LEMMA TrackedIsSafe ==
  ASSUME WriterInv, Tracked
  PROVE  HearsWhatWasTold
<1> PICK log : IsLog(log) /\ ReaderInv(log)
  BY DEF Tracked
<1>1. CASE ~Complete
  <2>1. heard = <<>> /\ pos = 0 /\ file \in Seq(FileCells)
    BY <1>1 DEF ReaderInv, WriterInv, WriterTypes
  <2> QED  BY <1>1, <2>1 DEF HearsWhatWasTold
<1>2. CASE Complete
  <2>1. Finished(file, log) /\ FoldLeft(Came, <<>>, told) = Said(log)
    BY <1>2, FinishedLog
  <2>2. ReaderAt(file, log, heard, pos, frames)
    BY <1>2 DEF ReaderInv
  <2>3. Chain(log) /\ Len(log) \in Nat /\ file \in Seq(FileCells) /\ log \in Seq(Tokens) /\ log # <<>>
    BY <2>1 DEF Finished, Chain
  <2> PICK h \in Seq(Calls) : h = heard
    BY <2>2 DEF ReaderAt
  <2>4. Len(h) <= Len(log) /\ Len(h) \in Nat /\ \A i \in 1..Len(h) : h[i] = log[i].c
    BY <2>2 DEF ReaderAt
  <2>5. IsPrefix(h, Said(log)) /\ (Len(h) = Len(log) => h = Said(log))
    BY <2>3, <2>4, PrefixSaid
  <2>6. CASE Len(h) = Len(log)
    <3>1. pos = Len(file)
      BY <2>2, <2>6 DEF ReaderAt
    <3> QED  BY <3>1, <2>1, <2>3, <2>5, <2>6 DEF HearsWhatWasTold
  <2>7. CASE Len(h) < Len(log)
    <3> PICK i \in 1..Len(log) : i = Len(h) + 1
      BY <2>7, <2>3, <2>4
    <3>1. pos = log[i].at /\ frames = FramesOf(file, log[i].path)
      BY <2>2, <2>7 DEF ReaderAt
    <3>2. log[i].at <= Len(file)
      BY <2>1 DEF Finished, Tells
    <3>3. ASSUME heard # <<>>, frames = <<>>  PROVE FALSE
      <4>1. i > 1
        BY <3>3, <2>4
      <4>2. log[i] \in Tokens /\ log[i].path # <<>>
        BY <4>1, <2>3, ChainTokens
      <4> PICK path \in Seq(Levels) : path = log[i].path
        BY <4>2 DEF Tokens
      <4>3. FramesOf(file, path) # <<>>
        BY <4>2, FramesShrink
      <4> QED  BY <4>3, <3>1, <3>3
    <3> QED  BY <3>1, <3>2, <3>3, <2>1, <2>5 DEF HearsWhatWasTold
  <2> QED  BY <2>3, <2>4, <2>6, <2>7
<1> QED  BY <1>1, <1>2

LEMMA TrackedReads ==
  ASSUME WriterInv, Tracked
  PROVE  ReadsEveryNumber
<1> PICK log : IsLog(log) /\ ReaderInv(log)
  BY DEF Tracked
<1> SUFFICES ASSUME AtOp  PROVE ReadOpcode(pos) \in KnownOps /\ ReadsAll(Dumped[2])
  BY DEF ReadsEveryNumber
<1>1. MoreOps /\ Complete /\ \A m \in Enter : ReadOpcode(pos) # EnterCode(m)
  BY DEF AtOp, MoreOps, Reading
<1>2. Finished(file, log)
  BY <1>1, FinishedLog
<1>3. ReaderAt(file, log, heard, pos, frames)
  BY <1>1 DEF ReaderInv
<1>4. ReadOpcode(pos) \in KnownOps /\ Agrees(file, pos + 2, Dumped[2]) /\ Len(Dumped[2]) = OpSize
  BY <1>1, <1>2, <1>3, AtOperation
<1> QED  BY <1>4 DEF ReadsAll

LEMMA TrackedAlways == Spec => [](WriterInv /\ Tracked)
<1>1. Start => Tracked
  BY TrackStarts
<1>2. WriterInv /\ Tracked /\ [Next]_vars => Tracked'
  BY TrackStep
<1> QED  BY <1>1, <1>2, WriterIsConsistent, PTL DEF Spec

(***************************************************************************)
(* HearsWhatWasTold, for every picture: the reader makes, call by call, the*)
(* calls that the writer was told, and ends where the file ends            *)
(* (PictureReaderBinary.cpp:618, :633).                                    *)
(***************************************************************************)
THEOREM ReaderHearsWhatWasTold == Spec => []HearsWhatWasTold
<1>1. WriterInv /\ Tracked => HearsWhatWasTold
  BY TrackedIsSafe
<1> QED  BY <1>1, TrackedAlways, PTL

(***************************************************************************)
(* ReadsEveryNumber, for every picture: DumpOp knows each operation in a   *)
(* file that was written, reads each of its numbers as the type it was     *)
(* written as, and nothing behind them (PictureReaderBinary.cpp:154).      *)
(***************************************************************************)
THEOREM ReaderReadsEveryNumber == Spec => []ReadsEveryNumber
<1>1. WriterInv /\ Tracked => ReadsEveryNumber
  BY TrackedReads
<1> QED  BY <1>1, TrackedAlways, PTL
=============================================================================
