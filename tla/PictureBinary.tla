--------------------------- MODULE PictureBinary ---------------------------
(***************************************************************************)
(* A file that PictureWriterBinary has written, read by PictureReaderBinary*)
(* (Accept, DumpOps, DumpOp), as when PictureDump and PictureCompile pass  *)
(* a picture on.  The reader is recursive; "frames" is its call stack.     *)
(* The calls it makes may go to PictureWriterYaml or PictureWriterView; the*)
(* same file may be read by PictureReaderPlay, and by the older dumpers    *)
(* (PictureDumps), whose own readers walk through it in the same steps.    *)
(***************************************************************************)
EXTENDS PictureWriterBinary, PictureWriterYaml, PictureReaderPlay, PictureDumps, PictureWriterView

VARIABLES
    pos,      \* the reader's position in the file
    frames,   \* the pictures and the lists of operations it is in
    heard,    \* the calls it has made to its visitor
    emitter,  \* the visitor, PictureWriterYaml: its YAML::Emitter
    dump      \* PictureDumpJson on the same file: its rapidjson::Writer

reader == <<pos, frames, heard, emitter, dump>>
vars == <<writer, reader>>

Start == Init /\ pos = 0 /\ frames = <<>> /\ heard = <<>> /\ emitter = NewEmitter /\ dump = NewWriter

Complete == told # <<>> /\ pictures = <<>>   \* the picture has been written

Read32(p) == At32(file, p)
ReadOpcode(p) == IF p < Len(file) THEN file[p + 1].op ELSE "none"

Top == Last(frames)
Reading(form) == Complete /\ frames # <<>> /\ Top.form = form
Visit(calls) == heard' = heard \o calls /\ emitter' = Emitted(emitter, calls)
Hear(calls) ==
    /\ Visit(calls)
    /\ dump' = Written(dump, FlattenSeq([i \in DOMAIN calls |-> WriteVisit(calls[i])]))

\* Accept: the version, the byte order and the count.
ReadPicture ==
    /\ (Complete /\ heard = <<>>) \/ (Reading("pictures") /\ Top.left > 0)
    /\ LET count == Read32(pos + 2)
           rest == IF frames = <<>> THEN <<>> ELSE [frames EXCEPT ![Len(frames)].left = @ - 1]
       IN  /\ frames' = Append(rest, [form |-> "pictures", count |-> count, left |-> count])
           /\ Hear(<<Call("EnterPicture")>> \o IF count > 0 THEN <<Call("EnterPictures")>> ELSE <<>>)
    /\ pos' = pos + 3

\* Accept: after the pictures, the size of the operations.
ReadOps ==
    /\ Reading("pictures") /\ Top.left = 0
    /\ frames' = Append(Front(frames), [form |-> "ops", block |-> FALSE, exit |-> <<Call("ExitOps"), Call("ExitPicture")>>, beg |-> pos + 1, size |-> Read32(pos)])
    /\ Hear((IF Top.count > 0 THEN <<Call("ExitPictures")>> ELSE <<>>) \o <<Call("EnterOps")>>)
    /\ pos' = pos + 1

MoreOps == Reading("ops") /\ pos < Top.beg + Top.size
OpSize == Read32(pos + 1)

ReadBlock == \E m \in Enter :
    /\ MoreOps /\ ReadOpcode(pos) = EnterCode(m)
    /\ frames' = Append(frames, [form |-> "ops", block |-> TRUE, exit |-> <<Call(Exit(m))>>, beg |-> pos + 2, size |-> OpSize])
    /\ Hear(<<Call(m)>>)
    /\ pos' = pos + 2

\* DumpOp, then DumpOps seeks to the next operation; one that is unknown is
\* passed over.
Dumped == Dump(file, pos + 2, ReadOpcode(pos), OpSize)
Misread == [Call("misread") EXCEPT !.n = pos]

\* PUSH_STATE and POP_STATE.
ReadState ==
    /\ MoreOps /\ ReadOpcode(pos) \in {"PUSH_STATE", "POP_STATE"}
    /\ Hear(<<Dumped[1]>>)
    /\ pos' = pos + 2 + OpSize
    /\ UNCHANGED frames

AtOp == MoreOps /\ ReadOpcode(pos) \notin {EnterCode(m) : m \in Enter} \cup {"PUSH_STATE", "POP_STATE"}

ReadOp ==
    /\ AtOp
    /\ Visit(CASE ReadOpcode(pos) \notin KnownOps -> <<>>
              [] Agrees(file, pos + 2, Dumped[2]) -> <<Dumped[1]>>
              [] OTHER -> <<Misread>>)
    /\ dump' = Written(dump, WriteOp(file, pos + 2, ReadOpcode(pos), OpSize))
    /\ pos' = pos + 2 + OpSize
    /\ UNCHANGED frames

\* A block ends and DumpOps seeks behind it, or the picture ends.
ReadEnd ==
    /\ Reading("ops") /\ ~MoreOps
    /\ frames' = Front(frames)
    /\ Hear(Top.exit)
    /\ pos' = IF Top.block THEN Top.beg + Top.size ELSE pos

ReaderNext == ReadPicture \/ ReadOps \/ ReadBlock \/ ReadState \/ ReadOp \/ ReadEnd

Next == (WriterNext /\ UNCHANGED reader) \/ (ReaderNext /\ UNCHANGED writer)

Spec == Start /\ [][Next]_vars

(***************************************************************************)
(* The calls that a picture comes back as: an empty list of pictures is    *)
(* not mentioned, and operations always are.                               *)
(***************************************************************************)
Came(calls, c) ==
    CASE c.m = "ExitPictures" /\ Last(calls).m = "EnterPictures" -> Front(calls)
      [] c.m = "ExitPicture" /\ Last(calls).m # "ExitOps" -> calls \o <<Call("EnterOps"), Call("ExitOps"), c>>
      [] OTHER -> Append(calls, c)

(***************************************************************************)
(* What the reader makes of the file is, call by call, what the writer was *)
(* told: no size or count (PictureReaderBinary.cpp:618, :642) leads it     *)
(* into the middle of something else or behind the end, and when it        *)
(* returns from the outermost picture it has read the file to its end.     *)
(***************************************************************************)
HearsWhatWasTold ==
    /\ pos <= Len(file)
    /\ Complete => IsPrefix(heard, FoldLeft(Came, <<>>, told))
    /\ heard # <<>> /\ frames = <<>> => pos = Len(file) /\ heard = FoldLeft(Came, <<>>, told)

\* What has these types is what the operation at pos has, to its end.
ReadsAll(types) == Agrees(file, pos + 2, types) /\ Len(types) = OpSize

(***************************************************************************)
(* Of every operation the reader reads each number that was written, as    *)
(* the type it was written as, and nothing behind it: DumpOp               *)
(* (PictureReaderBinary.cpp:154) and the writer agree on sixty layouts,    *)
(* and the seek that follows has nothing to make up for.                   *)
(***************************************************************************)
ReadsEveryNumber == AtOp => ReadOpcode(pos) \in KnownOps /\ ReadsAll(Dumped[2])

Misdumped == {"SET_CLIPPING_RECTS", "DRAW_PIXELS", "STROKE_LINE_GRADIENT", "SET_FONT_FALSE_BOLD_WIDTH"}
Mistold == {"DRAW_STRING", "DRAW_STRING_LOCATIONS", "DRAW_PIXELS", "SET_CLIPPING_RECTS", "SET_FONT_FAMILY", "SET_FONT_STYLE"}
Untold == {"STROKE_BEZIER", "FILL_BEZIER", "STROKE_POLYGON", "FILL_POLYGON", "STROKE_ARC", "FILL_ARC", "SET_BLENDING_MODE",
           "SET_FONT_BPP", "SET_FONT_FALSE_BOLD_WIDTH"}
          \cup ({Figures[m][k] : m \in DOMAIN Figures, k \in 3..4} \ {"FILL_RECT_GRADIENT", "STROKE_SHAPE_GRADIENT", "FILL_SHAPE_GRADIENT"})

Misnamed == {"DRAW_STRING", "DRAW_PIXELS"}

(***************************************************************************)
(* Of the older dumpers, PictureDumpJson takes other numbers or types than *)
(* were written for the four operations of Misdumped and no other, and it  *)
(* gives what it reads the name of another value for those of Misnamed and *)
(* no other: of a string the two deltas are exchanged (PictureDumpJson/    *)
(* PictureDump.cpp:358), of a bitmap the length is shown as data.          *)
(* PictureDump misreads those of Mistold, a string among them, and of      *)
(* those in Untold it prints the name.                                     *)
(***************************************************************************)
DumpersMisread ==
    AtOp =>
        LET op == ReadOpcode(pos)
            read == TextOp(file, pos + 2, op, OpSize)
        IN  /\ ReadsAll(ReadTypes(JsonOp(file, pos + 2, op, OpSize))) <=> op \notin Misdumped
            /\ NamedRight(Dumped[1]) <=> op \notin Misnamed
            /\ ReadsAll(read) <=> op \notin Mistold \cup Untold
            /\ read = <<>> /\ OpSize # 0 <=> op \in Untold

(***************************************************************************)
(* PictureDump from a binary file to YAML (PictureDump.cpp:88, :151), and  *)
(* PictureDumpJson: as long as a POP_STATE ends the PUSH_STATE before it   *)
(* and not something else, the emitter and the JSON writer accept every    *)
(* event, the lists they have open are the ones the reader's calls have    *)
(* entered and not left, and the document is complete when the outermost   *)
(* picture has been left.  The reader passes on whatever a file has        *)
(* (PictureReaderBinary.cpp:402), and to the outputs a group ends like a   *)
(* state change or a picture: a document may be accepted whose lists are   *)
(* not the picture's, but none with more POP_STATE than PUSH_STATE or less.*)
(***************************************************************************)
Leaves == [ExitPictures |-> "EnterPictures", ExitOps |-> "EnterOps", ExitStateChange |-> "EnterStateChange",
           ExitFontState |-> "EnterFontState", PopState |-> "PushState"]

Lists(at, c) ==
    CASE c.m \in Range(Leaves) -> [at EXCEPT !.open = Append(@, c.m)]
      [] c.m \in DOMAIN Leaves -> [open |-> Front(at.open), straight |-> at.straight /\ at.open # <<>> /\ Last(at.open) = Leaves[c.m]]
      [] OTHER -> at

HowMany(m) == Len(SelectSeq(heard, LAMBDA c : c.m = m))

DocumentsInStep ==
    LET at == FoldLeft(Lists, [open |-> <<>>, straight |-> TRUE], heard)
        end == heard # <<>> /\ frames = <<>>
        Opened(out) == SelectSeq(out.nest, LAMBDA l : l.kind = "seq")
        InStep(out) == out.good /\ Len(Opened(out)) = Len(at.open) /\ (out.done <=> end)
        Accepted(out) == end /\ out.good /\ out.done
    IN  /\ at.straight =>
              /\ InStep(emitter) /\ InStep(dump)
              /\ \A i \in DOMAIN at.open : Opened(emitter)[i].name = ListNames[at.open[i]]
        /\ Accepted(emitter) \/ Accepted(dump) => HowMany("PushState") = HowMany("PopState")
        /\ Accepted(emitter) <=> Accepted(dump)

(***************************************************************************)
(* The calls for the operations of the outermost picture.                  *)
(***************************************************************************)
Inside(found, c) ==
    CASE c.m = "EnterPicture" -> [found EXCEPT !.depth = @ + 1]
      [] c.m = "ExitPicture" -> [found EXCEPT !.depth = @ - 1]
      [] c.m \in {"EnterPictures", "ExitPictures", "EnterOps", "ExitOps"} -> found
      [] OTHER -> IF found.depth = 1 THEN [found EXCEPT !.ops = Append(@, c)] ELSE found
Outermost(calls) == FoldLeft(Inside, [depth |-> 0, ops |-> <<>>], calls).ops

(***************************************************************************)
(* PictureReaderPlay gives its visitor the calls that PictureReaderBinary  *)
(* gives for the outermost picture, in that order, but for the operations  *)
(* without a callback and for the polygon that is stroked with a gradient. *)
(***************************************************************************)
Unplayed(c) == c.m \in {"ClearClipping", "SetFontBpp", "SetFontFalseBoldWidth"} \/ (c.m = "DrawLine" /\ c.gradient # 0)
Filled(c) == IF c.m = "DrawPolygon" /\ c.gradient # 0 THEN [c EXCEPT !.stroke = FALSE] ELSE c

PlaysWhatIsRead ==
    heard # <<>> /\ frames = <<>> =>
        LET played == SelectSeq(Outermost(heard), LAMBDA c : ~Unplayed(c))
        IN  PlayAccept(Outermost(told)) =
                <<Call("EnterPicture"), Call("EnterOps")>> \o [i \in DOMAIN played |-> Filled(played[i])] \o <<Call("ExitOps"), Call("ExitPicture")>>

(***************************************************************************)
(* PictureWriterView, for every sequence of ViewLength of the calls of     *)
(* ViewCalls: up to the first call it aborts on it makes one call of the   *)
(* view for each call that is not SetPattern, in order.  A figure without  *)
(* a gradient gets the pattern that the picture means, which PopState puts *)
(* back, unless the last SetPattern (PictureWriterView.cpp:143) is one of  *)
(* a group that has ended; a figure with a gradient gets none.             *)
(***************************************************************************)
ViewLength == 5
ViewCalls == {Call("PushState"), Call("PopState"), Call("SetPattern"), Call("DrawRect"), [Call("DrawRect") EXCEPT !.gradient = 1], Call("ClipToPicture")}

Meant(p, c) ==   \* p: the pattern, what PushState has saved, the patterns before each call
    LET told1 == [p EXCEPT !.before = Append(@, p.pattern)]
    IN  CASE c.m = "SetPattern" -> [told1 EXCEPT !.pattern = Len(told1.before)]
          [] c.m = "PushState" -> [told1 EXCEPT !.saved = Append(@, p.pattern)]
          [] c.m = "PopState" /\ p.saved # <<>> -> [told1 EXCEPT !.pattern = Last(p.saved), !.saved = Front(@)]
          [] OTHER -> told1
MeantBefore(calls) == FoldLeft(Meant, [pattern |-> 0, saved |-> <<>>, before |-> <<>>], calls).before
GroupsAfter(calls, n) == FoldLeft(Meant, [pattern |-> 0, saved |-> <<>>, before |-> <<>>], SubSeq(calls, 1, n)).saved

\* The last SetPattern before the i-th call was in a group that has ended.
Outlived(calls, i) == \E j \in 1..(i - 1) :
    /\ calls[j].m = "SetPattern" /\ \A k \in (j + 1)..(i - 1) : calls[k].m # "SetPattern"
    /\ \E k \in j..(i - 1) : Len(GroupsAfter(calls, k)) < Len(GroupsAfter(calls, j))

DrawnAsMeant(calls) ==
    LET view == Visited(calls)
        upto == SelectInSeq(Append(calls, Call("ClipToPicture")), LAMBDA c : c.m \in Unimplemented) - 1
        meant == MeantBefore(calls)
    IN  /\ [k \in DOMAIN view.drawn |-> view.drawn[k].at] = SelectSeq([i \in 1..upto |-> i], LAMBDA i : calls[i].m # "SetPattern")
        /\ view.aborted <=> upto < Len(calls)
        /\ \A k \in DOMAIN view.drawn :
              LET i == view.drawn[k].at
                  call == view.drawn[k].call
              IN  calls[i].m = "DrawRect" =>
                      /\ call.gradient = calls[i].gradient
                      /\ IF call.gradient # 0 THEN call.pattern = 0 ELSE call.pattern = meant[i] <=> ~Outlived(calls, i)

ViewDrawsThePicture == told = <<>> => \A calls \in [1..ViewLength -> ViewCalls] : DrawnAsMeant(calls)
=============================================================================
