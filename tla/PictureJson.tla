---------------------------- MODULE PictureJson ----------------------------
(***************************************************************************)
(* PictureDumpJson2: a source of calls drives PictureWriterJson, and       *)
(* PictureReaderJson reads the text and makes the calls again, as when     *)
(* PictureDump converts a picture to JSON and back, and in                 *)
(* PictureJsonIdentity.  The reader is a recursive descent; its call stack *)
(* is "stack", and one action deals with one token, the first of "text".   *)
(* The reader is a token ahead: most calls it makes only after ReadToken   *)
(* has gone on to the token behind the value ("due").  It goes as far as   *)
(* it can before the next call is written: the writer never waits for it,  *)
(* so that other orders give the same calls.                               *)
(***************************************************************************)
EXTENDS PictureReaderJson

CONSTANT MaxDepth   \* bound: pictures, lists and groups open at a time

ASSUME MaxDepthAssumption == MaxDepth \in Nat

VARIABLES
    open,      \* the driver: the pictures and lists it has entered
    levels,    \* JsonWriter: its open objects and arrays
    text,      \* tokens written and not read yet
    pending,   \* calls made to the writer and not heard from the reader
    stack,     \* the reader: the values it is in the middle of
    due,       \* the reader: the call it makes when ReadToken returns, if any
    said,      \* the call heard in the last step, if any, and the call it was written for
    status     \* "reading", "refused" (RaiseError), "aborted" (the writer)

Nothing == [m |-> "nothing"]
Silence == [wrote |-> Nothing, heard |-> Nothing]

vars == <<open, levels, text, pending, stack, due, said, status>>

Init ==
    /\ open = <<>> /\ levels = <<>> /\ text = <<>> /\ pending = <<>> /\ stack = <<>>
    /\ due = Nothing /\ said = Silence
    /\ status = "reading"

(***************************************************************************)
(* rapidjson::Writer: inside an object every other value is a name, and a  *)
(* name must be a string; Key is String.                                   *)
(***************************************************************************)
Prefix(w, token) ==
    LET l == w.levels
        name == l # <<>> /\ ~Last(l).inArray /\ ~Last(l).odd
        counted == IF l = <<>> \/ Last(l).inArray THEN l ELSE [l EXCEPT ![Len(l)].odd = ~@]
    IN  CASE token \in {StartObject, StartArray} ->
                [ok |-> w.ok /\ ~name, levels |-> Append(counted, [inArray |-> token = StartArray, odd |-> FALSE])]
          [] token = EndObject -> [ok |-> w.ok /\ name, levels |-> Front(l)]
          [] token = EndArray -> [ok |-> w.ok /\ l # <<>> /\ Last(l).inArray, levels |-> Front(l)]
          [] OTHER -> [ok |-> w.ok /\ (name => token[1] \in {"key", "str"}), levels |-> counted]

\* The writer is called: c, for which it writes the tokens; the driver goes on with o.
Write(c, tokens, o) ==
    LET w == FoldLeft(Prefix, [ok |-> TRUE, levels |-> levels], tokens)
    IN  /\ open' = o
        /\ pending' = Append(pending, c)
        /\ text' = IF w.ok THEN tokens ELSE <<>>
        /\ levels' = w.levels
        /\ status' = IF w.ok THEN "reading" ELSE "aborted"
        /\ UNCHANGED <<stack, due, said>>

Call(m) == [m |-> m]
Idle == status = "reading" /\ text = <<>>
In(contexts) == Idle /\ open # <<>> /\ Last(open) \in contexts
Becomes(context) == Append(Front(open), context)
Room == Len(open) < MaxDepth
Blocks == {"ops", "ENTER_STATE_CHANGE", "ENTER_FONT_STATE", "GROUP"}
Enter == [ENTER_STATE_CHANGE |-> "EnterStateChange", ENTER_FONT_STATE |-> "EnterFontState", GROUP |-> "PushState"]
Exit == [ENTER_STATE_CHANGE |-> "ExitStateChange", ENTER_FONT_STATE |-> "ExitFontState", GROUP |-> "PopState"]

EnterPicture ==
    /\ (Idle /\ open = <<>>) \/ (In({"pictures"}) /\ Room)
    /\ Write(Call("EnterPicture"),
             <<StartObject, Key("version"), Integer, Key("endian"), Integer>>, Append(open, "picture"))

\* The outermost picture is the whole document.
ExitPicture ==
    /\ In({"picture", "pictured", "drawn"})
    /\ Write(Call("ExitPicture"), <<EndObject>>, IF Len(open) = 1 THEN <<"end">> ELSE Front(open))

EnterPictures ==
    /\ In({"picture"}) /\ Room
    /\ Write(Call("EnterPictures"), <<Key("pictures"), StartArray>>, Append(Becomes("pictured"), "pictures"))

ExitPictures == In({"pictures"}) /\ Write(Call("ExitPictures"), <<EndArray>>, Front(open))

EnterOps ==
    /\ In({"picture", "pictured"}) /\ Room
    /\ Write(Call("EnterOps"), <<Key("ops"), StartArray>>, Append(Becomes("drawn"), "ops"))

ExitOps == In({"ops"}) /\ Write(Call("ExitOps"), <<EndArray>>, Front(open))

\* EnterStateChange, EnterFontState, PushState and their counterparts.
EnterBlock == \E b \in DOMAIN Enter :
    /\ In(Blocks) /\ Room
    /\ Write(Call(Enter[b]), <<StartObject, Key(b), StartArray>>, Append(open, b))

ExitBlock == \E b \in DOMAIN Exit :
    In({b}) /\ Write(Call(Exit[b]), <<EndArray, EndObject>>, Front(open))

DrawGeometry == In(Blocks) /\ \E k \in Kinds : \E c \in GeometryCalls(k) : Write(c, WrittenGeometry(c), open)
CallPlain == In(Blocks) /\ \E m \in DOMAIN Plain : Write(Call(m), Plain[m], open)
\* Bound: one number that is not finite, and in a plain call.
CallLost == In(Blocks) /\ \E m \in DOMAIN Plain : \E i \in NotFinite(m) : Write([m |-> m, lost |-> i], WrittenLost(m, i), open)
CallOther ==
    /\ In(Blocks)
    /\ \E m \in DOMAIN Arguments : \E a \in Arguments[m] : Write([m |-> m, a |-> a], WrittenOther(m, a), open)

(***************************************************************************)
(* The reader.  A frame is the form it reads, the name whose value comes   *)
(* next, and what it has read.                                             *)
(***************************************************************************)
Frame(form) == [form |-> form, name |-> None, val |-> <<>>]
Top == Last(stack)
FormOf(frame) == Grammar[frame.form]
At(forms) == stack # <<>> /\ FormOf(Top).form \in forms
Token == Head(text)

\* ReadOps: the names it knows, and the form of the value after each.
OpNames == DOMAIN KindOf \cup DOMAIN PlainOps \cup DOMAIN OtherOps \cup DOMAIN Enter
OpForm(n) ==
    CASE n \in DOMAIN KindOf -> GeometryForm(n)
      [] n \in DOMAIN PlainOps -> PlainOps[n][2]
      [] n \in DOMAIN OtherOps -> OtherOps[n][2]
      [] n \in DOMAIN Enter -> "ops"

\* The call that the value v of operation n makes.
HeardOp(n, v) ==
    CASE n \in DOMAIN KindOf -> GeometryHeard(KindOf[n], v)
      [] n \in DOMAIN PlainOps -> Call(PlainOps[n][1])
      [] n \in DOMAIN OtherOps -> [m |-> OtherOps[n][1], a |-> Argument(OtherOps[n][1], v)]

PictureFields == [version |-> "Integer", endian |-> "Integer", pictures |-> "pictures", ops |-> "ops"]

\* The name of the form of the value that comes next.
Wanted ==
    IF stack = <<>> THEN "picture"
    ELSE LET f == FormOf(Top) IN
         CASE f.form = "array" -> IF \E n \in f.sizes : n > Len(Top.val) THEN f.of ELSE "nothing"
           [] f.form = "ops" -> "op"
           [] f.form = "pictures" -> "picture"
           [] Top.name = None -> "nothing"
           [] f.form \in {"object", "one"} -> f.names[Top.name]
           [] f.form = "op" -> OpForm(Top.name)
           [] f.form \in {"picture", "entered"} -> PictureFields[Top.name]
WantedForm == Grammar[Wanted]

\* The visitor is called with c.
Hear(c) ==
    /\ said' = [wrote |-> IF pending = <<>> THEN Nothing ELSE Head(pending), heard |-> c]
    /\ pending' = IF pending = <<>> THEN <<>> ELSE Tail(pending)
HearNothing == said' = Silence /\ UNCHANGED pending

\* The names that the innermost object may go on with.
Allowed(name) ==
    LET f == FormOf(Top) IN
    CASE f.form = "object" -> name \in DOMAIN f.names
      [] f.form = "one" -> name \in DOMAIN f.names /\ Top.val = <<>>
      [] f.form = "op" -> name \in OpNames /\ Top.val = <<>>
      [] f.form = "picture" -> name \in {"version", "endian"}
      [] f.form = "entered" -> name \in {"pictures", "ops"} /\ {name, "ops"} \cap DOMAIN Top.val = {}
      [] OTHER -> FALSE

CanReadName == stack # <<>> /\ Token[1] = "key" /\ Allowed(Token[2])

ReadName ==
    /\ CanReadName
    /\ stack' = [stack EXCEPT ![Len(stack)].name = Token[2]]
    /\ text' = Tail(text)
    /\ HearNothing
    /\ UNCHANGED <<open, levels, due, status>>

\* The value v has been read: the frame below takes it.
Take(frames, v) ==
    IF frames = <<>> THEN <<>>
    ELSE LET f == Last(frames)
             form == FormOf(f).form
             val == CASE form \in {"object", "picture", "entered"} -> f.name :> v @@ f.val
                      [] form \in {"one", "op"} -> <<f.name, v>>
                      [] form = "array" -> Append(f.val, v)
                      [] form \in {"ops", "pictures"} -> <<>>
         IN  Append(Front(frames), [f EXCEPT !.name = None, !.val = val])

\* The call that the value v makes, if an operation has it.
OpCall(frames, v) ==
    IF frames # <<>> /\ Last(frames).form = "op" /\ Last(frames).name \notin DOMAIN Enter
    THEN HeardOp(Last(frames).name, v) ELSE Nothing

\* The value of a token that is one: none if the reader does not expect it.
Values ==
    CASE WantedForm.form \in {"leaf", "either"} -> IF Token \in WantedForm.tokens THEN {Token[2]} ELSE {}
      [] WantedForm.form = "bit" -> WantedForm.names \cap    \* a number leaves strVal as it was
            IF Token[1] = "str" THEN {Token[2]} ELSE IF Top.val = <<>> THEN {} ELSE {Last(Top.val)}
      [] OTHER -> {}

CanReadLeaf == Token[1] \in {"int", "real", "bool", "str"} /\ Values # {}

ReadLeaf ==
    /\ CanReadLeaf
    /\ \E v \in Values : stack' = Take(stack, v) /\ due' = OpCall(stack, v)
    /\ text' = Tail(text)
    /\ HearNothing
    /\ UNCHANGED <<open, levels, status>>

CanReadStart ==
    \/ Token = StartObject /\ WantedForm.form \in {"object", "one", "op", "picture"}
    \/ Token = StartArray /\ WantedForm.form \in {"array", "either", "ops", "pictures"}

\* The blocks of operations are entered at their bracket, a list of pictures after it.
ReadStart ==
    /\ CanReadStart
    /\ stack' = Append(stack, Frame(IF WantedForm.form = "either" THEN WantedForm.array ELSE Wanted))
    /\ IF Wanted = "ops" THEN Hear(Call(IF At({"op"}) THEN Enter[Top.name] ELSE "EnterOps")) ELSE HearNothing
    /\ due' = IF Wanted = "pictures" THEN Call("EnterPictures") ELSE Nothing
    /\ text' = Tail(text)
    /\ UNCHANGED <<open, levels, status>>

\* ReadPicture: the first token that is not the version or the byte order.
CanReadEnter ==
    /\ At({"picture"}) /\ Token \notin {Key("version"), Key("endian")}
    /\ Top.name = None /\ "version" \in DOMAIN Top.val

ReadEnter ==
    /\ CanReadEnter
    /\ stack' = [stack EXCEPT ![Len(stack)] = Frame("entered")]
    /\ Hear(Call("EnterPicture"))
    /\ UNCHANGED <<open, levels, text, due, status>>

\* What may be missing when an object ends, and the sizes of arrays.
Complete ==
    LET f == FormOf(Top) IN
    CASE f.form = "object" -> f.need \subseteq DOMAIN Top.val
      [] f.form \in {"one", "op"} -> Top.val # <<>>
      [] f.form = "array" -> Len(Top.val) \in f.sizes
      [] OTHER -> TRUE

CanReadEnd ==
    /\ \/ Token = EndObject /\ At({"object", "one", "op", "entered"})
       \/ Token = EndArray /\ At({"array", "ops", "pictures"})
    /\ Top.name = None /\ Complete

\* Mutant: ExitPictures is not called.
EndCallNoPictures(below, v) ==
    CASE Top.form = "entered" -> Call("ExitPicture")
      [] Top.form = "pictures" -> Nothing
      [] Top.form = "ops" -> Call(IF Last(below).form = "op" THEN Exit[Last(below).name] ELSE "ExitOps")
      [] OTHER -> OpCall(below, v)

\* The call for the value v of the innermost frame, which has ended.
EndCall(below, v) ==
    CASE Top.form = "entered" -> Call("ExitPicture")
      [] Top.form = "pictures" -> Call("ExitPictures")
      [] Top.form = "ops" -> Call(IF Last(below).form = "op" THEN Exit[Last(below).name] ELSE "ExitOps")
      [] OTHER -> OpCall(below, v)

ReadEnd ==
    /\ CanReadEnd
    /\ LET below == Front(stack)
           pattern == below # <<>> /\ Last(below).name = "SET_STIPLE_PATTERN"
           v == CASE pattern -> Unknown [] At({"op", "entered", "ops", "pictures"}) -> None [] OTHER -> Top.val
       IN  stack' = Take(below, v) /\ due' = EndCall(below, v)
    /\ text' = Tail(text)
    /\ HearNothing
    /\ UNCHANGED <<open, levels, status>>

\* ReadToken returns, with a token or at the end of the document, and the call
\* that was due is made.
ReadToken ==
    /\ status = "reading" /\ due # Nothing
    /\ text # <<>> \/ open = <<"end">>
    /\ Hear(due) /\ due' = Nothing
    /\ UNCHANGED <<open, levels, text, stack, status>>

Reading == status = "reading" /\ due = Nothing /\ text # <<>>
Read == Reading /\ (ReadName \/ ReadLeaf \/ ReadStart \/ ReadEnter \/ ReadEnd)

\* RaiseError, RaiseUnimplemented: the token is none that the reader expects.
Refuse ==
    /\ Reading /\ ~(CanReadName \/ CanReadLeaf \/ CanReadStart \/ CanReadEnter \/ CanReadEnd)
    /\ status' = "refused"
    /\ UNCHANGED <<open, levels, text, pending, stack, due, said>>

Next ==
    \/ EnterPicture \/ ExitPicture \/ EnterPictures \/ ExitPictures \/ EnterOps \/ ExitOps
    \/ EnterBlock \/ ExitBlock \/ DrawGeometry \/ CallPlain \/ CallLost \/ CallOther
    \/ ReadToken \/ Read \/ Refuse

Spec == Init /\ [][Next]_vars

(***************************************************************************)
(* What the two classes promise each other.                                *)
(***************************************************************************)

IsBits(c) == "a" \in DOMAIN c /\ c.m \in {"SetFontFlags", "SetFontFace"}

\* What comes back of a call: bits without a name are lost beside ones with.
Kept(c) == IF IsBits(c) THEN [c EXCEPT !.a = @ \ {Unknown}] ELSE c

\* The calls whose text the reader refuses.
Unreadable(c) ==
    CASE "kind" \in DOMAIN c -> c.kind.m = "DrawLine" /\ c.kind.graded
      [] c.m \in {"DrawStringLocations", "BlendLayer"} \/ "lost" \in DOMAIN c -> TRUE
      [] IsBits(c) -> c.a = {Unknown}
      [] c.m \in {"SetDrawingMode", "SetFillRule", "SetFontSpacing", "SetFontEncoding"} -> c.a = Unknown
      [] c.m \in {"SetLineMode", "SetBlendingMode"} -> Unknown \in ToSet(c.a)
      [] OTHER -> FALSE

IsArc(c) == "kind" \in DOMAIN c /\ c.kind.m = "DrawArc"

(***************************************************************************)
(* Whatever is heard from the reader is, in order, what was said to the    *)
(* writer: PictureReaderJson.cpp calls the method that PictureWriterJson   *)
(* was called with, and with its arguments, but for the font bits without  *)
(* a name, and for the number of pictures, which it does not know          *)
(* (PictureReaderJson.cpp:650).  It refuses (:129, :136) the text of the   *)
(* calls named above, among them every number that is not finite           *)
(* (PictureWriterJson.cpp:108), always, and no other; and the writer fails *)
(* for an arc (PictureWriterJson.cpp:848), always, and for nothing else.   *)
(***************************************************************************)
ReadsBack ==
    /\ said.heard = Kept(said.wrote)
    /\ ~Unreadable(said.wrote)
    /\ status = "refused" => pending # <<>> /\ Unreadable(Head(pending))
    /\ status = "aborted" <=> \E i \in DOMAIN pending : IsArc(pending[i])

(***************************************************************************)
(* When all of the text written so far has been read, the reader is in the *)
(* same lists as the caller of the writer, and has made all calls but one  *)
(* at most.  It is the call made last, and one of five: EnterPicture waits *)
(* for the token after the byte order (PictureReaderJson.cpp:644), and     *)
(* EnterPictures, ExitPictures, ExitOps and ExitPicture for the one after  *)
(* their bracket (:649, :654, :887, :665).  A drawing call, or the end of  *)
(* a group inside of the operations, is never kept back.  At the end of    *)
(* the document nothing is but the last ExitPicture, until ReadToken finds *)
(* that there are no more tokens.                                          *)
(***************************************************************************)
InStep ==
    Idle =>
        /\ \/ due = Nothing /\ pending \in {<<>>, <<Call("EnterPicture")>>}
           \/ due.m \in {"EnterPictures", "ExitPictures", "ExitOps", "ExitPicture"} /\ pending = <<due>>
        /\ open = <<"end">> => stack = <<>> /\ (pending # <<>> => due = Call("ExitPicture"))
        /\ open # <<"end">> => SelectSeq(open, LAMBDA c : c \in {"pictures"} \cup Blocks)
                = SelectSeq([i \in DOMAIN stack |-> stack[i].name], LAMBDA n : n # None)
=============================================================================
