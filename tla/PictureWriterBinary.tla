------------------------ MODULE PictureWriterBinary ------------------------
(***************************************************************************)
(* PictureWriterBinary.cpp: sizes and counts are written as zero and       *)
(* patched when what they measure has ended.  A position and a size count  *)
(* cells (module PictureFields), from zero.                                *)
(* The caller makes its calls in an order in which PictureReaderBinary     *)
(* makes them: nothing says that a PopState belongs to a PushState.        *)
(***************************************************************************)
EXTENDS PictureFields, SequencesExt, FiniteSets

CONSTANTS
    MaxCalls,   \* bound: pictures and operations, all together
    MaxKinds,   \* bound: different operations in a file, besides PushState and PopState
    MaxLen      \* bound: lists and texts

ASSUME BoundsAssumption == MaxCalls \in Nat /\ MaxKinds \in Nat /\ MaxLen \in Nat

VARIABLES
    file,            \* what has been written
    fPictureStack,   \* a PictureInfo for each open picture
    fChunkStack,     \* where each open chunk begins
    pictures,        \* the caller: the open pictures, where they are in the file,
                     \* how far they are, and the pictures inside them
    blocks,          \* the caller: the open state changes and font states
    told,            \* the caller: its calls so far
    fields           \* history: the finished sizes and counts, with what they measured

writer == <<file, fPictureStack, fChunkStack, pictures, blocks, told, fields>>

Enter == {"EnterStateChange", "EnterFontState"}
EnterCode(enter) == IF enter = "EnterStateChange" THEN "ENTER_STATE_CHANGE" ELSE "ENTER_FONT_STATE"
Exit(enter) == IF enter = "EnterStateChange" THEN "ExitStateChange" ELSE "ExitFontState"

\* Seek to p, write v, seek back.
Patch(f, p, v) == [f EXCEPT ![p + 1] = Int32(v)]

\* BeginChunk and EndChunk: the size does not count the code and itself.
Begun(f, op) == f \o <<Code(op), Int32(0)>>
Ended(f, start) == Patch(f, start + 1, Len(f) - start - 2)

Init ==
    /\ file = <<>> /\ fPictureStack = <<>> /\ fChunkStack = <<>>
    /\ pictures = <<>> /\ blocks = <<>> /\ told = <<>> /\ fields = {}

Drawn == DOMAIN Figures \cup DOMAIN WrittenPlain \cup DOMAIN WrittenCounted
States == {Call("PushState"), Call("PopState")}
Flat == Operations(MaxLen) \ States
Room == Len(SelectSeq(told, LAMBDA c : c.m \in Drawn \cup Enter \cup {"EnterPicture"})) < MaxCalls
Kinds == {c \in Range(told) : c \in Flat}
Choice == States \cup IF Cardinality(Kinds) < MaxKinds THEN Flat ELSE Kinds
Picture == Last(pictures)
At(stages) == pictures # <<>> /\ Picture.stage \in stages
Info == Last(fPictureStack)
Tell(c) == told' = Append(told, c)
Stage(s) == pictures' = [pictures EXCEPT ![Len(pictures)].stage = s]
Finish(at, value) == fields' = fields \cup {[at |-> at, value |-> value]}

EnterPicture ==
    /\ Room
    /\ told = <<>> \/ At({"pictures"})
    /\ LET n == Len(fPictureStack)
           below == IF n = 0 THEN fPictureStack ELSE [fPictureStack EXCEPT ![n].pictCnt = @ + 1]
           around == IF n = 0 THEN pictures ELSE [pictures EXCEPT ![Len(pictures)].inside = @ + 1]
       IN  /\ fPictureStack' = Append(below, [pos |-> Len(file), pictCnt |-> 0, opsPos |-> 0, pictures |-> FALSE, ops |-> FALSE])
           /\ pictures' = Append(around, [at |-> Len(file), stage |-> "new", inside |-> 0, opsAt |-> 0])
    /\ file' = file \o <<Int32(0), Int32(0)>>   \* the version and the byte order
    /\ Tell(Call("EnterPicture"))
    /\ UNCHANGED <<fChunkStack, blocks, fields>>

ExitPicture ==
    /\ At({"new", "pictured", "drawn"})
    /\ file' = file \o (IF Info.pictures THEN <<>> ELSE <<Int32(Info.pictCnt)>>) \o (IF Info.ops THEN <<>> ELSE <<Int32(0)>>)
    /\ fPictureStack' = Front(fPictureStack)
    /\ pictures' = Front(pictures)
    /\ Finish(Picture.at + 2, Picture.inside)
    /\ Tell(Call("ExitPicture"))
    /\ UNCHANGED <<fChunkStack, blocks>>

EnterPictures ==
    /\ At({"new"})
    /\ file' = Append(file, Int32(0))
    /\ fPictureStack' = [fPictureStack EXCEPT ![Len(fPictureStack)].pictures = TRUE]
    /\ Stage("pictures")
    /\ Tell(Call("EnterPictures"))
    /\ UNCHANGED <<fChunkStack, blocks, fields>>

ExitPictures ==
    /\ At({"pictures"})
    /\ file' = Patch(file, Info.pos + 2, Info.pictCnt)
    /\ Stage("pictured")
    /\ Tell(Call("ExitPictures"))
    /\ UNCHANGED <<fPictureStack, fChunkStack, blocks, fields>>

\* Mutant: the position is taken before the size is written.
EnterOpsEarly ==
    /\ At({"new", "pictured"})
    /\ LET counted == file \o IF Info.pictures THEN <<>> ELSE <<Int32(Info.pictCnt)>>
       IN  /\ file' = Append(counted, Int32(0))
           /\ fPictureStack' = [fPictureStack EXCEPT ![Len(fPictureStack)] =
                  [@ EXCEPT !.pictures = TRUE, !.opsPos = Len(counted), !.ops = TRUE]]
           /\ pictures' = [pictures EXCEPT ![Len(pictures)] = [@ EXCEPT !.stage = "ops", !.opsAt = Len(counted) + 1]]
    /\ Tell(Call("EnterOps"))
    /\ UNCHANGED <<fChunkStack, blocks, fields>>

EnterOps ==
    /\ At({"new", "pictured"})
    /\ LET counted == file \o IF Info.pictures THEN <<>> ELSE <<Int32(Info.pictCnt)>>
       IN  /\ file' = Append(counted, Int32(0))
           /\ fPictureStack' = [fPictureStack EXCEPT ![Len(fPictureStack)] =
                  [@ EXCEPT !.pictures = TRUE, !.opsPos = Len(counted) + 1, !.ops = TRUE]]
           /\ pictures' = [pictures EXCEPT ![Len(pictures)] = [@ EXCEPT !.stage = "ops", !.opsAt = Len(counted) + 1]]
    /\ Tell(Call("EnterOps"))
    /\ UNCHANGED <<fChunkStack, blocks, fields>>

ExitOps ==
    /\ At({"ops"}) /\ blocks = <<>>
    /\ file' = Patch(file, Info.opsPos - 1, Len(file) - Info.opsPos)
    /\ Stage("drawn")
    /\ Finish(Picture.opsAt - 1, Len(file) - Picture.opsAt)
    /\ Tell(Call("ExitOps"))
    /\ UNCHANGED <<fPictureStack, fChunkStack, blocks>>

\* EnterStateChange, EnterFontState.
EnterBlock == \E m \in Enter :
    /\ Room /\ At({"ops"})
    /\ file' = Begun(file, EnterCode(m))
    /\ fChunkStack' = Append(fChunkStack, Len(file))
    /\ blocks' = Append(blocks, [m |-> m, at |-> Len(file)])
    /\ Tell(Call(m))
    /\ UNCHANGED <<fPictureStack, pictures, fields>>

\* Mutant: the chunk that was begun first ends first.
ExitBlockOldest ==
    /\ blocks # <<>>
    /\ file' = Ended(file, Head(fChunkStack))
    /\ fChunkStack' = Tail(fChunkStack)
    /\ blocks' = Front(blocks)
    /\ Finish(Last(blocks).at + 1, Len(file) - Last(blocks).at - 2)
    /\ Tell(Call(Exit(Last(blocks).m)))
    /\ UNCHANGED <<fPictureStack, pictures>>

\* ExitStateChange, ExitFontState.
ExitBlock ==
    /\ blocks # <<>>
    /\ file' = Ended(file, Last(fChunkStack))
    /\ fChunkStack' = Front(fChunkStack)
    /\ blocks' = Front(blocks)
    /\ Finish(Last(blocks).at + 1, Len(file) - Last(blocks).at - 2)
    /\ Tell(Call(Exit(Last(blocks).m)))
    /\ UNCHANGED <<fPictureStack, pictures>>

\* Every other operation begins and ends its chunk.
Draw == Room /\ At({"ops"}) /\ \E c \in Choice :
    /\ file' = Ended(Begun(file, Opcode(c)) \o Payload(c), Len(file))
    /\ Finish(Len(file) + 1, Len(Payload(c)))
    /\ Tell(c)
    /\ UNCHANGED <<fPictureStack, fChunkStack, pictures, blocks>>

WriterNext ==
    \/ EnterPicture \/ ExitPicture \/ EnterPictures \/ ExitPictures \/ EnterOps \/ ExitOps
    \/ EnterBlock \/ ExitBlock \/ Draw

(***************************************************************************)
(* Every size and every count that was finished says what it measured, and *)
(* goes on to say so: PictureWriterBinary.cpp:56, :161, :180 and :201      *)
(* patch the field they mean, and no later call writes over it.            *)
(***************************************************************************)
FieldsHold == \A f \in fields : f.at < Len(file) /\ file[f.at + 1] = Int32(f.value)
=============================================================================
