------------------------------ MODULE FatShell ------------------------------
(***************************************************************************)
(* The shell's file commands as the sequences of file calls they make on   *)
(* one FatVolume: rm, cd, mkd, rmd (one call each), cat (and every other   *)
(* command that reads a file to its end), cpr, mv, the editor's save, and  *)
(* the desktop's Notes, with every early return and error path.            *)
(*                                                                         *)
(* FatVolume!Next leaves open what the callers do between the calls, and   *)
(* assumes that they close what they open and work on a file through one   *)
(* handle.  This module is those callers: that its specification           *)
(* implements FatVolume's is that assumption, checked.                     *)
(***************************************************************************)
EXTENDS FatVolume

CONSTANT Buffer     \* units one fs_read of a copying or printing loop asks for

ASSUME BufferAssumption == Buffer \in 1 .. MaxUnits

VARIABLE cmd        \* the command running and the locals it keeps

shvars == <<fat, table, up, cwd, handles, call, astray, cmd>>

NoHandle == -1
NoPath   == [base |-> "rel", via |-> Blank, leaf |-> Blank]

Commands == {"none", "cat", "cpr", "mv", "save", "notes"}
Places == {"prompt", "unlink", "open", "create", "opendst", "read", "more",
           "write", "writing", "closesrc", "closedst", "remove"}

(* The locals: paths (argv), handles, length of the next write; the text   *)
(* the editor saves and what is left of it.  old is no local of the code:  *)
(* it keeps the size of the file a save removed, for SaveFits.             *)
CmdRec == [name : Commands, at : Places, p : PathType, q : PathType,
           src : {NoHandle} \cup Handle, dst : {NoHandle} \cup Handle,
           got : 0 .. MaxSize, text : 0 .. MaxSize, left : 0 .. MaxSize,
           old : 0 .. MaxSize]

NoCmd == [name |-> "none", at |-> "prompt", p |-> NoPath, q |-> NoPath,
          src |-> NoHandle, dst |-> NoHandle, got |-> 0, text |-> 0, left |-> 0, old |-> 0]

At(place)  == cmd.at = place
GoTo(place) == [cmd EXCEPT !.at = place]
Begin(n, place, p, q) == [NoCmd EXCEPT !.name = n, !.at = place, !.p = p, !.q = q]

ShInit == Init /\ cmd = NoCmd

-----------------------------------------------------------------------------
(* At the prompt: the commands of one call, and the first step of others.  *)

Direct(p) ==
  /\ Clear(p)
  /\ \E r \in Results : Chdir(p, r) \/ Mkdir(p, r) \/ Rmdir(p, r) \/ Unlink(p, r)
  /\ UNCHANGED cmd

StartCat(p)    == cmd' = Begin("cat", "open", p, NoPath) /\ UNCHANGED vars
StartCpr(p, q) == cmd' = Begin("cpr", "open", p, q) /\ UNCHANGED vars

(* cmd_mv: a rename that fails falls back to cmd_cpr and fs_unlink.        *)
StartMv(p, q) ==
  /\ Clear(p) /\ Clear(q)
  /\ \/ Rename(p, q, 0) /\ UNCHANGED cmd
     \/ Rename(p, q, -1) /\ cmd' = Begin("mv", "open", p, q)

(* save_file: what the editor holds, n units, replaces the file.           *)
StartSave(q, n) ==
  /\ cmd' = [Begin("save", "unlink", NoPath, q) EXCEPT !.text = n, !.left = n]
  /\ UNCHANGED vars

(* Notes, on close: one write of n units over the file, if need be new.    *)
StartNotes(q, n) ==
  /\ cmd' = [Begin("notes", "create", NoPath, q) EXCEPT !.got = n]
  /\ UNCHANGED vars

Prompt ==
  /\ At("prompt")
  /\ ~ astray /\ UNCHANGED astray
  /\ \/ \E p \in Paths : Direct(p) \/ StartCat(p)
     \/ \E p, q \in Paths : StartCpr(p, q) \/ StartMv(p, q)
     \/ \E q \in Paths : \E n \in 0 .. MaxSize : StartSave(q, n)
     \/ \E q \in Paths : \E n \in 1 .. MaxUnits : n <= MaxSize /\ StartNotes(q, n)

-----------------------------------------------------------------------------
(* Where a command goes next.                                              *)

(* The command returns; cmd_cpr always returns 0, so mv goes on.           *)
Returns == IF cmd.name = "mv" THEN GoTo("remove") ELSE NoCmd

(* Mutant of Fail: the source is left open on the error path.              *)
FailLeavesOpen == Returns

(* No destination: the source, if there is one, is closed.                 *)
Fail == IF cmd.src # NoHandle THEN GoTo("closesrc") ELSE Returns

(* Mutant of OpenedDst: the result of fs_open is not looked at.            *)
OpenedDstUnchecked(r) == [GoTo(IF cmd.name = "notes" THEN "write" ELSE "more") EXCEPT !.dst = r]

OpenedDst(r) ==
  IF r = -1 THEN Fail
  ELSE [cmd EXCEPT !.dst = r,
                   !.at = CASE cmd.name = "save"  -> "more"
                            [] cmd.name = "notes" -> "write"
                            [] OTHER              -> "read"]

(* Mutant of AfterRead: a buffer that was not filled is taken for the end. *)
AfterReadShort(r) ==
  IF r < Buffer THEN GoTo("closesrc")
  ELSE IF cmd.name = "cat" THEN cmd ELSE [GoTo("write") EXCEPT !.got = r]

AfterRead(r) ==
  IF r = 0 THEN GoTo("closesrc")
  ELSE IF cmd.name = "cat" THEN cmd ELSE [GoTo("write") EXCEPT !.got = r]

(* Mutant of AfterWrite: a short write is tried again.                     *)
AfterWriteRetry(r) ==
  IF r # cmd.got THEN GoTo("write")
  ELSE GoTo(CASE cmd.name = "save" -> "more" [] cmd.name = "notes" -> "closedst" [] OTHER -> "read")

(* The copy stops at a short write; save and Notes do not look at it.      *)
AfterWrite(r) ==
  CASE cmd.name = "save"  -> GoTo("more")
    [] cmd.name = "notes" -> GoTo("closedst")
    [] OTHER -> GoTo(IF r = cmd.got THEN "read" ELSE "closesrc")

-----------------------------------------------------------------------------
(* The calls a command makes, one step each; fs_write keeps its own steps. *)

UnlinkOld ==
  /\ At("unlink") /\ Clear(cmd.q)
  /\ \E r \in Results : Unlink(cmd.q, r)
  /\ cmd' = [GoTo("create") EXCEPT !.old = IF IsFile(cmd.q) THEN LeafEntry(cmd.q).size ELSE 0]

OpenSrc ==
  /\ At("open") /\ Clear(cmd.p)
  /\ \E r \in Results :
       /\ Open(cmd.p, r)
       /\ cmd' = IF r = -1 THEN Returns
                 ELSE [GoTo(IF cmd.name = "cat" THEN "read" ELSE "create") EXCEPT !.src = r]

CreateDst ==
  /\ At("create") /\ Clear(cmd.q)
  /\ \E r \in Results :
       /\ Create(cmd.q, r)
       /\ cmd' = IF r = -1 /\ cmd.name # "notes" THEN Fail ELSE GoTo("opendst")

OpenDst ==
  /\ At("opendst") /\ Clear(cmd.q)
  /\ \E r \in Results : Open(cmd.q, r) /\ cmd' = OpenedDst(r)

ReadSrc ==
  /\ At("read")
  /\ \E r \in 0 .. Buffer : Read(cmd.src, Buffer, r) /\ cmd' = AfterRead(r)

(* One fs_write of save_file's loop: a line, or its end.                   *)
NextLine ==
  /\ At("more")
  /\ \/ cmd.left = 0 /\ cmd' = GoTo("closedst")
     \/ \E n \in 1 .. MaxUnits :
          n <= cmd.left /\ cmd' = [GoTo("write") EXCEPT !.got = n, !.left = @ - n]
  /\ UNCHANGED vars

EnterWrite ==
  /\ At("write")
  /\ \E r \in Results :
       /\ WriteEnter(cmd.dst, cmd.got, r)
       /\ cmd' = IF r = -1 THEN AfterWrite(r) ELSE GoTo("writing")

InWrite ==
  /\ At("writing")
  /\ \/ (WriteHop \/ WriteChunk) /\ UNCHANGED cmd
     \/ \E r \in Results : WriteLeave(r) /\ cmd' = AfterWrite(r)

CloseSrc ==
  /\ At("closesrc")
  /\ Close(cmd.src, 0)
  /\ cmd' = IF cmd.dst # NoHandle THEN [GoTo("closedst") EXCEPT !.src = NoHandle]
            ELSE [Returns EXCEPT !.src = NoHandle]

CloseDst ==
  /\ At("closedst")
  /\ Close(cmd.dst, 0)
  /\ cmd' = [Returns EXCEPT !.dst = NoHandle]

(* cmd_mv: the old name goes, whatever became of the copy.                 *)
RemoveOld ==
  /\ At("remove") /\ Clear(cmd.p)
  /\ \E r \in Results : Unlink(cmd.p, r)
  /\ cmd' = NoCmd

Run ==
  /\ ~ astray /\ UNCHANGED astray
  /\ \/ UnlinkOld \/ OpenSrc \/ CreateDst \/ OpenDst \/ ReadSrc \/ NextLine
     \/ EnterWrite \/ InWrite \/ CloseSrc \/ CloseDst \/ RemoveOld

(* The paths the next call may be given, and the call that goes astray on  *)
(* one of them.                                                            *)
Walked ==
  CASE At("prompt") -> Paths
    [] At("open") \/ At("remove") -> {cmd.p}
    [] At("unlink") \/ At("create") \/ At("opendst") -> {cmd.q}
    [] OTHER -> {}

ShStray == (\E p \in Walked : Stray(p)) /\ UNCHANGED cmd
ShEnded  == Ended /\ UNCHANGED cmd

ShCalls == Prompt \/ Run
ShNext  == ShCalls \/ ShStray \/ ShEnded
ShSpec == ShInit /\ [][ShNext]_shvars

(* The kernel has one thread: a command that has started goes on.          *)
LiveShSpec == ShSpec /\ WF_shvars(Run \/ (~ At("prompt") /\ ShStray))

-----------------------------------------------------------------------------
(* Properties.  That a command works on open handles alone, one per file,  *)
(* and that directories change at the prompt only, is Spec of FatVolume:   *)
(* ShSpec implements it.  As there, each is about a history in which no    *)
(* call has taken the bytes of a file for directory entries.               *)

(* The locals have their types, and a step that uses a handle has it open. *)
CmdSound ==
  /\ cmd \in CmdRec
  /\ cmd.src # NoHandle => handles[cmd.src].open
  /\ cmd.dst # NoHandle => handles[cmd.dst].open /\ cmd.dst # cmd.src
  /\ cmd.at \in {"read", "closesrc"} => cmd.src # NoHandle
  /\ cmd.at \in {"more", "write", "writing", "closedst"} => cmd.dst # NoHandle
  /\ (At("writing") <=> call # Idle) /\ (At("writing") => call.h = cmd.dst)
CmdOK == ~ astray => CmdSound

(* No handle stays open when a command has returned, on any of its error   *)
(* paths: eight lost handles and no file can be opened until the reboot    *)
(* (MAX_HANDLES of fat.c).                                                 *)
AllClosed == (At("prompt") \/ At("remove")) => NoneOpen
PromptClosed == ~ astray => AllClosed

(* cmd_cpr: a copy that stops before the end of its source has left no     *)
(* free cluster in the data area; any other copy is as long as the source. *)
VolumeFull == \A c \in Data : fat[c] # FreeCl
CopyWhole ==
  (At("closesrc") /\ cmd.dst # NoHandle) =>
    handles[cmd.dst].size = handles[cmd.src].size \/ VolumeFull
CopyComplete == ~ astray => CopyWhole

(* save_file removes the old file before it writes the new one and looks   *)
(* at no result of fs_write.  Still, a text no longer than the file it     *)
(* replaces is always saved whole, on a full volume too: nobody takes the  *)
(* entry and the clusters the unlink frees.                                *)
SavedWhole ==
  (cmd.name = "save" /\ cmd.old > 0 /\ cmd.text <= cmd.old) =>
    /\ cmd.at \in {"create", "opendst", "more", "write", "writing", "closedst"}
    /\ At("closedst") => handles[cmd.dst].size = cmd.text
SaveFits == ~ astray => SavedWhole

(* cmd_mv: when the old name is about to be removed, the new name holds a  *)
(* file of the same size.                                                  *)
MvKeepsFile ==
  (~ astray /\ At("remove") /\ IsFile(cmd.p)) =>
    IsFile(cmd.q) /\ LeafEntry(cmd.q).size = LeafEntry(cmd.p).size

(* Every command comes back to the prompt: its loops end, on a full volume *)
(* too.                                                                    *)
CommandsEnd == ~ At("prompt") ~> (At("prompt") \/ astray)

=============================================================================
