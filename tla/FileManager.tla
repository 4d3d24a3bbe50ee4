----------------------------- MODULE FileManager -----------------------------
(***************************************************************************)
(* The desktop's file manager and the commands of its console              *)
(* (usermode-desktop/src/file_manager, console.rs), as operators over      *)
(* their state and the system calls they make.                             *)
(*                                                                         *)
(* The pixels of a click, scrolling and the two views are left out: which  *)
(* row is clicked is a choice of the caller.                               *)
(***************************************************************************)
EXTENDS Syscalls

CONSTANTS
  BufferLen,    \* bytes of a buffer for a listing or a file: 1024 in the code
  NameBuffer,   \* bytes of the buffer for the name of the row selected: 64
  PathBuffer,   \* bytes of a buffer for a path: 256
  NewFileText   \* the bytes of "// New File\n"

ASSUME ClientAssumption ==
  /\ BufferLen \in Nat \ {0} /\ NameBuffer \in Nat \ {0}
  /\ PathBuffer \in Nat \ {0, 1}
  /\ NewFileText \in Seq(Nat)

NoRow == -1

(* Modes of the dialog, as in the code.                                    *)
NoModal == 0
NewFolder == 1
NewFile == 2
ConfirmDelete == 3

InitialFm == [path |-> <<>>, selected |-> NoRow, modal |-> NoModal, input |-> <<>>]

HasFd(o) == o.ret \in Fds

(* The descriptor stays open after a call that gives nothing.              *)
CloseAfter_Leaks(r, fd) == IF r.ret > 0 THEN [r EXCEPT !.sys = SysClose(@, fd).sys] ELSE r

CloseAfter(r, fd) == [r EXCEPT !.sys = SysClose(@, fd).sys]

(* Open, one read or write, close.                                         *)
ReadOpened(o) ==
  IF HasFd(o) THEN CloseAfter(SysRead(o.sys, o.ret, BufferLen), o.ret)
  ELSE Returns(o.sys, Failed)
ReadAll(s, path) == ReadOpened(SysOpen(s, path))

WriteOpened(o, data) ==
  IF HasFd(o) THEN CloseAfter(SysWrite(o.sys, o.ret, data), o.ret).sys ELSE o.sys
WriteAll(s, path, data) == WriteOpened(SysOpen(s, path), data)

TouchOpened(o) == IF HasFd(o) THEN SysClose(o.sys, o.ret).sys ELSE o.sys

(* What is left of a line of which n bytes were read.  A slash at its end  *)
(* makes it a directory's.                                                 *)
CutLine(line, n) ==
  LET name == CutTo(line.name, n + 1)
  IN  [name |-> name,
       dir |-> IF n < LineBytes(line) - 1 THEN Bytes(name) < n + 1 ELSE line.dir]

(* lines() of the first n bytes of a text.                                 *)
FirstRows(lines, n) ==
  [k \in { j \in DOMAIN lines : LineEnds(lines)[j - 1] < n } |->
     CutLine(lines[k], n - LineEnds(lines)[k - 1])]

(* The rows of a listing; a file's bytes pass for one row of text.         *)
Text == <<"text">>
RowsOf(path, r) ==
  IF r.ret <= 0 THEN <<>>
  ELSE IF IsDir(r.sys.tree, Resolve(r.sys.tree, path))
  THEN FirstRows(Last(r.data).text, Last(r.data).at)
  ELSE << [name |-> <<Text>>, dir |-> FALSE] >>
Listing(path, r) == [sys |-> r.sys, rows |-> RowsOf(path, r)]
List(s, path) == Listing(path, ReadAll(s, path))

Does(f, s) == [fm |-> f, sys |-> s]
IsRow(l, row) == row + 1 \in DOMAIN l.rows
-----------------------------------------------------------------------------
(* The path of something in the directory shown, in its buffer.            *)
PathTo(f, name) == CutTo(f.path \o name, PathBuffer)

(* set_path, push_dir and pop_dir.                                         *)
SetPath(f, path) == [f EXCEPT !.path = path, !.selected = NoRow]
PushDir(f, name) == SetPath(f, PathTo(f, name))

(* The first component is dropped instead of the last one.                 *)
PopDir_First(f) == IF f.path = <<>> THEN f ELSE SetPath(f, Tail(f.path))

PopDir(f) == IF f.path = <<>> THEN f ELSE SetPath(f, Front(f.path))

(* draw_file_manager reads the directory, and the selected row if it is    *)
(* not a directory's.                                                      *)
Preview(f, row) == PathTo(f, CutTo(row.name, NameBuffer + 1))
DrawRows(f, l) ==
  IF IsRow(l, f.selected) /\ ~l.rows[f.selected + 1].dir
  THEN ReadAll(l.sys, Preview(f, l.rows[f.selected + 1])).sys
  ELSE l.sys
Draw(f, s) == DrawRows(f, List(s, f.path))

(* handle_file_manager_click on a row: a second click enters a directory.  *)
ClickListed(f, l, row) ==
  IF ~IsRow(l, row) THEN Does(f, l.sys)
  ELSE IF f.selected = row /\ l.rows[row + 1].dir
  THEN Does(PushDir(f, l.rows[row + 1].name), l.sys)
  ELSE Does([f EXCEPT !.selected = row], l.sys)
ClickRow(f, s, row) == ClickListed(f, List(s, f.path), row)

OpenModal(f, mode) == [f EXCEPT !.modal = mode, !.input = <<>>]
CloseModal(f) == [f EXCEPT !.modal = NoModal, !.input = <<>>]

(* The row below the selected one is removed.                              *)
RemoveRow_Next(f, l) ==
  IF ~IsRow(l, f.selected + 1) THEN l.sys
  ELSE SysRemove(l.sys, PathTo(f, l.rows[f.selected + 2].name)).sys

RemoveRow(f, l) ==
  IF ~IsRow(l, f.selected) THEN l.sys
  ELSE SysRemove(l.sys, PathTo(f, l.rows[f.selected + 1].name)).sys
RemoveSelected(f, s) == RemoveRow(f, List(s, f.path))

(* The selection outlives the item it was of.                              *)
ExecuteModal_KeepsRow(f, s) ==
  CASE f.modal = NewFolder /\ f.input # <<>> ->
         Does(CloseModal(f), SysMkdir(s, PathTo(f, f.input)).sys)
    [] f.modal = NewFile /\ f.input # <<>> ->
         Does(CloseModal(f), WriteAll(s, PathTo(f, f.input), NewFileText))
    [] f.modal = ConfirmDelete /\ f.selected # NoRow ->
         Does(CloseModal(f), RemoveSelected(f, s))
    [] OTHER -> Does(CloseModal(f), s)

(* execute_modal_action.                                                   *)
ExecuteModal(f, s) ==
  CASE f.modal = NewFolder /\ f.input # <<>> ->
         Does(CloseModal(f), SysMkdir(s, PathTo(f, f.input)).sys)
    [] f.modal = NewFile /\ f.input # <<>> ->
         Does(CloseModal(f), WriteAll(s, PathTo(f, f.input), NewFileText))
    [] f.modal = ConfirmDelete /\ f.selected # NoRow ->
         Does([CloseModal(f) EXCEPT !.selected = NoRow], RemoveSelected(f, s))
    [] OTHER -> Does(CloseModal(f), s)
-----------------------------------------------------------------------------
(* term_process_command: ls and cat read, the others write.                *)
Commands == {"ls", "cat", "touch", "mkdir", "echo"}
RunCommand(s, command, path, text) ==
  CASE command \in {"ls", "cat"} -> ReadAll(s, path).sys
    [] command = "touch" -> TouchOpened(SysOpen(s, path))
    [] command = "mkdir" -> SysMkdir(s, path).sys
    [] command = "echo" -> WriteAll(s, path, text)
=============================================================================
