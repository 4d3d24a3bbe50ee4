------------------------------ MODULE Userland ------------------------------
(***************************************************************************)
(* The one user program: the kernel maps it and enters ring 3; the desktop *)
(* gets its shared pages; its file manager, its console and its radiation  *)
(* simulator make file calls, one handler of the event loop at a time,     *)
(* until the console's exit (usermode-x86/src/usermode.rs, kernel-x86/src/ *)
(* main.rs and syscall.rs, usermode-desktop/src).                          *)
(***************************************************************************)
EXTENDS FileManager, Paging

CONSTANTS
  Program,      \* the user's pages and their frames: code and stack
  Stack,        \* those of the stack, where the buffers are
  SharedPage,   \* where the program sees the shared information page
  SharedFrame,  \* its frame
  Framebuffer,  \* the pages of the framebuffer
  BootTables,   \* page tables the bootloader may leave
  BootTree,     \* the file system after bootstrap
  LogPath,      \* /data/system_info.log
  Texts,        \* what is typed: components of a path
  CmdPaths,     \* paths given to the console
  EchoTexts,    \* bytes given to echo
  MaxNodes      \* bound: nodes ever created

(* What the bootloader leaves: tables that may be written, no huge page    *)
(* around the shared one, and a framebuffer in no page of 1 GB, apart from *)
(* huge pages that the program's replace.                                  *)
UserPages == DOMAIN Program \cup {SharedPage}
IsBootTable(t) ==
  /\ t \in Tables /\ TablesAreWritable(t)
  /\ ~E3(t, SharedPage).huge /\ ~E2(t, SharedPage).huge
  /\ \A a \in Framebuffer :
       Reaches(t, a) /\ \A b \in UserPages : a # b /\ ~SharesHugePage(t, a, b)

(* The components of every path there may be, cut ones too.                *)
Typed == CmdPaths \cup Texts \cup {LogPath}
BootNames == UNION { EntryNames(BootTree, i) : i \in DOMAIN BootTree }
Parts(paths) == UNION { Range(p) : p \in paths }
Letters == Parts(Parts(Typed \cup BootNames) \cup {Text})
Components == Seq(Letters) \ {<<>>}

ASSUME UserlandAssumption ==
  /\ Program \in [DOMAIN Program -> Frame]
  /\ DOMAIN Program \subseteq Address /\ Stack \subseteq DOMAIN Program
  /\ SharedPage \in Address \ DOMAIN Program /\ SharedFrame \in Frame
  /\ Framebuffer \subseteq Address
  /\ \A t \in BootTables : IsBootTable(t)
  /\ IsTree(BootTree, Components, Nat)
  /\ Typed \subseteq Seq(Components) /\ EchoTexts \subseteq Seq(Nat)
  /\ MaxNodes \in Nat

VARIABLES
  phase,   \* "boot", "start", "shared", "running" or "halted"
  boot,    \* history: the tables the bootloader left
  pt,      \* the page tables
  mapped,  \* the pages of the program that are mapped
  stale,   \* the tables were changed and the TLB was not flushed since
  sys,     \* the file system and FD_TABLE
  fm,      \* the file manager
  picked   \* history: the node of the row the user selected

desktopVars == <<sys, fm, picked>>
vars == <<phase, boot, pt, mapped, stale, desktopVars>>

Init ==
  /\ phase = "boot"
  /\ pt \in BootTables /\ boot = pt /\ mapped = {} /\ stale = FALSE
  /\ sys = Sys(BootTree, [fd \in Fds |-> Closed])
  /\ fm = InitialFm /\ picked = NoNode
-----------------------------------------------------------------------------
(* execute_user_program: a page at a time is mapped, and when all are the  *)
(* TLB is flushed.                                                         *)
MapProgramPage(a) ==
  /\ phase = "boot" /\ a \notin mapped
  /\ pt' = CreateMapping(pt, a, Leaf(Program[a], TRUE))
  /\ mapped' = mapped \cup {a} /\ stale' = TRUE
  /\ UNCHANGED <<phase, boot, desktopVars>>

EnterUserMode ==
  /\ phase = "boot" /\ mapped = DOMAIN Program
  /\ phase' = "start" /\ stale' = FALSE
  /\ UNCHANGED <<boot, pt, mapped, desktopVars>>

(* SYS_GET_SHARED_INFO, which flushes.                                     *)
GetSharedInfo ==
  /\ pt' = CreateMapping(pt, SharedPage, Leaf(SharedFrame, FALSE))
  /\ stale' = FALSE

StartDesktop ==
  /\ phase = "start" /\ phase' = "shared"
  /\ GetSharedInfo
  /\ UNCHANGED <<boot, mapped, desktopVars>>

(* The pages of a call's buffers are marked; a change that is left without *)
(* a flush may stay so.                                                    *)
MapUser(pages) ==
  /\ pt' = MapPageUser(pt, pages)
  /\ stale' = IF pt' = pt THEN stale ELSE \E a \in pages : ~Reaches(pt, a)

(* SYS_MAP_FB: the framebuffer and the structure it fills in.              *)
MapFramebuffer ==
  /\ phase = "shared" /\ phase' = "running"
  /\ MapUser(Framebuffer \cup Stack)
  /\ UNCHANGED <<boot, mapped, desktopVars>>
-----------------------------------------------------------------------------
(* The handlers of the running desktop.  What the user picked is the node  *)
(* in the row that is selected.                                            *)
EntriesAt(t, f) == IF IsDir(t, Resolve(t, f.path)) THEN t[Resolve(t, f.path)].entries ELSE <<>>
Picked(t, f) ==
  IF f.selected + 1 \in DOMAIN EntriesAt(t, f) THEN EntriesAt(t, f)[f.selected + 1].node
  ELSE NoNode

DrawFrame ==
  /\ GetSharedInfo
  /\ sys' = Draw(fm, sys)
  /\ UNCHANGED <<fm, picked>>

Handled(done) == fm' = done.fm /\ sys' = done.sys

Click(row) ==
  /\ fm.modal = NoModal
  /\ Handled(ClickRow(fm, sys, row))
  /\ picked' = IF fm' = fm THEN picked ELSE Picked(sys'.tree, fm')

(* The buttons of the toolbar and of the dialog, and typing.               *)
Button(f) ==
  /\ fm' = f
  /\ picked' = IF f.selected = NoRow THEN NoNode ELSE picked
  /\ UNCHANGED sys

(* A path that was cut after a slash, which pop_dir takes for a component. *)
EndsInSlash == Bytes(fm.path) = PathBuffer - 1

Toolbar ==
  /\ fm.modal = NoModal
  /\ \/ Button(PopDir(fm))
     \/ EndsInSlash /\ Button(SetPath(fm, fm.path))
     \/ Button(SetPath(fm, <<>>))
     \/ Button([fm EXCEPT !.selected = NoRow])
     \/ \E mode \in {NewFolder, NewFile} : Button(OpenModal(fm, mode))
     \/ fm.selected # NoRow /\ Button(OpenModal(fm, ConfirmDelete))

Type == fm.modal # NoModal /\ \E text \in Texts : Button([fm EXCEPT !.input = text])
Cancel == fm.modal # NoModal /\ Button(CloseModal(fm))

Confirm ==
  /\ fm.modal # NoModal
  /\ Handled(ExecuteModal(fm, sys))
  /\ picked' = IF fm'.selected = NoRow THEN NoNode ELSE picked

Console(command, path, text) ==
  /\ sys' = RunCommand(sys, command, path, text)
  /\ UNCHANGED <<fm, picked>>

(* The simulator flips two bits of a word of the log and reads it: the     *)
(* block is relocated, with a zero for the word.                           *)
Healed(t, i) ==
  IF IsFile(t, i) /\ t[i].data # <<>> THEN [t EXCEPT ![i].data[Len(t[i].data)] = 0] ELSE t
Hurt(s) == Sys(Healed(s.tree, Resolve(s.tree, LogPath)), s.fds)
Radiate ==
  /\ sys' = ReadAll(Hurt(sys), LogPath).sys
  /\ UNCHANGED <<fm, picked>>

(* SYS_EXIT: the kernel goes on after execute_user_program, and halts.     *)
Exit ==
  /\ phase = "running" /\ phase' = "halted"
  /\ sys' = SysClose(sys, 3).sys
  /\ UNCHANGED <<boot, pt, mapped, stale, fm, picked>>
Halt == phase = "halted" /\ UNCHANGED vars

Browse == (\E row \in 0 .. BufferLen - 1 : Click(row)) \/ Toolbar

(* One turn of the desktop: a frame is drawn, or a handler runs, and its   *)
(* calls mark the pages of their buffers.                                  *)
Turn ==
  /\ phase = "running" /\ Size(sys.tree) + 2 <= MaxNodes
  /\ UNCHANGED <<phase, boot, mapped>>
  /\ \/ DrawFrame
     \/ /\ MapUser(Stack)
        /\ \/ Browse \/ Type \/ Cancel \/ Confirm \/ Radiate
           \/ \E command \in Commands, path \in CmdPaths, text \in EchoTexts :
                Console(command, path, text)

Next ==
  \/ (\E a \in DOMAIN Program : MapProgramPage(a))
  \/ EnterUserMode \/ StartDesktop \/ MapFramebuffer
  \/ Turn \/ Exit \/ Halt

Spec == Init /\ [][Next]_vars
-----------------------------------------------------------------------------
TypeOK ==
  /\ phase \in {"boot", "start", "shared", "running", "halted"}
  /\ pt \in Tables /\ boot \in BootTables /\ stale \in BOOLEAN
  /\ mapped \subseteq DOMAIN Program
  /\ IsTree(sys.tree, Components, Nat)
  /\ \A fd \in Fds : sys.fds[fd].offset \in Nat
  /\ fm.selected \in NoRow .. BufferLen - 1 /\ fm.modal \in NoModal .. ConfirmDelete
  /\ picked \in DOMAIN sys.tree \cup {NoNode}

(* No handler of the desktop keeps a descriptor, on any path through it:   *)
(* the table of 16, which is drawn on in every frame, does not fill up     *)
(* (console.rs, file_manager, syscall.rs).                                 *)
DescriptorsAreReturned == \A fd \in Fds : ~IsOpen(sys, fd)

(* A directory that no path leads to: the calls that create something      *)
(* below two or more components leave such names in the root               *)
(* (syscall.rs:277, 596).                                                  *)
HasPhantoms == \E e \in Range(sys.tree[Root].entries) : Len(e.name) # 1

(* The path shown reaches the end of its buffer, and may have lost some of *)
(* its last component (file_manager/state.rs:99).                          *)
IsFull(path) == Bytes(path) >= PathBuffer - 1

(* The name of the row selected, or its path, is longer than what is left  *)
(* of its buffer (state.rs:297, 305).                                      *)
LinesAt(t, f) == Lines(t, Resolve(t, f.path))
RowIsCut(t, f) ==
  \E k \in DOMAIN EntriesAt(t, f) :
    /\ k = f.selected + 1
    /\ \/ LineEnds(LinesAt(t, f))[k - 1] + NameBytes(EntriesAt(t, f)[k].name) > BufferLen
       \/ Bytes(f.path \o EntriesAt(t, f)[k].name) > PathBuffer

(* So may the name be than that of the preview (draw.rs:123).              *)
PreviewIsCut(t, f) ==
  \/ RowIsCut(t, f)
  \/ \E k \in DOMAIN EntriesAt(t, f) :
       k = f.selected + 1 /\ NameBytes(EntriesAt(t, f)[k].name) > NameBuffer

(* The row the file manager shows as selected is the node the user         *)
(* clicked, whatever else was created, drawn or deleted in between; it is  *)
(* kept as a number, and the listing is read anew each time.               *)
SelectionIsPicked ==
  HasPhantoms \/ IsFull(fm.path) \/ Picked(sys.tree, fm) = picked

(* Deleting removes the node the user picked from the directory shown, and *)
(* nothing else anywhere, unless a buffer cuts its name.                   *)
WithoutNode(entries, i) == RemoveFirstMatch(entries, LAMBDA e : e.node = i)
RemovesPicked ==
  sys'.tree = [i \in DOMAIN sys.tree |->
                 [sys.tree[i] EXCEPT !.entries = WithoutNode(@, picked)]]
DeleteRemovesPicked ==
  [][fm.modal = ConfirmDelete /\ Confirm
       => HasPhantoms \/ IsFull(fm.path) \/ RowIsCut(sys.tree, fm) \/ RemovesPicked]_vars

(* Drawing, selecting and walking through directories change nothing,      *)
(* although SYS_OPEN creates whatever it does not find (syscall.rs:272),   *)
(* unless a buffer cuts the path shown or that of the row previewed.       *)
BrowsingIsReadOnly ==
  [][sys' # sys =>
       HasPhantoms \/ IsFull(fm.path) \/ PreviewIsCut(sys.tree, fm) \/ ~(DrawFrame \/ Browse)]_vars

(* "Confirm Delete Selected Item" (state.rs:290): what is deleted is the   *)
(* item selected, however long the listing it is in.  The code deletes     *)
(* what the cut listing calls it (state.rs:297), which may be another.     *)
SelectedIsDeleted ==
  [][fm.modal = ConfirmDelete /\ Confirm /\ sys'.tree # sys.tree
       => HasPhantoms \/ IsFull(fm.path) \/ RemovesPicked]_vars

(* From its start to its end the program's pages are its own frames, which *)
(* it may write; the information page, once mapped, it may only read.  No  *)
(* call uses tables the TLB may contradict.                                *)
IsMapped(a) == VirtToPhys(pt, a) = Page(Program[a]) /\ UserWrites(pt, a)
SharedIsMapped ==
  /\ VirtToPhys(pt, SharedPage) = Page(SharedFrame)
  /\ UserReads(pt, SharedPage) /\ ~UserWrites(pt, SharedPage)
ProgramIsMapped ==
  phase # "boot" =>
    /\ \A a \in DOMAIN Program : IsMapped(a)
    /\ phase # "start" => SharedIsMapped
    /\ ~stale

(* The mappings the bootloader left are kept, except for a huge page with  *)
(* a page of the program in it, which is replaced.                         *)
IsShadowed(a) == \E b \in UserPages : a = b \/ SharesHugePage(boot, a, b)
BootMappingsAreKept ==
  \A a \in Address : VirtToPhys(pt, a) = VirtToPhys(boot, a) \/ IsShadowed(a)
=============================================================================
