------------------------------ MODULE MCUserland ------------------------------
(* The constants of the userland run: two slots in each table; the         *)
(* program's code and stack are neighbours.                                *)
EXTENDS Userland

MCProgram == <<0, 0, 1, 0>> :> "code" @@ <<0, 0, 1, 1>> :> "stack"
MCStackPages == {<<0, 0, 1, 1>>}
MCSharedPage == <<0, 0, 0, 1>>
MCFramebuffer == {<<1, 0, 0, 0>>, <<1, 0, 0, 1>>}

(* Tables in which these entries are set, and no others.                   *)
Set(f, entries) == [p \in DOMAIN f |-> IF p \in DOMAIN entries THEN entries[p] ELSE Absent]
Kernel(frame) == [Leaf(frame, TRUE) EXCEPT !.user = FALSE, !.nx = TRUE]
KernelTable == [FreshTable EXCEPT !.user = FALSE]
HugePage(frame) == [Kernel(frame) EXCEPT !.huge = TRUE]
Nothing ==
  [l4 |-> [p \in Path1 |-> Absent], l3 |-> [p \in Path2 |-> Absent],
   l2 |-> [p \in Path3 |-> Absent], l1 |-> [p \in Address |-> Absent]]

(* The framebuffer and the kernel's heap.                                  *)
Upper ==
  [l4 |-> Set(Nothing.l4, 1 :> KernelTable),
   l3 |-> Set(Nothing.l3, <<1, 0>> :> KernelTable @@ <<1, 1>> :> KernelTable),
   l2 |-> Set(Nothing.l2, <<1, 0, 0>> :> KernelTable @@ <<1, 1, 0>> :> KernelTable),
   l1 |-> Set(Nothing.l1, <<1, 0, 0, 0>> :> Kernel("fb") @@ <<1, 0, 0, 1>> :> Kernel("fb")
                            @@ <<1, 1, 0, 1>> :> Kernel("heap"))]

(* Low memory too: a page of 4 KB, and a huge one where the program will   *)
(* be.                                                                     *)
WithLow ==
  [Upper EXCEPT !.l4[0] = KernelTable, !.l3[<<0, 0>>] = KernelTable,
                !.l2[<<0, 0, 0>>] = KernelTable, !.l2[<<0, 0, 1>>] = HugePage("low"),
                !.l1[<<0, 0, 0, 0>>] = Kernel("low")]

MCBootTables == {Upper, WithLow}

(* Names of one letter and of two; one begins as another does.             *)
Data == <<"d">>
Log == <<"l">>
X == <<"x">>
XY == <<"x", "y">>

MCBootTree ==
  0 :> [DirNode EXCEPT !.entries = << EntryFor(<<Data>>, 1) >>]
  @@ 1 :> [DirNode EXCEPT !.entries = << EntryFor(<<Log>>, 2) >>]
  @@ 2 :> [FileNode EXCEPT !.data = << 7 >>]
MCLogPath == <<Data, Log>>
MCTexts == {<<X>>, <<XY>>}
MCCmdPaths == {<<>>, <<X>>, <<Data, XY>>, <<Data, X, Log>>}
MCEchoTexts == {<<8>>}
MCNewFileText == <<9>>
=============================================================================
