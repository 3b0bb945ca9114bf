------------------------------- MODULE Display -------------------------------
(***************************************************************************)
(* Global variables and expressions in the display area: the menus of the  *)
(* source files' header and of a file (obj_misc.c), names clicked in the   *)
(* source (expr.c), what va_state.c remembers of each file to show it      *)
(* again, and what is done to both when the target stops, dies and is      *)
(* started again (exec.c, obj_bpt.c).                                      *)
(*                                                                         *)
(* Every action is a whole handler: input is handled one event at a time.  *)
(* Files have the same names; expressions compile; a variable is shown     *)
(* without members.  Locals (Vslist), common blocks and untyped variables  *)
(* are left out.                                                           *)
(***************************************************************************)
EXTENDS ObjTree

CONSTANTS
  Vars,     \* those of Names that are variables, the others are expressions
  NoFile,   \* there is no temporary state file
  MaxCmd,   \* bound: commands of the display area, resizing too
  MaxProc   \* bound: processes

ASSUME DisplayAssumption ==
  /\ Vars \subseteq Names /\ IsInjective(Files) /\ Widths \subseteq Nat \ {0}
  /\ {MaxKids, MaxCmd, MaxProc} \subseteq Nat

VARIABLES
  tree,      \* the object tree and its lines, see ObjTree
  vflist,    \* Vflist: of each file what it showed when last saved (velist),
             \* been_displayed and user_changed_vars
  statefile, \* /tmp/ups-state.PID, written by Kill: the file displays in it
  alive,     \* the target exists, can_get_target_vars
  kept,      \* history: what the user last left each file showing
  excused,   \* history: the files that may show something else
  exited,    \* history: the last process ended by itself
  cmds,      \* commands so far
  procs      \* processes so far
vars == <<tree, vflist, statefile, alive, kept, excused, exited, cmds, procs>>

IsVar(o) == o[3][1] \in Vars
Shown(t, f) == {o[3][1] : o \in ToSet(t.child[FileObj(f)])}
Displayed(t, f) == FileObj(f) \in ToSet(t.child[Src])
AllFiles == ToSet(Files)

------------------------------------------------------------------------------
(* va_state.c.  A handler works on d, the tree and the Vflist.             *)

IndexOf(v, f) == {i \in DOMAIN v : v[i].file = f}

(* A slip: an entry for the file is not looked for.                        *)
NoteAgain(d, f) ==
  [d EXCEPT !.v = <<[file |-> f, velist |-> <<>>, displayed |-> FALSE, changed |-> TRUE]>> \o @]

push_new_vfile(v, f, velist) ==
  <<[file |-> f, velist |-> velist, displayed |-> FALSE, changed |-> FALSE]>> \o v

(* Adding, deleting or evaluating an object marks its file.                *)
note_var_change(d, f) ==
  LET v == IF IndexOf(d.v, f) = {} THEN push_new_vfile(d.v, f, <<>>) ELSE d.v
  IN [d EXCEPT !.v = [i \in DOMAIN v |-> [v[i] EXCEPT !.changed = @ \/ v[i].file = f]]]

push_children(t, f) == [i \in DOMAIN t.child[FileObj(f)] |-> t.child[FileObj(f)][i][3][1]]

(* A slip: what is shown is saved the first time only.                     *)
KeepFirst(vf, t, just_started, set_been_displayed) ==
  [vf EXCEPT !.velist = IF @ = <<>> THEN push_children(t, vf.file) ELSE @,
             !.changed = FALSE, !.displayed = @ \/ just_started]

update_vf(vf, t, just_started, set_been_displayed) ==
  IF vf.changed
  THEN [vf EXCEPT !.velist = push_children(t, vf.file), !.changed = FALSE,
                  !.displayed = @ \/ just_started]
  ELSE [vf EXCEPT !.displayed = @ \/ set_been_displayed]

save_var_display_state(d, just_started, set_been_displayed) ==
  [d EXCEPT !.v = [i \in DOMAIN @ |-> update_vf(@[i], d.t, just_started, set_been_displayed)]]

update_file_entries(d, fs) ==
  [d EXCEPT !.v = [i \in DOMAIN @ |-> IF @[i].file \in fs THEN update_vf(@[i], d.t, TRUE, FALSE)
                                      ELSE @[i]]]

note_files_collapsed(d, fs) ==
  [d EXCEPT !.v = [i \in DOMAIN @ |-> IF @[i].file \in fs
                                      THEN [@[i] EXCEPT !.displayed = FALSE, !.changed = FALSE]
                                      ELSE @[i]]]

(* A new object for name n under f, and where variables end and others     *)
(* begin among the children of f.                                          *)
NewItem(t, f, n) ==
  FileObj(f) \o <<<<n, CHOOSE k \in 1..MaxKids :
                         /\ FileObj(f) \o <<<<n, k>>>> \notin ToSet(t.child[FileObj(f)])
                         /\ \A j \in 1..k - 1 :
                              FileObj(f) \o <<<<n, j>>>> \in ToSet(t.child[FileObj(f)])>>>>

AfterVars(kids) ==
  CHOOSE i \in 1..Len(kids) + 1 : /\ \A j \in 1..i - 1 : IsVar(kids[j])
                                  /\ i = Len(kids) + 1 \/ ~IsVar(kids[i])

Expanded(t, f) == sort_children(change_type(t, FileObj(f), TRUE))

AddVar(d, f, n, at) ==
  note_var_change([d EXCEPT !.t = new_object(@, NewItem(@, f, n), at)], f)

(* What show_global and restore_var add: a file shown plain is expanded.   *)
AddGlobal(d, f, n) ==
  LET e == AddVar(d, f, n, AfterVars(d.t.child[FileObj(f)]))
  IN IF FileObj(f) \in d.t.ex THEN e ELSE [e EXCEPT !.t = Expanded(@, f)]

restore_displayed_expr(d, f, n) ==
  note_var_change([d EXCEPT !.t = new_object(@, NewItem(@, f, n), 1)], f)

restore_display(d, f, velist) ==
  FoldLeft(LAMBDA e, n : IF n \in Vars THEN AddGlobal(e, f, n) ELSE restore_displayed_expr(e, f, n),
           d, velist)

AddFile(t, f) == IF Displayed(t, f) THEN t ELSE new_object(t, FileObj(f), 1)

restore_file_displays(d) ==
  FoldLeft(LAMBDA e, vf : IF vf.displayed THEN e
                          ELSE restore_display([e EXCEPT !.t = AddFile(@, vf.file)], vf.file, vf.velist),
           d, d.v)

(* Also tells whether the file has an entry: see Expand, like before.      *)
restore_file_display(d, f, force) ==
  LET e == IndexOf(d.v, f)
      vf == d.v[CHOOSE i \in e : TRUE]
      r == restore_display(d, f, vf.velist)
  IN IF e = {} \/ ~(force \/ vf.displayed) THEN d
     ELSE [r EXCEPT !.v = [i \in DOMAIN @ |-> [@[i] EXCEPT !.displayed = @ \/ r.v[i].file = f]]]

------------------------------------------------------------------------------
(* Handlers.                                                               *)

d0 == [t |-> tree, v |-> vflist]

Init ==
  /\ \E w \in Widths : tree = InitialTree(w)
  /\ vflist = <<>> /\ statefile = NoFile /\ alive = FALSE
  /\ kept = [f \in AllFiles |-> {}] /\ excused = {} /\ exited = FALSE
  /\ cmds = 0 /\ procs = 0

(* Updating is turned on again when the handler is done.                   *)
Done(d) == tree' = updating_on(d.t) /\ vflist' = d.v

(* Conjoined last; a command that changes nothing does not count.          *)
Command ==
  /\ cmds' = IF <<tree', vflist'>> = <<tree, vflist>> THEN cmds ELSE cmds + 1
  /\ cmds' <= MaxCmd
  /\ UNCHANGED <<statefile, alive, exited, procs>>

(* The user has the last word on what file f shows.                        *)
Left(f) == kept' = [kept EXCEPT ![f] = Shown(tree', f)] /\ excused' = excused \ {f}

Hidden(fs) ==
  /\ kept' = [f \in AllFiles |-> IF f \in fs THEN {} ELSE kept[f]]
  /\ excused' = excused \union fs

Room(f, n) == Len(tree.child[FileObj(f)]) + n <= MaxKids

(* do_srchead, MR_SHOW_SOURCE_FILES.                                       *)
ShowSourceFiles ==
  /\ LET show(d, f) == LET e == [d EXCEPT !.t = AddFile(@, f)]
                       IN IF Displayed(d.t, f) \/ ~alive THEN e
                          ELSE restore_file_display(e, f, FALSE)
         d == FoldLeft(show, d0, Files)
     IN Done([d EXCEPT !.t = sort_children(@)])
  /\ Command /\ UNCHANGED <<kept, excused>>

FilesShown == {f \in AllFiles : Displayed(tree, f)}

(* do_srchead, MR_HIDE_SOURCE_FILES.                                       *)
HideSourceFiles ==
  /\ LET d == update_file_entries(d0, FilesShown) IN Done([d EXCEPT !.t = RemoveChildless(@, Src)])
  /\ Command /\ UNCHANGED <<kept, excused>>

(* do_srchead, MR_HIDE_SOURCE_FILES_COMPLETELY.                            *)
HideCompletely ==
  /\ LET d == note_files_collapsed(update_file_entries(d0, FilesShown), AllFiles)
     IN Done([d EXCEPT !.t = RemoveDescendants(@, Src)])
  /\ Hidden(AllFiles)
  /\ Command

(* do_file, MR_ADD_EXPRESSION, and the text the user then types.           *)
AddExpression(f, n) ==
  /\ alive /\ Displayed(tree, f) /\ n \notin Vars /\ Room(f, 1)
  /\ LET t == ensure_visible(Expanded(tree, f))
         e == NewItem(t, f, n)
     IN Done(note_var_change([d0 EXCEPT !.t = new_object(t, e, Len(t.child[FileObj(f)]) + 1)], f))
  /\ Left(f) /\ Command

addvars(d, f) ==
  FoldLeft(LAMBDA e, n : IF n \in Shown(e.t, f) THEN e ELSE AddVar(e, f, n, 1), d, SetToSeq(Vars))

(* do_file, MR_EXPAND_COMPLETELY and MR_EXPAND_LIKE_BEFORE.                *)
Expand(f, like_before) ==
  /\ alive /\ Displayed(tree, f)
  /\ LET vf == IndexOf(vflist, f)
         before == like_before /\ vf # {}
         more == IF before THEN Len(vflist[CHOOSE i \in vf : TRUE].velist)
                 ELSE Cardinality(Vars \ Shown(tree, f))
         d == IF before THEN restore_file_display(d0, f, TRUE) ELSE addvars(d0, f)
         t == IF d.t.child[FileObj(f)] = <<>> THEN d.t ELSE change_type(d.t, FileObj(f), TRUE)
     IN Room(f, more) /\ Done([d EXCEPT !.t = ensure_visible(sort_children(t))])
  /\ Left(f) /\ Command

(* do_file, MR_COLLAPSE.                                                   *)
Collapse(f) ==
  /\ alive /\ Displayed(tree, f)
  /\ LET d == note_files_collapsed(update_file_entries(d0, {f}), {f})
     IN Done([d EXCEPT !.t =
                ensure_visible(sort_children(change_type(RemoveKids(@, FileObj(f)), FileObj(f), FALSE)))])
  /\ Hidden({f}) /\ Command

(* MR_VAR_DELETE of do_var_or_expr, for a variable and for an expression.  *)
Delete(f, o) ==
  /\ LET d == note_var_change(d0, f) IN Done([d EXCEPT !.t = unlink_object(@, o)])
  /\ Left(f) /\ Command

(* A variable clicked in the source.                                       *)
show_global(f, n) ==
  /\ alive /\ n \in Vars /\ Room(f, 1)
  /\ LET d == [d0 EXCEPT !.t = AddFile(@, f)]
         e == IF n \in Shown(tree, f) THEN d ELSE AddGlobal(d, f, n)
     IN Done([e EXCEPT !.t = ensure_visible(@)])
  /\ Left(f) /\ Command

(* A macro clicked in the source outside a function of the stack.  The     *)
(* type of the file is left alone.                                         *)
show_macro(f, n) ==
  /\ alive /\ n \notin Vars /\ Room(f, 1)
  /\ LET t == AddFile(tree, f)
         e == NewItem(t, f, n)
         new == new_object(t, e, Len(t.child[FileObj(f)]) + 1)
     IN IF n \in Shown(tree, f) THEN Done(d0)
        ELSE Done(note_var_change([d0 EXCEPT !.t = ensure_visible(new)], f))
  /\ Left(f) /\ Command

------------------------------------------------------------------------------
(* The target.  fs: files with a value that changed; frames: whether the   *)
(* functions' part of the display changes.                                 *)

rebuild_display(d, fs, frames) ==
  LET mark(t, f) == IF f \in fs THEN set_update_lptrs(t, FileObj(f)) ELSE t
      note(e, f) == IF Shown(e.t, f) \subseteq Vars THEN e ELSE note_var_change(e, f)
      t == IF frames THEN set_update_lptrs(d.t, Fun) ELSE d.t
  IN FoldLeft(note, [d EXCEPT !.t = FoldLeft(mark, t, Files)], Files)

close_target_display(d) ==
  LET hide(t, o) == change_type(RemoveKids(t, o), o, FALSE)
      t == set_update_lptrs(d.t, Fun)
  IN [d EXCEPT !.t = sort_children(FoldLeft(hide, t, t.child[Src]))]

remove_all_vars(t) == updating_on(RemoveDescendants(t, Src))

restore_target_state(d) ==
  IF statefile = NoFile THEN d
  ELSE [t |-> remove_all_vars(d.t),
        v |-> FoldLeft(LAMBDA v, s : push_new_vfile(v, s.file, s.velist), <<>>, statefile)]

(* MR_TGT_START.                                                           *)
Begin ==
  /\ ~alive /\ procs < MaxProc /\ procs' = procs + 1
  /\ excused' = excused \union
       IF statefile # NoFile THEN IF exited THEN AllFiles ELSE {}
       ELSE {vflist[i].file : i \in {j \in DOMAIN vflist : vflist[j].displayed}}
  /\ UNCHANGED <<statefile, kept, exited, cmds>>

Started == save_var_display_state(restore_target_state(d0), TRUE, FALSE)

Start(frames) ==
  /\ Begin /\ alive' = TRUE
  /\ Done(rebuild_display(restore_file_displays(Started), {}, frames))

(* The new process is gone before it stops.                                *)
StartDies == Begin /\ Done(close_target_display(Started)) /\ UNCHANGED alive

(* refresh_target_display after a stop.                                    *)
Stop(fs, frames) ==
  /\ alive /\ \A f \in fs : Shown(tree, f) # {}
  /\ Done(rebuild_display(save_var_display_state(d0, FALSE, FALSE), fs, frames))
  /\ UNCHANGED <<statefile, alive, kept, excused, exited, cmds, procs>>

(* refresh_target_display after the end of the process.                    *)
Exit ==
  /\ alive
  /\ Done(close_target_display(save_var_display_state(d0, FALSE, FALSE)))
  /\ alive' = FALSE /\ exited' = TRUE
  /\ UNCHANGED <<statefile, kept, excused, cmds, procs>>

(* MR_TGT_KILL and MR_TGT_DETACH: save_target_state, refresh_target_display. *)
Kill ==
  /\ alive
  /\ LET d == save_var_display_state(d0, TRUE, TRUE)
         written == SelectSeq(d.v, LAMBDA vf : vf.velist # <<>> /\ vf.displayed)
     IN /\ statefile' = [i \in DOMAIN written |->
                          [file |-> written[i].file, velist |-> written[i].velist]]
        /\ Done(close_target_display([t |-> remove_all_vars(d.t), v |-> <<>>]))
  /\ alive' = FALSE /\ exited' = FALSE
  /\ UNCHANGED <<kept, excused, cmds, procs>>

(* do_target, MR_DROP_STATE.                                               *)
DropState ==
  /\ statefile # NoFile /\ statefile' = NoFile
  /\ kept' = IF ~alive /\ vflist = <<>> THEN [f \in AllFiles |-> {}] ELSE kept
  /\ UNCHANGED <<tree, vflist, alive, excused, exited, cmds, procs>>

(* set_obj_wn_all_lines when the window has another width.                 *)
Resize(w) ==
  /\ w # tree.width
  /\ tree' = do_lptrs([tree EXCEPT !.width = w], TRUE)
  /\ UNCHANGED <<vflist, kept, excused>> /\ Command

Next ==
  \/ ShowSourceFiles \/ HideSourceFiles \/ HideCompletely
  \/ \E f \in AllFiles :
       \/ Collapse(f)
       \/ \E b \in BOOLEAN : Expand(f, b)
       \/ \E o \in ToSet(tree.child[FileObj(f)]) : Delete(f, o)
       \/ \E n \in Names : AddExpression(f, n) \/ show_global(f, n) \/ show_macro(f, n)
  \/ \E fs \in SUBSET AllFiles : Stop(fs, FALSE)
  \/ Stop({}, TRUE)  \* otherwise the root is marked for the files anyway
  \/ \E frames \in BOOLEAN : Start(frames)
  \/ StartDies \/ Exit \/ Kill \/ DropState
  \/ \E w \in Widths : Resize(w)

Spec == Init /\ [][Next]_vars

------------------------------------------------------------------------------
(* Properties.                                                             *)

(* The types of the variables: the children of a file are objects of that  *)
(* file, no file is shown twice or remembered twice.                       *)
TypeOK ==
  /\ tree.flag \subseteq Obj /\ tree.ex \subseteq Obj /\ ~tree.pending
  /\ \A o \in Parents : /\ \A p \in ToSet(tree.child[o]) : p \in Obj /\ Front(p) = o
                         /\ IsInjective(tree.child[o])
  /\ \A i \in DOMAIN vflist :
       /\ vflist[i].file \in AllFiles /\ ToSet(vflist[i].velist) \subseteq Names
       /\ \A j \in DOMAIN vflist : vflist[i].file = vflist[j].file => i = j
  /\ alive \in BOOLEAN /\ exited \in BOOLEAN /\ excused \subseteq AllFiles
  /\ kept \in [AllFiles -> SUBSET Names]

(* What the incremental layout leaves is what laying out everything again  *)
(* would give, but for the children of objects that are still marked:      *)
(* redo_lptrs and reclaim_lptrs put every other object on the right line   *)
(* and every line at the right height, whatever was marked.                *)
LayoutExact ==
  LET marked == [tree EXCEPT !.child = [o \in Parents |-> IF o \in tree.flag THEN <<>> ELSE @[o]]]
  IN tree.list = do_lptrs(marked, TRUE).list

(* reclaim_lptrs finds the lines it takes over: its walk along the old     *)
(* list for the line of the last descendant does not run off the list.     *)
LinesFound == ~tree.lost

(* "... an object whose lptrs are still up to date. This means that all    *)
(* the object's descendents lptrs are up to date" (o_lptrs.c:238).  So     *)
(* when nothing is pending, every object of the tree has its line.         *)
EverythingLaidOut == tree.list = do_lptrs(tree, TRUE).list

(* A file shows in a new process just what the user left it showing in the *)
(* last one, by whichever way (memory or state file) it was carried over,  *)
(* and a stop changes nothing of it.  Excused are a collapsed file, a file *)
(* marked been_displayed at a start, and a start from an old state file.   *)
ShownAsLeft == alive => \A f \in AllFiles \ excused : Shown(tree, f) = kept[f]
==============================================================================
