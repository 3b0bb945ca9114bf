------------------------------- MODULE ObjTree -------------------------------
(***************************************************************************)
(* The object tree of the display area (lib/libobj) and its layout.  The   *)
(* objects are laid out in lines, the lptrs: an object is on a line of its *)
(* own, or, when its type has no newline (OT_SFILE), shares one with its   *)
(* neighbours as long as the line is wide enough and has no children.      *)
(* Only the parts of the tree marked OB_UPDATE_LPTRS are laid out again;   *)
(* the lines of the others are taken over from the old list and moved.     *)
(*                                                                         *)
(* An object is the path to it from the root, so that its parent is Front. *)
(* A tree is a record: child, the children of each object that can have    *)
(* some; flag, the objects with OB_UPDATE_LPTRS; ex, the source files of   *)
(* type OT_SFILE_EX; list, the lines, each with the objects whose ob_lptr  *)
(* points at it and its lp_ypos; width, the objects a line has room for;   *)
(* pending, Do_lptrs_pending; lost, a line to be taken over was not found. *)
(* Heights are in lines, the root has none.                                *)
(***************************************************************************)
EXTENDS Integers, SequencesExt

CONSTANTS
  Files,    \* the source files, in the order of their names
  Names,    \* the variables and expressions a file may show
  MaxKids,  \* bound: objects under one file
  Widths    \* objects a line has room for, as the window is resized

Root == <<>>
Src == <<"src">>
Fun == <<"fun">>
FileObj(f) == <<"src", f>>
Item == {<<"src", f, <<n, k>>>> : f \in ToSet(Files), n \in Names, k \in 1..MaxKids}
Parents == {Root, Src, Fun} \union {FileObj(f) : f \in ToSet(Files)}
Obj == Parents \union Item

Kids(t, o) == IF Len(o) = 3 THEN <<>> ELSE t.child[o]

(* A line break before and after the object: every type but OT_SFILE.      *)
NewLine(t, o) == Len(o) # 2 \/ o \in t.ex

------------------------------------------------------------------------------
(* Layout: o_lptrs.c                                                       *)

(* How many of the siblings go on the first line.                          *)
OnLine(t, objs) ==
  CHOOSE n \in 1..Len(objs) :
    /\ \A i \in 1..n - 1 : ~NewLine(t, objs[i]) /\ ~NewLine(t, objs[i + 1])
                           /\ Kids(t, objs[i]) = <<>>
    /\ n <= t.width
    /\ \/ n = Len(objs) \/ n = t.width \/ Kids(t, objs[n]) # <<>>
       \/ NewLine(t, objs[n]) \/ NewLine(t, objs[n + 1])

Depth(line) == IF Root \in line.objs THEN 0 ELSE 1

(* Where the line after those of a list goes.                              *)
Below(list) == IF list = <<>> THEN 0 ELSE Last(list).ypos + Depth(Last(list))

RECURSIVE LastDescendant(_, _)
LastDescendant(t, objs) ==
  LET o == Last(objs) IN IF Kids(t, o) = <<>> THEN o ELSE LastDescendant(t, Kids(t, o))

LinesOf(list, o) == {i \in DOMAIN list : o \in list[i].objs}

(* A slip: the lines stay where they were.                                *)
NotMoved(lines, offset) == lines

Moved(lines, offset) == [i \in DOMAIN lines |-> [lines[i] EXCEPT !.ypos = @ + offset]]

(* The lines from that of the first of the siblings to that of the last    *)
(* descendant are moved from the old list, t.list, to the new one.         *)
reclaim_lptrs(t, objs, new) ==
  LET from == LinesOf(t.list, Head(objs))
      to == LinesOf(t.list, LastDescendant(t, objs))
      found == \E i \in from, j \in to : i <= j
      i == CHOOSE k \in from : TRUE
      j == CHOOSE k \in to : TRUE
  IN IF ~found THEN [t |-> [t EXCEPT !.lost = TRUE], new |-> new]
     ELSE [t |-> [t EXCEPT !.list = SubSeq(@, 1, i - 1) \o SubSeq(@, j + 1, Len(@))],
           new |-> new \o Moved(SubSeq(t.list, i, j), Below(new) - t.list[i].ypos)]

(* Lay out the siblings objs below the lines of new.  Of the objects of a  *)
(* line only the last can have children, and only its flag is cleared.     *)
RECURSIVE redo_lptrs(_, _, _, _)
redo_lptrs(t, objs, new, no_skip) ==
  IF objs = <<>> THEN [t |-> t, new |-> new]
  ELSE LET n == OnLine(t, objs)
           last == objs[n]
           line == [objs |-> ToSet(SubSeq(objs, 1, n)), ypos |-> Below(new)]
           under == IF Kids(t, last) = <<>> THEN [t |-> t, new |-> Append(new, line)]
                    ELSE IF last \in t.flag \/ no_skip
                    THEN redo_lptrs(t, t.child[last], Append(new, line), no_skip)
                    ELSE reclaim_lptrs(t, t.child[last], Append(new, line))
       IN redo_lptrs([under.t EXCEPT !.flag = @ \ {last}], SubSeq(objs, n + 1, Len(objs)),
                     under.new, no_skip)

do_lptrs(t, no_skip) ==
  LET r == redo_lptrs(t, <<Root>>, <<>>, no_skip)
  IN [r.t EXCEPT !.list = r.new, !.pending = FALSE]

(* The object and its ancestors up to the first that is marked already.    *)
Unmarked(t, o) ==
  {SubSeq(o, 1, n) : n \in {m \in 0..Len(o) : \A i \in m..Len(o) : SubSeq(o, 1, i) \notin t.flag}}

(* Every handler turns updating off before it changes the tree.            *)
set_update_lptrs(t, o) == [t EXCEPT !.flag = @ \union Unmarked(t, o), !.pending = TRUE]

(* What turning updating on again, visible() and get_position() do.        *)
updating_on(t) == IF t.pending THEN do_lptrs(t, FALSE) ELSE t
ensure_visible(t) == updating_on(t)

------------------------------------------------------------------------------
(* Changes of the tree: o_mkobj.c and o_chds.c                             *)

(* A slip: the parent is not marked.                                       *)
NewUnmarked(t, o, at) == [t EXCEPT !.child[Front(o)] = InsertAt(@, at, o)]

(* A new object has neither mark nor line, see unlink_object.              *)
new_object(t, o, at) ==
  set_update_lptrs([t EXCEPT !.child[Front(o)] = InsertAt(@, at, o)], Front(o))

ForgetLine(list, o) == [i \in DOMAIN list |-> [list[i] EXCEPT !.objs = @ \ {o}]]

Unlinked(t, o) ==
  [t EXCEPT !.child[Front(o)] = Remove(@, o), !.flag = @ \ {o}, !.ex = @ \ {o},
            !.list = ForgetLine(@, o)]

unlink_object(t, o) == set_update_lptrs(Unlinked(t, o), Front(o))

(* remove_object(par, OBJ_DESCENDENTS); objects have at most two levels    *)
(* under the source files' header.                                         *)
RemoveKids(t, par) == FoldLeft(unlink_object, t, t.child[par])
RemoveWhole(t, o) == unlink_object(RemoveKids(t, o), o)
RemoveDescendants(t, par) == FoldLeft(RemoveWhole, t, t.child[par])

(* remove_object(par, OBJ_CHILDREN) spares the children with children.     *)
RemoveChildless(t, par) ==
  FoldLeft(unlink_object, t, SelectSeq(t.child[par], LAMBDA o : t.child[o] = <<>>))

change_type(t, o, ex) ==
  set_update_lptrs([t EXCEPT !.ex = IF ex THEN @ \union {o} ELSE @ \ {o}], Front(o))

(* Files that show something come last, otherwise by name.                 *)
src_cmp(t, a, b) ==
  LET shows(o) == t.child[o] # <<>>
      place(o) == CHOOSE i \in DOMAIN Files : Files[i] = o[2]
  IN IF shows(a) # shows(b) THEN shows(b) ELSE place(a) < place(b)

(* Source files are all that is ever sorted.                               *)
sort_children(t) ==
  set_update_lptrs([t EXCEPT !.child[Src] = SortSeq(@, LAMBDA a, b : src_cmp(t, a, b))], Src)

(* The tree of initialise_display_area; the other rows are left out.       *)
InitialTree(w) ==
  do_lptrs([child |-> [o \in Parents |-> IF o = Root THEN <<Src, Fun>> ELSE <<>>],
            flag |-> {Root}, ex |-> {}, list |-> <<[objs |-> {Root}, ypos |-> 0]>>,
            width |-> w, pending |-> TRUE, lost |-> FALSE], FALSE)
==============================================================================
