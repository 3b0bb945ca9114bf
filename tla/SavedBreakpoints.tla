--------------------------- MODULE SavedBreakpoints ---------------------------
(***************************************************************************)
(* Breakpoint objects and the files they are written to and read from      *)
(* (obj_bpt.c, config.c): the temporary state file, through which every    *)
(* start, attach and library scan takes all breakpoints out and puts them  *)
(* back, the state file of the session, a file of the user's, and the      *)
(* .config file.                                                           *)
(*                                                                         *)
(* Every action is a whole handler.  A place is a line of a file; two      *)
(* lines at one address are one place.  The sources do not change, so a    *)
(* line that is saved is found again, and files can be written.            *)
(***************************************************************************)
EXTENDS Naturals, FiniteSets, SequencesExt

CONSTANTS
  Line,     \* the places with executable code
  Bare,     \* those of Line in functions without line numbers
  CodeLine, \* places without executable code, for interpreted code
  Entry,    \* of each of Line, the first place of its function
  FileOf,   \* the source file of each place
  Config,   \* the breakpoints in the .config file
  MaxCmd,   \* bound: commands about breakpoints
  MaxProc   \* bound: starts, attaches, scans and reloads

Place == Line \cup CodeLine
Entries == [at : Place, inactive : BOOLEAN, code : BOOLEAN]
Objects == [inactive : BOOLEAN, code : BOOLEAN, save : BOOLEAN]

ASSUME PlaceAssumption ==
  /\ Bare \subseteq Line /\ Line \cap CodeLine = {} /\ Entry \in [Line -> Line]
  /\ \A p \in Line : Entry[Entry[p]] = Entry[p]
  /\ \A p \in Bare : Entry[p] = p
  /\ IsFiniteSet(Line) /\ IsFiniteSet(CodeLine)
  /\ Config \in Seq(Entries) /\ {MaxCmd, MaxProc} \subseteq Nat

VARIABLES
  objs,     \* the children of the Breakpoints header: bd_inactive, HAS_CODE, want_save
  temp,     \* /tmp/ups-state.PID, as far as it is about breakpoints
  tempThere,\* whether that file exists
  state,    \* the breakpoints in ups-state/xxx.state
  own,      \* the breakpoints in a file the user saves and loads
  running,  \* the target exists
  asked,    \* history: places at which the user or a file asked for one
  had,      \* history: places that had one since temp was last emptied
  cmds, procs
vars == <<objs, temp, tempThere, state, own, running, asked, had, cmds, procs>>

None == [p \in {} |-> [inactive |-> FALSE, code |-> FALSE, save |-> FALSE]]
Places(f) == {f[i].at : i \in DOMAIN f}

------------------------------------------------------------------------------
(* Writing and reading                                                     *)

(* Interpreted code is saved without its state.                            *)
Saved(o, which) ==
  LET entry(p) == [at |-> p, code |-> o[p].code, inactive |-> o[p].inactive /\ p \in Line]
  IN SetToSeq({entry(p) : p \in DOMAIN o \cap which})

WantSave(o) == {p \in DOMAIN o : o[p].save}
save_all_breakpoints_to_file(o) == Saved(o, WantSave(o))

(* A slip: a breakpoint of the same line is not looked for.                *)
NotReplaced(o, e) == o

(* fil_and_lnum_to_bdobj does not find a breakpoint without a line number. *)
Replaced(o, e) == IF e.at \in Bare THEN o ELSE Restrict(o, DOMAIN o \ {e.at})

(* The place asked for, or else, for a breakpoint, the function's first.   *)
Slots(o, e) ==
  IF e.at \notin DOMAIN o THEN {e.at}
  ELSE IF e.at \in CodeLine THEN {} ELSE {Entry[e.at]} \ DOMAIN o

(* Code is set after want_save, and setting it makes want_save TRUE.       *)
HandleAdd(o, e, fromStatefile) ==
  LET before == IF fromStatefile THEN Replaced(o, e) ELSE o
      new == [inactive |-> e.inactive, code |-> e.code,
              save |-> fromStatefile \/ (e.code /\ e.at \in Line)]
  IN [p \in DOMAIN before \cup Slots(before, e) |->
        IF p \in DOMAIN before THEN before[p] ELSE new]

read_config_file(o, f, fromStatefile) ==
  LET reading[n \in 0 .. Len(f)] ==
        IF n = 0 THEN o ELSE HandleAdd(reading[n - 1], f[n], fromStatefile)
  IN reading[Len(f)]

(* The lines of f that find their place taken, by o or by a line before.   *)
Retried(o, f) ==
  {p \in Line : \E i \in DOMAIN f :
                  f[i].at = p /\ p \in DOMAIN o \cup {f[j].at : j \in 1 .. i - 1}}

(* Read without replacing, they ask for the first place of their function. *)
Asks(o, f, fromStatefile) ==
  Places(f) \cup (IF fromStatefile THEN {} ELSE {Entry[p] : p \in Retried(o, f)})

(* A slip: what is there now is read first, and the old file overrides it. *)
RestoreOldLast(f, there, o) ==
  LET g == save_all_breakpoints_to_file(o) \o f
  IN IF there THEN [f |-> g, o |-> read_config_file(None, g, TRUE)] ELSE [f |-> f, o |-> o]

(* A slip: the file is not looked for.                                     *)
RestoreAnyway(f, there, o) ==
  LET g == f \o save_all_breakpoints_to_file(o)
  IN [f |-> g, o |-> read_config_file(None, g, TRUE)]

restore_target_state(f, there, o) ==
  LET g == f \o save_all_breakpoints_to_file(o)
  IN IF there THEN [f |-> g, o |-> read_config_file(None, g, TRUE)] ELSE [f |-> f, o |-> o]

------------------------------------------------------------------------------
(* The user's commands                                                     *)

Init ==
  /\ objs = read_config_file(None, Config, FALSE)
  /\ temp = <<>> /\ tempThere = FALSE
  /\ state = <<>> /\ own = <<>>
  /\ running = FALSE
  /\ asked = Asks(None, Config, FALSE) /\ had = DOMAIN objs
  /\ cmds = 0 /\ procs = 0

Now(o, places) ==
  /\ objs' = o
  /\ asked' = asked \cup places
  /\ had' = had \cup DOMAIN o
  /\ cmds < MaxCmd /\ cmds' = cmds + 1
  /\ UNCHANGED <<temp, tempThere, state, running, procs>>

With(o, p, bd) == [q \in DOMAIN o \cup {p} |-> IF q = p THEN bd ELSE o[q]]

make_bd(c) == [inactive |-> FALSE, code |-> c, save |-> TRUE]

(* add_breakpoint_object and add_interpreted_code refuse a taken place.    *)
Add(p) ==
  /\ p \notin DOMAIN objs
  /\ Now(With(objs, p, make_bd(p \in CodeLine)), {p})
  /\ UNCHANGED own

EditCode(p) ==
  /\ p \in DOMAIN objs \cap Line /\ ~(objs[p].code /\ objs[p].save)
  /\ Now([objs EXCEPT ![p].code = TRUE, ![p].save = TRUE], {})
  /\ UNCHANGED own

move_bpt(p, q) ==
  /\ p \in DOMAIN objs \cap Line /\ ~objs[p].code
  /\ q \in Line \ DOMAIN objs
  /\ Now(With(Restrict(objs, DOMAIN objs \ {p}), q, [objs[p] EXCEPT !.save = TRUE]), {q})
  /\ UNCHANGED own

set_bpt_state(p, b) ==
  /\ p \in DOMAIN objs /\ objs[p].inactive # b
  /\ Now([objs EXCEPT ![p].inactive = b], {})
  /\ UNCHANGED own

remove_object(p) ==
  /\ p \in DOMAIN objs
  /\ Now(Restrict(objs, DOMAIN objs \ {p}), {})
  /\ UNCHANGED own

remove_all ==
  /\ objs # None
  /\ Now(None, {})
  /\ UNCHANGED own

SaveOne(p, append) ==
  /\ p \in DOMAIN objs
  /\ own' = (IF append THEN own ELSE <<>>) \o Saved(objs, {p})
  /\ Now(objs, {})

(* A load that is not to be saved does not replace: where a breakpoint is  *)
(* already, one at the function's first line is added.                     *)
load_breakpoints(fromStatefile) ==
  /\ own # <<>>
  /\ Now(read_config_file(objs, own, fromStatefile), Asks(objs, own, fromStatefile))
  /\ UNCHANGED own

RestoreBreakpoints ==
  /\ state # <<>>
  /\ Now(read_config_file(objs, state, TRUE), Asks(objs, state, TRUE))
  /\ UNCHANGED own

------------------------------------------------------------------------------
(* What goes through the temporary file                                    *)

Through(f, there, o, run) ==
  LET r == restore_target_state(f, there, o)
  IN /\ objs' = r.o /\ temp' = r.f /\ tempThere' = there
     /\ running' = run
     /\ procs < MaxProc /\ procs' = procs + 1
     /\ UNCHANGED <<state, own, asked, cmds>>

Start ==
  /\ ~running
  /\ Through(temp, tempThere, objs, TRUE)
  /\ UNCHANGED had

(* The program was built anew: attach_to_target saves and removes all, and *)
(* the state is restored twice.                                            *)
StartRebuilt ==
  LET f == temp \o save_all_breakpoints_to_file(objs)
      r == restore_target_state(f, TRUE, None)
  IN /\ ~running
     /\ Through(r.f, TRUE, r.o, TRUE)
     /\ UNCHANGED had

(* A process there was is let go of first, which empties the file, but not *)
(* for a blank pid, which stands for that of the last attach.              *)
Attach(blank) ==
  LET letGo == running /\ ~blank
  IN /\ Through(IF letGo THEN <<>> ELSE temp, letGo \/ tempThere, objs, TRUE)
     /\ had' = IF letGo THEN DOMAIN objs ELSE had

(* The program was built anew or its libraries were: the process is let go *)
(* of, attach_to_target saves and removes all, and the state is restored.  *)
(* If it was the program, that was done before; for a blank pid, the file  *)
(* is emptied.                                                             *)
AttachAnew(why) ==
  LET emptied == running \/ why = "blank"
      f == IF emptied THEN <<>> ELSE temp
      r == IF why = "program" THEN restore_target_state(f, running \/ tempThere, objs)
                              ELSE [f |-> f, o |-> objs]
  IN /\ Through(r.f \o save_all_breakpoints_to_file(r.o), TRUE, None, TRUE)
     /\ had' = IF emptied THEN DOMAIN objs ELSE had

ScanLibraries ==
  /\ running
  /\ Through(save_all_breakpoints_to_file(objs), TRUE, None, TRUE)
  /\ had' = DOMAIN objs

(* open_source_file with rematch or reload saves those of the file,        *)
(* wanted or not.                                                          *)
ReloadSource(file) ==
  LET its == {p \in DOMAIN objs : FileOf[p] = file}
  IN /\ Through(Saved(objs, its), TRUE, Restrict(objs, DOMAIN objs \ its), running)
     /\ had' = DOMAIN objs

(* A slip: the file is opened for appending.                               *)
Kept(f) == f

(* save_target_state for Kill and Detach: mode "w", no breakpoints.        *)
Emptied(f) == <<>>

KillOrDetach ==
  /\ running
  /\ temp' = Emptied(temp) /\ tempThere' = TRUE
  /\ had' = DOMAIN objs
  /\ running' = FALSE
  /\ UNCHANGED <<objs, state, own, asked, cmds, procs>>

Exit ==
  /\ running
  /\ running' = FALSE
  /\ UNCHANGED <<objs, temp, tempThere, state, own, asked, had, cmds, procs>>

DropState ==
  /\ tempThere
  /\ temp' = <<>> /\ tempThere' = FALSE
  /\ had' = DOMAIN objs
  /\ UNCHANGED <<objs, state, own, running, asked, cmds, procs>>

(* save_state, and the next session: load_config ignores the breakpoints   *)
(* of the state file and reads those of the .config file.                  *)
Quit ==
  /\ procs < MaxProc /\ procs' = procs + 1
  /\ state' = save_all_breakpoints_to_file(objs)
  /\ objs' = read_config_file(None, Config, FALSE)
  /\ temp' = <<>> /\ tempThere' = FALSE
  /\ running' = FALSE
  /\ asked' = Asks(None, Config, FALSE) /\ had' = DOMAIN objs'
  /\ UNCHANGED <<own, cmds>>

Command ==
  \/ \E p \in Place : Add(p) \/ EditCode(p) \/ remove_object(p)
  \/ \E p, q \in Line : move_bpt(p, q)
  \/ \E p \in Place, b \in BOOLEAN : set_bpt_state(p, b) \/ SaveOne(p, b)
  \/ remove_all
  \/ \E b \in BOOLEAN : load_breakpoints(b)
  \/ RestoreBreakpoints

Restoring ==
  \/ Start \/ StartRebuilt \/ ScanLibraries
  \/ \E blank \in BOOLEAN : Attach(blank)
  \/ \E why \in {"program", "libraries", "blank"} : AttachAnew(why)
  \/ \E file \in {FileOf[p] : p \in Place} : ReloadSource(file)

(* The bounds are used up.                                                 *)
Done == cmds = MaxCmd /\ procs = MaxProc /\ UNCHANGED vars

Next == Command \/ Restoring \/ KillOrDetach \/ Exit \/ DropState \/ Quit \/ Done

Spec == Init /\ [][Next]_vars

------------------------------------------------------------------------------
Partial(S) == UNION {[D -> S] : D \in SUBSET Place}

(* Objects are at places, and files hold what can be read back.            *)
TypeOK ==
  /\ objs \in Partial(Objects)
  /\ {temp, state, own} \subseteq Seq(Entries)
  /\ {tempThere, running} \subseteq BOOLEAN
  /\ {asked, had} \subseteq SUBSET Place
  /\ (tempThere \/ temp = <<>>)

(* No start, attach, library scan or reload of a source loses or changes a *)
(* breakpoint that is to be saved, although all of them are removed and    *)
(* read back from a file that may hold older states of the same ones.  One *)
(* in a function without line numbers may come back in an older state:     *)
(* its first entry wins.                                                   *)
KeptThrough ==
  [][Restoring => \A p \in WantSave(objs) :
       /\ p \in WantSave(objs')
       /\ objs'[p].code = objs[p].code \/ p \in Bare
       /\ objs'[p].inactive = objs[p].inactive \/ p \in Bare \cup CodeLine]_vars

(* Only breakpoints the user had since the temporary file was last emptied *)
(* (by Kill, Detach, Drop state, a scan or a reload) come back with a      *)
(* start: after any of these, removing a breakpoint is for good.           *)
NoneRevived == [][Restoring => DOMAIN objs' \subseteq had']_vars

(* The second attempt of handle_add_breakpoint_command, at the start of    *)
(* the function, never puts a breakpoint where nobody asked for one, but   *)
(* for a line that is read without replacing and finds its place taken.    *)
OnlyWhereAsked == DOMAIN objs \subseteq asked
==============================================================================
