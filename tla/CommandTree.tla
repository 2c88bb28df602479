----------------------------- MODULE CommandTree -----------------------------
(***************************************************************************)
(* The command tree of an executor (baseCli.c): records that the           *)
(* application supplies, linked into a list for each directory and into    *)
(* one list of all commands.                                               *)
(*                                                                         *)
(* The loops of the code walk along a pointer until they break off or meet *)
(* the null pointer.  How a name is split from its arguments and what is   *)
(* printed in which columns is left out.                                   *)
(***************************************************************************)
EXTENDS CommandDirectory

CONSTANTS
  Prefix,     \* the name of the root, of init_data
  Garbage     \* what is in a field that nobody has written

VARIABLES name, fv, parent_dir, next_entry, link2subdir, cmd_list,  \* of records
          list                                                      \* the newest command

fields == <<name, fv, parent_dir, next_entry, link2subdir, cmd_list, list>>
treeVars == <<fields, current_directory, bound, answer>>

Nodes == Records \cup {Root}
Pointers == Nodes \cup {Null}

ASSUME TreeAssumption ==
  Prefix \in STRING /\ Garbage \notin Pointers \cup Functions \cup STRING

\* What a walk meets that starts with pointer x, follows next and breaks off at
\* the first member of M: the least set that has x and is closed under next but
\* at M.
Met(x, next, M) ==
  LET Closed == {S \in SUBSET Pointers :
                   x \in S /\ \A z \in S \ M : z = Null \/ next[z] \in S}
  IN  {y \in Pointers : \A S \in Closed : y \in S}

\* Where that walk breaks off, if it does: one node at most.
Hit(x, next, M) == Met(x, next, M) \cap M

\* It comes to the end of the list instead.
Missed(x, next, M) == Null \in Met(x, next, M)

\* cli_init.
TreeInit ==
  /\ name = [r \in Nodes |-> IF r = Root THEN Prefix ELSE Garbage]
  /\ fv = [r \in Nodes |-> IF r = Root THEN Null ELSE Garbage]
  /\ parent_dir = [r \in Nodes |-> IF r = Root THEN Root ELSE Garbage]
  /\ next_entry = [r \in Nodes |-> IF r = Root THEN Null ELSE Garbage]
  /\ link2subdir = [r \in Nodes |-> IF r = Root THEN Null ELSE Garbage]
  /\ cmd_list = [r \in Nodes |-> Garbage]
  /\ list = Null
  /\ DirectoryInit
-----------------------------------------------------------------------------
(* What the application calls.                                             *)

Reports(code) == answer' = <<code>> /\ UNCHANGED <<fields, current_directory, bound>>

\* Broken variant: the record is its own parent.
ParentIsItself(d, r) == parent_dir' = [parent_dir EXCEPT ![r] = r]

PutName(n, r) == name' = [name EXCEPT ![r] = Stored[n]]
PutParent(d, r) == parent_dir' = [parent_dir EXCEPT ![r] = d]

\* Record r becomes the entry n of directory d.
FillRecord(n, f, d, r) ==
  /\ PutName(n, r) /\ PutParent(d, r)
  /\ fv' = [fv EXCEPT ![r] = f]
  /\ IF f # Null
     THEN cmd_list' = [cmd_list EXCEPT ![r] = list] /\ list' = r
     ELSE UNCHANGED <<cmd_list, list>>
  /\ bound' = Append(bound, [rec |-> r, name |-> Stored[n], fv |-> f, dir |-> d])
  /\ answer' = <<"OK">>
  /\ UNCHANGED current_directory

LinkFirst(d, r) ==
  /\ link2subdir[d] = Null
  /\ link2subdir' = [link2subdir EXCEPT ![d] = r, ![r] = Null]
  /\ next_entry' = [next_entry EXCEPT ![r] = Null]

\* Broken variant: the link of the new record is not cleared.
LinkUncleared(e, r) ==
  /\ next_entry[e] = Null
  /\ next_entry' = [next_entry EXCEPT ![e] = r]
  /\ link2subdir' = [link2subdir EXCEPT ![r] = Null]

LinkAfter(e, r) ==
  /\ next_entry[e] = Null
  /\ next_entry' = [next_entry EXCEPT ![e] = r, ![r] = Null]
  /\ link2subdir' = [link2subdir EXCEPT ![r] = Null]

\* The loop goes on to the last entry, which it does not look at, unless it
\* finds the record or the name before.
StopsBind(n, r) == {e \in Nodes : next_entry[e] = Null \/ e = r \/ name[e] = n}

cli_bind_entry(n, f, d, r) ==
  \/ n = Null /\ Reports("NULL_NAME")
  \/ n # Null /\ r = Null /\ Reports("NULL_CMD")
  \/ n # Null /\ r = d /\ Reports("RECORD_CORRUPT")
  \/ /\ n # Null /\ r \notin {Null, d}
     /\ LinkFirst(d, r) /\ FillRecord(n, f, d, r)
  \/ /\ n # Null /\ r \notin {Null, d} /\ link2subdir[d] # Null
     /\ \E e \in Hit(link2subdir[d], next_entry, StopsBind(n, r)) :
          \/ LinkAfter(e, r) /\ FillRecord(n, f, d, r)
          \/ next_entry[e] # Null /\ e = r /\ Reports("RECORD_CORRUPT")
          \/ next_entry[e] # Null /\ e # r /\ Reports("DUPLICATE")

\* The directory that an argument means.
DirectoryOf(dir) == IF dir = Null THEN Root ELSE dir

cli_mkcmd(n, f, dir, r) ==
  \/ f = Null /\ Reports("NULL_FV")
  \/ f # Null /\ fv[DirectoryOf(dir)] # Null /\ Reports("DIR_INVALID")
  \/ f # Null /\ fv[DirectoryOf(dir)] = Null /\ cli_bind_entry(n, f, DirectoryOf(dir), r)

cli_mkdir(n, dir, r) ==
  \/ fv[DirectoryOf(dir)] # Null /\ Reports("DIR_INVALID")
  \/ fv[DirectoryOf(dir)] = Null /\ cli_bind_entry(n, Null, DirectoryOf(dir), r)

\* Records are bound once, as those of the executor are, and a directory is
\* used after it is bound; tries that the code refuses do no harm.
Bound == {bound[i].rec : i \in Ages}

Application ==
  \E n \in Names \cup {Null}, dir \in Bound \cup {Null}, r \in Records \cup {Null} :
    /\ \/ \E f \in Functions \cup {Null} : cli_mkcmd(n, f, dir, r)
       \/ cli_mkdir(n, dir, r)
    /\ r \in Bound => UNCHANGED bound
-----------------------------------------------------------------------------
(* What the user enters: cli_engine.                                       *)

Stay(what) == answer' = what /\ UNCHANGED current_directory

\* The record r is the one that was found for the line: its function runs, or the
\* user goes to the directory.
Take(entered, r) ==
  /\ answer' = <<"found", entered, r>>
  /\ current_directory' = IF fv[r] # Null THEN current_directory ELSE r

\* list_directory and global_command_list put out what they meet.
Lists(w, x, next) ==
  Missed(x, next, {}) /\ Stay(<<"listed", w, Met(x, next, {}) \ {Null}>>)

\* Broken variant: the name of the last entry is not looked at.
MatchButLast(w) == {r \in Nodes : name[r] = w /\ next_entry[r] # Null}

Match(w) == {r \in Nodes : name[r] = w}

\* The part of cli_find_cmd behind the search of the current directory.
FindBuiltIn(w) ==
  \/ w = ".." /\ current_directory' = parent_dir[current_directory]
       /\ answer' = <<"moved", w>>
  \/ w = "~" /\ current_directory' = Root /\ answer' = <<"moved", w>>
  \/ w = "ld" /\ Lists(w, link2subdir[current_directory], next_entry)
  \/ w = "ls" /\ Lists(w, list, cmd_list)
  \/ w \in {"h", "help", "?"} /\ Stay(<<"help", w>>)
  \/ w \notin BuiltIns /\ Stay(<<"unknown", <<w>>>>)

\* A name alone: the current directory, then the built-in words.
FindHere(w) ==
  LET first == link2subdir[current_directory] IN
  \/ \E r \in Hit(first, next_entry, Match(w)) : Take(<<w>>, r)
  \/ Missed(first, next_entry, Match(w)) /\ FindBuiltIn(w)

\* A name behind a "!": the list of all commands.
FindGlobal(w) ==
  \/ \E r \in Hit(list, cmd_list, Match(w)) : Take(<<"!", w>>, r)
  \/ Missed(list, cmd_list, Match(w)) /\ Stay(<<"unknown", <<"!", w>>>>)

\* Every line ends in a redraw; a line without a word does only that, and one with
\* an unprintable character is dropped (a step that changes nothing).
executeCommand ==
  /\ \/ \E w \in Words : FindHere(w) \/ FindGlobal(w)
     \/ Stay(<<"redrawn">>)
  /\ UNCHANGED <<fields, bound>>

TreeNext == Application \/ executeCommand
TreeSpec == TreeInit /\ [][TreeNext]_treeVars
-----------------------------------------------------------------------------
\* Each record is in one state: not bound and never written, or bound and
\* complete; where the user is, is a directory (the fields of cli_record_t that
\* cli_bind_entry writes).
TypeOK ==
  /\ bound \in Seq([rec : Records, name : STRING, fv : Functions \cup {Null},
                    dir : Nodes])
  /\ \A i, j \in Ages : bound[i].rec = bound[j].rec => i = j
  /\ \A i \in Ages : bound[i].dir \in Directories
  /\ current_directory \in Directories
  /\ list \in Pointers
  /\ {name, fv, parent_dir, next_entry, link2subdir, cmd_list} \subseteq
       [Nodes -> Pointers \cup Functions \cup STRING \cup {Garbage}]

\* The names, kinds and parents in the records are those they were bound with.
RecordsKept ==
  /\ fv[Root] = Null /\ parent_dir[Root] = Root
  /\ \A i \in Ages :
       LET r == bound[i].rec IN
       name[r] = bound[i].name /\ fv[r] = bound[i].fv /\ parent_dir[r] = bound[i].dir

\* x is the oldest entry of d that is younger than entry i, or null.
Follows(x, i, d) ==
  \/ x = Null /\ \A j \in In(d) : j <= i
  \/ \E j \in In(d) : x = bound[j].rec /\ i < j /\ \A k \in In(d) : k <= i \/ j <= k

\* x is the youngest command that is older than entry i, or null.
Precedes(x, i) ==
  \/ x = Null /\ \A j \in Commands : i <= j
  \/ \E j \in Commands : x = bound[j].rec /\ j < i /\ \A k \in Commands : k <= j \/ i <= k

\* The links of each directory lead through its entries, the oldest first, and
\* those of the command list through all commands, the newest first: none is
\* lost, none met twice and none met in another list, however the binds of
\* different directories are mixed (cli_bind_entry appends to the one and
\* pushes on the other).
LinksKept ==
  /\ \A d \in Directories : Follows(link2subdir[d], 0, d)
  /\ \A i \in Ages : Follows(next_entry[bound[i].rec], i, bound[i].dir)
  /\ Precedes(list, Len(bound) + 1)
  /\ \A i \in Commands : Precedes(cmd_list[bound[i].rec], i)

\* From wherever the user is, ".." leads to the root in the end, and no
\* directory is inside itself (parent_dir, which cli_find_cmd follows).
WayHome ==
  /\ \A d \in Directories : Root \in Met(d, parent_dir, {Root})
  /\ \A d \in Directories \ {Root} : d \notin Met(parent_dir[d], parent_dir, {Root})

\* Whatever the application has bound, names given twice included, what the user
\* gets by a name, a "!" name or a listing is what CommandDirectory says of these
\* entries (cli_find_cmd, list_directory, global_command_list): none is hidden
\* by the lists, none is met in another directory.  A bind that is refused
\* changes nothing.
LookupsKept == [][UNCHANGED bound => Refuse \/ Enter]_treeVars

\* The tree is the promised directory: the variables of CommandDirectory are
\* among those of this module.  cli_bind_entry says "do not allow duplicate names
\* within the same subdirectory", but does not look at the last entry.
KeepsDirectory == DirectorySpec

\* No directory has two entries with the same name.
NamesDistinct ==
  \A i, j \in Ages : bound[i].dir = bound[j].dir /\ bound[i].name = bound[j].name => i = j
=============================================================================
