-------------------------- MODULE CommandDirectory --------------------------
(***************************************************************************)
(* What the command tree of baseCli.c promises, without its links: the     *)
(* records that were bound, in that order, with no name twice in the same  *)
(* directory; a name means the entry of the current directory that has it, *)
(* a "!" and a name the newest command anywhere.                           *)
(***************************************************************************)
EXTENDS Integers, Sequences

CONSTANTS
  Records,        \* the records of the application
  Root,           \* the record of the root directory
  Names,          \* the names that it gives to entries
  Stored,         \* Stored[n]: what a record keeps of the name n
  Functions,      \* the functions of its commands
  Null

VARIABLES
  bound,              \* the entries, the oldest first
  current_directory,
  answer              \* what the last call returned, or what line gave what

BuiltIns == {"..", "~", "ld", "ls", "h", "help", "?"}
Words == Names \cup {Stored[n] : n \in Names} \cup BuiltIns

Refusals == {"NULL_NAME", "NULL_FV", "DUPLICATE", "RECORD_CORRUPT", "NULL_CMD",
             "DIR_INVALID"}

ASSUME DirectoryAssumption ==
  /\ Root \notin Records /\ Null \notin Records \cup {Root} \cup Functions
  /\ Null \notin Names /\ Stored \in [Names -> STRING]

Ages == DOMAIN bound
In(d) == {i \in Ages : bound[i].dir = d}
Named(w) == {i \in Ages : bound[i].name = w}
Commands == {i \in Ages : bound[i].fv # Null}
Holds(r) == {i \in Ages : bound[i].rec = r}
Directories == {Root} \cup {bound[i].rec : i \in Ages \ Commands}
Parent(d) == IF d = Root THEN Root ELSE bound[CHOOSE i \in Holds(d) : TRUE].dir

DirectoryInit == bound = <<>> /\ current_directory = Root /\ answer = <<"OK">>

Bind ==
  \E r \in Records, n \in Names, f \in Functions \cup {Null}, d \in Directories :
    /\ Holds(r) = {} /\ In(d) \cap Named(Stored[n]) = {}
    /\ bound' = Append(bound, [rec |-> r, name |-> Stored[n], fv |-> f, dir |-> d])
    /\ answer' = <<"OK">>
    /\ UNCHANGED current_directory

Refuse == answer' \in {<<c>> : c \in Refusals} /\ UNCHANGED <<bound, current_directory>>

\* Entry i is the one that the line asks for.
Found(entered, i) ==
  /\ answer' = <<"found", entered, bound[i].rec>>
  /\ current_directory' = IF i \in Commands THEN current_directory ELSE bound[i].rec

Open(w) == \E i \in In(current_directory) \cap Named(w) : Found(<<w>>, i)

Search(w) ==
  \E i \in Commands \cap Named(w) :
    Found(<<"!", w>>, i) /\ \A j \in Commands \cap Named(w) : j <= i

Unknown(entered) == answer' = <<"unknown", entered>> /\ UNCHANGED current_directory

BuiltIn(w) ==
  \/ w = ".." /\ current_directory' = Parent(current_directory) /\ answer' = <<"moved", w>>
  \/ w = "~" /\ current_directory' = Root /\ answer' = <<"moved", w>>
  \/ /\ w = "ld" /\ answer' = <<"listed", w, {bound[i].rec : i \in In(current_directory)}>>
     /\ UNCHANGED current_directory
  \/ /\ w = "ls" /\ answer' = <<"listed", w, {bound[i].rec : i \in Commands}>>
     /\ UNCHANGED current_directory
  \/ w \in {"h", "help", "?"} /\ answer' = <<"help", w>> /\ UNCHANGED current_directory
  \/ w \notin BuiltIns /\ Unknown(<<w>>)

Enter ==
  /\ \/ \E w \in Words :
          \/ Open(w)
          \/ In(current_directory) \cap Named(w) = {} /\ BuiltIn(w)
          \/ Search(w)
          \/ Commands \cap Named(w) = {} /\ Unknown(<<"!", w>>)
     \/ answer' = <<"redrawn">> /\ UNCHANGED current_directory
  /\ UNCHANGED bound

DirectoryNext == Bind \/ Refuse \/ Enter
DirectorySpec ==
  DirectoryInit /\ [][DirectoryNext]_<<bound, current_directory, answer>>
=============================================================================
