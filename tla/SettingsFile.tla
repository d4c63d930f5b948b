--------------------------- MODULE SettingsFile ---------------------------
(***************************************************************************)
(* The reader of the settings files, control/yaml_settings.cpp: indented   *)
(* lines "key: value" into nested maps, and the lookups on them.           *)
(*                                                                         *)
(* A line is its indentation, its key, the value's text and whether a      *)
(* comment follows the value; a node of the tree is found by the path of   *)
(* keys that leads to it.  Texts are tokens: what stol() and stod() make   *)
(* of one, if anything, is the constant Number.                            *)
(***************************************************************************)
EXTENDS Integers, Sequences, SequencesExt, TLC

CONSTANTS
  Files,    (* files that may be read, sequences of lines                    *)
  Builds,   (* what a moved-from std::string holds, see Overwritten          *)
  Number    (* function: the texts that begin with a number, to the number   *)

NoKey  == "#"    (* stands for the key of a comment or of a line without a   *)
                 (* colon; the key of a line ": x" is the empty text         *)
NoText == ""

Line == [indent : Nat, key : STRING, text : STRING, comment : BOOLEAN]

ASSUME SettingsAssumption ==
  /\ Files \subseteq Seq(Line)
  /\ Builds \subseteq {"kept", "cleared"}
  /\ \A t \in DOMAIN Number : t # NoText /\ Number[t] \in Int

VARIABLES
  file,     (* the file that is read                                         *)
  build,    (* one of Builds                                                 *)
  line,     (* lines read so far                                             *)
  tree,     (* YamlValue: path -> node                                       *)
  stack     (* the open maps: indentation and path                           *)

settings == <<file, build, line, tree, stack>>

(* The value of a line is all that follows the colon, a comment included;   *)
(* without one the node is a map.                                           *)
Node(l) ==
  [scalar |-> l.text # NoText \/ l.comment, text |-> l.text,
   comment |-> l.comment]

Root == [scalar |-> FALSE, text |-> NoText, comment |-> FALSE]

(* Mutation of Open: a line of the same indentation is taken for a child.   *)
OpenAtSameIndent(indent) ==
  SubSeq(stack, 1, Max({k \in DOMAIN stack : k = 1 \/ stack[k].indent <= indent}))

(* The open maps a line of this indentation is in: the others are popped.   *)
Open(indent) ==
  SubSeq(stack, 1, Max({k \in DOMAIN stack : k = 1 \/ stack[k].indent < indent}))

(* emplace() is handed the new node by std::move() and the node is used     *)
(* again when the key is there already.  A library whose emplace() makes    *)
(* its node before it looks for the key leaves an empty text; one that      *)
(* looks first leaves the node as it was.                                   *)
Overwritten(node) ==
  IF build = "cleared"
  THEN [node EXCEPT !.text = NoText, !.comment = FALSE] ELSE node

Inserted(path, node) ==
  IF path \notin DOMAIN tree
  THEN [p \in DOMAIN tree \cup {path} |-> IF p = path THEN node ELSE tree[p]]
  ELSE [p \in {q \in DOMAIN tree : ~IsStrictPrefix(path, q)} |->
          IF p = path THEN Overwritten(node) ELSE tree[p]]

ReadLine ==
  /\ line < Len(file)
  /\ line' = line + 1
  /\ LET l == file[line + 1]
         maps == Open(l.indent)
         path == Append(Last(maps).path, l.key)
     IN IF l.key = NoKey THEN UNCHANGED <<tree, stack>>
        ELSE /\ tree' = Inserted(path, Node(l))
             /\ stack' = Append(maps, [indent |-> l.indent, path |-> path])
  /\ UNCHANGED <<file, build>>

EmptyTree   == [p \in {<<>>} |-> Root]
BottomStack == <<[indent |-> -1, path |-> <<>>]>>

SettingsInit ==
  /\ file \in Files /\ build \in Builds
  /\ line = 0 /\ tree = EmptyTree /\ stack = BottomStack

SettingsGone ==
  /\ file' = <<>> /\ line' = 0
  /\ tree' = EmptyTree /\ stack' = BottomStack
  /\ UNCHANGED build

-----------------------------------------------------------------------------
(* The lookups.  as_string() throws on a map, stol() and stod() on what     *)
(* does not begin with a number; operator[] throws where nothing is.        *)
Written(path) == path \in DOMAIN tree

IsNumber(path) == tree[path].scalar /\ tree[path].text \in DOMAIN Number

GetNumberThrows(path) == Written(path) /\ ~IsNumber(path)
GetNumberOr(path, default) ==
  IF Written(path) THEN Number[tree[path].text] ELSE default

(* get_bool_or(): the whole value is compared with "true". *)
GetBoolOr(path, default) ==
  IF Written(path) /\ tree[path].scalar
  THEN tree[path].text = "true" /\ ~tree[path].comment
  ELSE default

-----------------------------------------------------------------------------
(* What the lines say, independently of the reader: a line belongs to the   *)
(* nearest line above that is indented less, and a line takes the place of  *)
(* an earlier one of the same path, with all that belonged to it.           *)
Entries == {i \in 1..line : file[i].key # NoKey}

ParentOf(i) ==
  LET above == {j \in Entries : j < i /\ file[j].indent < file[i].indent}
  IN IF above = {} THEN 0 ELSE CHOOSE j \in above : \A k \in above : k <= j

PathOf[i \in Nat] ==
  IF i = 0 THEN <<>> ELSE Append(PathOf[ParentOf(i)], file[i].key)

Live(i) == \A j \in Entries : j > i => ~IsPrefix(PathOf[j], PathOf[i])

(* A line finds its path taken: last write wins in some builds only.        *)
Repeats(i) ==
  \E j \in Entries :
    /\ j < i /\ PathOf[j] = PathOf[i]
    /\ \A k \in Entries : j < k /\ k < i => ~IsStrictPrefix(PathOf[k], PathOf[j])

LiveEntries == {i \in Entries : Live(i)}

(* Every section and value is where the lines so far say it is.             *)
PlacesAsWritten == DOMAIN tree = {<<>>} \cup {PathOf[i] : i \in LiveEntries}

(* yaml_settings.cpp:103, "key repeated: last write wins": after every line *)
(* the tree holds exactly what the lines so far say, each value under the   *)
(* sections it is indented below, the last of several of one name.  With a  *)
(* library that clears what emplace() is handed the code violates this.     *)
TreeAsWritten ==
  /\ PlacesAsWritten
  /\ \A i \in LiveEntries : tree[PathOf[i]] = Node(file[i])

(* What the reader promises with either library: no section or value is out *)
(* of place, and each is its last line's; only a repeated one, and only     *)
(* where emplace() clears the node it is handed, has lost its text, and     *)
(* still is a value if that line had one.                                   *)
TreeKeepsPlaces ==
  /\ PlacesAsWritten
  /\ \A i \in LiveEntries :
       \/ tree[PathOf[i]] = Node(file[i])
       \/ /\ build = "cleared" /\ Repeats(i)
          /\ tree[PathOf[i]] = [scalar |-> Node(file[i]).scalar,
                                text |-> NoText, comment |-> FALSE]
============================================================================
