-------------------------- MODULE HerdrConfigMerge --------------------------
(***************************************************************************)
(* MergeHerdrConfig (internal/client/paneshell.go): the user's Herdr       *)
(* config.toml with Familiar's shell settings put into [terminal].         *)
(*                                                                         *)
(* The merge looks at the text of one line after the other, wherever the   *)
(* line stands.  To a TOML reader a line may as well be part of a value    *)
(* that began above it, a multi-line string or array.  The module has both *)
(* views of the same lines.                                                *)
(***************************************************************************)
EXTENDS Naturals, Sequences, FiniteSets

CONSTANTS
  Names,            \* what tables and keys are called
  Strings, Arrays   \* the multi-line strings and arrays that may be open at the end of a line

\* What may be open where a line begins.  A line that is no TOML there breaks the file.
Nothing  == "nothing"
Broken   == "broken"
Contexts == {Nothing} \cup Strings \cup Arrays

\* A line, by what it looks like: a [table] header, an [[array]] header, a key, a
\* dotted key terminal.<name>, or other text (the end of a string, an element).
\* A name is plain when it has no quotes and no blanks round its dot; an element
\* like ["a", "b"], looks like a header with a name that is not.  turns says what
\* is open after the line by what was open before it: only a key opens a value.
\* Blank lines, comments and other contents are left out, and so is the comment
\* that the merge puts above its keys.  No name goes on below a managed key, like
\* default_shell.x or [terminal.default_shell]: Herdr wants strings there.
Lines ==
  {line \in [form : {"table", "array", "key", "dotted", "text"}, name : Names, plain : BOOLEAN,
             turns : [Contexts -> Contexts \cup {Broken}], by : {"user", "fleet"}] :
     line.form \notin {"key", "dotted"} => line.turns[Nothing] \in {Nothing, Broken}}

\* What the merge writes is text in a string and no element of an array.
FleetTurns == [o \in Contexts |-> IF o \in Arrays THEN Broken ELSE o]
Fleet(form, name) ==
  [form |-> form, name |-> name, plain |-> TRUE, turns |-> FleetTurns, by |-> "fleet"]

ManagedKeys == {"default_shell", "shell_mode"}
Managed == <<Fleet("key", "default_shell"), Fleet("key", "shell_mode")>>

ASSUME NamesAssumption == ManagedKeys \cup {"terminal"} \subseteq Names
ASSUME OpenAssumption  == {Nothing, Broken} \cap (Strings \cup Arrays) = {}

-----------------------------------------------------------------------------
\* The merge.

\* tomlTableHeader and tomlKey compare what stands between the brackets or before
\* the equals sign, quotes and all, on any line.
LooksLikeTerminal(line) == line.form = "table" /\ line.plain /\ line.name = "terminal"
LooksManaged(line) ==
  line.form \in {"key", "dotted"} /\ line.plain /\ line.name \in ManagedKeys

\* In [terminal] the plain keys are replaced, outside of it the dotted ones.
ReplacedAnywhere(inTerminal, line) == LooksManaged(line)
ReplacedAtRoot(inTerminal, line) == LooksManaged(line) /\ ~inTerminal /\ line.form = "dotted"
Replaced(inTerminal, line) ==
  LooksManaged(line) /\ line.form = IF inTerminal THEN "key" ELSE "dotted"

\* Whatever looks like a [table] header ends a table for the merge, and nothing else.
MergeLine(done, line) ==
  LET opens == LooksLikeTerminal(line) IN
  CASE line.form = "table" ->
         [out |-> Append(done.out, line) \o (IF opens THEN Managed ELSE <<>>),
          inTerminal |-> opens,
          found |-> done.found \/ opens]
    [] line.form # "table" /\ Replaced(done.inTerminal, line) -> done
    [] OTHER -> [done EXCEPT !.out = Append(@, line)]

\* What the loop has after the first i lines.
Merging(lines) ==
  LET done[i \in 0..Len(lines)] ==
        IF i = 0 THEN [out |-> <<>>, inTerminal |-> FALSE, found |-> FALSE]
                 ELSE MergeLine(done[i - 1], lines[i])
  IN done

MergeOpened(lines) == Merging(lines)[Len(lines)].out
Merge(lines) ==
  LET done == Merging(lines)[Len(lines)]
  IN done.out \o IF done.found THEN <<>>
                 ELSE <<Fleet("table", "terminal")>> \o Managed

-----------------------------------------------------------------------------
\* What the lines mean.

\* What is open after the first i lines.
After(open, line) == IF open = Broken THEN Broken ELSE line.turns[open]
OpenAfter(lines) ==
  LET open[i \in 0..Len(lines)] ==
        IF i = 0 THEN Nothing ELSE After(open[i - 1], lines[i])
  IN open

\* A header or a setting is one where no value is open.
Begins(lines, i)    == OpenAfter(lines)[i - 1] = Nothing
IsHeader(lines, i)  == lines[i].form \in {"table", "array"} /\ Begins(lines, i)
IsSetting(lines, i) == lines[i].form \in {"key", "dotted"} /\ Begins(lines, i)
SettingsOf(lines)   == {i \in DOMAIN lines : IsSetting(lines, i)}

\* The headers down to line i, and the one that governs it; 0 before the first.
HeadersTo(lines, i) == {h \in 1..i : IsHeader(lines, h)}
HeaderOf(lines, i) ==
  LET above == HeadersTo(lines, i)
  IN IF above = {} THEN 0 ELSE CHOOSE h \in above : \A k \in above : k <= h

\* Where line i stands; of a setting, what it gives a value.  A dotted key at the
\* root belongs to [terminal], one elsewhere to a table inside that table; every
\* [[array]] header begins a table of its own, told apart by its place among the
\* headers.
PathOf(lines, i) ==
  LET h == HeaderOf(lines, i)
      dotted == lines[i].form = "dotted"
  IN CASE h = 0 -> [table |-> IF dotted THEN "terminal" ELSE "", element |-> 0,
                    inner |-> FALSE, key |-> lines[i].name]
       [] h > 0 -> [table |-> lines[h].name,
                    element |-> IF lines[h].form = "array" THEN Cardinality(HeadersTo(lines, i))
                                                           ELSE 0,
                    inner |-> dotted, key |-> lines[i].name]

\* What line i defines at the root, if it does.
AtRoot(lines, i) ==
  IsHeader(lines, i) \/ (IsSetting(lines, i) /\ HeaderOf(lines, i) = 0)
RootName(lines, i) == IF lines[i].form = "dotted" THEN "terminal" ELSE lines[i].name

\* TOML: every value ends, no setting is given twice, and nothing at the root is
\* defined twice but the elements of an array and the dotted keys of a table.
Valid(lines) ==
  /\ OpenAfter(lines)[Len(lines)] = Nothing
  /\ \A i, j \in SettingsOf(lines) : i # j => PathOf(lines, i) # PathOf(lines, j)
  /\ \A i, j \in DOMAIN lines :
       /\ i # j
       /\ AtRoot(lines, i) /\ AtRoot(lines, j)
       /\ RootName(lines, i) = RootName(lines, j)
       => lines[i].form = lines[j].form /\ lines[i].form \in {"array", "dotted"}

IsManaged(path) ==
  path.table = "terminal" /\ path.element = 0 /\ ~path.inner /\ path.key \in ManagedKeys
ManagedAt(lines, i) == IsSetting(lines, i) /\ IsManaged(PathOf(lines, i))

\* The lines of the other settings, those inside their values too: each as it
\* is, with its place among them and where it stands.
KeptTo(lines, i) == {j \in 1..i : ~IsHeader(lines, j) /\ ~ManagedAt(lines, j)}
Kept(lines) == {[place |-> Cardinality(KeptTo(lines, i)), path |-> PathOf(lines, i),
                 line |-> lines[i]] : i \in KeptTo(lines, Len(lines))}

\* The launcher is the one value that Herdr can read for default_shell.
Governs(lines) ==
  \A name \in ManagedKeys :
    LET at == {i \in SettingsOf(lines) : /\ IsManaged(PathOf(lines, i))
                                          /\ lines[i].name = name}
    IN Cardinality(at) = 1 /\ \A i \in at : lines[i].by = "fleet"

\* Of the lines that the merge takes for a header [terminal] one is a header; not all
\* of them stand inside of values.
ShowsTerminal(lines) ==
  LET shown == {i \in DOMAIN lines : LooksLikeTerminal(lines[i])}
  IN shown # {} => \E i \in shown : Begins(lines, i)

\* The configs the merge reads as TOML does.  Besides the lines inside of values,
\* names in quotes and managed values of several lines, which it cannot tell, for
\* it an [[array]] does not end [terminal], any other header leaves it at the root,
\* and what defines terminal at the root without its header does not define it.
LastTableIsTerminal(lines, i) ==
  LET tables == {h \in 1..i : lines[h].form = "table"}
  IN \E h \in tables : LooksLikeTerminal(lines[h]) /\ \A k \in tables : k <= h

InTerminalArray(lines, i) ==
  /\ HeaderOf(lines, i) > 0 /\ lines[HeaderOf(lines, i)].form = "array"
  /\ LastTableIsTerminal(lines, i)

Understood(lines) ==
  \A i \in DOMAIN lines :
    LET line == lines[i]
        isManaged == line.name \in ManagedKeys
    IN /\ ~Begins(lines, i) => ~LooksLikeTerminal(line) /\ ~LooksManaged(line)
       /\ ManagedAt(lines, i) =>
            /\ line.plain /\ line.turns[Nothing] = Nothing
            /\ line.form = "key" =>
                 \A k \in (HeaderOf(lines, i) + 1)..i : lines[k].form # "table"
       /\ AtRoot(lines, i) /\ line.name = "terminal" => line.form = "table" /\ line.plain
       /\ IsSetting(lines, i) =>
            /\ line.form = "key" /\ isManaged => ~InTerminalArray(lines, i)
            /\ line.form = "dotted" => (HeaderOf(lines, i) = 0 <=> isManaged)
=============================================================================
