---------------------------- MODULE MCHerdrPanes ----------------------------
(***************************************************************************)
(* The machines to look at, each with bounds of its own: the question it   *)
(* is there for gets all its cases, and the others one.                    *)
(***************************************************************************)
EXTENDS HerdrPanes, SequencesExt

CONSTANTS p1, p2

TwoProcs == {p1, p2}

SomeNames == {"terminal", "ui", "keys", "default_shell", "shell_mode", "theme", "scrollback"}

\* A string in three quotes, one in an array, and an array of several lines.
SomeStrings == {"string", "element"}
SomeArrays  == {"array"}

Turns(nothing, string, array, element) ==
  [o \in {"nothing", "string", "array", "element"} |->
     CASE o = "nothing" -> nothing [] o = "string" -> string
       [] o = "array"   -> array   [] o = "element" -> element]

Text(form, name, plain, turns) ==
  [form |-> form, name |-> name, plain |-> plain, turns |-> turns, by |-> "user"]

\* [name], [[name]], name = 1, terminal.name = 1
ByUser(form, name) == Text(form, name, TRUE, Turns("nothing", "string", "broken", "element"))
\* ["name"] and "name" = 1; the former is also an array with one element
QuotedHeader(name) == Text("table", name, FALSE, Turns("nothing", "string", "array", "element"))
QuotedKey(name)    == Text("key", name, FALSE, Turns("nothing", "string", "broken", "element"))
\* name = """ and name = [
StartString(name) == Text("key", name, TRUE, Turns("string", "nothing", "broken", "array"))
StartArray(name)  == Text("key", name, TRUE, Turns("array", "string", "broken", "element"))
\* """, ] and a word
EndString == Text("text", "ui", TRUE, Turns("broken", "nothing", "element", "array"))
EndArray  == Text("text", "ui", TRUE, Turns("broken", "string", "nothing", "element"))
Word      == Text("text", "ui", TRUE, Turns("broken", "string", "broken", "element"))

SomeLines == {ByUser("table", "terminal"), ByUser("table", "ui"), ByUser("array", "keys"),
              ByUser("array", "terminal"), ByUser("key", "default_shell"), ByUser("key", "theme"),
              ByUser("dotted", "default_shell"), ByUser("dotted", "scrollback"),
              QuotedHeader("terminal"), QuotedKey("default_shell")}

\* A string or an array with one line in it, below a header, and a setting after it.
InnerLines == {ByUser("table", "terminal"), ByUser("key", "default_shell"),
               ByUser("dotted", "default_shell"), QuotedHeader("keys"), EndString, Word}
MultiLine ==
  {header \o <<start[1], inner, start[2]>> \o after :
     header \in {<<>>, <<ByUser("table", "terminal")>>, <<ByUser("table", "ui")>>},
     start  \in {<<StartString("theme"), EndString>>, <<StartArray("theme"), EndArray>>,
                 <<StartString("default_shell"), EndString>>},
     inner  \in InnerLines,
     after  \in {<<>>, <<ByUser("table", "terminal")>>, <<ByUser("key", "default_shell")>>,
                 <<StartString("scrollback")>>}}

\* A config with a shell of the user's, and a broken one.
OwnShell == <<ByUser("table", "terminal"), ByUser("key", "default_shell"), ByUser("key", "theme")>>
Twice    == <<ByUser("key", "theme"), ByUser("key", "theme")>>

Plain == [config |-> OwnShell, configs |-> {}, provisioned |-> Provisions,
          shells |-> {"fish"}, commands |-> {p1}, preflights |-> 1, edits |-> 0, launches |-> 0,
          login |-> FALSE, zdotdir |-> "unset", zshenvMoves |-> FALSE,
          env |-> "unset", profileSetsEnv |-> FALSE]

\* Every config of up to three lines, and those with a value of several lines,
\* merged, and what that gives merged again.
Merges == {[Plain EXCEPT !.config = c, !.preflights = 2] :
           c \in BoundedSeq(SomeLines, 3) \cup MultiLine}

\* Whatever is not provided.
Misconfigured == {[Plain EXCEPT !.provisioned = Provisions \ {x}] : x \in Provisions}

\* Two commands with different shells and an edit between them.
Overlapping == {[Plain EXCEPT !.commands = {p1, p2}, !.shells = {"bash", "posix"},
                              !.preflights = 2, !.launches = 1, !.login = l,
                              !.edits = 1, !.configs = {Twice}] : l \in BOOLEAN}

\* zsh after another shell, in every setting, and a pane opened from a pane.
ZshPanes == {[Plain EXCEPT !.shells = {"zsh", "bash"}, !.preflights = 2, !.launches = 2,
                           !.login = l, !.zdotdir = d, !.zshenvMoves = m] :
             l \in BOOLEAN, d \in {"unset", "custom"}, m \in BOOLEAN}

PosixPanes == {[Plain EXCEPT !.shells = {"posix", "fish"}, !.preflights = 2, !.launches = 2,
                             !.login = l, !.env = e, !.profileSetsEnv = s] :
               l \in BOOLEAN, e \in {"unset", "user"}, s \in BOOLEAN}

OtherPanes == {[Plain EXCEPT !.shells = {"unknown", "bash"}, !.preflights = 2, !.launches = 2]}

AllScenes == Merges \cup Misconfigured \cup Overlapping \cup ZshPanes \cup PosixPanes \cup OtherPanes

\* A login shell of the sh family.
PosixLogin == {[Plain EXCEPT !.shells = {"posix"}, !.launches = 1, !.login = TRUE,
                             !.profileSetsEnv = TRUE]}
=============================================================================
