------------------------------ MODULE LangGraph ------------------------------
(***************************************************************************)
(* The builder's checks of a source (package langgraph): which graph       *)
(* targets and dependencies of a langgraph.json it accepts, and which      *)
(* directory it hands to BuildKit.                                         *)
(*                                                                         *)
(* A text is the sequence of its parts between slashes: "./a" is           *)
(* <<".", "a">>, "/a" is <<"", "a">>, "a" is <<"a">>.  A place of the file *)
(* system is the sequence of names that leads to it.  Links, the other     *)
(* kind of slash, surrounding blanks, wording and what pip reads into a    *)
(* name (versions, extras, addresses, archives) are left out.              *)
(***************************************************************************)
EXTENDS SequencesExt, Naturals

CONSTANTS
  Parts,       \* the strings a text may have between its slashes
  Dotted,      \* those that begin with a dot
  Root,        \* the place of the repository
  Files, Dirs, \* places of files and directories
  Configs      \* what langgraph.json may be: [readable, targets, dependencies]

Empty == ""  \* what stands before a leading slash and between two

Requirements == "requirements.txt"
Manifests == {Requirements, "pyproject.toml", "setup.py"}

(* Splitting at slashes leaves at least one part; a name is no dots        *)
IsText(text) == text \in Seq(Parts) /\ text # <<>>
Names == Parts \ {Empty, ".", ".."}

ASSUME LangGraphAssumption ==
  /\ {Empty, ".", ".."} \cup Manifests \subseteq Parts
  /\ {".", ".."} \subseteq Dotted /\ Dotted \subseteq Parts \ {Empty}
  /\ Root \in Dirs \cap Seq(Names)
  /\ Files \cap Dirs = {}
  /\ \A config \in Configs :
       /\ \A target \in config.targets : IsText(target.path)
       /\ \A text \in config.dependencies : IsText(text)

IsAbs(text) == Len(text) > 1 /\ text[1] = Empty

(* filepath.Clean: a name pushes, ".." pops; at the top an absolute path   *)
(* stays where it is and a relative one keeps its ".."                     *)
Cleaned(abs, place, part) ==
  IF part \in {Empty, "."} THEN place
  ELSE IF part = ".." /\ place # <<>> /\ Last(place) # ".." THEN Front(place)
  ELSE IF part = ".." /\ abs THEN place
  ELSE Append(place, part)

Clean(text) ==
  LET at[i \in 0..Len(text)] ==
        IF i = 0 THEN <<>> ELSE Cleaned(IsAbs(text), at[i - 1], text[i])
  IN  at[Len(text)]

Join(place, text) == Clean(<<Empty>> \o place \o text)

(* filepath.Rel between two places                                         *)
Rel(base, place) ==
  LET common == Len(LongestCommonPrefix({base, place}))
  IN  [i \in 1..(Len(base) - common) |-> ".."] \o SubSeq(place, common + 1, Len(place))

(* The text of what Rel returns for a place inside the root                *)
RelText(place) == IF place = Root THEN <<".">> ELSE Rel(Root, place)

MutantIsPathWithinRoot(place) == Rel(Root, place) # <<"..">>

IsPathWithinRoot(place) ==
  LET rel == Rel(Root, place) IN rel = <<>> \/ rel[1] # ".."

(* A text without a slash is the name of a Python module or of a package   *)
LooksLikePath(text) == Len(text) > 1 \/ text[1] \in {".", ".."}

(* A graph's target "file:object" or "module:object"; the form tells       *)
(* whether it is empty or has its colon at an end or nowhere               *)
TargetAccepted(target) ==
  LET place == Join(Root, Clean(target.path))
  IN  /\ target.form = "target"
      /\ LooksLikePath(target.path) =>
           /\ ~IsAbs(target.path)
           /\ IsPathWithinRoot(place)
           /\ place \in Files

RequirementsNames == {Requirements, "Requirements.TXT"}

(* The command for a dependency, "pip install" with or without "-r", and   *)
(* its argument; <<>> for an error                                         *)
Install(text) ==
  LET place == Join(Root, Clean(text))
      Has(name) == Append(place, name) \in Files
  IN  IF text = <<Empty>> THEN <<>>
      ELSE IF ~LooksLikePath(text) THEN <<"package", text>>
      ELSE IF IsAbs(text) \/ ~IsPathWithinRoot(place) THEN <<>>
      ELSE IF place \in Files
        THEN IF Last(place) \in RequirementsNames THEN <<"-r", RelText(place)>> ELSE <<>>
      ELSE IF place \notin Dirs \/ \A name \in Manifests : ~Has(name) THEN <<>>
      ELSE IF Has(Requirements) THEN <<"-r", RelText(Append(place, Requirements))>>
      ELSE <<"directory", RelText(place)>>

(* An absent list of dependencies stands for the repository itself         *)
Dependencies(config) ==
  IF config.dependencies = {} THEN {<<".">>} ELSE config.dependencies

Validate(config) ==
  /\ config.readable
  /\ config.targets # {}
  /\ \A target \in config.targets : TargetAccepted(target)
  /\ \A text \in Dependencies(config) : Install(text) # <<>>

(* The part of repository a job builds: repo_path without "./" and "/"     *)
ContextPath(text) ==
  LET Without(t, part) == IF Len(t) > 1 /\ t[1] = part THEN Tail(t) ELSE t
  IN  IF text \in {<<Empty>>, <<".">>, <<Empty, Empty>>} THEN <<Empty>>
      ELSE Without(Without(text, "."), Empty)

-----------------------------------------------------------------------------
(* The reference: walking the tree one part at a time                      *)
Walked(place, part) ==
  IF part \in {Empty, "."} THEN place
  ELSE IF part # ".." THEN Append(place, part)
  ELSE IF place = <<>> THEN <<>> ELSE Front(place)

Walk(from, text) ==
  LET at[i \in 0..Len(text)] == IF i = 0 THEN from ELSE Walked(at[i - 1], text[i])
  IN  at[Len(text)]

Inside(text) == ~IsAbs(text) /\ IsPrefix(Root, Walk(Root, text))
Bare(text) == Len(text) = 1 /\ text[1] \notin {".", ".."}

Runnable(target) ==
  /\ target.form = "target"
  /\ Bare(target.path) \/ (Inside(target.path) /\ Walk(Root, target.path) \in Files)

Installable(text) ==
  IF Bare(text) THEN text # <<Empty>>
  ELSE /\ Inside(text)
       /\ LET place == Walk(Root, text)
          IN  \/ place \in Files /\ Last(place) \in RequirementsNames
              \/ place \in Dirs /\ \E name \in Manifests : Append(place, name) \in Files

(* What validation is about: graphs that are modules or existing files of  *)
(* the repository, dependencies that are packages or things of the         *)
(* repository pip can install                                              *)
Acceptable(config) ==
  /\ config.readable
  /\ config.targets # {}
  /\ \A target \in config.targets : Runnable(target)
  /\ \A text \in Dependencies(config) : Installable(text)

(* pip takes what follows -r for a file, and another argument for a path   *)
(* if it has a slash or begins with a dot, else for a package of its index *)
FromIndex(install) ==
  install[1] # "-r" /\ Len(install[2]) = 1 /\ install[2][1] \notin Dotted

(* What a command for a path leads pip to: the requirements file or the    *)
(* project the text names.  But a project right below the root loses its   *)
(* "./", and pip looks for a package of its name in the index              *)
LeadsToDependency(text) ==
  LET install == Install(text)
      place == Walk(Root, text)
      led == Walk(Root, install[2])
  IN  install # <<>> /\ ~Bare(text) =>
        /\ IsPrefix(Root, led)
        /\ \/ install[1] = "-r" /\ led \in Files \cap {place, Append(place, Requirements)}
           \/ /\ install[1] = "directory" /\ led = place /\ place \in Dirs
              /\ Append(place, Requirements) \notin Files
              /\ \E name \in Manifests : Append(place, name) \in Files
        /\ FromIndex(install) <=>
             install[1] = "directory" /\ \E name \in Names \ Dotted : place = Append(Root, name)
=============================================================================
