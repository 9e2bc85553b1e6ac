------------------------------ MODULE MCBuilder ------------------------------
(* A repository /srv/repo beside others, and paths of up to three parts     *)
EXTENDS Builder

CONSTANTS q1, q2, b1, b2

MCRequests == {q1, q2}
MCBuilds == {b1, b2}
Symmetry == Permutations(MCRequests) \cup Permutations(MCBuilds)

Repo == <<"srv", "repo">>
MCRoot == Repo
MCDirs == {<<>>, <<"srv">>, <<"srv", "repo2">>, Repo}
            \cup {Repo \o <<d>> : d \in {"lib", "docs", "..x", "..y", "setup.py"}}
            \cup {Repo \o <<"lib", "sub">>}
MCFiles == {<<"srv", "a.py">>, <<"srv", "repo2", "a.py">>, <<"srv", "setup.py">>,
            Repo \o <<"a.py">>, Repo \o <<"..x", "a.py">>, Repo \o <<"lib", "setup.py">>,
            Repo \o <<"lib", "pyproject.toml">>, Repo \o <<"..y", "setup.py">>,
            Repo \o <<"lib", "sub", "setup.py">>, Repo \o <<"..x", "requirements.txt">>,
            Repo \o <<"docs", "Requirements.TXT">>}

Used == {"", ".", "..", "repo", "repo2", "lib", "sub", "..x", "..y", "docs", "a.py", "Requirements.TXT"}
MCParts == Used \cup {"srv", "pkg", "numpy"} \cup Manifests
MCDotted == {".", "..", "..x", "..y"}
Texts == UNION {[1..n -> Used] : n \in 1..3}
           \cup {<<"..", "..", "srv", "repo", part>> : part \in Used}
           \cup {<<"..", "..", "..", "srv", "repo", part>> : part \in Used}

Target(text) == [form |-> "target", path |-> text]
Config(targets, dependencies) ==
  [readable |-> TRUE, targets |-> targets, dependencies |-> dependencies]
Good == Config({Target(<<".", "a.py">>), Target(<<"pkg">>)}, {<<".", "lib">>, <<"numpy">>})
MCConfigs ==
  {Config({Target(text)}, {<<"lib", "">>}) : text \in Texts}
    \cup {Config({Target(<<"a.py">>)}, {text}) : text \in Texts}
    \cup {Config({Target(<<"pkg">>)}, {<<"numpy">>, text}) : text \in {<<"..">>, <<"..x", ".">>}}
    \cup {Config({}, {<<".", "lib">>}), Config({Target(<<"pkg">>)}, {}), Good,
          [Good EXCEPT !.readable = FALSE],
          [Good EXCEPT !.targets = {[form |-> "malformed", path |-> <<"a.py">>]}],
          [Good EXCEPT !.targets = @ \cup {[form |-> "empty", path |-> <<"">>]}]}

(* No repo_path, a source that is accepted, one that is not                 *)
MCSources == {{}, {Good}, {Config({}, {<<".", "lib">>})}}
=============================================================================
