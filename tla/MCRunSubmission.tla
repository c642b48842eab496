--------------------------- MODULE MCRunSubmission ---------------------------
(* Instances of RunSubmission for TLC. *)
EXTENDS RunSubmission

MCRepo == <<"repo">>
MCHome == <<"home">>

\* The repository has two missions in a directory, a file that cannot be read, a
\* link "latest" to a mission, and a link "out" that leads outside, to a third
\* mission; "alias" at the root is a link to the directory of the missions.
Missions == <<"repo", "missions">>
M1       == Append(Missions, "m1")
M2       == Append(Missions, "m2")
Outside  == <<"home", "m3">>

MCTree == (<<>> :> "dir") @@ (<<"repo">> :> "dir") @@ (<<"home">> :> "dir")
          @@ (Missions :> "dir") @@ (M1 :> "file") @@ (M2 :> "file")
          @@ (Outside :> "file") @@ (<<"repo", "private">> :> "unreadable")

MCVolatile   == {Missions, M2}
Latest == <<"repo", "latest">>
MCLinkTargets == (Latest :> {M1, Outside, Latest}) @@ (<<"repo", "out">> :> {Outside})
                 @@ (<<"alias">> :> {Missions})

P(root, names) == [root |-> root, names |-> names]

Paths ==
  {P("absent", <<>>),
   P("relative", <<"missions", "m1">>),
   P("relative", <<"missions", "m2">>),
   P("relative", <<"missions">>),
   P("relative", <<"latest">>),
   P("relative", <<"latest", "..", "m1">>),
   P("relative", <<"latest", "x", "..", "..", "missions", "m2">>),
   P("relative", <<"latest", "..", "out">>),
   P("relative", <<"private">>),
   P("relative", <<"..", "home", "m3">>),
   P("relative", <<"missions", "gone", "..", "m1">>),
   P("absolute", <<"alias", "m2">>),
   P("absolute", <<"alias", "..", "missions", "m1">>),
   P("absolute", <<"home", "m3">>),
   P("home", <<"m3">>),
   P("home", <<"..", "..", "repo", "missions", "m1">>),
   P("unusable", <<"m1">>)}

SeedRange(start, stop) == [kind |-> "range", start |-> start, stop |-> stop, list |-> <<>>]
SeedList(seeds)        == [kind |-> "list", start |-> 0, stop |-> 0, list |-> seeds]

BaseConfig == [mission     |-> P("relative", <<"missions", "m1">>),
               policy      |-> "heuristic",
               seeds       |-> SeedRange(0, 2),
               rows        |-> "absent",
               should_fail |-> "absent"]

\* Each part is varied on its own.
Configs ==
  {[BaseConfig EXCEPT !.mission = p] : p \in Paths}
  \cup {[BaseConfig EXCEPT !.policy = p] : p \in {"random", "unsupported"}}
  \cup {[BaseConfig EXCEPT !.seeds = s] :
          s \in {SeedRange(1, 1), SeedRange(2, 1), SeedRange(NotInt, 2), SeedList(<<>>), SeedList(<<0, 1>>),
                 SeedList(<<0, NotInt>>), [SeedRange(0, 2) EXCEPT !.kind = "other"]}}
  \cup {[BaseConfig EXCEPT !.rows = v] : v \in {"false", "true", "other"}}
  \cup {[BaseConfig EXCEPT !.should_fail = v] : v \in {"true", "false"}}

Payload(project, runner, config) ==
  [project |-> project, runner |-> runner, config |-> config]

MCSubmitted ==
  {Payload(p, "solo_wargame", c) : p \in Project, c \in Configs}
  \cup {Payload(p, t, BaseConfig) : p \in Project \cup {NotAnId}, t \in {"absent", "unknown"}}
  \cup {Payload(p, "stub", [BaseConfig EXCEPT !.should_fail = "NaN"]) : p \in Project}

Symmetry == Permutations(Run)
=============================================================================
