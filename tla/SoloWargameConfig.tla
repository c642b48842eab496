-------------------------- MODULE SoloWargameConfig --------------------------
(***************************************************************************)
(* normalize_config of the solo_wargame runner: from a submitted config to *)
(* the one that is stored, hashed and later sent to the upstream command.  *)
(* Pure operators over the file tree as it is when they are evaluated.     *)
(*                                                                         *)
(* A location is the sequence of names from the root to a file, directory  *)
(* or symbolic link.  links[l] is the location a link at l ends in, l      *)
(* itself when it leads back to itself; kind[l] is what is there when it   *)
(* is no link: "file", "dir", or "unreadable" when stat raises an OSError  *)
(* other than that nothing is there (no permission, a name that is too     *)
(* long).                                                                  *)
(*                                                                         *)
(* A JSON value is abstracted to what normalisation tells apart:           *)
(*   mission      [root, names]: how the path starts, and its components;  *)
(*                root "absent" when it is missing, empty or no string,    *)
(*                "unusable" when it starts with a user nobody knows or    *)
(*                has a NUL character in it                                *)
(*   policy       the name of a builtin policy, or what is wrong with it   *)
(*   seeds        [kind, start, stop, list]                                *)
(*   rows         "absent" (also null), "true", "false" or "other"         *)
(*   should_fail  a key of the stub runner that solo_wargame does not know *)
(***************************************************************************)
EXTENDS Integers, SequencesExt

CONSTANTS Repo,     \* the resolved repo_path; <<>> when it is not configured
          Home,     \* what expanduser puts in the place of "~"
          NotInt    \* any JSON value that is not an integer, true and false too

ASSUME NotIntAssumption == NotInt \notin Int

\* Names of files and directories; ".." is none.
IsLocation(l) == l \in Seq(STRING) /\ \A i \in DOMAIN l : l[i] # ".."

ASSUME PlacesAssumption == IsLocation(Repo) /\ Home \in Seq(STRING)

\* No location.
Nowhere == <<"..">>

SupportedPolicies == {"exact_guided_heuristic", "heuristic", "random"}

KindAt(kind, l) == IF l \in DOMAIN kind THEN kind[l] ELSE "none"

LinkEnd(links, l) == IF l \in DOMAIN links THEN links[l] ELSE l

IsLoop(links, l) == l \in DOMAIN links /\ links[l] = l

Parent(l) == IF l = <<>> THEN <<>> ELSE Front(l)

-----------------------------------------------------------------------------
(***************************************************************************)
(* Paths                                                                   *)
(***************************************************************************)
StartOf(path) == IF path.root = "relative" THEN Repo ELSE <<>>
NamesOf(path) == IF path.root = "home" THEN Home \o path.names ELSE path.names

\* Where Path.resolve(strict=False) is on its way: at a location, and whether it
\* has met a link that leads back to itself.
StartAt(path) == [at |-> StartOf(path), looped |-> FALSE]

\* Broken: the root is given a parent.
StepAboveRoot(links, here, name) ==
  LET next == Append(here.at, name)
  IN IF name = ".." /\ here.at # <<>> THEN [here EXCEPT !.at = Parent(@)]
     ELSE IF here.looped THEN [here EXCEPT !.at = next]
     ELSE [at |-> LinkEnd(links, next), looped |-> IsLoop(links, next)]

\* Component by component, ".." after the links before it, and nothing needs to
\* exist.  realpath stops at a link that leads back to itself and appends the
\* rest as it is: abspath takes ".." out of it, links in it are not followed.
StepTo(links, here, name) ==
  LET next == Append(here.at, name)
  IN IF name = ".." THEN [here EXCEPT !.at = Parent(@)]
     ELSE IF here.looped THEN [here EXCEPT !.at = next]
     ELSE [at |-> LinkEnd(links, next), looped |-> IsLoop(links, next)]

\* Where it is after each of the names.
WayOf(links, start, names) ==
  LET here[i \in 0 .. Len(names)] ==
        IF i = 0 THEN start ELSE StepTo(links, here[i - 1], names[i])
  IN here

Way(links, path) == WayOf(links, StartAt(path), NamesOf(path))

End(links, path)      == Way(links, path)[Len(NamesOf(path))]
Resolved(links, path) == End(links, path).at
Looped(links, path)   == End(links, path).looped

\* What the operating system finds at a path (from the directory Repo): it gives
\* up at the first location on the way that is no directory.
Found(kind, links, path) ==
  LET way   == Way(links, path)
      last  == Len(NamesOf(path))
      At(i) == IF IsLoop(links, way[i].at) THEN "loop" ELSE KindAt(kind, way[i].at)
      stop  == CHOOSE i \in 0 .. last : /\ i = last \/ At(i) # "dir"
                                       /\ \A j \in 0 .. i - 1 : At(j) = "dir"
      there == At(stop)
  IN IF stop = last \/ there \in {"loop", "unreadable"} THEN there ELSE "none"

Opened(kind, links, path) ==
  IF Found(kind, links, path) \in {"file", "dir"} THEN Resolved(links, path) ELSE Nowhere

\* Path(l).stat(), on which resolve, exists and is_file rest.
Absolute(l) == [root |-> "absolute", names |-> l]

Stat(kind, links, l) == Found(kind, links, Absolute(l))

\* expanduser raises RuntimeError for an unknown user; resolve ValueError for a
\* NUL, and RuntimeError when stat of what it resolved to reports a loop.  (A NUL
\* that ".." takes out again after a loop does no harm; that is left out.)
Unresolvable(kind, links, path) ==
  path.root = "unusable" \/ Stat(kind, links, Resolved(links, path)) = "loop"

\* Broken: any resolved path will do.
InRepoAlways(l) == IsLocation(l)

\* relative_to(repo_path) does not raise.
InRepo(l) == IsPrefix(Repo, l)

RepoRelative(l) == SubSeq(l, Len(Repo) + 1, Len(l))

-----------------------------------------------------------------------------
(***************************************************************************)
(* The parts of the config                                                 *)
(***************************************************************************)
PolicyAccepted(policy) == policy \in SupportedPolicies

SeedsAccepted(seeds) ==
  \/ /\ seeds.kind = "range"
     /\ seeds.start # NotInt /\ seeds.stop # NotInt
     /\ seeds.stop > seeds.start
  \/ /\ seeds.kind = "list"
     /\ seeds.list # <<>>
     /\ \A i \in DOMAIN seeds.list : seeds.list[i] # NotInt

RowsAccepted(rows) == rows # "other"

\* Checks before the path is looked at, and after.
ShapeAccepted(kind, c) ==
  /\ Repo # <<>> /\ KindAt(kind, Repo) = "dir"
  /\ c.should_fail = "absent"
  /\ c.mission.root # "absent"

RestAccepted(c) ==
  PolicyAccepted(c.policy) /\ SeedsAccepted(c.seeds) /\ RowsAccepted(c.rows)

\* Broken: the default is not written down.
RowsAsSubmitted(rows) == rows

RowsOrDefault(rows) == IF rows = "absent" THEN "false" ELSE rows

\* Broken: the mission is stored as it was spelled.
NormalizedAsSpelled(c, mission) ==
  [mission |-> c.mission.names,
   policy  |-> c.policy,
   seeds   |-> c.seeds,
   rows    |-> RowsOrDefault(c.rows)]

\* Broken: the last seed is stored for stop.
NormalizedLastSeed(c, mission) ==
  [mission |-> RepoRelative(mission),
   policy  |-> c.policy,
   seeds   |-> [c.seeds EXCEPT !.stop = @ - 1],
   rows    |-> RowsOrDefault(c.rows)]

\* The normalized config, for a mission that resolved to this location.
Normalized(c, mission) ==
  [mission |-> RepoRelative(mission),
   policy  |-> c.policy,
   seeds   |-> c.seeds,
   rows    |-> RowsOrDefault(c.rows)]

\* A normalized config, as a client would submit it again.
Resubmitted(n) ==
  [mission     |-> [root |-> "relative", names |-> n.mission],
   policy      |-> n.policy,
   seeds       |-> n.seeds,
   rows        |-> n.rows,
   should_fail |-> "absent"]

\* json.dumps(value, sort_keys=True, ...), of which sha256 is taken: the values
\* in the order of their keys.
HashedText(n) == <<n.mission, n.policy, n.seeds, n.rows>>

\* build_episode_batch_request: the fields that come from the config.
EpisodeBatchRequest(n) ==
  [mission_path |-> [root |-> "relative", names |-> n.mission],
   policy       |-> n.policy,
   seed_spec    |-> n.seeds,
   rows         |-> n.rows]
=============================================================================
