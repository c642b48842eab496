---------------------------- MODULE RunSubmission ----------------------------
(***************************************************************************)
(* What is submitted, what is stored of it, and what that means later:     *)
(* projects, POST /runs up to its commit, and the request an attempt hands *)
(* to the upstream command, over a file tree that changes meanwhile.  The  *)
(* life of the stored runs is RunSystem's.                                 *)
(*                                                                         *)
(* One submission is in flight at a time: submissions share nothing but    *)
(* the tables, to which each adds a row of its own.                        *)
(***************************************************************************)
EXTENDS SoloWargameConfig

CONSTANTS Project, Run, NotAnId,
          Submitted,    \* the payloads that clients submit
          Tree,         \* kind of every location at the start
          Volatile,     \* locations that come and go
          LinkTargets   \* for the location of each symbolic link, where it may end

Config ==
  [mission     : [root : {"absent", "relative", "absolute", "home", "unusable"},
                  names : Seq(STRING)],
   policy      : STRING,
   seeds       : [kind : STRING, start : Int \cup {NotInt}, stop : Int \cup {NotInt},
                  list : Seq(Int \cup {NotInt})],
   rows        : {"absent", "true", "false", "other"},
   should_fail : STRING]

ASSUME SubmittedAssumption ==
  Submitted \subseteq [project : Project \cup {NotAnId}, runner : STRING, config : Config]

\* A location that leads through no link.
Canonical(l) ==
  IsLocation(l) /\ \A n \in 1 .. Len(l) : SubSeq(l, 1, n) \notin DOMAIN LinkTargets

\* A link ends in a location without links or in itself, and is always there: no
\* link is made where there was none, or below a directory that comes and goes.
ASSUME TreeAssumption ==
  /\ Tree \in [DOMAIN Tree -> {"file", "dir", "unreadable"}]
  /\ \A l \in DOMAIN Tree : IsLocation(l) /\ l \notin DOMAIN LinkTargets
  /\ Volatile \subseteq DOMAIN Tree
  /\ Canonical(Repo)
  /\ \A l \in DOMAIN LinkTargets :
       /\ \A n \in 0 .. Len(l) - 1 :
            LET above == SubSeq(l, 1, n)
            IN KindAt(Tree, above) = "dir" /\ above \notin Volatile
       /\ \A end \in LinkTargets[l] : end = l \/ Canonical(end)

VARIABLES projects,   \* ids in the table projects
          rows,       \* the table runs: what a submission stores there
          kind,       \* the file tree
          links,
          pending,    \* the submission in flight
          answer      \* the status code of the last one that ended

vars == <<projects, rows, kind, links, pending, answer>>

NoRow     == [runner |-> "none"]
NoPending == [pc |-> "idle"]

RunnerType == {"stub", "solo_wargame"}

LinkStates == {f \in [DOMAIN LinkTargets -> UNION Range(LinkTargets)] :
                 \A l \in DOMAIN LinkTargets : f[l] \in LinkTargets[l]}

TypeOK ==
  /\ projects \in SUBSET Project
  /\ \A r \in Run : rows[r].runner \in RunnerType \cup {"none"}
  /\ kind \in [DOMAIN Tree -> {"file", "dir", "unreadable", "none"}]
  /\ links \in LinkStates
  /\ pending.pc \in {"idle", "resolved"}
  /\ pending # NoPending => /\ pending.payload \in Submitted
                            /\ IsLocation(pending.mission) /\ pending.looped \in BOOLEAN
  /\ answer \in {"none", "201", "404", "422", "500"}

Init ==
  /\ projects = {}
  /\ rows = [r \in Run |-> NoRow]
  /\ kind = Tree
  /\ links \in LinkStates
  /\ pending = NoPending
  /\ answer = "none"

-----------------------------------------------------------------------------
\* POST /projects
CreateProject(p) ==
  /\ p \notin projects
  /\ projects' = projects \cup {p}
  /\ UNCHANGED <<rows, kind, links, pending, answer>>

\* RunCreate: pydantic refuses an id that is no integer and a config that is no
\* object; a payload without runner_type or config is for the stub runner.
RunnerOf(payload) == IF payload.runner = "absent" THEN "stub" ELSE payload.runner

Row(payload, normalized, meant, looped) ==
  [runner     |-> RunnerOf(payload),
   project    |-> payload.project,
   submitted  |-> payload.config,
   normalized |-> normalized,
   meant      |-> meant,
   looped     |-> looped]

Answered(code) ==
  /\ answer' = code
  /\ pending' = NoPending

Store(row) ==
  /\ \E r \in Run : rows[r] = NoRow /\ rows' = [rows EXCEPT ![r] = row]
  /\ Answered("201")

\* What refuses a submission before its config is looked at, in this order.
RefusedWith(payload) ==
  IF payload.project = NotAnId THEN "422"
  ELSE IF payload.project \notin projects THEN "404"
  ELSE IF RunnerOf(payload) \notin RunnerType THEN "422"
  ELSE "none"

\* POST /runs, a submission that is refused at once.
SubmitRefused(payload) ==
  /\ pending = NoPending
  /\ RefusedWith(payload) # "none"
  /\ Answered(RefusedWith(payload))
  /\ UNCHANGED <<projects, rows, kind, links>>

\* POST /runs for the stub runner: any object is a config, copied as it is.  A
\* NaN in it is refused by the json column: the INSERT raises.
SubmitStub(payload) ==
  /\ pending = NoPending
  /\ RefusedWith(payload) = "none"
  /\ RunnerOf(payload) = "stub"
  /\ IF payload.config.should_fail = "NaN"
       THEN Answered("500") /\ UNCHANGED rows
       ELSE Store(Row(payload, payload.config, Nowhere, FALSE))
  /\ UNCHANGED <<projects, kind, links>>

\* POST /runs for solo_wargame, up to the resolved mission path.  meant is what
\* the submitted path names at that time, looped that resolve met a loop on it;
\* the program keeps neither.
SubmitSolo(payload) ==
  LET path == payload.config.mission
  IN /\ pending = NoPending
     /\ RefusedWith(payload) = "none"
     /\ RunnerOf(payload) = "solo_wargame"
     /\ \/ /\ ~ShapeAccepted(kind, payload.config)
           /\ Answered("422")
        \/ /\ ShapeAccepted(kind, payload.config)
           /\ Unresolvable(kind, links, path)
           /\ Answered("500")
        \/ /\ ShapeAccepted(kind, payload.config)
           /\ ~Unresolvable(kind, links, path)
           /\ pending' = [pc      |-> "resolved",
                          payload |-> payload,
                          mission |-> Resolved(links, path),
                          meant   |-> Opened(kind, links, path),
                          looped  |-> Looped(links, path)]
           /\ UNCHANGED answer
     /\ UNCHANGED <<projects, rows, kind, links>>

\* The rest of it: the resolved path is in the repository and a file (exists
\* raises what stat raises, except that nothing is there), the other fields are
\* valid, the run is inserted with its first attempt and committed.
FinishSolo ==
  LET c     == pending.payload.config
      found == Stat(kind, links, pending.mission)
  IN /\ pending # NoPending
     /\ IF InRepo(pending.mission) /\ found = "file" /\ RestAccepted(c)
          THEN Store(Row(pending.payload, Normalized(c, pending.mission),
                         pending.meant, pending.looped))
          ELSE /\ Answered(IF InRepo(pending.mission) /\ found = "unreadable"
                             THEN "500" ELSE "422")
               /\ UNCHANGED rows
     /\ UNCHANGED <<projects, kind, links>>

\* execute uses run.normalized_config, for the first attempt and for retries.
RequestOf(row) == EpisodeBatchRequest(row.normalized)

\* The file tree changes: files and the repository come and go, links are
\* pointed elsewhere.
Retarget(l, target) ==
  /\ target # links[l]
  /\ links' = [links EXCEPT ![l] = target]
  /\ UNCHANGED <<projects, rows, kind, pending, answer>>

Appears(l) ==
  /\ kind' = [kind EXCEPT ![l] = IF @ = "none" THEN Tree[l] ELSE "none"]
  /\ UNCHANGED <<projects, rows, links, pending, answer>>

Next ==
  \/ \E p \in Project : CreateProject(p)
  \/ \E payload \in Submitted :
       SubmitRefused(payload) \/ SubmitStub(payload) \/ SubmitSolo(payload)
  \/ FinishSolo
  \/ \E l \in DOMAIN LinkTargets : \E target \in LinkTargets[l] : Retarget(l, target)
  \/ \E l \in Volatile : Appears(l)

Spec == Init /\ [][Next]_vars

-----------------------------------------------------------------------------
Solo == {r \in Run : rows[r].runner = "solo_wargame"}

\* The seeds a stored config stands for.
Seeds(spec) == IF spec.kind = "range" THEN spec.start .. spec.stop - 1
               ELSE ToSet(spec.list)

\* Every stored run can be executed as it is: its project exists, its mission
\* leads down from the repository without a "..", and it has seeds to play, all of
\* them integers, and a policy upstream knows.  Unless its path met a loop, after
\* which links are not followed, its mission was never anything else but a file
\* inside the repository.
StoredRunnable ==
  \A r \in Solo :
    LET n == rows[r].normalized
    IN /\ rows[r].project \in projects
       /\ IsLocation(n.mission)
       /\ ~rows[r].looped => KindAt(Tree, Repo \o n.mission) = "file"
       /\ Seeds(n.seeds) # {} /\ Seeds(n.seeds) \subseteq Int
       /\ n.policy \in SupportedPolicies
       /\ n.rows \in {"true", "false"}

\* What a submission asks for: the file its path named, and the other fields.
Batch(r) ==
  LET c == rows[r].submitted
  IN <<rows[r].meant, c.policy, c.seeds, c.rows = "true">>

\* The hash identifies what is run, however a mission was spelled and whatever
\* its links were pointed at in between: two runs have the same hash exactly
\* if they asked for the same batch.
Hash(r) == HashedText(rows[r].normalized)

HashIdentifiesBatch ==
  \A r, s \in Solo :
    rows[r].meant # Nowhere /\ rows[s].meant # Nowhere =>
      (Hash(r) = Hash(s) <=> Batch(r) = Batch(s))

\* Whenever an attempt is executed, the upstream command opens the file that was
\* meant when the run was submitted, or finds none: pointing a link elsewhere
\* changes neither runs that wait nor retries.
MissionStaysPut ==
  \A r \in Solo : rows[r].meant # Nowhere =>
    Opened(kind, links, RequestOf(rows[r]).mission_path) \in {rows[r].meant, Nowhere}

\* A stored config can be submitted again, while its mission is there, and is
\* stored as itself, unless the path it was made from met a loop.
Reproducible ==
  \A r \in Solo :
    LET n  == rows[r].normalized
        c  == Resubmitted(n)
        at == Resolved(links, c.mission)
    IN (~rows[r].looped /\ ShapeAccepted(kind, c) /\ Stat(kind, links, at) = "file") =>
         /\ ~Unresolvable(kind, links, c.mission) /\ InRepo(at) /\ RestAccepted(c)
         /\ Normalized(c, at) = n
=============================================================================
