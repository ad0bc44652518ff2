----------------------------- MODULE MCReleases ------------------------------
(* Packages, the releases that bind them and a run of a release.  Each       *)
(* behaviour is about one of these:                                          *)
(*   imports   uploads, previews and switches of a package of two contents;  *)
(*   releases  drafts and releases that bind it, or not, without a run;      *)
(*   run       a run of the first release, while the package is switched.    *)
(* An import matters to a release as an upload does, and a second content    *)
(* as one that is not bound: only the first part has them.                   *)
EXTENDS Releases

CONSTANT Bound    \* the contents that are bound

VARIABLE part

MCInit ==
    /\ Init
    /\ part \in {"imports", "releases", "run"}
    /\ part = "imports" => drafts[1].binding = Nothing
    /\ part # "imports" => \A v \in DOMAIN versions : versions[v].digest \in Bound
Few == UNCHANGED imports /\ \A v \in DOMAIN versions' : versions'[v].digest \in Bound
MCNext ==
    /\ UNCHANGED part
    /\ \/ part = "imports" /\ SkillNext /\ UNCHANGED <<authoring, running>>
       \/ part = "releases" /\ Release /\ Few
       \/ part = "run" /\ Next /\ Few /\ Len(releases') <= 1 /\ (asked' <= 1 \/ run' # NoRun)
MCSpec == MCInit /\ [][MCNext]_<<vars, part>>
=============================================================================
