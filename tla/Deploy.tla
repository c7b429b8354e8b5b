------------------------------- MODULE Deploy -------------------------------
(***************************************************************************)
(* scripts/deploy.sh: installs, with a failure or an interruption between  *)
(* any two of their steps, and --gen-owner-key with cmd/owner-keygen.      *)
(*                                                                         *)
(* An install builds an image, saves it in a tar with its id beside it,    *)
(* ships the files and the tar to the host, loads the image there and      *)
(* makes a new container.  What an earlier install left behind, here and   *)
(* on the host, is believed: a step whose mark is there is skipped.        *)
(* The container may restart at any time, on whatever the host has by then.*)
(***************************************************************************)
EXTENDS Naturals

CONSTANTS
  Images,      \* the images that a build may make
  Ref,         \* the name and tag of each: HEAD's, so that two may share it
  Confs,       \* agent.toml's contents
  Gens,        \* runs of --gen-owner-key
  None,        \* no image, no file, no container
  MaxInstalls  \* bound: installs begun

Refs == {Ref[i] : i \in Images}

ASSUME RefAssumption == DOMAIN Ref = Images
ASSUME NoneAssumption == None \notin Images \cup Confs \cup Gens \cup {"empty"}
ASSUME GensAssumption == "empty" \notin Gens
ASSUME BoundsAssumption == MaxInstalls \in Nat

VARIABLES
  tar, tarId,                     \* here: the tar, the id beside it
  step, want, installs,           \* an install: where it is and what it is for
  loaded, shippedTar, files,      \* the host: images by ref, the tar, install_dir
  container,                      \* what it runs: image, agent.toml, model key
  conf, keyFile, gen              \* config.sh, owner.key, each --gen-owner-key

hereVars == <<tar, tarId>>
installVars == <<step, want, installs>>
hostVars == <<loaded, shippedTar, files, container>>
keyVars == <<conf, keyFile, gen>>
vars == <<hereVars, installVars, hostVars, keyVars>>

Unrendered == [toml |-> None, env |-> FALSE, compose |-> None]
NoWant == [image |-> None, toml |-> None, keyed |-> FALSE]

Init ==
  /\ tar = None /\ tarId = None
  /\ step = "idle" /\ want = NoWant /\ installs = 0
  /\ loaded = [r \in Refs |-> None] /\ shippedTar = None
  /\ files = Unrendered /\ container = None
  /\ conf = "absent" /\ keyFile = None /\ gen = [g \in Gens |-> "idle"]

(***************************************************************************)
(* An install.                                                             *)
(***************************************************************************)
Between == step \in {"idle", "failed", "done"}

\* Every mode begins by sourcing config.sh.  Whether that fails where a file that
\* it names is missing hangs on the line's place in it: source is run under ||,
\* with no set -e inside, and gives the status of the last line.  So any mode may
\* go on without the key.
\*
\* The image that HEAD's name stands for once it is built, or with --skip-build
\* that it stands for already.
Build ==
  /\ Between /\ installs < MaxInstalls
  /\ \E i \in Images, toml \in Confs, keyed \in BOOLEAN :
       want' = [image |-> i, toml |-> toml, keyed |-> keyed]
  /\ installs' = installs + 1 /\ step' = "save"
  /\ UNCHANGED <<hereVars, hostVars, keyVars>>

\* set -e: a command that fails, or an interruption, ends the script.
Fail ==
  /\ ~Between
  /\ step' = "failed"
  /\ UNCHANGED <<hereVars, want, installs, hostVars, keyVars>>

\* save_if_changed: docker save puts the whole tar in place at once.
Save ==
  /\ step = "save"
  /\ \/ tar # None /\ tarId = want.image /\ step' = "clear" /\ UNCHANGED tar
     \/ ~(tar # None /\ tarId = want.image) /\ step' = "mark" /\ tar' = want.image
  /\ UNCHANGED <<tarId, want, installs, hostVars, keyVars>>

\* The id is written after the tar that it is the id of.
Mark ==
  /\ step = "mark"
  /\ tarId' = want.image /\ step' = "clear"
  /\ UNCHANGED <<tar, want, installs, hostVars, keyVars>>

\* An assistant.env that is not to be replaced goes first.
Clear ==
  /\ step = "clear"
  /\ files' = [files EXCEPT !.env = @ /\ want.keyed] /\ step' = "ship"
  /\ UNCHANGED <<hereVars, want, installs, loaded, shippedTar, container, keyVars>>

Rendered == [toml |-> want.toml, env |-> want.keyed,
             compose |-> [ref |-> Ref[want.image], keyed |-> want.keyed]]

\* rsync replaces each file at once, and may get through some of them only.
ShipFiles ==
  /\ step = "ship"
  /\ \E part \in SUBSET DOMAIN files :
       /\ files' = [f \in DOMAIN files |-> IF f \in part THEN Rendered[f] ELSE files[f]]
       /\ step' = IF part = DOMAIN files THEN "ship tar" ELSE "failed"
  /\ UNCHANGED <<hereVars, want, installs, loaded, shippedTar, container, keyVars>>

ShipTar ==
  /\ step = "ship tar"
  /\ shippedTar' = tar /\ step' = "load"
  /\ UNCHANGED <<hereVars, want, installs, loaded, files, container, keyVars>>

\* Variant: any image of that name will do.
AlreadyLoaded_ByRef == loaded[Ref[want.image]] # None

\* load_if_missing compares with the id beside the local tar.
AlreadyLoaded == loaded[Ref[want.image]] = tarId

\* Variant: what was loaded is not tagged.
Tags_Nothing == TRUE

\* docker tag fails if there is no image of the name that it is given.
Tags == loaded'[Ref[want.image]] # None

\* docker load gives an image the name that it was saved with.
Load ==
  /\ step = "load"
  /\ loaded' = IF AlreadyLoaded THEN loaded
               ELSE [loaded EXCEPT ![Ref[shippedTar]] = shippedTar]
  /\ step' = IF Tags THEN "remove" ELSE "failed"
  /\ UNCHANGED <<hereVars, want, installs, shippedTar, files, container, keyVars>>

\* Variant: compose is left to find out whether the container is up to date.
Remove_Nothing == container' = container

\* docker rm -f, of which it is assumed that it does what it is asked to: the
\* script passes over its failures.
Remove == container' = None

Recreate ==
  /\ step = "remove"
  /\ Remove /\ step' = "up"
  /\ UNCHANGED <<hereVars, want, installs, loaded, shippedTar, files, keyVars>>

\* docker compose up: an env_file that is named has to be there, and a
\* container of the same image and environment is left as it is.
Composed == [image |-> loaded[files.compose.ref], toml |-> files.toml, keyed |-> files.compose.keyed]
UpToDate ==
  container # None /\ container.image = Composed.image /\ container.keyed = Composed.keyed

Up ==
  /\ step = "up"
  /\ files.compose.keyed => files.env
  /\ container' = IF UpToDate THEN container ELSE Composed
  /\ step' = "smoke"
  /\ UNCHANGED <<hereVars, want, installs, loaded, shippedTar, files, keyVars>>

\* /healthz answers 200; if it does not, the install fails.
Smoke ==
  /\ step = "smoke"
  /\ step' = "done"
  /\ UNCHANGED <<hereVars, want, installs, hostVars, keyVars>>

\* --uninstall, as far as it gets: the container, its images, the directory.
Uninstall ==
  /\ Between /\ container # None
  /\ container' = None /\ step' = "idle"
  /\ loaded' \in {loaded, [r \in Refs |-> None]}
  /\ \/ UNCHANGED <<shippedTar, files>>
     \/ loaded' # loaded /\ shippedTar' = None /\ files' = Unrendered
  /\ UNCHANGED <<hereVars, want, installs, keyVars>>

\* restart: unless-stopped.  The file that is mounted is opened again; image
\* and environment stay those that the container was made with.
Restart ==
  /\ container # None
  /\ container' = [container EXCEPT !.toml = files.toml]
  /\ UNCHANGED <<hereVars, installVars, loaded, shippedTar, files, keyVars>>

(***************************************************************************)
(* --init-config and --gen-owner-key.                                      *)
(***************************************************************************)
GenGoto(g, label) == gen' = [gen EXCEPT ![g] = label]

InitConfig ==
  /\ conf = "absent"
  /\ conf' = "plain"
  /\ UNCHANGED <<hereVars, installVars, hostVars, keyFile, gen>>

\* No key is configured, there is no key file, and there is a config that
\* assigns none, not even one that came to nothing.
Check(g) ==
  /\ gen[g] = "idle"
  /\ GenGoto(g, IF keyFile = None /\ conf = "plain" THEN "create" ELSE "failed")
  /\ UNCHANGED <<hereVars, installVars, hostVars, conf, keyFile>>

\* Variant: the file is created or truncated.
Exclusive_Never == TRUE

\* O_EXCL: the file must not exist.
Exclusive == keyFile = None

\* Variant: the script goes on whatever owner-keygen says.
Abort_Never(g) == GenGoto(g, "rewrite")

\* || fail
Abort(g) == GenGoto(g, "failed")

Create(g) ==
  /\ gen[g] = "create"
  /\ \/ Exclusive /\ keyFile' = "empty" /\ GenGoto(g, "write")
     \/ ~Exclusive /\ Abort(g) /\ UNCHANGED keyFile
  /\ UNCHANGED <<hereVars, installVars, hostVars, conf>>

\* A key of the run's own, like no other.
Write(g) ==
  /\ gen[g] = "write"
  /\ \/ keyFile' = g /\ GenGoto(g, "rewrite")
     \/ Abort(g) /\ UNCHANGED keyFile
  /\ UNCHANGED <<hereVars, installVars, hostVars, conf>>

\* awk makes the new config beside the old one, and mv puts it in its place.
Rewrite(g) ==
  /\ gen[g] = "rewrite"
  /\ \/ GenGoto(g, "move")
     \/ GenGoto(g, "failed")
  /\ UNCHANGED <<hereVars, installVars, hostVars, conf, keyFile>>

Move(g) ==
  /\ gen[g] = "move"
  /\ conf' = "keyed" /\ GenGoto(g, "done")
  /\ UNCHANGED <<hereVars, installVars, hostVars, keyFile>>

\* The script is interrupted.
Interrupt(g) ==
  /\ gen[g] \notin {"idle", "failed", "done"}
  /\ GenGoto(g, "failed")
  /\ UNCHANGED <<hereVars, installVars, hostVars, conf, keyFile>>

(***************************************************************************)
(* The specification.                                                      *)
(***************************************************************************)
Install ==
  \/ Build \/ Save \/ Mark \/ Clear \/ ShipFiles \/ ShipTar \/ Load \/ Recreate \/ Up
  \/ Smoke \/ Fail \/ Uninstall \/ Restart

GenKey(g) == Check(g) \/ Create(g) \/ Write(g) \/ Rewrite(g) \/ Move(g) \/ Interrupt(g)

\* Nothing has to be installed.
Rest == Between /\ UNCHANGED vars

Next == Install \/ InitConfig \/ (\E g \in Gens : GenKey(g)) \/ Rest

Spec == Init /\ [][Next]_vars

(***************************************************************************)
(* What holds.                                                             *)
(***************************************************************************)
Steps == {"idle", "save", "mark", "clear", "ship", "ship tar", "load", "remove", "up", "smoke",
          "done", "failed"}
Wants == [image : Images \cup {None}, toml : Confs \cup {None}, keyed : BOOLEAN]

HereTypes == tar \in Images \cup {None} /\ tarId \in Images \cup {None}
InstallTypes == step \in Steps /\ want \in Wants /\ installs \in 0..MaxInstalls
FileTypes == files \in [toml : Confs \cup {None}, env : BOOLEAN,
                       compose : [ref : Refs, keyed : BOOLEAN] \cup {None}]
HostTypes ==
  /\ loaded \in [Refs -> Images \cup {None}] /\ shippedTar \in Images \cup {None}
  /\ container \in [image : Images, toml : Confs, keyed : BOOLEAN] \cup {None}
OwnerTypes ==
  /\ conf \in {"absent", "plain", "keyed"} /\ keyFile \in Gens \cup {None, "empty"}
  /\ gen \in [Gens -> {"idle", "create", "write", "rewrite", "move", "done", "failed"}]

\* Every variable stays in its type.
TypeOK == HereTypes /\ InstallTypes /\ FileTypes /\ HostTypes /\ OwnerTypes

\* "Done": whatever earlier installs left behind, here and on the host, an
\* install that ends well has its image, its agent.toml and its model key, or
\* none, running; unless the tar is not the one whose id lies beside it.
DoneRunsWanted == step = "done" /\ tar = tarId => container = want

\* gen-owner-key: "replacing one strands a registration and its bond": the
\* key whose address a run gave to be funded stays the key in the file.
FundedKeyKept == \A g \in Gens : gen[g] = "done" => keyFile = g

\* gen-owner-key: no "config line naming a key that was never generated":
\* wherever a run dies, and whatever another run does between its steps,
\* config.sh names a key file only when a whole key is in it.
ConfigNamesWholeKey == conf = "keyed" => keyFile \in Gens

\* The invariant behind DoneRunsWanted: what each step can count on.
Past(labels) == step \in labels
Marked == Past({"clear", "ship", "ship tar", "load", "remove", "up", "smoke", "done"})
            => tarId = want.image /\ tar \in Images
Marking == Past({"mark"}) => tar \in Images
Filed == Past({"ship tar", "load", "remove", "up", "smoke", "done"}) => files = Rendered
Shipped == Past({"load"}) => shippedTar = tar
Loaded ==
  /\ Past({"remove", "up", "smoke", "done"}) => loaded[Ref[want.image]] # None
  /\ Past({"remove", "up"}) /\ tar = tarId => loaded[Ref[want.image]] = want.image
Fresh == Past({"up"}) => container = None
Composes == Past({"smoke", "done"}) /\ tar = tarId => container = want
For == /\ Past(Steps \ {"idle", "failed"}) => want.image \in Images /\ want.toml \in Confs
       /\ container # None => files.toml \in Confs
Installed ==
  TypeOK /\ For /\ Marking /\ Marked /\ Filed /\ Shipped /\ Loaded /\ Fresh /\ Composes

\* The invariant behind the other two: one run writes the file, and who is past
\* that finds its own key in it.
Whole ==
  /\ \A g \in Gens : gen[g] \in {"rewrite", "move", "done"} => keyFile = g
  /\ \A g \in Gens : gen[g] = "write" => keyFile = "empty"
  /\ \A g, h \in Gens : gen[g] = "write" /\ gen[h] = "write" => g = h
  /\ ConfigNamesWholeKey

=============================================================================
