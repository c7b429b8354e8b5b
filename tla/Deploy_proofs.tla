---------------------------- MODULE Deploy_proofs ----------------------------
(***************************************************************************)
(* Proofs about Deploy, for any images under any names, any configurations,*)
(* any number of installs, and any number of runs of --gen-owner-key.      *)
(***************************************************************************)
EXTENDS Deploy, TLAPS

USE RefAssumption, NoneAssumption, GensAssumption, BoundsAssumption

\* Every image has a name.
LEMMA Named == \A i \in Images : Ref[i] \in Refs
  BY DEF Refs

\* An install is under way, or it is not.
LEMMA Places == Installed => (~Between <=> step \in Steps \ {"idle", "failed", "done"})
  BY DEF Installed, TypeOK, InstallTypes, Between, Steps

\* A step that leaves some of the variables alone leaves their types alone.
LEMMA Kept ==
  ASSUME TypeOK
  PROVE  /\ UNCHANGED hereVars => HereTypes'
         /\ UNCHANGED installVars => InstallTypes'
         /\ UNCHANGED files => FileTypes'
         /\ UNCHANGED <<loaded, shippedTar, container>> => HostTypes'
         /\ UNCHANGED keyVars => OwnerTypes'
  <1>1. UNCHANGED hereVars => HereTypes'
    BY DEF TypeOK, HereTypes, hereVars
  <1>2. UNCHANGED installVars => InstallTypes'
    BY DEF TypeOK, InstallTypes, installVars
  <1>3. UNCHANGED files => FileTypes'
    BY DEF TypeOK, FileTypes
  <1>4. UNCHANGED <<loaded, shippedTar, container>> => HostTypes'
    BY DEF TypeOK, HostTypes
  <1>5. UNCHANGED keyVars => OwnerTypes'
    BY DEF TypeOK, OwnerTypes, keyVars
  <1>6. QED
    BY <1>1, <1>2, <1>3, <1>4, <1>5

\* What a step can count on, if nothing but the owner's key is touched.
LEMMA Undisturbed ==
  ASSUME Installed, UNCHANGED <<hereVars, installVars, hostVars>>, OwnerTypes'
  PROVE  Installed'
  <1>1. TypeOK'
    BY Kept DEF Installed, TypeOK, hostVars
  <1>2. Rendered' = Rendered
    BY DEF Rendered, installVars
  <1>3. For' /\ Marking' /\ Marked' /\ Filed' /\ Shipped' /\ Loaded' /\ Fresh' /\ Composes'
    BY <1>2 DEF Installed, For, Marking, Marked, Filed, Shipped, Loaded, Fresh, Composes, Past,
                hereVars, installVars, hostVars
  <1>4. QED
    BY <1>1, <1>3 DEF Installed

\* Nothing is installed, nothing saved.
LEMMA InstalledInit == Init => Installed
  <1> SUFFICES ASSUME Init PROVE Installed
    OBVIOUS
  <1>1. TypeOK
    BY DEF Init, TypeOK, HereTypes, InstallTypes, FileTypes, HostTypes, OwnerTypes, Steps, Wants,
           NoWant, Unrendered
  <1>2. QED
    BY <1>1 DEF Init, Installed, For, Marking, Marked, Filed, Shipped, Loaded, Fresh, Composes, Past

\* The steps that happen here: build, save, mark.
LEMMA HereStep ==
  ASSUME Installed, Build \/ Save \/ Mark
  PROVE  Installed'
  <1>1. UNCHANGED hostVars /\ UNCHANGED keyVars
    BY DEF Build, Save, Mark
  <1>2. step' \in {"save", "mark", "clear"}
    BY DEF Build, Save, Mark
  <1>3. want' \in Wants /\ want'.image \in Images /\ want'.toml \in Confs
    <2>1. CASE Build
      BY <2>1 DEF Build, Wants
    <2>2. CASE Save \/ Mark
      <3>1. step \in {"save", "mark"} /\ UNCHANGED want
        BY <2>2 DEF Save, Mark
      <3>2. QED
        BY <3>1 DEF Installed, TypeOK, InstallTypes, For, Past, Steps
    <2>3. QED
      BY <2>1, <2>2
  <1>4. HereTypes'
    <2>1. tar' \in {tar, want'.image} /\ tarId' \in {tarId, want'.image}
      BY DEF Build, Save, Mark, hereVars
    <2>2. QED
      BY <1>3, <2>1 DEF Installed, TypeOK, HereTypes
  <1>5. InstallTypes'
    <2>1. installs' = installs \/ (installs < MaxInstalls /\ installs' = installs + 1)
      BY DEF Build, Save, Mark
    <2>2. installs' \in 0..MaxInstalls
      BY <2>1 DEF Installed, TypeOK, InstallTypes
    <2>3. QED
      BY <1>2, <1>3, <2>2 DEF InstallTypes, Steps
  <1>6. Marked'
    <2>1. CASE Build
      BY <2>1 DEF Build, Marked, Past
    <2>2. CASE Save
      BY <2>2 DEF Save, Marked, Past, Installed, TypeOK, HereTypes
    <2>3. CASE Mark
      <3>1. step = "mark" /\ tarId' = want.image /\ UNCHANGED <<tar, want>>
        BY <2>3 DEF Mark
      <3>2. tar \in Images
        BY <3>1 DEF Installed, Marking, Past
      <3>3. QED
        BY <3>1, <3>2 DEF Marked
    <2>4. QED
      BY <2>1, <2>2, <2>3
  <1>7. Marking'
    BY <1>3 DEF Build, Save, Mark, Marking, Past
  <1>8. TypeOK'
    BY <1>1, <1>4, <1>5, Kept DEF Installed, TypeOK, hostVars
  <1>9. QED
    BY <1>1, <1>2, <1>3, <1>6, <1>7, <1>8
       DEF Installed, For, Filed, Shipped, Loaded, Fresh, Composes, Past, hostVars, Steps

\* The steps that ship: what was rendered is there when all of it is there.
LEMMA ShipStep ==
  ASSUME Installed, Clear \/ ShipFiles \/ ShipTar
  PROVE  Installed'
  <1>1. UNCHANGED <<hereVars, want, installs, loaded, container, keyVars>>
    BY DEF Clear, ShipFiles, ShipTar
  <1>2. /\ step' \in {"ship", "ship tar", "load", "failed"} /\ step \in {"clear", "ship", "ship tar"}
        /\ want.image \in Images /\ want.toml \in Confs /\ Ref[want.image] \in Refs
    BY Named DEF Clear, ShipFiles, ShipTar, Installed, For, Past, Steps
  <1>3. Rendered \in [toml : Confs \cup {None}, env : BOOLEAN,
                      compose : [ref : Refs, keyed : BOOLEAN] \cup {None}]
    BY <1>2 DEF Rendered, Installed, TypeOK, InstallTypes, Wants
  <1>4. /\ files' \in [toml : Confs \cup {None}, env : BOOLEAN,
                       compose : [ref : Refs, keyed : BOOLEAN] \cup {None}]
        /\ files'.toml \in {files.toml, want.toml}
        /\ step' \in {"ship tar", "load"} => files' = Rendered
    <2>1. CASE Clear
      BY <2>1 DEF Clear, Installed, TypeOK, FileTypes, InstallTypes, Wants
    <2>2. CASE ShipFiles
      <3>1. DOMAIN files = {"toml", "env", "compose"} /\ DOMAIN Rendered = {"toml", "env", "compose"}
        BY DEF Installed, TypeOK, FileTypes, Rendered
      <3>2. PICK part \in SUBSET DOMAIN files :
              /\ files' = [f \in DOMAIN files |-> IF f \in part THEN Rendered[f] ELSE files[f]]
              /\ step' = IF part = DOMAIN files THEN "ship tar" ELSE "failed"
        BY <2>2 DEF ShipFiles
      <3>3. files' = [toml |-> IF "toml" \in part THEN Rendered.toml ELSE files.toml,
                      env |-> IF "env" \in part THEN Rendered.env ELSE files.env,
                      compose |-> IF "compose" \in part THEN Rendered.compose ELSE files.compose]
        BY <3>1, <3>2
      <3>4. part = DOMAIN files => files' = Rendered
        BY <3>1, <3>3 DEF Rendered
      <3>5. Rendered.toml = want.toml
        BY DEF Rendered
      <3>6. QED
        BY <1>3, <3>2, <3>3, <3>4, <3>5 DEF Installed, TypeOK, FileTypes
    <2>3. CASE ShipTar
      BY <2>3 DEF ShipTar, Installed, TypeOK, FileTypes, Filed, Past
    <2>4. QED
      BY <2>1, <2>2, <2>3
  <1>5. shippedTar' \in Images \cup {None} /\ (step' = "load" => shippedTar' = tar)
    BY DEF Clear, ShipFiles, ShipTar, Installed, TypeOK, HereTypes, HostTypes
  <1>6. TypeOK'
    <2>1. InstallTypes'
      BY <1>1, <1>2 DEF Installed, TypeOK, InstallTypes, Steps
    <2>2. FileTypes'
      BY <1>4 DEF FileTypes
    <2>3. HostTypes'
      BY <1>1, <1>5 DEF Installed, TypeOK, HostTypes
    <2>4. QED
      BY <1>1, <2>1, <2>2, <2>3, Kept DEF Installed, TypeOK
  <1>7. Rendered' = Rendered
    BY <1>1 DEF Rendered
  <1>8. QED
    BY <1>1, <1>2, <1>4, <1>5, <1>6, <1>7
       DEF Installed, For, Marking, Marked, Filed, Shipped, Loaded, Fresh, Composes, Past, hereVars, Steps

\* The steps on the host: the image under the wanted name is the wanted one,
\* and the container is made of it.
LEMMA HostStep ==
  ASSUME Installed, Load \/ Recreate \/ Up \/ Smoke
  PROVE  Installed'
  <1>1. UNCHANGED <<hereVars, want, installs, shippedTar, files, keyVars>>
    BY DEF Load, Recreate, Up, Smoke, hostVars
  <1>2. /\ want.image \in Images /\ want.toml \in Confs /\ Ref[want.image] \in Refs
        /\ tarId = want.image /\ tar \in Images /\ files = Rendered
        /\ step \in {"load", "remove", "up", "smoke"}
    BY Named DEF Load, Recreate, Up, Smoke, Installed, For, Marked, Filed, Past, Steps
  <1>3. Rendered' = Rendered
    BY <1>1 DEF Rendered
  <1>a. HereTypes' /\ FileTypes' /\ OwnerTypes'
    BY <1>1, Kept DEF Installed
  <1>4. CASE Load
    <2>1. shippedTar = tar /\ Ref[tar] \in Refs
      BY <1>2, <1>4, Named DEF Load, Installed, Shipped, Past
    <2>2. loaded' \in [Refs -> Images \cup {None}]
      BY <1>2, <1>4, <2>1 DEF Load, Installed, TypeOK, HostTypes
    <2>3. tar = tarId => loaded'[Ref[want.image]] = want.image
      BY <1>2, <1>4, <2>1 DEF Load, AlreadyLoaded, Installed, TypeOK, HostTypes
    <2>4. step' = "remove" => loaded'[Ref[want.image]] # None
      BY <1>4 DEF Load, Tags
    <2>5. step' \in {"remove", "failed"} /\ UNCHANGED container
      BY <1>4 DEF Load
    <2>6. QED
      BY <1>1, <1>2, <1>3, <1>a, <2>2, <2>3, <2>4, <2>5
         DEF Installed, TypeOK, InstallTypes, HostTypes, For, Marking, Marked, Filed, Shipped,
             Loaded, Fresh, Composes, Past, hereVars, Steps
  <1>5. CASE Recreate
    <2>1. step = "remove" /\ step' = "up" /\ container' = None /\ UNCHANGED loaded
      BY <1>5 DEF Recreate, Remove
    <2>2. QED
      BY <1>1, <1>2, <1>3, <1>a, <2>1
         DEF Installed, TypeOK, InstallTypes, HostTypes, For, Marking, Marked, Filed, Shipped,
             Loaded, Fresh, Composes, Past, hereVars, Steps
  <1>6. CASE Up
    <2>1. container = None /\ step = "up" /\ step' = "smoke" /\ UNCHANGED loaded
      BY <1>6 DEF Up, Installed, Fresh, Past
    <2>2. container' = [image |-> loaded[Ref[want.image]], toml |-> want.toml, keyed |-> want.keyed]
      BY <1>2, <1>6, <2>1 DEF Up, UpToDate, Composed, Rendered
    <2>3. loaded[Ref[want.image]] \in Images /\ want.keyed \in BOOLEAN
      BY <1>2, <2>1 DEF Installed, TypeOK, HostTypes, InstallTypes, Loaded, Past, Wants
    <2>4. tar = tarId => container' = want
      <3>1. tar = tarId => loaded[Ref[want.image]] = want.image
        BY <2>1 DEF Installed, Loaded, Past
      <3>2. want = [image |-> want.image, toml |-> want.toml, keyed |-> want.keyed]
        BY DEF Installed, TypeOK, InstallTypes, Wants
      <3>3. QED
        BY <2>2, <3>1, <3>2
    <2>5. container' \in [image : Images, toml : Confs, keyed : BOOLEAN]
      BY <1>2, <2>2, <2>3
    <2>6. files.toml \in Confs
      BY <1>2 DEF Rendered
    <2>7. QED
      BY <1>1, <1>2, <1>3, <1>a, <2>1, <2>3, <2>4, <2>5, <2>6
         DEF Installed, TypeOK, InstallTypes, HostTypes, For, Marking, Marked, Filed, Shipped,
             Loaded, Fresh, Composes, Past, hereVars, Steps
  <1>7. CASE Smoke
    <2>1. step = "smoke" /\ step' = "done" /\ UNCHANGED <<loaded, container>>
      BY <1>7 DEF Smoke, hostVars
    <2>2. QED
      BY <1>1, <1>2, <1>3, <1>a, <2>1
         DEF Installed, TypeOK, InstallTypes, HostTypes, For, Marking, Marked, Filed, Shipped,
             Loaded, Fresh, Composes, Past, hereVars, Steps
  <1>8. QED
    BY <1>4, <1>5, <1>6, <1>7

\* What may come between: a failure, an uninstall, a restart of the container.
LEMMA BetweenStep ==
  ASSUME Installed, Fail \/ Uninstall \/ Restart
  PROVE  Installed'
  <1>1. CASE Fail
    <2>1. UNCHANGED <<hereVars, hostVars, keyVars, want, installs>> /\ step' = "failed"
      BY <1>1 DEF Fail
    <2>2. TypeOK'
      BY <2>1, Kept DEF Installed, TypeOK, InstallTypes, hostVars, Steps
    <2>3. QED
      BY <2>1, <2>2 DEF Installed, For, Marking, Marked, Filed, Shipped, Loaded, Fresh, Composes,
                        Past, hostVars
  <1>2. CASE Uninstall
    <2>1. /\ step' = "idle" /\ container' = None /\ UNCHANGED <<hereVars, want, installs, keyVars>>
          /\ loaded' \in [Refs -> Images \cup {None}] /\ shippedTar' \in Images \cup {None}
          /\ files' \in {files, Unrendered}
      BY <1>2 DEF Uninstall, Installed, TypeOK, HostTypes
    <2>2. TypeOK'
      <3>1. FileTypes'
        <4>1. Unrendered \in [toml : Confs \cup {None}, env : BOOLEAN,
                              compose : [ref : Refs, keyed : BOOLEAN] \cup {None}]
          BY DEF Unrendered
        <4>2. QED
          BY <2>1, <4>1 DEF Installed, TypeOK, FileTypes
      <3>2. InstallTypes' /\ HostTypes'
        BY <2>1 DEF Installed, TypeOK, InstallTypes, HostTypes, Steps
      <3>3. QED
        BY <2>1, <3>1, <3>2, Kept DEF Installed, TypeOK
    <2>3. QED
      BY <2>1, <2>2 DEF Installed, For, Marking, Marked, Filed, Shipped, Loaded, Fresh, Composes, Past
  <1>3. CASE Restart
    <2>1. /\ container # None /\ container' = [container EXCEPT !.toml = files.toml]
          /\ UNCHANGED <<hereVars, installVars, loaded, shippedTar, files, keyVars>>
      BY <1>3 DEF Restart
    <2>2. files.toml \in Confs /\ container \in [image : Images, toml : Confs, keyed : BOOLEAN]
      BY <2>1 DEF Installed, TypeOK, HostTypes, For
    <2>3. container' \in [image : Images, toml : Confs, keyed : BOOLEAN]
      BY <2>1, <2>2
    <2>4. container = want /\ files.toml = want.toml => container' = want
      BY <2>1, <2>2
    <2>5. files = Rendered => files.toml = want.toml
      BY DEF Rendered
    <2>6. Rendered' = Rendered
      BY <2>1 DEF Rendered, installVars
    <2>7. TypeOK'
      BY <2>1, <2>3, Kept DEF Installed, TypeOK, HostTypes
    <2>8. Composes' /\ Fresh'
      BY <2>1, <2>4, <2>5 DEF Installed, Composes, Fresh, Filed, Past, hereVars, installVars
    <2>9. QED
      BY <2>1, <2>2, <2>6, <2>7, <2>8
         DEF Installed, For, Marking, Marked, Filed, Shipped, Loaded, Past, hereVars, installVars
  <1>4. QED
    BY <1>1, <1>2, <1>3

\* What the keys do has nothing to do with an install.
LEMMA KeyStep ==
  ASSUME Installed, InitConfig \/ \E g \in Gens : GenKey(g)
  PROVE  Installed'
  <1>1. UNCHANGED <<hereVars, installVars, hostVars>>
    BY DEF InitConfig, GenKey, Check, Create, Write, Rewrite, Move, Interrupt
  <1>2. OwnerTypes'
    BY DEF Installed, TypeOK, OwnerTypes, InitConfig, GenKey, Check, Create, Write, Rewrite, Move,
           Interrupt, GenGoto, Abort, Exclusive
  <1>3. QED
    BY <1>1, <1>2, Undisturbed

\* Every step preserves the invariant of an install.
LEMMA InstalledStep == Installed /\ [Next]_vars => Installed'
  <1> SUFFICES ASSUME Installed, [Next]_vars PROVE Installed'
    OBVIOUS
  <1>1. CASE UNCHANGED vars
    <2>1. UNCHANGED <<hereVars, installVars, hostVars>> /\ OwnerTypes'
      BY <1>1, Kept DEF vars, Installed
    <2>2. QED
      BY <2>1, Undisturbed
  <1>2. CASE Rest
    BY <1>1, <1>2 DEF Rest
  <1>3. QED
    BY <1>1, <1>2, HereStep, ShipStep, HostStep, BetweenStep, KeyStep DEF Next, Install

\* The inductive invariant of an install holds in every reachable state.
THEOREM InstalledAlways == Spec => []Installed
  BY InstalledInit, InstalledStep, PTL DEF Spec

\* Every variable stays in its type: above all, no container without an image.
THEOREM DeployTyped == Spec => []TypeOK
  <1>1. Installed => TypeOK
    BY DEF Installed
  <1>2. QED
    BY <1>1, InstalledAlways, PTL

\* An install that ends well runs what was wanted, whatever was left behind by
\* installs that failed between any two steps.
THEOREM DoneIsWanted == Spec => []DoneRunsWanted
  <1>1. Installed => DoneRunsWanted
    BY DEF Installed, Composes, Past, DoneRunsWanted
  <1>2. QED
    BY <1>1, InstalledAlways, PTL

(***************************************************************************)
(* The owner key.                                                          *)
(***************************************************************************)
LEMMA WholeInit == Init => Whole
  BY DEF Init, Whole, ConfigNamesWholeKey

\* The file is created by one run, and written by that run only.
LEMMA WholeStep == OwnerTypes /\ Whole /\ [Next]_vars => Whole'
  <1> SUFFICES ASSUME OwnerTypes, Whole, [Next]_vars PROVE Whole'
    OBVIOUS
  <1>1. CASE Install \/ Rest \/ UNCHANGED vars
    <2>1. UNCHANGED keyVars
      BY <1>1 DEF Install, Build, Save, Mark, Clear, ShipFiles, ShipTar, Load, Recreate, Up, Smoke,
                  Fail, Uninstall, Restart, Rest, vars
    <2>2. QED
      BY <2>1 DEF keyVars, Whole, ConfigNamesWholeKey
  <1>2. CASE InitConfig
    BY <1>2 DEF InitConfig, Whole, ConfigNamesWholeKey
  <1>3. ASSUME NEW g \in Gens, Check(g) \/ Rewrite(g) \/ Interrupt(g) PROVE Whole'
    BY <1>3 DEF Check, Rewrite, Interrupt, GenGoto, OwnerTypes, Whole, ConfigNamesWholeKey
  <1>4. ASSUME NEW g \in Gens, Create(g) PROVE Whole'
    <2>1. CASE Exclusive
      BY <1>4, <2>1 DEF Create, Exclusive, Abort, GenGoto, OwnerTypes, Whole, ConfigNamesWholeKey
    <2>2. CASE ~Exclusive
      BY <1>4, <2>2 DEF Create, Exclusive, Abort, GenGoto, OwnerTypes, Whole, ConfigNamesWholeKey
    <2>3. QED
      BY <2>1, <2>2
  <1>5. ASSUME NEW g \in Gens, Write(g) PROVE Whole'
    BY <1>5 DEF Write, Abort, GenGoto, OwnerTypes, Whole, ConfigNamesWholeKey
  <1>6. ASSUME NEW g \in Gens, Move(g) PROVE Whole'
    BY <1>6 DEF Move, GenGoto, OwnerTypes, Whole, ConfigNamesWholeKey
  <1>7. QED
    BY <1>1, <1>2, <1>3, <1>4, <1>5, <1>6 DEF Next, GenKey

\* At most one run is between creating the key file and writing it, and who is
\* past that finds its own key there.
THEOREM WholeAlways == Spec => []Whole
  <1>1. Installed => OwnerTypes
    BY DEF Installed, TypeOK
  <1>2. QED
    BY <1>1, InstalledAlways, WholeInit, WholeStep, PTL DEF Spec

\* The key whose address was given to be funded is never replaced, however
\* many runs of --gen-owner-key there are, and wherever they are interrupted.
THEOREM FundedKeyIsKept == Spec => []FundedKeyKept
  <1>1. Whole => FundedKeyKept
    BY DEF Whole, FundedKeyKept
  <1>2. QED
    BY <1>1, WholeAlways, PTL

\* config.sh never names a key file that is missing or empty.
THEOREM ConfigNeverDangles == Spec => []ConfigNamesWholeKey
  <1>1. Whole => ConfigNamesWholeKey
    BY DEF Whole
  <1>2. QED
    BY <1>1, WholeAlways, PTL

=============================================================================
