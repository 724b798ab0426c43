---------------------- MODULE ReleaseActivation_proofs ----------------------
(***************************************************************************)
(* Theorems about ReleaseActivation: type correctness, that an installed   *)
(* release stays as it is, that the active release is whole and read-only, *)
(* and that the service runs reviewed contents.                            *)
(***************************************************************************)
EXTENDS ReleaseActivation, TLAPS

-----------------------------------------------------------------------------
(* Type correctness *)

\* The empty registers have their types.
LEMMA EmptyTypes == NoJob \in Jobs /\ NoAim \in Aims /\ Down \in Services
  <1>1. 0 \in Trees
    BY EditsAssumption DEF Trees
  <1> QED
    BY <1>1 DEF NoJob, NoAim, Down, Jobs, Aims, Services, States

\* The initial states have the types.
LEMMA TypeInit == Init => TypeOK
  <1> SUFFICES ASSUME Init PROVE TypeOK
    OBVIOUS
  <1>1. 0 \in Trees
    BY EditsAssumption DEF Trees
  <1>2. org \in Pins
    BY <1>1 DEF Init, Pins
  <1>3. /\ job \in [Installers -> Jobs] /\ aim \in [Activators -> Aims] /\ svc \in Services
        /\ svc.at = "down"
    BY EmptyTypes DEF Init, Down
  <1> QED
    BY <1>1, <1>2, <1>3 DEF Init, TypeOK, States

\* What people do preserves the types.
LEMMA TypePeople == TypeOK /\ People => TypeOK'
  <1> SUFFICES ASSUME TypeOK, People PROVE TypeOK'
    OBVIOUS
  <1>1. ASSUME job' = Touched, ipc' = ipc, UNCHANGED releases
        PROVE  /\ job' \in [Installers -> Jobs]
               /\ \A i \in Installers : ipc'[i] # "idle" => job'[i].version # None
               /\ \A i \in Installers : ipc'[i] = "seal" => Renamed(i)'
    <2>1. ASSUME NEW i \in Installers
          PROVE  job'[i] \in Jobs /\ job'[i].version = job[i].version
      <3>1. job[i] \in Jobs
        BY DEF TypeOK
      <3>2. job'[i] = IF ipc[i] \in {"digest", "exists", "lib", "rest"}
                      THEN [job[i] EXCEPT !.touched = TRUE]
                      ELSE job[i]
        BY <1>1 DEF Touched
      <3> QED
        BY <3>1, <3>2 DEF Jobs
    <2>2. job' \in [Installers -> Jobs]
      BY <1>1, <2>1 DEF Touched
    <2> QED
      BY <1>1, <2>1, <2>2 DEF TypeOK, Renamed, releases
  <1>2. CASE Edit
    <2>1. edits' \in Trees /\ tree' \in Trees /\ state' \in States
      BY <1>2, EditsAssumption DEF Edit, TypeOK, Trees, States
    <2> QED
      BY <1>1, <1>2, <2>1 DEF Edit, TypeOK, releases, activate
  <1>3. CASE Commit
    BY <1>3 DEF Commit, TypeOK, Renamed, States, releases, install, activate
  <1>4. CASE Checkout
    BY <1>1, <1>4 DEF Checkout, TypeOK, releases, activate
  <1>5. CASE ChangeOrganization
    <2>1. org' \in Pins
      BY <1>5, EditsAssumption DEF ChangeOrganization, TypeOK, Pins, Trees
    <2>2. svc' \in Services /\ svc'.at = svc.at /\ svc'.version = svc.version
      BY <1>5 DEF ChangeOrganization, TypeOK, Services
    <2> QED
      BY <1>5, <2>1, <2>2
      DEF ChangeOrganization, TypeOK, Renamed, checkout, releases, install, activate
  <1> QED
    BY <1>2, <1>3, <1>4, <1>5 DEF People

\* An installer that has not renamed anything, in this step or before, may move on.
LEMMA InstallerMoves ==
  ASSUME TypeOK, NEW i \in Installers,
         NEW at \in {"idle", "digest", "exists", "lib", "rest", "replace"}, NEW j \in Jobs,
         at # "idle" => j.version # None,
         ipc' = [ipc EXCEPT ![i] = at], job' = [job EXCEPT ![i] = j],
         UNCHANGED <<checkout, org, releases, current, activate, svc>>
  PROVE  TypeOK'
  <1>1. /\ ipc' \in [Installers -> {"idle", "digest", "exists", "lib", "rest", "replace", "seal"}]
        /\ job' \in [Installers -> Jobs]
    BY DEF TypeOK
  <1>2. \A k \in Installers : ipc'[k] # "idle" => job'[k].version # None
    BY DEF TypeOK
  <1>3. \A k \in Installers : ipc'[k] = "seal" => Renamed(k)'
    BY DEF TypeOK, Renamed, releases
  <1> QED
    BY <1>1, <1>2, <1>3 DEF TypeOK, checkout, releases, activate

\* An installer's exit is such a move.
LEMMA InstallerExits ==
  ASSUME TypeOK, NEW i \in Installers, ExitInstall(i),
         UNCHANGED <<checkout, org, releases, current, activate, svc>>
  PROVE  TypeOK'
  BY InstallerMoves, EmptyTypes DEF ExitInstall

\* An installer's steps preserve the types.
LEMMA TypeInstall ==
  ASSUME NEW i \in Installers, TypeOK, InstallStep(i)
  PROVE  TypeOK'
  <1>0. /\ job[i] \in Jobs /\ tree \in Trees /\ state \in States
        /\ job = [job EXCEPT ![i] = job[i]]
        /\ ipc[i] # "idle" => job[i].version \in Versions
    BY DEF TypeOK, Jobs
  <1>2. CASE ReadState(i)
    <2>1. PICK v \in Versions :
            job' = [job EXCEPT ![i] = [job[i] EXCEPT !.version = v, !.state = state]]
      BY <1>2 DEF ReadState
    <2>3. /\ [job[i] EXCEPT !.version = v, !.state = state] \in Jobs
          /\ [job[i] EXCEPT !.version = v, !.state = state].version = v
      BY <1>0 DEF Jobs
    <2> HIDE DEF Jobs
    <2> QED
      BY <1>2, <2>1, <2>3, NoneAssumption, InstallerMoves DEF ReadState
  <1>3. CASE ReadDigest(i)
    <2>2. /\ [job[i] EXCEPT !.src = tree] \in Jobs
          /\ [job[i] EXCEPT !.src = tree].version = job[i].version
      BY <1>0 DEF Jobs
    <2>3. job' = [job EXCEPT ![i] = [job[i] EXCEPT !.src = tree]] /\ job[i].version # None
      BY <1>3, <1>0, NoneAssumption DEF ReadDigest
    <2> QED
      BY <1>3, <2>2, <2>3, InstallerMoves DEF ReadDigest
  <1>4. CASE CheckTarget(i)
    <2>1. job[i].version # None
      BY <1>0, <1>4, NoneAssumption DEF CheckTarget
    <2> QED
      BY <1>0, <1>4, <2>1, InstallerMoves, InstallerExits DEF CheckTarget
  <1>5. CASE CopyLibrary(i)
    <2>2. /\ [job[i] EXCEPT !.lib = tree] \in Jobs
          /\ [job[i] EXCEPT !.lib = tree].version = job[i].version
      BY <1>0 DEF Jobs
    <2>3. job' = [job EXCEPT ![i] = [job[i] EXCEPT !.lib = tree]] /\ job[i].version # None
      BY <1>5, <1>0, NoneAssumption DEF CopyLibrary
    <2> QED
      BY <1>5, <2>2, <2>3, InstallerMoves DEF CopyLibrary
  <1>6. CASE CopyRest(i)
    <2>2. /\ [job[i] EXCEPT !.rest = tree] \in Jobs
          /\ [job[i] EXCEPT !.rest = tree].version = job[i].version
      BY <1>0 DEF Jobs
    <2>3. job' = [job EXCEPT ![i] = [job[i] EXCEPT !.rest = tree]] /\ job[i].version # None
      BY <1>6, <1>0, NoneAssumption DEF CopyRest
    <2> QED
      BY <1>6, <2>2, <2>3, InstallerMoves DEF CopyRest
  <1>7. CASE Replace(i)
    <2>1. CASE ~MayReplace(job[i].version)
      BY <1>7, <2>1, InstallerExits DEF Replace, releases
    <2>2. CASE MayReplace(job[i].version)
      <3> DEFINE v == job[i].version
      <3> DEFINE m == [src |-> job[i].src, state |-> job[i].state, lib |-> job[i].lib,
                       rest |-> job[i].rest, touched |-> job[i].touched]
      <3>1. m \in Manifests /\ m # None
        BY <1>0, NoneAssumption DEF Jobs, Manifests
      <3>2. /\ v \in Versions /\ rel[v] = None /\ ~sealed[v]
            /\ rel' = [rel EXCEPT ![v] = m]
            /\ ipc' = [ipc EXCEPT ![i] = "seal"] /\ job' = job
            /\ UNCHANGED <<checkout, org, sealed, extra, current, activate, svc>>
        BY <1>0, <1>7, <2>2 DEF Replace, MayReplace, TypeOK
      <3> HIDE DEF v, m
      <3>3. /\ rel' \in [Versions -> Manifests \cup {None}]
            /\ \A u \in Versions : sealed[u] => rel'[u] # None
        BY <3>1, <3>2 DEF TypeOK
      <3>4. \A k \in Installers : ipc[k] = "seal" => job[k].version # v
        BY <3>2 DEF TypeOK, Renamed
      <3>5. ASSUME NEW k \in Installers, ipc'[k] = "seal"
            PROVE  Renamed(k)'
        <4>0. k # i => ipc[k] = "seal"
          BY <3>2, <3>5 DEF TypeOK
        <4>1. /\ ipc[k] = "seal" => Renamed(k)
              /\ k # i => ipc[k] = "seal"
              /\ job[k].version \in Versions
          <5>1. CASE k = i
            BY <3>2, <5>1 DEF TypeOK, v
          <5>2. CASE k # i
            BY <4>0, <5>2 DEF TypeOK, Jobs
          <5> QED
            BY <5>1, <5>2
        <4>2. rel'[job[k].version] # None /\ ~sealed[job[k].version]
          BY <3>1, <3>2, <3>4, <4>1 DEF TypeOK, Renamed, v
        <4>3. \A h \in Installers :
                h # k /\ ipc'[h] = "seal" => job[h].version # job[k].version
          BY <3>2, <3>4, <4>1 DEF TypeOK, Renamed, v
        <4> QED
          BY <3>2, <4>2, <4>3 DEF Renamed
      <3> QED
        BY <1>0, <1>7, <3>2, <3>3, <3>5 DEF Replace, TypeOK, checkout, activate
    <2> QED
      BY <2>1, <2>2
  <1>8. CASE Seal(i)
    <2> DEFINE v == job[i].version
    <2>1. /\ v \in Versions /\ rel[v] # None
          /\ \A k \in Installers : k # i /\ ipc[k] = "seal" => job[k].version # v
          /\ sealed' = [sealed EXCEPT ![v] = TRUE]
          /\ ipc' = [ipc EXCEPT ![i] = "idle"] /\ job' = [job EXCEPT ![i] = NoJob]
          /\ UNCHANGED <<checkout, org, rel, extra, current, activate, svc>>
      BY <1>0, <1>8 DEF Seal, ExitInstall, TypeOK, Renamed
    <2> HIDE DEF v
    <2>2. /\ sealed' \in [Versions -> BOOLEAN]
          /\ \A u \in Versions : sealed'[u] => rel[u] # None
      BY <2>1 DEF TypeOK
    <2>3. /\ ipc' \in [Installers -> {"idle", "digest", "exists", "lib", "rest",
                                      "replace", "seal"}]
          /\ job' \in [Installers -> Jobs]
          /\ \A k \in Installers : ipc'[k] # "idle" => job'[k].version # None
      BY <2>1, EmptyTypes DEF TypeOK
    <2>4. ASSUME NEW k \in Installers, ipc'[k] = "seal"
          PROVE  Renamed(k)'
      <3>1. k # i /\ ipc[k] = "seal" /\ job'[k] = job[k] /\ Renamed(k)
        BY <2>1, <2>4 DEF TypeOK
      <3>2. ~sealed'[job[k].version]
        BY <2>1, <3>1 DEF Renamed, TypeOK, Jobs
      <3> QED
        BY <2>1, <3>1, <3>2 DEF Renamed, TypeOK
    <2> QED
      BY <2>1, <2>2, <2>3, <2>4 DEF TypeOK, checkout, activate
  <1>9. CASE FailInstall(i)
    BY <1>9, InstallerExits DEF FailInstall
  <1> QED
    BY <1>2, <1>3, <1>4, <1>5, <1>6, <1>7, <1>8, <1>9 DEF InstallStep

\* An activator's steps preserve the types.
LEMMA TypeActivate ==
  ASSUME NEW a \in Activators, TypeOK, ActivateStep(a)
  PROVE  TypeOK'
  <1>0. aim[a] \in Aims /\ (apc[a] # "idle" => aim[a].version \in Versions)
    BY DEF TypeOK, Aims
  <1>1. /\ UNCHANGED <<checkout, org, rel, sealed, install, svc>>
        /\ extra' \in [Versions -> BOOLEAN]
        /\ current' \in Versions \cup {None}
    <2>1. CASE ImportCompiler(a)
      BY <1>0, <2>1 DEF ImportCompiler, Import, TypeOK
    <2>2. CASE Switch(a)
      BY <1>0, <2>2 DEF Switch, TypeOK, releases
    <2>3. CASE VerifyRelease(a) \/ CheckOrganization(a) \/ FailActivate(a)
      BY <2>3 DEF VerifyRelease, CheckOrganization, FailActivate, TypeOK, releases
    <2> QED
      BY <2>1, <2>2, <2>3 DEF ActivateStep
  <1>2. ASSUME NEW at \in {"idle", "organization", "import", "switch"}, NEW x \in Aims,
               apc' = [apc EXCEPT ![a] = at], aim' = [aim EXCEPT ![a] = x],
               at # "idle" => x.version # None
        PROVE  TypeOK'
    <2>1. /\ apc' \in [Activators -> {"idle", "organization", "import", "switch"}]
          /\ aim' \in [Activators -> Aims]
          /\ \A b \in Activators : apc'[b] # "idle" => aim'[b].version # None
      BY <1>2 DEF TypeOK
    <2> QED
      BY <1>1, <2>1 DEF TypeOK, Renamed, checkout, install
  <1>3. ASSUME NEW ok \in BOOLEAN, NEW next \in {"idle", "import", "switch"},
               Proceed(a, ok, next), apc[a] # "idle"
        PROVE  TypeOK'
    <2>1. CASE ok
      <3>1. /\ apc' = [apc EXCEPT ![a] = next]
            /\ aim' = [aim EXCEPT ![a] = aim[a]]
        BY <1>3, <2>1 DEF Proceed
      <3>2. aim[a].version # None
        BY <1>0, <1>3, NoneAssumption
      <3> QED
        BY <1>0, <1>2, <3>1, <3>2
    <2>2. CASE ~ok
      <3>1. /\ apc' = [apc EXCEPT ![a] = "idle"]
            /\ aim' = [aim EXCEPT ![a] = NoAim]
        BY <1>3, <2>2 DEF Proceed
      <3> QED
        BY <1>2, <3>1, EmptyTypes
    <2> QED
      BY <2>1, <2>2
  <1>4. CASE VerifyRelease(a)
    <2>1. PICK v \in Versions, allow \in BOOLEAN :
            aim' = [aim EXCEPT ![a] = [version |-> v, allow |-> allow]]
      BY <1>4 DEF VerifyRelease
    <2>2. /\ [version |-> v, allow |-> allow] \in Aims
          /\ [version |-> v, allow |-> allow].version # None
      BY NoneAssumption DEF Aims
    <2> QED
      BY <1>2, <1>4, <2>1, <2>2 DEF VerifyRelease
  <1>5. CASE CheckOrganization(a)
    <2>1. Pinned(aim[a].version, org) \in BOOLEAN
      BY DEF Pinned
    <2> QED
      BY <1>3, <1>5, <2>1 DEF CheckOrganization
  <1>6. CASE ImportCompiler(a)
    <2>1. (aim[a].allow \/ rel[aim[a].version].state = "clean") \in BOOLEAN
      OBVIOUS
    <2> QED
      BY <1>3, <1>6, <2>1 DEF ImportCompiler
  <1>7. CASE Switch(a) \/ FailActivate(a)
    BY <1>3, <1>7 DEF Switch, FailActivate
  <1> QED
    BY <1>4, <1>5, <1>6, <1>7 DEF ActivateStep

\* The service's steps preserve the types.
LEMMA TypeService == TypeOK /\ ServiceStep => TypeOK'
  <1> SUFFICES ASSUME TypeOK, ServiceStep PROVE TypeOK'
    OBVIOUS
  <1>1. svc' \in Services /\ (svc'.at # "down" => svc'.version # None)
    <2>1. CASE StartService
      BY <2>1 DEF StartService, TypeOK, Services
    <2>2. CASE ReleaseIdentity
      BY <2>2, EmptyTypes DEF ReleaseIdentity, TypeOK, Services, Down
    <2>3. CASE LoadPolicy
      BY <2>3 DEF LoadPolicy, TypeOK, Services
    <2>4. CASE StopService
      BY <2>4, EmptyTypes DEF StopService, Down
    <2> QED
      BY <2>1, <2>2, <2>3, <2>4 DEF ServiceStep
  <1>2. UNCHANGED <<checkout, org, rel, sealed, current, install, activate>>
    BY DEF ServiceStep, StartService, ReleaseIdentity, LoadPolicy, StopService, releases
  <1>3. extra' \in [Versions -> BOOLEAN]
    BY DEF ServiceStep, StartService, Import, ReleaseIdentity, LoadPolicy, StopService,
           releases, TypeOK
  <1> QED
    BY <1>1, <1>2, <1>3 DEF TypeOK, Renamed, checkout, install, activate

\* Every step preserves the types.
LEMMA TypeStep == TypeOK /\ [Next]_vars => TypeOK'
  <1> SUFFICES ASSUME TypeOK, [Next]_vars PROVE TypeOK'
    OBVIOUS
  <1>1. CASE UNCHANGED vars
    BY <1>1 DEF vars, TypeOK, Renamed, checkout, releases, install, activate
  <1> QED
    BY <1>1, TypePeople, TypeInstall, TypeActivate, TypeService DEF Next

\* Installing, activating and starting keep the types, whoever is interrupted where; in
\* particular a release is finished by one installer at most.
THEOREM TypeCorrectness == Spec => []TypeOK
  BY TypeInit, TypeStep, PTL DEF Spec

-----------------------------------------------------------------------------
(* Releases stay *)

\* A step leaves what is installed as it is.
LEMMA StepKeepsReleases ==
  ASSUME TypeOK, [Next]_vars, NEW v \in Versions
  PROVE  /\ rel[v] # None => rel'[v] = rel[v]
         /\ sealed[v] => sealed'[v]
  <1>1. CASE UNCHANGED vars
    BY <1>1 DEF vars, releases
  <1>2. CASE People
    BY <1>2 DEF People, Edit, Commit, Checkout, ChangeOrganization, releases
  <1>3. ASSUME NEW i \in Installers, InstallStep(i)
        PROVE  /\ rel[v] # None => rel'[v] = rel[v]
               /\ sealed[v] => sealed'[v]
    <2>1. CASE Replace(i)
      BY <2>1 DEF Replace, MayReplace, TypeOK
    <2>2. CASE Seal(i)
      BY <2>2 DEF Seal, TypeOK
    <2>3. CASE UNCHANGED releases
      BY <2>3 DEF releases
    <2> QED
      BY <1>3, <2>1, <2>2, <2>3
      DEF InstallStep, ReadState, ReadDigest, CheckTarget, CopyLibrary, CopyRest, FailInstall
  <1>4. ASSUME NEW a \in Activators, ActivateStep(a)
        PROVE  UNCHANGED <<rel, sealed>>
    BY <1>4 DEF ActivateStep, VerifyRelease, CheckOrganization, ImportCompiler, Switch,
                FailActivate, releases
  <1>5. CASE ServiceStep
    BY <1>5 DEF ServiceStep, StartService, ReleaseIdentity, LoadPolicy, StopService, releases
  <1> QED
    BY <1>1, <1>2, <1>3, <1>4, <1>5 DEF Next

\* No installed release is replaced or made mutable, however many installers of one version
\* pass the check of the target together.
THEOREM ReleasesStay == Spec => InstalledStays
  <1>1. TypeOK /\ [Next]_vars =>
          [\A v \in Versions : /\ rel[v] # None => rel'[v] = rel[v]
                               /\ sealed[v] => sealed'[v]]_vars
    BY StepKeepsReleases
  <1> QED
    BY <1>1, TypeCorrectness, PTL DEF Spec, InstalledStays

-----------------------------------------------------------------------------
(* What is active, and what runs *)

\* What an activator has accepted, what is current and what the service runs is read-only.
Chosen ==
    /\ \A a \in Activators : apc[a] # "idle" => sealed[aim[a].version]
    /\ current # None => sealed[current]
    /\ svc.at # "down" => sealed[svc.version]

\* Only what is read-only was run from.
Listed == \A v \in Versions : extra[v] => sealed[v]

\* What installer i has read and copied so far is of one checkout, which is committed if it
\* was clean.
Copied(i) ==
    ~job[i].touched =>
        /\ ipc[i] \in {"digest", "exists", "lib", "rest"} /\ job[i].state = "clean" =>
              tree \in committed
        /\ ipc[i] \in {"exists", "lib", "rest"} => job[i].src = tree
        /\ ipc[i] \in {"rest", "replace", "seal"} => job[i].lib = job[i].src
        /\ ipc[i] \in {"replace", "seal"} => job[i].rest = job[i].src
        /\ ipc[i] \in {"replace", "seal"} /\ job[i].state = "clean" =>
              job[i].src \in committed

\* So is an installed release.
Whole(v) ==
    rel[v] # None /\ ~rel[v].touched =>
        /\ rel[v].lib = rel[v].src
        /\ rel[v].rest = rel[v].src
        /\ rel[v].state = "clean" => rel[v].src \in committed

\* The service past _release_identity runs a qualified release, which the organization
\* pinned when it was read.
Identified ==
    /\ svc.at \in {"policy", "up"} => Qualified(svc.version)
    /\ svc.at = "policy" /\ ~svc.changed => Pinned(svc.version, org)
    /\ svc.at = "up" /\ ~svc.changed => Pinned(svc.version, svc.pin)

ReleaseInv ==
    /\ TypeOK
    /\ Chosen
    /\ Listed
    /\ state = "clean" => tree \in committed
    /\ \A i \in Installers : Copied(i)
    /\ \A v \in Versions : Whole(v)
    /\ Identified

\* The invariant holds initially.
LEMMA InvInit == Init => ReleaseInv
  <1> SUFFICES ASSUME Init PROVE ReleaseInv
    OBVIOUS
  <1>1. Chosen /\ Listed /\ Identified
    BY DEF Init, Chosen, Listed, Identified, Down
  <1>2. \A i \in Installers : Copied(i)
    BY DEF Init, Copied
  <1>3. \A v \in Versions : Whole(v)
    BY DEF Init, Whole
  <1>4. tree \in committed
    BY DEF Init
  <1> QED
    BY <1>1, <1>2, <1>3, <1>4, TypeInit DEF ReleaseInv

\* What is chosen stays read-only, and so does what was run from.
LEMMA ChosenStep == ReleaseInv /\ [Next]_vars => Chosen' /\ Listed'
  <1> SUFFICES ASSUME ReleaseInv, [Next]_vars PROVE Chosen' /\ Listed'
    OBVIOUS
  <1>1. TypeOK /\ Chosen /\ Listed
    BY DEF ReleaseInv
  <1>2. \A v \in Versions : sealed[v] => sealed'[v]
    BY <1>1, StepKeepsReleases
  <1>3. ASSUME UNCHANGED <<apc, aim, current, svc, extra>>
        PROVE  Chosen' /\ Listed'
    <2>1. \A a \in Activators : apc[a] # "idle" => aim[a].version \in Versions
      BY <1>1 DEF TypeOK, Aims
    <2>2. svc.at # "down" => svc.version \in Versions
      BY <1>1 DEF TypeOK, Services
    <2>3. current # None => current \in Versions
      BY <1>1 DEF TypeOK
    <2> QED
      BY <1>1, <1>2, <1>3, <2>1, <2>2, <2>3 DEF Chosen, Listed
  <1>4. CASE UNCHANGED vars
    BY <1>3, <1>4 DEF vars, releases, activate
  <1>5. CASE People
    <2>1. CASE ChangeOrganization
      <3>1. svc'.at = svc.at /\ svc'.version = svc.version
        BY <1>1, <2>1 DEF ChangeOrganization, TypeOK, Services
      <3> QED
        BY <1>1, <2>1, <3>1 DEF ChangeOrganization, Chosen, Listed, releases, activate
    <2> QED
      BY <1>3, <1>5, <2>1 DEF People, Edit, Commit, Checkout, releases, activate
  <1>6. ASSUME NEW i \in Installers, InstallStep(i)
        PROVE  Chosen' /\ Listed'
    BY <1>3, <1>6 DEF InstallStep, ReadState, ReadDigest, CheckTarget, CopyLibrary, CopyRest,
                      Replace, Seal, FailInstall, releases, activate
  <1>7. ASSUME NEW a \in Activators, ActivateStep(a)
        PROVE  Chosen' /\ Listed'
    <2>1. CASE VerifyRelease(a)
      <3>1. PICK v \in Versions, allow \in BOOLEAN :
              sealed[v] /\ aim' = [aim EXCEPT ![a] = [version |-> v, allow |-> allow]]
        BY <2>1 DEF VerifyRelease, Accepted, Verifies
      <3>2. \A b \in Activators : apc'[b] # "idle" => sealed[aim'[b].version]
        BY <1>1, <2>1, <3>1 DEF VerifyRelease, TypeOK, Chosen
      <3> QED
        BY <1>1, <2>1, <3>2 DEF VerifyRelease, Chosen, Listed, releases
    <2>2. ASSUME NEW ok \in BOOLEAN, NEW next, Proceed(a, ok, next), apc[a] # "idle"
          PROVE  \A b \in Activators : apc'[b] # "idle" => sealed[aim'[b].version]
      BY <1>1, <2>2 DEF Proceed, TypeOK, Chosen
    <2>3. CASE CheckOrganization(a)
      <3>1. Pinned(aim[a].version, org) \in BOOLEAN
        BY DEF Pinned
      <3>2. \A b \in Activators : apc'[b] # "idle" => sealed[aim'[b].version]
        BY <2>2, <2>3, <3>1 DEF CheckOrganization
      <3> QED
        BY <1>1, <2>3, <3>2 DEF CheckOrganization, Chosen, Listed, releases
    <2>4. CASE ImportCompiler(a)
      <3>1. (aim[a].allow \/ rel[aim[a].version].state = "clean") \in BOOLEAN
        OBVIOUS
      <3>2. \A b \in Activators : apc'[b] # "idle" => sealed[aim'[b].version]
        BY <2>2, <2>4, <3>1 DEF ImportCompiler
      <3>3. Listed'
        BY <1>1, <2>4 DEF ImportCompiler, Import, Listed, Chosen, TypeOK
      <3> QED
        BY <1>1, <2>4, <3>2, <3>3 DEF ImportCompiler, Chosen
    <2>5. CASE Switch(a)
      <3>1. \A b \in Activators : apc'[b] # "idle" => sealed[aim'[b].version]
        BY <2>2, <2>5 DEF Switch
      <3>2. sealed[current']
        BY <1>1, <2>5 DEF Switch, Chosen
      <3> QED
        BY <1>1, <2>5, <3>1, <3>2 DEF Switch, Chosen, Listed, releases
    <2>6. CASE FailActivate(a)
      <3>1. \A b \in Activators : apc'[b] # "idle" => sealed[aim'[b].version]
        BY <2>2, <2>6 DEF FailActivate
      <3> QED
        BY <1>1, <2>6, <3>1 DEF FailActivate, Chosen, Listed, releases
    <2> QED
      BY <1>7, <2>1, <2>3, <2>4, <2>5, <2>6 DEF ActivateStep
  <1>8. CASE ServiceStep
    <2>1. svc'.at # "down" => sealed[svc'.version]
      <3>1. CASE StartService
        BY <1>1, <3>1 DEF StartService, Chosen, TypeOK, Services
      <3>2. CASE ReleaseIdentity
        BY <1>1, <3>2 DEF ReleaseIdentity, Chosen, TypeOK, Services, Down
      <3>3. CASE LoadPolicy
        BY <1>1, <3>3 DEF LoadPolicy, Chosen, TypeOK, Services
      <3>4. CASE StopService
        BY <3>4 DEF StopService, Down
      <3> QED
        BY <1>8, <3>1, <3>2, <3>3, <3>4 DEF ServiceStep
    <2>2. UNCHANGED <<sealed, current, activate>>
      BY <1>8 DEF ServiceStep, StartService, ReleaseIdentity, LoadPolicy, StopService, releases
    <2>3. Listed'
      <3>1. CASE StartService
        BY <1>1, <3>1 DEF StartService, Import, Listed, Chosen, TypeOK
      <3>2. CASE UNCHANGED releases
        BY <1>1, <3>2 DEF Listed, releases
      <3> QED
        BY <1>8, <3>1, <3>2 DEF ServiceStep, ReleaseIdentity, LoadPolicy, StopService
    <2> QED
      BY <1>1, <2>1, <2>2, <2>3 DEF Chosen, activate
  <1> QED
    BY <1>4, <1>5, <1>6, <1>7, <1>8 DEF Next

\* A clean checkout is committed, and stays so.
LEMMA CleanStep ==
  ReleaseInv /\ [Next]_vars => /\ state' = "clean" => tree' \in committed'
                              /\ committed \subseteq committed'
  <1> SUFFICES ASSUME ReleaseInv, [Next]_vars
               PROVE  /\ state' = "clean" => tree' \in committed'
                      /\ committed \subseteq committed'
    OBVIOUS
  <1>1. CASE UNCHANGED checkout
    BY <1>1 DEF ReleaseInv, checkout
  <1>2. CASE Edit \/ Commit \/ Checkout
    BY <1>2 DEF ReleaseInv, Edit, Commit, Checkout
  <1>3. CASE ChangeOrganization \/ ServiceStep \/ UNCHANGED vars
    BY <1>1, <1>3 DEF ChangeOrganization, ServiceStep, StartService, ReleaseIdentity,
                      LoadPolicy, StopService, vars
  <1>4. ASSUME NEW i \in Installers, InstallStep(i)
        PROVE  UNCHANGED checkout
    BY <1>4 DEF InstallStep, ReadState, ReadDigest, CheckTarget, CopyLibrary, CopyRest,
                Replace, Seal, FailInstall
  <1>5. ASSUME NEW a \in Activators, ActivateStep(a)
        PROVE  UNCHANGED checkout
    BY <1>5 DEF ActivateStep, VerifyRelease, CheckOrganization, ImportCompiler, Switch,
                FailActivate
  <1> QED
    BY <1>1, <1>2, <1>3, <1>4, <1>5 DEF Next, People

\* An installer's own steps keep what it has copied of one checkout.
LEMMA CopiedOwn ==
  ASSUME ReleaseInv, NEW i \in Installers, InstallStep(i)
  PROVE  Copied(i)'
  <1>1. /\ job[i] \in Jobs /\ ipc \in [Installers -> {"idle", "digest", "exists", "lib",
                                               "rest", "replace", "seal"}]
        /\ job \in [Installers -> Jobs] /\ Copied(i)
        /\ state = "clean" => tree \in committed
    BY DEF ReleaseInv, TypeOK
  <1>2. ASSUME ExitInstall(i)
        PROVE  Copied(i)'
    <2>1. ipc'[i] = "idle"
      BY <1>1, <1>2 DEF ExitInstall
    <2> QED
      BY <2>1 DEF Copied
  <1>3. CASE ReadState(i)
    <2>1. PICK v \in Versions :
            job' = [job EXCEPT ![i] = [job[i] EXCEPT !.version = v, !.state = state]]
      BY <1>3 DEF ReadState
    <2>2. ipc'[i] = "digest" /\ job'[i].state = state /\ UNCHANGED <<tree, committed>>
      BY <1>1, <1>3, <2>1 DEF ReadState, Jobs, checkout
    <2> QED
      BY <1>1, <2>2 DEF Copied
  <1>4. CASE ReadDigest(i)
    <2>1. /\ ipc[i] = "digest" /\ ipc'[i] = "exists" /\ job'[i].src = tree
          /\ job'[i].state = job[i].state /\ job'[i].touched = job[i].touched
          /\ UNCHANGED <<tree, committed>>
      BY <1>1, <1>4 DEF ReadDigest, Jobs, checkout
    <2> QED
      BY <1>1, <2>1 DEF Copied
  <1>5. CASE CheckTarget(i)
    <2>1. \/ ExitInstall(i)
          \/ /\ ipc[i] = "exists" /\ ipc'[i] = "lib" /\ job' = job
             /\ UNCHANGED <<tree, committed>>
      BY <1>1, <1>5 DEF CheckTarget, checkout
    <2> QED
      BY <1>1, <1>2, <2>1 DEF Copied
  <1>6. CASE CopyLibrary(i)
    <2>1. /\ ipc[i] = "lib" /\ ipc'[i] = "rest" /\ job'[i].lib = tree
          /\ job'[i].state = job[i].state /\ job'[i].touched = job[i].touched
          /\ job'[i].src = job[i].src
          /\ UNCHANGED <<tree, committed>>
      BY <1>1, <1>6 DEF CopyLibrary, Jobs, checkout
    <2> QED
      BY <1>1, <2>1 DEF Copied
  <1>7. CASE CopyRest(i)
    <2>1. /\ ipc[i] = "rest" /\ ipc'[i] = "replace" /\ job'[i].rest = tree
          /\ job'[i].state = job[i].state /\ job'[i].touched = job[i].touched
          /\ job'[i].src = job[i].src /\ job'[i].lib = job[i].lib
          /\ UNCHANGED <<tree, committed>>
      BY <1>1, <1>7 DEF CopyRest, Jobs, checkout
    <2> QED
      BY <1>1, <2>1 DEF Copied
  <1>8. CASE Replace(i)
    <2>1. \/ ExitInstall(i)
          \/ /\ ipc[i] = "replace" /\ ipc'[i] = "seal" /\ job' = job
             /\ UNCHANGED <<tree, committed>>
      BY <1>1, <1>8 DEF Replace, checkout
    <2> QED
      BY <1>1, <1>2, <2>1 DEF Copied
  <1>9. CASE Seal(i) \/ FailInstall(i)
    BY <1>2, <1>9 DEF Seal, FailInstall
  <1> QED
    BY <1>3, <1>4, <1>5, <1>6, <1>7, <1>8, <1>9 DEF InstallStep

\* Steps of others do too, because a change of the checkout marks the installation.
LEMMA CopiedStep ==
  ASSUME ReleaseInv, [Next]_vars, NEW i \in Installers
  PROVE  Copied(i)'
  <1>0. /\ job[i] \in Jobs /\ Copied(i) /\ committed \subseteq committed'
        /\ ipc[i] \in {"idle", "digest", "exists", "lib", "rest", "replace", "seal"}
    BY CleanStep DEF ReleaseInv, TypeOK
  <1>1. ASSUME job'[i] = job[i], ipc'[i] = ipc[i], tree' = tree
        PROVE  Copied(i)'
    BY <1>0, <1>1 DEF Copied
  <1>2. CASE Edit \/ Checkout
    <2>1. /\ ipc' = ipc
          /\ job'[i] = IF ipc[i] \in {"digest", "exists", "lib", "rest"}
                       THEN [job[i] EXCEPT !.touched = TRUE]
                       ELSE job[i]
      BY <1>2 DEF Edit, Checkout, Touched
    <2>2. CASE ipc[i] \in {"digest", "exists", "lib", "rest"}
      <3>1. job'[i].touched = TRUE
        BY <1>0, <2>1, <2>2 DEF Jobs
      <3> QED
        BY <3>1 DEF Copied
    <2>3. CASE ipc[i] \in {"idle", "replace", "seal"}
      <3>1. job'[i] = job[i]
        BY <2>1, <2>3
      <3> QED
        BY <1>0, <2>1, <2>3, <3>1 DEF Copied
    <2> QED
      BY <1>0, <2>2, <2>3
  <1>3. CASE Commit \/ ChangeOrganization \/ ServiceStep \/ UNCHANGED vars
    BY <1>1, <1>3 DEF Commit, ChangeOrganization, ServiceStep, StartService, ReleaseIdentity,
                      LoadPolicy, StopService, vars, checkout, install
  <1>4. ASSUME NEW k \in Installers, InstallStep(k)
        PROVE  Copied(i)'
    <2>1. CASE k = i
      BY <1>4, <2>1, CopiedOwn
    <2>2. CASE k # i
      <3>1. job'[i] = job[i] /\ ipc'[i] = ipc[i]
        <4>1. ipc \in [Installers -> {"idle", "digest", "exists", "lib", "rest", "replace",
                                      "seal"}] /\ job \in [Installers -> Jobs]
          BY DEF ReleaseInv, TypeOK
        <4> QED
          BY <1>4, <2>2, <4>1 DEF InstallStep, ReadState, ReadDigest, CheckTarget,
             CopyLibrary, CopyRest, Replace, Seal, FailInstall, ExitInstall
      <3>2. tree' = tree
        BY <1>4 DEF InstallStep, ReadState, ReadDigest, CheckTarget, CopyLibrary, CopyRest,
                    Replace, Seal, FailInstall, checkout
      <3> QED
        BY <1>1, <3>1, <3>2
    <2> QED
      BY <2>1, <2>2
  <1>5. ASSUME NEW a \in Activators, ActivateStep(a)
        PROVE  Copied(i)'
    BY <1>1, <1>5 DEF ActivateStep, VerifyRelease, CheckOrganization, ImportCompiler, Switch,
                      FailActivate, checkout, install
  <1> QED
    BY <1>2, <1>3, <1>4, <1>5 DEF Next, People

\* A release is as its installer copied it.
LEMMA WholeStep ==
  ASSUME ReleaseInv, [Next]_vars, NEW v \in Versions
  PROVE  Whole(v)'
  <1>0. Whole(v) /\ committed \subseteq committed' /\ TypeOK
    BY CleanStep DEF ReleaseInv
  <1>1. CASE rel'[v] = rel[v]
    BY <1>0, <1>1 DEF Whole
  <1>2. CASE rel'[v] # rel[v]
    <2>1. \E i \in Installers : Replace(i)
      <3>1. CASE People \/ ServiceStep \/ UNCHANGED vars
        BY <1>2, <3>1 DEF People, Edit, Commit, Checkout, ChangeOrganization, ServiceStep,
           StartService, ReleaseIdentity, LoadPolicy, StopService, vars, releases
      <3>2. ASSUME NEW a \in Activators, ActivateStep(a)
            PROVE  rel' = rel
        BY <3>2 DEF ActivateStep, VerifyRelease, CheckOrganization, ImportCompiler, Switch,
           FailActivate, releases
      <3>3. ASSUME NEW i \in Installers, InstallStep(i), ~Replace(i)
            PROVE  rel' = rel
        BY <3>3 DEF InstallStep, ReadState, ReadDigest, CheckTarget, CopyLibrary, CopyRest,
           Seal, FailInstall, releases
      <3> QED
        BY <1>2, <3>1, <3>2, <3>3 DEF Next
    <2>2. PICK i \in Installers : Replace(i)
      BY <2>1
    <2>3. /\ ipc[i] = "replace" /\ Copied(i) /\ job[i] \in Jobs
          /\ rel'[v] = [src |-> job[i].src, state |-> job[i].state, lib |-> job[i].lib,
                        rest |-> job[i].rest, touched |-> job[i].touched]
      BY <1>0, <1>2, <2>2 DEF Replace, ReleaseInv, TypeOK
    <2> QED
      BY <1>0, <2>3 DEF Whole, Copied
  <1> QED
    BY <1>1, <1>2

\* What the service has found out stays true: releases stay, and a change of the
\* organization between its reads is marked.
LEMMA IdentifiedStep == ReleaseInv /\ [Next]_vars => Identified'
  <1> SUFFICES ASSUME ReleaseInv, [Next]_vars PROVE Identified'
    OBVIOUS
  <1>0. TypeOK /\ Identified /\ Chosen
    BY DEF ReleaseInv
  <1>1. svc.at # "down" => svc.version \in Versions /\ rel'[svc.version] = rel[svc.version]
    <2>1. svc.at # "down" => svc.version \in Versions /\ rel[svc.version] # None
      BY <1>0 DEF TypeOK, Services, Chosen
    <2> QED
      BY <1>0, <2>1, StepKeepsReleases
  <1>2. ASSUME UNCHANGED <<svc, org>>
        PROVE  Identified'
    BY <1>0, <1>1, <1>2 DEF Identified, Qualified, Pinned
  <1>3. CASE ChangeOrganization
    <2>1. CASE svc.at = "policy"
      <3>1. svc'.at = "policy" /\ svc'.changed = TRUE /\ svc'.version = svc.version
        BY <1>0, <1>3, <2>1 DEF ChangeOrganization, TypeOK, Services
      <3> QED
        BY <1>0, <1>1, <2>1, <3>1 DEF Identified, Qualified
    <2>2. CASE svc.at # "policy"
      <3>1. svc' = svc
        BY <1>3, <2>2 DEF ChangeOrganization
      <3> QED
        BY <1>0, <1>1, <2>2, <3>1 DEF Identified, Qualified, Pinned
    <2> QED
      BY <2>1, <2>2
  <1>4. CASE StartService
    <2>1. svc'.at = "identity"
      BY <1>0, <1>4 DEF StartService, TypeOK, Services
    <2> QED
      BY <2>1 DEF Identified
  <1>5. CASE ReleaseIdentity
    <2>1. CASE Pinned(svc.version, org) /\ Qualified(svc.version)
      <3>1. /\ svc'.at = "policy" /\ svc'.version = svc.version
            /\ svc.at # "down" /\ org' = org
        BY <1>0, <1>5, <2>1 DEF ReleaseIdentity, TypeOK, Services
      <3> QED
        BY <1>1, <2>1, <3>1 DEF Identified, Qualified, Pinned
    <2>2. CASE ~(Pinned(svc.version, org) /\ Qualified(svc.version))
      <3>1. svc'.at = "down"
        BY <1>5, <2>2 DEF ReleaseIdentity, Down
      <3> QED
        BY <3>1 DEF Identified
    <2> QED
      BY <2>1, <2>2
  <1>6. CASE LoadPolicy
    <2>1. /\ svc.at = "policy" /\ svc'.at = "up" /\ svc'.version = svc.version
          /\ svc'.pin = org /\ svc'.changed = svc.changed
      BY <1>0, <1>6 DEF LoadPolicy, TypeOK, Services
    <2> QED
      BY <1>0, <1>1, <2>1 DEF Identified, Qualified, Pinned
  <1>7. CASE StopService
    BY <1>7 DEF StopService, Down, Identified
  <1>8. CASE Edit \/ Commit \/ Checkout \/ UNCHANGED vars
    BY <1>2, <1>8 DEF Edit, Commit, Checkout, vars
  <1>9. ASSUME NEW i \in Installers, InstallStep(i)
        PROVE  Identified'
    BY <1>2, <1>9 DEF InstallStep, ReadState, ReadDigest, CheckTarget, CopyLibrary, CopyRest,
                      Replace, Seal, FailInstall
  <1>10. ASSUME NEW a \in Activators, ActivateStep(a)
         PROVE  Identified'
    BY <1>2, <1>10 DEF ActivateStep, VerifyRelease, CheckOrganization, ImportCompiler, Switch,
                       FailActivate
  <1> QED
    BY <1>3, <1>4, <1>5, <1>6, <1>7, <1>8, <1>9, <1>10 DEF Next, People, ServiceStep

\* The invariant is inductive.
LEMMA ReleaseInvariant == Spec => []ReleaseInv
  <1>1. ReleaseInv /\ [Next]_vars => ReleaseInv'
    <2> SUFFICES ASSUME ReleaseInv, [Next]_vars PROVE ReleaseInv'
      OBVIOUS
    <2>1. TypeOK'
      BY TypeStep DEF ReleaseInv
    <2>2. \A i \in Installers : Copied(i)'
      BY CopiedStep
    <2>3. \A v \in Versions : Whole(v)'
      BY WholeStep
    <2>4. state' = "clean" => tree' \in committed'
      BY CleanStep
    <2> QED
      BY <2>1, <2>2, <2>3, <2>4, ChosenStep, IdentifiedStep DEF ReleaseInv
  <1> QED
    BY <1>1, InvInit, PTL DEF Spec

\* The release that "current" names and the one the service runs from are whole and
\* read-only, whoever activates, with whatever privileges, and whatever was interrupted.
THEOREM ActiveReleaseIsWhole == Spec => []ActiveIsWhole
  <1>1. ReleaseInv => ActiveIsWhole
    BY DEF ReleaseInv, Chosen, Listed, TypeOK, ActiveIsWhole
  <1> QED
    BY <1>1, ReleaseInvariant, PTL

\* A service that is up runs the committed contents that its policy pins, but for a checkout
\* that changed during the installation and an organization that changed while it was read.
THEOREM ServiceRunsReviewed == Spec => []RunsReviewed
  <1>1. ReleaseInv => RunsReviewed
    <2> SUFFICES ASSUME ReleaseInv, svc.at = "up"
                 PROVE  /\ ~rel[svc.version].touched =>
                              /\ rel[svc.version].src \in committed
                              /\ rel[svc.version].lib = rel[svc.version].src
                              /\ rel[svc.version].rest = rel[svc.version].src
                        /\ ~svc.changed => Pinned(svc.version, svc.pin)
      BY DEF RunsReviewed
    <2>1. svc.version \in Versions /\ rel[svc.version] # None /\ Whole(svc.version)
      BY DEF ReleaseInv, TypeOK, Services, Chosen
    <2>2. Qualified(svc.version) /\ (~svc.changed => Pinned(svc.version, svc.pin))
      BY DEF ReleaseInv, Identified
    <2> QED
      BY <2>1, <2>2 DEF Whole, Qualified
  <1> QED
    BY <1>1, ReleaseInvariant, PTL
=============================================================================
