-------------------------- MODULE ReleaseActivation --------------------------
(***************************************************************************)
(* Installing a control release (bin/sjg-install), activating it           *)
(* (bin/sjg-activate) and starting the service from it (service.py).       *)
(*                                                                         *)
(* An installer reads the state and the digest of the checkout, copies it  *)
(* in two parts (the library, then everything else) to a staging directory *)
(* of its own, renames that to releases/<version> and makes its            *)
(* directories read-only.  An activator verifies a release, compares it    *)
(* with organization.yaml, imports the release's own policy compiler and   *)
(* switches the link "current".  The service resolves "current" when it is *)
(* started and reads organization.yaml twice.  People edit the checkout    *)
(* and the organization at any time, and any program may be lost or refuse *)
(* at any step; what it leaves in its own staging directory or temporary   *)
(* link is seen by nobody.                                                 *)
(*                                                                         *)
(* The contents of the checkout are a number, which also stands for their  *)
(* digest.  The manifest lists the files as they were copied, so only      *)
(* files that came later make a release differ from it: the bytecode that  *)
(* the interpreter writes beside what it imports from the release, where   *)
(* it may.  As root it may write into read-only directories, unless the    *)
(* service manager mounts them read-only.                                  *)
(***************************************************************************)
EXTENDS Naturals

CONSTANTS
    Installers, Activators,
    Versions,
    None,       \* no release, no version
    MaxEdits    \* bound on the edits of the checkout

Trees     == 0..MaxEdits
States    == {"clean", "dirty"}
Pins      == [version : Versions, src : Trees]
Manifests == [src : Trees, state : States, lib : Trees, rest : Trees, touched : BOOLEAN]

ASSUME NoneAssumption == None \notin Versions \cup Manifests
ASSUME EditsAssumption == MaxEdits \in Nat

VARIABLES
    tree,      \* the contents of the checkout
    edits,     \* how many different contents there were
    state,     \* "dirty" if git status reports anything
    committed, \* the contents that were ever committed (history)
    org,       \* organization.yaml: the controlRelease it pins
    rel,       \* rel[v]: releases/v, its files and MANIFEST.json
    sealed,    \* sealed[v]: its directories are all read-only
    extra,     \* extra[v]: it has files that the manifest does not list
    current,   \* what the link "current" names
    ipc, job,  \* where installer i is, and what it has read and copied
    apc, aim,  \* where activator a is, and its arguments
    svc        \* the service

checkout == <<tree, edits, state, committed>>
releases == <<rel, sealed, extra>>
install  == <<ipc, job>>
activate == <<apc, aim>>
vars == <<checkout, org, releases, current, install, activate, svc>>

Jobs     == [version : Versions \cup {None}, state : States, src : Trees, lib : Trees,
             rest : Trees, touched : BOOLEAN]
Aims     == [version : Versions \cup {None}, allow : BOOLEAN]
Services == [at : {"down", "identity", "policy", "up"}, version : Versions \cup {None},
             pin : Pins \cup {None}, changed : BOOLEAN]

\* A program that is not running knows nothing.
NoJob == [version |-> None, state |-> "dirty", src |-> 0, lib |-> 0, rest |-> 0,
          touched |-> FALSE]
NoAim == [version |-> None, allow |-> FALSE]
Down  == [at |-> "down", version |-> None, pin |-> None, changed |-> FALSE]

\* Only installer i has put its release there, and it has still to make it read-only.
Renamed(i) ==
    /\ rel[job[i].version] # None
    /\ ~sealed[job[i].version]
    /\ \A k \in Installers :
        k # i /\ ipc[k] = "seal" => job[k].version # job[i].version

\* Types; a release that is read-only is there, one installer at most finishes it, and a
\* program at work has a version.
TypeOK ==
    /\ tree \in Trees /\ edits \in Trees /\ state \in States
    /\ committed \subseteq Trees
    /\ org \in Pins
    /\ rel \in [Versions -> Manifests \cup {None}]
    /\ sealed \in [Versions -> BOOLEAN]
    /\ extra \in [Versions -> BOOLEAN]
    /\ current \in Versions \cup {None}
    /\ ipc \in [Installers -> {"idle", "digest", "exists", "lib", "rest", "replace", "seal"}]
    /\ job \in [Installers -> Jobs]
    /\ apc \in [Activators -> {"idle", "organization", "import", "switch"}]
    /\ aim \in [Activators -> Aims]
    /\ svc \in Services
    /\ \A v \in Versions : sealed[v] => rel[v] # None
    /\ \A i \in Installers : ipc[i] = "seal" => Renamed(i)
    /\ \A i \in Installers : ipc[i] # "idle" => job[i].version # None
    /\ \A a \in Activators : apc[a] # "idle" => aim[a].version # None
    /\ svc.at # "down" => svc.version # None

Init ==
    /\ tree = 0 /\ edits = 0 /\ state = "clean" /\ committed = {0}
    /\ org \in [version : Versions, src : {0}]
    /\ rel = [v \in Versions |-> None]
    /\ sealed = [v \in Versions |-> FALSE]
    /\ extra = [v \in Versions |-> FALSE]
    /\ current = None
    /\ ipc = [i \in Installers |-> "idle"]
    /\ job = [i \in Installers |-> NoJob]
    /\ apc = [a \in Activators |-> "idle"]
    /\ aim = [a \in Activators |-> NoAim]
    /\ svc = Down

-----------------------------------------------------------------------------
(* People: the checkout and the organization *)

\* An installation whose digest or copy is still to come sees the new contents.
Touched ==
    [i \in Installers |->
        IF ipc[i] \in {"digest", "exists", "lib", "rest"}
        THEN [job[i] EXCEPT !.touched = TRUE]
        ELSE job[i]]

\* Somebody edits the checkout.
Edit ==
    /\ edits < MaxEdits
    /\ edits' = edits + 1
    /\ tree' = edits + 1
    /\ state' = "dirty"
    /\ job' = Touched
    /\ UNCHANGED <<committed, org, releases, current, ipc, activate, svc>>

\* Somebody commits what is there, or checks out what was committed.
Commit ==
    /\ state = "dirty"
    /\ state' = "clean"
    /\ committed' = committed \cup {tree}
    /\ UNCHANGED <<tree, edits, org, releases, current, install, activate, svc>>

Checkout ==
    /\ state = "clean"
    /\ tree' \in committed \ {tree}
    /\ job' = Touched
    /\ UNCHANGED <<edits, state, committed, org, releases, current, ipc, activate, svc>>

\* The Human pins another control release.
ChangeOrganization ==
    /\ org' \in [version : Versions, src : 0..edits]
    /\ org' # org
    /\ svc' = IF svc.at = "policy" THEN [svc EXCEPT !.changed = TRUE] ELSE svc
    /\ UNCHANGED <<checkout, releases, current, install, activate>>

-----------------------------------------------------------------------------
(* sjg-install *)

\* The installer exits.
ExitInstall(i) ==
    /\ ipc' = [ipc EXCEPT ![i] = "idle"]
    /\ job' = [job EXCEPT ![i] = NoJob]

\* golden_provenance: the state of the checkout.  A dirty one needs --allow-dirty.
ReadState(i) ==
    /\ ipc[i] = "idle"
    /\ \E v \in Versions, allow \in BOOLEAN :
        /\ state = "dirty" => allow
        /\ job' = [job EXCEPT ![i] = [@ EXCEPT !.version = v, !.state = state]]
    /\ ipc' = [ipc EXCEPT ![i] = "digest"]
    /\ UNCHANGED <<checkout, org, releases, current, activate, svc>>

\* golden_provenance: the digest of the checkout.
ReadDigest(i) ==
    /\ ipc[i] = "digest"
    /\ job' = [job EXCEPT ![i].src = tree]
    /\ ipc' = [ipc EXCEPT ![i] = "exists"]
    /\ UNCHANGED <<checkout, org, releases, current, activate, svc>>

\* target.exists, and the staging directory.
CheckTarget(i) ==
    /\ ipc[i] = "exists"
    /\ \/ /\ rel[job[i].version] = None
          /\ ipc' = [ipc EXCEPT ![i] = "lib"]
          /\ job' = job
       \/ /\ rel[job[i].version] # None
          /\ ExitInstall(i)
    /\ UNCHANGED <<checkout, org, releases, current, activate, svc>>

\* The copy of the library.
CopyLibrary(i) ==
    /\ ipc[i] = "lib"
    /\ job' = [job EXCEPT ![i].lib = tree]
    /\ ipc' = [ipc EXCEPT ![i] = "rest"]
    /\ UNCHANGED <<checkout, org, releases, current, activate, svc>>

\* The copy of the rest, the modes of the files and the manifest.
CopyRest(i) ==
    /\ ipc[i] = "rest"
    /\ job' = [job EXCEPT ![i].rest = tree]
    /\ ipc' = [ipc EXCEPT ![i] = "replace"]
    /\ UNCHANGED <<checkout, org, releases, current, activate, svc>>

\* os.replace renames a directory over nothing, never over one that holds files.
\* Variant: the target is replaced whatever it holds.
MayReplaceAny(v) == v \in Versions
MayReplace(v) == rel[v] = None

Replace(i) ==
    LET v == job[i].version IN
    /\ ipc[i] = "replace"
    /\ \/ /\ MayReplace(v)
          /\ rel' = [rel EXCEPT ![v] =
                [src |-> job[i].src, state |-> job[i].state, lib |-> job[i].lib,
                 rest |-> job[i].rest, touched |-> job[i].touched]]
          /\ ipc' = [ipc EXCEPT ![i] = "seal"]
          /\ job' = job
       \/ /\ ~MayReplace(v)
          /\ rel' = rel
          /\ ExitInstall(i)
    /\ UNCHANGED <<checkout, org, sealed, extra, current, activate, svc>>

\* The directories are made read-only, the release's own last.
Seal(i) ==
    /\ ipc[i] = "seal"
    /\ sealed' = [sealed EXCEPT ![job[i].version] = TRUE]
    /\ ExitInstall(i)
    /\ UNCHANGED <<checkout, org, rel, extra, current, activate, svc>>

\* An exception, or the loss of the installer: its staging directory is gone or forgotten,
\* and what was renamed stays as it is.
FailInstall(i) ==
    /\ ipc[i] # "idle"
    /\ ExitInstall(i)
    /\ UNCHANGED <<checkout, org, releases, current, activate, svc>>

-----------------------------------------------------------------------------
(* sjg-activate *)

\* The activator goes on if ok, and otherwise exits.
Proceed(a, ok, next) ==
    /\ apc' = [apc EXCEPT ![a] = IF ok THEN next ELSE "idle"]
    /\ aim' = [aim EXCEPT ![a] = IF ok THEN @ ELSE NoAim]

\* What verify_release accepts.
Verifies(v) == rel[v] # None /\ sealed[v] /\ ~extra[v]

\* The organization pins the release's version and digest.
Pinned(v, pin) == pin.version = v /\ pin.src = rel[v].src

\* Variant: the modes of the directories are not looked at.
AcceptedMutable(v) == rel[v] # None /\ ~extra[v]
Accepted(v) == Verifies(v)

VerifyRelease(a) ==
    /\ apc[a] = "idle"
    /\ \E v \in Versions, allow \in BOOLEAN :
        /\ Accepted(v)
        /\ aim' = [aim EXCEPT ![a] = [version |-> v, allow |-> allow]]
    /\ apc' = [apc EXCEPT ![a] = "organization"]
    /\ UNCHANGED <<checkout, org, releases, current, install, svc>>

\* organization.yaml is read and compared with the manifest.
CheckOrganization(a) ==
    /\ apc[a] = "organization"
    /\ Proceed(a, Pinned(aim[a].version, org), "import")
    /\ UNCHANGED <<checkout, org, releases, current, install, svc>>

\* A program imports code from release v, and writes bytecode into it if it can.
Import(v) == extra' = extra \/ extra' = [extra EXCEPT ![v] = TRUE]

\* The policy is compiled by the release's own code.  A dirty release needs --allow-dirty.
ImportCompiler(a) ==
    LET v == aim[a].version IN
    /\ apc[a] = "import"
    /\ Import(v)
    /\ Proceed(a, aim[a].allow \/ rel[v].state = "clean", "switch")
    /\ UNCHANGED <<checkout, org, rel, sealed, current, install, svc>>

\* The link is made under another name and renamed.
Switch(a) ==
    /\ apc[a] = "switch"
    /\ current' = aim[a].version
    /\ Proceed(a, FALSE, "idle")
    /\ UNCHANGED <<checkout, org, releases, install, svc>>

\* The policy does not compile, the temporary link exists, or the activator is lost.
FailActivate(a) ==
    /\ apc[a] # "idle"
    /\ Proceed(a, FALSE, "idle")
    /\ UNCHANGED <<checkout, org, releases, current, install, svc>>

-----------------------------------------------------------------------------
(* The service *)

\* current/bin/sjg-supervisor resolves its own path, once, and imports its release.
StartService ==
    /\ svc.at = "down"
    /\ current # None
    /\ svc' = [svc EXCEPT !.at = "identity", !.version = current]
    /\ Import(current)
    /\ UNCHANGED <<checkout, org, rel, sealed, current, install, activate>>

\* _release_identity: whether the release is the organization's, and qualified.
\* Variant: releaseQualified is not looked at.
QualifiedAny(v) == v \in Versions
Qualified(v) == rel[v].state = "clean"

ReleaseIdentity ==
    /\ svc.at = "identity"
    /\ svc' = IF Pinned(svc.version, org) /\ Qualified(svc.version)
                THEN [svc EXCEPT !.at = "policy"]
                ELSE Down
    /\ UNCHANGED <<checkout, org, releases, current, install, activate>>

\* load_policy reads organization.yaml again.
LoadPolicy ==
    /\ svc.at = "policy"
    /\ svc' = [svc EXCEPT !.at = "up", !.pin = org]
    /\ UNCHANGED <<checkout, org, releases, current, install, activate>>

\* The service ends, or fails to start.
StopService ==
    /\ svc.at # "down"
    /\ svc' = Down
    /\ UNCHANGED <<checkout, org, releases, current, install, activate>>

-----------------------------------------------------------------------------
People == Edit \/ Commit \/ Checkout \/ ChangeOrganization

InstallStep(i) ==
    \/ ReadState(i) \/ ReadDigest(i) \/ CheckTarget(i) \/ CopyLibrary(i) \/ CopyRest(i)
    \/ Replace(i) \/ Seal(i) \/ FailInstall(i)

ActivateStep(a) ==
    \/ VerifyRelease(a) \/ CheckOrganization(a) \/ ImportCompiler(a) \/ Switch(a)
    \/ FailActivate(a)

ServiceStep == StartService \/ ReleaseIdentity \/ LoadPolicy \/ StopService

Next ==
    \/ People
    \/ \E i \in Installers : InstallStep(i)
    \/ \E a \in Activators : ActivateStep(a)
    \/ ServiceStep

Spec == Init /\ [][Next]_vars

-----------------------------------------------------------------------------
\* An installed release is never replaced, and never made mutable again: target.exists is
\* asked long before os.replace, while another installer of the same version is at work.
InstalledStays ==
    [][\A v \in Versions :
        /\ rel[v] # None => rel'[v] = rel[v]
        /\ sealed[v] => sealed'[v]]_vars

\* The release that "current" names and the one the service runs from are whole and
\* read-only, and no program ran code from a release before it was, whatever installers were
\* interrupted and whoever activates.  The files a release has beyond its manifest are the
\* bytecode of programs that ran from it; verify_release refuses it from then on.
ActiveIsWhole ==
    /\ current # None => rel[current] # None /\ sealed[current]
    /\ svc.at # "down" => sealed[svc.version]
    /\ \A v \in Versions : extra[v] => sealed[v]

\* A service that is up runs the committed contents that the policy it has loaded pins:
\* both parts of the copy, and the digest in the manifest, are of one committed checkout.
\* Excepted are a checkout changed during the installation and an organization changed
\* between the service's two reads of it.
RunsReviewed ==
    svc.at = "up" =>
        LET r == rel[svc.version] IN
        /\ ~r.touched => r.src \in committed /\ r.lib = r.src /\ r.rest = r.src
        /\ ~svc.changed => Pinned(svc.version, svc.pin)
=============================================================================
