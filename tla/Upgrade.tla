------------------------------ MODULE Upgrade ------------------------------
(***************************************************************************)
(* Upgrade: a run downloads, verifies and installs the newest release; an  *)
(* upload brings a package itself.  Either becomes a task in the           *)
(* background if none is running.  The status is kept in memory and is     *)
(* all that keeps two tasks apart.                                         *)
(***************************************************************************)
EXTENDS Naturals, Sequences, FiniteSets, SequencesExt

CONSTANTS
    Jobs,            \* requests for an upgrade and the tasks they become, used again
    Releases,        \* releases the service may publish
    Listings,        \* sequences of releases it may list
    Versions,        \* versions the program may have
    MaxFaults        \* bound on panics and restarts

Formats == {"rpm", "deb"}

\* A version is its numbers, three or four, and whether it ends in -test.
UpgradeAssumption ==
    /\ MaxFaults \in Nat
    /\ \A v \in Versions \cup {r.version : r \in Releases} :
          v.parts \in Seq(Nat) /\ Len(v.parts) \in {3, 4} /\ v.test \in BOOLEAN
    /\ \A r \in Releases :
          r.draft \in BOOLEAN /\ r.prerelease \in BOOLEAN /\ r.assets \subseteq Formats \cup {"binary", "checksums"}
    /\ Listings \subseteq Seq(Releases)

VARIABLES
    tools,         \* package formats whose tool is installed
    preferred,     \* the format of this system: a set with one format or none
    current,       \* the version that runs
    status,        \* upgradeStatus.State
    job,           \* where a job is and its package
    listing,       \* what the release of a job was chosen from
    faults

uvars == <<tools, preferred, current, status, job, listing, faults>>
host == <<tools, preferred, current>>

NoPackage == [format |-> "none", genuine |-> FALSE, database |-> FALSE]
NoJob == [at |-> "idle", upload |-> FALSE, release |-> {}, package |-> NoPackage]
Outlived == [at |-> "outlived", upload |-> FALSE, release |-> {}, package |-> NoPackage]

UpgradeInit ==
    /\ tools \in SUBSET Formats
    /\ preferred \in {{}} \cup {{f} : f \in Formats}
    /\ current \in Versions
    /\ status = "idle"
    /\ job = [j \in Jobs |-> NoJob]
    /\ listing = <<>>
    /\ faults = 0

-----------------------------------------------------------------------------
\* Versions and releases.
Padded(v) == IF Len(v.parts) < 4 THEN Append(v.parts, 0) ELSE v.parts

\* Mutant: any greater number will do.
NewerSomewhere(a, b) == \E i \in 1 .. 4 : Padded(a)[i] > Padded(b)[i]

\* releaseVersionIsNewer: by numbers; the release of a test version is newer than it.
Newer(a, b) ==
    \/ \E i \in 1 .. 4 : /\ Padded(a)[i] > Padded(b)[i]
                         /\ \A k \in 1 .. i - 1 : Padded(a)[k] = Padded(b)[k]
    \/ Padded(a) = Padded(b) /\ b.test /\ ~a.test

IsTestBuild(v) == Len(v.parts) = 4 \/ v.test

\* A release a test build may be upgraded to.
Eligible(r) == ~r.draft /\ r.prerelease /\ ~r.version.test /\ IsTestBuild(r.version)

\* The newest of them in the order of the list, as a set with one element or none.
Latest(list) ==
    FoldLeft(LAMBDA best, r :
                IF Eligible(r) /\ \A b \in best : Newer(r.version, b.version) THEN {r} ELSE best,
             {}, list)

Missing(r) == {"binary", "rpm", "deb"} \ r.assets

\* selectUpgradePackage: the format of the system, then deb, then rpm, by the tools.
SelectedFormat ==
    IF preferred # {} /\ preferred \subseteq tools THEN preferred
    ELSE IF "deb" \in tools THEN {"deb"} ELSE tools

-----------------------------------------------------------------------------
At(j, place) == job[j].at = place
Go(j, place) == job' = [job EXCEPT ![j].at = place]
Quiet == UNCHANGED <<host, faults>>

Begin(j, place) ==
    /\ status # "running"
    /\ status' = "running"
    /\ Go(j, place)

\* Mutant: only the status of a run is looked at.
BeginUploadAnyway(j) ==
    /\ status' = "running"
    /\ Go(j, "installing")

BeginUpload(j) == Begin(j, "installing")

\* upgradeRunHandler and startUpgrade.
Run(j) ==
    /\ At(j, "idle")
    /\ Begin(j, "started")
    /\ UNCHANGED listing
    /\ Quiet

\* The status after a task.
End(j, state) ==
    /\ status' = state
    /\ job' = [job EXCEPT ![j] = NoJob]

Running == {"started", "backed", "chosen", "selected", "downloaded", "verified", "installing"}

\* A step of a task fails.
Fail(j) ==
    /\ job[j].at \in Running
    /\ End(j, "failed")
    /\ UNCHANGED listing
    /\ Quiet

Backup(j) ==
    /\ At(j, "started")
    /\ Go(j, "backed")
    /\ UNCHANGED <<status, listing>>
    /\ Quiet

\* fetchLatestUpgradeRelease: a test build chooses from the list, another asks for the
\* latest release; then the assets must be complete.
Choose(j, list) ==
    /\ At(j, "backed")
    /\ listing' = list
    /\ \E r \in (IF IsTestBuild(current) THEN Latest(list) ELSE Range(list)) :
          /\ Missing(r) = {}
          /\ job' = [job EXCEPT ![j] = [@ EXCEPT !.at = "chosen", !.release = {r}]]
    /\ UNCHANGED status
    /\ Quiet

Select(j) ==
    /\ At(j, "chosen")
    /\ \E f \in SelectedFormat :
          job' = [job EXCEPT ![j] = [@ EXCEPT !.at = "selected", !.package.format = f]]
    /\ UNCHANGED <<status, listing>>
    /\ Quiet

\* downloadFile, a package that is not empty and not too large: the right one or not,
\* with files of the database or not.
Download(j, genuine, database) ==
    /\ At(j, "selected")
    /\ job' = [job EXCEPT ![j].at = "downloaded", ![j].package.genuine = genuine,
                          ![j].package.database = database]
    /\ UNCHANGED <<status, listing>>
    /\ Quiet

\* verifyPackageChecksum: the entry of the package exists and is its sha256.
ChecksumFits(j) == job[j].package.genuine /\ \A r \in job[j].release : "checksums" \in r.assets

Verify(j) ==
    /\ At(j, "downloaded")
    /\ ChecksumFits(j)
    /\ Go(j, "verified")
    /\ UNCHANGED <<status, listing>>
    /\ Quiet

\* validateUpgradePackageContents
ContentsFit(j) == ~job[j].package.database

Validate(j) ==
    /\ At(j, "verified")
    /\ ContentsFit(j)
    /\ Go(j, "installing")
    /\ UNCHANGED <<status, listing>>
    /\ Quiet

\* The package manager is done.
Install(j) ==
    /\ At(j, "installing")
    /\ End(j, "succeeded")
    /\ UNCHANGED listing
    /\ Quiet

\* upgradeUploadHandler has a package of a known format.
Upload(j, format, database) ==
    /\ At(j, "idle")
    /\ job' = [job EXCEPT ![j] =
                  [at |-> "uploaded", upload |-> TRUE, release |-> {},
                   package |-> [format |-> format, genuine |-> FALSE, database |-> database]]]
    /\ UNCHANGED <<status, listing>>
    /\ Quiet

\* An upload of a wrong size, with files of the database or beside a running task.
RefuseUpload(j) ==
    /\ At(j, "uploaded")
    /\ job' = [job EXCEPT ![j] = NoJob]
    /\ UNCHANGED <<status, listing>>
    /\ Quiet

\* startUploadedUpgrade
StartUpload(j) ==
    /\ At(j, "uploaded")
    /\ ContentsFit(j) /\ job[j].package.format \in tools
    /\ BeginUpload(j)
    /\ UNCHANGED listing
    /\ Quiet

\* A panic of a run is recovered.
Recover(j) == End(j, "failed")

Panic(j) ==
    /\ faults < MaxFaults
    /\ faults' = faults + 1
    /\ job[j].at \in Running /\ ~job[j].upload
    /\ Recover(j)
    /\ UNCHANGED <<host, listing>>

\* Package managers, each in a unit of systemd with a process of its own.
Units == {j \in Jobs : job[j].at \in {"installing", "outlived"}}

\* The process ends: the package that is being installed restarts it, or the task of an
\* upload panics.  The version may be that of the package.  A package manager may outlive
\* the process; the next one knows nothing of it.
Restart ==
    /\ faults < MaxFaults
    /\ faults' = faults + 1
    /\ status' = "idle"
    /\ \E left \in SUBSET Units :
          job' = [j \in Jobs |-> IF j \in left THEN Outlived ELSE NoJob]
    /\ current' \in {current} \cup {r.version : r \in UNION {job[j].release : j \in Jobs}}
    /\ UNCHANGED <<tools, preferred, listing>>

UnitEnds(j) ==
    /\ At(j, "outlived")
    /\ job' = [job EXCEPT ![j] = NoJob]
    /\ UNCHANGED <<status, listing>>
    /\ Quiet

Step(j) ==
    \/ UnitEnds(j)
    \/ Run(j) \/ Fail(j) \/ Backup(j) \/ Select(j) \/ Verify(j) \/ Validate(j) \/ Install(j)
    \/ RefuseUpload(j) \/ StartUpload(j) \/ Panic(j)
    \/ \E list \in Listings : Choose(j, list)
    \/ \E yes, database \in BOOLEAN : Download(j, yes, database)
    \/ \E f \in Formats, database \in BOOLEAN : Upload(j, f, database)

UpgradeNext == Restart \/ \E j \in Jobs : Step(j)

UpgradeSpec == UpgradeInit /\ [][UpgradeNext]_uvars

-----------------------------------------------------------------------------
Package == [format : Formats \cup {"none"}, genuine : BOOLEAN, database : BOOLEAN]
Task == [at : {"idle", "uploaded", "outlived"} \cup Running, upload : BOOLEAN, release : SUBSET Releases,
         package : Package]

UpgradeTypeOK ==
    /\ tools \subseteq Formats /\ preferred \subseteq Formats
    /\ status \in {"idle", "running", "failed", "succeeded"}
    /\ job \in [Jobs -> Task]
    /\ faults \in 0 .. MaxFaults

\* The status says running exactly while one task of this process goes on, of a run or of
\* an upload, also after a panic: neither do two tasks run nor does a lost one block all
\* others.  A package manager that outlived the process before may go on beside it.
RunningIsReal ==
    Cardinality({j \in Jobs : job[j].at \in Running}) = IF status = "running" THEN 1 ELSE 0

\* The greater of two versions of four numbers, read from the left to their first
\* difference; said without releaseVersionIsNewer.
Exceeds(a, b) ==
    LET differ == {i \in 1 .. 4 : a.parts[i] # b.parts[i]}
    IN  \E i \in differ : (\A k \in differ : i <= k) /\ a.parts[i] > b.parts[i]

\* A test build is offered an eligible release, and no eligible one of the list has a
\* greater version, in whatever order the list has them.
NewestIsOffered ==
    \A j \in Jobs : IsTestBuild(current) =>
        \A r \in job[j].release :
            Eligible(r) /\ \A s \in Range(listing) : Eligible(s) => ~Exceeds(s.version, r.version)
=============================================================================
