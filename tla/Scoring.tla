------------------------------ MODULE Scoring ------------------------------
(***************************************************************************)
(* mm-score, features.rs and weights.rs: what a candidate's observations,   *)
(* its path and the census of the volume say of it.  Every row of the table *)
(* belongs to a group, and a group counts once, by its strongest row: one   *)
(* loop iteration over the observations is one action, in whatever order    *)
(* they were made, and Conclude is the rest of extract_with_window.         *)
(*                                                                         *)
(* A path is its zone and what its file name reads as.  "WindowsRoot" is    *)
(* the part of Zone::WindowsOther directly in \Windows, "TempSubdirectory"  *)
(* the part of Zone::WindowsTemp below a subdirectory.  Weights are in      *)
(* tenths.                                                                  *)
(***************************************************************************)
EXTENDS Integers, Sequences, FiniteSets, Functions, SequencesExt, FiniteSetsExt

CONSTANTS
    Zones,              \* where candidates may lie
    Names,              \* what their names may read as
    Statements,         \* what may be observed of one
    MaxObservations,    \* bound: observations of a candidate
    GroupOf, LogLR,     \* the rows of Weights: the table is an argument of the code
    Censuses            \* what the baseline and the window may say of one

VARIABLES
    zone,               \* zone::classify of Candidate.path
    name,               \* of its file name
    executable,         \* is_executable_extension()
    observations,       \* Candidate.observations, as a set
    todo,               \* those the loop has not come to
    by_group,           \* EvidenceSet: the row that stands for each group
    compact_os,         \* the first CompactOsCompressed in the order of the Vec
    census,             \* Baseline and IncidentWindow, once they are asked
    done

path == << zone, name, executable >>
vars == << path, observations, todo, by_group, compact_os, census, done >>

Windows == {"WindowsOther", "WindowsRoot"}
Conventional == {"SystemDir", "WinSxs", "ProgramFiles"} \cup Windows
OfAUser == {"UserAppData", "UserDownloads", "UserProfile"}
WindowsTemp == {"WindowsTemp", "TempSubdirectory"}
Scratch == {"UserTemp", "VolumeRoot", "RecycleBin"} \cup WindowsTemp
AllZones == Conventional \cup OfAUser \cup Scratch \cup {"ProgramData", "Other", "Unlocated"}
SystemNames == {"svchost", "explorer"}
AllNames == SystemNames \cup {"decoy", "random", "plain"}

PathAssumption == Zones \subseteq AllZones /\ Names \subseteq AllNames
BoundAssumption == MaxObservations \in Nat

-----------------------------------------------------------------------------
(* The set of the rows that stand, one for each group.                      *)
Abs(n) == IF n < 0 THEN -n ELSE n

Stand(set, row) ==
    [g \in DOMAIN set \cup {GroupOf[row]} |-> IF g = GroupOf[row] THEN row ELSE set[g]]

(* Fault: an accusation replaces whatever a group has, however strong.      *)
OfferAccusation(set, row) ==
    IF GroupOf[row] \in DOMAIN set /\ LogLR[set[GroupOf[row]]] >= LogLR[row]
    THEN set ELSE Stand(set, row)

(* EvidenceSet::offer                                                       *)
Offer(set, row) ==
    IF GroupOf[row] \in DOMAIN set /\ Abs(LogLR[set[GroupOf[row]]]) >= Abs(LogLR[row])
    THEN set ELSE Stand(set, row)

OfferAll(set, rows) ==
    LET upto[i \in 0..Len(rows)] ==
            IF i = 0 THEN set ELSE Offer(upto[i - 1], rows[i])
    IN upto[Len(rows)]

-----------------------------------------------------------------------------
(* from_observations: the rows one observation offers.  A statement is a    *)
(* kind and what the kind carries.                                          *)
Is(kind) == [kind |-> kind]
Signed(status) == [kind |-> "Signature", status |-> status]
Persists(how, deleted) == [kind |-> "Persistence", how |-> how, deleted |-> deleted]

When(condition, row) == IF condition THEN << row >> ELSE << >>
Located == zone # "Unlocated"
Managed(obs) == Is("ManagedAssembly") \in obs
Autostart(obs) == \E o \in obs : o.kind = "Persistence" /\ o.how # "ComServer"

NoTrustedSignature(obs) ==
    IF zone \notin Conventional THEN "unsigned_in_user_zone"
    ELSE IF Managed(obs) THEN "unsigned_managed_assembly"
    ELSE IF zone = "ProgramFiles" THEN "unsigned_in_program_files"
    ELSE "unsigned_in_system_zone"

(* Fault: a self-signed file is judged by its certificate alone.            *)
SignedByItself(obs) == << "signature_self_signed" >>

SelfSigned(obs) == << "signature_self_signed", NoTrustedSignature(obs) >>

Statuses ==
    {"CatalogMicrosoft", "CatalogThirdParty", "EmbeddedValid", "Invalid", "SelfSigned",
     "Untrusted", "Unsigned", "Expired", "Unknown", "CompactOsUnknown"}

SignatureRows(status, obs) ==
    CASE status = "CatalogMicrosoft" -> << "signed_microsoft_catalog" >>
      [] status \in {"CatalogThirdParty", "EmbeddedValid"} -> << "signed_trusted_publisher" >>
      [] status = "Invalid" -> << "signature_invalid" >>
      [] status = "SelfSigned" -> SelfSigned(obs)
      [] status \in {"Untrusted", "Unsigned"} -> << NoTrustedSignature(obs) >>
      [] status = "Expired" -> << "signature_expired" >>
      [] status \in {"Unknown", "CompactOsUnknown"} -> << "signature_unverifiable" >>

PersistenceFeature ==
    [Ifeo |-> "persistence_ifeo", Winlogon |-> "persistence_winlogon",
     ComHijack |-> "persistence_com_hijack", ScheduledTask |-> "persistence_scheduled_task",
     Service |-> "persistence_service", RunKey |-> "persistence_run_key",
     ComServer |-> "persistence_com_server"]

PersistenceRows(o) ==
    LET aimed == o.how \notin {"ComServer", "ComHijack"}
    IN When(o.deleted, "persistence_deleted_entry")
         \o << PersistenceFeature[o.how] >>
         \o When(aimed /\ zone \in OfAUser, "persistence_targets_user_profile")
         \o When(aimed /\ zone \in Scratch, "persistence_targets_scratch_space")

VersionResourceRows(obs) ==
    IF zone \in {"SystemDir", "WinSxs"} THEN << "no_version_resource" >>
    ELSE When(zone \notin {"RecycleBin", "Other", "Unlocated"} /\ Autostart(obs),
              "autostart_target_without_version_resource")

Plainly ==
    [Quarantined |-> "quarantined_by_av", AvDetected |-> "av_detection_logged",
     YaraMatch |-> "yara_match", RichHeaderChecksumInvalid |-> "rich_header_checksum_invalid",
     Timestomped |-> "timestomped", Packed |-> "high_entropy_code_section",
     Malformed |-> "pe_structural_anomaly", RestrictedZone |-> "downloaded_from_restricted_zone",
     InternetZone |-> "downloaded_from_internet_zone",
     OtherUrlZone |-> "download_origin_recorded",
     UnbackedExecutableMemory |-> "unbacked_executable_memory",
     NotAComponentStoreLink |-> "installed_outside_component_store",
     AfterItsDirectory |-> "arrived_after_its_directory"]

RowsOf(o, obs) ==
    CASE o.kind \in DOMAIN Plainly -> << Plainly[o.kind] >>
      [] o.kind = "Signature" -> SignatureRows(o.status, obs)
      [] o.kind = "Persistence" -> PersistenceRows(o)
      [] o.kind = "NoVersionResource" -> VersionResourceRows(obs)
      [] o.kind = "ProcessRunning" ->
           When(zone \notin Conventional, "running_from_user_directory")
      [] o.kind = "RenamedCopyInAnotherZone" -> << "shared_digest_renamed_copy" >>
      [] OTHER -> << >>

-----------------------------------------------------------------------------
(* from_path                                                                *)
Location ==
    [UserTemp |-> "executable_in_user_temp", VolumeRoot |-> "executable_at_volume_root",
     RecycleBin |-> "executable_in_recycle_bin", WindowsTemp |-> "executable_in_windows_temp",
     TempSubdirectory |-> "executable_in_windows_temp",
     UserAppData |-> "executable_in_user_appdata",
     UserDownloads |-> "executable_in_user_downloads",
     ProgramData |-> "executable_in_programdata", UserProfile |-> "executable_in_user_profile",
     WindowsOther |-> "executable_in_windows_directory",
     WindowsRoot |-> "executable_in_windows_directory",
     Other |-> "executable_outside_standard_zones"]

Home(n) == {"SystemDir", "WinSxs"} \cup (IF n = "explorer" THEN {"WindowsRoot"} ELSE {})
Impersonates == name \in SystemNames /\ Located /\ zone \notin Home(name)

PathRows ==
    (IF executable /\ zone \in DOMAIN Location THEN << Location[zone] >> ELSE << >>)
      \o When(Impersonates, "system_binary_name_outside_system_dir")
      \o When(name = "decoy", "double_extension")
      \o When(name = "random", "random_looking_name")

(* from_baseline: a census counts the files of this name, and those of them *)
(* in a conventional zone.                                                  *)
Counted(obs) == Is("FileExists") \in obs \/ Is("FileDeletedHere") \in obs
One(b) == IF b THEN 1 ELSE 0

(* Fault: a file in a conventional zone vouches for itself.                 *)
VouchesForItself(c) == c.conventional

Elsewhere(c) == c.conventional - One(zone \in Conventional)

NameRows(c, obs) ==
    CASE c.named \in {0, 1} /\ c.named <= One(Counted(obs)) -> << "name_unique_on_machine" >>
      [] c.named >= 3 /\ Elsewhere(c) > 0 ->
           << IF Impersonates THEN "system_binary_name_outside_system_dir"
              ELSE "name_recurs_on_machine" >>
      [] OTHER -> << >>

BaselineRows(c, obs) ==
    When(executable /\ c.lone, "lone_executable_among_documents")
      \o When(executable /\ c.rare /\ Located /\ zone \notin Conventional,
              "executable_rare_for_zone_on_this_machine")
      \o NameRows(c, obs)

(* from_compact_os: compressed where hardly anything is, and unchecked for  *)
(* that reason.  It asks the first statement of its kind, and no other.     *)
CompactOs == {"CompactOsReadable", "CompactOsUnreadable"}
FirstCompactOs(o) ==
    IF compact_os = "none" /\ o.kind \in CompactOs THEN o.kind ELSE compact_os

CompactOsRows(c, obs, first) ==
    When(/\ executable /\ c.compresses_little
         /\ \/ first = "CompactOsUnreadable"
            \/ first = "CompactOsReadable" /\ Signed("CompactOsUnknown") \in obs,
         "compact_os_compressed_executable")

(* from_lifecycle, from_incident_window: times are 1, 2, ..., NoTime is     *)
(* none, and two instants are within SELF_DELETE_WINDOW if no other is      *)
(* between.                                                                 *)
NoTime == 0
Executed(when, inferred) == [kind |-> "Executed", when |-> when, inferred |-> inferred]
Deleted(when) == [kind |-> "FileDeleted", when |-> when]
Ran(obs, inferred) ==
    { o.when : o \in { e \in obs : e.kind = "Executed" /\ e.inferred = inferred } } \ {NoTime}
LastExecution(obs) == IF Ran(obs, FALSE) # {} THEN Ran(obs, FALSE) ELSE Ran(obs, TRUE)
Deletions(obs) == { o.when : o \in { d \in obs : d.kind = "FileDeleted" } } \ {NoTime}

LifecycleRows(c, obs) ==
    LET ran == LastExecution(obs)
        gone == Deletions(obs)
    IN IF ran # {} /\ gone # {} /\ Min(gone) - Max(ran) \in {0, 1}
       THEN << "deleted_soon_after_execution" >>
       ELSE When(/\ \E o \in obs : o.kind = "Executed"
                 /\ Is("FileExists") \notin obs /\ Located /\ c.walked,
                 IF zone = "TempSubdirectory" THEN "executed_but_now_absent_from_scratch_space"
                 ELSE "executed_but_now_absent")

Concluded(c, obs, first) ==
    PathRows
      \o (IF c.usable THEN BaselineRows(c, obs) \o CompactOsRows(c, obs, first) ELSE << >>)
      \o LifecycleRows(c, obs)
      \o When(c.in_window, "created_in_incident_window")

(* feature::ALL, of which the table has each: the rows offered above.       *)
NameFrequency == {"name_unique_on_machine", "name_recurs_on_machine"}
Features ==
    NameFrequency \cup Range(Plainly) \cup Range(PersistenceFeature) \cup Range(Location)
      \cup {"signed_microsoft_catalog", "signed_trusted_publisher", "signature_invalid",
            "signature_self_signed", "signature_expired", "signature_unverifiable",
            "unsigned_in_user_zone", "unsigned_managed_assembly",
            "unsigned_in_program_files", "unsigned_in_system_zone",
            "compact_os_compressed_executable", "no_version_resource",
            "autostart_target_without_version_resource", "persistence_deleted_entry",
            "persistence_targets_user_profile", "persistence_targets_scratch_space",
            "running_from_user_directory", "shared_digest_renamed_copy",
            "system_binary_name_outside_system_dir", "double_extension",
            "random_looking_name", "lone_executable_among_documents",
            "executable_rare_for_zone_on_this_machine", "deleted_soon_after_execution",
            "executed_but_now_absent", "executed_but_now_absent_from_scratch_space",
            "created_in_incident_window"}

(* No group accuses and excuses equally strongly, and how often a name is   *)
(* found is a group of its own.                                             *)
TableAssumption ==
    /\ IsFiniteSet(DOMAIN GroupOf)
    /\ Features \subseteq DOMAIN GroupOf
    /\ \A row \in Features : LogLR[row] \in Int
    /\ \A row, other \in Features :
         GroupOf[row] = GroupOf[other] /\ Abs(LogLR[row]) = Abs(LogLR[other])
           => LogLR[row] = LogLR[other]
    /\ \A row \in Features : GroupOf[row] = "name_frequency" => row \in NameFrequency

(* What is said of a signature counts once; an unfinished check counts      *)
(* nothing, and tampering as much as anything that accuses.                 *)
UnsignedRows ==
    {"unsigned_in_user_zone", "unsigned_managed_assembly", "unsigned_in_program_files",
     "unsigned_in_system_zone"}
AccusingRows == UnsignedRows \cup {"signature_self_signed", "compact_os_compressed_executable"}
SignatureAssumption ==
    /\ LogLR["signed_microsoft_catalog"] <= LogLR["signed_trusted_publisher"]
    /\ LogLR["signed_trusted_publisher"] <= 0
    /\ LogLR["signature_unverifiable"] = 0
    /\ \A row \in AccusingRows : 0 <= LogLR[row] /\ LogLR[row] <= LogLR["signature_invalid"]
    /\ \A row \in UnsignedRows : LogLR["compact_os_compressed_executable"] <= LogLR[row]
    /\ \A row \in AccusingRows \cup {"signed_microsoft_catalog", "signed_trusted_publisher",
                                    "signature_unverifiable", "signature_invalid"} :
         GroupOf[row] = "signature"

StatementAssumption ==
    \A o \in Statements :
        /\ o.kind = "Signature" => o.status \in Statuses
        /\ o.kind = "Persistence" => o.how \in DOMAIN PersistenceFeature

CensusAssumption ==
    \A c \in Censuses : c.usable => c.named \in Nat /\ c.conventional \in Nat

-----------------------------------------------------------------------------
NotAsked == [usable |-> FALSE, walked |-> FALSE, in_window |-> FALSE]

(* The census has counted this file if the walk has seen it.                *)
Possible(c) ==
    /\ c.conventional <= c.named
    /\ Counted(observations) =>
         c.walked /\ c.named > 0 /\ (zone \in Conventional => c.conventional > 0)

Init ==
    /\ zone \in Zones /\ name \in Names /\ executable \in BOOLEAN
    /\ observations \in UNION { kSubset(n, Statements) : n \in 0..MaxObservations }
    /\ todo = observations
    /\ by_group = << >>
    /\ compact_os = "none"
    /\ census = NotAsked
    /\ done = FALSE

Observe ==
    /\ ~done
    /\ \E o \in todo :
         /\ by_group' = OfferAll(by_group, RowsOf(o, observations))
         /\ compact_os' = FirstCompactOs(o)
         /\ todo' = todo \ {o}
    /\ UNCHANGED << path, observations, census, done >>

Conclude ==
    /\ ~done /\ todo = {}
    /\ \E c \in Censuses :
         /\ c.usable => Possible(c)
         /\ census' = c
         /\ by_group' = OfferAll(by_group, Concluded(c, observations, compact_os))
    /\ done' = TRUE
    /\ UNCHANGED << path, observations, todo, compact_os >>

Next == Observe \/ Conclude

Spec == Init /\ [][Next]_vars

-----------------------------------------------------------------------------
(* What observations are worth by definition: every group by the strongest  *)
(* of all the rows offered in it, if `first` of what is said of Compact OS  *)
(* is heard.                                                                *)
Offered(obs, first) ==
    (UNION { ToSet(RowsOf(o, obs)) : o \in obs }) \cup ToSet(Concluded(census, obs, first))
SaidOfCompactOs(obs) ==
    LET said == { o.kind : o \in obs } \cap CompactOs
    IN IF said = {} THEN {"none"} ELSE said
Strongest(rows) ==
    [g \in { GroupOf[row] : row \in rows } |->
       LET of == { row \in rows : GroupOf[row] = g }
       IN CHOOSE r \in of : \A s \in of : Abs(LogLR[s]) <= Abs(LogLR[r])]
Each(set) == [g \in DOMAIN set |-> LogLR[set[g]]]
Total(worth) == MapThenSumSet(LAMBDA g : worth[g], DOMAIN worth)
Worth(rows) == Total(Each(Strongest(rows)))

(* A candidate's score is a function of what was observed of it, not of the *)
(* order the artifacts were read in, and no claim is counted twice; but for *)
(* one: of two records of a path that disagree whether its compressed bytes *)
(* can be read, the first is heard.                                         *)
ScoreIsTheSameInAnyOrder ==
    done => \E first \in SaidOfCompactOs(observations) :
                Total(Each(by_group)) = Worth(Offered(observations, first))

(* "compressing a file never scores more than reading it unsigned",         *)
(* "stapling on your own certificate never lowers the score" and "tampering *)
(* is never out-scored by an unrecognised authority" (features.rs:1840,     *)
(* 2373, 2403), for the same file whatever else is known of it.             *)
With(status) ==
    Worth(Offered({ o \in observations : o.kind # "Signature" } \cup {Signed(status)},
                  compact_os))
Worsening == << "CatalogMicrosoft", "EmbeddedValid", "Unknown", "CompactOsUnknown", "Unsigned",
                "SelfSigned", "Invalid" >>
SignatureVerdictsAreOrdered ==
    done =>
        /\ LET worth == [i \in DOMAIN Worsening |-> With(Worsening[i])]
           IN \A i \in 2..Len(worth) : worth[i - 1] <= worth[i]
        /\ With("Untrusted") <= With("SelfSigned")

(* A name is called unique only if no other file has it, and recurring only *)
(* if another file, in a conventional place, has it; a file that poses as a *)
(* system binary is never excused by the one it poses as.                   *)
NamesAreJudgedByOtherFiles ==
    (done /\ census.usable /\ "name_frequency" \in DOMAIN by_group) =>
        LET here == One(Counted(observations))
            verdict == by_group["name_frequency"]
        IN /\ verdict = "name_unique_on_machine" => census.named = here
           /\ verdict = "name_recurs_on_machine" =>
                /\ ~Impersonates
                /\ census.conventional > One(zone \in Conventional /\ here = 1)
=============================================================================
